--------------------------- MODULE ChannelsProofs ---------------------------
(***************************************************************************)
(* Proofs about Channels, for every class and number of wrappers, tasks,   *)
(* items and bits, and every capacity and trigger level.                   *)
(*                                                                         *)
(* None of the properties is inductive alone.  That no handle dangles      *)
(* needs that calls, set members and the timer task only remember objects  *)
(* that exist; that items are conserved needs that the contents of objects *)
(* and the loads of calls are sequences of distinct items and that a send  *)
(* of anything but bytes is of one item; the capacity of a queue set needs *)
(* in turn that its items are distinct.                                    *)
(***************************************************************************)
EXTENDS Channels, FiniteSetTheorems, SequenceTheorems, TLAPS

-----------------------------------------------------------------------------
(* The inductive invariant.                                                *)

(* What a call in progress looks like in each class: a kernel object that  *)
(* exists, distinct items to send, one item at a time unless bytes are     *)
(* sent, room for one unit unless units are; a wait is for some bits, and  *)
(* sync is for all of its bits.                                            *)
Meant(c) ==
  /\ c \in Calls
  /\ c.op = "idle" => c = Idle
  /\ c.op # "idle" => c.h \in alive
  /\ IsInjective(c.load)
  /\ c.op \in {"send", "front"} => ~Bitwise /\ (class \notin Streams => Len(c.load) = 1)
  /\ c.op \notin {"send", "front"} => c.load = <<>>
  /\ c.op \in {"receive", "peek"} =>
       ~Bitwise /\ (class \notin Streams \cup {"message"} => c.room = 1)
  /\ c.op \in {"wait", "sync"} =>
       Bitwise /\ c.want # {} /\ (c.op = "sync" => "all" \in c.how)
CallsMeant == \A t \in Tasks : Meant(call[t])

(* A handle that is not null is the handle of one constructed wrapper, and *)
(* no kernel object is without one.                                        *)
KernelOwned ==
  /\ \A o \in Objects : handle[o] # None => o \in built /\ handle[o] \in alive
  /\ \A h \in alive : \E o \in Objects : \A s \in Objects : handle[s] = h <=> s = o

(* What a member of a set or the timer task remembers still exists.        *)
RemembersAlive ==
  /\ \A i \in Items : joined[i] # None => class = "set" /\ joined[i] \in alive
  /\ deferred # None => Bitwise /\ deferred.h \in alive

(* The items are shared out between nobody (p), the tasks, in their hands  *)
(* or in their calls (w), and the kernel objects (k).                      *)
Sharing(p, w, k) ==
  /\ \A i \in Items : i \in p \/ (\E t \in Tasks : i \in w[t]) \/ \E h \in Handles : i \in k[h]
  /\ \A t \in Tasks : p \cap w[t] = {}
  /\ \A h \in Handles : p \cap k[h] = {}
  /\ \A t \in Tasks, h \in Handles : w[t] \cap k[h] = {}
  /\ \A t, u \in Tasks : t # u => w[t] \cap w[u] = {}
  /\ \A g, h \in Handles : g # h => k[g] \cap k[h] = {}
With == [t \in Tasks |-> own[t] \cup ToSet(call[t].load)]
Kept == [h \in Handles |-> ToSet(content[h])]
Shared ==
  ~Bitwise =>
    /\ Sharing(pool, With, Kept)
    /\ \A t \in Tasks : own[t] \cap ToSet(call[t].load) = {}
    /\ \A h \in Handles : IsInjective(content[h])

IInv == TypeOK /\ KernelOwned /\ CallsMeant /\ RemembersAlive /\ Shared /\ NoEventLost

-----------------------------------------------------------------------------
(* Sequences of distinct items: what concatenating and cutting them does   *)
(* to the items they hold and to their length.                             *)

LEMMA SetOf ==
  ASSUME NEW S, NEW q \in Seq(S)
  PROVE  /\ ToSet(q) \subseteq S
         /\ \A x : x \in ToSet(q) <=> \E k \in 1..Len(q) : q[k] = x
BY LenProperties, ElementOfSeq DEF ToSet

LEMMA EmptySetOf == ToSet(<<>>) = {} /\ IsInjective(<<>>)
BY DEF ToSet, IsInjective

LEMMA UnitSetOf ==
  ASSUME NEW S, NEW x \in S
  PROVE  <<x>> \in Seq(S) /\ ToSet(<<x>>) = {x} /\ IsInjective(<<x>>)
BY DEF ToSet, IsInjective

LEMMA ConcatSetOf ==
  ASSUME NEW S, NEW p \in Seq(S), NEW q \in Seq(S)
  PROVE  /\ p \o q \in Seq(S)
         /\ ToSet(p \o q) = ToSet(p) \cup ToSet(q)
<1> DEFINE pq == p \o q
<1>1. pq \in Seq(S) /\ Len(pq) = Len(p) + Len(q)
  BY ConcatProperties
<1>2. Len(p) \in Nat /\ Len(q) \in Nat
  BY LenProperties
<1>3. \A k \in 1..(Len(p) + Len(q)) :
        pq[k] = IF k <= Len(p) THEN p[k] ELSE q[k - Len(p)]
  BY ConcatProperties
<1> HIDE DEF pq
<1>4. ASSUME NEW x \in ToSet(pq) PROVE x \in ToSet(p) \cup ToSet(q)
  <2>1. PICK k \in 1..(Len(p) + Len(q)) : pq[k] = x
    BY <1>1, SetOf
  <2>2. CASE k <= Len(p)
    BY <1>2, <1>3, <2>1, <2>2, SetOf
  <2>3. CASE k > Len(p)
    <3>1. k - Len(p) \in 1..Len(q)
      BY <1>2, <2>3
    <3>2. q[k - Len(p)] = x
      BY <1>2, <1>3, <2>1, <2>3
    <3> QED BY <3>1, <3>2, SetOf
  <2> QED BY <1>2, <2>2, <2>3
<1>5. ASSUME NEW x \in ToSet(p) PROVE x \in ToSet(pq)
  <2>1. PICK k \in 1..Len(p) : p[k] = x
    BY SetOf
  <2>2. k \in 1..(Len(p) + Len(q)) /\ pq[k] = x
    BY <1>2, <1>3, <2>1
  <2> QED BY <1>1, <2>2, SetOf
<1>6. ASSUME NEW x \in ToSet(q) PROVE x \in ToSet(pq)
  <2>1. PICK k \in 1..Len(q) : q[k] = x
    BY SetOf
  <2>2. k + Len(p) \in 1..(Len(p) + Len(q)) /\ pq[k + Len(p)] = x
    BY <1>2, <1>3, <2>1
  <2> QED BY <1>1, <2>2, SetOf
<1> QED BY <1>1, <1>4, <1>5, <1>6 DEF pq

LEMMA ConcatInjective ==
  ASSUME NEW S, NEW p \in Seq(S), NEW q \in Seq(S),
         IsInjective(p), IsInjective(q), ToSet(p) \cap ToSet(q) = {}
  PROVE  IsInjective(p \o q)
<1>1. p \o q \in Seq(S) /\ Len(p \o q) = Len(p) + Len(q)
  BY ConcatProperties
<1>2. Len(p) \in Nat /\ Len(q) \in Nat /\ DOMAIN p = 1..Len(p) /\ DOMAIN q = 1..Len(q)
  BY LenProperties
<1>3. \A k \in 1..(Len(p) + Len(q)) :
        (p \o q)[k] = IF k <= Len(p) THEN p[k] ELSE q[k - Len(p)]
  BY ConcatProperties
<1>4. DOMAIN (p \o q) = 1..(Len(p) + Len(q))
  BY <1>1, LenProperties
<1> SUFFICES ASSUME NEW a \in 1..(Len(p) + Len(q)), NEW b \in 1..(Len(p) + Len(q)),
                    (p \o q)[a] = (p \o q)[b]
             PROVE  a = b
  BY <1>4 DEF IsInjective
<1>5. \A c \in 1..(Len(p) + Len(q)) :
        c > Len(p) => c - Len(p) \in 1..Len(q) /\ q[c - Len(p)] \in ToSet(q)
  BY <1>2, SetOf
<1>6. \A c \in 1..(Len(p) + Len(q)) : c <= Len(p) => p[c] \in ToSet(p)
  BY <1>2, SetOf
<1>7. CASE a <= Len(p) /\ b <= Len(p)
  BY <1>2, <1>3, <1>7 DEF IsInjective
<1>8. CASE a > Len(p) /\ b > Len(p)
  <2>1. q[a - Len(p)] = q[b - Len(p)]
    BY <1>2, <1>3, <1>8
  <2>2. a - Len(p) = b - Len(p)
    BY <1>2, <1>5, <1>8, <2>1 DEF IsInjective
  <2> QED BY <1>2, <2>2
<1>9. CASE a <= Len(p) /\ b > Len(p)
  BY <1>2, <1>3, <1>5, <1>6, <1>9
<1>10. CASE a > Len(p) /\ b <= Len(p)
  BY <1>2, <1>3, <1>5, <1>6, <1>10
<1> QED BY <1>2, <1>7, <1>8, <1>9, <1>10

(* A sequence cut in two. *)
LEMMA Cut ==
  ASSUME NEW S, NEW q \in Seq(S), NEW n \in 0..Len(q)
  PROVE  LET front == SubSeq(q, 1, n)
             rest  == SubSeq(q, n + 1, Len(q))
         IN /\ front \in Seq(S) /\ rest \in Seq(S)
            /\ Len(front) = n /\ Len(rest) = Len(q) - n
            /\ ToSet(q) = ToSet(front) \cup ToSet(rest)
            /\ IsInjective(q) =>
                 /\ IsInjective(front) /\ IsInjective(rest)
                 /\ ToSet(front) \cap ToSet(rest) = {}
<1> DEFINE front == SubSeq(q, 1, n)
           rest  == SubSeq(q, n + 1, Len(q))
<1>1. Len(q) \in Nat /\ n \in Nat /\ n <= Len(q) /\ DOMAIN q = 1..Len(q)
  BY LenProperties
<1>2. \A k \in 1..Len(q) : q[k] \in S
  BY ElementOfSeq
<1>3. /\ front \in Seq(S) /\ Len(front) = n
      /\ \A k \in 1..n : front[k] = q[k]
  <2>1. \A k \in 1..n : q[k] \in S
    BY <1>1, <1>2
  <2>2. /\ front \in Seq(S) /\ Len(front) = IF 1 <= n THEN n - 1 + 1 ELSE 0
        /\ \A k \in 1..(n - 1 + 1) : front[k] = q[1 + k - 1]
    BY <1>1, <2>1, SubSeqProperties
  <2> QED BY <1>1, <2>2
<1>4. /\ rest \in Seq(S) /\ Len(rest) = Len(q) - n
      /\ \A k \in 1..(Len(q) - n) : rest[k] = q[n + k]
  <2>1. \A k \in (n + 1)..Len(q) : q[k] \in S
    BY <1>1, <1>2
  <2>2. /\ rest \in Seq(S)
        /\ Len(rest) = IF n + 1 <= Len(q) THEN Len(q) - (n + 1) + 1 ELSE 0
        /\ \A k \in 1..(Len(q) - (n + 1) + 1) : rest[k] = q[n + 1 + k - 1]
    BY <1>1, <2>1, SubSeqProperties
  <2> HIDE DEF rest
  <2>3. Len(rest) = Len(q) - n
    <3>1. CASE n + 1 <= Len(q)
      <4>1. Len(rest) = Len(q) - (n + 1) + 1
        BY <2>2, <3>1
      <4> QED BY <1>1, <4>1
    <3>2. CASE ~(n + 1 <= Len(q))
      <4>1. Len(rest) = 0
        BY <2>2, <3>2
      <4>2. n = Len(q)
        <5>1. \A a, b \in Nat : a <= b /\ ~(a + 1 <= b) => a = b
          OBVIOUS
        <5> QED BY <1>1, <3>2, <5>1
      <4> QED BY <1>1, <4>1, <4>2
    <3> QED BY <3>1, <3>2
  <2>4. ASSUME NEW k \in 1..(Len(q) - n) PROVE rest[k] = q[n + k]
    <3>1. k \in 1..(Len(q) - (n + 1) + 1) /\ n + 1 + k - 1 = n + k
      BY <1>1
    <3> QED BY <2>2, <3>1
  <2> QED BY <2>2, <2>3, <2>4
<1>5. \A x : x \in ToSet(front) <=> \E k \in 1..n : q[k] = x
  <2> HIDE DEF front
  <2> QED BY <1>1, <1>3, SetOf
<1>6. \A x : x \in ToSet(rest) <=> \E k \in (n + 1)..Len(q) : q[k] = x
  <2>1. \A x : x \in ToSet(rest) <=> \E k \in 1..(Len(q) - n) : q[n + k] = x
    <3> HIDE DEF rest
    <3>1. \A x : x \in ToSet(rest) <=> \E k \in 1..Len(rest) : rest[k] = x
      BY <1>4, SetOf
    <3> QED BY <1>4, <3>1
  <2>2. \A k \in 1..(Len(q) - n) : n + k \in (n + 1)..Len(q)
    BY <1>1
  <2>3. \A k \in (n + 1)..Len(q) : k - n \in 1..(Len(q) - n) /\ n + (k - n) = k
    BY <1>1
  <2> HIDE DEF rest
  <2> QED BY <2>1, <2>2, <2>3
<1>7. ToSet(q) = ToSet(front) \cup ToSet(rest)
  <2>1. \A x : x \in ToSet(q) <=> \E k \in 1..Len(q) : q[k] = x
    BY SetOf
  <2>2. \A k : k \in 1..Len(q) <=> k \in 1..n \/ k \in (n + 1)..Len(q)
    BY <1>1
  <2> HIDE DEF front, rest
  <2> QED BY <1>5, <1>6, <2>1, <2>2
<1>8. ASSUME IsInjective(q)
      PROVE  /\ IsInjective(front) /\ IsInjective(rest)
             /\ ToSet(front) \cap ToSet(rest) = {}
  <2>1. \A a, b \in 1..Len(q) : q[a] = q[b] => a = b
    BY <1>1, <1>8 DEF IsInjective
  <2>2. DOMAIN front = 1..n /\ DOMAIN rest = 1..(Len(q) - n)
    BY <1>3, <1>4, LenProperties
  <2>3. IsInjective(front)
    <3> HIDE DEF front
    <3> QED BY <1>1, <1>3, <2>1, <2>2 DEF IsInjective
  <2>4. IsInjective(rest)
    <3> SUFFICES ASSUME NEW a \in 1..(Len(q) - n), NEW b \in 1..(Len(q) - n),
                        rest[a] = rest[b]
                 PROVE  a = b
      BY <2>2 DEF IsInjective
    <3>1. n + a \in 1..Len(q) /\ n + b \in 1..Len(q)
      BY <1>1
    <3>2. q[n + a] = q[n + b]
      BY <1>4
    <3> QED BY <1>1, <2>1, <3>1, <3>2
  <2>5. \A a \in 1..n, b \in (n + 1)..Len(q) : q[a] # q[b]
    BY <1>1, <2>1
  <2> HIDE DEF front, rest
  <2> QED BY <1>5, <1>6, <2>3, <2>4, <2>5
<1> QED BY <1>3, <1>4, <1>7, <1>8

(* A sequence of distinct items is not longer than the set of all items.   *)
LEMMA InjectiveBound ==
  ASSUME NEW S, IsFiniteSet(S), NEW q \in Seq(S), IsInjective(q)
  PROVE  Len(q) <= Cardinality(S) /\ Cardinality(S) \in Nat
<1>1. Len(q) \in Nat /\ q \in [1..Len(q) -> S]
  BY LenProperties
<1>2. q \in Injection(1..Len(q), S)
  BY <1>1 DEF Injection
<1>3. Cardinality(1..Len(q)) <= Cardinality(S)
  BY <1>2, FS_Injection
<1>4. Cardinality(1..Len(q)) = Len(q)
  BY <1>1, FS_Interval
<1> QED BY <1>3, <1>4, FS_CardinalityType

-----------------------------------------------------------------------------
(* Units. *)

LEMMA LongMessages ==
  ASSUME NEW q \in Seq(Items)
  PROVE  /\ IsFiniteSet(ToSet(q) \cap Big)
         /\ Cardinality(ToSet(q) \cap Big) \in Nat
<1>1. ToSet(q) \cap Big \in SUBSET Items
  BY SetOf
<1>2. IsFiniteSet(ToSet(q) \cap Big)
  BY <1>1, SizeAssumption, FS_Subset
<1> QED BY <1>2, FS_CardinalityType

LEMMA UnitsType ==
  ASSUME NEW q \in Seq(Items)
  PROVE  Units(q) \in Nat /\ Len(q) <= Units(q)
BY LongMessages, LenProperties DEF Units

LEMMA UnitsConcat ==
  ASSUME NEW p \in Seq(Items), NEW q \in Seq(Items)
  PROVE  Units(p \o q) <= Units(p) + Units(q)
<1> DEFINE B(s) == ToSet(s) \cap Big
<1>1. p \o q \in Seq(Items) /\ B(p \o q) = B(p) \cup B(q)
  BY ConcatSetOf
<1>2. Len(p \o q) = Len(p) + Len(q) /\ Len(p) \in Nat /\ Len(q) \in Nat
  BY ConcatProperties, LenProperties
<1>3. /\ IsFiniteSet(B(p)) /\ IsFiniteSet(B(q))
      /\ Cardinality(B(p)) \in Nat /\ Cardinality(B(q)) \in Nat
  BY LongMessages
<1>4. Cardinality(B(p) \cup B(q)) =
        Cardinality(B(p)) + Cardinality(B(q)) - Cardinality(B(p) \cap B(q))
  BY <1>3, FS_Union
<1>5. Cardinality(B(p) \cap B(q)) \in Nat
  <2>1. B(p) \cap B(q) \in SUBSET B(p)
    OBVIOUS
  <2> QED BY <1>3, <2>1, FS_Subset, FS_CardinalityType
<1>6. Cardinality(B(p \o q)) <= Cardinality(B(p)) + Cardinality(B(q))
  <2> HIDE DEF B
  <2> QED BY <1>1, <1>3, <1>4, <1>5
<1>7. /\ Units(p) = Len(p) + (IF class = "message" THEN Cardinality(B(p)) ELSE 0)
      /\ Units(q) = Len(q) + (IF class = "message" THEN Cardinality(B(q)) ELSE 0)
      /\ Units(p \o q) =
           Len(p \o q) + (IF class = "message" THEN Cardinality(B(p \o q)) ELSE 0)
  BY DEF Units
<1>8. Cardinality(B(p \o q)) \in Nat
  BY <1>1, LongMessages
<1> HIDE DEF B
<1> QED BY <1>2, <1>3, <1>6, <1>7, <1>8

(* What is taken out leaves room. *)
LEMMA UnitsCut ==
  ASSUME NEW q \in Seq(Items), NEW n \in 0..Len(q)
  PROVE  Units(SubSeq(q, n + 1, Len(q))) <= Units(q)
<1> DEFINE rest == SubSeq(q, n + 1, Len(q))
<1>1. rest \in Seq(Items) /\ Len(rest) = Len(q) - n /\ ToSet(rest) \subseteq ToSet(q)
  BY Cut
<1>2. Len(q) \in Nat /\ n \in Nat
  BY LenProperties
<1>3. Cardinality(ToSet(rest) \cap Big) <= Cardinality(ToSet(q) \cap Big)
  <2>1. ToSet(rest) \cap Big \in SUBSET (ToSet(q) \cap Big)
    BY <1>1
  <2> QED BY <2>1, LongMessages, FS_Subset
<1>4. Cardinality(ToSet(rest) \cap Big) \in Nat /\ Cardinality(ToSet(q) \cap Big) \in Nat
  BY <1>1, LongMessages
<1>5. /\ Units(q) = Len(q) + (IF class = "message" THEN Cardinality(ToSet(q) \cap Big) ELSE 0)
      /\ Units(rest) = Len(rest)
           + (IF class = "message" THEN Cardinality(ToSet(rest) \cap Big) ELSE 0)
  BY DEF Units
<1> HIDE DEF rest
<1>6. Units(rest) <= Units(q)
  BY <1>1, <1>2, <1>3, <1>4, <1>5
<1> QED BY <1>6 DEF rest

LEMMA LengthType == Length \in Nat
<1>1. Cardinality(Items) \in Nat
  BY SizeAssumption, FS_CardinalityType
<1> QED BY <1>1, SizeAssumption DEF Length

LEMMA UnitsOfOne ==
  ASSUME NEW i \in Items, class # "message"
  PROVE  Units(<<i>>) = 1 /\ Units(<<>>) = 0
BY DEF Units

LEMMA UnitsOfNone == Units(<<>>) = 0
<1>1. ToSet(<<>>) \cap Big = {} /\ Len(<<>>) = 0
  BY EmptySetOf, EmptySeq
<1> QED BY <1>1, FS_EmptySet DEF Units

-----------------------------------------------------------------------------
(* Items that change hands stay shared out. *)

Hands(w) == w \in [Tasks -> SUBSET Items]
Stores(k) == k \in [Handles -> SUBSET Items]

LEMMA PoolToTask ==
  ASSUME NEW p, NEW w, NEW k, Sharing(p, w, k), Hands(w),
         NEW t \in Tasks, NEW m \in SUBSET p
  PROVE  Sharing(p \ m, [w EXCEPT ![t] = @ \cup m], k)
BY DEF Sharing, Hands

LEMMA TaskToPool ==
  ASSUME NEW p, NEW w, NEW k, Sharing(p, w, k), Hands(w),
         NEW t \in Tasks, NEW m \in SUBSET w[t]
  PROVE  Sharing(p \cup m, [w EXCEPT ![t] = @ \ m], k)
BY DEF Sharing, Hands

LEMMA TaskToKernel ==
  ASSUME NEW p, NEW w, NEW k, Sharing(p, w, k), Hands(w), Stores(k),
         NEW t \in Tasks, NEW h \in Handles, NEW m \in SUBSET w[t]
  PROVE  Sharing(p, [w EXCEPT ![t] = @ \ m], [k EXCEPT ![h] = @ \cup m])
BY DEF Sharing, Hands, Stores

LEMMA KernelToTask ==
  ASSUME NEW p, NEW w, NEW k, Sharing(p, w, k), Hands(w), Stores(k),
         NEW t \in Tasks, NEW h \in Handles, NEW m \in SUBSET k[h]
  PROVE  Sharing(p, [w EXCEPT ![t] = @ \cup m], [k EXCEPT ![h] = @ \ m])
BY DEF Sharing, Hands, Stores

LEMMA KernelToPool ==
  ASSUME NEW p, NEW w, NEW k, Sharing(p, w, k), Stores(k),
         NEW h \in Handles, NEW m \in SUBSET k[h]
  PROVE  Sharing(p \cup m, w, [k EXCEPT ![h] = @ \ m])
BY DEF Sharing, Stores

LEMMA PoolToKernel ==
  ASSUME NEW p, NEW w, NEW k, Sharing(p, w, k), Stores(k),
         NEW h \in Handles, NEW m \in SUBSET p
  PROVE  Sharing(p \ m, w, [k EXCEPT ![h] = @ \cup m])
BY DEF Sharing, Stores

(* With and Kept are sets of items. *)
LEMMA SharedTypes ==
  ASSUME TypeOK, ~Bitwise
  PROVE  Hands(With) /\ Stores(Kept)
<1>1. \A t \in Tasks : ToSet(call[t].load) \subseteq Items
  BY SetOf DEF TypeOK, Calls
<1>2. \A h \in Handles : ToSet(content[h]) \subseteq Items
  BY SetOf DEF TypeOK
<1> QED BY <1>1, <1>2 DEF Hands, Stores, With, Kept, TypeOK

-----------------------------------------------------------------------------
(* The initial states. *)

LEMMA IdleMeant == Idle \in Calls /\ Meant(Idle)
<1>1. <<>> \in Seq(Items)
  BY EmptySeq
<1>2. Idle \in Calls
  BY <1>1 DEF Idle, Calls
<1> QED BY <1>2, EmptySetOf DEF Idle, Meant

LEMMA InitIInv == Init => IInv
<1> SUFFICES ASSUME Init PROVE IInv
  OBVIOUS
<1>0. <<>> \in Seq(Items) /\ Length \in Nat
  BY LengthType, EmptySeq
<1>1. TypeOK
  <2>1. call \in [Tasks -> Calls]
    BY IdleMeant DEF Init
  <2>2. content \in [Handles -> IF Bitwise THEN SUBSET Bits ELSE Seq(Items)]
    BY <1>0 DEF Init, Empty
  <2>3. ASSUME NEW h \in Handles, ~Bitwise PROVE Used(h) <= Length
    <3>1. content[h] = <<>>
      BY <2>3 DEF Init, Empty
    <3> QED BY <1>0, <3>1, UnitsOfNone DEF Used
  <2> QED BY <2>1, <2>2, <2>3 DEF Init, TypeOK
<1>2. KernelOwned /\ RemembersAlive /\ NoEventLost
  BY DEF Init, KernelOwned, RemembersAlive, NoEventLost
<1>3. CallsMeant
  BY IdleMeant DEF Init, CallsMeant
<1>4. ASSUME ~Bitwise PROVE Shared
  <2>1. \A t \in Tasks : own[t] = {} /\ call[t].load = <<>> /\ With[t] = {}
    BY EmptySetOf DEF Init, Idle, With
  <2>2. \A h \in Handles : content[h] = <<>> /\ Kept[h] = {}
    BY <1>4, EmptySetOf DEF Init, Empty, Kept
  <2>3. Sharing(pool, With, Kept)
    BY <2>1, <2>2 DEF Init, Sharing
  <2> QED BY <2>1, <2>2, <2>3, EmptySetOf DEF Shared
<1> QED BY <1>1, <1>2, <1>3, <1>4 DEF IInv, Shared

-----------------------------------------------------------------------------
(* Steps in the channels that carry items. *)

(* No wrapper is constructed, destroyed or moved; what clients of          *)
(* semaphores wrongly believe may change.                                  *)
Steady ==
  /\ UNCHANGED <<class, static, built, handle, alive, undefined>>
  /\ fancied' \in [Tasks -> IF class \in Semaphores THEN SUBSET Items ELSE {{}}]

LEMMA SteadyDefs ==
  ASSUME Steady
  PROVE  /\ Bitwise' = Bitwise /\ Empty' = Empty /\ Length' = Length
         /\ \A q : Units(q)' = Units(q)
         /\ \A c : Meant(c)' = Meant(c)
         /\ IInv => KernelOwned'
BY DEF Steady, Bitwise, Empty, Length, Units, Meant, IInv, KernelOwned

LEMMA CallStep ==
  ASSUME IInv, Steady, NEW t \in Tasks, NEW c, Meant(c), call' = [call EXCEPT ![t] = c]
  PROVE  call' \in [Tasks -> Calls] /\ CallsMeant'
<1>1. c \in Calls
  BY DEF Meant
<1>2. call \in [Tasks -> Calls]
  BY DEF IInv, TypeOK
<1>3. \A u \in Tasks : Meant(call'[u])
  BY <1>2 DEF IInv, CallsMeant
<1>4. \A u \in Tasks : Meant(call[u])'
  BY <1>3 DEF Steady, Meant, Bitwise
<1> QED BY <1>1, <1>2, <1>4 DEF CallsMeant

LEMMA CallsStay ==
  ASSUME IInv, Steady, call' = call
  PROVE  call' \in [Tasks -> Calls] /\ CallsMeant'
<1>1. call \in [Tasks -> Calls] /\ \A u \in Tasks : Meant(call[u])
  BY DEF IInv, TypeOK, CallsMeant
<1>2. \A u \in Tasks : Meant(call[u])'
  BY <1>1 DEF Steady, Meant, Bitwise
<1> QED BY <1>1, <1>2 DEF CallsMeant

(* The sequence of one kernel object is replaced by one that fits. *)
Refill(h, q) ==
  /\ h \in alive /\ content' = [content EXCEPT ![h] = q]
  /\ q \in Seq(Items) /\ IsInjective(q) /\ Units(q) <= Length

LEMMA ItemStep ==
  ASSUME IInv, Steady, ~Bitwise, UNCHANGED <<joined, deferred, missed>>,
         call' \in [Tasks -> Calls], CallsMeant',
         pool' \subseteq Items, own' \in [Tasks -> SUBSET Items],
         content' = content \/ \E h, q : Refill(h, q),
         Sharing(pool', With', Kept'),
         \A t \in Tasks : own'[t] \cap ToSet(call'[t].load) = {}
  PROVE  IInv'
<1>1. /\ content' \in [Handles -> Seq(Items)]
      /\ \A h \in Handles :
           /\ Units(content'[h]) <= Length /\ IsInjective(content'[h])
           /\ h \notin alive => content'[h] = Empty
  BY DEF IInv, TypeOK, Shared, Refill, Used
<1>2. /\ ~Bitwise' /\ Empty' = Empty /\ Length' = Length /\ alive' = alive
      /\ KernelOwned'
  BY SteadyDefs DEF Steady
<1>3. \A h \in Handles : Used(h)' <= Length'
  BY <1>1, <1>2, SteadyDefs DEF Used
<1>4. TypeOK'
  BY <1>1, <1>2, <1>3 DEF IInv, TypeOK, Steady
<1>5. RemembersAlive' /\ NoEventLost'
  BY <1>2 DEF IInv, RemembersAlive, NoEventLost, Steady
<1>6. Shared'
  BY <1>1, <1>2 DEF Shared
<1> QED BY <1>2, <1>4, <1>5, <1>6 DEF IInv

(* The wrapper that a task calls has a kernel object. *)
LEMMA HandleAlive ==
  ASSUME IInv, NEW o \in Objects, handle[o] # None
  PROVE  handle[o] \in alive /\ handle[o] \in Handles
BY DEF IInv, TypeOK, KernelOwned

LEMMA BeginSendStep ==
  ASSUME IInv, Steady, UNCHANGED <<joined, deferred>>,
         NEW t \in Tasks, NEW o \in Objects, BeginSend(t, o)
  PROVE  IInv'
<1>0. ~Bitwise /\ UNCHANGED <<pool, content, missed>>
  BY DEF BeginSend
<1>1. PICK load \in Loads(t), p \in BOOLEAN, op \in {"send", "front"} :
        /\ Ask(t, o, [Idle EXCEPT !.op = op, !.load = load, !.patient = p])
        /\ own' = [own EXCEPT ![t] = @ \ ToSet(load)]
  BY DEF BeginSend
<1> DEFINE c == [Idle EXCEPT !.op = op, !.h = handle[o], !.load = load, !.patient = p]
<1>2. /\ call[t] = Idle /\ handle[o] \in alive /\ handle[o] \in Handles
      /\ call' = [call EXCEPT ![t] = c]
  BY <1>1, HandleAlive DEF Ask, Idle
<1>3. /\ load \in Seq(own[t]) /\ IsInjective(load)
      /\ class \notin Streams => Len(load) = 1
  <2>1. load \in [1..1 -> own[t]] \/ (class \in Streams /\ load \in [1..2 -> own[t]])
    BY DEF Loads
  <2>2. \A n \in Nat : \A q \in [1..n -> own[t]] : q \in Seq(own[t]) /\ Len(q) = n
    OBVIOUS
  <2>3. IsInjective(load)
    BY DEF Loads
  <2> QED BY <2>1, <2>2, <2>3
<1>4. load \in Seq(Items) /\ ToSet(load) \subseteq own[t]
  BY <1>3, SetOf DEF IInv, TypeOK
<1>5. Meant(c)
  <2>1. c \in Calls
    BY <1>2, <1>4, IdleMeant DEF Calls
  <2>2. c.op = op /\ c.h = handle[o] /\ c.load = load
    BY DEF Idle
  <2> HIDE DEF c
  <2> QED BY <1>0, <1>2, <1>3, <2>1, <2>2 DEF Meant
<1>6. call' \in [Tasks -> Calls] /\ CallsMeant'
  BY <1>2, <1>5, CallStep
<1>7. With' = With
  <2>1. ToSet(call[t].load) = {} /\ c.load = load
    BY <1>2, EmptySetOf DEF Idle
  <2> HIDE DEF c
  <2> QED BY <1>1, <1>2, <1>4, <2>1 DEF With, IInv, TypeOK
<1>8. \A u \in Tasks : own'[u] \cap ToSet(call'[u].load) = {}
  <2>1. c.load = load
    BY DEF Idle
  <2> HIDE DEF c
  <2> QED BY <1>0, <1>1, <1>2, <2>1 DEF IInv, TypeOK, Shared
<1>9. Kept' = Kept
  BY <1>0 DEF Kept
<1>10. own' \in [Tasks -> SUBSET Items]
  BY <1>1 DEF IInv, TypeOK
<1> HIDE DEF c
<1> QED
  BY <1>0, <1>6, <1>7, <1>8, <1>9, <1>10, ItemStep DEF IInv, TypeOK, Shared

LEMMA BeginReceiveStep ==
  ASSUME IInv, Steady, UNCHANGED <<joined, deferred>>,
         NEW t \in Tasks, NEW o \in Objects, BeginReceive(t, o)
  PROVE  IInv'
<1>0. ~Bitwise /\ UNCHANGED <<pool, own, content, missed>>
  BY DEF BeginReceive, clients
<1>1. PICK p \in BOOLEAN, op \in {"receive", "peek"}, r \in {1, 2} :
        /\ r = 2 => class \in Streams \cup {"message"}
        /\ Ask(t, o, [Idle EXCEPT !.op = op, !.room = r, !.patient = p])
  BY DEF BeginReceive
<1> DEFINE c == [Idle EXCEPT !.op = op, !.h = handle[o], !.room = r, !.patient = p]
<1>2. /\ call[t] = Idle /\ handle[o] \in alive /\ handle[o] \in Handles
      /\ call' = [call EXCEPT ![t] = c]
  BY <1>1, HandleAlive DEF Ask, Idle
<1>3. Meant(c)
  <2>1. c \in Calls
    <3>1. r \in 0..2
      OBVIOUS
    <3> QED BY <1>2, <3>1, IdleMeant DEF Calls
  <2>2. c.op = op /\ c.h = handle[o] /\ c.load = <<>> /\ c.room = r
    BY DEF Idle
  <2> HIDE DEF c
  <2> QED BY <1>0, <1>1, <1>2, <2>1, <2>2, EmptySetOf DEF Meant
<1>4. call' \in [Tasks -> Calls] /\ CallsMeant'
  BY <1>2, <1>3, CallStep
<1>5. \A u \in Tasks : call'[u].load = call[u].load
  <2>1. c.load = call[t].load
    BY <1>2 DEF Idle
  <2> HIDE DEF c
  <2> QED BY <1>2, <2>1 DEF IInv, TypeOK
<1>6. With' = With /\ Kept' = Kept
  BY <1>0, <1>5 DEF With, Kept
<1> HIDE DEF c
<1> QED BY <1>0, <1>4, <1>5, <1>6, ItemStep DEF IInv, TypeOK, Shared

(* A send ends: what the kernel accepted is in its object, and the rest is *)
(* the client's again if the client is told so.                            *)
LEMMA SendEndStep ==
  ASSUME IInv, Steady, UNCHANGED <<joined, deferred>>,
         NEW t \in Tasks, NEW ok \in BOOLEAN, SendEnd(t, ok), ok \/ Accepted(t) = 0
  PROVE  IInv'
<1> DEFINE c == call[t]
           n == Accepted(t)
           accepted == SubSeq(c.load, 1, n)
           left == SubSeq(c.load, n + 1, Len(c.load))
           back == IF ok THEN left ELSE c.load
           q == IF c.op = "front" THEN accepted \o content[c.h] ELSE content[c.h] \o accepted
<1>1. /\ c.op \in {"send", "front"}
      /\ content' = [content EXCEPT ![c.h] = q]
      /\ own' = [own EXCEPT ![t] = @ \cup ToSet(back)]
      /\ call' = [call EXCEPT ![t] = Idle]
      /\ UNCHANGED <<pool, missed>>
  BY DEF SendEnd, IInv, TypeOK
<1>2. /\ c \in Calls /\ c.h \in alive /\ c.h \in Handles /\ ~Bitwise
      /\ c.load \in Seq(Items) /\ IsInjective(c.load)
      /\ content[c.h] \in Seq(Items) /\ IsInjective(content[c.h])
      /\ Units(content[c.h]) \in Nat /\ Units(content[c.h]) <= Length
  <2>1. c \in Calls /\ Meant(c)
    BY DEF IInv, TypeOK, CallsMeant
  <2>2. c.h \in alive /\ c.h \in Handles /\ ~Bitwise /\ IsInjective(c.load)
    BY <1>1, <2>1 DEF Meant, IInv, TypeOK
  <2>3. c.load \in Seq(Items)
    BY <2>1 DEF Calls
  <2>4. content[c.h] \in Seq(Items) /\ IsInjective(content[c.h])
    BY <2>2 DEF IInv, TypeOK, Shared
  <2>5. Units(content[c.h]) <= Length
    BY <2>2 DEF IInv, TypeOK, Used
  <2> QED BY <2>1, <2>2, <2>3, <2>4, <2>5, UnitsType
<1>3. /\ Units(c.load) \in Nat /\ Len(c.load) \in Nat /\ Length \in Nat
      /\ class \in Streams => Units(c.load) = Len(c.load)
  BY <1>2, UnitsType, LenProperties, LengthType DEF Units, Streams
<1>4. n \in 0..Len(c.load) /\ (n = 0 \/ n = Len(c.load) \/ class \in Streams)
  BY <1>2, <1>3 DEF Accepted, Fits, Used
<1>5. /\ accepted \in Seq(Items) /\ left \in Seq(Items) /\ IsInjective(accepted)
      /\ ToSet(c.load) = ToSet(accepted) \cup ToSet(left)
      /\ ToSet(accepted) \cap ToSet(left) = {} /\ Len(accepted) = n
  BY <1>2, <1>4, Cut
<1>6. Units(accepted) + Units(content[c.h]) <= Length
  <2>1. CASE Fits(t)
    <3>1. n = Len(c.load) /\ accepted = c.load
      BY <1>2, <2>1, SubSeqFull DEF Accepted
    <3> QED BY <2>1, <3>1 DEF Fits, Used
  <2>2. CASE ~Fits(t) /\ class \in Streams
    <3>1. n = Length - Units(content[c.h]) /\ Units(accepted) = n
      BY <1>5, <2>2 DEF Accepted, Used, Units, Streams
    <3> QED BY <1>2, <1>3, <3>1
  <2>3. CASE ~Fits(t) /\ class \notin Streams
    <3>1. n = 0
      BY <2>3 DEF Accepted
    <3>2. accepted = <<>>
      BY <1>5, <3>1, EmptySeq
    <3>3. Units(accepted) = 0
      BY <3>2, UnitsOfNone
    <3> HIDE DEF accepted
    <3> QED BY <1>2, <1>3, <3>3
  <2> QED BY <2>1, <2>2, <2>3
<1>8. ToSet(accepted) \cap ToSet(content[c.h]) = {}
  <2>1. With[t] \cap Kept[c.h] = {}
    BY <1>2 DEF IInv, Shared, Sharing
  <2> QED BY <1>2, <1>5, <2>1 DEF With, Kept
<1>9. Refill(c.h, q)
  <2>1. Units(q) <= Units(accepted) + Units(content[c.h])
    <3>1. Units(accepted) \in Nat
      BY <1>5, UnitsType
    <3>2. /\ Units(accepted \o content[c.h]) <= Units(accepted) + Units(content[c.h])
          /\ Units(content[c.h] \o accepted) <= Units(content[c.h]) + Units(accepted)
      BY <1>2, <1>5, UnitsConcat
    <3> HIDE DEF accepted
    <3> QED BY <1>2, <3>1, <3>2
  <2>2. Units(q) \in Nat /\ q \in Seq(Items)
    BY <1>2, <1>5, ConcatSetOf, UnitsType
  <2>3. Units(accepted) \in Nat
    BY <1>5, UnitsType
  <2>4. IsInjective(q)
    BY <1>2, <1>5, <1>8, ConcatInjective
  <2> HIDE DEF q, accepted
  <2>5. Units(q) <= Length
    BY <1>2, <1>3, <1>6, <2>1, <2>2, <2>3
  <2> QED BY <1>1, <1>2, <2>2, <2>4, <2>5 DEF Refill
<1>10. call' \in [Tasks -> Calls] /\ CallsMeant'
  BY <1>1, IdleMeant, CallStep
<1>11. ToSet(back) = ToSet(c.load) \ ToSet(accepted)
  <2>1. CASE ok
    BY <1>5, <2>1
  <2>2. CASE ~ok
    <3>1. accepted = <<>>
      BY <1>5, <2>2, EmptySeq
    <3> QED BY <2>2, <3>1, EmptySetOf
  <2> QED BY <2>1, <2>2
<1>12. own[t] \cap ToSet(c.load) = {} /\ ToSet(accepted) \subseteq With[t]
  BY <1>2, <1>5 DEF IInv, Shared, With
<1>13. ToSet(q) = ToSet(content[c.h]) \cup ToSet(accepted)
  <2>1. /\ ToSet(accepted \o content[c.h]) = ToSet(accepted) \cup ToSet(content[c.h])
        /\ ToSet(content[c.h] \o accepted) = ToSet(content[c.h]) \cup ToSet(accepted)
    <3> HIDE DEF accepted
    <3> QED BY <1>2, <1>5, ConcatSetOf
  <2> QED BY <2>1
<1>14. ToSet(c.load) \subseteq Items
  BY <1>2, SetOf
<1> HIDE DEF q, accepted, back, left
<1>15. With' = [With EXCEPT ![t] = @ \ ToSet(accepted)]
  <2>1. \A u \in Tasks : u # t => own'[u] = own[u] /\ call'[u] = call[u]
    BY <1>1 DEF IInv, TypeOK
  <2>2. own'[t] = own[t] \cup ToSet(back) /\ ToSet(call'[t].load) = {}
    BY <1>1, EmptySetOf DEF IInv, TypeOK, Idle
  <2>3. own'[t] \cup ToSet(call'[t].load) = With[t] \ ToSet(accepted)
    BY <1>11, <1>12, <1>5, <2>2 DEF With
  <2> QED BY <2>1, <2>3 DEF With
<1>16. Kept' = [Kept EXCEPT ![c.h] = @ \cup ToSet(accepted)]
  BY <1>1, <1>2, <1>13 DEF Kept, IInv, TypeOK
<1>17. Sharing(pool', With', Kept')
  BY <1>1, <1>2, <1>12, <1>15, <1>16, TaskToKernel, SharedTypes DEF IInv, Shared
<1>18. \A u \in Tasks : own'[u] \cap ToSet(call'[u].load) = {}
  BY <1>1, <1>2, EmptySetOf DEF IInv, TypeOK, Shared, Idle
<1>19. own' \in [Tasks -> SUBSET Items]
  BY <1>1, <1>11, <1>14 DEF IInv, TypeOK
<1>20. pool' \subseteq Items /\ missed' = missed
  BY <1>1 DEF IInv, TypeOK
<1> QED
  BY <1>2, <1>9, <1>10, <1>17, <1>18, <1>19, <1>20, ItemStep

(* A receive ends: what it returned is the client's if the client is told  *)
(* so, and the rest is still in the object.                                *)
LEMMA HandedPrefix ==
  ASSUME IInv, NEW t \in Tasks, call[t].op \in {"receive", "peek"}
  PROVE  LET q == content[call[t].h] IN
         /\ q \in Seq(Items) /\ IsInjective(q) /\ Units(q) \in Nat /\ Units(q) <= Length
         /\ call[t].h \in alive /\ call[t].h \in Handles /\ ~Bitwise
         /\ call[t].load = <<>>
         /\ \E n \in 0..Len(q) : Handed(t) = SubSeq(q, 1, n)
<1> DEFINE c == call[t]
           q == content[c.h]
<1>1. c \in Calls /\ Meant(c)
  BY DEF IInv, TypeOK, CallsMeant
<1>2. c.h \in alive /\ c.h \in Handles /\ ~Bitwise /\ c.load = <<>> /\ c.room \in 0..2
  BY <1>1 DEF Meant, Calls, IInv, TypeOK
<1>3. q \in Seq(Items) /\ IsInjective(q)
  BY <1>2 DEF IInv, TypeOK, Shared
<1>4. Units(q) \in Nat /\ Units(q) <= Length
  BY <1>2, <1>3, UnitsType DEF IInv, TypeOK, Used
<1>5. Len(q) \in Nat
  BY <1>3, LenProperties
<1>6. SubSeq(q, 1, 0) = <<>>
  BY SubSeqEmpty
<1>7. ASSUME q # <<>> PROVE <<Head(q)>> = SubSeq(q, 1, 1) /\ 1 \in 0..Len(q)
  <2>1. Len(q) >= 1
    BY <1>3, <1>7, EmptySeq
  <2>2. SubSeq(q, 1, 1) = <<q[1]>> \o SubSeq(q, 2, 1)
    BY <1>3, <1>5, <2>1, SubSeqRecursiveFirst
  <2>3. SubSeq(q, 2, 1) = <<>>
    BY SubSeqEmpty
  <2>4. <<q[1]>> \in Seq(Items)
    BY <1>3, <1>5, <2>1, ElementOfSeq
  <2> QED BY <1>3, <1>5, <2>1, <2>2, <2>3, <2>4, ConcatEmptySeq
<1>8. \A a, b \in Nat : Min({a, b}) \in {a, b} /\ Min({a, b}) <= a
  <2> SUFFICES ASSUME NEW a \in Nat, NEW b \in Nat
               PROVE  Min({a, b}) \in {a, b} /\ Min({a, b}) <= a
    OBVIOUS
  <2>1. \E x \in {a, b} : \A y \in {a, b} : x <= y
    OBVIOUS
  <2> QED BY <2>1 DEF Min
<1>9. \E n \in 0..Len(q) : Handed(t) = SubSeq(q, 1, n)
  <2>1. CASE Handed(t) = <<>>
    BY <1>5, <1>6, <2>1
  <2>2. CASE Handed(t) # <<>> /\ class = "message"
    <3>1. q # <<>> /\ Handed(t) = <<Head(q)>>
      BY <1>3, <1>5, <2>2, EmptySeq DEF Handed, Ready
    <3> QED BY <1>7, <3>1
  <2>3. CASE Handed(t) # <<>> /\ class # "message"
    <3>1. Handed(t) = SubSeq(q, 1, Min({Len(q), c.room}))
      BY <2>3 DEF Handed
    <3>2. Min({Len(q), c.room}) \in 0..Len(q)
      <4>1. c.room \in Nat
        BY <1>2
      <4>2. /\ Min({Len(q), c.room}) \in {Len(q), c.room}
            /\ Min({Len(q), c.room}) <= Len(q)
        BY <1>5, <1>8, <4>1
      <4> QED BY <1>5, <4>1, <4>2
    <3> QED BY <3>1, <3>2
  <2> QED BY <2>1, <2>2, <2>3
<1> QED BY <1>2, <1>3, <1>4, <1>9

LEMMA ReceiveEndStep ==
  ASSUME IInv, Steady, UNCHANGED <<joined, deferred>>,
         NEW t \in Tasks, NEW ok \in BOOLEAN, ReceiveEnd(t, ok), ok \/ Handed(t) = <<>>
  PROVE  IInv'
<1> DEFINE c == call[t]
           q == content[c.h]
           items == Handed(t)
           rest == SubSeq(q, Len(items) + 1, Len(q))
<1>1. /\ c.op \in {"receive", "peek"} /\ call' = [call EXCEPT ![t] = Idle]
      /\ UNCHANGED <<pool, missed>>
  BY DEF ReceiveEnd
<1>2. /\ q \in Seq(Items) /\ IsInjective(q) /\ Units(q) \in Nat /\ Units(q) <= Length
      /\ c.h \in alive /\ c.h \in Handles /\ ~Bitwise /\ c.load = <<>>
  BY <1>1, HandedPrefix
<1>3. call' \in [Tasks -> Calls] /\ CallsMeant'
  BY <1>1, IdleMeant, CallStep
<1>4. \A u \in Tasks : ToSet(call'[u].load) = ToSet(call[u].load)
  BY <1>1, <1>2 DEF IInv, TypeOK, Idle
<1>5. CASE c.op = "peek"
  <2>1. UNCHANGED <<content, own>>
    BY <1>5 DEF ReceiveEnd
  <2>2. With' = With /\ Kept' = Kept
    BY <1>4, <2>1 DEF With, Kept
  <2> QED BY <1>1, <1>2, <1>3, <1>4, <2>1, <2>2, ItemStep DEF IInv, TypeOK, Shared
<1>6. CASE c.op # "peek"
  <2>1. /\ content' = [content EXCEPT ![c.h] = rest]
        /\ own' = IF ok THEN [own EXCEPT ![t] = @ \cup ToSet(items)] ELSE own
    BY <1>2, <1>6 DEF ReceiveEnd, IInv, TypeOK
  <2>2. PICK n \in 0..Len(q) : items = SubSeq(q, 1, n)
    BY <1>1, HandedPrefix
  <2>3. /\ rest \in Seq(Items) /\ IsInjective(rest) /\ Len(items) = n
        /\ ToSet(q) = ToSet(items) \cup ToSet(rest)
        /\ ToSet(items) \cap ToSet(rest) = {}
    BY <1>2, <2>2, Cut
  <2>4. Units(rest) <= Units(q)
    BY <1>2, <2>2, <2>3, UnitsCut
  <2>5. Units(rest) \in Nat /\ Length \in Nat
    BY <2>3, UnitsType, LengthType
  <2> HIDE DEF rest, items
  <2>6. Refill(c.h, rest)
    BY <1>2, <2>1, <2>3, <2>4, <2>5 DEF Refill
  <2>7. own' = [own EXCEPT ![t] = @ \cup ToSet(items)]
    <3>1. CASE ok
      BY <2>1, <3>1
    <3>2. CASE ~ok
      <4>1. ToSet(items) = {}
        BY <3>2, EmptySetOf DEF items
      <4> QED BY <2>1, <3>2, <4>1 DEF IInv, TypeOK
    <3> QED BY <3>1, <3>2
  <2>8. With' = [With EXCEPT ![t] = @ \cup ToSet(items)]
    BY <1>4, <2>7 DEF With, IInv, TypeOK
  <2>9. Kept' = [Kept EXCEPT ![c.h] = @ \ ToSet(items)]
    BY <1>2, <2>1, <2>3 DEF Kept, IInv, TypeOK
  <2>10. Sharing(pool', With', Kept')
    <3>1. ToSet(items) \in SUBSET Kept[c.h]
      BY <1>2, <2>3 DEF Kept
    <3> QED BY <1>1, <1>2, <2>8, <2>9, <3>1, KernelToTask, SharedTypes DEF IInv, Shared
  <2>11. \A u \in Tasks : own'[u] \cap ToSet(call'[u].load) = {}
    BY <1>2, <1>4, <2>7, EmptySetOf DEF IInv, TypeOK, Shared
  <2>12. own' \in [Tasks -> SUBSET Items] /\ pool' \subseteq Items
    <3>1. ToSet(items) \subseteq Items
      BY <1>2, <2>3, SetOf
    <3> QED BY <1>1, <2>7, <3>1 DEF IInv, TypeOK
  <2> QED
    BY <1>1, <1>2, <1>3, <2>6, <2>10, <2>11, <2>12, ItemStep
<1> QED BY <1>5, <1>6

(* Steps that leave the calls alone: what the tasks have in their hands    *)
(* moves as own does.                                                      *)
LEMMA OwnMoves ==
  ASSUME IInv, Steady, ~Bitwise, UNCHANGED <<call, joined, deferred, missed>>,
         pool' \subseteq Items, own' \in [Tasks -> SUBSET Items],
         content' = content \/ \E h, q : Refill(h, q),
         Sharing(pool', [u \in Tasks |-> own'[u] \cup ToSet(call[u].load)], Kept'),
         \A u \in Tasks : own'[u] \cap ToSet(call[u].load) = {}
  PROVE  IInv'
<1>1. With' = [u \in Tasks |-> own'[u] \cup ToSet(call[u].load)]
  BY DEF With
<1> QED BY <1>1, CallsStay, ItemStep

LEMMA ProduceStep ==
  ASSUME IInv, Steady, UNCHANGED <<joined, deferred>>, NEW t \in Tasks, Produce(t)
  PROVE  IInv'
<1>1. PICK i \in pool : pool' = pool \ {i} /\ own' = [own EXCEPT ![t] = @ \cup {i}]
  BY DEF Produce
<1>2. ~Bitwise /\ call[t] = Idle /\ UNCHANGED <<content, call, missed>>
  BY DEF Produce
<1>3. ToSet(call[t].load) = {}
  BY <1>2, EmptySetOf DEF Idle
<1>4. i \in Items /\ own' \in [Tasks -> SUBSET Items] /\ pool' \subseteq Items
  BY <1>1 DEF IInv, TypeOK
<1>5. [u \in Tasks |-> own'[u] \cup ToSet(call[u].load)] = [With EXCEPT ![t] = @ \cup {i}]
  BY <1>1, <1>2 DEF With, IInv, TypeOK
<1>6. Sharing(pool \ {i}, [With EXCEPT ![t] = @ \cup {i}], Kept) /\ Kept' = Kept
  BY <1>1, <1>2, PoolToTask, SharedTypes DEF IInv, Shared, Kept
<1>7. \A u \in Tasks : own'[u] \cap ToSet(call[u].load) = {}
  BY <1>1, <1>2, <1>3 DEF IInv, TypeOK, Shared
<1> QED BY <1>1, <1>2, <1>4, <1>5, <1>6, <1>7, OwnMoves

(* A task gives an item out of its hands.                                  *)
LEMMA HandsOver ==
  ASSUME IInv, ~Bitwise, NEW t \in Tasks, call[t] = Idle, NEW i \in own[t],
         own' = [own EXCEPT ![t] = @ \ {i}]
  PROVE  /\ i \in Items /\ own' \in [Tasks -> SUBSET Items] /\ {i} \in SUBSET With[t]
         /\ [u \in Tasks |-> own'[u] \cup ToSet(call[u].load)] = [With EXCEPT ![t] = @ \ {i}]
         /\ \A u \in Tasks : own'[u] \cap ToSet(call[u].load) = {}
<1>1. ToSet(call[t].load) = {}
  BY EmptySetOf DEF Idle
<1>2. i \in Items /\ own' \in [Tasks -> SUBSET Items] /\ own \in [Tasks -> SUBSET Items]
  BY DEF IInv, TypeOK
<1>3. {i} \in SUBSET With[t]
  BY DEF With
<1>4. \A u \in Tasks : own'[u] \cup ToSet(call[u].load) = [With EXCEPT ![t] = @ \ {i}][u]
  BY <1>1, <1>2 DEF With
<1>5. \A u \in Tasks : own'[u] \cap ToSet(call[u].load) = {}
  BY <1>2 DEF IInv, Shared
<1> QED BY <1>2, <1>3, <1>4, <1>5 DEF With

LEMMA ConsumeStep ==
  ASSUME IInv, Steady, UNCHANGED <<joined, deferred>>, NEW t \in Tasks, Consume(t)
  PROVE  IInv'
<1>1. PICK i \in own[t] : pool' = pool \cup {i} /\ own' = [own EXCEPT ![t] = @ \ {i}]
  BY DEF Consume
<1>2. call[t] = Idle /\ UNCHANGED <<content, call, missed>>
  BY DEF Consume
<1>3. CASE ~Bitwise
  <2>1. Sharing(pool \cup {i}, [With EXCEPT ![t] = @ \ {i}], Kept)
    BY <1>1, <1>2, <1>3, HandsOver, TaskToPool, SharedTypes DEF IInv, Shared
  <2>2. Kept' = Kept /\ pool' \subseteq Items
    BY <1>1, <1>2 DEF Kept, IInv, TypeOK
  <2> QED BY <1>1, <1>2, <1>3, <2>1, <2>2, HandsOver, OwnMoves
<1>4. CASE Bitwise
  <2>1. pool' \subseteq Items /\ own' \in [Tasks -> SUBSET Items]
    BY <1>1 DEF IInv, TypeOK
  <2>2. Bitwise' /\ Empty' = Empty
    BY <1>4, SteadyDefs
  <2>3. TypeOK'
    BY <1>2, <1>4, <2>1, <2>2 DEF IInv, TypeOK, Steady
  <2>4. RemembersAlive' /\ Shared' /\ NoEventLost'
    BY <1>2, <2>2, <1>4 DEF IInv, RemembersAlive, Shared, NoEventLost, Steady
  <2> QED BY <1>2, <2>3, <2>4, CallsStay, SteadyDefs DEF IInv
<1> QED BY <1>3, <1>4

LEMMA OverwriteStep ==
  ASSUME IInv, Steady, UNCHANGED <<joined, deferred>>,
         NEW t \in Tasks, NEW o \in Objects, Overwrite(t, o)
  PROVE  IInv'
<1> DEFINE h == handle[o]
<1>1. PICK i \in own[t] :
        /\ content' = [content EXCEPT ![h] = <<i>>]
        /\ pool' = pool \cup ToSet(content[h])
        /\ own' = [own EXCEPT ![t] = @ \ {i}]
  BY DEF Overwrite
<1>2. /\ call[t] = Idle /\ ~Bitwise /\ class = "mailbox" /\ UNCHANGED <<call, missed>>
      /\ h \in alive /\ h \in Handles
  BY HandleAlive DEF Overwrite, Instant, Bitwise
<1> HIDE DEF h
<1>3. i \in Items /\ ToSet(content[h]) \subseteq Items
  BY <1>2, SetOf DEF IInv, TypeOK
<1>4. Units(<<i>>) <= Length
  BY <1>2, <1>3, UnitsOfOne DEF Length
<1>5. Refill(h, <<i>>)
  BY <1>1, <1>2, <1>3, <1>4, UnitSetOf DEF Refill
<1> DEFINE emptied == [Kept EXCEPT ![h] = @ \ ToSet(content[h])]
           w == [With EXCEPT ![t] = @ \ {i}]
<1>6. Hands(With) /\ Stores(Kept) /\ Stores(emptied) /\ Sharing(pool, With, Kept)
  BY <1>2, SharedTypes DEF IInv, Shared, Stores
<1>7. Sharing(pool', With, emptied)
  <2>1. ToSet(content[h]) \in SUBSET Kept[h]
    BY <1>2 DEF Kept
  <2> QED BY <1>1, <1>2, <1>6, <2>1, KernelToPool
<1>8. /\ {i} \in SUBSET With[t] /\ own' \in [Tasks -> SUBSET Items]
      /\ [u \in Tasks |-> own'[u] \cup ToSet(call[u].load)] = w
      /\ \A u \in Tasks : own'[u] \cap ToSet(call[u].load) = {}
  BY <1>1, <1>2, HandsOver
<1>9. Sharing(pool', w, [emptied EXCEPT ![h] = @ \cup {i}])
  <2> HIDE DEF emptied
  <2> QED BY <1>2, <1>6, <1>7, <1>8, TaskToKernel
<1>10. Kept' = [emptied EXCEPT ![h] = @ \cup {i}]
  BY <1>1, <1>2, <1>3, UnitSetOf DEF Kept, IInv, TypeOK
<1>11. pool' \subseteq Items
  BY <1>1, <1>3 DEF IInv, TypeOK
<1> HIDE DEF emptied, w
<1> QED BY <1>2, <1>5, <1>8, <1>9, <1>10, <1>11, OwnMoves

LEMMA ResetStep ==
  ASSUME IInv, Steady, UNCHANGED <<joined, deferred>>,
         NEW t \in Tasks, NEW o \in Objects, Reset(t, o)
  PROVE  IInv'
<1> DEFINE h == handle[o]
<1>1. /\ content' = [content EXCEPT ![h] = <<>>] /\ pool' = pool \cup ToSet(content[h])
      /\ ~Bitwise /\ UNCHANGED <<call, missed, own>>
  BY DEF Reset, Instant
<1>2. h \in alive /\ h \in Handles
  BY HandleAlive DEF Reset, Instant
<1> HIDE DEF h
<1>3. <<>> \in Seq(Items) /\ Units(<<>>) <= Length
  BY EmptySeq, UnitsOfNone, LengthType
<1>4. Refill(h, <<>>)
  BY <1>1, <1>2, <1>3, EmptySetOf DEF Refill
<1>5. Kept' = [Kept EXCEPT ![h] = @ \ ToSet(content[h])]
  BY <1>1, <1>2, EmptySetOf DEF Kept, IInv, TypeOK
<1>6. Sharing(pool', With, Kept')
  <2>1. ToSet(content[h]) \in SUBSET Kept[h]
    BY <1>2 DEF Kept
  <2> QED BY <1>1, <1>2, <1>5, <2>1, KernelToPool, SharedTypes DEF IInv, Shared
<1>7. [u \in Tasks |-> own'[u] \cup ToSet(call[u].load)] = With
  BY <1>1 DEF With
<1>8. pool' \subseteq Items
  BY <1>1, <1>2, SetOf DEF IInv, TypeOK
<1> QED BY <1>1, <1>4, <1>6, <1>7, <1>8, OwnMoves DEF IInv, TypeOK, Shared

(* Appending an item that the object does not hold.                        *)
LEMMA AppendOne ==
  ASSUME NEW q \in Seq(Items), IsInjective(q), NEW i \in Items, i \notin ToSet(q)
  PROVE  /\ Append(q, i) \in Seq(Items) /\ IsInjective(Append(q, i))
         /\ ToSet(Append(q, i)) = ToSet(q) \cup {i}
         /\ class # "message" => Units(Append(q, i)) = Units(q) + 1
<1>1. Append(q, i) = q \o <<i>>
  BY AppendIsConcat
<1>2. <<i>> \in Seq(Items) /\ ToSet(<<i>>) = {i} /\ IsInjective(<<i>>)
  BY UnitSetOf
<1>3. ToSet(q) \cap ToSet(<<i>>) = {}
  BY <1>2
<1>4. Append(q, i) \in Seq(Items) /\ Len(Append(q, i)) = Len(q) + 1 /\ Len(q) \in Nat
  BY AppendProperties, LenProperties
<1>5. class # "message" => Units(Append(q, i)) = Units(q) + 1
  BY <1>4 DEF Units
<1>6. IsInjective(q \o <<i>>)
  BY <1>2, <1>3, ConcatInjective
<1>7. \A p \in Seq(Items) : ToSet(q \o p) = ToSet(q) \cup ToSet(p)
  BY ConcatSetOf
<1> QED BY <1>1, <1>2, <1>4, <1>5, <1>6, <1>7

LEMMA ReleaseStep ==
  ASSUME IInv, Steady, UNCHANGED <<joined, deferred>>,
         NEW t \in Tasks, NEW o \in Objects, Release(t, o)
  PROVE  IInv'
<1> DEFINE h == handle[o]
<1>1. PICK i \in own[t] :
        /\ IF Used(h) < Length
           THEN content' = [content EXCEPT ![h] = Append(@, i)] /\ UNCHANGED pool
           ELSE pool' = pool \cup {i} /\ UNCHANGED content
        /\ own' = [own EXCEPT ![t] = @ \ {i}]
  BY DEF Release
<1>2. /\ call[t] = Idle /\ ~Bitwise /\ class # "message" /\ UNCHANGED <<call, missed>>
      /\ h \in alive /\ h \in Handles
  BY HandleAlive DEF Release, Instant, Bitwise, Semaphores
<1> HIDE DEF h
<1>3. /\ i \in Items /\ {i} \in SUBSET With[t] /\ own' \in [Tasks -> SUBSET Items]
      /\ [u \in Tasks |-> own'[u] \cup ToSet(call[u].load)] = [With EXCEPT ![t] = @ \ {i}]
      /\ \A u \in Tasks : own'[u] \cap ToSet(call[u].load) = {}
  BY <1>1, <1>2, HandsOver
<1>4. Hands(With) /\ Stores(Kept) /\ Sharing(pool, With, Kept) /\ pool \subseteq Items
  BY <1>2, SharedTypes DEF IInv, Shared, TypeOK
<1>5. CASE Used(h) < Length
  <2>1. content[h] \in Seq(Items) /\ IsInjective(content[h]) /\ Units(content[h]) \in Nat
    BY <1>2, UnitsType DEF IInv, TypeOK, Shared
  <2>2. i \notin ToSet(content[h])
    BY <1>2, <1>3, <1>4 DEF Sharing, Kept
  <2>3. Refill(h, Append(content[h], i))
    <3>1. content' = [content EXCEPT ![h] = Append(content[h], i)]
      BY <1>1, <1>5 DEF IInv, TypeOK
    <3>2. Units(Append(content[h], i)) <= Length
      BY <1>2, <1>3, <1>5, <2>1, <2>2, AppendOne, LengthType DEF Used
    <3> QED BY <1>2, <1>3, <2>1, <2>2, <3>1, <3>2, AppendOne DEF Refill
  <2>4. Kept' = [Kept EXCEPT ![h] = @ \cup {i}]
    BY <1>2, <1>3, <2>1, <2>2, <2>3, AppendOne DEF Refill, Kept, IInv, TypeOK
  <2>5. Sharing(pool, [With EXCEPT ![t] = @ \ {i}], [Kept EXCEPT ![h] = @ \cup {i}])
    BY <1>2, <1>3, <1>4, TaskToKernel
  <2> QED BY <1>1, <1>2, <1>3, <1>4, <1>5, <2>3, <2>4, <2>5, OwnMoves
<1>6. CASE ~(Used(h) < Length)
  <2>1. pool' = pool \cup {i} /\ UNCHANGED content
    BY <1>1, <1>6
  <2>2. Sharing(pool', [With EXCEPT ![t] = @ \ {i}], Kept)
    BY <1>3, <1>4, <2>1, TaskToPool
  <2>3. Kept' = Kept /\ pool' \subseteq Items
    BY <1>3, <1>4, <2>1 DEF Kept
  <2> QED BY <1>2, <1>3, <2>1, <2>2, <2>3, OwnMoves
<1> QED BY <1>5, <1>6

(* What each class reports when a send ends: an error only if nothing went *)
(* out, since everything but bytes goes out whole or not at all.           *)
LEMMA SendsReported ==
  ASSUME IInv, NEW t \in Tasks, call[t].op \in {"send", "front"}
  PROVE  /\ Accepted(t) \in Nat
         /\ class \notin Streams => Accepted(t) \in {0, 1}
<1> DEFINE c == call[t]
<1>1. c \in Calls /\ Meant(c)
  BY DEF IInv, TypeOK, CallsMeant
<1>2. c.h \in Handles /\ ~Bitwise /\ c.load \in Seq(Items)
  BY <1>1 DEF Meant, Calls, IInv, TypeOK
<1>3. class \notin Streams => Len(c.load) = 1
  BY <1>1 DEF Meant
<1>4. Units(content[c.h]) \in Nat /\ Units(content[c.h]) <= Length
  BY <1>2, UnitsType DEF IInv, TypeOK, Used
<1>5. Len(c.load) \in Nat /\ Length \in Nat
  BY <1>2, LenProperties, LengthType
<1> QED BY <1>3, <1>4, <1>5 DEF Accepted, Used

LEMMA ReceivesReported ==
  ASSUME IInv, NEW t \in Tasks, call[t].op \in {"receive", "peek"}
  PROVE  /\ Len(Handed(t)) > 0 \/ Handed(t) = <<>>
         /\ class \notin Streams \cup {"message"} => Len(Handed(t)) = 1 \/ Handed(t) = <<>>
<1> DEFINE q == content[call[t].h]
<1>1. PICK n \in 0..Len(q) : Handed(t) = SubSeq(q, 1, n)
  BY HandedPrefix
<1>2. q \in Seq(Items) /\ Len(q) \in Nat
  BY HandedPrefix, LenProperties
<1>3. Handed(t) \in Seq(Items) /\ Len(Handed(t)) = n
  BY <1>1, <1>2, Cut
<1>4. Len(Handed(t)) > 0 \/ Handed(t) = <<>>
  BY <1>2, <1>3, EmptySeq
<1>5. ASSUME class \notin Streams \cup {"message"}, Handed(t) # <<>>
      PROVE  Len(Handed(t)) = 1
  <2>1. call[t].room = 1
    BY <1>5 DEF IInv, CallsMeant, Meant
  <2>2. Handed(t) = SubSeq(q, 1, Min({Len(q), 1}))
    BY <1>5, <2>1 DEF Handed
  <2>3. Min({Len(q), 1}) \in {Len(q), 1} /\ Min({Len(q), 1}) <= 1
    <3>1. \E x \in {Len(q), 1} : \A y \in {Len(q), 1} : x <= y
      BY <1>2
    <3> QED BY <3>1 DEF Min
  <2>4. Min({Len(q), 1}) \in 0..Len(q)
    <3>1. Ready(t)
      BY <1>5 DEF Handed
    <3>2. Len(q) > 0
      BY <1>2, <3>1, SizeAssumption DEF Ready
    <3> QED BY <1>2, <2>3, <3>2
  <2>5. Len(Handed(t)) = Min({Len(q), 1})
    <3>1. PICK m \in 0..Len(q) : m = Min({Len(q), 1}) /\ Handed(t) = SubSeq(q, 1, m)
      BY <2>2, <2>4
    <3>2. Len(SubSeq(q, 1, m)) = m
      BY <1>2, Cut
    <3> QED BY <3>1, <3>2
  <2> QED BY <1>3, <1>4, <1>5, <2>3, <2>5
<1> QED BY <1>4, <1>5

LEMMA SendCases ==
  ASSUME IInv, NEW t \in Tasks,
         \/ QueueSend(t) \/ BinaryGive(t) \/ CountingGive(t)
         \/ StreamSend(t) \/ BatchingSend(t) \/ MessageSend(t)
  PROVE  \E ok \in BOOLEAN : SendEnd(t, ok) /\ (ok \/ Accepted(t) = 0)
<1>1. CASE QueueSend(t) \/ BinaryGive(t) \/ CountingGive(t)
  <2>1. SendEnd(t, Accepted(t) = 1) /\ class \notin Streams
    BY <1>1 DEF QueueSend, BinaryGive, CountingGive, Streams
  <2>2. (Accepted(t) = 1) \/ Accepted(t) = 0
    BY <2>1, SendsReported DEF SendEnd
  <2>3. (Accepted(t) = 1) \in BOOLEAN
    OBVIOUS
  <2> QED BY <2>1, <2>2, <2>3
<1>2. CASE StreamSend(t) \/ BatchingSend(t) \/ MessageSend(t)
  <2>1. SendEnd(t, Accepted(t) > 0)
    BY <1>2 DEF StreamSend, BatchingSend, MessageSend
  <2>2. (Accepted(t) > 0) \/ Accepted(t) = 0
    BY <2>1, SendsReported DEF SendEnd
  <2>3. (Accepted(t) > 0) \in BOOLEAN
    OBVIOUS
  <2> QED BY <2>1, <2>2, <2>3
<1> QED BY <1>1, <1>2

LEMMA ReceiveCases ==
  ASSUME IInv, NEW t \in Tasks,
         \/ QueueReceive(t) \/ BinaryTake(t) \/ CountingTake(t) \/ SetSelect(t)
         \/ StreamReceive(t) \/ BatchingReceive(t) \/ MessageReceive(t)
  PROVE  \E ok \in BOOLEAN : ReceiveEnd(t, ok) /\ (ok \/ Handed(t) = <<>>)
<1>1. CASE QueueReceive(t) \/ BinaryTake(t) \/ CountingTake(t) \/ SetSelect(t)
  <2>1. ReceiveEnd(t, Len(Handed(t)) = 1) /\ class \notin Streams \cup {"message"}
    BY <1>1 DEF QueueReceive, BinaryTake, CountingTake, SetSelect, Streams
  <2>2. (Len(Handed(t)) = 1) \/ Handed(t) = <<>>
    BY <2>1, ReceivesReported DEF ReceiveEnd
  <2>3. (Len(Handed(t)) = 1) \in BOOLEAN
    OBVIOUS
  <2> QED BY <2>1, <2>2, <2>3
<1>2. CASE StreamReceive(t) \/ BatchingReceive(t) \/ MessageReceive(t)
  <2>1. ReceiveEnd(t, Len(Handed(t)) > 0)
    BY <1>2 DEF StreamReceive, BatchingReceive, MessageReceive
  <2>2. (Len(Handed(t)) > 0) \/ Handed(t) = <<>>
    BY <2>1, ReceivesReported DEF ReceiveEnd
  <2>3. (Len(Handed(t)) > 0) \in BOOLEAN
    OBVIOUS
  <2> QED BY <2>1, <2>2, <2>3
<1> QED BY <1>1, <1>2

(* An acquire() that expires, and a client that acts on it, change nothing *)
(* but what the client believes.                                           *)
LEMMA BeliefStep ==
  ASSUME IInv, Steady, UNCHANGED <<joined, deferred>>, NEW t \in Tasks,
         AcquireExpired(t) \/ Spend(t)
  PROVE  IInv'
<1>1. /\ ~Bitwise /\ UNCHANGED <<pool, own, content, missed>>
      /\ call' = [call EXCEPT ![t] = Idle] /\ call[t].load = <<>>
  <2>1. CASE AcquireExpired(t)
    <3>1. Meant(call[t])
      BY DEF IInv, CallsMeant
    <3> QED BY <2>1, <3>1 DEF AcquireExpired, Semaphores, Bitwise, clients, Meant
  <2>2. CASE Spend(t)
    <3>1. fancied[t] # {} /\ fancied \in [Tasks -> IF class \in Semaphores THEN SUBSET Items ELSE {{}}]
      BY <2>2 DEF Spend, IInv, TypeOK
    <3>2. ~Bitwise
      BY <3>1 DEF Semaphores, Bitwise
    <3> QED BY <2>2, <3>2 DEF Spend, clients, Idle, IInv, TypeOK
  <2> QED BY <2>1, <2>2
<1>2. call' \in [Tasks -> Calls] /\ CallsMeant'
  BY <1>1, IdleMeant, CallStep
<1>3. \A u \in Tasks : call'[u].load = call[u].load
  BY <1>1 DEF IInv, TypeOK, Idle
<1>4. With' = With /\ Kept' = Kept
  BY <1>1, <1>3 DEF With, Kept
<1> QED BY <1>1, <1>2, <1>3, <1>4, ItemStep DEF IInv, TypeOK, Shared

LEMMA TransferStep ==
  ASSUME IInv, Steady, UNCHANGED <<joined, deferred>>, NEW t \in Tasks, Transfer(t)
  PROVE  IInv'
<1>1. CASE \/ QueueSend(t) \/ BinaryGive(t) \/ CountingGive(t)
           \/ StreamSend(t) \/ BatchingSend(t) \/ MessageSend(t)
  BY <1>1, SendCases, SendEndStep
<1>2. CASE \/ QueueReceive(t) \/ BinaryTake(t) \/ CountingTake(t) \/ SetSelect(t)
           \/ StreamReceive(t) \/ BatchingReceive(t) \/ MessageReceive(t)
  BY <1>2, ReceiveCases, ReceiveEndStep
<1>3. CASE Produce(t) \/ Consume(t)
  BY <1>3, ProduceStep, ConsumeStep
<1>4. CASE \E o \in Objects :
             \/ BeginSend(t, o) \/ BeginReceive(t, o) \/ Overwrite(t, o)
             \/ Reset(t, o) \/ Release(t, o)
  BY <1>4, BeginSendStep, BeginReceiveStep, OverwriteStep, ResetStep, ReleaseStep
<1> QED
  BY <1>1, <1>2, <1>3, <1>4
     DEF Transfer, QueueCalls, BinaryCalls, CountingCalls, StreamCalls, BatchingCalls,
         MessageCalls

-----------------------------------------------------------------------------
(* Queue sets. *)

LEMMA SetsStep ==
  ASSUME IInv, Steady, UNCHANGED deferred, Sets
  PROVE  IInv'
<1>1. UNCHANGED <<call, missed>>
  BY DEF Sets
<1>2. CASE SetPost
  <2>1. PICK i \in pool :
          /\ joined[i] # None /\ pool' = pool \ {i}
          /\ content' = [content EXCEPT ![joined[i]] = Append(@, i)]
    BY <1>2 DEF SetPost
  <2>2. UNCHANGED <<own, joined>>
    BY <1>2 DEF SetPost
  <2> DEFINE h == joined[i]
  <2>3. i \in Items /\ class = "set" /\ ~Bitwise /\ h \in alive /\ h \in Handles
    BY <2>1 DEF IInv, TypeOK, RemembersAlive, Bitwise
  <2>4. content[h] \in Seq(Items) /\ IsInjective(content[h])
    BY <2>3 DEF IInv, TypeOK, Shared
  <2>5. i \notin ToSet(content[h])
    BY <2>1, <2>3 DEF IInv, Shared, Sharing, Kept
  <2> HIDE DEF h
  <2> DEFINE q == Append(content[h], i)
  <2>6. q \in Seq(Items) /\ IsInjective(q) /\ ToSet(q) = ToSet(content[h]) \cup {i}
    BY <2>3, <2>4, <2>5, AppendOne
  <2>7. content' = [content EXCEPT ![h] = q]
    BY <2>1, <2>3 DEF IInv, TypeOK, h
  <2> HIDE DEF q
  <2>8. Units(q) <= Length
    BY <2>3, <2>6, InjectiveBound, SizeAssumption, LenProperties DEF Units, Length
  <2>9. Refill(h, q)
    BY <2>3, <2>6, <2>7, <2>8 DEF Refill
  <2>10. Kept' = [Kept EXCEPT ![h] = @ \cup {i}]
    BY <2>3, <2>6, <2>7 DEF Kept, IInv, TypeOK
  <2>11. Sharing(pool \ {i}, With, [Kept EXCEPT ![h] = @ \cup {i}])
    BY <2>1, <2>3, PoolToKernel, SharedTypes DEF IInv, Shared
  <2>12. [u \in Tasks |-> own'[u] \cup ToSet(call[u].load)] = With
    BY <2>2 DEF With
  <2>13. pool' \subseteq Items
    BY <2>1 DEF IInv, TypeOK
  <2> QED BY <1>1, <2>1, <2>2, <2>3, <2>9, <2>10, <2>11, <2>12, <2>13, OwnMoves
         DEF IInv, TypeOK, Shared
<1>3. CASE \E o \in Objects : SetAdd(o) \/ SetRemove(o)
  <2>0. PICK o \in Objects : SetAdd(o) \/ SetRemove(o)
    BY <1>3
  <2>1. PICK i \in pool :
          /\ class = "set" /\ handle[o] # None
          /\ \/ joined' = [joined EXCEPT ![i] = handle[o]]
             \/ joined' = [joined EXCEPT ![i] = None]
    BY <2>0 DEF SetAdd, SetRemove
  <2>2. UNCHANGED <<pool, own, content>>
    BY <1>3 DEF SetAdd, SetRemove, clients
  <2>3. handle[o] \in alive /\ handle[o] \in Handles
    BY <2>1, HandleAlive
  <2>4. joined' \in [Items -> Handles \cup {None}]
    BY <2>1, <2>3 DEF IInv, TypeOK
  <2>5. \A j \in Items : joined'[j] # None => joined'[j] \in alive
    BY <2>1, <2>3 DEF IInv, TypeOK, RemembersAlive
  <2>6. RemembersAlive'
    BY <2>1, <2>5 DEF IInv, RemembersAlive, Steady, Bitwise
  <2>7. TypeOK'
    <3>1. \A h2 \in Handles : Used(h2)' = Used(h2)
      BY <2>2 DEF Used, Units, Steady
    <3> QED BY <1>1, <2>2, <2>4, <3>1, SteadyDefs DEF IInv, TypeOK, Steady
  <2>8. With' = With /\ Kept' = Kept
    BY <1>1, <2>2 DEF With, Kept
  <2>9. Shared' /\ NoEventLost'
    BY <1>1, <2>2, <2>8, SteadyDefs DEF IInv, Shared, NoEventLost
  <2> QED BY <1>1, <2>6, <2>7, <2>9, CallsStay, SteadyDefs DEF IInv
<1> QED BY <1>2, <1>3 DEF Sets

-----------------------------------------------------------------------------
(* Event groups. *)

LEMMA GroupCalls ==
  ASSUME IInv, Bitwise, NEW u \in Tasks
  PROVE  /\ call[u].h # None => /\ call[u].op \in {"wait", "sync"} /\ call[u].want # {}
                                /\ call[u].op = "sync" => "all" \in call[u].how
         /\ call[u].want \subseteq Bits
         /\ Meant(call[u]) /\ call[u] \in Calls
<1>1. call[u] \in Calls /\ Meant(call[u])
  BY DEF IInv, TypeOK, CallsMeant
<1> DEFINE c == call[u]
<1>2. c.want \subseteq Bits /\ c.op \in {"idle", "send", "front", "receive", "peek", "wait", "sync"}
  BY <1>1 DEF Calls
<1>3. c.op = "idle" => c.h = None
  BY <1>1 DEF Meant, Idle
<1> HIDE DEF c
<1> QED BY <1>1, <1>2, <1>3 DEF Meant, c

(* A wait that ends because it was satisfied is never reported as failed.  *)
LEMMA MetReported ==
  ASSUME NEW c, NEW bits, c.op \in {"wait", "sync"}, c.want # {},
         c.op = "sync" => "all" \in c.how, Met(c, bits)
  PROVE  GroupOk(c, bits)
BY DEF Met, GroupOk, SyncOk, WaitOk

LEMMA NothingUnreported ==
  ASSUME IInv, Bitwise, NEW h \in Handles, NEW bits
  PROVE  Unreported(Woken(h, bits), bits) = {}
<1>1. ASSUME NEW u \in Woken(h, bits) PROVE GroupOk(call[u], bits)
  <2>1. u \in Tasks /\ call[u].h = h /\ Met(call[u], bits)
    BY DEF Woken
  <2>2. call[u].h # None
    BY <2>1, NoneAssumption
  <2> QED BY <2>1, <2>2, GroupCalls, MetReported
<1> QED BY <1>1 DEF Unreported

(* An event group keeps its bits, and its other calls.                     *)
LEMMA BitStep ==
  ASSUME IInv, Steady, Bitwise, UNCHANGED <<clients, joined, missed>>,
         deferred' \in {None} \cup Deferrals, deferred' # None => deferred'.h \in alive,
         call' \in [Tasks -> Calls], \A u \in Tasks : Meant(call'[u]),
         content' = content \/
           \E h \in alive : \E bits \in SUBSET Bits : content' = [content EXCEPT ![h] = bits]
  PROVE  IInv'
<1>1. Bitwise' /\ Empty' = Empty /\ KernelOwned' /\ Empty = {} /\ clients' = clients
  BY SteadyDefs DEF Empty
<1>2. CallsMeant'
  BY DEF CallsMeant, Steady, Meant, Bitwise
<1>3. content' \in [Handles -> SUBSET Bits] /\ \A h \in Handles : h \notin alive => content'[h] = {}
  BY <1>1 DEF IInv, TypeOK
<1>4. TypeOK'
  BY <1>1, <1>3 DEF IInv, TypeOK, Steady, clients
<1>5. RemembersAlive' /\ NoEventLost' /\ Shared'
  BY <1>1 DEF IInv, RemembersAlive, NoEventLost, Shared, Steady
<1> QED BY <1>1, <1>2, <1>4, <1>5 DEF IInv

LEMMA WakeMeant ==
  ASSUME IInv, NEW h, NEW bits
  PROVE  /\ Wake(h, bits) \in [Tasks -> Calls]
         /\ \A u \in Tasks : Meant(Wake(h, bits)[u])
<1>1. \A u \in Tasks : Wake(h, bits)[u] \in {Idle, call[u]}
  BY DEF Wake
<1>2. \A u \in Tasks : call[u] \in Calls /\ Meant(call[u])
  BY DEF IInv, TypeOK, CallsMeant
<1>3. \A u \in Tasks : Wake(h, bits)[u] \in Calls /\ Meant(Wake(h, bits)[u])
  BY <1>1, <1>2, IdleMeant
<1> QED BY <1>3 DEF Wake

LEMMA SetBitsStep ==
  ASSUME IInv, Steady, Bitwise, UNCHANGED <<clients, joined>>,
         deferred' \in {None} \cup Deferrals, deferred' # None => deferred'.h \in alive,
         NEW h \in alive, NEW set \in SUBSET Bits, SetBits(h, set)
  PROVE  IInv'
<1> DEFINE bits == content[h] \cup set
<1>1. /\ call' = Wake(h, bits) /\ content' = [content EXCEPT ![h] = After(h, bits)]
      /\ missed' = missed \cup Unreported(Woken(h, bits), bits)
  BY DEF SetBits
<1>2. h \in Handles /\ bits \in SUBSET Bits
  BY DEF IInv, TypeOK
<1>3. missed' = missed
  BY <1>1, <1>2, NothingUnreported
<1>4. After(h, bits) \in SUBSET Bits
  BY <1>2 DEF After
<1> HIDE DEF bits
<1> QED BY <1>1, <1>3, <1>4, WakeMeant, BitStep

LEMMA GroupWaitStep ==
  ASSUME IInv, Steady, UNCHANGED joined, NEW t \in Tasks, NEW o \in Objects,
         NEW op \in {"wait", "sync"}, NEW set \in SUBSET Bits,
         NEW how \in SUBSET {"all", "clear"}, op = "sync" => "all" \in how,
         GroupWait(t, o, op, set, how)
  PROVE  IInv'
<1>1. Bitwise /\ handle[o] \in alive /\ handle[o] \in Handles /\ UNCHANGED <<clients, deferred>>
  BY HandleAlive DEF GroupWait
<1> DEFINE h == handle[o]
           bits == content[h] \cup set
           C(want, p) == [Idle EXCEPT !.op = op, !.h = h, !.want = want, !.how = how,
                                      !.patient = p]
<1>2. PICK want \in (SUBSET Bits) \ {{}}, p \in BOOLEAN :
        LET c == C(want, p) IN
        /\ call' = [Wake(h, bits) EXCEPT ![t] = IF Met(c, bits) THEN Idle ELSE c]
        /\ content' = [content EXCEPT ![h] =
                         After(h, bits) \ (IF Met(c, bits) THEN Cleared(c) ELSE {})]
        /\ missed' = missed \cup Unreported(Woken(h, bits), bits) \cup
             (IF Met(c, bits) /\ ~GroupOk(c, bits) THEN Cleared(c) \cap bits ELSE {})
  BY DEF GroupWait
<1> DEFINE c == C(want, p)
<1>3. c \in Calls
  BY <1>1, IdleMeant DEF Calls
<1>4. /\ c.op = op /\ c.h = h /\ c.load = <<>> /\ c.want = want /\ c.how = how
  BY DEF Idle
<1> HIDE DEF c
<1>5. c.op \in {"wait", "sync"} /\ c.want # {} /\ (c.op = "sync" => "all" \in c.how)
  <2>1. want # {}
    OBVIOUS
  <2> QED BY <1>4, <2>1
<1>12. Meant(c)
  <2>1. c.h \in alive
    BY <1>1, <1>4
  <2> HIDE DEF h
  <2> QED BY <1>1, <1>3, <1>4, <1>5, <2>1, EmptySetOf DEF Meant
<1>6. bits \in SUBSET Bits
  BY <1>1 DEF IInv, TypeOK
<1>7. Met(c, bits) => GroupOk(c, bits)
  BY <1>5, MetReported
<1> HIDE DEF bits, h, C
<1>8. missed' = missed
  BY <1>1, <1>2, <1>7, NothingUnreported DEF c, h
<1>9. call' \in [Tasks -> Calls] /\ \A u \in Tasks : Meant(call'[u])
  <2>1. call' = [Wake(h, bits) EXCEPT ![t] = IF Met(c, bits) THEN Idle ELSE c]
    BY <1>2 DEF c
  <2> QED BY <1>3, <1>12, <2>1, WakeMeant, IdleMeant
<1>10. \E b \in SUBSET Bits : content' = [content EXCEPT ![h] = b]
  <2>1. After(h, bits) \ (IF Met(c, bits) THEN Cleared(c) ELSE {}) \in SUBSET Bits
    BY <1>6 DEF After
  <2> QED BY <1>2, <2>1 DEF c
<1>11. deferred' \in {None} \cup Deferrals /\ (deferred' # None => deferred'.h \in alive)
  BY <1>1 DEF IInv, TypeOK, RemembersAlive
<1> QED BY <1>1, <1>8, <1>9, <1>10, <1>11, BitStep DEF h

LEMMA GroupsStep ==
  ASSUME IInv, Steady, UNCHANGED joined,
         (\E t \in Tasks : Group(t)) \/ (\E o \in Objects : GroupDefer(o)) \/ Daemon
  PROVE  IInv'
<1>0. /\ deferred \in {None} \cup Deferrals
      /\ deferred # None => deferred.h \in alive /\ Bitwise
      /\ call \in [Tasks -> Calls] /\ \A u \in Tasks : Meant(call[u])
      /\ alive \subseteq Handles
  BY DEF IInv, TypeOK, RemembersAlive, CallsMeant
<1>1. ASSUME NEW t \in Tasks, GroupExpire(t) PROVE IInv'
  BY <1>0, <1>1, IdleMeant, BitStep DEF GroupExpire
<1>2. ASSUME NEW t \in Tasks, NEW o \in Objects, GroupSet(t, o) PROVE IInv'
  <2>1. PICK set \in SUBSET Bits : SetBits(handle[o], set)
    BY <1>2 DEF GroupSet
  <2>2. Bitwise /\ handle[o] \in alive /\ UNCHANGED <<clients, deferred>>
    BY <1>2, HandleAlive DEF GroupSet
  <2> QED BY <1>0, <2>1, <2>2, SetBitsStep
<1>3. ASSUME NEW t \in Tasks, NEW o \in Objects, GroupClear(t, o) PROVE IInv'
  <2>1. PICK bits \in SUBSET Bits : content' = [content EXCEPT ![handle[o]] = @ \ bits]
    BY <1>3 DEF GroupClear
  <2>2. Bitwise /\ handle[o] \in alive /\ UNCHANGED <<clients, deferred, call, missed>>
    BY <1>3, HandleAlive DEF GroupClear, Instant
  <2>3. content[handle[o]] \ bits \in SUBSET Bits /\
        content' = [content EXCEPT ![handle[o]] = content[handle[o]] \ bits]
    BY <1>0, <2>1, <2>2 DEF IInv, TypeOK
  <2> QED BY <1>0, <2>2, <2>3, BitStep
<1>4. ASSUME NEW t \in Tasks, NEW o \in Objects, WaitBits(t, o) PROVE IInv'
  <2>1. PICK how \in SUBSET {"all", "clear"} : GroupWait(t, o, "wait", {}, how)
    BY <1>4 DEF WaitBits
  <2> QED BY <2>1, GroupWaitStep
<1>5. ASSUME NEW t \in Tasks, NEW o \in Objects, Sync(t, o) PROVE IInv'
  <2>1. PICK set \in SUBSET Bits : GroupWait(t, o, "sync", set, {"all", "clear"})
    BY <1>5 DEF Sync
  <2> QED BY <2>1, GroupWaitStep
<1>6. ASSUME NEW o \in Objects, GroupDefer(o) PROVE IInv'
  <2>1. PICK bits \in SUBSET Bits, op \in {"set", "clear"} :
          deferred' = [op |-> op, h |-> handle[o], bits |-> bits]
    BY <1>6 DEF GroupDefer
  <2>2. Bitwise /\ handle[o] \in alive /\ UNCHANGED <<clients, content, call, missed>>
    BY <1>6, HandleAlive DEF GroupDefer
  <2>3. deferred' \in Deferrals /\ deferred'.h = handle[o]
    BY <1>0, <2>1, <2>2 DEF Deferrals
  <2> QED BY <1>0, <2>2, <2>3, BitStep
<1>7. CASE Daemon
  <2>1. /\ deferred # None /\ deferred' = None /\ UNCHANGED clients
        /\ Bitwise /\ deferred.h \in alive /\ deferred.bits \in SUBSET Bits
    BY <1>0, <1>7 DEF Daemon, Deferrals
  <2>2. CASE SetBits(deferred.h, deferred.bits)
    BY <2>1, <2>2, SetBitsStep
  <2>3. CASE content' = [content EXCEPT ![deferred.h] = @ \ deferred.bits]
             /\ UNCHANGED <<call, missed>>
    <3>1. content[deferred.h] \ deferred.bits \in SUBSET Bits /\
          content' = [content EXCEPT ![deferred.h] = content[deferred.h] \ deferred.bits]
      BY <1>0, <2>1, <2>3 DEF IInv, TypeOK
    <3> QED BY <1>0, <2>1, <2>3, <3>1, BitStep
  <2> QED BY <1>7, <2>2, <2>3 DEF Daemon
<1> QED BY <1>1, <1>2, <1>3, <1>4, <1>5, <1>6, <1>7 DEF Group

-----------------------------------------------------------------------------
(* The life of a wrapper. *)

Lifelike ==
  undefined' \in BOOLEAN /\ UNCHANGED <<class, static, fancied, call, joined, deferred, missed>>

(* What a new kernel object may hold. *)
First(q) ==
  IF Bitwise THEN q = {}
  ELSE q \in Seq(Items) /\ IsInjective(q) /\ ToSet(q) \subseteq pool /\ Units(q) <= Length

LEMMA EmptyFirst == First(Empty)
<1>1. <<>> \in Seq(Items) /\ Units(<<>>) = 0 /\ Length \in Nat
  BY EmptySeq, UnitsOfNone, LengthType
<1> QED BY <1>1, EmptySetOf DEF First, Empty

LEMMA CountingFirst ==
  ASSUME IInv, class = "counting", NEW q \in [1..Capacity -> pool], IsInjective(q)
  PROVE  First(q)
<1>1. \A n \in Nat : \A s \in [1..n -> pool] : s \in Seq(pool) /\ Len(s) = n
  OBVIOUS
<1>2. q \in Seq(pool) /\ Len(q) = Capacity
  BY <1>1, SizeAssumption
<1>3. q \in Seq(Items) /\ ToSet(q) \subseteq pool
  BY <1>2, SetOf, SeqMonotonic DEF IInv, TypeOK
<1>4. Units(q) = Capacity /\ Length = Capacity
  BY <1>2, SizeAssumption DEF Units, Length
<1> QED BY <1>3, <1>4, SizeAssumption DEF First, Bitwise

LEMMA LifeCases ==
  ASSUME IInv, NEW o \in Objects, Life(o)
  PROVE  /\ Lifelike
         /\ \/ \E q : First(q) /\ Construct(o, q)
            \/ Destroy(o)
            \/ \E s \in Objects : Move(o, s) \/ Swap(o, s)
<1>1. \E q : First(q) /\ q = Empty
  BY EmptyFirst
<1>2. CASE QueueLife(o)
  BY <1>1, <1>2 DEF Life, QueueLife, Lifelike, Relocate, IInv, TypeOK
<1>3. ASSUME CheckedLife(o)
      PROVE  /\ UNCHANGED undefined
             /\ \/ \E q : First(q) /\ Construct(o, q)
                \/ Destroy(o)
                \/ \E s \in Objects : Move(o, s) \/ Swap(o, s)
  BY <1>1, <1>3 DEF CheckedLife, Relocate
<1>4. ASSUME CountingLife(o)
      PROVE  /\ UNCHANGED undefined
             /\ \/ \E q : First(q) /\ Construct(o, q)
                \/ Destroy(o)
                \/ \E s \in Objects : Move(o, s) \/ Swap(o, s)
  BY <1>4, CountingFirst DEF CountingLife, Relocate
<1> QED
  BY <1>2, <1>3, <1>4
     DEF Life, BinaryLife, StreamLife, BatchingLife, MessageLife, SetLife, GroupLife,
         Lifelike, IInv, TypeOK

(* Calls, members of sets and the timer task do not notice.                *)
LEMMA LifeUnnoticed ==
  ASSUME IInv, Lifelike,
         \A h \in alive : h \in alive' \/ ~Busy(h)
  PROVE  /\ CallsMeant' /\ RemembersAlive' /\ NoEventLost'
         /\ Bitwise' = Bitwise /\ Empty' = Empty /\ Length' = Length
         /\ \A q : Units(q)' = Units(q)
         /\ With' = [u \in Tasks |-> own'[u] \cup ToSet(call[u].load)]
<1>1. CallsMeant'
  <2> SUFFICES ASSUME NEW u \in Tasks PROVE Meant(call[u])'
    BY DEF CallsMeant
  <2>1. Meant(call[u])
    BY DEF IInv, CallsMeant
  <2>2. call[u].op # "idle" => call[u].h \in alive'
    BY <2>1 DEF Meant, Busy
  <2> QED BY <2>1, <2>2 DEF Meant, Lifelike, Bitwise
<1>2. RemembersAlive'
  BY DEF IInv, RemembersAlive, Lifelike, Busy, Bitwise
<1>3. NoEventLost' /\ Bitwise' = Bitwise /\ Empty' = Empty /\ Length' = Length
      /\ \A q : Units(q)' = Units(q)
  BY DEF IInv, NoEventLost, Lifelike, Bitwise, Empty, Length, Units
<1>5. With' = [u \in Tasks |-> own'[u] \cup ToSet(call[u].load)]
  BY DEF With, Lifelike
<1> QED BY <1>1, <1>2, <1>3, <1>5

(* The kernel objects are what they were, whoever owns them.               *)
LEMMA SameObjects ==
  ASSUME IInv, Lifelike, UNCHANGED <<alive, content, pool, own>>,
         built' \subseteq Objects, handle' \in [Objects -> Handles \cup {None}],
         KernelOwned'
  PROVE  IInv'
<1>1. /\ CallsMeant' /\ RemembersAlive' /\ NoEventLost'
      /\ Bitwise' = Bitwise /\ Empty' = Empty /\ Length' = Length
      /\ \A q : Units(q)' = Units(q)
      /\ With' = [u \in Tasks |-> own'[u] \cup ToSet(call[u].load)]
  BY LifeUnnoticed
<1>2. With' = With /\ Kept' = Kept
  BY <1>1 DEF With, Kept
<1>3. Shared'
  BY <1>1, <1>2 DEF IInv, Shared, Lifelike
<1>4. \A h \in Handles : Used(h)' = Used(h)
  BY <1>1 DEF Used, Units, Lifelike
<1>5. TypeOK'
  BY <1>1, <1>4 DEF IInv, TypeOK, Lifelike
<1> QED BY <1>1, <1>3, <1>5 DEF IInv

LEMMA ConstructStep ==
  ASSUME IInv, Lifelike, NEW o \in Objects, NEW q, First(q), Construct(o, q)
  PROVE  IInv'
<1>1. o \notin built /\ built' = built \cup {o} /\ UNCHANGED own /\ handle[o] = None
  BY DEF Construct, IInv, KernelOwned
<1>2. CASE UNCHANGED <<alive, handle, content, pool>>
  <2>1. KernelOwned'
    BY <1>1, <1>2 DEF IInv, KernelOwned
  <2> QED BY <1>1, <1>2, <2>1, SameObjects DEF IInv, TypeOK
<1>3. ASSUME NEW h \in Handles \ alive,
             alive' = alive \cup {h}, handle' = [handle EXCEPT ![o] = h],
             content' = [content EXCEPT ![h] = q],
             pool' = IF Bitwise THEN pool ELSE pool \ ToSet(q)
      PROVE  IInv'
  <2>1. KernelOwned'
    <3>1. \A s \in Objects : handle'[s] # None => s \in built' /\ handle'[s] \in alive'
      BY <1>1, <1>3 DEF IInv, TypeOK, KernelOwned
    <3>2. \A s \in Objects : handle'[s] = h <=> s = o
      BY <1>1, <1>3, NoneAssumption DEF IInv, TypeOK, KernelOwned
    <3>3. ASSUME NEW g \in alive
          PROVE  \E p \in Objects : \A s \in Objects : handle'[s] = g <=> s = p
      <4>1. PICK p \in Objects : \A s \in Objects : handle[s] = g <=> s = p
        BY DEF IInv, KernelOwned
      <4>2. p # o /\ g # h
        BY <1>1, <1>3, <4>1, NoneAssumption DEF IInv, TypeOK
      <4> QED BY <1>3, <4>1, <4>2 DEF IInv, TypeOK
    <3> QED BY <1>3, <3>1, <3>2, <3>3 DEF KernelOwned
  <2>2. /\ CallsMeant' /\ RemembersAlive' /\ NoEventLost'
        /\ Bitwise' = Bitwise /\ Empty' = Empty /\ Length' = Length
        /\ \A s : Units(s)' = Units(s)
        /\ With' = [u \in Tasks |-> own'[u] \cup ToSet(call[u].load)]
    BY <1>3, LifeUnnoticed
  <2>3. content[h] = Empty
    BY <1>3 DEF IInv, TypeOK
  <2>4. TypeOK'
    <3>1. content' \in [Handles -> IF Bitwise THEN SUBSET Bits ELSE Seq(Items)]
      BY <1>3 DEF IInv, TypeOK, First
    <3>2. ASSUME NEW g \in Handles, ~Bitwise PROVE Units(content'[g]) <= Length
      BY <1>3, <3>2 DEF IInv, TypeOK, First, Used
    <3>3. \A g \in Handles : g \notin alive' => content'[g] = Empty
      BY <1>3 DEF IInv, TypeOK
    <3>4. \A g \in Handles : ~Bitwise' => Used(g)' <= Length'
      BY <2>2, <3>2 DEF Used
    <3>5. pool' \subseteq Items /\ built' \subseteq Objects /\ alive' \subseteq Handles
          /\ handle' \in [Objects -> Handles \cup {None}]
      BY <1>1, <1>3 DEF IInv, TypeOK
    <3> QED BY <1>1, <2>2, <3>1, <3>3, <3>4, <3>5 DEF IInv, TypeOK, Lifelike
  <2>5. ASSUME ~Bitwise PROVE Shared'
    <3>1. /\ q \in Seq(Items) /\ IsInjective(q) /\ ToSet(q) \in SUBSET pool
          /\ content[h] = <<>>
      BY <2>3, <2>5 DEF First, Empty
    <3>2. Kept' = [Kept EXCEPT ![h] = @ \cup ToSet(q)]
      BY <1>3, <3>1, EmptySetOf DEF Kept, IInv, TypeOK
    <3>3. With' = With
      BY <1>1, <2>2 DEF With
    <3>4. Sharing(pool', With', Kept')
      BY <1>3, <2>5, <3>1, <3>2, <3>3, PoolToKernel, SharedTypes DEF IInv, Shared
    <3>5. \A g \in Handles : IsInjective(content'[g])
      BY <1>3, <2>5, <3>1 DEF IInv, Shared, TypeOK
    <3> QED BY <1>1, <2>5, <3>4, <3>5 DEF IInv, Shared, Lifelike
  <2> QED BY <2>1, <2>2, <2>4, <2>5 DEF IInv, Shared
<1> QED BY <1>2, <1>3 DEF Construct

LEMMA DestroyStep ==
  ASSUME IInv, Lifelike, NEW o \in Objects, Destroy(o)
  PROVE  IInv'
<1>1. o \in built /\ built' = built \ {o}
  BY DEF Destroy
<1>2. CASE handle[o] = None
  <2>1. UNCHANGED <<alive, handle, content, pool, own>>
    BY <1>2 DEF Destroy, clients
  <2>2. KernelOwned'
    BY <1>1, <1>2, <2>1 DEF IInv, KernelOwned
  <2> QED BY <1>1, <2>1, <2>2, SameObjects DEF IInv, TypeOK
<1>3. CASE handle[o] # None
  <2> DEFINE h == handle[o]
  <2>1. /\ ~Busy(h) /\ alive' = alive \ {h} /\ handle' = [handle EXCEPT ![o] = None]
        /\ content' = [content EXCEPT ![h] = Empty] /\ UNCHANGED own
        /\ pool' = IF Bitwise THEN pool ELSE pool \cup ToSet(content[h])
    BY <1>3 DEF Destroy
  <2>2. h \in alive /\ h \in Handles
    BY <1>3, HandleAlive
  <2>3. KernelOwned'
    <3>1. \A s \in Objects : s # o => handle[s] # h
      BY <2>2 DEF IInv, KernelOwned
    <3>2. \A s \in Objects : handle'[s] # None => s \in built' /\ handle'[s] \in alive'
      BY <1>1, <2>1, <3>1 DEF IInv, TypeOK, KernelOwned
    <3>3. ASSUME NEW g \in alive, g # h
          PROVE  \E p \in Objects : \A s \in Objects : handle'[s] = g <=> s = p
      <4>1. PICK p \in Objects : \A s \in Objects : handle[s] = g <=> s = p
        BY DEF IInv, KernelOwned
      <4>2. p # o /\ g # None
        BY <3>3, <4>1, NoneAssumption DEF IInv, TypeOK
      <4> QED BY <2>1, <4>1, <4>2 DEF IInv, TypeOK
    <3> QED BY <2>1, <3>2, <3>3 DEF KernelOwned
  <2> HIDE DEF h
  <2>4. /\ CallsMeant' /\ RemembersAlive' /\ NoEventLost'
        /\ Bitwise' = Bitwise /\ Empty' = Empty /\ Length' = Length
        /\ \A s : Units(s)' = Units(s)
        /\ With' = [u \in Tasks |-> own'[u] \cup ToSet(call[u].load)]
    BY <2>1, LifeUnnoticed
  <2>5. First(Empty)
    BY EmptyFirst
  <2>6. ~Bitwise => ToSet(content[h]) \subseteq Items
    BY <2>2, SetOf DEF IInv, TypeOK
  <2>7. TypeOK'
    <3>1. content' \in [Handles -> IF Bitwise THEN SUBSET Bits ELSE Seq(Items)]
      BY <2>1, <2>5 DEF IInv, TypeOK, First
    <3>2. ASSUME NEW g \in Handles, ~Bitwise PROVE Units(content'[g]) <= Length
      BY <2>1, <2>5, <3>2 DEF IInv, TypeOK, First, Used
    <3>3. \A g \in Handles : g \notin alive' => content'[g] = Empty
      BY <2>1 DEF IInv, TypeOK
    <3>4. \A g \in Handles : ~Bitwise' => Used(g)' <= Length'
      BY <2>4, <3>2 DEF Used
    <3>5. pool' \subseteq Items /\ built' \subseteq Objects /\ alive' \subseteq Handles
          /\ handle' \in [Objects -> Handles \cup {None}]
      BY <1>1, <2>1, <2>6 DEF IInv, TypeOK
    <3> QED BY <2>1, <2>4, <3>1, <3>3, <3>4, <3>5 DEF IInv, TypeOK, Lifelike
  <2>8. ASSUME ~Bitwise PROVE Shared'
    <3>1. Empty = <<>> /\ ToSet(<<>>) = {} /\ IsInjective(<<>>)
      BY <2>8, EmptySetOf DEF Empty
    <3>2. Kept' = [Kept EXCEPT ![h] = @ \ ToSet(content[h])]
      BY <2>1, <2>2, <3>1 DEF Kept, IInv, TypeOK
    <3>3. With' = With
      BY <2>1, <2>4 DEF With
    <3>4. ToSet(content[h]) \in SUBSET Kept[h]
      BY <2>2 DEF Kept
    <3>5. Sharing(pool', With', Kept')
      BY <2>1, <2>2, <2>8, <3>2, <3>3, <3>4, KernelToPool, SharedTypes DEF IInv, Shared
    <3>6. \A g \in Handles : IsInjective(content'[g])
      BY <2>1, <2>8, <3>1 DEF IInv, Shared, TypeOK
    <3> QED BY <2>1, <2>8, <3>5, <3>6 DEF IInv, Shared, Lifelike
  <2> QED BY <2>3, <2>4, <2>7, <2>8 DEF IInv, Shared
<1> QED BY <1>2, <1>3

LEMMA MoveStep ==
  ASSUME IInv, Lifelike, NEW o \in Objects, NEW s \in Objects, Move(o, s) \/ Swap(o, s)
  PROVE  IInv'
<1>1. UNCHANGED <<alive, content, pool, own>>
  BY DEF Move, Swap, clients
<1>2. o # s /\ handle \in [Objects -> Handles \cup {None}] /\ built \subseteq Objects
  BY DEF Move, Swap, IInv, TypeOK
<1>3. CASE Move(o, s)
  <2>1. /\ handle[o] = None /\ built' = built \cup {o}
        /\ handle' = [handle EXCEPT ![o] = handle[s], ![s] = None]
    BY <1>3 DEF Move, IInv, KernelOwned
  <2>2. ASSUME NEW g \in alive
        PROVE  \E p \in Objects : \A u \in Objects : handle'[u] = g <=> u = p
    <3>1. PICK p \in Objects : \A u \in Objects : handle[u] = g <=> u = p
      BY DEF IInv, KernelOwned
    <3>2. g # None
      BY NoneAssumption DEF IInv, TypeOK
    <3>3. p # o
      BY <2>1, <3>1, <3>2
    <3>4. CASE p = s
      <4>1. \A u \in Objects : handle'[u] = g <=> u = o
        BY <1>2, <2>1, <3>1, <3>2, <3>4
      <4> QED BY <4>1
    <3>5. CASE p # s
      BY <1>2, <2>1, <3>1, <3>2, <3>3, <3>5
    <3> QED BY <3>4, <3>5
  <2>3. KernelOwned'
    BY <1>1, <1>2, <1>3, <2>1, <2>2 DEF Move, IInv, KernelOwned
  <2>4. built' \subseteq Objects /\ handle' \in [Objects -> Handles \cup {None}]
    BY <1>2, <2>1
  <2> QED BY <1>1, <2>3, <2>4, SameObjects
<1>4. CASE Swap(o, s)
  <2>1. /\ built' = built /\ o \in built /\ s \in built
        /\ handle' = [handle EXCEPT ![o] = handle[s], ![s] = handle[o]]
    BY <1>4 DEF Swap
  <2>2. ASSUME NEW g \in alive
        PROVE  \E p \in Objects : \A u \in Objects : handle'[u] = g <=> u = p
    <3>1. PICK p \in Objects : \A u \in Objects : handle[u] = g <=> u = p
      BY DEF IInv, KernelOwned
    <3>2. CASE p = s
      <4>1. \A u \in Objects : handle'[u] = g <=> u = o
        BY <1>2, <2>1, <3>1, <3>2
      <4> QED BY <4>1
    <3>3. CASE p = o
      <4>1. \A u \in Objects : handle'[u] = g <=> u = s
        BY <1>2, <2>1, <3>1, <3>3
      <4> QED BY <4>1
    <3>4. CASE p # s /\ p # o
      BY <1>2, <2>1, <3>1, <3>4
    <3> QED BY <3>2, <3>3, <3>4
  <2>3. KernelOwned'
    BY <1>1, <1>2, <2>1, <2>2 DEF IInv, KernelOwned
  <2>4. built' \subseteq Objects /\ handle' \in [Objects -> Handles \cup {None}]
    BY <1>2, <2>1
  <2> QED BY <1>1, <2>3, <2>4, SameObjects
<1> QED BY <1>3, <1>4

-----------------------------------------------------------------------------
(* Every step preserves the inductive invariant. *)

LEMMA NextIInv == IInv /\ [Next]_vars => IInv'
<1> SUFFICES ASSUME IInv, [Next]_vars PROVE IInv'
  OBVIOUS
<1>1. ASSUME NEW o \in Objects, Life(o) PROVE IInv'
  BY <1>1, LifeCases, ConstructStep, DestroyStep, MoveStep
<1>2. ASSUME Steady, UNCHANGED <<joined, deferred>>, NEW t \in Tasks, Transfer(t) PROVE IInv'
  BY <1>2, TransferStep
<1>6. ASSUME Steady, UNCHANGED <<joined, deferred>>, NEW t \in Tasks,
             AcquireExpired(t) \/ Spend(t)
      PROVE  IInv'
  BY <1>6, BeliefStep
<1>3. ASSUME Steady, UNCHANGED deferred, Sets PROVE IInv'
  BY <1>3, SetsStep
<1>4. ASSUME Steady, UNCHANGED joined,
             (\E t \in Tasks : Group(t)) \/ (\E o \in Objects : GroupDefer(o)) \/ Daemon
      PROVE  IInv'
  BY <1>4, GroupsStep
<1>5. CASE UNCHANGED vars
  <2>1. Steady /\ UNCHANGED <<clients, content, call, joined, deferred, missed>>
    BY <1>5 DEF vars, Steady, wrappers, IInv, TypeOK
  <2>2. TypeOK'
    <3>1. \A h \in Handles : Used(h)' = Used(h)
      BY <2>1 DEF Used, Units, Steady
    <3> QED BY <2>1, <3>1, SteadyDefs DEF IInv, TypeOK, Steady, clients
  <2>3. With' = With /\ Kept' = Kept
    BY <2>1 DEF With, Kept, clients
  <2>4. Shared' /\ NoEventLost' /\ RemembersAlive'
    BY <2>1, <2>3, SteadyDefs DEF IInv, Shared, NoEventLost, RemembersAlive, Steady, clients
  <2> QED BY <2>1, <2>2, <2>4, CallsStay, SteadyDefs DEF IInv
<1>7. ASSUME NEW t \in Tasks, AcquireExpired(t) \/ Spend(t)
      PROVE  fancied' \in [Tasks -> IF class \in Semaphores THEN SUBSET Items ELSE {{}}]
  <2>1. fancied \in [Tasks -> IF class \in Semaphores THEN SUBSET Items ELSE {{}}]
    BY DEF IInv, TypeOK
  <2> QED BY <1>7, <2>1 DEF AcquireExpired, Spend
<1>8. fancied' = fancied =>
        fancied' \in [Tasks -> IF class \in Semaphores THEN SUBSET Items ELSE {{}}]
  BY DEF IInv, TypeOK
<1> QED
  BY <1>1, <1>2, <1>3, <1>4, <1>5, <1>6, <1>7, <1>8 DEF Next, Steady, wrappers

LEMMA SpecIInv == Spec => []IInv
BY InitIInv, NextIInv, PTL DEF Spec

-----------------------------------------------------------------------------
(* What the invariant says of the properties. *)

LEMMA InvSoleOwner == IInv => SoleOwner
<1> SUFFICES ASSUME IInv PROVE SoleOwner
  OBVIOUS
<1>1. \A t \in Tasks : call[t].h # None => call[t].h \in alive
  BY DEF IInv, CallsMeant, Meant, Idle
<1> QED BY <1>1 DEF IInv, KernelOwned, RemembersAlive, SoleOwner

(* An item with one task, or in one object, or with nobody, is at one place. *)
LEMMA InvConserved == IInv => Conserved
<1>0. ASSUME IInv, class \notin Semaphores, NEW i \in Items PROVE Fancied(i) = {}
  BY <1>0 DEF IInv, TypeOK, Fancied
<1> SUFFICES ASSUME IInv, ~Bitwise, NEW i \in Items
             PROVE  Cardinality(Places(i)) = 1
  BY <1>0 DEF Conserved
<1>1. Sharing(pool, With, Kept) /\ \A t \in Tasks : own[t] \cap ToSet(call[t].load) = {}
  BY DEF IInv, Shared
<1> DEFINE A == WithClients(i)
           B == InCalls(i)
           C == InKernel(i)
           D == WithNobody(i)
<1>2. Places(i) = A \cup B \cup C \cup D
  BY DEF Places
<1>3. \A h \in Handles : i \notin Kept[h] <=> Positions(h, i) = {}
  BY DEF Kept, ToSet, Positions
<1>4. ASSUME \A h \in Handles : i \notin Kept[h] PROVE C = {}
  BY <1>3, <1>4 DEF InKernel
<1>5. \A t \in Tasks : i \notin With[t] => i \notin own[t] /\ i \notin ToSet(call[t].load)
  BY DEF With
<1>6. ASSUME \A t \in Tasks : i \notin With[t] PROVE A = {} /\ B = {}
  BY <1>5, <1>6 DEF WithClients, InCalls
<1>7. CASE i \in pool
  <2>1. A = {} /\ B = {} /\ C = {} /\ D = {<<"nobody">>}
    BY <1>1, <1>4, <1>6, <1>7 DEF Sharing, WithNobody
  <2> QED BY <1>2, <2>1, FS_Singleton
<1>8. ASSUME NEW t \in Tasks, i \in With[t] PROVE Cardinality(Places(i)) = 1
  <2>1. C = {} /\ D = {}
    BY <1>1, <1>4, <1>8 DEF Sharing, WithNobody
  <2>2. \A u \in Tasks : u # t => i \notin With[u]
    BY <1>1, <1>8 DEF Sharing
  <2>3. CASE i \in own[t]
    <3>1. A = {<<"client", t>>}
      BY <1>5, <2>2, <2>3 DEF WithClients
    <3>2. B = {}
      BY <1>1, <1>5, <2>2, <2>3 DEF InCalls
    <3> QED BY <1>2, <2>1, <3>1, <3>2, FS_Singleton
  <2>4. CASE i \in ToSet(call[t].load)
    <3>1. B = {<<"call", t>>}
      BY <1>5, <2>2, <2>4 DEF InCalls
    <3>2. A = {}
      BY <1>1, <1>5, <2>2, <2>4 DEF WithClients
    <3> QED BY <1>2, <2>1, <3>1, <3>2, FS_Singleton
  <2> QED BY <1>8, <2>3, <2>4 DEF With
<1>9. ASSUME NEW h \in Handles, i \in Kept[h] PROVE Cardinality(Places(i)) = 1
  <2>1. A = {} /\ B = {} /\ D = {}
    BY <1>1, <1>6, <1>9 DEF Sharing, WithNobody
  <2>2. \A g \in Handles : g # h => Positions(g, i) = {}
    BY <1>1, <1>3, <1>9 DEF Sharing
  <2>3. PICK k \in DOMAIN content[h] : content[h][k] = i
    BY <1>9 DEF Kept, ToSet
  <2>4. Positions(h, i) = {k}
    BY <2>3 DEF IInv, Shared, IsInjective, Positions
  <2>5. C = {<<"kernel", h, k>>}
    BY <2>2, <2>4 DEF InKernel
  <2> QED BY <1>2, <2>1, <2>5, FS_Singleton
<1> QED BY <1>1, <1>7, <1>8, <1>9 DEF Sharing

-----------------------------------------------------------------------------

(* The types, and no channel ever holds more than it has room for.         *)
THEOREM TypeCorrect == Spec => []TypeOK
<1>1. IInv => TypeOK
  BY DEF IInv
<1> QED BY <1>1, SpecIInv, PTL

(* Every kernel object belongs to one wrapper, and no handle dangles.      *)
THEOREM ObjectsOwned == Spec => []SoleOwner
BY InvSoleOwner, SpecIInv, PTL

(* Every item, byte, permit and message is at exactly one place; a client  *)
(* takes one for its own that it has not only after an acquire() of a      *)
(* semaphore that timed out.                                               *)
THEOREM ItemsConserved == Spec => []Conserved
BY InvConserved, SpecIInv, PTL

(* No wait that consumed bits tells its caller that it failed.             *)
THEOREM EventsReported == Spec => []NoEventLost
<1>1. IInv => NoEventLost
  BY DEF IInv
<1> QED BY <1>1, SpecIInv, PTL
=============================================================================
