---------------------------- MODULE CondVarProofs ----------------------------
(***************************************************************************)
(* Proofs about CondVar, for any consumers and producers and any limits:   *)
(* the waiter count, the lock around every look at the predicate, and that *)
(* no notification is lost.  The first two assume nothing of how many      *)
(* consumers there are, so the count is exact even when the race in wait() *)
(* lets it pass MaxWaiters; for the third they are at most MaxWaiters, and *)
(* then a notification is refused only when there is a token for everyone. *)
(***************************************************************************)
EXTENDS CondVar, FiniteSetTheorems, TLAPS

LockStates == {"test", "served", "added", "closing"}

(* Inside the loop of notify_all there is a token left to give.            *)
GivesLeft == \A p \in Producers : pc[p] = "giving" => gives[p] > 0

IInv == TypeOK /\ CountAccurate /\ LockedWhenTested /\ GivesLeft

-----------------------------------------------------------------------------
(* The tasks inside the take can be counted. *)
LEMMA CountedFinite ==
  /\ IsFiniteSet(Counted)
  /\ Cardinality(Counted) \in Nat
BY TasksAssumption, FS_Subset, FS_CardinalityType DEF Counted

(* A step of a task that stays on one side of the count keeps it exact.    *)
LEMMA CountStays ==
  ASSUME NEW t \in Tasks, NEW q \in PCs, TypeOK, CountAccurate,
         pc' = [pc EXCEPT ![t] = q], waiters' = waiters,
         pc[t] \in {"take", "sub"} <=> q \in {"take", "sub"}
  PROVE  CountAccurate'
<1>1. Counted' = Counted
  BY DEF Counted, TypeOK
<1> QED BY <1>1 DEF CountAccurate

(* A step that moves no task across a critical section and leaves the lock *)
(* keeps the lock with those who test.                                     *)
LEMMA LockStays ==
  ASSUME NEW t \in Tasks, NEW q \in PCs, TypeOK, LockedWhenTested,
         pc' = [pc EXCEPT ![t] = q], lock' = lock,
         pc[t] \in LockStates <=> q \in LockStates
  PROVE  LockedWhenTested'
BY DEF LockedWhenTested, TypeOK, LockStates

(* A task that takes the lock may test. *)
LEMMA LockTaken ==
  ASSUME NEW t \in Tasks, NEW q \in LockStates, TypeOK, LockedWhenTested,
         pc' = [pc EXCEPT ![t] = q], Acquire(t)
  PROVE  LockedWhenTested'
<1>1. \A u \in Tasks : pc[u] \notin LockStates
  BY TasksAssumption DEF LockedWhenTested, Acquire, LockStates, Tasks
<1> QED BY <1>1 DEF LockedWhenTested, TypeOK, LockStates, Acquire

(* A task that releases the lock tests no more. *)
LEMMA LockReleased ==
  ASSUME NEW t \in Tasks, NEW q \in PCs \ LockStates, TypeOK, LockedWhenTested,
         pc' = [pc EXCEPT ![t] = q], Release(t)
  PROVE  LockedWhenTested'
<1>1. NoTask \notin Tasks
  BY TasksAssumption DEF Tasks
<1> QED BY <1>1 DEF LockedWhenTested, TypeOK, LockStates, Release

(* A full semaphore refuses tokens. *)
LEMMA TokensBounded ==
  ASSUME tokens \in 0..MaxWaiters, NEW n \in Nat, AddTokens(n)
  PROVE  tokens' \in 0..MaxWaiters
BY MaxAssumption DEF AddTokens

-----------------------------------------------------------------------------
(* The initial states satisfy the inductive invariant. *)
LEMMA InitIInv == Init => IInv
<1> SUFFICES ASSUME Init PROVE IInv
  OBVIOUS
<1> USE MaxAssumption, TasksAssumption DEF Init
<1>1. TypeOK
  BY DEF TypeOK, PCs
<1>2. Counted = {}
  BY DEF Counted, Tasks
<1>3. CountAccurate
  BY <1>2, FS_EmptySet DEF CountAccurate
<1>4. LockedWhenTested
  BY DEF LockedWhenTested, Tasks
<1>5. GivesLeft
  BY DEF GivesLeft, Tasks
<1> QED BY <1>1, <1>3, <1>4, <1>5 DEF IInv

(* The steps of a consumer. *)
LEMMA ConsumerIInv ==
  ASSUME IInv, NEW t \in Consumers, Consume(t) \/ Consumer(t)
  PROVE  IInv'
<1>0. t \in Tasks /\ t \notin Producers
  BY TasksAssumption DEF Tasks
<1> USE MaxAssumption, TasksAssumption, <1>0
    DEF IInv, Goto, PCs, LockStates, cv, client, locals
<1>g. ASSUME NEW q \in PCs, pc' = [pc EXCEPT ![t] = q], gives' = gives
      PROVE  GivesLeft'
  BY <1>g DEF GivesLeft, TypeOK, Tasks
<1>1. CASE Consume(t)
  <2>1. TypeOK'
    BY <1>1 DEF Consume, TypeOK, Acquire
  <2>2. CountAccurate'
    BY <1>1, CountStays DEF Consume
  <2>3. LockedWhenTested'
    BY <1>1, LockTaken DEF Consume
  <2> QED BY <1>1, <1>g, <2>1, <2>2, <2>3 DEF Consume
<1>2. CASE Return(t)
  <2>1. TypeOK'
    BY <1>2 DEF Return, TypeOK
  <2>2. CountAccurate'
    BY <1>2, CountStays DEF Return
  <2>3. LockedWhenTested'
    BY <1>2, LockStays DEF Return
  <2> QED BY <1>2, <1>g, <2>1, <2>2, <2>3 DEF Return
<1>3. CASE Unlock(t)
  <2>1. TypeOK'
    BY <1>3 DEF Unlock, TypeOK, Release
  <2>2. CountAccurate'
    BY <1>3, CountStays DEF Unlock
  <2>3. LockedWhenTested'
    BY <1>3, LockReleased DEF Unlock
  <2> QED BY <1>3, <1>g, <2>1, <2>2, <2>3 DEF Unlock
<1>4. CASE Assert(t)
  <2>1. TypeOK'
    BY <1>4 DEF Assert, TypeOK
  <2>2. CountAccurate'
    BY <1>4, CountStays DEF Assert
  <2>3. LockedWhenTested'
    BY <1>4, LockStays DEF Assert
  <2> QED BY <1>4, <1>g, <2>1, <2>2, <2>3 DEF Assert
<1>5. CASE Add(t)
  <2>1. TypeOK'
    BY <1>5 DEF Add, TypeOK
  <2>2. Counted' = Counted \cup {t} /\ t \notin Counted
    BY <1>5 DEF Add, Counted, TypeOK
  <2>3. CountAccurate'
    BY <1>5, <2>2, CountedFinite, FS_AddElement DEF Add, CountAccurate
  <2>4. LockedWhenTested'
    BY <1>5, LockStays DEF Add
  <2> QED BY <1>5, <1>g, <2>1, <2>3, <2>4 DEF Add
<1>6. CASE Take(t)
  <2>1. TypeOK'
    BY <1>6 DEF Take, TypeOK
  <2>2. CountAccurate'
    BY <1>6, CountStays DEF Take
  <2>3. LockedWhenTested'
    BY <1>6, LockStays DEF Take
  <2> QED BY <1>6, <1>g, <2>1, <2>2, <2>3 DEF Take
<1>7. CASE TakeTimeout(t)
  <2>1. TypeOK'
    BY <1>7 DEF TakeTimeout, TypeOK
  <2>2. CountAccurate'
    BY <1>7, CountStays DEF TakeTimeout
  <2>3. LockedWhenTested'
    BY <1>7, LockStays DEF TakeTimeout
  <2> QED BY <1>7, <1>g, <2>1, <2>2, <2>3 DEF TakeTimeout
<1>8. CASE Sub(t)
  <2>1. Counted' = Counted \ {t} /\ t \in Counted
    BY <1>8 DEF Sub, Counted, TypeOK
  <2>2. Cardinality(Counted') = Cardinality(Counted) - 1
    BY <2>1, CountedFinite, FS_RemoveElement
  <2>3. Cardinality(Counted') \in Nat
    BY <2>1, CountedFinite, FS_RemoveElement, FS_CardinalityType
  <2>4. CountAccurate' /\ waiters' \in Nat
    BY <1>8, <2>2, <2>3 DEF Sub, CountAccurate
  <2>5. TypeOK'
    BY <1>8, <2>4 DEF Sub, TypeOK
  <2>6. LockedWhenTested'
    BY <1>8, LockStays DEF Sub
  <2> QED BY <1>8, <1>g, <2>4, <2>5, <2>6 DEF Sub
<1>9. CASE Relock(t)
  <2>1. PICK q \in {"served", "test"} : pc' = [pc EXCEPT ![t] = q]
    BY <1>9 DEF Relock
  <2>2. TypeOK'
    BY <1>9, <2>1 DEF Relock, TypeOK, Acquire
  <2>3. CountAccurate'
    BY <1>9, <2>1, CountStays DEF Relock
  <2>4. LockedWhenTested'
    BY <1>9, <2>1, LockTaken DEF Relock
  <2> QED BY <1>9, <1>g, <2>1, <2>2, <2>3, <2>4 DEF Relock
<1>10. CASE Leave(t)
  <2>1. TypeOK'
    BY <1>10 DEF Leave, TypeOK, Release
  <2>2. CountAccurate'
    BY <1>10, CountStays DEF Leave
  <2>3. LockedWhenTested'
    BY <1>10, LockReleased DEF Leave
  <2> QED BY <1>10, <1>g, <2>1, <2>2, <2>3 DEF Leave
<1> QED
  BY <1>1, <1>2, <1>3, <1>4, <1>5, <1>6, <1>7, <1>8, <1>9, <1>10 DEF Consumer

(* The steps of a producer. *)
LEMMA ProducerIInv ==
  ASSUME IInv, NEW p \in Producers, Produce(p) \/ Close(p) \/ Producer(p)
  PROVE  IInv'
<1>0. p \in Tasks
  BY DEF Tasks
<1> USE MaxAssumption, TasksAssumption, <1>0
    DEF IInv, Goto, PCs, LockStates, cv, client, locals
<1>g. ASSUME NEW q \in PCs \ {"giving"}, pc' = [pc EXCEPT ![p] = q],
             \A r \in Producers : r # p => gives'[r] = gives[r]
      PROVE  GivesLeft'
  BY <1>g DEF GivesLeft, TypeOK, Tasks
<1>1. CASE Produce(p)
  <2>1. TypeOK'
    BY <1>1 DEF Produce, TypeOK, Acquire
  <2>2. CountAccurate'
    BY <1>1, CountStays DEF Produce
  <2>3. LockedWhenTested'
    BY <1>1, LockTaken DEF Produce
  <2> QED BY <1>1, <1>g, <2>1, <2>2, <2>3 DEF Produce
<1>2. CASE Close(p)
  <2>1. TypeOK'
    BY <1>2 DEF Close, TypeOK, Acquire
  <2>2. CountAccurate'
    BY <1>2, CountStays DEF Close
  <2>3. LockedWhenTested'
    BY <1>2, LockTaken DEF Close
  <2> QED BY <1>2, <1>g, <2>1, <2>2, <2>3 DEF Close
<1>3. CASE Unlocked(p)
  <2>1. PICK q \in {"notify_one", "notify_all"} : pc' = [pc EXCEPT ![p] = q]
    BY <1>3 DEF Unlocked
  <2>2. TypeOK'
    BY <1>3, <2>1 DEF Unlocked, TypeOK, Release
  <2>3. CountAccurate'
    BY <1>3, <2>1, CountStays DEF Unlocked
  <2>4. LockedWhenTested'
    BY <1>3, <2>1, LockReleased DEF Unlocked
  <2> QED BY <1>3, <1>g, <2>1, <2>2, <2>3, <2>4 DEF Unlocked
<1>4. CASE NotifyOne(p)
  <2>1. TypeOK'
    BY <1>4, TokensBounded DEF NotifyOne, TypeOK
  <2>2. CountAccurate'
    BY <1>4, CountStays DEF NotifyOne
  <2>3. LockedWhenTested'
    BY <1>4, LockStays DEF NotifyOne
  <2> QED BY <1>4, <1>g, <2>1, <2>2, <2>3 DEF NotifyOne
<1>5. CASE NotifyAll(p)
  <2>1. PICK q \in {"idle", "giving"} :
          /\ pc' = [pc EXCEPT ![p] = q]
          /\ q = "giving" => waiters # 0
    BY <1>5 DEF NotifyAll
  <2>2. TypeOK'
    BY <1>5, <2>1 DEF NotifyAll, TypeOK
  <2>3. CountAccurate'
    BY <1>5, <2>1, CountStays DEF NotifyAll
  <2>4. LockedWhenTested'
    BY <1>5, <2>1, LockStays DEF NotifyAll
  <2>5. GivesLeft'
    BY <1>5, <2>1 DEF NotifyAll, GivesLeft, TypeOK, Tasks
  <2> QED BY <2>2, <2>3, <2>4, <2>5
<1>6. CASE GiveNext(p)
  <2>0. gives[p] \in 1..MaxWaiters
    BY <1>6 DEF GiveNext, GivesLeft, TypeOK
  <2>1. PICK q \in {"idle", "giving"} :
          /\ pc' = [pc EXCEPT ![p] = q]
          /\ q = "giving" => gives[p] # 1
    BY <1>6 DEF GiveNext
  <2>2. TypeOK'
    BY <1>6, <2>0, <2>1, TokensBounded DEF GiveNext, TypeOK
  <2>3. CountAccurate'
    BY <1>6, <2>1, CountStays DEF GiveNext
  <2>4. LockedWhenTested'
    BY <1>6, <2>1, LockStays DEF GiveNext
  <2>5. GivesLeft'
    BY <1>6, <2>0, <2>1 DEF GiveNext, GivesLeft, TypeOK, Tasks
  <2> QED BY <2>2, <2>3, <2>4, <2>5
<1> QED
  BY <1>1, <1>2, <1>3, <1>4, <1>5, <1>6 DEF Producer

(* The interrupt, and steps of nobody. *)
LEMMA OtherIInv ==
  ASSUME IInv, IsrProduce \/ IsrClose \/ UNCHANGED vars
  PROVE  IInv'
<1> USE MaxAssumption DEF IInv, locals
<1>1. CASE IsrProduce \/ IsrClose
  <2>1. TypeOK'
    BY <1>1, TokensBounded DEF IsrProduce, IsrClose, TypeOK
  <2>2. Counted' = Counted
    BY <1>1 DEF IsrProduce, IsrClose, Counted
  <2> QED
    BY <1>1, <2>1, <2>2
       DEF IsrProduce, IsrClose, CountAccurate, LockedWhenTested, GivesLeft
<1>2. CASE UNCHANGED vars
  <2>1. Counted' = Counted
    BY <1>2 DEF vars, Counted
  <2>2. TypeOK'
    BY <1>2 DEF vars, cv, client, TypeOK
  <2> QED
    BY <1>2, <2>1, <2>2
       DEF vars, CountAccurate, LockedWhenTested, GivesLeft
<1> QED BY <1>1, <1>2

(* Every step preserves it, so it holds in every reachable state. *)
LEMMA NextIInv == IInv /\ [Next]_vars => IInv'
BY ConsumerIInv, ProducerIInv, OtherIInv DEF Next

LEMMA SpecIInv == Spec => []IInv
BY InitIInv, NextIInv, PTL DEF Spec

(* Every variable keeps its type, the token count its limit.               *)
THEOREM TypeCorrect == Spec => []TypeOK
<1>1. IInv => TypeOK
  BY DEF IInv
<1> QED BY <1>1, SpecIInv, PTL

(* m_waiter_count counts exactly the tasks in xSemaphoreTake.              *)
THEOREM CountExact == Spec => []CountAccurate
<1>1. IInv => CountAccurate
  BY DEF IInv
<1> QED BY <1>1, SpecIInv, PTL

(* The predicate is only evaluated, and wait() only returns, with the lock *)
(* held by the caller and by nobody else.                                  *)
THEOREM PredicateLocked == Spec => []LockedWhenTested
<1>1. IInv => LockedWhenTested
  BY DEF IInv
<1> QED BY <1>1, SpecIInv, PTL
-----------------------------------------------------------------------------
(* No notification is lost.                                                *)

(* What the two properties say when there are no more consumers than the   *)
(* condition variable is configured for.                                   *)
Covering ==
  /\ \/ items <= tokens + Cardinality(Awake) + Cardinality(Notifying)
     \/ Cardinality(Blocking) <= tokens
  /\ closed = "isr" => Cardinality(Blocking) <= tokens

(* Tasks can be counted, one more and one less. *)
LEMMA TasksCounted ==
  ASSUME NEW S \in SUBSET Tasks
  PROVE  /\ Cardinality(S) \in Nat
         /\ \A t \in Tasks : t \notin S => Cardinality(S \cup {t}) = Cardinality(S) + 1
         /\ \A t \in S : Cardinality(S \ {t}) = Cardinality(S) - 1
         /\ S \subseteq Consumers => Cardinality(S) <= Cardinality(Consumers)
<1>1. IsFiniteSet(S)
  BY TasksAssumption, FS_Subset DEF Tasks
<1>2. IsFiniteSet(Consumers)
  BY TasksAssumption, FS_Subset
<1>3. QED
  BY <1>1, <1>2, FS_CardinalityType, FS_AddElement, FS_RemoveElement, FS_Subset

(* The counts that Covering speaks of are numbers, before and after a step. *)
LEMMA Numbers ==
  /\ Blocking \in SUBSET Tasks /\ Blocking' \in SUBSET Tasks
  /\ Awake \in SUBSET Tasks /\ Awake' \in SUBSET Tasks
  /\ Notifying \in SUBSET Tasks /\ Notifying' \in SUBSET Tasks
  /\ Cardinality(Blocking) \in Nat /\ Cardinality(Blocking') \in Nat
  /\ Cardinality(Awake) \in Nat /\ Cardinality(Awake') \in Nat
  /\ Cardinality(Notifying) \in Nat /\ Cardinality(Notifying') \in Nat
  /\ Cardinality(Blocking') <= Cardinality(Consumers)
  /\ Cardinality(Consumers) \in Nat
<1>1. /\ Blocking \in SUBSET Tasks /\ Blocking' \in SUBSET Tasks
      /\ Awake \in SUBSET Tasks /\ Awake' \in SUBSET Tasks
      /\ Notifying \in SUBSET Tasks /\ Notifying' \in SUBSET Tasks
      /\ Consumers \in SUBSET Tasks /\ Blocking' \subseteq Consumers
  BY DEF Blocking, Awake, Notifying, Tasks
<1>2. QED BY <1>1, TasksCounted

(* Steps that take no token from a consumer and no consumer, notification  *)
(* or token from an item.                                                  *)
LEMMA CoveringStays ==
  ASSUME Covering, TypeOK, TypeOK', closed' = "isr" => closed = "isr",
         Cardinality(Blocking') <= Cardinality(Blocking) + (tokens' - tokens),
         items' + tokens + Cardinality(Awake) + Cardinality(Notifying)
           <= items + tokens' + Cardinality(Awake') + Cardinality(Notifying')
  PROVE  Covering'
<1>1. /\ tokens \in Nat /\ tokens' \in Nat /\ items \in Nat /\ items' \in Nat
  BY MaxAssumption DEF TypeOK
<1>2. QED BY <1>1, Numbers DEF Covering

(* More tokens are as many more, or as many as there can be waiters.       *)
LEMMA TokensAdded ==
  ASSUME TypeOK, NEW n \in Nat, AddTokens(n)
  PROVE  /\ tokens \in Nat /\ tokens' \in Nat /\ tokens' >= tokens
         /\ tokens' = tokens + n \/ tokens' = MaxWaiters
BY MaxAssumption DEF AddTokens, TypeOK

(* The steps of a consumer: a token that it takes is one that it needs no  *)
(* more, and the item the token was for has the consumer instead.          *)
LEMMA ConsumerCovering ==
  ASSUME IInv, IInv', Covering, NEW t \in Consumers, Consume(t) \/ Consumer(t)
  PROVE  Covering'
<1>0. /\ t \in Tasks /\ t \notin Producers
      /\ \A u \in Tasks \ {t} : pc'[u] = pc[u]
      /\ Notifying' = Notifying
  <2>1. t \in Tasks /\ t \notin Producers
    BY TasksAssumption DEF Tasks
  <2>2. \A u \in Tasks \ {t} : pc'[u] = pc[u]
    BY <2>1 DEF IInv, TypeOK, Consume, Consumer, Return, Unlock, Assert, Add, Take,
                TakeTimeout, Sub, Relock, Leave, Goto
  <2>3. QED BY <2>1, <2>2 DEF Notifying, Tasks
<1> USE DEF IInv, Goto, cv, client, locals
<1>n. tokens \in Nat /\ items \in Nat
  BY MaxAssumption DEF TypeOK
<1>1. CASE Consume(t)
  <2>1. /\ Awake' = Awake \cup {t} /\ t \notin Awake /\ Blocking' = Blocking
        /\ UNCHANGED <<tokens, items, closed>>
    BY <1>0, <1>1 DEF Consume, Awake, Blocking, TypeOK, Tasks
  <2>2. QED BY <1>0, <1>n, <2>1, Numbers, TasksCounted, CoveringStays
<1>2. CASE Return(t) \/ Add(t) \/ Sub(t) \/ Relock(t)
           \/ (Assert(t) /\ pc'[t] = "add")
  <2>1. /\ Awake' = Awake /\ Blocking' = Blocking
        /\ UNCHANGED <<tokens, items, closed>>
    BY <1>0, <1>2 DEF Return, Add, Sub, Relock, Assert, Awake, Blocking, TypeOK, Tasks
  <2>2. QED BY <1>0, <1>n, <2>1, Numbers, CoveringStays
<1>3. CASE Assert(t) /\ pc'[t] # "add"
  <2>1. /\ Awake' = Awake /\ Blocking' = Blocking \ {t} /\ t \in Blocking
        /\ UNCHANGED <<tokens, items, closed>>
    BY <1>0, <1>3 DEF Assert, Awake, Blocking, TypeOK, Tasks
  <2>2. QED BY <1>0, <1>n, <2>1, Numbers, TasksCounted, CoveringStays
<1>4. CASE Unlock(t)
  <2>1. items' = 0 /\ closed' = "open" /\ tokens' = tokens
    BY <1>4, <1>n DEF Unlock, Ready
  <2>2. QED BY <1>n, <2>1, Numbers DEF Covering
<1>5. CASE Take(t)
  <2>1. /\ Awake' = Awake \cup {t} /\ t \notin Awake
        /\ Blocking' = Blocking \ {t} /\ t \in Blocking
        /\ tokens' = tokens - 1 /\ UNCHANGED <<items, closed>>
    BY <1>0, <1>5 DEF Take, Awake, Blocking, TypeOK, Tasks
  <2>2. QED BY <1>0, <1>n, <2>1, Numbers, TasksCounted, CoveringStays
<1>6. CASE TakeTimeout(t)
  <2>1. /\ Awake' = Awake \cup {t} /\ t \notin Awake
        /\ Blocking' = Blocking \ {t} /\ t \in Blocking
        /\ UNCHANGED <<tokens, items, closed>>
    BY <1>0, <1>6 DEF TakeTimeout, Awake, Blocking, TypeOK, Tasks
  <2>2. QED BY <1>0, <1>n, <2>1, Numbers, TasksCounted, CoveringStays
<1>7. CASE Leave(t)
  <2>1. /\ Awake' = Awake \ {t} /\ t \in Awake /\ Blocking' = Blocking
        /\ UNCHANGED <<tokens, closed>>
    BY <1>0, <1>7 DEF Leave, Awake, Blocking, TypeOK, Tasks
  <2>2. CASE items > 0
    <3>1. items' = items - 1
      BY <1>7, <2>2 DEF Leave
    <3>2. QED BY <1>0, <1>n, <2>1, <3>1, Numbers, TasksCounted, CoveringStays
  <2>3. CASE items = 0
    <3>1. items' = 0
      BY <1>7, <2>3 DEF Leave
    <3>2. QED BY <1>n, <2>1, <3>1, Numbers DEF Covering
  <2>4. QED BY <1>n, <2>2, <2>3
<1>8. QED
  BY <1>1, <1>2, <1>3, <1>4, <1>5, <1>6, <1>7 DEF Consumer

(* The steps of a producer: an item comes with a notification, and one     *)
(* that is refused leaves a token for everyone.                            *)
LEMMA ProducerCovering ==
  ASSUME IInv, IInv', Covering, Cardinality(Consumers) <= MaxWaiters,
         NEW p \in Producers, Produce(p) \/ Close(p) \/ Producer(p)
  PROVE  Covering'
<1>0. /\ p \in Tasks /\ p \notin Consumers
      /\ \A u \in Tasks \ {p} : pc'[u] = pc[u]
      /\ Awake' = Awake /\ Blocking' = Blocking
  <2>1. p \in Tasks /\ p \notin Consumers
    BY TasksAssumption DEF Tasks
  <2>2. \A u \in Tasks \ {p} : pc'[u] = pc[u]
    BY <2>1 DEF IInv, TypeOK, Produce, Close, Producer, Unlocked, NotifyOne, NotifyAll,
                GiveNext, Goto
  <2>3. QED BY <2>1, <2>2 DEF Awake, Blocking, Tasks
<1> USE DEF IInv, Goto, cv, client, locals
<1>n. tokens \in Nat /\ items \in Nat
  BY MaxAssumption DEF TypeOK
<1>1. CASE Produce(p)
  <2>1. /\ Notifying' = Notifying \cup {p} /\ p \notin Notifying
        /\ items' = items + 1 /\ UNCHANGED <<tokens, closed>>
    BY <1>0, <1>1 DEF Produce, Notifying, TypeOK, Tasks
  <2>2. QED BY <1>0, <1>n, <2>1, Numbers, TasksCounted, CoveringStays
<1>2. CASE Close(p) \/ Unlocked(p) \/ NotifyAll(p)
  <2>1. /\ Notifying' = Notifying /\ UNCHANGED <<tokens, items>>
        /\ (closed' = "isr" => closed = "isr")
    BY <1>0, <1>2 DEF Close, Unlocked, NotifyAll, Notifying, TypeOK, Tasks
  <2>2. QED BY <1>0, <1>n, <2>1, Numbers, CoveringStays
<1>3. CASE NotifyOne(p)
  <2>1. /\ Notifying' = Notifying \ {p} /\ p \in Notifying
        /\ AddTokens(1) /\ UNCHANGED <<items, closed>>
    BY <1>0, <1>3 DEF NotifyOne, Notifying, TypeOK, Tasks
  <2>2. CASE tokens' = tokens + 1
    BY <1>0, <1>n, <2>1, <2>2, Numbers, TasksCounted, CoveringStays
  <2>3. CASE tokens' = MaxWaiters
    BY <2>3, Numbers, MaxAssumption DEF Covering
  <2>4. QED BY <2>1, <2>2, <2>3, TokensAdded
<1>4. CASE GiveNext(p)
  <2>1. Notifying' = Notifying /\ AddTokens(1) /\ UNCHANGED <<items, closed>>
    BY <1>0, <1>4 DEF GiveNext, Notifying, TypeOK, Tasks
  <2>2. tokens' \in Nat /\ tokens' >= tokens
    BY <2>1, TokensAdded
  <2>3. QED BY <1>0, <1>n, <2>1, <2>2, Numbers, CoveringStays
<1>5. QED BY <1>1, <1>2, <1>3, <1>4 DEF Producer

(* The interrupt, and steps of nobody. *)
LEMMA OtherCovering ==
  ASSUME IInv, IInv', Covering, Cardinality(Consumers) <= MaxWaiters,
         IsrProduce \/ IsrClose \/ UNCHANGED vars
  PROVE  Covering'
<1> USE DEF IInv, locals, cv, client
<1>n. tokens \in Nat /\ items \in Nat
  BY MaxAssumption DEF TypeOK
<1>0. Awake' = Awake /\ Blocking' = Blocking /\ Notifying' = Notifying
  BY DEF IsrProduce, IsrClose, vars, Awake, Blocking, Notifying
<1>1. CASE IsrProduce
  <2>1. AddTokens(1) /\ items' = items + 1 /\ closed' = closed
    BY <1>1 DEF IsrProduce
  <2>2. CASE tokens' = tokens + 1
    BY <1>0, <1>n, <2>1, <2>2, Numbers, CoveringStays
  <2>3. CASE tokens' = MaxWaiters
    BY <2>3, Numbers, MaxAssumption DEF Covering
  <2>4. QED BY <2>1, <2>2, <2>3, TokensAdded
<1>2. CASE IsrClose
  <2>1. tokens' = MaxWaiters
    BY <1>2, <1>n, MaxAssumption DEF IsrClose, AddTokens, TypeOK
  <2>2. QED BY <2>1, Numbers, MaxAssumption DEF Covering
<1>3. CASE UNCHANGED vars
  BY <1>0, <1>n, <1>3, Numbers, CoveringStays DEF vars
<1>4. QED BY <1>1, <1>2, <1>3

(* Covering holds in every reachable state, for as many consumers as the   *)
(* condition variable is configured for.                                   *)
LEMMA SpecCovering == Spec => [](Cardinality(Consumers) <= MaxWaiters => Covering)
<1> DEFINE C == Cardinality(Consumers) <= MaxWaiters => Covering
<1>1. Init => IInv /\ C
  <2> SUFFICES ASSUME Init PROVE Covering
    BY InitIInv
  <2>1. items = 0 /\ tokens = 0 /\ closed = "open"
    BY DEF Init
  <2>2. QED BY <2>1, Numbers DEF Covering
<1>2. (IInv /\ C) /\ [Next]_vars => (IInv /\ C)'
  <2> SUFFICES ASSUME IInv, C, [Next]_vars, Cardinality(Consumers) <= MaxWaiters
               PROVE  IInv' /\ Covering'
    BY NextIInv
  <2>1. IInv' /\ Covering
    BY NextIInv
  <2>2. QED
    BY <2>1, ConsumerCovering, ProducerCovering, OtherCovering DEF Next
<1>3. QED BY <1>1, <1>2, PTL DEF Spec

(* No notification is lost: an item has a token, a consumer that is up or  *)
(* a notify_one to come, unless every consumer that may block has a token, *)
(* and after notify_all_isr every such consumer has one.                   *)
THEOREM NotificationsKept == Spec => []NotificationsCovered
<1>1. (Cardinality(Consumers) <= MaxWaiters => Covering) => NotificationsCovered
  BY DEF Covering, NotificationsCovered
<1>2. QED BY <1>1, SpecCovering, PTL
=============================================================================
