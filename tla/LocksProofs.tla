----------------------------- MODULE LocksProofs -----------------------------
(***************************************************************************)
(* Proofs about Locks, for any number of tasks, lock objects and mutexes.  *)
(*                                                                         *)
(* Three arguments share the invariant IInv (what calls and objects refer  *)
(* to, and whose the recursive mutex of a call is).  The counter of a      *)
(* recursive mutex has one updater at a time unless it is taken during     *)
(* another's unlock: Counted.  The owers of a mutex that is not given back *)
(* twice are as many as the kernel counts, and all of them are its         *)
(* holder's: Balance.  So the flag of a mutex is set by its holder.        *)
(***************************************************************************)
EXTENDS Locks, FiniteSetTheorems, TLAPS

(* A call that is in progress has a mutex, and the places it goes through. *)
Referred ==
  \A t \in Tasks :
    /\ pc[t] \in {"add", "subtract"} => on[t] \in Recursive
    /\ pc[t] \in {"body", "result"} => for[t] = "scope"
    /\ pc[t] \in {"clear", "subtract"} => for[t] \in {None, "scope"}
    /\ pc[t] = "idle" => for[t] = None
    /\ for[t] = "scope" => on[t] \notin Shared
    /\ pc[t] # "idle" => on[t] # None
    /\ for[t] \in Locks =>
         user[for[t]] = t /\ target[for[t]] = on[t] /\ for[t] \notin owns

(* The kernel's owner of an exclusive mutex holds it at least once, and a  *)
(* call that has taken a recursive mutex is its owner's: only the owner    *)
(* can give it.                                                            *)
Owned ==
  /\ \A m \in Mutexes \ Shared : holder[m] = None <=> depth[m] = 0
  /\ \A m \in Shared : holder[m] = None
  /\ \A m \in Plain : depth[m] <= 1
  /\ \A t \in Tasks : pc[t] \in Holding /\ on[t] \in Recursive => holder[on[t]] = t

(* The types of the kernel's state and of the calls, and of the objects. *)
KernelTypes ==
  /\ holder \in [Mutexes -> Tasks \cup {None}]
  /\ depth \in [Mutexes -> Nat]
  /\ count \in [Mutexes -> 0..(Modulus - 1)]
  /\ pc \in [Tasks -> {"idle", "wait", "try", "clear", "subtract", "result"} \cup Holding]
  /\ on \in [Tasks -> Mutexes \cup {None}]
  /\ for \in [Tasks -> Locks \cup {None, "scope"}]
  /\ seen \in [Tasks -> 0..(Modulus - 1)]
  /\ raced \subseteq Recursive /\ twice \subseteq Plain \cup Recursive
  /\ \A t \in Tasks : pc[t] = "idle" <=> on[t] = None

ObjectTypes ==
  /\ user \in [Locks -> Tasks \cup {None}]
  /\ target \in [Locks -> Mutexes \cup {None}]
  /\ owns \subseteq Locks
  /\ \A l \in owns : user[l] # None /\ target[l] # None
  /\ raw \in [Tasks -> [Mutexes -> Nat]]

IInv == KernelTypes /\ ObjectTypes /\ Referred /\ Owned

-----------------------------------------------------------------------------
(* A counter that wraps stays in its range. *)
LEMMA Modular == \A i \in Nat : i % Modulus \in 0..(Modulus - 1)
BY BoundAssumption

(* Zero is in the range of the counter. *)
LEMMA Zero == 0 \in 0..(Modulus - 1)
BY BoundAssumption

(* Changing one entry of raw keeps its type and its other entries. *)
LEMMA RawEntry ==
  ASSUME raw \in [Tasks -> [Mutexes -> Nat]], NEW t \in Tasks, NEW m \in Mutexes,
         NEW n \in Nat, raw' = [raw EXCEPT ![t][m] = n]
  PROVE  /\ raw' \in [Tasks -> [Mutexes -> Nat]]
         /\ \A u \in Tasks, k \in Mutexes :
              raw'[u][k] = IF u = t /\ k = m THEN n ELSE raw[u][k]
OBVIOUS

(* A give keeps the types, and a holder that holds. *)
LEMMA GiveTypes ==
  ASSUME KernelTypes, Referred, Owned, NEW t \in Tasks, NEW m \in Mutexes,
         NEW l \in {None, "scope"}, Give(t, m, l), twice' \subseteq Plain \cup Recursive
  PROVE  KernelTypes'
<1> USE ClassAssumption, BoundAssumption
<1>1. depth' \in [Mutexes -> Nat] /\ holder' \in [Mutexes -> Tasks \cup {None}]
  <2>1. CASE MayGive(t, m)
    <3>1. depth[m] \in Nat /\ depth[m] > 0
      BY <2>1 DEF MayGive, KernelTypes, Owned, Mutexes
    <3>2. KernelGive(m)
      BY <2>1 DEF Give
    <3>3. QED BY <3>1, <3>2 DEF KernelGive, KernelTypes
  <2>2. CASE ~MayGive(t, m)
    BY <2>2 DEF Give, kernel, KernelTypes
  <2>3. QED BY <2>1, <2>2
<1>2. /\ pc' \in [Tasks -> {"idle", "wait", "try", "clear", "subtract", "result"} \cup Holding]
      /\ \A u \in Tasks : pc'[u] = "idle" <=> on'[u] = None
  BY DEF Give, Unlocked, Return, Enter, Holding, KernelTypes, Mutexes
<1>3. /\ on' \in [Tasks -> Mutexes \cup {None}]
      /\ for' \in [Tasks -> Locks \cup {None, "scope"}]
  BY DEF Give, Unlocked, Return, Enter, Holding, KernelTypes, Mutexes
<1>4. /\ seen' \in [Tasks -> 0..(Modulus - 1)]
      /\ count' \in [Mutexes -> 0..(Modulus - 1)] /\ raced' \subseteq Recursive
  BY Zero DEF Give, Unlocked, Return, KernelTypes
<1>5. QED
  BY <1>1, <1>2, <1>3, <1>4 DEF KernelTypes, Holding

(* A give keeps what IInv says of holders. *)
LEMMA GiveOwned ==
  ASSUME KernelTypes, Referred, Owned, NEW t \in Tasks, NEW m \in Mutexes,
         NEW l \in {None, "scope"}, Give(t, m, l),
         pc[t] = "idle" \/ (pc[t] \in {"body", "result"} /\ on[t] = m)
  PROVE  Owned'
<1> USE ClassAssumption, BoundAssumption
<1>1. \A k \in Mutexes \ Shared : holder'[k] = None <=> depth'[k] = 0
  BY DEF Give, MayGive, KernelGive, kernel, KernelTypes, Owned, Mutexes
<1>2. (\A k \in Shared : holder'[k] = None) /\ (\A k \in Plain : depth'[k] <= 1)
  BY DEF Give, MayGive, KernelGive, kernel, KernelTypes, Owned, Mutexes
<1>3. \A u \in Tasks : pc'[u] \in Holding /\ on'[u] \in Recursive => holder'[on'[u]] = u
  <2>1. CASE MayGive(t, m)
    BY <2>1 DEF Give, MayGive, KernelGive, Enter, KernelTypes, Owned, Holding, Mutexes
  <2>2. CASE ~MayGive(t, m)
    BY <2>2 DEF Give, kernel, Unlocked, Return, Enter, KernelTypes, Owned, Holding, Mutexes
  <2>3. QED BY <2>1, <2>2
<1>4. QED
  BY <1>1, <1>2, <1>3 DEF Owned

(* What calls refer to after a give. *)
LEMMA GiveReferred ==
  ASSUME KernelTypes, Referred, NEW t \in Tasks, NEW m \in Mutexes,
         NEW l \in {None, "scope"}, Give(t, m, l), l = "scope" => m \notin Shared,
         \A u \in Tasks \ {t} : for[u] \in Locks =>
           /\ user'[for[u]] = user[for[u]] /\ target'[for[u]] = target[for[u]]
           /\ for[u] \notin owns'
  PROVE  Referred'
<1> USE ClassAssumption
<1>1. /\ \A u \in Tasks \ {t} : pc'[u] = pc[u] /\ on'[u] = on[u] /\ for'[u] = for[u]
      /\ \/ pc'[t] = "clear" /\ on'[t] = m /\ for'[t] = l
         \/ pc'[t] = "result" /\ on'[t] = m /\ for'[t] = l /\ l = "scope"
         \/ pc'[t] = "idle" /\ for'[t] = None
  BY DEF Give, Unlocked, Return, Enter, KernelTypes
<1>2. \A u \in Tasks \ {t} : for[u] \in Locks =>
        user'[for[u]] = u /\ target'[for[u]] = on[u] /\ for[u] \notin owns'
  BY DEF Referred
<1>3. QED BY <1>1, <1>2 DEF Referred, Mutexes

(* The initial states satisfy the inductive invariant. *)
LEMMA InitIInv == Init => IInv
BY ClassAssumption, BoundAssumption
   DEF Init, IInv, KernelTypes, ObjectTypes, Holding, Referred, Owned, Mutexes

(* Every step preserves the inductive invariant. *)
LEMMA NextIInv == IInv /\ [Next]_vars => IInv'
<1> SUFFICES ASSUME IInv, [Next]_vars PROVE IInv'
  OBVIOUS
<1> USE ClassAssumption, BoundAssumption DEF IInv, kernel, objects, calls, history
<1>1. ASSUME NEW t \in Tasks, NEW m \in Mutexes, Lock(t, m) PROVE IInv'
  <2>1. KernelTypes'
    BY <1>1, Zero DEF Lock, Begin, Enter, Mutexes, Holding, KernelTypes, Referred, Owned
  <2>2. ObjectTypes'
    BY <1>1 DEF Lock, Begin, Enter, Mutexes, KernelTypes, ObjectTypes
  <2>3. Referred'
    BY <1>1 DEF Lock, Begin, Enter, Mutexes, KernelTypes, ObjectTypes, Holding, Referred
  <2>4. Owned'
    BY <1>1 DEF Lock, Begin, Enter, Mutexes, KernelTypes, Holding, Referred, Owned
  <2> QED BY <2>1, <2>2, <2>3, <2>4
<1>2. ASSUME NEW t \in Tasks, NEW m \in Mutexes, TryLock(t, m) PROVE IInv'
  <2>1. KernelTypes'
    BY <1>2, Zero DEF TryLock, Begin, Enter, Mutexes, Holding, KernelTypes, Referred, Owned
  <2>2. ObjectTypes'
    BY <1>2 DEF TryLock, Begin, Enter, Mutexes, KernelTypes, ObjectTypes
  <2>3. Referred'
    BY <1>2 DEF TryLock, Begin, Enter, Mutexes, KernelTypes, ObjectTypes, Holding, Referred
  <2>4. Owned'
    BY <1>2 DEF TryLock, Begin, Enter, Mutexes, KernelTypes, Holding, Referred, Owned
  <2> QED BY <2>1, <2>2, <2>3, <2>4
<1>3. ASSUME NEW t \in Tasks, NEW m \in Mutexes, Claim(t, m) PROVE IInv'
  <2>1. KernelTypes'
    BY <1>3, Zero DEF Claim, Begin, Enter, Mutexes, Holding, KernelTypes, Referred, Owned
  <2>2. ObjectTypes'
    BY <1>3 DEF Claim, Begin, Enter, Mutexes, KernelTypes, ObjectTypes
  <2>3. Referred'
    BY <1>3 DEF Claim, Begin, Enter, Mutexes, KernelTypes, ObjectTypes, Holding, Referred
  <2>4. Owned'
    BY <1>3 DEF Claim, Begin, Enter, Mutexes, KernelTypes, Holding, Referred, Owned
  <2> QED BY <2>1, <2>2, <2>3, <2>4
<1>4. ASSUME NEW t \in Tasks, NEW l \in Locks, LockBy(t, l) PROVE IInv'
  <2>1. KernelTypes'
    BY <1>4, Zero DEF LockBy, Begin, Enter, Mutexes, Holding, KernelTypes, Referred, Owned, ObjectTypes
  <2>2. ObjectTypes'
    BY <1>4 DEF LockBy, Begin, Enter, Mutexes, KernelTypes, ObjectTypes
  <2>3. Referred'
    BY <1>4 DEF LockBy, Begin, Enter, Mutexes, KernelTypes, ObjectTypes, Holding, Referred
  <2>4. Owned'
    BY <1>4 DEF LockBy, Begin, Enter, Mutexes, KernelTypes, Holding, Referred, Owned
  <2> QED BY <2>1, <2>2, <2>3, <2>4
<1>5. ASSUME NEW t \in Tasks, Take(t) PROVE IInv'
  <2>1. KernelTypes'
    BY <1>5, Zero DEF Take, MayTake, KernelTake, Mutexes, Holding, KernelTypes, Referred, Owned
  <2>2. ObjectTypes'
    BY <1>5 DEF Take, MayTake, KernelTake, Mutexes, KernelTypes, ObjectTypes
  <2>3. Referred'
    BY <1>5 DEF Take, MayTake, KernelTake, Mutexes, KernelTypes, ObjectTypes, Holding, Referred
  <2>4. Owned'
    BY <1>5 DEF Take, MayTake, KernelTake, Mutexes, KernelTypes, Holding, Referred, Owned
  <2> QED BY <2>1, <2>2, <2>3, <2>4
<1>6. ASSUME NEW t \in Tasks, Fail(t) PROVE IInv'
  <2>1. KernelTypes'
    BY <1>6, Zero DEF Fail, Return, Enter, Mutexes, Holding, KernelTypes, Referred, Owned
  <2>2. ObjectTypes'
    BY <1>6 DEF Fail, Return, Enter, Mutexes, KernelTypes, ObjectTypes
  <2>3. Referred'
    BY <1>6 DEF Fail, Return, Enter, Mutexes, KernelTypes, ObjectTypes, Holding, Referred
  <2>4. Owned'
    BY <1>6 DEF Fail, Return, Enter, Mutexes, KernelTypes, Holding, Referred, Owned
  <2> QED BY <2>1, <2>2, <2>3, <2>4
<1>7. ASSUME NEW t \in Tasks, ReadForLock(t) PROVE IInv'
  <2>1. KernelTypes'
    BY <1>7, Zero DEF ReadForLock, Read, Mutexes, Holding, KernelTypes, Referred, Owned
  <2>2. ObjectTypes'
    BY <1>7 DEF ReadForLock, Read, Mutexes, KernelTypes, ObjectTypes
  <2>3. Referred'
    BY <1>7 DEF ReadForLock, Read, Mutexes, KernelTypes, ObjectTypes, Holding, Referred
  <2>4. Owned'
    BY <1>7 DEF ReadForLock, Read, Mutexes, KernelTypes, Holding, Referred, Owned
  <2> QED BY <2>1, <2>2, <2>3, <2>4
<1>8. ASSUME NEW t \in Tasks, Acquired(t) PROVE IInv'
  <2>1. KernelTypes'
    BY <1>8, Zero, Modular DEF Acquired, Return, Enter, Mutexes, Holding, KernelTypes, Referred, Owned
  <2>2. ObjectTypes'
    <3>1. raw' \in [Tasks -> [Mutexes -> Nat]]
      <4>1. CASE UNCHANGED raw
        BY <4>1 DEF ObjectTypes
      <4>2. CASE raw' = [raw EXCEPT ![t][on[t]] = raw[t][on[t]] + 1]
        <5>1. on[t] \in Mutexes /\ raw[t][on[t]] + 1 \in Nat
          BY <1>8 DEF Acquired, Return, Enter, ObjectTypes, KernelTypes, Referred
        <5>2. QED BY <4>2, <5>1, RawEntry DEF ObjectTypes
      <4>3. QED BY <1>8, <4>1, <4>2 DEF Acquired
    <3>2. /\ user' \in [Locks -> Tasks \cup {None}]
          /\ target' \in [Locks -> Mutexes \cup {None}]
          /\ owns' \subseteq Locks
      BY <1>8, <3>1 DEF Acquired, Return, Enter, ObjectTypes, KernelTypes
    <3>3. \A k \in owns' : user'[k] # None /\ target'[k] # None
      BY <1>8 DEF Acquired, Return, Enter, Mutexes, KernelTypes, ObjectTypes, Referred, Holding
    <3>4. QED BY <3>1, <3>2, <3>3 DEF ObjectTypes
  <2>3. Referred'
    <3>1. /\ \A u \in Tasks \ {t} : pc'[u] = pc[u] /\ on'[u] = on[u] /\ for'[u] = for[u]
          /\ UNCHANGED <<user, target>>
          /\ owns' = IF for[t] \in Locks THEN owns \cup {for[t]} ELSE owns
      BY <1>8 DEF Acquired, Return, Enter, KernelTypes
    <3>2. \/ pc'[t] = "body" /\ for'[t] = "scope" /\ for[t] = "scope" /\ on'[t] = on[t]
          \/ pc'[t] = "idle" /\ for'[t] = None
      BY <1>8 DEF Acquired, Return, Enter, KernelTypes
    <3>3. pc[t] # "idle"
      BY <1>8 DEF Acquired
    <3>4. ASSUME NEW u \in Tasks \ {t}, for[u] \in Locks
          PROVE  for[u] # for[t] \/ for[t] \notin Locks
      BY <3>4 DEF Referred
    <3>5. QED BY <3>1, <3>2, <3>3, <3>4 DEF Referred
  <2>4. Owned'
    BY <1>8 DEF Acquired, Return, Enter, Mutexes, KernelTypes, Holding, Referred, Owned
  <2> QED BY <2>1, <2>2, <2>3, <2>4
<1>9. ASSUME NEW t \in Tasks, NEW m \in Mutexes, Unlock(t, m) PROVE IInv'
  <2>0. pc[t] = "idle" /\ Give(t, m, None) /\ UNCHANGED <<objects, twice>>
    BY <1>9 DEF Unlock
  <2>1. KernelTypes'
    BY <2>0, GiveTypes DEF KernelTypes
  <2>2. ObjectTypes'
    <3>1. raw[t][m] - 1 \in Nat /\ raw' = [raw EXCEPT ![t][m] = raw[t][m] - 1]
      BY <1>9 DEF Unlock, ObjectTypes
    <3>2. raw' \in [Tasks -> [Mutexes -> Nat]]
      BY <3>1, RawEntry DEF ObjectTypes
    <3>3. QED BY <2>0, <3>2 DEF ObjectTypes
  <2>3. Referred'
    BY <2>0, GiveReferred DEF Referred
  <2>4. Owned'
    BY <2>0, GiveOwned
  <2> QED BY <2>1, <2>2, <2>3, <2>4
<1>10. ASSUME NEW t \in Tasks, NEW l \in {None, "scope"}, on[t] \in Mutexes \ Shared,
              pc[t] \in {"body", "result"}, Give(t, on[t], l), UNCHANGED <<objects, raw>>,
              twice' \subseteq twice \cup {on[t]}
       PROVE  IInv'
  <2>1. KernelTypes'
    <3>1. twice' \subseteq Plain \cup Recursive
      BY <1>10 DEF KernelTypes, Mutexes
    <3>2. QED BY <1>10, <3>1, GiveTypes
  <2>2. ObjectTypes'
    BY <1>10 DEF ObjectTypes
  <2>3. Referred'
    BY <1>10, GiveReferred DEF Referred
  <2>4. Owned'
    BY <1>10, GiveOwned
  <2> QED BY <2>1, <2>2, <2>3, <2>4
<1>21. ASSUME NEW t \in Tasks, Leave(t) PROVE IInv'
  <2>1. pc[t] = "body" /\ on[t] \in Mutexes \ Shared /\ UNCHANGED <<objects, raw, twice>>
    BY <1>21 DEF Leave, Referred, KernelTypes
  <2>2. \E l \in {None, "scope"} : Give(t, on[t], l)
    BY <1>21 DEF Leave
  <2>3. QED BY <1>10, <2>1, <2>2
<1>22. ASSUME NEW t \in Tasks, Result(t) PROVE IInv'
  <2>1. pc[t] = "result" /\ on[t] \in Mutexes \ Shared /\ UNCHANGED <<objects, raw>>
    BY <1>22 DEF Result, Referred, KernelTypes
  <2>2. CASE Give(t, on[t], None) /\ twice' \subseteq twice \cup {on[t]}
    BY <1>10, <2>1, <2>2
  <2>3. CASE UNCHANGED <<kernel, count, history>> /\ Return(t)
    <3>1. KernelTypes'
      BY <2>3, Zero DEF Return, Enter, KernelTypes, Holding, Mutexes
    <3>2. ObjectTypes'
      BY <2>1 DEF ObjectTypes
    <3>3. Referred'
      BY <2>1, <2>3 DEF Return, Enter, KernelTypes, Referred
    <3>4. Owned'
      BY <2>3 DEF Return, Enter, KernelTypes, Owned, Holding
    <3>5. QED BY <3>1, <3>2, <3>3, <3>4
  <2>4. QED BY <1>22, <2>2, <2>3 DEF Result
<1>11. ASSUME NEW t \in Tasks, ReadForUnlock(t) PROVE IInv'
  <2>1. KernelTypes'
    BY <1>11, Zero DEF ReadForUnlock, Read, Mutexes, Holding, KernelTypes, Referred, Owned
  <2>2. ObjectTypes'
    BY <1>11 DEF ReadForUnlock, Read, Mutexes, KernelTypes, ObjectTypes
  <2>3. Referred'
    BY <1>11 DEF ReadForUnlock, Read, Mutexes, KernelTypes, ObjectTypes, Holding, Referred
  <2>4. Owned'
    BY <1>11 DEF ReadForUnlock, Read, Mutexes, KernelTypes, Holding, Referred, Owned
  <2> QED BY <2>1, <2>2, <2>3, <2>4
<1>12. ASSUME NEW t \in Tasks, Released(t) PROVE IInv'
  <2>1. KernelTypes'
    BY <1>12, Zero DEF Released, Unlocked, Return, Enter, Mutexes, Holding, KernelTypes, Referred, Owned
  <2>2. ObjectTypes'
    BY <1>12 DEF Released, Unlocked, Return, Enter, Mutexes, KernelTypes, ObjectTypes
  <2>3. Referred'
    BY <1>12 DEF Released, Unlocked, Return, Enter, Mutexes, KernelTypes, ObjectTypes, Holding, Referred
  <2>4. Owned'
    BY <1>12 DEF Released, Unlocked, Return, Enter, Mutexes, KernelTypes, Holding, Referred, Owned
  <2> QED BY <2>1, <2>2, <2>3, <2>4
<1>13. ASSUME NEW t \in Tasks, NEW l \in Locks, Construct(t, l) PROVE IInv'
  <2>1. KernelTypes'
    BY <1>13, Zero DEF Construct, Local, Mutexes, Holding, KernelTypes, Referred, Owned
  <2>2. ObjectTypes'
    <3>1. raw' \in [Tasks -> [Mutexes -> Nat]]
      <4>1. CASE UNCHANGED raw
        BY <4>1 DEF ObjectTypes
      <4>2. ASSUME NEW m \in Mutexes, raw[t][m] > 0,
                   raw' = [raw EXCEPT ![t][m] = raw[t][m] - 1]
            PROVE  raw' \in [Tasks -> [Mutexes -> Nat]]
        <5>1. raw[t][m] - 1 \in Nat
          BY <4>2 DEF ObjectTypes
        <5>2. QED BY <4>2, <5>1, RawEntry DEF ObjectTypes
      <4>3. QED BY <1>13, <4>1, <4>2 DEF Construct
    <3>2. /\ user' \in [Locks -> Tasks \cup {None}]
          /\ target' \in [Locks -> Mutexes \cup {None}]
          /\ owns' \subseteq Locks
      <4>1. user' \in [Locks -> Tasks \cup {None}] /\ owns' \subseteq Locks
        BY <1>13 DEF Construct, ObjectTypes
      <4>2. \E m \in Mutexes \cup {None} : target' = [target EXCEPT ![l] = m]
        BY <1>13 DEF Construct
      <4>3. QED BY <4>1, <4>2 DEF ObjectTypes
    <3>3. \A k \in owns' : user'[k] # None /\ target'[k] # None
      BY <1>13 DEF Construct, Local, Mutexes, KernelTypes, ObjectTypes
    <3>4. QED BY <3>1, <3>2, <3>3 DEF ObjectTypes
  <2>3. Referred'
    BY <1>13 DEF Construct, Local, Mutexes, KernelTypes, ObjectTypes, Holding, Referred
  <2>4. Owned'
    BY <1>13 DEF Construct, Local, Mutexes, KernelTypes, Holding, Referred, Owned
  <2> QED BY <2>1, <2>2, <2>3, <2>4
<1>14. ASSUME NEW t \in Tasks, NEW l \in Locks, NEW s \in Locks, Move(t, l, s) PROVE IInv'
  <2>1. KernelTypes'
    BY <1>14, Zero DEF Move, Mine, Local, Mutexes, Holding, KernelTypes, Referred, Owned
  <2>2. ObjectTypes'
    <3>1. /\ user' \in [Locks -> Tasks \cup {None}]
          /\ target' \in [Locks -> Mutexes \cup {None}]
          /\ owns' \subseteq Locks /\ UNCHANGED raw
      BY <1>14 DEF Move, Mine, ObjectTypes, Mutexes
    <3>2. \A k \in owns' : user'[k] # None /\ target'[k] # None
      BY <1>14 DEF Move, Mine, ObjectTypes, Mutexes
    <3>3. QED BY <3>1, <3>2 DEF ObjectTypes
  <2>3. Referred'
    BY <1>14 DEF Move, Mine, Local, Mutexes, KernelTypes, ObjectTypes, Holding, Referred
  <2>4. Owned'
    BY <1>14 DEF Move, Mine, Local, Mutexes, KernelTypes, Holding, Referred, Owned
  <2> QED BY <2>1, <2>2, <2>3, <2>4
<1>15. ASSUME NEW t \in Tasks, NEW l \in Locks, NEW s \in Locks, Assign(t, l, s) PROVE IInv'
  <2>1. KernelTypes'
    <3>1. CASE l \in owns
      <4>1. target[l] \in Mutexes
        BY <3>1 DEF ObjectTypes
      <4>2. pc[t] = "idle" /\ Give(t, target[l], None) /\ UNCHANGED twice
        BY <1>15, <3>1 DEF Assign, Mine, GiveBack
      <4>3. QED BY <4>1, <4>2, GiveTypes DEF KernelTypes
    <3>2. CASE l \notin owns
      BY <1>15, <3>2 DEF Assign, Mine, GiveBack, Local, KernelTypes, Holding
    <3>3. QED BY <3>1, <3>2
  <2>2. ObjectTypes'
    <3>1. /\ user' \in [Locks -> Tasks \cup {None}]
          /\ target' \in [Locks -> Mutexes \cup {None}]
          /\ owns' \subseteq Locks /\ UNCHANGED raw
      BY <1>15 DEF Assign, Mine, ObjectTypes, Mutexes
    <3>2. \A k \in owns' : user'[k] # None /\ target'[k] # None
      BY <1>15 DEF Assign, Mine, ObjectTypes, Mutexes
    <3>3. QED BY <3>1, <3>2 DEF ObjectTypes
  <2>3. Referred'
    <3>1. CASE l \in owns
      <4>1. target[l] \in Mutexes
        BY <3>1 DEF ObjectTypes
      <4>2. pc[t] = "idle" /\ Give(t, target[l], None)
        BY <1>15, <3>1 DEF Assign, Mine, GiveBack
      <4>3. \A u \in Tasks \ {t} : for[u] \in Locks =>
              /\ user'[for[u]] = user[for[u]] /\ target'[for[u]] = target[for[u]]
              /\ for[u] \notin owns'
        BY <1>15 DEF Assign, Mine, ObjectTypes, Referred
      <4>4. QED BY <4>1, <4>2, <4>3, GiveReferred
    <3>2. CASE l \notin owns
      BY <1>15, <3>2 DEF Assign, Mine, GiveBack, Local, ObjectTypes, Referred
    <3>3. QED BY <3>1, <3>2
  <2>4. Owned'
    <3>1. CASE l \in owns
      <4>1. target[l] \in Mutexes
        BY <3>1 DEF ObjectTypes
      <4>2. pc[t] = "idle" /\ Give(t, target[l], None) /\ UNCHANGED twice
        BY <1>15, <3>1 DEF Assign, Mine, GiveBack
      <4>3. QED BY <4>1, <4>2, GiveOwned
    <3>2. CASE l \notin owns
      BY <1>15, <3>2 DEF Assign, Mine, GiveBack, Local, Owned, Holding
    <3>3. QED BY <3>1, <3>2
  <2> QED BY <2>1, <2>2, <2>3, <2>4
<1>16. ASSUME NEW t \in Tasks, NEW l \in Locks, UnlockBy(t, l) PROVE IInv'
  <2>1. KernelTypes'
    <3>1. CASE l \in owns
      <4>1. target[l] \in Mutexes
        BY <3>1 DEF ObjectTypes
      <4>2. pc[t] = "idle" /\ Give(t, target[l], None) /\ UNCHANGED twice
        BY <1>16, <3>1 DEF UnlockBy, Mine, GiveBack
      <4>3. QED BY <4>1, <4>2, GiveTypes DEF KernelTypes
    <3>2. CASE l \notin owns
      BY <1>16, <3>2 DEF UnlockBy, Mine, GiveBack, Local, KernelTypes, Holding
    <3>3. QED BY <3>1, <3>2
  <2>2. ObjectTypes'
    BY <1>16 DEF UnlockBy, Mine, GiveBack, Local, Give, KernelGive, Return, Enter, Mutexes, KernelTypes, ObjectTypes
  <2>3. Referred'
    <3>1. CASE l \in owns
      <4>1. target[l] \in Mutexes
        BY <3>1 DEF ObjectTypes
      <4>2. pc[t] = "idle" /\ Give(t, target[l], None)
        BY <1>16, <3>1 DEF UnlockBy, Mine, GiveBack
      <4>3. \A u \in Tasks \ {t} : for[u] \in Locks =>
              /\ user'[for[u]] = user[for[u]] /\ target'[for[u]] = target[for[u]]
              /\ for[u] \notin owns'
        BY <1>16 DEF UnlockBy, Mine, ObjectTypes, Referred
      <4>4. QED BY <4>1, <4>2, <4>3, GiveReferred
    <3>2. CASE l \notin owns
      BY <1>16, <3>2 DEF UnlockBy, Mine, GiveBack, Local, ObjectTypes, Referred
    <3>3. QED BY <3>1, <3>2
  <2>4. Owned'
    <3>1. CASE l \in owns
      <4>1. target[l] \in Mutexes
        BY <3>1 DEF ObjectTypes
      <4>2. pc[t] = "idle" /\ Give(t, target[l], None) /\ UNCHANGED twice
        BY <1>16, <3>1 DEF UnlockBy, Mine, GiveBack
      <4>3. QED BY <4>1, <4>2, GiveOwned
    <3>2. CASE l \notin owns
      BY <1>16, <3>2 DEF UnlockBy, Mine, GiveBack, Local, Owned, Holding
    <3>3. QED BY <3>1, <3>2
  <2> QED BY <2>1, <2>2, <2>3, <2>4
<1>17. ASSUME NEW t \in Tasks, NEW l \in Locks, Destroy(t, l) PROVE IInv'
  <2>1. KernelTypes'
    <3>1. CASE l \in owns
      <4>1. target[l] \in Mutexes
        BY <3>1 DEF ObjectTypes
      <4>2. pc[t] = "idle" /\ Give(t, target[l], None) /\ UNCHANGED twice
        BY <1>17, <3>1 DEF Destroy, Mine, GiveBack
      <4>3. QED BY <4>1, <4>2, GiveTypes DEF KernelTypes
    <3>2. CASE l \notin owns
      BY <1>17, <3>2 DEF Destroy, Mine, GiveBack, Local, KernelTypes, Holding
    <3>3. QED BY <3>1, <3>2
  <2>2. ObjectTypes'
    BY <1>17 DEF Destroy, Mine, GiveBack, Local, Give, KernelGive, Return, Enter, Mutexes, KernelTypes, ObjectTypes
  <2>3. Referred'
    <3>1. CASE l \in owns
      <4>1. target[l] \in Mutexes
        BY <3>1 DEF ObjectTypes
      <4>2. pc[t] = "idle" /\ Give(t, target[l], None)
        BY <1>17, <3>1 DEF Destroy, Mine, GiveBack
      <4>3. \A u \in Tasks \ {t} : for[u] \in Locks =>
              /\ user'[for[u]] = user[for[u]] /\ target'[for[u]] = target[for[u]]
              /\ for[u] \notin owns'
        BY <1>17 DEF Destroy, Mine, ObjectTypes, Referred
      <4>4. QED BY <4>1, <4>2, <4>3, GiveReferred
    <3>2. CASE l \notin owns
      BY <1>17, <3>2 DEF Destroy, Mine, GiveBack, Local, ObjectTypes, Referred
    <3>3. QED BY <3>1, <3>2
  <2>4. Owned'
    <3>1. CASE l \in owns
      <4>1. target[l] \in Mutexes
        BY <3>1 DEF ObjectTypes
      <4>2. pc[t] = "idle" /\ Give(t, target[l], None) /\ UNCHANGED twice
        BY <1>17, <3>1 DEF Destroy, Mine, GiveBack
      <4>3. QED BY <4>1, <4>2, GiveOwned
    <3>2. CASE l \notin owns
      BY <1>17, <3>2 DEF Destroy, Mine, GiveBack, Local, Owned, Holding
    <3>3. QED BY <3>1, <3>2
  <2> QED BY <2>1, <2>2, <2>3, <2>4
<1>18. ASSUME NEW t \in Tasks, NEW l \in Locks, ReleaseObject(t, l) PROVE IInv'
  <2>1. KernelTypes'
    BY <1>18, Zero DEF ReleaseObject, Mine, Local, Mutexes, Holding, KernelTypes, Referred, Owned
  <2>2. ObjectTypes'
    <3>1. raw' \in [Tasks -> [Mutexes -> Nat]]
      <4>1. CASE UNCHANGED raw
        BY <4>1 DEF ObjectTypes
      <4>2. CASE raw' = [raw EXCEPT ![t][target[l]] = raw[t][target[l]] + 1]
        <5>1. target[l] \in Mutexes /\ raw[t][target[l]] + 1 \in Nat
          BY <1>18 DEF ReleaseObject, Mine, Local, ObjectTypes, KernelTypes, Referred
        <5>2. QED BY <4>2, <5>1, RawEntry DEF ObjectTypes
      <4>3. QED BY <1>18, <4>1, <4>2 DEF ReleaseObject
    <3>2. /\ user' \in [Locks -> Tasks \cup {None}]
          /\ target' \in [Locks -> Mutexes \cup {None}]
          /\ owns' \subseteq Locks
      BY <1>18, <3>1 DEF ReleaseObject, Mine, Local, ObjectTypes, KernelTypes
    <3>3. \A k \in owns' : user'[k] # None /\ target'[k] # None
      BY <1>18 DEF ReleaseObject, Mine, Local, Mutexes, KernelTypes, ObjectTypes
    <3>4. QED BY <3>1, <3>2, <3>3 DEF ObjectTypes
  <2>3. Referred'
    BY <1>18 DEF ReleaseObject, Mine, Local, Mutexes, KernelTypes, ObjectTypes, Holding, Referred
  <2>4. Owned'
    BY <1>18 DEF ReleaseObject, Mine, Local, Mutexes, KernelTypes, Holding, Referred, Owned
  <2> QED BY <2>1, <2>2, <2>3, <2>4
<1>19. ASSUME NEW t \in Tasks, NEW a \in Locks, NEW b \in Locks, SwapObjects(t, a, b) PROVE IInv'
  <2>1. KernelTypes'
    BY <1>19, Zero DEF SwapObjects, Mine, Local, Mutexes, Holding, KernelTypes, Referred, Owned
  <2>2. ObjectTypes'
    <3>1. /\ user' \in [Locks -> Tasks \cup {None}]
          /\ target' \in [Locks -> Mutexes \cup {None}]
          /\ owns' \subseteq Locks /\ UNCHANGED raw
      BY <1>19 DEF SwapObjects, Mine, ObjectTypes, Mutexes
    <3>2. \A k \in owns' : user'[k] # None /\ target'[k] # None
      BY <1>19 DEF SwapObjects, Mine, ObjectTypes, Mutexes
    <3>3. QED BY <3>1, <3>2 DEF ObjectTypes
  <2>3. Referred'
    BY <1>19 DEF SwapObjects, Mine, Local, Mutexes, KernelTypes, ObjectTypes, Holding, Referred
  <2>4. Owned'
    BY <1>19 DEF SwapObjects, Mine, Local, Mutexes, KernelTypes, Holding, Referred, Owned
  <2> QED BY <2>1, <2>2, <2>3, <2>4
<1>20. ASSUME UNCHANGED vars PROVE IInv'
  <2>1. KernelTypes'
    BY <1>20, Zero DEF vars, Mutexes, Holding, KernelTypes, Referred, Owned
  <2>2. ObjectTypes'
    BY <1>20 DEF vars, Mutexes, KernelTypes, ObjectTypes
  <2>3. Referred'
    BY <1>20 DEF vars, Mutexes, KernelTypes, ObjectTypes, Holding, Referred
  <2>4. Owned'
    BY <1>20 DEF vars, Mutexes, KernelTypes, Holding, Referred, Owned
  <2> QED BY <2>1, <2>2, <2>3, <2>4
<1> QED
  BY <1>1, <1>2, <1>3, <1>4, <1>5, <1>6, <1>7, <1>8, <1>9, <1>10, <1>11, <1>12, <1>13, <1>14, <1>15, <1>16, <1>17, <1>18, <1>19, <1>20, <1>21, <1>22
     DEF Next, LockObject

(* The inductive invariant holds in every reachable state. *)
LEMMA SpecIInv == Spec => []IInv
BY InitIInv, NextIInv, PTL DEF Spec

-----------------------------------------------------------------------------
(* Types: the counter of a recursive mutex stays in its eight bits, a      *)
(* lock object that owns refers to a mutex and belongs to a task.          *)
THEOREM TypeCorrect == Spec => []TypeOK
<1>1. IInv => TypeOK
  BY DEF IInv, KernelTypes, ObjectTypes, TypeOK
<1>2. QED
  BY <1>1, SpecIInv, PTL

-----------------------------------------------------------------------------
(* The counter of a recursive mutex.                                       *)

Adding(t, m)      == on[t] = m /\ pc[t] \in {"mark", "add"}
Subtracting(t, m) == on[t] = m /\ pc[t] \in {"clear", "subtract"}

(* Unless a task took the mutex during another's unlock, at most one call  *)
(* is between the kernel and the counter: the holder's, or the one that    *)
(* gave the mutex last, and it knows what it is about to write.            *)
Counted ==
  \A m \in Recursive \ raced :
    /\ depth[m] <= MaxDepth
    /\ \A t \in Tasks : Adding(t, m) => count[m] + 1 = depth[m]
    /\ \A t \in Tasks : Subtracting(t, m) =>
         count[m] = depth[m] + 1 /\ holder[m] \in {t, None}
    /\ \A t, u \in Tasks : Subtracting(t, m) /\ Subtracting(u, m) => t = u
    /\ \A t \in Tasks : on[t] = m /\ pc[t] \in {"add", "subtract"} => seen[t] = count[m]
    /\ (\A t \in Tasks : ~Adding(t, m) /\ ~Subtracting(t, m)) => count[m] = depth[m]

(* A step of no call that is between the kernel and the counter.           *)
LEMMA CountedStays ==
  ASSUME Counted, UNCHANGED <<kernel, count, raced>>,
         \A u \in Tasks :
           pc[u] \in {"mark", "add", "clear", "subtract"}
             \/ pc'[u] \in {"mark", "add", "clear", "subtract"} =>
           pc'[u] = pc[u] /\ on'[u] = on[u] /\ seen'[u] = seen[u]
  PROVE  Counted'
BY DEF Counted, Adding, Subtracting, kernel

(* A give takes one from the depth, and its call has yet to count.         *)
LEMMA CountedGive ==
  ASSUME KernelTypes, Referred, Owned, Counted, NEW t \in Tasks, NEW m \in Mutexes,
         NEW l, Give(t, m, l), pc[t] \in {"idle", "body", "result"}
  PROVE  Counted'
<1> USE ClassAssumption
<1>1. CASE UNCHANGED kernel /\ Unlocked(t, m, l)
  <2>1. \A u \in Tasks :
          pc[u] \in {"mark", "add", "clear", "subtract"}
            \/ pc'[u] \in {"mark", "add", "clear", "subtract"} =>
          pc'[u] = pc[u] /\ on'[u] = on[u] /\ seen'[u] = seen[u]
    BY <1>1 DEF Unlocked, Return, Enter, KernelTypes
  <2>2. QED BY <1>1, <2>1, CountedStays DEF Give
<1>2. CASE KernelGive(m) /\ Enter(t, "clear", m, l) /\ UNCHANGED seen /\ MayGive(t, m)
  <2>1. UNCHANGED <<count, raced, seen>>
    BY <1>2 DEF Give
  <2>2. \A u \in Tasks \ {t} : pc'[u] = pc[u] /\ on'[u] = on[u]
    BY <1>2 DEF Enter, KernelTypes
  <2>3. pc'[t] = "clear" /\ on'[t] = m
    BY <1>2 DEF Enter, KernelTypes
  <2>4. \A k \in Mutexes \ {m} : holder'[k] = holder[k] /\ depth'[k] = depth[k]
    BY <1>2 DEF KernelGive, KernelTypes
  <2>5. ASSUME NEW k \in Recursive \ raced, k # m
        PROVE  \A u \in Tasks : /\ Adding(u, k)' <=> Adding(u, k)
                                /\ Subtracting(u, k)' <=> Subtracting(u, k)
    BY <2>2, <2>3, <2>5 DEF Adding, Subtracting
  <2>6. ASSUME m \in Recursive \ raced
        PROVE  /\ holder[m] = t
               /\ \A u \in Tasks : ~Adding(u, m) /\ ~Subtracting(u, m)
    <3>1. holder[m] = t
      BY <1>2, <2>6 DEF MayGive
    <3>2. ASSUME NEW u \in Tasks, Adding(u, m) PROVE FALSE
      <4>1. holder[m] = u
        BY <2>6, <3>2 DEF Owned, Adding, Holding
      <4>2. QED BY <3>1, <3>2, <4>1 DEF Adding
    <3>3. ASSUME NEW u \in Tasks, Subtracting(u, m) PROVE FALSE
      <4>1. holder[m] \in {u, None}
        BY <2>6, <3>3 DEF Counted
      <4>2. QED BY <3>1, <3>3, <4>1 DEF Subtracting
    <3>4. QED BY <3>1, <3>2, <3>3
  <2>7. ASSUME m \in Recursive \ raced
        PROVE  /\ depth[m] \in Nat /\ depth[m] <= MaxDepth /\ count[m] = depth[m]
               /\ depth'[m] = depth[m] - 1 /\ holder'[m] \in {t, None}
    BY <1>2, <2>6, <2>7 DEF Counted, KernelGive, KernelTypes, Mutexes
  <2>8. SUFFICES ASSUME NEW k \in Recursive \ raced
        PROVE  /\ depth'[k] <= MaxDepth
               /\ \A u \in Tasks : Adding(u, k)' => count[k] + 1 = depth'[k]
               /\ \A u \in Tasks : Subtracting(u, k)' =>
                    count[k] = depth'[k] + 1 /\ holder'[k] \in {u, None}
               /\ \A u, v \in Tasks : Subtracting(u, k)' /\ Subtracting(v, k)' => u = v
               /\ \A u \in Tasks : on'[u] = k /\ pc'[u] \in {"add", "subtract"} =>
                    seen[u] = count[k]
               /\ (\A u \in Tasks : ~Adding(u, k)' /\ ~Subtracting(u, k)') =>
                    count[k] = depth'[k]
    BY <2>1 DEF Counted
  <2>9. CASE k # m
    BY <2>2, <2>3, <2>4, <2>5, <2>9 DEF Counted, Mutexes
  <2>10. CASE k = m
    <3>1. \A u \in Tasks : ~Adding(u, k)' /\ (Subtracting(u, k)' <=> u = t)
      BY <2>2, <2>3, <2>6, <2>10 DEF Adding, Subtracting
    <3>2. \A u \in Tasks : on'[u] = k => pc'[u] \notin {"add", "subtract"}
      BY <2>2, <2>3, <2>6, <2>10 DEF Adding, Subtracting
    <3>3. QED BY <2>7, <2>10, <3>1, <3>2, BoundAssumption
  <2>11. QED BY <2>9, <2>10
<1>3. QED BY <1>1, <1>2 DEF Give

(* The same of a lock object that gives its lock back. *)
LEMMA CountedGiveBack ==
  ASSUME KernelTypes, ObjectTypes, Referred, Owned, Counted,
         NEW t \in Tasks, NEW l \in Locks, Mine(t, l), GiveBack(t, l)
  PROVE  Counted'
<1>1. CASE l \notin owns
  BY <1>1, CountedStays DEF GiveBack, Local, calls, history
<1>2. CASE l \in owns
  BY <1>2, CountedGive DEF GiveBack, Mine, ObjectTypes
<1>3. QED BY <1>1, <1>2

(* The call that takes the mutex has yet to count. *)
LEMMA CountedTake ==
  ASSUME KernelTypes, Referred, Owned, Counted, NEW t \in Tasks, Take(t)
  PROVE  Counted'
<1> USE ClassAssumption, BoundAssumption
<1> DEFINE m == on[t]
<1>1. m \in Mutexes /\ pc[t] \in {"wait", "try"} /\ MayTake(t, m)
  BY DEF Take, KernelTypes, Referred
<1>2. /\ pc'[t] = "mark" /\ on' = on /\ seen' = seen /\ count' = count
      /\ \A u \in Tasks \ {t} : pc'[u] = pc[u]
  BY DEF Take, KernelTypes
<1>3. /\ depth'[m] = depth[m] + 1 /\ depth[m] \in Nat
      /\ \A k \in Mutexes \ {m} : holder'[k] = holder[k] /\ depth'[k] = depth[k]
  BY <1>1 DEF Take, KernelTake, KernelTypes
<1>4. raced \subseteq raced'
  BY DEF Take
<1>5. ASSUME m \in Recursive \ raced'
      PROVE  \A u \in Tasks : ~Adding(u, m) /\ ~Subtracting(u, m)
  <2>1. \A u \in Tasks : ~Subtracting(u, m)
    BY <1>5 DEF Take, Subtracting
  <2>2. ASSUME NEW u \in Tasks, Adding(u, m) PROVE FALSE
    <3>1. holder[m] = u
      BY <1>5, <2>2 DEF Owned, Adding, Holding
    <3>2. u = t
      BY <1>1, <1>5, <3>1 DEF MayTake
    <3>3. QED BY <1>1, <2>2, <3>2 DEF Adding
  <2>3. QED BY <2>1, <2>2
<1>6. ASSUME m \in Recursive \ raced'
      PROVE  count[m] = depth[m] /\ depth'[m] <= MaxDepth
  <2>1. count[m] = depth[m]
    BY <1>4, <1>5, <1>6 DEF Counted
  <2>2. depth[m] < MaxDepth
    BY <1>1, <1>6 DEF MayTake, Owned
  <2>3. QED BY <1>3, <2>1, <2>2
<1> HIDE DEF m
<1>7. SUFFICES ASSUME NEW k \in Recursive \ raced'
      PROVE  /\ depth'[k] <= MaxDepth
             /\ \A u \in Tasks : Adding(u, k)' => count[k] + 1 = depth'[k]
             /\ \A u \in Tasks : Subtracting(u, k)' =>
                  count[k] = depth'[k] + 1 /\ holder'[k] \in {u, None}
             /\ \A u, v \in Tasks : Subtracting(u, k)' /\ Subtracting(v, k)' => u = v
             /\ \A u \in Tasks : on[u] = k /\ pc'[u] \in {"add", "subtract"} =>
                  seen[u] = count[k]
             /\ (\A u \in Tasks : ~Adding(u, k)' /\ ~Subtracting(u, k)') =>
                  count[k] = depth'[k]
  BY <1>2 DEF Counted
<1>8. k \in Recursive \ raced
  BY <1>4
<1>9. CASE k # m
  <2>1. \A u \in Tasks : /\ Adding(u, k)' <=> Adding(u, k)
                         /\ Subtracting(u, k)' <=> Subtracting(u, k)
    BY <1>2, <1>9 DEF Adding, Subtracting, m
  <2>2. \A u \in Tasks : on[u] = k => pc'[u] = pc[u]
    BY <1>2, <1>9 DEF m
  <2>3. QED BY <1>3, <1>8, <1>9, <2>1, <2>2 DEF Counted, Mutexes
<1>10. CASE k = m
  <2>1. \A u \in Tasks : ~Subtracting(u, k)' /\ (Adding(u, k)' <=> u = t)
    BY <1>2, <1>5, <1>10 DEF Adding, Subtracting, m
  <2>2. \A u \in Tasks : on[u] = k => pc'[u] \notin {"add", "subtract"}
    BY <1>2, <1>5, <1>10 DEF Adding, Subtracting
  <2>3. QED BY <1>3, <1>6, <1>10, <2>1, <2>2
<1>11. QED BY <1>9, <1>10

(* Reading the counter. *)
LEMMA CountedRead ==
  ASSUME KernelTypes, Counted, NEW t \in Tasks, ReadForLock(t) \/ ReadForUnlock(t)
  PROVE  Counted'
<1>1. /\ UNCHANGED <<kernel, count, on, raced>>
      /\ \A u \in Tasks \ {t} : pc'[u] = pc[u] /\ seen'[u] = seen[u]
      /\ seen'[t] = count[on[t]]
  BY DEF ReadForLock, ReadForUnlock, Read, KernelTypes, history
<1>2. \/ pc[t] = "mark" /\ pc'[t] = "add"
      \/ pc[t] = "clear" /\ pc'[t] = "subtract"
  BY DEF ReadForLock, ReadForUnlock, Read, KernelTypes
<1>3. \A u \in Tasks, m \in Mutexes :
        /\ Adding(u, m)' <=> Adding(u, m)
        /\ Subtracting(u, m)' <=> Subtracting(u, m)
  BY <1>1, <1>2 DEF Adding, Subtracting
<1>4. QED
  BY <1>1, <1>3 DEF Counted, kernel, Mutexes

(* The counter is written by the only call that is about to. *)
LEMMA CountedWrite ==
  ASSUME KernelTypes, Referred, Owned, Counted, NEW t \in Tasks,
         Acquired(t) \/ Released(t)
  PROVE  Counted'
<1> USE ClassAssumption, BoundAssumption
<1> DEFINE m == on[t]
<1>1. /\ UNCHANGED <<kernel, raced>> /\ pc'[t] \in {"idle", "body", "result"}
      /\ \A u \in Tasks \ {t} : pc'[u] = pc[u] /\ on'[u] = on[u] /\ seen'[u] = seen[u]
      /\ \A k \in Mutexes \ {m} : count'[k] = count[k]
  BY DEF Acquired, Released, Unlocked, Return, Enter, KernelTypes, history
<1>2. m \in Mutexes
  BY DEF Acquired, Released, Referred, KernelTypes
<1>3. ASSUME m \in Recursive \ raced
      PROVE  /\ count'[m] = depth[m]
             /\ \A u \in Tasks \ {t} : ~Adding(u, m) /\ ~Subtracting(u, m)
  <2>0. depth[m] \in Nat /\ count[m] \in Nat /\ depth[m] <= MaxDepth
    BY <1>2, <1>3 DEF KernelTypes, Counted
  <2>1. CASE Acquired(t)
    <3>1. Adding(t, m) /\ pc[t] = "add"
      BY <1>3, <2>1 DEF Acquired, Adding
    <3>2. seen[t] + 1 = depth[m] /\ count'[m] = (seen[t] + 1) % Modulus
      BY <1>2, <1>3, <2>1, <3>1 DEF Acquired, Counted, KernelTypes
    <3>3. depth[m] % Modulus = depth[m]
      BY <2>0
    <3>4. \A u \in Tasks \ {t} : ~Adding(u, m)
      BY <1>3, <3>1 DEF Owned, Adding, Holding
    <3>5. \A u \in Tasks : ~Subtracting(u, m)
      BY <1>3, <2>0, <3>1 DEF Counted
    <3>6. QED BY <3>2, <3>3, <3>4, <3>5
  <2>2. CASE Released(t)
    <3>1. Subtracting(t, m) /\ pc[t] = "subtract"
      BY <1>3, <2>2 DEF Released, Subtracting
    <3>2. seen[t] = count[m] /\ count[m] = depth[m] + 1
      BY <1>3, <3>1 DEF Counted
    <3>3. count'[m] = seen[t] - 1
      BY <1>2, <1>3, <2>0, <2>2, <3>2 DEF Released, KernelTypes
    <3>4. \A u \in Tasks : ~Adding(u, m)
      BY <1>3, <2>0, <3>2 DEF Counted
    <3>5. \A u \in Tasks \ {t} : ~Subtracting(u, m)
      BY <1>3, <3>1 DEF Counted
    <3>6. QED BY <2>0, <3>2, <3>3, <3>4, <3>5
  <2>3. QED BY <2>1, <2>2
<1>4. \A k \in Mutexes : ~Adding(t, k)' /\ ~Subtracting(t, k)'
  BY <1>1 DEF Adding, Subtracting
<1>5. \A u \in Tasks \ {t} : \A k \in Mutexes :
        /\ Adding(u, k)' <=> Adding(u, k)
        /\ Subtracting(u, k)' <=> Subtracting(u, k)
  BY <1>1 DEF Adding, Subtracting
<1>6. \A k \in Mutexes \ {m} : ~Adding(t, k) /\ ~Subtracting(t, k)
  BY DEF Adding, Subtracting
<1> HIDE DEF m
<1>7. SUFFICES ASSUME NEW k \in Recursive \ raced
      PROVE  /\ depth[k] <= MaxDepth
             /\ \A u \in Tasks : Adding(u, k)' => count'[k] + 1 = depth[k]
             /\ \A u \in Tasks : Subtracting(u, k)' =>
                  count'[k] = depth[k] + 1 /\ holder[k] \in {u, None}
             /\ \A u, v \in Tasks : Subtracting(u, k)' /\ Subtracting(v, k)' => u = v
             /\ \A u \in Tasks : on'[u] = k /\ pc'[u] \in {"add", "subtract"} =>
                  seen'[u] = count'[k]
             /\ (\A u \in Tasks : ~Adding(u, k)' /\ ~Subtracting(u, k)') =>
                  count'[k] = depth[k]
  BY <1>1 DEF Counted, kernel
<1>8. k \in Mutexes
  BY DEF Mutexes
<1>9. CASE k # m
  <2>1. \A u \in Tasks : on'[u] = k /\ pc'[u] \in {"add", "subtract"} =>
          seen'[u] = count'[k]
    BY <1>1, <1>8, <1>9 DEF Counted
  <2>2. QED BY <1>1, <1>4, <1>5, <1>6, <1>8, <1>9, <2>1 DEF Counted
<1>10. CASE k = m
  <2>1. \A u \in Tasks : ~Adding(u, k)' /\ ~Subtracting(u, k)'
    BY <1>3, <1>4, <1>5, <1>8, <1>10
  <2>2. \A u \in Tasks : on'[u] = k => pc'[u] \notin {"add", "subtract"}
    BY <2>1 DEF Adding, Subtracting
  <2>3. QED BY <1>3, <1>10, <2>1, <2>2 DEF Counted
<1>11. QED BY <1>9, <1>10

(* Every step keeps the counters. *)
LEMMA CountedNext ==
  ASSUME IInv, Counted, [Next]_vars
  PROVE  Counted'
<1> USE DEF IInv, history
<1>1. ASSUME NEW t \in Tasks, NEW m \in Mutexes, Lock(t, m) \/ TryLock(t, m) \/ Claim(t, m)
      PROVE  Counted'
  BY <1>1, CountedStays DEF Lock, TryLock, Claim, Begin, Enter, KernelTypes
<1>2. ASSUME NEW t \in Tasks, NEW l \in Locks, LockBy(t, l) PROVE Counted'
  BY <1>2, CountedStays DEF LockBy, Begin, Enter, KernelTypes
<1>3. ASSUME NEW t \in Tasks, Fail(t) PROVE Counted'
  BY <1>3, CountedStays DEF Fail, Return, Enter, KernelTypes
<1>4. ASSUME NEW t \in Tasks, NEW m \in Mutexes, Unlock(t, m) PROVE Counted'
  BY <1>4, CountedGive DEF Unlock
<1>5. ASSUME NEW t \in Tasks, Leave(t) PROVE Counted'
  <2>1. on[t] \in Mutexes
    BY <1>5 DEF Leave, KernelTypes
  <2>2. QED BY <1>5, <2>1, CountedGive DEF Leave
<1>10. ASSUME NEW t \in Tasks, Result(t) PROVE Counted'
  <2>1. on[t] \in Mutexes
    BY <1>10 DEF Result, KernelTypes
  <2>2. CASE Give(t, on[t], None)
    BY <1>10, <2>1, <2>2, CountedGive DEF Result
  <2>3. CASE UNCHANGED <<kernel, count, history>> /\ Return(t)
    BY <1>10, <2>3, CountedStays DEF Result, Return, Enter, KernelTypes
  <2>4. QED BY <1>10, <2>2, <2>3 DEF Result
<1>6. ASSUME NEW t \in Tasks, NEW l \in Locks, NEW s \in Locks,
             Assign(t, l, s) \/ UnlockBy(t, l) \/ Destroy(t, l)
      PROVE  Counted'
  BY <1>6, CountedGiveBack DEF Assign, UnlockBy, Destroy
<1>7. ASSUME NEW t \in Tasks, NEW l \in Locks, NEW s \in Locks,
             Construct(t, l) \/ ReleaseObject(t, l) \/ Move(t, l, s) \/ SwapObjects(t, l, s)
      PROVE  Counted'
  BY <1>7, CountedStays
     DEF Construct, ReleaseObject, Move, SwapObjects, Local, calls
<1>8. CASE UNCHANGED vars
  BY <1>8, CountedStays DEF vars, calls
<1>9. QED
  BY <1>1, <1>2, <1>3, <1>4, <1>5, <1>6, <1>7, <1>8, <1>10, CountedTake,
     CountedRead, CountedWrite
     DEF Next, LockObject

(* recursions_count() is exact between calls, until two tasks' updates     *)
(* raced: each call counts what it did to the kernel's mutex, and no more. *)
THEOREM CounterExact == Spec => []CountExact
<1>1. Init => Counted
  BY ClassAssumption, BoundAssumption DEF Init, Counted, Adding, Subtracting, Mutexes
<1>2. IInv /\ IInv' /\ Counted /\ [Next]_vars => Counted'
  BY CountedNext
<1>3. IInv /\ Counted => CountExact
  BY DEF IInv, KernelTypes, Counted, CountExact, Adding, Subtracting
<1>4. QED
  BY <1>1, <1>2, <1>3, SpecIInv, PTL DEF Spec

-----------------------------------------------------------------------------
(* What is owed.                                                           *)

(* The sets of owers, tagged as in Owed.                                   *)
Tagged(A, B, C) == ({"object"} \X A) \cup ({"call"} \X B) \cup ({"task"} \X C)

(* The tags keep the owers apart. *)
LEMMA TaggedElements ==
  ASSUME NEW A, NEW B, NEW C, NEW x
  PROVE  /\ <<"object", x>> \in Tagged(A, B, C) <=> x \in A
         /\ <<"call", x>> \in Tagged(A, B, C) <=> x \in B
         /\ <<"task", x>> \in Tagged(A, B, C) <=> x \in C
BY DEF Tagged

(* Owed is the tagged union of its three parts, before and after a step. *)
LEMMA OwedTagged ==
  \A m : /\ Owed(m) = Tagged(ByObject(m), ByCall(m), ByTask(m))
         /\ Owed(m)' = Tagged(ByObject(m)', ByCall(m)', ByTask(m)')
BY DEF Owed, Tagged

(* A mutex is owed as often as it is held. *)
Even(m) == IsFiniteSet(Owed(m)) /\ Cardinality(Owed(m)) = depth[m]

(* Nobody but the holder of an exclusive mutex owes it. *)
HolderOwes ==
  /\ \A l \in owns : target[l] \notin Shared \cup twice => holder[target[l]] = user[l]
  /\ \A t \in Tasks, m \in Mutexes \ (Shared \cup twice) : raw[t][m] > 0 => holder[m] = t
  /\ \A t \in Tasks :
       pc[t] \in Holding /\ on[t] \notin Shared \cup twice => holder[on[t]] = t

Balance == HolderOwes /\ \A m \in Mutexes \ twice : Even(m)

(* A claim is taken over. *)
LEMMA EvenSwapped ==
  ASSUME NEW m \in Mutexes, Even(m), depth'[m] = depth[m],
         NEW x, NEW y, x \in Owed(m), y \notin Owed(m),
         Owed(m)' = (Owed(m) \ {x}) \cup {y}
  PROVE  Even(m)'
<1>1. /\ IsFiniteSet(Owed(m) \ {x})
      /\ Cardinality(Owed(m) \ {x}) = Cardinality(Owed(m)) - 1
  BY FS_RemoveElement DEF Even
<1>2. /\ IsFiniteSet((Owed(m) \ {x}) \cup {y})
      /\ Cardinality((Owed(m) \ {x}) \cup {y}) = Cardinality(Owed(m) \ {x}) + 1
  BY <1>1, FS_AddElement
<1>3. Cardinality(Owed(m)) \in Nat
  BY FS_CardinalityType DEF Even
<1>4. Cardinality((Owed(m) \ {x}) \cup {y}) = depth[m]
  BY <1>1, <1>2, <1>3 DEF Even
<1>5. QED BY <1>2, <1>4 DEF Even

(* A claim is added. *)
LEMMA EvenTaken ==
  ASSUME NEW m \in Mutexes, Even(m), depth'[m] = depth[m] + 1,
         NEW y, y \notin Owed(m), Owed(m)' = Owed(m) \cup {y}
  PROVE  Even(m)'
<1>1. /\ IsFiniteSet(Owed(m) \cup {y})
      /\ Cardinality(Owed(m) \cup {y}) = Cardinality(Owed(m)) + 1
  BY FS_AddElement DEF Even
<1>2. QED BY <1>1 DEF Even

(* A claim is dropped. *)
LEMMA EvenGiven ==
  ASSUME NEW m \in Mutexes, Even(m), depth'[m] = depth[m] - 1,
         NEW x, x \in Owed(m), Owed(m)' = Owed(m) \ {x}
  PROVE  Even(m)'
<1>1. /\ IsFiniteSet(Owed(m) \ {x})
      /\ Cardinality(Owed(m) \ {x}) = Cardinality(Owed(m)) - 1
  BY FS_RemoveElement DEF Even
<1>2. QED BY <1>1 DEF Even

(* One lock more that the task has by itself. *)
LEMMA TaskMore ==
  ASSUME ObjectTypes, NEW t \in Tasks, NEW m \in Mutexes,
         raw' = [raw EXCEPT ![t][m] = raw[t][m] + 1]
  PROVE  /\ ByTask(m)' = ByTask(m) \cup {<<t, raw[t][m] + 1>>}
         /\ <<t, raw[t][m] + 1>> \notin ByTask(m)
         /\ \A k \in Mutexes \ {m} : ByTask(k)' = ByTask(k)
<1> DEFINE n == raw[t][m]
<1>1. n \in Nat /\ n + 1 \in Nat
  BY DEF ObjectTypes
<1>2. \A u \in Tasks, k \in Mutexes :
        raw'[u][k] = IF u = t /\ k = m THEN n + 1 ELSE raw[u][k]
  BY <1>1, RawEntry DEF ObjectTypes
<1> HIDE DEF n
<1>3. \A k \in Mutexes, u \in Tasks :
        {u} \X (1..raw'[u][k]) = IF u = t /\ k = m
                                THEN ({t} \X (1..n)) \cup {<<t, n + 1>>}
                                ELSE {u} \X (1..raw[u][k])
  <2>1. 1..(n + 1) = (1..n) \cup {n + 1}
    BY <1>1
  <2>2. {t} \X (1..(n + 1)) = ({t} \X (1..n)) \cup {<<t, n + 1>>}
    BY <2>1
  <2>3. QED BY <1>2, <2>2
<1>4. ByTask(m)' = ByTask(m) \cup {<<t, n + 1>>}
  BY <1>3 DEF ByTask, n
<1>5. \A k \in Mutexes \ {m} : ByTask(k)' = ByTask(k)
  BY <1>3 DEF ByTask
<1>6. <<t, n + 1>> \notin ByTask(m)
  <2>1. \A u \in Tasks : <<t, n + 1>> \in {u} \X (1..raw[u][m]) => u = t /\ n + 1 \in 1..n
    BY DEF n
  <2>2. n + 1 \notin 1..n
    BY <1>1
  <2>3. QED BY <2>1, <2>2 DEF ByTask
<1>7. QED BY <1>4, <1>5, <1>6 DEF n

(* One lock less that the task has by itself. *)
LEMMA TaskLess ==
  ASSUME ObjectTypes, NEW t \in Tasks, NEW m \in Mutexes, raw[t][m] > 0,
         raw' = [raw EXCEPT ![t][m] = raw[t][m] - 1]
  PROVE  /\ ByTask(m)' = ByTask(m) \ {<<t, raw[t][m]>>}
         /\ <<t, raw[t][m]>> \in ByTask(m)
         /\ \A k \in Mutexes \ {m} : ByTask(k)' = ByTask(k)
         /\ \A u \in Tasks, k \in Mutexes : raw'[u][k] > 0 => raw[u][k] > 0
<1> DEFINE n == raw[t][m]
<1>1. n \in Nat /\ n - 1 \in Nat /\ n > 0
  BY DEF ObjectTypes
<1>2. \A u \in Tasks, k \in Mutexes :
        raw'[u][k] = IF u = t /\ k = m THEN n - 1 ELSE raw[u][k]
  BY <1>1, RawEntry DEF ObjectTypes
<1> HIDE DEF n
<1>3. \A k \in Mutexes, u \in Tasks :
        {u} \X (1..raw'[u][k]) = IF u = t /\ k = m
                                THEN ({t} \X (1..n)) \ {<<t, n>>}
                                ELSE {u} \X (1..raw[u][k])
  <2>1. 1..(n - 1) = (1..n) \ {n}
    BY <1>1
  <2>2. {t} \X (1..(n - 1)) = ({t} \X (1..n)) \ {<<t, n>>}
    BY <2>1
  <2>3. QED BY <1>2, <2>2
<1>4. \A u \in Tasks : <<t, n>> \in {u} \X (1..raw[u][m]) => u = t
  OBVIOUS
<1>5. ByTask(m)' = ByTask(m) \ {<<t, n>>}
  BY <1>3, <1>4 DEF ByTask, n
<1>6. \A k \in Mutexes \ {m} : ByTask(k)' = ByTask(k)
  BY <1>3 DEF ByTask
<1>7. <<t, n>> \in ByTask(m)
  <2>1. n \in 1..n
    BY <1>1
  <2>2. <<t, n>> \in {t} \X (1..raw[t][m])
    BY <2>1 DEF n
  <2>3. QED BY <2>2 DEF ByTask
<1>8. \A u \in Tasks, k \in Mutexes : raw'[u][k] > 0 => raw[u][k] > 0
  BY <1>1, <1>2 DEF n
<1>9. QED BY <1>5, <1>6, <1>7, <1>8 DEF n

(* A mutex that somebody owes is held, and a give of it by its holder      *)
(* succeeds.                                                               *)
LEMMA GiveSucceeds ==
  ASSUME KernelTypes, NEW t \in Tasks, NEW m \in Mutexes, NEW l, Give(t, m, l), Even(m),
         NEW x, x \in Owed(m), m \notin Shared => holder[m] = t,
         pc[t] = "idle" \/ (pc[t] = "body" /\ on[t] = m)
  PROVE  /\ KernelGive(m)
         /\ \A k \in Mutexes : ByCall(k)' = ByCall(k) \ {t}
         /\ pc[t] = "idle" => \A k \in Mutexes : ByCall(k)' = ByCall(k)
<1>1. depth[m] # 0 /\ depth[m] \in Nat
  BY FS_EmptySet DEF Even, KernelTypes
<1>2. KernelGive(m) /\ Enter(t, "clear", m, l)
  BY <1>1, ClassAssumption DEF Give, MayGive
<1>3. /\ pc'[t] = "clear"
      /\ \A u \in Tasks \ {t} : pc'[u] = pc[u] /\ on'[u] = on[u]
  BY <1>2 DEF Enter, KernelTypes
<1>4. \A k \in Mutexes : ByCall(k)' = ByCall(k) \ {t}
  BY <1>3 DEF ByCall, Holding
<1>5. pc[t] = "idle" => \A k \in Mutexes : t \notin ByCall(k)
  BY DEF ByCall, Holding
<1>6. QED BY <1>2, <1>4, <1>5

(* A give, whether it succeeds or not, concerns no other mutex, and no     *)
(* call takes a mutex by it.                                               *)
LEMMA GiveElsewhere ==
  ASSUME KernelTypes, NEW t \in Tasks, NEW m \in Mutexes, NEW l, Give(t, m, l),
         pc[t] \in {"idle", "result"} \/ (pc[t] = "body" /\ on[t] = m)
  PROVE  /\ \A k \in Mutexes \ {m} : /\ holder'[k] = holder[k] /\ depth'[k] = depth[k]
                                     /\ ByCall(k)' = ByCall(k)
         /\ \A u \in Tasks : pc'[u] \in Holding => pc[u] \in Holding /\ on'[u] = on[u]
<1>1. \A k \in Mutexes \ {m} : holder'[k] = holder[k] /\ depth'[k] = depth[k]
  BY DEF Give, KernelGive, kernel, KernelTypes
<1>2. /\ pc'[t] \notin Holding
      /\ \A u \in Tasks \ {t} : pc'[u] = pc[u] /\ on'[u] = on[u]
  BY DEF Give, Unlocked, Return, Enter, KernelTypes, Holding
<1>3. \A k \in Mutexes \ {m} : t \notin ByCall(k)
  BY DEF ByCall, Holding
<1>4. \A k \in Mutexes \ {m} : ByCall(k)' = ByCall(k)
  BY <1>2, <1>3 DEF ByCall
<1>5. QED BY <1>1, <1>2, <1>4

(* As long as somebody still owes it, the holder stays. *)
LEMMA StillHeld ==
  ASSUME KernelTypes, NEW m \in Mutexes, KernelGive(m), Even(m)', NEW y, y \in Owed(m)'
  PROVE  holder' = holder
<1>1. depth'[m] # 0
  BY FS_EmptySet DEF Even
<1>2. depth'[m] = depth[m] - 1
  BY DEF KernelGive, KernelTypes
<1>3. QED BY <1>1, <1>2 DEF KernelGive, KernelTypes

(* When one claim is given back to the kernel and no claim is new, what is *)
(* still owed is owed by the holder.                                       *)
LEMMA HolderGiven ==
  ASSUME KernelTypes, HolderOwes, NEW m \in Mutexes, twice \subseteq twice',
         m \notin twice' => KernelGive(m) /\ Even(m)',
         \A k \in Mutexes \ {m} : holder'[k] = holder[k],
         \A l \in owns' : /\ target'[l] \in Mutexes
                          /\ \E j \in owns : target'[l] = target[j] /\ user'[l] = user[j],
         raw' \in [Tasks -> [Mutexes -> Nat]], on' \in [Tasks -> Mutexes \cup {None}],
         \A u \in Tasks, k \in Mutexes : raw'[u][k] > 0 => raw[u][k] > 0,
         \A u \in Tasks : pc'[u] \in Holding =>
           pc[u] \in Holding /\ on'[u] = on[u] /\ on[u] # None
  PROVE  HolderOwes'
<1>1. ASSUME NEW l \in owns', target'[l] \notin Shared \cup twice'
      PROVE  holder'[target'[l]] = user'[l]
  <2>1. holder[target'[l]] = user'[l] /\ target'[l] \in Mutexes
    BY <1>1 DEF HolderOwes
  <2>2. CASE target'[l] # m
    BY <2>1, <2>2
  <2>3. CASE target'[l] = m
    <3>1. l \in ByObject(m)'
      BY <2>3 DEF ByObject
    <3>2. <<"object", l>> \in Owed(m)'
      BY <3>1 DEF Owed
    <3>3. QED BY <1>1, <2>1, <2>3, <3>2, StillHeld
  <2>4. QED BY <2>2, <2>3
<1>2. ASSUME NEW u \in Tasks, NEW k \in Mutexes \ (Shared \cup twice'), raw'[u][k] > 0
      PROVE  holder'[k] = u
  <2>1. holder[k] = u
    BY <1>2 DEF HolderOwes
  <2>2. CASE k # m
    BY <2>1, <2>2
  <2>3. CASE k = m
    <3>1. 1 \in 1..raw'[u][m]
      BY <1>2, <2>3
    <3>2. <<u, 1>> \in ByTask(m)'
      BY <3>1 DEF ByTask
    <3>3. <<"task", <<u, 1>>>> \in Owed(m)'
      BY <3>2 DEF Owed
    <3>4. QED BY <1>2, <2>1, <2>3, <3>3, StillHeld
  <2>4. QED BY <2>2, <2>3
<1>3. ASSUME NEW u \in Tasks, pc'[u] \in Holding, on'[u] \notin Shared \cup twice'
      PROVE  holder'[on'[u]] = u
  <2>1. holder[on'[u]] = u /\ on'[u] \in Mutexes
    BY <1>3 DEF HolderOwes
  <2>2. CASE on'[u] # m
    BY <2>1, <2>2
  <2>3. CASE on'[u] = m
    <3>1. u \in ByCall(m)'
      BY <1>3, <2>3 DEF ByCall
    <3>2. <<"call", u>> \in Owed(m)'
      BY <3>1 DEF Owed
    <3>3. QED BY <1>3, <2>1, <2>3, <3>2, StillHeld
  <2>4. QED BY <2>2, <2>3
<1>4. QED BY <1>1, <1>2, <1>3 DEF HolderOwes

(* The depth after a give. *)
LEMMA DepthGiven ==
  ASSUME KernelTypes, NEW m \in Mutexes, KernelGive(m)
  PROVE  /\ depth'[m] = depth[m] - 1
         /\ \A k \in Mutexes \ {m} : depth'[k] = depth[k]
BY DEF KernelGive, KernelTypes

(* A mutex that is not concerned. *)
LEMMA EvenStays ==
  ASSUME NEW m \in Mutexes, Even(m), depth'[m] = depth[m],
         ByObject(m)' = ByObject(m), ByCall(m)' = ByCall(m), ByTask(m)' = ByTask(m)
  PROVE  Even(m)'
BY DEF Even, Owed

(* A lock object takes over the claim of another. *)
LEMMA EvenMoved ==
  ASSUME NEW m \in Mutexes, Even(m), depth'[m] = depth[m],
         ByCall(m)' = ByCall(m), ByTask(m)' = ByTask(m),
         NEW x \in ByObject(m), NEW y, y \notin ByObject(m),
         ByObject(m)' = (ByObject(m) \ {x}) \cup {y}
  PROVE  Even(m)'
<1>1. Owed(m)' = Tagged((ByObject(m) \ {x}) \cup {y}, ByCall(m), ByTask(m))
  BY OwedTagged
<1>2. Tagged(ByObject(m) \ {x}, ByCall(m), ByTask(m)) = Owed(m) \ {<<"object", x>>}
  BY OwedTagged DEF Tagged
<1>3. Owed(m)' = (Owed(m) \ {<<"object", x>>}) \cup {<<"object", y>>}
  BY <1>1, <1>2 DEF Tagged
<1>4. <<"object", x>> \in Owed(m) /\ <<"object", y>> \notin Owed(m)
  BY OwedTagged, TaggedElements
<1>5. QED BY <1>3, <1>4, EvenSwapped

(* A lock object drops its claim. *)
LEMMA EvenDropped ==
  ASSUME NEW m \in Mutexes, Even(m), depth'[m] = depth[m] - 1,
         ByCall(m)' = ByCall(m), ByTask(m)' = ByTask(m),
         NEW x \in ByObject(m), ByObject(m)' = ByObject(m) \ {x}
  PROVE  Even(m)'
<1>1. Owed(m)' = Tagged(ByObject(m) \ {x}, ByCall(m), ByTask(m))
  BY OwedTagged
<1>2. Owed(m)' = Owed(m) \ {<<"object", x>>}
  BY <1>1, OwedTagged DEF Tagged
<1>3. <<"object", x>> \in Owed(m)
  BY OwedTagged, TaggedElements
<1>4. QED BY <1>2, <1>3, EvenGiven

(* Steps that only move claims between owers of the same mutex. *)
LEMMA BalanceStays ==
  ASSUME Balance, UNCHANGED <<kernel, objects, raw, twice>>,
         \A m \in Mutexes : ByCall(m)' = ByCall(m),
         \A u \in Tasks : pc'[u] \in Holding => pc[u] \in Holding /\ on'[u] = on[u]
  PROVE  Balance'
<1>1. \A m \in Mutexes : Owed(m)' = Owed(m)
  BY DEF Owed, ByObject, ByTask, objects
<1>2. \A m \in Mutexes \ twice : Even(m)'
  BY <1>1 DEF Balance, Even, kernel
<1>3. HolderOwes'
  BY DEF Balance, HolderOwes, kernel, objects
<1>4. QED BY <1>2, <1>3 DEF Balance

(* The kernel's new lock is the call's. *)
LEMMA BalanceTake ==
  ASSUME IInv, Balance, NEW t \in Tasks, Take(t)
  PROVE  Balance'
<1> USE DEF IInv, objects
<1>0. PICK m \in Mutexes : m = on[t]
  BY DEF Take, KernelTypes, Referred
<1>1. pc[t] \in {"wait", "try"} /\ MayTake(t, m) /\ KernelTake(t, m)
  BY <1>0 DEF Take
<1>2. /\ pc'[t] = "mark" /\ on' = on /\ UNCHANGED <<owns, target, user, raw, twice>>
      /\ \A u \in Tasks \ {t} : pc'[u] = pc[u]
  BY DEF Take, KernelTypes
<1>3. /\ depth'[m] = depth[m] + 1
      /\ \A k \in Mutexes \ {m} : holder'[k] = holder[k] /\ depth'[k] = depth[k]
  BY <1>1 DEF KernelTake, KernelTypes
<1>4. ByCall(m)' = ByCall(m) \cup {t} /\ t \notin ByCall(m)
  BY <1>0, <1>1, <1>2 DEF ByCall, Holding
<1>5. \A k \in Mutexes \ {m} : ByCall(k)' = ByCall(k)
  BY <1>0, <1>1, <1>2 DEF ByCall, Holding
<1>6. \A k \in Mutexes : ByObject(k)' = ByObject(k) /\ ByTask(k)' = ByTask(k)
  BY <1>2 DEF ByObject, ByTask
<1>7. ASSUME m \notin twice PROVE Even(m)'
  <2>1. Owed(m)' = Tagged(ByObject(m), ByCall(m) \cup {t}, ByTask(m))
    BY <1>4, <1>6, OwedTagged
  <2>2. <<"call", t>> \notin Owed(m) /\ Owed(m)' = Owed(m) \cup {<<"call", t>>}
    BY <1>4, <2>1, OwedTagged DEF Tagged
  <2>3. QED BY <1>1, <1>3, <1>7, <2>2, EvenTaken DEF Balance
<1>8. \A k \in Mutexes \ (twice \cup {m}) : Even(k)'
  BY <1>3, <1>5, <1>6 DEF Balance, Even, Owed
<1>9. ASSUME holder[m] = None, m \notin Shared \cup twice
      PROVE  ByObject(m) = {} /\ \A u \in Tasks : ~(raw[u][m] > 0)
  <2>1. Owed(m) = {}
    BY <1>1, <1>9, FS_EmptySet DEF Owned, Balance, Even
  <2>2. ByObject(m) = {}
    BY <2>1, OwedTagged, TaggedElements
  <2>3. ASSUME NEW u \in Tasks, raw[u][m] > 0 PROVE FALSE
    BY <1>1, <1>9, <2>3, ClassAssumption DEF Balance, HolderOwes
  <2>4. QED BY <2>2, <2>3
<1>10. HolderOwes'
  <2>1. m \notin Shared => holder'[m] = t /\ (holder[m] = t \/ holder[m] = None)
    BY <1>1 DEF KernelTake, KernelTypes, MayTake
  <2>2. ASSUME NEW l \in owns, target[l] \notin Shared \cup twice
        PROVE  holder'[target[l]] = user[l]
    <3>1. target[l] \in Mutexes /\ holder[target[l]] = user[l]
      BY <2>2 DEF Balance, HolderOwes, ObjectTypes
    <3>2. CASE target[l] # m
      BY <1>3, <3>1, <3>2
    <3>3. CASE target[l] = m
      BY <1>9, <2>1, <2>2, <3>1, <3>3 DEF ByObject
    <3>4. QED BY <3>2, <3>3
  <2>3. ASSUME NEW u \in Tasks, NEW k \in Mutexes \ (Shared \cup twice), raw[u][k] > 0
        PROVE  holder'[k] = u
    BY <1>3, <1>9, <2>1, <2>3 DEF Balance, HolderOwes
  <2>4. ASSUME NEW u \in Tasks, pc'[u] \in Holding, on[u] \notin Shared \cup twice
        PROVE  holder'[on[u]] = u
    <3>1. CASE u = t
      BY <1>0, <2>1, <2>4, <3>1
    <3>2. CASE u # t
      <4>1. holder[on[u]] = u /\ on[u] \in Mutexes
        BY <1>2, <2>4, <3>2 DEF Balance, HolderOwes, KernelTypes, Holding
      <4>2. CASE on[u] # m
        BY <1>3, <4>1, <4>2
      <4>3. CASE on[u] = m
        BY <2>1, <2>4, <3>2, <4>1, <4>3, ClassAssumption
      <4>4. QED BY <4>2, <4>3
    <3>3. QED BY <3>1, <3>2
  <2>5. QED BY <1>2, <2>2, <2>3, <2>4 DEF HolderOwes
<1>11. QED BY <1>2, <1>7, <1>8, <1>10 DEF Balance

(* The call hands its claim to its lock object or to its task. *)
LEMMA BalanceAcquired ==
  ASSUME IInv, Balance, NEW t \in Tasks, Acquired(t)
  PROVE  Balance'
<1> USE DEF IInv
<1>0. PICK m \in Mutexes : m = on[t]
  BY DEF Acquired, KernelTypes, Referred
<1>1. pc[t] \in {"mark", "add"} /\ UNCHANGED <<kernel, user, target, twice>>
  BY DEF Acquired, history
<1>2. \A u \in Tasks \ {t} : pc'[u] = pc[u] /\ on'[u] = on[u]
  BY DEF Acquired, Return, Enter, KernelTypes
<1>3. m \notin Shared \cup twice => holder[m] = t
  BY <1>0, <1>1 DEF Balance, HolderOwes, Holding
<1>4. t \in ByCall(m) /\ \A k \in Mutexes \ {m} : t \notin ByCall(k)
  BY <1>0, <1>1 DEF ByCall, Holding
<1>5. CASE for[t] = "scope"
  <2>1. pc'[t] = "body" /\ on'[t] = m
    BY <1>0, <1>5 DEF Acquired, KernelTypes
  <2>2. UNCHANGED <<owns, raw>>
    BY <1>5, ClassAssumption DEF Acquired
  <2>3. \A k \in Mutexes : ByCall(k)' = ByCall(k)
    BY <1>0, <1>1, <1>2, <2>1 DEF ByCall, Holding
  <2>4. \A u \in Tasks : pc'[u] \in Holding => pc[u] \in Holding /\ on'[u] = on[u]
    BY <1>0, <1>1, <1>2, <2>1 DEF Holding
  <2>5. QED BY <1>1, <2>2, <2>3, <2>4, BalanceStays DEF objects
<1>6. CASE for[t] # "scope"
  <2>1. pc'[t] = "idle"
    BY <1>6 DEF Acquired, Return, Enter, KernelTypes
  <2>2. \A k \in Mutexes : ByCall(k)' = ByCall(k) \ {t}
    BY <1>2, <2>1 DEF ByCall, Holding
  <2>3. /\ \A k \in Mutexes \ {m} : ByCall(k)' = ByCall(k)
        /\ \A u \in Tasks : pc'[u] \in Holding => pc[u] \in Holding /\ on'[u] = on[u]
    BY <1>2, <1>4, <2>1, <2>2 DEF Holding
  <2>4. CASE for[t] = None
    <3>1. raw' = [raw EXCEPT ![t][m] = raw[t][m] + 1] /\ owns' = owns
      BY <1>0, <2>4, ClassAssumption DEF Acquired
    <3>2. \A k \in Mutexes : ByObject(k)' = ByObject(k)
      BY <1>1, <3>1 DEF ByObject
    <3>3. ASSUME m \notin twice PROVE Even(m)'
      <4>1. PICK x : x = <<t, raw[t][m] + 1>>
        OBVIOUS
      <4>2. ByTask(m)' = ByTask(m) \cup {x} /\ x \notin ByTask(m)
        BY <3>1, <4>1, TaskMore
      <4>3. Owed(m)' = Tagged(ByObject(m), ByCall(m) \ {t}, ByTask(m) \cup {x})
        BY <2>2, <3>2, <4>2, OwedTagged
      <4>4. Tagged(ByObject(m), ByCall(m) \ {t}, ByTask(m)) = Owed(m) \ {<<"call", t>>}
        BY OwedTagged DEF Tagged
      <4>5. Owed(m)' = (Owed(m) \ {<<"call", t>>}) \cup {<<"task", x>>}
        BY <4>3, <4>4 DEF Tagged
      <4>6. <<"call", t>> \in Owed(m) /\ <<"task", x>> \notin Owed(m)
        BY <1>4, <4>2, OwedTagged, TaggedElements
      <4>7. QED BY <1>1, <3>3, <4>5, <4>6, EvenSwapped DEF Balance, kernel
    <3>4. \A k \in Mutexes \ (twice \cup {m}) : Even(k)'
      BY <1>1, <2>3, <3>1, <3>2, TaskMore DEF Balance, Even, Owed, kernel
    <3>5. HolderOwes'
      <4>1. \A u \in Tasks, k \in Mutexes :
              raw'[u][k] = IF u = t /\ k = m THEN raw[t][m] + 1 ELSE raw[u][k]
        BY <1>1, <3>1, RawEntry DEF ObjectTypes
      <4>2. QED BY <1>1, <1>3, <2>3, <3>1, <4>1 DEF Balance, HolderOwes, kernel
    <3>6. QED BY <1>1, <3>3, <3>4, <3>5 DEF Balance
  <2>5. CASE for[t] \in Locks
    <3>0. PICK l \in Locks : l = for[t]
      BY <2>5
    <3>1. raw' = raw /\ owns' = owns \cup {l}
      BY <2>5, <3>0, ClassAssumption DEF Acquired
    <3>2. l \notin owns /\ target[l] = m /\ user[l] = t
      BY <1>0, <2>5, <3>0 DEF Referred
    <3>3. /\ ByObject(m)' = ByObject(m) \cup {l} /\ l \notin ByObject(m)
          /\ \A k \in Mutexes \ {m} : ByObject(k)' = ByObject(k)
      BY <1>1, <3>1, <3>2 DEF ByObject
    <3>4. \A k \in Mutexes : ByTask(k)' = ByTask(k)
      BY <3>1 DEF ByTask
    <3>5. ASSUME m \notin twice PROVE Even(m)'
      <4>1. Owed(m)' = Tagged(ByObject(m) \cup {l}, ByCall(m) \ {t}, ByTask(m))
        BY <2>2, <3>3, <3>4, OwedTagged
      <4>2. Tagged(ByObject(m), ByCall(m) \ {t}, ByTask(m)) = Owed(m) \ {<<"call", t>>}
        BY OwedTagged DEF Tagged
      <4>3. Owed(m)' = (Owed(m) \ {<<"call", t>>}) \cup {<<"object", l>>}
        BY <4>1, <4>2 DEF Tagged
      <4>4. <<"call", t>> \in Owed(m) /\ <<"object", l>> \notin Owed(m)
        BY <1>4, <3>3, OwedTagged, TaggedElements
      <4>5. QED BY <1>1, <3>5, <4>3, <4>4, EvenSwapped DEF Balance, kernel
    <3>6. \A k \in Mutexes \ (twice \cup {m}) : Even(k)'
      BY <1>1, <2>3, <3>3, <3>4 DEF Balance, Even, Owed, kernel
    <3>7. HolderOwes'
      BY <1>1, <1>3, <2>3, <3>1, <3>2 DEF Balance, HolderOwes, kernel
    <3>8. QED BY <1>1, <3>5, <3>6, <3>7 DEF Balance
  <2>6. QED BY <1>6, <2>4, <2>5 DEF KernelTypes
<1>7. QED BY <1>5, <1>6

(* A task gives back a lock of its own. *)
LEMMA BalanceUnlock ==
  ASSUME IInv, IInv', Balance, NEW t \in Tasks, NEW m \in Mutexes, Unlock(t, m)
  PROVE  Balance'
<1> USE DEF IInv
<1>0. PICK n : n = raw[t][m]
  OBVIOUS
<1>1. /\ pc[t] = "idle" /\ Give(t, m, None) /\ n > 0
      /\ raw' = [raw EXCEPT ![t][m] = raw[t][m] - 1] /\ UNCHANGED <<objects, twice>>
  BY <1>0 DEF Unlock
<1>2. /\ ByTask(m)' = ByTask(m) \ {<<t, n>>} /\ <<t, n>> \in ByTask(m)
      /\ \A k \in Mutexes \ {m} : ByTask(k)' = ByTask(k)
      /\ \A u \in Tasks, k \in Mutexes : raw'[u][k] > 0 => raw[u][k] > 0
  BY <1>0, <1>1, TaskLess
<1>3. \A k \in Mutexes : ByObject(k)' = ByObject(k)
  BY <1>1 DEF ByObject, objects
<1>4. ASSUME m \notin twice PROVE KernelGive(m) /\ Even(m)'
  <2>1. <<"task", <<t, n>>>> \in Owed(m)
    BY <1>2 DEF Owed
  <2>2. m \notin Shared => holder[m] = t
    BY <1>0, <1>1, <1>4 DEF Balance, HolderOwes
  <2>3. KernelGive(m) /\ ByCall(m)' = ByCall(m)
    BY <1>1, <1>4, <2>1, <2>2, GiveSucceeds DEF Balance
  <2>4. Owed(m)' = Tagged(ByObject(m), ByCall(m), ByTask(m) \ {<<t, n>>})
    BY <1>2, <1>3, <2>3, OwedTagged
  <2>5. Owed(m)' = Owed(m) \ {<<"task", <<t, n>>>>}
    BY <2>4, OwedTagged DEF Tagged
  <2>6. QED BY <1>4, <2>1, <2>3, <2>5, DepthGiven, EvenGiven DEF Balance
<1>5. /\ \A k \in Mutexes \ {m} : /\ holder'[k] = holder[k] /\ depth'[k] = depth[k]
                                  /\ ByCall(k)' = ByCall(k)
      /\ \A u \in Tasks : pc'[u] \in Holding => pc[u] \in Holding /\ on'[u] = on[u]
  BY <1>1, GiveElsewhere
<1>6. \A k \in Mutexes \ (twice \cup {m}) : Even(k)'
  BY <1>2, <1>3, <1>5, EvenStays DEF Balance
<1>7. /\ \A l \in owns' : /\ target'[l] \in Mutexes
                          /\ target'[l] = target[l] /\ user'[l] = user[l]
      /\ owns' = owns /\ raw' \in [Tasks -> [Mutexes -> Nat]]
      /\ on' \in [Tasks -> Mutexes \cup {None}]
      /\ \A u \in Tasks : pc[u] \in Holding => on[u] # None
  BY <1>1 DEF objects, ObjectTypes, KernelTypes, Referred, Holding
<1>8. HolderOwes'
  BY <1>1, <1>2, <1>4, <1>5, <1>7, HolderGiven DEF Balance
<1>9. QED BY <1>1, <1>4, <1>6, <1>8 DEF Balance

(* A section gives its lock back. *)
LEMMA BalanceLeave ==
  ASSUME IInv, IInv', Balance, NEW t \in Tasks, Leave(t)
  PROVE  Balance'
<1> USE DEF IInv
<1>0. PICK m \in Mutexes : m = on[t]
  BY DEF Leave, KernelTypes, Referred
<1>1. /\ pc[t] = "body" /\ UNCHANGED <<objects, raw, twice>>
      /\ (m \notin Shared \cup twice => holder[m] = t)
  BY <1>0 DEF Leave, Balance, HolderOwes, Holding
<1>2. PICK l \in {None, "scope"} : Give(t, m, l)
  BY <1>0 DEF Leave
<1>3. t \in ByCall(m) /\ <<"call", t>> \in Owed(m)
  BY <1>0, <1>1 DEF ByCall, Holding, Owed
<1>4. \A k \in Mutexes : ByObject(k)' = ByObject(k) /\ ByTask(k)' = ByTask(k)
  BY <1>1 DEF ByObject, ByTask, objects
<1>5. ASSUME m \notin twice PROVE KernelGive(m) /\ Even(m)'
  <2>1. KernelGive(m) /\ ByCall(m)' = ByCall(m) \ {t}
    BY <1>0, <1>1, <1>2, <1>3, <1>5, GiveSucceeds DEF Balance
  <2>2. Owed(m)' = Tagged(ByObject(m), ByCall(m) \ {t}, ByTask(m))
    BY <1>4, <2>1, OwedTagged
  <2>3. Owed(m)' = Owed(m) \ {<<"call", t>>}
    BY <2>2, OwedTagged DEF Tagged
  <2>4. QED BY <1>3, <1>5, <2>1, <2>3, DepthGiven, EvenGiven DEF Balance
<1>6. /\ \A k \in Mutexes \ {m} : /\ holder'[k] = holder[k] /\ depth'[k] = depth[k]
                                  /\ ByCall(k)' = ByCall(k)
      /\ \A u \in Tasks : pc'[u] \in Holding => pc[u] \in Holding /\ on'[u] = on[u]
  BY <1>0, <1>1, <1>2, GiveElsewhere
<1>7. \A k \in Mutexes \ (twice \cup {m}) : Even(k)'
  BY <1>4, <1>6, EvenStays DEF Balance
<1>8. /\ \A j \in owns' : /\ target'[j] \in Mutexes
                          /\ target'[j] = target[j] /\ user'[j] = user[j]
      /\ owns' = owns /\ raw' = raw /\ raw' \in [Tasks -> [Mutexes -> Nat]]
      /\ on' \in [Tasks -> Mutexes \cup {None}]
      /\ \A u \in Tasks : pc[u] \in Holding => on[u] # None
  BY <1>1 DEF objects, ObjectTypes, KernelTypes, Referred, Holding
<1>9. HolderOwes'
  BY <1>1, <1>5, <1>6, <1>8, HolderGiven DEF Balance
<1>10. QED BY <1>1, <1>5, <1>7, <1>9 DEF Balance

(* A section whose result throws: the second give concerns no mutex but    *)
(* its own, which is given back twice if the kernel accepts it.            *)
LEMMA BalanceResult ==
  ASSUME IInv, IInv', Balance, NEW t \in Tasks, Result(t)
  PROVE  Balance'
<1> USE DEF IInv
<1>0. PICK m \in Mutexes : m = on[t]
  BY DEF Result, KernelTypes, Referred
<1>1. pc[t] = "result" /\ UNCHANGED <<objects, raw>>
  BY DEF Result
<1>2. CASE Return(t) /\ UNCHANGED <<kernel, history>>
  <2>1. \A u \in Tasks : pc'[u] \in Holding => pc[u] \in Holding /\ on'[u] = on[u]
    BY <1>2 DEF Return, Enter, KernelTypes, Holding
  <2>2. \A k \in Mutexes : ByCall(k)' = ByCall(k)
    BY <1>1, <1>2 DEF Return, Enter, KernelTypes, Holding, ByCall
  <2>3. QED BY <1>1, <1>2, <2>1, <2>2, BalanceStays DEF history
<1>3. CASE /\ Give(t, m, None)
           /\ twice' = IF MayGive(t, m) THEN twice \cup {m} ELSE twice
  <2>1. /\ \A k \in Mutexes \ {m} : /\ holder'[k] = holder[k] /\ depth'[k] = depth[k]
                                    /\ ByCall(k)' = ByCall(k)
        /\ \A u \in Tasks : pc'[u] \in Holding => pc[u] \in Holding /\ on'[u] = on[u]
    BY <1>1, <1>3, GiveElsewhere
  <2>2. \A k \in Mutexes : ByObject(k)' = ByObject(k) /\ ByTask(k)' = ByTask(k)
    BY <1>1 DEF ByObject, ByTask, objects
  <2>3. CASE ~MayGive(t, m)
    <3>1. UNCHANGED <<kernel, objects, raw, twice>>
      BY <1>1, <1>3, <2>3 DEF Give
    <3>2. \A k \in Mutexes : ByCall(k)' = ByCall(k)
      BY <1>1, <1>3, <2>3
         DEF Give, Unlocked, Return, Enter, KernelTypes, Holding, ByCall
    <3>3. QED BY <2>1, <3>1, <3>2, BalanceStays
  <2>4. CASE MayGive(t, m)
    <3>1. twice' = twice \cup {m}
      BY <1>3, <2>4
    <3>2. \A k \in Mutexes \ twice' : Even(k)'
      BY <2>1, <2>2, <3>1, EvenStays DEF Balance
    <3>3. /\ \A j \in owns' : /\ target'[j] \in Mutexes
                              /\ target'[j] = target[j] /\ user'[j] = user[j]
          /\ owns' = owns /\ raw' = raw /\ raw' \in [Tasks -> [Mutexes -> Nat]]
          /\ on' \in [Tasks -> Mutexes \cup {None}]
          /\ \A u \in Tasks : pc[u] \in Holding => on[u] # None
      BY <1>1 DEF objects, ObjectTypes, KernelTypes, Referred, Holding
    <3>4. HolderOwes'
      BY <2>1, <3>1, <3>3, HolderGiven DEF Balance
    <3>5. QED BY <3>2, <3>4 DEF Balance
  <2>5. QED BY <2>3, <2>4
<1>4. QED BY <1>0, <1>2, <1>3 DEF Result

(* A lock object gives its lock back, and moves no other. *)
LEMMA BalanceObject ==
  ASSUME IInv, IInv', Balance, NEW t \in Tasks, NEW l \in Locks,
         UnlockBy(t, l) \/ Destroy(t, l)
  PROVE  Balance'
<1> USE DEF IInv
<1>1. /\ pc[t] = "idle" /\ user[l] = t /\ GiveBack(t, l) /\ owns' = owns \ {l}
      /\ raw' = raw
      /\ \A k \in owns' : target'[k] = target[k] /\ user'[k] = user[k]
  BY DEF UnlockBy, Destroy, Mine, ObjectTypes
<1>2. \A k \in Mutexes : /\ ByObject(k)' = ByObject(k) \ {l}
                         /\ ByTask(k)' = ByTask(k)
  BY <1>1 DEF ByObject, ByTask
<1>3. /\ \A k \in owns' : target'[k] \in Mutexes
      /\ raw' \in [Tasks -> [Mutexes -> Nat]] /\ on' \in [Tasks -> Mutexes \cup {None}]
      /\ \A u \in Tasks : pc[u] \in Holding => on[u] # None
  BY DEF ObjectTypes, KernelTypes, Referred, Holding
<1>4. CASE l \notin owns
  <2>1. UNCHANGED <<kernel, calls, twice>> /\ owns' = owns
    BY <1>1, <1>4 DEF GiveBack, Local, history
  <2>2. \A k \in Mutexes : ByObject(k)' = ByObject(k) /\ ByCall(k)' = ByCall(k)
    BY <1>2, <1>4, <2>1 DEF ByObject, ByCall, calls
  <2>3. \A k \in Mutexes \ twice : Even(k)'
    BY <1>2, <2>1, <2>2, EvenStays DEF Balance, kernel
  <2>4. HolderOwes'
    BY <1>1, <2>1 DEF Balance, HolderOwes, kernel, calls
  <2>5. QED BY <2>1, <2>3, <2>4 DEF Balance
<1>5. CASE l \in owns
  <2>0. PICK m \in Mutexes : m = target[l]
    BY <1>5 DEF ObjectTypes
  <2>1. /\ Give(t, m, None) /\ twice' = twice
        /\ l \in ByObject(m) /\ <<"object", l>> \in Owed(m)
        /\ (m \notin Shared \cup twice => holder[m] = t)
    BY <1>1, <1>5, <2>0 DEF GiveBack, ByObject, Owed, Balance, HolderOwes
  <2>2. ASSUME m \notin twice PROVE KernelGive(m) /\ Even(m)'
    <3>1. KernelGive(m) /\ ByCall(m)' = ByCall(m)
      BY <1>1, <2>1, <2>2, GiveSucceeds DEF Balance
    <3>2. QED BY <1>2, <2>1, <2>2, <3>1, DepthGiven, EvenDropped DEF Balance
  <2>3. /\ \A k \in Mutexes \ {m} : /\ holder'[k] = holder[k] /\ depth'[k] = depth[k]
                                    /\ ByCall(k)' = ByCall(k)
        /\ \A u \in Tasks : pc'[u] \in Holding => pc[u] \in Holding /\ on'[u] = on[u]
    BY <1>1, <2>1, GiveElsewhere
  <2>4. ASSUME NEW k \in Mutexes \ (twice \cup {m}) PROVE Even(k)'
    <3>1. ByObject(k)' = ByObject(k)
      BY <1>2, <2>0 DEF ByObject
    <3>2. QED BY <1>2, <2>3, <3>1, EvenStays DEF Balance
  <2>5. HolderOwes'
    BY <1>1, <1>3, <2>1, <2>2, <2>3, HolderGiven DEF Balance
  <2>6. QED BY <2>1, <2>2, <2>4, <2>5 DEF Balance
<1>6. QED BY <1>4, <1>5

(* A lock object takes over from another, the lock stays with the task. *)
LEMMA BalanceMove ==
  ASSUME IInv, IInv', Balance, NEW t \in Tasks, NEW l \in Locks, NEW s \in Locks,
         Move(t, l, s)
  PROVE  Balance'
<1> USE DEF IInv
<1>1. /\ user[s] = t /\ user[l] = None /\ l # s /\ l \notin owns
      /\ user' = [user EXCEPT ![l] = t]
      /\ target'[l] = target[s]
      /\ \A k \in Locks \ {l, s} : target'[k] = target[k]
      /\ owns' = (owns \ {s}) \cup (IF s \in owns THEN {l} ELSE {})
      /\ UNCHANGED <<raw, kernel, calls, twice>>
  BY ClassAssumption DEF Move, Mine, Local, history, ObjectTypes, Mutexes
<1>2. owns \subseteq Locks
  BY DEF ObjectTypes
<1>3. \A k \in Mutexes : ByCall(k)' = ByCall(k) /\ ByTask(k)' = ByTask(k)
  BY <1>1 DEF ByCall, ByTask, calls
<1>4. ASSUME NEW k \in Mutexes \ twice PROVE Even(k)'
  <2>1. CASE s \in owns /\ target[s] = k
    <3>1. ByObject(k)' = (ByObject(k) \ {s}) \cup {l}
      BY <1>1, <1>2, <2>1 DEF ByObject
    <3>2. s \in ByObject(k) /\ l \notin ByObject(k)
      BY <1>1, <2>1 DEF ByObject
    <3>3. QED BY <1>1, <1>3, <3>1, <3>2, EvenMoved DEF Balance, kernel
  <2>2. CASE ~(s \in owns /\ target[s] = k)
    <3>1. ByObject(k)' = ByObject(k)
      BY <1>1, <1>2, <2>2 DEF ByObject
    <3>2. QED BY <1>1, <1>3, <3>1, EvenStays DEF Balance, kernel
  <2>3. QED BY <2>1, <2>2
<1>5. HolderOwes'
  BY <1>1, <1>2 DEF Balance, HolderOwes, kernel, calls, ObjectTypes
<1>6. QED BY <1>1, <1>4, <1>5 DEF Balance

(* Two lock objects exchange what they have. *)
LEMMA BalanceSwap ==
  ASSUME IInv, IInv', Balance, NEW t \in Tasks, NEW a \in Locks, NEW b \in Locks,
         SwapObjects(t, a, b)
  PROVE  Balance'
<1> USE DEF IInv
<1>1. /\ user[a] = t /\ user[b] = t /\ a # b
      /\ target'[a] = target[b] /\ target'[b] = target[a]
      /\ \A k \in Locks \ {a, b} : target'[k] = target[k]
      /\ owns' = (owns \ {a, b}) \cup (IF a \in owns THEN {b} ELSE {})
                                 \cup (IF b \in owns THEN {a} ELSE {})
      /\ UNCHANGED <<user, raw, kernel, calls, twice>>
  BY DEF SwapObjects, Mine, Local, history, ObjectTypes, Mutexes
<1>2. owns \subseteq Locks
  BY DEF ObjectTypes
<1>3. \A k \in Mutexes : ByCall(k)' = ByCall(k) /\ ByTask(k)' = ByTask(k)
  BY <1>1 DEF ByCall, ByTask, calls
<1>4. ASSUME NEW k \in Mutexes \ twice PROVE Even(k)'
  <2>1. CASE a \in ByObject(k) /\ b \notin ByObject(k)
    <3>1. ByObject(k)' = (ByObject(k) \ {a}) \cup {b}
      BY <1>1, <1>2, <2>1 DEF ByObject
    <3>2. QED BY <1>1, <1>3, <2>1, <3>1, EvenMoved DEF Balance, kernel
  <2>2. CASE b \in ByObject(k) /\ a \notin ByObject(k)
    <3>1. ByObject(k)' = (ByObject(k) \ {b}) \cup {a}
      BY <1>1, <1>2, <2>2 DEF ByObject
    <3>2. QED BY <1>1, <1>3, <2>2, <3>1, EvenMoved DEF Balance, kernel
  <2>3. CASE a \in ByObject(k) <=> b \in ByObject(k)
    <3>1. ByObject(k)' = ByObject(k)
      BY <1>1, <1>2, <2>3 DEF ByObject
    <3>2. QED BY <1>1, <1>3, <3>1, EvenStays DEF Balance, kernel
  <2>4. QED BY <2>1, <2>2, <2>3
<1>5. HolderOwes'
  BY <1>1, <1>2 DEF Balance, HolderOwes, kernel, calls
<1>6. QED BY <1>1, <1>4, <1>5 DEF Balance

(* Move assignment gives back one lock and takes over another. *)
LEMMA BalanceAssign ==
  ASSUME IInv, IInv', Balance, NEW t \in Tasks, NEW l \in Locks, NEW s \in Locks,
         Assign(t, l, s)
  PROVE  Balance'
<1> USE DEF IInv
<1>1. /\ pc[t] = "idle" /\ user[l] = t /\ user[s] = t /\ l # s /\ GiveBack(t, l)
      /\ target'[l] = target[s]
      /\ \A k \in Locks \ {l, s} : target'[k] = target[k]
      /\ owns' = (owns \ {l, s}) \cup (IF s \in owns THEN {l} ELSE {})
      /\ UNCHANGED <<user, raw>>
  BY DEF Assign, Mine, ObjectTypes, Mutexes
<1>2. /\ owns \subseteq Locks /\ \A k \in owns' : target'[k] \in Mutexes
      /\ raw' \in [Tasks -> [Mutexes -> Nat]] /\ on' \in [Tasks -> Mutexes \cup {None}]
      /\ \A u \in Tasks : pc[u] \in Holding => on[u] # None
  BY DEF ObjectTypes, KernelTypes, Referred, Holding
<1>3. \A k \in Mutexes : ByTask(k)' = ByTask(k)
  BY <1>1 DEF ByTask
<1>4. \A k \in owns' : \E j \in owns : target'[k] = target[j] /\ user'[k] = user[j]
  <2>1. ASSUME NEW k \in owns' PROVE \E j \in owns : target'[k] = target[j] /\ user'[k] = user[j]
    <3>1. CASE k = l
      BY <1>1, <3>1
    <3>2. CASE k # l
      BY <1>1, <1>2, <3>2
    <3>3. QED BY <3>1, <3>2
  <2>2. QED BY <2>1
<1>5. CASE l \notin owns
  <2>1. UNCHANGED <<kernel, calls, twice>>
    BY <1>1, <1>5 DEF GiveBack, Local, history
  <2>2. \A k \in Mutexes : ByCall(k)' = ByCall(k)
    BY <2>1 DEF ByCall, calls
  <2>3. ASSUME NEW k \in Mutexes \ twice PROVE Even(k)'
    <3>1. CASE s \in owns /\ target[s] = k
      <4>1. ByObject(k)' = (ByObject(k) \ {s}) \cup {l}
        BY <1>1, <1>2, <1>5, <3>1 DEF ByObject
      <4>2. s \in ByObject(k) /\ l \notin ByObject(k)
        BY <1>5, <3>1 DEF ByObject
      <4>3. QED BY <1>3, <2>1, <2>2, <4>1, <4>2, EvenMoved DEF Balance, kernel
    <3>2. CASE ~(s \in owns /\ target[s] = k)
      <4>1. ByObject(k)' = ByObject(k)
        BY <1>1, <1>2, <1>5, <3>2 DEF ByObject
      <4>2. QED BY <1>3, <2>1, <2>2, <4>1, EvenStays DEF Balance, kernel
    <3>3. QED BY <3>1, <3>2
  <2>4. HolderOwes'
    BY <1>1, <1>4, <2>1 DEF Balance, HolderOwes, kernel, calls
  <2>5. QED BY <2>1, <2>3, <2>4 DEF Balance
<1>6. CASE l \in owns
  <2>0. PICK m \in Mutexes : m = target[l]
    BY <1>6 DEF ObjectTypes
  <2>1. /\ Give(t, m, None) /\ twice' = twice
        /\ l \in ByObject(m) /\ <<"object", l>> \in Owed(m)
        /\ (m \notin Shared \cup twice => holder[m] = t)
    BY <1>1, <1>6, <2>0 DEF GiveBack, ByObject, Owed, Balance, HolderOwes
  <2>2. /\ \A k \in Mutexes \ {m} : /\ holder'[k] = holder[k] /\ depth'[k] = depth[k]
                                    /\ ByCall(k)' = ByCall(k)
        /\ \A u \in Tasks : pc'[u] \in Holding => pc[u] \in Holding /\ on'[u] = on[u]
    BY <1>1, <2>1, GiveElsewhere
  <2>3. ASSUME m \notin twice PROVE KernelGive(m) /\ Even(m)'
    <3>0. KernelGive(m) /\ ByCall(m)' = ByCall(m)
      BY <1>1, <2>1, <2>3, GiveSucceeds DEF Balance
    <3>1. CASE s \in ByObject(m)
      <4>1. ByObject(m)' = ByObject(m) \ {s}
        BY <1>1, <1>2, <2>0, <2>1, <3>1 DEF ByObject
      <4>2. QED BY <1>3, <2>3, <3>0, <3>1, <4>1, DepthGiven, EvenDropped DEF Balance
    <3>2. CASE s \notin ByObject(m)
      <4>1. ByObject(m)' = ByObject(m) \ {l}
        BY <1>1, <1>2, <2>0, <2>1, <3>2 DEF ByObject
      <4>2. QED BY <1>3, <2>1, <2>3, <3>0, <4>1, DepthGiven, EvenDropped DEF Balance
    <3>3. QED BY <3>1, <3>2
  <2>4. ASSUME NEW k \in Mutexes \ (twice \cup {m}) PROVE Even(k)'
    <3>0. l \notin ByObject(k)
      BY <2>0 DEF ByObject
    <3>1. CASE s \in ByObject(k)
      <4>1. ByObject(k)' = (ByObject(k) \ {s}) \cup {l}
        BY <1>1, <1>2, <2>0, <3>1 DEF ByObject
      <4>2. QED BY <1>3, <2>2, <3>0, <3>1, <4>1, EvenMoved DEF Balance
    <3>2. CASE s \notin ByObject(k)
      <4>1. ByObject(k)' = ByObject(k)
        BY <1>1, <1>2, <2>0, <3>2 DEF ByObject
      <4>2. QED BY <1>3, <2>2, <4>1, EvenStays DEF Balance
    <3>3. QED BY <3>1, <3>2
  <2>5. HolderOwes'
    BY <1>1, <1>2, <1>4, <2>1, <2>2, <2>3, HolderGiven DEF Balance
  <2>6. QED BY <2>1, <2>3, <2>4, <2>5 DEF Balance
<1>7. QED BY <1>5, <1>6


(* std::adopt_lock: a lock object takes over from its task. *)
LEMMA BalanceConstruct ==
  ASSUME IInv, IInv', Balance, NEW t \in Tasks, NEW l \in Locks, Construct(t, l)
  PROVE  Balance'
<1> USE DEF IInv
<1>1. /\ user[l] = None /\ l \notin owns /\ UNCHANGED <<kernel, calls, twice>>
      /\ user' = [user EXCEPT ![l] = t]
      /\ \A k \in owns : user'[k] = user[k]
  BY DEF Construct, Local, history, ObjectTypes
<1>2. owns \subseteq Locks
  BY DEF ObjectTypes
<1>3. \A k \in Mutexes : ByCall(k)' = ByCall(k)
  BY <1>1 DEF ByCall, calls
<1>4. CASE UNCHANGED <<owns, raw>>
  <2>1. \A k \in owns : target'[k] = target[k]
    BY <1>1, <1>2 DEF Construct, ObjectTypes
  <2>2. \A k \in Mutexes : ByObject(k)' = ByObject(k) /\ ByTask(k)' = ByTask(k)
    BY <1>4, <2>1 DEF ByObject, ByTask
  <2>3. \A k \in Mutexes \ twice : Even(k)'
    BY <1>1, <1>3, <2>2, EvenStays DEF Balance, kernel
  <2>4. HolderOwes'
    BY <1>1, <1>4, <2>1 DEF Balance, HolderOwes, kernel, calls
  <2>5. QED BY <1>1, <2>3, <2>4 DEF Balance
<1>5. ASSUME NEW m \in Mutexes, raw[t][m] > 0,
             target' = [target EXCEPT ![l] = m], owns' = owns \cup {l},
             raw' = [raw EXCEPT ![t][m] = raw[t][m] - 1]
      PROVE  Balance'
  <2>1. /\ target'[l] = m /\ user'[l] = t
        /\ \A k \in owns : target'[k] = target[k]
    BY <1>1, <1>2, <1>5 DEF ObjectTypes
  <2>2. /\ ByObject(m)' = ByObject(m) \cup {l} /\ l \notin ByObject(m)
        /\ \A k \in Mutexes \ {m} : ByObject(k)' = ByObject(k)
    BY <1>1, <1>5, <2>1 DEF ByObject
  <2>3. PICK x : x = <<t, raw[t][m]>>
    OBVIOUS
  <2>4. /\ ByTask(m)' = ByTask(m) \ {x} /\ x \in ByTask(m)
        /\ \A k \in Mutexes \ {m} : ByTask(k)' = ByTask(k)
        /\ \A u \in Tasks, k \in Mutexes : raw'[u][k] > 0 => raw[u][k] > 0
    BY <1>5, <2>3, TaskLess
  <2>5. ASSUME m \notin twice PROVE Even(m)'
    <3>1. Owed(m)' = Tagged(ByObject(m) \cup {l}, ByCall(m), ByTask(m) \ {x})
      BY <1>3, <2>2, <2>4, OwedTagged
    <3>2. Tagged(ByObject(m), ByCall(m), ByTask(m) \ {x}) = Owed(m) \ {<<"task", x>>}
      BY OwedTagged DEF Tagged
    <3>3. Owed(m)' = (Owed(m) \ {<<"task", x>>}) \cup {<<"object", l>>}
      BY <3>1, <3>2 DEF Tagged
    <3>4. <<"task", x>> \in Owed(m) /\ <<"object", l>> \notin Owed(m)
      BY <2>2, <2>4, OwedTagged, TaggedElements
    <3>5. QED BY <1>1, <3>3, <3>4, <2>5, EvenSwapped DEF Balance, kernel
  <2>6. \A k \in Mutexes \ (twice \cup {m}) : Even(k)'
    BY <1>1, <1>3, <2>2, <2>4, EvenStays DEF Balance, kernel
  <2>7. HolderOwes'
    BY <1>1, <1>5, <2>1, <2>4 DEF Balance, HolderOwes, kernel, calls
  <2>8. QED BY <1>1, <2>5, <2>6, <2>7 DEF Balance
<1>6. QED BY <1>4, <1>5 DEF Construct

(* release(): the task takes over from its lock object. *)
LEMMA BalanceRelease ==
  ASSUME IInv, IInv', Balance, NEW t \in Tasks, NEW l \in Locks, ReleaseObject(t, l)
  PROVE  Balance'
<1> USE DEF IInv
<1>0. PICK m \in Mutexes : m = target[l]
  BY DEF ReleaseObject, ObjectTypes
<1>1. /\ user[l] = t /\ owns' = owns \ {l} /\ UNCHANGED <<kernel, calls, user, twice>>
      /\ \A k \in owns' : target'[k] = target[k]
      /\ raw' = IF l \in owns THEN [raw EXCEPT ![t][m] = raw[t][m] + 1] ELSE raw
  BY <1>0 DEF ReleaseObject, Mine, Local, history, ObjectTypes
<1>2. \A k \in Mutexes : ByCall(k)' = ByCall(k)
  BY <1>1 DEF ByCall, calls
<1>3. \A k \in Mutexes : ByObject(k)' = ByObject(k) \ {l}
  BY <1>1 DEF ByObject
<1>4. CASE l \notin owns
  <2>1. \A k \in Mutexes : ByObject(k)' = ByObject(k) /\ ByTask(k)' = ByTask(k)
    BY <1>1, <1>3, <1>4 DEF ByObject, ByTask
  <2>2. \A k \in Mutexes \ twice : Even(k)'
    BY <1>1, <1>2, <2>1, EvenStays DEF Balance, kernel
  <2>3. HolderOwes'
    BY <1>1, <1>4 DEF Balance, HolderOwes, kernel, calls
  <2>4. QED BY <1>1, <2>2, <2>3 DEF Balance
<1>5. CASE l \in owns
  <2>1. raw' = [raw EXCEPT ![t][m] = raw[t][m] + 1]
    BY <1>1, <1>5
  <2>2. l \in ByObject(m) /\ \A k \in Mutexes \ {m} : ByObject(k)' = ByObject(k)
    BY <1>0, <1>3, <1>5 DEF ByObject
  <2>3. PICK x : x = <<t, raw[t][m] + 1>>
    OBVIOUS
  <2>4. /\ ByTask(m)' = ByTask(m) \cup {x} /\ x \notin ByTask(m)
        /\ \A k \in Mutexes \ {m} : ByTask(k)' = ByTask(k)
    BY <2>1, <2>3, TaskMore
  <2>5. ASSUME m \notin twice PROVE Even(m)'
    <3>1. Owed(m)' = Tagged(ByObject(m) \ {l}, ByCall(m), ByTask(m) \cup {x})
      BY <1>2, <1>3, <2>4, OwedTagged
    <3>2. Tagged(ByObject(m) \ {l}, ByCall(m), ByTask(m)) = Owed(m) \ {<<"object", l>>}
      BY OwedTagged DEF Tagged
    <3>3. Owed(m)' = (Owed(m) \ {<<"object", l>>}) \cup {<<"task", x>>}
      BY <3>1, <3>2 DEF Tagged
    <3>4. <<"object", l>> \in Owed(m) /\ <<"task", x>> \notin Owed(m)
      BY <2>2, <2>4, OwedTagged, TaggedElements
    <3>5. QED BY <1>1, <3>3, <3>4, <2>5, EvenSwapped DEF Balance, kernel
  <2>6. \A k \in Mutexes \ (twice \cup {m}) : Even(k)'
    BY <1>1, <1>2, <2>2, <2>4, EvenStays DEF Balance, kernel
  <2>7. HolderOwes'
    <3>1. \A u \in Tasks, k \in Mutexes :
            raw'[u][k] = IF u = t /\ k = m THEN raw[t][m] + 1 ELSE raw[u][k]
      BY <2>1, RawEntry DEF ObjectTypes
    <3>2. m \notin Shared \cup twice => holder[m] = t
      BY <1>0, <1>1, <1>5 DEF Balance, HolderOwes
    <3>3. QED BY <1>1, <3>1, <3>2 DEF Balance, HolderOwes, kernel, calls
  <2>8. QED BY <1>1, <2>5, <2>6, <2>7 DEF Balance
<1>6. QED BY <1>4, <1>5

(* The steps of a call that take and give nothing. *)
LEMMA BalanceCall ==
  ASSUME IInv, Balance, NEW t \in Tasks, UNCHANGED <<kernel, objects, raw, twice>>,
         \A u \in Tasks \ {t} : pc'[u] = pc[u] /\ on'[u] = on[u],
         \/ pc[t] \notin Holding /\ pc'[t] \notin Holding
         \/ pc[t] \in Holding /\ pc'[t] \in Holding /\ on'[t] = on[t]
  PROVE  Balance'
<1>1. \A k \in Mutexes : ByCall(k)' = ByCall(k)
  BY DEF ByCall
<1>2. QED BY <1>1, BalanceStays

(* Every step keeps the balance. *)
LEMMA BalanceNext ==
  ASSUME IInv, IInv', Balance, [Next]_vars
  PROVE  Balance'
<1> USE DEF history
<1>0. KernelTypes
  BY DEF IInv
<1>1. ASSUME NEW t \in Tasks, NEW m \in Mutexes, Lock(t, m) \/ TryLock(t, m) \/ Claim(t, m)
      PROVE  Balance'
  BY <1>0, <1>1, BalanceCall DEF Lock, TryLock, Claim, Begin, Enter, KernelTypes, Holding
<1>2. ASSUME NEW t \in Tasks, NEW l \in Locks, LockBy(t, l)
      PROVE  Balance'
  BY <1>0, <1>2, BalanceCall DEF LockBy, Begin, Enter, KernelTypes, Holding
<1>3. ASSUME NEW t \in Tasks, Fail(t) \/ Released(t)
      PROVE  Balance'
  <2>1. /\ pc[t] \in {"try", "clear", "subtract"}
        /\ Return(t) \/ Unlocked(t, on[t], for[t])
        /\ UNCHANGED <<kernel, objects, raw, twice>>
    BY <1>3 DEF Fail, Released
  <2>2. QED BY <1>0, <2>1, BalanceCall DEF Unlocked, Return, Enter, KernelTypes, Holding
<1>4. ASSUME NEW t \in Tasks, ReadForLock(t) \/ ReadForUnlock(t)
      PROVE  Balance'
  BY <1>0, <1>4, BalanceCall DEF ReadForLock, ReadForUnlock, Read, KernelTypes, Holding
<1>5. ASSUME UNCHANGED vars
      PROVE  Balance'
  BY <1>5, BalanceStays DEF vars, calls, ByCall
<1>6. ASSUME NEW t \in Tasks, NEW l \in Locks, LockObject(t, l)
      PROVE  Balance'
  BY <1>2, <1>6, BalanceConstruct, BalanceObject, BalanceRelease, BalanceMove,
     BalanceAssign, BalanceSwap DEF LockObject
<1>7. QED
  BY <1>1, <1>3, <1>4, <1>5, <1>6, BalanceTake, BalanceAcquired, BalanceUnlock,
     BalanceLeave, BalanceResult DEF Next

(* Nothing is owed at first. *)
LEMMA BalanceInit == Init => Balance
<1> SUFFICES ASSUME Init PROVE Balance
  OBVIOUS
<1>1. HolderOwes
  BY DEF Init, HolderOwes, Holding
<1>2. ASSUME NEW m \in Mutexes PROVE Even(m)
  <2>1. ByObject(m) = {} /\ ByCall(m) = {}
    BY DEF Init, ByObject, ByCall, Holding
  <2>2. ByTask(m) = {}
    BY <1>2 DEF Init, ByTask
  <2>3. Owed(m) = {}
    BY <2>1, <2>2 DEF Owed
  <2>4. depth[m] = 0
    BY DEF Init
  <2>5. QED BY <2>3, <2>4, FS_EmptySet DEF Even
<1>3. QED BY <1>1, <1>2 DEF Balance

(* The balance holds in every reachable state. *)
LEMMA SpecBalance == Spec => [](IInv /\ Balance)
<1>1. Init => IInv /\ Balance
  BY InitIInv, BalanceInit
<1>2. (IInv /\ Balance) /\ [Next]_vars => (IInv /\ Balance)'
  BY NextIInv, BalanceNext
<1>3. QED BY <1>1, <1>2, PTL DEF Spec

(* Every lock the kernel has given away is owed exactly once, by its       *)
(* holder: no lock is leaked or given back twice through any sequence of   *)
(* moves, swaps, assignments, adoptions and releases, nor by a section     *)
(* whose function throws; but for a mutex that a section gave back again   *)
(* because its result threw.                                               *)
THEOREM OwedOnce == Spec => []Balanced
<1>1. IInv /\ Balance => Balanced
  <2> SUFFICES ASSUME IInv, Balance, NEW m \in Mutexes \ twice
               PROVE  /\ depth[m] = Cardinality(Owed(m))
                      /\ m \notin Shared =>
                           \A t \in Tasks : m \in InHand(t) \/ t \in ByCall(m) => holder[m] = t
    BY DEF Balanced
  <2>1. depth[m] = Cardinality(Owed(m))
    BY DEF Balance, Even
  <2>2. ASSUME m \notin Shared, NEW t \in Tasks, m \in InHand(t)
        PROVE  holder[m] = t
    BY <2>2 DEF Balance, HolderOwes, InHand
  <2>3. ASSUME m \notin Shared, NEW t \in Tasks, t \in ByCall(m)
        PROVE  holder[m] = t
    BY <2>3 DEF Balance, HolderOwes, ByCall
  <2>4. QED BY <2>1, <2>2, <2>3
<1>2. QED BY <1>1, SpecBalance, PTL

-----------------------------------------------------------------------------
(* The flag of a plain mutex.                                              *)

(* A step that leaves owners and flags alone, and ends no call that is     *)
(* about to clear a flag.                                                  *)
LEMMA FlagStays ==
  ASSUME NeverFalselyLocked, UNCHANGED <<holder, count>>, twice \subseteq twice',
         \A u \in Tasks : pc[u] = "clear" /\ on[u] \in Plain =>
           pc'[u] = "clear" /\ on'[u] = on[u]
  PROVE  NeverFalselyLocked'
BY DEF NeverFalselyLocked

(* A give makes no flag false: the mutex it frees is one that its task is  *)
(* about to clear the flag of.                                             *)
LEMMA FlagGive ==
  ASSUME KernelTypes, NeverFalselyLocked, NEW t \in Tasks, NEW m \in Mutexes, NEW l,
         pc[t] # "clear", Give(t, m, l), twice \subseteq twice'
  PROVE  NeverFalselyLocked'
<1>1. \A u \in Tasks : pc[u] = "clear" => pc'[u] = "clear" /\ on'[u] = on[u]
  BY DEF Give, Unlocked, Return, Enter, KernelTypes
<1>2. CASE UNCHANGED kernel
  BY <1>1, <1>2, FlagStays DEF Give, kernel
<1>3. CASE KernelGive(m) /\ Enter(t, "clear", m, l)
  <2>1. pc'[t] = "clear" /\ on'[t] = m
    BY <1>3 DEF Enter, KernelTypes
  <2>2. \A k \in Mutexes \ {m} : holder'[k] = holder[k]
    BY <1>3 DEF KernelGive, KernelTypes
  <2>3. count' = count
    BY DEF Give
  <2>4. QED BY <1>1, <2>1, <2>2, <2>3 DEF NeverFalselyLocked, Mutexes
<1>4. QED BY <1>2, <1>3 DEF Give

(* The flag is set by the holder. *)
LEMMA FlagAcquired ==
  ASSUME IInv, Balance, NeverFalselyLocked, NEW t \in Tasks, Acquired(t)
  PROVE  NeverFalselyLocked'
<1> USE ClassAssumption DEF IInv
<1>1. /\ UNCHANGED <<kernel, twice>> /\ on[t] \in Mutexes
      /\ pc[t] \in {"mark", "add"}
      /\ \A u \in Tasks \ {t} : pc'[u] = pc[u] /\ on'[u] = on[u]
  BY DEF Acquired, Return, Enter, KernelTypes, Referred, history
<1>2. \A k \in Plain \ {on[t]} : count'[k] = count[k]
  BY DEF Acquired, KernelTypes, Mutexes
<1>3. on[t] \in Plain \ twice => holder[on[t]] = t
  BY <1>1 DEF Balance, HolderOwes, Holding
<1>4. QED BY <1>1, <1>2, <1>3 DEF NeverFalselyLocked, kernel

(* Every step keeps the flags. *)
LEMMA FlagNext ==
  ASSUME IInv, Balance, NeverFalselyLocked, [Next]_vars
  PROVE  NeverFalselyLocked'
<1> USE ClassAssumption DEF IInv, kernel, calls, history
<1>1. ASSUME NEW t \in Tasks, NEW m \in Mutexes, Lock(t, m) \/ TryLock(t, m) \/ Claim(t, m)
      PROVE  NeverFalselyLocked'
  BY <1>1, FlagStays DEF Lock, TryLock, Claim, Begin, Enter, KernelTypes
<1>2. ASSUME NEW t \in Tasks, NEW l \in Locks, LockBy(t, l) PROVE NeverFalselyLocked'
  BY <1>2, FlagStays DEF LockBy, Begin, Enter, KernelTypes
<1>3. ASSUME NEW t \in Tasks, Fail(t) \/ ReadForLock(t) \/ ReadForUnlock(t)
      PROVE  NeverFalselyLocked'
  BY <1>3, FlagStays DEF Fail, Return, Enter, ReadForLock, ReadForUnlock, Read, KernelTypes
<1>4. ASSUME NEW t \in Tasks, Take(t) PROVE NeverFalselyLocked'
  <2>1. \A p \in Plain : holder[p] # None => holder'[p] # None
    BY <1>4 DEF Take, KernelTake, KernelTypes, Mutexes
  <2>2. /\ UNCHANGED <<count, on, twice>> /\ pc[t] # "clear"
        /\ \A u \in Tasks \ {t} : pc'[u] = pc[u]
    BY <1>4 DEF Take, KernelTypes
  <2>3. QED BY <2>1, <2>2 DEF NeverFalselyLocked
<1>5. ASSUME NEW t \in Tasks, Released(t) PROVE NeverFalselyLocked'
  <2>1. /\ UNCHANGED <<holder, twice>>
        /\ \A u \in Tasks \ {t} : pc'[u] = pc[u] /\ on'[u] = on[u]
    BY <1>5 DEF Released, Unlocked, Return, Enter, KernelTypes
  <2>2. on[t] \in Plain => count'[on[t]] = 0
    BY <1>5 DEF Released, KernelTypes, Mutexes
  <2>3. \A p \in Plain \ {on[t]} : count'[p] = count[p]
    BY <1>5 DEF Released, KernelTypes, Mutexes
  <2>4. QED BY <2>1, <2>2, <2>3 DEF NeverFalselyLocked
<1>6. ASSUME NEW t \in Tasks, NEW m \in Mutexes, Unlock(t, m) PROVE NeverFalselyLocked'
  BY <1>6, FlagGive DEF Unlock
<1>7. ASSUME NEW t \in Tasks, Leave(t) \/ Result(t) PROVE NeverFalselyLocked'
  <2>1. on[t] \in Mutexes /\ pc[t] # "clear" /\ twice \subseteq twice'
    BY <1>7 DEF Leave, Result, KernelTypes
  <2>2. (\E l \in {None, "scope"} : Give(t, on[t], l)) \/ (UNCHANGED <<kernel, count>> /\ Return(t))
    BY <1>7 DEF Leave, Result
  <2>3. CASE \E l \in {None, "scope"} : Give(t, on[t], l)
    BY <2>1, <2>3, FlagGive
  <2>4. CASE UNCHANGED <<kernel, count>> /\ Return(t)
    BY <2>1, <2>4, FlagStays DEF Return, Enter, KernelTypes
  <2>5. QED BY <2>2, <2>3, <2>4
<1>8. ASSUME NEW t \in Tasks, NEW l \in Locks, NEW s \in Locks,
             Assign(t, l, s) \/ UnlockBy(t, l) \/ Destroy(t, l)
      PROVE  NeverFalselyLocked'
  <2>1. pc[t] # "clear" /\ GiveBack(t, l)
    BY <1>8 DEF Assign, UnlockBy, Destroy, Mine
  <2>2. CASE l \in owns
    BY <2>1, <2>2, FlagGive DEF GiveBack, ObjectTypes
  <2>3. CASE l \notin owns
    BY <2>1, <2>3, FlagStays DEF GiveBack, Local
  <2>4. QED BY <2>2, <2>3
<1>9. ASSUME NEW t \in Tasks, NEW l \in Locks, NEW s \in Locks,
             Construct(t, l) \/ ReleaseObject(t, l) \/ Move(t, l, s) \/ SwapObjects(t, l, s)
      PROVE  NeverFalselyLocked'
  BY <1>9, FlagStays DEF Construct, ReleaseObject, Move, SwapObjects, Local
<1>10. CASE UNCHANGED vars
  BY <1>10, FlagStays DEF vars
<1>11. QED
  BY <1>1, <1>2, <1>3, <1>4, <1>5, <1>6, <1>7, <1>8, <1>9, <1>10, FlagAcquired
     DEF Next, LockObject

(* locked() is true only of a mutex that is locked or just being unlocked, *)
(* but for a mutex that was given back twice.                              *)
THEOREM FlagSound == Spec => []NeverFalselyLocked
<1>1. Init => NeverFalselyLocked
  BY DEF Init, NeverFalselyLocked, Mutexes
<1>2. IInv /\ Balance /\ NeverFalselyLocked /\ [Next]_vars => NeverFalselyLocked'
  BY FlagNext
<1>3. QED
  BY <1>1, <1>2, SpecBalance, PTL DEF Spec
=============================================================================
