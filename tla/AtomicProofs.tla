---------------------------- MODULE AtomicProofs ----------------------------
(***************************************************************************)
(* Proofs about Atomic: type correctness, and no wakeup lost.              *)
(*                                                                         *)
(* The inductive invariant says where the tasks can be and which semaphore *)
(* they hold (Shape), that the bucket's count is exact (Counted), and what *)
(* makes a notify_all sufficient: the tokens there are (Enough), and those *)
(* its loop has still to give (Promised), are as many as the waiters that  *)
(* are about to block on the old value or have done so.                    *)
(***************************************************************************)
EXTENDS Atomic, FiniteSetTheorems, TLAPS

WaiterPlaces ==
  IF Table THEN {"idle", "loop", "enter", "match", "null", "make", "fetch",
                 "take", "leave"}
           ELSE {"idle", "ensure", "create", "loop", "take"}

NotifierPlaces ==
  IF Table THEN {"idle", "give"} ELSE {"idle", "ensure", "create", "count", "give"}

Placed ==
  /\ \A t \in Waiters : pc[t] \in WaiterPlaces
  /\ \A t \in Notifiers : pc[t] \in NotifierPlaces

Created ==
  /\ sem = None \/ sem \in made
  /\ kind = "warm" => sem # None

(* The places that are reached with a semaphore only.                      *)
Needed ==
  /\ \A t \in Waiters :
       /\ kind = "flag" /\ pc[t] \in {"loop", "take"} => sem # None
       /\ kind = "warm" => pc[t] # "make"
       /\ pc[t] = "fetch" => sem # None
  /\ \A t \in Notifiers : pc[t] \in {"count", "give"} => sem # None

Held ==
  \A t \in Waiters : pc[t] = "take" =>
    /\ hold[t] \in Sems
    /\ kind # "cold" => hold[t] = sem

Shape == Placed /\ Created /\ Needed /\ Held

Inside ==
  {t \in Waiters : pc[t] \in {"match", "null", "make", "fetch", "take", "leave"}}

Counted == Table => count = Cardinality(Inside)

Coming ==
  {t \in Waiters : /\ pc[t] \in {"null", "make", "fetch", "take"}
                   /\ old[t] # value
                   /\ Wakeable(t)}

Enough == told /\ sem # None => tokens[sem] >= Cardinality(Coming)

Promised ==
  \A t \in fresh :
    /\ ~Table /\ pc[t] = "give" => tokens[sem] + left[t] >= Cardinality(Coming)
    /\ ~Table /\ pc[t] \in {"ensure", "create", "count"} => left[t] = 0
    /\ Table /\ pc[t] = "give" => left[t] = Many

IInv == TypeOK /\ Shape /\ Counted /\ Enough /\ Promised


(* The bounds of the constants, in the form the steps use them.            *)
LEMMA Bounds ==
  /\ MaxWaiters \in Nat /\ MaxWaiters > 0
  /\ Many \in Nat /\ Many > MaxWaiters
  /\ Waiters \cap Notifiers = {} /\ None \notin Sems
  /\ MaxFlips \in Nat
  BY CapacityAssumption, ManyAssumption, ActorAssumption, NoneAssumption,
     FlipsAssumption

(* Sets of waiters are finite, and no larger than MaxWaiters.              *)
LEMMA WaiterSets ==
  /\ Cardinality(Waiters) \in Nat
  /\ \A S \in SUBSET Waiters :
       /\ IsFiniteSet(S)
       /\ Cardinality(S) \in Nat
       /\ Cardinality(S) <= Cardinality(Waiters)
       /\ Cardinality(S) <= MaxWaiters
<1>1. IsFiniteSet(Waiters) /\ Cardinality(Waiters) \in Nat
  BY ActorAssumption, FS_CardinalityType
<1>2. SUFFICES ASSUME NEW S \in SUBSET Waiters
               PROVE /\ IsFiniteSet(S)
                     /\ Cardinality(S) \in Nat
                     /\ Cardinality(S) <= Cardinality(Waiters)
  BY <1>1, WaiterAssumption, Bounds
<1>3. QED BY <1>1, FS_Subset, FS_CardinalityType

(* A smaller set of waiters has no more members.                           *)
LEMMA Fewer ==
  ASSUME NEW S \in SUBSET Waiters, NEW U, U \subseteq S
  PROVE Cardinality(U) <= Cardinality(S)
  BY WaiterSets, FS_Subset

(* One waiter less, and one more.                                          *)
LEMMA OneLess ==
  ASSUME NEW S \in SUBSET Waiters, NEW t \in S
  PROVE Cardinality(S \ {t}) = Cardinality(S) - 1
  BY WaiterSets, FS_RemoveElement

LEMMA OneMore ==
  ASSUME NEW S \in SUBSET Waiters, NEW t, t \notin S
  PROVE Cardinality(S \union {t}) = Cardinality(S) + 1
  BY WaiterSets, FS_AddElement

LEMMA NoMembers == Cardinality({}) = 0
  BY FS_EmptySet

(* Without a semaphore nobody is coming.                                   *)
LEMMA NobodyComing ==
  ASSUME Placed, Created, Needed, ValueTypes, sem = None
  PROVE Coming = {}
<1>1. SUFFICES ASSUME NEW t \in Coming PROVE FALSE
  OBVIOUS
<1>2. kind # "warm"
  BY DEF Created
<1>3. kind = "flag"
  BY <1>1, <1>2 DEF Coming, Wakeable
<1>4. t \in Waiters /\ pc[t] = "take"
  BY <1>1, <1>3 DEF Coming, Placed, WaiterPlaces, Table
<1>5. QED BY <1>3, <1>4 DEF Needed

LEMMA TypeCorrectInit == Init => TypeOK
<1>1. SUFFICES ASSUME Init PROVE TypeOK
  OBVIOUS
<1>2. ValueTypes
  <2>1. flips \in 0..MaxFlips
    BY <1>1, Bounds DEF Init
  <2>2. QED BY <1>1, <2>1 DEF Init, ValueTypes
<1>3. KernelTypes
  BY <1>1, Bounds DEF Init, KernelTypes, Capacity, Table
<1>4. CallTypes
  BY <1>1, Bounds DEF Init, CallTypes, Tasks, Places
<1>5. count \in 0..Cardinality(Waiters)
  BY <1>1, WaiterSets DEF Init
<1>6. QED BY <1>2, <1>3, <1>4, <1>5 DEF TypeOK

LEMMA InitIInv == Init => IInv
<1>1. SUFFICES ASSUME Init PROVE IInv
  OBVIOUS
<1>2. TypeOK
  BY <1>1, TypeCorrectInit
<1>3. Shape
  BY <1>1, Bounds DEF Init, Shape, Placed, Created, Needed, Held, Tasks, WaiterPlaces, NotifierPlaces, Table
<1>4. Inside = {}
  BY <1>1, Bounds DEF Init, Inside, Tasks
<1>5. Counted
  BY <1>1, <1>4, NoMembers DEF Init, Counted
<1>6. Enough /\ Promised
  BY <1>1 DEF Init, Enough, Promised
<1>7. QED BY <1>2, <1>3, <1>5, <1>6 DEF IInv

LEMMA ValueTypesKept == IInv /\ [Next]_vars => ValueTypes'
<1>a. SUFFICES ASSUME IInv, [Next]_vars PROVE ValueTypes'
  OBVIOUS
<1>b. TypeOK /\ ValueTypes /\ KernelTypes /\ CallTypes /\ Placed /\ Created /\ Needed /\ Held
  BY <1>a DEF IInv, TypeOK, Shape
<1>1. ASSUME NEW t \in Tasks, EnsureLoad(t) PROVE ValueTypes'
  BY <1>1, <1>b, Bounds DEF EnsureLoad, AfterEnsure, Goto, object, kernel, history, ValueTypes
<1>2. ASSUME NEW t \in Tasks, Create(t) PROVE ValueTypes'
  BY <1>2, <1>b, Bounds DEF Create, AfterEnsure, CreateSemaphore, Goto, object, kernel, history, ValueTypes
<1>3. ASSUME NEW t \in Waiters, Loop(t) PROVE ValueTypes'
  BY <1>3, <1>b, Bounds DEF Loop, Goto, object, kernel, history, ValueTypes
<1>4. ASSUME NEW t \in Waiters, Enter(t) PROVE ValueTypes'
  BY <1>4, <1>b, Bounds DEF Enter, Goto, object, kernel, history, ValueTypes
<1>5. ASSUME NEW t \in Waiters, Match(t) PROVE ValueTypes'
  BY <1>5, <1>b, Bounds DEF Match, Goto, object, kernel, history, ValueTypes
<1>6. ASSUME NEW t \in Waiters, NullCheck(t) PROVE ValueTypes'
  BY <1>6, <1>b, Bounds DEF NullCheck, Goto, object, kernel, history, ValueTypes
<1>7. ASSUME NEW t \in Waiters, Make(t) PROVE ValueTypes'
  BY <1>7, <1>b, Bounds DEF Make, CreateSemaphore, Goto, object, kernel, history, ValueTypes
<1>8. ASSUME NEW t \in Waiters, Fetch(t) PROVE ValueTypes'
  BY <1>8, <1>b, Bounds DEF Fetch, Goto, object, kernel, history, ValueTypes
<1>9. ASSUME NEW t \in Waiters, Take(t) PROVE ValueTypes'
  BY <1>9, <1>b, Bounds DEF Take, Taken, Goto, object, kernel, history, ValueTypes
<1>10. ASSUME NEW t \in Waiters, Leave(t) PROVE ValueTypes'
  BY <1>10, <1>b, Bounds DEF Leave, Goto, object, kernel, history, ValueTypes
<1>11. ASSUME NEW t \in Notifiers, Count(t) PROVE ValueTypes'
  BY <1>11, <1>b, Bounds DEF Count, Goto, object, kernel, history, ValueTypes
<1>12. ASSUME NEW t \in Notifiers, GiveNext(t) PROVE ValueTypes'
  BY <1>12, <1>b, Bounds DEF GiveNext, Give, Filled, Goto, object, kernel, history, ValueTypes
<1>13. ASSUME NEW t \in Notifiers, EndNotify(t) PROVE ValueTypes'
  BY <1>13, <1>b, Bounds DEF EndNotify, Goto, object, kernel, history, ValueTypes
<1>14. ASSUME NEW t \in Notifiers, GiveTable(t) PROVE ValueTypes'
  BY <1>14, <1>b, Bounds DEF GiveTable, Give, Filled, Goto, object, kernel, history, ValueTypes
<1>15. ASSUME NEW t \in Waiters, NEW o \in {0, 1}, Wait(t, o) PROVE ValueTypes'
  BY <1>15, <1>b, Bounds DEF Wait, Goto, object, kernel, history, ValueTypes
<1>16. ASSUME NEW t \in Notifiers, NEW all \in BOOLEAN, NotifyFlag(t, all) PROVE ValueTypes'
  BY <1>16, <1>b, Bounds DEF NotifyFlag, Goto, object, kernel, history, ValueTypes
<1>17. ASSUME NEW t \in Notifiers, NEW all \in BOOLEAN, NotifyTable(t, all) PROVE ValueTypes'
  BY <1>17, <1>b, Bounds DEF NotifyTable, Goto, object, kernel, history, ValueTypes
<1>18. ASSUME NEW all \in BOOLEAN, NotifyFlagIsr(all) PROVE ValueTypes'
  BY <1>18, <1>b, Bounds DEF NotifyFlagIsr, Give, Filled, Goto, object, kernel, history, ValueTypes
<1>19. ASSUME NEW all \in BOOLEAN, NotifyTableIsr(all) PROVE ValueTypes'
  BY <1>19, <1>b, Bounds DEF NotifyTableIsr, Give, Filled, Goto, object, kernel, history, ValueTypes
<1>20. ASSUME Change PROVE ValueTypes'
  <2>1. flips' \in 0..MaxFlips
    BY <1>20, <1>b, Bounds DEF Change, ValueTypes
  <2>2. value' \in {0, 1}
    BY <1>20, <1>b DEF Change, ValueTypes
  <2>3. kind' = kind /\ fresh' = {} /\ told' = FALSE
    BY <1>20 DEF Change
  <2>4. QED BY <2>1, <2>2, <2>3, <1>b DEF ValueTypes
<1>21. ASSUME Destroy PROVE ValueTypes'
  BY <1>21, <1>b, Bounds DEF Destroy, Goto, object, kernel, history, ValueTypes
<1>22. ASSUME UNCHANGED vars PROVE ValueTypes'
  BY <1>22, <1>b, Bounds DEF vars, Goto, object, kernel, history, ValueTypes
<1>23. QED
  BY <1>a, <1>1, <1>2, <1>3, <1>4, <1>5, <1>6, <1>7, <1>8, <1>9, <1>10, <1>11, <1>12, <1>13, <1>14, <1>15, <1>16, <1>17, <1>18, <1>19, <1>20, <1>21, <1>22 DEF Next, Step

LEMMA KernelTypesKept == IInv /\ [Next]_vars => KernelTypes'
<1>a. SUFFICES ASSUME IInv, [Next]_vars PROVE KernelTypes'
  OBVIOUS
<1>b. TypeOK /\ ValueTypes /\ KernelTypes /\ CallTypes /\ Placed /\ Created /\ Needed /\ Held
  BY <1>a DEF IInv, TypeOK, Shape
<1>1. ASSUME NEW t \in Tasks, EnsureLoad(t) PROVE KernelTypes'
  BY <1>1, <1>b, Bounds DEF EnsureLoad, AfterEnsure, Goto, object, kernel, history, ValueTypes, KernelTypes, CallTypes, Capacity, Table, Needed, Held
<1>2. ASSUME NEW t \in Tasks, Create(t) PROVE KernelTypes'
  BY <1>2, <1>b, Bounds DEF Create, AfterEnsure, CreateSemaphore, Goto, object, kernel, history, ValueTypes, KernelTypes, CallTypes, Capacity, Table, Needed, Held
<1>3. ASSUME NEW t \in Waiters, Loop(t) PROVE KernelTypes'
  BY <1>3, <1>b, Bounds DEF Loop, Goto, object, kernel, history, ValueTypes, KernelTypes, CallTypes, Capacity, Table, Needed, Held
<1>4. ASSUME NEW t \in Waiters, Enter(t) PROVE KernelTypes'
  BY <1>4, <1>b, Bounds DEF Enter, Goto, object, kernel, history, ValueTypes, KernelTypes, CallTypes, Capacity, Table, Needed, Held
<1>5. ASSUME NEW t \in Waiters, Match(t) PROVE KernelTypes'
  BY <1>5, <1>b, Bounds DEF Match, Goto, object, kernel, history, ValueTypes, KernelTypes, CallTypes, Capacity, Table, Needed, Held
<1>6. ASSUME NEW t \in Waiters, NullCheck(t) PROVE KernelTypes'
  BY <1>6, <1>b, Bounds DEF NullCheck, Goto, object, kernel, history, ValueTypes, KernelTypes, CallTypes, Capacity, Table, Needed, Held
<1>7. ASSUME NEW t \in Waiters, Make(t) PROVE KernelTypes'
  BY <1>7, <1>b, Bounds DEF Make, CreateSemaphore, Goto, object, kernel, history, ValueTypes, KernelTypes, CallTypes, Capacity, Table, Needed, Held
<1>8. ASSUME NEW t \in Waiters, Fetch(t) PROVE KernelTypes'
  BY <1>8, <1>b, Bounds DEF Fetch, Goto, object, kernel, history, ValueTypes, KernelTypes, CallTypes, Capacity, Table, Needed, Held
<1>9. ASSUME NEW t \in Waiters, Take(t) PROVE KernelTypes'
  BY <1>9, <1>b, Bounds DEF Take, Taken, Goto, object, kernel, history, ValueTypes, KernelTypes, CallTypes, Capacity, Table, Needed, Held
<1>10. ASSUME NEW t \in Waiters, Leave(t) PROVE KernelTypes'
  BY <1>10, <1>b, Bounds DEF Leave, Goto, object, kernel, history, ValueTypes, KernelTypes, CallTypes, Capacity, Table, Needed, Held
<1>11. ASSUME NEW t \in Notifiers, Count(t) PROVE KernelTypes'
  BY <1>11, <1>b, Bounds DEF Count, Goto, object, kernel, history, ValueTypes, KernelTypes, CallTypes, Capacity, Table, Needed, Held
<1>12. ASSUME NEW t \in Notifiers, GiveNext(t) PROVE KernelTypes'
  BY <1>12, <1>b, Bounds DEF GiveNext, Give, Filled, Goto, object, kernel, history, ValueTypes, KernelTypes, CallTypes, Capacity, Table, Needed, Held
<1>13. ASSUME NEW t \in Notifiers, EndNotify(t) PROVE KernelTypes'
  BY <1>13, <1>b, Bounds DEF EndNotify, Goto, object, kernel, history, ValueTypes, KernelTypes, CallTypes, Capacity, Table, Needed, Held
<1>14. ASSUME NEW t \in Notifiers, GiveTable(t) PROVE KernelTypes'
  BY <1>14, <1>b, Bounds DEF GiveTable, Give, Filled, Goto, object, kernel, history, ValueTypes, KernelTypes, CallTypes, Capacity, Table, Needed, Held
<1>15. ASSUME NEW t \in Waiters, NEW o \in {0, 1}, Wait(t, o) PROVE KernelTypes'
  BY <1>15, <1>b, Bounds DEF Wait, Goto, object, kernel, history, ValueTypes, KernelTypes, CallTypes, Capacity, Table, Needed, Held
<1>16. ASSUME NEW t \in Notifiers, NEW all \in BOOLEAN, NotifyFlag(t, all) PROVE KernelTypes'
  BY <1>16, <1>b, Bounds DEF NotifyFlag, Goto, object, kernel, history, ValueTypes, KernelTypes, CallTypes, Capacity, Table, Needed, Held
<1>17. ASSUME NEW t \in Notifiers, NEW all \in BOOLEAN, NotifyTable(t, all) PROVE KernelTypes'
  BY <1>17, <1>b, Bounds DEF NotifyTable, Goto, object, kernel, history, ValueTypes, KernelTypes, CallTypes, Capacity, Table, Needed, Held
<1>18. ASSUME NEW all \in BOOLEAN, NotifyFlagIsr(all) PROVE KernelTypes'
  BY <1>18, <1>b, Bounds DEF NotifyFlagIsr, Give, Filled, Goto, object, kernel, history, ValueTypes, KernelTypes, CallTypes, Capacity, Table, Needed, Held
<1>19. ASSUME NEW all \in BOOLEAN, NotifyTableIsr(all) PROVE KernelTypes'
  <2>1. count \in Nat
    BY <1>b, WaiterSets DEF TypeOK
  <2>2. QED BY <1>19, <1>b, <2>1, Bounds
        DEF NotifyTableIsr, Give, Filled, object, kernel, history, ValueTypes,
            KernelTypes, Capacity, Table
<1>20. ASSUME Change PROVE KernelTypes'
  BY <1>20, <1>b, Bounds DEF Change, Goto, object, kernel, history, ValueTypes, KernelTypes, CallTypes, Capacity, Table, Needed, Held
<1>21. ASSUME Destroy PROVE KernelTypes'
  BY <1>21, <1>b, Bounds DEF Destroy, Goto, object, kernel, history, ValueTypes, KernelTypes, CallTypes, Capacity, Table, Needed, Held
<1>22. ASSUME UNCHANGED vars PROVE KernelTypes'
  BY <1>22, <1>b, Bounds DEF vars, Goto, object, kernel, history, ValueTypes, KernelTypes, CallTypes, Capacity, Table, Needed, Held
<1>23. QED
  BY <1>a, <1>1, <1>2, <1>3, <1>4, <1>5, <1>6, <1>7, <1>8, <1>9, <1>10, <1>11, <1>12, <1>13, <1>14, <1>15, <1>16, <1>17, <1>18, <1>19, <1>20, <1>21, <1>22 DEF Next, Step

LEMMA CallTypesKept == IInv /\ [Next]_vars => CallTypes'
<1>a. SUFFICES ASSUME IInv, [Next]_vars PROVE CallTypes'
  OBVIOUS
<1>b. TypeOK /\ ValueTypes /\ KernelTypes /\ CallTypes /\ Placed /\ Created /\ Needed /\ Held
  BY <1>a DEF IInv, TypeOK, Shape
<1>1. ASSUME NEW t \in Tasks, EnsureLoad(t) PROVE CallTypes'
  BY <1>1, <1>b, Bounds DEF EnsureLoad, AfterEnsure, Goto, object, kernel, history, ValueTypes, KernelTypes, CallTypes, Capacity, Table, Tasks, Places
<1>2. ASSUME NEW t \in Tasks, Create(t) PROVE CallTypes'
  BY <1>2, <1>b, Bounds DEF Create, AfterEnsure, CreateSemaphore, Goto, object, kernel, history, ValueTypes, KernelTypes, CallTypes, Capacity, Table, Tasks, Places
<1>3. ASSUME NEW t \in Waiters, Loop(t) PROVE CallTypes'
  BY <1>3, <1>b, Bounds DEF Loop, Goto, object, kernel, history, ValueTypes, KernelTypes, CallTypes, Capacity, Table, Tasks, Places
<1>4. ASSUME NEW t \in Waiters, Enter(t) PROVE CallTypes'
  BY <1>4, <1>b, Bounds DEF Enter, Goto, object, kernel, history, ValueTypes, KernelTypes, CallTypes, Capacity, Table, Tasks, Places
<1>5. ASSUME NEW t \in Waiters, Match(t) PROVE CallTypes'
  BY <1>5, <1>b, Bounds DEF Match, Goto, object, kernel, history, ValueTypes, KernelTypes, CallTypes, Capacity, Table, Tasks, Places
<1>6. ASSUME NEW t \in Waiters, NullCheck(t) PROVE CallTypes'
  BY <1>6, <1>b, Bounds DEF NullCheck, Goto, object, kernel, history, ValueTypes, KernelTypes, CallTypes, Capacity, Table, Tasks, Places
<1>7. ASSUME NEW t \in Waiters, Make(t) PROVE CallTypes'
  BY <1>7, <1>b, Bounds DEF Make, CreateSemaphore, Goto, object, kernel, history, ValueTypes, KernelTypes, CallTypes, Capacity, Table, Tasks, Places
<1>8. ASSUME NEW t \in Waiters, Fetch(t) PROVE CallTypes'
  BY <1>8, <1>b, Bounds DEF Fetch, Goto, object, kernel, history, ValueTypes, KernelTypes, CallTypes, Capacity, Table, Tasks, Places
<1>9. ASSUME NEW t \in Waiters, Take(t) PROVE CallTypes'
  BY <1>9, <1>b, Bounds DEF Take, Taken, Goto, object, kernel, history, ValueTypes, KernelTypes, CallTypes, Capacity, Table, Tasks, Places
<1>10. ASSUME NEW t \in Waiters, Leave(t) PROVE CallTypes'
  BY <1>10, <1>b, Bounds DEF Leave, Goto, object, kernel, history, ValueTypes, KernelTypes, CallTypes, Capacity, Table, Tasks, Places
<1>11. ASSUME NEW t \in Notifiers, Count(t) PROVE CallTypes'
  <2>1. kind = "flag" /\ sem # None /\ pc[t] = "count"
    BY <1>11, <1>b DEF Count, Placed, Needed, NotifierPlaces, Table
  <2>2. MaxWaiters - tokens[sem] \in 0..Many
    BY <1>b, <2>1, Bounds DEF KernelTypes, Capacity, Table
  <2>3. left' \in [Notifiers -> 0..Many]
    BY <1>11, <1>b, <2>2, Bounds DEF Count, CallTypes
  <2>4. QED BY <1>11, <1>b, <2>3 DEF Count, Goto, CallTypes, Places
<1>12. ASSUME NEW t \in Notifiers, GiveNext(t) PROVE CallTypes'
  BY <1>12, <1>b, Bounds DEF GiveNext, Give, Filled, Goto, object, kernel, history, ValueTypes, KernelTypes, CallTypes, Capacity, Table, Tasks, Places
<1>13. ASSUME NEW t \in Notifiers, EndNotify(t) PROVE CallTypes'
  BY <1>13, <1>b, Bounds DEF EndNotify, Goto, object, kernel, history, ValueTypes, KernelTypes, CallTypes, Capacity, Table, Tasks, Places
<1>14. ASSUME NEW t \in Notifiers, GiveTable(t) PROVE CallTypes'
  BY <1>14, <1>b, Bounds DEF GiveTable, Give, Filled, Goto, object, kernel, history, ValueTypes, KernelTypes, CallTypes, Capacity, Table, Tasks, Places
<1>15. ASSUME NEW t \in Waiters, NEW o \in {0, 1}, Wait(t, o) PROVE CallTypes'
  BY <1>15, <1>b, Bounds DEF Wait, Goto, object, kernel, history, ValueTypes, KernelTypes, CallTypes, Capacity, Table, Tasks, Places
<1>16. ASSUME NEW t \in Notifiers, NEW all \in BOOLEAN, NotifyFlag(t, all) PROVE CallTypes'
  BY <1>16, <1>b, Bounds DEF NotifyFlag, Goto, object, kernel, history, ValueTypes, KernelTypes, CallTypes, Capacity, Table, Tasks, Places
<1>17. ASSUME NEW t \in Notifiers, NEW all \in BOOLEAN, NotifyTable(t, all) PROVE CallTypes'
  BY <1>17, <1>b, Bounds DEF NotifyTable, Goto, object, kernel, history, ValueTypes, KernelTypes, CallTypes, Capacity, Table, Tasks, Places
<1>18. ASSUME NEW all \in BOOLEAN, NotifyFlagIsr(all) PROVE CallTypes'
  BY <1>18, <1>b, Bounds DEF NotifyFlagIsr, Give, Filled, Goto, object, kernel, history, ValueTypes, KernelTypes, CallTypes, Capacity, Table, Tasks, Places
<1>19. ASSUME NEW all \in BOOLEAN, NotifyTableIsr(all) PROVE CallTypes'
  BY <1>19, <1>b, Bounds DEF NotifyTableIsr, Give, Filled, Goto, object, kernel, history, ValueTypes, KernelTypes, CallTypes, Capacity, Table, Tasks, Places
<1>20. ASSUME Change PROVE CallTypes'
  BY <1>20, <1>b, Bounds DEF Change, Goto, object, kernel, history, ValueTypes, KernelTypes, CallTypes, Capacity, Table, Tasks, Places
<1>21. ASSUME Destroy PROVE CallTypes'
  BY <1>21, <1>b, Bounds DEF Destroy, Goto, object, kernel, history, ValueTypes, KernelTypes, CallTypes, Capacity, Table, Tasks, Places
<1>22. ASSUME UNCHANGED vars PROVE CallTypes'
  BY <1>22, <1>b, Bounds DEF vars, Goto, object, kernel, history, ValueTypes, KernelTypes, CallTypes, Capacity, Table, Tasks, Places
<1>23. QED
  BY <1>a, <1>1, <1>2, <1>3, <1>4, <1>5, <1>6, <1>7, <1>8, <1>9, <1>10, <1>11, <1>12, <1>13, <1>14, <1>15, <1>16, <1>17, <1>18, <1>19, <1>20, <1>21, <1>22 DEF Next, Step

LEMMA CountKept == IInv /\ [Next]_vars => (count \in 0..Cardinality(Waiters))'
<1>a. SUFFICES ASSUME IInv, [Next]_vars PROVE (count \in 0..Cardinality(Waiters))'
  OBVIOUS
<1>b. TypeOK /\ ValueTypes /\ KernelTypes /\ CallTypes /\ Placed /\ Created /\ Needed /\ Held
  BY <1>a DEF IInv, TypeOK, Shape
<1>c. Inside \subseteq Waiters
  BY DEF Inside
<1>d. count \in 0..Cardinality(Waiters) /\ Cardinality(Waiters) \in Nat
  BY <1>b, WaiterSets DEF TypeOK
<1>1. ASSUME NEW t \in Tasks, EnsureLoad(t) PROVE (count \in 0..Cardinality(Waiters))'
  BY <1>1, <1>d DEF EnsureLoad, AfterEnsure, Goto, object, kernel, history
<1>2. ASSUME NEW t \in Tasks, Create(t) PROVE (count \in 0..Cardinality(Waiters))'
  BY <1>2, <1>d DEF Create, AfterEnsure, CreateSemaphore, Goto, object, kernel, history
<1>3. ASSUME NEW t \in Waiters, Loop(t) PROVE (count \in 0..Cardinality(Waiters))'
  BY <1>3, <1>d DEF Loop, Goto, object, kernel, history
<1>4. ASSUME NEW t \in Waiters, Enter(t) PROVE (count \in 0..Cardinality(Waiters))'
  <2>1. t \notin Inside /\ Table
    BY <1>4, <1>b DEF Enter, Inside, Placed, WaiterPlaces
  <2>2. Inside \union {t} \subseteq Waiters
    BY <1>c, <1>4
  <2>3. count + 1 <= Cardinality(Waiters)
    BY <1>a, <1>c, <2>1, <2>2, OneMore, WaiterSets DEF IInv, Counted
  <2>4. QED BY <1>4, <1>d, <2>3 DEF Enter
<1>5. ASSUME NEW t \in Waiters, Match(t) PROVE (count \in 0..Cardinality(Waiters))'
  BY <1>5, <1>d DEF Match, Goto, object, kernel, history
<1>6. ASSUME NEW t \in Waiters, NullCheck(t) PROVE (count \in 0..Cardinality(Waiters))'
  BY <1>6, <1>d DEF NullCheck, Goto, object, kernel, history
<1>7. ASSUME NEW t \in Waiters, Make(t) PROVE (count \in 0..Cardinality(Waiters))'
  BY <1>7, <1>d DEF Make, CreateSemaphore, Goto, object, kernel, history
<1>8. ASSUME NEW t \in Waiters, Fetch(t) PROVE (count \in 0..Cardinality(Waiters))'
  BY <1>8, <1>d DEF Fetch, Goto, object, kernel, history
<1>9. ASSUME NEW t \in Waiters, Take(t) PROVE (count \in 0..Cardinality(Waiters))'
  BY <1>9, <1>d DEF Take, Taken, Goto, object, kernel, history
<1>10. ASSUME NEW t \in Waiters, Leave(t) PROVE (count \in 0..Cardinality(Waiters))'
  <2>1. t \in Inside /\ Table
    BY <1>10, <1>b DEF Leave, Inside, Placed, WaiterPlaces
  <2>2. Cardinality(Inside \ {t}) = count - 1
    BY <1>a, <1>c, <2>1, OneLess DEF IInv, Counted
  <2>3. Cardinality(Inside \ {t}) \in Nat
    BY <1>c, WaiterSets
  <2>4. QED BY <1>10, <1>d, <2>2, <2>3 DEF Leave
<1>11. ASSUME NEW t \in Notifiers, Count(t) PROVE (count \in 0..Cardinality(Waiters))'
  BY <1>11, <1>d DEF Count, Goto, object, kernel, history
<1>12. ASSUME NEW t \in Notifiers, GiveNext(t) PROVE (count \in 0..Cardinality(Waiters))'
  BY <1>12, <1>d DEF GiveNext, Give, Filled, Goto, object, kernel, history
<1>13. ASSUME NEW t \in Notifiers, EndNotify(t) PROVE (count \in 0..Cardinality(Waiters))'
  BY <1>13, <1>d DEF EndNotify, Goto, object, kernel, history
<1>14. ASSUME NEW t \in Notifiers, GiveTable(t) PROVE (count \in 0..Cardinality(Waiters))'
  BY <1>14, <1>d DEF GiveTable, Give, Filled, Goto, object, kernel, history
<1>15. ASSUME NEW t \in Waiters, NEW o \in {0, 1}, Wait(t, o) PROVE (count \in 0..Cardinality(Waiters))'
  BY <1>15, <1>d DEF Wait, Goto, object, kernel, history
<1>16. ASSUME NEW t \in Notifiers, NEW all \in BOOLEAN, NotifyFlag(t, all) PROVE (count \in 0..Cardinality(Waiters))'
  BY <1>16, <1>d DEF NotifyFlag, Goto, object, kernel, history
<1>17. ASSUME NEW t \in Notifiers, NEW all \in BOOLEAN, NotifyTable(t, all) PROVE (count \in 0..Cardinality(Waiters))'
  BY <1>17, <1>d DEF NotifyTable, Goto, object, kernel, history
<1>18. ASSUME NEW all \in BOOLEAN, NotifyFlagIsr(all) PROVE (count \in 0..Cardinality(Waiters))'
  BY <1>18, <1>d DEF NotifyFlagIsr, Give, Filled, Goto, object, kernel, history
<1>19. ASSUME NEW all \in BOOLEAN, NotifyTableIsr(all) PROVE (count \in 0..Cardinality(Waiters))'
  BY <1>19, <1>d DEF NotifyTableIsr, Give, Filled, Goto, object, kernel, history
<1>20. ASSUME Change PROVE (count \in 0..Cardinality(Waiters))'
  BY <1>20, <1>d DEF Change, Goto, object, kernel, history
<1>21. ASSUME Destroy PROVE (count \in 0..Cardinality(Waiters))'
  BY <1>21, <1>d DEF Destroy, Goto, object, kernel, history
<1>22. ASSUME UNCHANGED vars PROVE (count \in 0..Cardinality(Waiters))'
  BY <1>22, <1>d DEF vars, Goto, object, kernel, history
<1>23. QED
  BY <1>a, <1>1, <1>2, <1>3, <1>4, <1>5, <1>6, <1>7, <1>8, <1>9, <1>10, <1>11, <1>12, <1>13, <1>14, <1>15, <1>16, <1>17, <1>18, <1>19, <1>20, <1>21, <1>22 DEF Next, Step

LEMMA PlacedKept == IInv /\ [Next]_vars => Placed'
<1>a. SUFFICES ASSUME IInv, [Next]_vars PROVE Placed'
  OBVIOUS
<1>b. TypeOK /\ ValueTypes /\ KernelTypes /\ CallTypes /\ Placed /\ Created /\ Needed /\ Held
  BY <1>a DEF IInv, TypeOK, Shape
<1>1. ASSUME NEW t \in Tasks, EnsureLoad(t) PROVE Placed'
  BY <1>1, <1>b, Bounds DEF EnsureLoad, AfterEnsure, Goto, object, kernel, history, Placed, CallTypes, Tasks, WaiterPlaces, NotifierPlaces, Table
<1>2. ASSUME NEW t \in Tasks, Create(t) PROVE Placed'
  BY <1>2, <1>b, Bounds DEF Create, AfterEnsure, CreateSemaphore, Goto, object, kernel, history, Placed, CallTypes, Tasks, WaiterPlaces, NotifierPlaces, Table
<1>3. ASSUME NEW t \in Waiters, Loop(t) PROVE Placed'
  BY <1>3, <1>b, Bounds DEF Loop, Goto, object, kernel, history, Placed, CallTypes, Tasks, WaiterPlaces, NotifierPlaces, Table
<1>4. ASSUME NEW t \in Waiters, Enter(t) PROVE Placed'
  BY <1>4, <1>b, Bounds DEF Enter, Goto, object, kernel, history, Placed, CallTypes, Tasks, WaiterPlaces, NotifierPlaces, Table
<1>5. ASSUME NEW t \in Waiters, Match(t) PROVE Placed'
  BY <1>5, <1>b, Bounds DEF Match, Goto, object, kernel, history, Placed, CallTypes, Tasks, WaiterPlaces, NotifierPlaces, Table
<1>6. ASSUME NEW t \in Waiters, NullCheck(t) PROVE Placed'
  BY <1>6, <1>b, Bounds DEF NullCheck, Goto, object, kernel, history, Placed, CallTypes, Tasks, WaiterPlaces, NotifierPlaces, Table
<1>7. ASSUME NEW t \in Waiters, Make(t) PROVE Placed'
  BY <1>7, <1>b, Bounds DEF Make, CreateSemaphore, Goto, object, kernel, history, Placed, CallTypes, Tasks, WaiterPlaces, NotifierPlaces, Table
<1>8. ASSUME NEW t \in Waiters, Fetch(t) PROVE Placed'
  BY <1>8, <1>b, Bounds DEF Fetch, Goto, object, kernel, history, Placed, CallTypes, Tasks, WaiterPlaces, NotifierPlaces, Table
<1>9. ASSUME NEW t \in Waiters, Take(t) PROVE Placed'
  BY <1>9, <1>b, Bounds DEF Take, Taken, Goto, object, kernel, history, Placed, CallTypes, Tasks, WaiterPlaces, NotifierPlaces, Table
<1>10. ASSUME NEW t \in Waiters, Leave(t) PROVE Placed'
  BY <1>10, <1>b, Bounds DEF Leave, Goto, object, kernel, history, Placed, CallTypes, Tasks, WaiterPlaces, NotifierPlaces, Table
<1>11. ASSUME NEW t \in Notifiers, Count(t) PROVE Placed'
  BY <1>11, <1>b, Bounds DEF Count, Goto, object, kernel, history, Placed, CallTypes, Tasks, WaiterPlaces, NotifierPlaces, Table
<1>12. ASSUME NEW t \in Notifiers, GiveNext(t) PROVE Placed'
  BY <1>12, <1>b, Bounds DEF GiveNext, Give, Filled, Goto, object, kernel, history, Placed, CallTypes, Tasks, WaiterPlaces, NotifierPlaces, Table
<1>13. ASSUME NEW t \in Notifiers, EndNotify(t) PROVE Placed'
  BY <1>13, <1>b, Bounds DEF EndNotify, Goto, object, kernel, history, Placed, CallTypes, Tasks, WaiterPlaces, NotifierPlaces, Table
<1>14. ASSUME NEW t \in Notifiers, GiveTable(t) PROVE Placed'
  BY <1>14, <1>b, Bounds DEF GiveTable, Give, Filled, Goto, object, kernel, history, Placed, CallTypes, Tasks, WaiterPlaces, NotifierPlaces, Table
<1>15. ASSUME NEW t \in Waiters, NEW o \in {0, 1}, Wait(t, o) PROVE Placed'
  BY <1>15, <1>b, Bounds DEF Wait, Goto, object, kernel, history, Placed, CallTypes, Tasks, WaiterPlaces, NotifierPlaces, Table
<1>16. ASSUME NEW t \in Notifiers, NEW all \in BOOLEAN, NotifyFlag(t, all) PROVE Placed'
  BY <1>16, <1>b, Bounds DEF NotifyFlag, Goto, object, kernel, history, Placed, CallTypes, Tasks, WaiterPlaces, NotifierPlaces, Table
<1>17. ASSUME NEW t \in Notifiers, NEW all \in BOOLEAN, NotifyTable(t, all) PROVE Placed'
  BY <1>17, <1>b, Bounds DEF NotifyTable, Goto, object, kernel, history, Placed, CallTypes, Tasks, WaiterPlaces, NotifierPlaces, Table
<1>18. ASSUME NEW all \in BOOLEAN, NotifyFlagIsr(all) PROVE Placed'
  BY <1>18, <1>b, Bounds DEF NotifyFlagIsr, Give, Filled, Goto, object, kernel, history, Placed, CallTypes, Tasks, WaiterPlaces, NotifierPlaces, Table
<1>19. ASSUME NEW all \in BOOLEAN, NotifyTableIsr(all) PROVE Placed'
  BY <1>19, <1>b, Bounds DEF NotifyTableIsr, Give, Filled, Goto, object, kernel, history, Placed, CallTypes, Tasks, WaiterPlaces, NotifierPlaces, Table
<1>20. ASSUME Change PROVE Placed'
  BY <1>20, <1>b, Bounds DEF Change, Goto, object, kernel, history, Placed, CallTypes, Tasks, WaiterPlaces, NotifierPlaces, Table
<1>21. ASSUME Destroy PROVE Placed'
  BY <1>21, <1>b, Bounds DEF Destroy, Goto, object, kernel, history, Placed, CallTypes, Tasks, WaiterPlaces, NotifierPlaces, Table
<1>22. ASSUME UNCHANGED vars PROVE Placed'
  BY <1>22, <1>b, Bounds DEF vars, Goto, object, kernel, history, Placed, CallTypes, Tasks, WaiterPlaces, NotifierPlaces, Table
<1>23. QED
  BY <1>a, <1>1, <1>2, <1>3, <1>4, <1>5, <1>6, <1>7, <1>8, <1>9, <1>10, <1>11, <1>12, <1>13, <1>14, <1>15, <1>16, <1>17, <1>18, <1>19, <1>20, <1>21, <1>22 DEF Next, Step

LEMMA CreatedKept == IInv /\ [Next]_vars => Created'
<1>a. SUFFICES ASSUME IInv, [Next]_vars PROVE Created'
  OBVIOUS
<1>b. TypeOK /\ ValueTypes /\ KernelTypes /\ CallTypes /\ Placed /\ Created /\ Needed /\ Held
  BY <1>a DEF IInv, TypeOK, Shape
<1>1. ASSUME NEW t \in Tasks, EnsureLoad(t) PROVE Created'
  BY <1>1, <1>b, Bounds DEF EnsureLoad, AfterEnsure, Goto, object, kernel, history, Created, Needed, KernelTypes, CallTypes, Tasks
<1>2. ASSUME NEW t \in Tasks, Create(t) PROVE Created'
  BY <1>2, <1>b, Bounds DEF Create, AfterEnsure, CreateSemaphore, Goto, object, kernel, history, Created, Needed, KernelTypes, CallTypes, Tasks
<1>3. ASSUME NEW t \in Waiters, Loop(t) PROVE Created'
  BY <1>3, <1>b, Bounds DEF Loop, Goto, object, kernel, history, Created, Needed, KernelTypes, CallTypes, Tasks
<1>4. ASSUME NEW t \in Waiters, Enter(t) PROVE Created'
  BY <1>4, <1>b, Bounds DEF Enter, Goto, object, kernel, history, Created, Needed, KernelTypes, CallTypes, Tasks
<1>5. ASSUME NEW t \in Waiters, Match(t) PROVE Created'
  BY <1>5, <1>b, Bounds DEF Match, Goto, object, kernel, history, Created, Needed, KernelTypes, CallTypes, Tasks
<1>6. ASSUME NEW t \in Waiters, NullCheck(t) PROVE Created'
  BY <1>6, <1>b, Bounds DEF NullCheck, Goto, object, kernel, history, Created, Needed, KernelTypes, CallTypes, Tasks
<1>7. ASSUME NEW t \in Waiters, Make(t) PROVE Created'
  BY <1>7, <1>b, Bounds DEF Make, CreateSemaphore, Goto, object, kernel, history, Created, Needed, KernelTypes, CallTypes, Tasks
<1>8. ASSUME NEW t \in Waiters, Fetch(t) PROVE Created'
  BY <1>8, <1>b, Bounds DEF Fetch, Goto, object, kernel, history, Created, Needed, KernelTypes, CallTypes, Tasks
<1>9. ASSUME NEW t \in Waiters, Take(t) PROVE Created'
  BY <1>9, <1>b, Bounds DEF Take, Taken, Goto, object, kernel, history, Created, Needed, KernelTypes, CallTypes, Tasks
<1>10. ASSUME NEW t \in Waiters, Leave(t) PROVE Created'
  BY <1>10, <1>b, Bounds DEF Leave, Goto, object, kernel, history, Created, Needed, KernelTypes, CallTypes, Tasks
<1>11. ASSUME NEW t \in Notifiers, Count(t) PROVE Created'
  BY <1>11, <1>b, Bounds DEF Count, Goto, object, kernel, history, Created, Needed, KernelTypes, CallTypes, Tasks
<1>12. ASSUME NEW t \in Notifiers, GiveNext(t) PROVE Created'
  BY <1>12, <1>b, Bounds DEF GiveNext, Give, Filled, Goto, object, kernel, history, Created, Needed, KernelTypes, CallTypes, Tasks
<1>13. ASSUME NEW t \in Notifiers, EndNotify(t) PROVE Created'
  BY <1>13, <1>b, Bounds DEF EndNotify, Goto, object, kernel, history, Created, Needed, KernelTypes, CallTypes, Tasks
<1>14. ASSUME NEW t \in Notifiers, GiveTable(t) PROVE Created'
  BY <1>14, <1>b, Bounds DEF GiveTable, Give, Filled, Goto, object, kernel, history, Created, Needed, KernelTypes, CallTypes, Tasks
<1>15. ASSUME NEW t \in Waiters, NEW o \in {0, 1}, Wait(t, o) PROVE Created'
  BY <1>15, <1>b, Bounds DEF Wait, Goto, object, kernel, history, Created, Needed, KernelTypes, CallTypes, Tasks
<1>16. ASSUME NEW t \in Notifiers, NEW all \in BOOLEAN, NotifyFlag(t, all) PROVE Created'
  BY <1>16, <1>b, Bounds DEF NotifyFlag, Goto, object, kernel, history, Created, Needed, KernelTypes, CallTypes, Tasks
<1>17. ASSUME NEW t \in Notifiers, NEW all \in BOOLEAN, NotifyTable(t, all) PROVE Created'
  BY <1>17, <1>b, Bounds DEF NotifyTable, Goto, object, kernel, history, Created, Needed, KernelTypes, CallTypes, Tasks
<1>18. ASSUME NEW all \in BOOLEAN, NotifyFlagIsr(all) PROVE Created'
  BY <1>18, <1>b, Bounds DEF NotifyFlagIsr, Give, Filled, Goto, object, kernel, history, Created, Needed, KernelTypes, CallTypes, Tasks
<1>19. ASSUME NEW all \in BOOLEAN, NotifyTableIsr(all) PROVE Created'
  BY <1>19, <1>b, Bounds DEF NotifyTableIsr, Give, Filled, Goto, object, kernel, history, Created, Needed, KernelTypes, CallTypes, Tasks
<1>20. ASSUME Change PROVE Created'
  BY <1>20, <1>b, Bounds DEF Change, Goto, object, kernel, history, Created, Needed, KernelTypes, CallTypes, Tasks
<1>21. ASSUME Destroy PROVE Created'
  BY <1>21, <1>b DEF Destroy, object, Created, Table
<1>22. ASSUME UNCHANGED vars PROVE Created'
  BY <1>22, <1>b, Bounds DEF vars, Goto, object, kernel, history, Created, Needed, KernelTypes, CallTypes, Tasks
<1>23. QED
  BY <1>a, <1>1, <1>2, <1>3, <1>4, <1>5, <1>6, <1>7, <1>8, <1>9, <1>10, <1>11, <1>12, <1>13, <1>14, <1>15, <1>16, <1>17, <1>18, <1>19, <1>20, <1>21, <1>22 DEF Next, Step

LEMMA NeededKept == IInv /\ [Next]_vars => Needed'
<1>a. SUFFICES ASSUME IInv, [Next]_vars PROVE Needed'
  OBVIOUS
<1>b. TypeOK /\ ValueTypes /\ KernelTypes /\ CallTypes /\ Placed /\ Created /\ Needed /\ Held
  BY <1>a DEF IInv, TypeOK, Shape
<1>1. ASSUME NEW t \in Tasks, EnsureLoad(t) PROVE Needed'
  BY <1>1, <1>b, Bounds DEF EnsureLoad, AfterEnsure, Goto, object, kernel, history, Created, Needed, KernelTypes, CallTypes, Placed, Tasks, WaiterPlaces, NotifierPlaces, Table
<1>2. ASSUME NEW t \in Tasks, Create(t) PROVE Needed'
  BY <1>2, <1>b, Bounds DEF Create, AfterEnsure, CreateSemaphore, Goto, object, kernel, history, Created, Needed, KernelTypes, CallTypes, Placed, Tasks, WaiterPlaces, NotifierPlaces, Table
<1>3. ASSUME NEW t \in Waiters, Loop(t) PROVE Needed'
  BY <1>3, <1>b, Bounds DEF Loop, Goto, object, kernel, history, Created, Needed, KernelTypes, CallTypes, Placed, Tasks, WaiterPlaces, NotifierPlaces, Table
<1>4. ASSUME NEW t \in Waiters, Enter(t) PROVE Needed'
  BY <1>4, <1>b, Bounds DEF Enter, Goto, object, kernel, history, Created, Needed, KernelTypes, CallTypes, Placed, Tasks, WaiterPlaces, NotifierPlaces, Table
<1>5. ASSUME NEW t \in Waiters, Match(t) PROVE Needed'
  BY <1>5, <1>b, Bounds DEF Match, Goto, object, kernel, history, Created, Needed, KernelTypes, CallTypes, Placed, Tasks, WaiterPlaces, NotifierPlaces, Table
<1>6. ASSUME NEW t \in Waiters, NullCheck(t) PROVE Needed'
  BY <1>6, <1>b, Bounds DEF NullCheck, Goto, object, kernel, history, Created, Needed, KernelTypes, CallTypes, Placed, Tasks, WaiterPlaces, NotifierPlaces, Table
<1>7. ASSUME NEW t \in Waiters, Make(t) PROVE Needed'
  BY <1>7, <1>b, Bounds DEF Make, CreateSemaphore, Goto, object, kernel, history, Created, Needed, KernelTypes, CallTypes, Placed, Tasks, WaiterPlaces, NotifierPlaces, Table
<1>8. ASSUME NEW t \in Waiters, Fetch(t) PROVE Needed'
  BY <1>8, <1>b, Bounds DEF Fetch, Goto, object, kernel, history, Created, Needed, KernelTypes, CallTypes, Placed, Tasks, WaiterPlaces, NotifierPlaces, Table
<1>9. ASSUME NEW t \in Waiters, Take(t) PROVE Needed'
  BY <1>9, <1>b, Bounds DEF Take, Taken, Goto, object, kernel, history, Created, Needed, KernelTypes, CallTypes, Placed, Tasks, WaiterPlaces, NotifierPlaces, Table
<1>10. ASSUME NEW t \in Waiters, Leave(t) PROVE Needed'
  BY <1>10, <1>b, Bounds DEF Leave, Goto, object, kernel, history, Created, Needed, KernelTypes, CallTypes, Placed, Tasks, WaiterPlaces, NotifierPlaces, Table
<1>11. ASSUME NEW t \in Notifiers, Count(t) PROVE Needed'
  BY <1>11, <1>b, Bounds DEF Count, Goto, object, kernel, history, Created, Needed, KernelTypes, CallTypes, Placed, Tasks, WaiterPlaces, NotifierPlaces, Table
<1>12. ASSUME NEW t \in Notifiers, GiveNext(t) PROVE Needed'
  BY <1>12, <1>b, Bounds DEF GiveNext, Give, Filled, Goto, object, kernel, history, Created, Needed, KernelTypes, CallTypes, Placed, Tasks, WaiterPlaces, NotifierPlaces, Table
<1>13. ASSUME NEW t \in Notifiers, EndNotify(t) PROVE Needed'
  BY <1>13, <1>b, Bounds DEF EndNotify, Goto, object, kernel, history, Created, Needed, KernelTypes, CallTypes, Placed, Tasks, WaiterPlaces, NotifierPlaces, Table
<1>14. ASSUME NEW t \in Notifiers, GiveTable(t) PROVE Needed'
  BY <1>14, <1>b, Bounds DEF GiveTable, Give, Filled, Goto, object, kernel, history, Created, Needed, KernelTypes, CallTypes, Placed, Tasks, WaiterPlaces, NotifierPlaces, Table
<1>15. ASSUME NEW t \in Waiters, NEW o \in {0, 1}, Wait(t, o) PROVE Needed'
  BY <1>15, <1>b, Bounds DEF Wait, Goto, object, kernel, history, Created, Needed, KernelTypes, CallTypes, Placed, Tasks, WaiterPlaces, NotifierPlaces, Table
<1>16. ASSUME NEW t \in Notifiers, NEW all \in BOOLEAN, NotifyFlag(t, all) PROVE Needed'
  BY <1>16, <1>b, Bounds DEF NotifyFlag, Goto, object, kernel, history, Created, Needed, KernelTypes, CallTypes, Placed, Tasks, WaiterPlaces, NotifierPlaces, Table
<1>17. ASSUME NEW t \in Notifiers, NEW all \in BOOLEAN, NotifyTable(t, all) PROVE Needed'
  BY <1>17, <1>b, Bounds DEF NotifyTable, Goto, object, kernel, history, Created, Needed, KernelTypes, CallTypes, Placed, Tasks, WaiterPlaces, NotifierPlaces, Table
<1>18. ASSUME NEW all \in BOOLEAN, NotifyFlagIsr(all) PROVE Needed'
  BY <1>18, <1>b, Bounds DEF NotifyFlagIsr, Give, Filled, Goto, object, kernel, history, Created, Needed, KernelTypes, CallTypes, Placed, Tasks, WaiterPlaces, NotifierPlaces, Table
<1>19. ASSUME NEW all \in BOOLEAN, NotifyTableIsr(all) PROVE Needed'
  BY <1>19, <1>b, Bounds DEF NotifyTableIsr, Give, Filled, Goto, object, kernel, history, Created, Needed, KernelTypes, CallTypes, Placed, Tasks, WaiterPlaces, NotifierPlaces, Table
<1>20. ASSUME Change PROVE Needed'
  BY <1>20, <1>b, Bounds DEF Change, Goto, object, kernel, history, Created, Needed, KernelTypes, CallTypes, Placed, Tasks, WaiterPlaces, NotifierPlaces, Table
<1>21. ASSUME Destroy PROVE Needed'
  BY <1>21, <1>b, Bounds DEF Destroy, Goto, object, kernel, history, Created, Needed, KernelTypes, CallTypes, Placed, Tasks, WaiterPlaces, NotifierPlaces, Table
<1>22. ASSUME UNCHANGED vars PROVE Needed'
  BY <1>22, <1>b, Bounds DEF vars, Goto, object, kernel, history, Created, Needed, KernelTypes, CallTypes, Placed, Tasks, WaiterPlaces, NotifierPlaces, Table
<1>23. QED
  BY <1>a, <1>1, <1>2, <1>3, <1>4, <1>5, <1>6, <1>7, <1>8, <1>9, <1>10, <1>11, <1>12, <1>13, <1>14, <1>15, <1>16, <1>17, <1>18, <1>19, <1>20, <1>21, <1>22 DEF Next, Step

LEMMA HeldKept == IInv /\ [Next]_vars => Held'
<1>a. SUFFICES ASSUME IInv, [Next]_vars PROVE Held'
  OBVIOUS
<1>b. TypeOK /\ ValueTypes /\ KernelTypes /\ CallTypes /\ Placed /\ Created /\ Needed /\ Held
  BY <1>a DEF IInv, TypeOK, Shape
<1>1. ASSUME NEW t \in Tasks, EnsureLoad(t) PROVE Held'
  BY <1>1, <1>b, Bounds DEF EnsureLoad, AfterEnsure, Goto, object, kernel, history, Created, Needed, Held, KernelTypes, CallTypes, Placed, Tasks, WaiterPlaces, NotifierPlaces, Table
<1>2. ASSUME NEW t \in Tasks, Create(t) PROVE Held'
  BY <1>2, <1>b, Bounds DEF Create, AfterEnsure, CreateSemaphore, Goto, object, kernel, history, Created, Needed, Held, KernelTypes, CallTypes, Placed, Tasks, WaiterPlaces, NotifierPlaces, Table
<1>3. ASSUME NEW t \in Waiters, Loop(t) PROVE Held'
  BY <1>3, <1>b, Bounds DEF Loop, Goto, object, kernel, history, Created, Needed, Held, KernelTypes, CallTypes, Placed, Tasks, WaiterPlaces, NotifierPlaces, Table
<1>4. ASSUME NEW t \in Waiters, Enter(t) PROVE Held'
  BY <1>4, <1>b, Bounds DEF Enter, Goto, object, kernel, history, Created, Needed, Held, KernelTypes, CallTypes, Placed, Tasks, WaiterPlaces, NotifierPlaces, Table
<1>5. ASSUME NEW t \in Waiters, Match(t) PROVE Held'
  BY <1>5, <1>b, Bounds DEF Match, Goto, object, kernel, history, Created, Needed, Held, KernelTypes, CallTypes, Placed, Tasks, WaiterPlaces, NotifierPlaces, Table
<1>6. ASSUME NEW t \in Waiters, NullCheck(t) PROVE Held'
  BY <1>6, <1>b, Bounds DEF NullCheck, Goto, object, kernel, history, Created, Needed, Held, KernelTypes, CallTypes, Placed, Tasks, WaiterPlaces, NotifierPlaces, Table
<1>7. ASSUME NEW t \in Waiters, Make(t) PROVE Held'
  <2>1. kind = "cold"
    BY <1>7, <1>b DEF Make, Placed, Needed, ValueTypes, WaiterPlaces, Table
  <2>2. QED BY <1>7, <1>b, <2>1 DEF Make, Goto, object, Held, CallTypes, Tasks
<1>8. ASSUME NEW t \in Waiters, Fetch(t) PROVE Held'
  BY <1>8, <1>b, Bounds DEF Fetch, Goto, object, kernel, history, Created, Needed, Held, KernelTypes, CallTypes, Placed, Tasks, WaiterPlaces, NotifierPlaces, Table
<1>9. ASSUME NEW t \in Waiters, Take(t) PROVE Held'
  BY <1>9, <1>b, Bounds DEF Take, Taken, Goto, object, kernel, history, Created, Needed, Held, KernelTypes, CallTypes, Placed, Tasks, WaiterPlaces, NotifierPlaces, Table
<1>10. ASSUME NEW t \in Waiters, Leave(t) PROVE Held'
  BY <1>10, <1>b, Bounds DEF Leave, Goto, object, kernel, history, Created, Needed, Held, KernelTypes, CallTypes, Placed, Tasks, WaiterPlaces, NotifierPlaces, Table
<1>11. ASSUME NEW t \in Notifiers, Count(t) PROVE Held'
  BY <1>11, <1>b, Bounds DEF Count, Goto, object, kernel, history, Created, Needed, Held, KernelTypes, CallTypes, Placed, Tasks, WaiterPlaces, NotifierPlaces, Table
<1>12. ASSUME NEW t \in Notifiers, GiveNext(t) PROVE Held'
  BY <1>12, <1>b, Bounds DEF GiveNext, Give, Filled, Goto, object, kernel, history, Created, Needed, Held, KernelTypes, CallTypes, Placed, Tasks, WaiterPlaces, NotifierPlaces, Table
<1>13. ASSUME NEW t \in Notifiers, EndNotify(t) PROVE Held'
  BY <1>13, <1>b, Bounds DEF EndNotify, Goto, object, kernel, history, Created, Needed, Held, KernelTypes, CallTypes, Placed, Tasks, WaiterPlaces, NotifierPlaces, Table
<1>14. ASSUME NEW t \in Notifiers, GiveTable(t) PROVE Held'
  BY <1>14, <1>b, Bounds DEF GiveTable, Give, Filled, Goto, object, kernel, history, Created, Needed, Held, KernelTypes, CallTypes, Placed, Tasks, WaiterPlaces, NotifierPlaces, Table
<1>15. ASSUME NEW t \in Waiters, NEW o \in {0, 1}, Wait(t, o) PROVE Held'
  BY <1>15, <1>b, Bounds DEF Wait, Goto, object, kernel, history, Created, Needed, Held, KernelTypes, CallTypes, Placed, Tasks, WaiterPlaces, NotifierPlaces, Table
<1>16. ASSUME NEW t \in Notifiers, NEW all \in BOOLEAN, NotifyFlag(t, all) PROVE Held'
  BY <1>16, <1>b, Bounds DEF NotifyFlag, Goto, object, kernel, history, Created, Needed, Held, KernelTypes, CallTypes, Placed, Tasks, WaiterPlaces, NotifierPlaces, Table
<1>17. ASSUME NEW t \in Notifiers, NEW all \in BOOLEAN, NotifyTable(t, all) PROVE Held'
  BY <1>17, <1>b, Bounds DEF NotifyTable, Goto, object, kernel, history, Created, Needed, Held, KernelTypes, CallTypes, Placed, Tasks, WaiterPlaces, NotifierPlaces, Table
<1>18. ASSUME NEW all \in BOOLEAN, NotifyFlagIsr(all) PROVE Held'
  BY <1>18, <1>b, Bounds DEF NotifyFlagIsr, Give, Filled, Goto, object, kernel, history, Created, Needed, Held, KernelTypes, CallTypes, Placed, Tasks, WaiterPlaces, NotifierPlaces, Table
<1>19. ASSUME NEW all \in BOOLEAN, NotifyTableIsr(all) PROVE Held'
  BY <1>19, <1>b, Bounds DEF NotifyTableIsr, Give, Filled, Goto, object, kernel, history, Created, Needed, Held, KernelTypes, CallTypes, Placed, Tasks, WaiterPlaces, NotifierPlaces, Table
<1>20. ASSUME Change PROVE Held'
  BY <1>20, <1>b, Bounds DEF Change, Goto, object, kernel, history, Created, Needed, Held, KernelTypes, CallTypes, Placed, Tasks, WaiterPlaces, NotifierPlaces, Table
<1>21. ASSUME Destroy PROVE Held'
  BY <1>21, <1>b, Bounds DEF Destroy, Goto, object, kernel, history, Created, Needed, Held, KernelTypes, CallTypes, Placed, Tasks, WaiterPlaces, NotifierPlaces, Table
<1>22. ASSUME UNCHANGED vars PROVE Held'
  BY <1>22, <1>b, Bounds DEF vars, Goto, object, kernel, history, Created, Needed, Held, KernelTypes, CallTypes, Placed, Tasks, WaiterPlaces, NotifierPlaces, Table
<1>23. QED
  BY <1>a, <1>1, <1>2, <1>3, <1>4, <1>5, <1>6, <1>7, <1>8, <1>9, <1>10, <1>11, <1>12, <1>13, <1>14, <1>15, <1>16, <1>17, <1>18, <1>19, <1>20, <1>21, <1>22 DEF Next, Step

(* IInv without its last three parts.                                      *)
LEMMA ShapeKept == IInv /\ [Next]_vars => TypeOK' /\ Shape'
  BY ValueTypesKept, KernelTypesKept, CallTypesKept, CountKept, PlacedKept,
     CreatedKept, NeededKept, HeldKept
  DEF TypeOK, Shape

LEMMA CountedKept == IInv /\ [Next]_vars => Counted'
<1>a. SUFFICES ASSUME IInv, [Next]_vars, Table' PROVE (count = Cardinality(Inside))'
  BY DEF Counted
<1>b. CallTypes /\ Placed /\ Inside \subseteq Waiters
  BY <1>a DEF IInv, TypeOK, Shape, Inside
<1>c. kind' = kind
  BY <1>a DEF Next, Step, vars, object, EnsureLoad, Create, Loop, Enter, Match, NullCheck,
      Make, Fetch, Take, Leave, Count, GiveNext, EndNotify, GiveTable, Wait,
      NotifyFlag, NotifyTable, NotifyFlagIsr, NotifyTableIsr, Change, Destroy
<1>d. Table /\ count = Cardinality(Inside)
  BY <1>a, <1>c DEF IInv, Counted, Table
<1>1. ASSUME NEW t \in Tasks, EnsureLoad(t) PROVE (count = Cardinality(Inside))'
  <2>1. Inside' = Inside /\ count' = count
    BY <1>1, <1>b, <1>d, Bounds DEF EnsureLoad, AfterEnsure, Goto, object, kernel, history, Inside, CallTypes, Tasks, Placed, WaiterPlaces, NotifierPlaces, Table
  <2>2. QED BY <1>d, <2>1
<1>2. ASSUME NEW t \in Tasks, Create(t) PROVE (count = Cardinality(Inside))'
  <2>1. Inside' = Inside /\ count' = count
    BY <1>2, <1>b, <1>d, Bounds DEF Create, AfterEnsure, CreateSemaphore, Goto, object, kernel, history, Inside, CallTypes, Tasks, Placed, WaiterPlaces, NotifierPlaces, Table
  <2>2. QED BY <1>d, <2>1
<1>3. ASSUME NEW t \in Waiters, Loop(t) PROVE (count = Cardinality(Inside))'
  <2>1. Inside' = Inside /\ count' = count
    BY <1>3, <1>b, <1>d, Bounds DEF Loop, Goto, object, kernel, history, Inside, CallTypes, Tasks, Placed, WaiterPlaces, NotifierPlaces, Table
  <2>2. QED BY <1>d, <2>1
<1>4. ASSUME NEW t \in Waiters, Enter(t) PROVE (count = Cardinality(Inside))'
  <2>1. t \notin Inside /\ Inside' = Inside \union {t} /\ count' = count + 1
    BY <1>4, <1>b DEF Enter, Goto, Inside, CallTypes, Tasks
  <2>2. QED BY <1>b, <1>d, <2>1, OneMore
<1>5. ASSUME NEW t \in Waiters, Match(t) PROVE (count = Cardinality(Inside))'
  <2>1. Inside' = Inside /\ count' = count
    BY <1>5, <1>b, <1>d, Bounds DEF Match, Goto, object, kernel, history, Inside, CallTypes, Tasks, Placed, WaiterPlaces, NotifierPlaces, Table
  <2>2. QED BY <1>d, <2>1
<1>6. ASSUME NEW t \in Waiters, NullCheck(t) PROVE (count = Cardinality(Inside))'
  <2>1. Inside' = Inside /\ count' = count
    BY <1>6, <1>b, <1>d, Bounds DEF NullCheck, Goto, object, kernel, history, Inside, CallTypes, Tasks, Placed, WaiterPlaces, NotifierPlaces, Table
  <2>2. QED BY <1>d, <2>1
<1>7. ASSUME NEW t \in Waiters, Make(t) PROVE (count = Cardinality(Inside))'
  <2>1. Inside' = Inside /\ count' = count
    BY <1>7, <1>b, <1>d, Bounds DEF Make, CreateSemaphore, Goto, object, kernel, history, Inside, CallTypes, Tasks, Placed, WaiterPlaces, NotifierPlaces, Table
  <2>2. QED BY <1>d, <2>1
<1>8. ASSUME NEW t \in Waiters, Fetch(t) PROVE (count = Cardinality(Inside))'
  <2>1. Inside' = Inside /\ count' = count
    BY <1>8, <1>b, <1>d, Bounds DEF Fetch, Goto, object, kernel, history, Inside, CallTypes, Tasks, Placed, WaiterPlaces, NotifierPlaces, Table
  <2>2. QED BY <1>d, <2>1
<1>9. ASSUME NEW t \in Waiters, Take(t) PROVE (count = Cardinality(Inside))'
  <2>1. Inside' = Inside /\ count' = count
    BY <1>9, <1>b, <1>d, Bounds DEF Take, Taken, Goto, object, kernel, history, Inside, CallTypes, Tasks, Placed, WaiterPlaces, NotifierPlaces, Table
  <2>2. QED BY <1>d, <2>1
<1>10. ASSUME NEW t \in Waiters, Leave(t) PROVE (count = Cardinality(Inside))'
  <2>1. t \in Inside /\ Inside' = Inside \ {t} /\ count' = count - 1
    BY <1>10, <1>b DEF Leave, Goto, Inside, CallTypes, Tasks
  <2>2. QED BY <1>b, <1>d, <2>1, OneLess
<1>11. ASSUME NEW t \in Notifiers, Count(t) PROVE (count = Cardinality(Inside))'
  <2>1. Inside' = Inside /\ count' = count
    BY <1>11, <1>b, <1>d, Bounds DEF Count, Goto, object, kernel, history, Inside, CallTypes, Tasks, Placed, WaiterPlaces, NotifierPlaces, Table
  <2>2. QED BY <1>d, <2>1
<1>12. ASSUME NEW t \in Notifiers, GiveNext(t) PROVE (count = Cardinality(Inside))'
  <2>1. Inside' = Inside /\ count' = count
    BY <1>12, <1>b, <1>d, Bounds DEF GiveNext, Give, Filled, Goto, object, kernel, history, Inside, CallTypes, Tasks, Placed, WaiterPlaces, NotifierPlaces, Table
  <2>2. QED BY <1>d, <2>1
<1>13. ASSUME NEW t \in Notifiers, EndNotify(t) PROVE (count = Cardinality(Inside))'
  <2>1. Inside' = Inside /\ count' = count
    BY <1>13, <1>b, <1>d, Bounds DEF EndNotify, Goto, object, kernel, history, Inside, CallTypes, Tasks, Placed, WaiterPlaces, NotifierPlaces, Table
  <2>2. QED BY <1>d, <2>1
<1>14. ASSUME NEW t \in Notifiers, GiveTable(t) PROVE (count = Cardinality(Inside))'
  <2>1. Inside' = Inside /\ count' = count
    BY <1>14, <1>b, <1>d, Bounds DEF GiveTable, Give, Filled, Goto, object, kernel, history, Inside, CallTypes, Tasks, Placed, WaiterPlaces, NotifierPlaces, Table
  <2>2. QED BY <1>d, <2>1
<1>15. ASSUME NEW t \in Waiters, NEW o \in {0, 1}, Wait(t, o) PROVE (count = Cardinality(Inside))'
  <2>1. Inside' = Inside /\ count' = count
    BY <1>15, <1>b, <1>d, Bounds DEF Wait, Goto, object, kernel, history, Inside, CallTypes, Tasks, Placed, WaiterPlaces, NotifierPlaces, Table
  <2>2. QED BY <1>d, <2>1
<1>16. ASSUME NEW t \in Notifiers, NEW all \in BOOLEAN, NotifyFlag(t, all) PROVE (count = Cardinality(Inside))'
  <2>1. Inside' = Inside /\ count' = count
    BY <1>16, <1>b, <1>d, Bounds DEF NotifyFlag, Goto, object, kernel, history, Inside, CallTypes, Tasks, Placed, WaiterPlaces, NotifierPlaces, Table
  <2>2. QED BY <1>d, <2>1
<1>17. ASSUME NEW t \in Notifiers, NEW all \in BOOLEAN, NotifyTable(t, all) PROVE (count = Cardinality(Inside))'
  <2>1. Inside' = Inside /\ count' = count
    BY <1>17, <1>b, <1>d, Bounds DEF NotifyTable, Goto, object, kernel, history, Inside, CallTypes, Tasks, Placed, WaiterPlaces, NotifierPlaces, Table
  <2>2. QED BY <1>d, <2>1
<1>18. ASSUME NEW all \in BOOLEAN, NotifyFlagIsr(all) PROVE (count = Cardinality(Inside))'
  <2>1. Inside' = Inside /\ count' = count
    BY <1>18, <1>b, <1>d, Bounds DEF NotifyFlagIsr, Give, Filled, Goto, object, kernel, history, Inside, CallTypes, Tasks, Placed, WaiterPlaces, NotifierPlaces, Table
  <2>2. QED BY <1>d, <2>1
<1>19. ASSUME NEW all \in BOOLEAN, NotifyTableIsr(all) PROVE (count = Cardinality(Inside))'
  <2>1. Inside' = Inside /\ count' = count
    BY <1>19, <1>b, <1>d, Bounds DEF NotifyTableIsr, Give, Filled, Goto, object, kernel, history, Inside, CallTypes, Tasks, Placed, WaiterPlaces, NotifierPlaces, Table
  <2>2. QED BY <1>d, <2>1
<1>20. ASSUME Change PROVE (count = Cardinality(Inside))'
  <2>1. Inside' = Inside /\ count' = count
    BY <1>20, <1>b, <1>d, Bounds DEF Change, Goto, object, kernel, history, Inside, CallTypes, Tasks, Placed, WaiterPlaces, NotifierPlaces, Table
  <2>2. QED BY <1>d, <2>1
<1>21. ASSUME Destroy PROVE (count = Cardinality(Inside))'
  <2>1. Inside' = Inside /\ count' = count
    BY <1>21, <1>b, <1>d, Bounds DEF Destroy, Goto, object, kernel, history, Inside, CallTypes, Tasks, Placed, WaiterPlaces, NotifierPlaces, Table
  <2>2. QED BY <1>d, <2>1
<1>22. ASSUME UNCHANGED vars PROVE (count = Cardinality(Inside))'
  <2>1. Inside' = Inside /\ count' = count
    BY <1>22, <1>b, <1>d, Bounds DEF vars, Goto, object, kernel, history, Inside, CallTypes, Tasks, Placed, WaiterPlaces, NotifierPlaces, Table
  <2>2. QED BY <1>d, <2>1
<1>23. QED
  BY <1>a, <1>1, <1>2, <1>3, <1>4, <1>5, <1>6, <1>7, <1>8, <1>9, <1>10, <1>11, <1>12, <1>13, <1>14, <1>15, <1>16, <1>17, <1>18, <1>19, <1>20, <1>21, <1>22 DEF Next, Step

(* Nobody new starts for the take unless the value is what he waits on.    *)
LEMMA ComingShrinks ==
  IInv /\ [Next]_vars /\ value' = value => Coming' \subseteq Coming
<1>a. SUFFICES ASSUME IInv, [Next]_vars, value' = value PROVE Coming' \subseteq Coming
  OBVIOUS
<1>b. ValueTypes /\ CallTypes /\ Placed
  BY <1>a DEF IInv, TypeOK, Shape
<1>1. ASSUME NEW t \in Tasks, EnsureLoad(t) PROVE Coming' \subseteq Coming
  BY <1>1, <1>a, <1>b, Bounds DEF EnsureLoad, AfterEnsure, Goto, object, kernel, history, Coming, Wakeable, CallTypes, Tasks, Placed, WaiterPlaces, NotifierPlaces, Table
<1>2. ASSUME NEW t \in Tasks, Create(t) PROVE Coming' \subseteq Coming
  BY <1>2, <1>a, <1>b, Bounds DEF Create, AfterEnsure, CreateSemaphore, Goto, object, kernel, history, Coming, Wakeable, CallTypes, Tasks, Placed, WaiterPlaces, NotifierPlaces, Table
<1>3. ASSUME NEW t \in Waiters, Loop(t) PROVE Coming' \subseteq Coming
  BY <1>3, <1>a, <1>b, Bounds DEF Loop, Goto, object, kernel, history, Coming, Wakeable, CallTypes, Tasks, Placed, WaiterPlaces, NotifierPlaces, Table
<1>4. ASSUME NEW t \in Waiters, Enter(t) PROVE Coming' \subseteq Coming
  BY <1>4, <1>a, <1>b, Bounds DEF Enter, Goto, object, kernel, history, Coming, Wakeable, CallTypes, Tasks, Placed, WaiterPlaces, NotifierPlaces, Table
<1>5. ASSUME NEW t \in Waiters, Match(t) PROVE Coming' \subseteq Coming
  <2>1. kind # "flag" /\ kind' = kind /\ old' = old
    BY <1>5, <1>b DEF Match, object, Placed, WaiterPlaces, Table
  <2>2. SUFFICES ASSUME NEW w \in Coming' PROVE w \in Coming
    OBVIOUS
  <2>3. w \in Waiters /\ old[w] # value /\ Wakeable(w) /\ old[w] = 0
    BY <2>1, <2>2, <1>a DEF Coming, Wakeable
  <2>4. CASE w = t
    BY <1>5, <1>b, <2>2, <2>3, <2>4 DEF Match, Goto, Coming, CallTypes, Tasks
  <2>5. CASE w # t
    BY <1>5, <1>b, <2>2, <2>3, <2>5 DEF Match, Goto, Coming, CallTypes, Tasks
  <2>6. QED BY <2>4, <2>5
<1>6. ASSUME NEW t \in Waiters, NullCheck(t) PROVE Coming' \subseteq Coming
  BY <1>6, <1>a, <1>b, Bounds DEF NullCheck, Goto, object, kernel, history, Coming, Wakeable, CallTypes, Tasks, Placed, WaiterPlaces, NotifierPlaces, Table
<1>7. ASSUME NEW t \in Waiters, Make(t) PROVE Coming' \subseteq Coming
  BY <1>7, <1>a, <1>b, Bounds DEF Make, CreateSemaphore, Goto, object, kernel, history, Coming, Wakeable, CallTypes, Tasks, Placed, WaiterPlaces, NotifierPlaces, Table
<1>8. ASSUME NEW t \in Waiters, Fetch(t) PROVE Coming' \subseteq Coming
  BY <1>8, <1>a, <1>b, Bounds DEF Fetch, Goto, object, kernel, history, Coming, Wakeable, CallTypes, Tasks, Placed, WaiterPlaces, NotifierPlaces, Table
<1>9. ASSUME NEW t \in Waiters, Take(t) PROVE Coming' \subseteq Coming
  BY <1>9, <1>a, <1>b, Bounds DEF Take, Taken, Goto, object, kernel, history, Coming, Wakeable, CallTypes, Tasks, Placed, WaiterPlaces, NotifierPlaces, Table
<1>10. ASSUME NEW t \in Waiters, Leave(t) PROVE Coming' \subseteq Coming
  BY <1>10, <1>a, <1>b, Bounds DEF Leave, Goto, object, kernel, history, Coming, Wakeable, CallTypes, Tasks, Placed, WaiterPlaces, NotifierPlaces, Table
<1>11. ASSUME NEW t \in Notifiers, Count(t) PROVE Coming' \subseteq Coming
  BY <1>11, <1>a, <1>b, Bounds DEF Count, Goto, object, kernel, history, Coming, Wakeable, CallTypes, Tasks, Placed, WaiterPlaces, NotifierPlaces, Table
<1>12. ASSUME NEW t \in Notifiers, GiveNext(t) PROVE Coming' \subseteq Coming
  BY <1>12, <1>a, <1>b, Bounds DEF GiveNext, Give, Filled, Goto, object, kernel, history, Coming, Wakeable, CallTypes, Tasks, Placed, WaiterPlaces, NotifierPlaces, Table
<1>13. ASSUME NEW t \in Notifiers, EndNotify(t) PROVE Coming' \subseteq Coming
  BY <1>13, <1>a, <1>b, Bounds DEF EndNotify, Goto, object, kernel, history, Coming, Wakeable, CallTypes, Tasks, Placed, WaiterPlaces, NotifierPlaces, Table
<1>14. ASSUME NEW t \in Notifiers, GiveTable(t) PROVE Coming' \subseteq Coming
  BY <1>14, <1>a, <1>b, Bounds DEF GiveTable, Give, Filled, Goto, object, kernel, history, Coming, Wakeable, CallTypes, Tasks, Placed, WaiterPlaces, NotifierPlaces, Table
<1>15. ASSUME NEW t \in Waiters, NEW o \in {0, 1}, Wait(t, o) PROVE Coming' \subseteq Coming
  BY <1>15, <1>a, <1>b, Bounds DEF Wait, Goto, object, kernel, history, Coming, Wakeable, CallTypes, Tasks, Placed, WaiterPlaces, NotifierPlaces, Table
<1>16. ASSUME NEW t \in Notifiers, NEW all \in BOOLEAN, NotifyFlag(t, all) PROVE Coming' \subseteq Coming
  BY <1>16, <1>a, <1>b, Bounds DEF NotifyFlag, Goto, object, kernel, history, Coming, Wakeable, CallTypes, Tasks, Placed, WaiterPlaces, NotifierPlaces, Table
<1>17. ASSUME NEW t \in Notifiers, NEW all \in BOOLEAN, NotifyTable(t, all) PROVE Coming' \subseteq Coming
  BY <1>17, <1>a, <1>b, Bounds DEF NotifyTable, Goto, object, kernel, history, Coming, Wakeable, CallTypes, Tasks, Placed, WaiterPlaces, NotifierPlaces, Table
<1>18. ASSUME NEW all \in BOOLEAN, NotifyFlagIsr(all) PROVE Coming' \subseteq Coming
  BY <1>18, <1>a, <1>b, Bounds DEF NotifyFlagIsr, Give, Filled, Goto, object, kernel, history, Coming, Wakeable, CallTypes, Tasks, Placed, WaiterPlaces, NotifierPlaces, Table
<1>19. ASSUME NEW all \in BOOLEAN, NotifyTableIsr(all) PROVE Coming' \subseteq Coming
  BY <1>19, <1>a, <1>b, Bounds DEF NotifyTableIsr, Give, Filled, Goto, object, kernel, history, Coming, Wakeable, CallTypes, Tasks, Placed, WaiterPlaces, NotifierPlaces, Table
<1>20. ASSUME Change PROVE Coming' \subseteq Coming
  BY <1>20, <1>a, <1>b DEF Change, ValueTypes
<1>21. ASSUME Destroy PROVE Coming' \subseteq Coming
  BY <1>21, <1>b DEF Destroy, Coming, Tasks
<1>22. ASSUME UNCHANGED vars PROVE Coming' \subseteq Coming
  BY <1>22, <1>a, <1>b, Bounds DEF vars, Goto, object, kernel, history, Coming, Wakeable, CallTypes, Tasks, Placed, WaiterPlaces, NotifierPlaces, Table
<1>23. QED
  BY <1>a, <1>1, <1>2, <1>3, <1>4, <1>5, <1>6, <1>7, <1>8, <1>9, <1>10, <1>11, <1>12, <1>13, <1>14, <1>15, <1>16, <1>17, <1>18, <1>19, <1>20, <1>21, <1>22 DEF Next, Step

(* A waiter that takes a token for a value that has changed leaves the     *)
(* others with theirs.                                                     *)
LEMMA TakeCounts ==
  ASSUME IInv, NEW t \in Waiters, Take(t), tokens' # tokens, old[t] # value, sem # None
  PROVE /\ Cardinality(Coming') \in Nat
        /\ tokens[sem] >= Cardinality(Coming) => tokens'[sem] >= Cardinality(Coming')
        /\ ~Table => /\ tokens'[sem] = tokens[sem] - 1
                     /\ Cardinality(Coming') = Cardinality(Coming) - 1
<1>b. ValueTypes /\ KernelTypes /\ CallTypes /\ Placed /\ Held
  BY DEF IInv, TypeOK, Shape
<1>d. Coming \subseteq Waiters
  BY DEF Coming
<1>1. hold[t] \in Sems /\ tokens[hold[t]] \in 1..Capacity /\ pc[t] = "take"
  BY <1>b DEF Take, Held, KernelTypes, Capacity
<1>2. tokens'[hold[t]] = tokens[hold[t]] - 1
  BY <1>b, <1>1 DEF Take, Taken, KernelTypes
<1>3. kind' = kind /\ value' = value /\ old' = old /\ sem' = sem
  BY DEF Take, object
<1>4. CASE Wakeable(t)
  <2>1. hold[t] = sem
    BY <1>b, <1>1, <1>4 DEF Held, Wakeable
  <2>2. t \in Coming
    BY <1>1, <1>4 DEF Coming
  <2>3. Coming' = Coming \ {t}
    BY <1>b, <1>1, <1>3 DEF Take, Goto, Coming, Wakeable, CallTypes, Tasks
  <2>4. Cardinality(Coming') = Cardinality(Coming) - 1
    BY <1>d, <2>2, <2>3, OneLess
  <2>5. Coming' \subseteq Waiters
    BY DEF Coming
  <2>6. Cardinality(Coming) \in Nat /\ Cardinality(Coming') \in Nat
    BY <1>d, <2>5, WaiterSets
  <2>7. tokens[sem] \in Int /\ tokens'[sem] = tokens[sem] - 1
    BY <1>1, <1>2, <2>1, Bounds DEF Capacity
  <2>8. QED BY <2>4, <2>6, <2>7
<1>5. CASE ~Wakeable(t)
  <2>1. kind \in {"cold", "warm"} /\ Table
    BY <1>5, <1>b DEF Wakeable, ValueTypes, Table
  <2>2. kind = "warm" => value = 0
    BY <1>5, <1>b DEF Wakeable, ValueTypes, CallTypes
  <2>3. Coming' = {}
    BY <2>1, <2>2, <1>3 DEF Coming, Wakeable
  <2>4. Cardinality(Coming') = 0
    BY <2>3, NoMembers
  <2>5. tokens' \in [Sems -> Int] /\ \A s \in Sems : tokens'[s] >= 0
    BY <1>b, <1>1, <1>2, Bounds DEF Take, KernelTypes, Capacity
  <2>6. sem \in Sems
    BY <1>b DEF KernelTypes
  <2>7. QED BY <2>1, <2>4, <2>5, <2>6
<1>6. QED BY <1>4, <1>5

LEMMA EnoughKept == IInv /\ [Next]_vars => Enough'
<1>a. SUFFICES ASSUME IInv, [Next]_vars PROVE Enough'
  OBVIOUS
<1>b. ValueTypes /\ KernelTypes /\ CallTypes /\ Placed /\ Created /\ Needed /\ Held
  BY <1>a DEF IInv, TypeOK, Shape
<1>c. ValueTypes' /\ KernelTypes' /\ CallTypes' /\ Placed' /\ Created' /\ Needed'
  BY <1>a, ShapeKept DEF TypeOK, Shape
<1>d. Coming \subseteq Waiters /\ Coming' \subseteq Waiters
  BY DEF Coming
<1>e. /\ Cardinality(Coming) \in Nat /\ Cardinality(Coming) <= MaxWaiters
      /\ Cardinality(Coming') \in Nat /\ Cardinality(Coming') <= MaxWaiters
  BY <1>d, WaiterSets
<1>f. ASSUME value' = value PROVE Cardinality(Coming') <= Cardinality(Coming)
  BY <1>a, <1>d, <1>f, ComingShrinks, Fewer
<1>g. ASSUME sem = None PROVE Cardinality(Coming) = 0
  BY <1>b, <1>g, NobodyComing, NoMembers
<1>h. Enough /\ Promised
  BY <1>a DEF IInv
<1>1. ASSUME NEW t \in Tasks, EnsureLoad(t) PROVE Enough'
  <2>1. value' = value /\ sem' = sem /\ tokens' = tokens /\ told' = told
    BY <1>1 DEF EnsureLoad, AfterEnsure, object, kernel, history
  <2>2. QED BY <1>b, <1>e, <1>f, <1>h, <2>1, Bounds DEF Enough, KernelTypes, Capacity
<1>2. ASSUME NEW t \in Tasks, Create(t) PROVE Enough'
  <2>1. value' = value /\ tokens' = tokens /\ told' = told
    BY <1>2 DEF Create, object, history
  <2>2. CASE sem' = sem
    BY <1>b, <1>e, <1>f, <1>h, <2>1, <2>2, Bounds DEF Enough, KernelTypes, Capacity
  <2>3. CASE sem' # sem
    <3>1. sem = None
      BY <1>2, <2>3 DEF Create
    <3>2. Cardinality(Coming') = 0
      BY <1>e, <1>f, <1>g, <2>1, <3>1
    <3>3. QED BY <1>c, <3>2, Bounds DEF Enough, KernelTypes, Capacity
  <2>4. QED BY <2>2, <2>3
<1>3. ASSUME NEW t \in Waiters, Loop(t) PROVE Enough'
  <2>1. value' = value /\ sem' = sem /\ tokens' = tokens /\ told' = told
    BY <1>3 DEF Loop, object, kernel, history
  <2>2. QED BY <1>b, <1>e, <1>f, <1>h, <2>1, Bounds DEF Enough, KernelTypes, Capacity
<1>4. ASSUME NEW t \in Waiters, Enter(t) PROVE Enough'
  <2>1. value' = value /\ sem' = sem /\ tokens' = tokens /\ told' = told
    BY <1>4 DEF Enter, object, kernel, history
  <2>2. QED BY <1>b, <1>e, <1>f, <1>h, <2>1, Bounds DEF Enough, KernelTypes, Capacity
<1>5. ASSUME NEW t \in Waiters, Match(t) PROVE Enough'
  <2>1. value' = value /\ sem' = sem /\ tokens' = tokens /\ told' = told
    BY <1>5 DEF Match, object, kernel, history
  <2>2. QED BY <1>b, <1>e, <1>f, <1>h, <2>1, Bounds DEF Enough, KernelTypes, Capacity
<1>6. ASSUME NEW t \in Waiters, NullCheck(t) PROVE Enough'
  <2>1. value' = value /\ sem' = sem /\ tokens' = tokens /\ told' = told
    BY <1>6 DEF NullCheck, object, kernel, history
  <2>2. QED BY <1>b, <1>e, <1>f, <1>h, <2>1, Bounds DEF Enough, KernelTypes, Capacity
<1>7. ASSUME NEW t \in Waiters, Make(t) PROVE Enough'
  <2>1. kind' = "cold"
    BY <1>7, <1>b DEF Make, object, Placed, Needed, ValueTypes, WaiterPlaces, Table
  <2>2. Cardinality(Coming') = 0
    BY <2>1, NoMembers DEF Coming, Wakeable
  <2>3. QED BY <1>c, <2>2, Bounds DEF Enough, KernelTypes, Capacity
<1>8. ASSUME NEW t \in Waiters, Fetch(t) PROVE Enough'
  <2>1. value' = value /\ sem' = sem /\ tokens' = tokens /\ told' = told
    BY <1>8 DEF Fetch, object, kernel, history
  <2>2. QED BY <1>b, <1>e, <1>f, <1>h, <2>1, Bounds DEF Enough, KernelTypes, Capacity
<1>9. ASSUME NEW t \in Waiters, Take(t) PROVE Enough'
  <2>1. value' = value /\ sem' = sem
    BY <1>9 DEF Take, object
  <2>2. CASE tokens' = tokens
    <3>1. told' = told
      BY <1>9, <2>2 DEF Take, history
    <3>2. QED BY <1>b, <1>e, <1>f, <1>h, <2>1, <2>2, <3>1, Bounds DEF Enough, KernelTypes, Capacity
  <2>3. CASE tokens' # tokens /\ value = old[t]
    BY <1>9, <2>3 DEF Take, Enough
  <2>4. CASE tokens' # tokens /\ value # old[t]
    <3>1. told' = told
      BY <1>9, <2>4 DEF Take, history
    <3>2. QED BY <1>a, <1>9, <1>h, <2>1, <2>4, <3>1, TakeCounts DEF Enough
  <2>5. QED BY <2>2, <2>3, <2>4
<1>10. ASSUME NEW t \in Waiters, Leave(t) PROVE Enough'
  <2>1. value' = value /\ sem' = sem /\ tokens' = tokens /\ told' = told
    BY <1>10 DEF Leave, object, kernel, history
  <2>2. QED BY <1>b, <1>e, <1>f, <1>h, <2>1, Bounds DEF Enough, KernelTypes, Capacity
<1>11. ASSUME NEW t \in Notifiers, Count(t) PROVE Enough'
  <2>1. value' = value /\ sem' = sem /\ tokens' = tokens /\ told' = told
    BY <1>11 DEF Count, object, kernel, history
  <2>2. QED BY <1>b, <1>e, <1>f, <1>h, <2>1, Bounds DEF Enough, KernelTypes, Capacity
<1>12. ASSUME NEW t \in Notifiers, GiveNext(t) PROVE Enough'
  <2>1. value' = value /\ sem' = sem /\ told' = told
    BY <1>12 DEF GiveNext, object, history
  <2>2. sem # None => tokens'[sem] >= tokens[sem]
    BY <1>12, <1>b, Bounds DEF GiveNext, Give, Filled, KernelTypes, Capacity
  <2>3. QED BY <1>b, <1>c, <1>e, <1>f, <1>h, <2>1, <2>2, Bounds DEF Enough, KernelTypes, Capacity
<1>13. ASSUME NEW t \in Notifiers, EndNotify(t) PROVE Enough'
  <2>1. value' = value /\ sem' = sem /\ tokens' = tokens /\ ~Table
    BY <1>13 DEF EndNotify, object, kernel
  <2>2. pc[t] = "give" /\ left[t] = 0 /\ (told' => told \/ t \in fresh)
    BY <1>13 DEF EndNotify
  <2>3. t \in fresh => tokens[sem] + left[t] >= Cardinality(Coming)
    BY <1>h, <2>1, <2>2 DEF Promised
  <2>4. SUFFICES ASSUME told', sem # None PROVE tokens[sem] >= Cardinality(Coming')
    BY <2>1 DEF Enough
  <2>5. tokens[sem] \in Nat
    BY <1>b, <2>4, Bounds DEF KernelTypes, Capacity
  <2>6. tokens[sem] >= Cardinality(Coming)
    BY <1>h, <2>2, <2>3, <2>4, <2>5 DEF Enough
  <2>7. QED BY <1>e, <1>f, <2>1, <2>5, <2>6
<1>14. ASSUME NEW t \in Notifiers, GiveTable(t) PROVE Enough'
  <2>1. value' = value /\ sem' = sem /\ Table /\ pc[t] = "give"
    BY <1>14 DEF GiveTable, object
  <2>2. sem \in Sems /\ left[t] \in 0..Many /\ tokens[sem] \in 0..Many
    BY <1>b, <1>14, <2>1 DEF KernelTypes, CallTypes, Needed, Capacity
  <2>3. tokens'[sem] = Filled(tokens[sem], left[t])
    BY <1>14, <1>b, <2>2 DEF GiveTable, Give, KernelTypes
  <2>4. tokens'[sem] >= tokens[sem]
    BY <2>1, <2>2, <2>3, Bounds DEF Filled, Capacity
  <2>5. t \in fresh => tokens'[sem] >= MaxWaiters
    <3>1. t \in fresh => left[t] = Many
      BY <1>h, <2>1 DEF Promised
    <3>2. QED BY <2>1, <2>2, <2>3, <3>1, Bounds DEF Filled, Capacity
  <2>6. told' => told \/ t \in fresh
    BY <1>14 DEF GiveTable, history
  <2>7. tokens'[sem] \in Nat
    BY <1>c, <2>1, <2>2, Bounds DEF KernelTypes, Capacity
  <2>8. QED BY <1>e, <1>f, <1>h, <2>1, <2>2, <2>4, <2>5, <2>6, <2>7, Bounds DEF Enough
<1>15. ASSUME NEW t \in Waiters, NEW o \in {0, 1}, Wait(t, o) PROVE Enough'
  <2>1. value' = value /\ sem' = sem /\ tokens' = tokens /\ told' = told
    BY <1>15 DEF Wait, object, kernel, history
  <2>2. QED BY <1>b, <1>e, <1>f, <1>h, <2>1, Bounds DEF Enough, KernelTypes, Capacity
<1>16. ASSUME NEW t \in Notifiers, NEW all \in BOOLEAN, NotifyFlag(t, all) PROVE Enough'
  <2>1. value' = value /\ sem' = sem /\ tokens' = tokens /\ told' = told
    BY <1>16 DEF NotifyFlag, object, kernel, history
  <2>2. QED BY <1>b, <1>e, <1>f, <1>h, <2>1, Bounds DEF Enough, KernelTypes, Capacity
<1>17. ASSUME NEW t \in Notifiers, NEW all \in BOOLEAN, NotifyTable(t, all) PROVE Enough'
  <2>1. value' = value /\ sem' = sem /\ tokens' = tokens /\ Table
    BY <1>17 DEF NotifyTable, object, kernel
  <2>2. CASE told' = told
    BY <1>b, <1>e, <1>f, <1>h, <2>1, <2>2, Bounds DEF Enough, KernelTypes, Capacity
  <2>3. CASE told' # told
    <3>1. count = 0 \/ sem = None
      BY <1>17, <2>3 DEF NotifyTable
    <3>2. Cardinality(Coming) = 0
      <4>1. CASE count = 0
        <5>1. Cardinality(Inside) = 0
          BY <1>a, <2>1, <4>1 DEF IInv, Counted
        <5>2. Inside \subseteq Waiters /\ Coming \subseteq Inside
          BY DEF Inside, Coming
        <5>3. QED BY <1>e, <5>1, <5>2, Fewer
      <4>2. QED BY <3>1, <4>1, <1>g
    <3>3. Cardinality(Coming') = 0
      BY <1>e, <1>f, <2>1, <3>2
    <3>4. QED BY <1>c, <3>3, Bounds DEF Enough, KernelTypes, Capacity
  <2>4. QED BY <2>2, <2>3
<1>18. ASSUME NEW all \in BOOLEAN, NotifyFlagIsr(all) PROVE Enough'
  <2>1. value' = value /\ sem' = sem /\ ~Table
    BY <1>18 DEF NotifyFlagIsr, object
  <2>2. SUFFICES ASSUME told', sem # None PROVE tokens'[sem] >= Cardinality(Coming')
    BY <2>1 DEF Enough
  <2>3. sem \in Sems /\ tokens[sem] \in 0..MaxWaiters
    BY <1>b, <2>1, <2>2 DEF KernelTypes, Capacity
  <2>4. tokens'[sem] = Filled(tokens[sem], IF all THEN MaxWaiters - tokens[sem] ELSE 1)
    BY <1>18, <1>b, <2>3, <2>2 DEF NotifyFlagIsr, Give, KernelTypes
  <2>5. CASE all
    <3>1. tokens'[sem] = MaxWaiters
      BY <2>1, <2>3, <2>4, <2>5, Bounds DEF Filled, Capacity
    <3>2. QED BY <1>e, <3>1
  <2>6. CASE ~all
    <3>1. told
      BY <1>18, <2>2, <2>6 DEF NotifyFlagIsr
    <3>2. tokens'[sem] >= tokens[sem] /\ tokens'[sem] \in Nat
      BY <2>1, <2>3, <2>4, <2>6, Bounds DEF Filled, Capacity
    <3>3. QED BY <1>e, <1>f, <1>h, <2>1, <2>2, <2>3, <3>1, <3>2 DEF Enough
  <2>7. QED BY <2>5, <2>6
<1>19. ASSUME NEW all \in BOOLEAN, NotifyTableIsr(all) PROVE Enough'
  <2>1. value' = value /\ sem' = sem /\ Table /\ sem \in Sems /\ sem # None
    BY <1>19, <1>b DEF NotifyTableIsr, object, KernelTypes
  <2>2. tokens[sem] \in 0..Many
    BY <1>b, <2>1 DEF KernelTypes, Capacity
  <2>3. tokens'[sem] = Filled(tokens[sem], IF all THEN count ELSE 1)
    BY <1>19, <1>b, <2>1 DEF NotifyTableIsr, Give, KernelTypes
  <2>4. count \in Nat /\ count >= Cardinality(Coming)
    <3>1. Inside \subseteq Waiters /\ Coming \subseteq Inside
      BY DEF Inside, Coming
    <3>2. count = Cardinality(Inside)
      BY <1>a, <2>1 DEF IInv, Counted
    <3>3. QED BY <3>1, <3>2, Fewer, WaiterSets
  <2>5. CASE all
    <3>1. tokens'[sem] \in Nat /\ (tokens'[sem] >= count \/ tokens'[sem] >= MaxWaiters)
      BY <2>1, <2>2, <2>3, <2>4, <2>5, Bounds DEF Filled, Capacity
    <3>2. QED BY <1>e, <1>f, <2>1, <2>4, <3>1, Bounds DEF Enough
  <2>6. CASE ~all
    <3>1. told' => told
      BY <1>19, <2>6 DEF NotifyTableIsr
    <3>2. tokens'[sem] >= tokens[sem] /\ tokens'[sem] \in Nat
      BY <2>1, <2>2, <2>3, <2>6, Bounds DEF Filled, Capacity
    <3>3. QED BY <1>e, <1>f, <1>h, <2>1, <2>2, <3>1, <3>2 DEF Enough
  <2>7. QED BY <2>5, <2>6
<1>20. ASSUME Change PROVE Enough'
  BY <1>20 DEF Change, Enough
<1>21. ASSUME Destroy PROVE Enough'
  BY <1>21 DEF Destroy, Enough
<1>22. ASSUME UNCHANGED vars PROVE Enough'
  <2>1. value' = value /\ sem' = sem /\ tokens' = tokens /\ told' = told
    BY <1>22 DEF vars, object, kernel, history
  <2>2. QED BY <1>b, <1>e, <1>f, <1>h, <2>1, Bounds DEF Enough, KernelTypes, Capacity
<1>23. QED
  BY <1>a, <1>1, <1>2, <1>3, <1>4, <1>5, <1>6, <1>7, <1>8, <1>9, <1>10, <1>11, <1>12, <1>13, <1>14, <1>15, <1>16, <1>17, <1>18, <1>19, <1>20, <1>21, <1>22 DEF Next, Step

LEMMA PromisedKept == IInv /\ [Next]_vars => Promised'
<1>a. SUFFICES ASSUME IInv, [Next]_vars PROVE Promised'
  OBVIOUS
<1>b. ValueTypes /\ KernelTypes /\ CallTypes /\ Placed /\ Created /\ Needed /\ Held
  BY <1>a DEF IInv, TypeOK, Shape, Table
<1>c. ValueTypes' /\ KernelTypes' /\ CallTypes' /\ Placed' /\ Created' /\ Needed'
  BY <1>a, ShapeKept DEF TypeOK, Shape, Table
<1>d. Coming \subseteq Waiters /\ Coming' \subseteq Waiters
  BY DEF Coming, Table
<1>e. /\ Cardinality(Coming) \in Nat /\ Cardinality(Coming) <= MaxWaiters
      /\ Cardinality(Coming') \in Nat /\ Cardinality(Coming') <= MaxWaiters
  BY <1>d, WaiterSets
<1>f. ASSUME value' = value PROVE Cardinality(Coming') <= Cardinality(Coming)
  BY <1>a, <1>d, <1>f, ComingShrinks, Fewer
<1>g. ASSUME sem = None PROVE Cardinality(Coming) = 0
  BY <1>b, <1>g, NobodyComing, NoMembers
<1>h. Enough /\ Promised
  BY <1>a DEF IInv, Table
<1>i. ASSUME fresh' \subseteq fresh, value' = value, sem' = sem, tokens' = tokens,
             left' = left, kind' = kind,
             \A u \in fresh' : pc'[u] = pc[u]
      PROVE Promised'
  <2>1. SUFFICES ASSUME NEW u \in fresh'
                 PROVE /\ kind' = "flag" /\ pc'[u] = "give" => tokens'[sem'] + left'[u] >= Cardinality(Coming')
                       /\ kind' = "flag" /\ pc'[u] \in {"ensure", "create", "count"} => left'[u] = 0
                       /\ kind' # "flag" /\ pc'[u] = "give" => left'[u] = Many
    BY DEF Promised, Table
  <2>2. u \in fresh /\ u \in Notifiers /\ kind' = kind
    BY <1>b, <1>i, <2>1 DEF ValueTypes, Table
  <2>3. kind = "flag" /\ pc[u] = "give" => sem \in Sems /\ tokens[sem] \in Nat /\ left[u] \in Nat
    BY <1>b, <2>2, Bounds DEF Needed, KernelTypes, CallTypes, Capacity, Table
  <2>4. QED BY <1>e, <1>f, <1>h, <1>i, <2>1, <2>2, <2>3 DEF Promised, Table
<1>1. ASSUME NEW t \in Tasks, EnsureLoad(t) PROVE Promised'
  <2>1. SUFFICES ASSUME NEW u \in fresh'
                 PROVE /\ kind' = "flag" /\ pc'[u] = "give" => tokens'[sem'] + left'[u] >= Cardinality(Coming')
                       /\ kind' = "flag" /\ pc'[u] \in {"ensure", "create", "count"} => left'[u] = 0
                       /\ kind' # "flag" /\ pc'[u] = "give" => left'[u] = Many
    BY DEF Promised, Table
  <2>2. u \in Notifiers /\ u \in Tasks /\ kind' = kind /\ value' = value
    BY <1>1, <1>c DEF EnsureLoad, AfterEnsure, object, history, ValueTypes, Table, Tasks
  <2>3. kind = "flag" /\ pc[u] = "give" => sem \in Sems /\ tokens[sem] \in 0..MaxWaiters /\ left[u] \in Nat
    BY <1>b, <2>2, Bounds DEF Needed, KernelTypes, CallTypes, Capacity, Table
  <2>4. u \in fresh => /\ kind = "flag" /\ pc[u] = "give" => tokens[sem] + left[u] >= Cardinality(Coming)
                       /\ kind = "flag" /\ pc[u] \in {"ensure", "create", "count"} => left[u] = 0
                       /\ kind # "flag" /\ pc[u] = "give" => left[u] = Many
    BY <1>h DEF Promised, Table
  <2>5. u \in fresh /\ sem' = sem /\ tokens' = tokens /\ left' = left
    BY <1>1, <2>1 DEF EnsureLoad, history, kernel, Table
  <2>6. pc'[u] = pc[u] \/ (u = t /\ pc[u] = "ensure" /\ pc'[u] \in {"create", "count"})
    BY <1>1, <1>b, <2>2, Bounds DEF EnsureLoad, AfterEnsure, Goto, CallTypes, Table
  <2>7. QED BY <1>e, <1>f, <2>2, <2>3, <2>4, <2>5, <2>6
<1>2. ASSUME NEW t \in Tasks, Create(t) PROVE Promised'
  <2>1. SUFFICES ASSUME NEW u \in fresh'
                 PROVE /\ kind' = "flag" /\ pc'[u] = "give" => tokens'[sem'] + left'[u] >= Cardinality(Coming')
                       /\ kind' = "flag" /\ pc'[u] \in {"ensure", "create", "count"} => left'[u] = 0
                       /\ kind' # "flag" /\ pc'[u] = "give" => left'[u] = Many
    BY DEF Promised, Table
  <2>2. u \in Notifiers /\ u \in Tasks /\ kind' = kind /\ value' = value
    BY <1>2, <1>c DEF Create, AfterEnsure, CreateSemaphore, object, history, ValueTypes, Table, Tasks
  <2>3. kind = "flag" /\ pc[u] = "give" => sem \in Sems /\ tokens[sem] \in 0..MaxWaiters /\ left[u] \in Nat
    BY <1>b, <2>2, Bounds DEF Needed, KernelTypes, CallTypes, Capacity, Table
  <2>4. u \in fresh => /\ kind = "flag" /\ pc[u] = "give" => tokens[sem] + left[u] >= Cardinality(Coming)
                       /\ kind = "flag" /\ pc[u] \in {"ensure", "create", "count"} => left[u] = 0
                       /\ kind # "flag" /\ pc[u] = "give" => left[u] = Many
    BY <1>h DEF Promised, Table
  <2>5. u \in fresh /\ tokens' = tokens /\ left' = left /\ (sem' = sem \/ sem = None)
    BY <1>2, <2>1 DEF Create, history, Table
  <2>6. pc'[u] = pc[u] \/ (u = t /\ pc[u] = "create" /\ pc'[u] \in {"count", "idle"})
    BY <1>2, <1>b, <2>2, Bounds DEF Create, AfterEnsure, Goto, CallTypes, Table
  <2>7. pc[u] = "give" => sem # None
    BY <1>b, <2>2 DEF Needed, Table
  <2>8. QED BY <1>e, <1>f, <2>2, <2>3, <2>4, <2>5, <2>6, <2>7
<1>3. ASSUME NEW t \in Waiters, Loop(t) PROVE Promised'
  BY <1>3, <1>b, <1>i, Bounds DEF Loop, object, kernel, history, Goto, CallTypes, Tasks, ValueTypes, Table
<1>4. ASSUME NEW t \in Waiters, Enter(t) PROVE Promised'
  BY <1>4, <1>b, <1>i, Bounds DEF Enter, object, kernel, history, Goto, CallTypes, Tasks, ValueTypes, Table
<1>5. ASSUME NEW t \in Waiters, Match(t) PROVE Promised'
  BY <1>5, <1>b, <1>i, Bounds DEF Match, object, kernel, history, Goto, CallTypes, Tasks, ValueTypes, Table
<1>6. ASSUME NEW t \in Waiters, NullCheck(t) PROVE Promised'
  BY <1>6, <1>b, <1>i, Bounds DEF NullCheck, object, kernel, history, Goto, CallTypes, Tasks, ValueTypes, Table
<1>7. ASSUME NEW t \in Waiters, Make(t) PROVE Promised'
  <2>1. SUFFICES ASSUME NEW u \in fresh'
                 PROVE /\ kind' = "flag" /\ pc'[u] = "give" => tokens'[sem'] + left'[u] >= Cardinality(Coming')
                       /\ kind' = "flag" /\ pc'[u] \in {"ensure", "create", "count"} => left'[u] = 0
                       /\ kind' # "flag" /\ pc'[u] = "give" => left'[u] = Many
    BY DEF Promised, Table
  <2>2. u \in Notifiers /\ u \in Tasks /\ kind' = kind /\ value' = value
    BY <1>7, <1>c DEF Make, CreateSemaphore, object, history, ValueTypes, Table, Tasks
  <2>3. kind = "flag" /\ pc[u] = "give" => sem \in Sems /\ tokens[sem] \in 0..MaxWaiters /\ left[u] \in Nat
    BY <1>b, <2>2, Bounds DEF Needed, KernelTypes, CallTypes, Capacity, Table
  <2>4. u \in fresh => /\ kind = "flag" /\ pc[u] = "give" => tokens[sem] + left[u] >= Cardinality(Coming)
                       /\ kind = "flag" /\ pc[u] \in {"ensure", "create", "count"} => left[u] = 0
                       /\ kind # "flag" /\ pc[u] = "give" => left[u] = Many
    BY <1>h DEF Promised, Table
  <2>5. kind # "flag" /\ u \in fresh /\ left' = left /\ pc'[u] = pc[u]
    BY <1>7, <1>b, <2>1, <2>2, Bounds DEF Make, history, Goto, CallTypes, Placed, WaiterPlaces, Table
  <2>6. QED BY <2>2, <2>4, <2>5
<1>8. ASSUME NEW t \in Waiters, Fetch(t) PROVE Promised'
  BY <1>8, <1>b, <1>i, Bounds DEF Fetch, object, kernel, history, Goto, CallTypes, Tasks, ValueTypes, Table
<1>9. ASSUME NEW t \in Waiters, Take(t) PROVE Promised'
  <2>1. SUFFICES ASSUME NEW u \in fresh'
                 PROVE /\ kind' = "flag" /\ pc'[u] = "give" => tokens'[sem'] + left'[u] >= Cardinality(Coming')
                       /\ kind' = "flag" /\ pc'[u] \in {"ensure", "create", "count"} => left'[u] = 0
                       /\ kind' # "flag" /\ pc'[u] = "give" => left'[u] = Many
    BY DEF Promised, Table
  <2>2. u \in Notifiers /\ u \in Tasks /\ kind' = kind /\ value' = value
    BY <1>9, <1>c DEF Take, Taken, object, history, ValueTypes, Table, Tasks
  <2>3. kind = "flag" /\ pc[u] = "give" => sem \in Sems /\ tokens[sem] \in 0..MaxWaiters /\ left[u] \in Nat
    BY <1>b, <2>2, Bounds DEF Needed, KernelTypes, CallTypes, Capacity, Table
  <2>4. u \in fresh => /\ kind = "flag" /\ pc[u] = "give" => tokens[sem] + left[u] >= Cardinality(Coming)
                       /\ kind = "flag" /\ pc[u] \in {"ensure", "create", "count"} => left[u] = 0
                       /\ kind # "flag" /\ pc[u] = "give" => left[u] = Many
    BY <1>h DEF Promised, Table
  <2>5. u \in fresh /\ left' = left /\ sem' = sem /\ u # t
    BY <1>9, <2>1, <2>2, Bounds DEF Take, history, Table
  <2>6. pc'[u] = pc[u]
    BY <1>9, <1>b, <2>2, <2>5 DEF Take, Goto, CallTypes, Table
  <2>7. CASE kind # "flag" \/ pc[u] # "give"
    BY <2>2, <2>4, <2>5, <2>6, <2>7
  <2>8. CASE kind = "flag" /\ pc[u] = "give" /\ tokens' = tokens
    BY <1>e, <1>f, <2>2, <2>3, <2>4, <2>5, <2>6, <2>8
  <2>9. CASE kind = "flag" /\ pc[u] = "give" /\ tokens' # tokens
    <3>1. old[t] # value
      BY <1>9, <2>1, <2>9 DEF Take, Table
    <3>2. sem # None
      BY <1>b, <2>2, <2>9 DEF Needed, Table
    <3>3. tokens'[sem] = tokens[sem] - 1 /\ Cardinality(Coming') = Cardinality(Coming) - 1
      BY <1>a, <1>9, <2>9, <3>1, <3>2, TakeCounts DEF Table
    <3>4. QED BY <1>e, <2>2, <2>3, <2>4, <2>5, <2>6, <2>9, <3>3
  <2>10. QED BY <2>7, <2>8, <2>9
<1>10. ASSUME NEW t \in Waiters, Leave(t) PROVE Promised'
  BY <1>10, <1>b, <1>i, Bounds DEF Leave, object, kernel, history, Goto, CallTypes, Tasks, ValueTypes, Table
<1>11. ASSUME NEW t \in Notifiers, Count(t) PROVE Promised'
  <2>1. SUFFICES ASSUME NEW u \in fresh'
                 PROVE /\ kind' = "flag" /\ pc'[u] = "give" => tokens'[sem'] + left'[u] >= Cardinality(Coming')
                       /\ kind' = "flag" /\ pc'[u] \in {"ensure", "create", "count"} => left'[u] = 0
                       /\ kind' # "flag" /\ pc'[u] = "give" => left'[u] = Many
    BY DEF Promised, Table
  <2>2. u \in Notifiers /\ u \in Tasks /\ kind' = kind /\ value' = value
    BY <1>11, <1>c DEF Count, object, history, ValueTypes, Table, Tasks
  <2>3. kind = "flag" /\ pc[u] = "give" => sem \in Sems /\ tokens[sem] \in 0..MaxWaiters /\ left[u] \in Nat
    BY <1>b, <2>2, Bounds DEF Needed, KernelTypes, CallTypes, Capacity, Table
  <2>4. u \in fresh => /\ kind = "flag" /\ pc[u] = "give" => tokens[sem] + left[u] >= Cardinality(Coming)
                       /\ kind = "flag" /\ pc[u] \in {"ensure", "create", "count"} => left[u] = 0
                       /\ kind # "flag" /\ pc[u] = "give" => left[u] = Many
    BY <1>h DEF Promised, Table
  <2>5. u \in fresh /\ sem' = sem /\ tokens' = tokens /\ kind = "flag" /\ sem \in Sems
    BY <1>11, <1>b, <2>1 DEF Count, history, kernel, Placed, NotifierPlaces, Table, Needed, KernelTypes
  <2>6. CASE u = t
    <3>1. left[u] = 0
      BY <1>11, <2>4, <2>5, <2>6 DEF Count, Table
    <3>2. left'[u] = MaxWaiters - tokens[sem] /\ pc'[u] = "give"
      BY <1>11, <1>b, <2>2, <2>6, <3>1 DEF Count, Goto, CallTypes, Table
    <3>3. tokens[sem] \in 0..MaxWaiters
      BY <1>b, <2>5 DEF KernelTypes, Capacity, Table
    <3>4. QED BY <1>e, <2>2, <2>5, <3>2, <3>3, Bounds
  <2>7. CASE u # t
    <3>1. left'[u] = left[u] /\ pc'[u] = pc[u]
      BY <1>11, <1>b, <2>2, <2>7 DEF Count, Goto, CallTypes, Table
    <3>2. QED BY <1>e, <1>f, <2>2, <2>3, <2>4, <2>5, <3>1
  <2>8. QED BY <2>6, <2>7
<1>12. ASSUME NEW t \in Notifiers, GiveNext(t) PROVE Promised'
  <2>1. SUFFICES ASSUME NEW u \in fresh'
                 PROVE /\ kind' = "flag" /\ pc'[u] = "give" => tokens'[sem'] + left'[u] >= Cardinality(Coming')
                       /\ kind' = "flag" /\ pc'[u] \in {"ensure", "create", "count"} => left'[u] = 0
                       /\ kind' # "flag" /\ pc'[u] = "give" => left'[u] = Many
    BY DEF Promised, Table
  <2>2. u \in Notifiers /\ u \in Tasks /\ kind' = kind /\ value' = value
    BY <1>12, <1>c DEF GiveNext, Give, Filled, object, history, ValueTypes, Table, Tasks
  <2>3. kind = "flag" /\ pc[u] = "give" => sem \in Sems /\ tokens[sem] \in 0..MaxWaiters /\ left[u] \in Nat
    BY <1>b, <2>2, Bounds DEF Needed, KernelTypes, CallTypes, Capacity, Table
  <2>4. u \in fresh => /\ kind = "flag" /\ pc[u] = "give" => tokens[sem] + left[u] >= Cardinality(Coming)
                       /\ kind = "flag" /\ pc[u] \in {"ensure", "create", "count"} => left[u] = 0
                       /\ kind # "flag" /\ pc[u] = "give" => left[u] = Many
    BY <1>h DEF Promised, Table
  <2>5. u \in fresh /\ sem' = sem /\ pc' = pc /\ kind = "flag" /\ pc[t] = "give" /\ left[t] > 0
    BY <1>12, <2>1 DEF GiveNext, history, Table
  <2>6. sem \in Sems /\ tokens[sem] \in 0..MaxWaiters
    BY <1>b, <2>5 DEF Needed, KernelTypes, Capacity, Table
  <2>7. tokens'[sem] = IF tokens[sem] + 1 > MaxWaiters THEN MaxWaiters ELSE tokens[sem] + 1
    BY <1>12, <1>b, <2>5, <2>6 DEF GiveNext, Give, Filled, Capacity, KernelTypes, Table
  <2>8. left'[u] = left[u] \/ (u = t /\ left'[u] = left[u] - 1)
    BY <1>12, <1>b, <2>2 DEF GiveNext, CallTypes, Table
  <2>9. left[u] \in Nat /\ (u = t => left[u] > 0)
    BY <1>b, <2>2, <2>5, Bounds DEF CallTypes, Table
  <2>10. CASE tokens[sem] = MaxWaiters
    BY <1>e, <2>2, <2>4, <2>5, <2>6, <2>7, <2>8, <2>9, <2>10, Bounds
  <2>11. CASE tokens[sem] < MaxWaiters
    BY <1>e, <1>f, <2>2, <2>4, <2>5, <2>6, <2>7, <2>8, <2>9, <2>11, Bounds
  <2>12. QED BY <2>6, <2>10, <2>11, Bounds
<1>13. ASSUME NEW t \in Notifiers, EndNotify(t) PROVE Promised'
  <2>1. SUFFICES ASSUME NEW u \in fresh'
                 PROVE /\ kind' = "flag" /\ pc'[u] = "give" => tokens'[sem'] + left'[u] >= Cardinality(Coming')
                       /\ kind' = "flag" /\ pc'[u] \in {"ensure", "create", "count"} => left'[u] = 0
                       /\ kind' # "flag" /\ pc'[u] = "give" => left'[u] = Many
    BY DEF Promised, Table
  <2>2. u \in Notifiers /\ u \in Tasks /\ kind' = kind /\ value' = value
    BY <1>13, <1>c DEF EndNotify, object, history, ValueTypes, Table, Tasks
  <2>3. kind = "flag" /\ pc[u] = "give" => sem \in Sems /\ tokens[sem] \in 0..MaxWaiters /\ left[u] \in Nat
    BY <1>b, <2>2, Bounds DEF Needed, KernelTypes, CallTypes, Capacity, Table
  <2>4. u \in fresh => /\ kind = "flag" /\ pc[u] = "give" => tokens[sem] + left[u] >= Cardinality(Coming)
                       /\ kind = "flag" /\ pc[u] \in {"ensure", "create", "count"} => left[u] = 0
                       /\ kind # "flag" /\ pc[u] = "give" => left[u] = Many
    BY <1>h DEF Promised, Table
  <2>5. u \in fresh /\ u # t /\ sem' = sem /\ tokens' = tokens /\ left' = left
    BY <1>13, <2>1 DEF EndNotify, kernel, Table
  <2>6. pc'[u] = pc[u]
    BY <1>13, <1>b, <2>2, <2>5 DEF EndNotify, Goto, CallTypes, Table
  <2>7. QED BY <1>e, <1>f, <2>2, <2>3, <2>4, <2>5, <2>6
<1>14. ASSUME NEW t \in Notifiers, GiveTable(t) PROVE Promised'
  <2>1. SUFFICES ASSUME NEW u \in fresh'
                 PROVE /\ kind' = "flag" /\ pc'[u] = "give" => tokens'[sem'] + left'[u] >= Cardinality(Coming')
                       /\ kind' = "flag" /\ pc'[u] \in {"ensure", "create", "count"} => left'[u] = 0
                       /\ kind' # "flag" /\ pc'[u] = "give" => left'[u] = Many
    BY DEF Promised, Table
  <2>2. u \in Notifiers /\ u \in Tasks /\ kind' = kind /\ value' = value
    BY <1>14, <1>c DEF GiveTable, Give, Filled, object, history, ValueTypes, Table, Tasks
  <2>3. kind = "flag" /\ pc[u] = "give" => sem \in Sems /\ tokens[sem] \in 0..MaxWaiters /\ left[u] \in Nat
    BY <1>b, <2>2, Bounds DEF Needed, KernelTypes, CallTypes, Capacity, Table
  <2>4. u \in fresh => /\ kind = "flag" /\ pc[u] = "give" => tokens[sem] + left[u] >= Cardinality(Coming)
                       /\ kind = "flag" /\ pc[u] \in {"ensure", "create", "count"} => left[u] = 0
                       /\ kind # "flag" /\ pc[u] = "give" => left[u] = Many
    BY <1>h DEF Promised, Table
  <2>5. kind # "flag" /\ u \in fresh
    BY <1>14, <2>1 DEF GiveTable, history, Table
  <2>6. (u = t /\ pc'[u] = "idle") \/ (left'[u] = left[u] /\ pc'[u] = pc[u])
    BY <1>14, <1>b, <2>2 DEF GiveTable, Goto, CallTypes, Table
  <2>7. QED BY <2>2, <2>4, <2>5, <2>6
<1>15. ASSUME NEW t \in Waiters, NEW o \in {0, 1}, Wait(t, o) PROVE Promised'
  BY <1>15, <1>b, <1>i, Bounds DEF Wait, object, kernel, history, Goto, CallTypes, Tasks, ValueTypes, Table
<1>16. ASSUME NEW t \in Notifiers, NEW all \in BOOLEAN, NotifyFlag(t, all) PROVE Promised'
  <2>1. SUFFICES ASSUME NEW u \in fresh'
                 PROVE /\ kind' = "flag" /\ pc'[u] = "give" => tokens'[sem'] + left'[u] >= Cardinality(Coming')
                       /\ kind' = "flag" /\ pc'[u] \in {"ensure", "create", "count"} => left'[u] = 0
                       /\ kind' # "flag" /\ pc'[u] = "give" => left'[u] = Many
    BY DEF Promised, Table
  <2>2. u \in Notifiers /\ u \in Tasks /\ kind' = kind /\ value' = value
    BY <1>16, <1>c DEF NotifyFlag, object, history, ValueTypes, Table, Tasks
  <2>3. kind = "flag" /\ pc[u] = "give" => sem \in Sems /\ tokens[sem] \in 0..MaxWaiters /\ left[u] \in Nat
    BY <1>b, <2>2, Bounds DEF Needed, KernelTypes, CallTypes, Capacity, Table
  <2>4. u \in fresh => /\ kind = "flag" /\ pc[u] = "give" => tokens[sem] + left[u] >= Cardinality(Coming)
                       /\ kind = "flag" /\ pc[u] \in {"ensure", "create", "count"} => left[u] = 0
                       /\ kind # "flag" /\ pc[u] = "give" => left[u] = Many
    BY <1>h DEF Promised, Table
  <2>5. sem' = sem /\ tokens' = tokens /\ kind = "flag"
    BY <1>16 DEF NotifyFlag, kernel, Table
  <2>6. CASE u = t
    BY <1>16, <1>b, <2>1, <2>2, <2>5, <2>6 DEF NotifyFlag, Goto, CallTypes, Table
  <2>7. CASE u # t
    <3>1. u \in fresh /\ left'[u] = left[u] /\ pc'[u] = pc[u]
      BY <1>16, <1>b, <2>1, <2>2, <2>7 DEF NotifyFlag, Goto, CallTypes, Table
    <3>2. QED BY <1>e, <1>f, <2>2, <2>3, <2>4, <2>5, <3>1
  <2>8. QED BY <2>6, <2>7
<1>17. ASSUME NEW t \in Notifiers, NEW all \in BOOLEAN, NotifyTable(t, all) PROVE Promised'
  <2>1. SUFFICES ASSUME NEW u \in fresh'
                 PROVE /\ kind' = "flag" /\ pc'[u] = "give" => tokens'[sem'] + left'[u] >= Cardinality(Coming')
                       /\ kind' = "flag" /\ pc'[u] \in {"ensure", "create", "count"} => left'[u] = 0
                       /\ kind' # "flag" /\ pc'[u] = "give" => left'[u] = Many
    BY DEF Promised, Table
  <2>2. u \in Notifiers /\ u \in Tasks /\ kind' = kind /\ value' = value
    BY <1>17, <1>c DEF NotifyTable, object, history, ValueTypes, Table, Tasks
  <2>3. kind = "flag" /\ pc[u] = "give" => sem \in Sems /\ tokens[sem] \in 0..MaxWaiters /\ left[u] \in Nat
    BY <1>b, <2>2, Bounds DEF Needed, KernelTypes, CallTypes, Capacity, Table
  <2>4. u \in fresh => /\ kind = "flag" /\ pc[u] = "give" => tokens[sem] + left[u] >= Cardinality(Coming)
                       /\ kind = "flag" /\ pc[u] \in {"ensure", "create", "count"} => left[u] = 0
                       /\ kind # "flag" /\ pc[u] = "give" => left[u] = Many
    BY <1>h DEF Promised, Table
  <2>5. kind # "flag"
    BY <1>17 DEF NotifyTable, Table
  <2>6. CASE u = t
    <3>1. pc[t] = "idle" /\ (pc'[t] = "idle" \/ left'[t] = Many)
      BY <1>17, <1>b, <2>1, <2>2, <2>6 DEF NotifyTable, Goto, CallTypes, Table
    <3>2. QED BY <2>2, <2>5, <2>6, <3>1
  <2>7. CASE u # t
    <3>1. u \in fresh /\ left'[u] = left[u] /\ pc'[u] = pc[u]
      BY <1>17, <1>b, <2>1, <2>2, <2>7 DEF NotifyTable, Goto, CallTypes, Table
    <3>2. QED BY <2>2, <2>4, <2>5, <3>1
  <2>8. QED BY <2>6, <2>7
<1>18. ASSUME NEW all \in BOOLEAN, NotifyFlagIsr(all) PROVE Promised'
  <2>1. SUFFICES ASSUME NEW u \in fresh'
                 PROVE /\ kind' = "flag" /\ pc'[u] = "give" => tokens'[sem'] + left'[u] >= Cardinality(Coming')
                       /\ kind' = "flag" /\ pc'[u] \in {"ensure", "create", "count"} => left'[u] = 0
                       /\ kind' # "flag" /\ pc'[u] = "give" => left'[u] = Many
    BY DEF Promised, Table
  <2>2. u \in Notifiers /\ u \in Tasks /\ kind' = kind /\ value' = value
    BY <1>18, <1>c DEF NotifyFlagIsr, Give, Filled, object, history, ValueTypes, Table, Tasks
  <2>3. kind = "flag" /\ pc[u] = "give" => sem \in Sems /\ tokens[sem] \in 0..MaxWaiters /\ left[u] \in Nat
    BY <1>b, <2>2, Bounds DEF Needed, KernelTypes, CallTypes, Capacity, Table
  <2>4. u \in fresh => /\ kind = "flag" /\ pc[u] = "give" => tokens[sem] + left[u] >= Cardinality(Coming)
                       /\ kind = "flag" /\ pc[u] \in {"ensure", "create", "count"} => left[u] = 0
                       /\ kind # "flag" /\ pc[u] = "give" => left[u] = Many
    BY <1>h DEF Promised, Table
  <2>5. u \in fresh /\ sem' = sem /\ pc' = pc /\ left' = left /\ kind = "flag"
    BY <1>18, <2>1 DEF NotifyFlagIsr, Table
  <2>6. CASE pc[u] = "give"
    <3>1. tokens'[sem] \in Nat /\ tokens'[sem] >= tokens[sem]
      BY <1>18, <1>b, <2>3, <2>5, <2>6, Bounds DEF NotifyFlagIsr, Give, Filled, Capacity, KernelTypes, Table
    <3>2. QED BY <1>e, <1>f, <2>2, <2>3, <2>4, <2>5, <2>6, <3>1
  <2>7. CASE pc[u] # "give"
    BY <2>2, <2>4, <2>5, <2>7
  <2>8. QED BY <2>6, <2>7
<1>19. ASSUME NEW all \in BOOLEAN, NotifyTableIsr(all) PROVE Promised'
  <2>1. SUFFICES ASSUME NEW u \in fresh'
                 PROVE /\ kind' = "flag" /\ pc'[u] = "give" => tokens'[sem'] + left'[u] >= Cardinality(Coming')
                       /\ kind' = "flag" /\ pc'[u] \in {"ensure", "create", "count"} => left'[u] = 0
                       /\ kind' # "flag" /\ pc'[u] = "give" => left'[u] = Many
    BY DEF Promised, Table
  <2>2. u \in Notifiers /\ u \in Tasks /\ kind' = kind /\ value' = value
    BY <1>19, <1>c DEF NotifyTableIsr, Give, Filled, object, history, ValueTypes, Table, Tasks
  <2>3. kind = "flag" /\ pc[u] = "give" => sem \in Sems /\ tokens[sem] \in 0..MaxWaiters /\ left[u] \in Nat
    BY <1>b, <2>2, Bounds DEF Needed, KernelTypes, CallTypes, Capacity, Table
  <2>4. u \in fresh => /\ kind = "flag" /\ pc[u] = "give" => tokens[sem] + left[u] >= Cardinality(Coming)
                       /\ kind = "flag" /\ pc[u] \in {"ensure", "create", "count"} => left[u] = 0
                       /\ kind # "flag" /\ pc[u] = "give" => left[u] = Many
    BY <1>h DEF Promised, Table
  <2>5. u \in fresh /\ pc' = pc /\ left' = left /\ kind # "flag"
    BY <1>19, <2>1 DEF NotifyTableIsr, Table
  <2>6. QED BY <2>2, <2>4, <2>5
<1>20. ASSUME Change PROVE Promised'
  BY <1>20 DEF Change, Promised, Table
<1>21. ASSUME Destroy PROVE Promised'
  BY <1>21 DEF Destroy, Promised, Table
<1>22. ASSUME UNCHANGED vars PROVE Promised'
  BY <1>22, <1>b, <1>i, Bounds DEF vars, object, kernel, history, Goto, CallTypes, Tasks, ValueTypes, Table
<1>23. QED
  BY <1>a, <1>1, <1>2, <1>3, <1>4, <1>5, <1>6, <1>7, <1>8, <1>9, <1>10, <1>11, <1>12, <1>13, <1>14, <1>15, <1>16, <1>17, <1>18, <1>19, <1>20, <1>21, <1>22 DEF Next, Step, Table

LEMMA IInvariant == Spec => []IInv
<1>1. IInv /\ [Next]_vars => IInv'
  BY ShapeKept, CountedKept, EnoughKept, PromisedKept DEF IInv
<1>2. QED BY InitIInv, <1>1, PTL DEF Spec

(* The types hold for every number of tasks, semaphores and tokens: the    *)
(* flag's semaphore is never over its capacity, and the bucket's count is  *)
(* never below zero nor above the number of tasks that wait.               *)
THEOREM TypeCorrect == Spec => []TypeOK
<1>1. IInv => TypeOK
  BY DEF IInv
<1>2. QED BY IInvariant, <1>1, PTL

(* Once a notify_all that began after the change has ended, the semaphore  *)
(* has a token for every waiter for that change, for an atomic_flag with   *)
(* up to MaxWaiters waiters however the creation of the semaphore, the     *)
(* interrupts and the gives interleave, and for an atomic<T> that waits    *)
(* on zero in a bucket with a semaphore.                                   *)
THEOREM TokensForAll == Spec => []NoLostWakeup
<1>1. IInv => NoLostWakeup
  <2>1. SUFFICES ASSUME IInv, told, NEW s \in Sems
                 PROVE tokens[s] >= Cardinality(Blocked(s))
    BY DEF NoLostWakeup
  <2>2. Blocked(s) \subseteq Coming /\ Coming \subseteq Waiters
    BY DEF Blocked, Coming
  <2>3. Cardinality(Blocked(s)) <= Cardinality(Coming) /\ Cardinality(Coming) \in Nat
    BY <2>2, Fewer, WaiterSets
  <2>4. tokens[s] \in Nat
    BY <2>1, Bounds DEF IInv, TypeOK, KernelTypes, Capacity
  <2>5. CASE Blocked(s) = {}
    BY <2>4, <2>5, NoMembers
  <2>6. CASE Blocked(s) # {}
    <3>1. PICK w \in Blocked(s) : TRUE
      BY <2>6
    <3>2. s = sem
      BY <2>1, <3>1 DEF IInv, Shape, Held, Blocked, Wakeable
    <3>3. sem # None
      BY <3>2, Bounds
    <3>4. Cardinality(Blocked(s)) \in Nat
      BY <2>2, WaiterSets
    <3>5. QED BY <2>1, <2>3, <2>4, <3>2, <3>3, <3>4 DEF IInv, Enough
  <2>7. QED BY <2>5, <2>6
<1>2. QED BY IInvariant, <1>1, PTL

=============================================================================
