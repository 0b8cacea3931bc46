-------------------------- MODULE SharedMutexProofs --------------------------
(***************************************************************************)
(* Proofs about SharedMutex for every set of tasks and every number of     *)
(* reader slots: the type invariant, the inductive invariant behind slot   *)
(* accounting, mutual exclusion of readers and writers, and the refinement *)
(* of the atomic readers/writer lock.                                      *)
(***************************************************************************)
EXTENDS SharedMutex, FiniteSetTheorems, TLAPS

(* The program points that hold the kernel mutex, and only they, own it;   *)
(* a writer inside the lock has all the slots, one still collecting does   *)
(* not.                                                                    *)
MutexMatchesPc ==
  /\ \A t \in Tasks : owner = t <=> pc[t] \in HoldsMutex
  /\ \A t \in Tasks : pc[t] = "writing" => held[t] = MaxReaders
  /\ \A t \in Tasks : pc[t] = "take_slots" => held[t] < MaxReaders

(* The inductive invariant: counting slots alone is not inductive, because *)
(* it needs to know that only the mutex holder has any.                    *)
IInv == TypeOK /\ MutexMatchesPc /\ SlotAccounting

-----------------------------------------------------------------------------
LEMMA ReadersFinite ==
  /\ IsFiniteSet(Readers)
  /\ Cardinality(Readers) \in Nat
  BY TasksAssumption, FS_Subset, FS_CardinalityType DEF Readers

LEMMA ReaderEnters ==
  ASSUME NEW t \in Tasks, pc[t] # "reading", pc \in [Tasks -> PCs],
         pc' = [pc EXCEPT ![t] = "reading"]
  PROVE  /\ Readers' = Readers \cup {t}
         /\ Cardinality(Readers') = Cardinality(Readers) + 1
<1>1. Readers' = Readers \cup {t} /\ t \notin Readers
  BY DEF Readers
<1>2. QED
  BY <1>1, ReadersFinite, FS_AddElement

LEMMA ReaderLeaves ==
  ASSUME NEW t \in Tasks, pc[t] = "reading", pc \in [Tasks -> PCs],
         pc' = [pc EXCEPT ![t] = "idle"]
  PROVE  /\ Readers' = Readers \ {t}
         /\ Cardinality(Readers') = Cardinality(Readers) - 1
<1>1. Readers' = Readers \ {t} /\ t \in Readers
  BY DEF Readers
<1>2. QED
  BY <1>1, ReadersFinite, FS_RemoveElement

LEMMA ReadersStay ==
  ASSUME NEW t \in Tasks, NEW q \in PCs, pc[t] # "reading", q # "reading",
         pc \in [Tasks -> PCs], pc' = [pc EXCEPT ![t] = q]
  PROVE  Readers' = Readers
  BY DEF Readers

-----------------------------------------------------------------------------
LEMMA InitIInv == Init => IInv
<1> SUFFICES ASSUME Init PROVE IInv
  OBVIOUS
<1> USE TasksAssumption, MaxReadersAssumption DEF Init
<1>1. TypeOK
  BY DEF TypeOK, PCs, Modes, ExclusiveModes, SharedModes
<1>2. MutexMatchesPc
  BY DEF MutexMatchesPc, HoldsMutex
<1>3. Readers = {}
  BY DEF Readers
<1>4. SlotAccounting
  BY <1>3, FS_EmptySet DEF SlotAccounting, HeldByOwner
<1>5. QED
  BY <1>1, <1>2, <1>4 DEF IInv

LEMMA NextIInv == IInv /\ [Next]_vars => IInv'
<1> SUFFICES ASSUME IInv, [Next]_vars PROVE IInv'
  OBVIOUS
<1> USE TasksAssumption, MaxReadersAssumption
<1>0. /\ TypeOK /\ MutexMatchesPc /\ SlotAccounting
      /\ pc \in [Tasks -> PCs]
      /\ Cardinality(Readers) \in Nat
  BY ReadersFinite DEF IInv, TypeOK
<1> USE DEF TypeOK, PCs, HoldsMutex, Goto
<1>1. ASSUME NEW t \in Tasks, CallLock(t) PROVE IInv'
  <2>1. Readers' = Readers
    BY <1>0, <1>1, ReadersStay DEF CallLock
  <2>2. TypeOK' /\ MutexMatchesPc'
    BY <1>0, <1>1 DEF CallLock, MutexMatchesPc, Modes
  <2>3. SlotAccounting'
    BY <1>0, <1>1, <2>1 DEF CallLock, SlotAccounting, HeldByOwner
  <2>4. QED  BY <2>2, <2>3 DEF IInv
<1>2. ASSUME NEW t \in Tasks, TakeMutex(t) PROVE IInv'
  <2>1. Readers' = Readers
    BY <1>0, <1>2, ReadersStay DEF TakeMutex
  <2>2. TypeOK' /\ MutexMatchesPc'
    BY <1>0, <1>2 DEF TakeMutex, MutexMatchesPc
  <2>3. SlotAccounting'
    BY <1>0, <1>2, <2>1 DEF TakeMutex, SlotAccounting, HeldByOwner
  <2>4. QED  BY <2>2, <2>3 DEF IInv
<1>3. ASSUME NEW t \in Tasks, MutexTimeout(t) PROVE IInv'
  <2>1. Readers' = Readers
    BY <1>0, <1>3, ReadersStay DEF MutexTimeout
  <2>2. TypeOK' /\ MutexMatchesPc'
    BY <1>0, <1>3 DEF MutexTimeout, MutexMatchesPc
  <2>3. SlotAccounting'
    BY <1>0, <1>3, <2>1 DEF MutexTimeout, SlotAccounting, HeldByOwner
  <2>4. QED  BY <2>2, <2>3 DEF IInv
<1>4. ASSUME NEW t \in Tasks, TakeSlot(t) PROVE IInv'
  <2>1. owner = t /\ held[t] < MaxReaders /\ held[t] \in Nat /\ t # NoTask
    BY <1>0, <1>4 DEF TakeSlot, MutexMatchesPc
  <2>2. Readers' = Readers
    BY <1>0, <1>4, ReadersStay DEF TakeSlot
  <2>3. TypeOK'
    BY <1>0, <1>4, <2>1 DEF TakeSlot
  <2>4. MutexMatchesPc'
    BY <1>0, <1>4, <2>1 DEF TakeSlot, MutexMatchesPc
  <2>5. SlotAccounting'
    BY <1>0, <1>4, <2>1, <2>2 DEF TakeSlot, SlotAccounting, HeldByOwner
  <2>6. QED  BY <2>3, <2>4, <2>5 DEF IInv
<1>5. ASSUME NEW t \in Tasks, SlotTimeout(t) PROVE IInv'
  <2>1. Readers' = Readers
    BY <1>0, <1>5, ReadersStay DEF SlotTimeout
  <2>2. TypeOK' /\ MutexMatchesPc'
    BY <1>0, <1>5 DEF SlotTimeout, MutexMatchesPc
  <2>3. SlotAccounting'
    BY <1>0, <1>5, <2>1 DEF SlotTimeout, SlotAccounting, HeldByOwner
  <2>4. QED  BY <2>2, <2>3 DEF IInv
<1>6. ASSUME NEW t \in Tasks, RollBackSlot(t) PROVE IInv'
  <2>1. owner = t /\ t # NoTask /\ slots < MaxReaders
    BY <1>0, <1>6 DEF RollBackSlot, GiveSlot, MutexMatchesPc,
                      SlotAccounting, HeldByOwner
  <2>2. Readers' = Readers
    BY <1>0, <1>6, ReadersStay DEF RollBackSlot
  <2>3. TypeOK' /\ MutexMatchesPc'
    BY <1>0, <1>6 DEF RollBackSlot, GiveSlot, MutexMatchesPc
  <2>4. SlotAccounting'
    BY <1>0, <1>6, <2>1, <2>2
    DEF RollBackSlot, GiveSlot, SlotAccounting, HeldByOwner
  <2>5. QED  BY <2>3, <2>4 DEF IInv
<1>7. ASSUME NEW t \in Tasks, RollBackMutex(t) PROVE IInv'
  <2>1. owner = t /\ t # NoTask
    BY <1>0, <1>7 DEF RollBackMutex, MutexMatchesPc
  <2>2. Readers' = Readers
    BY <1>0, <1>7, ReadersStay DEF RollBackMutex
  <2>3. TypeOK' /\ MutexMatchesPc'
    BY <1>0, <1>7, <2>1 DEF RollBackMutex, GiveMutex, MutexMatchesPc
  <2>4. SlotAccounting'
    BY <1>0, <1>7, <2>1, <2>2
    DEF RollBackMutex, GiveMutex, SlotAccounting, HeldByOwner
  <2>5. QED  BY <2>3, <2>4 DEF IInv
<1>8. ASSUME NEW t \in Tasks, UnlockSlot(t) PROVE IInv'
  <2>1. owner = t /\ t # NoTask /\ slots < MaxReaders
    BY <1>0, <1>8 DEF UnlockSlot, GiveSlot, MutexMatchesPc,
                      SlotAccounting, HeldByOwner
  <2>2. Readers' = Readers
    BY <1>0, <1>8, ReadersStay DEF UnlockSlot
  <2>3. TypeOK' /\ MutexMatchesPc'
    BY <1>0, <1>8, <2>1 DEF UnlockSlot, GiveSlot, MutexMatchesPc
  <2>4. SlotAccounting'
    BY <1>0, <1>8, <2>1, <2>2
    DEF UnlockSlot, GiveSlot, SlotAccounting, HeldByOwner
  <2>5. QED  BY <2>3, <2>4 DEF IInv
<1>9. ASSUME NEW t \in Tasks, UnlockMutex(t) PROVE IInv'
  <2>1. owner = t /\ t # NoTask
    BY <1>0, <1>9 DEF UnlockMutex, MutexMatchesPc
  <2>2. Readers' = Readers
    BY <1>0, <1>9, ReadersStay DEF UnlockMutex
  <2>3. TypeOK' /\ MutexMatchesPc'
    BY <1>0, <1>9, <2>1 DEF UnlockMutex, GiveMutex, MutexMatchesPc
  <2>4. SlotAccounting'
    BY <1>0, <1>9, <2>1, <2>2
    DEF UnlockMutex, GiveMutex, SlotAccounting, HeldByOwner
  <2>5. QED  BY <2>3, <2>4 DEF IInv
<1>10. ASSUME NEW t \in Tasks, CallLockShared(t) PROVE IInv'
  <2>1. Readers' = Readers
    BY <1>0, <1>10, ReadersStay DEF CallLockShared
  <2>2. TypeOK' /\ MutexMatchesPc'
    BY <1>0, <1>10 DEF CallLockShared, MutexMatchesPc, Modes
  <2>3. SlotAccounting'
    BY <1>0, <1>10, <2>1 DEF CallLockShared, SlotAccounting, HeldByOwner
  <2>4. QED  BY <2>2, <2>3 DEF IInv
<1>11. ASSUME NEW t \in Tasks, TakeShared(t) PROVE IInv'
  <2>1. Cardinality(Readers') = Cardinality(Readers) + 1
    BY <1>0, <1>11, ReaderEnters DEF TakeShared
  <2>2. TypeOK' /\ MutexMatchesPc'
    BY <1>0, <1>11 DEF TakeShared, MutexMatchesPc
  <2>3. SlotAccounting'
    BY <1>0, <1>11, <2>1 DEF TakeShared, SlotAccounting, HeldByOwner
  <2>4. QED  BY <2>2, <2>3 DEF IInv
<1>12. ASSUME NEW t \in Tasks, SharedTimeout(t) PROVE IInv'
  <2>1. Readers' = Readers
    BY <1>0, <1>12, ReadersStay DEF SharedTimeout
  <2>2. TypeOK' /\ MutexMatchesPc'
    BY <1>0, <1>12 DEF SharedTimeout, MutexMatchesPc
  <2>3. SlotAccounting'
    BY <1>0, <1>12, <2>1 DEF SharedTimeout, SlotAccounting, HeldByOwner
  <2>4. QED  BY <2>2, <2>3 DEF IInv
<1>13. ASSUME NEW t \in Tasks, UnlockShared(t) PROVE IInv'
  <2>1. Cardinality(Readers') = Cardinality(Readers) - 1
    BY <1>0, <1>13, ReaderLeaves DEF UnlockShared
  <2>2. TypeOK' /\ MutexMatchesPc'
    BY <1>0, <1>13 DEF UnlockShared, MutexMatchesPc
  <2>3. Cardinality(Readers') \in Nat
    BY <2>1, <1>0, <1>13, ReaderLeaves, ReadersFinite, FS_RemoveElement,
       FS_CardinalityType DEF UnlockShared
  <2>4. HeldByOwner \in Nat /\ HeldByOwner' = HeldByOwner
    BY <1>0, <1>13 DEF UnlockShared, HeldByOwner
  <2>5. SlotAccounting'
    BY <1>0, <1>13, <2>1, <2>3, <2>4 DEF UnlockShared, SlotAccounting
  <2>6. QED  BY <2>2, <2>5 DEF IInv
<1>14. CASE UNCHANGED vars
  BY <1>0, <1>14 DEF vars, IInv, MutexMatchesPc, SlotAccounting,
                     HeldByOwner, Readers
<1>15. QED
  BY <1>1, <1>2, <1>3, <1>4, <1>5, <1>6, <1>7, <1>8, <1>9, <1>10, <1>11,
     <1>12, <1>13, <1>14 DEF Next, Call, Step

LEMMA IInvExclusion == IInv => ReadersXorWriter
<1> SUFFICES ASSUME IInv PROVE ReadersXorWriter
  OBVIOUS
<1> USE TasksAssumption, MaxReadersAssumption
<1>1. ASSUME NEW t \in Writers PROVE owner = t /\ held[t] = MaxReaders
  BY <1>1 DEF Writers, IInv, MutexMatchesPc, HoldsMutex
<1>2. \A t, u \in Writers : t = u
  BY <1>1
<1>3. ASSUME Writers # {} PROVE Readers = {}
  <2>1. PICK t \in Writers : TRUE
    BY <1>3
  <2>2. HeldByOwner = MaxReaders
    BY <2>1, <1>1 DEF HeldByOwner, Writers
  <2>3. Cardinality(Readers) = 0
    BY <2>2, ReadersFinite DEF IInv, TypeOK, SlotAccounting
  <2>4. QED
    BY <2>3, ReadersFinite, FS_EmptySet
<1>4. QED
  BY <1>2, <1>3 DEF ReadersXorWriter

(***************************************************************************)
(* IInv is an invariant; so are the three invariants TLC checks.           *)
(***************************************************************************)
LEMMA SpecIInv == Spec => []IInv
  BY InitIInv, NextIInv, PTL DEF Spec

(* Every variable keeps its type: in particular the count of slots stays   *)
(* within the semaphore and the loop counter within the number of slots.   *)
THEOREM TypeCorrect == Spec => []TypeOK
<1>1. IInv => TypeOK
  BY DEF IInv
<1>2. QED
  BY <1>1, SpecIInv, PTL

(* No lock, unlock, timeout or roll-back of freertos::shared_mutex ever    *)
(* leaks a reader slot or gives one back twice.                            *)
THEOREM SlotsAccounted == Spec => []SlotAccounting
<1>1. IInv => SlotAccounting
  BY DEF IInv
<1>2. QED
  BY <1>1, SpecIInv, PTL

(* A writer inside freertos::shared_mutex is alone, for any number of      *)
(* tasks and of reader slots.                                              *)
THEOREM Exclusion == Spec => []ReadersXorWriter
  BY SpecIInv, IInvExclusion, PTL

-----------------------------------------------------------------------------
(* A try_lock, timed lock or timed shared lock that fails was refused by a *)
(* task that uses the lock.                                                *)
THEOREM FailuresJustified == Spec => FailsForCause
<1> DEFINE Cause == \A t \in Tasks :
       /\ pc[t] = "take_slots" /\ pc'[t] = "roll_back" => Readers # {}
       /\ pc[t] = "take_shared" /\ pc'[t] = "idle" =>
            owner # NoTask \/ Cardinality(Readers) = MaxReaders
<1>1. IInv /\ [Next]_vars => [Cause]_vars
  <2> SUFFICES ASSUME IInv, Next, NEW t \in Tasks
               PROVE  /\ pc[t] = "take_slots" /\ pc'[t] = "roll_back"
                            => Readers # {}
                      /\ pc[t] = "take_shared" /\ pc'[t] = "idle" =>
                            owner # NoTask \/ Cardinality(Readers) = MaxReaders
    OBVIOUS
  <2> USE TasksAssumption, MaxReadersAssumption DEF IInv, TypeOK, Goto
  <2>1. ASSUME pc[t] = "take_slots", pc'[t] = "roll_back"
        PROVE  SlotTimeout(t)
    BY <2>1 DEF Next, Call, Step, CallLock, TakeMutex, MutexTimeout, TakeSlot,
       SlotTimeout, RollBackSlot, RollBackMutex, UnlockSlot, UnlockMutex,
       CallLockShared, TakeShared, SharedTimeout, UnlockShared
  <2>2. ASSUME pc[t] = "take_shared", pc'[t] = "idle"
        PROVE  SharedTimeout(t)
    BY <2>2 DEF Next, Call, Step, CallLock, TakeMutex, MutexTimeout, TakeSlot,
       SlotTimeout, RollBackSlot, RollBackMutex, UnlockSlot, UnlockMutex,
       CallLockShared, TakeShared, SharedTimeout, UnlockShared
  <2>3. ASSUME SlotTimeout(t) PROVE Readers # {}
    <3>1. owner = t /\ held[t] < MaxReaders /\ slots = 0
      BY <2>3 DEF SlotTimeout, MutexMatchesPc, HoldsMutex
    <3>2. Cardinality(Readers) # 0
      BY <3>1, ReadersFinite DEF SlotAccounting, HeldByOwner
    <3>3. QED
      BY <3>2, FS_EmptySet
  <2>4. ASSUME SharedTimeout(t), owner = NoTask
        PROVE  Cardinality(Readers) = MaxReaders
    BY <2>4, ReadersFinite DEF SharedTimeout, SlotAccounting, HeldByOwner
  <2>5. QED
    BY <2>1, <2>2, <2>3, <2>4
<1>2. QED
  BY <1>1, SpecIInv, PTL DEF Spec, FailsForCause

-----------------------------------------------------------------------------
(* Steps that change neither who writes nor who reads. *)
LEMMA OwnershipStays ==
  ASSUME NEW t \in Tasks, NEW q \in PCs, pc \in [Tasks -> PCs],
         pc[t] \notin {"reading", "writing"},
         q \notin {"reading", "writing"}, pc' = [pc EXCEPT ![t] = q]
  PROVE  Readers' = Readers /\ Writers' = Writers
  BY DEF Readers, Writers

(* The instance counts readers with its own copy of Cardinality. *)
LEMMA SameCardinality == RW!Cardinality(Readers) = Cardinality(Readers)
  BY DEF RW!Cardinality, Cardinality

(* freertos::shared_mutex implements the atomic readers/writer lock: a     *)
(* writer enters the abstract lock with its last slot and leaves it with   *)
(* the first slot it gives back; a reader with the slot it takes or gives. *)
THEOREM RefinesRWLock == Spec => ImplementsRWLock
<1> USE TasksAssumption, MaxReadersAssumption
<1>1. Init => RW!Init
  BY DEF Init, RW!Init, Readers, Writers
<1>2. IInv /\ IInv' /\ [Next]_vars => [RW!Next]_(RW!rwVars)
  <2> SUFFICES ASSUME IInv, IInv', [Next]_vars
               PROVE  RW!Next \/ (Writers' = Writers /\ Readers' = Readers)
    BY DEF RW!rwVars
  <2>a. ReadersXorWriter /\ ReadersXorWriter'
    BY IInvExclusion, PTL
  <2>0. /\ pc \in [Tasks -> PCs] /\ ReadersXorWriter /\ ReadersXorWriter'
        /\ TypeOK /\ SlotAccounting /\ MutexMatchesPc
    BY <2>a DEF IInv, TypeOK
  <2> USE DEF Goto
  <2>1. ASSUME NEW t \in Tasks, TakeSlot(t) PROVE
          RW!AcquireExclusive(t) \/ (Writers' = Writers /\ Readers' = Readers)
    <3>1. CASE pc'[t] = "writing"
      <4>1. Writers = {}
        BY <2>0, <2>1 DEF TakeSlot, Writers, MutexMatchesPc, HoldsMutex
      <4>2. Writers' = {t} /\ Readers' = Readers
        BY <2>0, <2>1, <3>1, <4>1 DEF TakeSlot, Writers, Readers
      <4>3. QED
        BY <2>0, <4>1, <4>2 DEF RW!AcquireExclusive, ReadersXorWriter
    <3>2. CASE pc'[t] # "writing"
      BY <2>0, <2>1, <3>2, OwnershipStays DEF TakeSlot, PCs, HoldsMutex
    <3>3. QED
      BY <3>1, <3>2
  <2>2. ASSUME NEW t \in Tasks, UnlockSlot(t) PROVE
          RW!ReleaseExclusive(t) \/ (Writers' = Writers /\ Readers' = Readers)
    <3>1. CASE pc[t] = "writing"
      <4>1. t \in Writers /\ Writers' = Writers \ {t} /\ Readers' = Readers
        BY <2>0, <2>2, <3>1 DEF UnlockSlot, Writers, Readers
      <4>2. QED
        BY <4>1 DEF RW!ReleaseExclusive
    <3>2. CASE pc[t] # "writing"
      BY <2>0, <2>2, <3>2, OwnershipStays DEF UnlockSlot, PCs, HoldsMutex
    <3>3. QED
      BY <3>1, <3>2
  <2>3. ASSUME NEW t \in Tasks, TakeShared(t) PROVE RW!AcquireShared(t)
    <3>1. Readers' = Readers \cup {t} /\ t \notin Readers
      BY <2>0, <2>3, ReaderEnters DEF TakeShared, Readers
    <3>2. Writers' = Writers /\ Writers = {}
      BY <2>0, <2>3, <3>1 DEF TakeShared, Writers, ReadersXorWriter
    <3>3. Cardinality(Readers) < MaxReaders
      BY <2>0, <2>3, ReadersFinite
      DEF TakeShared, SlotAccounting, HeldByOwner, TypeOK
    <3>4. QED
      BY <3>1, <3>2, <3>3, SameCardinality DEF RW!AcquireShared
  <2>4. ASSUME NEW t \in Tasks, UnlockShared(t) PROVE RW!ReleaseShared(t)
    <3>1. Readers' = Readers \ {t} /\ t \in Readers
      BY <2>0, <2>4, ReaderLeaves DEF UnlockShared, Readers
    <3>2. Writers' = Writers
      BY <2>0, <2>4 DEF UnlockShared, Writers
    <3>3. QED
      BY <3>1, <3>2 DEF RW!ReleaseShared
  <2>5. ASSUME NEW t \in Tasks,
               \/ CallLock(t) \/ TakeMutex(t) \/ MutexTimeout(t)
               \/ SlotTimeout(t) \/ RollBackSlot(t) \/ RollBackMutex(t)
               \/ UnlockMutex(t) \/ CallLockShared(t) \/ SharedTimeout(t)
        PROVE  Writers' = Writers /\ Readers' = Readers
    BY <2>0, <2>5, OwnershipStays
    DEF CallLock, TakeMutex, MutexTimeout, SlotTimeout, RollBackSlot,
        RollBackMutex, UnlockMutex, CallLockShared, SharedTimeout, PCs,
        HoldsMutex
  <2>6. CASE UNCHANGED vars
    BY <2>6 DEF vars, Writers, Readers
  <2>7. QED
    BY <2>1, <2>2, <2>3, <2>4, <2>5, <2>6 DEF Next, Call, Step, RW!Next
<1>3. QED
  BY <1>1, <1>2, SpecIInv, PTL DEF Spec, ImplementsRWLock, RW!Spec
=============================================================================
