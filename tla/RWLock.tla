------------------------------- MODULE RWLock -------------------------------
(***************************************************************************)
(* What freertos::shared_mutex promises: a readers/writer lock with at     *)
(* most MaxReaders concurrent shared owners.  Every operation is one       *)
(* atomic step here; SharedMutex.tla refines it with the code's loops over *)
(* kernel calls.                                                           *)
(***************************************************************************)
EXTENDS Naturals, FiniteSets

CONSTANTS
  Tasks,       (* the tasks sharing the lock                          *)
  MaxReaders   (* how many tasks may own the lock in shared mode      *)

VARIABLES
  writers,     (* the tasks that own the lock exclusively             *)
  readers      (* the tasks that own the lock in shared mode          *)

rwVars == <<writers, readers>>

Init == writers = {} /\ readers = {}

AcquireExclusive(t) ==
  /\ writers = {} /\ readers = {}
  /\ writers' = {t}
  /\ UNCHANGED readers

ReleaseExclusive(t) ==
  /\ t \in writers
  /\ writers' = writers \ {t}
  /\ UNCHANGED readers

AcquireShared(t) ==
  /\ writers = {}
  /\ t \notin readers
  /\ Cardinality(readers) < MaxReaders
  /\ readers' = readers \cup {t}
  /\ UNCHANGED writers

ReleaseShared(t) ==
  /\ t \in readers
  /\ readers' = readers \ {t}
  /\ UNCHANGED writers

Next == \E t \in Tasks : \/ AcquireExclusive(t) \/ ReleaseExclusive(t)
                         \/ AcquireShared(t)    \/ ReleaseShared(t)

Spec == Init /\ [][Next]_rwVars
=============================================================================
