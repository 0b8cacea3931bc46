----------------------------- MODULE SharedMutex -----------------------------
(***************************************************************************)
(* freertos::shared_mutex (include/freertos_shared_mutex.hpp).             *)
(*                                                                         *)
(* The lock is a kernel mutex plus a counting semaphore of reader slots.   *)
(* A reader takes one slot.  A writer first takes the mutex, which keeps   *)
(* other writers out, and then all the slots one xSemaphoreTake at a time; *)
(* it gives everything back one xSemaphoreGive at a time.  Tasks may be    *)
(* preempted between any two kernel calls, so each call is a step.         *)
(*                                                                         *)
(* Ticks are abstracted: a take that has a timeout may fail whenever the   *)
(* object is not available, which is what the kernel re-checks when the    *)
(* delay expires (xSemaphoreTake never fails on an available object).      *)
(***************************************************************************)
EXTENDS Naturals, FiniteSets

CONSTANTS
  Tasks,       (* the tasks sharing the lock                            *)
  NoTask,      (* "no owner" of the kernel mutex                        *)
  MaxReaders   (* FREERTOS_CPP_WRAPPERS_SHARED_MUTEX_MAX_READERS        *)

ASSUME TasksAssumption == IsFiniteSet(Tasks) /\ NoTask \notin Tasks
ASSUME MaxReadersAssumption == MaxReaders \in Nat \ {0}

VARIABLES
  owner,       (* holder of m_mutex_handle, or NoTask                   *)
  slots,       (* count of m_reader_slots_handle                        *)
  pc,          (* where each task is in a member function               *)
  held,        (* local `taken`: slots a task took as a writer          *)
  mode         (* how patient the task's current call is                *)

vars == <<owner, slots, pc, held, mode>>

(***************************************************************************)
(* lock() waits for ever; lock_ex(portMAX_DELAY) waits for ever for the    *)
(* mutex, but computes a finite `remaining` for a slot once a tick has     *)
(* elapsed; try_lock(), try_lock_for() and lock_ex(ticks) give up in both  *)
(* phases (try_lock at once).  Shared calls are "forever" or "timed".      *)
(***************************************************************************)
ExclusiveModes == {"forever", "forever_ex", "timed"}
SharedModes    == {"forever", "timed"}
Modes          == ExclusiveModes \cup SharedModes

HoldsMutex == {"take_slots", "roll_back", "writing", "unlocking"}
PCs == {"idle", "take_mutex", "take_shared", "reading"} \cup HoldsMutex

Readers == {t \in Tasks : pc[t] = "reading"}
Writers == {t \in Tasks : pc[t] = "writing"}

Goto(t, from, to) == pc[t] = from /\ pc' = [pc EXCEPT ![t] = to]

(* The constructor creates the mutex free and the counting semaphore full. *)
Init ==
  /\ owner = NoTask
  /\ slots = MaxReaders
  /\ pc = [t \in Tasks |-> "idle"]
  /\ held = [t \in Tasks |-> 0]
  /\ mode = [t \in Tasks |-> "forever"]

-----------------------------------------------------------------------------
(* Exclusive ownership.                                                    *)

(* A task calls one of the exclusive lock functions. *)
CallLock(t) ==
  /\ Goto(t, "idle", "take_mutex")
  /\ \E m \in ExclusiveModes : mode' = [mode EXCEPT ![t] = m]
  /\ UNCHANGED <<owner, slots, held>>

(* Mutant: a writer starts on the slots without the mutex being free. *)
TakeMutexUnguarded(t) ==
  /\ Goto(t, "take_mutex", "take_slots")
  /\ owner' = t
  /\ held' = [held EXCEPT ![t] = 0]
  /\ UNCHANGED <<slots, mode>>

TakeMutex(t) ==
  /\ Goto(t, "take_mutex", "take_slots")
  /\ owner = NoTask
  /\ owner' = t
  /\ held' = [held EXCEPT ![t] = 0]
  /\ UNCHANGED <<slots, mode>>

MutexTimeout(t) ==
  /\ Goto(t, "take_mutex", "idle")
  /\ owner # NoTask
  /\ mode[t] = "timed"
  /\ UNCHANGED <<owner, slots, held, mode>>

(* Mutant: the loop stops one slot early. *)
TakeSlotsShort(t) ==
  /\ Goto(t, "take_slots",
          IF held[t] + 2 >= MaxReaders THEN "writing" ELSE "take_slots")
  /\ slots > 0
  /\ slots' = slots - 1
  /\ held' = [held EXCEPT ![t] = @ + 1]
  /\ UNCHANGED <<owner, mode>>

(* One iteration of the loop over the reader slots; the last one returns. *)
TakeSlot(t) ==
  /\ Goto(t, "take_slots",
          IF held[t] + 1 = MaxReaders THEN "writing" ELSE "take_slots")
  /\ slots > 0
  /\ slots' = slots - 1
  /\ held' = [held EXCEPT ![t] = @ + 1]
  /\ UNCHANGED <<owner, mode>>

(* Mutant: a failed attempt forgets the slots it took. *)
SlotTimeoutForgets(t) ==
  /\ Goto(t, "take_slots", "roll_back")
  /\ slots = 0
  /\ mode[t] # "forever"
  /\ held' = [held EXCEPT ![t] = 0]
  /\ UNCHANGED <<owner, slots, mode>>

SlotTimeout(t) ==
  /\ Goto(t, "take_slots", "roll_back")
  /\ slots = 0
  /\ mode[t] # "forever"
  /\ UNCHANGED <<owner, slots, held, mode>>

(* Mutant: the give loop does not stop at the slots taken. *)
GiveSlotUnbounded(t) ==
  /\ held' = [held EXCEPT ![t] = @ - 1]
  /\ slots' = IF slots < MaxReaders THEN slots + 1 ELSE slots
  /\ UNCHANGED <<owner, mode>>

(* xSemaphoreGive(m_reader_slots_handle) by a writer; a full counting      *)
(* semaphore refuses the give, and the code ignores the refusal.           *)
GiveSlot(t) ==
  /\ held[t] > 0
  /\ held' = [held EXCEPT ![t] = @ - 1]
  /\ slots' = IF slots < MaxReaders THEN slots + 1 ELSE slots
  /\ UNCHANGED <<owner, mode>>

(* xSemaphoreGive(m_mutex_handle), after the last slot was given. *)
GiveMutex(t) ==
  /\ held[t] = 0
  /\ owner' = NoTask
  /\ UNCHANGED <<slots, held, mode>>

RollBackSlot(t)  == Goto(t, "roll_back", "roll_back") /\ GiveSlot(t)
RollBackMutex(t) == Goto(t, "roll_back", "idle") /\ GiveMutex(t)

UnlockSlot(t) ==
  /\ pc[t] \in {"writing", "unlocking"}
  /\ pc' = [pc EXCEPT ![t] = "unlocking"]
  /\ GiveSlot(t)

(* Mutant: unlock gives the mutex back one slot early. *)
UnlockMutexEarly(t) ==
  /\ Goto(t, "unlocking", "idle")
  /\ held[t] = 1
  /\ owner' = NoTask
  /\ held' = [held EXCEPT ![t] = 0]
  /\ UNCHANGED <<slots, mode>>

UnlockMutex(t) == Goto(t, "unlocking", "idle") /\ GiveMutex(t)

-----------------------------------------------------------------------------
(* Shared ownership.                                                       *)

CallLockShared(t) ==
  /\ Goto(t, "idle", "take_shared")
  /\ \E m \in SharedModes : mode' = [mode EXCEPT ![t] = m]
  /\ UNCHANGED <<owner, slots, held>>

(* Mutant: the result of a shared take that timed out is ignored. *)
TakeSharedUnchecked(t) ==
  /\ Goto(t, "take_shared", "reading")
  /\ slots' = IF slots > 0 THEN slots - 1 ELSE slots
  /\ UNCHANGED <<owner, held, mode>>

TakeShared(t) ==
  /\ Goto(t, "take_shared", "reading")
  /\ slots > 0
  /\ slots' = slots - 1
  /\ UNCHANGED <<owner, held, mode>>

SharedTimeout(t) ==
  /\ Goto(t, "take_shared", "idle")
  /\ slots = 0
  /\ mode[t] = "timed"
  /\ UNCHANGED <<owner, slots, held, mode>>

(* unlock_shared() and unlock_shared_ex() called by a shared owner. *)
UnlockShared(t) ==
  /\ Goto(t, "reading", "idle")
  /\ slots' = IF slots < MaxReaders THEN slots + 1 ELSE slots
  /\ UNCHANGED <<owner, held, mode>>

-----------------------------------------------------------------------------
Call(t) == CallLock(t) \/ CallLockShared(t)

(* The steps a call takes once made, and the release every owner makes. *)
Step(t) ==
  \/ TakeMutex(t) \/ MutexTimeout(t) \/ TakeSlot(t) \/ SlotTimeout(t)
  \/ RollBackSlot(t) \/ RollBackMutex(t) \/ UnlockSlot(t) \/ UnlockMutex(t)
  \/ TakeShared(t) \/ SharedTimeout(t) \/ UnlockShared(t)

Next == \E t \in Tasks : Call(t) \/ Step(t)

Spec == Init /\ [][Next]_vars

-----------------------------------------------------------------------------
(* Properties.                                                             *)

TypeOK ==
  /\ owner \in Tasks \cup {NoTask}
  /\ slots \in 0..MaxReaders
  /\ pc \in [Tasks -> PCs]
  /\ held \in [Tasks -> 0..MaxReaders]
  /\ mode \in [Tasks -> Modes]

(* Exclusive ownership excludes every other ownership, although a writer   *)
(* collects its slots one by one while readers come and go.                *)
ReadersXorWriter ==
  /\ Writers # {} => Readers = {}
  /\ \A t, u \in Writers : t = u

(* The slots that the mutex holder has taken. *)
HeldByOwner == IF owner = NoTask THEN 0 ELSE held[owner]

(* Whatever is rolled back, timed out or interrupted, a slot is in the     *)
(* semaphore, with a reader or with the one task that holds the mutex: no  *)
(* failure path leaks a slot or returns one twice.                         *)
SlotAccounting ==
  /\ slots + Cardinality(Readers) + HeldByOwner = MaxReaders
  /\ \A t \in Tasks : held[t] > 0 => owner = t

(* A failing exclusive attempt that got the mutex was stopped by a reader, *)
(* and a failing shared attempt by a writer that owns or is collecting the *)
(* lock, or by MaxReaders readers: no call fails on a lock nobody uses.    *)
FailsForCause ==
  [][\A t \in Tasks :
       /\ pc[t] = "take_slots" /\ pc'[t] = "roll_back" => Readers # {}
       /\ pc[t] = "take_shared" /\ pc'[t] = "idle" =>
            owner # NoTask \/ Cardinality(Readers) = MaxReaders]_vars

(* The lock implements the atomic readers/writer lock. *)
RW == INSTANCE RWLock WITH writers <- Writers, readers <- Readers

ImplementsRWLock == RW!Spec
=============================================================================
