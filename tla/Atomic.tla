------------------------------- MODULE Atomic -------------------------------
(***************************************************************************)
(* wait, notify_one and notify_all of the wrappers over std::atomic        *)
(* (freertos_atomic.hpp and, behind atomic<T>, freertos_atomic_wait.cc).   *)
(*                                                                         *)
(* atomic_flag creates a counting semaphore the first time it is needed    *)
(* (in a critical section, with a second look), and a waiter looks at the  *)
(* flag again after that.  notify_all fills the semaphore up.              *)
(*                                                                         *)
(* atomic<T> waits in a bucket of a global table: the waiter counts itself *)
(* in, compares the object with an expected value that is always zero,     *)
(* creates the bucket's semaphore if there is none, without a lock, and    *)
(* takes it.  A notifier returns early when it sees no waiter or no        *)
(* semaphore; notify_all asks for INT_MAX gives.                           *)
(*                                                                         *)
(* kind, chosen once: "flag" is an atomic_flag, "cold" an atomic<T> whose  *)
(* bucket nobody has waited in, "warm" one whose bucket has its semaphore. *)
(* The value is 0 or 1, which for a flag are false and true.  One object   *)
(* per bucket; the implementation of the table is number 1, the default.   *)
(***************************************************************************)
EXTENDS Integers, FiniteSets

CONSTANTS
  Waiters,     (* tasks that wait                                         *)
  Notifiers,   (* tasks that change the value and notify                  *)
  Sems,        (* the semaphores that can be created                      *)
  None,        (* a null handle                                           *)
  MaxWaiters,  (* FREERTOS_CPP_WRAPPERS_ATOMIC_FLAG_MAX_WAITERS           *)
  Many,        (* a count no number of takes brings down: what INT_MAX    *)
               (* gives leave                                             *)
  MaxFlips     (* bound: changes of the value                             *)

ASSUME CapacityAssumption == MaxWaiters \in Nat \ {0}
ASSUME ManyAssumption == Many \in Nat /\ Many > MaxWaiters
ASSUME FlipsAssumption == MaxFlips \in Nat
ASSUME ActorAssumption == Waiters \cap Notifiers = {} /\ IsFiniteSet(Waiters)
(* As many waiters as the semaphore of a flag has room for.                *)
ASSUME WaiterAssumption == Cardinality(Waiters) <= MaxWaiters
ASSUME NoneAssumption == None \notin Sems /\ Sems # {}

Tasks == Waiters \union Notifiers

VARIABLES
  kind,      (* which object this is                                      *)
  value,     (* the atomic value                                          *)
  sem,       (* m_semaphore, or semaphore of the bucket                   *)
  made,      (* the semaphores created so far                             *)
  tokens,    (* kernel: the count of each semaphore                       *)
  count,     (* waiter_count of the bucket                                *)
  pc,        (* where each task is                                        *)
  old,       (* the value each waiter waits to see changed                *)
  hold,      (* the semaphore each waiter passes to xSemaphoreTake        *)
  left,      (* the gives each notifier has still to make                 *)
  flips,     (* bound: changes of the value so far                        *)
  fresh,     (* history: notifiers whose notify_all began after the last  *)
             (* change, and lost no token to a waiter for the new value   *)
  told       (* history: such a notify_all has ended                      *)

object == <<kind, flips>>
kernel == <<made, tokens>>
history == <<fresh, told>>
vars == <<kind, value, sem, made, tokens, count, pc, old, hold, left, flips,
          fresh, told>>

Table == kind # "flag"

Init ==
  /\ kind \in {"flag", "cold", "warm"}
  /\ value = 0
  /\ sem \in IF kind = "warm" THEN Sems ELSE {None}
  /\ made = {sem} \ {None}
  /\ tokens = [s \in Sems |-> 0]
  /\ count = 0
  /\ pc = [t \in Tasks |-> "idle"]
  /\ old = [t \in Waiters |-> 0]
  /\ hold = [t \in Waiters |-> None]
  /\ left = [t \in Notifiers |-> 0]
  /\ flips = 0
  /\ fresh = {}
  /\ told = FALSE

Goto(t, next) == pc' = [pc EXCEPT ![t] = next]

(***************************************************************************)
(* The kernel's counting semaphore.  The flag's holds MaxWaiters tokens;   *)
(* the bucket's is unbounded, so a count of Many stays what it is.         *)
(***************************************************************************)
Capacity == IF Table THEN Many ELSE MaxWaiters

Filled(c, n) == IF c + n > Capacity THEN Capacity ELSE c + n

(* xSemaphoreGive, n times; the ones past the capacity are refused.        *)
Give(s, n) == tokens' = [tokens EXCEPT ![s] = Filled(@, n)]

(* xSemaphoreTake with portMAX_DELAY.                                      *)
Taken(c) == IF c = Many THEN Many ELSE c - 1

(* xSemaphoreCreateCounting: a new semaphore, empty.                       *)
CreateSemaphore ==
  \E s \in Sems \ made :
    /\ made' = made \union {s}
    /\ sem' = s

(***************************************************************************)
(* ensure_semaphore of the flag, by a waiter or a notifier.                *)
(***************************************************************************)
AfterEnsure(t) == IF t \in Waiters THEN "loop" ELSE "count"

EnsureLoad(t) ==
  /\ pc[t] = "ensure"
  /\ Goto(t, IF sem # None THEN AfterEnsure(t) ELSE "create")
  /\ UNCHANGED <<object, kernel, history, value, sem, count, old, hold, left>>

(* Mutant: who creates the semaphore does not look at the value again. *)
CreateAndTake(t) ==
  /\ pc[t] = "create"
  /\ \/ sem # None /\ Goto(t, AfterEnsure(t)) /\ UNCHANGED <<sem, made, hold>>
     \/ /\ sem = None
        /\ CreateSemaphore
        /\ Goto(t, IF t \in Waiters THEN "take" ELSE "count")
        /\ hold' = [w \in Waiters |-> IF w = t THEN sem' ELSE hold[w]]
     \/ sem = None /\ UNCHANGED <<sem, made, hold>> /\ Goto(t, "idle")
  /\ UNCHANGED <<object, history, value, tokens, count, old, left>>

(* The critical section: the first one in creates the semaphore, or finds  *)
(* no memory for it, and then the call returns.                            *)
Create(t) ==
  /\ pc[t] = "create"
  /\ \/ sem # None /\ Goto(t, AfterEnsure(t)) /\ UNCHANGED <<sem, made>>
     \/ sem = None /\ CreateSemaphore /\ Goto(t, AfterEnsure(t))
     \/ sem = None /\ UNCHANGED <<sem, made>> /\ Goto(t, "idle")
  /\ UNCHANGED <<object, history, value, tokens, count, old, hold, left>>

(* The destructor, which the caller runs when no task uses the flag, and   *)
(* a new flag in its place.                                                *)
Destroy ==
  /\ ~Table
  /\ \A t \in Tasks : pc[t] = "idle"
  /\ sem' = None
  /\ made' = made \ {sem}
  /\ tokens' = [s \in Sems |-> 0]
  /\ value' = 0
  /\ fresh' = {} /\ told' = FALSE
  /\ UNCHANGED <<object, count, pc, old, hold, left>>

(***************************************************************************)
(* A waiter.  wait(old) returns at once when the value is not old; that    *)
(* call changes nothing and is left out.                                   *)
(***************************************************************************)
Wait(t, o) ==
  /\ pc[t] = "idle"
  /\ value = o
  /\ old' = [old EXCEPT ![t] = o]
  /\ Goto(t, IF Table THEN "loop" ELSE "ensure")
  /\ UNCHANGED <<object, kernel, history, value, sem, count, hold, left>>

(* while (load == old).                                                    *)
Loop(t) ==
  /\ pc[t] = "loop"
  /\ IF value = old[t]
     THEN /\ Goto(t, IF Table THEN "enter" ELSE "take")
          /\ hold' = [hold EXCEPT ![t] = IF Table THEN None ELSE sem]
          /\ UNCHANGED old
     ELSE /\ Goto(t, "idle")
          /\ old' = [old EXCEPT ![t] = 0]
          /\ UNCHANGED hold
  /\ UNCHANGED <<object, kernel, history, value, sem, count, left>>

(* __platform_wait_on_address: the waiter counts itself in ...             *)
Enter(t) ==
  /\ pc[t] = "enter"
  /\ count' = count + 1
  /\ Goto(t, "match")
  /\ UNCHANGED <<object, kernel, history, value, sem, old, hold, left>>

(* ... compares the object with expected, which atomic<T>::wait sets to 0  *)
(* whatever old is ...                                                     *)
Match(t) ==
  /\ pc[t] = "match"
  /\ Goto(t, IF value = 0 THEN "null" ELSE "leave")
  /\ UNCHANGED <<object, kernel, history, value, sem, count, old, hold, left>>

(* ... and gets the bucket's semaphore in three unprotected steps: the     *)
(* null check, the creation, and the load of what it returns.              *)
NullCheck(t) ==
  /\ pc[t] = "null"
  /\ Goto(t, IF sem = None THEN "make" ELSE "fetch")
  /\ UNCHANGED <<object, kernel, history, value, sem, count, old, hold, left>>

Make(t) ==
  /\ pc[t] = "make"
  /\ CreateSemaphore
  /\ Goto(t, "fetch")
  /\ UNCHANGED <<object, history, value, tokens, count, old, hold, left>>

Fetch(t) ==
  /\ pc[t] = "fetch"
  /\ hold' = [hold EXCEPT ![t] = sem]
  /\ Goto(t, "take")
  /\ UNCHANGED <<object, kernel, history, value, sem, count, old, left>>

(* A waiter for the value the object has now uses up a token that was      *)
(* meant for others.                                                       *)
Take(t) ==
  /\ pc[t] = "take"
  /\ tokens[hold[t]] > 0
  /\ tokens' = [tokens EXCEPT ![hold[t]] = Taken(@)]
  /\ Goto(t, IF Table THEN "leave" ELSE "loop")
  /\ IF value = old[t] /\ tokens' # tokens
     THEN fresh' = {} /\ told' = FALSE
     ELSE UNCHANGED history
  /\ hold' = [hold EXCEPT ![t] = None]
  /\ UNCHANGED <<object, value, sem, made, count, old, left>>

(* Mutant: the waiter does not count itself out. *)
LeaveUncounted(t) ==
  /\ pc[t] = "leave"
  /\ Goto(t, "loop")
  /\ UNCHANGED <<object, kernel, history, value, sem, count, old, hold, left>>

Leave(t) ==
  /\ pc[t] = "leave"
  /\ count' = count - 1
  /\ Goto(t, "loop")
  /\ UNCHANGED <<object, kernel, history, value, sem, old, hold, left>>

(***************************************************************************)
(* The notifying side.  test_and_set, clear and the stores of atomic<T>,   *)
(* by a task or an interrupt, when they change the value.                  *)
(***************************************************************************)
Change ==
  /\ flips < MaxFlips
  /\ flips' = flips + 1
  /\ value' = 1 - value
  /\ fresh' = {} /\ told' = FALSE
  /\ UNCHANGED <<kind, kernel, sem, count, pc, old, hold, left>>

(* notify_one and notify_all of the flag.                                  *)
NotifyFlag(t, all) ==
  /\ ~Table
  /\ pc[t] = "idle"
  /\ left' = [left EXCEPT ![t] = IF all THEN 0 ELSE 1]
  /\ fresh' = IF all THEN fresh \union {t} ELSE fresh \ {t}
  /\ Goto(t, "ensure")
  /\ UNCHANGED <<object, kernel, value, sem, count, old, hold, told>>

(* Mutant: notify_all gives as many tokens as there are already. *)
CountFew(t) ==
  /\ pc[t] = "count"
  /\ left' = [left EXCEPT ![t] = IF @ = 1 THEN 1 ELSE tokens[sem]]
  /\ Goto(t, "give")
  /\ UNCHANGED <<object, kernel, history, value, sem, count, old, hold>>

(* uxSemaphoreGetCount, for notify_all; notify_one gives one token.        *)
Count(t) ==
  /\ pc[t] = "count"
  /\ left' = [left EXCEPT ![t] = IF @ = 1 THEN 1 ELSE MaxWaiters - tokens[sem]]
  /\ Goto(t, "give")
  /\ UNCHANGED <<object, kernel, history, value, sem, count, old, hold>>

GiveNext(t) ==
  /\ ~Table
  /\ pc[t] = "give"
  /\ left[t] > 0
  /\ Give(sem, 1)
  /\ left' = [left EXCEPT ![t] = @ - 1]
  /\ UNCHANGED <<object, history, value, sem, made, count, pc, old, hold>>

EndNotify(t) ==
  /\ ~Table
  /\ pc[t] = "give"
  /\ left[t] = 0
  /\ told' = (told \/ t \in fresh)
  /\ fresh' = fresh \ {t}
  /\ Goto(t, "idle")
  /\ UNCHANGED <<object, kernel, value, sem, count, old, hold, left>>

(* __platform_wake_by_address, count 1 or INT_MAX: the two early returns.  *)
NotifyTable(t, all) ==
  /\ Table
  /\ pc[t] = "idle"
  /\ IF count = 0 \/ sem = None
     THEN UNCHANGED <<left, pc, fresh>> /\ told' = (told \/ all)
     ELSE /\ left' = [left EXCEPT ![t] = IF all THEN Many ELSE 1]
          /\ fresh' = IF all THEN fresh \union {t} ELSE fresh \ {t}
          /\ Goto(t, "give")
          /\ UNCHANGED told
  /\ UNCHANGED <<object, kernel, value, sem, count, old, hold>>

(* The gives.  The loop loads the bucket's semaphore anew each time, so    *)
(* another one may get tokens before it ends.                              *)
GiveTable(t) ==
  /\ Table
  /\ pc[t] = "give"
  /\ Give(sem, left[t])
  /\ \/ left[t] = Many /\ UNCHANGED <<left, pc, history>>
     \/ /\ told' = (told \/ t \in fresh)
        /\ fresh' = fresh \ {t}
        /\ left' = [left EXCEPT ![t] = 0]
        /\ Goto(t, "idle")
  /\ UNCHANGED <<object, value, sem, made, count, old, hold>>

(* notify_one_isr and notify_all_isr of the flag: without a semaphore they *)
(* do nothing, and no task can be waiting.                                 *)
NotifyFlagIsr(all) ==
  /\ ~Table
  /\ IF sem = None THEN UNCHANGED tokens
                   ELSE Give(sem, IF all THEN MaxWaiters - tokens[sem] ELSE 1)
  /\ told' = (told \/ all)
  /\ UNCHANGED <<object, value, sem, made, count, pc, old, hold, left, fresh>>

(* atomic_notify_one_isr and atomic_notify_all_isr, which need the         *)
(* bucket's semaphore: a token for each waiter counted in.                 *)
NotifyTableIsr(all) ==
  /\ Table
  /\ sem # None
  /\ Give(sem, IF all THEN count ELSE 1)
  /\ told' = (told \/ all)
  /\ UNCHANGED <<object, value, sem, made, count, pc, old, hold, left, fresh>>

Step(t) ==
  \/ EnsureLoad(t) \/ Create(t)
  \/ t \in Waiters /\ (\/ Loop(t) \/ Enter(t) \/ Match(t) \/ NullCheck(t)
                       \/ Make(t) \/ Fetch(t) \/ Take(t) \/ Leave(t))
  \/ t \in Notifiers /\ (\/ Count(t) \/ GiveNext(t) \/ EndNotify(t)
                         \/ GiveTable(t))

Next ==
  \/ \E t \in Tasks : Step(t)
  \/ \E t \in Waiters, o \in {0, 1} : Wait(t, o)
  \/ \E t \in Notifiers, all \in BOOLEAN : NotifyFlag(t, all)
  \/ \E t \in Notifiers, all \in BOOLEAN : NotifyTable(t, all)
  \/ \E all \in BOOLEAN : NotifyFlagIsr(all)
  \/ \E all \in BOOLEAN : NotifyTableIsr(all)
  \/ Change
  \/ Destroy

(* A task inside a call keeps running, and takes a semaphore that stays    *)
(* available.                                                              *)
Spec == Init /\ [][Next]_vars /\ \A t \in Tasks : WF_vars(Step(t))

(***************************************************************************)
(* Properties.                                                             *)
(***************************************************************************)
Places == {"idle", "ensure", "create", "loop", "enter", "match", "null",
           "make", "fetch", "take", "leave", "count", "give"}

ValueTypes ==
  /\ kind \in {"flag", "cold", "warm"}
  /\ value \in {0, 1}
  /\ flips \in 0..MaxFlips
  /\ fresh \subseteq Notifiers
  /\ told \in BOOLEAN

KernelTypes ==
  /\ sem \in Sems \union {None}
  /\ made \subseteq Sems
  /\ tokens \in [Sems -> 0..Capacity]

CallTypes ==
  /\ pc \in [Tasks -> Places]
  /\ old \in [Waiters -> {0, 1}]
  /\ hold \in [Waiters -> Sems \union {None}]
  /\ left \in [Notifiers -> 0..Many]

(* The types: the flag's semaphore never holds more than MaxWaiters        *)
(* tokens, and the bucket never counts more waiters than there are.        *)
TypeOK ==
  ValueTypes /\ KernelTypes /\ CallTypes /\ count \in 0..Cardinality(Waiters)

(* The waiters a notification has to wake: those about to block, or        *)
(* blocked, though the value is no longer the one they wait on.  Of an     *)
(* atomic<T> it is so only for a wait on zero, the value its wait compares *)
(* with, in a bucket that had its semaphore.                               *)
Wakeable(t) == kind = "flag" \/ (kind = "warm" /\ old[t] = 0)

Blocked(s) ==
  {t \in Waiters : pc[t] = "take" /\ hold[t] = s /\ old[t] # value /\ Wakeable(t)}

(* No wakeup is lost: after a notify_all that began after the value        *)
(* changed, the semaphore has a token for every waiter the change was for, *)
(* also when the notifier found no semaphore and returned early, or gave   *)
(* while a waiter was between its check and the take                       *)
(* (freertos_atomic.hpp wait and notify_all, up to MaxWaiters waiters).    *)
NoLostWakeup == told => \A s \in Sems : tokens[s] >= Cardinality(Blocked(s))

(* And the waiter does return: of a change that notify_all announced, no   *)
(* waiter stays behind, unless the value changes again or a waiter for the *)
(* new value takes tokens meant for it.                                    *)
WaitReturns ==
  \A t \in Waiters :
    told /\ pc[t] # "idle" /\ old[t] # value /\ Wakeable(t)
      ~> pc[t] = "idle" \/ old[t] = value \/ ~told
=============================================================================
