------------------------------- MODULE CondVar -------------------------------
(***************************************************************************)
(* freertos::condition_variable_any (include/                              *)
(* freertos_condition_variable.hpp) between the consumers and the          *)
(* producers of a queue that can be closed.                                *)
(*                                                                         *)
(* The condition variable is a counting semaphore that starts empty and a  *)
(* count of waiters.  A notification is a token that stays until a waiter  *)
(* takes it.  wait() unlocks before it counts itself and takes: between    *)
(* the two the task holds nothing and is not counted.                      *)
(*                                                                         *)
(* A consumer locks, calls wait(lock, pred) or one of the timed waits with *)
(* a predicate, takes an item if there is one and unlocks.  A producer     *)
(* locks, adds an item or closes the queue, unlocks and notifies.  The     *)
(* interrupt changes the queue without the lock, and its handler is one    *)
(* step: no task runs in the middle of it.                                 *)
(***************************************************************************)
EXTENDS Naturals, FiniteSets

CONSTANTS
  Consumers, Producers,
  NoTask,      (* "no owner" of the lock                                 *)
  MaxWaiters,  (* FREERTOS_CPP_WRAPPERS_CONDITION_VARIABLE_MAX_WAITERS   *)
  MaxItems     (* bound: items in the queue                              *)

ASSUME TasksAssumption ==
  /\ IsFiniteSet(Consumers \cup Producers) /\ Consumers \cap Producers = {}
  /\ NoTask \notin Consumers \cup Producers
ASSUME MaxAssumption == MaxWaiters \in Nat \ {0} /\ MaxItems \in Nat \ {0}

VARIABLES
  tokens,      (* count of m_semaphore                                   *)
  waiters,     (* m_waiter_count                                         *)
  lock,        (* owner of the caller's lock                             *)
  items,       (* client: items in the queue                             *)
  closed,      (* client: who closed it, if anyone                       *)
  pc,          (* where each task is                                     *)
  timed,       (* the consumer called wait_for or wait_until             *)
  expired,     (* its xSemaphoreTake timed out                           *)
  gives        (* tokens that a notification has still to give           *)

vars == <<tokens, waiters, lock, items, closed, pc, timed, expired, gives>>

cv     == <<tokens, waiters>>
client == <<items, closed>>
locals == <<timed, expired, gives>>

Tasks == Consumers \cup Producers

Goto(t, from, to) == pc[t] = from /\ pc' = [pc EXCEPT ![t] = to]

Acquire(t) == lock = NoTask /\ lock' = t
Release(t) == lock = t /\ lock' = NoTask

AddTokens(n) ==
  tokens' = IF tokens + n < MaxWaiters THEN tokens + n ELSE MaxWaiters

(* The predicate that the consumers wait for. *)
Ready == items > 0 \/ closed # "open"

Init ==
  /\ tokens = 0
  /\ waiters = 0
  /\ lock = NoTask
  /\ items = 0
  /\ closed = "open"
  /\ pc = [t \in Tasks |-> "idle"]
  /\ timed = [t \in Consumers |-> FALSE]
  /\ expired = [t \in Consumers |-> FALSE]
  /\ gives = [t \in Producers |-> 0]

-----------------------------------------------------------------------------
(* Waiting.                                                                *)

Consume(t) ==
  /\ Goto(t, "idle", "test")
  /\ Acquire(t)
  /\ \E b \in BOOLEAN : timed' = [timed EXCEPT ![t] = b]
  /\ UNCHANGED <<cv, client, expired, gives>>

(* The predicate holds, or the deadline of a timed wait has passed: the    *)
(* wait returns, with the lock.                                            *)
Return(t) ==
  /\ Goto(t, "test", "served")
  /\ Ready \/ timed[t]
  /\ UNCHANGED <<cv, lock, client, locals>>

(* The predicate does not hold: wait(lock) starts by unlocking. *)
Unlock(t) ==
  /\ Goto(t, "test", "count")
  /\ ~Ready
  /\ Release(t)
  /\ expired' = [expired EXCEPT ![t] = FALSE]
  /\ UNCHANGED <<cv, client, timed, gives>>

(* The assertion on the waiters, and then the increment: two steps.  A     *)
(* failed configASSERT stops the task.                                     *)
Assert(t) ==
  /\ Goto(t, "count", IF waiters < MaxWaiters THEN "add" ELSE "asserted")
  /\ UNCHANGED <<cv, lock, client, locals>>

Add(t) ==
  /\ Goto(t, "add", "take")
  /\ waiters' = waiters + 1
  /\ UNCHANGED <<tokens, lock, client, locals>>

Take(t) ==
  /\ Goto(t, "take", "sub")
  /\ tokens > 0
  /\ tokens' = tokens - 1
  /\ UNCHANGED <<waiters, lock, client, locals>>

TakeTimeout(t) ==
  /\ Goto(t, "take", "sub")
  /\ tokens = 0 /\ timed[t]
  /\ expired' = [expired EXCEPT ![t] = TRUE]
  /\ UNCHANGED <<cv, lock, client, timed, gives>>

(* Mutant: a wait that timed out does not count itself out. *)
SubUnlessExpired(t) ==
  /\ Goto(t, "sub", "relock")
  /\ waiters' = IF expired[t] THEN waiters ELSE waiters - 1
  /\ UNCHANGED <<tokens, lock, client, locals>>

Sub(t) ==
  /\ Goto(t, "sub", "relock")
  /\ waiters' = waiters - 1
  /\ UNCHANGED <<tokens, lock, client, locals>>

(* Mutant: a wait that timed out returns without the lock. *)
RelockUnlessExpired(t) ==
  /\ Goto(t, "relock", IF expired[t] THEN "served" ELSE "test")
  /\ IF expired[t] THEN UNCHANGED lock ELSE Acquire(t)
  /\ UNCHANGED <<cv, client, locals>>

(* lock.lock(); a wait that timed out then returns what pred() says, every *)
(* other one tests it again.                                               *)
Relock(t) ==
  /\ Goto(t, "relock", IF expired[t] THEN "served" ELSE "test")
  /\ Acquire(t)
  /\ UNCHANGED <<cv, client, locals>>

(* Client: a consumer takes an item, if that is why it was served. *)
Leave(t) ==
  /\ Goto(t, "served", "idle")
  /\ Release(t)
  /\ items' = IF items > 0 THEN items - 1 ELSE items
  /\ UNCHANGED <<cv, closed, locals>>

-----------------------------------------------------------------------------
(* Notifying.                                                              *)

(* Client: a producer adds an item, or closes the queue, under the lock. *)
Produce(p) ==
  /\ Goto(p, "idle", "added")
  /\ Acquire(p)
  /\ items < MaxItems
  /\ items' = items + 1
  /\ UNCHANGED <<cv, closed, locals>>

Close(p) ==
  /\ Goto(p, "idle", "closing")
  /\ Acquire(p)
  /\ closed = "open"
  /\ closed' = "task"
  /\ UNCHANGED <<cv, items, locals>>

Unlocked(p) ==
  /\ \/ Goto(p, "added", "notify_one")
     \/ Goto(p, "closing", "notify_all")
  /\ Release(p)
  /\ UNCHANGED <<cv, client, locals>>

(* Mutant: notify_one notifies only tasks that are counted already. *)
NotifyOneCounted(p) ==
  /\ Goto(p, "notify_one", "idle")
  /\ IF waiters > 0 THEN AddTokens(1) ELSE UNCHANGED tokens
  /\ UNCHANGED <<waiters, lock, client, locals>>

(* notify_one and notify_one_ex: a full semaphore refuses the token. *)
NotifyOne(p) ==
  /\ Goto(p, "notify_one", "idle")
  /\ AddTokens(1)
  /\ UNCHANGED <<waiters, lock, client, locals>>

(* notify_all and notify_all_ex read the count of waiters once... *)
NotifyAll(p) ==
  /\ Goto(p, "notify_all", IF waiters = 0 THEN "idle" ELSE "giving")
  /\ gives' = [gives EXCEPT ![p] =
                 IF waiters < MaxWaiters THEN waiters ELSE MaxWaiters]
  /\ UNCHANGED <<cv, lock, client, timed, expired>>

(* Mutant: the loop gives one token more. *)
GiveOneMore(p) ==
  /\ Goto(p, "giving", IF gives[p] = 0 THEN "idle" ELSE "giving")
  /\ AddTokens(1)
  /\ gives' = [gives EXCEPT ![p] = @ - 1]
  /\ UNCHANGED <<waiters, lock, client, timed, expired>>

(* ... and give as many tokens, one at a time. *)
GiveNext(p) ==
  /\ Goto(p, "giving", IF gives[p] = 1 THEN "idle" ELSE "giving")
  /\ AddTokens(1)
  /\ gives' = [gives EXCEPT ![p] = @ - 1]
  /\ UNCHANGED <<waiters, lock, client, timed, expired>>

(* The interrupt adds an item and calls notify_one_isr. *)
IsrProduce ==
  /\ items < MaxItems
  /\ items' = items + 1
  /\ AddTokens(1)
  /\ UNCHANGED <<waiters, lock, closed, pc, locals>>

(* Mutant: the handler gives as many tokens as tasks are counted. *)
IsrCloseCounted ==
  /\ closed # "isr"
  /\ closed' = "isr"
  /\ AddTokens(waiters)
  /\ UNCHANGED <<waiters, lock, items, pc, locals>>

(* The interrupt closes the queue and calls notify_all_isr, which gives    *)
(* MaxWaiters tokens whoever waits.                                        *)
IsrClose ==
  /\ closed # "isr"
  /\ closed' = "isr"
  /\ AddTokens(MaxWaiters)
  /\ UNCHANGED <<waiters, lock, items, pc, locals>>

-----------------------------------------------------------------------------
Consumer(t) ==
  \/ Return(t) \/ Unlock(t) \/ Assert(t) \/ Add(t) \/ Take(t)
  \/ TakeTimeout(t) \/ Sub(t) \/ Relock(t) \/ Leave(t)

Producer(p) == Unlocked(p) \/ NotifyOne(p) \/ NotifyAll(p) \/ GiveNext(p)

Next ==
  \/ \E t \in Consumers : Consume(t) \/ Consumer(t)
  \/ \E p \in Producers : Produce(p) \/ Close(p) \/ Producer(p)
  \/ IsrProduce \/ IsrClose

Spec == Init /\ [][Next]_vars

(* Every task keeps running.  Tasks of one priority wait for a lock or a   *)
(* token in the order they came, so none is passed over for ever.          *)
Fairness ==
  /\ \A t \in Consumers :
       /\ WF_vars(Consumer(t))
       /\ SF_vars(Take(t))
       /\ SF_vars(Relock(t))
  /\ \A p \in Producers : WF_vars(Producer(p))

LiveSpec == Spec /\ Fairness

-----------------------------------------------------------------------------
(* Properties.                                                             *)

PCs == {"idle", "test", "count", "asserted", "add", "take", "sub", "relock",
        "served", "added", "closing", "notify_one", "notify_all", "giving"}

TypeOK ==
  /\ tokens \in 0..MaxWaiters
  /\ waiters \in Nat
  /\ lock \in Tasks \cup {NoTask}
  /\ items \in 0..MaxItems
  /\ closed \in {"open", "task", "isr"}
  /\ pc \in [Tasks -> PCs]
  /\ timed \in [Consumers -> BOOLEAN]
  /\ expired \in [Consumers -> BOOLEAN]
  /\ gives \in [Producers -> 0..MaxWaiters]

Counted == {t \in Consumers : pc[t] \in {"take", "sub"}}

(* Woken, timed out or blocked, the tasks inside the take are exactly      *)
(* those that the count says, so that notify_all gives no token too many   *)
(* after a timeout and none too few after a wakeup.                        *)
CountAccurate == waiters = Cardinality(Counted)

(* Whoever looks at the predicate holds the lock, on the first test, after *)
(* a wakeup and after a timeout.                                           *)
LockedWhenTested ==
  \A t \in Tasks : pc[t] \in {"test", "served", "added", "closing"} <=> lock = t

(* Consumers on their way to a token, those on their way to an item, and   *)
(* producers that owe a notification.                                      *)
Blocking  == {t \in Consumers : pc[t] \in {"count", "add", "take"}}
Awake     == {t \in Consumers : pc[t] \in {"sub", "relock", "test", "served"}}
Notifying == {p \in Producers : pc[p] \in {"added", "notify_one"}}

(* No notification is lost, timeouts and tokens that a full semaphore      *)
(* refuses included.  Every item has a token, a consumer that is up or a   *)
(* notification to come, unless every consumer that may block has a token; *)
(* after notify_all_isr each of them has one, counted or not.  The         *)
(* consumers are no more than the condition variable is configured for.    *)
NotificationsCovered ==
  Cardinality(Consumers) <= MaxWaiters =>
    /\ \/ items <= tokens + Cardinality(Awake) + Cardinality(Notifying)
       \/ Cardinality(Blocking) <= tokens
    /\ closed = "isr" => Cardinality(Blocking) <= tokens

(* notify_one loses no wakeup: a consumer that was between the unlock and  *)
(* the take when its item was added finds the token there.  notify_all_isr *)
(* loses none either, because it does not look at the count and leaves a   *)
(* token for each task that may still be on its way.                       *)
NotificationsSeen ==
  \A t \in Consumers :
    /\ (pc[t] = "take" /\ items > 0) ~> (pc[t] # "take" \/ items = 0)
    /\ (pc[t] = "take" /\ closed = "isr") ~> pc[t] # "take"

(* The same for notify_all: every task that waits when the queue is closed *)
(* is woken.                                                               *)
CloseSeen ==
  \A t \in Consumers : (pc[t] = "take" /\ closed # "open") ~> pc[t] # "take"
=============================================================================
