-------------------------------- MODULE Latch --------------------------------
(***************************************************************************)
(* freertos::latch (include/freertos_latch.hpp), and sa::latch_static,     *)
(* whose semaphore always exists.                                          *)
(*                                                                         *)
(* An atomic counter and a binary semaphore that starts empty.  The        *)
(* arrival that brings the counter to zero gives the semaphore; every      *)
(* blocked task takes it and gives it on to the next one, like a baton.    *)
(* Arrivals are a load and a weak compare-exchange in a loop, made by      *)
(* tasks and by interrupt handlers; each access to shared state is a step. *)
(*                                                                         *)
(* A call with update <= 0 returns at once and changes nothing, so         *)
(* Updates holds the positive ones.                                        *)
(***************************************************************************)
EXTENDS Integers, FiniteSets

CONSTANTS
  Tasks,       (* the tasks using the latch                             *)
  Isrs,        (* interrupt handlers: they count down and never wait    *)
  Expected,    (* the constructor's argument                            *)
  Updates      (* the arguments of count_down                           *)

ASSUME ExpectedAssumption == Expected \in Nat
ASSUME UpdatesAssumption == Updates \subseteq Nat \ {0}

VARIABLES
  valid,       (* m_semaphore != nullptr: its creation may have failed  *)
  counter,     (* m_counter                                             *)
  sem,         (* count of the binary semaphore                         *)
  pc,          (* where each process is in a member function            *)
  prev,        (* local `prev` of the count_down loop                   *)
  update,      (* its argument                                          *)
  waits,       (* the call is arrive_and_wait                           *)
  result       (* what the last count_down_ex returned                  *)

vars == <<valid, counter, sem, pc, prev, update, waits, result>>

Procs == Tasks \cup Isrs

PCs == {"idle", "load", "cas", "give", "check", "take", "baton"}
Results == {"ok", "invalid_handle", "semaphore_not_owned"}

Goto(p, from, to) == pc[p] = from /\ pc' = [pc EXCEPT ![p] = to]

Init ==
  /\ valid \in BOOLEAN
  /\ counter = Expected
  /\ sem = 0
  /\ pc = [p \in Procs |-> "idle"]
  /\ prev = [p \in Procs |-> 0]
  /\ update = [p \in Procs |-> 0]
  /\ waits = [p \in Procs |-> FALSE]
  /\ result = [p \in Procs |-> "ok"]

(* Where count_down returns to: arrive_and_wait goes on to wait(). *)
AfterCountDown(p) == IF waits[p] THEN "check" ELSE "idle"

-----------------------------------------------------------------------------
(* Arriving.                                                               *)

CountDown(p) ==
  /\ Goto(p, "idle", "load")
  /\ \E n \in Updates : update' = [update EXCEPT ![p] = n]
  /\ waits' \in {[waits EXCEPT ![p] = b] :
                   b \in IF p \in Tasks THEN BOOLEAN ELSE {FALSE}}
  /\ result' = [result EXCEPT ![p] = "ok"]
  /\ UNCHANGED <<valid, counter, sem, prev>>

(* Mutant: an arrival at a counter that is zero does not return. *)
LoadUnchecked(p) ==
  /\ Goto(p, "load", "cas")
  /\ prev' = [prev EXCEPT ![p] = counter]
  /\ UNCHANGED <<valid, counter, sem, update, waits, result>>

Load(p) ==
  /\ Goto(p, "load", IF counter <= 0 THEN AfterCountDown(p) ELSE "cas")
  /\ prev' = [prev EXCEPT ![p] = counter]
  /\ UNCHANGED <<valid, counter, sem, update, waits, result>>

(* Mutant: an update larger than the counter is subtracted as it is. *)
NextCountUnclamped(p) == prev[p] - update[p]

NextCount(p) == IF prev[p] > update[p] THEN prev[p] - update[p] ELSE 0

(* Mutant: a plain store instead of a compare-exchange. *)
StoreCount(p) ==
  /\ Goto(p, "cas", IF NextCount(p) = 0 THEN "give" ELSE AfterCountDown(p))
  /\ counter' = NextCount(p)
  /\ UNCHANGED <<valid, sem, prev, update, waits, result>>

(* Mutant: the waiters are released only when the update hits zero exactly. *)
ExchangeExact(p) ==
  /\ Goto(p, "cas", IF prev[p] = update[p] THEN "give" ELSE AfterCountDown(p))
  /\ counter = prev[p]
  /\ counter' = NextCount(p)
  /\ UNCHANGED <<valid, sem, prev, update, waits, result>>

Exchange(p) ==
  /\ Goto(p, "cas", IF NextCount(p) = 0 THEN "give" ELSE AfterCountDown(p))
  /\ counter = prev[p]
  /\ counter' = NextCount(p)
  /\ UNCHANGED <<valid, sem, prev, update, waits, result>>

(* The weak exchange lost a race, or failed spuriously: the loop reloads. *)
ExchangeFails(p) ==
  /\ Goto(p, "cas", "load")
  /\ UNCHANGED <<valid, counter, sem, prev, update, waits, result>>

(* The arrival that reached zero releases the waiters.  A full binary      *)
(* semaphore refuses the give, which only count_down_ex reports.           *)
Give(p) ==
  /\ Goto(p, "give", AfterCountDown(p))
  /\ sem' = IF valid THEN 1 ELSE sem
  /\ result' = [result EXCEPT ![p] =
                  IF ~valid THEN "invalid_handle"
                  ELSE IF sem = 1 THEN "semaphore_not_owned" ELSE "ok"]
  /\ UNCHANGED <<valid, counter, prev, update, waits>>

-----------------------------------------------------------------------------
(* Waiting.                                                                *)

Wait(t) ==
  /\ Goto(t, "idle", "check")
  /\ UNCHANGED <<valid, counter, sem, prev, update, waits, result>>

(* wait() and try_wait() look at the counter; a latch without a semaphore  *)
(* does not block.                                                         *)
Check(t) ==
  /\ Goto(t, "check", IF counter = 0 \/ ~valid THEN "idle" ELSE "take")
  /\ UNCHANGED <<valid, counter, sem, prev, update, waits, result>>

Take(t) ==
  /\ Goto(t, "take", "baton")
  /\ sem = 1
  /\ sem' = 0
  /\ UNCHANGED <<valid, counter, prev, update, waits, result>>

(* Mutant: a released waiter keeps the baton. *)
KeepBaton(t) ==
  /\ Goto(t, "baton", "idle")
  /\ UNCHANGED <<valid, counter, sem, prev, update, waits, result>>

PassBaton(t) ==
  /\ Goto(t, "baton", "idle")
  /\ sem' = 1
  /\ UNCHANGED <<valid, counter, prev, update, waits, result>>

-----------------------------------------------------------------------------
Arrival(p) ==
  CountDown(p) \/ Load(p) \/ Exchange(p) \/ ExchangeFails(p) \/ Give(p)

Waiting(t) == Wait(t) \/ Check(t) \/ Take(t) \/ PassBaton(t)

Next == (\E p \in Procs : Arrival(p)) \/ (\E t \in Tasks : Waiting(t))

Spec == Init /\ [][Next]_vars

(* The scheduler runs every task that is ready: a task does not stop       *)
(* between a compare-exchange and its give, nor with the baton in hand.    *)
Fairness ==
  /\ \A p \in Procs : WF_vars(Give(p))
  /\ \A t \in Tasks : WF_vars(Take(t)) /\ WF_vars(PassBaton(t))

LiveSpec == Spec /\ Fairness

-----------------------------------------------------------------------------
(* Properties.                                                             *)

TypeOK ==
  /\ valid \in BOOLEAN
  /\ counter \in 0..Expected
  /\ sem \in 0..1
  /\ pc \in [Procs -> PCs]
  /\ prev \in [Procs -> 0..Expected]
  /\ update \in [Procs -> Updates \cup {0}]
  /\ waits \in [Procs -> BOOLEAN]
  /\ result \in [Procs -> Results]

(* The processes that owe the semaphore a give. *)
Holders == {p \in Procs : pc[p] \in {"give", "baton"}}

(* There is one baton: none before the counter reaches zero, and then it   *)
(* is for ever either in the semaphore or in the hands of one process, so  *)
(* no waiter is released early and none finds the baton lost.              *)
OneBaton ==
  /\ counter > 0 => sem = 0 /\ Holders = {}
  /\ sem = 1 => Holders = {}
  /\ \A p, q \in Holders : p = q
  /\ valid /\ counter = 0 /\ Expected > 0 => sem = 1 \/ Holders # {}

(* count_down_ex fails only on a latch without a semaphore: whatever the   *)
(* race between arrivals and waiters, the give that it reports as          *)
(* semaphore_not_owned is never refused.                                   *)
NeverRefused == \A p \in Procs : result[p] # "ok" => ~valid

(* Once the last arrival is in, every blocked waiter returns, although     *)
(* only one give was made for all of them.                                 *)
WaitersReturn ==
  \A t \in Tasks : (pc[t] = "take" /\ counter = 0) ~> pc[t] = "idle"

(* Lost races and reloads included, the latch counts like one that         *)
(* arrivals update atomically, and releases nobody before zero.            *)
Blocked == {t \in Tasks : pc[t] \in {"take", "baton"}}

Std == INSTANCE StdLatch WITH waiting <- Blocked

ImplementsStdLatch == Std!Spec
=============================================================================
