------------------------------- MODULE OnceFlag -------------------------------
(***************************************************************************)
(* freertos::once_flag and call_once (include/freertos_once_flag.hpp), and *)
(* sa::once_flag_static, which creates its semaphore under a critical      *)
(* section instead of with the scheduler suspended.                        *)
(*                                                                         *)
(* The task whose compare-exchange moves the state from 0 to 1 runs the    *)
(* function; when it is done (2), or threw (back to 0), it gives the       *)
(* counting semaphore MaxWaiters times.  The other tasks take tokens until *)
(* they see a state that is not 1.  The semaphore is created by whoever    *)
(* needs it first; tokens are never taken back, so an attempt that threw   *)
(* leaves its tokens to the waiters of the next one.                       *)
(*                                                                         *)
(* Init, Next, Spec, TypeOK and vars have the prefix OF: the proofs of     *)
(* OnceFlag and SwTimer are in one module, which extends both.             *)
(***************************************************************************)
EXTENDS Naturals, FiniteSets

CONSTANTS
  Tasks,       (* the tasks that call call_once                          *)
  MaxWaiters   (* FREERTOS_CPP_WRAPPERS_ONCE_FLAG_MAX_WAITERS            *)

ASSUME CallersAssumption == IsFiniteSet(Tasks)
ASSUME MaxWaitersAssumption == MaxWaiters \in Nat \ {0}

VARIABLES
  state,       (* m_state: 0 not called, 1 running, 2 done               *)
  created,     (* m_semaphore exists                                     *)
  tokens,      (* its count                                              *)
  pc,          (* where each task is in call_once                        *)
  given        (* local i of the give loop                               *)

OFvars == <<state, created, tokens, pc, given>>

PCs == {"idle", "check", "claim", "create_run", "run", "give",
        "create_wait", "take", "recheck"}

Goto(t, from, to) == pc[t] = from /\ pc' = [pc EXCEPT ![t] = to]

OFInit ==
  /\ state = 0
  /\ created = FALSE
  /\ tokens = 0
  /\ pc = [t \in Tasks |-> "idle"]
  /\ given = [t \in Tasks |-> 0]

Call(t) == Goto(t, "idle", "check") /\ UNCHANGED <<state, created, tokens, given>>

(* The two loads of the fast path, in call_once and again in do_call: the  *)
(* state does not leave 2, so the second one decides.                      *)
Check(t) ==
  /\ Goto(t, "check", IF state = 2 THEN "idle" ELSE "claim")
  /\ UNCHANGED <<state, created, tokens, given>>

(* Mutant: any state but "done" can be claimed. *)
ClaimRunning(t) ==
  /\ Goto(t, "claim", IF state # 2 THEN "create_run" ELSE "create_wait")
  /\ state' = IF state # 2 THEN 1 ELSE state
  /\ UNCHANGED <<created, tokens, given>>

(* Mutant: the winner does not create the semaphore. *)
ClaimAndRun(t) ==
  /\ Goto(t, "claim", IF state = 0 THEN "run" ELSE "create_wait")
  /\ state' = IF state = 0 THEN 1 ELSE state
  /\ UNCHANGED <<created, tokens, given>>

(* The compare-exchange from 0 to 1. *)
Claim(t) ==
  /\ Goto(t, "claim", IF state = 0 THEN "create_run" ELSE "create_wait")
  /\ state' = IF state = 0 THEN 1 ELSE state
  /\ UNCHANGED <<created, tokens, given>>

(* ensure_semaphore: check and creation exclude the other tasks. *)
EnsureSemaphore(t) ==
  /\ \/ Goto(t, "create_run", "run")
     \/ Goto(t, "create_wait", "take")
  /\ created' = TRUE
  /\ tokens' = IF created THEN tokens ELSE 0
  /\ UNCHANGED <<state, given>>

(* The function ends, and the state says how: 2 if it returned, 0 if it    *)
(* threw.  An exception is rethrown after the gives.                       *)
EndRun(t, s) ==
  /\ Goto(t, "run", "give")
  /\ state' = s
  /\ given' = [given EXCEPT ![t] = 0]
  /\ UNCHANGED <<created, tokens>>

Complete(t) == EndRun(t, 2)
Throw(t)  == EndRun(t, 0)

(* Mutant: only one waiter is woken. *)
GiveOnce(t) ==
  /\ Goto(t, "give", "idle")
  /\ tokens' = IF tokens < MaxWaiters THEN tokens + 1 ELSE tokens
  /\ given' = [given EXCEPT ![t] = @ + 1]
  /\ UNCHANGED <<state, created>>

(* Mutant: the loop makes one give too many. *)
GiveTooMany(t) ==
  /\ Goto(t, "give", IF given[t] = MaxWaiters THEN "idle" ELSE "give")
  /\ tokens' = IF tokens < MaxWaiters THEN tokens + 1 ELSE tokens
  /\ given' = [given EXCEPT ![t] = @ + 1]
  /\ UNCHANGED <<state, created>>

(* One xSemaphoreGive of the loop; a full semaphore refuses it. *)
Give(t) ==
  /\ Goto(t, "give", IF given[t] + 1 = MaxWaiters THEN "idle" ELSE "give")
  /\ tokens' = IF tokens < MaxWaiters THEN tokens + 1 ELSE tokens
  /\ given' = [given EXCEPT ![t] = @ + 1]
  /\ UNCHANGED <<state, created>>

Take(t) ==
  /\ Goto(t, "take", "recheck")
  /\ tokens > 0
  /\ tokens' = tokens - 1
  /\ UNCHANGED <<state, created, given>>

(* Mutant: a waiter returns on any token, as if none could be stale. *)
RecheckNothing(t) ==
  /\ Goto(t, "recheck", "idle")
  /\ UNCHANGED <<state, created, tokens, given>>

Recheck(t) ==
  /\ Goto(t, "recheck", IF state # 1 THEN "idle" ELSE "take")
  /\ UNCHANGED <<state, created, tokens, given>>

(* The steps of a call; the function itself may take any time. *)
Step(t) ==
  \/ Check(t) \/ Claim(t) \/ EnsureSemaphore(t) \/ Complete(t)
  \/ Give(t) \/ Take(t) \/ Recheck(t)

OFNext == \E t \in Tasks : Call(t) \/ Step(t) \/ Throw(t)

OFSpec == OFInit /\ [][OFNext]_OFvars

-----------------------------------------------------------------------------
(* Properties.                                                             *)

OFTypeOK ==
  /\ state \in 0..2
  /\ created \in BOOLEAN
  /\ tokens \in 0..MaxWaiters
  /\ pc \in [Tasks -> PCs]
  /\ given \in [Tasks -> 0..MaxWaiters]

Running == {t \in Tasks : pc[t] \in {"create_run", "run"}}

(* The function is never run by two tasks at once, nor again once it has   *)
(* returned: whatever is retried after an exception, state 1 is one task.  *)
OneRunner ==
  /\ \A t, u \in Running : t = u
  /\ state = 1 <=> Running # {}

(* The tasks that lost the race, or will, and have no token yet.           *)
Losing ==
  {t \in Tasks : pc[t] \in {"create_wait", "take"} \/ (pc[t] = "claim" /\ state = 2)}

(* Once an attempt has ended there is a token for every loser, or there    *)
(* will be when one of the give loops is through: tokens that are refused, *)
(* left over from an earlier attempt or taken by a task that has to wait   *)
(* again never make them too few.  The winner and MaxWaiters losers are    *)
(* as many tasks as the flag is configured for.                            *)
LosersCovered ==
  state # 1 /\ Cardinality(Tasks) <= MaxWaiters + 1 =>
    \/ Cardinality(Losing) <= tokens
    \/ \E t \in Tasks :
         pc[t] = "give" /\ Cardinality(Losing) <= tokens + (MaxWaiters - given[t])
=============================================================================
