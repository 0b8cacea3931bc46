---------------------------- MODULE MCSharedMutex ----------------------------
(***************************************************************************)
(* TLC instance of SharedMutex.  The number of calls each task makes is    *)
(* bounded, so that weak fairness of the steps is enough for liveness:     *)
(* after the last call nobody can steal a slot for ever, and a call that   *)
(* never returns is a real deadlock or a lost slot.  The system stops when *)
(* the calls are used up.                                                  *)
(***************************************************************************)
EXTENDS SharedMutex

CONSTANT MaxCalls    (* bound: calls per task *)

VARIABLE calls       (* calls each task has made *)

MCInit == Init /\ calls = [t \in Tasks |-> 0]

BudgetedCall(t) ==
  /\ Call(t)
  /\ calls[t] < MaxCalls
  /\ calls' = [calls EXCEPT ![t] = @ + 1]

RunStep(t) == Step(t) /\ UNCHANGED calls

MCNext == \E t \in Tasks : BudgetedCall(t) \/ RunStep(t)

(* Every task keeps running, and every owner eventually unlocks. *)
MCSpec ==
  /\ MCInit
  /\ [][MCNext]_<<vars, calls>>
  /\ \A t \in Tasks : WF_<<vars, calls>>(RunStep(t))

(* Every lock, try_lock, lock_shared ... returns, with or without the      *)
(* lock, and every unlock returns: writers that collect slots one by one   *)
(* cannot block each other, because the mutex lets one of them collect.    *)
EveryCallReturns ==
  \A t \in Tasks :
    pc[t] \notin {"idle", "reading", "writing"}
      ~> pc[t] \in {"idle", "reading", "writing"}
=============================================================================
