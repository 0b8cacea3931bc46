------------------------------ MODULE MCOnceFlag ------------------------------
(***************************************************************************)
(* TLC instance of OnceFlag: the function throws at most MaxThrows times,  *)
(* and two history variables remember how many attempts threw, in all and  *)
(* when each task made its current call.                                   *)
(***************************************************************************)
EXTENDS OnceFlag

CONSTANT MaxThrows   (* bound: attempts that throw *)

VARIABLES
  throws,      (* attempts that threw so far                            *)
  since        (* its value when a task called call_once                *)

mcVars == <<OFvars, throws, since>>

MCInit == OFInit /\ throws = 0 /\ since = [t \in Tasks |-> 0]

CallNoted(t) ==
  /\ Call(t)
  /\ since' = [since EXCEPT ![t] = throws]
  /\ UNCHANGED throws

BoundedThrow(t) ==
  /\ throws < MaxThrows
  /\ Throw(t)
  /\ throws' = throws + 1
  /\ UNCHANGED since

RunStep(t) == Step(t) /\ UNCHANGED <<throws, since>>

MCNext == \E t \in Tasks : CallNoted(t) \/ BoundedThrow(t) \/ RunStep(t)

(* Every task keeps running, and the function ends. *)
MCSpec ==
  /\ MCInit
  /\ [][MCNext]_mcVars
  /\ \A t \in Tasks : WF_mcVars(RunStep(t))

(* A call returns without the function having been completed only to a     *)
(* task that waited for, or ran, an attempt that threw: a token left over  *)
(* by an earlier attempt lets nobody through.                              *)
ReturnsForCause ==
  [][\A t \in Tasks :
       pc[t] \in {"check", "recheck"} /\ pc'[t] = "idle" =>
         state = 2 \/ throws > since[t]]_mcVars

(* Every call returns, as long as at most MaxWaiters tasks lose the race:  *)
(* the winner's gives, refused ones included, leave a token for each.      *)
EveryCallReturns == \A t \in Tasks : pc[t] # "idle" ~> pc[t] = "idle"
=============================================================================
