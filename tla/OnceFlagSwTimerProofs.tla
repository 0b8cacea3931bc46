------------------------- MODULE OnceFlagSwTimerProofs -------------------------
(***************************************************************************)
(* Proofs about two components whose specifications share no names.        *)
(*                                                                         *)
(* OnceFlag, for every set of tasks and every MaxWaiters, any number of    *)
(* attempts that throw.  OneRunner is inductive with the types; that a     *)
(* call returns for a cause needs that a waiter which has not yet seen an  *)
(* attempt fail sees state 0 only if one failed after it called.  That     *)
(* there is a token for every loser is inductive because no task loses the *)
(* race for an attempt that has ended, but for those before the            *)
(* compare-exchange, who are counted among the losers.                     *)
(*                                                                         *)
(* Proofs about SwTimer, for any number of objects, callbacks and kernel   *)
(* timers.                                                                 *)
(*                                                                         *)
(* FiresOwnCallback speaks of running timers only, so it is not inductive: *)
(* a dormant timer may be started.  Linked says it of every timer that an  *)
(* object owns, and Assigning says what is known of the new timer while    *)
(* it has no owner.                                                        *)
(***************************************************************************)
EXTENDS MCOnceFlag, SwTimer, FiniteSetTheorems, TLAPS

-----------------------------------------------------------------------------
(* The once_flag.                                                          *)

(* The give loop stops at MaxWaiters: its counter is below it inside.      *)
GiveLoopBound == \A t \in Tasks : pc[t] = "give" => given[t] < MaxWaiters

(* The lazily created semaphore exists whenever a task gives or takes it,  *)
(* winner and losers racing to create it included.                         *)
SemaphoreExists ==
  \A t \in Tasks : pc[t] \in {"run", "give", "take", "recheck"} => created

OFInv == OFTypeOK /\ OneRunner /\ SemaphoreExists /\ GiveLoopBound

(* The initial states of the flag satisfy its invariant.                   *)
LEMMA OFInitInv ==
  ASSUME OFInit
  PROVE  OFInv
<1> USE MaxWaitersAssumption DEF OFInit
<1>1. OFTypeOK
  <2>1. 0 \in 0..MaxWaiters /\ 0 \in 0..2
    OBVIOUS
  <2>2. pc \in [Tasks -> PCs] /\ created \in BOOLEAN
    BY DEF PCs
  <2> QED BY <2>1, <2>2 DEF OFTypeOK
<1>2. Running = {}
  BY DEF Running
<1>3. OneRunner
  BY <1>2 DEF OneRunner
<1>4. SemaphoreExists /\ GiveLoopBound
  BY DEF SemaphoreExists, GiveLoopBound
<1> QED BY <1>1, <1>3, <1>4 DEF OFInv

(* Steps that move no task in or out of the function and leave the state.  *)
LEMMA RunnerStays ==
  ASSUME OneRunner, Running' = Running, state' = state
  PROVE  OneRunner'
BY DEF OneRunner

(* Every step of a call preserves it.                                      *)
LEMMA OFNextInv ==
  ASSUME OFInv, [OFNext]_OFvars
  PROVE  OFInv'
<1> USE MaxWaitersAssumption DEF OFInv, Goto
<1>1. ASSUME NEW t \in Tasks,
             Call(t) \/ Check(t) \/ EnsureSemaphore(t)
               \/ Take(t) \/ Recheck(t)
      PROVE  OFInv'
  <2>1. OFTypeOK'
    <3>1. CASE Call(t) \/ Check(t) \/ Recheck(t)
      BY <3>1 DEF Call, Check, Recheck, OFTypeOK, PCs
    <3>2. CASE EnsureSemaphore(t)
      BY <3>2 DEF EnsureSemaphore, OFTypeOK, PCs
    <3>3. CASE Take(t)
      BY <3>3 DEF Take, OFTypeOK, PCs
    <3> QED BY <1>1, <3>1, <3>2, <3>3
  <2>2. Running' = Running /\ state' = state
    BY <1>1 DEF Call, Check, EnsureSemaphore, Take,
                   Recheck, OFTypeOK, Running
  <2>3. OneRunner'
    BY <2>2, RunnerStays
  <2>4. SemaphoreExists' /\ GiveLoopBound'
    BY <1>1
       DEF Call, Check, EnsureSemaphore, Take,
           Recheck, OFTypeOK, SemaphoreExists, GiveLoopBound
  <2> QED BY <2>1, <2>3, <2>4
<1>2. ASSUME NEW t \in Tasks, Claim(t) PROVE OFInv'
  <2>1. OFTypeOK'
    BY <1>2 DEF Claim, OFTypeOK, PCs
  <2>2. ASSUME state = 0 PROVE OneRunner'
    <3>1. Running = {}
      BY <2>2 DEF OneRunner
    <3>2. Running' = {t}
      BY <1>2, <2>2, <3>1 DEF Claim, OFTypeOK, Running
    <3> QED BY <1>2, <2>2, <3>2 DEF Claim, OneRunner
  <2>3. ASSUME state # 0 PROVE OneRunner'
    <3>1. Running' = Running /\ state' = state
      BY <1>2, <2>3 DEF Claim, OFTypeOK, Running
    <3> QED BY <3>1, RunnerStays
  <2>4. SemaphoreExists' /\ GiveLoopBound'
    BY <1>2 DEF Claim, OFTypeOK, SemaphoreExists, GiveLoopBound
  <2> QED BY <2>1, <2>2, <2>3, <2>4
<1>3. ASSUME NEW t \in Tasks, Complete(t) \/ Throw(t) PROVE OFInv'
  <2>1. PICK s \in {0, 2} : EndRun(t, s)
    BY <1>3 DEF Complete, Throw
  <2>2. OFTypeOK'
    BY <2>1 DEF EndRun, OFTypeOK, PCs
  <2>3. Running = {t}
    BY <2>1 DEF EndRun, OneRunner, Running
  <2>4. Running' = {}
    BY <2>1, <2>3 DEF EndRun, OFTypeOK, Running
  <2>5. OneRunner'
    BY <2>1, <2>4 DEF EndRun, OneRunner
  <2>6. SemaphoreExists' /\ GiveLoopBound'
    BY <2>1 DEF EndRun, OFTypeOK, SemaphoreExists, GiveLoopBound
  <2> QED BY <2>2, <2>5, <2>6
<1>4. ASSUME NEW t \in Tasks, Give(t) PROVE OFInv'
  <2>1. given[t] < MaxWaiters /\ given[t] \in Nat
    BY <1>4 DEF Give, GiveLoopBound, OFTypeOK
  <2>2. OFTypeOK'
    BY <1>4, <2>1 DEF Give, OFTypeOK, PCs
  <2>3. Running' = Running /\ state' = state
    BY <1>4 DEF Give, OFTypeOK, Running
  <2>4. OneRunner'
    BY <2>3, RunnerStays
  <2>5. SemaphoreExists'
    BY <1>4 DEF Give, OFTypeOK, SemaphoreExists
  <2>6. GiveLoopBound'
    BY <1>4, <2>1 DEF Give, OFTypeOK, GiveLoopBound
  <2> QED BY <2>2, <2>4, <2>5, <2>6
<1>5. CASE UNCHANGED OFvars
  <2>1. Running' = Running
    BY <1>5 DEF OFvars, Running
  <2> QED
    BY <1>5, <2>1, RunnerStays
       DEF OFvars, OFTypeOK, SemaphoreExists, GiveLoopBound
<1> QED
  BY <1>1, <1>2, <1>3, <1>4, <1>5 DEF OFNext, Step

(* The invariant holds in every reachable state.                           *)
LEMMA OFSpecInv == OFSpec => []OFInv
BY OFInitInv, OFNextInv, PTL DEF OFSpec

(* Counters and program points keep their types.                           *)
THEOREM OFTypeCorrect == OFSpec => []OFTypeOK
<1>1. OFInv => OFTypeOK
  BY DEF OFInv
<1> QED BY <1>1, OFSpecInv, PTL

(* At most one task is in the function, and none once it has returned.     *)
THEOREM OnlyOneRunner == OFSpec => []OneRunner
<1>1. OFInv => OneRunner
  BY DEF OFInv
<1> QED BY <1>1, OFSpecInv, PTL

-----------------------------------------------------------------------------
(* A token for every loser.                                                *)

(* A semaphore that does not exist has no tokens.                          *)
NoneBefore == ~created => tokens = 0

(* What LosersCovered promises when an attempt has ended.                  *)
Covered ==
  \/ Cardinality(Losing) <= tokens
  \/ \E t \in Tasks :
       pc[t] = "give" /\ Cardinality(Losing) <= tokens + (MaxWaiters - given[t])

CoverInv == OFInv /\ NoneBefore /\ LosersCovered

(* Tasks can be counted, and all but one are at most MaxWaiters.           *)
LEMMA TasksFew ==
  ASSUME NEW L \in SUBSET Tasks
  PROVE  /\ IsFiniteSet(L) /\ Cardinality(L) \in Nat
         /\ \A t \in Tasks \ L :
              Cardinality(Tasks) <= MaxWaiters + 1 => Cardinality(L) <= MaxWaiters
<1>1. IsFiniteSet(L) /\ Cardinality(L) \in Nat
  BY CallersAssumption, FS_Subset, FS_CardinalityType
<1>2. ASSUME NEW t \in Tasks \ L, Cardinality(Tasks) <= MaxWaiters + 1
      PROVE  Cardinality(L) <= MaxWaiters
  <2>1. /\ IsFiniteSet(Tasks \ {t})
        /\ Cardinality(Tasks \ {t}) = Cardinality(Tasks) - 1
    BY CallersAssumption, FS_RemoveElement
  <2>2. Cardinality(L) <= Cardinality(Tasks \ {t})
    BY <2>1, FS_Subset
  <2>3. Cardinality(Tasks) \in Nat
    BY CallersAssumption, FS_CardinalityType
  <2>4. QED BY <1>1, <1>2, <2>1, <2>2, <2>3, MaxWaitersAssumption
<1>3. QED BY <1>1, <1>2

(* A step that makes no loser, takes no token and stops no give loop.      *)
LEMMA CoverStays ==
  ASSUME Covered, Losing' = Losing, tokens' = tokens,
         \A u \in Tasks : pc[u] = "give" => pc'[u] = "give" /\ given'[u] = given[u]
  PROVE  Covered'
BY DEF Covered

(* Every step keeps enough tokens, or gives to come.                       *)
LEMMA CoverNext ==
  ASSUME CoverInv, [OFNext]_OFvars
  PROVE  CoverInv'
<1> USE MaxWaitersAssumption DEF CoverInv, OFInv, Goto
<1>0. Losing \in SUBSET Tasks
  BY DEF Losing
<1>1. OFInv'
  BY OFNextInv
<1>2. NoneBefore'
  <2>1. ASSUME NEW t \in Tasks, Take(t) \/ Give(t) PROVE NoneBefore'
    BY <2>1 DEF Take, Give, SemaphoreExists, NoneBefore
  <2>2. ASSUME NEW t \in Tasks,
               Call(t) \/ Check(t) \/ Claim(t) \/ EnsureSemaphore(t) \/ Complete(t)
                 \/ Throw(t) \/ Recheck(t)
        PROVE  NoneBefore'
    BY <2>2 DEF Call, Check, Claim, EnsureSemaphore, Complete, Throw, EndRun, Recheck,
                NoneBefore
  <2>3. CASE UNCHANGED OFvars
    BY <2>3 DEF OFvars, NoneBefore
  <2>4. QED BY <2>1, <2>2, <2>3 DEF OFNext, Step
<1>3. LosersCovered'
  <2> SUFFICES ASSUME state' # 1, Cardinality(Tasks) <= MaxWaiters + 1
               PROVE  Covered'
    BY DEF LosersCovered, Covered
  <2>0. state # 1 => Covered
    BY DEF LosersCovered, Covered
  <2>1. ASSUME NEW t \in Tasks,
               Call(t) \/ Check(t) \/ Claim(t) \/ EnsureSemaphore(t) \/ Recheck(t)
        PROVE  Covered'
    <3>1. state # 1
      BY <2>1 DEF Call, Check, Claim, EnsureSemaphore, Recheck
    <3>2. Losing' = Losing
      <4>1. /\ \A u \in Tasks \ {t} : pc'[u] = pc[u]
            /\ state' = state
        BY <2>1 DEF Call, Check, Claim, EnsureSemaphore, Recheck, OFTypeOK
      <4>2. pc[t] # "create_run"
        BY <3>1 DEF OneRunner, Running
      <4>3. t \in Losing' <=> t \in Losing
        BY <2>1, <3>1, <4>1, <4>2
           DEF Call, Check, Claim, EnsureSemaphore, Recheck, OFTypeOK, Losing
      <4>4. QED BY <4>1, <4>3 DEF Losing
    <3>3. tokens' = tokens
      BY <2>1 DEF Call, Check, Claim, EnsureSemaphore, Recheck, NoneBefore
    <3>4. \A u \in Tasks : pc[u] = "give" => pc'[u] = "give" /\ given'[u] = given[u]
      BY <2>1 DEF Call, Check, Claim, EnsureSemaphore, Recheck, OFTypeOK
    <3>5. QED BY <2>0, <3>1, <3>2, <3>3, <3>4, CoverStays
  <2>2. ASSUME NEW t \in Tasks, Complete(t) \/ Throw(t)
        PROVE  Covered'
    <3>1. pc'[t] = "give" /\ given'[t] = 0 /\ tokens' = tokens
      BY <2>2 DEF Complete, Throw, EndRun, OFTypeOK
    <3>2. t \notin Losing' /\ tokens' \in Nat
      BY <3>1 DEF Losing, OFTypeOK
    <3>3. Cardinality(Losing') \in Nat /\ Cardinality(Losing') <= MaxWaiters
      <4>1. Losing' \in SUBSET Tasks
        BY DEF Losing
      <4>2. QED BY <3>2, <4>1, TasksFew
    <3>4. QED BY <3>1, <3>2, <3>3 DEF Covered
  <2>3. ASSUME NEW t \in Tasks, Take(t)
        PROVE  Covered'
    <3>1. /\ Losing' = Losing \ {t} /\ t \in Losing
          /\ tokens' = tokens - 1 /\ tokens \in Nat /\ state' = state
          /\ \A u \in Tasks : pc[u] = "give" => pc'[u] = "give" /\ given'[u] = given[u]
      BY <2>3 DEF Take, OFTypeOK, Losing
    <3>2. Cardinality(Losing') = Cardinality(Losing) - 1
      BY <3>1, <1>0, TasksFew, FS_RemoveElement
    <3>3. \A u \in Tasks : given[u] \in Nat
      BY DEF OFTypeOK
    <3>4. Cardinality(Losing) \in Nat /\ Covered
      BY <1>0, <2>0, <3>1, TasksFew
    <3>5. CASE Cardinality(Losing) <= tokens
      BY <3>1, <3>2, <3>4, <3>5 DEF Covered
    <3>6. ASSUME NEW u \in Tasks, pc[u] = "give",
                 Cardinality(Losing) <= tokens + (MaxWaiters - given[u])
          PROVE  Covered'
      <4>1. Cardinality(Losing') <= tokens' + (MaxWaiters - given[u])
        BY <3>1, <3>2, <3>3, <3>4, <3>6
      <4>2. QED BY <3>1, <3>6, <4>1 DEF Covered
    <3>7. QED BY <3>4, <3>5, <3>6 DEF Covered
  <2>4. ASSUME NEW t \in Tasks, Give(t)
        PROVE  Covered'
    <3>1. /\ Losing' = Losing /\ t \notin Losing /\ state' = state
          /\ tokens' = IF tokens < MaxWaiters THEN tokens + 1 ELSE tokens
          /\ tokens \in 0..MaxWaiters /\ given[t] \in 0..MaxWaiters
          /\ given'[t] = given[t] + 1
          /\ pc'[t] = IF given[t] + 1 = MaxWaiters THEN "idle" ELSE "give"
          /\ \A u \in Tasks \ {t} : pc'[u] = pc[u] /\ given'[u] = given[u]
      BY <2>4 DEF Give, OFTypeOK, Losing
    <3>2. Cardinality(Losing) \in Nat /\ Cardinality(Losing) <= MaxWaiters
      BY <3>1, <1>0, TasksFew
    <3>3. CASE tokens = MaxWaiters
      BY <3>1, <3>2, <3>3 DEF Covered
    <3>4. CASE tokens < MaxWaiters
      <4>1. tokens' = tokens + 1
        BY <3>1, <3>4
      <4>2. CASE Cardinality(Losing) <= tokens
        BY <3>1, <3>2, <4>1, <4>2 DEF Covered
      <4>3. CASE pc[t] = "give" /\ Cardinality(Losing) <= tokens + (MaxWaiters - given[t])
        BY <3>1, <3>2, <4>1, <4>3 DEF Covered
      <4>4. ASSUME NEW u \in Tasks \ {t}, pc[u] = "give",
                   Cardinality(Losing) <= tokens + (MaxWaiters - given[u])
            PROVE  Covered'
        <5>1. given[u] \in Nat
          BY DEF OFTypeOK
        <5>2. QED BY <3>1, <3>2, <4>1, <4>4, <5>1 DEF Covered
      <4>5. QED BY <2>0, <3>1, <4>2, <4>3, <4>4 DEF Covered
    <3>5. QED BY <3>1, <3>3, <3>4
  <2>5. CASE UNCHANGED OFvars
    <3>1. Losing' = Losing
      BY <2>5 DEF OFvars, Losing
    <3>2. QED BY <2>0, <2>5, <3>1, CoverStays DEF OFvars
  <2>6. QED BY <2>1, <2>2, <2>3, <2>4, <2>5 DEF OFNext, Step
<1>4. QED BY <1>1, <1>2, <1>3

(* Once an attempt has ended, by a return or by an exception, nobody waits *)
(* for a token that will not come, if the flag is used by no more tasks    *)
(* than it is configured for.                                              *)
THEOREM TokensForLosers == OFSpec => []LosersCovered
<1>1. OFInit => CoverInv
  <2> SUFFICES ASSUME OFInit PROVE CoverInv
    OBVIOUS
  <2>1. Losing = {} /\ tokens = 0
    BY DEF OFInit, Losing
  <2>2. LosersCovered
    BY <2>1, FS_EmptySet DEF LosersCovered
  <2>3. QED BY <2>1, <2>2, OFInitInv DEF CoverInv, NoneBefore
<1>2. CoverInv /\ [OFNext]_OFvars => CoverInv'
  BY CoverNext
<1>3. CoverInv => LosersCovered
  BY DEF CoverInv
<1>4. QED BY <1>1, <1>2, <1>3, PTL DEF OFSpec

-----------------------------------------------------------------------------
(* Why a waiter may return.  An attempt that throws is counted in the same *)
(* step that resets the state, so a task past the compare-exchange that    *)
(* sees state 0 called before that attempt ended.                          *)

HistoryOK ==
  /\ throws \in Nat
  /\ since \in [Tasks -> Nat]
  /\ \A t \in Tasks : since[t] <= throws

FailureSeen ==
  \A t \in Tasks :
    pc[t] \in {"create_wait", "take", "recheck"} /\ state = 0 => throws > since[t]

CauseInv == OFInv /\ HistoryOK /\ FailureSeen

(* The history starts right.                                               *)
LEMMA CauseInitInv ==
  ASSUME MCInit
  PROVE  CauseInv
<1>1. OFInv
  BY OFInitInv DEF MCInit
<1>2. HistoryOK /\ FailureSeen
  BY DEF MCInit, OFInit, HistoryOK, FailureSeen
<1> QED BY <1>1, <1>2 DEF CauseInv

(* Every step of the instance preserves invariant and history.             *)
LEMMA CauseNextInv ==
  ASSUME CauseInv, [MCNext]_mcVars
  PROVE  CauseInv'
<1> USE DEF CauseInv, Goto
<1>1. [OFNext]_OFvars
  BY DEF MCNext, CallNoted, BoundedThrow, RunStep, OFNext,
         mcVars
<1>2. OFInv'
  BY <1>1, OFNextInv
<1>3. ASSUME NEW t \in Tasks, CallNoted(t) PROVE HistoryOK' /\ FailureSeen'
  BY <1>3 DEF CallNoted, Call, HistoryOK, FailureSeen, OFInv, OFTypeOK
<1>4. ASSUME NEW t \in Tasks, BoundedThrow(t) PROVE HistoryOK' /\ FailureSeen'
  BY <1>4
     DEF BoundedThrow, Throw, EndRun, HistoryOK, FailureSeen, OFInv,
         OFTypeOK
<1>5. ASSUME NEW t \in Tasks, RunStep(t) PROVE HistoryOK' /\ FailureSeen'
  <2> USE DEF OFInv, OFTypeOK, HistoryOK
  <2>1. HistoryOK'
    BY <1>5 DEF RunStep
  <2>2. CASE Check(t) \/ EnsureSemaphore(t) \/ Take(t) \/ Recheck(t)
    BY <1>5, <2>2
       DEF RunStep, Check, EnsureSemaphore, Take, Recheck,
           FailureSeen
  <2>3. CASE Claim(t)
    BY <1>5, <2>3 DEF RunStep, Claim, FailureSeen
  <2>4. CASE Complete(t)
    BY <1>5, <2>4 DEF RunStep, Complete, EndRun, FailureSeen
  <2>5. CASE Give(t)
    BY <1>5, <2>5 DEF RunStep, Give, FailureSeen
  <2>6. FailureSeen'
    BY <1>5, <2>2, <2>3, <2>4, <2>5 DEF RunStep, Step
  <2> QED BY <2>1, <2>6
<1>6. ASSUME UNCHANGED mcVars PROVE HistoryOK' /\ FailureSeen'
  BY <1>6 DEF mcVars, OFvars, HistoryOK, FailureSeen
<1>7. HistoryOK' /\ FailureSeen'
  BY <1>3, <1>4, <1>5, <1>6 DEF MCNext
<1> QED BY <1>2, <1>7

(* A waiter that returns without the function having completed waited for  *)
(* an attempt that threw after it called: no token that an earlier attempt *)
(* left over lets a task through.                                          *)
THEOREM ReturnsJustified == MCSpec => ReturnsForCause
<1> DEFINE ForCause ==
      \A t \in Tasks :
        pc[t] \in {"check", "recheck"} /\ pc'[t] = "idle" =>
          state = 2 \/ throws > since[t]
<1>1. ASSUME CauseInv, [MCNext]_mcVars PROVE [ForCause]_mcVars
  <2> USE DEF CauseInv, OFInv, OFTypeOK, Goto
  <2>1. SUFFICES ASSUME NEW t \in Tasks, NEW u \in Tasks,
                        CallNoted(u) \/ BoundedThrow(u) \/ RunStep(u),
                        pc[t] \in {"check", "recheck"}, pc'[t] = "idle",
                        state # 2
                 PROVE  throws > since[t]
    BY <1>1 DEF MCNext
  <2>2. CASE u = t
    <3>1. pc[t] = "recheck" /\ state # 1
      BY <1>1, <2>1, <2>2
         DEF CallNoted, Call, BoundedThrow, Throw, RunStep,
             Step, Check, Claim, EnsureSemaphore, Complete,
             EndRun, Give, Take, Recheck
    <3>2. state = 0
      BY <1>1, <2>1, <3>1
    <3> QED BY <1>1, <3>1, <3>2 DEF FailureSeen
  <2>3. CASE u # t
    <3>1. pc'[t] = pc[t]
      BY <1>1, <2>1, <2>3
         DEF CallNoted, Call, BoundedThrow, Throw, RunStep,
             Step, Check, Claim, EnsureSemaphore, Complete,
             EndRun, Give, Take, Recheck
    <3> QED BY <2>1, <3>1
  <2> QED BY <2>2, <2>3
<1>2. MCInit => CauseInv
  BY CauseInitInv
<1>3. CauseInv /\ [MCNext]_mcVars => CauseInv'
  BY CauseNextInv
<1>4. MCInit /\ [][MCNext]_mcVars => [][ForCause]_mcVars
  BY <1>1, <1>2, <1>3, PTL
<1> QED BY <1>4, PTL DEF MCSpec, ReturnsForCause

-----------------------------------------------------------------------------
(* The software timer.                                                     *)

(* The two objects whose timers call the wrong one until SwapIds.          *)
Swapping == IF at = "set_ids" THEN {dst, src} ELSE {}

(* A kernel timer calls its owner, and was made for the owner's callback.  *)
Linked ==
  \A o \in Objects :
    handle[o] \in exists =>
      /\ made[handle[o]] = callback[o]
      /\ IF o \in Swapping THEN id[handle[o]] \in Swapping
                           ELSE id[handle[o]] = o

(* What an operation in progress knows of its objects and its new timer.   *)
Assigning ==
  /\ at \in {"idle", "create", "set_ids"} => newTimer = None
  /\ at # "idle" =>
       dst \in alive /\ src \in alive /\ dst # src
  /\ at \in {"create", "delete_old", "hand_over"} =>
       handle[src] \in exists
  /\ at \in {"delete_old", "hand_over"} =>
       /\ newTimer \in exists \ active
       /\ id[newTimer] = dst
       /\ made[newTimer] = callback[src]
       /\ \A o \in Objects : handle[o] # newTimer
  /\ at = "hand_over" => handle[dst] \notin exists
  /\ at = "restart" => handle[dst] = newTimer /\ newTimer \in exists

IInv == TypeOK /\ OneOwner /\ Linked /\ Assigning

-----------------------------------------------------------------------------
(* The initial states satisfy the inductive invariant. *)
LEMMA InitIInv == Init => IInv
BY NoneAssumption
   DEF Init, IInv, TypeOK, OneOwner, Linked, Assigning, Swapping

(* Every step preserves the inductive invariant. *)
LEMMA NextIInv == IInv /\ [Next]_vars => IInv'
<1> SUFFICES ASSUME IInv, [Next]_vars PROVE IInv'
  OBVIOUS
<1> USE NoneAssumption DEF IInv, objects, kernel, locals, Return
<1>1. ASSUME NEW o \in Objects, Construct(o) PROVE IInv'
  <2>1. TypeOK'
    BY <1>1 DEF Construct, Create, TypeOK, OneOwner, Assigning
  <2>2. OneOwner'
    BY <1>1 DEF Construct, Create, TypeOK, OneOwner, Assigning
  <2>3. Linked'
    BY <1>1 DEF Construct, Create, TypeOK, OneOwner, Linked, Assigning, Swapping
  <2>4. Assigning'
    BY <1>1 DEF Construct, Create, TypeOK, OneOwner, Linked, Assigning, Swapping
  <2> QED BY <2>1, <2>2, <2>3, <2>4
<1>2. ASSUME NEW o \in Objects, Destroy(o) PROVE IInv'
  <2>1. TypeOK'
    BY <1>2 DEF Destroy, Delete, TypeOK, OneOwner, Assigning
  <2>2. OneOwner'
    BY <1>2 DEF Destroy, Delete, TypeOK, OneOwner, Assigning
  <2>3. Linked'
    BY <1>2 DEF Destroy, Delete, TypeOK, OneOwner, Linked, Assigning, Swapping
  <2>4. Assigning'
    BY <1>2 DEF Destroy, Delete, TypeOK, OneOwner, Linked, Assigning, Swapping
  <2> QED BY <2>1, <2>2, <2>3, <2>4
<1>3. ASSUME NEW o \in Objects, Start(o) PROVE IInv'
  <2>1. TypeOK'
    BY <1>3 DEF Start, Ready, TypeOK, OneOwner, Assigning
  <2>2. OneOwner'
    BY <1>3 DEF Start, Ready, TypeOK, OneOwner, Assigning
  <2>3. Linked'
    BY <1>3 DEF Start, Ready, TypeOK, OneOwner, Linked, Assigning, Swapping
  <2>4. Assigning'
    BY <1>3 DEF Start, Ready, TypeOK, OneOwner, Linked, Assigning, Swapping
  <2> QED BY <2>1, <2>2, <2>3, <2>4
<1>4. ASSUME NEW o \in Objects, Stop(o) PROVE IInv'
  <2>1. TypeOK'
    BY <1>4 DEF Stop, Ready, TypeOK, OneOwner, Assigning
  <2>2. OneOwner'
    BY <1>4 DEF Stop, Ready, TypeOK, OneOwner, Assigning
  <2>3. Linked'
    BY <1>4 DEF Stop, Ready, TypeOK, OneOwner, Linked, Assigning, Swapping
  <2>4. Assigning'
    BY <1>4 DEF Stop, Ready, TypeOK, OneOwner, Linked, Assigning, Swapping
  <2> QED BY <2>1, <2>2, <2>3, <2>4
<1>5. ASSUME NEW o \in Objects, Reset(o) PROVE IInv'
  <2>1. TypeOK'
    BY <1>5 DEF Reset, Ready, TypeOK, OneOwner, Assigning
  <2>2. OneOwner'
    BY <1>5 DEF Reset, Ready, TypeOK, OneOwner, Assigning
  <2>3. Linked'
    BY <1>5 DEF Reset, Ready, TypeOK, OneOwner, Linked, Assigning, Swapping
  <2>4. Assigning'
    BY <1>5 DEF Reset, Ready, TypeOK, OneOwner, Linked, Assigning, Swapping
  <2> QED BY <2>1, <2>2, <2>3, <2>4
<1>6. ASSUME NEW o \in Objects, NEW s \in Objects, MoveConstruct(o, s) PROVE IInv'
  <2>1. TypeOK'
    BY <1>6 DEF MoveConstruct, TypeOK, OneOwner, Assigning
  <2>2. OneOwner'
    BY <1>6 DEF MoveConstruct, TypeOK, OneOwner, Assigning
  <2>3. Linked'
    BY <1>6 DEF MoveConstruct, TypeOK, OneOwner, Linked, Assigning, Swapping
  <2>4. Assigning'
    BY <1>6 DEF MoveConstruct, TypeOK, OneOwner, Linked, Assigning, Swapping
  <2> QED BY <2>1, <2>2, <2>3, <2>4
<1>7. ASSUME NEW o \in Objects, NEW s \in Objects, Swap(o, s) PROVE IInv'
  <2>1. TypeOK'
    BY <1>7 DEF Swap, Exchanged, TypeOK, OneOwner, Assigning
  <2>2. OneOwner'
    BY <1>7 DEF Swap, Exchanged, TypeOK, OneOwner, Assigning
  <2>3. Linked'
    BY <1>7 DEF Swap, Exchanged, TypeOK, OneOwner, Linked, Assigning, Swapping
  <2>4. Assigning'
    BY <1>7 DEF Swap, Exchanged, TypeOK, OneOwner, Linked, Assigning, Swapping
  <2> QED BY <2>1, <2>2, <2>3, <2>4
<1>8. ASSUME SwapIds PROVE IInv'
  <2>1. TypeOK'
    BY <1>8 DEF SwapIds, TypeOK, OneOwner, Assigning
  <2>2. OneOwner'
    BY <1>8 DEF SwapIds, TypeOK, OneOwner, Assigning
  <2>3. Linked'
    BY <1>8 DEF SwapIds, TypeOK, OneOwner, Linked, Assigning, Swapping
  <2>4. Assigning'
    BY <1>8 DEF SwapIds, TypeOK, OneOwner, Linked, Assigning, Swapping
  <2> QED BY <2>1, <2>2, <2>3, <2>4
<1>9. ASSUME NEW o \in Objects, NEW s \in Objects, AssignFromNull(o, s) PROVE IInv'
  <2>1. TypeOK'
    BY <1>9 DEF AssignFromNull, Delete, TypeOK, OneOwner, Assigning
  <2>2. OneOwner'
    BY <1>9 DEF AssignFromNull, Delete, TypeOK, OneOwner, Assigning
  <2>3. Linked'
    BY <1>9 DEF AssignFromNull, Delete, TypeOK, OneOwner, Linked, Assigning, Swapping
  <2>4. Assigning'
    BY <1>9 DEF AssignFromNull, Delete, TypeOK, OneOwner, Linked, Assigning, Swapping
  <2> QED BY <2>1, <2>2, <2>3, <2>4
<1>10. ASSUME NEW o \in Objects, NEW s \in Objects, AssignStop(o, s) PROVE IInv'
  <2>1. TypeOK'
    BY <1>10 DEF AssignStop, Ready, TypeOK, OneOwner, Assigning
  <2>2. OneOwner'
    BY <1>10 DEF AssignStop, Ready, TypeOK, OneOwner, Assigning
  <2>3. Linked'
    BY <1>10 DEF AssignStop, Ready, TypeOK, OneOwner, Linked, Assigning, Swapping
  <2>4. Assigning'
    BY <1>10 DEF AssignStop, Ready, TypeOK, OneOwner, Linked, Assigning, Swapping
  <2> QED BY <2>1, <2>2, <2>3, <2>4
<1>11. ASSUME AssignCreate PROVE IInv'
  <2>1. TypeOK'
    BY <1>11 DEF AssignCreate, Create, TypeOK, OneOwner, Assigning
  <2>2. OneOwner'
    BY <1>11 DEF AssignCreate, Create, TypeOK, OneOwner, Assigning
  <2>3. Linked'
    BY <1>11 DEF AssignCreate, Create, TypeOK, OneOwner, Linked, Assigning, Swapping
  <2>4. Assigning'
    BY <1>11 DEF AssignCreate, Create, TypeOK, OneOwner, Linked, Assigning, Swapping
  <2> QED BY <2>1, <2>2, <2>3, <2>4
<1>12. ASSUME AssignFails PROVE IInv'
  <2>1. TypeOK'
    BY <1>12 DEF AssignFails, TypeOK, OneOwner, Assigning
  <2>2. OneOwner'
    BY <1>12 DEF AssignFails, TypeOK, OneOwner, Assigning
  <2>3. Linked'
    BY <1>12 DEF AssignFails, TypeOK, OneOwner, Linked, Assigning, Swapping
  <2>4. Assigning'
    BY <1>12 DEF AssignFails, TypeOK, OneOwner, Linked, Assigning, Swapping
  <2> QED BY <2>1, <2>2, <2>3, <2>4
<1>13. ASSUME AssignDeleteOld PROVE IInv'
  <2>1. TypeOK'
    BY <1>13 DEF AssignDeleteOld, Delete, TypeOK, OneOwner, Assigning
  <2>2. OneOwner'
    BY <1>13 DEF AssignDeleteOld, Delete, TypeOK, OneOwner, Assigning
  <2>3. Linked'
    BY <1>13 DEF AssignDeleteOld, Delete, TypeOK, OneOwner, Linked, Assigning, Swapping
  <2>4. Assigning'
    BY <1>13 DEF AssignDeleteOld, Delete, TypeOK, OneOwner, Linked, Assigning, Swapping
  <2> QED BY <2>1, <2>2, <2>3, <2>4
<1>14. ASSUME AssignHandOver PROVE IInv'
  <2>1. TypeOK'
    BY <1>14 DEF AssignHandOver, Delete, TypeOK, OneOwner, Assigning
  <2>2. OneOwner'
    BY <1>14 DEF AssignHandOver, Delete, TypeOK, OneOwner, Assigning
  <2>3. Linked'
    BY <1>14 DEF AssignHandOver, Delete, TypeOK, OneOwner, Linked, Assigning, Swapping
  <2>4. Assigning'
    BY <1>14 DEF AssignHandOver, Delete, TypeOK, OneOwner, Linked, Assigning, Swapping
  <2> QED BY <2>1, <2>2, <2>3, <2>4
<1>15. ASSUME AssignRestart PROVE IInv'
  <2>1. TypeOK'
    BY <1>15 DEF AssignRestart, TypeOK, OneOwner, Assigning
  <2>2. OneOwner'
    BY <1>15 DEF AssignRestart, TypeOK, OneOwner, Assigning
  <2>3. Linked'
    BY <1>15 DEF AssignRestart, TypeOK, OneOwner, Linked, Assigning, Swapping
  <2>4. Assigning'
    BY <1>15 DEF AssignRestart, TypeOK, OneOwner, Linked, Assigning, Swapping
  <2> QED BY <2>1, <2>2, <2>3, <2>4
<1>16. ASSUME NEW k \in Timers, Expire(k) PROVE IInv'
  <2>1. TypeOK'
    BY <1>16 DEF Expire, TypeOK, OneOwner, Assigning
  <2>2. OneOwner'
    BY <1>16 DEF Expire, TypeOK, OneOwner, Assigning
  <2>3. Linked'
    BY <1>16 DEF Expire, TypeOK, OneOwner, Linked, Assigning, Swapping
  <2>4. Assigning'
    BY <1>16 DEF Expire, TypeOK, OneOwner, Linked, Assigning, Swapping
  <2> QED BY <2>1, <2>2, <2>3, <2>4
<1>17. ASSUME UNCHANGED vars PROVE IInv'
  BY <1>17 DEF vars, TypeOK, OneOwner, Linked, Assigning, Swapping
<1> QED
  BY <1>1, <1>2, <1>3, <1>4, <1>5, <1>6, <1>7, <1>8, <1>9, <1>10, <1>11, <1>12, <1>13, <1>14, <1>15, <1>16, <1>17 DEF Next, Task

(* A timer that runs belongs to an object, and calls it.                   *)
LEMMA IInvFires == IInv => FiresOwnCallback
<1> SUFFICES ASSUME IInv, NEW k \in active
             PROVE  /\ id[k] \in alive
                    /\ \/ callback[id[k]] = made[k]
                       \/ at = "set_ids" /\ id[k] \in {dst, src}
  BY DEF FiresOwnCallback
<1> USE NoneAssumption DEF IInv
<1>1. k \in exists /\ k # None
  BY DEF TypeOK
<1>2. k # newTimer \/ at = "restart"
  BY <1>1 DEF Assigning, TypeOK
<1>3. PICK o \in Objects : handle[o] = k
  BY <1>1, <1>2 DEF OneOwner, Assigning, TypeOK
<1>4. o \in alive
  BY <1>1, <1>3 DEF OneOwner
<1> QED
  BY <1>1, <1>3, <1>4 DEF Linked, Swapping, Assigning

LEMMA SpecIInv == Spec => []IInv
BY InitIInv, NextIInv, PTL DEF Spec

-----------------------------------------------------------------------------
(* The objects, the kernel timers and the locals of an operation keep      *)
(* their types, and only timers that exist run.                            *)
THEOREM TypeCorrect == Spec => []TypeOK
<1>1. IInv => TypeOK
  BY DEF IInv
<1> QED BY <1>1, SpecIInv, PTL

(* No sequence of constructions, moves, swaps, assignments (failed ones    *)
(* too) and destructions leaks a kernel timer, shares it between two       *)
(* objects, or leaves an object with the handle of a deleted one.          *)
THEOREM TimersOwned == Spec => []OneOwner
<1>1. IInv => OneOwner
  BY DEF IInv
<1> QED BY <1>1, SpecIInv, PTL

(* Whenever the daemon runs a timer, it runs the callback the timer was    *)
(* made for, on an object that has not been destroyed.                     *)
THEOREM OwnCallbackFires == Spec => []FiresOwnCallback
BY SpecIInv, IInvFires, PTL
=============================================================================
