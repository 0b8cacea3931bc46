----------------------------- MODULE LatchProofs -----------------------------
(***************************************************************************)
(* Proofs about Latch, for every set of tasks and interrupts, every        *)
(* expected count and every set of positive updates.                       *)
(*                                                                         *)
(* OneBaton is not inductive: it needs that an exchange starts from a      *)
(* positive value (so it is only the last arrival that reaches zero), and  *)
(* that nobody takes the semaphore of a latch that has none.               *)
(***************************************************************************)
EXTENDS Latch, TLAPS

LocalsMatchPc ==
  /\ \A p \in Procs : pc[p] = "cas" => prev[p] > 0
  /\ \A p \in Procs : pc[p] \in {"load", "cas"} => update[p] \in Updates
  /\ \A p \in Procs : pc[p] \in {"take", "baton"} => p \in Tasks /\ valid
  /\ ~valid => sem = 0

IInv == TypeOK /\ OneBaton /\ NeverRefused /\ LocalsMatchPc

-----------------------------------------------------------------------------
(* The initial states satisfy the inductive invariant. *)
LEMMA InitIInv == Init => IInv
BY ExpectedAssumption
   DEF Init, IInv, TypeOK, OneBaton, NeverRefused, LocalsMatchPc, Holders,
       Procs, PCs, Results

(* A step that leaves the semaphore and the holders alone, and does not    *)
(* move the counter, keeps the baton where it is.                          *)
LEMMA BatonStays ==
  ASSUME OneBaton, UNCHANGED <<valid, counter, sem>>, Holders' = Holders
  PROVE  OneBaton'
BY DEF OneBaton

(* Every step preserves the inductive invariant. *)
LEMMA NextIInv == IInv /\ [Next]_vars => IInv'
<1> SUFFICES ASSUME IInv, [Next]_vars PROVE IInv'
  OBVIOUS
<1> USE ExpectedAssumption, UpdatesAssumption DEF IInv, Goto, AfterCountDown
<1>1. ASSUME NEW p \in Procs, CountDown(p) PROVE IInv'
  <2>1. TypeOK'
    BY <1>1 DEF CountDown, TypeOK, PCs, Results
  <2>2. Holders' = Holders
    BY <1>1 DEF CountDown, TypeOK, Holders
  <2>3. OneBaton'
    BY <1>1, <2>2, BatonStays DEF CountDown
  <2>4. NeverRefused' /\ LocalsMatchPc'
    BY <1>1 DEF CountDown, TypeOK, NeverRefused, LocalsMatchPc
  <2> QED BY <2>1, <2>3, <2>4
<1>2. ASSUME NEW p \in Procs, Load(p) PROVE IInv'
  <2>1. TypeOK'
    BY <1>2 DEF Load, TypeOK, PCs
  <2>2. Holders' = Holders
    BY <1>2 DEF Load, TypeOK, Holders
  <2>3. OneBaton'
    BY <1>2, <2>2, BatonStays DEF Load
  <2>4. NeverRefused' /\ LocalsMatchPc'
    BY <1>2 DEF Load, TypeOK, NeverRefused, LocalsMatchPc
  <2> QED BY <2>1, <2>3, <2>4
<1>3. ASSUME NEW p \in Procs, Exchange(p) PROVE IInv'
  <2>0. counter > 0 /\ prev[p] = counter
    BY <1>3 DEF Exchange, LocalsMatchPc
  <2>1. NextCount(p) \in 0..Expected /\ NextCount(p) < counter
    <3>1. update[p] \in Nat \ {0}
      BY <1>3 DEF Exchange, LocalsMatchPc
    <3>2. counter \in 0..Expected
      BY DEF TypeOK
    <3> HIDE DEF IInv
    <3> QED BY <2>0, <3>1, <3>2 DEF NextCount
  <2>2. TypeOK'
    BY <1>3, <2>1 DEF Exchange, TypeOK, PCs
  <2>3. sem = 0 /\ Holders = {}
    BY <2>0 DEF OneBaton
  <2>4. ASSUME NextCount(p) = 0 PROVE OneBaton'
    <3>1. Holders' = {p}
      BY <1>3, <2>3, <2>4 DEF Exchange, TypeOK, Holders
    <3> QED BY <1>3, <2>3, <2>4, <3>1 DEF Exchange, OneBaton
  <2>5. ASSUME NextCount(p) # 0 PROVE OneBaton'
    <3>1. Holders' = {}
      BY <1>3, <2>3, <2>5 DEF Exchange, TypeOK, Holders
    <3> QED BY <1>3, <2>1, <2>3, <2>5, <3>1 DEF Exchange, OneBaton
  <2>6. OneBaton'
    BY <2>4, <2>5
  <2>7. NeverRefused' /\ LocalsMatchPc'
    BY <1>3 DEF Exchange, TypeOK, NeverRefused, LocalsMatchPc
  <2> QED BY <2>2, <2>6, <2>7
<1>4. ASSUME NEW p \in Procs, ExchangeFails(p) PROVE IInv'
  <2>1. TypeOK'
    BY <1>4 DEF ExchangeFails, TypeOK, PCs
  <2>2. Holders' = Holders
    BY <1>4 DEF ExchangeFails, TypeOK, Holders
  <2>3. OneBaton'
    BY <1>4, <2>2, BatonStays DEF ExchangeFails
  <2>4. NeverRefused' /\ LocalsMatchPc'
    BY <1>4 DEF ExchangeFails, TypeOK, NeverRefused, LocalsMatchPc
  <2> QED BY <2>1, <2>3, <2>4
<1>5. ASSUME NEW p \in Procs, Give(p) PROVE IInv'
  <2>1. TypeOK'
    BY <1>5 DEF Give, TypeOK, PCs, Results
  <2>2. p \in Holders
    BY <1>5 DEF Give, Holders
  <2>3. sem = 0 /\ counter = 0 /\ Holders = {p}
    BY <2>2 DEF OneBaton, TypeOK
  <2>4. Holders' = {}
    BY <1>5, <2>3 DEF Give, TypeOK, Holders
  <2>5. OneBaton'
    BY <1>5, <2>3, <2>4 DEF Give, OneBaton
  <2>6. NeverRefused' /\ LocalsMatchPc'
    BY <1>5, <2>3 DEF Give, TypeOK, NeverRefused, LocalsMatchPc
  <2> QED BY <2>1, <2>5, <2>6
<1>6. ASSUME NEW t \in Tasks, Wait(t) PROVE IInv'
  <2>0. t \in Procs
    BY DEF Procs
  <2>1. TypeOK'
    BY <1>6, <2>0 DEF Wait, TypeOK, PCs
  <2>2. Holders' = Holders
    BY <1>6, <2>0 DEF Wait, TypeOK, Holders
  <2>3. OneBaton'
    BY <1>6, <2>2, BatonStays DEF Wait
  <2>4. NeverRefused' /\ LocalsMatchPc'
    BY <1>6, <2>0 DEF Wait, TypeOK, NeverRefused, LocalsMatchPc
  <2> QED BY <2>1, <2>3, <2>4
<1>7. ASSUME NEW t \in Tasks, Check(t) PROVE IInv'
  <2>0. t \in Procs
    BY DEF Procs
  <2>1. TypeOK'
    BY <1>7, <2>0 DEF Check, TypeOK, PCs
  <2>2. Holders' = Holders
    BY <1>7, <2>0 DEF Check, TypeOK, Holders
  <2>3. OneBaton'
    BY <1>7, <2>2, BatonStays DEF Check
  <2>4. NeverRefused' /\ LocalsMatchPc'
    BY <1>7, <2>0 DEF Check, TypeOK, NeverRefused, LocalsMatchPc
  <2> QED BY <2>1, <2>3, <2>4
<1>8. ASSUME NEW t \in Tasks, Take(t) PROVE IInv'
  <2>0. t \in Procs
    BY DEF Procs
  <2>1. TypeOK'
    BY <1>8, <2>0 DEF Take, TypeOK, PCs
  <2>2. Holders = {} /\ counter = 0
    BY <1>8 DEF Take, OneBaton, TypeOK
  <2>3. Holders' = {t}
    BY <1>8, <2>0, <2>2 DEF Take, TypeOK, Holders
  <2>4. OneBaton'
    BY <1>8, <2>2, <2>3 DEF Take, OneBaton
  <2>5. NeverRefused' /\ LocalsMatchPc'
    BY <1>8, <2>0 DEF Take, TypeOK, NeverRefused, LocalsMatchPc
  <2> QED BY <2>1, <2>4, <2>5
<1>9. ASSUME NEW t \in Tasks, PassBaton(t) PROVE IInv'
  <2>0. t \in Procs
    BY DEF Procs
  <2>1. TypeOK'
    BY <1>9, <2>0 DEF PassBaton, TypeOK, PCs
  <2>2. t \in Holders
    BY <1>9, <2>0 DEF PassBaton, Holders
  <2>3. Holders = {t} /\ counter = 0
    BY <2>2 DEF OneBaton, TypeOK
  <2>4. Holders' = {}
    BY <1>9, <2>0, <2>3 DEF PassBaton, TypeOK, Holders
  <2>5. OneBaton'
    BY <1>9, <2>3, <2>4 DEF PassBaton, OneBaton
  <2>6. NeverRefused' /\ LocalsMatchPc'
    BY <1>9, <2>0 DEF PassBaton, TypeOK, NeverRefused, LocalsMatchPc
  <2> QED BY <2>1, <2>5, <2>6
<1>10. CASE UNCHANGED vars
  <2>1. Holders' = Holders
    BY <1>10 DEF vars, Holders
  <2> QED
    BY <1>10, <2>1, BatonStays
       DEF vars, TypeOK, NeverRefused, LocalsMatchPc
<1> QED
  BY <1>1, <1>2, <1>3, <1>4, <1>5, <1>6, <1>7, <1>8, <1>9, <1>10
     DEF Next, Arrival, Waiting

LEMMA SpecIInv == Spec => []IInv
BY InitIInv, NextIInv, PTL DEF Spec

(* The types hold in every reachable state: in particular no race between  *)
(* arrivals moves the counter below zero (count_down's loop).              *)
THEOREM TypeCorrect == Spec => []TypeOK
<1>1. IInv => TypeOK
  BY DEF IInv
<1> QED BY <1>1, SpecIInv, PTL

(* The one give of the last arrival is never lost nor doubled.             *)
THEOREM BatonKept == Spec => []OneBaton
<1>1. IInv => OneBaton
  BY DEF IInv
<1> QED BY <1>1, SpecIInv, PTL

(* count_down_ex never reports semaphore_not_owned.                        *)
THEOREM GiveNeverRefused == Spec => []NeverRefused
<1>1. IInv => NeverRefused
  BY DEF IInv
<1> QED BY <1>1, SpecIInv, PTL

(* An arrival through the compare-exchange loop is an atomic arrival, and  *)
(* nobody leaves wait() before the counter is zero (unless the latch has   *)
(* no semaphore to block on).                                              *)
THEOREM RefinesStdLatch == Spec => ImplementsStdLatch
<1>1. Init => Std!Init
  BY DEF Init, Std!Init, Blocked, Procs
<1>2. IInv /\ [Next]_vars => [Std!Next]_<<counter, Blocked>>
  <2> SUFFICES ASSUME IInv, [Next]_vars
               PROVE  [Std!Next]_<<counter, Blocked>>
    OBVIOUS
  <2> USE DEF IInv, Goto, AfterCountDown
  <2>1. ASSUME NEW p \in Procs,
               CountDown(p) \/ Load(p) \/ ExchangeFails(p) \/ Give(p)
        PROVE  UNCHANGED <<counter, Blocked>>
    BY <2>1 DEF CountDown, Load, ExchangeFails, Give, TypeOK, Blocked, Procs
  <2>2. ASSUME NEW p \in Procs, Exchange(p) PROVE Std!Next
    <3>1. Blocked' = Blocked
      BY <2>2 DEF Exchange, TypeOK, Blocked, Procs
    <3>2. update[p] \in Updates
      BY <2>2 DEF Exchange, LocalsMatchPc, TypeOK
    <3>3. Std!Arrive(update[p])
      BY <2>2, <3>1 DEF Exchange, NextCount, LocalsMatchPc, Std!Arrive
    <3> QED BY <3>2, <3>3 DEF Std!Next
  <2>3. ASSUME NEW t \in Tasks, Wait(t) \/ Take(t)
        PROVE  UNCHANGED <<counter, Blocked>>
    BY <2>3 DEF Wait, Take, TypeOK, Blocked, Procs
  <2>4. ASSUME NEW t \in Tasks, Check(t) PROVE [Std!Next]_<<counter, Blocked>>
    <3>1. CASE counter = 0 \/ ~valid
      <4>1. UNCHANGED <<counter, Blocked>>
        BY <2>4, <3>1 DEF Check, TypeOK, Blocked, Procs
      <4> QED BY <4>1
    <3>2. CASE ~(counter = 0 \/ ~valid)
      <4>1. t \notin Blocked /\ Blocked' = Blocked \cup {t}
        BY <2>4, <3>2 DEF Check, TypeOK, Blocked, Procs
      <4> QED BY <2>4, <4>1 DEF Check, Std!Block, Std!Next
    <3> QED BY <3>1, <3>2
  <2>5. ASSUME NEW t \in Tasks, PassBaton(t) PROVE Std!Next
    <3>1. t \in Blocked /\ Blocked' = Blocked \ {t}
      BY <2>5 DEF PassBaton, TypeOK, Blocked, Procs
    <3>2. counter = 0
      BY <2>5 DEF PassBaton, OneBaton, Holders, TypeOK, Procs
    <3> QED BY <2>5, <3>1, <3>2 DEF PassBaton, Std!Release, Std!Next
  <2>6. CASE UNCHANGED vars
    BY <2>6 DEF vars, Blocked
  <2> QED
    BY <2>1, <2>2, <2>3, <2>4, <2>5, <2>6 DEF Next, Arrival, Waiting
<1> QED BY <1>1, <1>2, SpecIInv, PTL DEF Spec, ImplementsStdLatch, Std!Spec
=============================================================================
