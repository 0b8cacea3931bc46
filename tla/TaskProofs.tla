----------------------------- MODULE TaskProofs -----------------------------
(***************************************************************************)
(* Proofs about Task, for any number of objects and kernel tasks.          *)
(*                                                                         *)
(* RunsOwnRoutine speaks of tasks that have called their routine; Linked   *)
(* says what they will find: the object of an intact task holds the task   *)
(* and the routine that it was constructed with.  It also names the one    *)
(* task that can wake the owner of an object in join().                    *)
(***************************************************************************)
EXTENDS Task, TLAPS

(* The object of a task that was not moved is there, and has not changed.  *)
Linked ==
  at # "gone" =>
    \A k \in intact :
      /\ context[k] \in alive
      /\ Holds(context[k]) = k
      /\ routine[context[k]] = context[k]
      /\ context[k] \in periodic => body[context[k]] = context[k]
      /\ pc[k] \in {"start", "loop", "work"} => context[k] \in periodic

IInv == TypeOK /\ OneOwner /\ Linked /\ RunsOwnRoutine /\ JoinForCause

-----------------------------------------------------------------------------
(* The initial states satisfy the inductive invariant. *)
LEMMA InitIInv == Init => IInv
BY NoneAssumption
   DEF Init, IInv, TypeOK, Places, OneOwner, Holds, Linked, RunsOwnRoutine, JoinForCause

(* Every step preserves the inductive invariant. *)
LEMMA NextIInv == IInv /\ [Next]_vars => IInv'
<1> SUFFICES ASSUME IInv, [Next]_vars PROVE IInv'
  OBVIOUS
<1> USE NoneAssumption DEF IInv, objects, kernel, owner, history
<1>1. ASSUME NEW o \in Objects, NEW p \in BOOLEAN, Construct(o, p) PROVE IInv'
  <2>1. TypeOK'
    BY <1>1 DEF Construct, Create, TypeOK, Places, OneOwner, Holds
  <2>2. OneOwner'
    BY <1>1 DEF Construct, Create, TypeOK, OneOwner, Holds
  <2>3. Linked'
    BY <1>1 DEF Construct, Create, TypeOK, OneOwner, Linked, Holds
  <2>4. RunsOwnRoutine'
    BY <1>1 DEF Construct, Create, TypeOK, OneOwner, Linked, RunsOwnRoutine, Holds
  <2>5. JoinForCause'
    BY <1>1 DEF Construct, Create, TypeOK, OneOwner, Linked, JoinForCause, Holds
  <2> QED BY <2>1, <2>2, <2>3, <2>4, <2>5
<1>2. ASSUME Store PROVE IInv'
  <2>1. TypeOK'
    BY <1>2 DEF Store, TypeOK, Places, OneOwner, Holds
  <2>2. OneOwner'
    BY <1>2 DEF Store, TypeOK, OneOwner, Holds
  <2>3. Linked'
    BY <1>2 DEF Store, TypeOK, OneOwner, Linked, Holds
  <2>4. RunsOwnRoutine'
    BY <1>2 DEF Store, TypeOK, OneOwner, Linked, RunsOwnRoutine, Holds
  <2>5. JoinForCause'
    BY <1>2 DEF Store, TypeOK, OneOwner, Linked, JoinForCause, Holds
  <2> QED BY <2>1, <2>2, <2>3, <2>4, <2>5
<1>3. ASSUME NEW o \in Objects, NEW s \in Objects, MoveConstruct(o, s) PROVE IInv'
  <2>1. TypeOK'
    BY <1>3 DEF MoveConstruct, Owned, TypeOK, Places, OneOwner, Holds
  <2>2. OneOwner'
    BY <1>3 DEF MoveConstruct, Owned, TypeOK, OneOwner, Holds
  <2>3. Linked'
    BY <1>3 DEF MoveConstruct, Owned, TypeOK, OneOwner, Linked, Holds
  <2>4. RunsOwnRoutine'
    BY <1>3 DEF MoveConstruct, Owned, TypeOK, OneOwner, Linked, RunsOwnRoutine, Holds
  <2>5. JoinForCause'
    BY <1>3 DEF MoveConstruct, Owned, TypeOK, OneOwner, Linked, JoinForCause, Holds
  <2> QED BY <2>1, <2>2, <2>3, <2>4, <2>5
<1>4. ASSUME NEW o \in Objects, Destroy(o) PROVE IInv'
  <2>1. TypeOK'
    BY <1>4 DEF Destroy, Delete, Owned, TypeOK, Places, OneOwner, Holds
  <2>2. OneOwner'
    BY <1>4 DEF Destroy, Delete, Owned, TypeOK, OneOwner, Holds
  <2>3. Linked'
    BY <1>4 DEF Destroy, Delete, Owned, TypeOK, OneOwner, Linked, Holds
  <2>4. RunsOwnRoutine'
    BY <1>4 DEF Destroy, Delete, Owned, TypeOK, OneOwner, Linked, RunsOwnRoutine, Holds
  <2>5. JoinForCause'
    BY <1>4 DEF Destroy, Delete, Owned, TypeOK, OneOwner, Linked, JoinForCause, Holds
  <2> QED BY <2>1, <2>2, <2>3, <2>4, <2>5
<1>5. ASSUME NEW a \in Objects, NEW b \in Objects, Swap(a, b) PROVE IInv'
  <2>1. TypeOK'
    BY <1>5 DEF Swap, Exchanged, FlagExchanged, Owned, TypeOK, Places, OneOwner, Holds
  <2>2. OneOwner'
    BY <1>5 DEF Swap, Exchanged, FlagExchanged, Owned, TypeOK, OneOwner, Holds
  <2>3. Linked'
    BY <1>5 DEF Swap, Exchanged, FlagExchanged, Owned, TypeOK, OneOwner, Linked, Holds
  <2>4. RunsOwnRoutine'
    BY <1>5 DEF Swap, Exchanged, FlagExchanged, Owned, TypeOK, OneOwner, Linked, RunsOwnRoutine, Holds
  <2>5. JoinForCause'
    BY <1>5 DEF Swap, Exchanged, FlagExchanged, Owned, TypeOK, OneOwner, Linked, JoinForCause, Holds
  <2> QED BY <2>1, <2>2, <2>3, <2>4, <2>5
<1>6. ASSUME NEW d \in Objects, NEW s \in Objects, Assign(d, s) PROVE IInv'
  <2>1. TypeOK'
    BY <1>6 DEF Assign, Delete, Exchanged, FlagExchanged, Owned, TypeOK, Places, OneOwner, Holds
  <2>2. OneOwner'
    BY <1>6 DEF Assign, Delete, Exchanged, FlagExchanged, Owned, TypeOK, OneOwner, Holds
  <2>3. Linked'
    BY <1>6 DEF Assign, Delete, Exchanged, FlagExchanged, Owned, TypeOK, OneOwner, Linked, Holds
  <2>4. RunsOwnRoutine'
    BY <1>6 DEF Assign, Delete, Exchanged, FlagExchanged, Owned, TypeOK, OneOwner, Linked, RunsOwnRoutine, Holds
  <2>5. JoinForCause'
    BY <1>6 DEF Assign, Delete, Exchanged, FlagExchanged, Owned, TypeOK, OneOwner, Linked, JoinForCause, Holds
  <2> QED BY <2>1, <2>2, <2>3, <2>4, <2>5
<1>7. ASSUME NEW o \in Objects, UseEmpty(o) PROVE IInv'
  <2>1. TypeOK'
    BY <1>7 DEF UseEmpty, TypeOK, Places, OneOwner, Holds
  <2>2. OneOwner'
    BY <1>7 DEF UseEmpty, TypeOK, OneOwner, Holds
  <2>3. Linked'
    BY <1>7 DEF UseEmpty, TypeOK, OneOwner, Linked, Holds
  <2>4. RunsOwnRoutine'
    BY <1>7 DEF UseEmpty, TypeOK, OneOwner, Linked, RunsOwnRoutine, Holds
  <2>5. JoinForCause'
    BY <1>7 DEF UseEmpty, TypeOK, OneOwner, Linked, JoinForCause, Holds
  <2> QED BY <2>1, <2>2, <2>3, <2>4, <2>5
<1>8. ASSUME NEW o \in Objects, Suspend(o) PROVE IInv'
  <2>1. TypeOK'
    BY <1>8 DEF Suspend, Ready, Owned, TypeOK, Places, OneOwner, Holds
  <2>2. OneOwner'
    BY <1>8 DEF Suspend, Ready, Owned, TypeOK, OneOwner, Holds
  <2>3. Linked'
    BY <1>8 DEF Suspend, Ready, Owned, TypeOK, OneOwner, Linked, Holds
  <2>4. RunsOwnRoutine'
    BY <1>8 DEF Suspend, Ready, Owned, TypeOK, OneOwner, Linked, RunsOwnRoutine, Holds
  <2>5. JoinForCause'
    BY <1>8 DEF Suspend, Ready, Owned, TypeOK, OneOwner, Linked, JoinForCause, Holds
  <2> QED BY <2>1, <2>2, <2>3, <2>4, <2>5
<1>9. ASSUME NEW o \in Objects, Resume(o) PROVE IInv'
  <2>1. TypeOK'
    BY <1>9 DEF Resume, Ready, Owned, TypeOK, Places, OneOwner, Holds
  <2>2. OneOwner'
    BY <1>9 DEF Resume, Ready, Owned, TypeOK, OneOwner, Holds
  <2>3. Linked'
    BY <1>9 DEF Resume, Ready, Owned, TypeOK, OneOwner, Linked, Holds
  <2>4. RunsOwnRoutine'
    BY <1>9 DEF Resume, Ready, Owned, TypeOK, OneOwner, Linked, RunsOwnRoutine, Holds
  <2>5. JoinForCause'
    BY <1>9 DEF Resume, Ready, Owned, TypeOK, OneOwner, Linked, JoinForCause, Holds
  <2> QED BY <2>1, <2>2, <2>3, <2>4, <2>5
<1>10. ASSUME NEW o \in Objects, Terminate(o) PROVE IInv'
  <2>1. TypeOK'
    BY <1>10 DEF Terminate, Ready, Delete, Owned, TypeOK, Places, OneOwner, Holds
  <2>2. OneOwner'
    BY <1>10 DEF Terminate, Ready, Delete, Owned, TypeOK, OneOwner, Holds
  <2>3. Linked'
    BY <1>10 DEF Terminate, Ready, Delete, Owned, TypeOK, OneOwner, Linked, Holds
  <2>4. RunsOwnRoutine'
    BY <1>10 DEF Terminate, Ready, Delete, Owned, TypeOK, OneOwner, Linked, RunsOwnRoutine, Holds
  <2>5. JoinForCause'
    BY <1>10 DEF Terminate, Ready, Delete, Owned, TypeOK, OneOwner, Linked, JoinForCause, Holds
  <2> QED BY <2>1, <2>2, <2>3, <2>4, <2>5
<1>11. ASSUME NEW o \in Objects, Notify(o) PROVE IInv'
  <2>1. TypeOK'
    BY <1>11 DEF Notify, Ready, Owned, TypeOK, Places, OneOwner, Holds
  <2>2. OneOwner'
    BY <1>11 DEF Notify, Ready, Owned, TypeOK, OneOwner, Holds
  <2>3. Linked'
    BY <1>11 DEF Notify, Ready, Owned, TypeOK, OneOwner, Linked, Holds
  <2>4. RunsOwnRoutine'
    BY <1>11 DEF Notify, Ready, Owned, TypeOK, OneOwner, Linked, RunsOwnRoutine, Holds
  <2>5. JoinForCause'
    BY <1>11 DEF Notify, Ready, Owned, TypeOK, OneOwner, Linked, JoinForCause, Holds
  <2> QED BY <2>1, <2>2, <2>3, <2>4, <2>5
<1>12. ASSUME NEW o \in Objects, ClearNotification(o) PROVE IInv'
  <2>1. TypeOK'
    BY <1>12 DEF ClearNotification, Ready, Owned, TypeOK, Places, OneOwner, Holds
  <2>2. OneOwner'
    BY <1>12 DEF ClearNotification, Ready, Owned, TypeOK, OneOwner, Holds
  <2>3. Linked'
    BY <1>12 DEF ClearNotification, Ready, Owned, TypeOK, OneOwner, Linked, Holds
  <2>4. RunsOwnRoutine'
    BY <1>12 DEF ClearNotification, Ready, Owned, TypeOK, OneOwner, Linked, RunsOwnRoutine, Holds
  <2>5. JoinForCause'
    BY <1>12 DEF ClearNotification, Ready, Owned, TypeOK, OneOwner, Linked, JoinForCause, Holds
  <2> QED BY <2>1, <2>2, <2>3, <2>4, <2>5
<1>13. ASSUME NEW o \in Objects, TakeMail(o) PROVE IInv'
  <2>1. TypeOK'
    BY <1>13 DEF TakeMail, TypeOK, Places, OneOwner, Holds
  <2>2. OneOwner'
    BY <1>13 DEF TakeMail, TypeOK, OneOwner, Holds
  <2>3. Linked'
    BY <1>13 DEF TakeMail, TypeOK, OneOwner, Linked, Holds
  <2>4. RunsOwnRoutine'
    BY <1>13 DEF TakeMail, TypeOK, OneOwner, Linked, RunsOwnRoutine, Holds
  <2>5. JoinForCause'
    BY <1>13 DEF TakeMail, TypeOK, OneOwner, Linked, JoinForCause, Holds
  <2> QED BY <2>1, <2>2, <2>3, <2>4, <2>5
<1>14. ASSUME NotifyOwner PROVE IInv'
  <2>1. TypeOK'
    BY <1>14 DEF NotifyOwner, TypeOK, Places, OneOwner, Holds
  <2>2. OneOwner'
    BY <1>14 DEF NotifyOwner, TypeOK, OneOwner, Holds
  <2>3. Linked'
    BY <1>14 DEF NotifyOwner, TypeOK, OneOwner, Linked, Holds
  <2>4. RunsOwnRoutine'
    BY <1>14 DEF NotifyOwner, TypeOK, OneOwner, Linked, RunsOwnRoutine, Holds
  <2>5. JoinForCause'
    BY <1>14 DEF NotifyOwner, TypeOK, OneOwner, Linked, JoinForCause, Holds
  <2> QED BY <2>1, <2>2, <2>3, <2>4, <2>5
<1>15. ASSUME NEW o \in Objects, JoinCall(o) PROVE IInv'
  <2>1. TypeOK'
    BY <1>15 DEF JoinCall, Ready, TypeOK, Places, OneOwner, Holds
  <2>2. OneOwner'
    BY <1>15 DEF JoinCall, Ready, TypeOK, OneOwner, Holds
  <2>3. Linked'
    BY <1>15 DEF JoinCall, Ready, TypeOK, OneOwner, Linked, Holds
  <2>4. RunsOwnRoutine'
    BY <1>15 DEF JoinCall, Ready, TypeOK, OneOwner, Linked, RunsOwnRoutine, Holds
  <2>5. JoinForCause'
    BY <1>15 DEF JoinCall, Ready, TypeOK, OneOwner, Linked, JoinForCause, Holds
  <2> QED BY <2>1, <2>2, <2>3, <2>4, <2>5
<1>16. ASSUME JoinTake PROVE IInv'
  <2>1. TypeOK'
    BY <1>16 DEF JoinTake, TypeOK, Places, OneOwner, Holds
  <2>2. OneOwner'
    BY <1>16 DEF JoinTake, TypeOK, OneOwner, Holds
  <2>3. Linked'
    BY <1>16 DEF JoinTake, TypeOK, OneOwner, Linked, Holds
  <2>4. RunsOwnRoutine'
    BY <1>16 DEF JoinTake, TypeOK, OneOwner, Linked, RunsOwnRoutine, Holds
  <2>5. JoinForCause'
    BY <1>16 DEF JoinTake, TypeOK, OneOwner, Linked, JoinForCause, Holds
  <2> QED BY <2>1, <2>2, <2>3, <2>4, <2>5
<1>17. ASSUME JoinReturn PROVE IInv'
  <2>1. TypeOK'
    BY <1>17 DEF JoinReturn, Delete, Owned, TypeOK, Places, OneOwner, Holds
  <2>2. OneOwner'
    BY <1>17 DEF JoinReturn, Delete, Owned, TypeOK, OneOwner, Holds
  <2>3. Linked'
    BY <1>17 DEF JoinReturn, Delete, Owned, TypeOK, OneOwner, Linked, Holds
  <2>4. RunsOwnRoutine'
    BY <1>17 DEF JoinReturn, Delete, Owned, TypeOK, OneOwner, Linked, RunsOwnRoutine, Holds
  <2>5. JoinForCause'
    BY <1>17 DEF JoinReturn, Delete, Owned, TypeOK, OneOwner, Linked, JoinForCause, Holds
  <2> QED BY <2>1, <2>2, <2>3, <2>4, <2>5
<1>18. ASSUME NEW k \in Tasks, Enter(k) PROVE IInv'
  <2>1. TypeOK'
    BY <1>18 DEF Enter, Runs, Goto, Owned, TypeOK, Places, OneOwner, Holds
  <2>2. OneOwner'
    BY <1>18 DEF Enter, Runs, Goto, Owned, TypeOK, OneOwner, Holds
  <2>3. Linked'
    BY <1>18 DEF Enter, Runs, Goto, Owned, TypeOK, OneOwner, Linked, Holds
  <2>4. RunsOwnRoutine'
    BY <1>18 DEF Enter, Runs, Goto, Owned, TypeOK, OneOwner, Linked, RunsOwnRoutine, Holds
  <2>5. JoinForCause'
    BY <1>18 DEF Enter, Runs, Goto, Owned, TypeOK, OneOwner, Linked, JoinForCause, Holds
  <2> QED BY <2>1, <2>2, <2>3, <2>4, <2>5
<1>19. ASSUME NEW k \in Tasks, Call(k) PROVE IInv'
  <2>1. TypeOK'
    BY <1>19 DEF Call, Runs, Goto, Proceed, End, TypeOK, Places, OneOwner, Holds
  <2>2. OneOwner'
    BY <1>19 DEF Call, Runs, Goto, Proceed, End, TypeOK, OneOwner, Holds
  <2>3. Linked'
    BY <1>19 DEF Call, Runs, Goto, Proceed, End, TypeOK, OneOwner, Linked, Holds
  <2>4. RunsOwnRoutine'
    BY <1>19 DEF Call, Runs, Goto, Proceed, End, TypeOK, OneOwner, Linked, RunsOwnRoutine, Holds
  <2>5. JoinForCause'
    BY <1>19 DEF Call, Runs, Goto, Proceed, End, TypeOK, OneOwner, Linked, JoinForCause, Holds
  <2> QED BY <2>1, <2>2, <2>3, <2>4, <2>5
<1>20. ASSUME NEW k \in Tasks, Exit(k) PROVE IInv'
  <2>1. TypeOK'
    BY <1>20 DEF Exit, Runs, Goto, TypeOK, Places, OneOwner, Holds
  <2>2. OneOwner'
    BY <1>20 DEF Exit, Runs, Goto, TypeOK, OneOwner, Holds
  <2>3. Linked'
    BY <1>20 DEF Exit, Runs, Goto, TypeOK, OneOwner, Linked, Holds
  <2>4. RunsOwnRoutine'
    BY <1>20 DEF Exit, Runs, Goto, TypeOK, OneOwner, Linked, RunsOwnRoutine, Holds
  <2>5. JoinForCause'
    BY <1>20 DEF Exit, Runs, Goto, TypeOK, OneOwner, Linked, JoinForCause, Holds
  <2> QED BY <2>1, <2>2, <2>3, <2>4, <2>5
<1>21. ASSUME NEW k \in Tasks, Finish(k) PROVE IInv'
  <2>1. TypeOK'
    BY <1>21 DEF Finish, Runs, Goto, TypeOK, Places, OneOwner, Holds
  <2>2. OneOwner'
    BY <1>21 DEF Finish, Runs, Goto, TypeOK, OneOwner, Holds
  <2>3. Linked'
    BY <1>21 DEF Finish, Runs, Goto, TypeOK, OneOwner, Linked, Holds
  <2>4. RunsOwnRoutine'
    BY <1>21 DEF Finish, Runs, Goto, TypeOK, OneOwner, Linked, RunsOwnRoutine, Holds
  <2>5. JoinForCause'
    BY <1>21 DEF Finish, Runs, Goto, TypeOK, OneOwner, Linked, JoinForCause, Holds
  <2> QED BY <2>1, <2>2, <2>3, <2>4, <2>5
<1>22. ASSUME NEW k \in Tasks, Step(k) PROVE IInv'
  <2>1. TypeOK'
    BY <1>22 DEF Step, Runs, Goto, Proceed, End, TypeOK, Places, OneOwner, Holds
  <2>2. OneOwner'
    BY <1>22 DEF Step, Runs, Goto, Proceed, End, TypeOK, OneOwner, Holds
  <2>3. Linked'
    BY <1>22 DEF Step, Runs, Goto, Proceed, End, TypeOK, OneOwner, Linked, Holds
  <2>4. RunsOwnRoutine'
    BY <1>22 DEF Step, Runs, Goto, Proceed, End, TypeOK, OneOwner, Linked, RunsOwnRoutine, Holds
  <2>5. JoinForCause'
    BY <1>22 DEF Step, Runs, Goto, Proceed, End, TypeOK, OneOwner, Linked, JoinForCause, Holds
  <2> QED BY <2>1, <2>2, <2>3, <2>4, <2>5
<1>23. ASSUME NEW k \in Tasks, Loop(k) PROVE IInv'
  <2>1. TypeOK'
    BY <1>23 DEF Loop, Runs, Goto, Proceed, End, TypeOK, Places, OneOwner, Holds
  <2>2. OneOwner'
    BY <1>23 DEF Loop, Runs, Goto, Proceed, End, TypeOK, OneOwner, Holds
  <2>3. Linked'
    BY <1>23 DEF Loop, Runs, Goto, Proceed, End, TypeOK, OneOwner, Linked, Holds
  <2>4. RunsOwnRoutine'
    BY <1>23 DEF Loop, Runs, Goto, Proceed, End, TypeOK, OneOwner, Linked, RunsOwnRoutine, Holds
  <2>5. JoinForCause'
    BY <1>23 DEF Loop, Runs, Goto, Proceed, End, TypeOK, OneOwner, Linked, JoinForCause, Holds
  <2> QED BY <2>1, <2>2, <2>3, <2>4, <2>5
<1>24. ASSUME UNCHANGED vars PROVE IInv'
  <2>1. TypeOK'
    BY <1>24 DEF vars, TypeOK, Places, OneOwner, Holds
  <2>2. OneOwner'
    BY <1>24 DEF vars, TypeOK, OneOwner, Holds
  <2>3. Linked'
    BY <1>24 DEF vars, TypeOK, OneOwner, Linked, Holds
  <2>4. RunsOwnRoutine'
    BY <1>24 DEF vars, TypeOK, OneOwner, Linked, RunsOwnRoutine, Holds
  <2>5. JoinForCause'
    BY <1>24 DEF vars, TypeOK, OneOwner, Linked, JoinForCause, Holds
  <2> QED BY <2>1, <2>2, <2>3, <2>4, <2>5
<1> QED
  BY <1>1, <1>2, <1>3, <1>4, <1>5, <1>6, <1>7, <1>8, <1>9, <1>10, <1>11, <1>12, <1>13, <1>14, <1>15, <1>16, <1>17, <1>18, <1>19, <1>20, <1>21, <1>22, <1>23, <1>24
     DEF Next, Owner, Kernel, ConstructPeriodic, MovePeriodic, OnTask, OnPeriodic,
         NotifyPeriodic

(* The inductive invariant holds in every reachable state. *)
LEMMA SpecIInv == Spec => []IInv
BY InitIInv, NextIInv, PTL DEF Spec

-----------------------------------------------------------------------------
(* Types: the members of the objects and the kernel's state stay in range. *)
THEOREM TypeCorrect == Spec => []TypeOK
BY SpecIInv, PTL DEF IInv

(* No kernel task is leaked, deleted twice or used after its deletion. *)
THEOREM EveryTaskOwned == Spec => []OneOwner
BY SpecIInv, PTL DEF IInv

(* A task whose object stays where it is runs the routine of that object. *)
THEOREM OwnRoutine == Spec => []RunsOwnRoutine
BY SpecIInv, PTL DEF IInv

(* join() deletes a running task only after a foreign notification or a move. *)
THEOREM JoinJustified == Spec => []JoinForCause
BY SpecIInv, PTL DEF IInv
=============================================================================
