-------------------------------- MODULE Task --------------------------------
(***************************************************************************)
(* freertos::task and periodic_task (include/freertos_task.hpp): objects   *)
(* that own kernel tasks, the task that uses them (the owner below) and    *)
(* the kernel tasks themselves, which run at the same time.                *)
(*                                                                         *)
(* A kernel task gets the address of its object when it is created and     *)
(* reads the object's members through it whenever it needs them: the       *)
(* start-suspended flag, the routine, at the end the handle to notify.     *)
(* It may preempt the constructor that creates it, and then m_hTask and    *)
(* m_joinHandle are not initialized yet.                                   *)
(*                                                                         *)
(* The routine that an object was constructed with is named like the       *)
(* object.  That of a periodic task is a lambda that holds the address of  *)
(* the periodic_task and calls m_on_start, m_periodic_routine and          *)
(* m_on_stop (`body`) of whatever is there.                                *)
(***************************************************************************)
EXTENDS Naturals

CONSTANTS
  Objects,     (* the task and periodic_task objects of the program        *)
  Tasks,       (* kernel tasks: a handle is reused once it is deleted      *)
  None         (* a null handle, an empty std::function, no object         *)

ASSUME NoneAssumption == None \notin Objects \cup Tasks

VARIABLES
  alive,       (* the objects under construction or constructed            *)
  periodic,    (* those that are periodic_task objects                     *)
  handle,      (* m_hTask of each object                                   *)
  routine,     (* m_taskRoutine of each object                             *)
  body,        (* the routines of a periodic_task                          *)
  flagged,     (* the objects with m_start_suspended set                   *)
  joiner,      (* the objects whose m_joinHandle is the owner's            *)
  tasks,       (* the kernel tasks created and not deleted                 *)
  suspended,   (* the kernel tasks that are suspended                      *)
  context,     (* the object each kernel task was created with             *)
  pc,          (* where each kernel task is                                *)
  running,     (* the std::function that each kernel task has called       *)
  notified,    (* the kernel tasks with a pending notification             *)
  mail,        (* whether the owner's notification value is not zero       *)
  at,          (* where the owner's constructor or join() is               *)
  obj, new,    (* its object, and the handle the kernel has returned       *)
  intact,      (* the kernel tasks whose object was not moved or swapped   *)
  awaited      (* those that were resumed and have not begun               *)

objects == <<alive, periodic, handle, routine, body, flagged, joiner>>
kernel  == <<tasks, suspended, context, pc, running, notified>>
owner   == <<mail, at, obj, new>>
history == <<intact, awaited>>
vars    == <<objects, kernel, owner, history>>

Init ==
  /\ alive = {} /\ periodic = {} /\ flagged = {} /\ joiner = {}
  /\ handle = [o \in Objects |-> None]
  /\ routine = [o \in Objects |-> None]
  /\ body = [o \in Objects |-> None]
  /\ tasks = {} /\ suspended = {} /\ notified = {}
  /\ context = [k \in Tasks |-> None]
  /\ pc = [k \in Tasks |-> "none"]
  /\ running = [k \in Tasks |-> None]
  /\ mail = FALSE /\ at = "idle" /\ obj = None /\ new = None
  /\ intact = {} /\ awaited = {}

-----------------------------------------------------------------------------
(* Kernel calls.                                                           *)

Create(k, o) ==
  /\ k \notin tasks
  /\ tasks' = tasks \cup {k}
  /\ context' = [context EXCEPT ![k] = o]
  /\ pc' = [pc EXCEPT ![k] = "enter"]
  /\ UNCHANGED <<suspended, running, notified>>

(* vTaskDelete of the task in gone, if there is one: nothing of it remains. *)
(* The object of the task in moved, if there is one, is moved.             *)
Delete(gone, moved) ==
  /\ tasks' = tasks \ gone
  /\ suspended' = suspended \ gone
  /\ notified' = notified \ gone
  /\ context' = [k \in Tasks |-> IF k \in gone THEN None ELSE context[k]]
  /\ pc' = [k \in Tasks |-> IF k \in gone THEN "none" ELSE pc[k]]
  /\ running' = [k \in Tasks |-> IF k \in gone THEN None ELSE running[k]]
  /\ intact' = intact \ (gone \cup moved)
  /\ awaited' = awaited \ gone

Owned(o) == {handle[o]} \cap tasks

-----------------------------------------------------------------------------
(* Construction and destruction.                                           *)

(* Mutant: the routine is moved in too late for a task that preempts.      *)
ConstructLate(o, periodically) ==
  /\ at = "idle" /\ o \notin alive
  /\ alive' = alive \cup {o}
  /\ periodic' = IF periodically THEN periodic \cup {o} ELSE periodic \ {o}
  /\ body' = [body EXCEPT ![o] = IF periodically THEN o ELSE None]
  /\ flagged' \in {flagged \cup {o}, flagged \ {o}}
  /\ \E k \in Tasks :
       Create(k, o) /\ new' = k /\ intact' = intact \cup {k}
  /\ at' = "store" /\ obj' = o
  /\ UNCHANGED <<handle, routine, joiner, mail, awaited>>

(* The members up to m_taskRoutine are set and the kernel task is created, *)
(* if there is memory for it; m_hTask and m_joinHandle keep what the       *)
(* memory of the object happens to hold.                                   *)
Construct(o, periodically) ==
  /\ at = "idle" /\ o \notin alive
  /\ alive' = alive \cup {o}
  /\ periodic' = IF periodically THEN periodic \cup {o} ELSE periodic \ {o}
  /\ routine' = [routine EXCEPT ![o] = o]
  /\ body' = [body EXCEPT ![o] = IF periodically THEN o ELSE None]
  /\ flagged' \in {flagged \cup {o}, flagged \ {o}}
  /\ \E garbage \in Tasks \cup {None} : handle' = [handle EXCEPT ![o] = garbage]
  /\ joiner' \in {joiner \cup {o}, joiner \ {o}}
  /\ \/ \E k \in Tasks :
          Create(k, o) /\ new' = k /\ intact' = intact \cup {k}
     \/ new' = None /\ UNCHANGED <<kernel, intact>>
  /\ at' = "store" /\ obj' = o
  /\ UNCHANGED <<mail, awaited>>

(* Mutant: the handle to notify is left as the memory had it. *)
StoreHandleOnly ==
  /\ at = "store"
  /\ handle' = [handle EXCEPT ![obj] = new]
  /\ at' = "idle" /\ obj' = None /\ new' = None
  /\ UNCHANGED <<alive, periodic, routine, body, flagged, joiner, kernel, mail,
                 history>>

(* The handle the kernel has returned is stored, m_joinHandle is cleared.  *)
Store ==
  /\ at = "store"
  /\ handle' = [handle EXCEPT ![obj] = new]
  /\ joiner' = joiner \ {obj}
  /\ at' = "idle" /\ obj' = None /\ new' = None
  /\ UNCHANGED <<alive, periodic, routine, body, flagged, kernel, mail, history>>

(* Mutant: the moved-from object keeps its handle. *)
MoveConstructCopy(o, s) ==
  /\ at = "idle" /\ o \notin alive /\ s \in alive
  /\ alive' = alive \cup {o}
  /\ periodic' = IF s \in periodic THEN periodic \cup {o} ELSE periodic \ {o}
  /\ handle' = [handle EXCEPT ![o] = handle[s]]
  /\ routine' = [routine EXCEPT ![o] = routine[s], ![s] = None]
  /\ body' = [body EXCEPT ![o] = body[s], ![s] = None]
  /\ flagged' = IF s \in flagged THEN flagged \cup {o} ELSE flagged \ {o}
  /\ joiner' = joiner \ {o, s}
  /\ intact' = intact \ Owned(s)
  /\ UNCHANGED <<kernel, owner, awaited>>

(* Move construction: the kernel task goes on with the address of s.       *)
MoveConstruct(o, s) ==
  /\ at = "idle" /\ o \notin alive /\ s \in alive
  /\ alive' = alive \cup {o}
  /\ periodic' = IF s \in periodic THEN periodic \cup {o} ELSE periodic \ {o}
  /\ handle' = [handle EXCEPT ![o] = handle[s], ![s] = None]
  /\ routine' = [routine EXCEPT ![o] = routine[s], ![s] = None]
  /\ body' = [body EXCEPT ![o] = body[s], ![s] = None]
  /\ flagged' = IF s \in flagged THEN flagged \cup {o} ELSE flagged \ {o}
  /\ joiner' = joiner \ {o, s}
  /\ intact' = intact \ Owned(s)
  /\ UNCHANGED <<kernel, owner, awaited>>

(* The destructor.  That of a periodic task first ends the wait it is in,  *)
(* which in this model may end at any time.                                *)
Destroy(o) ==
  /\ at = "idle" /\ o \in alive
  /\ Delete(Owned(o), {})
  /\ alive' = alive \ {o} /\ periodic' = periodic \ {o}
  /\ handle' = [handle EXCEPT ![o] = None]
  /\ routine' = [routine EXCEPT ![o] = None]
  /\ body' = [body EXCEPT ![o] = None]
  /\ flagged' = flagged \ {o} /\ joiner' = joiner \ {o}
  /\ UNCHANGED owner

Exchanged(f, a, b) == [f EXCEPT ![a] = f[b], ![b] = f[a]]
FlagExchanged(a, b) ==
  (flagged \ {a, b}) \cup (IF a \in flagged THEN {b} ELSE {})
                     \cup (IF b \in flagged THEN {a} ELSE {})

(* swap(), and with it the move assignment of periodic tasks.              *)
Swap(a, b) ==
  /\ at = "idle" /\ {a, b} \subseteq alive /\ a # b
  /\ a \in periodic <=> b \in periodic
  /\ handle' = Exchanged(handle, a, b)
  /\ routine' = Exchanged(routine, a, b)
  /\ body' = Exchanged(body, a, b)
  /\ flagged' = FlagExchanged(a, b)
  /\ intact' = intact \ (Owned(a) \cup Owned(b))
  /\ UNCHANGED <<alive, periodic, joiner, kernel, owner, awaited>>

(* Move assignment of plain tasks: d's task is deleted, then a swap.       *)
Assign(d, s) ==
  /\ at = "idle" /\ {d, s} \subseteq alive \ periodic /\ d # s
  /\ Delete(Owned(d), Owned(s))
  /\ handle' = [handle EXCEPT ![d] = handle[s], ![s] = None]
  /\ routine' = Exchanged(routine, d, s)
  /\ flagged' = FlagExchanged(d, s)
  /\ UNCHANGED <<alive, periodic, body, joiner, owner>>

(* periodic_task: the task is constructed with the lambda, and a move or   *)
(* swap is one of all members, the task last.                              *)
ConstructPeriodic(o) == Construct(o, TRUE)
MovePeriodic(o, s) == s \in periodic /\ (MoveConstruct(o, s) \/ Swap(o, s))

-----------------------------------------------------------------------------
(* Operations on a task, by its owner.                                     *)

(* Every call through a null handle ends the owner: vTaskDelete(nullptr)   *)
(* and vTaskSuspend(nullptr) act on the task that calls them, the other    *)
(* kernel functions assert.                                                *)
UseEmpty(o) ==
  /\ at = "idle" /\ o \in alive /\ handle[o] = None
  /\ at' = "gone"
  /\ UNCHANGED <<objects, kernel, mail, obj, new, history>>

Ready(o) == at = "idle" /\ o \in alive /\ handle[o] # None

Suspend(o) ==
  /\ Ready(o)
  /\ suspended' = suspended \cup Owned(o)
  /\ awaited' = awaited \ Owned(o)
  /\ UNCHANGED <<objects, tasks, context, pc, running, notified, owner, intact>>

(* resume(), resume_isr(): nothing happens to a task that is not suspended. *)
Resume(o) ==
  /\ Ready(o)
  /\ suspended' = suspended \ Owned(o)
  /\ awaited' = awaited \cup {k \in Owned(o) : pc[k] \in {"enter", "call"}}
  /\ UNCHANGED <<objects, tasks, context, pc, running, notified, owner, intact>>

Terminate(o) ==
  /\ Ready(o)
  /\ Delete(Owned(o), {})
  /\ handle' = [handle EXCEPT ![o] = None]
  /\ UNCHANGED <<alive, periodic, routine, body, flagged, joiner, owner>>

(* notify_give, notify, notify_and_query and their forms for interrupts.   *)
(* (What a plain task does with a notification is up to its routine.)      *)
Notify(o) ==
  /\ Ready(o)
  /\ notified' = notified \cup {k \in Owned(o) : context[k] \in periodic}
  /\ UNCHANGED <<objects, tasks, suspended, context, pc, running, owner, history>>

ClearNotification(o) ==
  /\ Ready(o)
  /\ notified' = notified \ Owned(o)
  /\ UNCHANGED <<objects, tasks, suspended, context, pc, running, owner, history>>

(* notify_take and notify_wait wait for the task that calls them, not for  *)
(* the task of the object they are called on, and return when it has mail. *)
TakeMail(o) ==
  /\ at = "idle" /\ o \in alive /\ mail
  /\ mail' = FALSE
  /\ UNCHANGED <<objects, kernel, at, obj, new, history>>

(* periodic_task hands these calls on to its task.                         *)
OnTask(o) == Suspend(o) \/ Resume(o) \/ Terminate(o)
OnPeriodic(o) == o \in periodic /\ OnTask(o)
NotifyPeriodic(o) == o \in periodic /\ (Notify(o) \/ ClearNotification(o))

(* Others, tasks or interrupts, may notify the owner at any time.          *)
NotifyOwner ==
  /\ mail' = TRUE
  /\ at' = IF at = "join_wait" THEN "join_woken" ELSE at
  /\ UNCHANGED <<objects, kernel, obj, new, history>>

-----------------------------------------------------------------------------
(* join()                                                                  *)

(* Mutant: the owner begins to wait before it has stored its handle. *)
JoinUnannounced(o) ==
  /\ Ready(o) /\ o \notin periodic
  /\ at' = "join" /\ obj' = o
  /\ UNCHANGED <<alive, periodic, handle, routine, body, flagged, joiner, kernel,
                 mail, new, history>>

JoinCall(o) ==
  /\ Ready(o) /\ o \notin periodic
  /\ joiner' = joiner \cup {o}
  /\ at' = "join" /\ obj' = o
  /\ UNCHANGED <<alive, periodic, handle, routine, body, flagged, kernel, mail,
                 new, history>>

(* Mutant: the wait for a notification times out at once. *)
JoinPoll ==
  /\ at = "join"
  /\ at' = "join_woken"
  /\ UNCHANGED <<objects, kernel, mail, obj, new, history>>

(* ulTaskNotifyTake returns at once only if the value is not zero; whether *)
(* a notification is pending does not matter to it.                        *)
JoinTake ==
  /\ at = "join"
  /\ at' = IF mail THEN "join_woken" ELSE "join_wait"
  /\ UNCHANGED <<objects, kernel, mail, obj, new, history>>

(* Whatever has woken the owner, the value is cleared, the task deleted.   *)
JoinReturn ==
  /\ at = "join_woken"
  /\ Delete(Owned(obj), {})
  /\ handle' = [handle EXCEPT ![obj] = None]
  /\ joiner' = joiner \ {obj}
  /\ mail' = FALSE
  /\ at' = "idle" /\ obj' = None
  /\ UNCHANGED <<alive, periodic, routine, body, flagged, new>>

-----------------------------------------------------------------------------
(* task_exec and periodic_task::run, in kernel task k.                     *)

Runs(k, from) == at # "gone" /\ k \in tasks \ suspended /\ pc[k] = from
Goto(k, to) == pc' = [pc EXCEPT ![k] = to]
Proceed(k, to) == Goto(k, to) /\ UNCHANGED <<at, obj, new>>

(* An exception in a kernel task, or an assertion, ends the program.       *)
End(k, how) == Goto(k, how) /\ at' = "gone" /\ obj' = None /\ new' = None

(* A task that is to start suspended suspends the task that m_hTask names, *)
(* itself if it is null.                                                   *)
Enter(k) ==
  /\ Runs(k, "enter")
  /\ LET o == context[k]
         whom == IF handle[o] = None THEN {k} ELSE Owned(o)
     IN suspended' = IF o \in flagged THEN suspended \cup whom ELSE suspended
  /\ Goto(k, "call")
  /\ UNCHANGED <<objects, tasks, context, running, notified, owner, history>>

(* The call of an empty std::function throws.                              *)
Call(k) ==
  /\ Runs(k, "call")
  /\ LET r == routine[context[k]] IN
       /\ running' = [running EXCEPT ![k] = r]
       /\ IF r = None THEN End(k, "thrown")
          ELSE Proceed(k, IF context[k] \in periodic THEN "start" ELSE "body")
  /\ awaited' = awaited \ {k}
  /\ UNCHANGED <<objects, tasks, suspended, context, notified, mail, intact>>

(* xTaskNotify(m_joinHandle, 0, eNoAction) wakes an owner that waits; to   *)
(* one that does not wait yet, it does not change the value.               *)
Exit(k) ==
  /\ Runs(k, "exit")
  /\ at' = IF context[k] \in joiner /\ at = "join_wait" THEN "join_woken" ELSE at
  /\ Goto(k, "returned")
  /\ UNCHANGED <<objects, tasks, suspended, context, running, notified, mail, obj,
                 new, history>>

Finish(k) ==
  /\ Runs(k, "body")
  /\ Goto(k, "exit")
  /\ UNCHANGED <<objects, tasks, suspended, context, running, notified, owner,
                 history>>

(* m_on_start() and m_periodic_routine() of the object in the lambda.      *)
Step(k) ==
  /\ Runs(k, "start") \/ Runs(k, "work")
  /\ IF body[running[k]] = None THEN End(k, "thrown") ELSE Proceed(k, "loop")
  /\ UNCHANGED <<objects, tasks, suspended, context, running, notified, mail,
                 history>>

(* while (is_alive()): a task that asks for its own state is told that it  *)
(* runs, and waits for a period, or until it is notified.                  *)
(* eTaskGetState(nullptr) asserts; for what is no task it may say          *)
(* anything, and only then is m_on_stop called.                            *)
Loop(k) ==
  /\ Runs(k, "loop")
  /\ LET h == handle[running[k]] IN
       \/ h = None /\ End(k, "asserted") /\ UNCHANGED notified
       \/ h # None /\ Proceed(k, "work") /\ notified' = notified \ {k}
       \/ h # None /\ h \notin tasks /\ Proceed(k, "exit") /\ UNCHANGED notified
  /\ UNCHANGED <<objects, tasks, suspended, context, running, mail, history>>

-----------------------------------------------------------------------------
Owner ==
  \/ \E o \in Objects :
       \/ Construct(o, FALSE) \/ ConstructPeriodic(o)
       \/ Destroy(o) \/ UseEmpty(o) \/ TakeMail(o) \/ JoinCall(o)
       \/ o \notin periodic /\ (OnTask(o) \/ Notify(o) \/ ClearNotification(o))
       \/ OnPeriodic(o) \/ NotifyPeriodic(o)
       \/ \E s \in Objects :
            \/ s \notin periodic /\ (MoveConstruct(o, s) \/ Swap(o, s) \/ Assign(o, s))
            \/ MovePeriodic(o, s)
  \/ Store \/ JoinTake \/ JoinReturn

Kernel(k) ==
  \/ Enter(k) \/ Call(k) \/ Finish(k) \/ Exit(k)
  \/ Step(k) \/ Loop(k)

Next == Owner \/ NotifyOwner \/ \E k \in Tasks : Kernel(k)

(* A task that is not suspended gets to run, and the owner goes on with a  *)
(* call that is under way; nothing says that a routine ends.               *)
Fairness ==
  /\ \A k \in Tasks : WF_vars(Enter(k) \/ Call(k) \/ Exit(k))
  /\ WF_vars(Store \/ JoinTake \/ JoinReturn)

Spec == Init /\ [][Next]_vars /\ Fairness

-----------------------------------------------------------------------------
(* Properties.                                                             *)

Places == {"none", "enter", "call", "start", "body", "loop", "work",
           "exit", "returned", "thrown", "asserted"}

(* Types; a kernel task has a context as long as it exists, and             *)
(* m_joinHandle is set only while its object is constructed or joined.     *)
TypeOK ==
  /\ alive \subseteq Objects /\ periodic \subseteq alive
  /\ flagged \subseteq Objects
  /\ handle \in [Objects -> Tasks \cup {None}]
  /\ routine \in [Objects -> Objects \cup {None}]
  /\ body \in [Objects -> Objects \cup {None}]
  /\ tasks \subseteq Tasks /\ suspended \subseteq tasks
  /\ notified \subseteq tasks
  /\ context \in [Tasks -> Objects \cup {None}]
  /\ pc \in [Tasks -> Places]
  /\ running \in [Tasks -> Objects \cup {None}]
  /\ mail \in BOOLEAN
  /\ at \in {"idle", "store", "join", "join_wait", "join_woken", "gone"}
  /\ obj \in Objects \cup {None} /\ new \in Tasks \cup {None}
  /\ intact \subseteq tasks /\ awaited \subseteq tasks
  /\ \A k \in tasks : context[k] \in Objects /\ pc[k] # "none"
  /\ at \in {"idle", "gone"} <=> obj = None
  /\ obj # None => obj \in alive
  /\ at \in {"join", "join_wait", "join_woken"} => handle[obj] \in tasks
  /\ at # "gone" => joiner \subseteq {obj} \ {None}

(* The handle that object o holds, or is about to hold.                    *)
Holds(o) == IF at = "store" /\ o = obj THEN new ELSE handle[o]

(* Every kernel task belongs to one object: no task is leaked, and none is *)
(* deleted twice or used after its deletion, whatever is moved, swapped,   *)
(* joined or terminated.                                                   *)
OneOwner ==
  at # "gone" =>
    /\ \A a, b \in alive : Holds(a) # None /\ Holds(a) = Holds(b) => a = b
    /\ {Holds(o) : o \in alive} \ {None} = tasks

(* A task whose object was not moved or swapped finds the routine that its *)
(* object was constructed with, also when it preempts the constructor, and *)
(* never an empty one.                                                     *)
RunsOwnRoutine ==
  \A k \in intact :
    /\ pc[k] # "thrown"
    /\ pc[k] \in {"start", "body", "loop", "work"} =>
         running[k] = context[k]
    /\ pc[k] \in {"start", "loop", "work"} =>
         body[running[k]] = context[k]

(* join() deletes a task only when its routine has ended, unless something *)
(* else notified the owner or a running task's object was moved.           *)
JoinForCause ==
  at = "join_woken" =>
    \/ mail \/ tasks # intact
    \/ pc[handle[obj]] = "returned"

(* An owner that waits in join() when the task has ended its routine gets  *)
(* to know and returns (a task that ended earlier leaves it waiting).      *)
JoinReturns ==
  (/\ at = "join_wait" /\ pc[handle[obj]] = "exit"
   /\ handle[obj] \notin suspended /\ tasks = intact) ~> at # "join_wait"

(* tests/test_enhanced_multitasking.cpp:617-620: a task that was made to   *)
(* start suspended and is resumed then executes (or is suspended again, or *)
(* deleted).                                                               *)
ResumeStarts == \A k \in Tasks : k \in awaited ~> k \notin awaited
=============================================================================
