------------------------------- MODULE SwTimer -------------------------------
(***************************************************************************)
(* freertos::timer (include/freertos_sw_timer.hpp): C++ objects that own   *)
(* kernel software timers, a task that uses them, and the timer daemon     *)
(* that runs their callbacks at any moment in between.                     *)
(*                                                                         *)
(* A kernel timer has an ID, the address of its object; when it expires    *)
(* the daemon calls callback_wrapper, which calls m_callback of whatever   *)
(* object the ID names.  The daemon has a higher priority than the task    *)
(* (Start, stop and delete commands are executed when they are sent).      *)
(*                                                                         *)
(* `made` remembers the callback each kernel timer was created for.        *)
(***************************************************************************)
EXTENDS Naturals

CONSTANTS
  Objects,     (* the timer objects of the program                       *)
  Callbacks,   (* the routines they are constructed with                 *)
  Timers,      (* kernel timers: a handle is reused once it is deleted   *)
  None         (* a null handle, an empty std::function, no object       *)

ASSUME NoneAssumption == None \notin Objects \cup Callbacks \cup Timers

VARIABLES
  alive,       (* the objects constructed and not destroyed              *)
  handle,      (* m_timer of each object                                 *)
  callback,    (* m_callback of each object                              *)
  started,     (* m_started of each object                               *)
  exists,      (* the kernel timers created and not deleted              *)
  active,      (* the kernel timers that are running                     *)
  id,          (* the object each kernel timer calls                     *)
  made,        (* the callback each kernel timer was created for         *)
  at,          (* where the move assignment or swap in progress is       *)
  dst, src,    (* its two objects                                        *)
  newTimer,    (* its new timer                                          *)
  wasStarted,  (* m_started of the source when it began                  *)
  ran          (* whether the source's timer was running then            *)

objects == <<alive, handle, callback, started>>
kernel  == <<exists, active, id, made>>
locals  == <<dst, src, newTimer, wasStarted, ran>>
vars    == <<objects, kernel, at, locals>>

Init ==
  /\ alive = {}
  /\ handle = [o \in Objects |-> None]
  /\ callback = [o \in Objects |-> None]
  /\ started = [o \in Objects |-> FALSE]
  /\ exists = {}
  /\ active = {}
  /\ id = [k \in Timers |-> None]
  /\ made = [k \in Timers |-> None]
  /\ at = "idle"
  /\ dst = None /\ src = None /\ newTimer = None
  /\ wasStarted = FALSE /\ ran = FALSE

Return ==
  /\ at' = "idle"
  /\ dst' = None /\ src' = None /\ newTimer' = None
  /\ wasStarted' = FALSE /\ ran' = FALSE

-----------------------------------------------------------------------------
(* The kernel.                                                             *)

(* xTimerCreate returns a dormant timer that calls object o, made for c.   *)
Create(k, o, c) ==
  /\ k \notin exists
  /\ exists' = exists \cup {k}
  /\ id' = [id EXCEPT ![k] = o]
  /\ made' = [made EXCEPT ![k] = c]
  /\ UNCHANGED active

Delete(k) ==
  /\ exists' = exists \ {k}
  /\ active' = active \ {k}
  /\ id' = [id EXCEPT ![k] = None]
  /\ made' = [made EXCEPT ![k] = None]

(* The daemon runs the callback; a one-shot timer is dormant afterwards,   *)
(* and m_started is not told.                                              *)
Expire(k) ==
  /\ k \in active
  /\ active' \in {active, active \ {k}}
  /\ UNCHANGED <<objects, exists, id, made, at, locals>>

-----------------------------------------------------------------------------
(* Operations of one kernel call, by the task.                             *)

Ready(o) == at = "idle" /\ o \in alive /\ handle[o] # None

(* The constructor; if the kernel has no memory the object has no timer    *)
(* (the assertion on it may be compiled out).                              *)
Construct(o) ==
  /\ at = "idle" /\ o \notin alive
  /\ alive' = alive \cup {o}
  /\ \E c \in Callbacks :
       /\ callback' = [callback EXCEPT ![o] = c]
       /\ \/ \E k \in Timers :
               Create(k, o, c) /\ handle' = [handle EXCEPT ![o] = k]
          \/ handle' = [handle EXCEPT ![o] = None] /\ UNCHANGED kernel
  /\ started' = [started EXCEPT ![o] = FALSE]
  /\ UNCHANGED <<at, locals>>

(* Mutant: the destructor does not delete the kernel timer. *)
DestroyObjectOnly(o) ==
  /\ at = "idle" /\ o \in alive
  /\ alive' = alive \ {o}
  /\ handle' = [handle EXCEPT ![o] = None]
  /\ UNCHANGED <<callback, started, kernel, at, locals>>

Destroy(o) ==
  /\ at = "idle" /\ o \in alive
  /\ alive' = alive \ {o}
  /\ handle' = [handle EXCEPT ![o] = None]
  /\ callback' = [callback EXCEPT ![o] = None]
  /\ started' = [started EXCEPT ![o] = FALSE]
  /\ IF handle[o] = None THEN UNCHANGED kernel ELSE Delete(handle[o])
  /\ UNCHANGED <<at, locals>>

(* Mutant: start() sends its command without looking for a timer first. *)
StartUnchecked(o) ==
  /\ at = "idle" /\ o \in alive
  /\ active' = active \cup {handle[o]}
  /\ started' = [started EXCEPT ![o] = TRUE]
  /\ UNCHANGED <<alive, handle, callback, exists, id, made, at, locals>>

(* start(), start_isr(): a command the queue refuses changes nothing.      *)
Start(o) ==
  /\ Ready(o)
  /\ active' = active \cup {handle[o]}
  /\ started' = [started EXCEPT ![o] = TRUE]
  /\ UNCHANGED <<alive, handle, callback, exists, id, made, at, locals>>

Stop(o) ==
  /\ Ready(o)
  /\ active' = active \ {handle[o]}
  /\ started' = [started EXCEPT ![o] = FALSE]
  /\ UNCHANGED <<alive, handle, callback, exists, id, made, at, locals>>

(* reset() and period() start a dormant timer too, but leave m_started.    *)
Reset(o) ==
  /\ Ready(o)
  /\ active' = active \cup {handle[o]}
  /\ UNCHANGED <<objects, exists, id, made, at, locals>>

(* Mutant: the moved timer goes on calling the object it was moved from. *)
MoveConstructKeepsId(o, s) ==
  /\ at = "idle" /\ o \notin alive /\ s \in alive
  /\ ~started[s] /\ handle[s] \notin active
  /\ alive' = alive \cup {o}
  /\ handle' = [handle EXCEPT ![o] = handle[s], ![s] = None]
  /\ callback' = [callback EXCEPT ![o] = callback[s], ![s] = None]
  /\ started' = [started EXCEPT ![o] = FALSE, ![s] = FALSE]
  /\ UNCHANGED <<kernel, at, locals>>

(* The move constructor, which asserts that the source is not started and  *)
(* leaves the case of a running timer undefined.                           *)
MoveConstruct(o, s) ==
  /\ at = "idle" /\ o \notin alive /\ s \in alive
  /\ ~started[s] /\ handle[s] \notin active
  /\ alive' = alive \cup {o}
  /\ handle' = [handle EXCEPT ![o] = handle[s], ![s] = None]
  /\ callback' = [callback EXCEPT ![o] = callback[s], ![s] = None]
  /\ started' = [started EXCEPT ![o] = FALSE, ![s] = FALSE]
  /\ id' = [k \in Timers |-> IF k = handle[s] THEN o ELSE id[k]]
  /\ UNCHANGED <<exists, active, made, at, locals>>

Exchanged(f, a, b) == [f EXCEPT ![a] = f[b], ![b] = f[a]]

(* swap() exchanges the members first: until the two IDs are set, a timer  *)
(* still calls the object that has just received the other one's callback. *)
Swap(a, b) ==
  /\ at = "idle" /\ a \in alive /\ b \in alive /\ a # b
  /\ handle' = Exchanged(handle, a, b)
  /\ callback' = Exchanged(callback, a, b)
  /\ started' = Exchanged(started, a, b)
  /\ at' = "set_ids" /\ dst' = a /\ src' = b
  /\ UNCHANGED <<alive, kernel, newTimer, wasStarted, ran>>

SwapIds ==
  /\ at = "set_ids"
  /\ id' = [k \in Timers |-> IF k = handle[dst] THEN dst
                             ELSE IF k = handle[src] THEN src ELSE id[k]]
  /\ Return
  /\ UNCHANGED <<objects, exists, active, made>>

-----------------------------------------------------------------------------
(* Move assignment, dst = std::move(src), one step per kernel call.        *)

AssignFromNull(d, s) ==
  /\ at = "idle" /\ {d, s} \subseteq alive /\ d # s
  /\ handle[s] = None
  /\ handle' = [handle EXCEPT ![d] = None]
  /\ started' = [started EXCEPT ![d] = FALSE]
  /\ IF handle[d] = None THEN UNCHANGED kernel ELSE Delete(handle[d])
  /\ UNCHANGED <<alive, callback, at, locals>>

(* Mutant: the source is not stopped before it is taken over. *)
AssignRunning(d, s) ==
  /\ Ready(s) /\ d \in alive /\ d # s
  /\ at' = "create" /\ dst' = d /\ src' = s
  /\ wasStarted' = started[s] /\ ran' = (handle[s] \in active)
  /\ UNCHANGED <<objects, kernel, newTimer>>

(* xTimerStop(src.m_timer), then the parameters of src and its flag.       *)
AssignStop(d, s) ==
  /\ Ready(s) /\ d \in alive /\ d # s
  /\ active' = active \ {handle[s]}
  /\ at' = "create" /\ dst' = d /\ src' = s
  /\ wasStarted' = started[s] /\ ran' = (handle[s] \in active)
  /\ UNCHANGED <<objects, exists, id, made, newTimer>>

AssignCreate ==
  /\ at = "create"
  /\ \E k \in Timers :
       /\ Create(k, dst, made[handle[src]])
       /\ newTimer' = k
  /\ at' = "delete_old"
  /\ UNCHANGED <<objects, dst, src, wasStarted, ran>>

(* No memory for the new timer: the allocators are swapped back.           *)
AssignFails ==
  /\ at = "create"
  /\ Return
  /\ UNCHANGED <<objects, kernel>>

AssignDeleteOld ==
  /\ at = "delete_old"
  /\ IF handle[dst] = None THEN UNCHANGED kernel ELSE Delete(handle[dst])
  /\ at' = "hand_over"
  /\ UNCHANGED <<objects, locals>>

(* Mutant: the new timer is started before the callback is moved. *)
HandOverStarted ==
  /\ at = "hand_over"
  /\ handle' = [handle EXCEPT ![dst] = newTimer, ![src] = None]
  /\ callback' = [callback EXCEPT ![src] = None]
  /\ started' = [started EXCEPT ![dst] = FALSE]
  /\ exists' = exists \ {handle[src]}
  /\ active' = active \cup {newTimer}
  /\ at' = "restart"
  /\ UNCHANGED <<alive, id, made, locals>>

(* The members are moved and the source's timer is deleted.  m_started of  *)
(* the source is left as it was.                                           *)
AssignHandOver ==
  /\ at = "hand_over"
  /\ handle' = [handle EXCEPT ![dst] = newTimer, ![src] = None]
  /\ callback' = [callback EXCEPT ![dst] = callback[src],
                                  ![src] = None]
  /\ started' = [started EXCEPT ![dst] = FALSE]
  /\ Delete(handle[src])
  /\ at' = "restart"
  /\ UNCHANGED <<alive, locals>>

(* xTimerStart of the new timer if the old one was started; it may fail.   *)
AssignRestart ==
  /\ at = "restart"
  /\ \/ /\ wasStarted
        /\ active' = active \cup {newTimer}
        /\ started' = [started EXCEPT ![dst] = TRUE]
     \/ UNCHANGED <<active, started>>
  /\ Return
  /\ UNCHANGED <<alive, handle, callback, exists, id, made>>

-----------------------------------------------------------------------------
Task ==
  \/ \E o \in Objects :
       Construct(o) \/ Destroy(o) \/ Start(o) \/ Stop(o) \/ Reset(o)
  \/ \E o, s \in Objects :
       \/ MoveConstruct(o, s) \/ Swap(o, s)
       \/ AssignFromNull(o, s) \/ AssignStop(o, s)
  \/ SwapIds
  \/ AssignCreate \/ AssignFails \/ AssignDeleteOld
  \/ AssignHandOver \/ AssignRestart

Next == Task \/ \E k \in Timers : Expire(k)

Spec == Init /\ [][Next]_vars

-----------------------------------------------------------------------------
(* Properties.                                                             *)

TypeOK ==
  /\ alive \subseteq Objects
  /\ handle \in [Objects -> Timers \cup {None}]
  /\ callback \in [Objects -> Callbacks \cup {None}]
  /\ started \in [Objects -> BOOLEAN]
  /\ exists \subseteq Timers
  /\ active \subseteq exists
  /\ id \in [Timers -> Objects \cup {None}]
  /\ made \in [Timers -> Callbacks \cup {None}]
  /\ at \in {"idle", "create", "delete_old", "hand_over", "restart", "set_ids"}
  /\ dst \in Objects \cup {None} /\ src \in Objects \cup {None}
  /\ newTimer \in Timers \cup {None}
  /\ wasStarted \in BOOLEAN /\ ran \in BOOLEAN

(* Whatever is moved, assigned or destroyed, at any moment that the daemon *)
(* may run a timer it finds an object that is alive and still (or already) *)
(* has the callback the timer was made for; the one window is the end of a *)
(* swap of running timers, and then the object is one of the two.          *)
FiresOwnCallback ==
  \A k \in active :
    /\ id[k] \in alive
    /\ \/ callback[id[k]] = made[k]
       \/ at = "set_ids" /\ id[k] \in {dst, src}

(* Every kernel timer belongs to one object, or is the new timer of the    *)
(* assignment in progress: none is leaked, deleted twice or shared.        *)
OneOwner ==
  /\ \A o \in Objects : handle[o] # None => o \in alive
  /\ \A o, p \in Objects : handle[o] = handle[p] /\ handle[o] # None => o = p
  /\ \A o \in Objects :
       \/ handle[o] \in exists \cup {None}
       \/ at = "hand_over" /\ o = dst
  /\ \A k \in exists : (\E o \in Objects : handle[o] = k) \/ newTimer = k

(* The comment on the failure of a move assignment: "Source timer is still *)
(* valid (not deleted) so both objects are unchanged."                     *)
FailedAssignUnchanged ==
  [][at = "create" /\ at' = "idle" =>
       (handle[src] \in active <=> ran)]_vars
=============================================================================
