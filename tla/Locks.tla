-------------------------------- MODULE Locks --------------------------------
(***************************************************************************)
(* The mutexes of freertos_semaphore.hpp, the lock objects and guards of   *)
(* freertos_lock.hpp and freertos_semaphore.hpp, and shared_data           *)
(* (freertos_shared_data.hpp), as tasks use them together.                 *)
(*                                                                         *)
(* A wrapped mutex repeats what the kernel knows: mutex in the flag        *)
(* m_locked, recursive_mutex in the counter m_recursions_count.  Both are  *)
(* brought up to date after the kernel call, when the mutex may already    *)
(* be somebody else's.  A shared_mutex has neither; here it is the number  *)
(* of its slots (module SharedMutex has its protocol).                     *)
(*                                                                         *)
(* A lock object, with the mutex it refers to and m_owns, belongs to the   *)
(* task that constructs it: unique_lock, shared_lock, and the guards,      *)
(* which are lock objects that are never moved.                            *)
(***************************************************************************)
EXTENDS Integers, FiniteSets

CONSTANTS
  Tasks,
  Plain, Recursive, Shared,  (* the mutexes of each class                 *)
  Locks,                     (* memory for lock objects                   *)
  None,                      (* no task, a null pointer, no lock object   *)
  MaxDepth,                  (* bound: how often a mutex is held at once  *)
  MaxHeld,                   (* bound: the mutexes a task has when it     *)
                             (* asks for another one                      *)
  MaxTwice,                  (* bound: the mutexes given back twice after  *)
                             (* which no lock is asked for any more        *)
  Modulus                    (* 2^8: m_recursions_count is a uint8_t      *)

Mutexes == Plain \cup Recursive \cup Shared

ASSUME ClassAssumption ==
  /\ Plain \cap Recursive = {} /\ Plain \cap Shared = {}
  /\ Recursive \cap Shared = {}
  /\ None \notin Tasks \cup Mutexes \cup Locks
  /\ "scope" \notin Locks \cup {None}
ASSUME BoundAssumption ==
  /\ MaxDepth \in Nat \ {0} /\ Modulus \in Nat \ {0} /\ MaxDepth < Modulus
  /\ MaxHeld \in Nat /\ MaxTwice \in Nat \ {0}

VARIABLES
  holder,      (* the kernel's owner of each exclusive mutex               *)
  depth,       (* how often it is taken; the slots taken of a shared one   *)
  count,       (* m_locked (0 or 1), m_recursions_count                    *)
  user,        (* the task each lock object belongs to                     *)
  target,      (* m_mutex of each lock object                              *)
  owns,        (* the lock objects with m_owns set                         *)
  raw,         (* locks each task holds without a lock object              *)
  pc,          (* where the call of each task is                           *)
  on,          (* the mutex it is about                                    *)
  for,         (* the lock object it is made by, if it is                  *)
  seen,        (* the counter as the task has read it                      *)
  raced,       (* history: recursive mutexes taken during another's unlock *)
  twice        (* history: mutexes given back by a call that had already   *)
               (* given them back                                          *)

kernel  == <<holder, depth>>
objects == <<user, target, owns>>
calls   == <<pc, on, for, seen>>
history == <<raced, twice>>
vars    == <<kernel, count, objects, raw, calls, history>>

Init ==
  /\ holder = [m \in Mutexes |-> None]
  /\ depth = [m \in Mutexes |-> 0]
  /\ count = [m \in Mutexes |-> 0]
  /\ user = [l \in Locks |-> None]
  /\ target = [l \in Locks |-> None]
  /\ owns = {}
  /\ raw = [t \in Tasks |-> [m \in Mutexes |-> 0]]
  /\ pc = [t \in Tasks |-> "idle"]
  /\ on = [t \in Tasks |-> None]
  /\ for = [t \in Tasks |-> None]
  /\ seen = [t \in Tasks |-> 0]
  /\ raced = {}
  /\ twice = {}

-----------------------------------------------------------------------------
(* Kernel calls.                                                           *)

MayTake(t, m) ==
  IF m \in Shared THEN depth[m] < MaxDepth
  ELSE holder[m] = None \/ (m \in Recursive /\ holder[m] = t /\ depth[m] < MaxDepth)

KernelTake(t, m) ==
  /\ depth' = [depth EXCEPT ![m] = @ + 1]
  /\ holder' = IF m \in Shared THEN holder ELSE [holder EXCEPT ![m] = t]

KernelGive(m) ==
  /\ depth' = [depth EXCEPT ![m] = @ - 1]
  /\ holder' = IF depth[m] = 1 THEN [holder EXCEPT ![m] = None] ELSE holder

Enter(t, place, m, l) ==
  /\ pc' = [pc EXCEPT ![t] = place]
  /\ on' = [on EXCEPT ![t] = m]
  /\ for' = [for EXCEPT ![t] = l]

Return(t) ==
  /\ Enter(t, "idle", None, None)
  /\ seen' = [seen EXCEPT ![t] = 0]

-----------------------------------------------------------------------------
(* Acquiring.                                                              *)

(* The mutexes that task t has; a call in progress waits for at most one   *)
(* more.                                                                   *)
InHand(t) ==
  {m \in Mutexes : raw[t][m] > 0}
    \cup {target[l] : l \in {k \in owns : user[k] = t}}

Begin(t, place, m, l) ==
  /\ m \in InHand(t) \/ Cardinality(InHand(t)) <= MaxHeld
  /\ raw[t][m] < MaxDepth /\ Cardinality(twice) < MaxTwice
  /\ Enter(t, place, m, l)
  /\ UNCHANGED <<kernel, count, objects, raw, seen, history>>

(* A task asks a mutex for the lock: lock() waits for ever, try_lock, the  *)
(* timed and the _ex forms may fail.  "scope" is claim(), with_lock() or a *)
(* member of shared_data, which give the lock back themselves.             *)
Lock(t, m) == pc[t] = "idle" /\ Begin(t, "wait", m, None)
TryLock(t, m) == pc[t] = "idle" /\ Begin(t, "try", m, None)
Claim(t, m) == pc[t] = "idle" /\ m \notin Shared /\ Begin(t, "wait", m, "scope")

(* A lock object asks, if it has a mutex and not the lock (lock() asserts  *)
(* that, the others return what they have).                                *)
LockBy(t, l) ==
  /\ pc[t] = "idle" /\ user[l] = t /\ target[l] # None /\ l \notin owns
  /\ \E place \in {"wait", "try"} : Begin(t, place, target[l], l)

(* The kernel gives the mutex to t.                                        *)
Take(t) ==
  /\ pc[t] \in {"wait", "try"} /\ MayTake(t, on[t])
  /\ KernelTake(t, on[t])
  /\ pc' = [pc EXCEPT ![t] = "mark"]
  /\ raced' = IF \E u \in Tasks : on[u] = on[t] /\ pc[u] \in {"clear", "subtract"}
              THEN raced \cup ({on[t]} \cap Recursive) ELSE raced
  /\ UNCHANGED <<count, objects, raw, on, for, seen, twice>>

Fail(t) ==
  /\ pc[t] = "try"
  /\ Return(t)
  /\ UNCHANGED <<kernel, count, objects, raw, history>>

(* m_recursions_count++ and -- read the counter before they write it.      *)
Read(t, from, to) ==
  /\ pc[t] = from /\ on[t] \in Recursive
  /\ seen' = [seen EXCEPT ![t] = count[on[t]]]
  /\ pc' = [pc EXCEPT ![t] = to]
  /\ UNCHANGED <<kernel, count, objects, raw, on, for, history>>

ReadForLock(t) == Read(t, "mark", "add")
ReadForUnlock(t) == Read(t, "clear", "subtract")

(* The flag is set or the counter written; now the scope, the lock object  *)
(* or the task itself has the lock.                                        *)
Acquired(t) ==
  /\ pc[t] = IF on[t] \in Recursive THEN "add" ELSE "mark"
  /\ count' = CASE on[t] \in Plain -> [count EXCEPT ![on[t]] = 1]
                [] on[t] \in Recursive ->
                     [count EXCEPT ![on[t]] = (seen[t] + 1) % Modulus]
                [] OTHER -> count
  /\ IF for[t] = "scope"
     THEN /\ pc' = [pc EXCEPT ![t] = "body"]
          /\ seen' = [seen EXCEPT ![t] = 0]
          /\ UNCHANGED <<on, for>>
     ELSE Return(t)
  /\ raw' = IF for[t] = None THEN [raw EXCEPT ![t][on[t]] = @ + 1] ELSE raw
  /\ owns' = IF for[t] \in Locks THEN owns \cup {for[t]} ELSE owns
  /\ UNCHANGED <<kernel, user, target, history>>

-----------------------------------------------------------------------------
(* Releasing.                                                              *)

(* The kernel refuses the give of a mutex that is free, and of a recursive *)
(* mutex that another task holds.  Of a plain one it does not ask the      *)
(* holder, but in an assertion, which a build may leave out.               *)
MayGive(t, m) == IF m \in Recursive THEN holder[m] = t ELSE depth[m] > 0

(* unlock() is over.  A section that has a value to return still has to    *)
(* return it.                                                              *)
Unlocked(t, m, l) ==
  IF l = "scope"
  THEN Enter(t, "result", m, l) /\ seen' = [seen EXCEPT ![t] = 0]
  ELSE Return(t)

(* The give of unlock(); one that is refused changes nothing.              *)
Give(t, m, l) ==
  /\ IF MayGive(t, m)
     THEN KernelGive(m) /\ Enter(t, "clear", m, l) /\ UNCHANGED seen
     ELSE UNCHANGED kernel /\ Unlocked(t, m, l)
  /\ UNCHANGED <<count, raced>>

Unlock(t, m) ==
  /\ pc[t] = "idle" /\ raw[t][m] > 0
  /\ raw' = [raw EXCEPT ![t][m] = @ - 1]
  /\ Give(t, m, None)
  /\ UNCHANGED <<objects, twice>>

(* Mutant: nothing is caught when the function throws. *)
LeaveUncaught(t) ==
  /\ pc[t] = "body"
  /\ \/ \E l \in {None, "scope"} : Give(t, on[t], l)
     \/ UNCHANGED <<kernel, count, raced>> /\ Return(t)
  /\ UNCHANGED <<objects, raw, twice>>

(* The function of a claim, or the copy of shared data, throws and is      *)
(* caught, or returns, with a value or without: unlock().                  *)
Leave(t) ==
  /\ pc[t] = "body"
  /\ \E l \in {None, "scope"} : Give(t, on[t], l)
  /\ UNCHANGED <<objects, raw, twice>>

(* The value is returned inside the try block: when its construction       *)
(* throws, the handler unlocks once more.                                  *)
Result(t) ==
  /\ pc[t] = "result"
  /\ \/ UNCHANGED <<kernel, count, history>> /\ Return(t)
     \/ /\ Give(t, on[t], None)
        /\ twice' = IF MayGive(t, on[t]) THEN twice \cup {on[t]} ELSE twice
  /\ UNCHANGED <<objects, raw>>

(* Mutant: unlock() leaves flag and counter alone. *)
ReleasedUnmarked(t) ==
  /\ pc[t] = IF on[t] \in Recursive THEN "subtract" ELSE "clear"
  /\ Unlocked(t, on[t], for[t])
  /\ UNCHANGED <<kernel, count, objects, raw, history>>

(* Mutant: the counter is counted down from zero as well. *)
ReleasedBelowZero(t) ==
  /\ pc[t] = IF on[t] \in Recursive THEN "subtract" ELSE "clear"
  /\ count' = CASE on[t] \in Plain -> [count EXCEPT ![on[t]] = 0]
                [] on[t] \in Recursive -> [count EXCEPT ![on[t]] = seen[t] - 1]
                [] OTHER -> count
  /\ Unlocked(t, on[t], for[t])
  /\ UNCHANGED <<kernel, objects, raw, history>>

(* After the give the flag is cleared, and the counter written unless it   *)
(* was zero, whoever has the mutex by then.                                *)
Released(t) ==
  /\ pc[t] = IF on[t] \in Recursive THEN "subtract" ELSE "clear"
  /\ count' = CASE on[t] \in Plain -> [count EXCEPT ![on[t]] = 0]
                [] on[t] \in Recursive /\ seen[t] > 0 ->
                     [count EXCEPT ![on[t]] = seen[t] - 1]
                [] OTHER -> count
  /\ Unlocked(t, on[t], for[t])
  /\ UNCHANGED <<kernel, objects, raw, history>>

-----------------------------------------------------------------------------
(* Lock objects.                                                           *)

Local == UNCHANGED <<kernel, count, calls, history>>
Mine(t, l) == pc[t] = "idle" /\ user[l] = t

(* The constructors.  One that takes the lock is this and LockBy; one with *)
(* std::adopt_lock takes over a lock that the task has already.            *)
Construct(t, l) ==
  /\ pc[t] = "idle" /\ user[l] = None
  /\ user' = [user EXCEPT ![l] = t]
  /\ \/ /\ \E m \in Mutexes \cup {None} : target' = [target EXCEPT ![l] = m]
        /\ UNCHANGED <<owns, raw>>
     \/ \E m \in Mutexes :
          /\ raw[t][m] > 0
          /\ target' = [target EXCEPT ![l] = m]
          /\ owns' = owns \cup {l}
          /\ raw' = [raw EXCEPT ![t][m] = @ - 1]
  /\ Local

Move(t, l, s) ==
  /\ Mine(t, s) /\ user[l] = None
  /\ user' = [user EXCEPT ![l] = t]
  /\ target' = [target EXCEPT ![l] = target[s], ![s] = None]
  /\ owns' = (owns \ {s}) \cup (IF s \in owns THEN {l} ELSE {})
  /\ UNCHANGED raw /\ Local

(* What l does with its lock when it gives up its mutex or its life.       *)
GiveBack(t, l) ==
  IF l \in owns THEN Give(t, target[l], None) /\ UNCHANGED twice ELSE Local

(* Move assignment unlocks first; the members are the task's own.          *)
Assign(t, l, s) ==
  /\ Mine(t, l) /\ Mine(t, s) /\ l # s
  /\ GiveBack(t, l)
  /\ target' = [target EXCEPT ![l] = target[s], ![s] = None]
  /\ owns' = (owns \ {l, s}) \cup (IF s \in owns THEN {l} ELSE {})
  /\ UNCHANGED <<user, raw>>

UnlockBy(t, l) ==
  /\ Mine(t, l) /\ l \in owns
  /\ GiveBack(t, l)
  /\ owns' = owns \ {l}
  /\ UNCHANGED <<user, target, raw>>

Destroy(t, l) ==
  /\ Mine(t, l)
  /\ GiveBack(t, l)
  /\ user' = [user EXCEPT ![l] = None]
  /\ target' = [target EXCEPT ![l] = None]
  /\ owns' = owns \ {l}
  /\ UNCHANGED raw

(* release(): the lock stays with the task.                                *)
ReleaseObject(t, l) ==
  /\ Mine(t, l) /\ target[l] # None
  /\ target' = [target EXCEPT ![l] = None]
  /\ owns' = owns \ {l}
  /\ raw' = IF l \in owns THEN [raw EXCEPT ![t][target[l]] = @ + 1] ELSE raw
  /\ UNCHANGED user /\ Local

SwapObjects(t, a, b) ==
  /\ Mine(t, a) /\ Mine(t, b) /\ a # b
  /\ target' = [target EXCEPT ![a] = target[b], ![b] = target[a]]
  /\ owns' = (owns \ {a, b}) \cup (IF a \in owns THEN {b} ELSE {})
                             \cup (IF b \in owns THEN {a} ELSE {})
  /\ UNCHANGED <<user, raw>> /\ Local

(* shared_lock has the operations of unique_lock, on the shared side.      *)
LockObject(t, l) ==
  \/ LockBy(t, l) \/ Construct(t, l) \/ UnlockBy(t, l)
  \/ Destroy(t, l) \/ ReleaseObject(t, l)
  \/ \E s \in Locks : Move(t, l, s) \/ Assign(t, l, s) \/ SwapObjects(t, l, s)

-----------------------------------------------------------------------------
Next ==
  \E t \in Tasks :
    \/ Take(t) \/ Fail(t) \/ ReadForLock(t) \/ Acquired(t)
    \/ Leave(t) \/ ReadForUnlock(t) \/ Released(t) \/ Result(t)
    \/ \E m \in Mutexes : Lock(t, m) \/ TryLock(t, m) \/ Claim(t, m) \/ Unlock(t, m)
    \/ \E l \in Locks : LockObject(t, l)

Spec == Init /\ [][Next]_vars

-----------------------------------------------------------------------------
(* Properties.                                                             *)

Holding == {"mark", "add", "body"}    (* a call that has taken its mutex   *)

(* Types, and what the objects and calls refer to.                         *)
TypeOK ==
  /\ holder \in [Mutexes -> Tasks \cup {None}]
  /\ depth \in [Mutexes -> Nat]
  /\ count \in [Mutexes -> 0..(Modulus - 1)]
  /\ user \in [Locks -> Tasks \cup {None}]
  /\ target \in [Locks -> Mutexes \cup {None}]
  /\ owns \subseteq {l \in Locks : user[l] # None /\ target[l] # None}
  /\ raw \in [Tasks -> [Mutexes -> Nat]]
  /\ pc \in [Tasks -> {"idle", "wait", "try", "clear", "subtract", "result"} \cup Holding]
  /\ on \in [Tasks -> Mutexes \cup {None}]
  /\ for \in [Tasks -> Locks \cup {None, "scope"}]
  /\ seen \in [Tasks -> 0..(Modulus - 1)]
  /\ raced \subseteq Recursive /\ twice \subseteq Plain \cup Recursive
  /\ \A t \in Tasks : pc[t] = "idle" <=> on[t] = None

(* Who owes a lock on m: lock objects, calls, and tasks by themselves.     *)
ByObject(m) == {l \in owns : target[l] = m}
ByCall(m)   == {t \in Tasks : pc[t] \in Holding /\ on[t] = m}
ByTask(m)   == UNION {{t} \X (1..raw[t][m]) : t \in Tasks}

Owed(m) ==
  ({"object"} \X ByObject(m)) \cup ({"call"} \X ByCall(m)) \cup ({"task"} \X ByTask(m))

(* Every lock that the kernel has given away is owed by exactly one lock   *)
(* object, call or caller, and by the holder's: none is leaked and none is *)
(* given back twice, whatever is moved, swapped, assigned, released or     *)
(* adopted, and whatever the function of a section throws.  The exception  *)
(* is a mutex that a section has given back a second time, because its     *)
(* result threw, while somebody had it.                                    *)
Balanced ==
  \A m \in Mutexes \ twice :
    /\ depth[m] = Cardinality(Owed(m))
    /\ m \notin Shared =>
         \A t \in Tasks : m \in InHand(t) \/ t \in ByCall(m) => holder[m] = t

(* m_locked, read by locked() and by the assertions of the moves, says     *)
(* "locked" only of a mutex that is locked, or is just being unlocked,     *)
(* with the same exception.  (The opposite does not hold: an unlock may    *)
(* clear the flag of the next owner.)                                      *)
NeverFalselyLocked ==
  \A m \in Plain \ twice :
    count[m] = 1 => holder[m] # None \/ \E t \in Tasks : on[t] = m /\ pc[t] = "clear"

(* recursions_count() is exact whenever no call is in progress, until a    *)
(* task takes the mutex while another has given it and not yet counted     *)
(* down: then the updates may overwrite each other.                        *)
CountExact ==
  \A m \in Recursive \ raced :
    (\A t \in Tasks : on[t] = m => pc[t] \in {"wait", "try", "body", "result"})
      => count[m] = depth[m]
=============================================================================
