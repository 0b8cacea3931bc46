# TLA+ specifications of freertos_cpp_wrappers

These modules specify the parts of the C++ wrappers for FreeRTOS (`include/*.hpp`,
`src/*.cc`) that are hard to get right: the synchronisation objects the library
builds itself out of several kernel calls and atomics, and the C++ objects that own
kernel objects another context calls back into. The one-call wrappers (a `send` that
is one `xQueueSend`) are specified for what the wrapper adds to the call: who owns the
handle, and whether the caller is told what happened (`Channels`).

The kernel is not in the repository. What the modules need of it (a semaphore with a
count and a limit, a mutex with an owner, software timers with an ID, the scheduler)
is modelled from the way the headers call it. Times are abstracted everywhere: a take
with a timeout may fail whenever the object is not available at that moment, which is
what the kernel tests when the delay expires; it never fails on an available object.

## 1. The system

### Components with a protocol of their own

| Component (header) | State | Operations | Hard because | Correct when |
|---|---|---|---|---|
| `shared_mutex` (`freertos_shared_mutex.hpp`) | kernel mutex; counting semaphore of `m_max_readers` slots | `lock`, `try_lock`, `try_lock_for/until`, `lock_ex`, `unlock`, the shared forms | a writer takes the slots one kernel call at a time, and on a timeout gives them back one at a time, while readers and other writers move | readers exclude writers; no slot lost or duplicated; a call fails only for a cause; every call returns |
| `latch` (`freertos_latch.hpp`) | atomic `m_counter`; binary semaphore that may have failed to be created | `count_down` (task, ISR, `_ex`), `try_wait`, `wait`, `arrive_and_wait` | CAS loops of tasks and interrupts race; one token has to wake all waiters, each giving it on | the counter counts like an atomic one; the token is never lost or refused; all waiters return |
| `once_flag` (`freertos_once_flag.hpp`) | atomic `m_state` 0/1/2; lazily created counting semaphore | `call_once` (`do_call`, `ensure_semaphore`) | the function may throw while others wait; creation races; left-over tokens | one runner; a token for every loser; nobody returns without a cause; every call returns |
| `condition_variable_any` (`freertos_condition_variable.hpp`) | counting semaphore; atomic `m_waiter_count` | `wait`, `wait_for/until` with predicate, `notify_one/all`, `_isr` forms | `wait` unlocks, counts itself and takes in three steps | no notification is lost; count exact; predicate only looked at under the lock |
| `timer` (`freertos_sw_timer.hpp`) | `m_timer`, `m_callback`, `m_started`; the kernel timer's ID is the object's address | start/stop/reset/period, move, swap, move assignment | the daemon runs the callback through the ID while objects move | each kernel timer has one owner; the callback run is the one it was made for |
| `atomic_flag`, `atomic<T>` (`freertos_atomic.hpp`) | a flag or value; a semaphore and a waiter count | `wait`, `notify_one/all`, `test_and_set`, ... | tokens are anonymous: one waiter may take several of one `notify_all` | a waiter whose value changed and that was notified returns |
| atomic wait (`freertos_atomic_wait.hpp`, `src/freertos_atomic_wait.cc`) | hashed buckets, each a semaphore created lazily | `__platform_wait_on_address` and `__platform_wake_by_address`, behind `std::atomic::wait` | creation races; addresses share a bucket | as above, for addresses that collide |
| `task`, `periodic_task` (`freertos_task.hpp`, `src/freertos_task.cc`) | handle, start/finish notifications, the running routine's pointer to its object | construct, `join`, `terminate`, `suspend`, move, period loop | the routine outlives or is overtaken by its object; join is one notification | every kernel task has one owner; a task runs the routine it was made for; join returns for a cause and, once it waits, does return |
| `mutex`, `recursive_mutex` (`freertos_semaphore.hpp`), the lock objects (`freertos_lock.hpp`), `shared_data` (`freertos_shared_data.hpp`) | `m_locked`, `m_recursions_count` beside the kernel mutex; a lock object's `m_mutex` and `m_owns` | lock, try, timed, unlock; claim and scopes; move, swap, adopt, release | the flag and the kernel object are updated in separate steps, and the give comes first | every lock is owed by one owner; the flag never says "locked" of a free mutex; the counter is exact when no updates raced |
| queues, permits (binary and counting semaphores), queue sets, stream, message and batching buffers, event groups | a kernel handle | one kernel call each, `_ex` forms that classify the result, move, swap | ownership of a handle across moves and failed creations; classification of the result | one owner per handle; the classification matches what happened |

### Other components

`pend_call` (one deferred call to the daemon), the C++ runtime adapters (`freertos_gthr.hpp`, `freertos_external_threading.hpp`),
memory (`freertos_external_allocator.hpp`, `freertos_heap.hpp`), sequential value types
(`expected`, `span`, `fixed_function`, strong types, the clock) and configuration.
`tests/mocks` replaces the kernel by a stub that records calls, which is why the unit
tests cannot reach an interleaving: they run one thread against a mock. Generated
documents (`docs/`, `VnV/`), `scripts/` and `third_party/` are not part of the program.

### How components interact

* Tasks and interrupt handlers share an object directly; every object is passive.
* Every blocking operation ends in one kernel take; a wakeup is a token in a semaphore.
* `condition_variable_any` calls back into its caller's lock (`lock()`, `unlock()`),
  and into the caller's predicate.
* The timer daemon calls `callback_wrapper`, which follows the timer's ID into the
  C++ object; `pend_call` uses the same daemon.
* `lock_guard`, `unique_lock` and `shared_lock` call the mutexes above; `shared_data`
  owns one; the runtime adapters build `std::mutex` and `std::call_once` out of them.

## 2. Modules and how they correspond to the code

Modules named `MC...` are the TLC instances; modules named `...Proofs` hold theorems.

### RWLock, SharedMutex

`RWLock` is the abstract readers/writer lock: a set of readers and a set of writers,
entered and left atomically. `SharedMutex` is the code: `owner` is the holder of
`m_mutex_handle`, `slots` the count of `m_reader_slots_handle`, `held` the loop counter
of the writer (`i`, `taken`), `mode` which of the calls the task is in. One action per
kernel call: `TakeMutex`, `TakeSlot`, `SlotTimeout`, `RollBackSlot` (through
`GiveSlot`), `RollBackMutex`, `UnlockSlot`, `UnlockMutex`, `TakeShared`,
`SharedTimeout`, `UnlockShared`. `forever_ex` is `lock_ex(portMAX_DELAY)`, which waits
for ever for the mutex but computes a finite remaining time for the slots as soon as a
tick has passed, so it can time out. Left out: destruction, and unlocking by a task
that does not own the lock.

### StdLatch, Latch

`StdLatch` has an atomic counter and a set of waiters. `Latch` has the load and the
compare-exchange of `count_down` as separate steps (`Load`, `Exchange`,
`ExchangeFails`, which may also fail spuriously: the exchange is a weak one), the give
of the last arrival (`Give`), and `Check`, `Take`, `PassBaton` of `wait`. Interrupt
handlers arrive but never wait. A latch whose semaphore could not be created (`valid`
false) is an initial state: its `wait` returns at once, and `count_down_ex` says `invalid_handle`.
The static class `sa::latch_static` runs the same code with `valid` true.

### OnceFlag

`Check` (the fast path of `call_once` and `do_call`), `Claim` (the compare-exchange),
`EnsureSemaphore` (creation, under a suspended scheduler or a critical section, hence
one step; it always succeeds, so that the failed creation that line 91 of a build without
static allocation ignores, after which the losers take from a null handle and the kernel
asserts, is left out), `Complete` or `Throw` (the end of the function), `Give` (the loop of
`MaxWaiters` gives; a give on a full semaphore changes nothing), `Take`, `Recheck`.
`MCOnceFlag` adds two history variables, the number of attempts that threw so far
(`throws`) and what it was when each task made its current call (`since`), over which
`ReturnsForCause` speaks. The names of the specification and of
its variables tuple begin with `OF` here, because `OnceFlagSwTimerProofs` extends this
module and SwTimer at once; no variable of one appears in the other.

### CondVar

The condition variable together with the client that shows whether it works: consumers
that wait for an item or for the queue to be closed, producers that add an item and call
`notify_one` or close the queue and call `notify_all`, and an interrupt that does either
through the `_isr` forms. `Unlock`, `Assert`, `Add`, `Take`, `TakeTimeout`, `Sub`,
`Relock` are lines 145-152 of `wait` and the same lines of the timed waits. The client
actions (`Acquire`, `Release`, `Leave`, `Produce`, `Close`, `Unlocked`) are external: they
stand for the callers and for their lock. A handler is one step, because no task runs
in the middle of one. Left out: waits without a predicate (the caller's loop makes them
waits with one) and the returns on a null semaphore, which the constructor asserts
against.

### SwTimer

Objects (`alive`, `handle`, `callback`, `started`), kernel timers (`exists`, `active`,
`id`), and the daemon (`Expire`), which may run any active timer between any two kernel
calls. `made` is a history variable: the callback a kernel timer was created for.
Construction, destruction, start, stop, reset and move construction make one kernel call
and are one step. A move assignment is five: `AssignStop`, `AssignCreate` or
`AssignFails`, `AssignDeleteOld`, `AssignHandOver`, `AssignRestart`; a swap is two,
`Swap` (members) and `SwapIds`. The move constructor's documented precondition (the
source is stopped) is a guard. Assumed: the daemon's priority is above the task's, so
that a command has taken effect when the call returns, and no interrupt starts or stops
a timer whose object is being moved.

### Task

Three kinds of actors: the owner, one task that constructs, moves, joins and destroys
`task` and `periodic_task` objects; the kernel tasks, which run `task_exec` and
`periodic_task::run`; and whoever else notifies the owner (`NotifyOwner`). A kernel task
holds the address of its object (`context`) and reads the members through it, so the
steps of `task_exec` are actions of their own: `Enter` (the start-suspended flag), `Call`
(the routine), `Finish` and `Exit` (the notification), and for the period loop `Step` and
`Loop`. Construction takes two steps, because the new task may run before the
constructor has stored what `xTaskCreate` returned (`Construct`, `Store`); until `Store`
the members `m_hTask` and `m_joinHandle` hold whatever was in memory. `join` takes three
(`JoinCall`, `JoinTake`, `JoinReturn`). Routines carry the name of the object they were
made for; `body` is what the lambda of a periodic task finds behind the address it
captured. A call through a null handle (`UseEmpty`), an empty `std::function` and
`eTaskGetState(nullptr)` end the program (`gone`). `intact` (the tasks whose object was
never moved) and `awaited` (the tasks resumed before they ran their routine) are history
variables. Left out: priorities, tags, affinity, the queries, delays and
`task_system_status`; the owner and a routine never touch the same object except through
what is said above.

### Locks

The mutexes, the lock objects and the scopes (`claim`, `with_lock`, the members of
`shared_data`) together, because what is right about each depends on the other. `holder`
and `depth` are the kernel's, `count` is `m_locked` or `m_recursions_count`. An
acquisition is `Lock`, `TryLock`, `Claim` or `LockBy` (the call begins), `Take` or `Fail`
(the kernel), `ReadForLock` (the counter is read) and `Acquired` (flag or counter
written, and the lock handed to the lock object, the scope or the caller); a release is
the kernel's give, `ReadForUnlock` and `Released`, so that another task may have the
mutex before its flag is cleared. `raw` counts the locks a task holds by itself, which
`std::adopt_lock` turns into a lock object's and `release()` back. The scopes have no
guard object: `unlock()` is called by hand, in the `try` block when the function returns
and in the handler when it throws, which is one give either way (`Leave`). A section with
a value then still has to return it (place `result`, action `Result`), and `return result;`
is inside the same `try` block: when constructing the returned value throws, the handler
gives the mutex a second time. The kernel refuses that give if the mutex is free, or
recursive and another task's (`MayGive`); otherwise somebody's lock is gone, and the mutex
enters the history variable `twice`. Giving a plain mutex of another task trips an
assertion of the kernel, which a build may leave out, so it is possible here. What the
documents promise about a section fails there (section 5), and `Balanced` and
`NeverFalselyLocked` speak of the other mutexes. A `shared_mutex` has
neither flag nor counter and is a number of slots here: its protocol is in SharedMutex.
`raced` is a history variable: the recursive mutexes that were taken while another
task's unlock had given them and not yet counted down. Left out: moving the mutex
objects themselves, the ISR forms of the mutexes (they assert), `lock_guard_isr`.

### Channels

One module for the eight classes that own one kernel object and pass things through it
(the model has nine: a queue of length one is a class of its own, `mailbox`, since only
it may be overwritten).
A behaviour is about one class and one kind of memory (`class`, `static`, chosen by
`Init`). Wrappers are constructed (which may fail for want of memory), moved, swapped,
assigned and destroyed (`Life`) while tasks are in calls; a call remembers the handle it
read (`BeginSend`, `BeginReceive`) and ends when the kernel can do what it asks or, with
a time limit, at any moment (`SendEnd`, `ReceiveEnd`, with the report of each class on
top: `QueueSend`, `StreamReceive`, ...). The many forms of a call differ in `patient`
(waits for ever) and in how the result is spelt. Clients believe the report: what was
not sent is still theirs, what was received is theirs now. Two forms report nothing:
`release()`, `++` and `+=`, after which a permit that found no room is gone (`Release`),
and `acquire()` with a time limit, after which a client takes a permit for its own that it
does not have (`AcquireExpired`; `fancied` has these permits, until the client uses or
releases them, `Spend`; one at a time). `Conserved` does not count what is only fancied
(section 5). Items stand for queue items,
permits, bytes, messages (`Big` ones take two units) and for the members of a queue set,
which are queues of length one. `queue` is the only class whose moves do not check for
static memory; after such a move the handle points into another object and the model
stops (`undefined`). Event groups have a set of bits, waiters that a set of bits ends
together (`Wake`, `After`, as the kernel does it: first all waiters are told, then bits
are cleared), `sync`, and the operations an interrupt leaves to the timer task
(`GroupDefer`, `Daemon`). `missed` is a history variable: the bits that some wait
consumed while it reported an error. Left out: setting the trigger level or the
notification index, allocators with callbacks, registry names and counts (they only
read).

### Atomic

`wait` and the notifications of `atomic_flag` and of `atomic<T>` over the table of
`freertos_atomic_wait.cc`; `kind` says which, and whether the bucket has a semaphore
already. For the flag: `EnsureLoad` and `Create` (`ensure_semaphore`, the second look and
the creation in a critical section), `Loop`, `Take`, and for `notify_all` `Count`,
`GiveNext`, `EndNotify`, because the count is read once and the gives follow one by one.
For the table: `Enter` (the waiter counts itself), `Match` (the value is compared with
`expected`, which is always 0), `NullCheck`, `Make`, `Fetch` (the creation of the
bucket's semaphore, which nothing protects), `Take`, `Leave`; and `NotifyTable` with its
two early returns before `GiveTable`. `notify_all` asks for `INT_MAX` gives, which leave
a count no run of takes uses up (`Many`). An interrupt notifies in one step. `Change` is
`test_and_set`, `clear` or a store. `fresh` and `told` are history variables: a
`notify_all` that began after the last change, and that one has ended. Left out: hash
collisions (one object per bucket), implementations 2 and 3 of the table, and the lack of
memory for a bucket's semaphore.

The following is in the model and outside `NoLostWakeup` and `WaitReturns`:

* a task that starts to wait for the *new* value may take a token that `notify_all` gave
  for the waiters of the old one (`freertos_atomic.hpp:93`): `told` ends there;
* a cold bucket: a notification before the semaphore exists is dropped, and two waiters
  that race to create it may block on two semaphores (`freertos_atomic_wait.cc:41`);
* a wait of `atomic<T>` for a change from a value other than 0 does not block while the
  value is not 0: it spins. If the value becomes 0 between its own comparison (`Loop`) and
  the table's (`Match`), it does block, although the value has changed, until the next
  notification.

## 3. Runs

| Run | Instance | Distinct states | Question |
|---|---|---|---|
| `shared_mutex` | 3 tasks, 2 slots, 2 calls per task | 54,431 | exclusion, slot accounting, causes of failures, refinement of `RWLock`, every call returns |
| `latch` | 2 tasks, 1 interrupt, count 3, updates 1 and 2, with and without semaphore | 235,308 | one baton, never refused, waiters return, refinement of `StdLatch` |
| `once_flag` | 3 tasks, 2 tokens, 2 throws, calls unbounded | 123,005 | one runner, a token for every loser, returns for a cause, every call returns |
| `cond_var` | 2 consumers, 1 producer, interrupt, `MaxWaiters` 2, at most 2 items | 44,208 | exact count, predicate under the lock, no notification lost, and so no wakeup, of `notify_one`, `notify_one_isr`, `notify_all_isr` |
| `cond_var_notify_all` | the same | counterexample | `CloseSeen`: does `notify_all` wake every waiter? No (finding 1) |
| `sw_timer` | 3 objects, 2 callbacks, 3 kernel timers | 159,961 | ownership of timers, callback run is the right one |
| `sw_timer_failed_move` | the same | counterexample | `FailedAssignUnchanged`: does a failed move leave both objects unchanged? No (finding 2) |
| `task` | 2 objects, plain or periodic, 2 kernel tasks | 2,059,386 | one owner per kernel task, the right routine, causes of `join`'s return, `join` does return |
| `task_resume` | 1 object, 1 kernel task | counterexample | `ResumeStarts`: does a task that starts suspended execute once it is resumed? Not always (finding 3) |
| `locks` | 2 tasks, 2 lock objects, one mutex of each class, held at most twice | 9,133,468 | every lock owed once, flag never falsely set, unless a result threw; counter exact unless updates raced |
| `channels` | 9 classes (a queue of length one is its own), 2 wrappers, 2 handles, 2 tasks, 4 items, 2 bits | 260,083 | one owner per kernel object, no item lost or sent twice by a client that believes the reports, no event lost in an error |
| `atomic` | 2 waiters, 1 notifier, interrupts, 2 semaphores, at most 3 changes | 527,630 | tokens for everyone a `notify_all` was for, also on its early returns, and they return |

The runs of SwTimer, Task, Locks, Channels and Atomic do not check for deadlock: the
program may destroy everything and stop, and a task may wait for ever for what nobody
sends.

Each property also fails on a mutated definition (operators marked "Mutant:" in the
modules, paired with the properties in `PROJECT.json`).

### Bounds, and why they are enough

* `MaxCalls = 2` (shared_mutex): with three tasks, every pair of calls, a third task in
  the way of both, and a second call that meets what the first left behind. Two slots
  are the least for which a writer can hold some and not all. The system stops when the
  calls are used up, so this run alone does not check for deadlock; `EveryCallReturns`
  finds a task that is stuck in a call.
* `Expected = 3` with updates 1 and 2 has arrivals that hit zero exactly, that overshoot
  and are clamped, and that find zero already; the two tasks can both be waiting when
  the interrupt makes the last arrival. Calls are not bounded.
* `MaxThrows = 2` (once_flag) lets tokens of two failed attempts pile up in a semaphore
  of two. `MaxWaiters` 2 with three tasks has as many losers as tokens. With a fourth
  task one loser is left over and `EveryCallReturns` fails: the limit is a configuration
  constant the code states, so the run stays within it.
* `MaxItems = 2` bounds the client's queue, not the condition variable; two consumers are
  the least for which one can take a token meant for the other. `MaxWaiters` equals the
  number of consumers, which is what the assertion in `wait` asks for.
* Three timer objects are the least that allow a chain of moves while a third timer
  runs; the third kernel timer is the new one of an assignment between two objects that
  both have one.

* Two task objects are the least for a move, a swap or an assignment, and an object may
  be destroyed and constructed again without limit; two kernel tasks let a new task get
  the memory of a deleted one, and let garbage in a new object name a task that exists.
* `MaxDepth = 2` (locks) has a recursive mutex taken by its owner again and a shared one
  by two. A task that has two mutexes asks for no third (`MaxHeld = 1`: it asks for
  another one only with at most one in hand), since no operation involves three.
  When a section has given back a mutex twice, nobody asks for another lock
  (`MaxTwice = 1`): everything that was held or asked for then is still played to its
  end. `Modulus` stands for 2^8 and is larger than any depth of the instance: the
  counter of the code wraps at 256 nested locks, which no property covers. Two lock
  objects are enough for every operation of one on another. Symmetry over tasks and over
  lock objects, no liveness.
* `Capacity = 2` (channels) lets a channel be empty, partly filled and full, and a send
  of two bytes go out in part. One item of four is a message of two units, so that a
  receive may have too little room. `Trigger = 1` keeps one byte back. One fancied permit
  at a time is enough to meet every place the permit can really be at. Two wrappers and
  two handles make moves, failed constructions and the reuse of a handle meet. Symmetry
  over wrappers, handles, tasks, bits and the items of one unit, no liveness.
* `MaxWaiters = 2` equals the number of waiters, as the configuration asks for. Three
  changes let a value come back to what a waiter waits on and leave it again. With a
  second notifier or a third waiter TLC needs much longer than five minutes per
  run; the theorem of section 4 covers them.

### Fairness, and why the code justifies it

* `shared_mutex`: weak fairness of each task's steps. The scheduler runs ready tasks, an
  owner eventually unlocks, and with finitely many calls nobody can overtake for ever.
  Without the bound on calls a stream of readers may starve a writer: the code has no
  writer priority, and no such property is claimed.
* `latch`: weak fairness of `Give`, `Take` and `PassBaton` only: nobody is required to
  arrive. The semaphore stays available until taken, so weak fairness is enough.
* `once_flag`: weak fairness of every step; the function ends, returning or throwing.
* `cond_var`: weak fairness of the tasks' steps, and strong fairness of `Take` and
  `Relock`: the kernel's wait lists are ordered by priority and, within one, by arrival,
  so a blocked task of the same priority as the others is not passed over for ever.
  Interrupts, calls and the client's decisions have no fairness.
* `task`: weak fairness of `Enter`, `Call` and `Exit` of each kernel task (a task that is
  not suspended gets to run) and of the owner's `Store`, `JoinTake`, `JoinReturn`.
  Nothing says that a routine ends, so none of `Finish`, `Step`, `Loop` is fair, and
  nobody is required to notify, resume or destroy.
* `atomic`: weak fairness of each task's steps inside a call. `Take` is enabled as long
  as there is a token, and what takes tokens away from others ends `told`. Nobody is
  required to wait, change, notify or destroy.
* `sw_timer`, `locks`, `channels`: no liveness is claimed, and no fairness assumed.

## 4. Proofs

The theorems hold for every value of the constants within the named assumptions: finite
sets of tasks (none of them `NoTask`), positive `MaxReaders`, `MaxWaiters` and
`MaxItems`, a natural `Expected` with positive `Updates`, `None` outside the other sets,
disjoint classes of mutexes with `MaxDepth < Modulus`, a finite set of items for Channels,
and for Atomic a finite set of at most `MaxWaiters` waiters. Each module proves
`Init => IInv`, `IInv /\ [Next]_vars => IInv'` (one step per action), and that `IInv`
implies the invariants of the runs. Each `IInv` was an invariant of the TLC instance
before it was proved. Every safety property of the runs (type invariants, invariants,
action properties and the two refinements) is a theorem.

* **SharedMutexProofs.** `IInv` is `TypeOK`, `SlotAccounting` and `MutexMatchesPc`.
  Counting slots is inductive only if only the mutex holder can have collected any, and
  if a writer inside the lock has all of them. Exclusion is then arithmetic: all slots
  held leaves none for a reader. `FailuresJustified` proves the action property
  `FailsForCause` from the same invariant, `RefinesRWLock` that every kernel call is a
  step of the atomic lock or leaves readers and writers as they are.
* **LatchProofs.** `IInv` is `TypeOK`, `OneBaton`, `NeverRefused` and `LocalsMatchPc`:
  an exchange starts from a positive value, so only one arrival can reach zero, and
  nobody takes from a latch without a semaphore. `RefinesStdLatch` is the refinement.
* **OnceFlagSwTimerProofs**, OnceFlag. `OFInv` adds `SemaphoreExists` (nobody gives or takes
  before the lazy creation) and `GiveLoopBound` to the type and `OneRunner`. `ReturnsJustified` proves the action property `ReturnsForCause` of the
  instance with its history. What it needs is `FailureSeen`: an attempt that throws is
  counted in the step that resets the state, so a task that lost the compare-exchange and
  then sees state 0 called before that attempt ended, whichever attempt its token is from.
  `TokensForLosers` proves the safety half of `EveryCallReturns`, for at most
  `MaxWaiters + 1` tasks: once an attempt has ended, the tokens, or those and what one
  give loop has still to give, are as many as the tasks that have not got past the
  semaphore. No step makes a new loser of an attempt that has ended, except of those that
  are before the compare-exchange when the function completes, whom `Losing` includes; a
  give is refused only when there is a token for each.
* **CondVarProofs.** `IInv` adds `GivesLeft`. The theorem does not assume that there are
  at most `MaxWaiters` consumers: the count is exact even when the window between the
  assertion and the increment lets it pass the limit. For as many consumers as the limit,
  `NotificationsKept` proves the safety half of `NotificationsSeen`. An item is balanced
  by a token, by a consumer that is up or by a producer that owes a notification; a full
  semaphore breaks that balance, but then there is a token for every consumer that may
  block, which stays so until the queue is empty.
* **OnceFlagSwTimerProofs**, SwTimer. `FiresOwnCallback` is about running timers, and any dormant timer
  may be started; `Linked` says the same of every owned timer, `Assigning` of the new
  timer that has no owner yet, and of the destination's handle after its timer is gone.

* **TaskProofs.** `OneOwner` is inductive with `TypeOK`. `RunsOwnRoutine` needs `Linked`:
  as long as an object is not moved, its task was made for it and the object still has
  the routine it was constructed with, also between `Construct` and `Store`.
  `JoinForCause` follows once it is known that the owner that joins has its handle in the
  object and that its object holds the task. The theorems do not use fairness.
* **LocksProofs.** `IInv` is types, `Referred` (the mutex and the lock object of a call)
  and `Owned` (an exclusive mutex without an owner has depth 0, and the recursive mutex of
  a call that holds it is its task's). `Balance` (for `Balanced`) is about a mutex that is
  not in `twice`: the set of those that owe it, lock objects, calls and tasks together,
  is finite and as large as the kernel's depth, and all of them are the holder's. Each
  action adds one element, drops one, or exchanges one for another (`EvenTaken`,
  `EvenGiven`, `EvenSwapped`); the one give of a call never fails, because the set is not
  empty and the giver is the holder, and the holder only goes when nobody owes any more
  (`StillHeld`). The second give of a throwing result either is refused or puts the mutex
  into `twice`. `FlagSound` follows: a flag is set by a call that owes the mutex, and so
  by its holder. `Counted` (for `CountExact`): unless the mutex was taken during another's
  unlock, at most one call is between the kernel and the counter, and it knows the value
  it is about to replace; the counter cannot wrap because `MaxDepth < Modulus`.
* **ChannelsProofs.** `IInv` is `TypeOK`, `KernelOwned` (every kernel object has exactly
  one wrapper, and no wrapper has a deleted one), `CallsMeant` (what a call in progress
  carries fits its class), `RemembersAlive` (calls, members of a set and deferred
  operations remember objects that exist), `Shared` (every item is in one place: with the
  client, in one object or in one call) and `NoEventLost`. What clients fancy moves
  nothing (`BeliefStep`); that only clients of semaphores do is in `TypeOK`. None of the
  properties is inductive alone: that no handle dangles needs the second and fourth, that
  no item is lost needs that contents and loads are sequences without repetition. The
  lemmas on concatenating and cutting such sequences are stated once, at the beginning.
* **AtomicProofs.** `IInv` is `TypeOK`, `Shape` (where tasks can be and which semaphore
  they hold: `Placed`, `Created`, `Needed`, `Held`), `Counted` (`waiter_count` is the
  number of waiters that entered and did not leave), `Enough` (after a `notify_all` the
  tokens suffice for the waiters about to block on the old value or blocked) and
  `Promised` (during one, the tokens and the gives still to come do). The theorem holds
  for any number of notifiers.

Only model-checked: the liveness properties (`EveryCallReturns` of two modules,
`WaitersReturn`, `NotificationsSeen`, `JoinReturns`, `WaitReturns`), since fairness
and ENABLED are out of the prover's reach, and the three counterexamples of section 5.

## 5. Findings

1. **`notify_all` can lose a wakeup** (`cond_var_notify_all`). `wait` unlocks at line 145
   of `freertos_condition_variable.hpp` and counts itself at line 149. A task between
   the two has seen the old predicate and is not counted; `notify_all` (lines 99-113)
   gives as many tokens as the count says. The task then blocks although the predicate
   is true. `notify_one` and `notify_all_isr` do not use the count and are fine.
2. **A failed move assignment stops the source** (`sw_timer_failed_move`).
   `freertos_sw_timer.hpp:265-266` says that both objects are unchanged; the source's
   timer was stopped at line 234, is not started again, and its `m_started` stays true.
3. **A resume can come too early** (`task_resume`). A task with `start_suspended` is
   created ready and suspends itself when the kernel first runs it
   (`freertos_task.hpp:200`). `resume()` before that does nothing, and the task then
   suspends itself for good. `tests/test_enhanced_multitasking.cpp:617-620` expects a
   resumed task to execute, and line 221 of the header promises a task that is started
   in the suspended state.

Two more behaviours are in the models, and the properties make an exception of them.

* **A section may give its mutex back twice.** `claim()` (`freertos_semaphore.hpp:836-842`,
  `1047-1053`) and `shared_data::get`, `use` and `get_ex` (`freertos_shared_data.hpp:63-68`,
  `102-108`, `118-123`) call `unlock()` and then `return result;` inside the same `try`
  block. `get_ex` builds an `expected<T>` from the result, and that copy or move may throw:
  the handler unlocks again. If the task had locked a recursive mutex outside the section,
  that outer lock is released. In `Locks` the mutex is then in `twice`; TLC reaches such
  states, and without the exception `Balanced` fails. The tests of these paths
  (`tests/test_freertos_coverage_exception_safety.cpp:148` and `237-238`) expect one give
  and throw before `unlock()` only.
* **`acquire()` with a time limit does not say that it failed.** It returns void and drops
  what `take()` returned (`freertos_semaphore.hpp:343-351`, `532-540`). A client that
  takes the permit for its own (`fancied`) may be in a section that someone else is in,
  and its `release()` adds a permit. `docs/migration-v1-to-v2.md:180` gives `acquire()`
  as another name of `take()`, which does report a timeout.

## 6. Plan

Done so far: SharedMutex, Latch, OnceFlag, CondVar, SwTimer, Task, Locks, Channels,
Atomic. What is left, in this order:

1. **Atomic**: two objects in one bucket (a hash collision), and implementation 2 of the
   table (implementation 3 does nothing).
2. **SwTimer**: a daemon below the task's priority (commands are queued and executed
   later), interrupts that start timers, and `pend_call` in the daemon's queue.
3. **Locks**: moving and swapping the mutex objects while lock objects refer to them.
4. The runtime adapters' once and mutex over `OnceFlag` and `Locks`, and the clock's wrap.

Smaller extensions: the destruction of a latch by a task that saw zero; more consumers
than `MAX_WAITERS`, where the assertion counts.

## 7. Not modelled, and why

* Wording, formatting, logging, template metaprogramming, strong types, `span`,
  `expected`, `fixed_function`: sequential values without shared state.
* `freertos_heap.hpp`, external allocators: each operation is one call of the kernel.
* `pend_call`: one kernel call; what the timer task runs then is the user's function.
* `freertos_gthr.hpp`, `freertos_external_threading.hpp`: hooks that forward to the
  kernel; the protocols above them (once, condition variables) are those of the modelled
  classes.
* The clock: one function over the tick count. Time limits in the models may expire at
  any moment, which includes every value of the clock.
* Configuration macros, annotations and the umbrella header: no behaviour.
* Destruction of a `shared_mutex`, `latch` or `condition_variable_any` in use: the
  lifetime is the user's, and the headers say nothing of it.
* Memory orders: every atomic access is modelled as sequentially consistent. On one
  core that is what tasks and interrupts see. `configs/FreeRTOSConfig_full.h:43` sets two
  cores: there the steps of tasks interleave just as freely as they do here, but weaker
  orders than sequential consistency are not covered, and the interrupt handler of
  CondVar is one step only on a single core.
* Priorities: a step of any ready task may come next, which includes every schedule a
  priority assignment allows.
