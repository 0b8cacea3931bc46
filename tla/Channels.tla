------------------------------- MODULE Channels -------------------------------
(***************************************************************************)
(* The wrappers that own one kernel object and move data through it:       *)
(* queue, binary_semaphore, counting_semaphore, stream_buffer,             *)
(* stream_batching_buffer, message_buffer, queue_set and event_group.      *)
(*                                                                         *)
(* A behaviour is about one class of wrapper (class, fixed by Init) and    *)
(* one kind of allocator (static).  The wrappers are moved, swapped,       *)
(* assigned and destroyed while tasks call them; a call keeps the handle   *)
(* that it read when it began.  The forms of a call (ticks, durations,     *)
(* iterators, optional, _isr, _ex) differ in whether they wait for ever    *)
(* (patient) and in how they report the kernel's result, and a client does *)
(* what the report tells it: an item whose send failed is still its own,   *)
(* an item that a receive returned is its own now, and a permit that it    *)
(* asked acquire() for is its own whatever happened, since acquire() tells *)
(* it nothing.                                                             *)
(***************************************************************************)
EXTENDS Naturals, Sequences, FiniteSets, SequencesExt

CONSTANTS
  Classes,     (* the classes of wrappers that behaviours are about        *)
  Objects,     (* memory for wrappers                                      *)
  Handles,     (* memory for kernel objects                                *)
  Tasks,
  Items,       (* items, bytes, permits, messages; the members of sets     *)
  Big,         (* the items that are messages of two units                 *)
  Bits,        (* the bits of event groups                                 *)
  Capacity,    (* length of queues, permits of semaphores, bytes           *)
  Trigger,     (* trigger level of batching buffers                        *)
  None

ASSUME ClassAssumption ==
  Classes \subseteq {"queue", "mailbox", "binary", "counting", "stream",
                     "batching", "message", "set", "group"}
ASSUME SizeAssumption ==
  Capacity \in Nat \ {0} /\ Trigger \in Nat /\ Big \subseteq Items /\ IsFiniteSet(Items)
ASSUME NoneAssumption == None \notin Handles

VARIABLES
  class, static,   (* fixed                                                *)
  built,           (* the wrappers that are constructed                    *)
  handle,          (* the handle member of each wrapper                    *)
  alive,           (* the kernel objects that exist                        *)
  content,         (* what is in each: a sequence of items, a set of bits  *)
  pool,            (* items that nobody has                                *)
  own,             (* items each client has, as far as it was told         *)
  fancied,         (* permits a client takes for its own, and has not      *)
  call,            (* the call each task is in                             *)
  joined,          (* the queue set that each member of sets is in         *)
  deferred,        (* an event group operation that an ISR left to the     *)
                   (* timer task (bound: one at a time)                    *)
  missed,          (* bits consumed by a wait that reported an error       *)
  undefined        (* a wrapper with static memory was moved unchecked     *)

wrappers == <<built, handle>>
clients  == <<pool, own>>
vars == <<class, static, wrappers, alive, content, clients, fancied, call, joined,
          deferred, missed, undefined>>

Bitwise == class = "group"
Semaphores == {"binary", "counting"}
Empty   == IF Bitwise THEN {} ELSE <<>>
Idle == [op |-> "idle", h |-> None, load |-> <<>>, room |-> 0, want |-> {},
         how |-> {}, patient |-> FALSE]

Init ==
  /\ class \in Classes /\ static \in (IF class = "set" THEN {FALSE} ELSE BOOLEAN)
  /\ built = {} /\ handle = [o \in Objects |-> None]
  /\ alive = {} /\ content = [h \in Handles |-> Empty]
  /\ pool = Items /\ own = [t \in Tasks |-> {}]
  /\ fancied = [t \in Tasks |-> {}]
  /\ call = [t \in Tasks |-> Idle]
  /\ joined = [i \in Items |-> None]
  /\ deferred = None /\ missed = {} /\ undefined = FALSE

-----------------------------------------------------------------------------
(* The life of a wrapper.                                                  *)

Size(i) == IF class = "message" /\ i \in Big THEN 2 ELSE 1

(* The units that items take up (each is in a sequence at most once).      *)
Units(q) ==
  Len(q) + (IF class = "message" THEN Cardinality(ToSet(q) \cap Big) ELSE 0)
Used(h) == Units(content[h])
Length  == IF class \in {"mailbox", "binary"} THEN 1
           ELSE IF class = "set" THEN Cardinality(Items) ELSE Capacity
Busy(h) ==
  \/ \E t \in Tasks : call[t].h = h
  \/ \E i \in Items : joined[i] = h
  \/ deferred # None /\ deferred.h = h

(* The constructors: with static memory the allocator's create() cannot    *)
(* fail.                                                                   *)
Construct(o, first) ==
  /\ o \notin built /\ built' = built \cup {o}
  /\ \/ \E h \in Handles \ alive :
          /\ alive' = alive \cup {h}
          /\ handle' = [handle EXCEPT ![o] = h]
          /\ content' = [content EXCEPT ![h] = first]
          /\ pool' = IF Bitwise THEN pool ELSE pool \ ToSet(first)
     \/ ~static /\ UNCHANGED <<alive, handle, content, pool>>
  /\ UNCHANGED own

(* A wrapper is destroyed when no call is in progress on what it owns, and *)
(* a set when it has no members left.                                      *)
Destroy(o) ==
  /\ o \in built /\ built' = built \ {o}
  /\ IF handle[o] = None THEN UNCHANGED <<alive, handle, content, clients>>
     ELSE /\ ~Busy(handle[o])
          /\ alive' = alive \ {handle[o]}
          /\ handle' = [handle EXCEPT ![o] = None]
          /\ content' = [content EXCEPT ![handle[o]] = Empty]
          /\ pool' = IF Bitwise THEN pool ELSE pool \cup ToSet(content[handle[o]])
          /\ UNCHANGED own

(* Mutant: the source keeps its handle. *)
MoveCopy(o, s) ==
  /\ o \notin built /\ s \in built /\ built' = built \cup {o}
  /\ handle' = [handle EXCEPT ![o] = handle[s]]
  /\ UNCHANGED <<alive, content, clients>>

Move(o, s) ==
  /\ o \notin built /\ s \in built /\ built' = built \cup {o}
  /\ handle' = [handle EXCEPT ![o] = handle[s], ![s] = None]
  /\ UNCHANGED <<alive, content, clients>>

(* swap() and the move assignment, which is a swap.                        *)
Swap(a, b) ==
  /\ a \in built /\ b \in built /\ a # b
  /\ handle' = [handle EXCEPT ![a] = handle[b], ![b] = handle[a]]
  /\ UNCHANGED <<built, alive, content, clients>>

Relocate(o, s) == Move(o, s) \/ Swap(o, s)

(* A queue with static memory may be moved and swapped: the handle then    *)
(* points into another wrapper, and what follows is not defined.           *)
QueueLife(o) ==
  /\ class \in {"queue", "mailbox"}
  /\ \/ (Construct(o, Empty) \/ Destroy(o)) /\ UNCHANGED undefined
     \/ (\E s \in Objects : Relocate(o, s)) /\ undefined' = static

(* The other classes assert that their memory is not static.               *)
CheckedLife(o) ==
  /\ \/ Construct(o, Empty) \/ Destroy(o)
     \/ ~static /\ \E s \in Objects : Relocate(o, s)
  /\ UNCHANGED undefined

BinaryLife(o) == class = "binary" /\ CheckedLife(o)

(* The semaphore is created with all its permits (bound: they come from    *)
(* the pool).                                                              *)
CountingLife(o) ==
  /\ class = "counting"
  /\ \/ \E q \in [1..Capacity -> pool] :
          IsInjective(q) /\ Construct(o, q)
     \/ Destroy(o)
     \/ ~static /\ \E s \in Objects : Relocate(o, s)
  /\ UNCHANGED undefined

StreamLife(o)   == class = "stream" /\ CheckedLife(o)
BatchingLife(o) == class = "batching" /\ CheckedLife(o)
MessageLife(o)  == class = "message" /\ CheckedLife(o)
SetLife(o)      == class = "set" /\ CheckedLife(o)
GroupLife(o)    == class = "group" /\ CheckedLife(o)

Life(o) ==
  /\ \/ QueueLife(o) \/ BinaryLife(o) \/ CountingLife(o) \/ StreamLife(o)
     \/ BatchingLife(o) \/ MessageLife(o) \/ SetLife(o) \/ GroupLife(o)
  /\ UNCHANGED <<class, static, fancied, call, joined, deferred, missed>>

-----------------------------------------------------------------------------
(* A call begins: the wrapper reads its handle.                            *)

Ask(t, o, c) ==
  /\ call[t] = Idle /\ handle[o] # None
  /\ call' = [call EXCEPT ![t] = [c EXCEPT !.h = handle[o]]]

(* The kernel asserts that stream and message buffers have one writer and  *)
(* one reader at a time.                                                   *)
Streams  == {"stream", "batching"}
Alone(o, op) ==
  class \in Streams \cup {"message"} =>
    \A t \in Tasks : ~(call[t].h = handle[o] /\ call[t].op = op)

Loads(t) ==
  {q \in [1..1 -> own[t]] \cup (IF class \in Streams THEN [1..2 -> own[t]] ELSE {}) :
     IsInjective(q)}

(* send, give and their forms; a queue can also be sent to at its front;   *)
(* a semaphore is never waited for by a give.                              *)
BeginSend(t, o) ==
  /\ ~Bitwise /\ class # "set" /\ Alone(o, "send")
  /\ \E load \in Loads(t), p \in BOOLEAN, op \in {"send", "front"} :
       /\ op = "front" => class \in {"queue", "mailbox"}
       /\ p => class \notin Semaphores
       /\ Ask(t, o, [Idle EXCEPT !.op = op, !.load = load, !.patient = p])
       /\ own' = [own EXCEPT ![t] = @ \ ToSet(load)]
  /\ UNCHANGED <<pool, content, missed>>

(* receive, take, select, peek and their forms, with room for one or two units.    *)
BeginReceive(t, o) ==
  /\ ~Bitwise /\ Alone(o, "receive")
  /\ \E p \in BOOLEAN, op \in {"receive", "peek"}, r \in {1, 2} :
       /\ op = "peek" => class \in {"queue", "mailbox"}
       /\ r = 2 => class \in Streams \cup {"message"}
       /\ Ask(t, o, [Idle EXCEPT !.op = op, !.room = r, !.patient = p])
  /\ UNCHANGED <<clients, content, missed>>

-----------------------------------------------------------------------------
(* The kernel ends a call when it can do what is asked, or, if the call    *)
(* does not wait for ever, at any time with less or nothing.               *)

Fits(t) == Units(call[t].load) + Used(call[t].h) <= Length

(* How many of its items the kernel takes: of bytes as many as fit.        *)
Accepted(t) ==
  IF Fits(t) THEN Len(call[t].load)
  ELSE IF class \in Streams THEN Length - Used(call[t].h) ELSE 0

SendEnd(t, ok) ==
  LET c == call[t]
      n == Accepted(t)
      accepted == SubSeq(c.load, 1, n)
      left == SubSeq(c.load, n + 1, Len(c.load))
  IN /\ c.op \in {"send", "front"} /\ (Fits(t) \/ ~c.patient)
     /\ content' = [content EXCEPT ![c.h] =
                      IF c.op = "front" THEN accepted \o @ ELSE @ \o accepted]
     /\ own' = [own EXCEPT ![t] = @ \cup ToSet(IF ok THEN left ELSE c.load)]
     /\ call' = [call EXCEPT ![t] = Idle]
     /\ UNCHANGED <<pool, missed>>

(* A batching buffer gives nothing until there is more than its trigger    *)
(* level; a message that the caller has no room for stays where it is.     *)
Ready(t) == Len(content[call[t].h]) > (IF class = "batching" THEN Trigger ELSE 0)
Handed(t) ==
  LET q == content[call[t].h] IN
  IF ~Ready(t) THEN <<>>
  ELSE IF class = "message" THEN IF Size(Head(q)) <= call[t].room THEN <<Head(q)>> ELSE <<>>
  ELSE SubSeq(q, 1, Min({Len(q), call[t].room}))

ReceiveEnd(t, ok) ==
  LET c == call[t]
      items == Handed(t)
  IN /\ c.op \in {"receive", "peek"} /\ (Ready(t) \/ ~c.patient)
     /\ IF c.op = "peek" THEN UNCHANGED <<content, own>>
        ELSE /\ content' = [content EXCEPT ![c.h] = SubSeq(@, Len(items) + 1, Len(@))]
             /\ own' = IF ok THEN [own EXCEPT ![t] = @ \cup ToSet(items)] ELSE own
     /\ call' = [call EXCEPT ![t] = Idle]
     /\ UNCHANGED <<pool, missed>>

(* How each class reports the kernel's result: pdPASS and pdTRUE are one   *)
(* item, the buffers report a number of bytes.                             *)
QueueSend(t) == class \in {"queue", "mailbox"} /\ SendEnd(t, Accepted(t) = 1)
QueueReceive(t) == class \in {"queue", "mailbox"} /\ ReceiveEnd(t, Len(Handed(t)) = 1)
BinaryGive(t) == class = "binary" /\ SendEnd(t, Accepted(t) = 1)
BinaryTake(t) == class = "binary" /\ ReceiveEnd(t, Len(Handed(t)) = 1)
CountingGive(t) == class = "counting" /\ SendEnd(t, Accepted(t) = 1)
CountingTake(t) == class = "counting" /\ ReceiveEnd(t, Len(Handed(t)) = 1)

(* Mutant: what did not go out whole is reported as an error. *)
StreamSendWhole(t) == class = "stream" /\ SendEnd(t, Accepted(t) = Len(call[t].load))

StreamSend(t) == class = "stream" /\ SendEnd(t, Accepted(t) > 0)
StreamReceive(t) == class = "stream" /\ ReceiveEnd(t, Len(Handed(t)) > 0)
BatchingSend(t) == class = "batching" /\ SendEnd(t, Accepted(t) > 0)
BatchingReceive(t) == class = "batching" /\ ReceiveEnd(t, Len(Handed(t)) > 0)
MessageSend(t) == class = "message" /\ SendEnd(t, Accepted(t) > 0)
MessageReceive(t) == class = "message" /\ ReceiveEnd(t, Len(Handed(t)) > 0)

SetSelect(t) == class = "set" /\ ReceiveEnd(t, Len(Handed(t)) = 1)

(* The forms without a result of type expected: 0, pdFALSE, an empty       *)
(* optional or false say what error says in the others.  Two forms say     *)
(* nothing at all: acquire() here, and Release.                            *)
QueueCalls(t)    == QueueSend(t) \/ QueueReceive(t)
BinaryCalls(t)   == BinaryGive(t) \/ BinaryTake(t)
CountingCalls(t) == CountingGive(t) \/ CountingTake(t)
StreamCalls(t)   == StreamSend(t) \/ StreamReceive(t)
BatchingCalls(t) == BatchingSend(t) \/ BatchingReceive(t)
MessageCalls(t)  == MessageSend(t) \/ MessageReceive(t)

(* acquire(ticks) and acquire(duration) drop the result of the take: when  *)
(* the time is up their caller takes a permit for its own that it has not  *)
(* (bound: one at a time).                                                 *)
AcquireExpired(t) ==
  /\ class \in Semaphores /\ call[t].op = "receive"
  /\ ~call[t].patient /\ ~Ready(t)
  /\ call' = [call EXCEPT ![t] = Idle]
  /\ \A u \in Tasks : fancied[u] = {}
  /\ \E i \in Items \ own[t] : fancied' = [fancied EXCEPT ![t] = {i}]
  /\ UNCHANGED <<clients, content, missed>>

(* Such a permit is used up, or given back: the semaphore then gets one    *)
(* that Produce makes.                                                     *)
Spend(t) ==
  /\ call[t] = Idle /\ fancied[t] # {}
  /\ fancied' = [fancied EXCEPT ![t] = {}]
  /\ UNCHANGED <<clients, content, call, missed>>

-----------------------------------------------------------------------------
(* Calls that never wait.                                                  *)

Instant(t, o) ==
  call[t] = Idle /\ handle[o] # None /\ UNCHANGED <<call, missed>>

(* Mutant: the item is sent past the end of the queue. *)
OverwriteSend(t, o) ==
  /\ Instant(t, o) /\ class = "mailbox"
  /\ \E i \in own[t] :
       /\ content' = [content EXCEPT ![handle[o]] = Append(@, i)]
       /\ own' = [own EXCEPT ![t] = @ \ {i}]
  /\ UNCHANGED pool

(* The item that overwrite() replaces is gone; only a queue of length one  *)
(* may be overwritten.                                                     *)
Overwrite(t, o) ==
  /\ Instant(t, o) /\ class = "mailbox"
  /\ \E i \in own[t] :
       /\ content' = [content EXCEPT ![handle[o]] = <<i>>]
       /\ pool' = pool \cup ToSet(content[handle[o]])
       /\ own' = [own EXCEPT ![t] = @ \ {i}]

(* reset() of queues and of buffers; a buffer refuses while a task waits,  *)
(* which the task of a call in progress need not do yet.                   *)
Reset(t, o) ==
  /\ Instant(t, o) /\ ~Bitwise /\ class \notin Semaphores \cup {"set"}
  /\ content' = [content EXCEPT ![handle[o]] = <<>>]
  /\ pool' = pool \cup ToSet(content[handle[o]])
  /\ UNCHANGED own

(* release(), ++ and every round of += drop the result of the give: a      *)
(* permit for which there is no room is gone.                              *)
Release(t, o) ==
  /\ Instant(t, o) /\ class \in Semaphores
  /\ \E i \in own[t] :
       /\ IF Used(handle[o]) < Length
          THEN content' = [content EXCEPT ![handle[o]] = Append(@, i)] /\ UNCHANGED pool
          ELSE pool' = pool \cup {i} /\ UNCHANGED content
       /\ own' = [own EXCEPT ![t] = @ \ {i}]

(* The clients make items and use them up (a member of a set that select() *)
(* returned is received from, and empty again).                            *)
Produce(t) ==
  /\ ~Bitwise /\ class # "set" /\ call[t] = Idle
  /\ \E i \in pool : pool' = pool \ {i} /\ own' = [own EXCEPT ![t] = @ \cup {i}]
  /\ UNCHANGED <<content, call, missed>>

Consume(t) ==
  /\ call[t] = Idle
  /\ \E i \in own[t] : pool' = pool \cup {i} /\ own' = [own EXCEPT ![t] = @ \ {i}]
  /\ UNCHANGED <<content, call, missed>>

-----------------------------------------------------------------------------
(* Queue sets.  A member is a queue of length one, in the pool when it is  *)
(* empty; only then, and if it is in no set, or in this one, the kernel    *)
(* adds or removes it.                                                     *)

SetAdd(o) ==
  /\ class = "set" /\ handle[o] # None
  /\ \E i \in pool : joined[i] = None /\ joined' = [joined EXCEPT ![i] = handle[o]]
  /\ UNCHANGED <<clients, content>>

SetRemove(o) ==
  /\ class = "set" /\ handle[o] # None
  /\ \E i \in pool : joined[i] = handle[o] /\ joined' = [joined EXCEPT ![i] = None]
  /\ UNCHANGED <<clients, content>>

(* Something is sent to a member: the kernel tells the set it is in.       *)
SetPost ==
  /\ \E i \in pool :
       /\ joined[i] # None /\ pool' = pool \ {i}
       /\ content' = [content EXCEPT ![joined[i]] = Append(@, i)]
  /\ UNCHANGED <<own, joined>>

-----------------------------------------------------------------------------
(* Event groups.                                                           *)

Met(c, bits) == IF "all" \in c.how THEN c.want \subseteq bits
                ELSE c.want \cap bits # {}
Cleared(c) == IF "clear" \in c.how THEN c.want ELSE {}

(* Mutant: every wait is reported as if it were for all bits. *)
WaitOkAll(c, bits) == c.want \subseteq bits

(* wait_bits_ex: a timed out wait for all bits that sees some of them is   *)
(* reported as a success as well; sync_ex: all of them.                    *)
WaitOk(c, bits) == c.want \cap bits # {}
SyncOk(c, bits) == c.want \subseteq bits
GroupOk(c, bits) == IF c.op = "sync" THEN SyncOk(c, bits) ELSE WaitOk(c, bits)

(* The kernel sets bits: every waiter that this satisfies ends, with the   *)
(* bits as they are now, and then what they clear is cleared.              *)
Woken(h, bits) == {t \in Tasks : call[t].h = h /\ Met(call[t], bits)}
Unreported(ts, bits) ==
  UNION {Cleared(call[t]) \cap bits : t \in {u \in ts : ~GroupOk(call[u], bits)}}
After(h, bits) == bits \ UNION {Cleared(call[t]) : t \in Woken(h, bits)}
Wake(h, bits) == [t \in Tasks |-> IF t \in Woken(h, bits) THEN Idle ELSE call[t]]

SetBits(h, set) ==
  LET bits == content[h] \cup set IN
  /\ call' = Wake(h, bits)
  /\ content' = [content EXCEPT ![h] = After(h, bits)]
  /\ missed' = missed \cup Unreported(Woken(h, bits), bits)

GroupSet(t, o) ==
  /\ Bitwise /\ call[t] = Idle /\ handle[o] # None
  /\ \E set \in (SUBSET Bits) \ {{}} : SetBits(handle[o], set)
  /\ UNCHANGED <<clients, deferred>>

GroupClear(t, o) ==
  /\ Bitwise /\ Instant(t, o)
  /\ \E bits \in (SUBSET Bits) \ {{}} :
       content' = [content EXCEPT ![handle[o]] = @ \ bits]
  /\ UNCHANGED <<clients, deferred>>

(* set_bits_isr and clear_bits_isr leave it to the timer task.             *)
GroupDefer(o) ==
  /\ Bitwise /\ handle[o] # None /\ deferred = None
  /\ \E bits \in (SUBSET Bits) \ {{}}, op \in {"set", "clear"} :
       deferred' = [op |-> op, h |-> handle[o], bits |-> bits]
  /\ UNCHANGED <<clients, content, call, missed>>

Daemon ==
  /\ deferred # None /\ deferred' = None
  /\ \/ deferred.op = "set" /\ SetBits(deferred.h, deferred.bits)
     \/ /\ deferred.op = "clear"
        /\ content' = [content EXCEPT ![deferred.h] = @ \ deferred.bits]
        /\ UNCHANGED <<call, missed>>
  /\ UNCHANGED clients

(* wait_bits, and sync, which sets bits first and then waits for all of    *)
(* its bits and clears them.                                               *)
GroupWait(t, o, op, set, how) ==
  /\ Bitwise /\ call[t] = Idle /\ handle[o] # None
  /\ \E want \in (SUBSET Bits) \ {{}}, p \in BOOLEAN :
       LET h == handle[o]
           c == [Idle EXCEPT !.op = op, !.h = h, !.want = want, !.how = how, !.patient = p]
           bits == content[h] \cup set
       IN /\ call' = [Wake(h, bits) EXCEPT ![t] = IF Met(c, bits) THEN Idle ELSE c]
          /\ content' = [content EXCEPT ![h] =
                           After(h, bits) \ (IF Met(c, bits) THEN Cleared(c) ELSE {})]
          /\ missed' = missed \cup Unreported(Woken(h, bits), bits) \cup
               (IF Met(c, bits) /\ ~GroupOk(c, bits) THEN Cleared(c) \cap bits ELSE {})
  /\ UNCHANGED <<clients, deferred>>

WaitBits(t, o) == \E how \in SUBSET {"all", "clear"} : GroupWait(t, o, "wait", {}, how)
Sync(t, o) == \E set \in SUBSET Bits : GroupWait(t, o, "sync", set, {"all", "clear"})

(* The time of a wait is up; it has not been satisfied, and clears nothing.*)
GroupExpire(t) ==
  /\ Bitwise /\ call[t] # Idle /\ ~call[t].patient
  /\ call' = [call EXCEPT ![t] = Idle]
  /\ UNCHANGED <<clients, content, deferred, missed>>

-----------------------------------------------------------------------------
Transfer(t) ==
  \/ QueueCalls(t) \/ BinaryCalls(t) \/ CountingCalls(t) \/ StreamCalls(t)
  \/ BatchingCalls(t) \/ MessageCalls(t) \/ SetSelect(t)
  \/ Produce(t) \/ Consume(t)
  \/ \E o \in Objects :
       \/ BeginSend(t, o) \/ BeginReceive(t, o) \/ Overwrite(t, o)
       \/ Reset(t, o) \/ Release(t, o)

Group(t) ==
  \/ GroupExpire(t)
  \/ \E o \in Objects :
       GroupSet(t, o) \/ GroupClear(t, o) \/ WaitBits(t, o) \/ Sync(t, o)

Sets ==
  /\ SetPost \/ \E o \in Objects : SetAdd(o) \/ SetRemove(o)
  /\ UNCHANGED <<call, missed>>

Next ==
  /\ ~undefined
  /\ \/ \E o \in Objects : Life(o)
     \/ /\ \/ (\E t \in Tasks : Transfer(t)) /\ UNCHANGED <<fancied, joined, deferred>>
           \/ (\E t \in Tasks : AcquireExpired(t) \/ Spend(t)) /\ UNCHANGED <<joined, deferred>>
           \/ Sets /\ UNCHANGED <<fancied, deferred>>
           \/ /\ (\E t \in Tasks : Group(t)) \/ (\E o \in Objects : GroupDefer(o)) \/ Daemon
              /\ UNCHANGED <<fancied, joined>>
        /\ UNCHANGED <<class, static, wrappers, alive, undefined>>

Spec == Init /\ [][Next]_vars

-----------------------------------------------------------------------------
(* Properties.                                                             *)

Calls ==
  [op : {"idle", "send", "front", "receive", "peek", "wait", "sync"},
   h : Handles \cup {None}, load : Seq(Items), room : 0..2,
   want : SUBSET Bits, how : SUBSET {"all", "clear"}, patient : BOOLEAN]
Deferrals == [op : {"set", "clear"}, h : Handles, bits : SUBSET Bits]

TypeOK ==
  /\ class \in Classes /\ static \in BOOLEAN /\ undefined \in BOOLEAN
  /\ built \subseteq Objects /\ handle \in [Objects -> Handles \cup {None}]
  /\ alive \subseteq Handles /\ pool \subseteq Items /\ missed \subseteq Bits
  /\ own \in [Tasks -> SUBSET Items]
  /\ fancied \in [Tasks -> IF class \in Semaphores THEN SUBSET Items ELSE {{}}]
  /\ joined \in [Items -> Handles \cup {None}]
  /\ call \in [Tasks -> Calls] /\ deferred \in {None} \cup Deferrals
  /\ content \in [Handles -> IF Bitwise THEN SUBSET Bits ELSE Seq(Items)]
  /\ \A h \in Handles :
       /\ ~Bitwise => Used(h) <= Length
       /\ h \notin alive => content[h] = Empty

(* A kernel object belongs to one wrapper, from its creation until this    *)
(* wrapper deletes it, and no wrapper and no call in progress refers to    *)
(* one that is deleted: nothing leaks, nothing is deleted twice, whatever  *)
(* fails, is moved, assigned and swapped in the meantime.                  *)
SoleOwner ==
  /\ \A o \in Objects : handle[o] # None => o \in built /\ handle[o] \in alive
  /\ \A h \in alive : \E o \in Objects : \A s \in Objects : handle[s] = h <=> s = o
  /\ \A t \in Tasks : call[t].h # None => call[t].h \in alive
  /\ \A i \in Items : joined[i] # None => joined[i] \in alive

Positions(h, i) == {k \in DOMAIN content[h] : content[h][k] = i}
WithClients(i) == {<<"client", t>> : t \in {u \in Tasks : i \in own[u]}}
InCalls(i)     == {<<"call", t>> : t \in {u \in Tasks : i \in ToSet(call[u].load)}}
InKernel(i)    == UNION {{<<"kernel", h, k>> : k \in Positions(h, i)} : h \in Handles}
WithNobody(i)  == {p \in {<<"nobody">>} : i \in pool}
Fancied(i)     == {<<"fancied", t>> : t \in {u \in Tasks : i \in fancied[u]}}
Places(i) == WithClients(i) \cup InCalls(i) \cup InKernel(i) \cup WithNobody(i)

(* Every item is at exactly one place: with one client, in one call, in    *)
(* one kernel object or with nobody.  A client that believes the reports   *)
(* neither loses an item nor sends one again that went out: timed out and  *)
(* partial sends, lost races for an item and moves of the wrapper included.*)
(* The exception is a semaphore's client whose acquire() timed out.        *)
Conserved ==
  ~Bitwise => \A i \in Items : /\ Cardinality(Places(i)) = 1
                               /\ class \notin Semaphores => Fancied(i) = {}

(* A wait that consumes bits of an event group never tells its caller that *)
(* it failed: no event is lost in an error.                                *)
NoEventLost == missed = {}
=============================================================================
