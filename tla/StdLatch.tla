------------------------------- MODULE StdLatch -------------------------------
(***************************************************************************)
(* What a latch promises (header comment of freertos_latch.hpp: "C++20     *)
(* std::latch semantics"): a counter that arrivals only move down, never   *)
(* below zero, and tasks that leave the latch only once it is zero.        *)
(***************************************************************************)
EXTENDS Integers

CONSTANTS Tasks, Expected, Updates

VARIABLES counter, waiting

Init == counter = Expected /\ waiting = {}

(* One arrival of weight n takes effect at once. *)
Arrive(n) ==
  /\ counter > 0
  /\ counter' = IF counter > n THEN counter - n ELSE 0
  /\ UNCHANGED waiting

(* A task that found the counter above zero waits... *)
Block(t) ==
  /\ t \notin waiting
  /\ waiting' = waiting \cup {t}
  /\ UNCHANGED counter

(* ... and leaves only when every expected arrival was made. *)
Release(t) ==
  /\ t \in waiting
  /\ counter = 0
  /\ waiting' = waiting \ {t}
  /\ UNCHANGED counter

Next ==
  \/ \E n \in Updates : Arrive(n)
  \/ \E t \in Tasks : Block(t) \/ Release(t)

Spec == Init /\ [][Next]_<<counter, waiting>>
=============================================================================
