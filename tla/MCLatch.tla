------------------------------- MODULE MCLatch -------------------------------
(* Instance of Latch for TLC: two tasks that arrive and wait in any order, *)
(* any number of times, and an interrupt that arrives.                     *)
EXTENDS Latch

MCUpdates == {1, 2}
=============================================================================
