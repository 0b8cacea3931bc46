------------------------------- MODULE MCLocks -------------------------------
(* TLC instance of Locks: two tasks, two lock objects, one mutex of each   *)
(* class, each held at most twice at a time.                               *)
EXTENDS Locks, TLC

Symmetric == Permutations(Tasks) \cup Permutations(Locks)
=============================================================================
