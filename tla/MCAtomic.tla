------------------------------ MODULE MCAtomic ------------------------------
(***************************************************************************)
(* TLC instance of Atomic: two waiters, one notifying task and interrupts, *)
(* with memory for two semaphores.                                         *)
(***************************************************************************)
EXTENDS Atomic
=============================================================================
