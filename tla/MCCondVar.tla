------------------------------ MODULE MCCondVar ------------------------------
(* TLC instance of CondVar: as many consumers as the condition variable is *)
(* configured for, one producer and the interrupt.                         *)
EXTENDS CondVar
=============================================================================
