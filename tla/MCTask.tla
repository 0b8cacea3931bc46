------------------------------- MODULE MCTask -------------------------------
(* TLC instance of Task: two objects, plain or periodic, that may be       *)
(* destroyed and made again, and memory for two kernel tasks.              *)
EXTENDS Task
=============================================================================
