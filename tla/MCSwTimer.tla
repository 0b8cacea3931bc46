------------------------------ MODULE MCSwTimer ------------------------------
(* TLC instance of SwTimer: three objects that may be destroyed and made   *)
(* again with either callback, and memory for three kernel timers.         *)
EXTENDS SwTimer
=============================================================================
