------------------------------ MODULE MCTimer ------------------------------
(* Instances of Timer for TLC: the callers are model values.               *)
EXTENDS Timer
=============================================================================
