--------------------------- MODULE MCRetransmission ---------------------------
(***************************************************************************)
(* Instances of Retransmission for TLC: the constants are numbers and sets *)
(* of numbers, given in the configurations.                                *)
(***************************************************************************)
EXTENDS Retransmission

=============================================================================
