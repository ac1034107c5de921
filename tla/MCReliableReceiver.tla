-------------------------- MODULE MCReliableReceiver --------------------------
(***************************************************************************)
(* Instances of ReliableReceiver for TLC: the constants are numbers and    *)
(* sets of numbers, given in the configurations.                           *)
(***************************************************************************)
EXTENDS ReliableReceiver

=============================================================================
