--------------------------- MODULE MCClientLaunch ---------------------------
(* Instances of ClientLaunch for TLC: hosts and keys are model values.     *)
EXTENDS ClientLaunch, TLC

CONSTANTS h1, h2, k1, k2

\* Hosts are interchangeable, and so are keys.
Symmetry == Permutations({h1, h2}) \cup Permutations({k1, k2})
=============================================================================
