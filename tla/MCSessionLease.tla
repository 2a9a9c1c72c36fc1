--------------------------- MODULE MCSessionLease ---------------------------
(* Instances of SessionLease for TLC.                                      *)
EXTENDS SessionLease, TLC

Symmetry == Permutations(Attempts)
=============================================================================
