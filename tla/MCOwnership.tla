---------------------------- MODULE MCOwnership ----------------------------
(* Small instances of Ownership for TLC.                                   *)
EXTENDS Ownership, TLC

(* Operations, windows and session ids are interchangeable.                *)
Symmetry == Permutations(Keys) \cup Permutations(Ops) \cup Permutations(Windows)

=============================================================================
