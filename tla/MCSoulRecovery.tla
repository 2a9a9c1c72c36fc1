--------------------------- MODULE MCSoulRecovery ---------------------------
(* Small instances of SoulRecovery for TLC. *)
EXTENDS SoulRecovery, TLC

Symmetry == Permutations(Launchers)
=============================================================================
