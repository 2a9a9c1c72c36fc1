--------------------------- MODULE MCCreateDedupe ---------------------------
(***************************************************************************)
(* CreateDedupe for TLC.  No action tells two attempts or two request ids  *)
(* apart.                                                                  *)
(***************************************************************************)
EXTENDS CreateDedupe, TLC

AnyFlag == BOOLEAN

InteractiveOnly == {FALSE}

Symmetry == Permutations(Attempts) \cup Permutations(RequestIds)

=============================================================================
