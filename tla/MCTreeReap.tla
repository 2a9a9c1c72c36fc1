----------------------------- MODULE MCTreeReap -----------------------------
(* Instances of TreeReap for TLC.                                          *)
EXTENDS TreeReap
=============================================================================
