-------------------------- MODULE MCSessionRefresh --------------------------
(* SessionRefresh on small sets. *)
EXTENDS SessionRefresh, TLC

Symmetry == Permutations(Tab)
=============================================================================
