-------------------------- MODULE MCAccessoryStock --------------------------
(* AccessoryStock on small sets. *)
EXTENDS AccessoryStock, TLC

Symmetry == Permutations(User) \cup Permutations(Row) \cup Permutations(Handler)
=============================================================================
