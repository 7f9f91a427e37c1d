------------------------- MODULE MCConsumableStock -------------------------
(* ConsumableStock on small sets. *)
EXTENDS ConsumableStock, TLC

Symmetry == Permutations(Issue) \cup Permutations(Item) \cup Permutations(Handler)
=============================================================================
