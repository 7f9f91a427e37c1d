---------------------------- MODULE MCAssetCustody ----------------------------
(* AssetCustody on small sets. *)
EXTENDS AssetCustody, TLC

Symmetry == Permutations(User) \cup Permutations(Handler) \cup Permutations(Request)
=============================================================================
