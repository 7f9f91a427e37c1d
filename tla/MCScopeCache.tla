---------------------------- MODULE MCScopeCache ----------------------------
(***************************************************************************)
(* An instance of ScopeCache for TLC.                                      *)
(***************************************************************************)
EXTENDS ScopeCache, TLC

CONSTANT u1

OneOwner == [r \in Role |-> u1]
Symmetric == Permutations(Request)
=============================================================================
