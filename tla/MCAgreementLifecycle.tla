------------------------ MODULE MCAgreementLifecycle ------------------------
(* TLC instance of AgreementLifecycle. *)
EXTENDS AgreementLifecycle, TLC

MCSent ==
  {[status |-> "ACTIVE", expiry |-> 0, renewal |-> 0],
   [status |-> "PENDING", expiry |-> 1, renewal |-> NoDate]}

Symmetry == Permutations(Client)
=============================================================================
