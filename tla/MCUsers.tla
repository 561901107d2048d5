------------------------------- MODULE MCUsers -------------------------------
(* The instance of Users for TLC. *)
EXTENDS Users, TLC

Symmetry ==
  Permutations(Ids) \cup Permutations(Addresses) \cup Permutations(Values)
    \cup Permutations(Browsers) \cup Permutations(Requests)
=============================================================================
