------------------------------ MODULE MCDrafts ------------------------------
(* Instances of Drafts for TLC.                                             *)
EXTENDS Drafts, TLC

Symmetry ==
  Permutations(Ids) \cup Permutations(Senders) \cup Permutations(Creators)
=============================================================================
