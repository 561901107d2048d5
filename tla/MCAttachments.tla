--------------------------- MODULE MCAttachments ---------------------------
(* Instances of Attachments for TLC.                                        *)
EXTENDS Downloads, TLC

Symmetry ==
  Permutations(Files) \cup Permutations(Names)
    \cup Permutations(Uploaders) \cup Permutations(Deleters)
=============================================================================
