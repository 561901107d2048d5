------------------------------ MODULE MCFiling ------------------------------
(* Instances of Filing for TLC: who sends the mails.                        *)
EXTENDS Filing, TLC

(* A sender is one of the users: with a single user, mails to oneself. *)
MCInternal == [e \in Emails |-> CHOOSE u \in Users : TRUE]

(* Bound: folders are created before the first mail is delivered, and a     *)
(* third one only without mails.                                            *)
FoldersFirst ==
  used = Folders \/ (\E c \in Creators : creating[c].step = "counted")
    => rows = {} /\ disposed = {}

Symmetry == Permutations(Filers) \cup Permutations(Folders) \cup Permutations(Names)
=============================================================================
