----------------------------- MODULE MCMailbox -----------------------------
(* An instance of Mailbox for TLC: u1 may send m1 to himself, the other     *)
(* mails come from outside.                                                 *)
EXTENDS Mailbox, TLC

CONSTANTS u1, m1

MCMixedSenders == [e \in Emails |-> IF e = m1 THEN u1 ELSE Nobody]

Symmetry == Permutations(Trashers)
=============================================================================
