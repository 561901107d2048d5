---------------------------- MODULE MCSpamFilter ----------------------------
(* The instance of SpamFilter for TLC: one user, who may block himself.     *)
EXTENDS SpamFilter

CONSTANTS u1

MCSenderOf == [e \in Emails |-> u1]
=============================================================================
