----------------------------- MODULE MCServices -----------------------------
(* The instance of Services for TLC: the longest path by HTTP, a list, and  *)
(* a mail from Postfix; the paths of the other requests are parts of them.  *)
EXTENDS Services

MCKinds == {"list", "inFolder", "incoming"}
=============================================================================
