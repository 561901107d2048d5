------------------------------ MODULE MCPaging ------------------------------
(* Instances of Paging for TLC. *)
EXTENDS Paging
=============================================================================
