------------------------------ MODULE MCPaging ------------------------------
(* Paging by itself, with one process. *)
EXTENDS Paging

Spec == PagingSpec
=============================================================================
