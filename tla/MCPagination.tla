---------------------------- MODULE MCPagination ----------------------------
(***************************************************************************)
(* TLC instance of Pagination.                                             *)
(***************************************************************************)
EXTENDS Pagination
=============================================================================
