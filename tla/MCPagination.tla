------------------------------ MODULE MCPagination -----------------------------
(* The Graph client for TLC: a page loop and a POST behind one limiter. *)
EXTENDS Pagination

CONSTANTS g, p
=============================================================================
