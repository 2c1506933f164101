---------------------------- MODULE MCPagination ----------------------------
(* Three-bit unsigned arguments (Modulus = 2^3) and an index of up to   *)
(* four ids drawn from five.                                             *)
EXTENDS Pagination, TLC

CONSTANTS x1, x2, x3, x4, x5

MCIdVal == {x1, x2, x3, x4, x5}
=============================================================================
