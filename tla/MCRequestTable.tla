--------------------------- MODULE MCRequestTable ---------------------------
(***************************************************************************)
(* RequestTable with two programs on one table.                            *)
(***************************************************************************)
EXTENDS RequestTable, TLC

CONSTANTS p1, p2
=============================================================================
