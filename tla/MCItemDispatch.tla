--------------------------- MODULE MCItemDispatch ---------------------------
(***************************************************************************)
(* ItemDispatch on four items, a limit of two handlers and two triggers in *)
(* flight: enough for a token to be lost, for one to find an empty queue,  *)
(* and for two to be delivered after one check each.                       *)
(***************************************************************************)
EXTENDS ItemDispatch

CONSTANTS i1, i2, i3, i4

MCItems == {i1, i2, i3, i4}
=============================================================================
