-------------------------- MODULE MCSignalManager --------------------------
(***************************************************************************)
(* SignalManager on three signals: "page" with two receivers of one index  *)
(* and one of a larger index, "late" with one receiver, and "closed",      *)
(* whose receiver closes the engine.                                       *)
(***************************************************************************)
EXTENDS SignalManager, TLC

CONSTANTS page, late, closed, r1, r2, r3

MCSignals == {page, late, closed}
MCReceivers == {r1, r2, r3}
MCAccepts == (page :> {r1, r2, r3}) @@ (late :> {r1}) @@ (closed :> {r3})
MCIndex == (r1 :> -1) @@ (r2 :> -1) @@ (r3 :> 500)
=============================================================================
