------------------------------ MODULE MCEngine ------------------------------
(***************************************************************************)
(* Engine on two pages: for MCEngine.cfg and MCEngineIdle.cfg the first    *)
(* yields the second and an item, for MCEngineStop.cfg the second only.    *)
(***************************************************************************)
EXTENDS Engine, TLC

CONSTANTS r1, r2, i1

MCFinds == (r1 :> {r2, i1}) @@ (r2 :> {})
MCFindsPage == (r1 :> {r2}) @@ (r2 :> {})
=============================================================================
