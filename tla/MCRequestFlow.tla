--------------------------- MODULE MCRequestFlow ---------------------------
(***************************************************************************)
(* RequestFlow on a request with an errback, and one without that takes    *)
(* any status.                                                             *)
(***************************************************************************)
EXTENDS RequestFlow, TLC

CONSTANTS r1, r2

MCMaxRetryTimes == (r1 :> 2) @@ (r2 :> 1)
=============================================================================
