---------------------------- MODULE MCScheduler ----------------------------
(***************************************************************************)
(* Scheduler on two requests of one fingerprint and a third of the same    *)
(* one that the spider exempts from the filter. The first is retried once, *)
(* at a lower priority, the second never, the third twice, at a higher one.*)
(***************************************************************************)
EXTENDS Scheduler, TLC

CONSTANTS a1, a2, c

MCRequests == {a1, a2, c}
MCFingerprint == (a1 :> "a") @@ (a2 :> "a") @@ (c :> "a")
MCPriorityAdjust == (a1 :> -1) @@ (a2 :> 0) @@ (c :> 1)
MCMaxRetryTimes == (a1 :> 1) @@ (a2 :> 0) @@ (c :> 2)
MCPriority == (a1 :> 0) @@ (a2 :> 1) @@ (c :> 0)
=============================================================================
