--------------------------- MODULE MCRequestSlots ---------------------------
(***************************************************************************)
(* RequestSlots on two domains: "a" with a limit of one download and a     *)
(* delay, "b" with a limit of two and none.                                *)
(***************************************************************************)
EXTENDS RequestSlots, TLC

CONSTANTS a1, a2, b1, a, b

MCRequests == {a1, a2, b1}
MCDomains == {a, b}
MCDomainOf == (a1 :> a) @@ (a2 :> a) @@ (b1 :> b)
MCConcurrency == (a :> 1) @@ (b :> 2)
MCDelay == (a :> 2) @@ (b :> 0)
MCQueueSize == (a :> 2) @@ (b :> 1)
=============================================================================
