------------------------------ MODULE WorkPool ------------------------------
(***************************************************************************)
(* What a slot of the engine promises: work waits, a handler takes it up,  *)
(* the handler ends, and the handlers under way in one lane never exceed   *)
(* the lane's capacity. ItemDispatch (one lane of items) and RequestSlots  *)
(* (one lane per domain) implement it.                                     *)
(***************************************************************************)
EXTENDS Integers

CONSTANTS Work,     \* what is submitted: items, or requests
          Lane,     \* function from Work: what a capacity is counted over
          Capacity  \* function from the lanes to Int: <= 0 means no limit

VARIABLES waiting,  \* the work submitted and not taken up
          handlers  \* function from the lanes: the handlers under way

vars == <<waiting, handlers>>

HasRoom(l) == Capacity[l] > 0 => handlers[l] < Capacity[l]

Init == waiting = {} /\ handlers = [l \in DOMAIN Capacity |-> 0]

\* Work is handed over for the first time or again: a retried request is the same
\* request, and may come back before the handler that failed on it has ended.
Submit(w) ==
  /\ w \notin waiting
  /\ waiting' = waiting \cup {w}
  /\ UNCHANGED handlers

Begin(w) ==
  /\ w \in waiting
  /\ HasRoom(Lane[w])
  /\ waiting' = waiting \ {w}
  /\ handlers' = [handlers EXCEPT ![Lane[w]] = @ + 1]

End(l) ==
  /\ handlers[l] > 0
  /\ handlers' = [handlers EXCEPT ![l] = @ - 1]
  /\ UNCHANGED waiting

Next ==
  \/ \E w \in Work : Submit(w) \/ Begin(w)
  \/ \E l \in DOMAIN Capacity : End(l)

Spec == Init /\ [][Next]_vars
=============================================================================
