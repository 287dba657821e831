------------------------------- MODULE Crawl -------------------------------
(***************************************************************************)
(* What the engine promises of a crawl, whatever its goroutines do: it     *)
(* searches the graph of pages from the starts, each request goes once     *)
(* from the scheduler through the downloader to its callback, what is      *)
(* found next is on a page that has been parsed, and once a user has asked *)
(* it to stop no start is added and at most one request more is taken from *)
(* the scheduler. Engine implements it.                                    *)
(***************************************************************************)
EXTENDS Integers

CONSTANTS Requests, Items, Starts,
          Finds     \* [Requests -> SUBSET (Requests \cup Items)]

VARIABLES phase,    \* how far each request is
          saved,    \* the items handed over
          stopped,
          late      \* requests taken although stopped

vars == <<phase, saved, stopped, late>>

\* "found": on its way to the scheduler. "taken": up to the end of the download.
Phases == {"unknown", "found", "waiting", "taken", "fetched", "parsed"}

Init ==
  /\ phase = [r \in Requests |-> "unknown"]
  /\ saved = {} /\ stopped = FALSE /\ late = 0

Becomes(r, from, to) ==
  /\ phase[r] = from
  /\ phase' = [phase EXCEPT ![r] = to]

FindStart(r) ==
  /\ r \in Starts
  /\ ~stopped
  /\ Becomes(r, "unknown", "found")
  /\ UNCHANGED <<saved, stopped, late>>

FindRequest(p, r) ==
  /\ phase[p] = "parsed"
  /\ r \in Finds[p]
  /\ Becomes(r, "unknown", "found")
  /\ UNCHANGED <<saved, stopped, late>>

FindItem(p, i) ==
  /\ phase[p] = "parsed"
  /\ i \in Finds[p]
  /\ saved' = saved \cup {i}
  /\ UNCHANGED <<phase, stopped, late>>

Schedule(r) == Becomes(r, "found", "waiting") /\ UNCHANGED <<saved, stopped, late>>

Take(r) ==
  /\ Becomes(r, "waiting", "taken")
  /\ stopped => late = 0
  /\ late' = IF stopped THEN late + 1 ELSE late
  /\ UNCHANGED <<saved, stopped>>

Fetch(r) == Becomes(r, "taken", "fetched") /\ UNCHANGED <<saved, stopped, late>>

Parse(r) == Becomes(r, "fetched", "parsed") /\ UNCHANGED <<saved, stopped, late>>

Stop == stopped' = TRUE /\ UNCHANGED <<phase, saved, late>>

Next ==
  \/ Stop
  \/ \E r \in Requests :
       \/ FindStart(r) \/ Schedule(r) \/ Take(r) \/ Fetch(r) \/ Parse(r)
       \/ \E p \in Requests : FindRequest(p, r)
  \/ \E p \in Requests, i \in Items : FindItem(p, i)

Spec == Init /\ [][Next]_vars
=============================================================================
