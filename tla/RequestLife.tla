---------------------------- MODULE RequestLife ----------------------------
(***************************************************************************)
(* What the program promises of a single request, however its signals are  *)
(* delivered and whatever fails: it is downloaded, answered, shown to the  *)
(* spider once, and over. It can be begun anew only while the spider has   *)
(* not heard of it, within its budget; one that has an errback is over     *)
(* only when the spider has heard of it, or the program has said why not;  *)
(* and what is over stays so. RequestFlow implements it.                   *)
(***************************************************************************)
EXTENDS Integers

CONSTANTS Requests, HasErrback,
          MaxAnew    \* how often each request may be begun anew

VARIABLES stage,     \* of each request
          fetches,   \* its downloads
          anew,      \* how often it has been begun anew
          heard,     \* the calls of its callback and errback
          told       \* why it has ended without a success

vars == <<stage, fetches, anew, heard, told>>

\* "due": to be downloaded. "answered": there is a response or an error. "after": the
\* spider has been asked, and what it has answered is under way.
Stages == {"due", "answered", "after", "over"}

Init ==
  /\ stage = [r \in Requests |-> "due"]
  /\ fetches = [r \in Requests |-> 0]
  /\ anew = [r \in Requests |-> 0]
  /\ heard = [r \in Requests |-> <<>>]
  /\ told = [r \in Requests |-> {}]

Passes(r, from, to) ==
  /\ stage[r] \in from
  /\ stage' = [stage EXCEPT ![r] = to]

Tells(r, what) == told' = [told EXCEPT ![r] = @ \cup {what}]

Fetch(r) ==
  /\ Passes(r, {"due"}, "answered")
  /\ fetches' = [fetches EXCEPT ![r] = @ + 1]
  /\ UNCHANGED <<anew, heard, told>>

\* A middleware answers in the downloader's place.
AnswerEarly(r) ==
  /\ Passes(r, {"due"}, "answered")
  /\ UNCHANGED <<fetches, anew, heard, told>>

BeginAnew(r) ==
  /\ Passes(r, {"due", "answered"}, "due")
  /\ anew[r] < MaxAnew[r]
  /\ anew' = [anew EXCEPT ![r] = @ + 1]
  /\ UNCHANGED <<fetches, heard, told>>

Filter(r) ==
  /\ Passes(r, {"due"}, "over")
  /\ Tells(r, "filtered")
  /\ UNCHANGED <<fetches, anew, heard>>

Hear(r) ==
  /\ \E to \in {"after", "over"} : Passes(r, {"answered"}, to)
  /\ \E who \in {"callback"} \cup (IF r \in HasErrback THEN {"errback"} ELSE {}) :
       heard' = [heard EXCEPT ![r] = <<who>>]
  /\ UNCHANGED <<fetches, anew, told>>

\* An error of a request without an errback.
PassOver(r) ==
  /\ r \notin HasErrback
  /\ \E to \in {"after", "over"} : Passes(r, {"answered"}, to)
  /\ UNCHANGED <<fetches, anew, heard, told>>

Fail(r) ==
  /\ Passes(r, {"answered", "after"}, "over")
  /\ Tells(r, "unhandled")
  /\ UNCHANGED <<fetches, anew, heard>>

End(r) ==
  /\ Passes(r, {"after"}, "over")
  /\ UNCHANGED <<fetches, anew, heard, told>>

Next ==
  \E r \in Requests :
    \/ Fetch(r) \/ AnswerEarly(r) \/ BeginAnew(r) \/ Filter(r)
    \/ Hear(r) \/ PassOver(r) \/ Fail(r) \/ End(r)

Spec == Init /\ [][Next]_vars
=============================================================================
