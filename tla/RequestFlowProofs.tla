------------------------- MODULE RequestFlowProofs -------------------------
(***************************************************************************)
(* Proofs about RequestFlow, for any requests, statuses they take, chains  *)
(* of middlewares and numbers of retries.                                  *)
(***************************************************************************)
EXTENDS RequestFlow, TLAPS

Allowed(r) == retryTimes[r] + returns[r]

SignalOK(s) ==
  LET r == s.request IN
  /\ r \notin scheduled /\ r \notin slotted
  /\ s.type \notin Late => called[r] = <<>>
  /\ s.type \in Late /\ r \in HasErrback => called[r] # <<>>
  /\ s.response = "nil" =>
       s.type \in OfRequest \cup {"RequestErrback"} \/ called[r] = <<"errback">>
  /\ s.type = "RequestErrback" /\ ErrorGoesOn(s) => s.response # "nil"
  /\ s.type = "DownloaderError" => s.error # "none"
  /\ s.type \in BeforeFetch => fetches[r] <= Allowed(r)

\* A request is at one place only.
OnePlace ==
  /\ scheduled \cap slotted = {}
  /\ \A s, t \in signals : s.request = t.request => s = t

StoredOK ==
  \A r \in scheduled \cup slotted : called[r] = <<>> /\ fetches[r] <= Allowed(r)

RequestOK(r) ==
  /\ called[r] \in {<<>>, <<"callback">>, <<"errback">>}
  /\ fetches[r] <= 1 + Allowed(r)

IInv ==
  /\ TypeOK /\ OnePlace /\ StoredOK /\ NothingVanishes
  /\ \A s \in signals : SignalOK(s)
  /\ \A r \in Requests : RequestOK(r)

-----------------------------------------------------------------------------
\* What a step of r's way leaves alone.
OthersStay(r) ==
  \A q \in Requests \ {r} :
    /\ called'[q] = called[q] /\ fetches'[q] = fetches[q] /\ told'[q] = told[q]
    /\ retryTimes'[q] = retryTimes[q] /\ returns'[q] = returns[q]

\* A handler that has emitted one signal of its own request.
LEMMA Moves ==
  ASSUME IInv, TypeOK', NEW s \in signals, NEW n \in Signal, n.request = s.request,
         Emits(s, {n}), UNCHANGED <<scheduled, slotted>>,
         OthersStay(s.request), SignalOK(n)', RequestOK(s.request)'
  PROVE  IInv'
<1> DEFINE r == s.request
<1> USE DEF IInv, Emits
<1>1. s \in Signal /\ r \in Requests
  BY DEF TypeOK, Signal
<1>2. \A t \in signals' : t = n \/ (t \in signals /\ t.request \in Requests \ {r})
  BY <1>1 DEF OnePlace, TypeOK, Signal
<1>3. OnePlace'
  BY <1>2 DEF OnePlace
<1>4. \A t \in signals' : SignalOK(t)'
  BY <1>2 DEF SignalOK, ErrorGoesOn, OthersStay, Allowed
<1>5. \A q \in Requests : RequestOK(q)'
  BY <1>1 DEF RequestOK, OthersStay, Allowed
<1>6. r \notin scheduled \cup slotted
  BY DEF SignalOK
<1>7. scheduled \subseteq Requests /\ slotted \subseteq Requests
  BY DEF TypeOK
<1>8. StoredOK'
  BY <1>6, <1>7 DEF StoredOK, OthersStay, Allowed
<1>9. NothingVanishes'
  <2> SUFFICES ASSUME NEW q \in HasErrback, Settled(q)'
               PROVE  called'[q] # <<>> \/ told'[q] \cap {"filtered", "unhandled"} # {}
    BY DEF NothingVanishes
  <2>1. q \in Requests /\ q # r
    BY FlowAssumption DEF Settled
  <2>2. Settled(q)
    BY <2>1 DEF Settled
  <2> QED
    BY <2>1, <2>2 DEF NothingVanishes, OthersStay
<1> QED
  BY <1>3, <1>4, <1>5, <1>8, <1>9

\* A handler that has emitted none: the request goes into a store, or comes to its end.
LEMMA Leaves ==
  ASSUME IInv, TypeOK', NEW s \in signals, Emits(s, {}),
         NEW A \in SUBSET {s.request}, NEW B \in SUBSET {s.request}, A \cap B = {},
         scheduled' = scheduled \cup A, slotted' = slotted \cup B,
         OthersStay(s.request), RequestOK(s.request)',
         s.request \in A \cup B =>
           called'[s.request] = <<>> /\ fetches'[s.request] <= Allowed(s.request)',
         \/ s.request \in A \cup B \/ s.request \notin HasErrback
         \/ called'[s.request] # <<>> \/ told'[s.request] \cap {"filtered", "unhandled"} # {}
  PROVE  IInv'
<1> DEFINE r == s.request
<1> USE DEF IInv, Emits
<1>1. s \in Signal /\ r \in Requests
  BY DEF TypeOK, Signal
<1>2. \A t \in signals' : t \in signals /\ t.request \in Requests \ {r}
  BY <1>1 DEF OnePlace, TypeOK, Signal
<1>3. r \notin scheduled /\ r \notin slotted
  BY DEF SignalOK
<1>4. OnePlace'
  BY <1>2, <1>3 DEF OnePlace
<1>5. \A t \in signals' : SignalOK(t)'
  BY <1>2 DEF SignalOK, ErrorGoesOn, OthersStay, Allowed
<1>6. \A q \in Requests : RequestOK(q)'
  BY <1>1 DEF RequestOK, OthersStay, Allowed
<1>7. scheduled \subseteq Requests /\ slotted \subseteq Requests
  BY DEF TypeOK
<1>8. StoredOK'
  BY <1>3, <1>7 DEF StoredOK, OthersStay, Allowed
<1>9. NothingVanishes'
  <2> SUFFICES ASSUME NEW q \in HasErrback, Settled(q)'
               PROVE  called'[q] # <<>> \/ told'[q] \cap {"filtered", "unhandled"} # {}
    BY DEF NothingVanishes
  <2>1. q \in Requests
    BY FlowAssumption
  <2>2. CASE q = r
    BY <2>2 DEF Settled
  <2>3. CASE q # r
    <3>1. Settled(q)
      BY <2>3 DEF Settled
    <3> QED
      BY <2>1, <2>3, <3>1 DEF NothingVanishes, OthersStay
  <2> QED
    BY <2>2, <2>3
<1> QED
  BY <1>4, <1>5, <1>6, <1>8, <1>9

-----------------------------------------------------------------------------
\* The index that a new signal carries.
LEMMA LastIndex == Last \in -1..Last
BY FlowAssumption DEF Last

\* The fields of a signal just made.
LEMMA SigFields ==
  ASSUME NEW t \in NeedsResponse \cup TakesAny \cup OfRequest, NEW r \in Requests,
         NEW resp \in Statuses \cup {"nil"}
  PROVE  /\ Sig(t, r, resp) \in Signal
         /\ Sig(t, r, resp).type = t /\ Sig(t, r, resp).request = r
         /\ Sig(t, r, resp).response = resp /\ Sig(t, r, resp).sender = "engine"
BY LastIndex DEF Sig, Signal, Senders

\* The signal at hand.
LEMMA Given ==
  ASSUME TypeOK, NEW s \in signals
  PROVE  /\ s \in Signal /\ s.request \in Requests /\ s.response \in Statuses \cup {"nil"}
         /\ s.type \in NeedsResponse \cup TakesAny \cup OfRequest
         /\ s.error \in {"none", "timeout", "other"} /\ s.sender \in Senders
BY DEF TypeOK, Signal

LEMMA InitInv == Init => IInv
<1> SUFFICES ASSUME Init PROVE IInv
  OBVIOUS
<1>1. \A r \in Requests :
        /\ Sig("RequestLeftEngine", r, "nil") \in Signal
        /\ Sig("RequestLeftEngine", r, "nil").request = r
        /\ Sig("RequestLeftEngine", r, "nil").type = "RequestLeftEngine"
  BY SigFields DEF OfRequest
<1> USE FlowAssumption DEF Init
<1>2. \A s \in signals : s \in Signal /\ s.request \in Requests /\ s.type = "RequestLeftEngine"
  BY <1>1
<1>3. \A s \in signals : s = Sig("RequestLeftEngine", s.request, "nil")
  BY <1>1
<1>4. OnePlace
  BY <1>3 DEF OnePlace
<1>5. TypeOK
  <2>1. called \in [Requests -> Seq({"callback", "errback"})]
    OBVIOUS
  <2>2. told \in [Requests -> SUBSET {"filtered", "unhandled", "timeout"}]
    OBVIOUS
  <2>3. /\ retryTimes \in [Requests -> Nat] /\ \A r \in Requests : retryTimes[r] <= MaxRetryTimes[r]
        /\ returns \in [Requests -> 0..MaxReturns]
        /\ fetches \in [Requests -> Nat]
    OBVIOUS
  <2> QED
    BY <1>2, <2>1, <2>2, <2>3 DEF TypeOK
<1>6. \A s \in signals : SignalOK(s)
  BY <1>2 DEF SignalOK, Late, Allowed, OfRequest
<1>7. NothingVanishes
  <2>1. \A r \in Requests : ~Settled(r)
    BY <1>1 DEF Settled
  <2> QED
    BY <2>1 DEF NothingVanishes
<1>8. StoredOK /\ \A r \in Requests : RequestOK(r)
  BY DEF StoredOK, RequestOK, Allowed
<1> QED
  BY <1>4, <1>5, <1>6, <1>7, <1>8 DEF IInv

-----------------------------------------------------------------------------
(* What several handlers do.                                               *)

LEMMA DiesInv == ASSUME IInv, Dies PROVE IInv'
<1> USE DEF Dies, places, counters, observers, IInv
<1>1. TypeOK'
  BY DEF TypeOK
<1>2. OnePlace' /\ StoredOK' /\ NothingVanishes'
  BY DEF OnePlace, StoredOK, NothingVanishes, Settled, Allowed
<1>3. \A s \in signals' : SignalOK(s)'
  BY DEF SignalOK, ErrorGoesOn, Allowed
<1>4. \A r \in Requests : RequestOK(r)'
  BY DEF RequestOK, Allowed
<1> QED
  BY <1>1, <1>2, <1>3, <1>4

\* A handler that only emits.
LEMMA Passes ==
  ASSUME IInv, NEW s \in signals, NEW n \in Signal, n.request = s.request,
         Emits(s, {n}), UNCHANGED <<scheduled, slotted, counters, observers>>,
         fatal' \in BOOLEAN, SignalOK(n)
  PROVE  IInv'
<1> USE DEF counters, observers
<1>1. s.request \in Requests
  BY Given DEF IInv
<1>2. TypeOK'
  BY DEF IInv, TypeOK, Emits
<1>3. SignalOK(n)'
  BY DEF SignalOK, ErrorGoesOn, Allowed
<1>4. RequestOK(s.request)'
  BY <1>1 DEF IInv, RequestOK, Allowed
<1>5. OthersStay(s.request) /\ UNCHANGED <<scheduled, slotted>>
  BY DEF OthersStay
<1> QED
  BY <1>2, <1>3, <1>4, <1>5, Moves

LEMMA RetriedInv ==
  ASSUME IInv, NEW s \in signals, s.type \notin Late, Retried(s)
  PROVE  IInv'
<1> DEFINE r == s.request
<1> DEFINE n == Sig("RequestLeftEngine", s.request, "nil")
<1> USE DEF Retried, observers
<1>1. r \in Requests
  BY Given DEF IInv
<1>2. n \in Signal /\ n.type = "RequestLeftEngine" /\ n.request = r /\ n.response = "nil"
  BY <1>1, SigFields DEF OfRequest
<1>3. retryTimes[r] \in Nat /\ retryTimes[r] < MaxRetryTimes[r] /\ returns[r] \in Nat
      /\ fetches[r] \in Nat
  BY <1>1, FlowAssumption DEF CanRetry, IInv, TypeOK
<1>4. /\ retryTimes'[r] = retryTimes[r] + 1 /\ returns' = returns
      /\ fetches' = fetches /\ called' = called /\ told' = told
      /\ \A q \in Requests \ {r} : retryTimes'[q] = retryTimes[q]
  BY <1>1 DEF IInv, TypeOK
<1>5. TypeOK'
  <2>1. retryTimes' \in [Requests -> Nat] /\ \A q \in Requests : retryTimes'[q] <= MaxRetryTimes[q]
    <3>1. retryTimes[r] + 1 \in Nat /\ retryTimes[r] + 1 <= MaxRetryTimes[r]
      BY <1>1, <1>3, FlowAssumption
    <3> QED
      BY <1>1, <1>4, <3>1 DEF IInv, TypeOK
  <2>2. signals' \subseteq Signal /\ dontFilter' \subseteq Requests
    BY <1>1, <1>2 DEF IInv, TypeOK, Emits
  <2> QED
    BY <2>1, <2>2 DEF IInv, TypeOK
<1>6. called[r] = <<>> /\ fetches[r] <= 1 + Allowed(r) /\ r \notin scheduled /\ r \notin slotted
  BY <1>1 DEF IInv, SignalOK, RequestOK
<1>7. fetches'[r] <= Allowed(r)' /\ Allowed(r)' \in Int
  BY <1>3, <1>4, <1>6 DEF Allowed
<1>8. SignalOK(n)'
  BY <1>2, <1>4, <1>6, <1>7 DEF SignalOK, Late, OfRequest
<1>9. RequestOK(r)'
  BY <1>3, <1>4, <1>6, <1>7 DEF RequestOK
<1>10. OthersStay(r)
  BY <1>4 DEF OthersStay
<1> HIDE DEF n
<1> QED
  BY <1>2, <1>5, <1>8, <1>9, <1>10, Moves DEF n

LEMMA HandedBackInv ==
  ASSUME IInv, NEW s \in signals, s.type \notin Late, HandedBack(s)
  PROVE  IInv'
<1> DEFINE r == s.request
<1> DEFINE n == Sig("RequestLeftEngine", s.request, "nil")
<1> USE DEF HandedBack, observers
<1>1. r \in Requests
  BY Given DEF IInv
<1>2. n \in Signal /\ n.type = "RequestLeftEngine" /\ n.request = r /\ n.response = "nil"
  BY <1>1, SigFields DEF OfRequest
<1>3. retryTimes[r] \in Nat /\ returns[r] < MaxReturns /\ returns[r] \in Nat
      /\ fetches[r] \in Nat
  BY <1>1, FlowAssumption DEF IInv, TypeOK
<1>4. /\ returns'[r] = returns[r] + 1 /\ retryTimes' = retryTimes
      /\ fetches' = fetches /\ called' = called /\ told' = told
      /\ \A q \in Requests \ {r} : returns'[q] = returns[q]
  BY <1>1 DEF IInv, TypeOK
<1>5. TypeOK'
  <2>1. returns' \in [Requests -> 0..MaxReturns]
    <3>1. returns[r] + 1 \in 0..MaxReturns
      BY <1>3, FlowAssumption
    <3> QED
      BY <3>1 DEF IInv, TypeOK
  <2>2. signals' \subseteq Signal
    BY <1>2 DEF IInv, TypeOK, Emits
  <2> QED
    BY <2>1, <2>2 DEF IInv, TypeOK
<1>6. called[r] = <<>> /\ fetches[r] <= 1 + Allowed(r) /\ r \notin scheduled /\ r \notin slotted
  BY <1>1 DEF IInv, SignalOK, RequestOK
<1>7. fetches'[r] <= Allowed(r)' /\ Allowed(r)' \in Int
  BY <1>3, <1>4, <1>6 DEF Allowed
<1>8. SignalOK(n)'
  BY <1>2, <1>4, <1>6, <1>7 DEF SignalOK, Late, OfRequest
<1>9. RequestOK(r)'
  BY <1>3, <1>4, <1>6, <1>7 DEF RequestOK
<1>10. OthersStay(r)
  BY <1>4 DEF OthersStay
<1> HIDE DEF n
<1> QED
  BY <1>2, <1>5, <1>8, <1>9, <1>10, Moves DEF n

\* A handler after which nothing is under way, and the request is told of.
LEMMA EndsTold ==
  ASSUME IInv, NEW s \in signals, Emits(s, {}),
         UNCHANGED <<scheduled, slotted, counters, fatal, fetches, called>>,
         NEW what \in SUBSET {"filtered", "unhandled", "timeout"}, Tells(s.request, what),
         what \cap {"filtered", "unhandled"} # {}
  PROVE  IInv'
<1> USE DEF counters, Tells
<1>1. s.request \in Requests
  BY Given DEF IInv
<1>2. TypeOK'
  BY DEF IInv, TypeOK, Emits
<1>3. /\ told'[s.request] = told[s.request] \cup what
      /\ \A q \in Requests \ {s.request} : told'[q] = told[q]
  BY <1>1 DEF IInv, TypeOK
<1>4. RequestOK(s.request)'
  BY <1>1 DEF IInv, RequestOK, Allowed
<1>5. OthersStay(s.request)
  BY <1>3 DEF OthersStay
<1>6. scheduled' = scheduled \cup {} /\ slotted' = slotted \cup {}
  OBVIOUS
<1>7. told'[s.request] \cap {"filtered", "unhandled"} # {}
  BY <1>3
<1>8. {} \in SUBSET {s.request} /\ {} \cap {} = {} /\ s.request \notin {} \cup {}
  OBVIOUS
<1> QED
  BY <1>2, <1>4, <1>5, <1>6, <1>7, <1>8, Leaves

\* A handler after which nothing is under way, and the spider has heard of the request.
LEMMA EndsCalled ==
  ASSUME IInv, TypeOK', NEW s \in signals, Emits(s, {}), OthersStay(s.request),
         UNCHANGED <<scheduled, slotted>>, RequestOK(s.request)',
         called'[s.request] # <<>> \/ s.request \notin HasErrback
  PROVE  IInv'
<1>1. scheduled' = scheduled \cup {} /\ slotted' = slotted \cup {}
  OBVIOUS
<1>2. {} \in SUBSET {s.request} /\ {} \cap {} = {} /\ s.request \notin {} \cup {}
  OBVIOUS
<1> QED
  BY <1>1, <1>2, Leaves

-----------------------------------------------------------------------------
(* The handlers.                                                           *)

\* A signal that only changes its type on the way to the callback.
LEMMA PassesOnInv ==
  ASSUME IInv, NEW s \in signals, NEW t \in NeedsResponse \cup OfRequest,
         t # "DownloaderError", OnlyEmits(s, {Sig(t, s.request, s.response)}), s.type \notin Late,
         t \in BeforeFetch => s.type \in BeforeFetch,
         t \in NeedsResponse => s.response # "nil"
  PROVE  IInv'
<1> DEFINE n == Sig(t, s.request, s.response)
<1> USE DEF OnlyEmits
<1>1. /\ n \in Signal /\ n.type = t /\ n.request = s.request /\ n.response = s.response
  BY Given, SigFields DEF IInv
<1>2. SignalOK(n)
  BY <1>1 DEF IInv, SignalOK, Late, NeedsResponse, OfRequest, ErrorGoesOn
<1>3. Emits(s, {n}) /\ UNCHANGED <<scheduled, slotted, counters, observers>>
  OBVIOUS
<1>4. fatal' \in BOOLEAN
  BY DEF IInv, TypeOK
<1> HIDE DEF n
<1> QED
  BY <1>1, <1>2, <1>3, <1>4, Passes

\* A response that a middleware or the client has made.
LEMMA ResponseInv ==
  ASSUME IInv, TypeOK', NEW s \in signals, s.type \notin Late, NEW st \in Statuses,
         Emits(s, {Sig("ResponseLeftDownloader", s.request, st)}),
         UNCHANGED <<scheduled, slotted, counters, called, told>>,
         \A q \in Requests \ {s.request} : fetches'[q] = fetches[q],
         fetches'[s.request] <= 1 + Allowed(s.request)
  PROVE  IInv'
<1> DEFINE n == Sig("ResponseLeftDownloader", s.request, st)
<1> USE DEF counters
<1>1. s.request \in Requests
  BY Given DEF IInv
<1>2. n \in Signal /\ n.type = "ResponseLeftDownloader" /\ n.request = s.request
      /\ n.response = st
  BY <1>1, SigFields DEF NeedsResponse
<1>3. SignalOK(n)'
  BY <1>2 DEF IInv, SignalOK, Late, BeforeFetch, Statuses
<1>4. RequestOK(s.request)'
  BY <1>1 DEF IInv, RequestOK, Allowed
<1>5. OthersStay(s.request)
  BY DEF OthersStay
<1> HIDE DEF n
<1> QED
  BY <1>2, <1>3, <1>4, <1>5, Moves DEF n

\* An error on its way to ProcessError or to the errback.
LEMMA ErrorInv ==
  ASSUME IInv, TypeOK', NEW s \in signals, s.type \notin Late,
         NEW n \in Signal, n.request = s.request,
         n.type \in {"DownloaderError", "RequestErrback"},
         n.type = "RequestErrback" /\ n.sender = "process_spider_input" => n.response # "nil",
         n.type = "DownloaderError" => n.error # "none",
         Emits(s, {n}), UNCHANGED <<scheduled, slotted, counters, called, told>>,
         \A q \in Requests \ {s.request} : fetches'[q] = fetches[q],
         fetches'[s.request] <= 1 + Allowed(s.request)
  PROVE  IInv'
<1> USE DEF counters
<1>1. s.request \in Requests
  BY Given DEF IInv
<1>2. SignalOK(n)'
  BY DEF IInv, SignalOK, Late, BeforeFetch, OfRequest, ErrorGoesOn
<1>3. RequestOK(s.request)'
  BY <1>1 DEF IInv, RequestOK, Allowed
<1>4. OthersStay(s.request)
  BY DEF OthersStay
<1> QED
  BY <1>2, <1>3, <1>4, Moves

LEMMA RequestLeftEngineInv ==
  ASSUME IInv, NEW s \in signals, RequestLeftEngine(s) PROVE IInv'
<1> DEFINE r == s.request
<1> USE DEF RequestLeftEngine
<1>1. r \in Requests
  BY Given DEF IInv
<1>2. /\ called' = called /\ fetches' = fetches /\ retryTimes' = retryTimes
      /\ returns' = returns
  OBVIOUS
<1>3. RequestOK(r)'
  BY <1>1 DEF IInv, RequestOK, Allowed
<1>4. called[r] = <<>> /\ fetches[r] <= Allowed(r)
  BY DEF IInv, SignalOK, Late, BeforeFetch
<1>5. CASE Tells(r, {"filtered"}) /\ UNCHANGED <<scheduled, seen>>
  BY <1>5, EndsTold DEF counters
<1>6. CASE scheduled' = scheduled \cup {r} /\ UNCHANGED told
  <2>1. TypeOK'
    BY <1>1, <1>6 DEF IInv, TypeOK, Emits
  <2>2. OthersStay(r)
    BY <1>2, <1>6 DEF OthersStay
  <2>3. /\ called'[r] = <<>> /\ fetches'[r] <= Allowed(r)'
    BY <1>2, <1>4 DEF Allowed
  <2>4. {r} \in SUBSET {r} /\ {} \in SUBSET {r} /\ {r} \cap {} = {} /\ r \in {r} \cup {}
        /\ slotted' = slotted \cup {}
    OBVIOUS
  <2>5. Emits(s, {})
    OBVIOUS
  <2> HIDE DEF RequestLeftEngine
  <2> QED
    BY <1>3, <1>6, <2>1, <2>2, <2>3, <2>4, <2>5, Leaves
<1> QED
  BY <1>5, <1>6

LEMMA NextRequestInv ==
  ASSUME IInv, NEW r \in Requests, NextRequest(r) \/ PopRequest(r) PROVE IInv'
<1> USE DEF counters, observers, IInv
<1>1. PICK t \in {"RequestLeftScheduler", "RequestReachedDownloader"} :
        signals' = signals \cup {Sig(t, r, "nil")}
  BY DEF NextRequest, PopRequest
<1> DEFINE n == Sig(t, r, "nil")
<1>2. n \in Signal /\ n.type = t /\ n.request = r /\ n.response = "nil"
  BY SigFields DEF OfRequest
<1>3. UNCHANGED <<counters, fatal, observers>>
  BY DEF NextRequest, PopRequest
<1>4. /\ r \in scheduled \cup slotted /\ r \notin scheduled' \cup slotted'
      /\ scheduled' \subseteq scheduled /\ slotted' \subseteq slotted
      /\ \A q \in Requests \ {r} :
           /\ q \in scheduled' <=> q \in scheduled
           /\ q \in slotted' <=> q \in slotted
  BY DEF NextRequest, PopRequest, OnePlace
<1>5. TypeOK'
  BY <1>1, <1>2, <1>3, <1>4 DEF TypeOK
<1>6. \A s \in signals : s.request \in Requests \ {r}
  BY <1>4, Given DEF SignalOK
<1>7. OnePlace'
  BY <1>1, <1>2, <1>4, <1>6 DEF OnePlace
<1>8. StoredOK' /\ \A q \in Requests : RequestOK(q)'
  BY <1>3, <1>4 DEF StoredOK, RequestOK, Allowed
<1>9. called[r] = <<>> /\ fetches[r] <= Allowed(r)
  BY <1>4 DEF StoredOK
<1>10. SignalOK(n)'
  BY <1>2, <1>3, <1>4, <1>9 DEF SignalOK, Late, OfRequest, Allowed
<1>11. \A s \in signals : SignalOK(s)'
  BY <1>3, <1>4, <1>6 DEF SignalOK, ErrorGoesOn, Allowed
<1>12. NothingVanishes'
  <2> SUFFICES ASSUME NEW q \in HasErrback, Settled(q)'
               PROVE  called'[q] # <<>> \/ told'[q] \cap {"filtered", "unhandled"} # {}
    BY DEF NothingVanishes
  <2>1. q \in Requests /\ q # r
    BY <1>1, <1>2, FlowAssumption DEF Settled
  <2>2. q \notin scheduled' \cup slotted'
    BY DEF Settled
  <2>4. q \notin scheduled \cup slotted
    BY <1>4, <2>1, <2>2
  <2>3. \A s \in signals : s.request # q
    BY <1>1 DEF Settled
  <2> QED
    BY <1>3, <2>4, <2>3 DEF NothingVanishes, Settled
<1> HIDE DEF n
<1> QED
  BY <1>1, <1>5, <1>7, <1>8, <1>10, <1>11, <1>12 DEF n

LEMMA DownloaderMiddlewareInv ==
  ASSUME IInv, NEW s \in signals, RequestReachedDownloaderMiddleware(s) PROVE IInv'
<1> DEFINE r == s.request
<1> USE DEF RequestReachedDownloaderMiddleware
<1>1. r \in Requests /\ s.type \notin Late
  BY Given DEF IInv, Late
<1>2. fetches[r] <= Allowed(r) /\ called[r] = <<>> /\ fetches[r] <= 1 + Allowed(r)
  BY <1>1 DEF IInv, SignalOK, Late, BeforeFetch, RequestOK
<1>3. PICK answer \in ProcessRequest(s) :
       \/ /\ answer = "nil"
          /\ Emits(s, {})
          /\ slotted' = slotted \cup {r}
          /\ UNCHANGED <<scheduled, counters, fatal, observers>>
       \/ answer = "request" /\ HandedBack(s)
       \/ /\ answer = "response"
          /\ \E st \in Statuses : OnlyEmits(s, {Sig("ResponseLeftDownloader", r, st)})
       \/ /\ answer = "error"
          /\ OnlyEmits(s, {[Sig("DownloaderError", r, "nil") EXCEPT
                              !.sender = "process_request", !.error = "other"]})
       \/ answer = "invalid" /\ Dies
  OBVIOUS
<1> HIDE DEF RequestReachedDownloaderMiddleware
<1>4. CASE answer = "nil"
  <2> USE <1>3, <1>4 DEF counters, observers
  <2>1. TypeOK'
    BY <1>1 DEF IInv, TypeOK, Emits
  <2>2. OthersStay(r) /\ RequestOK(r)'
    BY <1>1 DEF OthersStay, IInv, RequestOK, Allowed
  <2>3. called'[r] = <<>> /\ fetches'[r] <= Allowed(r)'
    BY <1>2 DEF Allowed
  <2>4. {r} \in SUBSET {r} /\ {} \in SUBSET {r} /\ {} \cap {r} = {} /\ r \in {} \cup {r}
        /\ scheduled' = scheduled \cup {} /\ slotted' = slotted \cup {r} /\ Emits(s, {})
    OBVIOUS
  <2> QED
    BY <2>1, <2>2, <2>3, <2>4, Leaves
<1>5. CASE answer = "request"
  BY <1>1, <1>3, <1>5, HandedBackInv
<1>6. CASE answer = "response"
  <2>1. PICK st \in Statuses : OnlyEmits(s, {Sig("ResponseLeftDownloader", r, st)})
    BY <1>3, <1>6
  <2>2. TypeOK'
    BY <1>1, <2>1, SigFields DEF OnlyEmits, Emits, IInv, TypeOK, counters, observers,
      NeedsResponse
  <2>3. /\ Emits(s, {Sig("ResponseLeftDownloader", r, st)})
        /\ UNCHANGED <<scheduled, slotted, counters, called, told, fetches>>
    BY <2>1 DEF OnlyEmits, observers
  <2> QED
    BY <1>1, <1>2, <2>2, <2>3, ResponseInv
<1>7. CASE answer = "error"
  <2>1. PICK n : n = [Sig("DownloaderError", r, "nil") EXCEPT
                        !.sender = "process_request", !.error = "other"]
    OBVIOUS
  <2>2. n \in Signal /\ n.type = "DownloaderError" /\ n.request = r /\ n.error = "other"
    BY <1>1, <2>1, LastIndex DEF Sig, Signal, Senders, OfRequest
  <2>3. Emits(s, {n}) /\ UNCHANGED <<scheduled, slotted, counters, called, told, fetches, fatal>>
    BY <1>3, <1>7, <2>1 DEF OnlyEmits, observers
  <2>4. TypeOK'
    BY <2>2, <2>3 DEF Emits, IInv, TypeOK, counters
  <2> QED
    BY <1>1, <1>2, <2>2, <2>3, <2>4, ErrorInv
<1>8. CASE answer = "invalid"
  BY <1>3, <1>8, DiesInv
<1> QED
  BY <1>4, <1>5, <1>6, <1>7, <1>8 DEF ProcessRequest

LEMMA DownloaderInv ==
  ASSUME IInv, NEW s \in signals, RequestReachedDownloader(s) PROVE IInv'
<1> DEFINE r == s.request
<1> USE DEF RequestReachedDownloader
<1>1. r \in Requests /\ s.type \notin Late
  BY Given DEF IInv, Late
<1>2. fetches[r] <= Allowed(r) /\ fetches[r] \in Nat /\ Allowed(r) \in Int
  BY <1>1 DEF IInv, SignalOK, BeforeFetch, TypeOK, Allowed
<1>3. /\ fetches'[r] = fetches[r] + 1 /\ \A q \in Requests \ {r} : fetches'[q] = fetches[q]
      /\ fetches' \in [Requests -> Nat]
      /\ UNCHANGED <<scheduled, slotted, counters, fatal, called, told>>
  BY <1>1 DEF IInv, TypeOK
<1>4. fetches'[r] <= 1 + Allowed(r)
  BY <1>2, <1>3
<1>5. ASSUME NEW n \in Signal, Emits(s, {n}) PROVE TypeOK'
  BY <1>3, <1>5 DEF Emits, IInv, TypeOK, counters
<1>6. CASE \E e \in FetchErrors(r) : Emits(s, {e})
  <2>1. PICK n \in FetchErrors(r) : Emits(s, {n})
    BY <1>6
  <2>2. PICK e \in {"timeout", "other"} :
          n = [Sig("DownloaderError", r, "nil") EXCEPT !.sender = "downloader", !.error = e]
    BY DEF FetchErrors
  <2>3. n \in Signal /\ n.type = "DownloaderError" /\ n.request = r /\ n.error = e
    BY <1>1, <2>2, LastIndex DEF Sig, Signal, Senders, OfRequest
  <2>4. TypeOK'
    BY <1>5, <2>1, <2>3
  <2> QED
    BY <1>1, <1>3, <1>4, <2>1, <2>3, <2>4, ErrorInv
<1>7. CASE \E st \in Statuses : Emits(s, {Sig("ResponseLeftDownloader", r, st)})
  <2>1. PICK st \in Statuses : Emits(s, {Sig("ResponseLeftDownloader", r, st)})
    BY <1>7
  <2>2. Sig("ResponseLeftDownloader", r, st) \in Signal
    BY <1>1, SigFields DEF NeedsResponse
  <2>3. TypeOK'
    BY <1>5, <2>1, <2>2
  <2> QED
    BY <1>1, <1>3, <1>4, <2>1, <2>3, ResponseInv
<1> QED
  BY <1>6, <1>7

\* A handler that only emits an error.
LEMMA OnlyErrorInv ==
  ASSUME IInv, NEW s \in signals, s.type \notin Late,
         NEW n \in Signal, n.request = s.request,
         n.type \in {"DownloaderError", "RequestErrback"},
         n.type = "RequestErrback" /\ n.sender = "process_spider_input" => n.response # "nil",
         n.type = "DownloaderError" => n.error # "none",
         Emits(s, {n}), UNCHANGED <<scheduled, slotted, counters, fatal, observers>>
  PROVE  IInv'
<1> USE DEF observers
<1>1. s.request \in Requests
  BY Given DEF IInv
<1>2. fetches'[s.request] <= 1 + Allowed(s.request)
  BY <1>1 DEF IInv, RequestOK
<1>3. TypeOK'
  BY DEF Emits, IInv, TypeOK, counters
<1> QED
  BY <1>2, <1>3, ErrorInv

\* A handler that only emits a response.
LEMMA OnlyResponseInv ==
  ASSUME IInv, NEW s \in signals, s.type \notin Late, NEW st \in Statuses,
         OnlyEmits(s, {Sig("ResponseLeftDownloader", s.request, st)})
  PROVE  IInv'
<1> USE DEF observers, OnlyEmits
<1>1. s.request \in Requests
  BY Given DEF IInv
<1>2. fetches'[s.request] <= 1 + Allowed(s.request)
  BY <1>1 DEF IInv, RequestOK
<1>3. Sig("ResponseLeftDownloader", s.request, st) \in Signal
  BY <1>1, SigFields DEF NeedsResponse
<1>4. TypeOK'
  BY <1>3 DEF Emits, IInv, TypeOK, counters
<1> QED
  BY <1>2, <1>4, ResponseInv

LEMMA ResponseLeftDownloaderInv ==
  ASSUME IInv, NEW s \in signals, ResponseLeftDownloader(s) PROVE IInv'
<1> DEFINE r == s.request
<1>1. r \in Requests /\ s.response \in Statuses \cup {"nil"}
  BY Given DEF IInv
<1>2. s.type = "ResponseLeftDownloader" /\ s.type \notin Late /\ s.response # "nil"
  <2>1. s.type = "ResponseLeftDownloader"
    BY DEF ResponseLeftDownloader
  <2> QED
    BY <2>1 DEF IInv, SignalOK, Late, OfRequest
<1>3. PICK answer \in ProcessResponse(s) :
       \/ answer = "retry" /\ Retried(s)
       \/ answer = "request" /\ HandedBack(s)
       \/ /\ answer = "response"
          /\ OnlyEmits(s, {Sig("ResponseLeftDownloaderMiddleware", r, s.response)})
       \/ /\ answer = "error"
          /\ OnlyEmits(s, {[Sig("RequestErrback", r, s.response) EXCEPT
                              !.sender = "process_response"]})
       \/ answer = "invalid" /\ Dies
  BY DEF ResponseLeftDownloader
<1>4. CASE Retried(s) \/ HandedBack(s) \/ Dies
  BY <1>2, <1>4, RetriedInv, HandedBackInv, DiesInv
<1>5. CASE OnlyEmits(s, {Sig("ResponseLeftDownloaderMiddleware", r, s.response)})
  <2>1. /\ "ResponseLeftDownloaderMiddleware" \in NeedsResponse \cup OfRequest
        /\ "ResponseLeftDownloaderMiddleware" \notin BeforeFetch
    BY DEF NeedsResponse, BeforeFetch
  <2> QED
    BY <1>2, <1>5, <2>1, PassesOnInv
<1>6. CASE OnlyEmits(s, {[Sig("RequestErrback", r, s.response) EXCEPT
                            !.sender = "process_response"]})
  <2>1. PICK n : n = [Sig("RequestErrback", r, s.response) EXCEPT !.sender = "process_response"]
    OBVIOUS
  <2>2. /\ n \in Signal /\ n.type = "RequestErrback" /\ n.request = r
        /\ n.sender = "process_response"
    BY <1>1, <2>1, LastIndex DEF Sig, Signal, Senders, TakesAny
  <2>3. Emits(s, {n}) /\ UNCHANGED <<scheduled, slotted, counters, fatal, observers>>
    BY <1>6, <2>1 DEF OnlyEmits
  <2> QED
    BY <1>2, <2>2, <2>3, OnlyErrorInv
<1> QED
  BY <1>3, <1>4, <1>5, <1>6

LEMMA NobodyTakesInv ==
  ASSUME IInv, NEW s \in signals, s.type = "DownloaderError", NobodyTakes(s) PROVE IInv'
<1> DEFINE r == s.request
<1>1. /\ r \in Requests /\ s.error \in {"none", "timeout", "other"}
      /\ s.type \notin Late /\ s.error # "none"
  BY Given DEF IInv, Late, SignalOK
<1>2. CASE s.sender = "process_request"
  <2>1. PICK n : n = [Sig("RequestErrback", r, "nil") EXCEPT !.sender = "process_error"]
    OBVIOUS
  <2>2. /\ n \in Signal /\ n.type = "RequestErrback" /\ n.request = r
        /\ n.sender = "process_error"
    BY <1>1, <2>1, LastIndex DEF Sig, Signal, Senders, TakesAny
  <2>3. Emits(s, {n}) /\ UNCHANGED <<scheduled, slotted, counters, fatal, observers>>
    BY <1>2, <2>1 DEF NobodyTakes, observers
  <2> QED
    BY <1>1, <2>2, <2>3, OnlyErrorInv
<1>3. CASE s.sender # "process_request"
  <2>1. Emits(s, {}) /\ Tells(r, {"unhandled"} \cup ({s.error} \ {"other"}))
        /\ UNCHANGED <<scheduled, slotted, counters, fatal, fetches, called>>
    BY <1>3 DEF NobodyTakes
  <2>2. {"unhandled"} \cup ({s.error} \ {"other"}) \in SUBSET {"filtered", "unhandled", "timeout"}
    BY <1>1, <1>3
  <2>3. ({"unhandled"} \cup ({s.error} \ {"other"})) \cap {"filtered", "unhandled"} # {}
    OBVIOUS
  <2> QED
    BY <2>1, <2>2, <2>3, EndsTold
<1> QED
  BY <1>2, <1>3

LEMMA DownloaderErrorInv ==
  ASSUME IInv, NEW s \in signals, DownloaderError(s) PROVE IInv'
<1>1. s.type = "DownloaderError" /\ s.type \notin Late
  BY DEF DownloaderError, Late
<1>2. PICK answer \in ProcessError(s) :
       \/ answer = "retry" /\ Retried(s)
       \/ answer = "request" /\ HandedBack(s)
       \/ /\ answer = "response"
          /\ \E st \in Statuses :
               OnlyEmits(s, {Sig("ResponseLeftDownloader", s.request, st)})
       \/ answer = "nil" /\ NobodyTakes(s)
       \/ /\ answer = "error"
          /\ Unhandled(s)
          /\ UNCHANGED <<scheduled, slotted, counters, fatal, fetches, called>>
       \/ answer = "invalid" /\ Dies
  BY DEF DownloaderError
<1>3. CASE Retried(s) \/ HandedBack(s) \/ Dies \/ NobodyTakes(s)
  BY <1>1, <1>3, RetriedInv, HandedBackInv, DiesInv, NobodyTakesInv
<1>4. CASE \E st \in Statuses : OnlyEmits(s, {Sig("ResponseLeftDownloader", s.request, st)})
  BY <1>1, <1>4, OnlyResponseInv
<1>5. CASE Unhandled(s) /\ UNCHANGED <<scheduled, slotted, counters, fatal, fetches, called>>
  <2>1. Emits(s, {}) /\ Tells(s.request, {"unhandled"})
    BY <1>5 DEF Unhandled
  <2>2. {"unhandled"} \in SUBSET {"filtered", "unhandled", "timeout"}
        /\ {"unhandled"} \cap {"filtered", "unhandled"} # {}
    OBVIOUS
  <2> QED
    BY <1>5, <2>1, <2>2, EndsTold
<1> QED
  BY <1>2, <1>3, <1>4, <1>5

LEMMA SpiderMiddlewareInv ==
  ASSUME IInv, NEW s \in signals, ResponseReachedSpiderMiddleware(s) PROVE IInv'
<1> DEFINE r == s.request
<1>1. r \in Requests /\ s.response \in Statuses \cup {"nil"}
  BY Given DEF IInv
<1>2. s.type = "ResponseReachedSpiderMiddleware" /\ s.type \notin Late /\ s.response # "nil"
  <2>1. s.type = "ResponseReachedSpiderMiddleware"
    BY DEF ResponseReachedSpiderMiddleware
  <2> QED
    BY <2>1 DEF IInv, SignalOK, Late, OfRequest
<1>3. CASE OnlyEmits(s, {Sig("ResponseReachedSpider", r, s.response)})
  <2>1. "ResponseReachedSpider" \in NeedsResponse \cup OfRequest
        /\ "ResponseReachedSpider" \notin BeforeFetch
    BY DEF NeedsResponse, BeforeFetch
  <2> QED
    BY <1>2, <1>3, <2>1, PassesOnInv
<1>4. CASE OnlyEmits(s, {[Sig("RequestErrback", r, s.response) EXCEPT
                            !.sender = "process_spider_input"]})
  <2>1. PICK n : n = [Sig("RequestErrback", r, s.response) EXCEPT
                        !.sender = "process_spider_input"]
    OBVIOUS
  <2>2. /\ n \in Signal /\ n.type = "RequestErrback" /\ n.request = r
        /\ n.response = s.response
    BY <1>1, <2>1, LastIndex DEF Sig, Signal, Senders, TakesAny
  <2>3. Emits(s, {n}) /\ UNCHANGED <<scheduled, slotted, counters, fatal, observers>>
    BY <1>4, <2>1 DEF OnlyEmits
  <2> QED
    BY <1>2, <2>2, <2>3, OnlyErrorInv
<1> QED
  BY <1>3, <1>4 DEF ResponseReachedSpiderMiddleware

\* The callback or the errback has been called, or stays uncalled.
LEMMA CalledTypes ==
  ASSUME IInv, NEW r \in Requests, called[r] = <<>>, NEW by \in {"callback", "errback"},
         called' = [called EXCEPT ![r] = Append(@, by)]
  PROVE  /\ called' \in [Requests -> Seq({"callback", "errback"})] /\ called'[r] = <<by>>
         /\ \A q \in Requests \ {r} : called'[q] = called[q]
<1>1. called \in [Requests -> Seq({"callback", "errback"})]
  BY DEF IInv, TypeOK
<1>2. Append(called[r], by) = <<by>> /\ <<by>> \in Seq({"callback", "errback"})
  OBVIOUS
<1> QED
  BY <1>1, <1>2

\* What follows a call of the callback or the errback: a signal of its outcome, or none.
LEMMA CallInv ==
  ASSUME IInv, TypeOK', NEW s \in signals, s.type \notin Late,
         UNCHANGED <<scheduled, slotted, counters, fetches, told>>,
         called'[s.request] \in {<<>>, <<"callback">>, <<"errback">>},
         called'[s.request] # <<>> \/ s.request \notin HasErrback,
         \A q \in Requests \ {s.request} : called'[q] = called[q],
         \/ Emits(s, {})
         \/ \E t \in {"ResultsLeftSpider", "SpiderError"} :
              /\ Emits(s, {Sig(t, s.request, s.response)})
              /\ s.response # "nil" \/ called'[s.request] = <<"errback">>
  PROVE  IInv'
<1> DEFINE r == s.request
<1> USE DEF counters
<1>1. r \in Requests /\ s.response \in Statuses \cup {"nil"}
  BY Given DEF IInv
<1>2. OthersStay(r)
  BY DEF OthersStay
<1>3. RequestOK(r)'
  BY <1>1 DEF IInv, RequestOK, Allowed
<1>4. CASE Emits(s, {})
  BY <1>2, <1>3, <1>4, EndsCalled
<1>5. ASSUME NEW t \in {"ResultsLeftSpider", "SpiderError"},
             Emits(s, {Sig(t, r, s.response)}),
             s.response # "nil" \/ called'[r] = <<"errback">>
      PROVE  IInv'
  <2> DEFINE n == Sig(t, r, s.response)
  <2>1. n \in Signal /\ n.type = t /\ n.request = r /\ n.response = s.response
    BY <1>1, SigFields DEF TakesAny
  <2>2. SignalOK(n)'
    BY <2>1, <1>5 DEF IInv, SignalOK, Late, BeforeFetch
  <2> HIDE DEF n
  <2> QED
    BY <1>2, <1>3, <1>5, <2>1, <2>2, Moves DEF n
<1> QED
  BY <1>4, <1>5

LEMMA ResponseReachedSpiderInv ==
  ASSUME IInv, NEW s \in signals, ResponseReachedSpider(s) PROVE IInv'
<1> DEFINE r == s.request
<1>1. r \in Requests /\ s.response \in Statuses \cup {"nil"}
  BY Given DEF IInv
<1>2. s.type \notin Late /\ s.response # "nil" /\ called[r] = <<>>
  <2>1. s.type = "ResponseReachedSpider"
    BY DEF ResponseReachedSpider
  <2> QED
    BY <2>1 DEF IInv, SignalOK, Late, OfRequest
<1>3. /\ called' = [called EXCEPT ![r] = Append(@, "callback")]
      /\ UNCHANGED <<scheduled, slotted, counters, fetches, told>>
  BY DEF ResponseReachedSpider
<1>4. /\ called' \in [Requests -> Seq({"callback", "errback"})] /\ called'[r] = <<"callback">>
      /\ \A q \in Requests \ {r} : called'[q] = called[q]
  BY <1>1, <1>2, <1>3, CalledTypes
<1>5. \A t \in {"ResultsLeftSpider", "SpiderError"} : Sig(t, r, s.response) \in Signal
  BY <1>1, SigFields DEF TakesAny
<1>6. /\ fatal' \in BOOLEAN
      /\ \/ Emits(s, {})
         \/ \E t \in {"ResultsLeftSpider", "SpiderError"} : Emits(s, {Sig(t, r, s.response)})
  BY DEF ResponseReachedSpider, IInv, TypeOK
<1>7. TypeOK'
  BY <1>3, <1>4, <1>5, <1>6 DEF IInv, TypeOK, Emits, counters
<1>8. called'[r] # <<>>
  BY <1>4
<1> QED
  BY <1>2, <1>3, <1>4, <1>6, <1>7, <1>8, CallInv

LEMMA RequestErrbackInv ==
  ASSUME IInv, NEW s \in signals, RequestErrback(s) PROVE IInv'
<1> DEFINE r == s.request
<1>1. r \in Requests /\ s.response \in Statuses \cup {"nil"}
  BY Given DEF IInv
<1>2. /\ s.type \notin Late /\ called[r] = <<>>
      /\ ErrorGoesOn(s) => s.response # "nil"
  <2>1. s.type = "RequestErrback"
    BY DEF RequestErrback
  <2> QED
    BY <2>1 DEF IInv, SignalOK, Late
<1>3. UNCHANGED <<scheduled, slotted, counters, fatal, fetches, told>>
  BY DEF RequestErrback
<1>4. \A t \in {"ResultsLeftSpider", "SpiderError"} : Sig(t, r, s.response) \in Signal
  BY <1>1, SigFields DEF TakesAny
<1>5. CASE r \in HasErrback
  <2>1. /\ called' \in [Requests -> Seq({"callback", "errback"})] /\ called'[r] = <<"errback">>
        /\ \A q \in Requests \ {r} : called'[q] = called[q]
    <3>1. called' = [called EXCEPT ![r] = Append(@, "errback")]
      BY <1>5 DEF RequestErrback
    <3> QED
      BY <1>1, <1>2, <3>1, CalledTypes
  <2>2. \/ Emits(s, {})
        \/ \E t \in {"ResultsLeftSpider", "SpiderError"} : Emits(s, {Sig(t, r, s.response)})
    BY DEF RequestErrback
  <2>3. TypeOK'
    BY <1>3, <1>4, <2>1, <2>2 DEF IInv, TypeOK, Emits, counters
  <2>4. called'[r] # <<>>
    BY <2>1
  <2> QED
    BY <1>2, <1>3, <2>1, <2>2, <2>3, <2>4, CallInv
<1>6. CASE r \notin HasErrback
  <2>1. /\ called' = called
        /\ Emits(s, {}) \/ (ErrorGoesOn(s) /\ Emits(s, {Sig("SpiderError", r, s.response)}))
    BY <1>6 DEF RequestErrback
  <2>2. \/ Emits(s, {})
        \/ \E t \in {"ResultsLeftSpider", "SpiderError"} :
             /\ Emits(s, {Sig(t, r, s.response)})
             /\ s.response # "nil" \/ called'[r] = <<"errback">>
    BY <1>2, <2>1
  <2>3. TypeOK'
    BY <1>3, <1>4, <2>1 DEF IInv, TypeOK, Emits, counters
  <2> QED
    BY <1>2, <1>3, <1>6, <2>1, <2>2, <2>3, CallInv
<1> QED
  BY <1>5, <1>6

\* A handler of a late signal that only emits a late one.
LEMMA LateInv ==
  ASSUME IInv, NEW s \in signals, s.type \in Late,
         NEW n \in Signal, n.type \in Late, n.request = s.request, n.response = s.response,
         Emits(s, {n}), UNCHANGED <<scheduled, slotted, counters, observers>>,
         fatal' \in BOOLEAN
  PROVE  IInv'
<1>1. SignalOK(n)
  BY DEF IInv, SignalOK, Late, BeforeFetch, OfRequest
<1> QED
  BY <1>1, Passes

LEMMA ResultsLeftSpiderInv ==
  ASSUME IInv, NEW s \in signals, ResultsLeftSpider(s) PROVE IInv'
<1>1. s.request \in Requests /\ s.response \in Statuses \cup {"nil"}
  BY Given DEF IInv
<1>2. s.type \in Late
  BY DEF ResultsLeftSpider, Late
<1>3. CASE Dies
  BY <1>3, DiesInv
<1>4. CASE ~Dies
  <2>1. PICK t \in {"ResultsLeftSpiderMiddleware", "SpiderError"} :
          Emits(s, {Sig(t, s.request, s.response)})
    BY <1>4 DEF ResultsLeftSpider
  <2>2. fatal' \in BOOLEAN /\ UNCHANGED <<scheduled, slotted, counters, observers>>
    BY <1>4 DEF ResultsLeftSpider, DepthDerefs
  <2> DEFINE n == Sig(t, s.request, s.response)
  <2>5. t \in NeedsResponse \cup TakesAny \cup OfRequest
    BY DEF TakesAny
  <2>3. n \in Signal /\ n.type = t /\ n.request = s.request /\ n.response = s.response
    BY <1>1, <2>5, SigFields
  <2>4. n.type \in Late
    BY <2>3 DEF Late
  <2> HIDE DEF n
  <2> QED
    BY <1>2, <2>1, <2>2, <2>3, <2>4, LateInv DEF n
<1> QED
  BY <1>3, <1>4

LEMMA ResultsLeaveInv ==
  ASSUME IInv, NEW s \in signals, ResultsLeftSpiderMiddleware(s) PROVE IInv'
<1> USE DEF ResultsLeftSpiderMiddleware, OnlyEmits, counters, observers
<1>1. s.request \in Requests
  BY Given DEF IInv
<1>2. s.type \in Late
  BY DEF Late
<1>3. called'[s.request] # <<>> \/ s.request \notin HasErrback
  BY <1>2 DEF IInv, SignalOK
<1>4. TypeOK' /\ RequestOK(s.request)'
  BY <1>1 DEF IInv, TypeOK, Emits, RequestOK, Allowed
<1>5. OthersStay(s.request)
  BY DEF OthersStay
<1> QED
  BY <1>3, <1>4, <1>5, EndsCalled

LEMMA SpiderErrorInv ==
  ASSUME IInv, NEW s \in signals, SpiderError(s) PROVE IInv'
<1>1. s.request \in Requests /\ s.response \in Statuses \cup {"nil"}
  BY Given DEF IInv
<1>2. s.type \in Late
  BY DEF SpiderError, Late
<1>3. ASSUME NEW k \in ProcessSpiderError(s),
             OnlyEmits(s, {[Sig("ResultsLeftSpider", s.request, s.response) EXCEPT
                              !.index = k - 1]})
      PROVE  IInv'
  <2>1. PICK n : n = [Sig("ResultsLeftSpider", s.request, s.response) EXCEPT !.index = k - 1]
    OBVIOUS
  <2>2. k \in Taking
    BY DEF ProcessSpiderError
  <2>5. k - 1 \in -1..Last
    BY <2>2, FlowAssumption DEF Last
  <2>3. n \in Signal /\ n.type = "ResultsLeftSpider" /\ n.request = s.request
        /\ n.response = s.response
    BY <1>1, <2>1, <2>5, LastIndex DEF Sig, Signal, Senders, TakesAny
  <2>4. /\ n.type \in Late /\ Emits(s, {n}) /\ fatal' \in BOOLEAN
        /\ UNCHANGED <<scheduled, slotted, counters, observers>>
    BY <1>3, <2>1, <2>3 DEF OnlyEmits, Late, IInv, TypeOK
  <2> QED
    BY <1>2, <2>3, <2>4, LateInv
<1>4. CASE Unhandled(s) /\ UNCHANGED <<scheduled, slotted, counters, fatal, fetches, called>>
  <2>1. Emits(s, {}) /\ Tells(s.request, {"unhandled"})
    BY <1>4 DEF Unhandled
  <2>2. {"unhandled"} \in SUBSET {"filtered", "unhandled", "timeout"}
        /\ {"unhandled"} \cap {"filtered", "unhandled"} # {}
    OBVIOUS
  <2> QED
    BY <1>4, <2>1, <2>2, EndsTold
<1>5. CASE Dies
  BY <1>5, DiesInv
<1> QED
  BY <1>3, <1>4, <1>5 DEF SpiderError, NoResultsFor

LEMMA PassesOnHandlersInv ==
  ASSUME IInv, NEW s \in signals,
         RequestLeftScheduler(s) \/ ResponseLeftDownloaderMiddleware(s)
  PROVE  IInv'
<1>1. CASE RequestLeftScheduler(s)
  <2>1. /\ s.type = "RequestLeftScheduler"
        /\ OnlyEmits(s, {Sig("RequestReachedDownloaderMiddleware", s.request, s.response)})
    BY <1>1 DEF RequestLeftScheduler, PassesOn
  <2>2. /\ s.type \notin Late /\ s.type \in BeforeFetch
        /\ "RequestReachedDownloaderMiddleware" \in NeedsResponse \cup OfRequest
        /\ "RequestReachedDownloaderMiddleware" \notin NeedsResponse
    BY <2>1 DEF Late, BeforeFetch, OfRequest, NeedsResponse
  <2> QED
    BY <2>1, <2>2, PassesOnInv
<1>2. CASE ResponseLeftDownloaderMiddleware(s)
  <2>1. /\ s.type = "ResponseLeftDownloaderMiddleware"
        /\ OnlyEmits(s, {Sig("ResponseReachedSpiderMiddleware", s.request, s.response)})
    BY <1>2 DEF ResponseLeftDownloaderMiddleware, PassesOn
  <2>2. s.type \notin Late /\ s.response # "nil"
    BY <2>1 DEF IInv, SignalOK, Late, OfRequest
  <2>3. /\ "ResponseReachedSpiderMiddleware" \in NeedsResponse \cup OfRequest
        /\ "ResponseReachedSpiderMiddleware" \notin BeforeFetch
    BY DEF BeforeFetch, NeedsResponse
  <2> QED
    BY <2>1, <2>2, <2>3, PassesOnInv
<1> QED
  BY <1>1, <1>2

-----------------------------------------------------------------------------
LEMMA StepInv == IInv /\ [Next]_vars => IInv'
<1> SUFFICES ASSUME IInv, [Next]_vars PROVE IInv'
  OBVIOUS
<1>1. ASSUME NEW s \in signals, Handle(s) PROVE IInv'
  BY <1>1, RequestLeftEngineInv, DownloaderMiddlewareInv, DownloaderInv,
     ResponseLeftDownloaderInv, DownloaderErrorInv, SpiderMiddlewareInv,
     ResponseReachedSpiderInv, RequestErrbackInv, ResultsLeftSpiderInv, ResultsLeaveInv,
     SpiderErrorInv, PassesOnHandlersInv DEF Handle
<1>2. ASSUME NEW r \in Requests, NextRequest(r) \/ PopRequest(r) PROVE IInv'
  BY <1>2, NextRequestInv
<1>3. CASE UNCHANGED vars
  <2> USE <1>3 DEF vars, places, counters, observers
  <2>1. TypeOK' /\ OnePlace' /\ StoredOK' /\ NothingVanishes'
    BY DEF IInv, TypeOK, OnePlace, StoredOK, NothingVanishes, Settled, Allowed
  <2>2. \A s \in signals' : SignalOK(s)'
    BY DEF IInv, SignalOK, ErrorGoesOn, Allowed
  <2>3. \A r \in Requests : RequestOK(r)'
    BY DEF IInv, RequestOK, Allowed
  <2> QED
    BY <2>1, <2>2, <2>3 DEF IInv
<1> QED
  BY <1>1, <1>2, <1>3 DEF Next

\* The invariant holds in every reachable state.
THEOREM Invariance == Spec => []IInv
BY InitInv, StepInv, PTL DEF Spec

\* Each signal is one that its type allows, and no counter leaves its bounds: a request is
\* retried no more often than its max_retry_times says.
THEOREM TypeCorrect == Spec => []TypeOK
<1>1. IInv => TypeOK
  BY DEF IInv
<1> QED
  BY <1>1, Invariance, PTL

\* The callback and the errback of a request are called once between them, whatever fails
\* on its way and however often it is retried.
THEOREM SpiderHearsOnce == Spec => []CalledOnce
<1>1. IInv => CalledOnce
  <2> SUFFICES ASSUME IInv, NEW r \in Requests
               PROVE  Len(called[r]) <= 1
    BY DEF CalledOnce
  <2>1. called[r] \in {<<>>, <<"callback">>, <<"errback">>}
    BY DEF IInv, RequestOK
  <2>2. CASE called[r] = <<>>
    BY <2>2
  <2>3. CASE called[r] = <<"callback">>
    BY <2>3
  <2>4. CASE called[r] = <<"errback">>
    BY <2>4
  <2> QED
    BY <2>1, <2>2, <2>3, <2>4
<1> QED
  BY <1>1, Invariance, PTL

\* No handler that dereferences a response is reached without one, but through the
\* results of an errback that had none.
THEOREM ResponsesAreThere == Spec => []ResponseIsThere
<1>1. IInv => ResponseIsThere
  BY DEF IInv, SignalOK, ResponseIsThere
<1> QED
  BY <1>1, Invariance, PTL

\* A request with an errback ends with a call, a filtering or an ErrorUnhandled.
THEOREM NoneEndsInSilence == Spec => []NothingVanishes
<1>1. IInv => NothingVanishes
  BY DEF IInv
<1> QED
  BY <1>1, Invariance, PTL

\* However retryable statuses and errors mix, a request is downloaded at most once, and
\* once more for each retry of its max_retry_times and each time a middleware hands it back.
THEOREM BudgetIsKept == Spec => []FetchesBounded
<1>1. IInv => FetchesBounded
  <2> SUFFICES ASSUME IInv, NEW r \in Requests
               PROVE  fetches[r] <= 1 + MaxRetryTimes[r] + returns[r]
    BY DEF FetchesBounded
  <2>1. /\ fetches[r] <= 1 + (retryTimes[r] + returns[r]) /\ fetches[r] \in Nat
        /\ retryTimes[r] \in Nat /\ retryTimes[r] <= MaxRetryTimes[r] /\ returns[r] \in 0..MaxReturns
    BY DEF IInv, RequestOK, Allowed, TypeOK
  <2> QED
    BY <2>1, FlowAssumption
<1> QED
  BY <1>1, Invariance, PTL

-----------------------------------------------------------------------------
(* The life of a request.                                                  *)

Stage == [r \in Requests |-> StageOf(r)]

\* How far the request of a signal is.
StageAt(s) ==
  IF s.type \in BeforeFetch THEN "due" ELSE IF s.type \in Late THEN "after" ELSE "answered"

Stages ==
  /\ \A r \in scheduled \cup slotted : StageOf(r) = "due"
  /\ \A s \in signals : StageOf(s.request) = StageAt(s)
  /\ \A r \in Requests : Settled(r) => StageOf(r) = "over"

LEMMA StagesNow == IInv => Stages
<1> SUFFICES ASSUME IInv PROVE Stages
  OBVIOUS
<1>1. ASSUME NEW s \in signals PROVE StageOf(s.request) = StageAt(s)
  <2>1. s.request \notin scheduled \cup slotted
    BY DEF IInv, SignalOK
  <2>2. {t.type : t \in {u \in signals : u.request = s.request}} = {s.type}
    BY DEF IInv, OnePlace
  <2>3. BeforeFetch \cap Late = {}
    BY DEF BeforeFetch, Late
  <2> QED
    BY <2>1, <2>2, <2>3 DEF StageOf, StageAt
<1>2. ASSUME NEW r \in Requests, Settled(r) PROVE StageOf(r) = "over"
  BY <1>2 DEF StageOf, Settled
<1>3. \A r \in scheduled \cup slotted : StageOf(r) = "due"
  BY DEF StageOf
<1> QED
  BY <1>1, <1>2, <1>3 DEF Stages

LEMMA StagesNext == IInv' => Stages'
BY StagesNow, PTL

\* A step that leaves a request's places alone leaves it where it is.
LEMMA StageStays ==
  ASSUME NEW q, q \in scheduled' <=> q \in scheduled, q \in slotted' <=> q \in slotted,
         {s \in signals' : s.request = q} = {s \in signals : s.request = q}
  PROVE  StageOf(q)' = StageOf(q)
BY DEF StageOf

\* What a step of r's way does to the stages.
LEMMA StageSteps ==
  ASSUME NEW r \in Requests,
         \A q \in Requests \ {r} :
           /\ q \in scheduled' <=> q \in scheduled
           /\ q \in slotted' <=> q \in slotted
           /\ {s \in signals' : s.request = q} = {s \in signals : s.request = q}
  PROVE  Stage' = [Stage EXCEPT ![r] = StageOf(r)']
<1>1. \A q \in Requests \ {r} : StageOf(q)' = StageOf(q)
  BY StageStays
<1> QED
  BY <1>1 DEF Stage

\* A handler that has emitted one signal of its own request.
LEMMA MovesOn ==
  ASSUME IInv, IInv', NEW s \in signals, NEW n, n.request = s.request,
         Emits(s, {n}), UNCHANGED <<scheduled, slotted>>
  PROVE  /\ s.request \in Requests
         /\ Stage[s.request] = StageAt(s)
         /\ Stage' = [Stage EXCEPT ![s.request] = StageAt(n)]
<1>1. s.request \in Requests
  BY Given DEF IInv
<1>2. Stage[s.request] = StageAt(s)
  BY <1>1, StagesNow DEF Stages, Stage
<1>3. StageOf(s.request)' = StageAt(n)
  BY StagesNext DEF Stages, Emits, StageAt
<1>4. \A q \in Requests \ {s.request} :
        {t \in signals' : t.request = q} = {t \in signals : t.request = q}
  BY DEF Emits
<1> QED
  BY <1>1, <1>2, <1>3, <1>4, StageSteps

\* A handler that has emitted none.
LEMMA EndsHere ==
  ASSUME IInv, IInv', NEW s \in signals, Emits(s, {}),
         NEW A \in SUBSET {s.request}, NEW B \in SUBSET {s.request},
         scheduled' = scheduled \cup A, slotted' = slotted \cup B
  PROVE  /\ s.request \in Requests
         /\ Stage[s.request] = StageAt(s)
         /\ Stage' = [Stage EXCEPT ![s.request] =
                        IF A \cup B = {} THEN "over" ELSE "due"]
<1>1. s.request \in Requests
  BY Given DEF IInv
<1>2. Stage[s.request] = StageAt(s)
  BY <1>1, StagesNow DEF Stages, Stage
<1>3. CASE A \cup B = {}
  <2>1. Settled(s.request)'
    BY <1>3 DEF Settled, Emits, IInv, SignalOK, OnePlace
  <2>2. StageOf(s.request)' = "over"
    BY <1>1, <2>1, StagesNext DEF Stages
  <2> QED
    BY <1>1, <1>2, <1>3, <2>2, StageSteps DEF Emits
<1>4. CASE A \cup B # {}
  <2>1. s.request \in scheduled' \cup slotted'
    BY <1>4
  <2>2. StageOf(s.request)' = "due"
    BY <2>1, StagesNext DEF Stages
  <2> QED
    BY <1>1, <1>2, <1>4, <2>2, StageSteps DEF Emits
<1> QED
  BY <1>3, <1>4

\* A handler after which nothing of its request is under way.
LEMMA ComesToEnd ==
  ASSUME IInv, IInv', NEW s \in signals, Emits(s, {}), UNCHANGED <<scheduled, slotted>>
  PROVE  /\ s.request \in Requests
         /\ Stage[s.request] = StageAt(s)
         /\ Stage' = [Stage EXCEPT ![s.request] = "over"]
<1>1. /\ {} \in SUBSET {s.request} /\ {} \cup {} = {}
      /\ scheduled' = scheduled \cup {} /\ slotted' = slotted \cup {}
  OBVIOUS
<1> QED
  BY <1>1, EndsHere

\* What the request's counters and what was told of it are in its life.
Anew == [r \in Requests |-> retryTimes[r] + returns[r]]

Told == [r \in Requests |-> told[r] \ {"timeout"}]

LEMMA Begins ==
  ASSUME IInv, IInv', NEW s \in signals, s.type \notin Late, Retried(s) \/ HandedBack(s)
  PROVE  Life!Next
<1> DEFINE r == s.request
<1> DEFINE n == Sig("RequestLeftEngine", s.request, "nil")
<1>1. r \in Requests
  BY Given DEF IInv
<1>2. n.type = "RequestLeftEngine" /\ n.request = r
  BY <1>1, SigFields DEF OfRequest
<1>3. /\ Emits(s, {n})
      /\ UNCHANGED <<scheduled, slotted, fetches, called, told>>
  BY DEF Retried, HandedBack, observers
<1>4. StageAt(s) \in {"due", "answered"} /\ StageAt(n) = "due"
  BY <1>2 DEF StageAt, BeforeFetch
<1> HIDE DEF n
<1>5. Stage[r] \in {"due", "answered"} /\ Stage' = [Stage EXCEPT ![r] = "due"]
  BY <1>2, <1>3, <1>4, MovesOn
<1>6. /\ retryTimes \in [Requests -> Nat] /\ returns \in [Requests -> 0..MaxReturns]
      /\ retryTimes[r] <= MaxRetryTimes[r] /\ MaxRetryTimes[r] \in Nat /\ MaxReturns \in Nat
  BY <1>1, FlowAssumption DEF IInv, TypeOK
<1>7. Anew[r] < MaxRetryTimes[r] + MaxReturns /\ Anew' = [Anew EXCEPT ![r] = @ + 1]
  <2>1. CASE Retried(s)
    <3>1. /\ retryTimes[r] < MaxRetryTimes[r] /\ returns' = returns
          /\ retryTimes' = [retryTimes EXCEPT ![r] = @ + 1]
      BY <2>1 DEF Retried, CanRetry
    <3>2. retryTimes[r] + returns[r] < MaxRetryTimes[r] + MaxReturns
      BY <1>1, <1>6, <3>1
    <3>3. retryTimes'[r] + returns'[r] = (retryTimes[r] + returns[r]) + 1
      BY <1>1, <1>6, <3>1
    <3>4. \A q \in Requests \ {r} : retryTimes'[q] + returns'[q] = retryTimes[q] + returns[q]
      BY <1>6, <3>1
    <3> QED
      BY <1>1, <3>2, <3>3, <3>4 DEF Anew
  <2>2. CASE HandedBack(s)
    <3>1. /\ returns[r] < MaxReturns /\ retryTimes' = retryTimes
          /\ returns' = [returns EXCEPT ![r] = @ + 1]
      BY <2>2 DEF HandedBack
    <3>2. retryTimes[r] + returns[r] < MaxRetryTimes[r] + MaxReturns
      BY <1>1, <1>6, <3>1
    <3>3. retryTimes'[r] + returns'[r] = (retryTimes[r] + returns[r]) + 1
      BY <1>1, <1>6, <3>1
    <3>4. \A q \in Requests \ {r} : retryTimes'[q] + returns'[q] = retryTimes[q] + returns[q]
      BY <1>6, <3>1
    <3> QED
      BY <1>1, <3>2, <3>3, <3>4 DEF Anew
  <2> QED
    BY <2>1, <2>2
<1>8. Told' = Told
  BY <1>3 DEF Told
<1> QED
  BY <1>1, <1>3, <1>5, <1>7, <1>8
  DEF Life!Next, Life!BeginAnew, Life!Passes, Stage, Anew, Told

LEMMA Hears ==
  ASSUME IInv, NEW r \in Requests, NEW c \in {"callback", "errback"},
         c = "errback" => r \in HasErrback,
         Stage[r] = "answered", NEW to \in {"after", "over"},
         Stage' = [Stage EXCEPT ![r] = to], called' = [called EXCEPT ![r] = <<c>>],
         UNCHANGED <<counters, fetches, told>>
  PROVE  Life!Next
<1>1. UNCHANGED <<Anew, Told>>
  BY DEF Anew, Told, counters
<1>2. c \in {"callback"} \cup (IF r \in HasErrback THEN {"errback"} ELSE {})
  OBVIOUS
<1> QED
  BY <1>1, <1>2 DEF Life!Next, Life!Hear, Life!Passes, Stage, Anew, Told

LEMMA Fails ==
  ASSUME IInv, IInv', NEW s \in signals, s.type \notin BeforeFetch,
         NEW what \in SUBSET {"unhandled", "timeout"}, "unhandled" \in what,
         Emits(s, {}), Tells(s.request, what),
         UNCHANGED <<scheduled, slotted, counters, fetches, called>>
  PROVE  Life!Next
<1> DEFINE r == s.request
<1>2. r \in Requests /\ Stage[r] = StageAt(s) /\ Stage' = [Stage EXCEPT ![r] = "over"]
  BY ComesToEnd
<1>3. StageAt(s) \in {"answered", "after"}
  BY DEF StageAt
<1>4. Anew' = Anew
  BY DEF Anew, counters
<1>5. Told' = [Told EXCEPT ![r] = @ \cup {"unhandled"}]
  <2>1. told \in [Requests -> SUBSET {"filtered", "unhandled", "timeout"}]
    BY DEF IInv, TypeOK
  <2>2. told' = [told EXCEPT ![r] = @ \cup what]
    BY DEF Tells
  <2>3. (told[r] \cup what) \ {"timeout"} = (told[r] \ {"timeout"}) \cup {"unhandled"}
    OBVIOUS
  <2> QED
    BY <1>2, <2>1, <2>2, <2>3 DEF Told
<1> QED
  BY <1>2, <1>3, <1>4, <1>5
  DEF Life!Next, Life!Fail, Life!Passes, Life!Tells, Stage, Anew, Told

\* A step that the life of no request shows.
LEMMA Unseen ==
  ASSUME Stage' = Stage, UNCHANGED <<counters, observers>>
  PROVE  UNCHANGED Life!vars
BY DEF Life!vars, Stage, counters, observers

\* A handler that emits a signal of the same stage.
LEMMA SameStage ==
  ASSUME IInv, IInv', NEW s \in signals, NEW n, n.request = s.request,
         Emits(s, {n}), UNCHANGED <<scheduled, slotted, counters, observers>>,
         StageAt(n) = StageAt(s)
  PROVE  UNCHANGED Life!vars
<1>1. /\ s.request \in Requests
      /\ Stage[s.request] = StageAt(s)
      /\ Stage' = [Stage EXCEPT ![s.request] = StageAt(n)]
  BY MovesOn
<1>2. Stage' = Stage
  BY <1>1 DEF Stage
<1> QED
  BY <1>2, Unseen

LEMMA DiesUnseen == ASSUME Dies PROVE UNCHANGED Life!vars
<1>1. Stage' = Stage
  BY DEF Dies, places, Stage, StageOf
<1> QED
  BY <1>1, Unseen DEF Dies

-----------------------------------------------------------------------------
(* Each handler moves one life or none.                                    *)

LEMMA LifeRequestLeftEngine ==
  ASSUME IInv, IInv', NEW s \in signals, RequestLeftEngine(s)
  PROVE  Life!Next \/ UNCHANGED Life!vars
<1> DEFINE r == s.request
<1>1. /\ Emits(s, {}) /\ s.type = "RequestLeftEngine"
      /\ UNCHANGED <<slotted, dontFilter, retryTimes, returns, fetches, called>>
  BY DEF RequestLeftEngine
<1>2. StageAt(s) = "due"
  BY <1>1 DEF StageAt, BeforeFetch
<1>3. CASE scheduled' = scheduled /\ Tells(r, {"filtered"})
  <2>2. r \in Requests /\ Stage[r] = "due" /\ Stage' = [Stage EXCEPT ![r] = "over"]
    BY <1>1, <1>2, <1>3, ComesToEnd
  <2>3. Told' = [Told EXCEPT ![r] = @ \cup {"filtered"}]
    <3>1. told \in [Requests -> SUBSET {"filtered", "unhandled", "timeout"}]
      BY DEF IInv, TypeOK
    <3>2. (told[r] \cup {"filtered"}) \ {"timeout"} = (told[r] \ {"timeout"}) \cup {"filtered"}
      OBVIOUS
    <3> QED
      BY <1>3, <2>2, <3>1, <3>2 DEF Told, Tells
  <2>4. Anew' = Anew
    BY <1>1 DEF Anew
  <2> QED
    BY <1>1, <2>2, <2>3, <2>4
    DEF Life!Next, Life!Filter, Life!Passes, Life!Tells, Stage, Anew, Told
<1>4. CASE scheduled' = scheduled \cup {r} /\ told' = told
  <2>3. /\ {r} \in SUBSET {r} /\ {} \in SUBSET {r} /\ {r} \cup {} # {}
        /\ slotted' = slotted \cup {}
    BY <1>1
  <2>1. r \in Requests /\ Stage[r] = "due" /\ Stage' = [Stage EXCEPT ![r] = "due"]
    BY <1>1, <1>2, <1>4, <2>3, EndsHere
  <2>2. Stage' = Stage
    BY <2>1 DEF Stage
  <2> QED
    BY <1>1, <1>4, <2>2 DEF Life!vars, Stage
<1> QED
  BY <1>3, <1>4 DEF RequestLeftEngine

LEMMA LifeStores ==
  ASSUME IInv, IInv', NEW r \in Requests, NextRequest(r) \/ PopRequest(r)
  PROVE  UNCHANGED Life!vars
<1>1. PICK t \in {"RequestLeftScheduler", "RequestReachedDownloader"} :
        signals' = signals \cup {Sig(t, r, "nil")}
  BY DEF NextRequest, PopRequest
<1> DEFINE n == Sig(t, r, "nil")
<1>2. n.type = t /\ n.request = r
  BY SigFields DEF OfRequest
<1>3. StageAt(n) = "due"
  BY <1>2 DEF StageAt, BeforeFetch
<1>4. r \in scheduled \cup slotted /\ UNCHANGED <<counters, observers>>
  BY DEF NextRequest, PopRequest
<1> HIDE DEF n
<1>5. StageOf(r) = "due" /\ StageOf(r)' = "due"
  BY <1>1, <1>2, <1>3, <1>4, StagesNow, StagesNext DEF Stages, StageAt, n
<1>6. \A q \in Requests \ {r} :
        /\ q \in scheduled' <=> q \in scheduled
        /\ q \in slotted' <=> q \in slotted
        /\ {s \in signals' : s.request = q} = {s \in signals : s.request = q}
  BY <1>1, <1>2 DEF NextRequest, PopRequest, n
<1>7. Stage' = [Stage EXCEPT ![r] = "due"]
  BY <1>5, <1>6, StageSteps
<1>8. Stage' = Stage
  BY <1>5, <1>7 DEF Stage
<1> QED
  BY <1>4, <1>8, Unseen

\* A response or an error in the place of a download, or of a response or an error.
LEMMA LifeAnswers ==
  ASSUME IInv, IInv', NEW s \in signals, NEW n, n.request = s.request,
         Emits(s, {n}), UNCHANGED <<scheduled, slotted, counters, observers>>,
         s.type \notin Late, n.type \notin BeforeFetch, n.type \notin Late
  PROVE  Life!Next \/ UNCHANGED Life!vars
<1> DEFINE r == s.request
<1>1. StageAt(s) \in {"due", "answered"} /\ StageAt(n) = "answered"
  BY DEF StageAt
<1>2. CASE StageAt(s) = "answered"
  BY <1>1, <1>2, SameStage
<1>3. CASE StageAt(s) = "due"
  <2>1. r \in Requests /\ Stage[r] = "due" /\ Stage' = [Stage EXCEPT ![r] = "answered"]
    BY <1>1, <1>3, MovesOn
  <2>2. UNCHANGED <<Anew, Told, fetches, called>>
    BY DEF Anew, Told, counters, observers
  <2> QED
    BY <2>1, <2>2 DEF Life!Next, Life!AnswerEarly, Life!Passes, Stage, Anew, Told
<1> QED
  BY <1>1, <1>2, <1>3

\* What a signal just made is about.
LEMMA MadeFrom ==
  ASSUME NEW t, NEW r, NEW resp
  PROVE  Sig(t, r, resp).type = t /\ Sig(t, r, resp).request = r
BY DEF Sig

LEMMA LifePassesOn ==
  ASSUME IInv, IInv', NEW s \in signals,
         RequestLeftScheduler(s) \/ ResponseLeftDownloaderMiddleware(s)
  PROVE  UNCHANGED Life!vars
<1>1. PICK t \in {"RequestReachedDownloaderMiddleware", "ResponseReachedSpiderMiddleware"} :
        /\ OnlyEmits(s, {Sig(t, s.request, s.response)})
        /\ t = "RequestReachedDownloaderMiddleware" => s.type = "RequestLeftScheduler"
        /\ t = "ResponseReachedSpiderMiddleware" =>
             s.type = "ResponseLeftDownloaderMiddleware"
  BY DEF RequestLeftScheduler, ResponseLeftDownloaderMiddleware, PassesOn
<1> DEFINE n == Sig(t, s.request, s.response)
<1>2. n.type = t /\ n.request = s.request
  BY MadeFrom
<1>3. StageAt(n) = StageAt(s)
  BY <1>1, <1>2 DEF StageAt, BeforeFetch, Late
<1>4. Emits(s, {n}) /\ UNCHANGED <<scheduled, slotted, counters, observers>>
  BY <1>1 DEF OnlyEmits
<1> HIDE DEF n
<1> QED
  BY <1>2, <1>3, <1>4, SameStage

\* An answer of one of the downloader's middlewares, in place of what s has.
LEMMA LifeOnlyAnswers ==
  ASSUME IInv, IInv', NEW s \in signals, s.type \notin Late, NEW n, n.request = s.request,
         OnlyEmits(s, {n}), n.type \in NeedsResponse \cup {"DownloaderError", "RequestErrback"}
  PROVE  Life!Next \/ UNCHANGED Life!vars
<1>1. n.type \notin BeforeFetch /\ n.type \notin Late
  BY DEF NeedsResponse, BeforeFetch, Late
<1> QED
  BY <1>1, LifeAnswers DEF OnlyEmits

LEMMA LifeDownloaderMiddleware ==
  ASSUME IInv, IInv', NEW s \in signals, RequestReachedDownloaderMiddleware(s)
  PROVE  Life!Next \/ UNCHANGED Life!vars
<1> DEFINE r == s.request
<1>1. s.type = "RequestReachedDownloaderMiddleware" /\ s.type \notin Late
      /\ StageAt(s) = "due"
  BY DEF RequestReachedDownloaderMiddleware, Late, BeforeFetch, StageAt
<1>2. CASE /\ Emits(s, {})
           /\ slotted' = slotted \cup {r}
           /\ UNCHANGED <<scheduled, counters, fatal, observers>>
  <2>1. /\ {r} \in SUBSET {r} /\ {} \in SUBSET {r} /\ {} \cup {r} # {}
        /\ scheduled' = scheduled \cup {}
    BY <1>2
  <2>2. r \in Requests /\ Stage[r] = "due" /\ Stage' = [Stage EXCEPT ![r] = "due"]
    BY <1>1, <1>2, <2>1, EndsHere
  <2>3. Stage' = Stage
    BY <2>2 DEF Stage
  <2> QED
    BY <1>2, <2>3, Unseen
<1>3. CASE HandedBack(s)
  BY <1>1, <1>3, Begins
<1>4. ASSUME NEW st \in Statuses, OnlyEmits(s, {Sig("ResponseLeftDownloader", r, st)})
      PROVE  Life!Next \/ UNCHANGED Life!vars
  <2> DEFINE n == Sig("ResponseLeftDownloader", r, st)
  <2>1. n.type = "ResponseLeftDownloader" /\ n.request = r /\ n.type \in NeedsResponse
    BY MadeFrom DEF NeedsResponse
  <2> HIDE DEF n
  <2> QED
    BY <1>1, <1>4, <2>1, LifeOnlyAnswers DEF n
<1>5. CASE OnlyEmits(s, {[Sig("DownloaderError", r, "nil") EXCEPT
                            !.sender = "process_request", !.error = "other"]})
  <2> DEFINE n == [Sig("DownloaderError", r, "nil") EXCEPT
                     !.sender = "process_request", !.error = "other"]
  <2>1. n.type = "DownloaderError" /\ n.request = r
    BY DEF Sig
  <2>2. OnlyEmits(s, {n})
    BY <1>5
  <2> HIDE DEF n
  <2> QED
    BY <1>1, <2>1, <2>2, LifeOnlyAnswers
<1>6. CASE Dies
  BY <1>6, DiesUnseen
<1> QED
  BY <1>2, <1>3, <1>4, <1>5, <1>6 DEF RequestReachedDownloaderMiddleware

LEMMA LifeDownloader ==
  ASSUME IInv, IInv', NEW s \in signals, RequestReachedDownloader(s)
  PROVE  Life!Next
<1> DEFINE r == s.request
<1>1. /\ s.type = "RequestReachedDownloader" /\ fetches' = [fetches EXCEPT ![r] = @ + 1]
      /\ UNCHANGED <<scheduled, slotted, counters, fatal, called, told>>
  BY DEF RequestReachedDownloader
<1>2. StageAt(s) = "due"
  BY <1>1 DEF StageAt, BeforeFetch
<1>3. PICK n : /\ Emits(s, {n}) /\ n.request = r
               /\ n.type \in {"DownloaderError", "ResponseLeftDownloader"}
  <2>1. CASE \E e \in FetchErrors(r) : Emits(s, {e})
    <3>1. PICK e \in {"timeout", "other"} :
            Emits(s, {[Sig("DownloaderError", r, "nil") EXCEPT
                         !.sender = "downloader", !.error = e]})
      BY <2>1 DEF FetchErrors
    <3> DEFINE x == [Sig("DownloaderError", r, "nil") EXCEPT
                       !.sender = "downloader", !.error = e]
    <3>2. x.type = "DownloaderError" /\ x.request = r
      BY DEF Sig
    <3> HIDE DEF x
    <3> QED
      BY <3>1, <3>2 DEF x
  <2>2. CASE \E st \in Statuses : Emits(s, {Sig("ResponseLeftDownloader", r, st)})
    <3>1. PICK st \in Statuses : Emits(s, {Sig("ResponseLeftDownloader", r, st)})
      BY <2>2
    <3>2. /\ Sig("ResponseLeftDownloader", r, st).type = "ResponseLeftDownloader"
          /\ Sig("ResponseLeftDownloader", r, st).request = r
      BY MadeFrom
    <3> QED
      BY <3>1, <3>2
  <2> QED
    BY <2>1, <2>2 DEF RequestReachedDownloader
<1>4. StageAt(n) = "answered"
  BY <1>3 DEF StageAt, BeforeFetch, Late
<1>5. r \in Requests /\ Stage[r] = "due" /\ Stage' = [Stage EXCEPT ![r] = "answered"]
  BY <1>1, <1>2, <1>3, <1>4, MovesOn
<1>6. UNCHANGED <<Anew, Told>>
  BY <1>1 DEF Anew, Told, counters
<1> QED
  BY <1>1, <1>5, <1>6 DEF Life!Next, Life!Fetch, Life!Passes, Stage, Anew, Told

LEMMA LifeResponseLeftDownloader ==
  ASSUME IInv, IInv', NEW s \in signals, ResponseLeftDownloader(s)
  PROVE  Life!Next \/ UNCHANGED Life!vars
<1> DEFINE r == s.request
<1>1. s.type = "ResponseLeftDownloader" /\ s.type \notin Late
  BY DEF ResponseLeftDownloader, Late
<1>2. CASE Retried(s) \/ HandedBack(s)
  BY <1>1, <1>2, Begins
<1>3. CASE Dies
  BY <1>3, DiesUnseen
<1>4. CASE OnlyEmits(s, {Sig("ResponseLeftDownloaderMiddleware", r, s.response)})
  <2> DEFINE n == Sig("ResponseLeftDownloaderMiddleware", r, s.response)
  <2>1. n.type = "ResponseLeftDownloaderMiddleware" /\ n.request = r
        /\ n.type \in NeedsResponse
    BY MadeFrom DEF NeedsResponse
  <2> HIDE DEF n
  <2> QED
    BY <1>1, <1>4, <2>1, LifeOnlyAnswers DEF n
<1>5. CASE OnlyEmits(s, {[Sig("RequestErrback", r, s.response) EXCEPT
                            !.sender = "process_response"]})
  <2> DEFINE n == [Sig("RequestErrback", r, s.response) EXCEPT !.sender = "process_response"]
  <2>1. n.type = "RequestErrback" /\ n.request = r
    BY DEF Sig
  <2>2. OnlyEmits(s, {n})
    BY <1>5
  <2> HIDE DEF n
  <2> QED
    BY <1>1, <2>1, <2>2, LifeOnlyAnswers
<1> QED
  BY <1>2, <1>3, <1>4, <1>5 DEF ResponseLeftDownloader

LEMMA LifeDownloaderError ==
  ASSUME IInv, IInv', NEW s \in signals, DownloaderError(s)
  PROVE  Life!Next \/ UNCHANGED Life!vars
<1> DEFINE r == s.request
<1>1. s.type = "DownloaderError" /\ s.type \notin Late /\ s.type \notin BeforeFetch
  BY DEF DownloaderError, Late, BeforeFetch
<1>2. CASE Retried(s) \/ HandedBack(s)
  BY <1>1, <1>2, Begins
<1>3. CASE Dies
  BY <1>3, DiesUnseen
<1>4. ASSUME NEW st \in Statuses, OnlyEmits(s, {Sig("ResponseLeftDownloader", r, st)})
      PROVE  Life!Next \/ UNCHANGED Life!vars
  <2> DEFINE n == Sig("ResponseLeftDownloader", r, st)
  <2>1. n.type = "ResponseLeftDownloader" /\ n.request = r /\ n.type \in NeedsResponse
    BY MadeFrom DEF NeedsResponse
  <2> HIDE DEF n
  <2> QED
    BY <1>1, <1>4, <2>1, LifeOnlyAnswers DEF n
<1>5. CASE Unhandled(s) /\ UNCHANGED <<scheduled, slotted, counters, fatal, fetches, called>>
  BY <1>1, <1>5, Fails DEF Unhandled
<1>6. CASE NobodyTakes(s) /\ s.sender = "process_request"
  <2> DEFINE n == [Sig("RequestErrback", r, "nil") EXCEPT !.sender = "process_error"]
  <2>1. n.type = "RequestErrback" /\ n.request = r
    BY DEF Sig
  <2>2. OnlyEmits(s, {n})
    BY <1>6 DEF NobodyTakes, OnlyEmits, observers
  <2> HIDE DEF n
  <2> QED
    BY <1>1, <2>1, <2>2, LifeOnlyAnswers
<1>7. CASE NobodyTakes(s) /\ s.sender # "process_request"
  <2>1. PICK what : what = {"unhandled"} \cup ({s.error} \ {"other"})
    OBVIOUS
  <2>2. /\ Emits(s, {}) /\ Tells(r, what)
        /\ UNCHANGED <<scheduled, slotted, counters, fetches, called>>
    BY <1>7, <2>1 DEF NobodyTakes
  <2>3. s.error \in {"timeout", "other"}
    BY <1>1, Given DEF IInv, SignalOK
  <2>4. what \in SUBSET {"unhandled", "timeout"} /\ "unhandled" \in what
    BY <2>1, <2>3
  <2> QED
    BY <1>1, <2>2, <2>4, Fails
<1> QED
  BY <1>2, <1>3, <1>4, <1>5, <1>6, <1>7 DEF DownloaderError

LEMMA LifeSpiderMiddleware ==
  ASSUME IInv, IInv', NEW s \in signals, ResponseReachedSpiderMiddleware(s)
  PROVE  Life!Next \/ UNCHANGED Life!vars
<1> DEFINE r == s.request
<1>1. s.type = "ResponseReachedSpiderMiddleware" /\ s.type \notin Late
  BY DEF ResponseReachedSpiderMiddleware, Late
<1>2. CASE OnlyEmits(s, {Sig("ResponseReachedSpider", r, s.response)})
  <2> DEFINE n == Sig("ResponseReachedSpider", r, s.response)
  <2>1. n.type = "ResponseReachedSpider" /\ n.request = r /\ n.type \in NeedsResponse
    BY MadeFrom DEF NeedsResponse
  <2> HIDE DEF n
  <2> QED
    BY <1>1, <1>2, <2>1, LifeOnlyAnswers DEF n
<1>3. CASE OnlyEmits(s, {[Sig("RequestErrback", r, s.response) EXCEPT
                            !.sender = "process_spider_input"]})
  <2> DEFINE n == [Sig("RequestErrback", r, s.response) EXCEPT
                     !.sender = "process_spider_input"]
  <2>1. n.type = "RequestErrback" /\ n.request = r
    BY DEF Sig
  <2>2. OnlyEmits(s, {n})
    BY <1>3
  <2> HIDE DEF n
  <2> QED
    BY <1>1, <2>1, <2>2, LifeOnlyAnswers
<1> QED
  BY <1>2, <1>3 DEF ResponseReachedSpiderMiddleware

\* What becomes of the stage when the callback or the errback has answered.
LEMMA StageAfterCall ==
  ASSUME IInv, IInv', NEW s \in signals,
         s.type \in {"ResponseReachedSpider", "RequestErrback"},
         UNCHANGED <<scheduled, slotted>>,
         \/ Emits(s, {})
         \/ \E t \in {"ResultsLeftSpider", "SpiderError"} :
              Emits(s, {Sig(t, s.request, s.response)})
  PROVE  /\ s.request \in Requests /\ Stage[s.request] = "answered"
         /\ \E to \in {"after", "over"} : Stage' = [Stage EXCEPT ![s.request] = to]
<1>1. StageAt(s) = "answered"
  BY DEF StageAt, BeforeFetch, Late
<1>2. CASE Emits(s, {})
  BY <1>1, <1>2, ComesToEnd
<1>3. ASSUME NEW t \in {"ResultsLeftSpider", "SpiderError"},
             Emits(s, {Sig(t, s.request, s.response)})
      PROVE  /\ s.request \in Requests /\ Stage[s.request] = "answered"
             /\ Stage' = [Stage EXCEPT ![s.request] = "after"]
  <2> DEFINE n == Sig(t, s.request, s.response)
  <2>1. n.type = t /\ n.request = s.request
    BY MadeFrom
  <2>2. StageAt(n) = "after"
    BY <2>1 DEF StageAt, BeforeFetch, Late
  <2> HIDE DEF n
  <2> QED
    BY <1>1, <1>3, <2>1, <2>2, MovesOn DEF n
<1> QED
  BY <1>2, <1>3

LEMMA LifeResponseReachedSpider ==
  ASSUME IInv, IInv', NEW s \in signals, ResponseReachedSpider(s)
  PROVE  Life!Next
<1> DEFINE r == s.request
<1>1. /\ s.type = "ResponseReachedSpider"
      /\ called' = [called EXCEPT ![r] = Append(@, "callback")]
      /\ UNCHANGED <<scheduled, slotted, counters, fetches, told>>
      /\ \/ Emits(s, {})
         \/ \E t \in {"ResultsLeftSpider", "SpiderError"} : Emits(s, {Sig(t, r, s.response)})
  BY DEF ResponseReachedSpider
<1>2. called[r] = <<>>
  BY <1>1 DEF IInv, SignalOK, Late
<1>3. called' = [called EXCEPT ![r] = <<"callback">>]
  BY <1>1, <1>2
<1>4. PICK to \in {"after", "over"} : Stage' = [Stage EXCEPT ![r] = to]
  BY <1>1, StageAfterCall
<1>5. r \in Requests /\ Stage[r] = "answered"
  BY <1>1, StageAfterCall
<1>6. "callback" \in {"callback", "errback"} /\ "callback" # "errback"
  OBVIOUS
<1> QED
  BY <1>1, <1>3, <1>4, <1>5, <1>6, Hears

LEMMA LifeRequestErrback ==
  ASSUME IInv, IInv', NEW s \in signals, RequestErrback(s)
  PROVE  Life!Next
<1> DEFINE r == s.request
<1>1. /\ s.type = "RequestErrback"
      /\ UNCHANGED <<scheduled, slotted, counters, fetches, told>>
      /\ \/ Emits(s, {})
         \/ \E t \in {"ResultsLeftSpider", "SpiderError"} : Emits(s, {Sig(t, r, s.response)})
  BY DEF RequestErrback
<1>2. PICK to \in {"after", "over"} : Stage' = [Stage EXCEPT ![r] = to]
  BY <1>1, StageAfterCall
<1>3. r \in Requests /\ Stage[r] = "answered"
  BY <1>1, StageAfterCall
<1>4. CASE r \in HasErrback
  <2>1. called[r] = <<>>
    BY <1>1 DEF IInv, SignalOK, Late
  <2>2. called' = [called EXCEPT ![r] = <<"errback">>]
    BY <1>4, <2>1 DEF RequestErrback
  <2> QED
    BY <1>1, <1>2, <1>3, <1>4, <2>2, Hears
<1>5. CASE r \notin HasErrback
  <2>1. UNCHANGED <<called, Anew, Told>>
    BY <1>1, <1>5 DEF RequestErrback, Anew, Told, counters
  <2> QED
    BY <1>1, <1>2, <1>3, <1>5, <2>1
    DEF Life!Next, Life!PassOver, Life!Passes, Stage, Anew, Told
<1> QED
  BY <1>4, <1>5

LEMMA LifeResultsLeftSpider ==
  ASSUME IInv, IInv', NEW s \in signals, ResultsLeftSpider(s)
  PROVE  UNCHANGED Life!vars
<1>1. CASE Dies
  BY <1>1, DiesUnseen
<1>2. CASE ~Dies
  <2>1. PICK t \in {"ResultsLeftSpiderMiddleware", "SpiderError"} :
          Emits(s, {Sig(t, s.request, s.response)})
    BY <1>2 DEF ResultsLeftSpider
  <2>2. UNCHANGED <<scheduled, slotted, counters, observers>>
    BY <1>2 DEF ResultsLeftSpider
  <2> DEFINE n == Sig(t, s.request, s.response)
  <2>3. n.type = t /\ n.request = s.request
    BY MadeFrom
  <2>4. StageAt(n) = StageAt(s)
    BY <2>3 DEF StageAt, BeforeFetch, Late, ResultsLeftSpider
  <2> HIDE DEF n
  <2> QED
    BY <2>1, <2>2, <2>3, <2>4, SameStage DEF n
<1> QED
  BY <1>1, <1>2

LEMMA LifeResultsLeave ==
  ASSUME IInv, IInv', NEW s \in signals, ResultsLeftSpiderMiddleware(s)
  PROVE  Life!Next
<1>1. /\ s.type = "ResultsLeftSpiderMiddleware" /\ Emits(s, {})
      /\ UNCHANGED <<scheduled, slotted, counters, observers>>
  BY DEF ResultsLeftSpiderMiddleware, OnlyEmits
<1>2. StageAt(s) = "after"
  BY <1>1 DEF StageAt, BeforeFetch, Late
<1>3. /\ s.request \in Requests /\ Stage[s.request] = "after"
      /\ Stage' = [Stage EXCEPT ![s.request] = "over"]
  BY <1>1, <1>2, ComesToEnd
<1>4. UNCHANGED <<Anew, Told, fetches, called>>
  BY <1>1 DEF Anew, Told, counters, observers
<1> QED
  BY <1>3, <1>4 DEF Life!Next, Life!End, Life!Passes, Stage, Anew, Told

LEMMA LifeSpiderError ==
  ASSUME IInv, IInv', NEW s \in signals, SpiderError(s)
  PROVE  Life!Next \/ UNCHANGED Life!vars
<1>1. s.type = "SpiderError" /\ s.type \notin BeforeFetch
  BY DEF SpiderError, BeforeFetch
<1>2. ASSUME NEW k \in ProcessSpiderError(s),
             OnlyEmits(s, {[Sig("ResultsLeftSpider", s.request, s.response) EXCEPT
                              !.index = k - 1]})
      PROVE  UNCHANGED Life!vars
  <2> DEFINE n == [Sig("ResultsLeftSpider", s.request, s.response) EXCEPT !.index = k - 1]
  <2>1. n.type = "ResultsLeftSpider" /\ n.request = s.request
    BY DEF Sig
  <2>2. Emits(s, {n}) /\ UNCHANGED <<scheduled, slotted, counters, observers>>
    BY <1>2 DEF OnlyEmits
  <2> HIDE DEF n
  <2>3. StageAt(n) = StageAt(s)
    BY <1>1, <2>1 DEF StageAt, BeforeFetch, Late
  <2> QED
    BY <2>1, <2>2, <2>3, SameStage
<1>3. CASE Unhandled(s) /\ UNCHANGED <<scheduled, slotted, counters, fatal, fetches, called>>
  BY <1>1, <1>3, Fails DEF Unhandled
<1>4. CASE Dies
  BY <1>4, DiesUnseen
<1> QED
  BY <1>2, <1>3, <1>4 DEF SpiderError, NoResultsFor

LEMMA InitLife == Init => Life!Init
<1> SUFFICES ASSUME Init PROVE Life!Init
  OBVIOUS
<1>1. IInv
  BY InitInv
<1>2. \A r \in Requests : StageOf(r) = "due"
  <2> SUFFICES ASSUME NEW r \in Requests PROVE StageOf(r) = "due"
    OBVIOUS
  <2>1. PICK s : s = Sig("RequestLeftEngine", r, "nil")
    OBVIOUS
  <2>2. s \in signals /\ s.request = r /\ s.type = "RequestLeftEngine"
    BY <2>1, MadeFrom DEF Init
  <2> QED
    BY <1>1, <2>2, StagesNow DEF Stages, StageAt, BeforeFetch
<1>3. \A r \in Requests : retryTimes[r] + returns[r] = 0 /\ told[r] \ {"timeout"} = {}
  BY DEF Init
<1> QED
  BY <1>2, <1>3 DEF Init, Life!Init

LEMMA StepLife == IInv /\ IInv' /\ [Next]_vars => [Life!Next]_(Life!vars)
<1> SUFFICES ASSUME IInv, IInv', [Next]_vars PROVE Life!Next \/ UNCHANGED Life!vars
  OBVIOUS
<1>1. ASSUME NEW s \in signals, Handle(s) PROVE Life!Next \/ UNCHANGED Life!vars
  BY <1>1, LifeRequestLeftEngine, LifePassesOn, LifeDownloaderMiddleware, LifeDownloader,
     LifeResponseLeftDownloader, LifeDownloaderError, LifeSpiderMiddleware,
     LifeResponseReachedSpider, LifeRequestErrback, LifeResultsLeftSpider,
     LifeResultsLeave, LifeSpiderError DEF Handle
<1>2. ASSUME NEW r \in Requests, NextRequest(r) \/ PopRequest(r)
      PROVE  UNCHANGED Life!vars
  BY <1>2, LifeStores
<1>3. CASE UNCHANGED vars
  <2>1. Stage' = Stage
    BY <1>3 DEF vars, places, Stage, StageOf
  <2> QED
    BY <1>3, <2>1, Unseen DEF vars
<1> QED
  BY <1>1, <1>2, <1>3 DEF Next

\* The handlers of the engine together give each request the life of RequestLife, for any
\* requests, errbacks, chains of middlewares and numbers of retries: the spider hears of it
\* once and after its last download, and what is over is not brought back.
THEOREM Refinement == Spec => ImplementsRequestLife
BY InitLife, StepLife, Invariance, PTL DEF Spec, ImplementsRequestLife, Life!Spec

=============================================================================
