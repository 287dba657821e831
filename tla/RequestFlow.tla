---------------------------- MODULE RequestFlow ----------------------------
(***************************************************************************)
(* The way of a request through the handlers of engine.go, from            *)
(* RequestLeftEngine to the results of its callback or its errback, with   *)
(* every route an error can take. Engine has the same handlers folded      *)
(* together; here each is an action.                                       *)
(*                                                                         *)
(* A handler takes its signal and emits the next one, which the signal     *)
(* manager delivers in any order with those of other requests. What the    *)
(* middleware managers answer is a set: what the built-in middlewares      *)
(* decide (Retry, HttpError, Depth), and what user middlewares may answer  *)
(* instead (they do not replace a response by one of another status).      *)
(* Callbacks and errbacks return any value or panic with an error. The     *)
(* signals that no handler of the engine takes are recorded in told        *)
(* (ErrorUnhandled) or left out (RequestDropped, which goes out in         *)
(* addition to the rest).                                                  *)
(***************************************************************************)
EXTENDS Integers, FiniteSets, Sequences

CONSTANTS
  Requests,
  HasErrback,      \* requests whose Errback is set
  HandlesStatus,   \* requests that take any status: handle_httpstatus_all
  DontRetry,       \* requests with dont_retry
  FilterEnabled,   \* DUPE_FILTER_ENABLED
  MaxRetryTimes,   \* max_retry_times of each request's Ctx (0 if negative), or RETRY_TIMES
  MaxReturns,      \* bound: requests that user middlewares hand back, for each request
  NumMiddlewares,  \* Len of the spider middlewares, which have the indexes from 0 on
  DepthAt,         \* the index of Depth among them
  Failing,         \* those whose ProcessSpiderOutput may panic, or give a nil
  Taking           \* those whose ProcessSpiderError may give results

ASSUME FlowAssumption ==
  /\ IsFiniteSet(Requests)
  /\ HasErrback \subseteq Requests /\ HandlesStatus \subseteq Requests
  /\ DontRetry \subseteq Requests
  /\ FilterEnabled \in BOOLEAN
  /\ MaxRetryTimes \in [Requests -> Nat]
  /\ MaxReturns \in Nat /\ NumMiddlewares \in Nat
  /\ Failing \subseteq 0..(NumMiddlewares - 1) /\ Taking \subseteq 0..(NumMiddlewares - 1)
  /\ DepthAt \in Int

VARIABLES
  signals,      \* emitted, their handler not yet run
  scheduled,    \* requests in the scheduler
  slotted,      \* requests in the request slots' queues
  seen,         \* requests whose fingerprint the filter has
  dontFilter,
  retryTimes,   \* "retry_times" of Request.Ctx
  returns,      \* requests handed back by user middlewares
  fatal,        \* a panic or a Fatal log has ended the program
  fetches,      \* observer: downloads of each request
  called,       \* observer: calls of the callback and the errback, in order
  told          \* observer: what the program has told of each request

places == <<signals, scheduled, slotted>>
counters == <<seen, dontFilter, retryTimes, returns>>
observers == <<fetches, called, told>>
vars == <<places, counters, fatal, observers>>

\* What Retry retries, what HttpError refuses, and what the callback gets.
Statuses == {"retryable", "refused", "ok"}

NeedsResponse ==
  {"ResponseLeftDownloader", "ResponseLeftDownloaderMiddleware",
   "ResponseReachedSpiderMiddleware", "ResponseReachedSpider"}

TakesAny == {"ResultsLeftSpider", "ResultsLeftSpiderMiddleware", "SpiderError",
             "RequestErrback"}

OfRequest == {"RequestLeftEngine", "RequestLeftScheduler",
              "RequestReachedDownloaderMiddleware", "RequestReachedDownloader",
              "DownloaderError"}

Senders == {"engine", "downloader", "process_request", "process_response",
            "process_error", "process_spider_input"}

\* The index of the last spider middleware, the first to see the results of a callback.
Last == NumMiddlewares - 1

\* The error: "timeout" is any that ErrorToReason maps into RETRY_REASONS. The index: the
\* middleware from which ProcessSpiderOutput is to go on.
Signal ==
  [type : NeedsResponse \cup TakesAny \cup OfRequest, request : Requests,
   response : Statuses \cup {"nil"}, sender : Senders,
   error : {"none", "timeout", "other"}, index : -1..Last]

Sig(t, r, resp) ==
  [type |-> t, request |-> r, response |-> resp, sender |-> "engine", error |-> "none",
   index |-> Last]

TypeOK ==
  /\ signals \subseteq Signal
  /\ scheduled \subseteq Requests /\ slotted \subseteq Requests
  /\ seen \subseteq Requests /\ dontFilter \subseteq Requests
  /\ retryTimes \in [Requests -> Nat] /\ \A r \in Requests : retryTimes[r] <= MaxRetryTimes[r]
  /\ returns \in [Requests -> 0..MaxReturns]
  /\ fatal \in BOOLEAN
  /\ fetches \in [Requests -> Nat]
  /\ called \in [Requests -> Seq({"callback", "errback"})]
  /\ told \in [Requests -> SUBSET {"filtered", "unhandled", "timeout"}]

Init ==
  /\ signals = {Sig("RequestLeftEngine", r, "nil") : r \in Requests}
  /\ scheduled = {} /\ slotted = {} /\ seen = {} /\ dontFilter = {}
  /\ retryTimes = [r \in Requests |-> 0]
  /\ returns = [r \in Requests |-> 0]
  /\ fatal = FALSE
  /\ fetches = [r \in Requests |-> 0]
  /\ called = [r \in Requests |-> <<>>]
  /\ told = [r \in Requests |-> {}]

-----------------------------------------------------------------------------
(* What several handlers do.                                               *)

\* The handler of s ends, having emitted the signals of new.
Emits(s, new) == signals' = (signals \ {s}) \cup new

Tells(r, what) == told' = [told EXCEPT ![r] = @ \cup what]

Unhandled(s) == Emits(s, {}) /\ Tells(s.request, {"unhandled"})

CanRetry(r) == retryTimes[r] < MaxRetryTimes[r]

\* Mutant: retry_times is not written back.
RetriedUncounted(s) ==
  LET r == s.request IN
  /\ CanRetry(r)
  /\ dontFilter' = dontFilter \cup {r}
  /\ Emits(s, {Sig("RequestLeftEngine", r, "nil")})
  /\ UNCHANGED <<scheduled, slotted, seen, retryTimes, returns, fatal, observers>>

\* getRetryRequest, and the request back at the engine.
Retried(s) ==
  LET r == s.request IN
  /\ CanRetry(r)
  /\ retryTimes' = [retryTimes EXCEPT ![r] = @ + 1]
  /\ dontFilter' = dontFilter \cup {r}
  /\ Emits(s, {Sig("RequestLeftEngine", r, "nil")})
  /\ UNCHANGED <<scheduled, slotted, seen, returns, fatal, observers>>

\* A user middleware hands back the request itself.
HandedBack(s) ==
  /\ returns[s.request] < MaxReturns
  /\ returns' = [returns EXCEPT ![s.request] = @ + 1]
  /\ Emits(s, {Sig("RequestLeftEngine", s.request, "nil")})
  /\ UNCHANGED <<scheduled, slotted, seen, dontFilter, retryTimes, fatal, observers>>

\* A Fatal log, or a panic outside the managers.
Dies ==
  /\ fatal' = TRUE
  /\ UNCHANGED <<places, counters, observers>>

OnlyEmits(s, new) ==
  /\ Emits(s, new)
  /\ UNCHANGED <<scheduled, slotted, counters, fatal, observers>>

-----------------------------------------------------------------------------
(* What the middleware managers answer. A panic in a middleware is an      *)
(* "error"; "invalid" is a value that the engine refuses with a Fatal log, *)
(* or a nil where it needs a value.                                        *)

\* Retry's ProcessResponse, and its ProcessError, which does not ask for dont_retry.
RetriesResponse(s) ==
  s.response = "retryable" /\ s.request \notin DontRetry /\ CanRetry(s.request)

RetriesError(s) == s.error = "timeout" /\ CanRetry(s.request)

\* HttpError's ProcessSpiderInput lets the response through.
StatusPasses(s) == s.response = "ok" \/ s.request \in HandlesStatus

ProcessRequest(s) == {"nil", "request", "response", "error", "invalid"}

ProcessResponse(s) ==
  {"request", "error", "invalid", IF RetriesResponse(s) THEN "retry" ELSE "response"}

ProcessError(s) ==
  {"request", "response", "error", "invalid", IF RetriesError(s) THEN "retry" ELSE "nil"}

ProcessSpiderInput(s) == {"error", IF StatusPasses(s) THEN "nil" ELSE "error"}

\* The middlewares that a call of ProcessSpiderOutput, which goes down from the signal's
\* index, may end at.
ProcessSpiderOutput(s) == {k \in Failing : k <= s.index}

\* The indexes that ProcessSpiderError may give with results. It goes down from the last
\* middleware, whichever of them the error has come from.
ProcessSpiderError(s) == Taking

-----------------------------------------------------------------------------
(* The scheduler and the slots.                                            *)

\* requestLeftEngine, EnqueueRequest. A request not seen before may have a twin
\* that has been.
RequestLeftEngine(s) ==
  LET r == s.request IN
  /\ s.type = "RequestLeftEngine"
  /\ Emits(s, {})
  /\ \/ /\ FilterEnabled /\ r \notin dontFilter
        /\ Tells(r, {"filtered"})
        /\ UNCHANGED <<scheduled, seen>>
     \/ /\ FilterEnabled /\ r \notin dontFilter => r \notin seen
        /\ scheduled' = scheduled \cup {r}
        /\ seen' = IF FilterEnabled /\ r \notin dontFilter THEN seen \cup {r} ELSE seen
        /\ UNCHANGED told
  /\ UNCHANGED <<slotted, dontFilter, retryTimes, returns, fatal, fetches, called>>

\* processScheduler.
NextRequest(r) ==
  /\ r \in scheduled
  /\ scheduled' = scheduled \ {r}
  /\ signals' = signals \cup {Sig("RequestLeftScheduler", r, "nil")}
  /\ UNCHANGED <<slotted, counters, fatal, observers>>

\* processDownloader.
PopRequest(r) ==
  /\ r \in slotted
  /\ slotted' = slotted \ {r}
  /\ signals' = signals \cup {Sig("RequestReachedDownloader", r, "nil")}
  /\ UNCHANGED <<scheduled, counters, fatal, observers>>

-----------------------------------------------------------------------------
(* The downloader's side.                                                  *)

PassesOn(s, from, to) ==
  /\ s.type = from
  /\ OnlyEmits(s, {Sig(to, s.request, s.response)})

RequestLeftScheduler(s) ==
  PassesOn(s, "RequestLeftScheduler", "RequestReachedDownloaderMiddleware")

RequestReachedDownloaderMiddleware(s) ==
  LET r == s.request IN
  /\ s.type = "RequestReachedDownloaderMiddleware"
  /\ \E answer \in ProcessRequest(s) :
       \/ /\ answer = "nil"
          /\ Emits(s, {})
          /\ slotted' = slotted \cup {r}
          /\ UNCHANGED <<scheduled, counters, fatal, observers>>
       \/ answer = "request" /\ HandedBack(s)
       \/ /\ answer = "response"
          /\ \E st \in Statuses : OnlyEmits(s, {Sig("ResponseLeftDownloader", r, st)})
       \/ /\ answer = "error"
          /\ OnlyEmits(s, {[Sig("DownloaderError", r, "nil") EXCEPT
                              !.sender = "process_request", !.error = "other"]})
       \/ answer = "invalid" /\ Dies

FetchErrors(r) ==
  {[Sig("DownloaderError", r, "nil") EXCEPT !.sender = "downloader", !.error = e] :
     e \in {"timeout", "other"}}

\* Fetch; the Finish of the request's slot is in RequestSlots.
RequestReachedDownloader(s) ==
  LET r == s.request IN
  /\ s.type = "RequestReachedDownloader"
  /\ fetches' = [fetches EXCEPT ![r] = @ + 1]
  /\ \/ \E e \in FetchErrors(r) : Emits(s, {e})
     \/ \E st \in Statuses : Emits(s, {Sig("ResponseLeftDownloader", r, st)})
  /\ UNCHANGED <<scheduled, slotted, counters, fatal, called, told>>

ResponseLeftDownloader(s) ==
  LET r == s.request IN
  /\ s.type = "ResponseLeftDownloader"
  /\ \E answer \in ProcessResponse(s) :
       \/ answer = "retry" /\ Retried(s)
       \/ answer = "request" /\ HandedBack(s)
       \/ /\ answer = "response"
          /\ OnlyEmits(s, {Sig("ResponseLeftDownloaderMiddleware", r, s.response)})
       \/ /\ answer = "error"
          /\ OnlyEmits(s, {[Sig("RequestErrback", r, s.response) EXCEPT
                              !.sender = "process_response"]})
       \/ answer = "invalid" /\ Dies

\* Mutant: no return after the errback.
NobodyTakesTold(s) ==
  LET errback == [Sig("RequestErrback", s.request, "nil") EXCEPT !.sender = "process_error"]
  IN
  /\ Emits(s, IF s.sender = "process_request" THEN {errback} ELSE {})
  /\ Tells(s.request, {"unhandled"})
  /\ UNCHANGED <<scheduled, slotted, counters, fatal, fetches, called>>

\* Nobody has taken the error: the errback gets that of ProcessRequest, and nobody
\* that of the downloader.
NobodyTakes(s) ==
  LET r == s.request IN
  /\ IF s.sender = "process_request"
       THEN /\ Emits(s, {[Sig("RequestErrback", r, "nil") EXCEPT
                            !.sender = "process_error"]})
            /\ UNCHANGED told
       ELSE /\ Emits(s, {})
            /\ Tells(r, {"unhandled"} \cup ({s.error} \ {"other"}))
  /\ UNCHANGED <<scheduled, slotted, counters, fatal, fetches, called>>

\* Mutant: an error that nobody takes is dropped.
NobodyTakesSilent(s) == OnlyEmits(s, {})

DownloaderErrorSilent(s) ==
  /\ s.type = "DownloaderError"
  /\ \/ "retry" \in ProcessError(s) /\ Retried(s)
     \/ HandedBack(s)
     \/ NobodyTakesSilent(s)

DownloaderError(s) ==
  /\ s.type = "DownloaderError"
  /\ \E answer \in ProcessError(s) :
       \/ answer = "retry" /\ Retried(s)
       \/ answer = "request" /\ HandedBack(s)
       \/ /\ answer = "response"
          /\ \E st \in Statuses :
               OnlyEmits(s, {Sig("ResponseLeftDownloader", s.request, st)})
       \/ answer = "nil" /\ NobodyTakes(s)
       \/ /\ answer = "error"
          /\ Unhandled(s)
          /\ UNCHANGED <<scheduled, slotted, counters, fatal, fetches, called>>
       \/ answer = "invalid" /\ Dies

-----------------------------------------------------------------------------
(* The spider's side.                                                      *)

ResponseLeftDownloaderMiddleware(s) ==
  PassesOn(s, "ResponseLeftDownloaderMiddleware", "ResponseReachedSpiderMiddleware")

\* Mutant: no return after the errback.
ResponseReachedBoth(s) ==
  LET r == s.request
      errback == [Sig("RequestErrback", r, s.response) EXCEPT
                    !.sender = "process_spider_input"]
  IN
  /\ s.type = "ResponseReachedSpiderMiddleware"
  /\ OnlyEmits(s, {errback, Sig("ResponseReachedSpider", r, s.response)})

ResponseReachedSpiderMiddleware(s) ==
  LET r == s.request IN
  /\ s.type = "ResponseReachedSpiderMiddleware"
  /\ \E answer \in ProcessSpiderInput(s) :
       \/ /\ answer = "nil"
          /\ OnlyEmits(s, {Sig("ResponseReachedSpider", r, s.response)})
       \/ /\ answer = "error"
          /\ OnlyEmits(s, {[Sig("RequestErrback", r, s.response) EXCEPT
                              !.sender = "process_spider_input"]})

\* The callback returns results or nil, or panics with an error, or with a value that
\* is none: then the type assertion in the deferred function panics itself.
ResponseReachedSpider(s) ==
  LET r == s.request IN
  /\ s.type = "ResponseReachedSpider"
  /\ called' = [called EXCEPT ![r] = Append(@, "callback")]
  /\ \/ Emits(s, {Sig("ResultsLeftSpider", r, s.response)}) /\ fatal' = fatal
     \/ Emits(s, {}) /\ fatal' \in {fatal, TRUE}
     \/ Emits(s, {Sig("SpiderError", r, s.response)}) /\ fatal' = fatal
  /\ UNCHANGED <<scheduled, slotted, counters, fetches, told>>

\* Mutant: whatever the sender.
AnyErrorGoesOn(s) == s.type = "RequestErrback"

ErrorGoesOn(s) == s.sender = "process_spider_input"

\* The errback returns results or nil, or panics. If it panics or is not set, the
\* error goes on as a SpiderError when it came from ProcessSpiderInput, and is only
\* logged when it came from anywhere else.
RequestErrback(s) ==
  LET r == s.request IN
  /\ s.type = "RequestErrback"
  /\ called' = IF r \in HasErrback THEN [called EXCEPT ![r] = Append(@, "errback")]
                                   ELSE called
  /\ \/ r \in HasErrback /\ Emits(s, {Sig("ResultsLeftSpider", r, s.response)})
     \/ r \in HasErrback /\ Emits(s, {})
     \/ Emits(s, IF ErrorGoesOn(s) THEN {Sig("SpiderError", r, s.response)} ELSE {})
  /\ UNCHANGED <<scheduled, slotted, counters, fatal, fetches, told>>

\* Depth ranges over the results in a goroutine of its own, started when k is not before
\* it in the chain, and reads the response's Ctx for each request among them.
DepthDerefs(s, k) == s.response = "nil" /\ k < DepthAt /\ DepthAt <= s.index

ResultsLeftSpider(s) ==
  /\ s.type = "ResultsLeftSpider"
  /\ \/ /\ Emits(s, {Sig("ResultsLeftSpiderMiddleware", s.request, s.response)})
        /\ fatal' \in {FALSE, DepthDerefs(s, -1)}
        /\ UNCHANGED <<scheduled, slotted, counters, observers>>
     \/ \E k \in ProcessSpiderOutput(s) :
          /\ Emits(s, {Sig("SpiderError", s.request, s.response)})
          /\ fatal' \in {FALSE, DepthDerefs(s, k)}
          /\ UNCHANGED <<scheduled, slotted, counters, observers>>
     \/ ProcessSpiderOutput(s) # {} /\ Dies

\* The results go out; what they hold starts its own way.
ResultsLeftSpiderMiddleware(s) ==
  /\ s.type = "ResultsLeftSpiderMiddleware"
  /\ OnlyEmits(s, {})

\* An error that nobody takes is reported with the response's request, which
\* dereferences the response; a log before that does so with the middleware's index, and
\* there is none in an empty chain.
NoResultsFor(s) ==
  \/ /\ s.response # "nil" /\ NumMiddlewares > 0
     /\ Unhandled(s)
     /\ UNCHANGED <<scheduled, slotted, counters, fatal, fetches, called>>
  \/ (s.response = "nil" \/ NumMiddlewares = 0) /\ Dies

\* Mutant: the middleware that has given the results sees them, too.
SpiderErrorSeesOwn(s) ==
  /\ s.type = "SpiderError"
  /\ \/ \E k \in ProcessSpiderError(s) :
          OnlyEmits(s, {[Sig("ResultsLeftSpider", s.request, s.response) EXCEPT !.index = k]})
     \/ NoResultsFor(s)

\* Results go on at the middleware before the one that has given them.
SpiderError(s) ==
  /\ s.type = "SpiderError"
  /\ \/ \E k \in ProcessSpiderError(s) :
          OnlyEmits(s, {[Sig("ResultsLeftSpider", s.request, s.response) EXCEPT
                           !.index = k - 1]})
     \/ NoResultsFor(s)

-----------------------------------------------------------------------------
Handle(s) ==
  \/ RequestLeftEngine(s) \/ RequestLeftScheduler(s)
  \/ RequestReachedDownloaderMiddleware(s) \/ RequestReachedDownloader(s)
  \/ ResponseLeftDownloader(s) \/ DownloaderError(s)
  \/ ResponseLeftDownloaderMiddleware(s) \/ ResponseReachedSpiderMiddleware(s)
  \/ ResponseReachedSpider(s) \/ RequestErrback(s)
  \/ ResultsLeftSpider(s) \/ ResultsLeftSpiderMiddleware(s) \/ SpiderError(s)

Next ==
  /\ ~fatal
  /\ \/ \E s \in signals : Handle(s)
     \/ \E r \in Requests : NextRequest(r) \/ PopRequest(r)

Spec == Init /\ [][Next]_vars

\* Goroutines are scheduled, and the loops of the engine keep taking requests.
Fairness ==
  \A r \in Requests :
    WF_vars(/\ ~fatal
            /\ \/ NextRequest(r) \/ PopRequest(r)
               \/ \E s \in signals : s.request = r /\ Handle(s))

FairSpec == Spec /\ Fairness

-----------------------------------------------------------------------------
Settled(r) ==
  /\ r \notin scheduled \cup slotted
  /\ \A s \in signals : s.request # r

\* The spider hears of a request once: by its callback or by its errback, never both,
\* whatever was retried and wherever an error was raised.
CalledOnce == \A r \in Requests : Len(called[r]) <= 1

\* A handler that reads the response has one. It may be missing only from what an
\* errback that was given none has returned.
ResponseIsThere ==
  \A s \in signals :
    s.response = "nil" =>
      \/ s.type \in OfRequest \cup {"RequestErrback"}
      \/ called[s.request] = <<"errback">>

\* A request whose Errback is set does not end in silence: its callback or errback
\* was called, or it was filtered, or an ErrorUnhandled went out.
NothingVanishes ==
  \A r \in HasErrback :
    Settled(r) => called[r] # <<>> \/ told[r] \cap {"filtered", "unhandled"} # {}

\* ProcessResponse and ProcessError draw on one budget of retries.
FetchesBounded ==
  \A r \in Requests : fetches[r] <= 1 + MaxRetryTimes[r] + returns[r]

\* The signals on whose way there is still a download, and those that come after the
\* callback or the errback.
BeforeFetch == {"RequestLeftEngine", "RequestLeftScheduler",
                "RequestReachedDownloaderMiddleware", "RequestReachedDownloader"}

Late == {"ResultsLeftSpider", "ResultsLeftSpiderMiddleware", "SpiderError"}

\* How far a request is, by the place that it is in.
StageOf(r) ==
  LET Types == {s.type : s \in {t \in signals : t.request = r}} IN
  IF r \in scheduled \cup slotted \/ Types \cap BeforeFetch # {} THEN "due"
  ELSE IF Types \cap Late # {} THEN "after"
  ELSE IF Types # {} THEN "answered" ELSE "over"

Life == INSTANCE RequestLife WITH
  MaxAnew <- [r \in Requests |-> MaxRetryTimes[r] + MaxReturns],
  stage <- [r \in Requests |-> StageOf(r)],
  anew <- [r \in Requests |-> retryTimes[r] + returns[r]],
  heard <- called,
  told <- [r \in Requests |-> told[r] \ {"timeout"}]

\* The handlers together give each request one life: whatever order its signals and those
\* of others are handled in, it is not downloaded or retried once the spider has heard of
\* it, it is over in one of the ways allowed, and no handler brings it back.
ImplementsRequestLife == Life!Spec

\* Errors in results do not go round for ever: every request comes to an end, if a
\* middleware that gives results for an error has none before it that may fail on these.
EverySettles ==
  (\A k \in Failing, j \in Taking : j <= k)
    => \A r \in Requests : <>[](Settled(r) \/ fatal)

\* request.go says that Errback is called for errors that include a timeout.
TimeoutReachesErrback ==
  \A r \in HasErrback : "timeout" \in told[r] => called[r] = <<"errback">>
=============================================================================
