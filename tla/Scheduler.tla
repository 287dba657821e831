----------------------------- MODULE Scheduler -----------------------------
(***************************************************************************)
(* SchedulerImpl and DupeFilterImpl of scheduler.go, the priority queue of *)
(* queue.go, and the request that RetryDownloaderMiddleware hands back.    *)
(*                                                                         *)
(* EnqueueRequest runs in the handlers of RequestLeftEngine, one goroutine *)
(* per request, HasPendingRequests and NextRequest in processScheduler.    *)
(* Nothing locks: the set of fingerprints is a Go map, on which a write    *)
(* that overlaps another access ends the program or loses its effect, and  *)
(* the queue is a binary heap in a slice, which two overlapping operations *)
(* leave with any of the elements it ever held, or with a nil. From then   *)
(* on the heap is not tracked: each reader finds what it may find.         *)
(***************************************************************************)
EXTENDS Integers, FiniteSets

CONSTANTS
  Requests,
  Fingerprint,     \* function from Requests: Request.Fingerprint
  InitialPriority, \* [Requests -> Int]
  Unfiltered,      \* requests whose DontFilter is set by the spider
  FilterEnabled,   \* DUPE_FILTER_ENABLED
  Lifo,            \* PRIORITY_QUEUE_STRUCT is LIFOPriorityQueue (the default)
  PriorityAdjust,  \* priority_adjust of each request's Ctx, or RETRY_PRIORITY_ADJUST
  MaxRetryTimes    \* max_retry_times of its Ctx (0 if negative), or RETRY_TIMES

ASSUME SchedulerAssumption ==
  /\ IsFiniteSet(Requests)
  /\ InitialPriority \in [Requests -> Int]
  /\ Unfiltered \subseteq Requests
  /\ FilterEnabled \in BOOLEAN /\ Lifo \in BOOLEAN
  /\ PriorityAdjust \in [Requests -> Int] /\ MaxRetryTimes \in [Requests -> Nat]

VARIABLES
  at,           \* where each request is
  dontFilter,   \* the requests with DontFilter
  priority,     \* Request.Priority
  retryTimes,   \* "retry_times" of Request.Ctx
  fingerprints, \* DupeFilterImpl.fingerprints
  heap,         \* BasePriorityQueue.queue: a set of elements
  counter,      \* BasePriorityQueue.counter
  polling,      \* processScheduler has seen HasPendingRequests TRUE
  fatal,        \* the runtime has ended the program
  pushed,       \* observer: every element ever pushed, in the order of the pushes
  passed,       \* observer: requests that a first EnqueueRequest has accepted
  overlapped,   \* observer: requests whose EnqueueRequest overlapped another one
  raced         \* observer: two operations on the heap have overlapped

requests == <<at, dontFilter, priority, retryTimes>>
observers == <<pushed, passed, overlapped, raced>>
vars == <<requests, fingerprints, heap, counter, polling, fatal, observers>>

\* "adding": not seen, before fingerprints.Add. "pushing": before pq.Push.
\* "inserting": the heap is being changed.
Calling == {"adding", "pushing", "inserting"}

Element(r, t) == [value |-> r, priority |-> priority[r], timestamp |-> t]

TypeOK ==
  /\ at \in [Requests -> {"new", "queued", "filtered", "taken"} \cup Calling]
  /\ dontFilter \subseteq Requests
  /\ priority \in [Requests -> Int]
  /\ retryTimes \in [Requests -> Nat] /\ \A r \in Requests : retryTimes[r] <= MaxRetryTimes[r]
  /\ fingerprints \subseteq {Fingerprint[r] : r \in Requests}
  /\ heap \subseteq pushed
  /\ pushed \subseteq [value : Requests, priority : Int, timestamp : 1..counter]
  /\ counter \in Nat
  /\ polling \in BOOLEAN /\ fatal \in BOOLEAN /\ raced \in BOOLEAN
  /\ passed \subseteq Requests /\ overlapped \subseteq Requests

Init ==
  /\ at = [r \in Requests |-> "new"]
  /\ dontFilter = Unfiltered
  /\ priority = InitialPriority
  /\ retryTimes = [r \in Requests |-> 0]
  /\ fingerprints = {} /\ heap = {} /\ counter = 0
  /\ polling = FALSE /\ fatal = FALSE
  /\ pushed = {} /\ passed = {} /\ overlapped = {} /\ raced = FALSE

Others(r, states) == {q \in Requests \ {r} : at[q] \in states}

\* A step of r's call, seen by the calls under way.
Overlaps(r) ==
  overlapped' = IF Others(r, Calling) = {} THEN overlapped
                ELSE overlapped \cup {r} \cup Others(r, Calling)

-----------------------------------------------------------------------------
(* EnqueueRequest.                                                         *)

\* Mutant: the filter is asked whether or not the request wants it.
AsksAlways(r) == FilterEnabled

\* The condition's operands, from the left: RequestSeen is not called, and the
\* fingerprint not recorded, for a request with DontFilter.
AsksFilter(r) == FilterEnabled /\ r \notin dontFilter

\* RequestSeen's Contains, or the way past the filter.
EnqueueRequest(r) ==
  /\ at[r] = "new"
  /\ at' = [at EXCEPT ![r] =
       IF ~AsksFilter(r) THEN "pushing"
       ELSE IF Fingerprint[r] \in fingerprints THEN "filtered" ELSE "adding"]
  /\ fatal' \in {FALSE, AsksFilter(r) /\ Others(r, {"adding"}) # {}}
  /\ Overlaps(r)
  /\ UNCHANGED <<dontFilter, priority, retryTimes, fingerprints, heap, counter,
                 polling, pushed, passed, raced>>

\* Mutant: the fingerprint is not recorded.
NothingAdded(r) ==
  /\ at[r] = "adding"
  /\ at' = [at EXCEPT ![r] = "pushing"]
  /\ Overlaps(r)
  /\ UNCHANGED <<dontFilter, priority, retryTimes, fingerprints, heap, counter,
                 polling, fatal, pushed, passed, raced>>

AddFingerprint(r) ==
  /\ at[r] = "adding"
  /\ at' = [at EXCEPT ![r] = "pushing"]
  /\ \/ fingerprints' = fingerprints \cup {Fingerprint[r]}
     \/ Others(r, {"adding"}) # {} /\ UNCHANGED fingerprints
  /\ fatal' \in {FALSE, Others(r, {"adding"}) # {}}
  /\ Overlaps(r)
  /\ UNCHANGED <<dontFilter, priority, retryTimes, heap, counter, polling, pushed,
                 passed, raced>>

\* The counter goes up, an increment that overlaps another one perhaps in vain;
\* the element is made, and the heap's Enqueue begins.
PushBegins(r) ==
  /\ at[r] = "pushing"
  /\ at' = [at EXCEPT ![r] = "inserting"]
  /\ counter' \in {counter + 1, IF Others(r, {"inserting"}) # {} THEN counter
                                 ELSE counter + 1}
  /\ pushed' = pushed \cup {Element(r, counter')}
  /\ raced' = (raced \/ Others(r, {"inserting"}) # {})
  /\ Overlaps(r)
  /\ UNCHANGED <<dontFilter, priority, retryTimes, fingerprints, heap, polling,
                 fatal, passed>>

\* The newest element of r.
Latest(r) ==
  CHOOSE e \in pushed :
    e.value = r /\ \A f \in pushed : f.value = r => f.timestamp <= e.timestamp

PushEnds(r) ==
  /\ at[r] = "inserting"
  /\ at' = [at EXCEPT ![r] = "queued"]
  /\ heap' = IF raced THEN {} ELSE heap \cup {Latest(r)}
  /\ passed' = IF r \in dontFilter THEN passed ELSE passed \cup {r}
  /\ Overlaps(r)
  /\ UNCHANGED <<dontFilter, priority, retryTimes, fingerprints, counter, polling,
                 fatal, pushed, raced>>

-----------------------------------------------------------------------------
(* HasPendingRequests and NextRequest, in processScheduler.                *)

\* Mutant: Len() > 1.
PendingOnlyBeyondOne ==
  /\ ~polling
  /\ Cardinality(heap) > 1 \/ (raced /\ pushed # {})
  /\ polling' = TRUE
  /\ UNCHANGED <<requests, fingerprints, heap, counter, fatal, observers>>

HasPendingRequests ==
  /\ ~polling
  /\ heap # {} \/ (raced /\ pushed # {})
  /\ polling' = TRUE
  /\ UNCHANGED <<requests, fingerprints, heap, counter, fatal, observers>>

\* Mutant: FIFO where LIFO is asked for, and the other way round.
BeforeSwapped(e, f) ==
  \/ e.priority > f.priority
  \/ /\ e.priority = f.priority
     /\ IF Lifo THEN e.timestamp < f.timestamp ELSE e.timestamp > f.timestamp

\* compare(e, f) = -1.
Before(e, f) ==
  \/ e.priority > f.priority
  \/ /\ e.priority = f.priority
     /\ IF Lifo THEN e.timestamp > f.timestamp ELSE e.timestamp < f.timestamp

\* The element that the heap gives.
IsNext(e) ==
  \/ e \in heap /\ \A f \in heap \ {e} : ~Before(f, e)
  \/ raced /\ e \in pushed

\* Mutant: the element stays in the queue.
NextRequestPeeks(e) ==
  /\ polling /\ IsNext(e)
  /\ at' = [at EXCEPT ![e.value] = IF @ = "queued" THEN "taken" ELSE @]
  /\ polling' = FALSE
  /\ UNCHANGED <<dontFilter, priority, retryTimes, fingerprints, heap, counter,
                 fatal, observers>>

\* A heap that a race has left with a nil makes Dequeue or the cast panic. After a
\* race a request may come out a second time: only its first way is followed.
NextRequest(e) ==
  /\ polling /\ IsNext(e)
  /\ raced' = (raced \/ \E q \in Requests : at[q] = "inserting")
  /\ heap' = IF raced' THEN {} ELSE heap \ {e}
  /\ at' = [at EXCEPT ![e.value] = IF @ = "queued" THEN "taken" ELSE @]
  /\ polling' = FALSE
  /\ fatal' \in {FALSE, raced'}
  /\ UNCHANGED <<dontFilter, priority, retryTimes, fingerprints, counter, pushed,
                 passed, overlapped>>

\* A race has emptied the heap: NextRequest returns nil, which the next handler
\* dereferences.
NextRequestNil ==
  /\ polling /\ raced
  /\ fatal' = TRUE
  /\ UNCHANGED <<requests, fingerprints, heap, counter, polling, observers>>

\* Mutant: the retried request goes through the filter again.
RetryFiltered(r) ==
  /\ at[r] = "taken"
  /\ retryTimes[r] < MaxRetryTimes[r]
  /\ retryTimes' = [retryTimes EXCEPT ![r] = @ + 1]
  /\ priority' = [priority EXCEPT ![r] = @ + PriorityAdjust[r]]
  /\ at' = [at EXCEPT ![r] = "new"]
  /\ UNCHANGED <<dontFilter, fingerprints, heap, counter, polling, fatal, observers>>

\* getRetryRequest: the same request comes back, past the filter.
Retry(r) ==
  /\ at[r] = "taken"
  /\ retryTimes[r] < MaxRetryTimes[r]
  /\ retryTimes' = [retryTimes EXCEPT ![r] = @ + 1]
  /\ dontFilter' = dontFilter \cup {r}
  /\ priority' = [priority EXCEPT ![r] = @ + PriorityAdjust[r]]
  /\ at' = [at EXCEPT ![r] = "new"]
  /\ UNCHANGED <<fingerprints, heap, counter, polling, fatal, observers>>

Next ==
  /\ ~fatal
  /\ \/ \E r \in Requests :
          \/ EnqueueRequest(r) \/ AddFingerprint(r) \/ PushBegins(r) \/ PushEnds(r)
          \/ Retry(r)
     \/ \E e \in pushed : NextRequest(e)
     \/ HasPendingRequests \/ NextRequestNil

Spec == Init /\ [][Next]_vars

\* A call that has begun goes on, and processScheduler keeps polling.
Fairness ==
  /\ \A r \in Requests :
       WF_vars(~fatal /\ (AddFingerprint(r) \/ PushBegins(r) \/ PushEnds(r)))
  /\ WF_vars(~fatal /\ (HasPendingRequests \/ NextRequestNil
                          \/ \E e \in pushed : NextRequest(e)))

FairSpec == Spec /\ Fairness

-----------------------------------------------------------------------------
Twins(r) == {q \in Requests \ {r} : Fingerprint[q] = Fingerprint[r]}

\* A request is filtered only if another one with its fingerprint went through the
\* filter and on to the queue, even when calls overlap; and a retried request never.
FilteredHasTwin ==
  \A r \in Requests :
    at[r] = "filtered" =>
      /\ retryTimes[r] = 0 /\ r \notin Unfiltered
      /\ \E q \in Twins(r) \ Unfiltered :
           at[q] \in {"pushing", "inserting", "queued", "taken"} \/ retryTimes[q] > 0

\* Two requests of one fingerprint pass the filter only if their calls of
\* EnqueueRequest met other calls.
DuplicateNeedsOverlap ==
  \A r \in passed : \A q \in Twins(r) \cap passed :
    FilterEnabled => r \in overlapped \/ q \in overlapped

\* The queue holds each accepted request once, and no other one.
QueueIsExact ==
  ~raced =>
    /\ \A e \in heap : at[e.value] = "queued"
    /\ \A r \in Requests :
         at[r] = "queued" => Cardinality({e \in heap : e.value = r}) = 1

\* The request taken has the highest priority, and among those of its priority it is
\* the latest (LIFO) or the earliest (FIFO) to have been pushed.
Taken(r) == at[r] = "queued" /\ at'[r] = "taken"

BestIsTaken ==
  [][\A r \in Requests : \A q \in Requests \ {r} :
       Taken(r) /\ at[q] = "queued" /\ ~raced =>
         /\ priority[q] <= priority[r]
         /\ priority[q] = priority[r] =>
              LET later == Latest(q).timestamp < Latest(r).timestamp
              IN  IF Lifo THEN later ELSE ~later]_vars

\* An accepted request is taken, unless a race has damaged the queue.
AcceptedIsTaken ==
  \A r \in Requests : at[r] = "queued" ~> (at[r] = "taken" \/ raced \/ fatal)

=============================================================================
