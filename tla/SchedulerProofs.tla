-------------------------- MODULE SchedulerProofs --------------------------
(***************************************************************************)
(* Proofs about Scheduler, for any requests, fingerprints and priorities.  *)
(***************************************************************************)
EXTENDS Scheduler, FiniteSetTheorems, TLAPS

\* A retried request does not ask the filter, nor does one that is past its test.
FilterOK ==
  /\ dontFilter = Unfiltered \cup {r \in Requests : retryTimes[r] > 0}
  /\ \A r \in Requests : at[r] = "adding" => r \notin dontFilter

\* The request is past the filter, in this call or in an earlier one.
Beyond(q) ==
  at[q] \in {"pushing", "inserting", "queued", "taken"} \/ retryTimes[q] > 0

\* Each fingerprint comes from a request that went through the filter.
FingerprintsOK ==
  \A f \in fingerprints :
    \E q \in Requests \ Unfiltered : Fingerprint[q] = f /\ Beyond(q)

\* Calls that are under way together are known to overlap.
CallsOK ==
  \A r \in Requests : \A q \in Requests \ {r} :
    at[r] \in Calling /\ at[q] \in Calling => r \in overlapped

\* A first call that has added its fingerprint.
Added(r) == r \in passed \/ (at[r] \in {"pushing", "inserting"} /\ r \notin dontFilter)

\* A first call that has found its fingerprint unseen.
First(r) == r \in passed \/ (at[r] \in Calling /\ r \notin dontFilter)

FirstsOK ==
  FilterEnabled =>
    /\ \A r \in Requests :
         Added(r) => r \in overlapped \/ Fingerprint[r] \in fingerprints
    /\ \A r \in Requests : \A q \in Twins(r) :
         First(r) /\ First(q) => r \in overlapped \/ q \in overlapped

IsLatest(e, r) ==
  /\ e \in pushed /\ e.value = r
  /\ \A f \in pushed : f.value = r => f.timestamp <= e.timestamp

PushedOK ==
  \A r \in Requests :
    at[r] \in {"inserting", "queued"} => \E e \in pushed : IsLatest(e, r)

\* While nothing has raced, elements differ in their timestamps, the latest one of a
\* request has its priority, and the heap has this one of each queued request.
HeapOK ==
  ~raced =>
    /\ \A e, f \in pushed : e.timestamp = f.timestamp => e = f
    /\ \A r \in Requests : at[r] \in {"inserting", "queued"} =>
         \A e \in pushed : IsLatest(e, r) => e.priority = priority[r]
    /\ \A e \in heap : at[e.value] = "queued" /\ IsLatest(e, e.value)
    /\ \A r \in Requests : at[r] = "queued" => \E e \in heap : e.value = r

IInv ==
  /\ TypeOK /\ FilterOK /\ FingerprintsOK /\ FilteredHasTwin
  /\ CallsOK /\ FirstsOK /\ PushedOK /\ HeapOK

-----------------------------------------------------------------------------
LEMMA LatestIs ==
  ASSUME NEW r, NEW e \in pushed, IsLatest(e, r)
  PROVE  IsLatest(Latest(r), r)
BY DEF IsLatest, Latest

LEMMA InitInv == Init => IInv
<1> SUFFICES ASSUME Init PROVE IInv
  OBVIOUS
<1> USE SchedulerAssumption DEF Init
<1>1. TypeOK
  <2>1. at \in [Requests -> {"new", "queued", "filtered", "taken"} \cup Calling]
    OBVIOUS
  <2>2. retryTimes \in [Requests -> Nat] /\ \A r \in Requests : retryTimes[r] <= MaxRetryTimes[r]
    OBVIOUS
  <2> QED
    BY <2>1, <2>2 DEF TypeOK
<1>2. FilterOK /\ FingerprintsOK /\ FilteredHasTwin
  BY DEF FilterOK, FingerprintsOK, FilteredHasTwin
<1>3. CallsOK /\ FirstsOK
  BY DEF CallsOK, FirstsOK, Added, First, Calling
<1>4. PushedOK /\ HeapOK
  BY DEF PushedOK, HeapOK
<1> QED
  BY <1>1, <1>2, <1>3, <1>4 DEF IInv

\* A request leaves the filter behind for good.
LEMMA BeyondStays ==
  ASSUME TypeOK, NEW q \in Requests, Beyond(q),
         at'[q] = at[q] \/ (at[q] # "adding" /\ at'[q] \in {"inserting", "queued", "taken"})
           \/ retryTimes'[q] > 0,
         retryTimes'[q] >= retryTimes[q], retryTimes'[q] \in Nat
  PROVE  Beyond(q)'
BY DEF TypeOK, Beyond

-----------------------------------------------------------------------------
(* The filter and the overlaps.                                            *)

\* What the filter's part of the invariant needs of a step.
FilterInv == FilterOK /\ FingerprintsOK /\ FilteredHasTwin /\ CallsOK /\ FirstsOK

LEMMA EnqueueFilter ==
  ASSUME TypeOK, FilterInv, NEW r \in Requests, EnqueueRequest(r)
  PROVE  FilterInv'
<1> USE SchedulerAssumption DEF EnqueueRequest, FilterInv
<1>1. /\ at'[r] \in {"pushing", "filtered", "adding"} /\ at[r] = "new"
      /\ \A q \in Requests \ {r} : at'[q] = at[q]
  BY DEF TypeOK
<1>2. FilterOK'
  BY <1>1 DEF FilterOK, AsksFilter, TypeOK
<1>3. \A q \in Requests : Beyond(q) => Beyond(q)'
  BY <1>1 DEF Beyond
<1>4. FingerprintsOK'
  <2> SUFFICES ASSUME NEW f \in fingerprints
               PROVE  \E q \in Requests \ Unfiltered : Fingerprint[q] = f /\ Beyond(q)'
    BY DEF FingerprintsOK
  <2> QED
    BY <1>3 DEF FingerprintsOK
<1>5. FilteredHasTwin'
  <2> SUFFICES ASSUME NEW s \in Requests, at'[s] = "filtered"
               PROVE  /\ retryTimes[s] = 0 /\ s \notin Unfiltered
                      /\ \E q \in Twins(s) \ Unfiltered : Beyond(q)'
    BY DEF FilteredHasTwin, Beyond, Twins
  <2>1. CASE s # r
    <3>1. at[s] = "filtered"
      BY <2>1, <1>1
    <3>2. PICK q \in Twins(s) \ Unfiltered : Beyond(q)
      BY <3>1 DEF FilteredHasTwin, Beyond
    <3> QED
      BY <3>1, <3>2, <1>3 DEF FilteredHasTwin, Twins
  <2>2. CASE s = r
    <3>1. r \notin dontFilter /\ Fingerprint[r] \in fingerprints
      BY <2>2 DEF TypeOK, AsksFilter
    <3>2. retryTimes[r] = 0 /\ r \notin Unfiltered
      BY <3>1 DEF FilterOK, TypeOK
    <3>3. PICK q \in Requests \ Unfiltered : Fingerprint[q] = Fingerprint[r] /\ Beyond(q)
      BY <3>1 DEF FingerprintsOK
    <3>4. q # r
      BY <3>2, <3>3, <1>1 DEF Beyond
    <3> QED
      BY <2>2, <3>2, <3>3, <3>4, <1>3 DEF Twins
  <2> QED
    BY <2>1, <2>2
<1>6. CallsOK'
  BY <1>1 DEF CallsOK, Overlaps, Others, Calling
<1>7. FirstsOK'
  <2> SUFFICES ASSUME FilterEnabled PROVE FirstsOK'
    BY DEF FirstsOK
  <2>1. overlapped \subseteq overlapped'
    BY DEF Overlaps
  <2>2. \A q \in Requests : Added(q)' => Added(q)
    BY <1>1 DEF Added, AsksFilter, TypeOK
  <2>3. \A q \in Requests : Added(q) => q \in overlapped \/ Fingerprint[q] \in fingerprints
    BY DEF FirstsOK
  <2>4. \A q \in Requests \ {r} : First(q)' <=> First(q)
    BY <1>1 DEF First
  <2>5. First(r)' /\ ~First(r) => Fingerprint[r] \notin fingerprints
    BY <1>1 DEF First, AsksFilter, TypeOK, Calling
  <2>6. ASSUME NEW q \in Requests \ {r}, First(q), First(r)', ~First(r),
               Fingerprint[q] = Fingerprint[r]
        PROVE  q \in overlapped'
    <3>1. CASE Added(q)
      BY <3>1, <2>1, <2>3, <2>5, <2>6
    <3>2. CASE at[q] \in Calling
      BY <3>2, <2>6 DEF Overlaps, Others
    <3> QED
      BY <3>1, <3>2, <2>6 DEF Added, First
  <2>7. ASSUME NEW s \in Requests, NEW q \in Twins(s), First(s)', First(q)'
        PROVE  s \in overlapped' \/ q \in overlapped'
    <3>1. q \in Requests /\ s \in Twins(q) /\ q # s /\ Fingerprint[q] = Fingerprint[s]
      BY DEF Twins
    <3>2. CASE First(s) /\ First(q)
      BY <3>2, <2>1, <2>7 DEF FirstsOK
    <3>3. CASE ~First(s)
      BY <3>3, <3>1, <2>4, <2>6, <2>7
    <3>4. CASE ~First(q)
      BY <3>4, <3>1, <2>4, <2>6, <2>7
    <3> QED
      BY <3>2, <3>3, <3>4
  <2> QED
    BY <2>1, <2>2, <2>3, <2>7 DEF FirstsOK, Twins
<1> QED
  BY <1>2, <1>4, <1>5, <1>6, <1>7

\* The other steps: nobody is filtered or begins a call, and a fingerprint that is
\* added comes from a request beyond the filter.
LEMMA OthersFilter ==
  ASSUME TypeOK, FilterInv, FilterOK',
         overlapped \subseteq overlapped', fingerprints \subseteq fingerprints',
         \A f \in fingerprints' \ fingerprints :
           \E q \in Requests \ Unfiltered : Fingerprint[q] = f /\ Beyond(q)',
         \A q \in Requests :
           /\ Beyond(q) => Beyond(q)'
           /\ at'[q] = "filtered" => at[q] = "filtered" /\ retryTimes'[q] = retryTimes[q]
           /\ at'[q] \in Calling => at[q] \in Calling
           /\ First(q)' => First(q)
           /\ Added(q)' =>
                Added(q) \/ q \in overlapped' \/ Fingerprint[q] \in fingerprints'
  PROVE  FilterInv'
<1> USE DEF FilterInv
<1>1. FingerprintsOK'
  <2> SUFFICES ASSUME NEW f \in fingerprints'
               PROVE  \E q \in Requests \ Unfiltered : Fingerprint[q] = f /\ Beyond(q)'
    BY DEF FingerprintsOK
  <2>1. CASE f \in fingerprints
    BY <2>1 DEF FingerprintsOK
  <2> QED
    BY <2>1
<1>2. FilteredHasTwin'
  <2> SUFFICES ASSUME NEW s \in Requests, at'[s] = "filtered"
               PROVE  /\ retryTimes'[s] = 0 /\ s \notin Unfiltered
                      /\ \E q \in Twins(s) \ Unfiltered : Beyond(q)'
    BY DEF FilteredHasTwin, Beyond, Twins
  <2>1. PICK q \in Twins(s) \ Unfiltered : Beyond(q)
    BY DEF FilteredHasTwin, Beyond
  <2> QED
    BY <2>1 DEF FilteredHasTwin, Twins
<1>3. CallsOK'
  BY DEF CallsOK
<1>4. FirstsOK'
  <2> SUFFICES ASSUME FilterEnabled PROVE FirstsOK'
    BY DEF FirstsOK
  <2>1. \A r \in Requests :
          Added(r)' => r \in overlapped' \/ Fingerprint[r] \in fingerprints'
    BY DEF FirstsOK
  <2>2. ASSUME NEW s \in Requests, NEW q \in Twins(s), First(s)', First(q)'
        PROVE  s \in overlapped' \/ q \in overlapped'
    BY <2>2 DEF FirstsOK, Twins
  <2> QED
    BY <2>1, <2>2 DEF FirstsOK, Twins
<1> QED
  BY <1>1, <1>2, <1>3, <1>4

LEMMA AddFilter ==
  ASSUME TypeOK, FilterInv, NEW r \in Requests, AddFingerprint(r)
  PROVE  FilterInv'
<1> USE SchedulerAssumption DEF AddFingerprint
<1>1. /\ at[r] = "adding" /\ at'[r] = "pushing" /\ r \notin dontFilter
      /\ \A q \in Requests \ {r} : at'[q] = at[q]
  BY DEF TypeOK, FilterInv, FilterOK
<1>2. FilterOK'
  BY <1>1 DEF FilterInv, FilterOK, TypeOK
<1>3. \A q \in Requests : Beyond(q) => Beyond(q)'
  BY <1>1 DEF Beyond
<1>4. r \in Requests \ Unfiltered /\ Beyond(r)'
  BY <1>1 DEF FilterInv, FilterOK, Beyond
<1>5. overlapped \subseteq overlapped' /\ fingerprints \subseteq fingerprints'
  BY DEF Overlaps
<1>6. \A f \in fingerprints' \ fingerprints : f = Fingerprint[r]
  OBVIOUS
<1>7. \A q \in Requests : First(q)' => First(q)
  BY <1>1 DEF First, Calling
<1>8. r \in overlapped' \/ Fingerprint[r] \in fingerprints'
  BY DEF Overlaps, Others, Calling
<1>9. \A q \in Requests : Added(q)' => Added(q) \/ q = r
  BY <1>1 DEF Added
<1>10. \A q \in Requests :
         /\ at'[q] = "filtered" => at[q] = "filtered" /\ retryTimes'[q] = retryTimes[q]
         /\ at'[q] \in Calling => at[q] \in Calling
  BY <1>1 DEF Calling
<1> QED
  BY <1>2, <1>3, <1>4, <1>5, <1>6, <1>7, <1>8, <1>9, <1>10, OthersFilter

\* A step past the filter, which leaves the fingerprints alone.
LEMMA LaterFilter ==
  ASSUME TypeOK, FilterInv, FilterOK', UNCHANGED fingerprints,
         overlapped \subseteq overlapped', NEW r \in Requests,
         Beyond(r)', at'[r] # "filtered", at[r] # "adding",
         at'[r] \in Calling => at[r] \in {"pushing", "inserting"}
                                /\ at'[r] = "inserting",
         dontFilter \subseteq dontFilter',
         \A q \in Requests \ {r} : at'[q] = at[q] /\ retryTimes'[q] = retryTimes[q],
         passed \subseteq passed',
         \A q \in passed' \ passed : q = r /\ at[r] = "inserting" /\ r \notin dontFilter
  PROVE  FilterInv'
<1>1. \A q \in Requests : Beyond(q) => Beyond(q)'
  BY DEF Beyond
<1>2. \A q \in Requests : First(q)' => First(q)
  BY DEF First, Calling
<1>3. \A q \in Requests : Added(q)' => Added(q)
  BY DEF Added, Calling
<1>4. \A q \in Requests :
        /\ at'[q] = "filtered" => at[q] = "filtered" /\ retryTimes'[q] = retryTimes[q]
        /\ at'[q] \in Calling => at[q] \in Calling
  BY DEF Calling
<1> QED
  BY <1>1, <1>2, <1>3, <1>4, OthersFilter

-----------------------------------------------------------------------------
(* The queue.                                                              *)

QueueInv == TypeOK /\ PushedOK /\ HeapOK

\* The steps that leave the queue and the queued requests alone.
LEMMA OthersQueue ==
  ASSUME QueueInv, TypeOK', UNCHANGED <<heap, pushed, raced>>,
         \A q \in Requests :
           /\ at'[q] \in {"inserting", "queued"} => at'[q] = at[q] /\ priority'[q] = priority[q]
           /\ at[q] = "queued" => at'[q] = "queued"
  PROVE  QueueInv'
<1> USE DEF QueueInv
<1>1. PushedOK'
  BY DEF PushedOK, IsLatest
<1>2. HeapOK'
  <2> SUFFICES ASSUME ~raced PROVE HeapOK'
    BY DEF HeapOK
  <2>1. \A e \in heap : e \in pushed /\ e.value \in Requests
    BY DEF TypeOK
  <2> QED
    BY <2>1 DEF HeapOK, IsLatest
<1> QED
  BY <1>1, <1>2

LEMMA PushBeginsQueue ==
  ASSUME QueueInv, NEW r \in Requests, PushBegins(r)
  PROVE  QueueInv'
<1> USE SchedulerAssumption DEF QueueInv, PushBegins
<1>0. PICK x : x = Element(r, counter')
  OBVIOUS
<1>1. /\ at[r] = "pushing" /\ at'[r] = "inserting"
      /\ \A q \in Requests \ {r} : at'[q] = at[q]
  BY DEF TypeOK
<1>2. \A e \in pushed : e.value \in Requests /\ e.timestamp \in 1..counter /\ e.priority \in Int
  BY DEF TypeOK
<1>3. counter \in Nat /\ counter' \in Nat /\ counter' >= counter /\ counter' >= 1
  <2>1. counter \in Nat
    BY DEF TypeOK
  <2>2. CASE Others(r, {"inserting"}) # {}
    <3>1. PICK q \in Requests : at[q] = "inserting"
      BY <2>2 DEF Others
    <3>2. PICK e \in pushed : IsLatest(e, q)
      BY <3>1 DEF PushedOK
    <3>3. counter >= 1
      BY <1>2, <2>1
    <3> QED
      BY <2>1, <3>3
  <2> QED
    BY <2>1, <2>2
<1>4. x = [value |-> r, priority |-> priority[r], timestamp |-> counter']
  BY <1>0 DEF Element
<1>5. x \in [value : Requests, priority : Int, timestamp : 1..counter']
  BY <1>3, <1>4 DEF TypeOK
<1>6. pushed' = pushed \cup {x}
  BY <1>0
<1>7. TypeOK'
  <2>1. pushed' \subseteq [value : Requests, priority : Int, timestamp : 1..counter']
    <3>1. \A e \in pushed : e \in [value : Requests, priority : Int, timestamp : 1..counter']
      BY <1>3 DEF TypeOK
    <3> QED
      BY <1>5, <1>6, <3>1
  <2>2. overlapped' \subseteq Requests /\ raced' \in BOOLEAN
    BY DEF TypeOK, Overlaps, Others
  <2>3. at' \in [Requests -> {"new", "queued", "filtered", "taken"} \cup Calling]
    BY DEF TypeOK, Calling
  <2>4. heap' \subseteq pushed'
    BY <1>6 DEF TypeOK
  <2> QED
    BY <1>3, <2>1, <2>2, <2>3, <2>4 DEF TypeOK
<1>8. ASSUME NEW q \in Requests \ {r}, NEW e
      PROVE  (e \in pushed' /\ IsLatest(e, q)') <=> (e \in pushed /\ IsLatest(e, q))
  BY <1>4, <1>6 DEF IsLatest
<1>9. x \in pushed' /\ IsLatest(x, r)'
  <2>1. \A f \in pushed' : f.timestamp <= x.timestamp
    BY <1>2, <1>3, <1>4, <1>6
  <2> QED
    BY <1>4, <1>6, <2>1 DEF IsLatest
<1>10. PushedOK'
  <2> SUFFICES ASSUME NEW q \in Requests, at'[q] \in {"inserting", "queued"}
               PROVE  \E e \in pushed' : IsLatest(e, q)'
    BY DEF PushedOK
  <2>1. CASE q = r
    BY <2>1, <1>9
  <2>2. CASE q # r
    <3>1. PICK e \in pushed : IsLatest(e, q)
      BY <2>2, <1>1 DEF PushedOK
    <3> QED
      BY <2>2, <3>1, <1>8
  <2> QED
    BY <2>1, <2>2
<1>11. HeapOK'
  <2> SUFFICES ASSUME ~raced' PROVE HeapOK'
    BY DEF HeapOK
  <2>1. ~raced /\ counter' = counter + 1
    OBVIOUS
  <2>2. \A e \in pushed : e.timestamp # x.timestamp
    BY <1>2, <1>4, <2>1 DEF TypeOK
  <2>3. \A e, f \in pushed' : e.timestamp = f.timestamp => e = f
    BY <1>6, <2>1, <2>2 DEF HeapOK
  <2>4. ASSUME NEW q \in Requests, at'[q] \in {"inserting", "queued"},
               NEW e \in pushed', IsLatest(e, q)'
        PROVE  e.priority = priority'[q]
    <3>1. CASE q = r
      <4>1. x.timestamp <= e.timestamp
        BY <1>4, <1>6, <2>4, <3>1 DEF IsLatest
      <4>2. e.timestamp <= x.timestamp
        BY <1>2, <1>3, <1>4, <1>6
      <4>3. e = x
        BY <1>2, <1>4, <1>6, <1>9, <2>3, <4>1, <4>2 DEF TypeOK
      <4> QED
        BY <1>4, <3>1, <4>3
    <3>2. CASE q # r
      BY <3>2, <1>1, <1>8, <2>1, <2>4 DEF HeapOK
    <3> QED
      BY <3>1, <3>2
  <2>5. ASSUME NEW e \in heap PROVE at'[e.value] = "queued" /\ IsLatest(e, e.value)'
    <3>1. at[e.value] = "queued" /\ IsLatest(e, e.value) /\ e \in pushed
      BY <2>1 DEF HeapOK, TypeOK
    <3>2. e.value \in Requests \ {r}
      BY <1>1, <1>2, <3>1
    <3> QED
      BY <1>1, <1>8, <3>1, <3>2
  <2>6. \A q \in Requests : at'[q] = "queued" => \E e \in heap' : e.value = q
    BY <1>1, <2>1 DEF HeapOK
  <2> QED
    BY <2>3, <2>4, <2>5, <2>6 DEF HeapOK
<1> QED
  BY <1>7, <1>10, <1>11

LEMMA PushEndsQueue ==
  ASSUME QueueInv, NEW r \in Requests, PushEnds(r)
  PROVE  QueueInv'
<1> USE DEF QueueInv, PushEnds
<1>1. /\ at[r] = "inserting" /\ at'[r] = "queued"
      /\ \A q \in Requests \ {r} : at'[q] = at[q]
  BY DEF TypeOK
<1>2. IsLatest(Latest(r), r)
  BY <1>1, LatestIs DEF PushedOK
<1>3. TypeOK'
  <2>1. heap' \subseteq pushed
    BY <1>2 DEF TypeOK, IsLatest
  <2>2. overlapped' \subseteq Requests /\ passed' \subseteq Requests
    BY DEF TypeOK, Overlaps, Others
  <2>3. at' \in [Requests -> {"new", "queued", "filtered", "taken"} \cup Calling]
    BY DEF TypeOK
  <2> QED
    BY <2>1, <2>2, <2>3 DEF TypeOK
<1>4. PushedOK'
  BY <1>1 DEF PushedOK, IsLatest
<1>5. HeapOK'
  <2> SUFFICES ASSUME ~raced PROVE HeapOK'
    BY DEF HeapOK
  <2>1. heap' = heap \cup {Latest(r)}
    OBVIOUS
  <2>2. \A e \in heap' : at'[e.value] = "queued" /\ IsLatest(e, e.value)
    BY <1>1, <1>2, <2>1 DEF HeapOK, IsLatest, TypeOK
  <2>3. \A q \in Requests : at'[q] = "queued" => \E e \in heap' : e.value = q
    BY <1>1, <1>2, <2>1 DEF HeapOK, IsLatest
  <2> QED
    BY <1>1, <2>2, <2>3 DEF HeapOK, IsLatest
<1> QED
  BY <1>3, <1>4, <1>5

LEMMA NextRequestQueue ==
  ASSUME QueueInv, NEW e \in pushed, NextRequest(e)
  PROVE  QueueInv'
<1> USE DEF QueueInv, NextRequest
<1>1. PICK r \in Requests : r = e.value
  BY DEF TypeOK
<1>2. /\ at'[r] = IF at[r] = "queued" THEN "taken" ELSE at[r]
      /\ \A q \in Requests \ {r} : at'[q] = at[q]
  BY <1>1 DEF TypeOK
<1>3. TypeOK'
  <2>1. at' \in [Requests -> {"new", "queued", "filtered", "taken"} \cup Calling]
    BY <1>1 DEF TypeOK
  <2>2. heap' \subseteq pushed /\ raced' \in BOOLEAN
    BY DEF TypeOK
  <2> QED
    BY <2>1, <2>2 DEF TypeOK
<1>4. PushedOK'
  BY <1>2 DEF PushedOK, IsLatest
<1>5. HeapOK'
  <2> SUFFICES ASSUME ~raced' PROVE HeapOK'
    BY DEF HeapOK
  <2>1. ~raced /\ heap' = heap \ {e} /\ e \in heap
    BY DEF IsNext
  <2>2. at[r] = "queued" /\ at'[r] = "taken" /\ IsLatest(e, r)
    BY <1>1, <1>2, <2>1 DEF HeapOK
  <2>3. \A f \in heap' : f.value # r
    <3> SUFFICES ASSUME NEW f \in heap, f.value = r PROVE f = e
      BY <2>1
    <3>1. IsLatest(f, r)
      BY <2>1 DEF HeapOK
    <3>2. f.timestamp \in Int /\ e.timestamp \in Int
      BY DEF TypeOK
    <3>3. f.timestamp = e.timestamp
      BY <2>2, <3>1, <3>2 DEF IsLatest
    <3> QED
      BY <2>1, <3>3 DEF HeapOK, TypeOK
  <2>4. \A f \in heap' : at'[f.value] = "queued" /\ IsLatest(f, f.value)
    BY <1>2, <2>1, <2>3 DEF HeapOK, TypeOK
  <2>5. \A q \in Requests : at'[q] = "queued" => \E f \in heap' : f.value = q
    BY <1>1, <1>2, <2>1, <2>2 DEF HeapOK
  <2> QED
    BY <1>2, <2>1, <2>4, <2>5 DEF HeapOK, IsLatest
<1> QED
  BY <1>3, <1>4, <1>5

LEMMA NextRequestFilter ==
  ASSUME TypeOK, FilterInv, NEW e \in pushed, NextRequest(e)
  PROVE  FilterInv'
<1> USE DEF NextRequest
<1>1. PICK r \in Requests : r = e.value
  BY DEF TypeOK
<1>2. CASE at[r] = "queued"
  <2>1. /\ at'[r] = "taken"
        /\ \A q \in Requests \ {r} : at'[q] = at[q]
    BY <1>1, <1>2 DEF TypeOK
  <2>2. FilterOK'
    BY <2>1 DEF FilterInv, FilterOK
  <2> QED
    BY <1>2, <2>1, <2>2, LaterFilter DEF Beyond, Calling
<1>3. CASE at[r] # "queued"
  <2>1. at' = at
    BY <1>1, <1>3 DEF TypeOK
  <2> QED
    BY <2>1 DEF FilterInv, FilterOK, FingerprintsOK, FilteredHasTwin, CallsOK, FirstsOK,
                Beyond, Added, First, Twins
<1> QED
  BY <1>2, <1>3

-----------------------------------------------------------------------------
LEMMA StepInv == IInv /\ [Next]_vars => IInv'
<1> SUFFICES ASSUME IInv, [Next]_vars PROVE IInv'
  OBVIOUS
<1> USE SchedulerAssumption
<1>0. TypeOK /\ FilterInv /\ QueueInv
  BY DEF IInv, FilterInv, QueueInv
<1>1. ASSUME NEW r \in Requests, EnqueueRequest(r) PROVE IInv'
  <2> USE <1>1 DEF EnqueueRequest
  <2>1. TypeOK'
    <3>1. at' \in [Requests -> {"new", "queued", "filtered", "taken"} \cup Calling]
      BY <1>0 DEF TypeOK, Calling
    <3>2. overlapped' \subseteq Requests /\ fatal' \in BOOLEAN
      BY <1>0 DEF TypeOK, Overlaps, Others, AsksFilter
    <3> QED
      BY <1>0, <3>1, <3>2 DEF TypeOK
  <2>2. QueueInv'
    BY <1>0, <2>1, OthersQueue DEF TypeOK
  <2> QED
    BY <1>0, <2>2, EnqueueFilter DEF IInv, FilterInv, QueueInv
<1>2. ASSUME NEW r \in Requests, AddFingerprint(r) PROVE IInv'
  <2> USE <1>2 DEF AddFingerprint
  <2>1. TypeOK'
    <3>1. at' \in [Requests -> {"new", "queued", "filtered", "taken"} \cup Calling]
      BY <1>0 DEF TypeOK, Calling
    <3>2. overlapped' \subseteq Requests /\ fatal' \in BOOLEAN
      BY <1>0 DEF TypeOK, Overlaps, Others
    <3>3. fingerprints' \subseteq {Fingerprint[q] : q \in Requests}
      BY <1>0 DEF TypeOK
    <3> QED
      BY <1>0, <3>1, <3>2, <3>3 DEF TypeOK
  <2>2. QueueInv'
    BY <1>0, <2>1, OthersQueue DEF TypeOK
  <2> QED
    BY <1>0, <2>2, AddFilter DEF IInv, FilterInv, QueueInv
<1>3. ASSUME NEW r \in Requests, PushBegins(r) PROVE IInv'
  <2>1. QueueInv'
    BY <1>0, <1>3, PushBeginsQueue
  <2>2. /\ at[r] = "pushing" /\ at'[r] = "inserting"
        /\ \A q \in Requests \ {r} : at'[q] = at[q]
    BY <1>0, <1>3 DEF PushBegins, TypeOK
  <2>3. FilterOK'
    BY <1>0, <1>3, <2>2 DEF PushBegins, FilterInv, FilterOK
  <2>4. FilterInv'
    BY <1>0, <1>3, <2>2, <2>3, LaterFilter DEF PushBegins, Overlaps, Beyond, Calling
  <2> QED
    BY <2>1, <2>4 DEF IInv, FilterInv, QueueInv
<1>4. ASSUME NEW r \in Requests, PushEnds(r) PROVE IInv'
  <2>1. QueueInv'
    BY <1>0, <1>4, PushEndsQueue
  <2>2. /\ at[r] = "inserting" /\ at'[r] = "queued"
        /\ \A q \in Requests \ {r} : at'[q] = at[q]
    BY <1>0, <1>4 DEF PushEnds, TypeOK
  <2>3. FilterOK'
    BY <1>0, <1>4, <2>2 DEF PushEnds, FilterInv, FilterOK
  <2>4. FilterInv'
    BY <1>0, <1>4, <2>2, <2>3, LaterFilter DEF PushEnds, Overlaps, Beyond, Calling
  <2> QED
    BY <2>1, <2>4 DEF IInv, FilterInv, QueueInv
<1>5. ASSUME NEW r \in Requests, Retry(r) PROVE IInv'
  <2> USE <1>5 DEF Retry, observers
  <2>1. /\ at[r] = "taken" /\ at'[r] = "new" /\ retryTimes'[r] = retryTimes[r] + 1
        /\ retryTimes'[r] \in 1..MaxRetryTimes[r]
        /\ priority'[r] \in Int
        /\ \A q \in Requests \ {r} :
             at'[q] = at[q] /\ retryTimes'[q] = retryTimes[q] /\ priority'[q] = priority[q]
    BY <1>0 DEF TypeOK
  <2>2. TypeOK'
    <3>1. /\ at' \in [Requests -> {"new", "queued", "filtered", "taken"} \cup Calling]
          /\ retryTimes' \in [Requests -> Nat]
          /\ \A q \in Requests : retryTimes'[q] <= MaxRetryTimes[q]
          /\ priority' \in [Requests -> Int]
          /\ dontFilter' \subseteq Requests
      BY <1>0, <2>1 DEF TypeOK
    <3> QED
      BY <1>0, <3>1 DEF TypeOK
  <2>3. QueueInv'
    BY <1>0, <2>1, <2>2, OthersQueue
  <2>4. FilterOK'
    BY <1>0, <2>1 DEF FilterInv, FilterOK
  <2>5. FilterInv'
    BY <1>0, <2>1, <2>4, LaterFilter DEF Beyond, Calling
  <2> QED
    BY <2>3, <2>5 DEF IInv, FilterInv, QueueInv
<1>6. ASSUME NEW e \in pushed, NextRequest(e) PROVE IInv'
  BY <1>0, <1>6, NextRequestQueue, NextRequestFilter DEF IInv, FilterInv, QueueInv
<1>7. CASE HasPendingRequests \/ NextRequestNil \/ UNCHANGED vars
  <2>1. UNCHANGED <<requests, fingerprints, heap, counter, observers>>
    BY <1>7 DEF HasPendingRequests, NextRequestNil, vars
  <2>2. polling' \in BOOLEAN /\ fatal' \in BOOLEAN
    BY <1>0, <1>7 DEF HasPendingRequests, NextRequestNil, vars, TypeOK
  <2>3. TypeOK'
    BY <1>0, <2>1, <2>2 DEF TypeOK, requests, observers
  <2>4. FilterInv'
    BY <1>0, <2>1 DEF requests, observers, FilterInv, FilterOK, FingerprintsOK,
      FilteredHasTwin, CallsOK, FirstsOK, Beyond, Added, First, Twins
  <2>5. PushedOK' /\ HeapOK'
    BY <1>0, <2>1 DEF requests, observers, QueueInv, PushedOK, HeapOK, IsLatest
  <2> QED
    BY <2>3, <2>4, <2>5 DEF IInv, FilterInv
<1> QED
  BY <1>1, <1>2, <1>3, <1>4, <1>5, <1>6, <1>7 DEF Next

\* The invariant holds in every reachable state.
THEOREM Invariance == Spec => []IInv
  BY InitInv, StepInv, PTL DEF Spec

\* The retries of a request stay within its max_retry_times, the heap holds only what has been
\* pushed, and every timestamp is one the counter has given.
THEOREM TypeCorrect == Spec => []TypeOK
<1>1. IInv => TypeOK
  BY DEF IInv
<1> QED
  BY <1>1, Invariance, PTL

\* RequestSeen refuses a request only for another one that went through the filter and
\* on to the queue.
THEOREM OnlyTwinsAreFiltered == Spec => []FilteredHasTwin
<1>1. IInv => FilteredHasTwin
  BY DEF IInv
<1> QED
  BY <1>1, Invariance, PTL

\* Two requests of one fingerprint pass the filter only if their calls of EnqueueRequest
\* met other calls.
THEOREM DuplicatesOverlap == Spec => []DuplicateNeedsOverlap
<1>1. IInv => DuplicateNeedsOverlap
  BY DEF IInv, FirstsOK, First, DuplicateNeedsOverlap, TypeOK, Twins
<1> QED
  BY <1>1, Invariance, PTL

\* While nothing has raced, the priority queue holds each accepted request once, and no
\* other one.
THEOREM QueueHoldsAccepted == Spec => []QueueIsExact
<1>1. IInv => QueueIsExact
  <2> SUFFICES ASSUME IInv, ~raced,
                      NEW r \in Requests, at[r] = "queued"
               PROVE  Cardinality({e \in heap : e.value = r}) = 1
    BY DEF IInv, HeapOK, QueueIsExact
  <2>1. PICK e \in heap : e.value = r
    BY DEF IInv, HeapOK
  <2>2. ASSUME NEW f \in heap, f.value = r PROVE f = e
    <3>1. IsLatest(e, r) /\ IsLatest(f, r)
      BY <2>1, <2>2 DEF IInv, HeapOK
    <3>2. f.timestamp \in Int /\ e.timestamp \in Int
      BY DEF IInv, TypeOK
    <3>3. f.timestamp = e.timestamp
      BY <3>1, <3>2 DEF IsLatest
    <3> QED
      BY <3>3 DEF IInv, HeapOK, TypeOK
  <2>3. {f \in heap : f.value = r} = {e}
    BY <2>1, <2>2
  <2> QED
    BY <2>3, FS_Singleton
<1> QED
  BY <1>1, Invariance, PTL

\* NextRequest gives the best element: of the highest priority, and among these the
\* latest or the earliest one pushed, as the queue is LIFO or FIFO.
THEOREM BestComesFirst == Spec => BestIsTaken
<1> DEFINE Best ==
      \A r \in Requests : \A q \in Requests \ {r} :
        Taken(r) /\ at[q] = "queued" /\ ~raced =>
          /\ priority[q] <= priority[r]
          /\ priority[q] = priority[r] =>
               LET later == Latest(q).timestamp < Latest(r).timestamp
               IN  IF Lifo THEN later ELSE ~later
<1>1. IInv /\ [Next]_vars => [Best]_vars
  <2> SUFFICES ASSUME IInv, Next,
                      NEW r \in Requests, NEW q \in Requests \ {r},
                      Taken(r), at[q] = "queued", ~raced
               PROVE  /\ priority[q] <= priority[r]
                      /\ priority[q] = priority[r] =>
                           IF Lifo THEN Latest(q).timestamp < Latest(r).timestamp
                           ELSE ~(Latest(q).timestamp < Latest(r).timestamp)
    OBVIOUS
  <2> USE SchedulerAssumption DEF IInv
  <2>1. PICK e \in pushed : NextRequest(e)
    BY DEF Next, Taken, EnqueueRequest, AddFingerprint, PushBegins, PushEnds, Retry,
           HasPendingRequests, NextRequestNil, requests, TypeOK
  <2>2. e.value = r /\ e \in heap /\ \A f \in heap \ {e} : ~Before(f, e)
    BY <2>1 DEF NextRequest, IsNext, Taken, TypeOK
  <2>3. \A s \in Requests : at[s] = "queued" =>
          /\ Latest(s) \in heap /\ Latest(s).value = s
          /\ Latest(s).priority = priority[s] /\ Latest(s).timestamp \in Int
    <3> SUFFICES ASSUME NEW s \in Requests, at[s] = "queued"
                 PROVE  /\ Latest(s) \in heap /\ Latest(s).value = s
                        /\ Latest(s).priority = priority[s] /\ Latest(s).timestamp \in Int
      OBVIOUS
    <3>1. PICK f \in heap : f.value = s /\ f \in pushed /\ IsLatest(f, s)
      BY DEF HeapOK, TypeOK
    <3>2. IsLatest(Latest(s), s) /\ Latest(s) \in pushed
      BY <3>1, LatestIs DEF IsLatest
    <3>3. f.timestamp \in Int /\ Latest(s).timestamp \in Int
      BY <3>1, <3>2 DEF TypeOK
    <3>4. f = Latest(s)
      <4>1. f.timestamp = Latest(s).timestamp
        BY <3>1, <3>2, <3>3 DEF IsLatest
      <4> QED
        BY <3>1, <3>2, <4>1 DEF HeapOK
    <3> QED
      BY <3>1, <3>2, <3>3, <3>4 DEF HeapOK
  <2>4. at[r] = "queued"
    BY DEF Taken
  <2>5. e = Latest(r)
    <3>1. IsLatest(e, r) /\ IsLatest(Latest(r), r) /\ e \in pushed /\ Latest(r) \in pushed
      BY <2>2, <2>3, <2>4 DEF HeapOK, TypeOK
    <3>2. e.timestamp \in Int /\ Latest(r).timestamp \in Int
      BY <3>1 DEF TypeOK
    <3>3. e.timestamp = Latest(r).timestamp
      BY <2>2, <3>1, <3>2 DEF IsLatest
    <3> QED
      BY <3>1, <3>3 DEF HeapOK
  <2>6. Latest(q) \in heap \ {e} /\ Latest(q).timestamp # Latest(r).timestamp
    <3>1. Latest(q) # Latest(r)
      BY <2>3, <2>4
    <3> QED
      BY <2>3, <2>4, <2>5, <3>1 DEF HeapOK, TypeOK
  <2>7. ~Before(Latest(q), Latest(r))
    BY <2>2, <2>5, <2>6
  <2>8. priority[q] \in Int /\ priority[r] \in Int
    BY DEF TypeOK
  <2> QED
    BY <2>3, <2>4, <2>6, <2>7, <2>8 DEF Before
<1>2. [][Best]_vars => BestIsTaken
  BY PTL DEF BestIsTaken
<1> QED
  BY <1>1, <1>2, Invariance, PTL DEF Spec
=============================================================================
