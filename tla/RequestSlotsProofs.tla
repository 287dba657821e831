------------------------- MODULE RequestSlotsProofs -------------------------
(***************************************************************************)
(* Proofs about RequestSlots, for any set of requests and of domains, any  *)
(* limits, any delays and any age given to Clear.                          *)
(***************************************************************************)
EXTENDS RequestSlots, SequenceTheorems, FiniteSetTheorems, TLAPS

-----------------------------------------------------------------------------
(* The queue of gods (llq.Queue) that holds the waiting work.              *)

\* Enqueue adds one element to a queue; a new one keeps its elements distinct.
LEMMA Enqueued ==
  ASSUME NEW S, NEW q \in Seq(S), NEW e \in S
  PROVE  /\ Append(q, e) \in Seq(S)
         /\ Range(Append(q, e)) = Range(q) \cup {e}
         /\ IsInjective(q) /\ e \notin Range(q) => IsInjective(Append(q, e))
<1>1. Len(q) \in Nat /\ DOMAIN q = 1..Len(q) /\ DOMAIN Append(q, e) = 1..(Len(q) + 1)
  BY AppendProperties, LenProperties
<1>2. Range(Append(q, e)) = Range(q) \cup {e}
  BY <1>1, AppendProperties DEF Range
<1>3. IsInjective(q) /\ e \notin Range(q) => IsInjective(Append(q, e))
  BY <1>1, AppendProperties DEF Range, IsInjective
<1> QED
  BY <1>2, <1>3, AppendProperties

\* Dequeue takes the head away from a queue of distinct elements, and nothing else.
LEMMA Dequeued ==
  ASSUME NEW S, NEW q \in Seq(S), q # <<>>, IsInjective(q)
  PROVE  /\ Tail(q) \in Seq(S)
         /\ IsInjective(Tail(q))
         /\ Head(q) \in Range(q)
         /\ Range(Tail(q)) = Range(q) \ {Head(q)}
<1>1. /\ Len(q) \in Nat \ {0} /\ DOMAIN q = 1..Len(q)
      /\ DOMAIN Tail(q) = 1..(Len(q) - 1)
      /\ \A i \in 1..(Len(q) - 1) : Tail(q)[i] = q[i + 1]
      /\ Head(q) = q[1] /\ Tail(q) \in Seq(S)
  BY HeadTailProperties, LenProperties, EmptySeq
<1>2. ASSUME NEW i \in 1..Len(q), q[i] # Head(q) PROVE q[i] \in Range(Tail(q))
  <2>1. i - 1 \in 1..(Len(q) - 1) /\ Tail(q)[i - 1] = q[i]
    BY <1>1, <1>2
  <2> QED
    BY <1>1, <2>1 DEF Range
<1> QED
  BY <1>1, <1>2 DEF Range, IsInjective

-----------------------------------------------------------------------------

\* The range holds on to slots that exist, and holds none while Clear runs.
RangeOK ==
  /\ dl.left \cup dl.fresh \subseteq Live
  /\ dl.pc = "process" => dl.cur \in Live
  /\ dl.pc \notin {"range", "process"} => dl.left = {} /\ dl.fresh = {}

\* What the interval between two starts rests on: a slot either remembers the last
\* start of its domain, or that start is further back than any wait could be.
Remembers ==
  \A d \in Domains :
    \/ sinceStart[d] >= MinDelay(d)
    \/ d \in Live /\ sinceStart[d] = slots[d].sinceSeen

IInv ==
  /\ TypeOK /\ RangeOK /\ QueuesHoldQueued
  /\ ActiveIsHandlers /\ FinishFindsSlot /\ ConcurrencyKept
  /\ Remembers

-----------------------------------------------------------------------------
(* Types of the delays.                                                    *)

LEMMA HorizonProperties ==
  ASSUME NEW d \in Domains
  PROVE  /\ Horizon(d) \in Nat
         /\ MinDelay(d) \in Nat /\ MinDelay(d) <= SlotDelay[d]
         /\ MinDelay(d) < Horizon(d) /\ SlotDelay[d] < Horizon(d)
         /\ \A x \in Draws(d) : x \in Nat /\ x < Horizon(d) /\ x >= MinDelay(d)
  BY SlotAssumption DEF Horizon, MinDelay, Draws

LEMMA LaterProperties ==
  ASSUME NEW d \in Domains, NEW t \in Times(d)
  PROVE  Later(t, d) \in Times(d) /\ Later(t, d) >= t
  BY HorizonProperties DEF Later, Times

-----------------------------------------------------------------------------
(* How the number of handlers of a domain changes.                         *)

LEMMA HandlersType ==
  ASSUME TypeOK
  PROVE  \A d \in Domains :
           /\ IsFiniteSet(Downloads(d)) /\ IsFiniteSet(Late(d))
           /\ Cardinality(Downloads(d)) \in Nat
           /\ Cardinality(Late(d)) \in Nat
           /\ Handlers(d) \in Nat
<1> TAKE d \in Domains
<1>1. Downloads(d) \in SUBSET Requests /\ Late(d) \in SUBSET Requests
  BY DEF Downloads, Late, TypeOK
<1>2. IsFiniteSet(Downloads(d)) /\ IsFiniteSet(Late(d))
  BY <1>1, SlotAssumption, FS_Subset
<1>3. Cardinality(Downloads(d)) \in Nat /\ Cardinality(Late(d)) \in Nat
  BY <1>2, FS_CardinalityType
<1> QED
  BY <1>2, <1>3 DEF Handlers

\* A start adds one handler to the request's domain.
LEMMA HandlersAfterStart ==
  ASSUME TypeOK, NEW r \in Requests, stage[r] # "fetching",
         stage' = [stage EXCEPT ![r] = "fetching"], finishing' = finishing
  PROVE  \A d \in Domains :
           Handlers(d)' = IF d = DomainOf[r] THEN Handlers(d) + 1 ELSE Handlers(d)
<1> TAKE d \in Domains
<1>1. Late(d)' = Late(d)
  BY DEF Late
<1>2. CASE d = DomainOf[r]
  <2>1. Downloads(d)' = Downloads(d) \cup {r} /\ r \notin Downloads(d)
    BY <1>2 DEF Downloads, TypeOK
  <2>2. Cardinality(Downloads(d)') = Cardinality(Downloads(d)) + 1
    BY <2>1, HandlersType, FS_AddElement
  <2> QED
    BY <1>1, <1>2, <2>2, HandlersType DEF Handlers
<1>3. CASE d # DomainOf[r]
  <2>1. Downloads(d)' = Downloads(d)
    BY <1>3 DEF Downloads, TypeOK
  <2> QED
    BY <1>1, <1>3, <2>1 DEF Handlers
<1> QED
  BY <1>2, <1>3

\* A fetch that returns leaves the number of handlers as it is: the handler is late.
LEMMA HandlersAfterFetch ==
  ASSUME TypeOK, NEW r \in Requests, FetchReturns(r)
  PROVE  \A d \in Domains : Handlers(d)' = Handlers(d)
<1> TAKE d \in Domains
<1>1. CASE d = DomainOf[r]
  <2>1. /\ Downloads(d)' = Downloads(d) \ {r} /\ r \in Downloads(d)
        /\ Late(d)' = Late(d) \cup {r} /\ r \notin Late(d)
    BY <1>1 DEF FetchReturns, Downloads, Late, TypeOK
  <2>2. Cardinality(Downloads(d)') = Cardinality(Downloads(d)) - 1
    BY <2>1, HandlersType, FS_RemoveElement
  <2>3. Cardinality(Late(d)') = Cardinality(Late(d)) + 1
    BY <2>1, HandlersType, FS_AddElement
  <2> QED
    BY <2>2, <2>3, HandlersType DEF Handlers
<1>2. CASE d # DomainOf[r]
  <2>1. Downloads(d)' = Downloads(d) /\ Late(d)' = Late(d)
    BY <1>2 DEF FetchReturns, Downloads, Late, TypeOK
  <2> QED
    BY <2>1 DEF Handlers
<1> QED
  BY <1>1, <1>2

\* Finish takes one handler from the request's domain.
LEMMA HandlersAfterFinish ==
  ASSUME TypeOK, NEW r \in Requests, Finish(r)
  PROVE  /\ Handlers(DomainOf[r]) > 0
         /\ \A d \in Domains :
              Handlers(d)' = IF d = DomainOf[r] THEN Handlers(d) - 1 ELSE Handlers(d)
<1>1. \A d \in Domains : Downloads(d)' = Downloads(d)
  BY DEF Finish, Downloads
<1>2. ASSUME NEW d \in Domains, d = DomainOf[r]
      PROVE  Handlers(d) > 0 /\ Handlers(d)' = Handlers(d) - 1
  <2>1. Late(d)' = Late(d) \ {r} /\ r \in Late(d)
    BY <1>2 DEF Finish, Late
  <2>2. Cardinality(Late(d)') = Cardinality(Late(d)) - 1 /\ Cardinality(Late(d)) # 0
    BY <2>1, HandlersType, FS_RemoveElement, FS_EmptySet
  <2> QED
    BY <1>1, <1>2, <2>2, HandlersType DEF Handlers
<1>3. ASSUME NEW d \in Domains, d # DomainOf[r] PROVE Handlers(d)' = Handlers(d)
  <2>1. Late(d)' = Late(d)
    BY <1>3 DEF Finish, Late
  <2> QED
    BY <1>1, <2>1 DEF Handlers
<1> QED
  BY <1>2, <1>3, SlotAssumption

\* Any step that leaves "fetching" and finishing alone leaves the handlers alone.
LEMMA HandlersUnchanged ==
  ASSUME finishing' = finishing,
         \A r \in Requests : stage'[r] = "fetching" <=> stage[r] = "fetching"
  PROVE  \A d \in Domains : Handlers(d)' = Handlers(d)
<1> TAKE d \in Domains
<1>1. Downloads(d)' = Downloads(d) /\ Late(d)' = Late(d)
  BY DEF Downloads, Late
<1> QED
  BY <1>1 DEF Handlers

-----------------------------------------------------------------------------
(* The invariant.                                                          *)

LEMMA InitInv == Init => IInv
<1> SUFFICES ASSUME Init PROVE IInv
  OBVIOUS
<1>1. Live = {}
  BY DEF Init, Live
<1>2. \A d \in Domains : Downloads(d) = {} /\ Late(d) = {}
  BY DEF Init, Downloads, Late
<1>3. \A d \in Domains : Handlers(d) = 0
  BY <1>2, FS_EmptySet DEF Handlers
<1>4. TypeOK
  <2>1. sinceStart \in [Domains -> Nat] /\ \A d \in Domains : sinceStart[d] \in Times(d)
    BY HorizonProperties DEF Init, Times
  <2> QED
    BY <1>1, <2>1 DEF Init, TypeOK, Stages, AtLoop, DownloaderSteps
<1>5. RangeOK
  BY DEF Init, RangeOK, AtLoop
<1>6. QueuesHoldQueued /\ ActiveIsHandlers /\ FinishFindsSlot /\ ConcurrencyKept
  BY <1>1, <1>3, SlotAssumption
  DEF Init, QueuesHoldQueued, ActiveIsHandlers, FinishFindsSlot, ConcurrencyKept
<1>7. Remembers
  BY HorizonProperties DEF Init, Remembers
<1> QED
  BY <1>4, <1>5, <1>6, <1>7 DEF IInv

\* Steps that touch neither the slots nor the requests.
LEMMA RangeSteps ==
  ASSUME IInv, UNCHANGED <<slots, stage, finishing, fatal, sinceStart>>,
         \/ RangeStart \/ RangeEnd \/ Quit \/ \E d \in Domains : RangeNext(d)
         \/ UNCHANGED dl
  PROVE  IInv'
<1>1. \A d \in Domains : Handlers(d)' = Handlers(d)
  BY HandlersUnchanged
<1>2. Live' = Live
  BY DEF Live
<1>3. /\ dl' \in [pc : DownloaderSteps, left : SUBSET Domains, fresh : SUBSET Domains,
                  cur : Domains \cup {NoDomain}, got : BOOLEAN]
      /\ RangeOK'
  <2>1. CASE RangeStart
    <3>1. dl' = [pc |-> "range", left |-> Live, fresh |-> {}, cur |-> NoDomain,
                 got |-> FALSE]
      BY <2>1 DEF RangeStart, AtLoop
    <3>2. RangeOK'
      BY <1>2, <3>1 DEF RangeOK
    <3> QED
      BY <3>1, <3>2 DEF IInv, TypeOK, DownloaderSteps
  <2>2. CASE RangeEnd \/ Quit
    <3>1. PICK step \in {"loop", "clear", "quit"} :
            dl' = [pc |-> step, left |-> {}, fresh |-> {}, cur |-> NoDomain,
                   got |-> FALSE]
      BY <2>2 DEF RangeEnd, Quit, AtLoop
    <3>2. RangeOK'
      BY <3>1 DEF RangeOK
    <3> QED
      BY <3>1, <3>2 DEF DownloaderSteps
  <2>3. ASSUME NEW d \in Domains, RangeNext(d)
        PROVE  /\ dl' \in [pc : DownloaderSteps, left : SUBSET Domains,
                            fresh : SUBSET Domains,
                            cur : Domains \cup {NoDomain}, got : BOOLEAN]
               /\ RangeOK'
    <3>1. dl' = [pc |-> "process", left |-> dl.left \ {d}, fresh |-> dl.fresh \ {d},
                 cur |-> d, got |-> dl.got]
      BY <2>3 DEF RangeNext, IInv, TypeOK
    <3>2. RangeOK'
      BY <1>2, <2>3, <3>1 DEF RangeNext, IInv, RangeOK
    <3> QED
      BY <3>1, <3>2 DEF IInv, TypeOK, DownloaderSteps
  <2>4. CASE UNCHANGED dl
    BY <1>2, <2>4 DEF IInv, TypeOK, RangeOK
  <2> QED
    BY <2>1, <2>2, <2>3, <2>4
<1>4. TypeOK'
  BY <1>2, <1>3 DEF IInv, TypeOK
<1>5. QueuesHoldQueued'
  BY <1>2 DEF IInv, QueuesHoldQueued
<1>6. ActiveIsHandlers' /\ FinishFindsSlot' /\ ConcurrencyKept' /\ Remembers'
  BY <1>1, <1>2 DEF IInv, TypeOK, ActiveIsHandlers, FinishFindsSlot,
                    ConcurrencyKept, Remembers
<1> QED
  BY <1>3, <1>4, <1>5, <1>6 DEF IInv

LEMMA AdmitInv == ASSUME IInv, NEW r \in Requests, Admit(r) PROVE IInv'
<1>1. \A d \in Domains : Handlers(d)' = Handlers(d)
  BY HandlersUnchanged DEF Admit, IInv, TypeOK
<1>2. Live' = Live
  BY DEF Admit, Live
<1>3. TypeOK' /\ RangeOK'
  BY <1>2 DEF Admit, IInv, TypeOK, RangeOK, Stages
<1>4. QueuesHoldQueued'
  BY <1>2 DEF Admit, IInv, TypeOK, QueuesHoldQueued
<1>5. ActiveIsHandlers' /\ FinishFindsSlot' /\ ConcurrencyKept' /\ Remembers'
  BY <1>1, <1>2 DEF Admit, IInv, TypeOK, ActiveIsHandlers, FinishFindsSlot,
                    ConcurrencyKept, Remembers
<1> QED
  BY <1>3, <1>4, <1>5 DEF IInv

LEMMA PushInv == ASSUME IInv, NEW r \in Requests, Push(r) PROVE IInv'
<1> DEFINE d == DomainOf[r]
<1>1. d \in Domains /\ d \in Live
  BY SlotAssumption DEF Push
<1>2. Live' = Live
  BY DEF Push, Live
<1>3. slots[d] \in SlotType(d) /\ slots[d].queue \in Seq(Requests)
  BY <1>1 DEF IInv, TypeOK, SlotType
<1>4. \A e \in Live : slots'[e] =
        IF e = d THEN [slots[d] EXCEPT !.queue = Append(slots[d].queue, r)]
                 ELSE slots[e]
  BY DEF Push, Live
<1>5. \A e \in Live : /\ slots'[e].active = slots[e].active
                      /\ slots'[e].sinceSeen = slots[e].sinceSeen
  BY <1>3, <1>4 DEF SlotType
<1>6. \A e \in Live \ {d} : slots'[e].queue = slots[e].queue
  BY <1>4
<1>7. /\ slots'[d].queue = Append(slots[d].queue, r)
      /\ IsInjective(slots'[d].queue)
      /\ Range(slots'[d].queue) = Range(slots[d].queue) \cup {r}
  <2>1. r \notin Range(slots[d].queue) /\ IsInjective(slots[d].queue)
    BY <1>1 DEF Push, IInv, QueuesHoldQueued
  <2>2. slots'[d].queue = Append(slots[d].queue, r)
    BY <1>1, <1>3, <1>4 DEF SlotType
  <2> QED
    BY <1>3, <2>1, <2>2, Enqueued
<1>8. \A e \in Domains : Handlers(e)' = Handlers(e)
  BY HandlersUnchanged DEF Push, IInv, TypeOK
<1>9. TypeOK' /\ RangeOK'
  <2>1. Append(slots[d].queue, r) \in Seq(Requests)
    BY <1>3, AppendProperties
  <2>2. slots'[d] \in SlotType(d)
    BY <1>1, <1>3, <1>4, <2>1 DEF SlotType
  <2>3. \A e \in Live : slots'[e] \in SlotType(e)
    BY <1>4, <2>2 DEF IInv, TypeOK
  <2> QED
    BY <1>2, <2>3 DEF Push, IInv, TypeOK, RangeOK, Stages
<1>10. QueuesHoldQueued'
  BY <1>1, <1>2, <1>6, <1>7 DEF Push, IInv, TypeOK, QueuesHoldQueued
<1>11. ActiveIsHandlers' /\ FinishFindsSlot' /\ ConcurrencyKept' /\ Remembers'
  BY <1>2, <1>5, <1>8 DEF Push, IInv, TypeOK, ActiveIsHandlers, FinishFindsSlot,
                          ConcurrencyKept, Remembers
<1> QED
  BY <1>9, <1>10, <1>11 DEF IInv

LEMMA PushNewInv == ASSUME IInv, NEW r \in Requests, PushNew(r) PROVE IInv'
<1> DEFINE d == DomainOf[r]
<1>1. d \in Domains /\ d \notin Live
  BY SlotAssumption DEF PushNew
<1>2. Live' = Live \cup {d}
  BY DEF PushNew, Live
<1>3. /\ slots'[d] = [queue |-> <<r>>, active |-> 0,
                      sinceSeen |-> Horizon(d), lastDelay |-> 0]
      /\ \A e \in Live : slots'[e] = slots[e]
  BY <1>1 DEF PushNew, NewSlot, Live
<1>4. Range(<<r>>) = {r} /\ IsInjective(<<r>>) /\ <<r>> \in Seq(Requests)
  BY DEF Range, IsInjective
<1>5. \A e \in Domains : Handlers(e)' = Handlers(e)
  BY HandlersUnchanged DEF PushNew, IInv, TypeOK
<1>6. Handlers(d) = 0
  BY <1>1, HandlersType DEF IInv, FinishFindsSlot
<1>7. TypeOK'
  <2>1. slots'[d] \in SlotType(d)
    BY <1>1, <1>3, <1>4, HorizonProperties DEF SlotType, Times
  <2>2. \A e \in Live' : slots'[e] \in SlotType(e)
    BY <1>2, <1>3, <2>1 DEF IInv, TypeOK
  <2> QED
    BY <1>1, <1>2, <2>2 DEF PushNew, IInv, TypeOK, Stages
<1>8. RangeOK'
  BY <1>2 DEF PushNew, IInv, TypeOK, RangeOK
<1>9. QueuesHoldQueued'
  BY <1>1, <1>2, <1>3, <1>4 DEF PushNew, IInv, TypeOK, QueuesHoldQueued
<1>10. \A e \in Live' : slots'[e].active = Handlers(e)'
  BY <1>1, <1>2, <1>3, <1>5, <1>6 DEF IInv, TypeOK, ActiveIsHandlers
<1>12. ActiveIsHandlers' /\ FinishFindsSlot' /\ ConcurrencyKept'
  BY <1>2, <1>5, <1>10
  DEF IInv, TypeOK, ActiveIsHandlers, FinishFindsSlot, ConcurrencyKept
<1>11. Remembers'
  BY <1>1, <1>2, <1>3 DEF PushNew, IInv, Remembers
<1> QED
  BY <1>7, <1>8, <1>9, <1>11, <1>12 DEF IInv

LEMMA FetchReturnsInv ==
  ASSUME IInv, NEW r \in Requests, FetchReturns(r) PROVE IInv'
<1>1. \A d \in Domains : Handlers(d)' = Handlers(d)
  BY HandlersAfterFetch DEF IInv
<1>2. Live' = Live
  BY DEF FetchReturns, Live
<1>3. TypeOK' /\ RangeOK'
  BY <1>2 DEF FetchReturns, IInv, TypeOK, RangeOK, Stages
<1>4. QueuesHoldQueued'
  BY <1>2 DEF FetchReturns, IInv, TypeOK, QueuesHoldQueued
<1>5. ActiveIsHandlers' /\ FinishFindsSlot' /\ ConcurrencyKept' /\ Remembers'
  BY <1>1, <1>2 DEF FetchReturns, IInv, TypeOK, ActiveIsHandlers, FinishFindsSlot,
                    ConcurrencyKept, Remembers
<1> QED
  BY <1>3, <1>4, <1>5 DEF IInv

LEMMA FinishInv == ASSUME IInv, NEW r \in Requests, Finish(r) PROVE IInv'
<1> DEFINE d == DomainOf[r]
<1>1. /\ d \in Domains /\ Handlers(d) > 0
      /\ \A e \in Domains :
           Handlers(e)' = IF e = d THEN Handlers(e) - 1 ELSE Handlers(e)
  BY HandlersAfterFinish, SlotAssumption DEF IInv
<1>2. d \in Live /\ Live' = Live
  BY <1>1 DEF Finish, Live, IInv, FinishFindsSlot
<1>3. \A e \in Live : slots'[e] =
        IF e = d THEN [slots[d] EXCEPT !.active = slots[d].active - 1] ELSE slots[e]
  BY DEF Finish, Live
<1>4. \A e \in Live :
        /\ slots'[e] \in SlotType(e)
        /\ slots'[e].queue = slots[e].queue
        /\ slots'[e].sinceSeen = slots[e].sinceSeen
        /\ slots'[e].active =
             IF e = d THEN slots[e].active - 1 ELSE slots[e].active
  <2> TAKE e \in Live
  <2>1. slots[e] \in SlotType(e)
    BY DEF IInv, TypeOK
  <2>2. CASE e = d
    <3>1. slots'[e] = [slots[e] EXCEPT !.active = slots[e].active - 1]
      BY <1>3, <2>2
    <3>2. slots[e].active \in Nat /\ slots[e].active > 0
      BY <1>1, <2>1, <2>2 DEF SlotType, IInv, ActiveIsHandlers
    <3> QED
      BY <2>1, <2>2, <3>1, <3>2 DEF SlotType
  <2>3. CASE e # d
    BY <1>3, <2>1, <2>3
  <2> QED
    BY <2>2, <2>3
<1>5. TypeOK' /\ RangeOK'
  BY <1>2, <1>4 DEF Finish, IInv, TypeOK, RangeOK
<1>6. QueuesHoldQueued'
  BY <1>2, <1>4 DEF Finish, IInv, TypeOK, QueuesHoldQueued
<1>7. ActiveIsHandlers' /\ FinishFindsSlot' /\ Remembers'
  BY <1>1, <1>2, <1>4
  DEF Finish, IInv, TypeOK, ActiveIsHandlers, FinishFindsSlot, Remembers
<1>8. ConcurrencyKept'
  BY <1>1, HandlersType, SlotAssumption DEF IInv, ConcurrencyKept
<1> QED
  BY <1>5, <1>6, <1>7, <1>8 DEF IInv

\* A test of a slot that pops nothing only notes the delay it has drawn.
LEMMA NoPopInv ==
  ASSUME IInv, dl.pc = "process",
         NEW drawn \in Draws(dl.cur) \cup {slots[dl.cur].lastDelay},
         slots' = [slots EXCEPT ![dl.cur].lastDelay = drawn],
         dl' = [dl EXCEPT !.pc = "range", !.cur = NoDomain],
         UNCHANGED <<stage, sinceStart, finishing, fatal>>
  PROVE  IInv'
<1> DEFINE d == dl.cur
<1>1. d \in Live /\ d \in Domains /\ Live' = Live
  BY DEF IInv, TypeOK, RangeOK, Live
<1>2. \A e \in Live : slots'[e] =
        IF e = d THEN [slots[d] EXCEPT !.lastDelay = drawn] ELSE slots[e]
  BY DEF Live
<1>3. \A e \in Live :
        /\ slots'[e] \in SlotType(e)
        /\ slots'[e].queue = slots[e].queue
        /\ slots'[e].sinceSeen = slots[e].sinceSeen
        /\ slots'[e].active = slots[e].active
  <2> TAKE e \in Live
  <2>1. slots[e] \in SlotType(e)
    BY DEF IInv, TypeOK
  <2>2. CASE e = d
    <3>1. slots'[e] = [slots[e] EXCEPT !.lastDelay = drawn]
      BY <1>2, <2>2
    <3> QED
      BY <2>1, <2>2, <3>1 DEF SlotType
  <2>3. CASE e # d
    BY <1>2, <2>1, <2>3
  <2> QED
    BY <2>2, <2>3
<1>4. dl' \in [pc : DownloaderSteps, left : SUBSET Domains, fresh : SUBSET Domains,
              cur : Domains \cup {NoDomain}, got : BOOLEAN]
  BY DEF IInv, TypeOK, DownloaderSteps
<1>5. TypeOK' /\ RangeOK'
  <2>1. dl'.left = dl.left /\ dl'.fresh = dl.fresh /\ dl'.pc = "range"
    BY DEF IInv, TypeOK
  <2> QED
    BY <1>1, <1>3, <1>4, <2>1 DEF IInv, TypeOK, RangeOK
<1>6. \A e \in Domains : Handlers(e)' = Handlers(e)
  BY HandlersUnchanged
<1>7. QueuesHoldQueued'
  BY <1>1, <1>3 DEF IInv, QueuesHoldQueued
<1>8. ActiveIsHandlers' /\ FinishFindsSlot' /\ ConcurrencyKept' /\ Remembers'
  BY <1>1, <1>3, <1>6 DEF IInv, TypeOK, ActiveIsHandlers, FinishFindsSlot,
                          ConcurrencyKept, Remembers
<1> QED
  BY <1>5, <1>7, <1>8 DEF IInv

\* A pop: the slot is free, so the domain has room for one handler more.
LEMMA PopInv ==
  ASSUME IInv, dl.pc = "process", SlotIsFree(dl.cur), slots[dl.cur].queue # <<>>,
         NEW r, r = Head(slots[dl.cur].queue),
         slots' = [slots EXCEPT ![dl.cur] =
           [queue |-> Tail(slots[dl.cur].queue),
            active |-> slots[dl.cur].active + 1, sinceSeen |-> 0, lastDelay |-> 0]],
         stage' = [stage EXCEPT ![r] = "fetching"],
         sinceStart' = [sinceStart EXCEPT ![dl.cur] = 0],
         dl' = [dl EXCEPT !.pc = "range", !.cur = NoDomain, !.got = TRUE],
         UNCHANGED <<finishing, fatal>>
  PROVE  IInv'
<1> DEFINE d == dl.cur
           q == slots[d].queue
<1>1. d \in Live /\ d \in Domains /\ Live' = Live
  BY DEF IInv, TypeOK, RangeOK, Live
<1>2. slots[d] \in SlotType(d) /\ q \in Seq(Requests) /\ IsInjective(q)
  BY <1>1 DEF IInv, TypeOK, SlotType, QueuesHoldQueued
<1>3. /\ Tail(q) \in Seq(Requests)
      /\ IsInjective(Tail(q))
      /\ r \in Range(q) /\ r \in Requests
      /\ Range(Tail(q)) = Range(q) \ {r}
  BY <1>2, Dequeued, HeadTailProperties
<1>4. stage[r] = "queued" /\ DomainOf[r] = d
  BY <1>1, <1>3 DEF IInv, QueuesHoldQueued
<1>5. /\ slots'[d] = [queue |-> Tail(q), active |-> slots[d].active + 1,
                      sinceSeen |-> 0, lastDelay |-> 0]
      /\ \A e \in Live \ {d} : slots'[e] = slots[e]
  BY <1>1 DEF Live
<1>6. \A e \in Domains :
        Handlers(e)' = IF e = d THEN Handlers(e) + 1 ELSE Handlers(e)
  BY <1>3, <1>4, HandlersAfterStart DEF IInv
<1>7. TypeOK'
  <2>1. slots'[d] \in SlotType(d)
    BY <1>1, <1>2, <1>3, <1>5, HorizonProperties DEF SlotType, Times
  <2>2. \A e \in Live : slots'[e] \in SlotType(e)
    BY <1>5, <2>1 DEF IInv, TypeOK
  <2>3. /\ sinceStart' \in [Domains -> Nat]
        /\ \A e \in Domains : sinceStart'[e] \in Times(e)
    BY <1>1, HorizonProperties DEF IInv, TypeOK, Times
  <2>4. dl' \in [pc : DownloaderSteps, left : SUBSET Domains,
                fresh : SUBSET Domains,
                cur : Domains \cup {NoDomain}, got : BOOLEAN]
    BY DEF IInv, TypeOK, DownloaderSteps
  <2> QED
    BY <1>1, <1>3, <2>2, <2>3, <2>4 DEF IInv, TypeOK, Stages
<1>8. RangeOK'
  <2>1. dl'.left = dl.left /\ dl'.fresh = dl.fresh /\ dl'.pc = "range"
    BY DEF IInv, TypeOK
  <2> QED
    BY <1>1, <2>1 DEF IInv, RangeOK
<1>9. QueuesHoldQueued'
  BY <1>1, <1>3, <1>4, <1>5 DEF IInv, TypeOK, QueuesHoldQueued
<1>10. slots[d].active = Handlers(d) /\ Handlers(d) \in Nat
  BY <1>1, HandlersType DEF IInv, ActiveIsHandlers
<1>11. ActiveIsHandlers'
  BY <1>1, <1>5, <1>6, <1>10 DEF IInv, TypeOK, ActiveIsHandlers
<1>12. FinishFindsSlot'
  BY <1>1, <1>6 DEF IInv, FinishFindsSlot
<1>13. ConcurrencyKept'
  <2>1. ASSUME NEW e \in Domains, SlotConcurrency[e] > 0
        PROVE  Handlers(e)' <= SlotConcurrency[e]
    <3>1. SlotConcurrency[e] \in Int /\ Handlers(e) \in Nat
      BY SlotAssumption, HandlersType DEF IInv
    <3>2. CASE e = d
      <4>1. Handlers(e) < SlotConcurrency[e]
        BY <1>10, <2>1, <3>2 DEF SlotIsFree
      <4> QED
        BY <1>6, <3>1, <3>2, <4>1
    <3>3. CASE e # d
      BY <1>6, <2>1, <3>1, <3>3 DEF IInv, ConcurrencyKept
    <3> QED
      BY <3>2, <3>3
  <2> QED
    BY <2>1 DEF ConcurrencyKept
<1>14. Remembers'
  BY <1>1, <1>5 DEF IInv, TypeOK, Remembers
<1> QED
  BY <1>7, <1>8, <1>9, <1>11, <1>12, <1>13, <1>14 DEF IInv

LEMMA ProcessQueueInv == ASSUME IInv, ProcessQueue PROVE IInv'
<1>1. dl.cur \in Live
  BY DEF ProcessQueue, IInv, RangeOK
<1>2. PICK drawn \in IF slots[dl.cur].lastDelay = 0 THEN Draws(dl.cur)
                                                    ELSE {slots[dl.cur].lastDelay} :
        IF DelayPassed(dl.cur, drawn) /\ SlotIsFree(dl.cur)
             /\ slots[dl.cur].queue # <<>>
          THEN LET r == Head(slots[dl.cur].queue) IN
               /\ slots' = [slots EXCEPT ![dl.cur] =
                    [queue |-> Tail(@.queue), active |-> @.active + 1,
                     sinceSeen |-> 0, lastDelay |-> 0]]
               /\ stage' = [stage EXCEPT ![r] = "fetching"]
               /\ sinceStart' = [sinceStart EXCEPT ![dl.cur] = 0]
               /\ dl' = [dl EXCEPT !.pc = "range", !.cur = NoDomain, !.got = TRUE]
          ELSE /\ slots' = [slots EXCEPT ![dl.cur].lastDelay = drawn]
               /\ dl' = [dl EXCEPT !.pc = "range", !.cur = NoDomain]
               /\ UNCHANGED <<stage, sinceStart>>
  BY DEF ProcessQueue
<1>3. dl.pc = "process" /\ UNCHANGED <<finishing, fatal>>
  BY DEF ProcessQueue
<1>4. CASE DelayPassed(dl.cur, drawn) /\ SlotIsFree(dl.cur)
             /\ slots[dl.cur].queue # <<>>
  BY <1>2, <1>3, <1>4, PopInv
<1>5. CASE ~(DelayPassed(dl.cur, drawn) /\ SlotIsFree(dl.cur)
               /\ slots[dl.cur].queue # <<>>)
  BY <1>2, <1>3, <1>5, NoPopInv
<1> QED
  BY <1>4, <1>5

LEMMA ClearInv == ASSUME IInv, Clear PROVE IInv'
<1>1. Live' = {e \in Live : ~Stale(e)} /\ \A e \in Live' : slots'[e] = slots[e]
  BY DEF Clear, Live
<1>2. \A d \in Domains : Handlers(d)' = Handlers(d)
  BY HandlersUnchanged DEF Clear
<1>3. \A d \in Live : Stale(d) => /\ d \in Domains /\ Handlers(d) = 0
                                  /\ slots[d].queue = <<>>
                                  /\ sinceStart[d] >= MinDelay(d)
  <2> SUFFICES ASSUME NEW d \in Live, Stale(d)
               PROVE  /\ d \in Domains /\ Handlers(d) = 0
                      /\ slots[d].queue = <<>> /\ sinceStart[d] >= MinDelay(d)
    OBVIOUS
  <2>1. d \in Domains /\ slots[d] \in SlotType(d)
    BY DEF IInv, TypeOK
  <2>2. Handlers(d) = 0
    BY <2>1, HandlersType DEF IInv, ActiveIsHandlers, Stale
  <2>3. slots[d].sinceSeen \in Nat /\ slots[d].sinceSeen > MinDelay(d)
    BY <2>1, HorizonProperties, SlotAssumption DEF SlotType, Stale, Times
  <2>4. sinceStart[d] >= MinDelay(d)
    BY <2>1, <2>3, HorizonProperties DEF IInv, Remembers
  <2> QED
    BY <2>1, <2>2, <2>4 DEF Stale
<1>4. TypeOK' /\ RangeOK'
  <2>1. dl' = AtLoop("loop")
    BY DEF Clear
  <2> QED
    BY <1>1, <2>1 DEF Clear, IInv, TypeOK, RangeOK, AtLoop, DownloaderSteps
<1>5. QueuesHoldQueued'
  BY <1>1, <1>3 DEF Clear, IInv, QueuesHoldQueued, Range, IsInjective
<1>6. ActiveIsHandlers' /\ FinishFindsSlot' /\ ConcurrencyKept'
  BY <1>1, <1>2, <1>3
  DEF IInv, TypeOK, ActiveIsHandlers, FinishFindsSlot, ConcurrencyKept
<1>7. Remembers'
  BY <1>1, <1>3 DEF Clear, IInv, Remembers
<1> QED
  BY <1>4, <1>5, <1>6, <1>7 DEF IInv

LEMMA TickInv == ASSUME IInv, Tick PROVE IInv'
<1>1. Live' = Live
  BY DEF Tick, Live
<1>2. \A d \in Live : slots'[d] =
        [slots[d] EXCEPT !.sinceSeen = Later(slots[d].sinceSeen, d)]
  BY DEF Tick, Live
<1>3. \A d \in Live : /\ slots'[d] \in SlotType(d)
                      /\ slots'[d].queue = slots[d].queue
                      /\ slots'[d].active = slots[d].active
                      /\ slots'[d].sinceSeen = Later(slots[d].sinceSeen, d)
  <2> TAKE d \in Live
  <2>1. d \in Domains /\ slots[d] \in SlotType(d)
    BY DEF IInv, TypeOK
  <2>2. slots[d].sinceSeen \in Times(d)
    BY <2>1 DEF SlotType
  <2> QED
    BY <1>2, <2>1, <2>2, LaterProperties DEF SlotType
<1>4. \A d \in Domains : /\ sinceStart'[d] = Later(sinceStart[d], d)
                         /\ sinceStart'[d] \in Times(d) /\ sinceStart'[d] \in Nat
                         /\ sinceStart'[d] >= sinceStart[d]
  BY LaterProperties, HorizonProperties DEF Tick, IInv, TypeOK, Times
<1>5. TypeOK' /\ RangeOK'
  BY <1>1, <1>3, <1>4 DEF Tick, IInv, TypeOK, RangeOK
<1>6. \A d \in Domains : Handlers(d)' = Handlers(d)
  BY HandlersUnchanged DEF Tick
<1>7. QueuesHoldQueued'
  BY <1>1, <1>3 DEF Tick, IInv, QueuesHoldQueued
<1>8. ActiveIsHandlers' /\ FinishFindsSlot' /\ ConcurrencyKept'
  BY <1>1, <1>3, <1>6
  DEF IInv, TypeOK, ActiveIsHandlers, FinishFindsSlot, ConcurrencyKept
<1>9. Remembers'
  BY <1>1, <1>3, <1>4, HorizonProperties DEF IInv, TypeOK, Remembers
<1> QED
  BY <1>5, <1>7, <1>8, <1>9 DEF IInv

LEMMA StepInv == IInv /\ [Next]_vars => IInv'
<1> SUFFICES ASSUME IInv, [Next]_vars PROVE IInv'
  OBVIOUS
<1>1. ASSUME NEW r \in Requests, Admit(r) PROVE IInv'
  BY <1>1, AdmitInv
<1>2. ASSUME NEW r \in Requests, Push(r) PROVE IInv'
  BY <1>2, PushInv
<1>3. ASSUME NEW r \in Requests, PushNew(r) PROVE IInv'
  BY <1>3, PushNewInv
<1>4. ASSUME NEW r \in Requests, FetchReturns(r) PROVE IInv'
  BY <1>4, FetchReturnsInv
<1>5. ASSUME NEW r \in Requests, Finish(r) PROVE IInv'
  BY <1>5, FinishInv
<1>6. CASE ProcessQueue
  BY <1>6, ProcessQueueInv
<1>7. CASE Clear
  BY <1>7, ClearInv
<1>8. CASE Tick
  BY <1>8, TickInv
<1>9. CASE \/ RangeStart \/ RangeEnd \/ Quit \/ \E d \in Domains : RangeNext(d)
           \/ UNCHANGED vars
  <2>1. UNCHANGED <<slots, stage, finishing, fatal, sinceStart>>
    BY <1>9 DEF RangeStart, RangeEnd, Quit, RangeNext, vars
  <2>2. \/ RangeStart \/ RangeEnd \/ Quit \/ \E d \in Domains : RangeNext(d)
        \/ UNCHANGED dl
    BY <1>9 DEF vars
  <2> QED
    BY <2>1, <2>2, RangeSteps
<1> QED
  BY <1>1, <1>2, <1>3, <1>4, <1>5, <1>6, <1>7, <1>8, <1>9 DEF Next

\* The invariant holds in every reachable state.
THEOREM Invariance == Spec => []IInv
  BY InitInv, StepInv, PTL DEF Spec

\* Every variable keeps its type; the ages stay below the horizon.
THEOREM TypeCorrect == Spec => []TypeOK
<1>1. IInv => TypeOK
  BY DEF IInv
<1> QED
  BY <1>1, Invariance, PTL

\* The downloads under way in a domain never exceed its slot's limit.
THEOREM ConcurrencyIsLimited == Spec => []ConcurrencyKept
<1>1. IInv => ConcurrencyKept
  BY DEF IInv
<1> QED
  BY <1>1, Invariance, PTL

\* A slot's counter is exact, and its Finish always finds the slot.
THEOREM FinishIsSafe == Spec => [](ActiveIsHandlers /\ FinishFindsSlot)
<1>1. IInv => ActiveIsHandlers /\ FinishFindsSlot
  BY DEF IInv
<1> QED
  BY <1>1, Invariance, PTL

\* No request is queued twice, in the wrong slot, or lost from its queue.
THEOREM QueuesAreExact == Spec => []QueuesHoldQueued
<1>1. IInv => QueuesHoldQueued
  BY DEF IInv
<1> QED
  BY <1>1, Invariance, PTL

-----------------------------------------------------------------------------
(* The interval between two starts.                                        *)

\* Only ProcessQueue starts a download, in the slot the range has reached, once the
\* drawn delay has passed since the slot was last seen.
LEMMA StartWaits ==
  ASSUME IInv, [Next]_vars, NEW d \in Domains, Starts(d)
  PROVE  sinceStart[d] >= MinDelay(d)
<1>1. PICK r \in Requests :
        DomainOf[r] = d /\ stage[r] = "queued" /\ stage'[r] = "fetching"
  BY DEF Starts
<1>2. ProcessQueue
  <2>1. ASSUME NEW s \in Requests,
               Admit(s) \/ Push(s) \/ PushNew(s) \/ FetchReturns(s) \/ Finish(s)
        PROVE  FALSE
    BY <1>1, <2>1 DEF Admit, Push, PushNew, FetchReturns, Finish, IInv, TypeOK
  <2>2. CASE \/ RangeStart \/ RangeEnd \/ Clear \/ Quit \/ Tick
             \/ \E e \in Domains : RangeNext(e)
             \/ UNCHANGED vars
    BY <1>1, <2>2 DEF RangeStart, RangeEnd, Clear, Quit, Tick, RangeNext, vars
  <2> QED
    BY <2>1, <2>2 DEF Next
<1> DEFINE c == dl.cur
           popped == Head(slots[c].queue)
<1>3. c \in Live /\ c \in Domains /\ slots[c] \in SlotType(c)
  BY <1>2 DEF ProcessQueue, IInv, TypeOK, RangeOK
<1>4. PICK drawn \in IF slots[c].lastDelay = 0 THEN Draws(c)
                                               ELSE {slots[c].lastDelay} :
        /\ DelayPassed(c, drawn) /\ slots[c].queue # <<>>
        /\ stage' = [stage EXCEPT ![popped] = "fetching"]
  BY <1>1, <1>2 DEF ProcessQueue
<1>5. popped = r
  BY <1>1, <1>4 DEF IInv, TypeOK
<1>6. c = d
  <2>1. slots[c].queue \in Seq(Requests) /\ IsInjective(slots[c].queue)
    BY <1>3 DEF SlotType, IInv, QueuesHoldQueued
  <2>2. popped \in Range(slots[c].queue)
    BY <1>4, <2>1, Dequeued
  <2> QED
    BY <1>1, <1>3, <1>5, <2>2 DEF IInv, QueuesHoldQueued
<1>7. drawn \in Draws(c)
  BY <1>3, <1>4 DEF SlotType
<1>8. /\ drawn \in Nat /\ drawn >= MinDelay(d) /\ MinDelay(d) \in Nat
      /\ slots[d].sinceSeen \in Nat /\ sinceStart[d] \in Nat
  BY <1>3, <1>6, <1>7, HorizonProperties DEF SlotType, Times, IInv, TypeOK
<1>9. slots[d].sinceSeen >= MinDelay(d)
  <2>1. CASE SlotDelay[d] > 0
    BY <1>4, <1>6, <1>8, <2>1 DEF DelayPassed
  <2>2. CASE SlotDelay[d] = 0
    BY <1>8, <2>2 DEF MinDelay
  <2> QED
    BY <2>1, <2>2, SlotAssumption
<1> QED
  BY <1>3, <1>6, <1>8, <1>9 DEF IInv, Remembers

\* Two downloads of a domain start at least the shortest delay apart.
THEOREM IntervalIsKept == Spec => IntervalKept
<1>1. IInv /\ [Next]_vars =>
        [\A d \in Domains : Starts(d) => sinceStart[d] >= MinDelay(d)]_vars
  BY StartWaits
<1> QED
  BY <1>1, Invariance, PTL DEF Spec, IntervalKept

-----------------------------------------------------------------------------
(* The slots implement the pool of work.                                   *)

Waiting == {r \in Requests : stage[r] = "queued"}

HandlersPerDomain == [d \in Domains |-> Handlers(d)]

LEMMA PoolUnchanged ==
  ASSUME TypeOK, finishing' = finishing,
         \A r \in Requests : /\ stage'[r] = "fetching" <=> stage[r] = "fetching"
                             /\ stage'[r] = "queued" <=> stage[r] = "queued"
  PROVE  Waiting' = Waiting /\ HandlersPerDomain' = HandlersPerDomain
  BY HandlersUnchanged DEF Waiting, HandlersPerDomain

LEMMA PoolStep == IInv /\ [Next]_vars => [Pool!Next]_(Pool!vars)
<1> SUFFICES ASSUME IInv, [Next]_vars PROVE [Pool!Next]_(Pool!vars)
  OBVIOUS
<1> USE SlotAssumption
<1>dom. DOMAIN SlotConcurrency = Domains
  OBVIOUS
<1>1. ASSUME NEW r \in Requests, Push(r) \/ PushNew(r) PROVE Pool!Next
  <2>1. Waiting' = Waiting \cup {r} /\ r \notin Waiting
    <3>1. stage[r] = "admitted" /\ stage' = [stage EXCEPT ![r] = "queued"]
      BY <1>1 DEF Push, PushNew
    <3> QED
      BY <3>1 DEF Waiting, IInv, TypeOK
  <2>2. HandlersPerDomain' = HandlersPerDomain
    BY <1>1, HandlersUnchanged
    DEF Push, PushNew, HandlersPerDomain, IInv, TypeOK
  <2>3. Pool!Submit(r)
    BY <2>1, <2>2 DEF Pool!Submit, Waiting, HandlersPerDomain
  <2> QED
    BY <2>3 DEF Pool!Next
<1>2. ASSUME NEW r \in Requests, Finish(r) PROVE Pool!Next
  <2>1. Waiting' = Waiting
    BY <1>2 DEF Finish, Waiting
  <2>2. /\ DomainOf[r] \in Domains
        /\ HandlersPerDomain[DomainOf[r]] > 0
        /\ HandlersPerDomain' =
             [HandlersPerDomain EXCEPT ![DomainOf[r]] = @ - 1]
    BY <1>2, HandlersAfterFinish DEF HandlersPerDomain, IInv
  <2>3. Pool!End(DomainOf[r])
    BY <2>1, <2>2 DEF Pool!End, Waiting, HandlersPerDomain
  <2> QED
    BY <1>dom, <2>2, <2>3 DEF Pool!Next
<1>3. ASSUME NEW r \in Requests, FetchReturns(r) PROVE UNCHANGED Pool!vars
  <2>1. HandlersPerDomain' = HandlersPerDomain
    BY <1>3, HandlersAfterFetch DEF HandlersPerDomain, IInv
  <2>2. Waiting' = Waiting
    BY <1>3 DEF FetchReturns, Waiting, IInv, TypeOK
  <2> QED
    BY <2>1, <2>2 DEF Pool!vars, Waiting, HandlersPerDomain
<1>4. CASE ProcessQueue
  <2> DEFINE d == dl.cur
  <2>1. d \in Live /\ d \in Domains
    BY <1>4 DEF ProcessQueue, IInv, TypeOK, RangeOK
  <2>2. CASE stage' = stage
    BY <1>4, <2>2, PoolUnchanged
    DEF ProcessQueue, Pool!vars, Waiting, HandlersPerDomain, IInv
  <2>3. ASSUME SlotIsFree(d), slots[d].queue # <<>>,
               NEW r, r = Head(slots[d].queue),
               stage' = [stage EXCEPT ![r] = "fetching"]
        PROVE  Pool!Next
    <3>1. slots[d].queue \in Seq(Requests) /\ IsInjective(slots[d].queue)
      BY <2>1 DEF IInv, TypeOK, SlotType, QueuesHoldQueued
    <3>2. r \in Range(slots[d].queue) /\ r \in Requests
      BY <2>3, <3>1, Dequeued, HeadTailProperties
    <3>3. stage[r] = "queued" /\ DomainOf[r] = d
      BY <2>1, <3>2 DEF IInv, QueuesHoldQueued
    <3>4. Waiting' = Waiting \ {r} /\ r \in Waiting
      BY <2>3, <3>2, <3>3 DEF Waiting, IInv, TypeOK
    <3>5. \A e \in Domains :
            Handlers(e)' = IF e = d THEN Handlers(e) + 1 ELSE Handlers(e)
      BY <1>4, <2>3, <3>2, <3>3, HandlersAfterStart DEF ProcessQueue, IInv
    <3>6. HandlersPerDomain' = [HandlersPerDomain EXCEPT ![d] = @ + 1]
      BY <2>1, <3>5 DEF HandlersPerDomain
    <3>7. Pool!HasRoom(d)
      BY <2>1, <2>3 DEF Pool!HasRoom, SlotIsFree, IInv, ActiveIsHandlers
    <3>8. Pool!Begin(r)
      BY <3>3, <3>4, <3>6, <3>7 DEF Pool!Begin, Waiting, HandlersPerDomain
    <3> QED
      BY <3>2, <3>8 DEF Pool!Next
  <2> QED
    BY <1>4, <2>2, <2>3 DEF ProcessQueue
<1>5. CASE \/ RangeStart \/ RangeEnd \/ Clear \/ Quit \/ Tick
           \/ (\E e \in Domains : RangeNext(e))
           \/ (\E r \in Requests : Admit(r)) \/ UNCHANGED vars
  <2>1. /\ finishing' = finishing
        /\ \A r \in Requests :
             /\ stage'[r] = "fetching" <=> stage[r] = "fetching"
             /\ stage'[r] = "queued" <=> stage[r] = "queued"
    BY <1>5 DEF RangeStart, RangeEnd, Clear, Quit, Tick, RangeNext, Admit, vars,
                IInv, TypeOK
  <2> QED
    BY <2>1, PoolUnchanged DEF Pool!vars, Waiting, HandlersPerDomain, IInv
<1>6. CASE \E r \in Requests :
             Admit(r) \/ Push(r) \/ PushNew(r) \/ FetchReturns(r) \/ Finish(r)
  BY <1>1, <1>2, <1>3, <1>5, <1>6
<1> QED
  BY <1>4, <1>5, <1>6 DEF Next

\* The request slots with processDownloader implement a pool with a lane for each
\* domain.
THEOREM Refinement == Spec => ImplementsPool
<1>1. Init => Pool!Init
  <2> SUFFICES ASSUME Init PROVE Pool!Init
    OBVIOUS
  <2>1. \A d \in Domains : Downloads(d) = {} /\ Late(d) = {}
    BY DEF Init, Downloads, Late
  <2>2. \A d \in Domains : Handlers(d) = 0
    BY <2>1, FS_EmptySet DEF Handlers
  <2> QED
    BY <2>2, SlotAssumption DEF Init, Pool!Init
<1> QED
  BY <1>1, PoolStep, Invariance, PTL DEF Spec, ImplementsPool, Pool!Spec
=============================================================================
