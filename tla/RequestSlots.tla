---------------------------- MODULE RequestSlots ----------------------------
(***************************************************************************)
(* The downloader's slots: RequestSlotImpl and requestSlot of slot.go, the *)
(* loop processDownloader of engine.go with the goroutine its Pop starts,  *)
(* the admission test of processScheduler, and the handler of a download.  *)
(*                                                                         *)
(* A slot is a FIFO queue per domain with a limit on the downloads under   *)
(* way and a delay between two starts. rs.mu protects every method except  *)
(* the range over rs.slots in Pop's goroutine, which takes it only inside  *)
(* processQueue. Each method is therefore one step, and Push, which writes *)
(* the map when it creates a slot, may overlap a step of the range: a      *)
(* concurrent map iteration and write, for which the Go runtime may end    *)
(* the program.                                                            *)
(*                                                                         *)
(* Time. lastSeen is kept as the time since it was set, up to Horizon,     *)
(* beyond which no test of the code tells two values apart. A new slot's   *)
(* lastSeen is 0, the Unix epoch: Horizon. All times are in one unit.      *)
(***************************************************************************)
EXTENDS Integers, FiniteSets, Sequences, Functions

CONSTANTS
  Requests,
  Domains,
  DomainOf,         \* [Requests -> Domains], Request.Domain(): "" for a request whose
                    \* Ctx has no "domain", since its test of err is inverted
  SlotConcurrency,  \* [Domains -> Int]: REQUEST_SLOTS's concurrency for a domain
                    \* it configures, CONCURRENT_REQUESTS for any other
  SlotDelay,        \* [Domains -> Nat]: its delay, or DOWNLOAD_DELAY
  SlotQueueSize,    \* [Domains -> Nat \ {0}]: maxQueueSize of a domain's slot
  ConcurrentRequests, \* CONCURRENT_REQUESTS, for the admission test
  Randomize,        \* RANDOMIZE_DOWNLOAD_DELAY
  ClearAge,         \* the age processDownloader gives to Clear
  NoDomain          \* "no domain": the range is between two domains

ASSUME SlotAssumption ==
  /\ IsFiniteSet(Requests) /\ IsFiniteSet(Domains)
  /\ DomainOf \in [Requests -> Domains]
  /\ SlotConcurrency \in [Domains -> Int]
  /\ SlotDelay \in [Domains -> Nat]
  /\ SlotQueueSize \in [Domains -> Nat \ {0}]
  /\ ConcurrentRequests \in Int
  /\ Randomize \in BOOLEAN
  /\ ClearAge \in Nat
  /\ NoDomain \notin Domains

VARIABLES
  slots,      \* rs.slots: a requestSlot for each domain that has one
  stage,      \* where each request stands on its way to the downloader
  finishing,  \* requests whose download has returned, but not yet its Finish
  dl,         \* processDownloader and the range of Pop's goroutine
  fatal,      \* the Go runtime has ended the program
  sinceStart  \* observer: time since a download of the domain last started

vars == <<slots, stage, finishing, dl, fatal, sinceStart>>

\* What downloadDelay can draw: (rand + 0.5) * delay, or the delay itself.
Draws(d) ==
  IF Randomize THEN (SlotDelay[d] \div 2)..(SlotDelay[d] + SlotDelay[d] \div 2)
               ELSE {SlotDelay[d]}

\* Beyond any delay drawn and any age that Clear compares with.
Horizon(d) ==
  SlotDelay[d] + 1 +
    (IF SlotDelay[d] \div 2 > ClearAge THEN SlotDelay[d] \div 2 ELSE ClearAge)

Times(d) == 0..Horizon(d)

SlotType(d) ==
  [queue : Seq(Requests), active : Nat, sinceSeen : Times(d),
   lastDelay : Draws(d) \cup {0}]

NewSlot(d) ==
  [queue |-> <<>>, active |-> 0, sinceSeen |-> Horizon(d), lastDelay |-> 0]

Live == DOMAIN slots

\* "idle": not on its way; the spider or a retry may schedule it.
Stages == {"idle", "admitted", "queued", "fetching"}

DownloaderSteps == {"loop", "range", "process", "clear", "quit"}

TypeOK ==
  /\ Live \subseteq Domains
  /\ \A d \in Live : slots[d] \in SlotType(d)
  /\ stage \in [Requests -> Stages]
  /\ finishing \subseteq Requests
  /\ dl \in [pc : DownloaderSteps, left : SUBSET Domains, fresh : SUBSET Domains,
             cur : Domains \cup {NoDomain}, got : BOOLEAN]
  /\ fatal \in BOOLEAN
  /\ sinceStart \in [Domains -> Nat]
  /\ \A d \in Domains : sinceStart[d] \in Times(d)

\* left: the domains that were there when the range began and are to be met.
\* fresh: those inserted since, which a range over a Go map may meet or miss.
AtLoop(step) ==
  [pc |-> step, left |-> {}, fresh |-> {}, cur |-> NoDomain, got |-> FALSE]

Init ==
  /\ slots = [d \in {} |-> NewSlot(d)]
  /\ stage = [r \in Requests |-> "idle"]
  /\ finishing = {}
  /\ dl = AtLoop("loop")
  /\ fatal = FALSE
  /\ sinceStart = [d \in Domains |-> Horizon(d)]

-----------------------------------------------------------------------------
(* The tests of a slot, and those the scheduler's loop makes of all slots. *)

\* Mutant: the limit itself still counts as free.
SlotIsFreeUpToLimit(d) ==
  SlotConcurrency[d] > 0 => slots[d].active <= SlotConcurrency[d]

SlotIsFree(d) ==
  SlotConcurrency[d] > 0 => slots[d].active < SlotConcurrency[d]

SlotIsEmpty(d) == slots[d].queue = <<>> /\ slots[d].active <= 0

SlotQueueFull(d) == Len(slots[d].queue) >= SlotQueueSize[d]

IsEmpty == \A d \in Live : SlotIsEmpty(d)

\* IsFree looks for a slot at work with room for more. It adds up the active
\* downloads of the slots it meets on the way, in the random order of a Go map, and
\* gives up when they reach CONCURRENT_REQUESTS: it may answer TRUE iff such a slot
\* can come first.
MayBeFree ==
  \E d \in Live :
    /\ ~SlotQueueFull(d) /\ SlotIsFree(d) /\ ~SlotIsEmpty(d)
    /\ ConcurrentRequests > 0 => slots[d].active < ConcurrentRequests

-----------------------------------------------------------------------------
(* Requests on their way.                                                  *)

\* processScheduler takes the request from the scheduler and sends it towards the
\* downloader's middlewares. The tests of the other slots are left open.
Admit(r) ==
  /\ stage[r] = "idle"
  /\ MayBeFree \/ IsEmpty
  /\ stage' = [stage EXCEPT ![r] = "admitted"]
  /\ UNCHANGED <<slots, finishing, dl, fatal, sinceStart>>

\* Push into a slot that exists.
Push(r) ==
  /\ stage[r] = "admitted"
  /\ DomainOf[r] \in Live
  /\ slots' = [slots EXCEPT ![DomainOf[r]].queue = Append(@, r)]
  /\ stage' = [stage EXCEPT ![r] = "queued"]
  /\ UNCHANGED <<finishing, dl, fatal, sinceStart>>

\* Push with a new slot writes the map. A range that is beginning or moving on reads
\* the map without the lock: if the two overlap the runtime may end the program.
PushNew(r) ==
  /\ stage[r] = "admitted"
  /\ DomainOf[r] \notin Live
  /\ LET d == DomainOf[r] IN
       /\ slots' = [e \in Live \cup {d} |->
                      IF e = d THEN [NewSlot(d) EXCEPT !.queue = <<r>>] ELSE slots[e]]
       /\ dl' = IF dl.pc \in {"range", "process"}
                  THEN [dl EXCEPT !.fresh = @ \cup {d}] ELSE dl
  /\ stage' = [stage EXCEPT ![r] = "queued"]
  /\ fatal' \in {FALSE, dl.pc \in {"loop", "range"} /\ Live # {}}
  /\ UNCHANGED <<finishing, sinceStart>>

\* Fetch returns and the handler hands on its response or error, so that a retry
\* may schedule the request again before the deferred Finish has run. (One late
\* handler per request: the bound of finishing being a set.)
FetchReturns(r) ==
  /\ stage[r] = "fetching"
  /\ r \notin finishing
  /\ stage' = [stage EXCEPT ![r] = "idle"]
  /\ finishing' = finishing \cup {r}
  /\ UNCHANGED <<slots, dl, fatal, sinceStart>>

\* Finish looks the slot up again and dereferences what it finds.
Finish(r) ==
  /\ r \in finishing
  /\ slots' = [slots EXCEPT ![DomainOf[r]].active = @ - 1]
  /\ finishing' = finishing \ {r}
  /\ UNCHANGED <<stage, dl, fatal, sinceStart>>

-----------------------------------------------------------------------------
(* processDownloader, and the goroutine of Pop it waits for.               *)

RangeStart ==
  /\ dl.pc = "loop"
  /\ dl' = [AtLoop("range") EXCEPT !.left = Live]
  /\ UNCHANGED <<slots, stage, finishing, fatal, sinceStart>>

\* The range moves to any domain not met yet.
RangeNext(d) ==
  /\ dl.pc = "range"
  /\ d \in dl.left \cup dl.fresh
  /\ dl' = [dl EXCEPT !.pc = "process", !.cur = d,
                      !.left = @ \ {d}, !.fresh = @ \ {d}]
  /\ UNCHANGED <<slots, stage, finishing, fatal, sinceStart>>

\* Mutant: an instant too early.
DelayAlmostPassed(d, drawn) == SlotDelay[d] > 0 => drawn <= slots[d].sinceSeen + 1

\* Mutant: the penalty has the wrong sign.
DelayPassedSwapped(d, drawn) == SlotDelay[d] > 0 => drawn > slots[d].sinceSeen

\* The delay since the slot's last start, drawn once for each start, has passed.
DelayPassed(d, drawn) == SlotDelay[d] > 0 => drawn <= slots[d].sinceSeen

\* processQueue, pop included: one critical section of rs.mu.
ProcessQueue ==
  LET d == dl.cur IN
  /\ dl.pc = "process"
  /\ \E drawn \in IF slots[d].lastDelay = 0 THEN Draws(d) ELSE {slots[d].lastDelay} :
       IF DelayPassed(d, drawn) /\ SlotIsFree(d) /\ slots[d].queue # <<>>
         THEN LET r == Head(slots[d].queue) IN
              /\ slots' = [slots EXCEPT ![d] =
                   [queue |-> Tail(@.queue), active |-> @.active + 1,
                    sinceSeen |-> 0, lastDelay |-> 0]]
              /\ stage' = [stage EXCEPT ![r] = "fetching"]
              /\ sinceStart' = [sinceStart EXCEPT ![d] = 0]
              /\ dl' = [dl EXCEPT !.pc = "range", !.cur = NoDomain, !.got = TRUE]
         ELSE /\ slots' = [slots EXCEPT ![d].lastDelay = drawn]
              /\ dl' = [dl EXCEPT !.pc = "range", !.cur = NoDomain]
              /\ UNCHANGED <<stage, sinceStart>>
  /\ UNCHANGED <<finishing, fatal>>

\* The range has met every domain that was there at its start. With nothing popped
\* the loop sleeps and clears.
RangeEnd ==
  /\ dl.pc = "range"
  /\ dl.left = {}
  /\ dl' = AtLoop(IF dl.got THEN "loop" ELSE "clear")
  /\ UNCHANGED <<slots, stage, finishing, fatal, sinceStart>>

\* Mutant: a slot with downloads under way may be stale.
StaleThoughActive(d) ==
  /\ slots[d].queue = <<>>
  /\ slots[d].sinceSeen > SlotDelay[d] + ClearAge

Stale(d) ==
  /\ slots[d].active <= 0
  /\ slots[d].queue = <<>>
  /\ slots[d].sinceSeen > SlotDelay[d] + ClearAge

Clear ==
  /\ dl.pc = "clear"
  /\ slots' = [d \in {e \in Live : ~Stale(e)} |-> slots[d]]
  /\ dl' = AtLoop("loop")
  /\ UNCHANGED <<stage, finishing, fatal, sinceStart>>

Quit ==
  /\ dl.pc = "loop"
  /\ dl' = AtLoop("quit")
  /\ UNCHANGED <<slots, stage, finishing, fatal, sinceStart>>

Later(t, d) == IF t < Horizon(d) THEN t + 1 ELSE t

Tick ==
  /\ slots' = [d \in Live |-> [slots[d] EXCEPT !.sinceSeen = Later(@, d)]]
  /\ sinceStart' = [d \in Domains |-> Later(sinceStart[d], d)]
  /\ UNCHANGED <<stage, finishing, dl, fatal>>

Next ==
  /\ ~fatal
  /\ \/ \E r \in Requests :
          Admit(r) \/ Push(r) \/ PushNew(r) \/ FetchReturns(r) \/ Finish(r)
     \/ \E d \in Domains : RangeNext(d)
     \/ RangeStart \/ ProcessQueue \/ RangeEnd \/ Clear \/ Quit \/ Tick

Spec == Init /\ [][Next]_vars

\* Goroutines are scheduled, time passes, and a download ends (the http client has
\* a timeout). Nothing obliges the scheduler to admit a request.
Fairness ==
  /\ WF_vars(~fatal /\ (RangeStart \/ ProcessQueue \/ RangeEnd \/ Clear))
  /\ WF_vars(~fatal /\ \E d \in Domains : RangeNext(d))
  /\ WF_vars(~fatal /\ Tick)
  /\ \A r \in Requests :
       /\ WF_vars(~fatal /\ (Push(r) \/ PushNew(r)))
       /\ WF_vars(~fatal /\ FetchReturns(r))
       /\ WF_vars(~fatal /\ Finish(r))

FairSpec == Spec /\ Fairness

-----------------------------------------------------------------------------
Downloads(d) == {r \in Requests : stage[r] = "fetching" /\ DomainOf[r] = d}

Late(d) == {r \in finishing : DomainOf[r] = d}

Handlers(d) == Cardinality(Downloads(d)) + Cardinality(Late(d))

\* A slot's counter is the number of its download handlers under way, the late
\* ones included.
ActiveIsHandlers == \A d \in Live : slots[d].active = Handlers(d)

\* Finish never meets a deleted slot: Clear spares a domain with a handler under way.
FinishFindsSlot ==
  \A d \in Domains : Handlers(d) > 0 => d \in Live

\* A request waits in the queue of its own domain, once, exactly while it is
\* "queued".
QueuesHoldQueued ==
  /\ \A d \in Live :
       /\ IsInjective(slots[d].queue)
       /\ \A r \in Range(slots[d].queue) : stage[r] = "queued" /\ DomainOf[r] = d
  /\ \A r \in Requests :
       stage[r] = "queued" =>
         DomainOf[r] \in Live /\ r \in Range(slots[DomainOf[r]].queue)

\* The limit that interface.go promises of RequestSloter, for each domain, and
\* counted over handlers rather than by the slot's own counter.
ConcurrencyKept ==
  \A d \in Domains : SlotConcurrency[d] > 0 => Handlers(d) <= SlotConcurrency[d]

\* The interval that interface.go promises: two downloads of a domain start at
\* least the shortest delay apart, though the slot may have been deleted and made
\* anew in between, with its lastSeen forgotten.
MinDelay(d) == IF Randomize THEN SlotDelay[d] \div 2 ELSE SlotDelay[d]

Starts(d) ==
  \E r \in Requests :
    DomainOf[r] = d /\ stage[r] = "queued" /\ stage'[r] = "fetching"

IntervalKept ==
  [][\A d \in Domains : Starts(d) => sinceStart[d] >= MinDelay(d)]_vars

\* A request that passed the scheduler's gate is downloaded, unless the engine
\* quits or the program ends.
EveryAdmittedFetched ==
  \A r \in Requests :
    stage[r] = "admitted" ~> (stage[r] = "fetching" \/ dl.pc = "quit" \/ fatal)

\* The slots implement a pool with a lane for each domain.
Pool == INSTANCE WorkPool WITH
  Work <- Requests,
  Lane <- DomainOf,
  Capacity <- SlotConcurrency,
  waiting <- {r \in Requests : stage[r] = "queued"},
  handlers <- [d \in Domains |-> Handlers(d)]

ImplementsPool == Pool!Spec
=============================================================================
