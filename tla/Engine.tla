------------------------------- MODULE Engine -------------------------------
(***************************************************************************)
(* EnginerImpl of engine.go: its four loops, the goroutines of emit, of    *)
(* triggerScheduler and of a spider's results, the handlers that move a    *)
(* request from the scheduler to the callback, isIdle, the interrupts,     *)
(* Close, and the end of Spider.Start.                                     *)
(*                                                                         *)
(* A signal is a record [kind, of]. Handlers that only pass their signal   *)
(* on are folded into the next one: "sched" stands for RequestLeftScheduler*)
(* and RequestReachedDownloaderMiddleware, "resp" for the seven from       *)
(* ResponseLeftDownloader to ResultsLeftSpiderMiddleware, "open" for the   *)
(* three of the start (RequestFlow takes them apart). The manager's groups *)
(* and its Close are in SignalManager, the limits of the slots and their   *)
(* queues in RequestSlots and ItemDispatch, whose tokens are left out here.*)
(*                                                                         *)
(* backTask and wg count the same goroutines, each from its Add, made by   *)
(* the goroutine itself, to its Done; IsAllDone of the signal manager is   *)
(* TRUE when no dispatch that has been counted is under way. They are      *)
(* operators here, of the states of those goroutines.                      *)
(***************************************************************************)
EXTENDS Integers, FiniteSets

CONSTANTS
  Requests, Items,
  Starts,           \* SUBSET Requests: Spider.Starts
  Finds,            \* [Requests -> SUBSET (Requests \cup Items)]: what parsing yields;
                    \* nothing is yielded twice (retries are in RequestFlow)
  RequestRoom,      \* downloads under way at which the request slots are not free
  ItemRoom,         \* CONCURRENT_ITEMS
  ResponseRoom,     \* responses being parsed at which the response slot is not free
  MaxInterrupts,    \* bound: interrupts the user sends
  MaxTriggers,      \* bound: triggerScheduler goroutines alive at once
  MaxIdle,          \* bound: SpiderIdle signals
  MaxClosed         \* bound: SpiderClosed signals

ASSUME EngineAssumption ==
  /\ IsFiniteSet(Requests) /\ IsFiniteSet(Items)
  /\ Requests \cap Items = {}
  /\ Starts \subseteq Requests
  /\ Finds \in [Requests -> SUBSET (Requests \cup Items)]
  /\ RequestRoom \in Nat \ {0} /\ ItemRoom \in Nat \ {0} /\ ResponseRoom \in Nat \ {0}
  /\ \A r \in Requests :
       /\ Finds[r] \cap Starts = {}
       /\ \A q \in Requests \ {r} : Finds[q] \cap Finds[r] = {}
  /\ MaxInterrupts \in Nat /\ MaxTriggers \in Nat \ {0}
  /\ MaxIdle \in Nat \ {0} /\ MaxClosed \in Nat \ {0}

VARIABLES
  life,       \* how far each signal is
  pending,    \* the scheduler's queue
  queued,     \* requests in the request slots' queues, items in the item slot's
  active,     \* those popped, up to their Finish
  results,    \* the goroutines that range over results: what is left, or "none"...
  triggers,   \* triggerScheduler goroutines that have not tried their send
  scheduler,  \* where processScheduler stands
  loops,      \* which of the other three loops have not ended
  stopFlag,
  interrupts, \* interrupts sent so far
  quit,       \* eg.quit is closed
  waiting,    \* the SpiderClosed handler that is in eg.Close's wg.Wait
  main,       \* Spider.Start, after processScheduler
  fatal,      \* close(quit) has been called twice, a panic that ends the program
  lateTakes,  \* observer: requests taken from the scheduler after stopFlag
  disturbed,  \* observer: since isIdle began, a signal or a store has changed, or
              \* a goroutine has stood between its start and its Add
  hasty       \* observer: SpiderIdle has been emitted although disturbed, or although
              \* quit was closed, when the select had its timer and quit to choose from

signals == <<life, results>>
stores == <<pending, queued, active>>
control == <<stopFlag, interrupts, quit, waiting, main, fatal>>
engine == <<signals, stores, triggers, scheduler, loops, control, lateTakes>>
vars == <<engine, disturbed, hasty>>

Work == Requests \cup Items

Sig(k, x) == [kind |-> k, of |-> x]

SignalSet ==
  {Sig("open", 0)}
    \cup [kind : {"left", "sched", "down", "resp"}, of : Requests]
    \cup [kind : {"item"}, of : Items]
    \cup [kind : {"idle"}, of : 1..MaxIdle]
    \cup [kind : {"closed"}, of : 1..MaxClosed]

\* "spawned": before the goroutine's Add. "emitting": in Emit. "received": the
\* dispatch has not been counted. "counted": its handlers run.
LifeStates == {"none", "spawned", "emitting", "received", "counted", "done"}

\* The start's goroutine ranges over Starts, a request's over what it Finds.
Ranges == {Sig("open", 0)} \cup [kind : {"resp"}, of : Requests]

Yields(g) == IF g.kind = "open" THEN Starts ELSE Finds[g.of]

LoopNames == {"interrupt", "item", "downloader"}

\* The part of isIdle to be read next.
IdleStates == {"idle1", "idle2", "idle3", "idle4", "idle5"}

SchedulerStates == {"select", "admit", "take", "ended"} \cup IdleStates

TypeOK ==
  /\ life \in [SignalSet -> LifeStates]
  /\ pending \subseteq Requests
  /\ queued \subseteq Work /\ active \subseteq Work
  /\ results \in [Ranges -> [at : {"none", "spawned", "running", "done"},
                             left : SUBSET Work]]
  /\ triggers \in 0..MaxTriggers
  /\ scheduler \in SchedulerStates
  /\ loops \subseteq LoopNames
  /\ stopFlag \in BOOLEAN /\ quit \in BOOLEAN /\ fatal \in BOOLEAN
  /\ interrupts \in 0..MaxInterrupts
  /\ waiting \subseteq SignalSet
  /\ main \in {"start", "spin", "ended"}
  /\ lateTakes \in Nat /\ disturbed \in BOOLEAN /\ hasty \in BOOLEAN

\* Start has started its loops and emitted SpiderOpened.
Init ==
  /\ life = [s \in SignalSet |-> IF s.kind = "open" THEN "spawned" ELSE "none"]
  /\ pending = {} /\ queued = {} /\ active = {}
  /\ results = [g \in Ranges |-> [at |-> "none", left |-> {}]]
  /\ triggers = 0
  /\ scheduler = "select"
  /\ loops = LoopNames
  /\ stopFlag = FALSE /\ interrupts = 0
  /\ quit = FALSE /\ waiting = {} /\ main = "start"
  /\ fatal = FALSE
  /\ lateTakes = 0 /\ disturbed = FALSE /\ hasty = FALSE

-----------------------------------------------------------------------------
(* The counters, and the slots' tests.                                     *)

Counted == {s \in SignalSet : life[s] = "emitting"}

RangesRunning == {g \in Ranges : results[g].at = "running"}

\* eg.IsAllDone: backTask <= 0.
NoBackTask == Counted = {} /\ RangesRunning = {}

\* eg.wg is zero: processScheduler runs in Start's own goroutine.
WgIsZero == NoBackTask /\ loops = {}

\* Signal.IsAllDone.
SignalsAllDone == \A s \in SignalSet : life[s] # "counted"

RequestsIdle == (queued \cup active) \cap Requests = {}

ItemsIdle == (queued \cup active) \cap Items = {}

RequestSlotsFree ==
  /\ queued \cap Requests # {} \/ active \cap Requests # {}
  /\ Cardinality((queued \cup active) \cap Requests) < RequestRoom

ItemSlotFree == Cardinality(active \cap Items) < ItemRoom

ResponseSlotFree ==
  Cardinality({r \in Requests : life[Sig("resp", r)] = "counted"}) < ResponseRoom

-----------------------------------------------------------------------------
(* emit, and the signal manager.                                           *)

\* A life in which emit has started a goroutine for each signal of S.
Emitting(S) == [s \in SignalSet |-> IF s \in S THEN "spawned" ELSE life[s]]

\* The same, while signal s ends.
EndsEmitting(s, S) == [Emitting(S) EXCEPT ![s] = "done"]

\* The next signal of a control kind; none beyond the bound.
NextControl(k) ==
  LET free == {s \in SignalSet : s.kind = k /\ life[s] = "none"}
  IN  {s \in free : \A t \in free : s.of <= t.of}

EmitAdds(s) ==
  /\ life[s] = "spawned"
  /\ life' = [life EXCEPT ![s] = "emitting"]
  /\ UNCHANGED <<results, stores, triggers, scheduler, loops, control, lateTakes>>

\* The channel's rendezvous, with the Done of the emitting goroutine, which only
\* shortens its time as a counted one.
Received(s) ==
  /\ life[s] = "emitting"
  /\ main # "ended"
  /\ life' = [life EXCEPT ![s] = "received"]
  /\ UNCHANGED <<results, stores, triggers, scheduler, loops, control, lateTakes>>

DispatchCounted(s) ==
  /\ life[s] = "received"
  /\ life' = [life EXCEPT ![s] = "counted"]
  /\ UNCHANGED <<results, stores, triggers, scheduler, loops, control, lateTakes>>

-----------------------------------------------------------------------------
(* The handlers: each acts and is done.                                    *)

\* spiderOpened, startsLeftSpider, startsLeftSpiderMiddleware; and the chain from
\* responseLeftDownloader to resultsLeftSpiderMiddleware. A goroutine ranges over
\* what the middlewares return.
StartsRange(g) ==
  /\ life[g] = "counted"
  /\ life' = EndsEmitting(g, {})
  /\ results' = [results EXCEPT ![g] = [at |-> "spawned", left |-> Yields(g)]]
  /\ UNCHANGED <<stores, triggers, scheduler, loops, control, lateTakes>>

RangeAdds(g) ==
  /\ results[g].at = "spawned"
  /\ results' = [results EXCEPT ![g].at = "running"]
  /\ UNCHANGED <<life, stores, triggers, scheduler, loops, control, lateTakes>>

\* Mutant: a start is passed on after an interrupt too.
RangeYieldsOn(g, w) ==
  /\ results[g].at = "running"
  /\ w \in results[g].left
  /\ results' = [results EXCEPT ![g].left = @ \ {w}]
  /\ IF w \in Requests
       THEN life' = Emitting({Sig("left", w)}) /\ UNCHANGED queued
       ELSE queued' = queued \cup {w} /\ UNCHANGED life
  /\ UNCHANGED <<pending, active, triggers, scheduler, loops, control, lateTakes>>

\* A request is emitted, an item is pushed into the item slot. A start is passed on
\* only while stopFlag is not set: the test and the emit are one step, as an interrupt
\* between them is no different from one between the emit and its goroutine's Add.
RangeYields(g, w) ==
  /\ results[g].at = "running"
  /\ w \in results[g].left
  /\ g.kind = "open" => ~stopFlag
  /\ results' = [results EXCEPT ![g].left = @ \ {w}]
  /\ IF w \in Requests
       THEN life' = Emitting({Sig("left", w)}) /\ UNCHANGED queued
       ELSE queued' = queued \cup {w} /\ UNCHANGED life
  /\ UNCHANGED <<pending, active, triggers, scheduler, loops, control, lateTakes>>

RangeEnds(g) ==
  /\ results[g].at = "running"
  /\ results[g].left = {} \/ (g.kind = "open" /\ stopFlag)
  /\ results' = [results EXCEPT ![g] = [at |-> "done", left |-> {}]]
  /\ UNCHANGED <<life, stores, triggers, scheduler, loops, control, lateTakes>>

RequestLeftEngine(r) ==
  /\ life[Sig("left", r)] = "counted"
  /\ pending' = pending \cup {r}
  /\ life' = EndsEmitting(Sig("left", r), {})
  /\ UNCHANGED <<results, queued, active, triggers, scheduler, loops, control,
                 lateTakes>>

\* requestReachedDownloaderMiddleware pushes the request into its slot.
PushesRequest(r) ==
  /\ life[Sig("sched", r)] = "counted"
  /\ queued' = queued \cup {r}
  /\ life' = EndsEmitting(Sig("sched", r), {})
  /\ UNCHANGED <<results, pending, active, triggers, scheduler, loops, control,
                 lateTakes>>

\* Mutant: an error of Fetch is not handed on.
RequestReachedDownloaderSilent(r) ==
  /\ life[Sig("down", r)] = "counted"
  /\ active' = active \ {r}
  /\ \/ life' = EndsEmitting(Sig("down", r), {Sig("resp", r)})
     \/ life' = EndsEmitting(Sig("down", r), {})
  /\ UNCHANGED <<results, pending, queued, triggers, scheduler, loops, control,
                 lateTakes>>

RequestReachedDownloader(r) ==
  /\ life[Sig("down", r)] = "counted"
  /\ active' = active \ {r}
  /\ life' = EndsEmitting(Sig("down", r), {Sig("resp", r)})
  /\ UNCHANGED <<results, pending, queued, triggers, scheduler, loops, control,
                 lateTakes>>

ItemLeftEngine(i) ==
  /\ life[Sig("item", i)] = "counted"
  /\ active' = active \ {i}
  /\ life' = EndsEmitting(Sig("item", i), {})
  /\ UNCHANGED <<results, pending, queued, triggers, scheduler, loops, control,
                 lateTakes>>

SpiderIdle(s) ==
  /\ s.kind = "idle"
  /\ life[s] = "counted"
  /\ life' = EndsEmitting(s, NextControl("closed"))
  /\ UNCHANGED <<results, stores, triggers, scheduler, loops, control, lateTakes>>

\* eg.Close closes quit, which panics if it is closed already, and waits.
SpiderClosed(s) ==
  /\ s.kind = "closed"
  /\ life[s] = "counted"
  /\ s \notin waiting
  /\ fatal' = quit
  /\ quit' = TRUE
  /\ waiting' = waiting \cup {s}
  /\ UNCHANGED <<signals, stores, triggers, scheduler, loops, stopFlag, interrupts,
                 main, lateTakes>>

CloseReturns(s) ==
  /\ s \in waiting
  /\ WgIsZero
  /\ waiting' = waiting \ {s}
  /\ life' = EndsEmitting(s, {})
  /\ UNCHANGED <<results, stores, triggers, scheduler, loops, stopFlag, interrupts,
                 quit, main, fatal, lateTakes>>

-----------------------------------------------------------------------------
(* The loops of the item slot, of the downloader and of the interrupts.    *)

ItemPop(i) ==
  /\ "item" \in loops
  /\ i \in queued
  /\ ItemSlotFree
  /\ queued' = queued \ {i}
  /\ active' = active \cup {i}
  /\ life' = Emitting({Sig("item", i)})
  /\ UNCHANGED <<results, pending, triggers, scheduler, loops, control, lateTakes>>

RequestPop(r) ==
  /\ "downloader" \in loops
  /\ r \in queued
  /\ queued' = queued \ {r}
  /\ active' = active \cup {r}
  /\ life' = Emitting({Sig("down", r)})
  /\ UNCHANGED <<results, pending, triggers, scheduler, loops, control, lateTakes>>

\* The first interrupt sets stopFlag, each later one emits SpiderClosed.
Interrupt ==
  /\ "interrupt" \in loops
  /\ interrupts < MaxInterrupts
  /\ interrupts' = interrupts + 1
  /\ stopFlag' = TRUE
  /\ life' = IF interrupts = 0 THEN life ELSE Emitting(NextControl("closed"))
  /\ UNCHANGED <<results, stores, triggers, scheduler, loops, quit, waiting, main,
                 fatal, lateTakes>>

\* Mutant: processInterrupt does not look at quit.
LoopEndsButInterrupt(l) ==
  /\ quit
  /\ l \in loops \ {"interrupt"}
  /\ loops' = loops \ {l}
  /\ UNCHANGED <<signals, stores, triggers, scheduler, control, lateTakes>>

LoopEnds(l) ==
  /\ quit
  /\ l \in loops
  /\ loops' = loops \ {l}
  /\ UNCHANGED <<signals, stores, triggers, scheduler, control, lateTakes>>

-----------------------------------------------------------------------------
(* triggerScheduler and processScheduler.                                  *)

\* The trigger's Add and Done enclose nothing but its attempt to send, so that it is
\* one step. Beyond the bound a goroutine more would change nothing: one delivered token is
\* as good as two.
Triggered == triggers' = IF triggers < MaxTriggers THEN triggers + 1 ELSE triggers

\* The goroutine's send meets the loop in its select.
TriggerDelivered ==
  /\ triggers > 0
  /\ ~stopFlag
  /\ scheduler = "select"
  /\ triggers' = triggers - 1
  /\ scheduler' = "admit"
  /\ UNCHANGED <<signals, stores, loops, control, lateTakes>>

\* stopFlag is set, or the loop is not at its select.
TriggerLost ==
  /\ triggers > 0
  /\ stopFlag \/ scheduler # "select"
  /\ triggers' = triggers - 1
  /\ UNCHANGED <<signals, stores, scheduler, loops, control, lateTakes>>

\* The slots have room, the scheduler has a request, and stopFlag is not set.
Admits ==
  /\ RequestSlotsFree \/ RequestsIdle
  /\ ItemSlotFree /\ ResponseSlotFree
  /\ pending # {} /\ ~stopFlag

Admit ==
  /\ scheduler = "admit"
  /\ scheduler' = IF Admits THEN "take" ELSE "select"
  /\ UNCHANGED <<signals, stores, triggers, loops, control, lateTakes>>

\* Mutant: the loop goes on to the next request without its tests.
TakeUntested(r) ==
  /\ scheduler = "take"
  /\ r \in pending
  /\ pending' = pending \ {r}
  /\ life' = Emitting({Sig("sched", r)})
  /\ lateTakes' = IF stopFlag THEN lateTakes + 1 ELSE lateTakes
  /\ UNCHANGED <<results, queued, active, triggers, scheduler, loops, control>>

\* NextRequest, emit and the next trigger.
Take(r) ==
  /\ scheduler = "take"
  /\ r \in pending
  /\ pending' = pending \ {r}
  /\ life' = Emitting({Sig("sched", r)})
  /\ Triggered
  /\ scheduler' = "select"
  /\ lateTakes' = IF stopFlag THEN lateTakes + 1 ELSE lateTakes
  /\ UNCHANGED <<results, queued, active, loops, control>>

HeartBeat ==
  /\ scheduler = "select"
  /\ scheduler' = "idle1"
  /\ UNCHANGED <<signals, stores, triggers, loops, control, lateTakes>>

\* isIdle reads its five parts one after the other and stops at the first that is
\* FALSE; then the loop triggers the scheduler.
IdlePart(at, holds, next) ==
  /\ scheduler = at
  /\ IF holds THEN scheduler' = next /\ UNCHANGED triggers
              ELSE scheduler' = "select" /\ Triggered
  /\ UNCHANGED <<signals, stores, loops, control, lateTakes>>

\* Mutant: isIdle does not ask the item slot.
IsIdleButItems ==
  \/ IdlePart("idle1", pending = {} \/ stopFlag, "idle2")
  \/ IdlePart("idle2", RequestsIdle, "idle4")
  \/ IdlePart("idle4", SignalsAllDone, "idle5")
  \/ ~NoBackTask /\ IdlePart("idle5", FALSE, "select")

\* Mutant: isIdle does not ask the signal manager.
IsIdleButSignals ==
  \/ IdlePart("idle1", pending = {} \/ stopFlag, "idle2")
  \/ IdlePart("idle2", RequestsIdle, "idle3")
  \/ IdlePart("idle3", ItemsIdle, "idle5")
  \/ ~NoBackTask /\ IdlePart("idle5", FALSE, "select")

IsIdle ==
  \/ IdlePart("idle1", pending = {} \/ stopFlag, "idle2")
  \/ IdlePart("idle2", RequestsIdle, "idle3")
  \/ IdlePart("idle3", ItemsIdle, "idle4")
  \/ IdlePart("idle4", SignalsAllDone, "idle5")
  \/ ~NoBackTask /\ IdlePart("idle5", FALSE, "select")

\* The last part holds too: SpiderIdle is emitted.
EmitIdle ==
  /\ scheduler = "idle5"
  /\ NoBackTask
  /\ scheduler' = "select"
  /\ life' = Emitting(NextControl("idle"))
  /\ UNCHANGED <<results, stores, triggers, loops, control, lateTakes>>

SchedulerEnds ==
  /\ scheduler = "select"
  /\ quit
  /\ scheduler' = "ended"
  /\ UNCHANGED <<signals, stores, triggers, loops, control, lateTakes>>

-----------------------------------------------------------------------------
(* Spider.Start: engine.Start returns, and the spider is closed.           *)

StartReturns ==
  /\ main = "start"
  /\ scheduler = "ended"
  /\ WgIsZero
  /\ main' = "spin"
  /\ UNCHANGED <<signals, stores, triggers, scheduler, loops, stopFlag, interrupts,
                 quit, waiting, fatal, lateTakes>>

SpiderCloses ==
  /\ main = "spin"
  /\ SignalsAllDone
  /\ main' = "ended"
  /\ UNCHANGED <<signals, stores, triggers, scheduler, loops, stopFlag, interrupts,
                 quit, waiting, fatal, lateTakes>>

Running == ~fatal /\ main # "ended"

SignalStep(s) == EmitAdds(s) \/ Received(s) \/ DispatchCounted(s)

HandlerStep ==
  \/ \E r \in Requests :
       RequestLeftEngine(r) \/ PushesRequest(r) \/ RequestReachedDownloader(r)
  \/ \E i \in Items : ItemLeftEngine(i)
  \/ \E s \in SignalSet : SpiderIdle(s) \/ SpiderClosed(s) \/ CloseReturns(s)
  \/ \E g \in Ranges : StartsRange(g)

RangeStep(g) == RangeAdds(g) \/ (\E w \in Work : RangeYields(g, w)) \/ RangeEnds(g)

Uncounted ==
  \/ \E s \in SignalSet : life[s] \in {"spawned", "received"}
  \/ \E g \in Ranges : results[g].at = "spawned"

IdleEmitted == scheduler = "idle5" /\ NoBackTask /\ scheduler' = "select"

Observe ==
  /\ disturbed' =
       /\ scheduler' \in IdleStates
       /\ \/ Uncounted'
          \/ scheduler \in IdleStates /\ (disturbed \/ ~UNCHANGED <<signals, stores>>)
  /\ hasty' = (hasty \/ (IdleEmitted /\ (disturbed \/ quit)))

Next ==
  /\ Running
  /\ \/ \E s \in SignalSet : SignalStep(s)
     \/ HandlerStep
     \/ \E g \in Ranges : RangeStep(g)
     \/ \E i \in Items : ItemPop(i)
     \/ \E r \in Requests : RequestPop(r) \/ Take(r)
     \/ Interrupt
     \/ \E l \in LoopNames : LoopEnds(l)
     \/ TriggerDelivered \/ TriggerLost
     \/ Admit \/ HeartBeat \/ IsIdle \/ EmitIdle \/ SchedulerEnds
     \/ StartReturns \/ SpiderCloses
  /\ Observe

Spec == Init /\ [][Next]_vars

\* Every goroutine is scheduled, downloads, callbacks and pipelines end, and the
\* loop's select takes a token that is offered again and again, and quit once it is
\* closed. Nothing obliges the user to interrupt.
Fairness ==
  /\ \A s \in SignalSet : WF_engine(Running /\ SignalStep(s))
  /\ \A r \in Requests :
       /\ WF_engine(Running /\ RequestLeftEngine(r))
       /\ WF_engine(Running /\ PushesRequest(r))
       /\ WF_engine(Running /\ RequestReachedDownloader(r))
       /\ WF_engine(Running /\ RequestPop(r))
  /\ \A i \in Items : WF_engine(Running /\ (ItemPop(i) \/ ItemLeftEngine(i)))
  /\ \A s \in SignalSet :
       WF_engine(Running /\ (SpiderIdle(s) \/ SpiderClosed(s) \/ CloseReturns(s)))
  /\ \A g \in Ranges : WF_engine(Running /\ (StartsRange(g) \/ RangeStep(g)))
  /\ \A l \in LoopNames : WF_engine(Running /\ LoopEnds(l))
  /\ SF_engine(Running /\ TriggerDelivered)
  /\ WF_engine(Running /\ TriggerLost)
  /\ WF_engine(Running /\ (Admit \/ IsIdle \/ EmitIdle \/ \E r \in Requests : Take(r)))
  /\ WF_engine(Running /\ HeartBeat)
  /\ SF_engine(Running /\ SchedulerEnds)
  /\ WF_engine(Running /\ (StartReturns \/ SpiderCloses))

FairSpec == Spec /\ Fairness

-----------------------------------------------------------------------------
\* The first interrupt promises that no new request is scheduled. The test of
\* stopFlag precedes NextRequest, so one request may still leave, and no more.
StopIsPrompt == lateTakes <= 1

InFlight(s) == life[s] \notin {"none", "done"}

Places(r) ==
  {p \in {"pending", "sched", "queued", "active", "resp"} :
     CASE p = "pending" -> r \in pending
       [] p = "sched"   -> InFlight(Sig("sched", r))
       [] p = "queued"  -> r \in queued
       [] p = "active"  -> r \in active
       [] p = "resp"    -> life[Sig("resp", r)] # "none"}

\* A request handed to the scheduler is in exactly one place on its way to its
\* callback, whatever has been interrupted or closed; and what a callback has
\* yielded is handed on, each result once.
NothingForgotten ==
  /\ \A r \in Requests :
       life[Sig("left", r)] = "done" => Cardinality(Places(r)) = 1
  /\ \A r \in Requests :
       LET g == Sig("resp", r) IN
       results[g].at = "done" =>
         /\ \A w \in Finds[r] \cap Requests : life[Sig("left", w)] # "none"
         /\ \A i \in Finds[r] \cap Items :
              i \in queued \cup active \/ life[Sig("item", i)] # "none"

\* quit is closed twice, and the program ends with a panic, only if the user has
\* interrupted twice, or isIdle has answered TRUE while something moved or after the
\* close: an engine that said so rightly does not say so again until it closes.
SecondCloseNeedsHaste == fatal => interrupts >= 2 \/ hasty

\* How far a request is, by the place that it is in.
PhaseOf(r) ==
  IF r \in pending THEN "waiting"
  ELSE IF InFlight(Sig("sched", r)) \/ r \in queued \cup active THEN "taken"
  ELSE IF InFlight(Sig("resp", r)) THEN "fetched"
  ELSE IF life[Sig("resp", r)] = "done" THEN "parsed"
  ELSE IF InFlight(Sig("left", r)) THEN "found"
  ELSE "unknown"

Plan == INSTANCE Crawl WITH
  phase <- [r \in Requests |-> PhaseOf(r)],
  saved <- {i \in Items : i \in queued \cup active \/ life[Sig("item", i)] # "none"},
  stopped <- stopFlag,
  late <- lateTakes

\* The loops, signals and goroutines together carry out the crawl: each request is
\* moved once, in the order of its stages, by whichever goroutine comes first; nothing
\* is found but at the start or on a page whose callback has been called.
ImplementsCrawl == Plan!Spec

Quiet ==
  /\ pending = {} /\ queued = {} /\ active = {}
  /\ \A s \in SignalSet : s.kind \notin {"idle", "closed"} => ~InFlight(s)
  /\ \A g \in Ranges : results[g].at \in {"none", "done"}

\* isIdle is right when nothing moves while it reads its five parts and no goroutine
\* is between its start and its Add: each part is needed, and they suffice.
IdleIsRight ==
  [][IdleEmitted /\ ~stopFlag /\ ~disturbed => Quiet]_vars

\* The comment on isIdle says that it tells whether everything has been crawled. Its
\* parts are read in an order in which a handler can put a request into a store
\* that has been found empty, and end before the signal manager is asked.
IdleMeansDone ==
  [][IdleEmitted /\ ~stopFlag => pending = {} /\ queued = {} /\ active = {}]_vars

\* A finite crawl ends: the engine finds itself idle or is interrupted, closes, and
\* Spider.Start returns (or the second close of quit ends the program).
Terminates == <>(main = "ended" \/ fatal)
=============================================================================
