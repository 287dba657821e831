# Verification of xspider

xspider is a crawling framework in Go, built like Scrapy: an engine that moves
requests, responses and items between a spider, its middlewares, a scheduler, a
downloader and item pipelines. Everything happens in goroutines that pass
*signals* to one another. This directory holds TLA+ models of its core, the TLC
configurations that check them on small instances, and proofs that TLAPS checks
for every value of the constants.

Paths below are those of the repository (`engine.go` is `src/engine.go`).

## The system

### How the parts interact

A spider's `Start` starts the signal manager and the engine. The engine connects
one handler to each signal type, and every handler does its work and emits the
next signal:

    spiderOpened -> starts -> RequestLeftEngine -> scheduler
    processScheduler: scheduler -> RequestLeftScheduler -> downloader middlewares
                      -> request slots
    processDownloader: request slots -> Fetch -> ResponseLeftDownloader
                      -> downloader middlewares -> spider middlewares -> callback
                      -> results -> RequestLeftEngine | ItemLeftEngine
    ItemLeftEngine -> item slot;  processItem: item slot -> pipelines

An emit starts a goroutine that waits until the signal manager's loop takes the
signal; the loop starts a goroutine per signal, and that one a goroutine per
receiver. Two signals that are emitted one after the other are therefore handled
in any order, at the same time, and a "step" of the program is the step of one of
these goroutines. No data is shared but through the scheduler, the slots, the
request itself and the counters.

### Components

| Component | State | Operations | What is hard | What makes it correct |
|---|---|---|---|---|
| Engine (`engine.go`, `spider.go`) | `backTask`, `wg`, `stopFlag`, `quit`, four loops | emit, triggers, ranges over results, isIdle, interrupts, Close, Start | idleness is read in five unlocked parts; triggers are lost; Close waits inside a handler | nothing is forgotten between the stores and the signals; a crawl ends; an interrupt stops the scheduler |
| Way of a request (`engine.go`) | signals in flight, `retry_times`, `DontFilter` | 13 handlers | each of them has two to five error routes | one call of callback or errback; no request vanishes; one budget of retries; it ends |
| Item slot and loop (`slot.go`, `engine.go`) | queue, `active` | Push, Pop, Finish, the loop, triggers | tokens are lost; the limit is tested before the trigger and not at the pop | every item handled once; the limit passed by a known amount only |
| Request slots and loop (`slot.go`, `engine.go`) | per domain: queue, `active`, `lastSeen`, `lastDelay` | Push, Pop's goroutine, processQueue, Finish, Clear | slots are deleted and made again under handlers that have not finished; Pop ranges without the lock | limit and delay per domain; Finish finds its slot; every admitted request downloaded |
| Response slot (`slot.go`) | `activeSize` | Push, Done, IsFree | a size read twice | it opens again |
| Signal manager (`signalmanager.go`) | `running`, `signalChan`, `quit`, `receivers`, `wg`; the totals of signals added and done, in `Stats` | Emit, run, dispatch, Start, Close | send after the test of running; a signal taken and not yet counted; drops and panics | receivers in the order of their indexes, once; exact counters; Close ends |
| Scheduler, filter, queue (`scheduler.go`, `queue.go`) | fingerprints, heap, counter | EnqueueRequest, HasPendingRequests, NextRequest | no lock at all, called from many handlers | duplicates removed; nothing lost; best priority first |
| Middleware managers (`middlewaremanager.go`) | none beyond the chains | Process* | recovered panics, nil values, the index to go on from | the engine gets a value or an error; errors in results come to an end |
| Retry, HttpError, Depth (`downloadermiddlewares.go`, `spidermiddlewares.go`) | settings | Process* | a retry of the same object, counted in its Ctx | see the way of a request |
| Downloader (`downloader.go`) | a client | Fetch | a body that was read by the first try | - |
| Request table (`request_table.go`) | rows and their status, in a database | Add, Pop, Done, Drop, SetStatus, Generator | read and update in two statements, and a body decoded after both; several programs; crashes and restarts | a row is worked on once at a time, and what leaves it taken with nobody at it is known |
| Item pipelines (`itempipelines.go`) | ids of items not saved, in memory | ProcessItem, addFail, needClear, clearFail, Close | the batch is written apart from the lock, or not at all | the row of an item not saved is taken again |
| Extensions (`extensions.go`), stats (`stats.go`) | counters, tickers | receivers | order of the receivers of one signal | stats are there when read |
| Json map (`container/jsonmap.go`) | a map behind an RWMutex | 14 methods; conversions | read locks taken inside others; values that are widened, narrowed and written as text | who can hang whom is known; what is stored can be read back, and where not, what is lost is known |
| Requests, responses, encoder, extractor, image, log, registry | - | pure functions, I/O | - | - |

`PROJECT.json` lists the hazards line by line, with the property that covers
each, or the reason why none does.

## The modules

| Module | Models | Checked by | Proofs |
|---|---|---|---|
| `WorkPool` | what a slot promises (abstract): work waits, is begun within a lane's capacity, ends | refined by the two below | - |
| `ItemDispatch` | item slot, processItem, triggerItem, the end of itemLeftEngine, the signal of an item's outcome | `MCItemDispatch` | `ItemDispatchProofs` |
| `RequestSlots` | request slots, processDownloader, Pop's goroutine, admission, Finish, Clear | `MCRequestSlots` | `RequestSlotsProofs` |
| `SignalBus` | what the signal manager promises (abstract): calls in the order of the indexes, none after a drop | refined by the one below | - |
| `SignalManager` | Emit, run, dispatch, the handlers' goroutines, Start, Close, the end of Spider.Start | `MCSignalManager` | `SignalManagerProofs` |
| `Crawl` | what the engine promises (abstract): a search of the graph of pages, each request once through its stages | refined by the one below | - |
| `Engine` | the four loops, emit, triggers, ranges, isIdle, interrupts, Close | `MCEngine` | `EngineProofs` |
| `Scheduler` | EnqueueRequest step by step, RequestSeen, the priority queue, retries | `MCScheduler` | `SchedulerProofs` |
| `RequestLife` | what the program promises of one request (abstract): downloaded, answered, shown to the spider once, over | refined by the one below | - |
| `RequestFlow` | every handler of a request's way and each of its error routes, with the index in the chain of spider middlewares | `MCRequestFlow` | `RequestFlowProofs` |
| `RequestTable` | the table of requests, the generators of several programs, the pipelines that mark its rows | `MCRequestTable` | `RequestTableProofs` |
| `AtomicMaps` | what SyncJsonMap promises (abstract): calls that take effect at one moment | refined by the one below | - |
| `JsonMap` | every method of SyncJsonMap on its RWMutex | `MCJsonMap` | `JsonMapProofs` |
| `JsonValues` | which values a JsonMap takes, what it makes of them, and what Get, Dumps and Loads give back | `MCJsonMap` | `JsonMapProofs` |
| `JsonContents` | `JsonMap` with values of `JsonValues` in the maps | `MCJsonMap` | `JsonMapProofs` |

### How a model corresponds to the code

*One action per atomic step.* Code under one mutex is one action (`Finish`,
`Clear`, `ProcessQueue`); code that takes a lock twice, or none, is split at each
point where another goroutine can come in between: Emit's test of running and its
send (`EmitCheck`, `EmitSend`), RequestSeen's Contains and Add (`EnqueueRequest`,
`AddFingerprint`), the five parts of isIdle (`IdlePart`). A goroutine is a state
in a function (`sender`, `dispatch`, `handler`, `life`, `results`) and its
spawning, its own `Add` and its `Done` are separate steps wherever a counter is
read by someone else.

*Data races* are choices over what the build can do. Two overlapping writes of a
Go map end the program or lose one of them (`AddFingerprint`, `PushNew`); two
overlapping operations of the heap leave it with any of its elements (`raced`).
`fatal` stands for the end of the program by a panic in a goroutine nobody
recovers, or by a Fatal log.

*Callbacks, middlewares and pipelines of users* return anything their signature
allows, or panic (`ProcessRequest` ... `ProcessSpiderError` in `RequestFlow` are
the sets of answers; what Retry, HttpError and Depth answer is derived from the
request and the response).

*Observers* (`fetches`, `called`, `told`, `lateTakes`, `disturbed`, `hasty`,
`escaped`, `pushed`, `passed`, `overlapped`, `raced`, `together`, `stranded`,
`unsaved`, `marked`, `forgotten`, `sinceStart`) are marked as such where they are
declared: no guard that models code reads them, except `raced`, after which the
heap is not tracked.

**ItemDispatch.** `items` and `active` are the slot's fields, `running` the items
between Pop and Finish, `triggers` the goroutines of triggerItem before their
send, `loop` where processItem stands. A send meets the loop in its select
(`TriggerDelivered`) or is dropped by the default branch (`TriggerLost`).
`OutcomeTold` is the call of the receivers of ItemScraped, ItemDropped or
ItemError.

**RequestSlots.** `slots` is the map, a record per live domain and `NoDomain`
elsewhere; time is counted from the last event up to a horizon beyond which no
comparison differs. Pop's goroutine ranges over the map without the lock: `dl`
holds where it stands and what it has still to visit, and Push that makes a slot
meanwhile may end the program. `DomainOf` is a constant: with the code as it is,
`Request.Domain` gives the empty string for every request without a "domain" in
its Ctx (the test of `err` at `request.go:131` is inverted), so that the slots are
often one. The properties hold for every assignment.

**SignalManager.** `wg`, `total` and the others are the manager's counters;
`sender`, `dispatch` and `handler` its goroutines. The handler of `LastSignal` is
the engine's SpiderClosed, after which Spider.Start waits for IsAllDone and closes
the manager while other goroutines may still emit. `escaped` has the signals that
Close overtakes: an Emit between its test of running and its send, and a dispatch
between its start and its `wg.Add`.

**Engine.** A signal's `life` runs from the spawning of emit's goroutine to the end
of its handler. Handlers that only pass a signal on are folded (RequestFlow has
them one by one), the limits of the slots are counts (RequestSlots and
ItemDispatch have them in full, and the crash that a dropped item causes is
there, too). `disturbed` says whether anything moved while isIdle was reading, and
`hasty` whether SpiderIdle has ever been emitted on such a reading, or after the
close. For `Crawl` (`Plan`), a request's phase is read off the store or the signal that
has it (`PhaseOf`): "taken" from the scheduler to the end of Fetch, "parsed" once the
goroutine of its callback's results has been started; an item is saved from its Push on.
`Crawl` knows nothing of loops, triggers, idleness and counters.

**Scheduler.** The heap is the set of its elements, and its order is that of
`compare`. The observer `pushed` remembers the order of the pushes.

**RequestFlow.** `signals` is the set of signals in flight, each with its request,
response, sender, error and index. Errors are of two kinds, those Retry retries
("timeout") and the others; statuses of three. A request's `max_retry_times` and
`dont_retry` are its own. Spider middlewares have the indexes 0 to
`NumMiddlewares - 1`: ProcessSpiderOutput goes down from the signal's index and
may end with an error at any of `Failing`; ProcessSpiderError goes down from the
last one, any of `Taking` may give results, and these go on at the middleware
before it. `DepthAt` is where Depth is, whose generator's goroutine reads the
response, so that an errback called without one can end the program there. For
`RequestLife` (`Life`), how far a request is follows from where it is (`StageOf`): "due" up
to its download, "answered" up to its callback or errback, "after" while the results or
errors of these are under way. Responses, senders and indexes are not known there.

**RequestTable.** A program is the generator of one process (`pc`, `held`), its
crawls are the requests handed to the engine (`crawl`: whose, of which row, how far
the callback and the item are), and `failMap` the ids its pipeline keeps. A
statement is atomic, and may fail; a program may be closed, crash between any two
steps, and be started again with or without resetRunning. What the user's callback
does with Done and Drop is free. Pop's second statement is followed by the decoding of
the body, so that `PopTakes` has three outcomes: the row is taken and its request is sent;
the statement fails and the generator ends; or the row is taken, its body is no base64
(`Broken`), and the generator ends with the row at status 1 and nobody at it. Add writes
base64 only, so that such a row comes from somebody else. NewRequest panics on a URL that
cannot be parsed, and nothing recovers that: for the table it is a `Crash`.

**JsonMap.** The RWMutex is `writer` (who holds the writers' mutex: it waits for the
readers or writes) and `readers` (how often each thread holds the read lock). A
reader that arrives behind a writer waits, even one that holds the lock already,
and Unlock lets the waiting readers in before any other writer, as Go's does. Dumps, Values
and Update read a map through methods that lock it themselves: these inner reads
are numbered (`todo`), and `got` is what Values has found so far. For `AtomicMaps` a call
takes effect when it unlocks, Values when it has the keys. Update alone takes several
steps there: its values come from several moments of the other map, as in the code.

**JsonValues.** A value is a record of its Go type, of the number, boolean or text that
it is, and of its parts (elements, or what a pointer points to); integers have
`Wide` or `Narrow` bits and floats a mantissa of `Double` or `Single`, scaled down
in the run so that TLC reaches every bound. A float is counted in units of 2^-`Fraction`,
so that it may have a fraction, which setFloatValue cuts off (`WholePart`); there are no
infinities, no negative zero, and no float so large or so small that it cannot be had. A
text is a value that is UTF-8 or is not: package json writes `Replaced` for one that is
not, whether it is a text or a key of a map below a list (`Encoded`; keys that become one
keep the value of one of them), while a map within a map has its keys written by %q
(`HasOddKey`), which escapes such a key in a way that JSON does not know. The keys of a map may be of a
named string type ("named"), which is taken and becomes a plain string. The recursive functions of the code are
recursive functions on the set `GoValues` (`NormalizeValue`, `IsJSONCompatible`,
`SetValue`, and `FromText` for package json), each the fixed point of an operator for one
call (`NormalizeStep`, ...). `IsPlain` and `TextKeeps` say of which values a round trip is
promised: an array, a pointer below the top or a type of the caller's is not read back
as it was, nor is, after Dumps and Loads, a number that no float64 is equal to or a text
that is no UTF-8. A nil slice or map is taken for an empty one.

**JsonContents.** The maps treat values alike, so that a value of a call in `JsonMap` is a
name, and each name stands for a set of Go values (`Stands`): "good" in the run for
every sample that Set accepts. What the maps hold under a name is then what
NormalizeValue has made of any of these. A stored value changes only through the methods
of the map: in the code Get, Values and Delete give out the maps and slices within it
themselves, not copies, so that a caller who writes to one of these changes what is stored
past the lock and past NormalizeValue. That GetMap and Copy do not panic
(`StoredIsStorable`) holds for callers who leave them alone.

## The runs

| Run | Instance | Shows |
|---|---|---|
| `items` | 4 items, limit 2, 2 triggers | every item handled; refinement of `WorkPool`, with a lane of the limit plus `MaxTriggers - 1` |
| `slots` | 2 domains (limit 1 with a delay of 2 halved at random, limit 2 without), 3 requests, Clear after age 1 | Finish finds its slot, the interval is kept across Clear, every admitted request downloaded, refinement of `WorkPool` with the limits as its capacities |
| `signals` | 3 signals, receivers of two indexes, drops and panics, Close | `wg` exact, only what overlaps Close escapes it, delivery, Close ends, refinement of `SignalBus` |
| `engine` | a first page that yields a second one and an item; one interrupt | nothing forgotten, isIdle right when undisturbed, refinement of `Crawl`, the crawl ends |
| `engine_stop` | two pages, 2 interrupts, SpiderIdle and SpiderClosed up to twice | at most one request leaves the scheduler after an interrupt; quit is closed twice only by a second interrupt or a hasty isIdle |
| `scheduler` | 3 requests of one fingerprint, one exempt, 1, 0 and 2 retries, priorities lowered and raised by them, LIFO | who is filtered has a twin, duplicates need an overlap, queue exact, best first, accepted is taken |
| `flow` | 2 requests (one with an errback; one taking any status and not to be retried for its status), 2 and 1 retries, 1 hand-back, a chain of 4 with Depth at 2, where 1 and 3 may fail and 1 takes errors | called once, response there, nothing vanishes, fetches bounded, everything settles, refinement of `RequestLife` |
| `table` | 2 programs, 3 rows of which the second has no base64 for a body, 2 crawls, 2 starts, batches of 1 | a row is under way twice only through a named overlap of two programs; one of status 1 has somebody at it, or was left by an ended program or a user, marked by a pipeline, or cannot be decoded; a mark is not lost unsaid, rows are taken, marks are written |
| `json_map` | 3 threads, 2 maps, 2 keys; widths 6, 2, 3 and 4, quarters as fractions, samples at every bound, nested two deep | only nested reads hang, refinement of `AtomicMaps`, calls end; what is stored can be stored again, comes back as it was, and through text if its numbers are floats and its texts are UTF-8; read as another number type, a number fails, is rounded to a float, or loses its fraction, but for one float |
| `item_dropped`, `engine_idle`, `flow_errback` | the same instances | the counterexamples below |

Deadlock is not checked, since each of these systems rightly stops (no more work,
closed, or ended by a fatal error); the liveness properties say where it must not
stop earlier.

### Bounds, and why they are enough

- `MaxTriggers` (items 2, engine 1): a token more than the limit admits, and one
  that is lost, need two. In the proofs it is any positive number.
- Four items with a limit of two leave two waiting behind a full slot while two
  tokens are on their way, the case in which the limit is passed.
- Two requests of one domain and one of another let a slot be cleared, made
  again and raced by a late Finish while the other domain is served. A request
  has one late handler at a time: it comes back only after a whole turn.
- `Horizon` (time): every comparison of the code is with a delay or with the age
  of Clear; values beyond the largest of them are the same to it.
- Two receivers of one index and one of a larger: concurrency inside a group, the
  barrier, and the drop in between. One signal emitted late races with Close.
- `MaxIdle`, `MaxClosed` and `MaxInterrupts`: a second SpiderClosed closes `quit`
  twice, a panic; nothing follows it. `engine_stop` has two of each. `engine` has one
  of each, since its questions are about the crawl before the close.
- Retries differ from request to request: none, one and two, so that the last one
  is reached by one request while another has more. `MaxReturns` 1: without it a
  user middleware can hand a request back for ever, and so does the program.
- The chain of 4 spider middlewares has one that fails before and after Depth, and
  one that takes errors at the index of one that fails: results that go on before it
  meet neither again. An error then goes through `ResultsLeftSpider` twice.
- `MaxStarts` 2: two programs at once, or one that is started again after a crash.
  `MaxCrawls` 2 with 3 rows: one row twice, or two rows; batches of one are written at once,
  and Close writes what is left in the map. `Broken` {2}: a good row before the one that
  cannot be decoded, and one behind it, which a generator that ends there does not reach.
- Three threads: a writer that waits between two read locks of another, with a third
  that reads. Two maps: Updates across each other. The scaled widths keep
  the order of the real ones (a narrow integer fits a float32, a wide one does not fit
  a float64), which `WidthsAssumption` states. `Fraction` 2: one half, and less than one
  half, of either sign. Two texts that are not UTF-8, which are written alike, are the keys of one map.
- The scheduler is checked with the LIFO queue, the default. The set of requests
  is fixed: the inflow of work is finite in every instance.

### Fairness

Weak fairness of every goroutine that can move: Go's scheduler runs them all, and
downloads have a timeout. Handlers, callbacks and pipelines are assumed to return.
Strong fairness is asked of four steps: the delivery of a token to a loop that is
at its select again and again (`TriggerDelivered` in `ItemDispatch` and in
`Engine`: the loop rests up to 100ms at its select between two heartbeats, a
goroutine tries its send within a scheduling delay), the end of
processScheduler when `quit` is closed (a `select` chooses at random among its ready
cases), and the lock of a writer that others overtake (`WriterLocks`: a sync.Mutex
hands itself to a waiter that starves). Time passes (`Tick`). A program of
`RequestTable` closes once its generator is through, or once `MaxCrawls` is
reached, where the model has to stop it; nobody starts one, and rows are taken only
as long as a generator runs. Nothing obliges a spider to produce work or a user to
interrupt. All fairness is under the absence of `fatal`: a program that
has ended owes nothing, and the liveness properties say so. `CallsEnd` excepts the
calls that hang in a knot or behind one. `EverySettles` has a premise: that a
middleware that gives results for an error has none before it that may fail. Without
it the program does go round for ever.

## What is proved

Every safety invariant, action property and refinement that a passing run checks is
proved, too. The proofs are for any values of the constants that the named assumptions admit:
sets of requests, items, signals, programs or threads, limits, delays, retries,
chains of middlewares. Each module states one inductive invariant, `IInv` (in
`JsonMapProofs`: `LockInv` and `MapInv`), proves it action by action, and takes
the properties from it. Type correctness is among the theorems of each.

**ItemDispatchProofs** (assuming `ItemAssumption`). `ActiveBound` is not inductive:
PopItem raises `active` without testing the limit. The invariant `IInv` adds to
types, the exact counter and `NoItemTwice` the conjunct `PopsBound`: the handlers
under way, the triggers in flight and the token the loop may hold stay *together*
below the bound. A trigger is started only below the limit and only when there
are fewer than `MaxTriggers`, a delivery moves one unit from the triggers to the
loop, a pop moves it from the loop to the handlers. The theorems are `Invariance`,
`ActiveCountsHandlers`, `ItemsAreNotDuplicated`, `OverrunIsBounded`,
`LimitKeptWithOneTrigger` (with one trigger at a time the limit of
CONCURRENT_ITEMS is kept as `interface.go` says) and `Refinement` of `WorkPool`.

**RequestSlotsProofs** (assuming `SlotAssumption` of `RequestSlots`). The limit is
kept because ProcessQueue tests the slot's own counter, so that the counter must
be exact although handlers outlive a request's stage and Clear deletes slots;
`IInv` therefore relates the counter of a live slot to the downloads and the late
handlers of its domain, says that a domain with handlers is live, that queues hold
exactly the queued requests (`QueuesHoldQueued`), that the range of Pop's goroutine
holds on to live slots only (`RangeOK`), and, for the interval, that a domain's slot
either remembers the last start or this lies further back than the shortest delay
(`Remembers`: so it may be deleted). The theorems are
`Invariance`, `TypeCorrect`, `ConcurrencyIsLimited`, `FinishIsSafe`,
`QueuesAreExact`, `IntervalIsKept` (an action property) and `Refinement`.

**SignalManagerProofs** (assuming `SignalAssumption`). `WgIsExact` counts
goroutines by cardinalities; it is inductive with the finiteness of the two sets and
with `OriginOK` (a handler that runs has a dispatch that has been counted and not
returned, a dispatch has a sender that has sent). `GroupOK` says of a signal's
receivers that those under way have one index, those of a smaller one are over, and
that a drop comes from the group under way: the refinement of `SignalBus`
(`Refinement`) rests on it. `CloseOK` and `EscapeOK` tell what Close has overtaken:
`wg` being zero when Wait returns, and exact, no dispatch or handler is then under
way but those not yet added (`OnlyOverlapsPassClose`).

**SchedulerProofs** (assuming `SchedulerAssumption`). `FilteredHasTwin` needs
that each fingerprint comes from a request beyond the filter (`FingerprintsOK`) and
that a retried one never asks it (`FilterOK`). `DuplicateNeedsOverlap` follows from
`CallsOK` (calls under way together know of each other) and `FirstsOK` (two first
calls that found one fingerprint unseen overlapped). `HeapOK` says, until two
operations of the heap have raced, that timestamps are unique and that the heap has
the latest element of each queued request, with the priority that the request has
now; `QueueIsExact` and `BestIsTaken` follow.

**RequestFlowProofs** (assuming `FlowAssumption`). A request is at one place
at a time, a store or one signal (`OnePlace`). `SignalOK` says what each type of
signal implies: whether the callback or errback has been called, whether there is a
response, and that every download still to come is one that the retries and returns
so far have paid for. `RequestOK` and `StoredOK` say the same of the requests at
rest. Lemmas for the shapes of a step (`Moves`, `Leaves`, `Passes`, ...) leave
each action to show only what is its own. `Refinement` of `RequestLife` adds no invariant
to that: since a request is at one place, its stage is that of its one signal
(`StagesNow`), a step moves the stage of one request (`MovesOn`, `ComesToEnd`), and each
handler is then one step of one life (`Begins`, `Hears`, `Fails`, ...) or none. It says what
no invariant on one state does: that a download or a retry never follows the call, that
what has been told of a request is not followed by a call, and that what is over stays over.

**RequestTableProofs** (assuming `TableAssumption`). `Overlaps` is inductive with
`WaitingIsFree` (a row of status 0 has nobody at it but through resetRunning) and
with `AloneOK`, which describes a program that has always been alone: what its Pop has
read stays as it was until the second statement, and a restart finds nothing under
way. `MarksOK` splits the rows whose item was not saved into those remembered in
memory, those marked in the table, and those forgotten. `OnlyBrokenRowsAreLost`
(`RunningIsKnown`) names every way in which a row of status 1 comes to have nobody at it;
in a program that runs on, and whose user calls Done or Drop, the body that cannot be decoded is the only one.

**JsonMapProofs** (assuming `JsonMapAssumption`, and for the values the three assumptions
below). `LockInv` ties the locks to the
calls: a writer mutex is held by the one call that `Writing` describes, a read lock as
often as the call's own and its inner read say, and nobody reads beside a writer
(`Exclusion`). `OnlyNestingHangs`: in a ring of threads that wait for each other,
one is in an inner read, since any other holder goes on by itself.
`ValuesReadOneMap` adds `GotOK`: what Values has found is still what the map has.
`Refinement` of `AtomicMaps` rests on both: whoever holds a read lock finds no Update at
the map (`ReadersFindWhole`), and a writer is never at a map that a Values has begun to
read (`SeenIsNotWritten`), so that Values may be said to have seen all of it when it takes
the keys, and to answer what it has collected.

The four invariants about values (`StoredStaysStorable`, `GetUndoesSet`, `GetUndoesText`,
`OnlyFractionsAreLost`) hold of every state because the maps hold accepted names only
(`HoldsAccepted`, from `TypeCorrect`); what is to be shown is a fact about every accepted
value. It is proved for all values, nested as deeply as one likes, and for all widths:

- A recursive function is there at all: `Recursion` puts it together from its
  restrictions to what is less deep than n, once for all eight (`NormalizeDefined`, ...).
- What holds of a value if it holds of all that are less deep holds of all
  (`RankInduction`): the least deep exception, which exists since `<` is well-founded on Nat
  (`WFMin`), would be none. The library's induction theorems have an operator for a
  parameter; this lemma has a set.
- Rounding: a number has one last place (`UlpIs`, `UlpExists`), what is rounded has a
  mantissa of that many bits and stays (`RoundedTwice`), and the bounds of setFloatValue are
  rounded to one above the largest integer (`RoundedMax`) and to the least one
  exactly (`RoundedMin`), both counted in parts of a float's unit. The whole part of a
  float (`WholePartIs`) lies within the bounds that the float lies within (`WholeBetween`),
  so that the conversion neither wraps nor fails there (`FloatTruncated`, `FloatFits`).
  `NumbersKept` goes through setNumericValue's nine cases.
- `KeptIsNormal`: what NormalizeValue makes is normal and accepted. `PlainSetBack`: setValue
  is its inverse on plain values, part by part (`ContainerReadsBack`). `TextIsNormal` and
  `TextSetBack`: the same with package json in between.

They assume `WidthsAssumption` (a narrow integer fits the small float, and a wide
one does not fit the large float), `ValuesAssumption` (values are well typed, none contains
itself, and what NormalizeValue and package json make of values are values; in Go a
map or a slice can contain itself, and then IsJSONCompatible never returns) and `StandsAssumption` (names
stand for values, and a name is accepted if they are). TLC evaluates all three
in `json_map`.

**EngineProofs** (assuming `EngineAssumption`: any finite pages and items, any links by
which nothing is yielded twice, any rooms and bounds). None of the properties is
inductive, as each is about the whole and every step about one goroutine. `IInv` has
five parts beside the types:

- `StopOK`: what is taken late was admitted before stopFlag, so that the loop is not at
  "take" again (`StopsPromptly`).
- `IdleOK`: at each part of isIdle, the parts already read still hold unless
  `disturbed`. At the last one no signal is under way at all (`UndisturbedIsQuiet`),
  which is `IdleIsRightAlways`.
- `CloseOK`: without a second interrupt and without haste, one signal at a time leads to
  the close, and after `quit` only the one that waits in it. A rightful answer of isIdle
  finds no other, and this is where `IdleOK` comes in (`SecondCloseIsHasty`).
- `WayOK(r)`: the places of a request follow one another, each signal of it being emitted
  when the store before it has been left. Exactly one place holds it
  (`NothingIsForgotten`), and its phase is a function of the place (`PhaseIs`).
- `RangeOK(g)`: a goroutine that ranges over results is there exactly when its handler has
  ended, what is left to it has not been emitted by anybody, and what it has taken is
  handed on. That links of different pages are disjoint is needed here only
  (`YieldsDiffer`), and `WayOK` needs it for the first place of a request.

`Refinement` goes through the steps once more: those that move a request (`OwnStep`) are
steps of `Crawl` or leave its phase, the end of a response's handlers is `Parse`, the
first interrupt is `Stop`, and every other step leaves all phases (`PhasesStay`) and items
(`SavedStays`) as they are. The lemmas `EmittingAt`, `LifeGrows`, `LoopMoves` and
`RangeMoves` say once what every step does to the signals, to processScheduler and to the
ranges.

Some of what is proved is not run as well, for it follows from the rest or says
less than it: the type invariants, `ActiveIsRunning`, `NoItemTwice` and `ActiveBound`
(the capacity of the lane in `ImplementsPool`) of `ItemDispatch`, `ActiveIsHandlers` and
`QueuesHoldQueued` of `RequestSlots`, and its `ConcurrencyKept` (again the capacity of the lanes), `Exclusion` and `ValuesAreOneMap` of `JsonMap`.

**Only model-checked:** the liveness properties (`Terminates` of `Engine` among them), since
liveness under fairness and ENABLED are beyond the prover, and the three
counterexamples below, which are about instances.

## Findings

Where the code does something other than what it says, a run shows it:

- `DropIsTold`: dropping an item (a pipeline panics with ErrDropItem) ends the
  program whenever a receiver is connected to ItemDropped, which CoreStats is by
  default: the signal carries a nil item, and callReceiver panics on its type.
- `IdleMeansDone`: isIdle may answer TRUE with a request in the scheduler, for it
  reads its parts one after the other. `IdleIsRight` states when it is right.
- `TimeoutReachesErrback`: an error of the downloader past its retries ends as
  ErrorUnhandled, not in the errback as `request.go` says.

Others the models show in their properties, where the repository says nothing that
they would contradict in so many words:

- Overlapping EnqueueRequests queue a fingerprint twice; `DuplicateNeedsOverlap`
  states that nothing else does.
- An Emit that has tested `running` when Close begins sends on a closed channel (a
  panic) or on nil (for ever), and a dispatch not yet added to `wg` runs on after
  Close: `OnlyOverlapsEscape`.
- `quit` is closed twice by a second interrupt, or by a second SpiderIdle:
  `SecondCloseNeedsHaste`.
- Two Pops take one row, a restart with resetRunning takes rows under way, a crash
  or a failed statement loses the marks in memory: `TwiceNeedsOverlap`,
  `UnsavedIsRemembered`.
- Dumps or Values hangs with a writer that comes between its two read locks, Update
  of a map with itself hangs alone, and two Updates across hang together:
  `KnotNeedsNesting`.
- A row whose body is no base64 is set to 1 before Pop fails on it: the generator ends,
  the program goes on without the rows behind, and nobody has the row. A restart with
  resetRunning puts it back, and being the first it is read first and ends the
  generator again: `Broken` in `RunningIsKnown`.
- setFloatValue cuts fractions off without an error (Get[int] of 2.7 gives 2), though
  setIntValue and setUintValue take care to refuse what does not fit; and a float just
  above the largest integer passes its test of the bounds, so that Get gives another
  integer: `NumbersOnlyLoseFractions`.
- A text that is not UTF-8 comes back from Dumps and Loads with U+FFFD in it, and without
  an error: the premise of `TextReadsBack`.
- Errors go round for ever between a middleware that takes them and one before it
  that fails on what it gives: the premise of `EverySettles`.

And some are only noted: `Request.Domain` (above); the panic of a callback
with a value that is no `error`, which the deferred function turns into a second
panic (`fatal` in `ResponseReachedSpider`); an empty chain of spider middlewares,
in which spiderError logs with the index -1 (`NoResultsFor`); a DOWNLOAD_MAXSIZE of
zero or less, with which the response slot never opens; AllowedDomain's set, which
several goroutines write without a lock.

## Not modelled, and why

- RequestDropped signals, sent in addition to the rest and taken by no handler.
- A user middleware that replaces a response by one of another status, or a
  request by another request: the replacement is one of the other requests.
- Sizes of responses: the response slot is a count in `Engine`. That a callback may
  change the Body whose size `Done` subtracts is listed as a hazard.
- Connect and Disconnect during dispatch, and a Start after Close: the program
  connects before it starts and does not restart.
- The order inside the chains: that the managers sort their middlewares by index, and
  what one hands to the next. The spider's chain has indexes, the others are one
  answer each. ProcessStartRequests is part of `Engine`'s `Starts`.
- `retry_times` set by a spider in advance, which would take from the budget.
- Extensions: what CoreStats and LogStats do in SpiderOpened and SpiderClosed. That they
  run in the order of their indexes is `ImplementsBus`.
- MySQL, and a Pop inside a transaction of the user's own.
- Headers, user agents, url lengths, allowed domains, logging, stats' values: no
  property is about them.
- HTTP, gorm, zap and the heap of the collections library, which are not in the
  repository.

## Plan

Order: the parts on which everything else rests first. Done:

1. `WorkPool`, `ItemDispatch`, its proofs.
2. `RequestSlots`, its proofs.
3. `SignalBus`, `SignalManager`, its proofs.
4. `Engine`, which composes the counters and stores of 1 to 3 with isIdle and Close.
5. `Scheduler`, `RequestFlow`, their proofs.
6. The chain of spider middlewares, in `RequestFlow`.
7. `RequestTable` with the Gorm pipelines, its proofs.
8. `JsonMap`, `AtomicMaps`, `JsonValues`, `JsonContents` and their proofs.
9. `Crawl`, and the proofs of `Engine`.
10. `RequestLife`, and its refinement by `RequestFlow`.

Left:

11. `Extensions`: SpiderOpened and SpiderClosed at CoreStats, LogStats and the
   engine, on top of `SignalBus`.
12. The order inside the other chains, against the rule that each middleware sees a
    request once on its way down and a response once on its way up.
13. Sizes in the response slot, with a callback that replaces Body.
