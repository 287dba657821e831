---------------------------- MODULE ItemDispatch ----------------------------
(***************************************************************************)
(* The engine's item loop: processItem and triggerItem of engine.go, the   *)
(* ItemSlotImpl of slot.go, and the end of the itemLeftEngine handler.     *)
(*                                                                         *)
(* The loop is one goroutine that waits in a select for a token on         *)
(* itemChan, for its heartbeat or for quit. triggerItem starts a goroutine *)
(* that offers one token with a non-blocking send: the token is lost when  *)
(* the loop is not at its select. Between the popping of an item and the   *)
(* end of its handler stand an emit goroutine, a dispatch goroutine and    *)
(* the handler itself; the slot cannot tell them apart, so here an item is *)
(* "running" from Pop to Finish (SignalManager models what is in between). *)
(* The signal of an item's outcome reaches the receivers that extensions   *)
(* have connected; callReceiver asks each argument for its type.           *)
(***************************************************************************)
EXTENDS Integers, FiniteSets, Sequences, Functions

CONSTANTS Items,            \* the ItemResponseSignals that spiders produce
          ConcurrentItems,  \* setting CONCURRENT_ITEMS; <= 0 means no limit
          Connected,        \* outcome signals that some receiver is connected to
          MaxTriggers       \* bound: triggerItem goroutines alive at once

ASSUME ItemAssumption ==
  /\ IsFiniteSet(Items)
  /\ ConcurrentItems \in Int
  /\ Connected \subseteq {"ItemScraped", "ItemDropped", "ItemError"}
  /\ MaxTriggers \in Nat \ {0}

VARIABLES
  items,     \* ItemSlotImpl.items, the linked-list queue
  active,    \* ItemSlotImpl.active
  running,   \* items popped whose handler has not reached Finish
  outcome,   \* how the item's handler ended: the signal it emitted, or "none"
  triggers,  \* triggerItem goroutines that have not tried their send yet
  loop,      \* where processItem stands
  told,      \* whether the receivers of the item's outcome were called
  fatal      \* a Fatal log has ended the program

report == <<told, fatal>>
vars == <<items, active, running, outcome, triggers, loop, report>>

Outcomes == {"ItemScraped", "ItemDropped", "ItemError"}

\* "pop": the loop has received a token. "check": it is about to test the slot.
LoopStates == {"select", "pop", "check", "quit"}

TypeOK ==
  /\ items \in Seq(Items)
  /\ active \in Int
  /\ running \subseteq Items
  /\ outcome \in [Items -> Outcomes \cup {"none"}]
  /\ triggers \in 0..MaxTriggers
  /\ loop \in LoopStates
  /\ told \in [Items -> {"no", "yes", "failed"}]
  /\ fatal \in BOOLEAN

Init ==
  /\ items = <<>>
  /\ active = 0
  /\ running = {}
  /\ outcome = [i \in Items |-> "none"]
  /\ triggers = 0
  /\ loop = "select"
  /\ told = [i \in Items |-> "no"]
  /\ fatal = FALSE

\* Mutant: the limit itself still counts as free.
IsFreeUpToLimit == ConcurrentItems <= 0 \/ active <= ConcurrentItems

IsFree == ConcurrentItems <= 0 \/ active < ConcurrentItems

IsEmpty == items = <<>> /\ active <= 0

Queued == Range(items)

-----------------------------------------------------------------------------
\* A goroutine that ranges over a spider's results stores an item in the slot.
Push(i) ==
  /\ i \notin Queued \cup running
  /\ outcome[i] = "none"
  /\ items' = Append(items, i)
  /\ UNCHANGED <<active, running, outcome, triggers, loop, report>>

\* The goroutine's send meets the loop in its select.
TriggerDelivered ==
  /\ triggers > 0
  /\ loop = "select"
  /\ triggers' = triggers - 1
  /\ loop' = "pop"
  /\ UNCHANGED <<items, active, running, outcome, report>>

\* The loop is elsewhere: the default branch drops the token.
TriggerLost ==
  /\ triggers > 0
  /\ loop # "select"
  /\ triggers' = triggers - 1
  /\ UNCHANGED <<items, active, running, outcome, loop, report>>

\* Pop does not look at the limit: only the check before the trigger did.
PopItem ==
  /\ loop = "pop"
  /\ items # <<>>
  /\ items' = Tail(items)
  /\ active' = active + 1
  /\ running' = running \cup {Head(items)}
  /\ loop' = "check"
  /\ UNCHANGED <<outcome, triggers, report>>

\* An empty queue gives nil, and the loop continues without a check.
PopNothing ==
  /\ loop = "pop"
  /\ items = <<>>
  /\ loop' = "select"
  /\ UNCHANGED <<items, active, running, outcome, triggers, report>>

\* Mutant: the heartbeat passes without a test of the slot.
HeartBeatIdle ==
  /\ loop = "select"
  /\ UNCHANGED vars

HeartBeat ==
  /\ loop = "select"
  /\ loop' = "check"
  /\ UNCHANGED <<items, active, running, outcome, triggers, report>>

\* IsFree and IsEmpty are two lock acquisitions. Only this loop raises active,
\* so a TRUE answer of IsFree still holds when IsEmpty is read, and one step
\* gives every answer the two can give.
Check ==
  /\ loop = "check"
  /\ loop' = "select"
  /\ IF IsFree /\ ~IsEmpty
       THEN triggers < MaxTriggers /\ triggers' = triggers + 1
       ELSE UNCHANGED triggers
  /\ UNCHANGED <<items, active, running, outcome, report>>

\* The pipelines returned, in whichever way: the deferred Finish comes after the
\* outcome signal was handed to an emit goroutine.
ItemLeftEngine(i) ==
  /\ i \in running
  /\ running' = running \ {i}
  /\ active' = active - 1
  /\ \E o \in Outcomes : outcome' = [outcome EXCEPT ![i] = o]
  /\ UNCHANGED <<items, triggers, loop, report>>

\* A pipeline returned nil instead of an item or a panic: a Fatal log.
PipelineReturnsNil(i) ==
  /\ i \in running
  /\ fatal' = TRUE
  /\ UNCHANGED <<items, active, running, outcome, triggers, loop, told>>

\* After a panic, an ErrDropItem included, ProcessItem gives a nil item beside the
\* error, and the outcome signal carries that.
CarriesItem(i) == outcome[i] = "ItemScraped"

\* dispatch calls the receivers: callReceiver panics on the type of a nil argument,
\* and dispatch's recover logs Fatal.
OutcomeTold(i) ==
  /\ outcome[i] \in Connected
  /\ told[i] = "no"
  /\ told' = [told EXCEPT ![i] = IF CarriesItem(i) THEN "yes" ELSE "failed"]
  /\ fatal' = ~CarriesItem(i)
  /\ UNCHANGED <<items, active, running, outcome, triggers, loop>>

\* Engine.Close closes quit; the select may still prefer another ready case.
Quit ==
  /\ loop = "select"
  /\ loop' = "quit"
  /\ UNCHANGED <<items, active, running, outcome, triggers, report>>

Next ==
  /\ ~fatal
  /\ \/ \E i \in Items :
          Push(i) \/ ItemLeftEngine(i) \/ PipelineReturnsNil(i) \/ OutcomeTold(i)
     \/ TriggerDelivered \/ TriggerLost
     \/ PopItem \/ PopNothing \/ HeartBeat \/ Check \/ Quit

\* The loop and every handler keep running. A trigger's token is tried within
\* one scheduling delay while the loop rests 100ms in its select between two
\* heartbeats, so a token that can be delivered again and again is delivered
\* (strong fairness). Nothing obliges a spider to push or the engine to quit.
Fairness ==
  /\ WF_vars(~fatal /\ (PopItem \/ PopNothing \/ Check))
  /\ WF_vars(~fatal /\ HeartBeat)
  /\ SF_vars(~fatal /\ TriggerDelivered)
  /\ WF_vars(~fatal /\ TriggerLost)
  /\ \A i \in Items : WF_vars(~fatal /\ ItemLeftEngine(i))

Spec == Init /\ [][Next]_vars

FairSpec == Spec /\ Fairness

-----------------------------------------------------------------------------
\* ItemSlotImpl.active is exactly the number of handlers under way, whichever
\* way the earlier ones ended (Pop, itemLeftEngine's deferred Finish).
ActiveIsRunning == active = Cardinality(running)

\* No item is in two places: queued twice, queued while its handler runs, or
\* still held by the slot after its outcome was signalled.
NoItemTwice ==
  /\ IsInjective(items)
  /\ Queued \cap running = {}
  /\ \A i \in Queued \cup running : outcome[i] = "none"

\* CONCURRENT_ITEMS is tested when a trigger is started, not when an item is
\* popped, so the limit can be passed by the triggers in flight at that moment,
\* and by no more than those.
ActiveBound ==
  ConcurrentItems > 0 => active <= ConcurrentItems + MaxTriggers - 1

\* interface.go says of ItemSloter that it limits the number of items handled
\* at once. The check is made too early for that (see ActiveBound).
LimitKept == ConcurrentItems > 0 => active <= ConcurrentItems

\* With a queued item and a free slot, something will still pop it: every
\* pushed item is handled to its end unless the engine quits or the program dies.
EveryItemHandled ==
  \A i \in Items : i \in Queued ~> (outcome[i] # "none" \/ loop = "quit" \/ fatal)

\* signal.go says of StItemDropped that an item was dropped. The receivers connected
\* to it, CoreStats among them, hear of a dropped item and the crawl goes on.
DropIsTold ==
  \A i \in Items : outcome[i] = "ItemDropped" => told[i] # "failed"

\* The slot implements a pool of one lane whose capacity is the limit plus the
\* triggers that may be in flight.
Pool == INSTANCE WorkPool WITH
  Work <- Items,
  Lane <- [i \in Items |-> "items"],
  Capacity <- [l \in {"items"} |->
                 IF ConcurrentItems <= 0 THEN 0
                 ELSE ConcurrentItems + MaxTriggers - 1],
  waiting <- Queued,
  handlers <- [l \in {"items"} |-> Cardinality(running)]

ImplementsPool == Pool!Spec
=============================================================================
