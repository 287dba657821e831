---------------------------- MODULE EngineProofs ----------------------------
(***************************************************************************)
(* Proofs about Engine, for any pages, links, items, rooms and bounds.     *)
(***************************************************************************)
EXTENDS Engine, FiniteSetTheorems, TLAPS

\* The stores and the signals of a request follow one another: each place is reached
\* from the one before it, which has been left, and is left for the next one only.
WayOK(r) ==
  /\ r \in pending => life[Sig("left", r)] = "done" /\ life[Sig("sched", r)] = "none"
  /\ life[Sig("sched", r)] # "none" => life[Sig("left", r)] = "done" /\ r \notin pending
  /\ r \in queued => life[Sig("sched", r)] = "done" /\ life[Sig("down", r)] = "none"
  /\ life[Sig("down", r)] # "none" => life[Sig("sched", r)] = "done" /\ r \notin queued
  /\ r \in active <=> InFlight(Sig("down", r))
  /\ life[Sig("resp", r)] # "none" => life[Sig("down", r)] = "done"
  /\ life[Sig("left", r)] = "done" => r \in pending \/ life[Sig("sched", r)] # "none"
  /\ life[Sig("sched", r)] = "done" => r \in queued \/ life[Sig("down", r)] # "none"
  /\ life[Sig("down", r)] = "done" => life[Sig("resp", r)] # "none"

HandedOn(w) ==
  IF w \in Requests THEN life[Sig("left", w)] # "none"
  ELSE w \in queued \cup active \/ life[Sig("item", w)] # "none"

\* A goroutine that ranges over results is started when its signal's handler ends. What
\* is left to it nobody else has handed on, and what a page's has taken is handed on.
RangeOK(g) ==
  /\ results[g].at = "none" <=> life[g] # "done"
  /\ results[g].at \in {"none", "done"} => results[g].left = {}
  /\ results[g].left \subseteq Yields(g)
  /\ \A r \in Requests \cap Yields(g) :
       results[g].at = "none" \/ r \in results[g].left => life[Sig("left", r)] = "none"
  /\ g.kind = "resp" /\ results[g].at # "none" =>
       \A w \in Yields(g) \ results[g].left : HandedOn(w)

\* Only a request admitted before stopFlag was set is taken after it.
StopOK ==
  /\ lateTakes <= 1
  /\ ~stopFlag \/ scheduler = "take" => lateTakes = 0

\* What isIdle has read still holds, as long as it has not been disturbed.
IdleOK ==
  scheduler \in IdleStates /\ ~disturbed =>
    /\ ~Uncounted
    /\ scheduler # "idle1" => pending = {} \/ stopFlag
    /\ scheduler \notin {"idle1", "idle2"} => RequestsIdle
    /\ scheduler \in {"idle4", "idle5"} => ItemsIdle
    /\ scheduler = "idle5" => SignalsAllDone

ControlSignals == {s \in SignalSet : s.kind \in {"idle", "closed"}}

\* Without a second interrupt and without haste there is one signal at a time that leads
\* to the close, and none but that of the close itself once quit is closed.
CloseOK ==
  /\ \A s \in waiting : s.kind = "closed" /\ life[s] = "counted"
  /\ interrupts < 2 /\ ~hasty =>
       /\ ~fatal
       /\ \A s, t \in ControlSignals : InFlight(s) /\ InFlight(t) => s = t
       /\ quit => \A s \in ControlSignals : InFlight(s) => s \in waiting

IInv ==
  /\ TypeOK /\ StopOK /\ IdleOK /\ CloseOK
  /\ \A r \in Requests : WayOK(r)
  /\ \A g \in Ranges : RangeOK(g)

-----------------------------------------------------------------------------
(* The signals, and what emit does to them.                                *)

\* The signals of the requests and items are what they seem, and all different.
LEMMA SignalKinds ==
  /\ \A k, x : Sig(k, x).kind = k /\ Sig(k, x).of = x
  /\ Sig("open", 0) \in SignalSet /\ Sig("open", 0) \in Ranges
  /\ \A r \in Requests :
       /\ Sig("left", r) \in SignalSet /\ Sig("sched", r) \in SignalSet
       /\ Sig("down", r) \in SignalSet
       /\ Sig("resp", r) \in SignalSet /\ Sig("resp", r) \in Ranges
  /\ \A i \in Items : Sig("item", i) \in SignalSet
  BY DEF Sig, SignalSet, Ranges

LEMMA RangeKinds ==
  ASSUME NEW g \in Ranges
  PROVE  /\ g \in SignalSet
         /\ \/ g = Sig("open", 0) /\ g.kind = "open" /\ Yields(g) = Starts
            \/ /\ g.kind = "resp" /\ g.of \in Requests
               /\ g = Sig("resp", g.of) /\ Yields(g) = Finds[g.of]
         /\ Yields(g) \subseteq Work
<1>1. CASE g = Sig("open", 0)
  BY <1>1, EngineAssumption DEF Sig, SignalSet, Yields, Work
<1>2. CASE g \in [kind : {"resp"}, of : Requests]
  <2>1. g.kind = "resp" /\ g.of \in Requests /\ g = Sig("resp", g.of)
    BY <1>2 DEF Sig
  <2>2. Yields(g) = Finds[g.of] /\ Finds[g.of] \subseteq Work
    BY <2>1, EngineAssumption DEF Yields, Work
  <2> QED
    BY <2>1, <2>2, SignalKinds
<1> QED
  BY <1>1, <1>2 DEF Ranges

\* No page yields what another one, or the start, does.
LEMMA YieldsDiffer ==
  ASSUME NEW g \in Ranges, NEW h \in Ranges, NEW w, w \in Yields(g), w \in Yields(h),
         w \in Requests
  PROVE  g = h
  BY RangeKinds, EngineAssumption

\* emit's goroutine is new, and the handler's signal is done; the others go on.
LEMMA EmittingAt ==
  ASSUME TypeOK, NEW S, NEW s
  PROVE  /\ Emitting(S) \in [SignalSet -> LifeStates]
         /\ EndsEmitting(s, S) \in [SignalSet -> LifeStates]
         /\ \A t \in SignalSet :
              /\ Emitting(S)[t] = IF t \in S THEN "spawned" ELSE life[t]
              /\ EndsEmitting(s, S)[t] =
                   IF t = s THEN "done" ELSE IF t \in S THEN "spawned" ELSE life[t]
  BY DEF TypeOK, Emitting, EndsEmitting, LifeStates

LEMMA EmittingOne ==
  ASSUME TypeOK, NEW x, NEW y, NEW t \in SignalSet
  PROVE  /\ Emitting({x})[t] = IF t = x THEN "spawned" ELSE life[t]
         /\ EndsEmitting(y, {})[t] = IF t = y THEN "done" ELSE life[t]
         /\ EndsEmitting(y, {x})[t] =
              IF t = y THEN "done" ELSE IF t = x THEN "spawned" ELSE life[t]
  BY EmittingAt

\* NextControl gives a control signal of its kind that has not been used, or none.
LEMMA NextControlOne ==
  ASSUME NEW k \in {"idle", "closed"}, NEW s \in NextControl(k)
  PROVE  /\ s \in ControlSignals /\ s.kind = k /\ life[s] = "none"
         /\ \A t \in NextControl(k) : t = s
<1>1. \A t \in SignalSet : t.kind = k => t.of \in Int /\ t = Sig(k, t.of)
  BY EngineAssumption DEF SignalSet, Sig
<1>2. \A t \in NextControl(k) :
        t \in SignalSet /\ t.kind = k /\ life[t] = "none" /\ t.of <= s.of /\ s.of <= t.of
  BY DEF NextControl
<1> QED
  BY <1>1, <1>2 DEF ControlSignals

-----------------------------------------------------------------------------
(* Types.                                                                  *)

\* A request or an item of its own is in Work.
LEMMA WorkIs == Requests \subseteq Work /\ Items \subseteq Work
  BY DEF Work

LEMMA TypeInit == Init => TypeOK
<1> SUFFICES ASSUME Init PROVE TypeOK
  OBVIOUS
<1>1. life \in [SignalSet -> LifeStates]
  BY DEF Init, LifeStates
<1>2. results \in [Ranges -> [at : {"none", "spawned", "running", "done"},
                              left : SUBSET Work]]
  BY DEF Init
<1>3. triggers \in 0..MaxTriggers /\ interrupts \in 0..MaxInterrupts
  BY EngineAssumption DEF Init
<1> QED
  BY <1>1, <1>2, <1>3 DEF Init, TypeOK, SchedulerStates, LoopNames

\* The steps of the signals, handlers and goroutines.
LEMMA TypeHandlers ==
  ASSUME TypeOK, Observe,
         \/ \E s \in SignalSet : SignalStep(s)
         \/ HandlerStep
         \/ \E g \in Ranges : RangeStep(g)
  PROVE  TypeOK'
<1> USE SignalKinds, WorkIs
<1>e. \A S, s : /\ Emitting(S) \in [SignalSet -> LifeStates]
                /\ EndsEmitting(s, S) \in [SignalSet -> LifeStates]
  BY EmittingAt
<1> USE <1>e
<1>0. disturbed' \in BOOLEAN /\ hasty' \in BOOLEAN
  BY DEF Observe
<1>1. ASSUME NEW s \in SignalSet, SignalStep(s) PROVE TypeOK'
  BY <1>0, <1>1
  DEF SignalStep, EmitAdds, Received, DispatchCounted, TypeOK, LifeStates, stores, control
<1>2. ASSUME NEW r \in Requests, RequestLeftEngine(r) PROVE TypeOK'
  BY <1>0, <1>2 DEF RequestLeftEngine, TypeOK, control
<1>3. ASSUME NEW r \in Requests, PushesRequest(r) PROVE TypeOK'
  BY <1>0, <1>3 DEF PushesRequest, TypeOK, control
<1>4. ASSUME NEW r \in Requests, RequestReachedDownloader(r) PROVE TypeOK'
  BY <1>0, <1>4 DEF RequestReachedDownloader, TypeOK, control
<1>5. ASSUME NEW i \in Items, ItemLeftEngine(i) PROVE TypeOK'
  BY <1>0, <1>5 DEF ItemLeftEngine, TypeOK, control
<1>6. ASSUME NEW s \in SignalSet, SpiderIdle(s) \/ SpiderClosed(s) \/ CloseReturns(s)
      PROVE  TypeOK'
  <2>1. life' \in [SignalSet -> LifeStates]
    BY <1>6 DEF SpiderIdle, SpiderClosed, CloseReturns, TypeOK, signals
  <2>2. waiting' \subseteq SignalSet /\ quit' \in BOOLEAN /\ fatal' \in BOOLEAN
    <3>1. CASE SpiderIdle(s) \/ CloseReturns(s)
      BY <3>1 DEF SpiderIdle, CloseReturns, TypeOK, control
    <3>2. CASE SpiderClosed(s)
      BY <3>2 DEF SpiderClosed, TypeOK
    <3> QED
      BY <1>6, <3>1, <3>2
  <2> QED
    BY <1>0, <1>6, <2>1, <2>2
    DEF SpiderIdle, SpiderClosed, CloseReturns, TypeOK, control, stores, signals
<1>7. ASSUME NEW g \in Ranges, StartsRange(g) PROVE TypeOK'
  BY <1>0, <1>7, RangeKinds DEF StartsRange, TypeOK, control, stores
<1>8. ASSUME NEW g \in Ranges, RangeAdds(g) \/ RangeEnds(g) PROVE TypeOK'
  BY <1>0, <1>8 DEF RangeAdds, RangeEnds, TypeOK, control, stores
<1>9. ASSUME NEW g \in Ranges, NEW w \in Work, RangeYields(g, w) PROVE TypeOK'
  <2>1. life' \in [SignalSet -> LifeStates] /\ queued' \subseteq Work
    <3>1. CASE w \in Requests
      <4>1. life' = Emitting({Sig("left", w)}) /\ queued' = queued
        BY <1>9, <3>1 DEF RangeYields
      <4> QED
        BY <4>1 DEF TypeOK
    <3>2. CASE w \notin Requests
      <4>1. life' = life /\ queued' = queued \cup {w}
        BY <1>9, <3>2 DEF RangeYields
      <4> QED
        BY <4>1 DEF TypeOK
    <3> QED
      BY <3>1, <3>2
  <2>2. results' \in [Ranges -> [at : {"none", "spawned", "running", "done"},
                                 left : SUBSET Work]]
    BY <1>9 DEF RangeYields, TypeOK
  <2> QED
    BY <1>0, <1>9, <2>1, <2>2 DEF RangeYields, TypeOK, control
<1> QED
  BY <1>1, <1>2, <1>3, <1>4, <1>5, <1>6, <1>7, <1>8, <1>9 DEF HandlerStep, RangeStep

\* The steps of the loops and of Spider.Start.
LEMMA TypeLoops ==
  ASSUME TypeOK, Observe,
         \/ \E i \in Items : ItemPop(i)
         \/ \E r \in Requests : RequestPop(r) \/ Take(r)
         \/ Interrupt
         \/ \E l \in LoopNames : LoopEnds(l)
         \/ TriggerDelivered \/ TriggerLost
         \/ Admit \/ HeartBeat \/ IsIdle \/ EmitIdle \/ SchedulerEnds
         \/ StartReturns \/ SpiderCloses
  PROVE  TypeOK'
<1> USE WorkIs
<1>e. \A S, s : /\ Emitting(S) \in [SignalSet -> LifeStates]
                /\ EndsEmitting(s, S) \in [SignalSet -> LifeStates]
  BY EmittingAt
<1>0. disturbed' \in BOOLEAN /\ hasty' \in BOOLEAN
  BY DEF Observe
<1>1. ASSUME NEW i \in Items, ItemPop(i) PROVE TypeOK'
  BY <1>0, <1>1, <1>e DEF ItemPop, TypeOK, control
<1>2. ASSUME NEW r \in Requests, RequestPop(r) PROVE TypeOK'
  BY <1>0, <1>2, <1>e DEF RequestPop, TypeOK, control
<1>3. ASSUME NEW r \in Requests, Take(r) PROVE TypeOK'
  <2>1. life' \in [SignalSet -> LifeStates]
    BY <1>3, <1>e DEF Take
  <2>2. triggers' \in 0..MaxTriggers /\ lateTakes' \in Nat
    BY <1>3, EngineAssumption DEF Take, Triggered, TypeOK
  <2> QED
    BY <1>0, <1>3, <2>1, <2>2 DEF Take, TypeOK, control, SchedulerStates
<1>4. CASE Interrupt
  <2>1. life' \in [SignalSet -> LifeStates]
    BY <1>4, <1>e DEF Interrupt, TypeOK
  <2>2. interrupts' \in 0..MaxInterrupts
    BY <1>4, EngineAssumption DEF Interrupt, TypeOK
  <2> QED
    BY <1>0, <1>4, <2>1, <2>2 DEF Interrupt, TypeOK, stores
<1>5. CASE \E l \in LoopNames : LoopEnds(l)
  BY <1>0, <1>5 DEF LoopEnds, TypeOK, control, stores, signals
<1>6. CASE TriggerDelivered \/ TriggerLost
  BY <1>0, <1>6, EngineAssumption
  DEF TriggerDelivered, TriggerLost, TypeOK, control, stores, signals, SchedulerStates
<1>7. CASE Admit \/ HeartBeat \/ SchedulerEnds
  BY <1>0, <1>7
  DEF Admit, HeartBeat, SchedulerEnds, TypeOK, control, stores, signals, SchedulerStates,
      IdleStates
<1>8. CASE IsIdle
  BY <1>0, <1>8, EngineAssumption
  DEF IsIdle, IdlePart, Triggered, TypeOK, control, stores, signals, SchedulerStates,
      IdleStates
<1>9. CASE EmitIdle
  BY <1>0, <1>9, <1>e DEF EmitIdle, TypeOK, control, stores, SchedulerStates
<1>10. CASE StartReturns \/ SpiderCloses
  BY <1>0, <1>10 DEF StartReturns, SpiderCloses, TypeOK, stores, signals
<1> QED
  BY <1>1, <1>2, <1>3, <1>4, <1>5, <1>6, <1>7, <1>8, <1>9, <1>10

LEMMA TypeStep ==
  ASSUME TypeOK, Next PROVE TypeOK'
  BY TypeHandlers, TypeLoops DEF Next

-----------------------------------------------------------------------------
(* The scheduler's loop: stopFlag, and what isIdle has read.               *)

\* Nothing but the loop and its trigger moves processScheduler, and only the interrupts
\* set stopFlag.
LEMMA LoopMoves ==
  ASSUME TypeOK, Next
  PROVE  \/ UNCHANGED <<scheduler, stopFlag, lateTakes>>
         \/ scheduler' = scheduler /\ stopFlag' = TRUE /\ lateTakes' = lateTakes
         \/ /\ TriggerDelivered \/ Admit \/ HeartBeat \/ IsIdle \/ EmitIdle \/ SchedulerEnds
            /\ UNCHANGED <<stopFlag, lateTakes>>
         \/ \E r \in Requests : Take(r) /\ UNCHANGED stopFlag
<1>1. CASE \/ \E s \in SignalSet : SignalStep(s)
           \/ HandlerStep
           \/ \E g \in Ranges : RangeStep(g)
  BY <1>1
  DEF SignalStep, EmitAdds, Received, DispatchCounted, HandlerStep, RequestLeftEngine,
      PushesRequest, RequestReachedDownloader, ItemLeftEngine, SpiderIdle, SpiderClosed,
      CloseReturns, StartsRange, RangeStep, RangeAdds, RangeYields, RangeEnds, control
<1>2. CASE \/ \E i \in Items : ItemPop(i)
           \/ \E r \in Requests : RequestPop(r)
           \/ \E l \in LoopNames : LoopEnds(l)
           \/ TriggerLost \/ StartReturns \/ SpiderCloses
  BY <1>2
  DEF ItemPop, RequestPop, LoopEnds, TriggerLost, StartReturns, SpiderCloses, control
<1>3. CASE Interrupt
  BY <1>3 DEF Interrupt
<1>4. CASE TriggerDelivered \/ Admit \/ HeartBeat \/ IsIdle \/ EmitIdle \/ SchedulerEnds
  BY <1>4
  DEF TriggerDelivered, Admit, HeartBeat, IsIdle, IdlePart, EmitIdle, SchedulerEnds, control
<1>5. CASE \E r \in Requests : Take(r)
  BY <1>5 DEF Take, control
<1> QED
  BY <1>1, <1>2, <1>3, <1>4, <1>5 DEF Next

\* Once stopFlag is set nothing is admitted, and what was admitted before is one request.
LEMMA StopStep ==
  ASSUME TypeOK, StopOK, Next PROVE StopOK'
<1>1. lateTakes \in Nat /\ stopFlag \in BOOLEAN
  BY DEF TypeOK
<1>2. CASE \/ UNCHANGED <<scheduler, stopFlag, lateTakes>>
           \/ scheduler' = scheduler /\ stopFlag' = TRUE /\ lateTakes' = lateTakes
  BY <1>1, <1>2 DEF StopOK
<1>3. CASE /\ TriggerDelivered \/ Admit \/ HeartBeat \/ IsIdle \/ EmitIdle \/ SchedulerEnds
           /\ UNCHANGED <<stopFlag, lateTakes>>
  <2>1. scheduler' = "take" => ~stopFlag
    BY <1>3
    DEF TriggerDelivered, Admit, Admits, HeartBeat, IsIdle, IdlePart, EmitIdle, SchedulerEnds
  <2> QED
    BY <1>1, <1>3, <2>1 DEF StopOK
<1>4. CASE \E r \in Requests : Take(r) /\ UNCHANGED stopFlag
  BY <1>1, <1>4 DEF StopOK, Take
<1> QED
  BY <1>2, <1>3, <1>4, LoopMoves

\* isIdle goes on to its next part only where the one before it holds.
LEMMA IdleMoves ==
  ASSUME TypeOK, Next, scheduler' \in IdleStates
  PROVE  \/ scheduler \notin IdleStates /\ scheduler' = "idle1"
         \/ scheduler' = scheduler
         \/ scheduler = "idle1" /\ scheduler' = "idle2" /\ (pending = {} \/ stopFlag)
         \/ scheduler = "idle2" /\ scheduler' = "idle3" /\ RequestsIdle
         \/ scheduler = "idle3" /\ scheduler' = "idle4" /\ ItemsIdle
         \/ scheduler = "idle4" /\ scheduler' = "idle5" /\ SignalsAllDone
<1>1. CASE IsIdle
  BY <1>1 DEF IsIdle, IdlePart, IdleStates
<1>2. CASE TriggerDelivered \/ Admit \/ HeartBeat \/ EmitIdle \/ SchedulerEnds
  BY <1>2 DEF TriggerDelivered, Admit, HeartBeat, EmitIdle, SchedulerEnds, IdleStates
<1>3. CASE \E r \in Requests : Take(r)
  BY <1>3 DEF Take, IdleStates
<1> QED
  BY <1>1, <1>2, <1>3, LoopMoves

\* An undisturbed isIdle has seen what still is.
LEMMA IdleStep ==
  ASSUME TypeOK, IdleOK, Next PROVE IdleOK'
<1> SUFFICES ASSUME scheduler' \in IdleStates, ~disturbed' PROVE IdleOK'
  BY DEF IdleOK
<1>1. scheduler \in IdleStates => ~disturbed /\ UNCHANGED <<signals, stores>>
  BY DEF Next, Observe
<1>2. ~Uncounted'
  BY DEF Next, Observe
<1>3. CASE scheduler \notin IdleStates
  <2>1. scheduler' = "idle1"
    BY <1>3, IdleMoves DEF IdleStates
  <2> QED
    BY <1>2, <2>1 DEF IdleOK
<1>4. CASE scheduler \in IdleStates
  <2>1. /\ RequestsIdle' <=> RequestsIdle
        /\ ItemsIdle' <=> ItemsIdle
        /\ SignalsAllDone' <=> SignalsAllDone
        /\ pending' = pending
    BY <1>1, <1>4 DEF RequestsIdle, ItemsIdle, SignalsAllDone, signals, stores
  <2>2. stopFlag => stopFlag'
    BY LoopMoves
  <2> QED
    BY <1>1, <1>2, <1>4, <2>1, <2>2, IdleMoves DEF IdleOK, IdleStates
<1> QED
  BY <1>3, <1>4

\* isIdle's answer, when nothing has disturbed it: no signal is under way at all.
LEMMA UndisturbedIsQuiet ==
  ASSUME TypeOK, IdleOK, scheduler = "idle5", NoBackTask, ~disturbed
  PROVE  /\ \A s \in SignalSet : ~InFlight(s)
         /\ \A g \in Ranges : results[g].at \in {"none", "done"}
         /\ pending = {} \/ stopFlag
         /\ queued = {} /\ active = {}
<1>1. /\ ~Uncounted /\ (pending = {} \/ stopFlag) /\ RequestsIdle /\ ItemsIdle
      /\ SignalsAllDone
  BY DEF IdleOK, IdleStates
<1>2. \A s \in SignalSet : ~InFlight(s)
  BY <1>1 DEF Uncounted, SignalsAllDone, NoBackTask, Counted, InFlight, TypeOK, LifeStates
<1>3. \A g \in Ranges : results[g].at \in {"none", "done"}
  BY <1>1 DEF Uncounted, NoBackTask, RangesRunning, TypeOK
<1>4. queued = {} /\ active = {}
  BY <1>1 DEF RequestsIdle, ItemsIdle, TypeOK, Work
<1> QED
  BY <1>1, <1>2, <1>3, <1>4

-----------------------------------------------------------------------------
(* The close.                                                              *)

\* The steps that have to do with SpiderIdle, SpiderClosed and the close.
ControlStep ==
  \/ \E s \in SignalSet : SignalStep(s)
  \/ \E s \in SignalSet : SpiderIdle(s) \/ SpiderClosed(s) \/ CloseReturns(s)
  \/ Interrupt \/ EmitIdle

\* Signals on their way to their handlers stay on their way.
LEMMA SignalStepKeeps ==
  ASSUME TypeOK, NEW s \in SignalSet, SignalStep(s)
  PROVE  /\ \A t \in SignalSet : InFlight(t)' <=> InFlight(t)
         /\ \A t \in SignalSet : life[t] \in {"none", "counted", "done"} => life'[t] = life[t]
         /\ \A t \in SignalSet : life'[t] \in {"none", "done"} => life'[t] = life[t]
         /\ UNCHANGED <<results, stores, triggers, scheduler, loops, control, lateTakes>>
  BY DEF SignalStep, EmitAdds, Received, DispatchCounted, TypeOK, InFlight, LifeStates

\* The other steps leave the control signals and the close as they are.
LEMMA ControlStays ==
  ASSUME TypeOK, Next, ~ControlStep, NEW s \in ControlSignals
  PROVE  /\ life'[s] = life[s]
         /\ UNCHANGED <<waiting, quit, interrupts, fatal>>
<1>e. \A S, h : /\ s \notin S => Emitting(S)[s] = life[s]
                /\ s \notin S /\ s # h => EndsEmitting(h, S)[s] = life[s]
  <2>1. s \in SignalSet
    BY DEF ControlSignals
  <2> QED
    BY <2>1, EmittingAt
<1>c. /\ \A x : /\ s # Sig("left", x) /\ s # Sig("sched", x) /\ s # Sig("down", x)
                /\ s # Sig("resp", x) /\ s # Sig("item", x)
      /\ \A g \in Ranges : s # g
  <2>1. s \in SignalSet /\ s.kind \in {"idle", "closed"}
    BY DEF ControlSignals
  <2>2. \A g \in Ranges : g.kind \in {"open", "resp"}
    BY RangeKinds
  <2> QED
    BY <2>1, <2>2, SignalKinds
<1> USE <1>e, <1>c DEF control
<1>1. ASSUME NEW r \in Requests,
             \/ RequestLeftEngine(r) \/ PushesRequest(r) \/ RequestReachedDownloader(r)
             \/ RequestPop(r) \/ Take(r)
      PROVE  life'[s] = life[s] /\ UNCHANGED <<waiting, quit, interrupts, fatal>>
  <2>1. \/ \E x \in {"left", "sched", "down"} : life' = EndsEmitting(Sig(x, r), {})
        \/ life' = EndsEmitting(Sig("down", r), {Sig("resp", r)})
        \/ life' = Emitting({Sig("down", r)}) \/ life' = Emitting({Sig("sched", r)})
    BY <1>1
    DEF RequestLeftEngine, PushesRequest, RequestReachedDownloader, RequestPop, Take
  <2>2. life'[s] = life[s]
    BY <2>1
  <2> QED
    BY <1>1, <2>2
    DEF RequestLeftEngine, PushesRequest, RequestReachedDownloader, RequestPop, Take
<1>2. ASSUME NEW i \in Items, ItemLeftEngine(i) \/ ItemPop(i)
      PROVE  life'[s] = life[s] /\ UNCHANGED <<waiting, quit, interrupts, fatal>>
  BY <1>2 DEF ItemLeftEngine, ItemPop
<1>3. ASSUME NEW g \in Ranges, StartsRange(g) \/ RangeStep(g)
      PROVE  life'[s] = life[s] /\ UNCHANGED <<waiting, quit, interrupts, fatal>>
  <2>1. CASE StartsRange(g)
    BY <2>1 DEF StartsRange
  <2>2. CASE RangeAdds(g) \/ RangeEnds(g)
    BY <2>2 DEF RangeAdds, RangeEnds
  <2>3. ASSUME NEW w \in Work, RangeYields(g, w)
        PROVE  life'[s] = life[s] /\ UNCHANGED <<waiting, quit, interrupts, fatal>>
    <3>1. life' = Emitting({Sig("left", w)}) \/ life' = life
      BY <2>3 DEF RangeYields
    <3> QED
      BY <2>3, <3>1 DEF RangeYields
  <2> QED
    BY <1>3, <2>1, <2>2, <2>3 DEF RangeStep
<1>4. CASE \/ \E l \in LoopNames : LoopEnds(l)
           \/ TriggerDelivered \/ TriggerLost \/ Admit \/ HeartBeat \/ IsIdle
           \/ SchedulerEnds \/ StartReturns \/ SpiderCloses
  BY <1>4
  DEF LoopEnds, TriggerDelivered, TriggerLost, Admit, HeartBeat, IsIdle, IdlePart,
      SchedulerEnds, StartReturns, SpiderCloses, signals
<1> QED
  BY <1>1, <1>2, <1>3, <1>4 DEF Next, HandlerStep, ControlStep

LEMMA CloseStep ==
  ASSUME TypeOK, IdleOK, CloseOK, Next PROVE CloseOK'
<1> USE DEF ControlSignals
<1>t. /\ interrupts \in Int /\ (hasty => hasty')
      /\ waiting \subseteq ControlSignals
      /\ \A s \in SignalSet : InFlight(s) <=> life[s] \notin {"none", "done"}
      /\ \A s \in SignalSet : InFlight(s)' <=> life'[s] \notin {"none", "done"}
  BY DEF TypeOK, Next, Observe, CloseOK, InFlight
<1>e. \A S, s : \A t \in SignalSet :
        /\ Emitting(S)[t] = IF t \in S THEN "spawned" ELSE life[t]
        /\ EndsEmitting(s, S)[t] =
             IF t = s THEN "done" ELSE IF t \in S THEN "spawned" ELSE life[t]
  BY EmittingAt
<1>1. CASE ~ControlStep
  <2>1. Sig("idle", 1) \in ControlSignals
    BY EngineAssumption DEF SignalSet, Sig
  <2>2. UNCHANGED <<waiting, quit, interrupts, fatal>>
    BY <1>1, <2>1, ControlStays
  <2>3. \A s \in ControlSignals : life'[s] = life[s]
    BY <1>1, ControlStays
  <2> QED
    BY <1>t, <2>2, <2>3 DEF CloseOK
<1>2. ASSUME NEW s \in SignalSet, SignalStep(s) PROVE CloseOK'
  BY <1>2, <1>t, SignalStepKeeps DEF CloseOK, control
<1>3. ASSUME NEW s \in SignalSet, SpiderIdle(s) PROVE CloseOK'
  <2>1. s \notin waiting /\ NextControl("closed") \cap waiting = {}
    BY <1>3, <1>t, NextControlOne DEF SpiderIdle, CloseOK
  <2>2. \A t \in waiting : life'[t] = life[t]
    BY <1>3, <1>e, <1>t, <2>1 DEF SpiderIdle
  <2>3. ASSUME interrupts < 2, ~hasty PROVE ~quit /\ ~fatal
    BY <1>3, <1>t, <2>1, <2>3 DEF SpiderIdle, CloseOK
  <2>4. ASSUME interrupts < 2, ~hasty, NEW t \in ControlSignals, InFlight(t)'
        PROVE  t \in NextControl("closed")
    BY <1>3, <1>e, <1>t, <2>4 DEF SpiderIdle, CloseOK
  <2> QED
    BY <1>3, <1>t, <2>2, <2>3, <2>4, NextControlOne DEF SpiderIdle, CloseOK, control
<1>4. ASSUME NEW s \in SignalSet, SpiderClosed(s) PROVE CloseOK'
  <2>1. ASSUME interrupts < 2, ~hasty PROVE ~quit
    BY <1>4, <1>t, <2>1 DEF SpiderClosed, CloseOK
  <2> QED
    BY <1>4, <1>t, <2>1 DEF SpiderClosed, CloseOK, signals
<1>5. ASSUME NEW s \in SignalSet, CloseReturns(s) PROVE CloseOK'
  BY <1>5, <1>e, <1>t DEF CloseReturns, CloseOK
<1>6. CASE Interrupt
  <2>1. CASE interrupts = 0
    BY <1>6, <1>t, <2>1 DEF Interrupt, CloseOK
  <2>2. CASE interrupts # 0
    <3>1. NextControl("closed") \cap waiting = {}
      BY <1>t, NextControlOne DEF CloseOK
    <3>2. \A t \in waiting : life'[t] = life[t]
      BY <1>6, <1>e, <1>t, <2>2, <3>1 DEF Interrupt
    <3>3. interrupts' >= 2 /\ interrupts' \in Int
      BY <1>6, <2>2 DEF Interrupt, TypeOK
    <3> QED
      BY <1>6, <3>2, <3>3 DEF Interrupt, CloseOK
  <2> QED
    BY <2>1, <2>2
<1>7. CASE EmitIdle
  <2>1. NextControl("idle") \cap waiting = {}
    BY <1>t, NextControlOne DEF CloseOK
  <2>2. \A t \in waiting : life'[t] = life[t]
    BY <1>7, <1>e, <1>t, <2>1 DEF EmitIdle
  <2>3. ASSUME ~hasty' PROVE ~quit /\ \A t \in SignalSet : ~InFlight(t)
    <3>1. IdleEmitted
      BY <1>7 DEF EmitIdle, IdleEmitted
    <3>2. ~disturbed /\ ~quit
      BY <2>3, <3>1 DEF Next, Observe
    <3> QED
      BY <1>7, <3>2, UndisturbedIsQuiet DEF EmitIdle
  <2>4. ASSUME ~hasty', NEW t \in ControlSignals, InFlight(t)'
        PROVE  t \in NextControl("idle")
    <3>1. life'[t] = IF t \in NextControl("idle") THEN "spawned" ELSE life[t]
      BY <1>7, <1>e DEF EmitIdle
    <3>2. ~InFlight(t) /\ t \in SignalSet
      BY <2>3, <2>4
    <3> QED
      BY <1>t, <2>4, <3>1, <3>2
  <2>5. UNCHANGED <<waiting, quit, interrupts, fatal>>
    BY <1>7 DEF EmitIdle, control
  <2>6. \A s \in waiting' : s.kind = "closed" /\ life'[s] = "counted"
    BY <2>2, <2>5 DEF CloseOK
  <2>7. ASSUME interrupts' < 2, ~hasty'
        PROVE  /\ ~fatal'
               /\ \A s, t \in ControlSignals : InFlight(s)' /\ InFlight(t)' => s = t
               /\ ~quit'
    <3>1. interrupts < 2 /\ ~hasty
      BY <1>t, <2>5, <2>7
    <3>2. ~fatal'
      BY <2>5, <3>1 DEF CloseOK
    <3>3. \A s, t \in ControlSignals : InFlight(s)' /\ InFlight(t)' => s = t
      BY <2>4, <2>7, NextControlOne
    <3> QED
      BY <2>3, <2>5, <2>7, <3>2, <3>3
  <2> QED
    BY <2>6, <2>7 DEF CloseOK
<1> QED
  BY <1>1, <1>2, <1>3, <1>4, <1>5, <1>6, <1>7 DEF ControlStep

-----------------------------------------------------------------------------
(* The way of a request.                                                   *)

\* A signal is begun or ended by the step no more than it was.
SameStage(s) ==
  /\ life'[s] = "none" <=> life[s] = "none"
  /\ life'[s] = "done" <=> life[s] = "done"

WaySignals(r) == {Sig("left", r), Sig("sched", r), Sig("down", r), Sig("resp", r)}

LEMMA WaySignalsAre ==
  ASSUME NEW r \in Requests, NEW s \in WaySignals(r)
  PROVE  /\ s \in SignalSet /\ s.of = r
         /\ s.kind \in {"left", "sched", "down", "resp"}
         /\ s.kind = "resp" => s = Sig("resp", r)
  BY SignalKinds DEF WaySignals

LEMMA WayStays ==
  ASSUME NEW r \in Requests, WayOK(r),
         r \in pending' <=> r \in pending,
         r \in queued' <=> r \in queued,
         r \in active' <=> r \in active,
         \A s \in WaySignals(r) : s.kind # "resp" => SameStage(s),
         life'[Sig("resp", r)] = "none" <=> life[Sig("resp", r)] = "none"
  PROVE  WayOK(r)'
<1>1. /\ SameStage(Sig("left", r)) /\ SameStage(Sig("sched", r))
      /\ SameStage(Sig("down", r))
  BY SignalKinds DEF WaySignals
<1> QED
  BY <1>1 DEF WayOK, SameStage, InFlight

\* The handler of a response ends.
EndsResponse(s) == s.kind = "resp" /\ life[s] = "counted" /\ life'[s] = "done"

\* A step that concerns neither q's signals nor its stores, but for that end.
LEMMA OthersKeep ==
  ASSUME TypeOK, CloseOK, NEW q \in Requests,
         \/ \E s \in SignalSet : \/ SignalStep(s)
                                 \/ SpiderIdle(s) \/ SpiderClosed(s) \/ CloseReturns(s)
         \/ \E i \in Items : ItemLeftEngine(i) \/ ItemPop(i)
         \/ \E g \in Ranges : StartsRange(g) \/ RangeAdds(g) \/ RangeEnds(g)
         \/ \E g \in Ranges, w \in Work \ Requests : RangeYields(g, w)
         \/ Interrupt \/ EmitIdle
         \/ \E l \in LoopNames : LoopEnds(l)
         \/ TriggerDelivered \/ TriggerLost \/ Admit \/ HeartBeat \/ IsIdle
         \/ SchedulerEnds \/ StartReturns \/ SpiderCloses
  PROVE  /\ q \in pending' <=> q \in pending
         /\ q \in queued' <=> q \in queued
         /\ q \in active' <=> q \in active
         /\ \A t \in WaySignals(q) : SameStage(t) \/ EndsResponse(t)
<1> DEFINE Kept == /\ q \in pending' <=> q \in pending
                   /\ q \in queued' <=> q \in queued
                   /\ q \in active' <=> q \in active
                   /\ \A t \in WaySignals(q) : SameStage(t) \/ EndsResponse(t)
<1> SUFFICES Kept
  OBVIOUS
<1>e. \A S, h : \A t \in WaySignals(q) :
        /\ t \notin S => Emitting(S)[t] = life[t]
        /\ t \notin S /\ t # h => EndsEmitting(h, S)[t] = life[t]
  <2> SUFFICES ASSUME NEW S, NEW h, NEW t \in WaySignals(q)
               PROVE  /\ t \notin S => Emitting(S)[t] = life[t]
                      /\ t \notin S /\ t # h => EndsEmitting(h, S)[t] = life[t]
    OBVIOUS
  <2>1. t \in SignalSet
    BY WaySignalsAre
  <2>2. /\ Emitting(S)[t] = IF t \in S THEN "spawned" ELSE life[t]
        /\ EndsEmitting(h, S)[t] =
             IF t = h THEN "done" ELSE IF t \in S THEN "spawned" ELSE life[t]
    BY <2>1, EmittingAt
  <2> QED
    BY <2>2
<1>c. ASSUME NEW s \in SignalSet, s.kind \in {"idle", "closed", "item", "open"}
      PROVE  s \notin WaySignals(q)
  BY <1>c, WaySignalsAre
<1>n. /\ NextControl("idle") \cap WaySignals(q) = {}
      /\ NextControl("closed") \cap WaySignals(q) = {}
  BY <1>c, NextControlOne DEF ControlSignals
<1>s. UNCHANGED <<pending, queued, active>>
        /\ (\A t \in WaySignals(q) : life'[t] = life[t]) => Kept
  BY DEF SameStage
<1>1. ASSUME NEW s \in SignalSet, SignalStep(s) PROVE Kept
  <2>1. \A t \in SignalSet : SameStage(t)
    BY <1>1, SignalStepKeeps DEF SameStage, TypeOK, LifeStates, InFlight
  <2>2. UNCHANGED <<pending, queued, active>>
    BY <1>1, SignalStepKeeps DEF stores
  <2> QED
    BY <2>1, <2>2, WaySignalsAre
<1>2. ASSUME NEW s \in SignalSet, SpiderIdle(s) \/ CloseReturns(s) PROVE Kept
  <2>1. s \notin WaySignals(q)
    BY <1>2, <1>c DEF SpiderIdle, CloseReturns, CloseOK
  <2>2. \A t \in WaySignals(q) : life'[t] = life[t]
    BY <1>2, <1>e, <1>n, <2>1 DEF SpiderIdle, CloseReturns
  <2> QED
    BY <1>2, <1>s, <2>2 DEF SpiderIdle, CloseReturns, stores
<1>3. ASSUME NEW i \in Items, ItemLeftEngine(i) \/ ItemPop(i) PROVE Kept
  <2>1. Sig("item", i) \notin WaySignals(q)
    BY <1>c, SignalKinds
  <2>2. \A t \in WaySignals(q) : life'[t] = life[t]
    BY <1>3, <1>e, <2>1 DEF ItemLeftEngine, ItemPop
  <2>3. q # i
    BY EngineAssumption
  <2> QED
    BY <1>3, <2>2, <2>3 DEF ItemLeftEngine, ItemPop, SameStage
<1>4. ASSUME NEW g \in Ranges, StartsRange(g) PROVE Kept
  <2>1. \A t \in WaySignals(q) : t # g => life'[t] = life[t]
    BY <1>4, <1>e DEF StartsRange
  <2>2. ASSUME g \in WaySignals(q) PROVE EndsResponse(g)
    <3>1. life'[g] = "done" /\ life[g] = "counted"
      BY <1>4, EmittingOne, RangeKinds DEF StartsRange
    <3>2. g.kind = "resp"
      BY <2>2, RangeKinds, WaySignalsAre
    <3> QED
      BY <3>1, <3>2 DEF EndsResponse
  <2>3. \A t \in WaySignals(q) : SameStage(t) \/ EndsResponse(t)
    BY <2>1, <2>2 DEF SameStage
  <2> QED
    BY <1>4, <2>3 DEF StartsRange, stores
<1>5. ASSUME NEW g \in Ranges, RangeAdds(g) \/ RangeEnds(g) PROVE Kept
  BY <1>5, <1>s DEF RangeAdds, RangeEnds, stores
<1>6. ASSUME NEW g \in Ranges, NEW w \in Work \ Requests, RangeYields(g, w) PROVE Kept
  <2>1. life' = life /\ queued' = queued \cup {w} /\ UNCHANGED <<pending, active>>
    BY <1>6 DEF RangeYields
  <2> QED
    BY <2>1 DEF SameStage
<1>7. CASE Interrupt \/ EmitIdle
  <2>1. \A t \in WaySignals(q) : life'[t] = life[t]
    BY <1>7, <1>e, <1>n DEF Interrupt, EmitIdle
  <2> QED
    BY <1>7, <1>s, <2>1 DEF Interrupt, EmitIdle, stores
<1>8. CASE \/ \E s \in SignalSet : SpiderClosed(s)
           \/ \E l \in LoopNames : LoopEnds(l)
           \/ TriggerDelivered \/ TriggerLost \/ Admit \/ HeartBeat \/ IsIdle
           \/ SchedulerEnds \/ StartReturns \/ SpiderCloses
  <2>1. UNCHANGED <<life, pending, queued, active>>
    BY <1>8
    DEF SpiderClosed, LoopEnds, TriggerDelivered, TriggerLost, Admit, HeartBeat, IsIdle,
        IdlePart, SchedulerEnds, StartReturns, SpiderCloses, signals, stores
  <2> QED
    BY <1>s, <2>1
<1> QED
  BY <1>1, <1>2, <1>3, <1>4, <1>5, <1>6, <1>7, <1>8

LEMMA WayOfOthers ==
  ASSUME TypeOK, CloseOK, NEW q \in Requests, WayOK(q),
         \/ \E s \in SignalSet : \/ SignalStep(s)
                                 \/ SpiderIdle(s) \/ SpiderClosed(s) \/ CloseReturns(s)
         \/ \E i \in Items : ItemLeftEngine(i) \/ ItemPop(i)
         \/ \E g \in Ranges : StartsRange(g) \/ RangeAdds(g) \/ RangeEnds(g)
         \/ \E g \in Ranges, w \in Work \ Requests : RangeYields(g, w)
         \/ Interrupt \/ EmitIdle
         \/ \E l \in LoopNames : LoopEnds(l)
         \/ TriggerDelivered \/ TriggerLost \/ Admit \/ HeartBeat \/ IsIdle
         \/ SchedulerEnds \/ StartReturns \/ SpiderCloses
  PROVE  WayOK(q)'
<1>1. /\ q \in pending' <=> q \in pending
      /\ q \in queued' <=> q \in queued
      /\ q \in active' <=> q \in active
      /\ \A t \in WaySignals(q) : SameStage(t) \/ EndsResponse(t)
  BY OthersKeep
<1>2. \A t \in WaySignals(q) : t.kind # "resp" => SameStage(t)
  BY <1>1 DEF EndsResponse
<1>3. life'[Sig("resp", q)] = "none" <=> life[Sig("resp", q)] = "none"
  BY <1>1 DEF WaySignals, SameStage, EndsResponse
<1> QED
  BY <1>1, <1>2, <1>3, WayStays

\* A request that another request's step leaves where it is.
LEMMA WayOfAnother ==
  ASSUME NEW q \in Requests, NEW r \in Requests \ {q}, TypeOK, WayOK(q),
         pending' \in {pending, pending \cup {r}, pending \ {r}},
         queued' \in {queued, queued \cup {r}, queued \ {r}},
         active' \in {active, active \cup {r}, active \ {r}},
         \A t \in SignalSet : t.of = r \/ life'[t] = life[t]
  PROVE  WayOK(q)'
<1>1. \A t \in WaySignals(q) : life'[t] = life[t]
  BY WaySignalsAre
<1>2. Sig("resp", q) \in WaySignals(q)
  BY DEF WaySignals
<1> QED
  BY <1>1, <1>2, WayStays DEF SameStage

\* The steps by which a request goes from one place to the next.
LEMMA WayOfOwn ==
  ASSUME TypeOK, NEW r \in Requests, WayOK(r),
         \/ RequestLeftEngine(r) \/ PushesRequest(r) \/ RequestReachedDownloader(r)
         \/ RequestPop(r) \/ Take(r)
         \/ \E g \in Ranges : RangeYields(g, r) /\ life[Sig("left", r)] = "none"
  PROVE  /\ WayOK(r)'
         /\ pending' \in {pending, pending \cup {r}, pending \ {r}}
         /\ queued' \in {queued, queued \cup {r}, queued \ {r}}
         /\ active' \in {active, active \cup {r}, active \ {r}}
         /\ \A t \in SignalSet : t.of = r \/ life'[t] = life[t]
<1>d. /\ \A k \in {"left", "sched", "down", "resp"} :
           Sig(k, r) \in SignalSet /\ Sig(k, r).of = r
      /\ \A k, m \in {"left", "sched", "down", "resp"} : k # m => Sig(k, r) # Sig(m, r)
  BY SignalKinds
<1>1. CASE RequestLeftEngine(r)
  <2>1. life' = EndsEmitting(Sig("left", r), {})
    BY <1>1 DEF RequestLeftEngine
  <2>2. \A t \in SignalSet :
          life'[t] = IF t = Sig("left", r) THEN "done" ELSE life[t]
    BY <2>1, EmittingOne
  <2> QED
    BY <1>1, <1>d, <2>2 DEF RequestLeftEngine, WayOK, InFlight
<1>2. CASE PushesRequest(r)
  <2>1. life' = EndsEmitting(Sig("sched", r), {})
    BY <1>2 DEF PushesRequest
  <2>2. \A t \in SignalSet :
          life'[t] = IF t = Sig("sched", r) THEN "done" ELSE life[t]
    BY <2>1, EmittingOne
  <2> QED
    BY <1>2, <1>d, <2>2 DEF PushesRequest, WayOK, InFlight
<1>3. CASE RequestReachedDownloader(r)
  <2>1. life' = EndsEmitting(Sig("down", r), {Sig("resp", r)})
    BY <1>3 DEF RequestReachedDownloader
  <2>2. \A t \in SignalSet :
          life'[t] = IF t = Sig("down", r) THEN "done"
                     ELSE IF t = Sig("resp", r) THEN "spawned" ELSE life[t]
    BY <2>1 DEF EndsEmitting, Emitting, TypeOK
  <2> QED
    BY <1>3, <1>d, <2>2 DEF RequestReachedDownloader, WayOK, InFlight
<1>4. CASE RequestPop(r)
  <2>1. life' = Emitting({Sig("down", r)})
    BY <1>4 DEF RequestPop
  <2>2. \A t \in SignalSet :
          life'[t] = IF t = Sig("down", r) THEN "spawned" ELSE life[t]
    BY <2>1, EmittingOne
  <2> QED
    BY <1>4, <1>d, <2>2 DEF RequestPop, WayOK, InFlight
<1>5. CASE Take(r)
  <2>1. life' = Emitting({Sig("sched", r)})
    BY <1>5 DEF Take
  <2>2. \A t \in SignalSet :
          life'[t] = IF t = Sig("sched", r) THEN "spawned" ELSE life[t]
    BY <2>1, EmittingOne
  <2> QED
    BY <1>5, <1>d, <2>2 DEF Take, WayOK, InFlight
<1>6. CASE \E g \in Ranges : RangeYields(g, r) /\ life[Sig("left", r)] = "none"
  <2>1. life' = Emitting({Sig("left", r)})
    BY <1>6 DEF RangeYields
  <2>2. \A t \in SignalSet :
          life'[t] = IF t = Sig("left", r) THEN "spawned" ELSE life[t]
    BY <2>1, EmittingOne
  <2> QED
    BY <1>6, <1>d, <2>2 DEF RangeYields, WayOK, InFlight
<1> QED
  BY <1>1, <1>2, <1>3, <1>4, <1>5, <1>6

LEMMA WayStep ==
  ASSUME IInv, Next, NEW q \in Requests PROVE WayOK(q)'
<1>i. TypeOK /\ CloseOK /\ \A r \in Requests : WayOK(r)
  BY DEF IInv
<1>1. ASSUME NEW r \in Requests,
             \/ RequestLeftEngine(r) \/ PushesRequest(r) \/ RequestReachedDownloader(r)
             \/ RequestPop(r) \/ Take(r)
             \/ \E g \in Ranges : RangeYields(g, r)
      PROVE  WayOK(q)'
  <2>1. ASSUME NEW g \in Ranges, RangeYields(g, r)
        PROVE  life[Sig("left", r)] = "none"
    BY <2>1 DEF RangeYields, IInv, RangeOK
  <2>2. CASE q = r
    BY <1>1, <1>i, <2>1, <2>2, WayOfOwn
  <2>3. CASE q # r
    BY <1>1, <1>i, <2>1, <2>3, WayOfOwn, WayOfAnother
  <2> QED
    BY <2>2, <2>3
<1>2. ASSUME ~ \E r \in Requests :
                 \/ RequestLeftEngine(r) \/ PushesRequest(r)
                 \/ RequestReachedDownloader(r) \/ RequestPop(r) \/ Take(r)
                 \/ \E g \in Ranges : RangeYields(g, r)
      PROVE  WayOK(q)'
  BY <1>2, <1>i, WayOfOthers DEF Next, HandlerStep, RangeStep, Work
<1> QED
  BY <1>1, <1>2

-----------------------------------------------------------------------------
(* What the callbacks and the start have yielded.                          *)

\* A signal that has been emitted stays so, and a handler that has ended does not
\* begin again but for one that is not there yet.
LEMMA LifeGrows ==
  ASSUME IInv, Next, NEW s \in SignalSet
  PROVE  /\ life[s] # "none" => life'[s] # "none"
         /\ s.kind \in {"open", "resp"} /\ life[s] = "done" => life'[s] = "done"
         /\ s.kind \in {"open", "resp"} /\ life'[s] = "done" =>
              life[s] = "done" \/ \E g \in Ranges : g = s /\ StartsRange(g)
         /\ s.kind = "left" /\ life[s] = "none" /\ life'[s] # "none" =>
              \E g \in Ranges, w \in Requests :
                RangeYields(g, w) /\ s = Sig("left", w)
         /\ s.kind = "item" /\ life[s] = "none" /\ life'[s] # "none" =>
              \E i \in Items : ItemPop(i) /\ s = Sig("item", i)
<1> DEFINE Grows ==
             /\ life[s] # "none" => life'[s] # "none"
             /\ s.kind \in {"open", "resp"} /\ life[s] = "done" => life'[s] = "done"
             /\ s.kind \in {"open", "resp"} /\ life'[s] = "done" =>
                  life[s] = "done" \/ \E g \in Ranges : g = s /\ StartsRange(g)
             /\ s.kind = "left" /\ life[s] = "none" /\ life'[s] # "none" =>
                  \E g \in Ranges, w \in Requests :
                    RangeYields(g, w) /\ s = Sig("left", w)
             /\ s.kind = "item" /\ life[s] = "none" /\ life'[s] # "none" =>
                  \E i \in Items : ItemPop(i) /\ s = Sig("item", i)
<1> SUFFICES Grows
  OBVIOUS
<1>i. /\ TypeOK /\ CloseOK
      /\ \A r \in Requests : WayOK(r)
  BY DEF IInv
<1>u. life'[s] = life[s] => Grows
  OBVIOUS
<1>e. \A x, h :
        /\ Emitting({x})[s] = IF s = x THEN "spawned" ELSE life[s]
        /\ EndsEmitting(h, {})[s] = IF s = h THEN "done" ELSE life[s]
        /\ EndsEmitting(h, {x})[s] =
             IF s = h THEN "done" ELSE IF s = x THEN "spawned" ELSE life[s]
  BY <1>i, EmittingOne
<1>n. \A h : \A k \in {"idle", "closed"} :
        /\ s \in NextControl(k) => s.kind = k /\ life[s] = "none"
        /\ Emitting(NextControl(k))[s] = IF s \in NextControl(k) THEN "spawned" ELSE life[s]
        /\ EndsEmitting(h, NextControl(k))[s] =
             IF s = h THEN "done"
             ELSE IF s \in NextControl(k) THEN "spawned" ELSE life[s]
  BY <1>i, EmittingAt, NextControlOne
\* A signal emitted for a request or an item was not there.
<1>1. ASSUME NEW x \in SignalSet, x.kind \notin {"open", "resp", "left"},
             IF x.kind = "item" THEN \E i \in Items : ItemPop(i) /\ x = Sig("item", i)
             ELSE life[x] = "none",
             life' = Emitting({x})
      PROVE  Grows
  <2>1. life'[s] = IF s = x THEN "spawned" ELSE life[s]
    BY <1>1, <1>e
  <2> QED
    BY <1>1, <2>1
\* A handler that only ends.
<1>2. ASSUME NEW x \in SignalSet, x.kind \notin {"open", "resp"}, life[x] # "none",
             life' = EndsEmitting(x, {})
      PROVE  Grows
  <2>1. life'[s] = IF s = x THEN "done" ELSE life[s]
    BY <1>2, <1>e
  <2> QED
    BY <1>2, <2>1
<1>3. ASSUME NEW r \in Requests,
             RequestLeftEngine(r) \/ PushesRequest(r) \/ RequestPop(r) \/ Take(r)
      PROVE  Grows
  <2>1. /\ RequestPop(r) => life[Sig("down", r)] = "none"
        /\ Take(r) => life[Sig("sched", r)] = "none"
    BY <1>i DEF RequestPop, Take, WayOK
  <2> QED
    BY <1>1, <1>2, <1>3, <2>1, SignalKinds
    DEF RequestLeftEngine, PushesRequest, RequestPop, Take
<1>4. ASSUME NEW r \in Requests, RequestReachedDownloader(r) PROVE Grows
  <2>1. life[Sig("resp", r)] = "none" /\ life[Sig("down", r)] = "counted"
    BY <1>4, <1>i DEF RequestReachedDownloader, WayOK
  <2>2. life'[s] = IF s = Sig("down", r) THEN "done"
                   ELSE IF s = Sig("resp", r) THEN "spawned" ELSE life[s]
    BY <1>4, <1>e DEF RequestReachedDownloader
  <2> QED
    BY <2>1, <2>2, SignalKinds
<1>5. ASSUME NEW i \in Items, ItemLeftEngine(i) \/ ItemPop(i) PROVE Grows
  BY <1>1, <1>2, <1>5, SignalKinds DEF ItemLeftEngine, ItemPop
<1>6. ASSUME NEW g \in Ranges, StartsRange(g) PROVE Grows
  <2>1. life'[s] = IF s = g THEN "done" ELSE life[s]
    BY <1>6, <1>e DEF StartsRange
  <2>2. g.kind \in {"open", "resp"} /\ life[g] = "counted"
    BY <1>6, RangeKinds DEF StartsRange
  <2> QED
    BY <1>6, <2>1, <2>2
<1>7. ASSUME NEW g \in Ranges, NEW w \in Requests, RangeYields(g, w) PROVE Grows
  <2>1. life'[s] = IF s = Sig("left", w) THEN "spawned" ELSE life[s]
    BY <1>7, <1>e DEF RangeYields
  <2> QED
    BY <1>7, <2>1, SignalKinds
<1>8. ASSUME NEW t \in SignalSet, SignalStep(t) PROVE Grows
  BY <1>8, <1>i, SignalStepKeeps DEF TypeOK, LifeStates
<1>9. ASSUME NEW t \in SignalSet, SpiderIdle(t) PROVE Grows
  <2>1. life'[s] = IF s = t THEN "done"
                   ELSE IF s \in NextControl("closed") THEN "spawned" ELSE life[s]
    BY <1>9, <1>n DEF SpiderIdle
  <2> QED
    BY <1>9, <1>n, <2>1 DEF SpiderIdle
<1>10. ASSUME NEW t \in SignalSet, CloseReturns(t) PROVE Grows
  BY <1>2, <1>10, <1>i DEF CloseReturns, CloseOK
<1>11. CASE Interrupt \/ EmitIdle
  <2>1. \/ life' = life
        \/ \E k \in {"idle", "closed"} :
             life'[s] = IF s \in NextControl(k) THEN "spawned" ELSE life[s]
    BY <1>11, <1>n DEF Interrupt, EmitIdle
  <2> QED
    BY <1>n, <1>u, <2>1
<1>12. CASE \/ \E t \in SignalSet : SpiderClosed(t)
            \/ \E g \in Ranges : RangeAdds(g) \/ RangeEnds(g)
            \/ \E g \in Ranges, w \in Work \ Requests : RangeYields(g, w)
            \/ \E l \in LoopNames : LoopEnds(l)
            \/ TriggerDelivered \/ TriggerLost \/ Admit \/ HeartBeat \/ IsIdle
            \/ SchedulerEnds \/ StartReturns \/ SpiderCloses
  <2>1. life' = life
    BY <1>12
    DEF SpiderClosed, RangeAdds, RangeEnds, RangeYields, LoopEnds, TriggerDelivered,
        TriggerLost, Admit, HeartBeat, IsIdle, IdlePart, SchedulerEnds, StartReturns,
        SpiderCloses, signals
  <2> QED
    BY <1>u, <2>1
<1> QED
  BY <1>3, <1>4, <1>5, <1>6, <1>7, <1>8, <1>9, <1>10, <1>11, <1>12
  DEF Next, HandlerStep, RangeStep, Work

\* What has been handed on is not taken back.
LEMMA HandedOnGrows ==
  ASSUME IInv, Next, NEW w \in Work, HandedOn(w)
  PROVE  HandedOn(w)'
<1>t. TypeOK
  BY DEF IInv
<1>1. CASE w \in Requests
  <2>1. Sig("left", w) \in SignalSet /\ life[Sig("left", w)] # "none"
    BY <1>1, SignalKinds DEF HandedOn
  <2> QED
    BY <1>1, <2>1, LifeGrows DEF HandedOn
<1>2. CASE w \notin Requests
  <2>1. w \in Items /\ Sig("item", w) \in SignalSet
    BY <1>2, SignalKinds DEF Work
  <2>2. CASE life[Sig("item", w)] # "none"
    BY <1>2, <2>1, <2>2, LifeGrows DEF HandedOn
  <2>3. CASE w \in queued \cup active
    <3>1. ASSUME NEW r \in Requests,
                 \/ RequestLeftEngine(r) \/ PushesRequest(r)
                 \/ RequestReachedDownloader(r) \/ RequestPop(r) \/ Take(r)
          PROVE  w \in queued' \cup active'
      BY <1>2, <2>3, <3>1
      DEF RequestLeftEngine, PushesRequest, RequestReachedDownloader, RequestPop, Take
    <3>2. ASSUME NEW i \in Items, ItemPop(i) PROVE w \in queued' \cup active'
      BY <2>3, <3>2 DEF ItemPop
    <3>3. ASSUME NEW i \in Items, ItemLeftEngine(i)
          PROVE  w \in queued' \cup active' \/ life[Sig("item", w)] # "none"
      BY <2>3, <3>3 DEF ItemLeftEngine
    <3>4. ASSUME NEW g \in Ranges, StartsRange(g) \/ RangeStep(g)
          PROVE  w \in queued' \cup active'
      BY <2>3, <3>4 DEF StartsRange, RangeStep, RangeAdds, RangeYields, RangeEnds, stores
    <3>5. ASSUME \/ \E s \in SignalSet :
                      \/ SignalStep(s)
                      \/ SpiderIdle(s) \/ SpiderClosed(s) \/ CloseReturns(s)
                 \/ Interrupt \/ EmitIdle
                 \/ \E l \in LoopNames : LoopEnds(l)
                 \/ TriggerDelivered \/ TriggerLost \/ Admit \/ HeartBeat \/ IsIdle
                 \/ SchedulerEnds \/ StartReturns \/ SpiderCloses
          PROVE  w \in queued' \cup active'
      <4>1. UNCHANGED <<pending, queued, active>>
        <5>1. CASE \E s \in SignalSet : \/ SignalStep(s)
                                        \/ SpiderIdle(s) \/ SpiderClosed(s) \/ CloseReturns(s)
          BY <5>1
          DEF SignalStep, EmitAdds, Received, DispatchCounted, SpiderIdle, SpiderClosed,
              CloseReturns, stores
        <5>2. CASE \/ Interrupt \/ EmitIdle \/ \E l \in LoopNames : LoopEnds(l)
                   \/ TriggerDelivered \/ TriggerLost \/ Admit \/ HeartBeat \/ IsIdle
                   \/ SchedulerEnds \/ StartReturns \/ SpiderCloses
          BY <5>2
          DEF Interrupt, EmitIdle, LoopEnds, TriggerDelivered, TriggerLost, Admit, HeartBeat,
              IsIdle, IdlePart, SchedulerEnds, StartReturns, SpiderCloses, stores
        <5> QED
          BY <3>5, <5>1, <5>2
      <4> QED
        BY <2>3, <4>1
    <3>6. w \in queued' \cup active' \/ life[Sig("item", w)] # "none"
      BY <3>1, <3>2, <3>3, <3>4, <3>5 DEF Next, HandlerStep
    <3> QED
      BY <1>2, <2>1, <2>2, <3>6 DEF HandedOn
  <2> QED
    BY <1>2, <2>2, <2>3 DEF HandedOn
<1> QED
  BY <1>1, <1>2

\* A goroutine that ranges is moved by its own steps only.
LEMMA RangeMoves ==
  ASSUME TypeOK, Next, NEW h \in Ranges
  PROVE  \/ results'[h] = results[h] /\ ~StartsRange(h)
         \/ StartsRange(h) /\ results'[h] = [at |-> "spawned", left |-> Yields(h)]
         \/ /\ results[h].at = "spawned"
            /\ results'[h].at = "running" /\ results'[h].left = results[h].left
         \/ /\ results[h].at = "running"
            /\ results'[h] = [at |-> "done", left |-> {}]
            /\ results[h].left = {} \/ h.kind = "open"
         \/ \E w \in Work :
              /\ RangeYields(h, w) /\ w \in results[h].left
              /\ results'[h].at = "running"
              /\ results'[h].left = results[h].left \ {w}
<1>1. ASSUME NEW g \in Ranges, StartsRange(g)
      PROVE  IF g = h THEN results'[h] = [at |-> "spawned", left |-> Yields(h)]
             ELSE results'[h] = results[h]
  BY <1>1 DEF StartsRange, TypeOK
<1>2. ASSUME NEW g \in Ranges, RangeAdds(g)
      PROVE  IF g = h
               THEN /\ results[h].at = "spawned"
                    /\ results'[h].at = "running" /\ results'[h].left = results[h].left
               ELSE results'[h] = results[h]
  BY <1>2 DEF RangeAdds, TypeOK
<1>3. ASSUME NEW g \in Ranges, NEW w \in Work, RangeYields(g, w)
      PROVE  IF g = h
               THEN /\ w \in results[h].left
                    /\ results'[h].at = "running"
                    /\ results'[h].left = results[h].left \ {w}
               ELSE results'[h] = results[h]
  BY <1>3 DEF RangeYields, TypeOK
<1>4. ASSUME NEW g \in Ranges, RangeEnds(g)
      PROVE  IF g = h
               THEN /\ results[h].at = "running"
                    /\ results'[h] = [at |-> "done", left |-> {}]
                    /\ results[h].left = {} \/ h.kind = "open"
               ELSE results'[h] = results[h]
  BY <1>4 DEF RangeEnds, TypeOK
<1>5. CASE ~ \E g \in Ranges : StartsRange(g) \/ RangeStep(g)
  <2>1. results' = results
    BY <1>5
    DEF Next, HandlerStep, SignalStep, EmitAdds, Received, DispatchCounted,
        RequestLeftEngine, PushesRequest, RequestReachedDownloader, ItemLeftEngine,
        SpiderIdle, SpiderClosed, CloseReturns, ItemPop, RequestPop, Take, Interrupt,
        LoopEnds, TriggerDelivered, TriggerLost, Admit, HeartBeat, IsIdle, IdlePart,
        EmitIdle, SchedulerEnds, StartReturns, SpiderCloses, signals
  <2> QED
    BY <1>5, <2>1
<1>6. ~StartsRange(h) \/ results'[h] = [at |-> "spawned", left |-> Yields(h)]
  BY <1>1
<1> QED
  BY <1>1, <1>2, <1>3, <1>4, <1>5, <1>6 DEF RangeStep

LEMMA RangesStep ==
  ASSUME IInv, Next, NEW h \in Ranges PROVE RangeOK(h)'
<1>o. TypeOK /\ RangeOK(h)
  BY DEF IInv
<1>k. h \in SignalSet /\ h.kind \in {"open", "resp"} /\ Yields(h) \subseteq Work
  BY RangeKinds
<1>m. \/ results'[h] = results[h] /\ ~StartsRange(h)
      \/ StartsRange(h) /\ results'[h] = [at |-> "spawned", left |-> Yields(h)]
      \/ /\ results[h].at = "spawned"
         /\ results'[h].at = "running" /\ results'[h].left = results[h].left
      \/ /\ results[h].at = "running"
         /\ results'[h] = [at |-> "done", left |-> {}]
         /\ results[h].left = {} \/ h.kind = "open"
      \/ \E w \in Work :
           /\ RangeYields(h, w) /\ w \in results[h].left
           /\ results'[h].at = "running"
           /\ results'[h].left = results[h].left \ {w}
  BY <1>o, RangeMoves
<1>1. results'[h].at = "none" <=> life'[h] # "done"
  <2>1. StartsRange(h) => life[h] = "counted" /\ life'[h] = "done"
    BY <1>k, <1>o, EmittingOne DEF StartsRange
  <2>2. life[h] = "done" => life'[h] = "done"
    BY <1>k, LifeGrows
  <2>3. life'[h] = "done" => life[h] = "done" \/ StartsRange(h)
    BY <1>k, LifeGrows
  <2> QED
    BY <1>m, <1>o, <2>1, <2>2, <2>3 DEF RangeOK
<1>2. results'[h].at \in {"none", "done"} => results'[h].left = {}
  BY <1>m, <1>o DEF RangeOK
<1>3. results'[h].left \subseteq Yields(h)
  BY <1>m, <1>o DEF RangeOK
<1>4. ASSUME NEW r \in Requests \cap Yields(h),
             results'[h].at = "none" \/ r \in results'[h].left
      PROVE  life'[Sig("left", r)] = "none"
  <2>1. results[h].at = "none" \/ r \in results[h].left
    <3>1. StartsRange(h) => results[h].at = "none"
      BY <1>o DEF StartsRange, RangeOK
    <3> QED
      BY <1>m, <1>4, <3>1
  <2>2. life[Sig("left", r)] = "none"
    BY <1>o, <2>1 DEF RangeOK
  <2>3. ASSUME NEW g \in Ranges, RangeYields(g, r) PROVE FALSE
    <3>1. r \in Yields(g)
      BY <2>3 DEF RangeYields, IInv, RangeOK
    <3>2. g = h
      BY <3>1, YieldsDiffer
    <3>3. results'[h].at = "running" /\ results'[h].left = results[h].left \ {r}
      BY <1>o, <2>3, <3>2 DEF RangeYields, TypeOK
    <3> QED
      BY <1>4, <3>3
  <2>4. /\ Sig("left", r) \in SignalSet
        /\ \A w : Sig("left", r) = Sig("left", w) => w = r
    BY SignalKinds
  <2> QED
    BY <2>2, <2>3, <2>4, LifeGrows, SignalKinds
<1>5. ASSUME h.kind = "resp", results'[h].at # "none", NEW w \in Yields(h) \ results'[h].left
      PROVE  HandedOn(w)'
  <2>1. CASE RangeYields(h, w)
    <3>1. CASE w \in Requests
      <4>1. life' = Emitting({Sig("left", w)}) /\ Sig("left", w) \in SignalSet
        BY <2>1, <3>1, SignalKinds DEF RangeYields
      <4>2. life'[Sig("left", w)] = "spawned"
        BY <1>o, <4>1, EmittingOne
      <4> QED
        BY <3>1, <4>2 DEF HandedOn
    <3>2. CASE w \notin Requests
      BY <2>1, <3>2 DEF RangeYields, HandedOn
    <3> QED
      BY <3>1, <3>2
  <2>2. CASE ~RangeYields(h, w)
    <3>1. w \notin results[h].left /\ results[h].at # "none"
      <4>1. CASE results'[h] = results[h]
        BY <1>5, <4>1
      <4>2. CASE results'[h].left = Yields(h)
        BY <1>5, <4>2
      <4>3. CASE results'[h].left = results[h].left /\ results[h].at = "spawned"
        BY <1>5, <4>3
      <4>4. CASE results[h].at = "running" /\ results[h].left = {}
        BY <4>4
      <4>5. CASE \E v \in Work : /\ RangeYields(h, v)
                                 /\ results'[h].left = results[h].left \ {v}
        BY <1>5, <2>2, <4>5 DEF RangeYields
      <4> QED
        BY <1>5, <1>m, <4>1, <4>2, <4>3, <4>4, <4>5
    <3>2. HandedOn(w)
      BY <1>o, <1>5, <3>1 DEF RangeOK
    <3> QED
      BY <1>k, <1>5, <3>2, HandedOnGrows
  <2> QED
    BY <2>1, <2>2
<1> QED
  BY <1>1, <1>2, <1>3, <1>4, <1>5 DEF RangeOK

-----------------------------------------------------------------------------
(* The invariant, and the properties that follow from it.                  *)

LEMMA InitInv == Init => IInv
<1> SUFFICES ASSUME Init PROVE IInv
  OBVIOUS
<1>1. \A s \in SignalSet : s.kind # "open" => life[s] = "none"
  BY DEF Init
<1>2. \A s \in SignalSet : life[s] # "done"
  BY DEF Init
<1>3. StopOK /\ IdleOK
  BY DEF Init, StopOK, IdleOK, IdleStates
<1>4. CloseOK
  BY <1>1 DEF Init, CloseOK, ControlSignals, InFlight
<1>5. ASSUME NEW r \in Requests PROVE WayOK(r)
  <2>1. /\ life[Sig("left", r)] = "none" /\ life[Sig("sched", r)] = "none"
        /\ life[Sig("down", r)] = "none" /\ life[Sig("resp", r)] = "none"
    BY <1>1, SignalKinds
  <2> QED
    BY <2>1 DEF Init, WayOK, InFlight
<1>6. ASSUME NEW g \in Ranges PROVE RangeOK(g)
  <2>1. results[g] = [at |-> "none", left |-> {}]
    BY DEF Init
  <2>2. \A r \in Requests : life[Sig("left", r)] = "none"
    BY <1>1, SignalKinds
  <2> QED
    BY <1>2, <2>1, <2>2, RangeKinds DEF RangeOK
<1> QED
  BY <1>3, <1>4, <1>5, <1>6, TypeInit DEF IInv

LEMMA StepInv == IInv /\ [Next]_vars => IInv'
<1>1. ASSUME IInv, Next PROVE IInv'
  <2>1. TypeOK' /\ StopOK' /\ IdleOK' /\ CloseOK'
    BY <1>1, TypeStep, StopStep, IdleStep, CloseStep DEF IInv
  <2>2. \A r \in Requests : WayOK(r)'
    BY <1>1, WayStep
  <2>3. \A g \in Ranges : RangeOK(g)'
    BY <1>1, RangesStep
  <2> QED
    BY <2>1, <2>2, <2>3 DEF IInv
<1>2. ASSUME IInv, UNCHANGED vars PROVE IInv'
  <2>1. UNCHANGED <<signals, stores, triggers, scheduler, loops, control, lateTakes,
                    disturbed, hasty>>
    BY <1>2 DEF vars, engine
  <2>2. TypeOK' /\ StopOK' /\ CloseOK'
    BY <1>2, <2>1
    DEF IInv, TypeOK, StopOK, CloseOK, InFlight, signals, stores, control
  <2>3. IdleOK'
    BY <1>2, <2>1
    DEF IInv, IdleOK, Uncounted, RequestsIdle, ItemsIdle, SignalsAllDone, signals, stores,
        control
  <2>4. \A r \in Requests : WayOK(r)'
    BY <1>2, <2>1 DEF IInv, WayOK, InFlight, signals, stores
  <2>5. \A g \in Ranges : RangeOK(g)'
    BY <1>2, <2>1 DEF IInv, RangeOK, HandedOn, signals, stores
  <2> QED
    BY <2>2, <2>3, <2>4, <2>5 DEF IInv
<1> QED
  BY <1>1, <1>2

THEOREM Invariance == Spec => []IInv
  BY InitInv, StepInv, PTL DEF Spec

\* The stores hold requests and items, the counters stay within their bounds.
THEOREM TypeCorrect == Spec => []TypeOK
<1>1. IInv => TypeOK
  BY DEF IInv
<1> QED
  BY <1>1, Invariance, PTL

\* After the first interrupt processScheduler takes at most the one request that it had
\* admitted.
THEOREM StopsPromptly == Spec => []StopIsPrompt
<1>1. IInv => StopIsPrompt
  BY DEF IInv, StopOK, StopIsPrompt
<1> QED
  BY <1>1, Invariance, PTL

\* eg.Close panics on its second call only after two interrupts, or an answer of isIdle
\* given while something moved or after the close.
THEOREM SecondCloseIsHasty == Spec => []SecondCloseNeedsHaste
<1>1. IInv => SecondCloseNeedsHaste
  BY DEF IInv, CloseOK, SecondCloseNeedsHaste, TypeOK
<1> QED
  BY <1>1, Invariance, PTL

\* A request that has reached the scheduler is in one place.
LEMMA OnePlace ==
  ASSUME NEW r \in Requests, WayOK(r), life[Sig("left", r)] = "done"
  PROVE  Cardinality(Places(r)) = 1
<1>1. CASE r \in pending
  <2>1. Places(r) = {"pending"}
    BY <1>1 DEF Places, WayOK, InFlight
  <2> QED
    BY <2>1, FS_Singleton
<1>2. CASE InFlight(Sig("sched", r))
  <2>1. Places(r) = {"sched"}
    BY <1>2 DEF Places, WayOK, InFlight
  <2> QED
    BY <2>1, FS_Singleton
<1>3. CASE r \in queued
  <2>1. Places(r) = {"queued"}
    BY <1>3 DEF Places, WayOK, InFlight
  <2> QED
    BY <2>1, FS_Singleton
<1>4. CASE r \in active
  <2>1. Places(r) = {"active"}
    BY <1>4 DEF Places, WayOK, InFlight
  <2> QED
    BY <2>1, FS_Singleton
<1>5. CASE life[Sig("resp", r)] # "none"
  <2>1. Places(r) = {"resp"}
    BY <1>5 DEF Places, WayOK, InFlight
  <2> QED
    BY <2>1, FS_Singleton
<1> QED
  BY <1>1, <1>2, <1>3, <1>4, <1>5 DEF WayOK, InFlight

\* The engine loses and doubles no request between the scheduler and the callback, and
\* hands on all that a callback has yielded.
THEOREM NothingIsForgotten == Spec => []NothingForgotten
<1>1. ASSUME IInv PROVE NothingForgotten
  <2>1. ASSUME NEW r \in Requests, results[Sig("resp", r)].at = "done"
        PROVE  /\ \A w \in Finds[r] \cap Requests : life[Sig("left", w)] # "none"
               /\ \A i \in Finds[r] \cap Items :
                    i \in queued \cup active \/ life[Sig("item", i)] # "none"
    <3>1. Sig("resp", r) \in Ranges /\ RangeOK(Sig("resp", r))
      BY <1>1, SignalKinds DEF IInv
    <3>2. Sig("resp", r).kind = "resp" /\ Yields(Sig("resp", r)) = Finds[r]
      BY SignalKinds DEF Yields
    <3>3. \A w \in Finds[r] : HandedOn(w)
      BY <2>1, <3>1, <3>2 DEF RangeOK
    <3> QED
      BY <3>3, EngineAssumption DEF HandedOn
  <2> QED
    BY <1>1, <2>1, OnePlace DEF NothingForgotten, IInv
<1> QED
  BY <1>1, Invariance, PTL

\* When isIdle answers TRUE and nothing has moved since it began, nothing is left to do.
THEOREM IdleIsRightAlways == Spec => IdleIsRight
<1>1. IInv /\ [Next]_vars => [IdleEmitted /\ ~stopFlag /\ ~disturbed => Quiet]_vars
  BY UndisturbedIsQuiet DEF IInv, IdleEmitted, Quiet
<1> QED
  BY <1>1, Invariance, PTL DEF Spec, IdleIsRight

-----------------------------------------------------------------------------
(* The refinement of Crawl.                                                *)

\* What the places of a request say of its phase, before a step and after it.
LEMMA PhaseIs ==
  ASSUME NEW r \in Requests, WayOK(r)
  PROVE  /\ r \in pending => PhaseOf(r) = "waiting"
         /\ InFlight(Sig("sched", r)) \/ r \in queued \cup active => PhaseOf(r) = "taken"
         /\ InFlight(Sig("resp", r)) => PhaseOf(r) = "fetched"
         /\ life[Sig("resp", r)] = "done" => PhaseOf(r) = "parsed"
         /\ InFlight(Sig("left", r)) => PhaseOf(r) = "found"
         /\ life[Sig("left", r)] = "none" => PhaseOf(r) = "unknown"
  BY DEF WayOK, PhaseOf, InFlight

LEMMA PhaseBecomes ==
  ASSUME NEW r \in Requests, WayOK(r)'
  PROVE  /\ r \in pending' => PhaseOf(r)' = "waiting"
         /\ InFlight(Sig("sched", r))' \/ r \in queued' \cup active' =>
              PhaseOf(r)' = "taken"
         /\ InFlight(Sig("resp", r))' => PhaseOf(r)' = "fetched"
         /\ life'[Sig("resp", r)] = "done" => PhaseOf(r)' = "parsed"
         /\ InFlight(Sig("left", r))' => PhaseOf(r)' = "found"
  BY DEF WayOK, PhaseOf, InFlight

LEMMA PhaseStays ==
  ASSUME NEW q \in Requests,
         q \in pending' <=> q \in pending,
         q \in queued' <=> q \in queued,
         q \in active' <=> q \in active,
         \A t \in WaySignals(q) : SameStage(t)
  PROVE  PhaseOf(q)' = PhaseOf(q)
<1>1. /\ SameStage(Sig("left", q)) /\ SameStage(Sig("sched", q))
      /\ SameStage(Sig("resp", q))
  BY DEF WaySignals
<1> QED
  BY <1>1 DEF PhaseOf, SameStage, InFlight

\* The steps that take r from one place to the next.
OwnStep(r) ==
  \/ RequestLeftEngine(r) \/ PushesRequest(r) \/ RequestReachedDownloader(r)
  \/ RequestPop(r) \/ Take(r)
  \/ \E g \in Ranges : RangeYields(g, r)

LEMMA PhasesOfOthers ==
  ASSUME IInv, NEW r \in Requests, OwnStep(r), NEW q \in Requests \ {r}
  PROVE  PhaseOf(q)' = PhaseOf(q)
<1>1. ASSUME NEW g \in Ranges, RangeYields(g, r)
      PROVE  life[Sig("left", r)] = "none"
  BY <1>1 DEF RangeYields, IInv, RangeOK
<1>2. TypeOK /\ WayOK(r)
  BY DEF IInv
<1>3. /\ pending' \in {pending, pending \cup {r}, pending \ {r}}
      /\ queued' \in {queued, queued \cup {r}, queued \ {r}}
      /\ active' \in {active, active \cup {r}, active \ {r}}
      /\ \A t \in SignalSet : t.of = r \/ life'[t] = life[t]
  BY <1>1, <1>2, WayOfOwn DEF OwnStep
<1>4. \A t \in WaySignals(q) : SameStage(t)
  BY <1>3, WaySignalsAre DEF SameStage
<1> QED
  BY <1>3, <1>4, PhaseStays

\* The steps that move no request leave the phases as they are.
LEMMA PhasesStay ==
  ASSUME IInv, Next, NEW q \in Requests,
         \A r \in Requests : ~OwnStep(r),
         \A g \in Ranges : ~StartsRange(g)
  PROVE  PhaseOf(q)' = PhaseOf(q)
<1>1. TypeOK /\ CloseOK
  BY DEF IInv
<1>2. /\ q \in pending' <=> q \in pending
      /\ q \in queued' <=> q \in queued
      /\ q \in active' <=> q \in active
      /\ \A t \in WaySignals(q) : SameStage(t) \/ EndsResponse(t)
  BY <1>1, OthersKeep DEF Next, HandlerStep, RangeStep, OwnStep, Work
<1>3. \A t \in WaySignals(q) : ~EndsResponse(t)
  <2> SUFFICES ASSUME NEW t \in WaySignals(q), EndsResponse(t) PROVE FALSE
    OBVIOUS
  <2>1. t \in SignalSet /\ t.kind = "resp" /\ life[t] = "counted" /\ life'[t] = "done"
    BY WaySignalsAre DEF EndsResponse
  <2> QED
    BY <2>1, LifeGrows
<1> QED
  BY <1>2, <1>3, PhaseStays

\* An item is saved when its range yields it, and not otherwise.
LEMMA SavedStays ==
  ASSUME IInv, Next, NEW i \in Items, \A g \in Ranges : ~RangeYields(g, i)
  PROVE  HandedOn(i)' <=> HandedOn(i)
<1>t. i \notin Requests /\ i \in Work
  BY EngineAssumption DEF Work
<1>s. /\ Sig("item", i) \in SignalSet /\ Sig("item", i).kind = "item"
      /\ \A j : Sig("item", j) = Sig("item", i) => j = i
  BY SignalKinds
<1>1. HandedOn(i) => HandedOn(i)'
  BY <1>t, HandedOnGrows
<1>2. ASSUME HandedOn(i)', ~HandedOn(i) PROVE FALSE
  <2>1. i \notin queued /\ i \notin active /\ life[Sig("item", i)] = "none"
    BY <1>t, <1>2 DEF HandedOn
  <2>2. life'[Sig("item", i)] = "none"
    BY <1>s, <2>1, LifeGrows DEF ItemPop
  <2>3. i \in queued' \cup active'
    BY <1>t, <1>2, <2>2 DEF HandedOn
  <2>4. ASSUME NEW r \in Requests, OwnStep(r) PROVE FALSE
    BY <1>t, <2>1, <2>3, <2>4
    DEF OwnStep, RequestLeftEngine, PushesRequest, RequestReachedDownloader, RequestPop,
        Take, RangeYields
  <2>5. ASSUME NEW g \in Ranges, StartsRange(g) \/ RangeAdds(g) \/ RangeEnds(g) PROVE FALSE
    BY <2>1, <2>3, <2>5 DEF StartsRange, RangeAdds, RangeEnds, stores
  <2>6. ASSUME NEW g \in Ranges, NEW w \in Work, RangeYields(g, w) PROVE FALSE
    BY <2>1, <2>3, <2>6 DEF RangeYields
  <2>7. ASSUME NEW j \in Items, ItemLeftEngine(j) \/ ItemPop(j) PROVE FALSE
    BY <2>1, <2>3, <2>7 DEF ItemLeftEngine, ItemPop
  <2>8. ASSUME NEW s \in SignalSet,
               SignalStep(s) \/ SpiderIdle(s) \/ SpiderClosed(s) \/ CloseReturns(s)
        PROVE  FALSE
    BY <2>1, <2>3, <2>8
    DEF SignalStep, EmitAdds, Received, DispatchCounted, SpiderIdle, SpiderClosed,
        CloseReturns, stores
  <2>9. ASSUME \/ Interrupt \/ EmitIdle \/ \E l \in LoopNames : LoopEnds(l)
               \/ TriggerDelivered \/ TriggerLost \/ Admit \/ HeartBeat \/ IsIdle
               \/ SchedulerEnds \/ StartReturns \/ SpiderCloses
        PROVE  FALSE
    BY <2>1, <2>3, <2>9
    DEF Interrupt, EmitIdle, LoopEnds, TriggerDelivered, TriggerLost, Admit, HeartBeat,
        IsIdle, IdlePart, SchedulerEnds, StartReturns, SpiderCloses, stores
  <2> QED
    BY <2>4, <2>5, <2>6, <2>7, <2>8, <2>9 DEF Next, HandlerStep, RangeStep, OwnStep
<1> QED
  BY <1>1, <1>2

\* What Plan sees of a step: the phases, the items saved, and the interrupts.
PlanPhase == [r \in Requests |-> PhaseOf(r)]

PlanSaved == {i \in Items : i \in queued \cup active \/ life[Sig("item", i)] # "none"}

LEMMA SavedIs ==
  ASSUME \A i \in Items : HandedOn(i)' <=> HandedOn(i)
  PROVE  PlanSaved' = PlanSaved
  BY EngineAssumption DEF PlanSaved, HandedOn

\* A step that moves one request from one phase to another, or none at all.
LEMMA PhasesAre ==
  ASSUME NEW r \in Requests, \A q \in Requests \ {r} : PhaseOf(q)' = PhaseOf(q)
  PROVE  /\ PlanPhase[r] = PhaseOf(r)
         /\ PlanPhase' = [PlanPhase EXCEPT ![r] = PhaseOf(r)']
         /\ PhaseOf(r)' = PhaseOf(r) => PlanPhase' = PlanPhase
  BY DEF PlanPhase

LEMMA CrawlStep == IInv /\ [Next]_vars => [Plan!Next]_(Plan!vars)
<1> SUFFICES ASSUME IInv, Next PROVE Plan!Next \/ UNCHANGED Plan!vars
  <2>1. ASSUME UNCHANGED vars PROVE UNCHANGED Plan!vars
    BY <2>1
    DEF Plan!vars, PhaseOf, InFlight, vars, engine, signals, stores, control
  <2> QED
    BY <2>1
<1>i. /\ TypeOK /\ StopOK /\ CloseOK
      /\ \A r \in Requests : WayOK(r)
  BY DEF IInv
<1>w. \A r \in Requests : WayOK(r)'
  BY WayStep
<1>u. PlanPhase' = PlanPhase /\ PlanSaved' = PlanSaved
        /\ UNCHANGED <<stopFlag, lateTakes>> => UNCHANGED Plan!vars
  BY DEF Plan!vars, PlanPhase, PlanSaved
\* An item is handed over.
<1>1. ASSUME NEW g \in Ranges, NEW i \in Items, RangeYields(g, i) PROVE Plan!Next
  <2>1. i \notin Requests
    BY EngineAssumption
  <2>2. /\ life' = life /\ queued' = queued \cup {i}
        /\ UNCHANGED <<pending, active, stopFlag, lateTakes>>
    BY <1>1, <2>1 DEF RangeYields, control
  <2>3. i \in Yields(g) /\ life[g] = "done"
    BY <1>1 DEF RangeYields, IInv, RangeOK
  <2>4. g.of \in Requests /\ g = Sig("resp", g.of) /\ i \in Finds[g.of]
    BY <2>1, <2>3, RangeKinds, EngineAssumption
  <2>5. \A q \in Requests : PhaseOf(q)' = PhaseOf(q)
    BY <2>1, <2>2, PhaseStays DEF SameStage
  <2>6. PlanPhase' = PlanPhase /\ PlanPhase[g.of] = "parsed"
    <3>1. PhaseOf(g.of) = "parsed"
      BY <1>i, <2>3, <2>4, PhaseIs
    <3> QED
      BY <2>4, <2>5, <3>1, PhasesAre
  <2>7. PlanSaved' = PlanSaved \cup {i}
    BY <2>2 DEF PlanSaved
  <2>8. Plan!FindItem(g.of, i)
    BY <2>2, <2>4, <2>6, <2>7 DEF Plan!FindItem, PlanPhase, PlanSaved
  <2> QED
    BY <2>4, <2>8 DEF Plan!Next
\* A request is moved.
<1>2. ASSUME NEW r \in Requests, OwnStep(r), PlanSaved' = PlanSaved
      PROVE  Plan!Next \/ UNCHANGED Plan!vars
  <2> USE SignalKinds
  <2>p. /\ PlanPhase[r] = PhaseOf(r)
        /\ PlanPhase' = [PlanPhase EXCEPT ![r] = PhaseOf(r)']
        /\ PhaseOf(r)' = PhaseOf(r) => PlanPhase' = PlanPhase
    BY <1>2, PhasesOfOthers, PhasesAre
  <2>b. ASSUME NEW from, NEW to, PhaseOf(r) = from, PhaseOf(r)' = to
        PROVE  Plan!Becomes(r, from, to)
    BY <2>p, <2>b DEF Plan!Becomes, PlanPhase
  <2>1. CASE RequestLeftEngine(r)
    <3>1. PhaseOf(r) = "found" /\ PhaseOf(r)' = "waiting"
      BY <1>i, <1>w, <2>1, PhaseIs, PhaseBecomes DEF RequestLeftEngine, InFlight
    <3>2. UNCHANGED <<stopFlag, lateTakes>>
      BY <2>1 DEF RequestLeftEngine, control
    <3>3. Plan!Schedule(r)
      BY <1>2, <2>b, <3>1, <3>2 DEF Plan!Schedule, PlanSaved
    <3> QED
      BY <3>3 DEF Plan!Next
  <2>2. CASE PushesRequest(r) \/ RequestPop(r)
    <3>1. PhaseOf(r) = "taken" /\ PhaseOf(r)' = "taken"
      BY <1>i, <1>w, <2>2, PhaseIs, PhaseBecomes DEF PushesRequest, RequestPop, InFlight
    <3>2. UNCHANGED <<stopFlag, lateTakes>>
      BY <2>2 DEF PushesRequest, RequestPop, control
    <3> QED
      BY <1>2, <1>u, <2>p, <3>1, <3>2
  <2>3. CASE RequestReachedDownloader(r)
    <3>1. life'[Sig("resp", r)] = "spawned"
      BY <1>i, <2>3 DEF RequestReachedDownloader, EndsEmitting, Emitting, TypeOK
    <3>2. PhaseOf(r) = "taken" /\ PhaseOf(r)' = "fetched"
      BY <1>i, <1>w, <2>3, <3>1, PhaseIs, PhaseBecomes
      DEF RequestReachedDownloader, InFlight, WayOK
    <3>3. UNCHANGED <<stopFlag, lateTakes>>
      BY <2>3 DEF RequestReachedDownloader, control
    <3>4. Plan!Fetch(r)
      BY <1>2, <2>b, <3>2, <3>3 DEF Plan!Fetch, PlanSaved
    <3> QED
      BY <3>4 DEF Plan!Next
  <2>4. CASE Take(r)
    <3>1. life'[Sig("sched", r)] = "spawned"
      BY <1>i, <2>4, EmittingOne DEF Take
    <3>2. PhaseOf(r) = "waiting" /\ PhaseOf(r)' = "taken"
      BY <1>i, <1>w, <2>4, <3>1, PhaseIs, PhaseBecomes DEF Take, InFlight
    <3>3. /\ stopFlag => lateTakes = 0
          /\ stopFlag' = stopFlag
          /\ lateTakes' = IF stopFlag THEN lateTakes + 1 ELSE lateTakes
      BY <1>i, <2>4 DEF Take, control, StopOK
    <3>4. Plan!Take(r)
      BY <1>2, <2>b, <3>2, <3>3 DEF Plan!Take, PlanSaved
    <3> QED
      BY <3>4 DEF Plan!Next
  <2>5. ASSUME NEW g \in Ranges, RangeYields(g, r) PROVE Plan!Next
    <3>0. results[g].at = "running" /\ r \in results[g].left /\ RangeOK(g)
      BY <2>5 DEF RangeYields, IInv
    <3>1. life[Sig("left", r)] = "none" /\ life[g] = "done" /\ r \in Yields(g)
      BY <3>0 DEF RangeOK
    <3>2. life'[Sig("left", r)] = "spawned"
      <4>1. life' = Emitting({Sig("left", r)})
        BY <2>5 DEF RangeYields
      <4> QED
        BY <1>i, <4>1, EmittingOne
    <3>3. PhaseOf(r) = "unknown" /\ PhaseOf(r)' = "found"
      BY <1>i, <1>w, <3>1, <3>2, PhaseIs, PhaseBecomes DEF InFlight
    <3>4. UNCHANGED <<stopFlag, lateTakes>>
      BY <2>5 DEF RangeYields, control
    <3>5. CASE g.kind = "open" /\ Yields(g) = Starts
      <4>1. ~stopFlag
        BY <2>5, <3>5 DEF RangeYields
      <4>2. Plan!FindStart(r)
        BY <1>2, <2>b, <3>1, <3>3, <3>4, <3>5, <4>1 DEF Plan!FindStart, PlanSaved
      <4> QED
        BY <4>2 DEF Plan!Next
    <3>6. CASE /\ g.kind = "resp" /\ g.of \in Requests
               /\ g = Sig("resp", g.of) /\ Yields(g) = Finds[g.of]
      <4>1. PlanPhase[g.of] = "parsed"
        BY <1>i, <3>1, <3>6, PhaseIs DEF PlanPhase
      <4>2. Plan!FindRequest(g.of, r)
        BY <1>2, <2>b, <3>1, <3>3, <3>4, <3>6, <4>1 DEF Plan!FindRequest, PlanPhase, PlanSaved
      <4> QED
        BY <3>6, <4>2 DEF Plan!Next
    <3> QED
      BY <3>5, <3>6, RangeKinds
  <2> QED
    BY <1>2, <2>1, <2>2, <2>3, <2>4, <2>5 DEF OwnStep
\* The handlers up to the callback end, or those of the start.
<1>3. ASSUME NEW g \in Ranges, StartsRange(g), PlanSaved' = PlanSaved
      PROVE  Plan!Next \/ UNCHANGED Plan!vars
  <2>1. /\ UNCHANGED <<pending, queued, active, stopFlag, lateTakes>>
        /\ life[g] = "counted"
    BY <1>3 DEF StartsRange, stores, control
  <2>2. \A t \in SignalSet : life'[t] = IF t = g THEN "done" ELSE life[t]
    BY <1>3, <1>i, EmittingOne DEF StartsRange
  <2>3. ASSUME NEW q \in Requests, g # Sig("resp", q) PROVE PhaseOf(q)' = PhaseOf(q)
    <3>1. g \notin WaySignals(q)
      BY <2>3, RangeKinds, WaySignalsAre
    <3>2. \A t \in WaySignals(q) : SameStage(t)
      BY <2>2, <3>1, WaySignalsAre DEF SameStage
    <3> QED
      BY <2>1, <3>2, PhaseStays
  <2>4. CASE g = Sig("open", 0)
    <3>1. \A q \in Requests : PhaseOf(q)' = PhaseOf(q)
      BY <2>3, <2>4, SignalKinds
    <3> QED
      BY <1>3, <1>u, <2>1, <3>1 DEF PlanPhase
  <2>5. CASE g.of \in Requests /\ g = Sig("resp", g.of)
    <3>1. PhaseOf(g.of) = "fetched" /\ PhaseOf(g.of)' = "parsed"
      BY <1>i, <1>w, <2>1, <2>2, <2>5, PhaseIs, PhaseBecomes, SignalKinds DEF InFlight
    <3>2. \A q \in Requests \ {g.of} : PhaseOf(q)' = PhaseOf(q)
      BY <2>3, <2>5, SignalKinds
    <3>3. /\ PlanPhase[g.of] = "fetched"
          /\ PlanPhase' = [PlanPhase EXCEPT ![g.of] = "parsed"]
      BY <2>5, <3>1, <3>2, PhasesAre
    <3>4. Plan!Parse(g.of)
      BY <1>3, <2>1, <3>3 DEF Plan!Parse, Plan!Becomes, PlanPhase, PlanSaved
    <3> QED
      BY <2>5, <3>4 DEF Plan!Next
  <2> QED
    BY <2>4, <2>5, RangeKinds
\* Nothing moves; an interrupt may be the first.
<1>4. ASSUME \A r \in Requests : ~OwnStep(r), \A g \in Ranges : ~StartsRange(g),
             PlanSaved' = PlanSaved
      PROVE  Plan!Next \/ UNCHANGED Plan!vars
  <2>1. PlanPhase' = PlanPhase
    BY <1>4, PhasesStay DEF PlanPhase
  <2>2. CASE UNCHANGED <<stopFlag, lateTakes>>
    BY <1>4, <1>u, <2>1, <2>2
  <2>3. CASE stopFlag' = TRUE /\ lateTakes' = lateTakes
    <3>1. Plan!Stop
      BY <1>4, <2>1, <2>3 DEF Plan!Stop, PlanPhase, PlanSaved
    <3> QED
      BY <3>1 DEF Plan!Next
  <2>4. \A r \in Requests : ~Take(r)
    BY <1>4 DEF OwnStep
  <2>5. \/ UNCHANGED <<stopFlag, lateTakes>>
        \/ stopFlag' = TRUE /\ lateTakes' = lateTakes
    BY <1>i, <2>4, LoopMoves
  <2> QED
    BY <2>2, <2>3, <2>5
<1>5. ASSUME \A g \in Ranges, i \in Items : ~RangeYields(g, i)
      PROVE  PlanSaved' = PlanSaved
  <2>1. \A i \in Items : HandedOn(i)' <=> HandedOn(i)
    BY <1>5, SavedStays
  <2> QED
    BY <2>1, SavedIs
<1> QED
  BY <1>1, <1>2, <1>3, <1>4, <1>5

\* Engine implements Crawl: whatever its goroutines do, each request is moved once through
\* its stages, nothing is found but by the start or a parsed page, and after the first
\* interrupt no start is added and one request at most is taken.
THEOREM Refinement == Spec => ImplementsCrawl
<1>1. Init => Plan!Init
  <2> SUFFICES ASSUME Init PROVE Plan!Init
    OBVIOUS
  <2>1. IInv
    BY InitInv
  <2>2. \A r \in Requests : PhaseOf(r) = "unknown"
    BY <2>1, PhaseIs, SignalKinds DEF IInv, Init
  <2>3. PlanSaved = {}
    BY SignalKinds DEF Init, PlanSaved
  <2> QED
    BY <2>2, <2>3 DEF Init, Plan!Init, PlanSaved
<1> QED
  BY <1>1, CrawlStep, Invariance, PTL DEF Spec, ImplementsCrawl, Plan!Spec
=============================================================================
