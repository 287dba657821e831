------------------------ MODULE SignalManagerProofs ------------------------
(***************************************************************************)
(* Proofs about SignalManager, for any signals, receivers and indexes.     *)
(***************************************************************************)
EXTENDS SignalManager, FiniteSetTheorems, TLAPS

TypesButWg ==
  /\ running \in BOOLEAN
  /\ quit \in {"open", "closed", "nil"}
  /\ channel \in {"open", "nil"}
  /\ loop \in {"starting", "select", "stopped"}
  /\ sender \in [Signals -> SenderStates]
  /\ dispatch \in [Signals -> DispatchStates]
  /\ handler \in [Signals -> [Receivers -> HandlerStates]]
  /\ called \subseteq Signals \X Receivers
  /\ dropped \subseteq Signals
  /\ added \in Nat /\ finished \in Nat
  /\ closing \in ClosingStates
  /\ escaped \subseteq Signals
  /\ fatal \in {"no", "send", "receiver"}

\* What Close does to the fields, and what has come before it.
CloseOK ==
  /\ running <=> closing \in {"no", "leaving"}
  /\ quit = "open" <=> closing \in {"no", "leaving"}
  /\ channel = "open" <=> closing # "closed"
  /\ closing # "no" => EngineMayReturn

\* The goroutines of a signal come one from the other.
OriginOK(s) ==
  /\ dispatch[s] # "none" => loop # "starting" /\ sender[s] = "sent"
  /\ \A r \in Receivers :
       /\ handler[s][r] # "none" =>
            r \in Accepts[s] /\ dispatch[s] \in {"counted", "returned", "done"}
       /\ handler[s][r] \in {"started", "calling"} => dispatch[s] = "counted"
       /\ <<s, r>> \in called => handler[s][r] # "none"

\* Groups: those under way have one index, those before them are over, and those to
\* come have a larger one. Only the group under way can have dropped the signal.
GroupOK(s) ==
  /\ \A r, q \in Accepts[s] :
       /\ r \in InGroup(s) /\ Index[q] < Index[r] => handler[s][q] \in {"returned", "done"}
       /\ r \in InGroup(s) /\ q \in InGroup(s) => Index[r] = Index[q]
       /\ r \notin Unstarted(s) /\ q \in Unstarted(s) => Index[r] < Index[q]
  /\ \A r \in InGroup(s) :
       s \in dropped =>
         \E q \in Accepts[s] : Index[q] = Index[r] /\ handler[s][q] \in {"returned", "done"}

Handlers == HandlersIn({"started", "calling"})

CountOK ==
  /\ IsFiniteSet(DispatchesWaited) /\ IsFiniteSet(Handlers)
  /\ WgIsExact

EscapeOK ==
  /\ \A s \in Signals :
       /\ sender[s] = "stuck" => closing = "closed" /\ s \in escaped
       /\ closing \notin {"no", "leaving"} /\ sender[s] \in {"checked", "sending"} =>
            s \in escaped
       /\ closing \in {"waited", "closed"}
            /\ dispatch[s] \in {"received", "waited", "counted"} => s \in escaped
  /\ closing \in {"waited", "closed"} => loop = "stopped"
  /\ fatal = "send" => escaped # {}

IInv ==
  /\ TypesButWg /\ CloseOK /\ CountOK /\ EscapeOK
  /\ \A s \in Signals : OriginOK(s) /\ GroupOK(s)

-----------------------------------------------------------------------------
LEMMA InitInv == Init => IInv
<1> SUFFICES ASSUME Init PROVE IInv
  OBVIOUS
<1> USE SignalAssumption DEF Init
<1>1. TypesButWg
  BY DEF TypesButWg, SenderStates, DispatchStates, HandlerStates, ClosingStates
<1>2. CloseOK /\ EscapeOK
  BY DEF CloseOK, EscapeOK
<1>3. \A s \in Signals : OriginOK(s) /\ GroupOK(s)
  BY DEF OriginOK, GroupOK, InGroup, Unstarted
<1>4. DispatchesWaited = {} /\ Handlers = {}
  BY DEF DispatchesWaited, Handlers, HandlersIn
<1>5. CountOK
  <2>1. IsFiniteSet(DispatchesWaited) /\ Cardinality(DispatchesWaited) = 0
    BY <1>4, FS_EmptySet
  <2>2. IsFiniteSet(Handlers) /\ Cardinality(Handlers) = 0
    BY <1>4, FS_EmptySet
  <2> QED
    BY <2>1, <2>2 DEF CountOK, WgIsExact, Handlers
<1> QED
  BY <1>1, <1>2, <1>3, <1>5 DEF IInv

-----------------------------------------------------------------------------
(* What the steps do to the handlers.                                      *)

\* The handler of r for s goes on to v, and the others stay.
Moves(s, r, v) ==
  \A t \in Signals, q \in Receivers :
    handler'[t][q] = IF t = s /\ q = r THEN v ELSE handler[t][q]

LEMMA MovesOne ==
  ASSUME TypesButWg, NEW s \in Signals, NEW r \in Receivers, NEW v,
         handler' = [handler EXCEPT ![s][r] = v]
  PROVE  Moves(s, r, v)
BY DEF TypesButWg, Moves

LEMMA MovesGroup ==
  ASSUME TypesButWg, NEW s \in Signals, StartGroup(s)
  PROVE  /\ NextGroup(s) \subseteq Accepts[s]
         /\ \A t \in Signals, q \in Receivers :
              handler'[t][q] = IF t = s /\ q \in NextGroup(s) THEN "started"
                                                             ELSE handler[t][q]
         /\ \A q \in NextGroup(s) : handler[s][q] = "none"
<1>1. NextGroup(s) \subseteq Unstarted(s) /\ Unstarted(s) \subseteq Accepts[s]
  BY DEF NextGroup, Unstarted
<1>2. \A t \in Signals, q \in Receivers :
        handler'[t][q] = IF t = s /\ q \in NextGroup(s) THEN "started" ELSE handler[t][q]
  BY DEF StartGroup, TypesButWg
<1> QED
  BY <1>1, <1>2 DEF Unstarted

\* The steps of a signal, in the order of the code.
EmitStep(s) == Spawn(s) \/ EmitCheck(s) \/ EmitSend(s) \/ Receive(s)
DispatchStep(s) ==
  DispatchWaited(s) \/ DispatchCounted(s) \/ DispatchReturns(s) \/ DispatchDone(s)
LoopStep == LoopBegins \/ LoopQuits
CloseStep == SeesAllDone \/ CloseBegins \/ CloseWaits \/ CloseEnds

\* A step of a handler, by the state that it leaves it in.
HandlerStep(s, r, v) ==
  \/ v = "calling" /\ Call(s, r)
  \/ v = "returned" /\ (Skip(s, r) \/ Returns(s, r))
  \/ v = "done" /\ HandlerDone(s, r)

LEMMA StepCases ==
  ASSUME Next
  PROVE  \/ \E s \in Signals :
              \/ EmitStep(s) \/ DispatchStep(s) \/ StartGroup(s)
              \/ \E r \in Receivers :
                   Panics(s, r) \/ \E v \in HandlerStates : HandlerStep(s, r, v)
         \/ LoopStep \/ CloseStep
BY DEF Next, EmitStep, DispatchStep, LoopStep, CloseStep, HandlerStep, HandlerStates

LEMMA HandlerMoves ==
  ASSUME TypesButWg, NEW s \in Signals, NEW r \in Receivers, NEW v \in HandlerStates,
         HandlerStep(s, r, v)
  PROVE  /\ Moves(s, r, v) /\ handler[s][r] \notin {"none", "done"}
         /\ v \in {"calling", "returned", "done"}
         /\ v = "calling" => handler[s][r] = "started"
         /\ v = "done" => handler[s][r] = "returned"
         /\ v = "returned" => handler[s][r] \in {"started", "calling"}
BY MovesOne DEF HandlerStep, Call, Skip, Returns, HandlerDone

LEMMA TypesStep == TypesButWg /\ Next => TypesButWg'
<1> SUFFICES ASSUME TypesButWg, Next PROVE TypesButWg'
  OBVIOUS
<1> USE DEF TypesButWg, chans, counters, SenderStates, DispatchStates, HandlerStates,
            ClosingStates
<1>1. ASSUME NEW s \in Signals, EmitStep(s) PROVE TypesButWg'
  BY <1>1 DEF EmitStep, Spawn, EmitCheck, EmitSend, Receive
<1>2. ASSUME NEW s \in Signals, DispatchStep(s) PROVE TypesButWg'
  BY <1>2 DEF DispatchStep, DispatchWaited, DispatchCounted, DispatchReturns, DispatchDone
<1>3. ASSUME NEW s \in Signals, StartGroup(s) PROVE TypesButWg'
  <2>1. NextGroup(s) \subseteq Receivers
    BY SignalAssumption DEF NextGroup, Unstarted
  <2>2. Cardinality(NextGroup(s)) \in Nat
    BY <2>1, SignalAssumption, FS_Subset, FS_CardinalityType
  <2>3. added' \in Nat
    BY <1>3, <2>2 DEF StartGroup
  <2>4. handler' \in [Signals -> [Receivers -> HandlerStates]]
    BY <1>3 DEF StartGroup
  <2> QED
    BY <1>3, <2>3, <2>4 DEF StartGroup
<1>4. ASSUME NEW s \in Signals, NEW r \in Receivers, Panics(s, r) PROVE TypesButWg'
  BY <1>4 DEF Panics
<1>5. ASSUME NEW s \in Signals, NEW r \in Receivers, NEW v \in HandlerStates,
             HandlerStep(s, r, v)
      PROVE  TypesButWg'
  <2>1. handler' = [handler EXCEPT ![s][r] = v]
    BY <1>5 DEF HandlerStep, Call, Skip, Returns, HandlerDone
  <2>2. handler' \in [Signals -> [Receivers -> HandlerStates]]
    BY <2>1
  <2>3. finished' \in Nat /\ called' \subseteq Signals \X Receivers /\ dropped' \subseteq Signals
    BY <1>5 DEF HandlerStep, Call, Skip, Returns, HandlerDone
  <2>4. UNCHANGED <<chans, loop, sender, dispatch, added, closing, escaped, fatal>>
    BY <1>5 DEF HandlerStep, Call, Skip, Returns, HandlerDone
  <2> QED
    BY <2>2, <2>3, <2>4
<1>6. CASE LoopStep
  BY <1>6 DEF LoopStep, LoopBegins, LoopQuits
<1>7. CASE CloseStep
  BY <1>7 DEF CloseStep, SeesAllDone, CloseBegins, CloseWaits, CloseEnds
<1> QED
  BY <1>1, <1>2, <1>3, <1>4, <1>5, <1>6, <1>7, StepCases

LEMMA CloseOKStep == TypesButWg /\ CloseOK /\ Next => CloseOK'
<1> SUFFICES ASSUME TypesButWg, CloseOK, Next PROVE CloseOK'
  OBVIOUS
<1>1. called \subseteq called' /\ (UNCHANGED <<running, quit, channel, closing>> \/ CloseStep)
  <2>1. ASSUME NEW s \in Signals,
               EmitStep(s) \/ DispatchStep(s) \/ StartGroup(s)
                 \/ \E r \in Receivers : Panics(s, r)
        PROVE  UNCHANGED <<running, quit, channel, closing, called>>
    BY <2>1 DEF chans, EmitStep, Spawn, EmitCheck, EmitSend, Receive, DispatchStep,
                DispatchWaited, DispatchCounted, DispatchReturns, DispatchDone, StartGroup,
                Panics
  <2>2. ASSUME NEW s \in Signals, NEW r \in Receivers, NEW v, HandlerStep(s, r, v)
        PROVE  called \subseteq called' /\ UNCHANGED <<running, quit, channel, closing>>
    BY <2>2 DEF chans, HandlerStep, Call, Skip, Returns, HandlerDone
  <2>3. LoopStep => UNCHANGED <<running, quit, channel, closing, called>>
    BY DEF chans, LoopStep, LoopBegins, LoopQuits
  <2>4. CloseStep => called' = called
    BY DEF CloseStep, SeesAllDone, CloseBegins, CloseWaits, CloseEnds
  <2> QED
    BY <2>1, <2>2, <2>3, <2>4, StepCases
<1>2. EngineMayReturn => EngineMayReturn'
  BY <1>1 DEF EngineMayReturn
<1>3. CASE UNCHANGED <<running, quit, channel, closing>>
  BY <1>2, <1>3 DEF CloseOK
<1>4. CASE CloseStep
  BY <1>2, <1>4 DEF CloseOK, TypesButWg, ClosingStates, chans, CloseStep, SeesAllDone,
                    CloseBegins, CloseWaits, CloseEnds
<1> QED
  BY <1>1, <1>3, <1>4

-----------------------------------------------------------------------------
LEMMA OriginStep ==
  ASSUME TypesButWg, \A s \in Signals : OriginOK(s), Next
  PROVE  \A s \in Signals : OriginOK(s)'
<1> SUFFICES ASSUME NEW t \in Signals PROVE OriginOK(t)'
  OBVIOUS
<1> USE DEF OriginOK, TypesButWg
<1>1. ASSUME NEW s \in Signals, EmitStep(s) PROVE OriginOK(t)'
  BY <1>1 DEF chans, EmitStep, Spawn, EmitCheck, EmitSend, Receive
<1>2. ASSUME NEW s \in Signals, DispatchStep(s) PROVE OriginOK(t)'
  <2>1. UNCHANGED <<loop, sender, handler, called>>
    BY <1>2 DEF DispatchStep, DispatchWaited, DispatchCounted, DispatchReturns, DispatchDone
  <2>2. CASE DispatchReturns(s)
    <3>1. \A r \in Receivers : handler[s][r] \notin {"started", "calling"}
      BY <2>2 DEF DispatchReturns, GroupIsOver, InGroup
    <3> QED
      BY <2>1, <2>2, <3>1 DEF DispatchReturns
  <2>3. CASE DispatchWaited(s) \/ DispatchCounted(s) \/ DispatchDone(s)
    BY <2>1, <2>3 DEF DispatchWaited, DispatchCounted, DispatchDone
  <2> QED
    BY <1>2, <2>2, <2>3 DEF DispatchStep
<1>3. ASSUME NEW s \in Signals, StartGroup(s) PROVE OriginOK(t)'
  <2>1. dispatch[s] = "counted" /\ UNCHANGED <<loop, sender, dispatch, called>>
    BY <1>3 DEF StartGroup
  <2> QED
    BY <1>3, <2>1, MovesGroup
<1>4. ASSUME NEW s \in Signals, NEW r \in Receivers, Panics(s, r) PROVE OriginOK(t)'
  BY <1>4 DEF Panics
<1>5. ASSUME NEW s \in Signals, NEW r \in Receivers, NEW v \in HandlerStates,
             HandlerStep(s, r, v)
      PROVE  OriginOK(t)'
  <2>1. called' \subseteq called \cup {<<s, r>>} /\ UNCHANGED <<loop, sender, dispatch>>
    BY <1>5 DEF HandlerStep, Call, Skip, Returns, HandlerDone
  <2> QED
    BY <1>5, <2>1, HandlerMoves DEF Moves
<1>6. CASE LoopStep
  BY <1>6 DEF LoopStep, LoopBegins, LoopQuits
<1>7. CASE CloseStep
  BY <1>7 DEF CloseStep, SeesAllDone, CloseBegins, CloseWaits, CloseEnds
<1> QED
  BY <1>1, <1>2, <1>3, <1>4, <1>5, <1>6, <1>7, StepCases

\* What is neither a group's start nor a handler's step leaves the groups alone.
LEMMA GroupsStay ==
  ASSUME Next
  PROVE  \/ UNCHANGED <<handler, dropped>>
         \/ \E s \in Signals : StartGroup(s)
         \/ \E s \in Signals, r \in Receivers, v \in HandlerStates : HandlerStep(s, r, v)
<1>1. ASSUME NEW s \in Signals, EmitStep(s) \/ DispatchStep(s)
                                  \/ \E r \in Receivers : Panics(s, r)
      PROVE  UNCHANGED <<handler, dropped>>
  BY <1>1 DEF EmitStep, Spawn, EmitCheck, EmitSend, Receive, DispatchStep,
              DispatchWaited, DispatchCounted, DispatchReturns, DispatchDone, Panics
<1>2. LoopStep \/ CloseStep => UNCHANGED <<handler, dropped>>
  BY DEF LoopStep, LoopBegins, LoopQuits, CloseStep, SeesAllDone, CloseBegins, CloseWaits,
         CloseEnds
<1> QED
  BY <1>1, <1>2, StepCases

LEMMA GroupStep ==
  ASSUME TypesButWg, \A s \in Signals : OriginOK(s) /\ GroupOK(s), Next
  PROVE  \A s \in Signals : GroupOK(s)'
<1> SUFFICES ASSUME NEW t \in Signals PROVE GroupOK(t)'
  OBVIOUS
<1> USE SignalAssumption
<1>0. Accepts[t] \subseteq Receivers
  OBVIOUS
<1>1. CASE UNCHANGED <<handler, dropped>>
  BY <1>1 DEF GroupOK, InGroup, Unstarted
<1>2. ASSUME NEW s \in Signals, StartGroup(s) PROVE GroupOK(t)'
  <2>1. InGroup(s) = {} /\ s \notin dropped /\ dropped' = dropped
    BY <1>2 DEF StartGroup, GroupIsOver
  <2>2. /\ InGroup(s)' = NextGroup(s)
        /\ Unstarted(s)' = Unstarted(s) \ NextGroup(s)
    BY <1>0, <1>2, <2>1, MovesGroup DEF InGroup, Unstarted
  <2>3. \A q \in Accepts[s] : q \notin Unstarted(s) => handler'[s][q] \in {"returned", "done"}
    <3> SUFFICES ASSUME NEW q \in Accepts[s], q \notin Unstarted(s)
                 PROVE  handler'[s][q] \in {"returned", "done"}
      OBVIOUS
    <3>1. handler[s][q] \in HandlerStates /\ handler[s][q] \notin {"none", "started", "calling"}
      BY <2>1 DEF TypesButWg, Unstarted, InGroup
    <3>2. handler'[s][q] = handler[s][q]
      BY <1>2, <3>1, MovesGroup
    <3> QED
      BY <3>1, <3>2 DEF HandlerStates
  <2>4. CASE t = s
    <3>1. \A r \in NextGroup(s), q \in Unstarted(s) : Index[r] <= Index[q]
      BY DEF NextGroup
    <3>2. \A q \in Unstarted(s) \ NextGroup(s) : \A r \in NextGroup(s) : Index[r] < Index[q]
      BY <3>1 DEF NextGroup, Unstarted
    <3>3. \A r, q \in NextGroup(s) : Index[r] = Index[q]
      BY <3>1 DEF NextGroup, Unstarted
    <3>4. \A r \in NextGroup(s), q \in Accepts[s] :
            Index[q] < Index[r] => handler'[s][q] \in {"returned", "done"}
      BY <2>3, <3>1 DEF NextGroup, Unstarted
    <3>5. \A r, q \in Accepts[s] :
            r \notin Unstarted(s)' /\ q \in Unstarted(s)' => Index[r] < Index[q]
      BY <2>2, <3>2 DEF GroupOK
    <3> QED
      BY <2>1, <2>2, <2>4, <3>3, <3>4, <3>5 DEF GroupOK
  <2>5. CASE t # s
    <3>1. \A q \in Receivers : handler'[t][q] = handler[t][q]
      BY <1>2, <2>5, MovesGroup
    <3>2. InGroup(t)' = InGroup(t) /\ Unstarted(t)' = Unstarted(t)
      BY <1>0, <3>1 DEF InGroup, Unstarted
    <3> QED
      BY <1>0, <2>1, <3>1, <3>2 DEF GroupOK
  <2> QED
    BY <2>4, <2>5
<1>3. ASSUME NEW s \in Signals, NEW r \in Receivers, NEW v \in HandlerStates,
             HandlerStep(s, r, v)
      PROVE  GroupOK(t)'
  <2>1. /\ dropped' \subseteq dropped \cup {s} /\ dropped \subseteq dropped'
        /\ handler[s][r] # "calling" \/ v # "returned" => dropped' = dropped
    BY <1>3 DEF HandlerStep, Call, Skip, Returns, HandlerDone
  <2>2. CASE t = s
    <3>1. r \in Accepts[s] /\ r \notin Unstarted(s)
      BY <1>3, HandlerMoves DEF OriginOK, Unstarted
    <3>2. Unstarted(s)' = Unstarted(s) /\ InGroup(s)' \subseteq InGroup(s)
      BY <1>0, <1>3, <2>2, HandlerMoves DEF Moves, Unstarted, InGroup
    <3>3. \A q \in Accepts[s] :
            handler[s][q] \in {"returned", "done"} => handler'[s][q] \in {"returned", "done"}
      BY <1>0, <1>3, <2>2, HandlerMoves DEF Moves
    <3>4. ASSUME NEW q \in InGroup(s)', s \in dropped'
          PROVE  \E p \in Accepts[s] : /\ Index[p] = Index[q]
                                       /\ handler'[s][p] \in {"returned", "done"}
      <4>1. q \in InGroup(s) /\ q \in Accepts[s]
        BY <3>2 DEF InGroup
      <4>2. CASE s \in dropped
        BY <2>2, <3>3, <4>1, <4>2 DEF GroupOK
      <4>3. CASE s \notin dropped
        <5>1. handler[s][r] = "calling" /\ v = "returned"
          BY <2>1, <3>4, <4>3
        <5>2. r \in InGroup(s) /\ handler'[s][r] = "returned"
          BY <1>3, <3>1, <5>1, HandlerMoves DEF InGroup, Moves
        <5>3. Index[r] = Index[q]
          BY <2>2, <3>1, <4>1, <5>2 DEF GroupOK
        <5> QED
          BY <3>1, <5>2, <5>3
      <4> QED
        BY <4>2, <4>3
    <3> QED
      BY <2>2, <3>2, <3>3, <3>4 DEF GroupOK
  <2>3. CASE t # s
    <3>1. \A q \in Receivers : handler'[t][q] = handler[t][q]
      BY <1>3, <2>3, HandlerMoves DEF Moves
    <3>2. InGroup(t)' = InGroup(t) /\ Unstarted(t)' = Unstarted(t)
      BY <1>0, <3>1 DEF InGroup, Unstarted
    <3>3. t \in dropped' <=> t \in dropped
      BY <2>1, <2>3
    <3> QED
      BY <1>0, <3>1, <3>2, <3>3 DEF GroupOK
  <2> QED
    BY <2>2, <2>3
<1> QED
  BY <1>1, <1>2, <1>3, GroupsStay

-----------------------------------------------------------------------------
(* The counter.                                                            *)

LoopCount == IF loop = "select" THEN 1 ELSE 0

\* The counter is a natural number.
LEMMA WgIsNat ==
  ASSUME CountOK PROVE wg \in Nat
BY FS_CardinalityType DEF CountOK, WgIsExact, Handlers

LEMMA CountStep ==
  ASSUME TypesButWg, CountOK, \A s \in Signals : OriginOK(s), Next
  PROVE  CountOK'
<1> USE DEF CountOK
<1>1. /\ wg = LoopCount + Cardinality(DispatchesWaited) + Cardinality(Handlers)
      /\ Cardinality(DispatchesWaited) \in Nat /\ Cardinality(Handlers) \in Nat /\ LoopCount \in {0, 1}
  BY FS_CardinalityType DEF WgIsExact, Handlers, LoopCount
<1>2. SUFFICES /\ IsFiniteSet(DispatchesWaited') /\ IsFiniteSet(Handlers')
               /\ wg' = LoopCount' + Cardinality(DispatchesWaited') + Cardinality(Handlers')
  BY DEF WgIsExact, Handlers, LoopCount
<1> DEFINE Goal == /\ IsFiniteSet(DispatchesWaited') /\ IsFiniteSet(Handlers')
                   /\ wg' = LoopCount' + Cardinality(DispatchesWaited') + Cardinality(Handlers')
<1>3. ASSUME UNCHANGED <<loop, wg>>, DispatchesWaited' = DispatchesWaited, Handlers' = Handlers
      PROVE  Goal
  BY <1>1, <1>3 DEF LoopCount
<1>4. ASSUME UNCHANGED handler PROVE Handlers' = Handlers
  BY <1>4 DEF Handlers, HandlersIn
<1>5. ASSUME UNCHANGED dispatch PROVE DispatchesWaited' = DispatchesWaited
  BY <1>5 DEF DispatchesWaited
<1>6. ASSUME NEW s \in Signals, EmitStep(s) PROVE Goal
  <2>1. UNCHANGED <<loop, wg, handler>>
    BY <1>6 DEF counters, EmitStep, Spawn, EmitCheck, EmitSend, Receive
  <2>2. DispatchesWaited' = DispatchesWaited
    <3>1. CASE Receive(s)
      <4>1. dispatch[s] = "none"
        BY <3>1 DEF Receive, OriginOK
      <4> QED
        BY <3>1, <4>1 DEF Receive, DispatchesWaited, TypesButWg
    <3>2. CASE UNCHANGED dispatch
      BY <1>5, <3>2
    <3> QED
      BY <1>6, <3>1, <3>2 DEF EmitStep, Spawn, EmitCheck, EmitSend
  <2> QED
    BY <1>3, <1>4, <2>1, <2>2
<1>7. ASSUME NEW s \in Signals, DispatchStep(s) PROVE Goal
  <2>1. UNCHANGED <<loop, handler>>
    BY <1>7 DEF DispatchStep, DispatchWaited, DispatchCounted, DispatchReturns, DispatchDone
  <2>2. Handlers' = Handlers /\ LoopCount' = LoopCount
    BY <1>4, <2>1 DEF LoopCount
  <2>3. CASE DispatchWaited(s)
    <3>1. s \notin DispatchesWaited /\ DispatchesWaited' = DispatchesWaited \cup {s} /\ wg' = wg + 1
      BY <2>3 DEF DispatchWaited, DispatchesWaited, TypesButWg
    <3>2. IsFiniteSet(DispatchesWaited \cup {s}) /\ Cardinality(DispatchesWaited \cup {s}) = Cardinality(DispatchesWaited) + 1
      BY <3>1, FS_AddElement
    <3> QED
      BY <1>1, <2>2, <3>1, <3>2
  <2>4. CASE DispatchReturns(s)
    <3>1. s \in DispatchesWaited /\ DispatchesWaited' = DispatchesWaited \ {s} /\ wg' = wg - 1
      BY <2>4 DEF DispatchReturns, DispatchesWaited, TypesButWg
    <3>2. IsFiniteSet(DispatchesWaited \ {s}) /\ Cardinality(DispatchesWaited \ {s}) = Cardinality(DispatchesWaited) - 1
      BY <3>1, FS_RemoveElement
    <3> QED
      BY <1>1, <2>2, <3>1, <3>2
  <2>5. CASE DispatchCounted(s) \/ DispatchDone(s)
    <3>1. DispatchesWaited' = DispatchesWaited /\ wg' = wg
      BY <2>5 DEF DispatchCounted, DispatchDone, DispatchesWaited, TypesButWg
    <3> QED
      BY <1>3, <2>1, <2>2, <3>1
  <2> QED
    BY <1>7, <2>3, <2>4, <2>5 DEF DispatchStep
<1>8. ASSUME NEW s \in Signals, StartGroup(s) PROVE Goal
  <2> DEFINE G == {s} \X NextGroup(s)
  <2>1. NextGroup(s) \subseteq Receivers
    BY SignalAssumption DEF NextGroup, Unstarted
  <2>2. IsFiniteSet(NextGroup(s)) /\ Cardinality(NextGroup(s)) \in Nat
    BY <2>1, SignalAssumption, FS_Subset, FS_CardinalityType
  <2>3. IsFiniteSet(G) /\ Cardinality(G) = 1 * Cardinality(NextGroup(s))
    <3>1. IsFiniteSet({s}) /\ Cardinality({s}) = 1
      BY FS_Singleton
    <3> QED
      BY <2>2, <3>1, FS_Product
  <2>4. Handlers' = Handlers \cup G
    BY <1>8, <2>1, MovesGroup DEF Handlers, HandlersIn
  <2>5. Handlers \cap G = {}
    BY <1>8, MovesGroup DEF Handlers, HandlersIn
  <2>6. IsFiniteSet(Handlers \cup G) /\ Cardinality(Handlers \cup G) = Cardinality(Handlers) + Cardinality(G) - 0
    BY <2>3, <2>5, FS_Union, FS_EmptySet
  <2>7. DispatchesWaited' = DispatchesWaited /\ LoopCount' = LoopCount
        /\ wg' = wg + Cardinality(NextGroup(s))
    BY <1>5, <1>8 DEF StartGroup, LoopCount
  <2> HIDE DEF G
  <2> QED
    BY <1>1, <2>2, <2>3, <2>4, <2>6, <2>7
<1>9. ASSUME NEW s \in Signals, NEW r \in Receivers, Panics(s, r) PROVE Goal
  BY <1>3, <1>4, <1>5, <1>9 DEF Panics, counters
<1>10. ASSUME NEW s \in Signals, NEW r \in Receivers, NEW v \in HandlerStates,
              HandlerStep(s, r, v)
       PROVE  Goal
  <2>1. DispatchesWaited' = DispatchesWaited /\ LoopCount' = LoopCount
    BY <1>5, <1>10 DEF HandlerStep, Call, Skip, Returns, HandlerDone, LoopCount
  <2>2. CASE v = "returned"
    <3>1. wg' = wg - 1
      BY <1>10, <2>2 DEF HandlerStep, Skip, Returns
    <3>2. <<s, r>> \in Handlers /\ Handlers' = Handlers \ {<<s, r>>}
      BY <1>10, <2>2, HandlerMoves DEF Moves, Handlers, HandlersIn
    <3>3. IsFiniteSet(Handlers \ {<<s, r>>}) /\ Cardinality(Handlers \ {<<s, r>>}) = Cardinality(Handlers) - 1
      BY <3>2, FS_RemoveElement
    <3> QED
      BY <1>1, <2>1, <3>1, <3>2, <3>3
  <2>3. CASE v # "returned"
    <3>1. wg' = wg /\ loop' = loop
      BY <1>10, <2>3 DEF HandlerStep, Call, HandlerDone, counters
    <3>2. Handlers' = Handlers
      BY <1>10, <2>3, HandlerMoves DEF Moves, Handlers, HandlersIn
    <3> QED
      BY <1>3, <2>1, <3>1, <3>2
  <2> QED
    BY <2>2, <2>3
<1>11. CASE LoopStep
  <2>1. DispatchesWaited' = DispatchesWaited /\ Handlers' = Handlers
    BY <1>4, <1>5, <1>11 DEF LoopStep, LoopBegins, LoopQuits
  <2>2. wg' - LoopCount' = wg - LoopCount
    BY <1>1, <1>11, WgIsNat DEF LoopStep, LoopBegins, LoopQuits, LoopCount
  <2>3. LoopCount' \in {0, 1} /\ wg' \in Int
    BY <1>11, WgIsNat DEF LoopStep, LoopBegins, LoopQuits, LoopCount
  <2> QED
    BY <1>1, <2>1, <2>2, <2>3, WgIsNat
<1>12. CASE CloseStep
  BY <1>3, <1>4, <1>5, <1>12
     DEF CloseStep, SeesAllDone, CloseBegins, CloseWaits, CloseEnds, counters
<1> HIDE DEF Goal
<1> QED
  BY <1>6, <1>7, <1>8, <1>9, <1>10, <1>11, <1>12, StepCases DEF Goal

-----------------------------------------------------------------------------
LEMMA EscapeStep == IInv /\ Next => EscapeOK'
<1> SUFFICES ASSUME IInv, Next PROVE EscapeOK'
  OBVIOUS
<1> USE DEF IInv, EscapeOK, TypesButWg
<1>0. \A s \in Signals : OriginOK(s) /\ sender[s] \in SenderStates /\ dispatch[s] \in DispatchStates
  OBVIOUS
<1>1. ASSUME NEW s \in Signals, EmitStep(s) PROVE EscapeOK'
  <2>1. UNCHANGED <<loop, closing, escaped>>
    BY <1>1 DEF EmitStep, Spawn, EmitCheck, EmitSend, Receive
  <2>2. CASE Spawn(s)
    BY <2>1, <2>2 DEF Spawn
  <2>3. CASE EmitCheck(s)
    BY <2>1, <2>3 DEF EmitCheck, CloseOK
  <2>4. CASE EmitSend(s)
    BY <2>1, <2>4 DEF EmitSend, CloseOK
  <2>5. CASE Receive(s)
    BY <2>1, <2>5 DEF Receive
  <2> QED
    BY <1>1, <2>2, <2>3, <2>4, <2>5 DEF EmitStep
<1>2. ASSUME NEW s \in Signals, DispatchStep(s) PROVE EscapeOK'
  BY <1>2 DEF DispatchStep, DispatchWaited, DispatchCounted, DispatchReturns, DispatchDone
<1>3. ASSUME NEW s \in Signals, StartGroup(s) PROVE EscapeOK'
  BY <1>3 DEF StartGroup
<1>4. ASSUME NEW s \in Signals, NEW r \in Receivers, Panics(s, r) PROVE EscapeOK'
  BY <1>4 DEF Panics
<1>5. ASSUME NEW s \in Signals, NEW r \in Receivers, NEW v \in HandlerStates,
             HandlerStep(s, r, v)
      PROVE  EscapeOK'
  BY <1>5 DEF HandlerStep, Call, Skip, Returns, HandlerDone
<1>6. CASE LoopStep
  BY <1>6 DEF LoopStep, LoopBegins, LoopQuits
<1>7. CASE CloseStep
  <2>0. fatal = "no"
    BY DEF Next, Alive
  <2>1. CASE SeesAllDone
    BY <2>1 DEF SeesAllDone
  <2>2. CASE CloseBegins
    BY <2>2, <2>0 DEF CloseBegins
  <2>3. CASE CloseWaits
    <3>1. Cardinality(DispatchesWaited) \in Nat /\ Cardinality(Handlers) \in Nat
      BY FS_CardinalityType DEF CountOK
    <3>2. loop # "select" /\ Cardinality(DispatchesWaited) = 0
      BY <2>3, <3>1 DEF CloseWaits, CountOK, WgIsExact, Handlers
    <3>3. DispatchesWaited = {}
      BY <3>2, FS_EmptySet DEF CountOK
    <3>4. PICK r \in Receivers : <<LastSignal, r>> \in called
      BY <2>3 DEF CloseWaits, CloseOK, EngineMayReturn
    <3>5. loop = "stopped"
      BY <1>0, <3>2, <3>4, SignalAssumption DEF OriginOK
    <3>6. \A t \in Signals : dispatch[t] \notin {"waited", "counted"}
      BY <3>3 DEF DispatchesWaited
    <3> QED
      BY <2>0, <2>3, <3>5, <3>6 DEF CloseWaits
  <2>4. CASE CloseEnds
    BY <2>4 DEF CloseEnds
  <2> QED
    BY <1>7, <2>1, <2>2, <2>3, <2>4 DEF CloseStep
<1> QED
  BY <1>1, <1>2, <1>3, <1>4, <1>5, <1>6, <1>7, StepCases

LEMMA StepInv == IInv /\ [Next]_vars => IInv'
<1> SUFFICES ASSUME IInv, [Next]_vars PROVE IInv'
  OBVIOUS
<1>1. CASE Next
  <2>1. EscapeOK'
    BY <1>1, EscapeStep
  <2> QED
    BY <1>1, <2>1, TypesStep, CloseOKStep, OriginStep, GroupStep, CountStep DEF IInv
<1>2. CASE UNCHANGED vars
  <2> USE <1>2 DEF vars, chans, counters, IInv
  <2>1. TypesButWg' /\ EscapeOK'
    BY DEF TypesButWg, EscapeOK
  <2>2. CloseOK'
    BY DEF CloseOK, EngineMayReturn
  <2>3. CountOK'
    BY DEF CountOK, WgIsExact, Handlers, HandlersIn, DispatchesWaited
  <2>4. \A s \in Signals : OriginOK(s)' /\ GroupOK(s)'
    BY DEF OriginOK, GroupOK, InGroup, Unstarted
  <2> QED
    BY <2>1, <2>2, <2>3, <2>4
<1> QED
  BY <1>1, <1>2

\* The invariant holds in every reachable state.
THEOREM Invariance == Spec => []IInv
BY InitInv, StepInv, PTL DEF Spec

\* No counter drops below zero, and every goroutine is in a state that its code has.
THEOREM TypeCorrect == Spec => []TypeOK
<1>1. IInv => TypeOK
  BY WgIsNat DEF IInv, TypesButWg, TypeOK
<1> QED
  BY <1>1, Invariance, PTL

\* The WaitGroup counts run, the dispatches and the handlers that are under way, however
\* each of them ends.
THEOREM CounterIsExact == Spec => []WgIsExact
<1>1. IInv => WgIsExact
  BY DEF IInv, CountOK
<1> QED
  BY <1>1, Invariance, PTL

\* What runs on after Close, or ends the program there, had passed the test of running
\* or wg.Wait at the moment that Close overtook it.
THEOREM OnlyOverlapsPassClose == Spec => []OnlyOverlapsEscape
<1>1. IInv => OnlyOverlapsEscape
  <2> SUFFICES ASSUME IInv PROVE OnlyOverlapsEscape
    OBVIOUS
  <2>1. ASSUME closing = "closed", NEW p \in Handlers PROVE p[1] \in escaped
    <3>1. p[1] \in Signals /\ p[2] \in Receivers /\ handler[p[1]][p[2]] \in {"started", "calling"}
      BY <2>1 DEF Handlers, HandlersIn
    <3>2. dispatch[p[1]] = "counted"
      BY <3>1 DEF IInv, OriginOK
    <3> QED
      BY <2>1, <3>1, <3>2 DEF IInv, EscapeOK
  <2> QED
    BY <2>1 DEF IInv, EscapeOK, OnlyOverlapsEscape, Handlers
<1> QED
  BY <1>1, Invariance, PTL

-----------------------------------------------------------------------------
(* The signal manager implements SignalBus.                                *)

Offered == {s \in Signals : dispatch[s] # "none"}
Over == HandlersIn({"returned", "done"})

\* It is the turn of a receiver whose handler has started.
LEMMA TurnComes ==
  ASSUME IInv, NEW s \in Signals, NEW r \in Receivers, handler[s][r] = "started"
  PROVE  Bus!Turn(s, r) /\ Bus!MayCall(s, r)
<1>1. r \in Accepts[s] /\ dispatch[s] # "none" /\ Accepts[s] \subseteq Receivers
  BY SignalAssumption DEF IInv, OriginOK
<1>2. r \in InGroup(s)
  BY <1>1 DEF InGroup
<1>3. \A q \in Accepts[s] : Index[q] < Index[r] => handler[s][q] \in {"returned", "done"}
  BY <1>1, <1>2 DEF IInv, GroupOK
<1>4. \A q \in Accepts[s] :
        <<s, q>> \in HandlersIn({"returned", "done"}) <=> handler[s][q] \in {"returned", "done"}
  BY <1>1 DEF HandlersIn
<1>5. <<s, r>> \notin HandlersIn({"calling"}) \cup HandlersIn({"returned", "done"})
  BY DEF HandlersIn
<1>6. Bus!Turn(s, r)
  BY <1>1, <1>3, <1>4, <1>5 DEF Bus!Turn
<1>7. s \in dropped => \E q \in Accepts[s] : /\ Index[q] = Index[r]
                                             /\ handler[s][q] \in {"returned", "done"}
  BY <1>2 DEF IInv, GroupOK
<1> QED
  BY <1>4, <1>6, <1>7 DEF Bus!MayCall

\* What a handler's step does to the handlers in some states.
LEMMA Enters ==
  ASSUME NEW s \in Signals, NEW r \in Receivers, NEW v, NEW S, Moves(s, r, v)
  PROVE  HandlersIn(S)' = IF v \in S THEN HandlersIn(S) \cup {<<s, r>>}
                                     ELSE HandlersIn(S) \ {<<s, r>>}
<1>1. \A p \in Signals \X Receivers :
        p \in HandlersIn(S)' <=> IF p = <<s, r>> THEN v \in S ELSE p \in HandlersIn(S)
  <2> SUFFICES ASSUME NEW t \in Signals, NEW q \in Receivers
               PROVE  <<t, q>> \in HandlersIn(S)' <=>
                        IF <<t, q>> = <<s, r>> THEN v \in S ELSE <<t, q>> \in HandlersIn(S)
    OBVIOUS
  <2> QED
    BY DEF Moves, HandlersIn
<1>2. HandlersIn(S) \subseteq Signals \X Receivers
      /\ HandlersIn(S)' \subseteq Signals \X Receivers
  BY DEF HandlersIn
<1>3. CASE v \in S
  BY <1>1, <1>2, <1>3
<1>4. CASE v \notin S
  BY <1>1, <1>2, <1>4
<1> QED
  BY <1>3, <1>4

LEMMA Stays ==
  ASSUME NEW s \in Signals, NEW r \in Receivers, NEW v, NEW S, Moves(s, r, v),
         v \in S <=> handler[s][r] \in S
  PROVE  HandlersIn(S)' = HandlersIn(S)
<1>1. <<s, r>> \in HandlersIn(S) <=> v \in S
  BY DEF HandlersIn
<1> QED
  BY <1>1, Enters

LEMMA BusHandlers ==
  ASSUME IInv, NEW s \in Signals, NEW r \in Receivers, NEW v \in HandlerStates,
         HandlerStep(s, r, v)
  PROVE  Bus!Next \/ UNCHANGED Bus!vars
<1>1. Offered' = Offered
  BY DEF HandlerStep, Call, Skip, Returns, HandlerDone, Offered
<1>2. CASE Call(s, r)
  <2>0. Moves(s, r, "calling")
    BY <1>2, MovesOne DEF Call, IInv
  <2>1. handler[s][r] = "started" /\ handler'[s][r] = "calling" /\ dropped' = dropped
    BY <1>2 DEF Call, IInv, TypesButWg
  <2>2. HandlersIn({"calling"})' = HandlersIn({"calling"}) \cup {<<s, r>>}
    BY <2>0, <2>1, Enters
  <2>3. Over' = Over
    BY <2>0, <2>1, Stays DEF Over
  <2>4. Bus!Call(s, r)
    BY <1>1, <2>1, <2>2, <2>3, TurnComes DEF Bus!Call, Offered, Over
  <2> QED
    BY <2>4 DEF Bus!Next
<1>3. CASE Skip(s, r)
  <2>0. Moves(s, r, "returned")
    BY <1>3, MovesOne DEF Skip, IInv
  <2>1. handler[s][r] = "started" /\ dropped' = dropped
    BY <1>3 DEF Skip
  <2>2. HandlersIn({"calling"})' = HandlersIn({"calling"})
    BY <2>0, <2>1, Stays
  <2>3. Over' = Over \cup {<<s, r>>}
    BY <2>0, <2>1, Enters DEF Over
  <2>4. Bus!PassOver(s, r)
    BY <1>1, <2>1, <2>2, <2>3, TurnComes DEF Bus!PassOver, Offered, Over
  <2> QED
    BY <2>4 DEF Bus!Next
<1>4. CASE Returns(s, r)
  <2>0. Moves(s, r, "returned")
    BY <1>4, MovesOne DEF Returns, IInv
  <2>1. handler[s][r] = "calling" /\ dropped' \in {dropped, dropped \cup {s}}
    BY <1>4 DEF Returns
  <2>2. HandlersIn({"calling"})' = HandlersIn({"calling"}) \ {<<s, r>>}
    BY <2>0, Enters
  <2>5. <<s, r>> \in HandlersIn({"calling"})
    BY <2>1 DEF HandlersIn
  <2>3. Over' = Over \cup {<<s, r>>}
    BY <2>0, <2>1, Enters DEF Over
  <2>4. Bus!End(s, r)
    BY <1>1, <2>1, <2>2, <2>3, <2>5 DEF Bus!End, Offered, Over
  <2> QED
    BY <2>4 DEF Bus!Next
<1>5. CASE HandlerDone(s, r)
  <2>0. Moves(s, r, "done")
    BY <1>5, MovesOne DEF HandlerDone, IInv
  <2>1. handler[s][r] = "returned" /\ dropped' = dropped
    BY <1>5 DEF HandlerDone
  <2>2. HandlersIn({"calling"})' = HandlersIn({"calling"}) /\ Over' = Over
    BY <2>0, <2>1, Stays DEF Over
  <2> QED
    BY <1>1, <2>1, <2>2 DEF Bus!vars, Offered, Over
<1> QED
  BY <1>2, <1>3, <1>4, <1>5 DEF HandlerStep

LEMMA BusStep == IInv /\ [Next]_vars => [Bus!Next]_(Bus!vars)
<1> SUFFICES ASSUME IInv, [Next]_vars PROVE Bus!Next \/ UNCHANGED Bus!vars
  OBVIOUS
<1>1. ASSUME Offered' = Offered, UNCHANGED <<handler, dropped>> PROVE UNCHANGED Bus!vars
  BY <1>1 DEF Bus!vars, Offered, HandlersIn
<1>2. ASSUME NEW s \in Signals, EmitStep(s) PROVE Bus!Next \/ UNCHANGED Bus!vars
  <2>1. UNCHANGED <<handler, dropped>>
    BY <1>2 DEF EmitStep, Spawn, EmitCheck, EmitSend, Receive
  <2>2. CASE Receive(s)
    <3>1. dispatch[s] = "none"
      BY <2>2 DEF Receive, IInv, OriginOK
    <3>2. s \notin Offered /\ Offered' = Offered \cup {s}
      BY <2>2, <3>1 DEF Receive, Offered, IInv, TypesButWg
    <3>3. Bus!Offer(s)
      BY <2>1, <3>2 DEF Bus!Offer, Offered, HandlersIn
    <3> QED
      BY <3>3 DEF Bus!Next
  <2>3. CASE UNCHANGED dispatch
    BY <1>1, <2>1, <2>3 DEF Offered
  <2> QED
    BY <1>2, <2>2, <2>3 DEF EmitStep, Spawn, EmitCheck, EmitSend
<1>3. ASSUME NEW s \in Signals, DispatchStep(s) PROVE UNCHANGED Bus!vars
  <2>1. UNCHANGED <<handler, dropped>>
    BY <1>3 DEF DispatchStep, DispatchWaited, DispatchCounted, DispatchReturns, DispatchDone
  <2>2. Offered' = Offered
    BY <1>3 DEF DispatchStep, DispatchWaited, DispatchCounted, DispatchReturns, DispatchDone,
                Offered, IInv, TypesButWg
  <2> QED
    BY <1>1, <2>1, <2>2
<1>4. ASSUME NEW s \in Signals, StartGroup(s) PROVE UNCHANGED Bus!vars
  <2>1. HandlersIn({"calling"})' = HandlersIn({"calling"}) /\ Over' = Over
    BY <1>4, MovesGroup DEF HandlersIn, Over, IInv
  <2>2. Offered' = Offered /\ dropped' = dropped
    BY <1>4 DEF StartGroup, Offered
  <2> QED
    BY <2>1, <2>2 DEF Bus!vars, Offered, Over
<1>5. ASSUME NEW s \in Signals, NEW r \in Receivers, Panics(s, r) PROVE UNCHANGED Bus!vars
  BY <1>1, <1>5 DEF Panics, Offered
<1>6. LoopStep \/ CloseStep => UNCHANGED Bus!vars
  BY <1>1 DEF LoopStep, LoopBegins, LoopQuits, CloseStep, SeesAllDone, CloseBegins, CloseWaits,
              CloseEnds, Offered
<1>7. CASE Next
  BY <1>2, <1>3, <1>4, <1>5, <1>6, <1>7, BusHandlers, StepCases
<1>8. CASE UNCHANGED vars
  BY <1>1, <1>8 DEF vars, Offered
<1> QED
  BY <1>7, <1>8

\* Receivers are called once per signal, in the order of their indexes, and none of a
\* later index after a drop, for any signals, receivers and panics.
THEOREM Refinement == Spec => ImplementsBus
<1>1. Init => Bus!Init
  BY DEF Init, Bus!Init, HandlersIn
<1> QED
  BY <1>1, BusStep, Invariance, PTL DEF Spec, ImplementsBus, Bus!Spec

=============================================================================
