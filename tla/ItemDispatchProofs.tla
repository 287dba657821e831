------------------------- MODULE ItemDispatchProofs -------------------------
(***************************************************************************)
(* Proofs about ItemDispatch, for any number of items, any limit and any   *)
(* number of triggers in flight.                                           *)
(***************************************************************************)
EXTENDS ItemDispatch, SequenceTheorems, FiniteSetTheorems, TLAPS

-----------------------------------------------------------------------------
(* The queue of gods (llq.Queue) that holds the waiting work.              *)

\* Enqueue adds one element to a queue; a new one keeps its elements distinct.
LEMMA Enqueued ==
  ASSUME NEW S, NEW q \in Seq(S), NEW e \in S
  PROVE  /\ Append(q, e) \in Seq(S)
         /\ Range(Append(q, e)) = Range(q) \cup {e}
         /\ IsInjective(q) /\ e \notin Range(q) => IsInjective(Append(q, e))
<1>1. Len(q) \in Nat /\ DOMAIN q = 1..Len(q) /\ DOMAIN Append(q, e) = 1..(Len(q) + 1)
  BY AppendProperties, LenProperties
<1>2. Range(Append(q, e)) = Range(q) \cup {e}
  BY <1>1, AppendProperties DEF Range
<1>3. IsInjective(q) /\ e \notin Range(q) => IsInjective(Append(q, e))
  BY <1>1, AppendProperties DEF Range, IsInjective
<1> QED
  BY <1>2, <1>3, AppendProperties

\* Dequeue takes the head away from a queue of distinct elements, and nothing else.
LEMMA Dequeued ==
  ASSUME NEW S, NEW q \in Seq(S), q # <<>>, IsInjective(q)
  PROVE  /\ Tail(q) \in Seq(S)
         /\ IsInjective(Tail(q))
         /\ Head(q) \in Range(q)
         /\ Range(Tail(q)) = Range(q) \ {Head(q)}
<1>1. /\ Len(q) \in Nat \ {0} /\ DOMAIN q = 1..Len(q)
      /\ DOMAIN Tail(q) = 1..(Len(q) - 1)
      /\ \A i \in 1..(Len(q) - 1) : Tail(q)[i] = q[i + 1]
      /\ Head(q) = q[1] /\ Tail(q) \in Seq(S)
  BY HeadTailProperties, LenProperties, EmptySeq
<1>2. ASSUME NEW i \in 1..Len(q), q[i] # Head(q) PROVE q[i] \in Range(Tail(q))
  <2>1. i - 1 \in 1..(Len(q) - 1) /\ Tail(q)[i - 1] = q[i]
    BY <1>1, <1>2
  <2> QED
    BY <1>1, <2>1 DEF Range
<1> QED
  BY <1>1, <1>2 DEF Range, IsInjective

-----------------------------------------------------------------------------

\* Every trigger in flight, and the token the loop may hold, is an item that may
\* still be popped without a new check: together with the handlers under way they
\* stay within the bound. ActiveBound alone is not inductive, for a pop raises
\* active without a test.
PendingPops == triggers + (IF loop = "pop" THEN 1 ELSE 0)

PopsBound ==
  ConcurrentItems > 0 =>
    active + PendingPops <= ConcurrentItems + MaxTriggers - 1

IInv == TypeOK /\ ActiveIsRunning /\ NoItemTwice /\ PopsBound

\* The invariant gives the bound on the handlers under way.
LEMMA InvImpliesBound == IInv => ActiveBound
  BY ItemAssumption DEF IInv, TypeOK, PopsBound, PendingPops, ActiveBound

LEMMA InitInv == Init => IInv
<1> SUFFICES ASSUME Init PROVE IInv
  OBVIOUS
<1>1. TypeOK
  <2>1. /\ outcome \in [Items -> Outcomes \cup {"none"}]
        /\ told \in [Items -> {"no", "yes", "failed"}]
        /\ fatal \in BOOLEAN
    BY DEF Init
  <2>2. items \in Seq(Items) /\ active \in Int /\ running \subseteq Items
    BY EmptySeq DEF Init
  <2>3. triggers \in 0..MaxTriggers /\ loop \in LoopStates
    BY ItemAssumption DEF Init, LoopStates
  <2> QED
    BY <2>1, <2>2, <2>3 DEF TypeOK
<1>2. ActiveIsRunning
  BY FS_EmptySet DEF Init, ActiveIsRunning
<1>3. NoItemTwice
  BY DEF Init, NoItemTwice, Queued, Range, IsInjective
<1>4. PopsBound
  BY ItemAssumption DEF Init, PopsBound, PendingPops
<1> QED
  BY <1>1, <1>2, <1>3, <1>4 DEF IInv

\* One step of the loop, of a trigger, of a producer or of a handler keeps the
\* invariant.
LEMMA StepInv == IInv /\ [Next]_vars => IInv'
<1> SUFFICES ASSUME IInv, [Next]_vars PROVE IInv'
  OBVIOUS
<1> USE ItemAssumption DEF IInv, LoopStates, Outcomes, report
<1>fin. IsFiniteSet(running)
  BY FS_Subset DEF TypeOK
<1>1. ASSUME NEW i \in Items, Push(i) PROVE IInv'
  <2>1. items' \in Seq(Items) /\ IsInjective(items') /\ Queued' = Queued \cup {i}
    BY <1>1, Enqueued DEF Push, Queued, TypeOK, NoItemTwice
  <2>2. TypeOK' /\ ActiveIsRunning' /\ PopsBound'
    BY <1>1, <2>1 DEF Push, TypeOK, ActiveIsRunning, PopsBound, PendingPops
  <2>3. NoItemTwice'
    BY <1>1, <2>1 DEF Push, NoItemTwice
  <2> QED
    BY <2>2, <2>3
<1>2. ASSUME NEW i \in Items, ItemLeftEngine(i) PROVE IInv'
  <2>1. TypeOK' /\ PopsBound'
    BY <1>2 DEF ItemLeftEngine, TypeOK, PopsBound, PendingPops
  <2>2. ActiveIsRunning'
    BY <1>2, <1>fin, FS_RemoveElement DEF ItemLeftEngine, ActiveIsRunning
  <2>3. NoItemTwice'
    BY <1>2 DEF ItemLeftEngine, NoItemTwice, Queued, TypeOK
  <2> QED
    BY <2>1, <2>2, <2>3
<1>3. CASE PopItem
  <2>1. /\ Tail(items) \in Seq(Items)
        /\ IsInjective(Tail(items))
        /\ Head(items) \in Queued
        /\ Queued' = Queued \ {Head(items)}
        /\ Head(items) \in Items
    BY <1>3, Dequeued, HeadTailProperties
    DEF PopItem, TypeOK, NoItemTwice, Queued
  <2>2. TypeOK' /\ PopsBound'
    BY <1>3, <2>1 DEF PopItem, TypeOK, PopsBound, PendingPops
  <2>3. ActiveIsRunning'
    BY <1>3, <2>1, <1>fin, FS_AddElement
    DEF PopItem, ActiveIsRunning, NoItemTwice
  <2>4. NoItemTwice'
    BY <1>3, <2>1 DEF PopItem, NoItemTwice
  <2> QED
    BY <2>2, <2>3, <2>4
<1>4. CASE TriggerDelivered \/ TriggerLost \/ PopNothing \/ HeartBeat \/ Quit
  <2>1. TypeOK' /\ PopsBound'
    BY <1>4 DEF TriggerDelivered, TriggerLost, PopNothing, HeartBeat, Quit,
                TypeOK, PopsBound, PendingPops
  <2>2. ActiveIsRunning' /\ NoItemTwice'
    BY <1>4 DEF TriggerDelivered, TriggerLost, PopNothing, HeartBeat, Quit,
                ActiveIsRunning, NoItemTwice, Queued
  <2> QED
    BY <2>1, <2>2
<1>5. CASE Check
  <2>1. TypeOK'
    BY <1>5 DEF Check, TypeOK
  <2>2. PopsBound'
    \* a new trigger is started below the limit, and there were fewer than
    \* MaxTriggers before it
    <3>1. CASE IsFree /\ ~IsEmpty
      BY <1>5, <3>1 DEF Check, IsFree, TypeOK, PopsBound, PendingPops
    <3>2. CASE ~(IsFree /\ ~IsEmpty)
      BY <1>5, <3>2 DEF Check, TypeOK, PopsBound, PendingPops
    <3> QED
      BY <3>1, <3>2
  <2>3. ActiveIsRunning' /\ NoItemTwice'
    BY <1>5 DEF Check, ActiveIsRunning, NoItemTwice, Queued
  <2> QED
    BY <2>1, <2>2, <2>3
<1>6. ASSUME NEW i \in Items, PipelineReturnsNil(i) \/ OutcomeTold(i) PROVE IInv'
  <2>1. TypeOK'
    BY <1>6 DEF PipelineReturnsNil, OutcomeTold, TypeOK
  <2>2. ActiveIsRunning' /\ NoItemTwice' /\ PopsBound'
    BY <1>6 DEF PipelineReturnsNil, OutcomeTold, ActiveIsRunning, NoItemTwice, Queued,
                PopsBound, PendingPops
  <2> QED
    BY <2>1, <2>2
<1>7. CASE UNCHANGED vars
  BY <1>7 DEF vars, report, TypeOK, ActiveIsRunning, NoItemTwice, PopsBound, PendingPops,
              Queued
<1> QED
  BY <1>1, <1>2, <1>3, <1>4, <1>5, <1>6, <1>7 DEF Next

\* The invariant holds in every reachable state.
THEOREM Invariance == Spec => []IInv
  BY InitInv, StepInv, PTL DEF Spec

\* Type correctness: active, which Finish decrements untested, never drops below zero.
THEOREM TypeCorrect == Spec => []TypeOK
<1>1. IInv => TypeOK
  BY DEF IInv
<1> QED
  BY <1>1, Invariance, PTL

\* ItemSlotImpl.active counts the handlers under way exactly.
THEOREM ActiveCountsHandlers == Spec => []ActiveIsRunning
<1>1. IInv => ActiveIsRunning
  BY DEF IInv
<1> QED
  BY <1>1, Invariance, PTL

\* No item is queued twice, handled while queued, or kept after its outcome.
THEOREM ItemsAreNotDuplicated == Spec => []NoItemTwice
<1>1. IInv => NoItemTwice
  BY DEF IInv
<1> QED
  BY <1>1, Invariance, PTL

\* The limit on items is passed by at most the triggers in flight, less one.
THEOREM OverrunIsBounded == Spec => []ActiveBound
  BY InvImpliesBound, Invariance, PTL

\* With at most one trigger in flight the limit is kept.
COROLLARY LimitKeptWithOneTrigger ==
  ASSUME MaxTriggers = 1 PROVE Spec => []LimitKept
<1>1. IInv => LimitKept
  BY InvImpliesBound, ItemAssumption DEF ActiveBound, LimitKept, IInv, TypeOK
<1> QED
  BY <1>1, Invariance, PTL

-----------------------------------------------------------------------------
\* A queue that is not full leaves room in the pool's only lane.
LEMMA RoomAtPop ==
  ASSUME IInv, PopItem
  PROVE  Pool!HasRoom("items")
<1>1. ConcurrentItems > 0 => active < ConcurrentItems + MaxTriggers - 1
  BY ItemAssumption DEF IInv, TypeOK, PopsBound, PendingPops, PopItem
<1> QED
  BY <1>1, ItemAssumption DEF Pool!HasRoom, IInv, ActiveIsRunning, TypeOK

\* Each step of the item loop is a step of the pool or leaves the pool as it is.
LEMMA PoolStep == IInv /\ [Next]_vars => [Pool!Next]_(Pool!vars)
<1> SUFFICES ASSUME IInv, [Next]_vars PROVE [Pool!Next]_(Pool!vars)
  OBVIOUS
<1>fin. IsFiniteSet(running)
  BY ItemAssumption, FS_Subset DEF IInv, TypeOK
<1>1. ASSUME NEW i \in Items, Push(i) PROVE Pool!Next
  <2>1. Queued' = Queued \cup {i}
    BY <1>1, Enqueued DEF Push, Queued, IInv, TypeOK
  <2>2. Pool!Submit(i)
    BY <1>1, <2>1 DEF Push, Pool!Submit
  <2> QED
    BY <2>2 DEF Pool!Next
<1>2. ASSUME NEW i \in Items, ItemLeftEngine(i) PROVE Pool!Next
  <2>1. /\ Cardinality(running) \in Nat /\ Cardinality(running) > 0
        /\ Cardinality(running') = Cardinality(running) - 1
    BY <1>2, <1>fin, FS_RemoveElement, FS_EmptySet, FS_CardinalityType
    DEF ItemLeftEngine
  <2>2. Pool!End("items")
    BY <1>2, <2>1 DEF ItemLeftEngine, Pool!End, Queued
  <2> QED
    BY <2>2 DEF Pool!Next
<1>3. CASE PopItem
  <2>1. /\ Head(items) \in Queued \cap Items
        /\ Queued' = Queued \ {Head(items)}
    BY <1>3, Dequeued, HeadTailProperties
    DEF PopItem, IInv, TypeOK, NoItemTwice, Queued
  <2>2. Cardinality(running') = Cardinality(running) + 1
    BY <1>3, <2>1, <1>fin, FS_AddElement DEF PopItem, IInv, NoItemTwice
  <2>3. Pool!Begin(Head(items))
    BY <1>3, <2>1, <2>2, RoomAtPop DEF PopItem, Pool!Begin
  <2> QED
    BY <2>1, <2>3 DEF Pool!Next
<1>4. CASE \/ TriggerDelivered \/ TriggerLost \/ PopNothing \/ HeartBeat
           \/ Quit \/ Check \/ UNCHANGED vars
  BY <1>4 DEF TriggerDelivered, TriggerLost, PopNothing, HeartBeat, Quit, Check,
              vars, Pool!vars, Queued
<1>5. ASSUME NEW i \in Items, PipelineReturnsNil(i) \/ OutcomeTold(i)
      PROVE  UNCHANGED Pool!vars
  BY <1>5 DEF PipelineReturnsNil, OutcomeTold, Pool!vars, Queued
<1> QED
  BY <1>1, <1>2, <1>3, <1>4, <1>5 DEF Next

\* The item slot with its loop implements the pool of work.
THEOREM Refinement == Spec => ImplementsPool
<1>1. Init => Pool!Init
  BY FS_EmptySet DEF Init, Pool!Init, Queued, Range
<1> QED
  BY <1>1, PoolStep, Invariance, PTL DEF Spec, ImplementsPool, Pool!Spec
=============================================================================
