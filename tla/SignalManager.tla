--------------------------- MODULE SignalManager ---------------------------
(***************************************************************************)
(* SignalManagerImpl of signalmanager.go: Emit and the unbuffered channel, *)
(* the goroutine run, a dispatch goroutine per signal, a handler goroutine *)
(* per receiver, the two totals behind IsAllDone, and Close.               *)
(*                                                                         *)
(* sm.mu protects running, the totals and the receivers; the channel's and *)
(* quit's fields are also read without it. sm.wg is Go's WaitGroup: Wait   *)
(* returns at an instant when the counter is zero, and a goroutine that    *)
(* has not reached its Add yet is not waited for.                          *)
(*                                                                         *)
(* The environment is what the engine and Spider.Start do: signals are     *)
(* emitted by goroutines (eg.emit) started by the engine's loops, or by a  *)
(* receiver while it runs; Close is called after the receivers of one      *)
(* signal (SpiderClosed) have started and IsAllDone has been seen TRUE.    *)
(* Receivers are connected before Start and stay connected.                *)
(***************************************************************************)
EXTENDS Integers, FiniteSets

CONSTANTS
  Signals,
  Receivers,
  Accepts,     \* [Signals -> SUBSET Receivers]: connected to the signal's type
               \* with no sender filter, or one that contains its sender
  Index,       \* [Receivers -> Int]
  LastSignal   \* SpiderClosed, whose receiver closes the engine

ASSUME SignalAssumption ==
  /\ IsFiniteSet(Receivers)
  /\ Accepts \in [Signals -> SUBSET Receivers]
  /\ Index \in [Receivers -> Int]
  /\ LastSignal \in Signals

VARIABLES
  running,   \* sm.running
  quit,      \* sm.quit: an open channel, a closed one, or nil
  channel,   \* sm.signalChan
  loop,      \* the goroutine run
  sender,    \* the goroutine that calls Emit for a signal
  dispatch,  \* the signal's dispatch goroutine
  handler,   \* the handler goroutines of a dispatch, one per receiver
  called,    \* observer: the pairs of a signal and a receiver called for it
  dropped,   \* the dispatches whose drop is TRUE
  wg,        \* sm.wg
  added,     \* stat signal_manager/total/add
  finished,  \* stat signal_manager/total/done
  closing,   \* Spider.Start's last part, up to the end of sm.Close
  escaped,   \* observer: the signals that have passed what was to stop them, the
             \* test of running (once Close has begun) or wg.Wait (once it is over)
  fatal      \* what has ended the program: a send on a closed channel, or the
             \* Logger.Fatal that follows a receiver's panic

chans == <<running, quit, channel>>
counters == <<wg, added, finished>>
vars == <<chans, loop, sender, dispatch, handler, called, dropped, counters,
          closing, escaped, fatal>>

\* "checked": Emit has read running as TRUE. "stuck": sending on a nil channel.
SenderStates ==
  {"none", "spawned", "checked", "sending", "sent", "discarded", "stuck"}

\* "received": started, before its wg.Add. "returned": after wg.Done, before done.
DispatchStates == {"none", "received", "waited", "counted", "returned", "done"}

\* "returned": after wg.Done and groupWg.Done, before done.
HandlerStates == {"none", "started", "calling", "returned", "done"}

\* "leaving": IsAllDone was TRUE. "waiting": in wg.Wait. "waited": past it.
ClosingStates == {"no", "leaving", "waiting", "waited", "closed"}

TypeOK ==
  /\ running \in BOOLEAN
  /\ quit \in {"open", "closed", "nil"}
  /\ channel \in {"open", "nil"}
  /\ loop \in {"starting", "select", "stopped"}
  /\ sender \in [Signals -> SenderStates]
  /\ dispatch \in [Signals -> DispatchStates]
  /\ handler \in [Signals -> [Receivers -> HandlerStates]]
  /\ called \subseteq Signals \X Receivers
  /\ dropped \subseteq Signals
  /\ wg \in Nat /\ added \in Nat /\ finished \in Nat
  /\ closing \in ClosingStates
  /\ escaped \subseteq Signals
  /\ fatal \in {"no", "send", "receiver"}

\* Start has set running; its goroutine is about to run.
Init ==
  /\ running = TRUE /\ quit = "open" /\ channel = "open"
  /\ loop = "starting"
  /\ sender = [s \in Signals |-> "none"]
  /\ dispatch = [s \in Signals |-> "none"]
  /\ handler = [s \in Signals |-> [r \in Receivers |-> "none"]]
  /\ called = {} /\ dropped = {}
  /\ wg = 0 /\ added = 0 /\ finished = 0
  /\ closing = "no"
  /\ escaped = {}
  /\ fatal = "no"

IsAllDone == finished = added

InGroup(s) == {r \in Accepts[s] : handler[s][r] \in {"started", "calling"}}

Unstarted(s) == {r \in Accepts[s] : handler[s][r] = "none"}

\* SpiderClosed's receiver has been called: the engine's loops may have ended.
EngineMayReturn == \E r \in Receivers : <<LastSignal, r>> \in called

-----------------------------------------------------------------------------
(* Emit, in a goroutine of its own.                                        *)

Spawn(s) ==
  /\ sender[s] = "none"
  /\ ~EngineMayReturn \/ \E t \in Signals, r \in Receivers : handler[t][r] = "calling"
  /\ sender' = [sender EXCEPT ![s] = "spawned"]
  /\ UNCHANGED <<chans, loop, dispatch, handler, called, dropped, counters,
                 closing, fatal,
                 escaped>>

EmitCheck(s) ==
  /\ sender[s] = "spawned"
  /\ sender' = [sender EXCEPT ![s] = IF running THEN "checked" ELSE "discarded"]
  /\ UNCHANGED <<chans, loop, dispatch, handler, called, dropped, counters,
                 closing, fatal,
                 escaped>>

\* The channel's field is read. Once Close has replaced it, the read may still
\* give the closed channel, and sending on that panics, or nil, and sending on
\* that never ends.
EmitSend(s) ==
  /\ sender[s] = "checked"
  /\ IF channel = "open"
       THEN sender' = [sender EXCEPT ![s] = "sending"] /\ UNCHANGED fatal
       ELSE \/ sender' = [sender EXCEPT ![s] = "stuck"] /\ UNCHANGED fatal
            \/ fatal' = "send" /\ UNCHANGED sender
  /\ UNCHANGED <<chans, loop, dispatch, handler, called, dropped, counters, closing,
                 escaped>>

-----------------------------------------------------------------------------
(* run: its wg.Add is made by the new goroutine itself.                    *)

LoopBegins ==
  /\ loop = "starting"
  /\ loop' = "select"
  /\ wg' = wg + 1
  /\ UNCHANGED <<chans, sender, dispatch, handler, called, dropped, added,
                 finished, closing, fatal,
                 escaped>>

\* The select takes a signal, even when quit is closed too.
Receive(s) ==
  /\ loop = "select"
  /\ sender[s] = "sending"
  /\ channel = "open"
  /\ sender' = [sender EXCEPT ![s] = "sent"]
  /\ dispatch' = [dispatch EXCEPT ![s] = "received"]
  /\ UNCHANGED <<chans, loop, handler, called, dropped, counters, closing, fatal,
                 escaped>>

LoopQuits ==
  /\ loop = "select"
  /\ quit = "closed"
  /\ loop' = "stopped"
  /\ wg' = wg - 1
  /\ UNCHANGED <<chans, sender, dispatch, handler, called, dropped, added,
                 finished, closing, fatal,
                 escaped>>

-----------------------------------------------------------------------------
(* The dispatch goroutine.                                                 *)

DispatchWaited(s) ==
  /\ dispatch[s] = "received"
  /\ dispatch' = [dispatch EXCEPT ![s] = "waited"]
  /\ wg' = wg + 1
  /\ UNCHANGED <<chans, loop, sender, handler, called, dropped, added, finished,
                 closing, fatal,
                 escaped>>

DispatchCounted(s) ==
  /\ dispatch[s] = "waited"
  /\ dispatch' = [dispatch EXCEPT ![s] = "counted"]
  /\ added' = added + 1
  /\ UNCHANGED <<chans, loop, sender, handler, called, dropped, wg, finished,
                 closing, fatal,
                 escaped>>

\* Mutant: a group may start while the one before it still runs.
GroupIsOverNoWait(s) == TRUE

\* groupWg.Wait has returned (or no group has started yet).
GroupIsOver(s) == InGroup(s) = {}

\* The receivers of the smallest index not started yet.
NextGroup(s) ==
  {r \in Unstarted(s) : \A q \in Unstarted(s) : Index[r] <= Index[q]}

\* The goroutines of a group are started one by one; the first ones may run before
\* the last is started, which nothing but the two totals could tell, and these
\* stay apart while the dispatch itself is counted.
StartGroup(s) ==
  /\ dispatch[s] = "counted"
  /\ GroupIsOver(s)
  /\ s \notin dropped
  /\ Unstarted(s) # {}
  /\ handler' = [handler EXCEPT ![s] =
       [r \in Receivers |-> IF r \in NextGroup(s) THEN "started" ELSE @[r]]]
  /\ wg' = wg + Cardinality(NextGroup(s))
  /\ added' = added + Cardinality(NextGroup(s))
  /\ UNCHANGED <<chans, loop, sender, dispatch, called, dropped, finished,
                 closing, fatal,
                 escaped>>

\* Mutant: the dispatch returns after any group.
DispatchReturnsEarly(s) ==
  /\ dispatch[s] = "counted"
  /\ GroupIsOver(s)
  /\ dispatch' = [dispatch EXCEPT ![s] = "returned"]
  /\ wg' = wg - 1
  /\ UNCHANGED <<chans, loop, sender, handler, called, dropped, added, finished,
                 closing, fatal,
                 escaped>>

DispatchReturns(s) ==
  /\ dispatch[s] = "counted"
  /\ GroupIsOver(s)
  /\ Unstarted(s) = {} \/ s \in dropped
  /\ dispatch' = [dispatch EXCEPT ![s] = "returned"]
  /\ wg' = wg - 1
  /\ UNCHANGED <<chans, loop, sender, handler, called, dropped, added, finished,
                 closing, fatal,
                 escaped>>

DispatchDone(s) ==
  /\ dispatch[s] = "returned"
  /\ dispatch' = [dispatch EXCEPT ![s] = "done"]
  /\ finished' = finished + 1
  /\ UNCHANGED <<chans, loop, sender, handler, called, dropped, wg, added,
                 closing, fatal,
                 escaped>>

-----------------------------------------------------------------------------
(* A handler goroutine.                                                    *)

\* sm.quit is read while Close may be setting it to nil, which select treats as a
\* channel that is never ready.
Call(s, r) ==
  /\ handler[s][r] = "started"
  /\ quit # "closed"
  /\ handler' = [handler EXCEPT ![s][r] = "calling"]
  /\ called' = called \cup {<<s, r>>}
  /\ UNCHANGED <<chans, loop, sender, dispatch, dropped, counters, closing, fatal,
                 escaped>>

Skip(s, r) ==
  /\ handler[s][r] = "started"
  /\ quit # "open"
  /\ handler' = [handler EXCEPT ![s][r] = "returned"]
  /\ wg' = wg - 1
  /\ UNCHANGED <<chans, loop, sender, dispatch, called, dropped, added, finished,
                 closing, fatal,
                 escaped>>

\* Mutant: wg.Done and groupWg.Done are not reached when the receiver panics.
ReturnsUnlessDropped(s, r) ==
  /\ handler[s][r] = "calling"
  /\ \/ /\ handler' = [handler EXCEPT ![s][r] = "returned"]
        /\ wg' = wg - 1
        /\ UNCHANGED dropped
     \/ /\ handler' = [handler EXCEPT ![s][r] = "returned"]
        /\ dropped' = dropped \cup {s}
        /\ UNCHANGED wg
  /\ UNCHANGED <<chans, loop, sender, dispatch, called, added, finished, closing,
                 fatal, escaped>>

\* The receiver returns, or panics with ErrDropSignal.
Returns(s, r) ==
  /\ handler[s][r] = "calling"
  /\ handler' = [handler EXCEPT ![s][r] = "returned"]
  /\ wg' = wg - 1
  /\ dropped' \in {dropped, dropped \cup {s}}
  /\ UNCHANGED <<chans, loop, sender, dispatch, called, added, finished, closing,
                 fatal, escaped>>

\* Any other panic is logged with Fatal, which exits.
Panics(s, r) ==
  /\ handler[s][r] = "calling"
  /\ fatal' = "receiver"
  /\ UNCHANGED <<chans, loop, sender, dispatch, handler, called, dropped, counters,
                 closing, escaped>>

HandlerDone(s, r) ==
  /\ handler[s][r] = "returned"
  /\ handler' = [handler EXCEPT ![s][r] = "done"]
  /\ finished' = finished + 1
  /\ UNCHANGED <<chans, loop, sender, dispatch, called, dropped, wg, added,
                 closing, fatal,
                 escaped>>

-----------------------------------------------------------------------------
(* The end of Spider.Start: it spins on IsAllDone, and closes the modules, *)
(* the signal manager last but one.                                        *)

SeesAllDone ==
  /\ closing = "no"
  /\ EngineMayReturn
  /\ IsAllDone
  /\ closing' = "leaving"
  /\ UNCHANGED <<chans, loop, sender, dispatch, handler, called, dropped, counters,
                 fatal, escaped>>

CloseBegins ==
  /\ closing = "leaving"
  /\ running' = FALSE
  /\ quit' = "closed"
  /\ closing' = "waiting"
  /\ escaped' = {s \in Signals : sender[s] \in {"checked", "sending"}}
  /\ UNCHANGED <<channel, loop, sender, dispatch, handler, called, dropped,
                 counters, fatal>>

\* Mutant: Close does not wait for the goroutines.
CloseWaitsForNothing ==
  /\ closing = "waiting"
  /\ closing' = "waited"
  /\ escaped' = {s \in escaped : sender[s] # "sent"}
                   \cup {s \in Signals : dispatch[s] = "received"}
  /\ UNCHANGED <<chans, loop, sender, dispatch, handler, called, dropped, counters,
                 fatal>>

CloseWaits ==
  /\ closing = "waiting"
  /\ wg = 0
  /\ closing' = "waited"
  /\ escaped' = {s \in escaped : sender[s] # "sent"}
                   \cup {s \in Signals : dispatch[s] = "received"}
  /\ UNCHANGED <<chans, loop, sender, dispatch, handler, called, dropped, counters,
                 fatal>>

\* quit is set to nil; the channel is closed, which makes every goroutine that is
\* sending on it panic, and set to nil.
CloseEnds ==
  /\ closing = "waited"
  /\ quit' = "nil"
  /\ channel' = "nil"
  /\ closing' = "closed"
  /\ fatal' = IF \E s \in Signals : sender[s] = "sending" THEN "send" ELSE "no"
  /\ UNCHANGED <<running, loop, sender, dispatch, handler, called, dropped, counters,
                 escaped>>

Alive == fatal = "no"

Next ==
  /\ Alive
  /\ \/ \E s \in Signals :
          \/ Spawn(s) \/ EmitCheck(s) \/ EmitSend(s) \/ Receive(s)
          \/ DispatchWaited(s) \/ DispatchCounted(s) \/ StartGroup(s)
          \/ DispatchReturns(s) \/ DispatchDone(s)
          \/ \E r \in Receivers :
               \/ Call(s, r) \/ Skip(s, r) \/ Returns(s, r) \/ Panics(s, r)
               \/ HandlerDone(s, r)
     \/ LoopBegins \/ LoopQuits
     \/ SeesAllDone \/ CloseBegins \/ CloseWaits \/ CloseEnds

Spec == Init /\ [][Next]_vars

\* Every goroutine is scheduled and every receiver returns. Nobody has to emit.
Fairness ==
  /\ WF_vars(Alive /\ (LoopBegins \/ LoopQuits))
  /\ WF_vars(Alive /\ (SeesAllDone \/ CloseBegins \/ CloseWaits \/ CloseEnds))
  /\ \A s \in Signals :
       /\ WF_vars(Alive /\ (EmitCheck(s) \/ EmitSend(s)))
       /\ WF_vars(Alive /\ Receive(s))
       /\ WF_vars(Alive /\ (DispatchWaited(s) \/ DispatchCounted(s) \/ StartGroup(s)
                               \/ DispatchReturns(s) \/ DispatchDone(s)))
       /\ \A r \in Receivers :
            WF_vars(Alive /\ (Call(s, r) \/ Skip(s, r) \/ Returns(s, r)
                                 \/ HandlerDone(s, r)))

FairSpec == Spec /\ Fairness

-----------------------------------------------------------------------------
DispatchesWaited == {s \in Signals : dispatch[s] \in {"waited", "counted"}}

HandlersIn(states) ==
  {p \in Signals \X Receivers : handler[p[1]][p[2]] \in states}

\* sm.wg counts run, the dispatches and the handlers, however they ended: it never
\* drops below zero (a panic in Go) and reaches zero when they are over.
WgIsExact ==
  wg = (IF loop = "select" THEN 1 ELSE 0)
         + Cardinality(DispatchesWaited)
         + Cardinality(HandlersIn({"started", "calling"}))

\* signalmanager.go says that a stopped manager discards a signal, and Close waits
\* for the goroutines. What escapes them comes from an overlap only: a send on the
\* closed channel, or for ever on nil, is of an Emit that had tested running before
\* Close, and a receiver called (or about to be) after Close is of a dispatch that
\* had been received, and not been added to wg, when Wait returned.
OnlyOverlapsEscape ==
  /\ \A s \in Signals : sender[s] = "stuck" => s \in escaped
  /\ fatal = "send" => escaped # {}
  /\ closing = "closed" =>
       \A p \in HandlersIn({"started", "calling"}) : p[1] \in escaped

\* A signal offered to the manager reaches every receiver connected to it, unless
\* one of them drops it or the manager is closed.
Delivered ==
  \A s \in Signals :
    sender[s] = "sending" ~>
      \/ \A r \in Accepts[s] : <<s, r>> \in called
      \/ s \in dropped
      \/ quit # "open"
      \/ ~Alive

\* Close gets past its Wait: run and the handlers it waits for do end.
CloseReturns == closing = "waiting" ~> (closing = "closed" \/ ~Alive)

Bus == INSTANCE SignalBus WITH
  offered <- {s \in Signals : dispatch[s] # "none"},
  calling <- HandlersIn({"calling"}),
  over <- HandlersIn({"returned", "done"})

\* Receivers are called once per signal, in the order of their indexes, and none of
\* a later index after a drop.
ImplementsBus == Bus!Spec

=============================================================================
