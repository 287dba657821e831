------------------------------ MODULE JsonMap ------------------------------
(***************************************************************************)
(* SyncJsonMap of container/jsonmap.go: maps behind one sync.RWMutex each, *)
(* called by goroutines at will, as the Ctx of a request is by the         *)
(* goroutines of its handlers and generators.                              *)
(*                                                                         *)
(* A call locks its map and is done, except these: Dumps and Values read   *)
(* their map through GetMap, Keys and Get, each of which takes the read    *)
(* lock that the caller holds already, and Update writes its map while it  *)
(* reads another through Keys and Get. An RWMutex lets no reader in behind *)
(* a writer that waits. A call's inner reads are numbered: 0 is GetMap or  *)
(* Keys, k is the Get of key k, and Keys is sorted.                        *)
(***************************************************************************)
EXTENDS Integers, Functions

CONSTANTS
  Threads, Maps,
  NumKeys,   \* the keys are 1..NumKeys, in the order of sort.Strings
  Inputs,    \* the values that callers give
  Accepted,  \* those of them that IsJSONCompatible accepts
  Normal,    \* what NormalizeValue makes of them
  Calls,     \* the calls that a thread makes
  NoThread

Keys == 1..NumKeys
Values == {Normal[i] : i \in Accepted}
Contents == UNION {[D -> Values] : D \in SUBSET Keys}
Empty == [k \in {} |-> NoThread]

Reads == {"Get", "Has", "Len", "Keys", "GetMap", "Copy"}
Writes == {"Set", "Delete", "Clear", "SetMap", "Loads"}
Nested == {"Dumps", "Values"}

\* A call on a map: "with" is the map that Update reads, "key" the key of Get, Has, Set
\* and Delete, "value" that of Set, "all" what SetMap and Loads are given.
Call == [op : Reads \cup Writes \cup Nested \cup {"Update"}, on : Maps, with : Maps,
         key : Keys, value : Inputs, all : UNION {[D -> Inputs] : D \in SUBSET Keys}]

NoCall == [op |-> "none"]

ASSUME JsonMapAssumption ==
  /\ NumKeys \in Nat
  /\ Accepted \subseteq Inputs
  /\ NoThread \notin Threads
  /\ Calls \in [Threads -> SUBSET Call]

VARIABLES
  content, \* the m of each map
  writer,  \* who holds a map's writer mutex: it waits for the readers, or writes
  readers, \* how often each thread holds a map's read lock
  call,    \* the call that each thread is in
  pc,      \* and where it stands
  todo,    \* the inner reads that it has left
  got      \* what Values has found

locks == <<writer, readers>>
threads == <<call, pc, todo, got>>
vars == <<content, locks, threads>>

\* "waits", "innerWaits": a reader behind a writer. "drains": a writer that keeps readers
\* out and waits for those that are in. "reading": in an inner read.
PC == {"idle", "wants", "waits", "drains", "inside", "innerWaits", "reading"}

TypeOK ==
  /\ content \in [Maps -> Contents]
  /\ writer \in [Maps -> Threads \cup {NoThread}]
  /\ readers \in [Maps -> [Threads -> Nat]]
  /\ call \in [Threads -> Call \cup {NoCall}]
  /\ pc \in [Threads -> PC]
  /\ todo \in [Threads -> SUBSET (0..NumKeys)]
  /\ got \in [Threads -> Contents]

Init ==
  /\ content = [m \in Maps |-> Empty]
  /\ writer = [m \in Maps |-> NoThread]
  /\ readers = [m \in Maps |-> [t \in Threads |-> 0]]
  /\ call = [t \in Threads |-> NoCall]
  /\ pc = [t \in Threads |-> "idle"]
  /\ todo = [t \in Threads |-> {}]
  /\ got = [t \in Threads |-> Empty]

-----------------------------------------------------------------------------
(* sync.RWMutex.                                                           *)

On(t) == call[t].on

\* The map that a call's inner reads are about.
Inner(t) == IF call[t].op = "Update" THEN call[t].with ELSE On(t)

IsReader(t) == call[t].op \in Reads \cup Nested

\* A thread that Unlock of map m lets in.
Blocked(t, m) ==
  \/ pc[t] = "waits" /\ On(t) = m
  \/ pc[t] = "innerWaits" /\ Inner(t) = m

\* RLock: in, unless there is a writer, waiting or writing.
RLock(t, m, in, out) ==
  IF writer[m] = NoThread
    THEN /\ readers' = [readers EXCEPT ![m][t] = @ + 1]
         /\ pc' = [pc EXCEPT ![t] = in]
    ELSE /\ pc' = [pc EXCEPT ![t] = out]
         /\ UNCHANGED readers

RUnlock(t, m, next) ==
  /\ readers' = [readers EXCEPT ![m][t] = @ - 1]
  /\ pc' = [pc EXCEPT ![t] = next]
  /\ UNCHANGED writer

\* Mutant: Unlock lets nobody in.
UnlockWakesNone(t, m) ==
  /\ writer' = [writer EXCEPT ![m] = NoThread]
  /\ pc' = [pc EXCEPT ![t] = "idle"]
  /\ UNCHANGED readers

\* Unlock, the end of the call: the readers that wait are let in, before any writer.
Unlock(t, m) ==
  /\ writer' = [writer EXCEPT ![m] = NoThread]
  /\ readers' = [readers EXCEPT ![m] =
                   [u \in Threads |-> IF Blocked(u, m) THEN @[u] + 1 ELSE @[u]]]
  /\ pc' = [u \in Threads |->
              IF u = t THEN "idle"
              ELSE IF ~Blocked(u, m) THEN pc[u]
              ELSE IF pc[u] = "waits" THEN "inside" ELSE "reading"]

-----------------------------------------------------------------------------
(* The calls.                                                              *)

Begins(t, c) ==
  /\ pc[t] = "idle"
  /\ c \in Calls[t]
  /\ call' = [call EXCEPT ![t] = c]
  /\ pc' = [pc EXCEPT ![t] = "wants"]
  /\ todo' = [todo EXCEPT ![t] = IF c.op \in Nested \cup {"Update"} THEN {0} ELSE {}]
  /\ UNCHANGED <<content, locks, got>>

Returns(t) ==
  /\ call' = [call EXCEPT ![t] = NoCall]
  /\ got' = [got EXCEPT ![t] = Empty]
  /\ UNCHANGED todo

ReaderLocks(t) ==
  /\ pc[t] = "wants"
  /\ IsReader(t)
  /\ RLock(t, On(t), "inside", "waits")
  /\ UNCHANGED <<content, writer, call, todo, got>>

\* Lock: the writers' mutex, and then the readers that are in.
WriterLocks(t) ==
  /\ pc[t] = "wants"
  /\ ~IsReader(t)
  /\ writer[On(t)] = NoThread
  /\ writer' = [writer EXCEPT ![On(t)] = t]
  /\ pc' = [pc EXCEPT ![t] = "drains"]
  /\ UNCHANGED <<content, readers, call, todo, got>>

\* Mutant: a writer does not wait for the readers that are in.
DrainedAtOnce(t) ==
  /\ pc[t] = "drains"
  /\ pc' = [pc EXCEPT ![t] = "inside"]
  /\ UNCHANGED <<content, locks, call, todo, got>>

Drained(t) ==
  /\ pc[t] = "drains"
  /\ \A u \in Threads : readers[On(t)][u] = 0
  /\ pc' = [pc EXCEPT ![t] = "inside"]
  /\ UNCHANGED <<content, locks, call, todo, got>>

\* Get, Has, Len, Keys, GetMap and Copy, whose SetMap is of a map nobody else has.
Read(t) ==
  /\ pc[t] = "inside"
  /\ call[t].op \in Reads
  /\ RUnlock(t, On(t), "idle")
  /\ Returns(t)
  /\ UNCHANGED content

With(f, k, v) == [j \in DOMAIN f \cup {k} |-> IF j = k THEN v ELSE f[j]]

\* What a writing call leaves in its map; a value that is refused changes nothing.
Written(c, f) ==
  CASE c.op = "Set" ->
         IF c.value \in Accepted THEN With(f, c.key, Normal[c.value]) ELSE f
    [] c.op = "Delete" -> Restrict(f, DOMAIN f \ {c.key})
    [] c.op = "Clear" -> Empty
    [] c.op \in {"SetMap", "Loads"} ->
         IF \A k \in DOMAIN c.all : c.all[k] \in Accepted
           THEN [k \in DOMAIN c.all |-> Normal[c.all[k]]]
           ELSE f

\* Mutant: a refused value is returned without the Unlock.
WriteLeaks(t) ==
  LET m == On(t) IN
  /\ pc[t] = "inside"
  /\ call[t].op \in Writes
  /\ content' = [content EXCEPT ![m] = Written(call[t], @)]
  /\ IF call[t].op = "Set" /\ call[t].value \notin Accepted
       THEN pc' = [pc EXCEPT ![t] = "idle"] /\ UNCHANGED locks
       ELSE Unlock(t, m)
  /\ Returns(t)

Write(t) ==
  LET m == On(t) IN
  /\ pc[t] = "inside"
  /\ call[t].op \in Writes
  /\ content' = [content EXCEPT ![m] = Written(call[t], @)]
  /\ Unlock(t, m)
  /\ Returns(t)

\* Dumps, Values and Update: the next inner read locks.
InnerLocks(t) ==
  /\ pc[t] = "inside"
  /\ call[t].op \in Nested \cup {"Update"}
  /\ todo[t] # {}
  /\ RLock(t, Inner(t), "reading", "innerWaits")
  /\ UNCHANGED <<content, writer, call, todo, got>>

\* An inner read unlocks. Update gives up when a key that Keys has named is gone.
InnerReads(t) ==
  LET f == content[Inner(t)] IN
  /\ pc[t] = "reading"
  /\ RUnlock(t, Inner(t), "inside")
  /\ \E k \in todo[t] :
       /\ \A j \in todo[t] : k <= j
       /\ \/ /\ k = 0
             /\ todo' = [todo EXCEPT ![t] = IF call[t].op = "Dumps" THEN {} ELSE DOMAIN f]
             /\ UNCHANGED <<content, got>>
          \/ /\ k \in DOMAIN f
             /\ todo' = [todo EXCEPT ![t] = @ \ {k}]
             /\ IF call[t].op = "Values"
                  THEN got' = [got EXCEPT ![t] = With(@, k, f[k])] /\ UNCHANGED content
                  ELSE content' = [content EXCEPT ![On(t)] = With(@, k, f[k])] /\ UNCHANGED got
          \/ /\ k # 0 /\ k \notin DOMAIN f
             /\ todo' = [todo EXCEPT ![t] = IF call[t].op = "Values" THEN @ \ {k} ELSE {}]
             /\ UNCHANGED <<content, got>>
  /\ UNCHANGED call

NestedEnds(t) ==
  /\ pc[t] = "inside"
  /\ call[t].op \in Nested
  /\ todo[t] = {}
  /\ RUnlock(t, On(t), "idle")
  /\ Returns(t)
  /\ UNCHANGED content

UpdateEnds(t) ==
  /\ pc[t] = "inside"
  /\ call[t].op = "Update"
  /\ todo[t] = {}
  /\ Unlock(t, On(t))
  /\ Returns(t)
  /\ UNCHANGED content

-----------------------------------------------------------------------------
Goes(t) ==
  \/ ReaderLocks(t) \/ Drained(t) \/ Read(t) \/ Write(t)
  \/ InnerLocks(t) \/ InnerReads(t) \/ NestedEnds(t) \/ UpdateEnds(t)

Next ==
  \E t \in Threads :
    \/ \E c \in Calls[t] : Begins(t, c)
    \/ WriterLocks(t)
    \/ Goes(t)

Spec == Init /\ [][Next]_vars

\* Goroutines are scheduled; sync.Mutex hands itself to a waiter that starves.
Fairness ==
  \A t \in Threads : WF_vars(Goes(t)) /\ SF_vars(WriterLocks(t))

FairSpec == Spec /\ Fairness

-----------------------------------------------------------------------------
Holds(t, m) == writer[m] = t /\ pc[t] # "drains"

\* Whoever writes a map is alone with it, inner reads of other calls included.
Exclusion ==
  \A t \in Threads, m \in Maps :
    Holds(t, m) => \A u \in Threads : readers[m][u] = 0

\* t cannot go on before u does.
WaitsFor(t, u) ==
  \/ pc[t] = "wants" /\ ~IsReader(t) /\ writer[On(t)] = u
  \/ pc[t] = "drains" /\ readers[On(t)][u] > 0
  \/ \E m \in Maps : Blocked(t, m) /\ writer[m] = u

\* Threads each of which waits for another of them.
IsKnot(S) == S # {} /\ \A t \in S : \E u \in S : WaitsFor(t, u)

Knotted(t) == \E S \in SUBSET Threads : IsKnot(S) /\ t \in S

\* Dumps or Values, whose inner read is behind a writer that waits for its outer one.
ReadsTwice(t) == call[t].op \in Nested /\ pc[t] = "innerWaits"

\* Updates each of which reads a map that another of them, or it itself, writes.
UpdateRing(S) ==
  /\ S # {}
  /\ \A t \in S : /\ call[t].op = "Update" /\ pc[t] = "innerWaits"
                  /\ writer[call[t].with] \in S

\* Threads hang for ever only if a Dumps or a Values meets a writer of its map, or
\* Updates read each other's maps in a ring: the other calls never do on their own.
KnotNeedsNesting ==
  \A S \in SUBSET Threads :
    IsKnot(S) => (\E t \in S : ReadsTwice(t)) \/ (\E R \in SUBSET S : UpdateRing(R))

\* Values returns what one state of the map holds: the keys that it has yet to read are
\* there, and what it has read is there still.
ValuesAreOneMap ==
  \A t \in Threads :
    (call[t].op = "Values" /\ pc[t] \in {"inside", "innerWaits", "reading"} /\ 0 \notin todo[t])
      => LET f == content[On(t)] IN
         todo[t] \subseteq DOMAIN f /\ got[t] = Restrict(f, DOMAIN f \ todo[t])

\* What the atomic maps know of a call: an Update is at its map from when it may write,
\* and Values has seen the map once it has the keys. Its answer is what it has collected.
Updater(m) ==
  IF writer[m] # NoThread /\ call[writer[m]].op = "Update" /\ pc[writer[m]] # "drains"
    THEN writer[m] ELSE NoThread

Seen(t) ==
  IF call[t].op # "Values" \/ 0 \in todo[t] THEN {}
  ELSE IF todo[t] = {} THEN {got[t]} ELSE {content[On(t)]}

Left(t) == IF call[t].op # "Update" \/ 0 \in todo[t] THEN {} ELSE {todo[t]}

Atomic == INSTANCE AtomicMaps WITH
  Reads <- Reads \cup {"Dumps"},
  map <- content,
  updater <- [m \in Maps |-> Updater(m)],
  asked <- call,
  seen <- [t \in Threads |-> Seen(t)],
  left <- [t \in Threads |-> Left(t)]

\* Every call but Update takes effect at one moment between its beginning and its end,
\* Values, which locks once for each key, included, and nobody meets an Update halfway.
ImplementsAtomicMaps == Atomic!Spec

\* Every call ends, unless it hangs in a knot or behind one.
CallsEnd == \A t \in Threads : pc[t] # "idle" ~> (pc[t] = "idle" \/ Knotted(t))
=============================================================================
