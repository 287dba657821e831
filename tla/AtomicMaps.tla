---------------------------- MODULE AtomicMaps ----------------------------
(***************************************************************************)
(* What SyncJsonMap promises to goroutines that share maps, whatever locks *)
(* it takes: each call takes effect in one step between its beginning and  *)
(* its end. Two calls take longer. Values answers at its end what the map  *)
(* held at one moment since its beginning. Update takes over, one by one,  *)
(* the keys that another map had at one moment, each with the value that   *)
(* it has by then, and gives up at one that is gone; but nobody reads or   *)
(* writes its own map meanwhile, nor does it read a map that another       *)
(* Update is at. JsonMap implements it.                                    *)
(***************************************************************************)
CONSTANTS Threads, Maps, Calls, NoThread, NoCall,
          Reads,          \* the calls that read a map at once
          Writes,         \* and those that write it
          Empty,
          Written(_, _)   \* what a writing call leaves of a map

VARIABLES map,      \* what each map holds
          updater,  \* whose Update is at each map
          asked,    \* the call that each thread is in
          seen,     \* {}, or the one thing that its Values has seen
  left      \* {}, or the one set of keys that its Update has left

vars == <<map, updater, asked, seen, left>>

Init ==
  /\ map = [m \in Maps |-> Empty]
  /\ updater = [m \in Maps |-> NoThread]
  /\ asked = [t \in Threads |-> NoCall]
  /\ seen = [t \in Threads |-> {}]
  /\ left = [t \in Threads |-> {}]

Ask(t, c) ==
  /\ asked[t] = NoCall
  /\ c \in Calls[t]
  /\ asked' = [asked EXCEPT ![t] = c]
  /\ UNCHANGED <<map, updater, seen, left>>

IsOver(t) == asked' = [asked EXCEPT ![t] = NoCall]

\* No Update is halfway through the map.
IsWhole(m) == updater[m] = NoThread

Read(t) ==
  /\ asked[t].op \in Reads
  /\ IsWhole(asked[t].on)
  /\ IsOver(t)
  /\ UNCHANGED <<map, updater, seen, left>>

Write(t) ==
  LET m == asked[t].on IN
  /\ asked[t].op \in Writes
  /\ IsWhole(m)
  /\ map' = [map EXCEPT ![m] = Written(asked[t], @)]
  /\ IsOver(t)
  /\ UNCHANGED <<updater, seen, left>>

SeeValues(t) ==
  LET m == asked[t].on IN
  /\ asked[t].op = "Values"
  /\ seen[t] = {}
  /\ IsWhole(m)
  /\ seen' = [seen EXCEPT ![t] = {map[m]}]
  /\ UNCHANGED <<map, updater, asked, left>>

ReturnValues(t) ==
  /\ asked[t].op = "Values"
  /\ seen[t] # {}
  /\ seen' = [seen EXCEPT ![t] = {}]
  /\ IsOver(t)
  /\ UNCHANGED <<map, updater, left>>

BeginUpdate(t) ==
  LET m == asked[t].on IN
  /\ asked[t].op = "Update"
  /\ IsWhole(m)
  /\ updater' = [updater EXCEPT ![m] = t]
  /\ UNCHANGED <<map, asked, seen, left>>

IsUpdating(t) == asked[t].op = "Update" /\ updater[asked[t].on] = t

NameKeys(t) ==
  /\ IsUpdating(t)
  /\ left[t] = {}
  /\ IsWhole(asked[t].with)
  /\ left' = [left EXCEPT ![t] = {DOMAIN map[asked[t].with]}]
  /\ UNCHANGED <<map, updater, asked, seen>>

TakeOver(t, keys, k) ==
  LET f == map[asked[t].with] IN
  /\ IsUpdating(t)
  /\ k \in keys \cap DOMAIN f
  /\ IsWhole(asked[t].with)
  /\ map' = [map EXCEPT ![asked[t].on] =
               [j \in DOMAIN @ \cup {k} |-> IF j = k THEN f[k] ELSE @[j]]]
  /\ left' = [left EXCEPT ![t] = {keys \ {k}}]
  /\ UNCHANGED <<updater, asked, seen>>

GiveUp(t, keys) ==
  /\ IsUpdating(t)
  /\ ~(keys \subseteq DOMAIN map[asked[t].with])
  /\ IsWhole(asked[t].with)
  /\ left' = [left EXCEPT ![t] = {{}}]
  /\ UNCHANGED <<map, updater, asked, seen>>

EndUpdate(t) ==
  /\ IsUpdating(t)
  /\ left[t] = {{}}
  /\ left' = [left EXCEPT ![t] = {}]
  /\ updater' = [updater EXCEPT ![asked[t].on] = NoThread]
  /\ IsOver(t)
  /\ UNCHANGED <<map, seen>>

Next ==
  \E t \in Threads :
    \/ \E c \in Calls[t] : Ask(t, c)
    \/ Read(t) \/ Write(t)
    \/ SeeValues(t) \/ ReturnValues(t)
    \/ BeginUpdate(t) \/ NameKeys(t) \/ EndUpdate(t)
    \/ \E keys \in left[t] : GiveUp(t, keys) \/ \E k \in keys : TakeOver(t, keys, k)

Spec == Init /\ [][Next]_vars
=============================================================================
