----------------------------- MODULE SignalBus -----------------------------
(***************************************************************************)
(* What a signal manager promises, from interface.go: a signal is handed   *)
(* to each receiver connected to it at most once, receivers of a smaller   *)
(* index before those of a larger one, and receivers of one index at the   *)
(* same time. SignalManager implements it.                                 *)
(***************************************************************************)
EXTENDS Integers

CONSTANTS Signals, Receivers,
          Accepts,  \* [Signals -> SUBSET Receivers]
          Index     \* [Receivers -> Int]

VARIABLES offered,  \* the signals the manager has taken
          calling,  \* pairs <<signal, receiver>>: the receiver is being called
          over,     \* pairs: the call has ended, or was passed over
          dropped   \* the signals that a receiver has dropped

vars == <<offered, calling, over, dropped>>

Init == offered = {} /\ calling = {} /\ over = {} /\ dropped = {}

Offer(s) ==
  /\ s \notin offered
  /\ offered' = offered \cup {s}
  /\ UNCHANGED <<calling, over, dropped>>

\* The receivers of a smaller index have all had their turn.
Turn(s, r) ==
  /\ s \in offered
  /\ r \in Accepts[s]
  /\ <<s, r>> \notin calling \cup over
  /\ \A q \in Accepts[s] : Index[q] < Index[r] => <<s, q>> \in over

\* Once a receiver has dropped the signal, only those of its own index are called.
MayCall(s, r) ==
  /\ Turn(s, r)
  /\ s \in dropped =>
       \E q \in Accepts[s] : Index[q] = Index[r] /\ <<s, q>> \in over

Call(s, r) ==
  /\ MayCall(s, r)
  /\ calling' = calling \cup {<<s, r>>}
  /\ UNCHANGED <<offered, over, dropped>>

\* A manager that is stopping may leave a receiver out.
PassOver(s, r) ==
  /\ Turn(s, r)
  /\ over' = over \cup {<<s, r>>}
  /\ UNCHANGED <<offered, calling, dropped>>

End(s, r) ==
  /\ <<s, r>> \in calling
  /\ calling' = calling \ {<<s, r>>}
  /\ over' = over \cup {<<s, r>>}
  /\ dropped' \in {dropped, dropped \cup {s}}
  /\ UNCHANGED offered

Next ==
  \E s \in Signals :
    \/ Offer(s)
    \/ \E r \in Receivers : Call(s, r) \/ PassOver(s, r) \/ End(s, r)

Spec == Init /\ [][Next]_vars
=============================================================================
