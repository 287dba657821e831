--------------------------- MODULE JsonMapProofs ---------------------------
(***************************************************************************)
(* Proofs about JsonMap, for any threads, maps, keys and calls, and about  *)
(* JsonContents, for any values and for integers and floats of any widths. *)
(***************************************************************************)
EXTENDS JsonContents, TLAPS, WellFoundedInduction

\* The threads that have a map's writer mutex, and those that have its read lock for
\* their call and for an inner read.
Writing(t, m) ==
  /\ pc[t] \in {"drains", "inside", "innerWaits", "reading"}
  /\ ~IsReader(t) /\ On(t) = m

Outer(t, m) ==
  /\ pc[t] \in {"inside", "innerWaits", "reading"}
  /\ IsReader(t) /\ On(t) = m

InnerRead(t, m) == pc[t] = "reading" /\ Inner(t) = m

Count(b) == IF b THEN 1 ELSE 0

LockTypes ==
  /\ writer \in [Maps -> Threads \cup {NoThread}]
  /\ readers \in [Maps -> [Threads -> Nat]]
  /\ call \in [Threads -> Call \cup {NoCall}]
  /\ pc \in [Threads -> PC]

CallsOK ==
  \A t \in Threads :
    /\ pc[t] # "idle" => call[t] \in Call
    /\ pc[t] = "waits" => IsReader(t)
    /\ pc[t] = "drains" => ~IsReader(t)
    /\ pc[t] \in {"innerWaits", "reading"} => call[t].op \in Nested \cup {"Update"}

WritersOK ==
  \A t \in Threads, m \in Maps : writer[m] = t <=> Writing(t, m)

ReadersOK ==
  \A t \in Threads, m \in Maps :
    readers[m][t] = Count(Outer(t, m)) + Count(InnerRead(t, m))

LockInv == LockTypes /\ CallsOK /\ WritersOK /\ ReadersOK /\ Exclusion

-----------------------------------------------------------------------------
(* The fields of a call.                                                   *)

LEMMA CallFields ==
  ASSUME NEW c \in Call
  PROVE  /\ c.op \in Reads \cup Writes \cup Nested \cup {"Update"}
         /\ c.on \in Maps /\ c.with \in Maps /\ c.key \in Keys /\ c.value \in Inputs
         /\ c.all \in UNION {[D -> Inputs] : D \in SUBSET Keys}
BY DEF Call

\* A thread in a call has its maps.
LEMMA CallMaps ==
  ASSUME CallsOK, NEW t \in Threads, pc[t] # "idle"
  PROVE  On(t) \in Maps /\ Inner(t) \in Maps
BY CallFields DEF CallsOK, On, Inner

LEMMA InitLocks == Init => LockInv
<1> SUFFICES ASSUME Init PROVE LockInv
  OBVIOUS
<1> USE JsonMapAssumption DEF Init
<1>1. \A t \in Threads : pc[t] = "idle"
  OBVIOUS
<1>2. LockTypes
  BY DEF LockTypes, PC
<1>3. CallsOK /\ WritersOK /\ Exclusion
  BY <1>1 DEF CallsOK, WritersOK, Writing, Exclusion, Holds
<1>4. ReadersOK
  BY <1>1 DEF ReadersOK, Outer, InnerRead, Count
<1> QED
  BY <1>2, <1>3, <1>4 DEF LockInv

-----------------------------------------------------------------------------
(* The steps.                                                              *)

\* The other threads of a step that changes one thread's place only.
LEMMA OthersStay ==
  ASSUME LockTypes, NEW t \in Threads, NEW at \in PC, pc' = [pc EXCEPT ![t] = at],
         UNCHANGED call
  PROVE  /\ pc' \in [Threads -> PC] /\ pc'[t] = at
         /\ On(t)' = On(t) /\ Inner(t)' = Inner(t) /\ (IsReader(t)' <=> IsReader(t))
         /\ \A u \in Threads \ {t} :
              /\ pc'[u] = pc[u] /\ On(u)' = On(u) /\ Inner(u)' = Inner(u)
              /\ IsReader(u)' <=> IsReader(u)
         /\ \A u \in Threads \ {t}, m \in Maps :
              /\ Writing(u, m)' <=> Writing(u, m)
              /\ Outer(u, m)' <=> Outer(u, m)
              /\ InnerRead(u, m)' <=> InnerRead(u, m)
BY DEF LockTypes, On, Inner, IsReader, Writing, Outer, InnerRead

LEMMA BeginsLocks ==
  ASSUME NEW t \in Threads, NEW c \in Calls[t] PROVE LockInv /\ Begins(t, c) => LockInv'
<1> SUFFICES ASSUME LockInv, Begins(t, c) PROVE LockInv'
  OBVIOUS
<1> USE DEF LockInv, Begins, locks
<1>1. c \in Call
  BY JsonMapAssumption
<1>2. LockTypes'
  BY <1>1 DEF LockTypes, PC
<1>3. /\ pc[t] = "idle" /\ pc'[t] = "wants" /\ call'[t] = c
      /\ \A u \in Threads \ {t} : pc'[u] = pc[u] /\ call'[u] = call[u]
  BY DEF LockTypes
<1>4. CallsOK'
  BY <1>1, <1>3 DEF CallsOK, IsReader
<1>5. \A u \in Threads, m \in Maps :
        /\ Writing(u, m)' <=> Writing(u, m)
        /\ Outer(u, m)' <=> Outer(u, m)
        /\ InnerRead(u, m)' <=> InnerRead(u, m)
  BY <1>3 DEF Writing, Outer, InnerRead, On, Inner, IsReader
<1>6. WritersOK' /\ ReadersOK'
  BY <1>5 DEF WritersOK, ReadersOK, Count
<1>7. Exclusion'
  BY <1>3, <1>5 DEF Exclusion, Holds, WritersOK, Writing
<1> QED
  BY <1>2, <1>4, <1>6, <1>7

LEMMA DrainedLocks == ASSUME NEW t \in Threads PROVE LockInv /\ Drained(t) => LockInv'
<1> SUFFICES ASSUME LockInv, Drained(t) PROVE LockInv'
  OBVIOUS
<1> USE DEF LockInv, Drained, locks
<1>1. "inside" \in PC
  BY DEF PC
<1>2. LockTypes'
  BY <1>1 DEF LockTypes
<1>3. CallsOK'
  BY <1>1, OthersStay DEF CallsOK, LockTypes, IsReader
<1>4. ~IsReader(t) /\ pc'[t] = "inside"
  BY DEF CallsOK, LockTypes
<1>5. \A u \in Threads, m \in Maps :
        /\ Writing(u, m)' <=> Writing(u, m)
        /\ Outer(u, m)' <=> Outer(u, m)
        /\ InnerRead(u, m)' <=> InnerRead(u, m)
  <2> SUFFICES ASSUME NEW u \in Threads, NEW m \in Maps
               PROVE  /\ Writing(u, m)' <=> Writing(u, m)
                      /\ Outer(u, m)' <=> Outer(u, m)
                      /\ InnerRead(u, m)' <=> InnerRead(u, m)
    OBVIOUS
  <2>1. CASE u = t
    BY <1>1, <1>4, <2>1 DEF Writing, Outer, InnerRead, On, IsReader
  <2>2. CASE u # t
    BY <1>1, <2>2, OthersStay
  <2> QED
    BY <2>1, <2>2
<1>6. WritersOK' /\ ReadersOK'
  BY <1>5 DEF WritersOK, ReadersOK, Count
<1>7. Exclusion'
  BY <1>1, OthersStay DEF Exclusion, Holds, WritersOK, Writing
<1> QED
  BY <1>2, <1>3, <1>6, <1>7

LEMMA WriterLocksLocks == ASSUME NEW t \in Threads PROVE LockInv /\ WriterLocks(t) => LockInv'
<1> SUFFICES ASSUME LockInv, WriterLocks(t) PROVE LockInv'
  OBVIOUS
<1> USE DEF LockInv, WriterLocks
<1>1. "drains" \in PC
  BY DEF PC
<1> PICK m \in Maps : m = On(t)
  BY CallMaps
<1>2. writer[m] = NoThread /\ writer' = [writer EXCEPT ![m] = t] /\ NoThread \notin Threads
  BY JsonMapAssumption
<1>3. LockTypes'
  BY <1>1, <1>2 DEF LockTypes
<1>4. CallsOK'
  BY <1>1, OthersStay DEF CallsOK, LockTypes, IsReader
<1>5. WritersOK'
  <2> SUFFICES ASSUME NEW u \in Threads, NEW n \in Maps
               PROVE  writer'[n] = u <=> Writing(u, n)'
    BY DEF WritersOK
  <2>1. writer'[n] = IF n = m THEN t ELSE writer[n]
    BY <1>2 DEF LockTypes
  <2>2. CASE u = t
    <3>1. ~Writing(t, n) /\ (Writing(t, n)' <=> n = m)
      BY <1>1, OthersStay DEF Writing
    <3> QED
      BY <2>1, <2>2, <3>1 DEF WritersOK
  <2>3. CASE u # t
    <3>1. Writing(u, n)' <=> writer[n] = u
      BY <1>1, <2>3, OthersStay DEF WritersOK
    <3>2. n = m => writer[n] # u /\ writer'[n] # u
      BY <1>2, <2>1, <2>3
    <3> QED
      BY <2>1, <3>1, <3>2
  <2> QED
    BY <2>2, <2>3
<1>6. ReadersOK'
  BY <1>1, OthersStay DEF ReadersOK, Outer, InnerRead, Count
<1>7. Exclusion'
  BY <1>1, <1>2, OthersStay DEF Exclusion, Holds, LockTypes
<1> QED
  BY <1>3, <1>4, <1>5, <1>6, <1>7

\* A step of a thread that takes or gives a read lock, and changes nothing else.
LEMMA ReaderStep ==
  ASSUME LockInv, NEW t \in Threads,
         pc' \in [Threads -> PC], call' \in [Threads -> Call \cup {NoCall}],
         \A u \in Threads \ {t} : pc'[u] = pc[u] /\ call'[u] = call[u],
         UNCHANGED writer, readers' \in [Maps -> [Threads -> Nat]],
         \A u \in Threads \ {t}, n \in Maps : readers'[n][u] = readers[n][u],
         \A n \in Maps :
           /\ readers'[n][t] = Count(Outer(t, n)') + Count(InnerRead(t, n)')
           /\ readers'[n][t] > readers[n][t] => writer[n] = NoThread
           /\ Writing(t, n)' <=> Writing(t, n),
         pc[t] # "drains", pc'[t] # "drains",
         pc'[t] # "idle" => call'[t] = call[t] /\ pc[t] # "idle",
         pc'[t] = "waits" => IsReader(t),
         pc'[t] \in {"innerWaits", "reading"} => call[t].op \in Nested \cup {"Update"}
  PROVE  LockInv'
<1> USE DEF LockInv
<1>1. LockTypes'
  BY DEF LockTypes
<1>2. \A u \in Threads \ {t}, n \in Maps :
        /\ Writing(u, n)' <=> Writing(u, n)
        /\ Outer(u, n)' <=> Outer(u, n)
        /\ InnerRead(u, n)' <=> InnerRead(u, n)
  BY DEF Writing, Outer, InnerRead, On, Inner, IsReader
<1>3. WritersOK'
  BY <1>2 DEF WritersOK
<1>4. ReadersOK'
  <2> SUFFICES ASSUME NEW u \in Threads, NEW n \in Maps
               PROVE  readers'[n][u] = Count(Outer(u, n)') + Count(InnerRead(u, n)')
    BY DEF ReadersOK, Count
  <2>1. CASE u = t
    BY <2>1
  <2>2. CASE u # t
    BY <1>2, <2>2 DEF ReadersOK, Count
  <2> QED
    BY <2>1, <2>2
<1>5. CallsOK'
  <2> SUFFICES ASSUME NEW u \in Threads
               PROVE  /\ pc'[u] # "idle" => call'[u] \in Call
                      /\ pc'[u] = "waits" => IsReader(u)'
                      /\ pc'[u] = "drains" => ~IsReader(u)'
                      /\ pc'[u] \in {"innerWaits", "reading"} =>
                           call'[u].op \in Nested \cup {"Update"}
    BY DEF CallsOK
  <2>1. CASE u = t
    BY <2>1 DEF CallsOK, IsReader
  <2>2. CASE u # t
    BY <2>2 DEF CallsOK, IsReader
  <2> QED
    BY <2>1, <2>2
<1>6. Exclusion'
  <2> SUFFICES ASSUME NEW u \in Threads, NEW n \in Maps, Holds(u, n)', NEW v \in Threads
               PROVE  readers'[n][v] = 0
    BY DEF Exclusion
  <2>1. Holds(u, n) /\ writer[n] # NoThread
    BY JsonMapAssumption DEF Holds
  <2>2. readers[n][v] = 0
    BY <2>1 DEF Exclusion
  <2>3. CASE v = t
    BY <2>1, <2>2, <2>3 DEF LockTypes
  <2>4. CASE v # t
    BY <2>2, <2>4
  <2> QED
    BY <2>3, <2>4
<1> QED
  BY <1>1, <1>3, <1>4, <1>5, <1>6

LEMMA ReaderLocksLocks == ASSUME NEW t \in Threads PROVE LockInv /\ ReaderLocks(t) => LockInv'
<1> SUFFICES ASSUME LockInv, ReaderLocks(t) PROVE LockInv'
  OBVIOUS
<1> PICK m \in Maps : m = On(t)
  BY CallMaps DEF LockInv, ReaderLocks
<1>1. /\ pc[t] = "wants" /\ IsReader(t) /\ UNCHANGED writer /\ UNCHANGED call
      /\ \/ /\ writer[m] = NoThread
            /\ readers' = [readers EXCEPT ![m][t] = @ + 1]
            /\ pc' = [pc EXCEPT ![t] = "inside"]
         \/ UNCHANGED readers /\ pc' = [pc EXCEPT ![t] = "waits"]
  BY DEF ReaderLocks, RLock
<1>2. \A n \in Maps : readers[n][t] = 0 /\ ~Writing(t, n)
  BY <1>1 DEF LockInv, ReadersOK, Outer, InnerRead, Count, Writing
<1>3. /\ pc' \in [Threads -> PC] /\ call' \in [Threads -> Call \cup {NoCall}]
      /\ \A u \in Threads \ {t} : pc'[u] = pc[u] /\ call'[u] = call[u]
      /\ pc'[t] \in {"inside", "waits"}
  BY <1>1 DEF LockInv, LockTypes, PC
<1>4. /\ readers' \in [Maps -> [Threads -> Nat]]
      /\ \A u \in Threads \ {t}, n \in Maps : readers'[n][u] = readers[n][u]
      /\ \A n \in Maps : readers'[n][t] = IF pc'[t] = "inside" /\ n = m THEN 1 ELSE 0
      /\ pc'[t] = "inside" => writer[m] = NoThread
  BY <1>1, <1>2 DEF LockInv, LockTypes
<1>5. \A n \in Maps : /\ Outer(t, n)' <=> pc'[t] = "inside" /\ n = m
                      /\ ~InnerRead(t, n)' /\ ~Writing(t, n)'
  BY <1>1, <1>3 DEF Outer, InnerRead, Writing, On, IsReader
<1>6. \A n \in Maps :
        /\ readers'[n][t] = Count(Outer(t, n)') + Count(InnerRead(t, n)')
        /\ readers'[n][t] > readers[n][t] => writer[n] = NoThread
        /\ Writing(t, n)' <=> Writing(t, n)
  BY <1>2, <1>4, <1>5 DEF Count
<1> QED
  BY <1>1, <1>3, <1>4, <1>6, ReaderStep

LEMMA InnerLocksLocks == ASSUME NEW t \in Threads PROVE LockInv /\ InnerLocks(t) => LockInv'
<1> SUFFICES ASSUME LockInv, InnerLocks(t) PROVE LockInv'
  OBVIOUS
<1> PICK m \in Maps : m = Inner(t)
  BY CallMaps DEF LockInv, InnerLocks
<1>1. /\ pc[t] = "inside" /\ UNCHANGED writer /\ UNCHANGED call
      /\ call[t].op \in Nested \cup {"Update"}
      /\ \/ /\ writer[m] = NoThread
            /\ readers' = [readers EXCEPT ![m][t] = @ + 1]
            /\ pc' = [pc EXCEPT ![t] = "reading"]
         \/ UNCHANGED readers /\ pc' = [pc EXCEPT ![t] = "innerWaits"]
  BY DEF InnerLocks, RLock
<1>2. \A n \in Maps : readers[n][t] = Count(Outer(t, n)) /\ Count(Outer(t, n)) \in {0, 1}
  BY <1>1 DEF LockInv, ReadersOK, InnerRead, Count
<1>3. /\ pc' \in [Threads -> PC] /\ call' \in [Threads -> Call \cup {NoCall}]
      /\ \A u \in Threads \ {t} : pc'[u] = pc[u] /\ call'[u] = call[u]
      /\ pc'[t] \in {"reading", "innerWaits"}
  BY <1>1 DEF LockInv, LockTypes, PC
<1>4. /\ readers' \in [Maps -> [Threads -> Nat]]
      /\ \A u \in Threads \ {t}, n \in Maps : readers'[n][u] = readers[n][u]
      /\ \A n \in Maps : readers'[n][t] = IF pc'[t] = "reading" /\ n = m
                                          THEN readers[n][t] + 1 ELSE readers[n][t]
      /\ pc'[t] = "reading" => writer[m] = NoThread
  BY <1>1, <1>2 DEF LockInv, LockTypes
<1>5. \A n \in Maps : /\ Outer(t, n)' <=> Outer(t, n)
                      /\ InnerRead(t, n)' <=> pc'[t] = "reading" /\ n = m
                      /\ Writing(t, n)' <=> Writing(t, n)
  BY <1>1, <1>3 DEF Outer, InnerRead, Writing, On, Inner, IsReader
<1>6. \A n \in Maps :
        /\ readers'[n][t] = Count(Outer(t, n)') + Count(InnerRead(t, n)')
        /\ readers'[n][t] > readers[n][t] => writer[n] = NoThread
        /\ Writing(t, n)' <=> Writing(t, n)
  <2> SUFFICES ASSUME NEW n \in Maps
               PROVE  /\ readers'[n][t] = Count(Outer(t, n)') + Count(InnerRead(t, n)')
                      /\ readers'[n][t] > readers[n][t] => writer[n] = NoThread
                      /\ Writing(t, n)' <=> Writing(t, n)
    OBVIOUS
  <2>1. Writing(t, n)' <=> Writing(t, n)
    BY <1>5
  <2>2. readers[n][t] \in {0, 1} /\ readers[n][t] = Count(Outer(t, n)')
    BY <1>2, <1>5 DEF Count
  <2>3. CASE pc'[t] = "reading" /\ n = m
    <3>1. Count(InnerRead(t, n)') = 1
      BY <1>5, <2>3 DEF Count
    <3> QED
      BY <1>4, <2>1, <2>2, <2>3, <3>1
  <2>4. CASE ~(pc'[t] = "reading" /\ n = m)
    <3>1. Count(InnerRead(t, n)') = 0
      BY <1>5, <2>4 DEF Count
    <3> QED
      BY <1>4, <2>1, <2>2, <2>4, <3>1
  <2> QED
    BY <2>3, <2>4
<1> QED
  BY <1>1, <1>3, <1>4, <1>6, ReaderStep

LEMMA InnerReadsLocks == ASSUME NEW t \in Threads PROVE LockInv /\ InnerReads(t) => LockInv'
<1> SUFFICES ASSUME LockInv, InnerReads(t) PROVE LockInv'
  OBVIOUS
<1> PICK m \in Maps : m = Inner(t)
  BY CallMaps DEF LockInv, InnerReads
<1>1. /\ pc[t] = "reading" /\ UNCHANGED writer /\ UNCHANGED call
      /\ readers' = [readers EXCEPT ![m][t] = @ - 1]
      /\ pc' = [pc EXCEPT ![t] = "inside"]
  BY DEF InnerReads, RUnlock
<1>2. \A n \in Maps : /\ readers[n][t] = Count(Outer(t, n)) + (IF n = m THEN 1 ELSE 0)
                      /\ Count(Outer(t, n)) \in {0, 1}
  BY <1>1 DEF LockInv, ReadersOK, InnerRead, Count
<1>3. /\ pc' \in [Threads -> PC] /\ call' \in [Threads -> Call \cup {NoCall}]
      /\ \A u \in Threads \ {t} : pc'[u] = pc[u] /\ call'[u] = call[u]
      /\ pc'[t] = "inside"
  BY <1>1 DEF LockInv, LockTypes, PC
<1>4. /\ readers' \in [Maps -> [Threads -> Nat]]
      /\ \A u \in Threads \ {t}, n \in Maps : readers'[n][u] = readers[n][u]
      /\ \A n \in Maps : readers'[n][t] = Count(Outer(t, n))
  BY <1>1, <1>2 DEF LockInv, LockTypes
<1>5. \A n \in Maps : /\ Outer(t, n)' <=> Outer(t, n)
                      /\ ~InnerRead(t, n)'
                      /\ Writing(t, n)' <=> Writing(t, n)
  BY <1>1, <1>3 DEF Outer, InnerRead, Writing, On, Inner, IsReader
<1>6. \A n \in Maps :
        /\ readers'[n][t] = Count(Outer(t, n)') + Count(InnerRead(t, n)')
        /\ readers'[n][t] > readers[n][t] => writer[n] = NoThread
        /\ Writing(t, n)' <=> Writing(t, n)
  BY <1>2, <1>4, <1>5 DEF Count
<1> QED
  BY <1>1, <1>3, <1>4, <1>6, ReaderStep

\* The RUnlock that ends a reading call.
LEMMA ReaderEnds ==
  ASSUME LockInv, NEW t \in Threads, pc[t] = "inside", IsReader(t),
         RUnlock(t, On(t), "idle"), call' = [call EXCEPT ![t] = NoCall]
  PROVE  LockInv'
<1> PICK m \in Maps : m = On(t)
  BY CallMaps DEF LockInv
<1>1. /\ UNCHANGED writer /\ readers' = [readers EXCEPT ![m][t] = @ - 1]
      /\ pc' = [pc EXCEPT ![t] = "idle"]
  BY DEF RUnlock
<1>2. \A n \in Maps : readers[n][t] = (IF n = m THEN 1 ELSE 0) /\ ~Writing(t, n)
  BY DEF LockInv, ReadersOK, Outer, InnerRead, Count, Writing
<1>3. /\ pc' \in [Threads -> PC] /\ call' \in [Threads -> Call \cup {NoCall}]
      /\ \A u \in Threads \ {t} : pc'[u] = pc[u] /\ call'[u] = call[u]
      /\ pc'[t] = "idle"
  BY <1>1 DEF LockInv, LockTypes, PC
<1>4. /\ readers' \in [Maps -> [Threads -> Nat]]
      /\ \A u \in Threads \ {t}, n \in Maps : readers'[n][u] = readers[n][u]
      /\ \A n \in Maps : readers'[n][t] = 0
  BY <1>1, <1>2 DEF LockInv, LockTypes
<1>5. \A n \in Maps :
        /\ readers'[n][t] = Count(Outer(t, n)') + Count(InnerRead(t, n)')
        /\ readers'[n][t] > readers[n][t] => writer[n] = NoThread
        /\ Writing(t, n)' <=> Writing(t, n)
  BY <1>2, <1>3, <1>4 DEF Outer, InnerRead, Writing, Count
<1> QED
  BY <1>1, <1>3, <1>4, <1>5, ReaderStep

\* The Unlock that ends a writing call, and lets the blocked readers in.
LEMMA WriterEnds ==
  ASSUME LockInv, NEW t \in Threads, pc[t] = "inside", ~IsReader(t),
         Unlock(t, On(t)), call' = [call EXCEPT ![t] = NoCall]
  PROVE  LockInv'
<1> USE DEF LockInv
<1> PICK m \in Maps : m = On(t)
  BY CallMaps
<1>1. Writing(t, m) /\ writer[m] = t
  BY DEF WritersOK, Writing
<1>2. \A u \in Threads : readers[m][u] = 0
  BY <1>1 DEF Exclusion, Holds
<1>3. /\ writer' = [writer EXCEPT ![m] = NoThread]
      /\ readers' = [readers EXCEPT ![m] =
                       [u \in Threads |-> IF Blocked(u, m) THEN @[u] + 1 ELSE @[u]]]
      /\ pc' = [u \in Threads |->
                  IF u = t THEN "idle"
                  ELSE IF ~Blocked(u, m) THEN pc[u]
                  ELSE IF pc[u] = "waits" THEN "inside" ELSE "reading"]
  BY DEF Unlock
<1>4. ~Blocked(t, m)
  BY DEF Blocked
<1>5. /\ readers' \in [Maps -> [Threads -> Nat]]
      /\ \A u \in Threads : readers'[m][u] = IF Blocked(u, m) THEN 1 ELSE 0
      /\ \A u \in Threads, n \in Maps \ {m} : readers'[n][u] = readers[n][u]
  BY <1>2, <1>3 DEF LockTypes
<1>6. LockTypes'
  BY <1>3, <1>5 DEF LockTypes, PC
<1>7. /\ pc'[t] = "idle" /\ call'[t] = NoCall
      /\ \A u \in Threads \ {t} :
           /\ call'[u] = call[u]
           /\ ~Blocked(u, m) => pc'[u] = pc[u]
           /\ Blocked(u, m) =>
                \/ pc[u] = "waits" /\ pc'[u] = "inside" /\ On(u) = m
                \/ pc[u] = "innerWaits" /\ pc'[u] = "reading" /\ Inner(u) = m
  BY <1>3 DEF LockTypes, Blocked
<1>8. \A u \in Threads \ {t} :
        /\ On(u)' = On(u) /\ Inner(u)' = Inner(u)
        /\ IsReader(u)' <=> IsReader(u)
  BY <1>7 DEF On, Inner, IsReader
<1>9. CallsOK'
  BY <1>7 DEF CallsOK, IsReader
<1>10. \A u \in Threads \ {t}, n \in Maps : Writing(u, n)' <=> Writing(u, n)
  BY <1>7, <1>8 DEF Writing, CallsOK
<1>11. WritersOK'
  <2> SUFFICES ASSUME NEW u \in Threads, NEW n \in Maps
               PROVE  writer'[n] = u <=> Writing(u, n)'
    BY DEF WritersOK
  <2>1. writer'[n] = IF n = m THEN NoThread ELSE writer[n]
    BY <1>3 DEF LockTypes
  <2>2. CASE u = t
    <3>1. ~Writing(t, n)' /\ (writer[n] = t => n = m)
      BY <1>1, <1>7 DEF Writing, WritersOK
    <3> QED
      BY <2>1, <2>2, <3>1, JsonMapAssumption
  <2>3. CASE u # t
    <3>1. Writing(u, n)' <=> writer[n] = u
      BY <1>10, <2>3 DEF WritersOK
    <3> QED
      BY <1>1, <2>1, <2>3, <3>1, JsonMapAssumption
  <2> QED
    BY <2>2, <2>3
<1>12. ReadersOK'
  <2> SUFFICES ASSUME NEW u \in Threads, NEW n \in Maps
               PROVE  readers'[n][u] = Count(Outer(u, n)') + Count(InnerRead(u, n)')
    BY DEF ReadersOK, Count
  <2>1. CASE u = t
    <3>1. readers[n][t] = 0
      BY DEF ReadersOK, Outer, InnerRead, Count
    <3> QED
      BY <1>4, <1>5, <1>7, <2>1, <3>1 DEF Outer, InnerRead, Count
  <2>2. CASE u # t /\ ~Blocked(u, m)
    <3>1. (Outer(u, n)' <=> Outer(u, n)) /\ (InnerRead(u, n)' <=> InnerRead(u, n))
      BY <1>7, <1>8, <2>2 DEF Outer, InnerRead
    <3>2. readers'[n][u] = readers[n][u]
      BY <1>2, <1>5, <2>2
    <3> QED
      BY <3>1, <3>2 DEF ReadersOK, Count
  <2>3. CASE u # t /\ pc[u] = "waits" /\ On(u) = m
    <3>1. (Outer(u, n)' <=> n = m) /\ ~InnerRead(u, n)' /\ ~Outer(u, n) /\ ~InnerRead(u, n)
      BY <1>7, <1>8, <2>3 DEF Outer, InnerRead, Blocked, CallsOK
    <3>2. readers[n][u] = 0 /\ readers'[n][u] = IF n = m THEN 1 ELSE readers[n][u]
      BY <1>5, <2>3, <3>1 DEF ReadersOK, Count, Blocked
    <3> QED
      BY <3>1, <3>2 DEF Count
  <2>4. CASE u # t /\ pc[u] = "innerWaits" /\ Inner(u) = m
    <3>1. (Outer(u, n)' <=> Outer(u, n)) /\ (InnerRead(u, n)' <=> n = m) /\ ~InnerRead(u, n)
      BY <1>7, <1>8, <2>4 DEF Outer, InnerRead, Blocked
    <3>2. readers'[n][u] = IF n = m THEN 1 ELSE readers[n][u]
      BY <1>5, <2>4 DEF Blocked
    <3>3. n = m => ~Outer(u, n)
      BY <1>2, <3>1 DEF ReadersOK, Count
    <3> QED
      BY <3>1, <3>2, <3>3 DEF ReadersOK, Count
  <2> QED
    BY <2>1, <2>2, <2>3, <2>4 DEF Blocked
<1>13. Exclusion'
  <2> SUFFICES ASSUME NEW u \in Threads, NEW n \in Maps, Holds(u, n)', NEW v \in Threads
               PROVE  readers'[n][v] = 0
    BY DEF Exclusion
  <2>1. n # m /\ writer[n] = u
    BY <1>3, JsonMapAssumption DEF Holds, LockTypes
  <2>2. u # t /\ pc[u] # "drains"
    BY <1>1, <1>7, <2>1 DEF Holds, WritersOK, Writing, Blocked
  <2> QED
    BY <1>5, <2>1, <2>2 DEF Exclusion, Holds
<1> QED
  BY <1>6, <1>9, <1>11, <1>12, <1>13

LEMMA CallsEndLocks ==
  ASSUME NEW t \in Threads
  PROVE  LockInv /\ (Read(t) \/ Write(t) \/ NestedEnds(t) \/ UpdateEnds(t)) => LockInv'
<1> SUFFICES ASSUME LockInv, Read(t) \/ Write(t) \/ NestedEnds(t) \/ UpdateEnds(t)
             PROVE  LockInv'
  OBVIOUS
<1>1. CASE Read(t)
  BY <1>1, ReaderEnds DEF Read, Returns, IsReader
<1>2. CASE NestedEnds(t)
  BY <1>2, ReaderEnds DEF NestedEnds, Returns, IsReader
<1>3. CASE Write(t)
  <2>1. ~IsReader(t)
    BY <1>3 DEF Write, IsReader, Writes, Reads, Nested
  <2> QED
    BY <1>3, <2>1, WriterEnds DEF Write, Returns
<1>4. CASE UpdateEnds(t)
  <2>1. ~IsReader(t)
    BY <1>4 DEF UpdateEnds, IsReader, Reads, Nested
  <2> QED
    BY <1>4, <2>1, WriterEnds DEF UpdateEnds, Returns
<1> QED
  BY <1>1, <1>2, <1>3, <1>4

LEMMA NextLocks == LockInv /\ [Next]_vars => LockInv'
<1> SUFFICES ASSUME LockInv, [Next]_vars PROVE LockInv'
  OBVIOUS
<1>1. CASE UNCHANGED vars
  BY <1>1 DEF vars, locks, threads, LockInv, LockTypes, CallsOK, WritersOK, ReadersOK, Exclusion,
              Holds, Writing, Outer, InnerRead, Count, On, Inner, IsReader
<1>2. CASE Next
  <2> PICK t \in Threads : (\E c \in Calls[t] : Begins(t, c)) \/ WriterLocks(t) \/ Goes(t)
    BY <1>2 DEF Next
  <2>1. CASE \E c \in Calls[t] : Begins(t, c)
    BY <2>1, BeginsLocks
  <2>2. CASE WriterLocks(t)
    BY <2>2, WriterLocksLocks
  <2>3. CASE Goes(t)
    BY <2>3, ReaderLocksLocks, DrainedLocks, InnerLocksLocks, InnerReadsLocks, CallsEndLocks
       DEF Goes
  <2> QED
    BY <2>1, <2>2, <2>3
<1> QED
  BY <1>1, <1>2

-----------------------------------------------------------------------------
(* What follows.                                                           *)

\* The bookkeeping of sync.RWMutex is that of the threads' places in the code: whatever
\* each thread calls, it gives back every lock that it takes.
THEOREM LocksAreCalls == Spec => []LockInv
BY InitLocks, NextLocks, PTL DEF Spec

\* Whoever writes a map (Set, Update, ...) is alone with it.
THEOREM WritersAreAlone == Spec => []Exclusion
<1>1. LockInv => Exclusion
  BY DEF LockInv
<1> QED
  BY <1>1, LocksAreCalls, PTL

\* A reader that a drained writer of a knot waits for is a Dumps or a Values which waits
\* again, so without one of these every knot hangs from an Update that waits to read.
LEMMA KnotIsNested ==
  ASSUME LockInv, NEW S \in SUBSET Threads, IsKnot(S), \A t \in S : ~ReadsTwice(t)
  PROVE  \E R \in SUBSET S : UpdateRing(R)
<1> DEFINE Stuck(t) == call[t].op = "Update" /\ pc[t] = "innerWaits"
           U == {t \in S : Stuck(t)}
<1> USE DEF LockInv
\* Nobody waits for a reader of the knot.
<1>1. ASSUME NEW t \in S, NEW u \in S, pc[t] = "drains", readers[On(t)][u] > 0
      PROVE  FALSE
  <2> PICK m \in Maps : m = On(t)
    BY <1>1, CallMaps
  <2>1. writer[m] = t
    BY <1>1 DEF WritersOK, Writing, CallsOK
  <2>2. Outer(u, m) \/ InnerRead(u, m)
    BY <1>1 DEF ReadersOK, Count
  <2>3. PICK v \in S : WaitsFor(u, v)
    BY DEF IsKnot
  <2>4. pc[u] = "innerWaits" \/ pc[u] \in {"inside", "reading"}
    BY <2>2 DEF Outer, InnerRead
  <2>5. pc[u] = "innerWaits"
    BY <2>3, <2>4 DEF WaitsFor, Blocked
  <2>6. call[u].op \in Nested
    BY <2>2, <2>5 DEF Outer, InnerRead, IsReader, CallsOK, Reads, Nested
  <2> QED
    BY <2>5, <2>6 DEF ReadsTwice
\* So whoever holds up a thread of the knot is a writer, and stuck in its Update.
<1>2. ASSUME NEW t \in S, NEW u \in S, NEW m \in Maps, writer[m] = u
      PROVE  u \in U
  <2>1. Writing(u, m)
    BY <1>2 DEF WritersOK
  <2>2. PICK v \in S : WaitsFor(u, v)
    BY DEF IsKnot
  <2>3. pc[u] # "drains"
    BY <1>1, <2>2 DEF WaitsFor, Blocked
  <2>4. pc[u] = "innerWaits"
    BY <2>1, <2>2, <2>3 DEF Writing, WaitsFor, Blocked
  <2>5. call[u].op = "Update"
    BY <2>1, <2>4 DEF Writing, IsReader, CallsOK
  <2> QED
    BY <2>4, <2>5
<1>3. ASSUME NEW t \in S
      PROVE  \E u \in U : \E m \in Maps : writer[m] = u /\ (t \in U => m = call[t].with)
  <2> PICK u \in S : WaitsFor(t, u)
    BY DEF IsKnot
  <2>1. CASE pc[t] = "wants" /\ ~IsReader(t) /\ writer[On(t)] = u
    <3>1. On(t) \in Maps
      BY <2>1, CallMaps
    <3> QED
      BY <1>2, <2>1, <3>1
  <2>2. CASE pc[t] = "drains" /\ readers[On(t)][u] > 0
    BY <1>1, <2>2
  <2>3. CASE \E m \in Maps : Blocked(t, m) /\ writer[m] = u
    <3> PICK m \in Maps : Blocked(t, m) /\ writer[m] = u
      BY <2>3
    <3>1. t \in U => m = call[t].with
      BY DEF Blocked, Inner
    <3> QED
      BY <1>2, <3>1
  <2> QED
    BY <2>1, <2>2, <2>3 DEF WaitsFor
<1>4. U # {}
  BY <1>3 DEF IsKnot
<1>5. \A t \in U : writer[call[t].with] \in U
  BY <1>3
<1>6. UpdateRing(U)
  BY <1>4, <1>5 DEF UpdateRing
<1> QED
  BY <1>6

\* Threads hang for ever only through the nested locks of Dumps and Values, or through
\* Updates that read each other's maps.
THEOREM OnlyNestingHangs == Spec => []KnotNeedsNesting
<1>1. LockInv => KnotNeedsNesting
  BY KnotIsNested DEF KnotNeedsNesting
<1> QED
  BY <1>1, LocksAreCalls, PTL

-----------------------------------------------------------------------------
(* The values.                                                             *)

DataTypes ==
  /\ content \in [Maps -> Contents]
  /\ todo \in [Threads -> SUBSET (0..NumKeys)]
  /\ got \in [Threads -> Contents]
  /\ \A t \in Threads : call[t].op = "Dumps" => todo[t] \subseteq {0}

\* A Values that has its keys, and what it has found of them.
HasKeys(t, f) ==
  /\ pc[t] \in {"inside", "innerWaits", "reading"}
  /\ 0 \notin todo[t] /\ todo[t] \subseteq DOMAIN f
  /\ got[t] = Restrict(f, DOMAIN f \ todo[t])

GotOK ==
  \A t \in Threads :
    /\ pc[t] = "idle" => call[t] = NoCall
    /\ pc[t] = "idle" \/ call[t].op # "Values" => got[t] = Empty
    /\ call[t].op = "Values" => \/ todo[t] = {0} /\ got[t] = Empty
                                \/ HasKeys(t, content[On(t)])

MapInv == LockInv /\ DataTypes /\ GotOK

LEMMA ContentsDomain ==
  ASSUME NEW f \in Contents
  PROVE  DOMAIN f \subseteq Keys /\ \A k \in DOMAIN f : f[k] \in Values
BY DEF Contents

LEMMA ContentsFunction ==
  ASSUME NEW f \in Contents PROVE f = [k \in DOMAIN f |-> f[k]]
BY DEF Contents

LEMMA ContentsOf ==
  ASSUME NEW D \in SUBSET Keys, NEW f \in [D -> Values] PROVE f \in Contents
BY DEF Contents

LEMMA EmptyContents == Empty \in Contents
<1>1. {} \in SUBSET Keys /\ Empty \in [{} -> Values]
  BY DEF Empty
<1> QED
  BY <1>1, ContentsOf

LEMMA WithContents ==
  ASSUME NEW f \in Contents, NEW k \in Keys, NEW v \in Values
  PROVE  With(f, k, v) \in Contents
<1>1. DOMAIN f \cup {k} \in SUBSET Keys
  BY ContentsDomain
<1>2. With(f, k, v) \in [DOMAIN f \cup {k} -> Values]
  BY ContentsDomain DEF With
<1> QED
  BY <1>1, <1>2, ContentsOf

LEMMA WrittenContents ==
  ASSUME NEW c \in Call, c.op \in Writes, NEW f \in Contents
  PROVE  Written(c, f) \in Contents
<1>1. CASE c.op = "Set"
  <2>1. c.value \in Accepted => Normal[c.value] \in Values
    BY DEF Values
  <2>2. Written(c, f) = IF c.value \in Accepted THEN With(f, c.key, Normal[c.value]) ELSE f
    BY <1>1 DEF Written
  <2> QED
    BY <2>1, <2>2, WithContents, CallFields
<1>2. CASE c.op = "Delete"
  <2>1. Written(c, f) = Restrict(f, DOMAIN f \ {c.key})
    BY <1>2 DEF Written
  <2>2. /\ DOMAIN f \ {c.key} \in SUBSET Keys
        /\ Restrict(f, DOMAIN f \ {c.key}) \in [DOMAIN f \ {c.key} -> Values]
    BY ContentsDomain DEF Restrict
  <2> QED
    BY <2>1, <2>2, ContentsOf
<1>3. CASE c.op = "Clear"
  BY <1>3, EmptyContents DEF Written
<1>4. CASE c.op \in {"SetMap", "Loads"}
  <2> DEFINE D == DOMAIN c.all
  <2>1. Written(c, f) = IF \A k \in D : c.all[k] \in Accepted
                          THEN [k \in D |-> Normal[c.all[k]]] ELSE f
    BY <1>4 DEF Written
  <2>2. D \in SUBSET Keys
    BY CallFields
  <2>3. (\A k \in D : c.all[k] \in Accepted) => [k \in D |-> Normal[c.all[k]]] \in [D -> Values]
    BY DEF Values
  <2> HIDE DEF D
  <2> QED
    BY <2>1, <2>2, <2>3, ContentsOf
<1> QED
  BY <1>1, <1>2, <1>3, <1>4 DEF Writes

LEMMA InitMap == Init => MapInv
<1> SUFFICES ASSUME Init PROVE MapInv
  OBVIOUS
<1>1. DataTypes
  BY EmptyContents, JsonMapAssumption DEF Init, DataTypes, NoCall
<1>2. GotOK
  BY DEF Init, GotOK, NoCall
<1> QED
  BY <1>1, <1>2, InitLocks DEF MapInv

\* A step that leaves the maps alone, and everybody's data but that of t.
LEMMA OthersGot ==
  ASSUME MapInv, NEW t \in Threads, UNCHANGED content,
         \A u \in Threads \ {t} :
           /\ call'[u] = call[u] /\ todo'[u] = todo[u] /\ got'[u] = got[u]
           /\ pc'[u] = "idle" => pc[u] = "idle"
           /\ pc[u] \in {"inside", "innerWaits", "reading"} =>
                pc'[u] \in {"inside", "innerWaits", "reading"},
         pc'[t] = "idle" => call'[t] = NoCall,
         pc'[t] = "idle" \/ call'[t].op # "Values" => got'[t] = Empty,
         call'[t].op = "Values" => \/ todo'[t] = {0} /\ got'[t] = Empty
                                  \/ HasKeys(t, content[On(t)])'
  PROVE  GotOK'
<1> SUFFICES ASSUME NEW u \in Threads
             PROVE  /\ pc'[u] = "idle" => call'[u] = NoCall
                    /\ pc'[u] = "idle" \/ call'[u].op # "Values" => got'[u] = Empty
                    /\ call'[u].op = "Values" => \/ todo'[u] = {0} /\ got'[u] = Empty
                                                \/ HasKeys(u, content[On(u)])'
  BY DEF GotOK
<1>1. CASE u = t
  BY <1>1
<1>2. CASE u # t
  BY <1>2 DEF MapInv, GotOK, HasKeys, On
<1> QED
  BY <1>1, <1>2

\* A Values that has seen its map, and a writer inside its own, are at different maps.
LEMMA SeenIsNotWritten ==
  ASSUME MapInv, NEW t \in Threads, pc[t] \in {"inside", "reading"}, ~IsReader(t),
         NEW u \in Threads, call[u].op = "Values", 0 \notin todo[u]
  PROVE  On(u) # On(t)
<1> USE DEF MapInv, LockInv
<1>1. HasKeys(u, content[On(u)])
  BY DEF GotOK
<1>2. On(u) \in Maps /\ Outer(u, On(u))
  BY <1>1, CallMaps DEF HasKeys, Outer, IsReader, Nested
<1>3. readers[On(u)][u] # 0
  BY <1>2 DEF ReadersOK, Count
<1>4. On(u) = On(t) => Holds(t, On(u))
  BY <1>2 DEF WritersOK, Writing, Holds
<1> QED
  BY <1>2, <1>3, <1>4 DEF Exclusion

\* A step of a writer that is alone with its map: the Values of others read other maps.
LEMMA WriteGot ==
  ASSUME MapInv, NEW t \in Threads, NEW m \in Maps, m = On(t),
         pc[t] \in {"inside", "reading"}, ~IsReader(t),
         \A n \in Maps \ {m} : content'[n] = content[n],
         \A u \in Threads \ {t} :
           /\ call'[u] = call[u] /\ todo'[u] = todo[u] /\ got'[u] = got[u]
           /\ pc'[u] = "idle" => pc[u] = "idle"
           /\ pc[u] \in {"inside", "innerWaits", "reading"} =>
                pc'[u] \in {"inside", "innerWaits", "reading"},
         pc'[t] = "idle" => call'[t] = NoCall, got'[t] = Empty, call'[t].op # "Values"
  PROVE  GotOK'
<1> USE DEF MapInv, LockInv
<1> SUFFICES ASSUME NEW u \in Threads
             PROVE  /\ pc'[u] = "idle" => call'[u] = NoCall
                    /\ pc'[u] = "idle" \/ call'[u].op # "Values" => got'[u] = Empty
                    /\ call'[u].op = "Values" => \/ todo'[u] = {0} /\ got'[u] = Empty
                                                \/ HasKeys(u, content[On(u)])'
  BY DEF GotOK
<1>1. CASE u = t
  BY <1>1
<1>2. CASE u # t
  <2>1. CASE call[u].op = "Values" /\ HasKeys(u, content[On(u)])
    <3>1. On(u) \in Maps /\ On(u) # m
      BY <2>1, CallMaps, SeenIsNotWritten DEF HasKeys
    <3>2. pc'[u] # "idle" /\ On(u)' = On(u)
      BY <1>2, <2>1 DEF HasKeys, On
    <3> QED
      BY <1>2, <2>1, <3>1, <3>2 DEF HasKeys
  <2>2. CASE ~(call[u].op = "Values" /\ HasKeys(u, content[On(u)]))
    BY <1>2, <2>2 DEF GotOK
  <2> QED
    BY <2>1, <2>2
<1> QED
  BY <1>1, <1>2

\* Unlock moves other threads forward only, and ends nobody else's call.
LEMMA UnlockPlaces ==
  ASSUME LockTypes, NEW t \in Threads, NEW m \in Maps, Unlock(t, m)
  PROVE  /\ pc'[t] = "idle"
         /\ \A u \in Threads \ {t} :
              /\ pc'[u] = "idle" => pc[u] = "idle"
              /\ pc[u] \in {"inside", "innerWaits", "reading"} =>
                   pc'[u] \in {"inside", "innerWaits", "reading"}
BY DEF LockTypes, Unlock, Blocked

LEMMA BeginsMap ==
  ASSUME MapInv, NEW t \in Threads, NEW c \in Calls[t], Begins(t, c)
  PROVE  DataTypes' /\ GotOK'
<1> USE DEF MapInv, LockInv, Begins
<1>1. DataTypes'
  BY JsonMapAssumption DEF DataTypes, LockTypes, Nested
<1>2. /\ pc[t] = "idle" /\ pc'[t] = "wants" /\ got'[t] = Empty /\ call'[t] = c
      /\ c.op = "Values" => todo'[t] = {0}
  BY DEF LockTypes, DataTypes, GotOK, Nested
<1>3. \A u \in Threads \ {t} :
        call'[u] = call[u] /\ todo'[u] = todo[u] /\ got'[u] = got[u] /\ pc'[u] = pc[u]
  BY DEF LockTypes, DataTypes
<1>4. UNCHANGED content
  OBVIOUS
<1>5. GotOK'
  BY <1>2, <1>3, <1>4, OthersGot
<1> QED
  BY <1>1, <1>5

\* The steps that change a place and nothing else.
LEMMA PlacesMap ==
  ASSUME MapInv, NEW t \in Threads,
         ReaderLocks(t) \/ WriterLocks(t) \/ Drained(t) \/ InnerLocks(t)
  PROVE  DataTypes' /\ GotOK'
<1> USE DEF MapInv, LockInv
<1>1. UNCHANGED <<content, call, todo, got>>
  BY DEF ReaderLocks, WriterLocks, Drained, InnerLocks
<1>2. DataTypes'
  BY <1>1 DEF DataTypes
<1>3. PICK at \in PC : /\ pc' = [pc EXCEPT ![t] = at] /\ at # "idle" /\ pc[t] # "idle"
                       /\ pc[t] = "inside" => at \in {"reading", "innerWaits"}
                       /\ pc[t] \notin {"innerWaits", "reading"}
  BY DEF ReaderLocks, WriterLocks, Drained, InnerLocks, RLock, PC
<1>4. /\ pc'[t] = at
      /\ \A u \in Threads \ {t} :
           call'[u] = call[u] /\ todo'[u] = todo[u] /\ got'[u] = got[u] /\ pc'[u] = pc[u]
  BY <1>1, <1>3 DEF LockTypes
<1>5. call'[t].op # "Values" => got'[t] = Empty
  BY <1>1 DEF GotOK
<1>6. call'[t].op = "Values" => \/ todo'[t] = {0} /\ got'[t] = Empty
                                \/ HasKeys(t, content[On(t)])'
  BY <1>1, <1>3, <1>4 DEF GotOK, HasKeys, On
<1>7. GotOK'
  BY <1>1, <1>3, <1>4, <1>5, <1>6, OthersGot
<1> QED
  BY <1>2, <1>7

LEMMA ReadEndsMap ==
  ASSUME MapInv, NEW t \in Threads, Read(t) \/ NestedEnds(t)
  PROVE  DataTypes' /\ GotOK'
<1> USE DEF MapInv, LockInv
<1>1. /\ UNCHANGED <<content, todo>> /\ call' = [call EXCEPT ![t] = NoCall]
      /\ got' = [got EXCEPT ![t] = Empty] /\ pc' = [pc EXCEPT ![t] = "idle"]
  BY DEF Read, NestedEnds, RUnlock, Returns
<1>2. DataTypes'
  BY <1>1, EmptyContents DEF DataTypes, LockTypes, NoCall
<1>3. /\ call'[t] = NoCall /\ call'[t].op # "Values" /\ got'[t] = Empty
      /\ \A u \in Threads \ {t} :
           call'[u] = call[u] /\ todo'[u] = todo[u] /\ got'[u] = got[u] /\ pc'[u] = pc[u]
  BY <1>1 DEF LockTypes, DataTypes, NoCall
<1>4. GotOK'
  BY <1>1, <1>3, OthersGot
<1> QED
  BY <1>2, <1>4

LEMMA WriteEndsMap ==
  ASSUME MapInv, NEW t \in Threads, Write(t) \/ UpdateEnds(t)
  PROVE  DataTypes' /\ GotOK'
<1> USE DEF MapInv, LockInv
<1>1. /\ pc[t] = "inside" /\ ~IsReader(t) /\ Unlock(t, On(t)) /\ UNCHANGED todo
      /\ call' = [call EXCEPT ![t] = NoCall] /\ got' = [got EXCEPT ![t] = Empty]
  BY DEF Write, UpdateEnds, Returns, IsReader, Reads, Writes, Nested
<1> PICK m \in Maps : m = On(t)
  BY <1>1, CallMaps
<1>2. PICK f \in Contents : content' = [content EXCEPT ![m] = f]
  <2>1. CASE Write(t)
    <3>1. Written(call[t], content[m]) \in Contents
      BY <2>1, WrittenContents DEF Write, CallsOK, DataTypes
    <3> QED
      BY <2>1, <3>1 DEF Write
  <2>2. CASE UpdateEnds(t)
    <3>1. content[m] \in Contents /\ content' = [content EXCEPT ![m] = content[m]]
      BY <2>2 DEF UpdateEnds, DataTypes
    <3> QED
      BY <3>1
  <2> QED
    BY <2>1, <2>2
<1>3. DataTypes'
  BY <1>1, <1>2, EmptyContents DEF DataTypes, LockTypes, NoCall
<1>4. /\ \A n \in Maps \ {m} : content'[n] = content[n]
      /\ got'[t] = Empty /\ call'[t] = NoCall /\ call'[t].op # "Values"
      /\ \A u \in Threads \ {t} : call'[u] = call[u] /\ todo'[u] = todo[u] /\ got'[u] = got[u]
  BY <1>1, <1>2 DEF LockTypes, DataTypes, NoCall
<1>5. \A u \in Threads \ {t} :
        /\ pc'[u] = "idle" => pc[u] = "idle"
        /\ pc[u] \in {"inside", "innerWaits", "reading"} =>
             pc'[u] \in {"inside", "innerWaits", "reading"}
  BY <1>1, UnlockPlaces
<1>6. GotOK'
  BY <1>1, <1>4, <1>5, WriteGot
<1> QED
  BY <1>3, <1>6

LEMMA InnerReadsMap ==
  ASSUME MapInv, NEW t \in Threads, InnerReads(t)
  PROVE  DataTypes' /\ GotOK'
<1> USE DEF MapInv, LockInv
<1>1. /\ pc[t] = "reading" /\ pc' = [pc EXCEPT ![t] = "inside"] /\ UNCHANGED call
      /\ call[t].op \in Nested \cup {"Update"}
  BY DEF InnerReads, RUnlock, CallsOK
<1> PICK m \in Maps : m = On(t)
  BY <1>1, CallMaps
<1> PICK f \in Contents : f = content[Inner(t)]
  BY <1>1, CallMaps DEF DataTypes
<1>2. PICK k \in todo[t] :
        /\ \A j \in todo[t] : k <= j
        /\ \/ /\ k = 0
              /\ todo' = [todo EXCEPT ![t] = IF call[t].op = "Dumps" THEN {} ELSE DOMAIN f]
              /\ UNCHANGED <<content, got>>
           \/ /\ k \in DOMAIN f
              /\ todo' = [todo EXCEPT ![t] = todo[t] \ {k}]
              /\ IF call[t].op = "Values"
                   THEN got' = [got EXCEPT ![t] = With(got[t], k, f[k])] /\ UNCHANGED content
                   ELSE content' = [content EXCEPT ![m] = With(content[m], k, f[k])] /\ UNCHANGED got
           \/ /\ k # 0 /\ k \notin DOMAIN f
              /\ todo' = [todo EXCEPT ![t] = IF call[t].op = "Values" THEN todo[t] \ {k} ELSE {}]
              /\ UNCHANGED <<content, got>>
  BY DEF InnerReads, DataTypes
<1>3. \A u \in Threads \ {t} :
        call'[u] = call[u] /\ todo'[u] = todo[u] /\ got'[u] = got[u] /\ pc'[u] = pc[u]
  BY <1>1, <1>2 DEF LockTypes, DataTypes
<1>4. DOMAIN f \subseteq Keys /\ Keys \subseteq 0..NumKeys /\ \A j \in DOMAIN f : f[j] \in Values
  BY ContentsDomain, JsonMapAssumption DEF Keys
<1>5. DataTypes'
  <2>1. todo' \in [Threads -> SUBSET (0..NumKeys)]
    BY <1>2, <1>4 DEF DataTypes
  <2>2. k \in DOMAIN f => /\ With(got[t], k, f[k]) \in Contents
                         /\ With(content[m], k, f[k]) \in Contents
    BY <1>4, WithContents DEF DataTypes
  <2>3. content' \in [Maps -> Contents] /\ got' \in [Threads -> Contents]
    BY <1>2, <2>2 DEF DataTypes
  <2>4. \A u \in Threads : call'[u].op = "Dumps" => todo'[u] \subseteq {0}
    <3>1. call[t].op = "Dumps" => todo'[t] \subseteq {0}
      BY <1>2 DEF DataTypes
    <3> QED
      BY <1>1, <1>3, <3>1 DEF DataTypes
  <2> QED
    BY <2>1, <2>3, <2>4 DEF DataTypes
<1>6. CASE call[t].op = "Values"
  <2>1. UNCHANGED content /\ f = content[m] /\ IsReader(t)
    BY <1>2, <1>6 DEF Inner, IsReader, Nested
  <2>2. HasKeys(t, content[On(t)])'
    <3>1. pc'[t] = "inside" /\ On(t)' = m
      BY <1>1 DEF LockTypes, On
    <3> SUFFICES 0 \notin todo'[t] /\ todo'[t] \subseteq DOMAIN f
                 /\ got'[t] = Restrict(f, DOMAIN f \ todo'[t])
      BY <2>1, <3>1 DEF HasKeys
    <3>2. CASE todo[t] = {0} /\ got[t] = Empty
      <4>1. 0 \notin DOMAIN f
        BY <1>4 DEF Keys
      <4>2. todo'[t] = DOMAIN f /\ got'[t] = Empty
        BY <1>2, <1>6, <3>2, <4>1 DEF DataTypes
      <4> QED
        BY <4>1, <4>2 DEF Restrict, Empty
    <3>3. CASE HasKeys(t, f)
      <4>1. k \in DOMAIN f /\ k # 0
        BY <3>3 DEF HasKeys
      <4>2. todo'[t] = todo[t] \ {k} /\ got'[t] = With(got[t], k, f[k])
        BY <1>2, <1>6, <4>1 DEF DataTypes
      <4>3. got[t] = [j \in DOMAIN f \ todo[t] |-> f[j]]
        BY <3>3 DEF HasKeys, Restrict
      <4>4. With(got[t], k, f[k]) = [j \in (DOMAIN f \ todo[t]) \cup {k} |-> f[j]]
        BY <4>3 DEF With
      <4>5. (DOMAIN f \ todo[t]) \cup {k} = DOMAIN f \ (todo[t] \ {k})
        BY <4>1
      <4> QED
        BY <3>3, <4>2, <4>4, <4>5 DEF HasKeys, Restrict
    <3> QED
      BY <1>6, <2>1, <3>2, <3>3 DEF GotOK
  <2>3. pc'[t] # "idle" /\ call'[t].op = "Values"
    BY <1>1, <1>6 DEF LockTypes
  <2>4. GotOK'
    BY <1>3, <2>1, <2>2, <2>3, OthersGot
  <2> QED
    BY <1>5, <2>4
<1>7. CASE call[t].op # "Values"
  <2>1. pc'[t] # "idle" /\ call'[t] = call[t] /\ got' = got /\ got[t] = Empty
    BY <1>1, <1>2, <1>7 DEF LockTypes, GotOK
  <2>2. CASE UNCHANGED content
    BY <1>3, <1>5, <1>7, <2>1, <2>2, OthersGot
  <2>3. CASE content' # content
    <3>1. /\ k \in DOMAIN f /\ k # 0
          /\ content' = [content EXCEPT ![m] = With(content[m], k, f[k])]
      BY <1>2, <1>4, <1>7, <2>3 DEF Keys
    <3>2. \A n \in Maps \ {m} : content'[n] = content[n]
      BY <3>1 DEF DataTypes
    <3>3. CASE call[t].op = "Dumps"
      BY <3>1, <3>3 DEF DataTypes
    <3>4. CASE call[t].op = "Update"
      <4>1. ~IsReader(t)
        BY <3>4 DEF IsReader, Reads, Nested
      <4> QED
        BY <1>1, <1>3, <1>5, <1>7, <2>1, <3>2, <4>1, WriteGot
    <3> QED
      BY <1>1, <1>7, <3>3, <3>4 DEF Nested
  <2> QED
    BY <1>5, <2>2, <2>3
<1> QED
  BY <1>6, <1>7

LEMMA NextMap == MapInv /\ [Next]_vars => MapInv'
<1> SUFFICES ASSUME MapInv, [Next]_vars PROVE DataTypes' /\ GotOK'
  BY NextLocks DEF MapInv
<1>1. CASE UNCHANGED vars
  BY <1>1 DEF vars, locks, threads, MapInv, DataTypes, GotOK, HasKeys, On
<1>2. CASE Next
  <2> PICK t \in Threads : (\E c \in Calls[t] : Begins(t, c)) \/ WriterLocks(t) \/ Goes(t)
    BY <1>2 DEF Next
  <2>1. CASE \E c \in Calls[t] : Begins(t, c)
    BY <2>1, BeginsMap
  <2>2. CASE WriterLocks(t)
    BY <2>2, PlacesMap
  <2>3. CASE Goes(t)
    BY <2>3, PlacesMap, ReadEndsMap, WriteEndsMap, InnerReadsMap DEF Goes
  <2> QED
    BY <2>1, <2>2, <2>3
<1> QED
  BY <1>1, <1>2

LEMMA MapInvariance == Spec => []MapInv
BY InitMap, NextMap, PTL DEF Spec

\* The type invariant.
THEOREM TypeCorrect == Spec => []TypeOK
<1>1. MapInv => TypeOK
  BY DEF MapInv, LockInv, LockTypes, DataTypes, TypeOK
<1> QED
  BY <1>1, MapInvariance, PTL

\* Values, which reads key by key, returns what one state of the map held: the read lock
\* that it holds from its first inner read to its last keeps every writer out.
THEOREM ValuesReadOneMap == Spec => []ValuesAreOneMap
<1>1. MapInv => ValuesAreOneMap
  BY DEF MapInv, GotOK, HasKeys, ValuesAreOneMap
<1> QED
  BY <1>1, MapInvariance, PTL

-----------------------------------------------------------------------------
(* The atomic maps.                                                        *)

USE DEF Atomic!IsWhole, Atomic!IsOver, Atomic!IsUpdating

\* Somebody who holds a read lock of a map finds no Update at it.
LEMMA ReadersFindWhole ==
  ASSUME MapInv, NEW t \in Threads, NEW m \in Maps, readers[m][t] # 0
  PROVE  Updater(m) = NoThread
<1> SUFFICES ASSUME Updater(m) # NoThread PROVE FALSE
  OBVIOUS
<1>1. writer[m] \in Threads /\ pc[writer[m]] # "drains"
  BY DEF Updater, MapInv, LockInv, LockTypes
<1> QED
  BY <1>1 DEF MapInv, LockInv, Exclusion, Holds

\* A step that ends nobody's Update and begins none.
LEMMA UpdatersStay ==
  ASSUME MapInv, NEW t \in Threads,
         \A u \in Threads \ {t} :
           /\ call'[u] = call[u]
           /\ pc'[u] = "drains" <=> pc[u] = "drains",
         \A m \in Maps :
           \/ writer'[m] = writer[m]
           \/ {writer[m], writer'[m]} = {t, NoThread},
         \A m \in Maps :
           /\ writer[m] = t => call[t].op # "Update" \/ pc[t] = "drains"
           /\ writer'[m] = t => call'[t].op # "Update" \/ pc'[t] = "drains"
  PROVE  [m \in Maps |-> Updater(m)]' = [m \in Maps |-> Updater(m)]
<1> SUFFICES ASSUME NEW m \in Maps PROVE Updater(m)' = Updater(m)
  OBVIOUS
<1>1. writer[m] \in Threads \cup {NoThread} /\ NoThread \notin Threads
  BY JsonMapAssumption DEF MapInv, LockInv, LockTypes
<1>2. CASE writer[m] \in {t, NoThread} /\ writer'[m] \in {t, NoThread}
  BY <1>2 DEF Updater
<1>3. CASE writer'[m] = writer[m] /\ writer[m] \in Threads \ {t}
  BY <1>1, <1>3 DEF Updater
<1> QED
  BY <1>1, <1>2, <1>3

\* What the atomic maps know of the other threads stays as it is.
LEMMA OthersKnown ==
  ASSUME MapInv, NEW t \in Threads,
         \A u \in Threads \ {t} : /\ call'[u] = call[u]
                                 /\ todo'[u] = todo[u]
                                 /\ got'[u] = got[u],
         \A u \in Threads \ {t} :
           call[u].op = "Values" /\ 0 \notin todo[u] => content'[On(u)] = content[On(u)]
  PROVE  \A u \in Threads \ {t} : Seen(u)' = Seen(u) /\ Left(u)' = Left(u)
BY DEF Seen, Left, On

LEMMA InitAtomic == Init => Atomic!Init
<1> SUFFICES ASSUME Init PROVE Atomic!Init
  OBVIOUS
<1>1. \A m \in Maps : Updater(m) = NoThread
  BY DEF Init, Updater
<1>2. \A t \in Threads : Seen(t) = {} /\ Left(t) = {}
  BY DEF Init, Seen, Left, NoCall
<1> QED
  BY <1>1, <1>2 DEF Init, Atomic!Init

LEMMA BeginsAtomic ==
  ASSUME MapInv, NEW t \in Threads, NEW c \in Calls[t], Begins(t, c)
  PROVE  Atomic!Ask(t, c)
<1>1. /\ pc[t] = "idle" /\ UNCHANGED <<content, writer, readers, got>>
      /\ call' = [call EXCEPT ![t] = c] /\ pc' = [pc EXCEPT ![t] = "wants"]
      /\ todo' = [todo EXCEPT ![t] = IF c.op \in Nested \cup {"Update"} THEN {0} ELSE {}]
  BY DEF Begins, locks
<1>2. /\ call'[t] = c /\ pc'[t] = "wants"
      /\ todo'[t] = IF c.op \in Nested \cup {"Update"} THEN {0} ELSE {}
      /\ \A u \in Threads \ {t} :
           pc'[u] = pc[u] /\ call'[u] = call[u] /\ todo'[u] = todo[u] /\ got'[u] = got[u]
  BY <1>1 DEF MapInv, LockInv, LockTypes, DataTypes
<1>3. \A m \in Maps : writer[m] # t
  BY <1>1 DEF MapInv, LockInv, WritersOK, Writing
<1>4. [m \in Maps |-> Updater(m)]' = [m \in Maps |-> Updater(m)]
  BY <1>1, <1>2, <1>3, UpdatersStay
<1>5. /\ Seen(t) = {} /\ Seen(t)' = {} /\ Left(t) = {} /\ Left(t)' = {} /\ call[t] = NoCall
  <2>1. call[t] = NoCall
    BY <1>1 DEF MapInv, GotOK
  <2>2. call[t].op = "none"
    BY <2>1 DEF NoCall
  <2> QED
    BY <1>2, <2>1, <2>2 DEF Seen, Left, Nested
<1>6. \A u \in Threads : Seen(u)' = Seen(u) /\ Left(u)' = Left(u)
  BY <1>1, <1>2, <1>5, OthersKnown
<1> QED
  BY <1>1, <1>4, <1>5, <1>6 DEF Atomic!Ask

\* Waiting for a lock is not seen.
LEMMA LocksAtomic ==
  ASSUME MapInv, NEW t \in Threads, ReaderLocks(t) \/ WriterLocks(t) \/ InnerLocks(t)
  PROVE  UNCHANGED Atomic!vars
<1> USE DEF MapInv, LockInv
<1>1. /\ UNCHANGED <<content, call, todo, got>>
      /\ pc[t] \in {"wants", "inside"}
      /\ WriterLocks(t) => pc[t] = "wants"
      /\ \/ UNCHANGED writer
         \/ /\ WriterLocks(t) /\ writer[On(t)] = NoThread
            /\ writer' = [writer EXCEPT ![On(t)] = t] /\ pc' = [pc EXCEPT ![t] = "drains"]
  BY DEF ReaderLocks, WriterLocks, InnerLocks
<1>2. PICK at \in PC : /\ pc' = [pc EXCEPT ![t] = at]
                       /\ at = "drains" <=> WriterLocks(t)
  BY DEF ReaderLocks, WriterLocks, InnerLocks, RLock, PC
<1>3. \A u \in Threads \ {t} : pc'[u] = pc[u] /\ call'[u] = call[u]
  BY <1>1, <1>2 DEF LockTypes
<1>4. pc'[t] = at
  BY <1>2 DEF LockTypes
<1>5. [m \in Maps |-> Updater(m)]' = [m \in Maps |-> Updater(m)]
  <2>1. CASE UNCHANGED writer /\ at # "drains" /\ pc[t] # "drains"
    <3> SUFFICES ASSUME NEW m \in Maps PROVE Updater(m)' = Updater(m)
      OBVIOUS
    <3>1. writer[m] \in Threads \cup {NoThread} /\ writer'[m] = writer[m]
      BY <2>1 DEF LockTypes
    <3>2. writer[m] \in Threads =>
            /\ call'[writer[m]] = call[writer[m]]
            /\ pc'[writer[m]] = "drains" <=> pc[writer[m]] = "drains"
      BY <1>1, <1>3, <1>4, <2>1
    <3> QED
      BY <3>1, <3>2 DEF Updater
  <2>2. CASE WriterLocks(t)
    <3>1. /\ writer[On(t)] = NoThread /\ On(t) \in Maps
          /\ writer' = [writer EXCEPT ![On(t)] = t] /\ pc'[t] = "drains"
      BY <1>2, <1>4, <2>2, CallMaps DEF WriterLocks
    <3>2. \A m \in Maps : writer'[m] = IF m = On(t) THEN t ELSE writer[m]
      BY <3>1 DEF LockTypes
    <3>3. \A m \in Maps : writer[m] # t
      BY <1>1, <2>2 DEF WritersOK, Writing
    <3> QED
      BY <1>3, <3>1, <3>2, <3>3, UpdatersStay
  <2> QED
    BY <1>1, <1>2, <2>1, <2>2
<1>6. \A u \in Threads : Seen(u)' = Seen(u) /\ Left(u)' = Left(u)
  BY <1>1 DEF Seen, Left, On
<1> QED
  BY <1>1, <1>5, <1>6 DEF Atomic!vars

\* An Update is at its map from when no reader is left.
LEMMA DrainedAtomic ==
  ASSUME MapInv, NEW t \in Threads, Drained(t)
  PROVE  Atomic!BeginUpdate(t) \/ UNCHANGED Atomic!vars
<1> USE DEF MapInv, LockInv
<1> PICK m \in Maps : m = On(t)
  BY CallMaps DEF Drained
<1>1. /\ UNCHANGED <<content, writer, call, todo, got>> /\ pc[t] = "drains"
      /\ pc'[t] = "inside" /\ \A u \in Threads \ {t} : pc'[u] = pc[u]
  BY DEF Drained, locks, LockTypes
<1>2. writer[m] = t /\ \A n \in Maps \ {m} : writer[n] # t
  BY <1>1 DEF WritersOK, Writing, CallsOK
<1>3. \A n \in Maps : writer[n] \in Threads \cup {NoThread}
  BY DEF LockTypes
<1>4. \A n \in Maps \ {m} : Updater(n)' = Updater(n)
  BY <1>1, <1>2, <1>3 DEF Updater
<1>5. /\ Updater(m) = NoThread
      /\ Updater(m)' = IF call[t].op = "Update" THEN t ELSE NoThread
  BY <1>1, <1>2, JsonMapAssumption DEF Updater
<1>6. \A u \in Threads : Seen(u)' = Seen(u) /\ Left(u)' = Left(u)
  BY <1>1 DEF Seen, Left, On
<1>7. CASE call[t].op = "Update"
  BY <1>1, <1>4, <1>5, <1>6, <1>7 DEF Atomic!BeginUpdate, On
<1>8. CASE call[t].op # "Update"
  <2>1. \A n \in Maps : Updater(n)' = Updater(n)
    BY <1>4, <1>5, <1>8
  <2> QED
    BY <1>1, <1>6, <2>1 DEF Atomic!vars
<1> QED
  BY <1>7, <1>8

\* What a reading call has read, no Update was at.
LEMMA ReadsAtomic ==
  ASSUME MapInv, NEW t \in Threads, Read(t) \/ NestedEnds(t)
  PROVE  Atomic!Read(t) \/ Atomic!ReturnValues(t)
<1> USE DEF MapInv, LockInv
<1>1. /\ pc[t] = "inside" /\ call[t].op \in Reads \cup Nested /\ IsReader(t)
      /\ call[t].op = "Values" => todo[t] = {}
      /\ UNCHANGED <<content, writer, todo>>
      /\ call' = [call EXCEPT ![t] = NoCall]
      /\ got' = [got EXCEPT ![t] = Empty] /\ pc' = [pc EXCEPT ![t] = "idle"]
  BY DEF Read, NestedEnds, RUnlock, Returns, IsReader, Reads
<1> PICK m \in Maps : m = On(t)
  BY <1>1, CallMaps
<1>2. /\ pc'[t] = "idle" /\ call'[t] = NoCall
      /\ \A u \in Threads \ {t} :
           call'[u] = call[u] /\ todo'[u] = todo[u] /\ got'[u] = got[u] /\ pc'[u] = pc[u]
  BY <1>1 DEF LockTypes, DataTypes
<1>3. Updater(m) = NoThread
  <2>1. readers[m][t] # 0
    BY <1>1 DEF ReadersOK, Outer, InnerRead, Count
  <2> QED
    BY <2>1, ReadersFindWhole
<1>4. [n \in Maps |-> Updater(n)]' = [n \in Maps |-> Updater(n)]
  <2>1. \A n \in Maps : writer[n] # t
    BY <1>1 DEF WritersOK, Writing
  <2> QED
    BY <1>1, <1>2, <2>1, UpdatersStay
<1>5. \A u \in Threads \ {t} : Seen(u)' = Seen(u) /\ Left(u)' = Left(u)
  BY <1>1, <1>2, OthersKnown
<1>6. Seen(t)' = {} /\ Left(t)' = {} /\ Left(t) = {}
  <2>1. call'[t].op = "none" /\ call[t].op # "Update"
    BY <1>1, <1>2 DEF NoCall, Reads, Nested
  <2> QED
    BY <2>1 DEF Seen, Left
<1>7. CASE call[t].op = "Values"
  <2>1. Seen(t) # {}
    BY <1>1, <1>7 DEF Seen
  <2> QED
    BY <1>1, <1>4, <1>5, <1>6, <1>7, <2>1 DEF Atomic!ReturnValues
<1>8. CASE call[t].op # "Values"
  <2>1. Seen(t) = {} /\ call[t].op \in Reads \cup {"Dumps"}
    BY <1>1, <1>8 DEF Seen, Nested
  <2> QED
    BY <1>1, <1>3, <1>4, <1>5, <1>6, <2>1 DEF Atomic!Read, On
<1> QED
  BY <1>7, <1>8

LEMMA WriteAtomic ==
  ASSUME MapInv, NEW t \in Threads, Write(t) \/ UpdateEnds(t)
  PROVE  Atomic!Write(t) \/ Atomic!EndUpdate(t)
<1> USE DEF MapInv, LockInv
<1>1. /\ pc[t] = "inside" /\ ~IsReader(t) /\ Unlock(t, On(t)) /\ UNCHANGED todo
      /\ call[t].op \in Writes \cup {"Update"}
      /\ call' = [call EXCEPT ![t] = NoCall] /\ got' = [got EXCEPT ![t] = Empty]
  BY DEF Write, UpdateEnds, Returns, IsReader, Reads, Writes, Nested
<1> PICK m \in Maps : m = On(t)
  BY <1>1, CallMaps
<1>2. /\ call'[t] = NoCall
      /\ \A u \in Threads \ {t} :
           /\ call'[u] = call[u] /\ todo'[u] = todo[u] /\ got'[u] = got[u]
           /\ pc'[u] = "drains" <=> pc[u] = "drains"
  BY <1>1 DEF LockTypes, DataTypes, Unlock, Blocked
<1>3. /\ writer[m] = t /\ writer'[m] = NoThread
      /\ \A n \in Maps \ {m} : writer'[n] = writer[n] /\ writer[n] # t
      /\ \A n \in Maps : writer[n] \in Threads \cup {NoThread}
  BY <1>1 DEF WritersOK, Writing, Unlock, LockTypes
<1>4. \A n \in Maps \ {m} : Updater(n)' = Updater(n)
  BY <1>2, <1>3 DEF Updater
<1>5. /\ Updater(m) = IF call[t].op = "Update" THEN t ELSE NoThread
      /\ Updater(m)' = NoThread
  BY <1>1, <1>3, JsonMapAssumption DEF Updater
<1>6. \A n \in Maps \ {m} : content'[n] = content[n]
  BY DEF Write, UpdateEnds, DataTypes
<1>7. \A u \in Threads \ {t} : Seen(u)' = Seen(u) /\ Left(u)' = Left(u)
  <2>1. ASSUME NEW u \in Threads \ {t}, call[u].op = "Values", 0 \notin todo[u]
        PROVE  content'[On(u)] = content[On(u)]
    <3>1. On(u) # m
      BY <1>1, <2>1, SeenIsNotWritten
    <3>2. On(u) \in Maps
      BY <2>1, CallMaps DEF GotOK, NoCall
    <3> QED
      BY <1>6, <3>1, <3>2
  <2> QED
    BY <1>2, <2>1, OthersKnown
<1>8. Seen(t) = {} /\ Seen(t)' = {} /\ Left(t)' = {}
  <2>1. call'[t].op = "none" /\ call[t].op # "Values"
    BY <1>1, <1>2 DEF NoCall, Writes
  <2> QED
    BY <2>1 DEF Seen, Left
<1>9. CASE Write(t)
  <2>1. call[t].op \in Writes /\ call[t].op # "Update"
    BY <1>9 DEF Write, Writes
  <2>2. \A n \in Maps : Updater(n) = Updater(n)'
    BY <1>4, <1>5, <2>1
  <2>3. Left(t) = {} /\ Updater(m) = NoThread
    BY <1>5, <2>1 DEF Left
  <2>4. content' = [content EXCEPT ![m] = Written(call[t], @)]
    BY <1>9 DEF Write
  <2> QED
    BY <1>1, <1>7, <1>8, <2>1, <2>2, <2>3, <2>4 DEF Atomic!Write, On
<1>10. CASE UpdateEnds(t)
  <2>1. call[t].op = "Update" /\ todo[t] = {} /\ UNCHANGED content
    BY <1>10 DEF UpdateEnds
  <2>2. Left(t) = {{}} /\ Updater(m) = t
    BY <1>5, <2>1 DEF Left
  <2> QED
    BY <1>1, <1>4, <1>5, <1>7, <1>8, <2>1, <2>2 DEF Atomic!EndUpdate, On
<1> QED
  BY <1>9, <1>10

\* An inner read of Values takes the keys, when Values sees its map, or adds to an answer
\* that is then known; one of Update names the keys, takes one over, or misses one.
LEMMA InnerReadsAtomic ==
  ASSUME MapInv, NEW t \in Threads, InnerReads(t)
  PROVE  \/ Atomic!SeeValues(t) \/ Atomic!NameKeys(t)
         \/ \E keys \in Left(t) :
              Atomic!GiveUp(t, keys) \/ \E k \in keys : Atomic!TakeOver(t, keys, k)
         \/ UNCHANGED Atomic!vars
<1> USE DEF MapInv, LockInv
<1>1. /\ pc[t] = "reading" /\ pc' = [pc EXCEPT ![t] = "inside"] /\ UNCHANGED <<call, writer>>
      /\ call[t].op \in Nested \cup {"Update"}
  BY DEF InnerReads, RUnlock, CallsOK
<1> PICK m \in Maps : m = On(t)
  BY <1>1, CallMaps
<1> PICK i \in Maps : i = Inner(t)
  BY <1>1, CallMaps
<1>2. PICK k \in todo[t] :
        /\ \A j \in todo[t] : k <= j
        /\ \/ /\ k = 0
              /\ todo' = [todo EXCEPT ![t] = IF call[t].op = "Dumps" THEN {}
                                             ELSE DOMAIN content[i]]
              /\ UNCHANGED <<content, got>>
           \/ /\ k \in DOMAIN content[i]
              /\ todo' = [todo EXCEPT ![t] = todo[t] \ {k}]
              /\ IF call[t].op = "Values"
                   THEN got' = [got EXCEPT ![t] = With(got[t], k, content[i][k])]
                        /\ UNCHANGED content
                   ELSE content' = [content EXCEPT ![m] = With(content[m], k, content[i][k])]
                        /\ UNCHANGED got
           \/ /\ k # 0 /\ k \notin DOMAIN content[i]
              /\ todo' = [todo EXCEPT ![t] = IF call[t].op = "Values" THEN todo[t] \ {k} ELSE {}]
              /\ UNCHANGED <<content, got>>
  BY DEF InnerReads, DataTypes
<1>3. /\ pc'[t] = "inside"
      /\ \A u \in Threads \ {t} :
           call'[u] = call[u] /\ todo'[u] = todo[u] /\ got'[u] = got[u] /\ pc'[u] = pc[u]
  BY <1>1, <1>2 DEF LockTypes, DataTypes
<1>4. [n \in Maps |-> Updater(n)]' = [n \in Maps |-> Updater(n)]
  <2> SUFFICES ASSUME NEW n \in Maps PROVE Updater(n)' = Updater(n)
    OBVIOUS
  <2>1. writer[n] \in Threads => (pc'[writer[n]] = "drains" <=> pc[writer[n]] = "drains")
    BY <1>1, <1>3
  <2> QED
    BY <1>1, <2>1 DEF Updater, LockTypes
<1>5. Updater(i) = NoThread
  <2>1. readers[i][t] # 0
    BY <1>1 DEF ReadersOK, Outer, InnerRead, Count
  <2> QED
    BY <2>1, ReadersFindWhole
<1>6. /\ DOMAIN content[i] \subseteq Keys /\ 0 \notin DOMAIN content[i]
      /\ 0 \in todo[t] => k = 0
  <2>1. DOMAIN content[i] \subseteq Keys
    BY ContentsDomain DEF DataTypes
  <2>2. todo[t] \subseteq 0..NumKeys
    BY DEF DataTypes
  <2>3. 0 \in todo[t] => k <= 0 /\ k \in 0..NumKeys
    BY <1>2, <2>2
  <2> QED
    BY <2>1, <2>3, JsonMapAssumption DEF Keys
<1>7. CASE call[t].op = "Dumps"
  <2>1. k = 0 /\ UNCHANGED <<content, got>>
    BY <1>2, <1>6, <1>7 DEF DataTypes
  <2>2. \A u \in Threads : Seen(u)' = Seen(u) /\ Left(u)' = Left(u)
    BY <1>1, <1>3, <1>7, <2>1 DEF Seen, Left, On
  <2> QED
    BY <1>1, <1>4, <2>1, <2>2 DEF Atomic!vars
<1>8. CASE call[t].op = "Values"
  <2>1. UNCHANGED content /\ i = m
    BY <1>2, <1>8 DEF Inner
  <2>2. \A u \in Threads \ {t} : Seen(u)' = Seen(u) /\ Left(u)' = Left(u)
    BY <1>3, <2>1, OthersKnown
  <2>3. Left(t) = {} /\ Left(t)' = {}
    BY <1>1, <1>8 DEF Left
  <2>4. 0 \notin todo'[t] /\ got'[t] = Restrict(content[m], DOMAIN content[m] \ todo'[t])
    <3>1. 0 \notin todo'[t] /\ call'[t].op = "Values" /\ On(t)' = m
      BY <1>1, <1>2, <1>6, <1>8, <2>1 DEF DataTypes, On
    <3>2. HasKeys(t, content[On(t)])'
      BY <3>1, InnerReadsMap DEF GotOK
    <3> QED
      BY <2>1, <3>1, <3>2 DEF HasKeys
  <2>5. Seen(t)' = {content[m]}
    <3>1. todo'[t] = {} => got'[t] = content[m]
      BY <2>4, ContentsFunction DEF DataTypes, Restrict
    <3> QED
      BY <1>1, <1>8, <2>1, <2>4, <3>1 DEF Seen, On
  <2>6. CASE 0 \in todo[t]
    <3>1. Seen(t) = {}
      BY <2>6 DEF Seen
    <3> QED
      BY <1>1, <1>4, <1>5, <1>8, <2>1, <2>2, <2>3, <2>5, <3>1 DEF Atomic!SeeValues, On
  <2>7. CASE 0 \notin todo[t]
    <3>1. Seen(t) = {content[m]}
      BY <1>2, <1>8, <2>7 DEF Seen
    <3> QED
      BY <1>1, <1>4, <2>1, <2>2, <2>3, <2>5, <3>1 DEF Atomic!vars
  <2> QED
    BY <2>6, <2>7
<1>9. CASE call[t].op = "Update"
  <2>1. writer[m] = t /\ Updater(m) = t /\ i = call[t].with
    BY <1>1, <1>9, JsonMapAssumption
    DEF WritersOK, Writing, IsReader, Reads, Nested, Updater, Inner
  <2>2. UNCHANGED got
    BY <1>2, <1>9
  <2>3. \A n \in Maps \ {m} : content'[n] = content[n]
    BY <1>2, <1>9 DEF DataTypes
  <2>4. \A u \in Threads \ {t} : Seen(u)' = Seen(u) /\ Left(u)' = Left(u)
    <3>1. ASSUME NEW u \in Threads \ {t}, call[u].op = "Values", 0 \notin todo[u]
          PROVE  content'[On(u)] = content[On(u)]
      <4>1. On(u) # m
        BY <1>1, <1>9, <3>1, SeenIsNotWritten DEF IsReader, Reads, Nested
      <4>2. On(u) \in Maps
        BY <3>1, CallMaps DEF GotOK, NoCall
      <4> QED
        BY <2>3, <4>1, <4>2
    <3> QED
      BY <1>3, <3>1, OthersKnown
  <2>5. Seen(t) = {} /\ Seen(t)' = {}
    BY <1>1, <1>9 DEF Seen
  <2>6. /\ Left(t) = IF 0 \in todo[t] THEN {} ELSE {todo[t]}
        /\ Left(t)' = IF 0 \in todo'[t] THEN {} ELSE {todo'[t]}
    BY <1>1, <1>9 DEF Left
  <2>7. CASE k = 0
    <3>1. todo'[t] = DOMAIN content[i] /\ UNCHANGED content
      BY <1>2, <1>6, <1>9, <2>7 DEF DataTypes
    <3>2. Left(t) = {} /\ Left(t)' = {DOMAIN content[i]}
      BY <1>2, <1>6, <2>6, <2>7, <3>1
    <3> QED
      BY <1>1, <1>4, <1>5, <1>9, <2>1, <2>4, <2>5, <3>1, <3>2 DEF Atomic!NameKeys, On
  <2>8. CASE k \in DOMAIN content[i]
    <3>1. /\ k # 0 /\ todo'[t] = todo[t] \ {k}
          /\ content' = [content EXCEPT ![m] = With(content[m], k, content[i][k])]
      BY <1>2, <1>6, <1>9, <2>8 DEF DataTypes
    <3>2. Left(t) = {todo[t]} /\ Left(t)' = {todo[t] \ {k}}
      BY <1>6, <2>6, <3>1
    <3>3. Atomic!TakeOver(t, todo[t], k)
      <4>1. content' = [content EXCEPT ![m] =
                          [j \in DOMAIN @ \cup {k} |-> IF j = k THEN content[i][k] ELSE @[j]]]
        BY <3>1 DEF With
      <4>2. k \in todo[t] \cap DOMAIN content[i]
        BY <1>2, <2>8
      <4>3. UNCHANGED [n \in Maps |-> Updater(n)] /\ UNCHANGED [u \in Threads |-> Seen(u)]
        BY <1>4, <2>4, <2>5
      <4>4. [u \in Threads |-> Left(u)]'
              = [[u \in Threads |-> Left(u)] EXCEPT ![t] = {todo[t] \ {k}}]
        BY <2>4, <3>2
      <4>5. call[t].on = m /\ call[t].with = i /\ UNCHANGED call
        BY <1>1, <2>1 DEF On
      <4> QED
        BY <1>5, <1>9, <2>1, <4>1, <4>2, <4>3, <4>4, <4>5 DEF Atomic!TakeOver
    <3> QED
      BY <3>2, <3>3
  <2>9. CASE k # 0 /\ k \notin DOMAIN content[i]
    <3>1. todo'[t] = {} /\ UNCHANGED content
      BY <1>2, <1>9, <2>9 DEF DataTypes
    <3>2. Left(t) = {todo[t]} /\ Left(t)' = {{}}
      BY <1>6, <2>6, <2>9, <3>1
    <3>3. Atomic!GiveUp(t, todo[t])
      BY <1>1, <1>2, <1>4, <1>5, <1>9, <2>1, <2>4, <2>5, <2>9, <3>1, <3>2
      DEF Atomic!GiveUp, On
    <3> QED
      BY <3>2, <3>3
  <2> QED
    BY <2>7, <2>8, <2>9
<1> QED
  BY <1>1, <1>7, <1>8, <1>9 DEF Nested

\* SyncJsonMap is atomic: it implements AtomicMaps, for any threads, maps and calls.
THEOREM Refinement == Spec => ImplementsAtomicMaps
<1>1. MapInv /\ [Next]_vars => [Atomic!Next]_(Atomic!vars)
  <2> SUFFICES ASSUME MapInv, [Next]_vars PROVE Atomic!Next \/ UNCHANGED Atomic!vars
    OBVIOUS
  <2>1. CASE UNCHANGED vars
    <3>1. UNCHANGED <<content, writer, call, pc, todo, got>>
      BY <2>1 DEF vars, locks, threads
    <3> QED
      BY <3>1 DEF Atomic!vars, Updater, Seen, Left, On
  <2>2. CASE Next
    <3> PICK t \in Threads : (\E c \in Calls[t] : Begins(t, c)) \/ WriterLocks(t) \/ Goes(t)
      BY <2>2 DEF Next
    <3>1. CASE \E c \in Calls[t] : Begins(t, c)
      BY <3>1, BeginsAtomic DEF Atomic!Next
    <3>2. CASE ReaderLocks(t) \/ WriterLocks(t) \/ InnerLocks(t)
      BY <3>2, LocksAtomic
    <3>3. CASE Drained(t)
      BY <3>3, DrainedAtomic DEF Atomic!Next
    <3>4. CASE Read(t) \/ NestedEnds(t)
      BY <3>4, ReadsAtomic DEF Atomic!Next
    <3>5. CASE Write(t) \/ UpdateEnds(t)
      BY <3>5, WriteAtomic DEF Atomic!Next
    <3>6. CASE InnerReads(t)
      BY <3>6, InnerReadsAtomic DEF Atomic!Next
    <3> QED
      BY <3>1, <3>2, <3>3, <3>4, <3>5, <3>6 DEF Goes
  <2> QED
    BY <2>1, <2>2
<1> QED
  BY <1>1, InitAtomic, MapInvariance, PTL DEF Spec, ImplementsAtomicMaps, Atomic!Spec

-----------------------------------------------------------------------------
(* The recursive functions of JsonValues, which exist.                     *)

\* The steps of the recursive functions of JsonValues, so that one proof serves them all.
Step(w, f, x) ==
  CASE w = "Pow2" -> IF x = 0 THEN 1 ELSE 2 * f[x - 1]
    [] w = "NormalizeValue" -> NormalizeStep(f, x)
    [] w = "FromText" -> TextStep(f, x)
    [] w = "SetValue" -> [T \in GoTypes |-> SetStep(f, T, x)]
    [] w = "IsJSONCompatible" -> CompatibleStep(f, x)
    [] w = "HasNaN" -> x.n = NaN \/ \E i \in DOMAIN x.parts : f[x.parts[i]]
    [] w = "IsPlain" -> PlainStep(f, x)
    [] w = "TextKeeps" -> KeepsStep(f, x)

\* A set that has every value whose deeper ones it has, has them all: the least deep that
\* it lacked would have to be in it.
LEMMA RankInduction ==
  ASSUME NEW S, NEW d \in [S -> Nat], NEW G,
         \A x \in S : (\A y \in S : d[y] < d[x] => y \in G) => x \in G
  PROVE  S \subseteq G
<1> DEFINE R == OpToRel(<, Nat)
           T == {d[x] : x \in S \ G}
<1>1. SUFFICES ASSUME NEW z \in S, z \notin G PROVE FALSE
  OBVIOUS
<1>2. T \subseteq Nat /\ T # {}
  BY <1>1
<1>3. PICK n \in T : \A m \in T : <<m, n>> \notin R
  BY <1>2, NatLessThanWellFounded, WFMin
<1>4. PICK x \in S \ G : n = d[x]
  BY <1>3
<1>5. \A y \in S : d[y] < d[x] => y \in G
  <2> SUFFICES ASSUME NEW y \in S, d[y] < d[x], y \notin G PROVE FALSE
    OBVIOUS
  <2>1. <<d[y], d[x]>> \notin R
    BY <1>3, <1>4
  <2> QED
    BY <2>1 DEF OpToRel
<1> HIDE DEF T, R
<1> QED
  BY <1>4, <1>5

\* The step of a recursive function looks no further than at what is less deep.
LooksDown(S, d, w) ==
  \A x \in S : \A f, g :
    (\A y \in S : d[y] < d[x] => f[y] = g[y]) => Step(w, f, x) = Step(w, g, x)

Recursive(S, w) == \E f : f = [x \in S |-> Step(w, f, x)]

\* A function defined by such a step exists: it is put together from its restrictions to
\* what is less deep than n, which agree where they meet.
LEMMA Recursion ==
  ASSUME NEW S, NEW d \in [S -> Nat], NEW w, LooksDown(S, d, w)
  PROVE  Recursive(S, w)
<1> DEFINE Below(n) == {x \in S : d[x] < n}
           Is(f, n) == f = [x \in Below(n) |-> Step(w, f, x)]
           At(x) == CHOOSE f : Is(f, d[x] + 1)
           Whole == [x \in S |-> At(x)[x]]
<1> HIDE DEF Below, Is, At, Whole
<1>0. ASSUME NEW x \in S, NEW f, NEW g, \A y \in S : d[y] < d[x] => f[y] = g[y]
      PROVE  Step(w, f, x) = Step(w, g, x)
  BY <1>0 DEF LooksDown
<1>1. ASSUME NEW n \in Nat, NEW m \in Nat, NEW f, NEW g, Is(f, n), Is(g, m)
      PROVE  \A x \in Below(n) \cap Below(m) : f[x] = g[x]
  <2> DEFINE G == {x \in S : x \in Below(n) \cap Below(m) => f[x] = g[x]}
  <2>1. ASSUME NEW x \in S, \A y \in S : d[y] < d[x] => y \in G PROVE x \in G
    <3>1. SUFFICES ASSUME x \in Below(n) \cap Below(m) PROVE f[x] = g[x]
      OBVIOUS
    <3>2. f[x] = Step(w, f, x) /\ g[x] = Step(w, g, x)
      BY <1>1, <3>1 DEF Is
    <3>3. \A y \in S : d[y] < d[x] => f[y] = g[y]
      BY <2>1, <3>1 DEF Below
    <3> HIDE DEF G
    <3>4. Step(w, f, x) = Step(w, g, x)
      BY <1>0, <3>3
    <3> QED
      BY <3>2, <3>4
  <2>2. S \subseteq G
    <3> HIDE DEF G
    <3> QED
      BY <2>1, RankInduction
  <2> QED
    BY <2>2 DEF Below
<1>2. \A n \in Nat : \E f : Is(f, n)
  <2> DEFINE G == {n \in Nat : \E f : Is(f, n)}
             id == [n \in Nat |-> n]
  <2>1. ASSUME NEW n \in Nat, \A m \in Nat : id[m] < id[n] => m \in G PROVE n \in G
    <3>1. CASE n = 0
      <4> DEFINE f == [x \in Below(0) |-> 0]
      <4>1. Below(0) = {}
        BY DEF Below
      <4>2. Is(f, 0)
        BY <4>1 DEF Is
      <4> QED
        BY <3>1, <4>2
    <3>2. CASE n # 0
      <4>1. n - 1 \in Nat /\ n - 1 \in G
        BY <2>1, <3>2
      <4>2. PICK f : Is(f, n - 1)
        BY <4>1
      <4> DEFINE g == [x \in Below(n) |-> Step(w, f, x)]
      <4>3. \A x \in Below(n) : Step(w, f, x) = Step(w, g, x)
        <5> SUFFICES ASSUME NEW x \in Below(n) PROVE Step(w, f, x) = Step(w, g, x)
          OBVIOUS
        <5>1. \A y \in S : d[y] < d[x] => y \in Below(n - 1) /\ y \in Below(n)
          BY <4>1 DEF Below
        <5>2. \A y \in S : d[y] < d[x] => f[y] = g[y]
          BY <4>2, <5>1 DEF Is
        <5>3. x \in S
          BY DEF Below
        <5> HIDE DEF g
        <5> QED
          BY <1>0, <5>2, <5>3
      <4>4. Is(g, n)
        BY <4>3 DEF Is
      <4> QED
        BY <4>4
    <3> QED
      BY <3>1, <3>2
  <2>2. Nat \subseteq G
    <3> HIDE DEF G
    <3>1. id \in [Nat -> Nat]
      OBVIOUS
    <3> QED
      BY <2>1, <3>1, RankInduction
  <2> QED
    BY <2>2
<1>3. \A x \in S : Is(At(x), d[x] + 1)
  BY <1>2 DEF At
<1>4. \A x \in S : Whole[x] = Step(w, Whole, x)
  <2> SUFFICES ASSUME NEW x \in S PROVE Whole[x] = Step(w, Whole, x)
    OBVIOUS
  <2>1. At(x)[x] = Step(w, At(x), x)
    <3>1. Is(At(x), d[x] + 1) /\ x \in Below(d[x] + 1)
      BY <1>3 DEF Below
    <3> DEFINE f == At(x)
    <3>2. Is(f, d[x] + 1)
      BY <3>1
    <3> HIDE DEF f
    <3>3. f[x] = Step(w, f, x)
      BY <3>1, <3>2 DEF Is
    <3> QED
      BY <3>3 DEF f
  <2>2. \A y \in S : d[y] < d[x] => At(y)[y] = At(x)[y]
    <3> SUFFICES ASSUME NEW y \in S, d[y] < d[x] PROVE At(y)[y] = At(x)[y]
      OBVIOUS
    <3>1. y \in Below(d[y] + 1) \cap Below(d[x] + 1)
      BY DEF Below
    <3>2. Is(At(y), d[y] + 1) /\ Is(At(x), d[x] + 1)
      BY <1>3
    <3> QED
      BY <1>1, <3>1, <3>2
  <2>3. \A y \in S : d[y] < d[x] => At(x)[y] = Whole[y]
    BY <2>2 DEF Whole
  <2>4. Step(w, At(x), x) = Step(w, Whole, x)
    BY <1>0, <2>3
  <2> QED
    BY <2>1, <2>4 DEF Whole
<1>5. Whole = [x \in S |-> Step(w, Whole, x)]
  BY <1>4 DEF Whole
<1> QED
  BY <1>5 DEF Recursive

\* The parts of a value are values, and less deep.
LEMMA GoValueParts ==
  ASSUME NEW v \in GoValues
  PROVE  /\ Depth \in [GoValues -> Nat]
         /\ IsGoValue(v)
         /\ \A i \in DOMAIN v.parts : v.parts[i] \in GoValues /\ Depth[v.parts[i]] < Depth[v]
         /\ v.t.kind = "ptr" /\ ~IsNil(v) => 1 \in DOMAIN v.parts
BY ValuesAssumption DEF IsGoValue, IsNil

\* The recursive functions of JsonValues are what their definitions say.
LEMMA Pow2Defined == Pow2 = [e \in Nat |-> IF e = 0 THEN 1 ELSE 2 * Pow2[e - 1]]
<1> DEFINE d == [e \in Nat |-> e]
<1>1. d \in [Nat -> Nat]
  OBVIOUS
<1>2. ASSUME NEW x \in Nat, NEW f, NEW g, \A y \in Nat : d[y] < d[x] => f[y] = g[y]
      PROVE  Step("Pow2", f, x) = Step("Pow2", g, x)
  <2>1. x # 0 => f[x - 1] = g[x - 1]
    BY <1>2
  <2> QED
    BY <2>1 DEF Step
<1> HIDE DEF d
<1>3. LooksDown(Nat, d, "Pow2")
  BY <1>2 DEF LooksDown
<1>5. Recursive(Nat, "Pow2")
  BY <1>1, <1>3, Recursion
<1>4. \E f : f = [e \in Nat |-> IF e = 0 THEN 1 ELSE 2 * f[e - 1]]
  BY <1>5 DEF Step, Recursive
<1> QED
  BY <1>4 DEF Pow2

LEMMA NormalizeDefined ==
  NormalizeValue = [v \in GoValues |-> NormalizeStep(NormalizeValue, v)]
<1>1. ASSUME NEW x \in GoValues, NEW f, NEW g,
             \A y \in GoValues : Depth[y] < Depth[x] => f[y] = g[y]
      PROVE  NormalizeStep(f, x) = NormalizeStep(g, x)
  <2>1. NormalizeParts(f, x) = NormalizeParts(g, x)
    BY <1>1, GoValueParts DEF NormalizeParts
  <2>2. x.t.kind = "ptr" /\ ~IsNil(x) => NormalizePointer(f, x) = NormalizePointer(g, x)
    BY <1>1, GoValueParts DEF NormalizePointer
  <2> QED
    BY <2>1, <2>2 DEF NormalizeStep
<1>2. Recursive(GoValues, "NormalizeValue")
  <2>1. LooksDown(GoValues, Depth, "NormalizeValue")
    BY <1>1 DEF Step, LooksDown
  <2>2. Depth \in [GoValues -> Nat]
    BY ValuesAssumption
  <2> QED
    BY <2>1, <2>2, Recursion
<1>3. \E f : f = [v \in GoValues |-> NormalizeStep(f, v)]
  BY <1>2 DEF Step, Recursive
<1> QED
  BY <1>3 DEF NormalizeValue

LEMMA FromTextDefined == FromText = [v \in GoValues |-> TextStep(FromText, v)]
<1>1. ASSUME NEW x \in GoValues, NEW f, NEW g,
             \A y \in GoValues : Depth[y] < Depth[x] => f[y] = g[y]
      PROVE  TextStep(f, x) = TextStep(g, x)
  <2>1. [i \in DOMAIN x.parts |-> f[x.parts[i]]] = [i \in DOMAIN x.parts |-> g[x.parts[i]]]
    BY <1>1, GoValueParts
  <2>2. ASSUME NEW k \in {Encoded(i) : i \in DOMAIN x.parts}
        PROVE  TextOfKey(f, x, k) = TextOfKey(g, x, k)
    <3> DEFINE j == CHOOSE i \in DOMAIN x.parts : Encoded(i) = k
    <3>1. j \in DOMAIN x.parts
      OBVIOUS
    <3>2. f[x.parts[j]] = g[x.parts[j]]
      BY <1>1, <3>1, GoValueParts
    <3> QED
      BY <3>2 DEF TextOfKey
  <2> QED
    BY <2>1, <2>2 DEF TextStep
<1>2. Recursive(GoValues, "FromText")
  <2>1. LooksDown(GoValues, Depth, "FromText")
    BY <1>1 DEF Step, LooksDown
  <2>2. Depth \in [GoValues -> Nat]
    BY ValuesAssumption
  <2> QED
    BY <2>1, <2>2, Recursion
<1>3. \E f : f = [v \in GoValues |-> TextStep(f, v)]
  BY <1>2 DEF Step, Recursive
<1> QED
  BY <1>3 DEF FromText

LEMMA SetValueDefined == SetValue = [v \in GoValues |-> [T \in GoTypes |-> SetStep(SetValue, T, v)]]
<1>1. ASSUME NEW x \in GoValues, NEW f, NEW g,
             \A y \in GoValues : Depth[y] < Depth[x] => f[y] = g[y]
      PROVE  \A T : SetStep(f, T, x) = SetStep(g, T, x)
  <2> SUFFICES ASSUME NEW T PROVE SetStep(f, T, x) = SetStep(g, T, x)
    OBVIOUS
  <2>1. ConvertParts(f, T.of, x) = ConvertParts(g, T.of, x)
    BY <1>1, GoValueParts DEF ConvertParts
  <2>2. x.t.kind = "ptr" /\ ~IsNil(x) => f[x.parts[1]][T] = g[x.parts[1]][T]
    BY <1>1, GoValueParts
  <2>3. ConvertToMap(f, T, x) = ConvertToMap(g, T, x) /\ ConvertToSlice(f, T, x) = ConvertToSlice(g, T, x)
    BY <2>1 DEF ConvertToMap, ConvertToSlice
  <2> QED
    BY <2>2, <2>3 DEF SetStep
<1>2. Recursive(GoValues, "SetValue")
  <2>1. LooksDown(GoValues, Depth, "SetValue")
    BY <1>1 DEF Step, LooksDown
  <2>2. Depth \in [GoValues -> Nat]
    BY ValuesAssumption
  <2> QED
    BY <2>1, <2>2, Recursion
<1>3. \E f : f = [v \in GoValues |-> [T \in GoTypes |-> SetStep(f, T, v)]]
  BY <1>2 DEF Step, Recursive
<1> QED
  BY <1>3 DEF SetValue
LEMMA CompatibleDefined == IsJSONCompatible = [v \in GoValues |-> CompatibleStep(IsJSONCompatible, v)]
<1>1. ASSUME NEW x \in GoValues, NEW f, NEW g,
             \A y \in GoValues : Depth[y] < Depth[x] => f[y] = g[y]
      PROVE  CompatibleStep(f, x) = CompatibleStep(g, x)
  <2> DEFINE val == IF x.t.kind = "ptr" THEN x.parts[1] ELSE x
  <2>1. CASE IsNil(x)
    BY <2>1 DEF CompatibleStep
  <2>2. CASE ~IsNil(x)
    <3>1. val \in GoValues /\ Depth[val] <= Depth[x]
      BY <2>2, GoValueParts
    <3>2. \A i \in DOMAIN val.parts : f[val.parts[i]] = g[val.parts[i]]
      <4> HIDE DEF val
      <4>1. \A i \in DOMAIN val.parts : val.parts[i] \in GoValues /\ Depth[val.parts[i]] < Depth[x]
        BY <3>1, GoValueParts
      <4> QED
        BY <1>1, <4>1
    <3> QED
      BY <2>2, <3>2 DEF CompatibleStep
  <2> QED
    BY <2>1, <2>2
<1>2. Recursive(GoValues, "IsJSONCompatible")
  <2>1. LooksDown(GoValues, Depth, "IsJSONCompatible")
    BY <1>1 DEF Step, LooksDown
  <2>2. Depth \in [GoValues -> Nat]
    BY ValuesAssumption
  <2> QED
    BY <2>1, <2>2, Recursion
<1>3. \E f : f = [v \in GoValues |-> CompatibleStep(f, v)]
  BY <1>2 DEF Step, Recursive
<1> QED
  BY <1>3 DEF IsJSONCompatible

LEMMA HasNaNDefined == HasNaN = [v \in GoValues |-> v.n = NaN \/ \E i \in DOMAIN v.parts : HasNaN[v.parts[i]]]
<1>1. ASSUME NEW x \in GoValues, NEW f, NEW g,
             \A y \in GoValues : Depth[y] < Depth[x] => f[y] = g[y]
      PROVE  (x.n = NaN \/ \E i \in DOMAIN x.parts : f[x.parts[i]]) = (x.n = NaN \/ \E i \in DOMAIN x.parts : g[x.parts[i]])
  BY <1>1, GoValueParts
<1>2. Recursive(GoValues, "HasNaN")
  <2>1. LooksDown(GoValues, Depth, "HasNaN")
    BY <1>1 DEF Step, LooksDown
  <2>2. Depth \in [GoValues -> Nat]
    BY ValuesAssumption
  <2> QED
    BY <2>1, <2>2, Recursion
<1>3. \E f : f = [v \in GoValues |-> v.n = NaN \/ \E i \in DOMAIN v.parts : f[v.parts[i]]]
  BY <1>2 DEF Step, Recursive
<1> QED
  BY <1>3 DEF HasNaN

LEMMA PlainDefined == IsPlain = [v \in GoValues |-> PlainStep(IsPlain, v)]
<1>1. ASSUME NEW x \in GoValues, NEW f, NEW g,
             \A y \in GoValues : Depth[y] < Depth[x] => f[y] = g[y]
      PROVE  PlainStep(f, x) = PlainStep(g, x)
  BY <1>1, GoValueParts DEF PlainStep
<1>2. Recursive(GoValues, "IsPlain")
  <2>1. LooksDown(GoValues, Depth, "IsPlain")
    BY <1>1 DEF Step, LooksDown
  <2>2. Depth \in [GoValues -> Nat]
    BY ValuesAssumption
  <2> QED
    BY <2>1, <2>2, Recursion
<1>3. \E f : f = [v \in GoValues |-> PlainStep(f, v)]
  BY <1>2 DEF Step, Recursive
<1> QED
  BY <1>3 DEF IsPlain

LEMMA KeepsDefined == TextKeeps = [v \in GoValues |-> KeepsStep(TextKeeps, v)]
<1>1. ASSUME NEW x \in GoValues, NEW f, NEW g,
             \A y \in GoValues : Depth[y] < Depth[x] => f[y] = g[y]
      PROVE  KeepsStep(f, x) = KeepsStep(g, x)
  BY <1>1, GoValueParts DEF KeepsStep
<1>2. Recursive(GoValues, "TextKeeps")
  <2>1. LooksDown(GoValues, Depth, "TextKeeps")
    BY <1>1 DEF Step, LooksDown
  <2>2. Depth \in [GoValues -> Nat]
    BY ValuesAssumption
  <2> QED
    BY <2>1, <2>2, Recursion
<1>3. \E f : f = [v \in GoValues |-> KeepsStep(f, v)]
  BY <1>2 DEF Step, Recursive
<1> QED
  BY <1>3 DEF TextKeeps

-----------------------------------------------------------------------------
(* Rounding.                                                               *)

\* Powers of two.
LEMMA Pow2Type == \A e \in Nat : Pow2[e] \in Nat /\ Pow2[e] > 0 /\ Pow2[e + 1] = 2 * Pow2[e]
<1> DEFINE G == {e \in Nat : Pow2[e] \in Nat /\ Pow2[e] > 0}
           d == [e \in Nat |-> e]
<1>1. ASSUME NEW e \in Nat, \A y \in Nat : d[y] < d[e] => y \in G PROVE e \in G
  <2>1. CASE e = 0
    BY <2>1, Pow2Defined
  <2>2. CASE e # 0
    <3>1. e - 1 \in Nat /\ e - 1 \in G
      BY <1>1, <2>2
    <3>2. Pow2[e] = 2 * Pow2[e - 1]
      BY <2>2, Pow2Defined
    <3> QED
      BY <3>1, <3>2
  <2> QED
    BY <2>1, <2>2
<1>2. Nat \subseteq G
  <2>1. d \in [Nat -> Nat]
    OBVIOUS
  <2> HIDE DEF G, d
  <2> QED
    BY <1>1, <2>1, RankInduction
<1>3. \A e \in Nat : Pow2[e + 1] = 2 * Pow2[e]
  BY Pow2Defined
<1> QED
  BY <1>2, <1>3

LEMMA Pow2Sum == ASSUME NEW a \in Nat, NEW b \in Nat PROVE Pow2[a + b] = Pow2[a] * Pow2[b]
<1> DEFINE G == {e \in Nat : Pow2[a + e] = Pow2[a] * Pow2[e]}
           d == [e \in Nat |-> e]
<1>1. ASSUME NEW e \in Nat, \A y \in Nat : d[y] < d[e] => y \in G PROVE e \in G
  <2>1. CASE e = 0
    <3>1. Pow2[0] = 1 /\ a + e = a
      BY <2>1, Pow2Defined
    <3> QED
      BY <2>1, <3>1, Pow2Type
  <2>2. CASE e # 0
    <3> DEFINE c == e - 1
    <3>1. c \in Nat /\ c \in G /\ e = c + 1 /\ a + e = (a + c) + 1
      BY <1>1, <2>2
    <3> HIDE DEF c
    <3>2. Pow2[e] = 2 * Pow2[c] /\ Pow2[a + e] = 2 * Pow2[a + c]
      BY <3>1, Pow2Type
    <3>3. Pow2[a + c] = Pow2[a] * Pow2[c] /\ Pow2[a] \in Nat /\ Pow2[c] \in Nat
      BY <3>1, Pow2Type
    <3> QED
      BY <3>2, <3>3
  <2> QED
    BY <2>1, <2>2
<1>2. Nat \subseteq G
  <2>1. d \in [Nat -> Nat]
    OBVIOUS
  <2> HIDE DEF G, d
  <2> QED
    BY <1>1, <2>1, RankInduction
<1> QED
  BY <1>2

LEMMA Pow2Less == ASSUME NEW a \in Nat, NEW b \in Nat, a < b PROVE 2 * Pow2[a] <= Pow2[b]
<1> DEFINE c == b - (a + 1)
<1>1. c \in Nat /\ b = (a + 1) + c
  OBVIOUS
<1> HIDE DEF c
<1>2. Pow2[b] = (2 * Pow2[a]) * Pow2[c]
  BY <1>1, Pow2Sum, Pow2Type
<1>3. Pow2[a] \in Nat /\ Pow2[c] \in Nat /\ Pow2[c] >= 1
  BY <1>1, Pow2Type
<1> QED
  BY <1>2, <1>3

\* As many bits as an integer and a fraction have.
Top == Wide + Fraction

\* The widths, as numbers.
LEMMA Widths ==
  /\ Wide \in Nat /\ Narrow \in Nat /\ Double \in Nat /\ Single \in Nat
  /\ 1 < Narrow /\ Narrow < Single /\ Single < Double /\ Double < Wide - 1
BY WidthsAssumption

LEMMA TopIs == Fraction \in Nat /\ Top \in Nat /\ Top = Wide + Fraction /\ Wide <= Top /\ Top > 0
BY WidthsAssumption DEF Top

LEMMA OneType == One \in Nat /\ One > 0
BY TopIs, Pow2Type DEF One

\* The only power of two that the last bit of a mantissa can stand for.
LEMMA UlpIs ==
  ASSUME NEW m \in Nat, NEW bits \in Nat, bits > 0, NEW e \in 0..Top,
         m < Pow2[bits] * Pow2[e], e = 0 \/ Pow2[bits - 1] * Pow2[e] <= m
  PROVE  Ulp(m, bits) = Pow2[e]
<1> DEFINE Fits(u) == m < Pow2[bits] * u /\ (u = 1 \/ Pow2[bits - 1] * u <= m)
           U == {Pow2[i] : i \in 0..Top}
<1>0. Top \in Nat /\ bits - 1 \in Nat
  BY TopIs
<1>1. Pow2[0] = 1
  BY Pow2Defined
<1>2. Pow2[bits] = 2 * Pow2[bits - 1] /\ Pow2[bits - 1] \in Nat
  BY <1>0, Pow2Type
<1>3. Pow2[e] \in U /\ Fits(Pow2[e])
  BY <1>1
<1>4. ASSUME NEW i \in 0..Top, Fits(Pow2[i]) PROVE i = e
  <2>0. /\ i \in Nat /\ e \in Nat
        /\ Pow2[i] \in Nat /\ Pow2[e] \in Nat /\ Pow2[i] > 0 /\ Pow2[e] > 0
    BY <1>0, Pow2Type
  <2>1. CASE i < e
    <3>1. 2 * Pow2[i] <= Pow2[e]
      BY <2>0, <2>1, Pow2Less
    <3>2. Pow2[bits - 1] * (2 * Pow2[i]) <= Pow2[bits - 1] * Pow2[e]
      BY <1>2, <2>0, <3>1
    <3>3. Pow2[bits - 1] * Pow2[e] <= m
      BY <2>0, <2>1
    <3> QED
      BY <1>2, <1>4, <2>0, <3>2, <3>3
  <2>2. CASE e < i
    <3>1. 2 * Pow2[e] <= Pow2[i]
      BY <2>0, <2>2, Pow2Less
    <3>2. Pow2[bits - 1] * (2 * Pow2[e]) <= Pow2[bits - 1] * Pow2[i]
      BY <1>2, <2>0, <3>1
    <3>3. Pow2[bits - 1] * Pow2[i] <= m
      BY <1>4, <2>0, <3>1
    <3> QED
      BY <1>2, <2>0, <3>2, <3>3
  <2> QED
    BY <2>0, <2>1, <2>2
<1>5. \A u \in U : Fits(u) => u = Pow2[e]
  BY <1>4
<1> HIDE DEF Fits, U
<1>6. (CHOOSE u \in U : Fits(u)) = Pow2[e]
  BY <1>3, <1>5
<1> QED
  BY <1>6 DEF Ulp, Fits, U, Top

\* There is one, for a number that the widths allow.
LEMMA UlpExists ==
  ASSUME NEW m \in Nat, NEW bits \in Nat, bits > 1, m <= Pow2[Top]
  PROVE  \E e \in Nat : /\ e < Top
                        /\ m < Pow2[bits] * Pow2[e]
                        /\ e = 0 \/ Pow2[bits - 1] * Pow2[e] <= m
<1> DEFINE Fits(i) == m < Pow2[bits] * Pow2[i]
           G == {i \in Nat : ~Fits(i)}
           d == [i \in Nat |-> i]
<1>0. /\ Top \in Nat /\ Top > 0 /\ bits - 1 \in Nat /\ bits - 2 \in Nat
      /\ Pow2[bits] = 2 * Pow2[bits - 1] /\ Pow2[bits - 1] = 2 * Pow2[bits - 2]
      /\ Pow2[bits - 2] \in Nat /\ Pow2[bits - 2] >= 1 /\ Pow2[bits] \in Nat
  <2>1. bits = (bits - 1) + 1 /\ bits - 1 = (bits - 2) + 1
    OBVIOUS
  <2> QED
    BY <2>1, TopIs, Pow2Type
<1>1. PICK e \in Nat : Fits(e) /\ \A i \in Nat : i < e => ~Fits(i)
  <2>1. Top \in Nat /\ Fits(Top)
    <3>1. Pow2[Top] \in Nat /\ Pow2[Top] > 0 /\ Pow2[bits] >= 2
      BY <1>0, Pow2Type
    <3> QED
      BY <1>0, <3>1
  <2>2. ~(Nat \subseteq G)
    BY <2>1
  <2>3. d \in [Nat -> Nat]
    OBVIOUS
  <2> HIDE DEF G
  <2>4. \E x \in Nat : (\A y \in Nat : d[y] < d[x] => y \in G) /\ x \notin G
    <3> HIDE DEF d
    <3> QED
      BY <2>2, <2>3, RankInduction
  <2> QED
    BY <2>4 DEF G
<1>2. e = 0 \/ Pow2[bits - 1] * Pow2[e] <= m
  <2> SUFFICES ASSUME e # 0 PROVE Pow2[bits - 1] * Pow2[e] <= m
    OBVIOUS
  <2>1. e - 1 \in Nat /\ Pow2[e] = 2 * Pow2[e - 1] /\ Pow2[e - 1] \in Nat
    <3>1. e - 1 \in Nat /\ e = (e - 1) + 1
      OBVIOUS
    <3> QED
      BY <3>1, Pow2Type
  <2>2. Pow2[bits] * Pow2[e - 1] <= m
    BY <1>0, <1>1, <2>1
  <2> QED
    BY <1>0, <2>1, <2>2
<1>3. e < Top
  <2> SUFFICES ASSUME ~(e < Top) PROVE FALSE
    OBVIOUS
  <2>1. Pow2[Top] <= Pow2[e] /\ Pow2[e] \in Nat /\ Pow2[Top] \in Nat /\ Pow2[Top] > 0
    BY <1>0, Pow2Less, Pow2Type
  <2>2. Pow2[bits - 1] * Pow2[e] >= 2 * Pow2[e]
    BY <1>0, <2>1
  <2> QED
    BY <1>0, <1>2, <2>1, <2>2
<1> QED
  BY <1>1, <1>2, <1>3

\* Division with a remainder, as the provers know it.
LEMMA DivMod ==
  ASSUME NEW u \in Nat, u > 0, NEW q \in Nat, NEW r \in Nat, r < u, NEW a \in Nat, a = q * u + r
  PROVE  a \div u = q /\ a % u = r
OBVIOUS

LEMMA DivModType ==
  ASSUME NEW u \in Nat, u > 0, NEW a \in Nat
  PROVE  a \div u \in Nat /\ a % u \in Nat /\ a % u < u /\ a = (a \div u) * u + (a % u)
OBVIOUS

\* What is rounded, when the last bit of its mantissa stands for 2^e.
LEMMA RoundedAt ==
  ASSUME NEW n \in Int, NEW bits \in Nat, bits > 0, NEW e \in 0..Top,
         Abs(n) < Pow2[bits] * Pow2[e], e = 0 \/ Pow2[bits - 1] * Pow2[e] <= Abs(n),
         NEW q \in Nat, NEW r \in Nat, r < Pow2[e], Abs(n) = q * Pow2[e] + r
  PROVE  LET up == 2 * r > Pow2[e] \/ (2 * r = Pow2[e] /\ q % 2 = 1)
             m == Pow2[e] * (IF up THEN q + 1 ELSE q)
         IN Rounded(n, bits) = IF n < 0 THEN -m ELSE m
<1>1. Abs(n) \in Nat
  BY DEF Abs
<1>2. Ulp(Abs(n), bits) = Pow2[e]
  BY <1>1, UlpIs
<1>3. Pow2[e] \in Nat /\ Pow2[e] > 0
  BY TopIs, Pow2Type
<1>4. Abs(n) \div Pow2[e] = q /\ Abs(n) % Pow2[e] = r
  <2> DEFINE u == Pow2[e]
             a == Abs(n)
  <2>1. u \in Nat /\ u > 0 /\ a \in Nat /\ r < u /\ a = q * u + r
    BY <1>1, <1>3
  <2> HIDE DEF u, a
  <2>2. a \div u = q /\ a % u = r
    BY <2>1, DivMod
  <2> QED
    BY <2>2 DEF a, u
<1> QED
  BY <1>2, <1>4 DEF Rounded

\* A multiple of the last bit is its own nearest float.
LEMMA RoundedExactly ==
  ASSUME NEW n \in Int, NEW bits \in Nat, bits > 0, NEW e \in 0..Top,
         Abs(n) < Pow2[bits] * Pow2[e], e = 0 \/ Pow2[bits - 1] * Pow2[e] <= Abs(n),
         NEW q \in Nat, Abs(n) = q * Pow2[e]
  PROVE  Rounded(n, bits) = IF n < 0 THEN -(Pow2[e] * q) ELSE Pow2[e] * q
<1> DEFINE r == 0
           up == 2 * r > Pow2[e] \/ (2 * r = Pow2[e] /\ q % 2 = 1)
           m == Pow2[e] * (IF up THEN q + 1 ELSE q)
<1>1. Pow2[e] \in Nat /\ Pow2[e] > 0
  BY TopIs, Pow2Type
<1>2. r \in Nat /\ r < Pow2[e] /\ Abs(n) = q * Pow2[e] + r /\ ~up
  BY <1>1
<1> HIDE DEF r
<1>3. Rounded(n, bits) = IF n < 0 THEN -m ELSE m
  BY <1>2, RoundedAt
<1> QED
  BY <1>2, <1>3

\* A float is rounded to itself.
LEMMA FloatRounded ==
  ASSUME NEW bits \in Nat, bits > 0, NEW e \in Nat, e < Top,
         NEW q \in Nat, q <= Pow2[bits], e = 0 \/ Pow2[bits - 1] <= q,
         NEW n \in {q * Pow2[e], -(q * Pow2[e])}
  PROVE  Rounded(n, bits) = n
<1>0. /\ Pow2[e] \in Nat /\ Pow2[e] > 0 /\ Pow2[bits] \in Nat /\ Pow2[bits - 1] \in Nat
      /\ Pow2[bits - 1] > 0 /\ Pow2[bits] = 2 * Pow2[bits - 1] /\ Pow2[e + 1] = 2 * Pow2[e]
  <2>1. bits - 1 \in Nat /\ bits = (bits - 1) + 1
    OBVIOUS
  <2> QED
    BY <2>1, Pow2Type
<1>1. n \in Int /\ Abs(n) = q * Pow2[e]
  BY <1>0 DEF Abs
<1>2. CASE q < Pow2[bits]
  <2>1. Abs(n) < Pow2[bits] * Pow2[e]
    BY <1>0, <1>1, <1>2
  <2>2. e = 0 \/ Pow2[bits - 1] * Pow2[e] <= Abs(n)
    BY <1>0, <1>1
  <2>3. e \in 0..Top
    BY TopIs
  <2>4. Rounded(n, bits) = IF n < 0 THEN -(Pow2[e] * q) ELSE Pow2[e] * q
    BY <1>0, <1>1, <2>1, <2>2, <2>3, RoundedExactly
  <2> QED
    BY <1>0, <1>1, <2>4 DEF Abs
<1>3. CASE q = Pow2[bits]
  <2>1. Abs(n) = Pow2[bits - 1] * Pow2[e + 1]
    BY <1>0, <1>1, <1>3
  <2>2. Abs(n) < Pow2[bits] * Pow2[e + 1] /\ Pow2[bits - 1] * Pow2[e + 1] <= Abs(n)
    BY <1>0, <2>1
  <2>3. e + 1 \in 0..Top
    BY TopIs
  <2>4. Rounded(n, bits) = IF n < 0 THEN -(Pow2[e + 1] * Pow2[bits - 1]) ELSE Pow2[e + 1] * Pow2[bits - 1]
    BY <1>0, <1>1, <2>1, <2>2, <2>3, RoundedExactly
  <2> QED
    BY <1>0, <1>1, <2>1, <2>4 DEF Abs
<1> QED
  BY <1>0, <1>2, <1>3

\* What is rounded is a float.
LEMMA RoundedTwice ==
  ASSUME NEW bits \in Nat, bits > 1, NEW n \in Int, Abs(n) <= Pow2[Top]
  PROVE  Rounded(n, bits) \in Int /\ Rounded(Rounded(n, bits), bits) = Rounded(n, bits)
<1>1. Abs(n) \in Nat
  BY DEF Abs
<1>2. PICK e \in Nat : /\ e < Top
                       /\ Abs(n) < Pow2[bits] * Pow2[e]
                       /\ e = 0 \/ Pow2[bits - 1] * Pow2[e] <= Abs(n)
  BY <1>1, UlpExists
<1>3. /\ Pow2[e] \in Nat /\ Pow2[e] > 0 /\ Pow2[bits] \in Nat /\ Pow2[bits - 1] \in Nat
  <2>1. bits - 1 \in Nat
    OBVIOUS
  <2> QED
    BY <2>1, Pow2Type
<1> DEFINE q == Abs(n) \div Pow2[e]
           r == Abs(n) % Pow2[e]
           up == 2 * r > Pow2[e] \/ (2 * r = Pow2[e] /\ q % 2 = 1)
           p == IF up THEN q + 1 ELSE q
<1>4. q \in Nat /\ r \in Nat /\ r < Pow2[e] /\ Abs(n) = q * Pow2[e] + r
  <2> DEFINE u == Pow2[e]
             a == Abs(n)
  <2>1. u \in Nat /\ u > 0 /\ a \in Nat
    BY <1>1, <1>3
  <2> HIDE DEF u, a
  <2>2. a \div u \in Nat /\ a % u \in Nat /\ a % u < u /\ a = (a \div u) * u + (a % u)
    BY <2>1, DivModType
  <2> QED
    BY <2>2 DEF a, u
<1>5. e \in 0..Top
  BY <1>2, TopIs
<1> HIDE DEF q, r
<1>6. Rounded(n, bits) = IF n < 0 THEN -(Pow2[e] * p) ELSE Pow2[e] * p
  BY <1>2, <1>4, <1>5, RoundedAt
<1>7. q < Pow2[bits] /\ (e = 0 \/ Pow2[bits - 1] <= q)
  <2>1. q * Pow2[e] < Pow2[bits] * Pow2[e]
    BY <1>2, <1>3, <1>4
  <2>2. q < Pow2[bits]
    BY <1>3, <1>4, <2>1
  <2>3. ASSUME e # 0 PROVE Pow2[bits - 1] <= q
    <3>1. Pow2[bits - 1] * Pow2[e] < (q + 1) * Pow2[e]
      BY <1>2, <1>3, <1>4, <2>3
    <3> QED
      BY <1>3, <1>4, <3>1
  <2> QED
    BY <2>2, <2>3
<1>8. p \in Nat /\ p <= Pow2[bits] /\ (e = 0 \/ Pow2[bits - 1] <= p)
  BY <1>3, <1>4, <1>7
<1> HIDE DEF p
<1>9. Rounded(n, bits) \in {p * Pow2[e], -(p * Pow2[e])}
  BY <1>3, <1>6, <1>8
<1>10. Rounded(n, bits) \in Int
  BY <1>3, <1>8, <1>9
<1> QED
  BY <1>2, <1>8, <1>9, <1>10, FloatRounded

\* The bounds that setFloatValue compares with: that of the greatest integer is one more.
LEMMA RoundedMax ==
  ASSUME NEW w \in {Wide - 1, Wide} PROVE AsFloat(Pow2[w] - 1) = Pow2[w] * One
<1> DEFINE d == w - Double
           e == d + Fraction
           u == Pow2[d]
           M == Pow2[Double]
           H == Pow2[Double - 1]
           O == One
<1>1. /\ w \in Nat /\ d \in Nat /\ d >= 1 /\ d - 1 \in Nat /\ w = Double + d
      /\ e \in Nat /\ e \in 0..Top
      /\ Double \in Nat /\ Double > 0 /\ Double - 1 \in Nat
  BY Widths, TopIs
<1>2. Pow2[w] = M * u /\ Pow2[e] = u * O /\ O \in Nat /\ O > 0
  BY <1>1, Pow2Sum, TopIs, OneType DEF One
<1>3. /\ u \in Nat /\ u = 2 * Pow2[d - 1] /\ Pow2[d - 1] \in Nat /\ Pow2[d - 1] > 0
      /\ M = 2 * H /\ H \in Nat /\ H > 0
  <2>1. d = (d - 1) + 1 /\ Double = (Double - 1) + 1
    BY <1>1
  <2> QED
    BY <1>1, <2>1, Pow2Type
<1> HIDE DEF e, d, u, M, H, O
<1> DEFINE U == u * O
           n == (Pow2[w] - 1) * O
           q == M - 1
           r == U - O
<1>4. U \in Nat /\ U > 0 /\ 2 * O <= U /\ (M * u) * O = M * U
  BY <1>2, <1>3
<1>5. n = M * U - O /\ q * U = M * U - U /\ M * U = 2 * (H * U) /\ H * U >= U
  <2>1. n = (M * u) * O - O
    BY <1>2, <1>3
  <2> HIDE DEF U
  <2> QED
    BY <1>3, <1>4, <2>1
<1>6. M * U \in Nat /\ H * U \in Nat
  <2> HIDE DEF U
  <2> QED
    BY <1>3, <1>4
<1> HIDE DEF U, n
<1>7. /\ n \in Int /\ n >= 0 /\ Abs(n) = n /\ q \in Nat /\ r \in Nat /\ r < U /\ n = q * U + r
      /\ n < M * U /\ H * U <= n
  BY <1>2, <1>3, <1>4, <1>5, <1>6 DEF Abs
<1>8. q % 2 = 1
  BY <1>3
<1> HIDE DEF q, r
<1>9. 2 * r > U \/ (2 * r = U /\ q % 2 = 1)
  BY <1>2, <1>4, <1>8 DEF r
<1>10. Rounded(n, Double) = U * (q + 1)
  <2>1. Pow2[e] = U
    BY <1>2 DEF U
  <2> QED
    BY <1>1, <1>7, <1>9, <2>1, RoundedAt DEF M, H
<1>11. U * (q + 1) = Pow2[w] * One
  BY <1>2, <1>3, <1>4 DEF q, O
<1> QED
  BY <1>10, <1>11 DEF n, AsFloat, O

\* The lower bounds that a float is compared with are exact.
LEMMA RoundedMin == AsFloat(MinInt) = MinInt * One /\ AsFloat(0) = 0
<1> DEFINE d == Wide - Double
           e == d + Fraction
           q == Pow2[Double - 1]
<1>1. /\ e \in Nat /\ e < Top /\ Double - 1 \in Nat /\ Double \in Nat /\ Double > 0
      /\ d \in Nat /\ Wide - 1 = (Double - 1) + d
  BY Widths, TopIs
<1>2. q \in Nat /\ q <= Pow2[Double] /\ Pow2[Double] = 2 * q /\ q > 0
  <2>1. Double = (Double - 1) + 1
    BY <1>1
  <2> QED
    BY <1>1, <2>1, Pow2Type
<1>3. MinInt * One = -(q * Pow2[e])
  <2>1. Pow2[(Double - 1) + d] = q * Pow2[d] /\ Pow2[d] \in Nat
    BY <1>1, Pow2Sum, Pow2Type
  <2>2. Pow2[d + Fraction] = Pow2[d] * One
    BY <1>1, Pow2Sum, TopIs DEF One
  <2>3. Wide - 1 = (Double - 1) + d
    BY <1>1
  <2>4. Pow2[Wide - 1] = q * Pow2[d] /\ Pow2[e] = Pow2[d] * One
    BY <2>1, <2>2, <2>3
  <2> HIDE DEF q, e, d
  <2> QED
    BY <1>2, <2>1, <2>4, OneType DEF MinInt
<1>4. Rounded(MinInt * One, Double) = MinInt * One
  <2> HIDE DEF q, e
  <2> QED
    BY <1>1, <1>2, <1>3, FloatRounded DEF q
<1>5. 0 \in Nat /\ 0 < Top /\ 0 <= Pow2[Double] /\ 0 = 0 * Pow2[0]
  <2>1. Pow2[0] \in Nat
    BY Pow2Type
  <2>2. 0 = 0 * Pow2[0]
    BY <2>1
  <2>3. 0 < Top
    BY TopIs
  <2>4. Pow2[Double] \in Nat
    BY <1>1, Pow2Type
  <2> QED
    BY <2>2, <2>3, <2>4
<1>6. Rounded(0, Double) = 0
  BY <1>1, <1>5, FloatRounded
<1>7. 0 * One = 0
  BY OneType
<1> QED
  BY <1>4, <1>6, <1>7 DEF AsFloat
-----------------------------------------------------------------------------
(* The numbers that are kept and read back.                                *)

\* The low bits of a number that fits are the number.
LEMMA ModFits ==
  ASSUME NEW M \in Nat, NEW n \in Int
  PROVE  /\ 0 <= n /\ n < M => n % M = n
         /\ -M <= n /\ n < 0 => n % M = n + M
OBVIOUS

LEMMA BitsType ==
  ASSUME NEW k
  PROVE  /\ Bits(k) \in Nat /\ Bits(k) > 1 /\ Bits(k) - 1 \in Nat
         /\ Pow2[Bits(k)] \in Nat /\ Pow2[Bits(k) - 1] \in Nat
         /\ Pow2[Bits(k)] = 2 * Pow2[Bits(k) - 1] /\ Pow2[Bits(k) - 1] > 0
<1>1. Bits(k) \in Nat /\ Bits(k) > 1
  BY Widths DEF Bits
<1> DEFINE b == Bits(k) - 1
<1>2. b \in Nat /\ Bits(k) = b + 1
  BY <1>1
<1> HIDE DEF b
<1>3. Pow2[b] \in Nat /\ Pow2[b] > 0 /\ Pow2[b + 1] = 2 * Pow2[b] /\ Pow2[b + 1] \in Nat
  BY <1>2, Pow2Type
<1>4. b = Bits(k) - 1
  BY DEF b
<1> QED
  BY <1>1, <1>2, <1>3, <1>4

\* SetInt and SetUint keep a number of the type.
LEMMA SetIntFits ==
  ASSUME NEW T, NEW n \in Int, -Pow2[Bits(T.kind) - 1] <= n, n < Pow2[Bits(T.kind) - 1]
  PROVE  SetInt(T, n) = Scalar(T, n)
<1> DEFINE M == Pow2[Bits(T.kind)]
           H == Pow2[Bits(T.kind) - 1]
<1>1. M \in Nat /\ H \in Nat /\ M = 2 * H /\ H > 0
  BY BitsType
<1>2. -H <= n /\ n < H
  OBVIOUS
<1> HIDE DEF M, H
<1>3. n % M = IF n < 0 THEN n + M ELSE n
  <2>1. n < M /\ -M <= n
    BY <1>1, <1>2
  <2>2. /\ 0 <= n /\ n < M => n % M = n
        /\ -M <= n /\ n < 0 => n % M = n + M
    BY <1>1, ModFits
  <2>3. CASE n < 0
    BY <2>1, <2>2, <2>3
  <2>4. CASE 0 <= n
    BY <2>1, <2>2, <2>4
  <2> QED
    BY <2>3, <2>4
<1>4. (IF 2 * (n % M) >= M THEN (n % M) - M ELSE n % M) = n
  BY <1>1, <1>2, <1>3
<1> QED
  BY <1>4 DEF SetInt, M

LEMMA SetUintFits ==
  ASSUME NEW T, NEW n \in Nat, n < Pow2[Bits(T.kind)]
  PROVE  SetUint(T, n) = Scalar(T, n)
<1> DEFINE M == Pow2[Bits(T.kind)]
<1>1. M \in Nat /\ n < M
  BY BitsType
<1> HIDE DEF M
<1>2. n % M = n
  BY <1>1, ModFits
<1> QED
  BY <1>2 DEF SetUint, M

\* What the numbers of the wide types are.
LEMMA WideRange ==
  /\ MaxInt \in Int /\ MinInt \in Int /\ MaxUint \in Int
  /\ MaxInt > 0 /\ MinInt = -MaxInt - 1 /\ MaxUint = 2 * MaxInt + 1
  /\ Pow2[Wide - 1] = MaxInt + 1 /\ Pow2[Wide] = MaxUint + 1
  /\ AsFloat(MinInt) = MinInt * One /\ AsFloat(0) = 0
  /\ AsFloat(MaxInt) = (MaxInt + 1) * One /\ AsFloat(MaxUint) = (MaxUint + 1) * One
<1>1. /\ Wide - 1 \in Nat /\ Wide = (Wide - 1) + 1 /\ Wide - 2 \in Nat
      /\ Wide - 1 = (Wide - 2) + 1
  BY Widths
<1>2. /\ Pow2[Wide] = 2 * Pow2[Wide - 1] /\ Pow2[Wide - 1] = 2 * Pow2[Wide - 2]
      /\ Pow2[Wide - 1] \in Nat /\ Pow2[Wide - 2] \in Nat /\ Pow2[Wide - 2] > 0
  BY <1>1, Pow2Type
<1>3. AsFloat(MaxInt) = Pow2[Wide - 1] * One /\ AsFloat(MaxUint) = Pow2[Wide] * One
  BY RoundedMax DEF MaxInt, MaxUint
<1>4. /\ MaxInt \in Int /\ MinInt \in Int /\ MaxUint \in Int
      /\ MaxInt > 0 /\ MinInt = -MaxInt - 1 /\ MaxUint = 2 * MaxInt + 1
      /\ Pow2[Wide - 1] = MaxInt + 1 /\ Pow2[Wide] = MaxUint + 1
  BY <1>2 DEF MaxInt, MinInt, MaxUint
<1> QED
  BY <1>3, <1>4, RoundedMin

\* Multiples of one number keep their order.
LEMMA Multiples ==
  ASSUME NEW a \in Int, NEW b \in Int, NEW u \in Nat, u > 0
  PROVE  /\ a * u \in Int /\ (a <= b <=> a * u <= b * u) /\ (a < b <=> a * u < b * u)
         /\ (a + 1) * u = a * u + u /\ -(a * u) = (-a) * u
OBVIOUS

\* The integer that is left of a float, and where it lies.
LEMMA WholePartIs ==
  ASSUME NEW x \in Int
  PROVE  /\ WholePart(x) \in Int
         /\ x >= 0 => WholePart(x) * One <= x /\ x < (WholePart(x) + 1) * One /\ WholePart(x) >= 0
         /\ x < 0 => x <= WholePart(x) * One /\ (WholePart(x) - 1) * One < x /\ WholePart(x) <= 0
<1> DEFINE O == One
<1>1. O \in Nat /\ O > 0
  BY OneType
<1>2. ASSUME NEW a \in Nat
      PROVE  /\ a \div O \in Nat /\ (a \div O) * O <= a /\ a < ((a \div O) + 1) * O
  <2> HIDE DEF O
  <2> DEFINE q == a \div O
             r == a % O
  <2>1. q \in Nat /\ r \in Nat /\ r < O /\ a = q * O + r
    BY <1>1, <1>2, DivModType
  <2> HIDE DEF q, r
  <2>2. (q + 1) * O = q * O + O /\ q * O \in Int
    BY <1>1, <2>1
  <2>3. q \in Nat /\ q * O <= a /\ a < (q + 1) * O
    BY <1>1, <2>1, <2>2
  <2> QED
    BY <2>3 DEF q
<1>3. CASE x >= 0
  <2>1. WholePart(x) = x \div O /\ x \in Nat
    BY <1>3 DEF WholePart
  <2> QED
    BY <1>2, <1>3, <2>1
<1>4. CASE x < 0
  <2> DEFINE q == (-x) \div O
  <2>1. WholePart(x) = -q /\ -x \in Nat
    BY <1>4 DEF WholePart
  <2>2. q \in Nat /\ q * O <= -x /\ -x < (q + 1) * O
    BY <1>2, <2>1
  <2> HIDE DEF q, O
  <2>3. (-q) * O = -(q * O) /\ (-q - 1) * O = -((q + 1) * O) /\ q * O \in Int /\ (q + 1) * O \in Int
    BY <1>1, <2>2
  <2>4. x <= (-q) * O /\ (-q - 1) * O < x /\ -q \in Int /\ -q <= 0
    BY <2>2, <2>3
  <2> QED
    BY <1>4, <2>1, <2>4 DEF O
<1> QED
  BY <1>3, <1>4

\* An integer is the whole part of itself.
LEMMA WholeOfInteger == ASSUME NEW n \in Int PROVE n * One \in Int /\ WholePart(n * One) = n
<1> DEFINE O == One
           x == n * O
           i == WholePart(x)
<1>1. O \in Nat /\ O > 0 /\ x \in Int
  BY OneType
<1>2. /\ i \in Int
      /\ x >= 0 => i * O <= x /\ x < (i + 1) * O /\ i >= 0
      /\ x < 0 => x <= i * O /\ (i - 1) * O < x /\ i <= 0
  BY <1>1, WholePartIs
<1> HIDE DEF i, O
<1>3. CASE x >= 0
  <2>1. i <= n /\ n < i + 1
    BY <1>1, <1>2, <1>3, Multiples
  <2> QED
    BY <1>1, <1>2, <2>1 DEF i, O
<1>4. CASE x < 0
  <2>1. n <= i /\ i - 1 < n
    BY <1>1, <1>2, <1>4, Multiples
  <2> QED
    BY <1>1, <1>2, <2>1 DEF i, O
<1> QED
  BY <1>1, <1>3, <1>4

\* The whole part of what lies between two integers does, too.
LEMMA WholeBetween ==
  ASSUME NEW x \in Int, NEW a \in Int, NEW b \in Int, a <= 0, b >= 0,
         a * One <= x, x < (b + 1) * One
  PROVE  WholePart(x) \in Int /\ a <= WholePart(x) /\ WholePart(x) <= b
<1> DEFINE O == One
           i == WholePart(x)
<1>1. O \in Nat /\ O > 0 /\ a * O <= x /\ x < (b + 1) * O
  BY OneType
<1>2. /\ i \in Int
      /\ x >= 0 => i * O <= x /\ x < (i + 1) * O /\ i >= 0
      /\ x < 0 => x <= i * O /\ (i - 1) * O < x /\ i <= 0
  BY WholePartIs
<1> HIDE DEF i, O
<1>3. CASE x >= 0
  <2>1. i * O < (b + 1) * O
    BY <1>1, <1>2, <1>3
  <2>2. i < b + 1
    BY <1>1, <1>2, <2>1, Multiples
  <2> QED
    BY <1>2, <1>3, <2>2 DEF i
<1>4. CASE x < 0
  <2>1. a * O <= i * O
    BY <1>1, <1>2, <1>4
  <2>2. a <= i
    BY <1>1, <1>2, <2>1, Multiples
  <2> QED
    BY <1>2, <1>4, <2>2 DEF i
<1> QED
  BY <1>3, <1>4

\* A float between the bounds of an integer type is converted to its whole part.
LEMMA FloatTruncated ==
  ASSUME NEW T, T.kind \in Ints \cup Uints, NEW x \in Int,
         IF T.kind \in Ints THEN MinInt * One <= x /\ x < (MaxInt + 1) * One
                            ELSE 0 <= x /\ x < (MaxUint + 1) * One,
         InRange(T.kind, WholePart(x))
  PROVE  SetFloatValue(T, x) = Scalar(T, WholePart(x))
<1>0. One \in Nat /\ One > 0
  BY OneType
<1>1. CASE T.kind \in Ints
  <2>1. T.kind \notin Floats /\ T.kind \notin Uints
    BY <1>1 DEF Ints, Uints, Floats
  <2>2. WholePart(x) \in Int /\ WholePart(x) <= MaxInt
    <3>1. MinInt \in Int /\ MaxInt \in Int /\ MinInt <= 0 /\ MaxInt >= 0
      BY WideRange
    <3> QED
      BY <1>1, <3>1, WholeBetween
  <2>3. SetInt(T, WholePart(x)) = Scalar(T, WholePart(x))
    BY <1>1, <2>1, <2>2, SetIntFits DEF InRange
  <2>4. ~(x < MinInt * One) /\ ~(x > (MaxInt + 1) * One)
    BY <1>0, <1>1, WideRange
  <2> QED
    BY <1>1, <2>1, <2>2, <2>3, <2>4, WideRange DEF SetFloatValue, Truncated
<1>2. CASE T.kind \in Uints
  <2>1. T.kind \notin Floats /\ T.kind \notin Ints
    BY <1>2 DEF Ints, Uints, Floats
  <2>2. WholePart(x) \in Int /\ WholePart(x) <= MaxUint
    <3>1. 0 * One <= x
      BY <1>0, <1>2, <2>1
    <3>2. MaxUint \in Int /\ MaxUint >= 0 /\ x < (MaxUint + 1) * One
      BY <1>2, <2>1, WideRange
    <3> QED
      BY <3>1, <3>2, WholeBetween
  <2>3. SetUint(T, WholePart(x)) = Scalar(T, WholePart(x))
    BY <1>2, <2>1, SetUintFits DEF InRange
  <2>4. ~(x < 0) /\ ~(x > (MaxUint + 1) * One)
    BY <1>0, <1>2, <2>1, WideRange
  <2> QED
    BY <1>2, <2>1, <2>2, <2>3, <2>4, WideRange DEF SetFloatValue, Truncated
<1> QED
  BY <1>1, <1>2

\* What a type holds exactly is converted to it exactly.
LEMMA FloatFits ==
  ASSUME NEW T, T.kind \in Numbers, NEW n \in Int, InRange(T.kind, n), NaN \notin Int
  PROVE  SetFloatValue(T, IF T.kind \in Floats THEN n ELSE n * One) = Scalar(T, n)
<1>0. One \in Nat /\ One > 0 /\ WholePart(n * One) = n /\ n * One \in Int
  BY OneType, WholeOfInteger
<1>1. CASE T.kind \in Floats
  BY <1>1 DEF SetFloatValue, SetFloat, InRange, Ints, Uints, Floats
<1>2. CASE T.kind \in Ints
  <2>1. T.kind \notin Floats /\ T.kind \notin Uints
    BY <1>2 DEF Ints, Uints, Floats
  <2>2. -Pow2[Bits(T.kind) - 1] <= n /\ n < Pow2[Bits(T.kind) - 1]
    BY <1>2, <2>1 DEF InRange
  <2>3. Pow2[Bits(T.kind) - 1] <= MaxInt + 1 /\ Pow2[Bits(T.kind) - 1] \in Nat
    <3>1. CASE T.kind = "int"
      BY <3>1, WideRange, BitsType DEF Bits
    <3>2. CASE T.kind = "int8"
      <4>1. Bits(T.kind) = Narrow
        BY <3>2 DEF Bits
      <4>2. Narrow - 1 \in Nat /\ Wide - 1 \in Nat /\ Narrow - 1 < Wide - 1
        BY Widths
      <4>3. 2 * Pow2[Narrow - 1] <= Pow2[Wide - 1] /\ Pow2[Narrow - 1] \in Nat
        BY <4>2, Pow2Less, Pow2Type
      <4> QED
        BY <4>1, <4>3, WideRange
    <3> QED
      BY <1>2, <3>1, <3>2 DEF Ints
  <2>4. n >= MinInt /\ n < MaxInt + 1
    BY <2>2, <2>3, WideRange
  <2>5. MinInt * One <= n * One /\ n * One < (MaxInt + 1) * One
    BY <1>0, <2>4, WideRange, Multiples
  <2> QED
    BY <1>0, <1>2, <2>1, <2>5, FloatTruncated
<1>3. CASE T.kind \in Uints
  <2>1. T.kind \notin Floats /\ T.kind \notin Ints
    BY <1>3 DEF Ints, Uints, Floats
  <2>2. n \in Nat /\ n < Pow2[Bits(T.kind)]
    BY <1>3, <2>1 DEF InRange
  <2>3. Pow2[Bits(T.kind)] <= MaxUint + 1 /\ Pow2[Bits(T.kind)] \in Nat
    <3>1. CASE T.kind = "uint"
      BY <3>1, WideRange, BitsType DEF Bits
    <3>2. CASE T.kind = "uint8"
      <4>1. Bits(T.kind) = Narrow
        BY <3>2 DEF Bits
      <4>2. 2 * Pow2[Narrow] <= Pow2[Wide] /\ Pow2[Narrow] \in Nat
        BY Widths, Pow2Less, Pow2Type
      <4> QED
        BY <4>1, <4>2, WideRange
    <3> QED
      BY <1>3, <3>1, <3>2 DEF Uints
  <2>4. n >= 0 /\ n < MaxUint + 1
    BY <2>2, <2>3, WideRange
  <2>5. 0 <= n * One /\ n * One < (MaxUint + 1) * One
    BY <1>0, <2>4, WideRange, Multiples
  <2> QED
    BY <1>0, <1>3, <2>1, <2>5, FloatTruncated
<1> QED
  BY <1>1, <1>2, <1>3 DEF Numbers

\* What NormalizeValue has widened is set back exactly.
LEMMA WidenedFits ==
  ASSUME NEW k \in Numbers, NEW n, InRange(k, n), NaN \notin Int
  PROVE  SetNumericValue(Type(k), Scalar(Widest(k), n)) = Scalar(Type(k), n)
<1> DEFINE s == Scalar(Widest(k), n)
           T == Type(k)
<1>0. /\ s.t.kind \in Numbers /\ s.n = n /\ T.kind = k
      /\ k \in Ints => s.t.kind = "int" /\ k \notin Uints /\ k \notin Floats
      /\ k \in Uints => s.t.kind = "uint" /\ k \notin Ints /\ k \notin Floats
      /\ k \in Floats => s.t.kind = "float64" /\ k \notin Ints /\ k \notin Uints
      /\ "int" \in Ints /\ "uint" \in Uints /\ "uint" \notin Ints
      /\ "float64" \notin Ints /\ "float64" \notin Uints
  BY DEF Numbers, Ints, Uints, Floats, Scalar, Widest, Type
<1> HIDE DEF s, T
<1>1. CASE k \in Ints
  <2>1. n \in Int /\ -Pow2[Bits(k) - 1] <= n /\ n < Pow2[Bits(k) - 1]
    BY <1>0, <1>1 DEF InRange
  <2>2. SetInt(T, n) = Scalar(T, n)
    BY <1>0, <2>1, SetIntFits
  <2> QED
    BY <1>0, <1>1, <2>1, <2>2 DEF SetNumericValue, SetIntValue, IsNumber, s, T
<1>2. CASE k \in Uints
  <2>1. n \in Nat /\ n < Pow2[Bits(k)]
    BY <1>0, <1>2 DEF InRange
  <2>2. SetUint(T, n) = Scalar(T, n)
    BY <1>0, <2>1, SetUintFits
  <2> QED
    BY <1>0, <1>2, <2>1, <2>2 DEF SetNumericValue, SetUintValue, IsNumber, s, T
<1>3. CASE k \in Floats
  <2>1. n = NaN \/ (n \in Int /\ Rounded(n, Bits(k)) = n)
    BY <1>0, <1>3 DEF InRange
  <2>2. CASE n \in Int
    <3>1. SetFloatValue(T, n) = Scalar(T, n)
      BY <1>0, <1>3, <2>2, FloatFits
    <3> QED
      BY <1>0, <1>3, <2>2, <3>1 DEF SetNumericValue, IsNumber, s, T
  <2>3. CASE n \notin Int
    BY <1>0, <1>3, <2>1, <2>3 DEF SetNumericValue, IsNumber, s, T
  <2> QED
    BY <2>2, <2>3
<1> QED
  BY <1>1, <1>2, <1>3 DEF Numbers
-----------------------------------------------------------------------------
(* What NormalizeValue keeps.                                              *)

\* What NormalizeValue makes of a value, case by case.
LEMMA NormalizeCases ==
  ASSUME NEW v \in GoValues
  PROVE  /\ IsNil(v) => NormalizeValue[v] = Nil
         /\ ~IsNil(v) /\ v.t.kind = "ptr" => NormalizeValue[v] = NormalizeValue[v.parts[1]]
         /\ v.t.kind \in Scalars => /\ ~IsNil(v) /\ v.parts = <<>>
                                    /\ NormalizeValue[v] = Scalar(Widest(v.t.kind), v.n)
         /\ v.t.kind = "map" =>
              /\ ~IsNil(v)
              /\ NormalizeValue[v] = IF v.t.key \in StringKeys
                   THEN Gathered(MapOf("string", Untyped), NormalizeParts(NormalizeValue, v)) ELSE Fails
         /\ v.t.kind \in Lists =>
              /\ ~IsNil(v)
              /\ NormalizeValue[v] = Gathered(ListOf("slice", Untyped), NormalizeParts(NormalizeValue, v))
         /\ ~IsNil(v) /\ v.t.kind \notin Scalars \cup Containers => NormalizeValue[v] = Fails
<1>1. NormalizeValue[v] = NormalizeStep(NormalizeValue, v)
  BY NormalizeDefined
<1>2. v.t.kind \notin Containers => v.parts = <<>>
  BY GoValueParts DEF IsGoValue
<1>3. Nil.t.kind = "nil"
  BY DEF Nil, Scalar, Type
<1> QED
  BY <1>1, <1>2, <1>3 DEF NormalizeStep, NormalizePointer, IsNil, Containers, Lists, Scalars,
     Numbers, Ints, Uints, Floats

\* A container that is no failure has none in it, and one without a failure is none.
LEMMA GatheredOk ==
  ASSUME NEW T, NEW parts, Gathered(T, parts) # Fails
  PROVE  Gathered(T, parts) = Container(T, parts) /\ \A i \in DOMAIN parts : parts[i] # Fails
BY DEF Gathered, Range

LEMMA GatheredAll ==
  ASSUME NEW T, NEW parts, \A i \in DOMAIN parts : parts[i] \in GoValues
  PROVE  Gathered(T, parts) = Container(T, parts)
BY ValuesAssumption DEF Gathered, Range

\* The fields of types and values.
LEMMA KindsApart ==
  /\ Nil.t.kind = "nil" /\ Nil.parts = <<>> /\ Nil.n = 0
  /\ \A k : Type(k).kind = k
  /\ \A k, T : ListOf(k, T).kind = k /\ ListOf(k, T).of = T
  /\ \A k, T : MapOf(k, T).kind = "map" /\ MapOf(k, T).key = k /\ MapOf(k, T).of = T
  /\ \A T, n : Scalar(T, n).t = T /\ Scalar(T, n).n = n /\ Scalar(T, n).parts = <<>>
  /\ \A T, p : Container(T, p).t = T /\ Container(T, p).n = 0 /\ Container(T, p).parts = p
  /\ Untyped.kind = "any"
BY DEF Nil, Scalar, Type, ListOf, MapOf, Container, Untyped

\* What is kept is of a plain type, or a container of any, and no pointer.
LEMMA NormalShape ==
  ASSUME NEW v \in GoValues, NormalizeValue[v] # Fails
  PROVE  LET kept == NormalizeValue[v] IN
         \/ kept = Nil
         \/ \E k \in Scalars : kept.t = Type(k)
         \/ kept.t \in {ListOf("slice", Untyped), MapOf("string", Untyped)}
<1> DEFINE P(u) == NormalizeValue[u] # Fails =>
                     \/ NormalizeValue[u] = Nil
                     \/ \E k \in Scalars : NormalizeValue[u].t = Type(k)
                     \/ NormalizeValue[u].t \in {ListOf("slice", Untyped), MapOf("string", Untyped)}
           G == {u \in GoValues : P(u)}
<1>1. ASSUME NEW u \in GoValues, \A y \in GoValues : Depth[y] < Depth[u] => y \in G PROVE u \in G
  <2> SUFFICES ASSUME NormalizeValue[u] # Fails PROVE P(u)
    OBVIOUS
  <2>1. CASE IsNil(u)
    BY <2>1, NormalizeCases
  <2>2. CASE ~IsNil(u) /\ u.t.kind = "ptr"
    <3>1. u.parts[1] \in GoValues /\ u.parts[1] \in G
      BY <1>1, <2>2, GoValueParts
    <3>2. NormalizeValue[u] = NormalizeValue[u.parts[1]]
      BY <2>2, NormalizeCases
    <3> QED
      BY <3>1, <3>2
  <2>3. CASE u.t.kind \in Scalars
    <3>1. NormalizeValue[u].t = Widest(u.t.kind)
      BY <2>3, NormalizeCases, KindsApart
    <3>2. PICK k \in Scalars : Widest(u.t.kind) = Type(k)
      BY <2>3 DEF Widest, Scalars, Numbers, Ints, Uints, Floats
    <3> QED
      BY <3>1, <3>2
  <2>4. CASE u.t.kind \in {"map", "slice", "array"}
    <3>1. \/ NormalizeValue[u] = Gathered(MapOf("string", Untyped), NormalizeParts(NormalizeValue, u))
          \/ NormalizeValue[u] = Gathered(ListOf("slice", Untyped), NormalizeParts(NormalizeValue, u))
      BY <2>4, NormalizeCases DEF Lists
    <3> QED
      BY <3>1, GatheredOk DEF Container
  <2> QED
    BY <2>1, <2>2, <2>3, <2>4, NormalizeCases DEF Containers, Lists
<1>2. GoValues \subseteq G
  <2> HIDE DEF G
  <2> QED
    BY <1>1, ValuesAssumption, RankInduction
<1> QED
  BY <1>2

\* What is kept is normal, and would be taken again.
LEMMA KeptIsNormal ==
  ASSUME NEW v \in GoValues, NormalizeValue[v] # Fails
  PROVE  LET kept == NormalizeValue[v] IN
         kept \in GoValues /\ IsJSONCompatible[kept] /\ NormalizeValue[kept] = kept
<1> DEFINE P(u) == NormalizeValue[u] # Fails =>
                     /\ IsJSONCompatible[NormalizeValue[u]]
                     /\ NormalizeValue[NormalizeValue[u]] = NormalizeValue[u]
           G == {u \in GoValues : P(u)}
<1>0. \A u \in GoValues : NormalizeValue[u] # Fails => NormalizeValue[u] \in GoValues
  BY ValuesAssumption
<1>1. ASSUME NEW u \in GoValues, \A y \in GoValues : Depth[y] < Depth[u] => y \in G PROVE u \in G
  <2> SUFFICES ASSUME NormalizeValue[u] # Fails PROVE P(u)
    OBVIOUS
  <2> DEFINE w == NormalizeValue[u]
  <2>0. w \in GoValues /\ IsJSONCompatible[w] = CompatibleStep(IsJSONCompatible, w)
    BY <1>0, CompatibleDefined
  <2>1. CASE IsNil(u)
    <3>1. w = Nil /\ IsNil(w)
      BY <2>1, NormalizeCases DEF IsNil
    <3>2. NormalizeValue[w] = Nil
      BY <2>0, <3>1, NormalizeCases
    <3> QED
      BY <2>0, <3>1, <3>2 DEF CompatibleStep
  <2>2. CASE ~IsNil(u) /\ u.t.kind = "ptr"
    <3>1. u.parts[1] \in GoValues /\ u.parts[1] \in G
      BY <1>1, <2>2, GoValueParts
    <3>2. NormalizeValue[u] = NormalizeValue[u.parts[1]]
      BY <2>2, NormalizeCases
    <3> QED
      BY <3>1, <3>2
  <2>3. CASE u.t.kind \in Scalars
    <3>1. w = Scalar(Widest(u.t.kind), u.n)
      BY <2>3, NormalizeCases
    <3>2. w.t.kind \in Scalars /\ Widest(w.t.kind) = Widest(u.t.kind) /\ w.n = u.n /\ w.t.kind # "ptr"
      BY <2>3, <3>1, KindsApart DEF Widest, Scalars, Numbers, Ints, Uints, Floats
    <3>3. NormalizeValue[w] = w
      BY <2>0, <3>1, <3>2, NormalizeCases
    <3> QED
      BY <2>0, <3>2, <3>3 DEF CompatibleStep
  <2>4. CASE u.t.kind \in {"map", "slice", "array"}
    <3> DEFINE p == NormalizeParts(NormalizeValue, u)
    <3>1. PICK T \in {ListOf("slice", Untyped), MapOf("string", Untyped)} :
            NormalizeValue[u] = Gathered(T, p)
      BY <2>4, NormalizeCases DEF Lists
    <3>2. w = Container(T, p) /\ \A i \in DOMAIN p : p[i] # Fails
      BY <3>1, GatheredOk
    <3>3. DOMAIN p = DOMAIN u.parts /\ \A i \in DOMAIN p : p[i] = NormalizeValue[u.parts[i]]
      BY DEF NormalizeParts
    <3>4. \A i \in DOMAIN p : p[i] \in GoValues /\ IsJSONCompatible[p[i]] /\ NormalizeValue[p[i]] = p[i]
      BY <1>0, <1>1, <3>2, <3>3, GoValueParts
    <3>5. NormalizeParts(NormalizeValue, w) = p
      <4>1. p = [i \in DOMAIN p |-> p[i]] /\ w.parts = p
        BY <3>2, KindsApart DEF NormalizeParts
      <4> HIDE DEF p
      <4> QED
        BY <3>4, <4>1 DEF NormalizeParts
    <3> HIDE DEF p
    <3>6. w.t = T /\ w.parts = p /\ w.t.kind \in {"slice", "map"} /\ (w.t.kind = "map" => w.t.key = "string")
      BY <3>2, KindsApart
    <3>7. NormalizeValue[w] = Gathered(T, p)
      BY <2>0, <3>5, <3>6, NormalizeCases, KindsApart DEF Lists, StringKeys
    <3>8. IsJSONCompatible[w]
      BY <2>0, <3>4, <3>6 DEF CompatibleStep, Lists, StringKeys
    <3> QED
      BY <3>1, <3>7, <3>8
  <2> QED
    BY <2>1, <2>2, <2>3, <2>4, NormalizeCases DEF Containers, Lists
<1>2. GoValues \subseteq G
  <2> HIDE DEF G
  <2> QED
    BY <1>1, ValuesAssumption, RankInduction
<1> QED
  BY <1>0, <1>2

\* An integer n of a wide type is read as each of the wide types.
LEMMA IntegerRead ==
  ASSUME NEW n \in Int, NEW k \in {"int", "uint"}
  PROVE  /\ MinInt <= n /\ n <= MaxInt => IsWholePart(SetIntValue(Type(k), n), k, n * One)
         /\ 0 <= n /\ n <= MaxUint => IsWholePart(SetUintValue(Type(k), n), k, n * One)
<1> DEFINE T == Type(k)
<1>0. T.kind = k /\ Bits(k) = Wide /\ k \notin Floats
  BY KindsApart DEF Bits, Floats
<1>1. One \in Nat /\ One > 0 /\ WholePart(n * One) = n /\ n * One \in Int
  BY OneType, WholeOfInteger
<1> HIDE DEF T
<1>2. MinInt <= n /\ n <= MaxInt => SetInt(T, n) = Scalar(T, n)
  BY <1>0, SetIntFits, WideRange
<1>3. 0 <= n /\ n <= MaxUint => SetUint(T, n) = Scalar(T, n)
  BY <1>0, SetUintFits, WideRange
<1>4. CASE k = "int"
  <2>1. k \in Ints /\ k \notin Uints /\ Greatest(k) = MaxInt /\ Least(k) = MinInt
    BY <1>4 DEF Ints, Uints, Greatest, Least
  <2>2. n > MaxInt => n * One > MaxInt * One
    BY <1>1, WideRange, Multiples
  <2> QED
    BY <1>0, <1>1, <1>2, <2>1, <2>2, WideRange DEF IsWholePart, SetIntValue, SetUintValue, T
<1>5. CASE k = "uint"
  <2>1. k \in Uints /\ k \notin Ints /\ Greatest(k) = MaxUint /\ Least(k) = 0
    BY <1>5 DEF Ints, Uints, Greatest, Least
  <2>2. n < 0 => n * One < 0 * One
    BY <1>1, Multiples
  <2> QED
    BY <1>0, <1>1, <1>3, <2>1, <2>2, WideRange DEF IsWholePart, SetIntValue, SetUintValue, T
<1> QED
  BY <1>4, <1>5

\* So is a float, whose fraction is lost.
LEMMA FloatRead ==
  ASSUME NEW x \in Int, NEW k \in {"int", "uint"}
  PROVE  IsWholePart(SetFloatValue(Type(k), x), k, x)
<1> DEFINE T == Type(k)
           min == Least(k)
           max == Greatest(k)
<1>0. T.kind = k /\ Bits(k) = Wide /\ k \notin Floats
  BY KindsApart DEF Bits, Floats
<1>1. /\ k = "int" => k \in Ints /\ k \notin Uints /\ max = MaxInt /\ min = MinInt
      /\ k = "uint" => k \in Uints /\ k \notin Ints /\ max = MaxUint /\ min = 0
  BY DEF Ints, Uints, Greatest, Least
<1>2. /\ One \in Nat /\ One > 0 /\ min \in Int /\ max \in Int /\ min <= 0 /\ max > 0
      /\ AsFloat(min) = min * One /\ AsFloat(max) = (max + 1) * One
      /\ min * One \in Int /\ max * One \in Int /\ (max + 1) * One = max * One + One
  <2>1. One \in Nat /\ One > 0 /\ 0 * One = 0
    BY OneType
  <2>2. min \in Int /\ max \in Int /\ min <= 0 /\ max > 0 /\ AsFloat(min) = min * One /\ AsFloat(max) = (max + 1) * One
    BY <1>1, <2>1, WideRange
  <2> HIDE DEF min, max
  <2> QED
    BY <2>1, <2>2, Multiples
<1> HIDE DEF T, min, max
<1>3. CASE x < min * One \/ x > (max + 1) * One
  <2>1. SetFloatValue(T, x) = Fails
    BY <1>0, <1>1, <1>2, <1>3 DEF SetFloatValue
  <2> QED
    BY <1>2, <1>3, <2>1 DEF IsWholePart, T, min, max
<1>4. CASE x = (max + 1) * One
  <2>1. WholePart(x) = max + 1
    BY <1>2, <1>4, WholeOfInteger
  <2>2. SetFloatValue(T, x) = Scalar(T, Unspecified)
    BY <1>0, <1>1, <1>2, <1>4, <2>1 DEF SetFloatValue, Truncated
  <2> QED
    BY <1>4, <2>2 DEF IsWholePart, T, max
<1>5. CASE min * One <= x /\ x < (max + 1) * One
  <2>1. WholePart(x) \in Int /\ min <= WholePart(x) /\ WholePart(x) <= max
    BY <1>2, <1>5, WholeBetween
  <2>2. InRange(k, WholePart(x))
    BY <1>0, <1>1, <2>1, WideRange DEF InRange
  <2>3. 0 * One = 0
    BY <1>2
  <2>4. IF T.kind \in Ints THEN MinInt * One <= x /\ x < (MaxInt + 1) * One
        ELSE 0 <= x /\ x < (MaxUint + 1) * One
    BY <1>0, <1>1, <1>5, <2>3
  <2>5. SetFloatValue(T, x) = Scalar(T, WholePart(x))
    BY <1>0, <1>1, <2>2, <2>4, FloatTruncated
  <2> QED
    BY <2>5 DEF IsWholePart, T
<1> QED
  BY <1>2, <1>3, <1>4, <1>5

\* What Get of a wide type makes of any number that Set has kept.
LEMMA NumbersKept ==
  ASSUME NEW v \in GoValues, NEW k \in {"int", "uint", "float64"}, IsNumber(v)
  PROVE  LET r == SetNumericValue(Type(k), NormalizeValue[v]) IN
         IF k = "float64" THEN r = Scalar(Type(k), Rounded(Units(v), Double))
         ELSE IsWholePart(r, k, Units(v))
<1> DEFINE s == NormalizeValue[v]
           T == Type(k)
           n == v.n
<1>0. n \in Int /\ v.t.kind \in Numbers /\ NaN \notin Int /\ s \in GoValues \cup {Fails}
  BY ValuesAssumption DEF IsNumber
<1>1. s = Scalar(Widest(v.t.kind), n)
  BY <1>0, NormalizeCases DEF Scalars
<1>2. s.t.kind \in {"int", "uint", "float64"} /\ s.n = n /\ IsNumber(s) /\ T.kind = k
  BY <1>0, <1>1, KindsApart DEF Widest, IsNumber, Numbers, Ints, Uints, Floats
<1>3. Units(v) = IF s.t.kind = "float64" THEN n ELSE n * One
  BY <1>0, <1>1, KindsApart DEF Units, Widest, Numbers, Ints, Uints, Floats
<1>4. s \in GoValues
  <2>1. Fails.t.kind = "failure"
    BY KindsApart DEF Fails
  <2> QED
    BY <1>0, <1>2, <2>1
<1>5. InRange(s.t.kind, n)
  BY <1>2, <1>4, GoValueParts DEF IsGoValue
<1>6. n * One \in Int /\ One \in Nat
  BY <1>0, OneType, WholeOfInteger
<1> HIDE DEF s, T, n
<1>7. ASSUME -Pow2[Wide] <= n, n < Pow2[Wide] PROVE SetFloat(Type("float64"), AsFloat(n)) = Scalar(Type("float64"), AsFloat(n))
  <2> DEFINE P == Pow2[Wide]
  <2>1. Pow2[Top] = P * One /\ P \in Nat /\ One > 0
    BY Widths, TopIs, Pow2Sum, Pow2Type, OneType DEF One
  <2>2. n <= P /\ -P <= n
    BY <1>0, <1>7, <2>1
  <2> HIDE DEF P
  <2>3. n * One <= P * One /\ (-P) * One <= n * One /\ (-P) * One = -(P * One)
    BY <1>0, <1>6, <2>1, <2>2, Multiples
  <2>4. Abs(n * One) <= Pow2[Top]
    BY <1>6, <2>1, <2>3 DEF Abs
  <2>5. Rounded(AsFloat(n), Double) = AsFloat(n)
    BY <1>6, <2>4, Widths, RoundedTwice DEF AsFloat
  <2>6. Bits("float64") = Double
    BY DEF Bits
  <2> QED
    BY <2>5, <2>6, KindsApart DEF SetFloat
<1>8. CASE s.t.kind = "int"
  <2>1. MinInt <= n /\ n <= MaxInt
    <3>1. -Pow2[Wide - 1] <= n /\ n < Pow2[Wide - 1]
      BY <1>5, <1>8 DEF InRange, Bits, Ints, Uints, Floats
    <3>2. n \in Int
      BY <1>0 DEF n
    <3> QED
      BY <3>1, <3>2, WideRange
  <2>2. SetNumericValue(T, s) = SetIntValue(T, n)
    BY <1>2, <1>8 DEF SetNumericValue, Ints
  <2>3. k # "float64" => IsWholePart(SetIntValue(T, n), k, n * One)
    BY <1>0, <2>1, IntegerRead DEF T, n
  <2>4. k = "float64" => SetIntValue(T, n) = Scalar(T, AsFloat(n))
    BY <1>0, <1>2, <1>7, <2>1, WideRange DEF SetIntValue, Ints, Uints, T, n
  <2> QED
    BY <1>3, <1>8, <2>2, <2>3, <2>4 DEF AsFloat, s, T
<1>9. CASE s.t.kind = "uint"
  <2>1. 0 <= n /\ n <= MaxUint
    <3>1. n \in Nat /\ n < Pow2[Wide]
      BY <1>5, <1>9 DEF InRange, Bits, Ints, Uints, Floats
    <3> QED
      BY <3>1, WideRange
  <2>2. SetNumericValue(T, s) = SetUintValue(T, n)
    BY <1>2, <1>9 DEF SetNumericValue, Ints, Uints
  <2>3. k # "float64" => IsWholePart(SetUintValue(T, n), k, n * One)
    BY <1>0, <2>1, IntegerRead DEF T, n
  <2>4. k = "float64" => SetUintValue(T, n) = Scalar(T, AsFloat(n))
    BY <1>0, <1>2, <1>7, <2>1, WideRange DEF SetUintValue, Ints, Uints, T, n
  <2> QED
    BY <1>3, <1>9, <2>2, <2>3, <2>4 DEF AsFloat, s, T
<1>10. CASE s.t.kind = "float64"
  <2>1. Rounded(n, Double) = n /\ n \in Int
    BY <1>0, <1>5, <1>10 DEF InRange, Bits, Ints, Uints, Floats, n
  <2>2. SetNumericValue(T, s) = SetFloatValue(T, n)
    BY <1>2, <1>10 DEF SetNumericValue, Ints, Uints, Floats
  <2>3. k # "float64" => IsWholePart(SetFloatValue(T, n), k, n)
    BY <2>1, FloatRead DEF T
  <2>4. k = "float64" => SetFloatValue(T, n) = Scalar(T, Rounded(n, Double))
    BY <1>2 DEF SetFloatValue, SetFloat, Floats, Bits
  <2> QED
    BY <1>3, <1>10, <2>2, <2>3, <2>4 DEF s, T
<1> QED
  BY <1>2, <1>8, <1>9, <1>10

-----------------------------------------------------------------------------
(* What Get makes of it.                                                   *)

\* What setValue makes of a value, case by case.
LEMMA SetCases ==
  ASSUME NEW x \in GoValues, NEW T \in GoTypes
  PROVE  /\ IsNil(x) => SetValue[x][T] = Zero(T)
         /\ ~IsNil(x) /\ x.t.kind # "ptr" /\ (x.t = T \/ T = Untyped) => SetValue[x][T] = x
         /\ ~IsNil(x) /\ x.t.kind # "ptr" /\ ~(x.t = T \/ T = Untyped) =>
              /\ T.kind = "map" => SetValue[x][T] = ConvertToMap(SetValue, T, x)
              /\ T.kind \in Lists => SetValue[x][T] = ConvertToSlice(SetValue, T, x)
              /\ T.kind \in Numbers /\ x.t.kind \in Numbers => SetValue[x][T] = SetNumericValue(T, x)
<1>1. SetValue[x][T] = SetStep(SetValue, T, x)
  BY SetValueDefined
<1>2. "map" \notin Lists \cup Numbers /\ \A k \in Lists : k \notin Numbers
  BY DEF Lists, Numbers, Ints, Uints, Floats
<1> QED
  BY <1>1, <1>2 DEF SetStep

\* What is normal is no pointer, and is read as any value as it is.
LEMMA UntypedReadsBack ==
  ASSUME NEW e \in GoValues, NormalizeValue[e] = e, Untyped \in GoTypes
  PROVE  e.t.kind # "ptr" /\ SetValue[e][Untyped] = e
<1>0. NormalizeValue[e] # Fails
  BY ValuesAssumption
<1>1. e.t.kind # "ptr"
  BY <1>0, NormalShape, KindsApart DEF Scalars, Numbers, Ints, Uints, Floats
<1>2. CASE IsNil(e)
  BY <1>1, <1>2, NormalizeCases, SetCases DEF Zero
<1>3. CASE ~IsNil(e)
  BY <1>1, <1>3, SetCases
<1> QED
  BY <1>1, <1>2, <1>3

\* A value is the record of its type, its number and its parts.
LEMMA GoValueIs ==
  ASSUME NEW v \in GoValues
  PROVE  /\ v.t \in GoTypes
         /\ v.t.kind \in Containers => /\ v.t.of \in GoTypes
                                       /\ v = Container(v.t, [i \in DOMAIN v.parts |-> v.parts[i]])
         /\ v.t.kind \notin Containers => v = Scalar(v.t, v.n)
BY GoValueParts DEF IsGoValue, Scalar, Container

\* x is a container of any whose parts p are each read back as those of v.
PartsReadBack(x, p, v) ==
  /\ \/ v.t.kind = "slice" /\ x.t = ListOf("slice", Untyped)
     \/ v.t.kind = "map" /\ v.t.key = "string" /\ x.t = MapOf("string", Untyped)
  /\ x = Container(x.t, p)
  /\ DOMAIN p = DOMAIN v.parts
  /\ \A i \in DOMAIN v.parts : SetValue[p[i]][v.t.of] = v.parts[i]
  /\ v.t.of = Untyped => p = [i \in DOMAIN v.parts |-> v.parts[i]]

\* Such a container is read back as v.
LEMMA ContainerReadsBack ==
  ASSUME NEW v \in GoValues, NEW x \in GoValues, NEW p, PartsReadBack(x, p, v)
  PROVE  SetValue[x][v.t] = v
<1> DEFINE T == v.t
           q == [i \in DOMAIN v.parts |-> v.parts[i]]
<1>1. T \in GoTypes /\ v = Container(T, q) /\ T.kind \in {"slice", "map"}
  BY GoValueIs DEF Containers, Lists, PartsReadBack
<1>2. ~IsNil(x) /\ x.t.kind = T.kind /\ x.t.kind # "ptr" /\ T # Untyped /\ x.t.of = Untyped /\ x.parts = p
  BY <1>1, KindsApart DEF IsNil, PartsReadBack
<1>3. CASE x.t = T
  <2>1. x = v
    BY <1>1, <1>2, <1>3, KindsApart DEF PartsReadBack
  <2> QED
    BY <1>1, <1>2, <1>3, <2>1, SetCases
<1>4. CASE x.t # T
  <2>1. ConvertParts(SetValue, T.of, x) = q
    BY <1>2 DEF ConvertParts, PartsReadBack
  <2>2. \A i \in DOMAIN q : q[i] \in GoValues
    BY GoValueParts
  <2> HIDE DEF q
  <2>3. Gathered(T, ConvertParts(SetValue, T.of, x)) = v
    BY <1>1, <2>1, <2>2, GatheredAll
  <2>4. T.kind = "slice" => ConvertToSlice(SetValue, T, x) = v
    BY <1>2, <2>3, KindsApart DEF ConvertToSlice, Lists, PartsReadBack
  <2>5. T.kind = "map" => ConvertToMap(SetValue, T, x) = v
    <3>1. T.kind = "map" => T.key = "string" /\ x.t.key = "string" /\ {x.t.key, T.key} = {"string"}
      BY KindsApart DEF PartsReadBack
    <3> QED
      BY <1>2, <2>3, <3>1 DEF ConvertToMap, StringKeys
  <2> QED
    BY <1>1, <1>2, <1>4, <2>4, <2>5, SetCases DEF Lists
<1> QED
  BY <1>3, <1>4

\* What a plain value is.
LEMMA PlainCases ==
  ASSUME NEW v \in GoValues, IsPlain[v]
  PROVE  /\ v.t.kind \in Scalars \cup {"slice", "map", "ptr"}
         /\ v.t.kind \in Scalars => v.t = Type(v.t.kind)
         /\ v.t.kind = "map" => v.t.key = "string"
         /\ \A i \in DOMAIN v.parts :
              IF v.t.of = Untyped THEN NormalizeValue[v.parts[i]] = v.parts[i]
              ELSE IsPlain[v.parts[i]] /\ v.parts[i].t.kind # "ptr" /\ v.parts[i].t = v.t.of
<1>1. PlainStep(IsPlain, v)
  BY PlainDefined
<1>2. \A i \in DOMAIN v.parts : v.t.of = Untyped \/ v.parts[i].t = v.t.of
  BY GoValueParts DEF IsGoValue
<1> QED
  BY <1>1, <1>2 DEF PlainStep

\* What is kept of a plain value that is no pointer is set back to it.
LEMMA PlainSetBack ==
  ASSUME NEW v \in GoValues, IsPlain[v], v.t.kind # "ptr", NormalizeValue[v] # Fails
  PROVE  SetValue[NormalizeValue[v]][v.t] = v
<1> DEFINE G == {u \in GoValues : IsPlain[u] /\ u.t.kind # "ptr" /\ NormalizeValue[u] # Fails =>
                                    SetValue[NormalizeValue[u]][u.t] = u}
<1>1. ASSUME NEW u \in GoValues, \A y \in GoValues : Depth[y] < Depth[u] => y \in G PROVE u \in G
  <2> SUFFICES ASSUME IsPlain[u], u.t.kind # "ptr", NormalizeValue[u] # Fails
               PROVE  SetValue[NormalizeValue[u]][u.t] = u
    OBVIOUS
  <2> DEFINE w == NormalizeValue[u]
  <2>0. w \in GoValues /\ u.t \in GoTypes /\ NaN \notin Int
    BY GoValueIs, ValuesAssumption
  <2>1. CASE u.t.kind \in Scalars
    <3>1. /\ u.t = Type(u.t.kind) /\ u = Scalar(u.t, u.n) /\ w = Scalar(Widest(u.t.kind), u.n)
          /\ InRange(u.t.kind, u.n) /\ u.t.kind \notin Lists \cup {"map", "any"}
      BY <2>1, PlainCases, NormalizeCases, GoValueIs, GoValueParts
         DEF IsGoValue, Containers, Scalars, Numbers, Ints, Uints, Floats, Lists
    <3>2. w.t.kind \in Scalars /\ w.t = Widest(u.t.kind) /\ ~IsNil(w) /\ w.t.kind # "ptr"
          /\ u.t # Untyped
      BY <2>1, <3>1, KindsApart DEF Widest, IsNil, Scalars, Numbers, Ints, Uints, Floats
    <3>3. CASE w.t = u.t
      BY <2>0, <3>1, <3>2, <3>3, SetCases
    <3>4. CASE w.t # u.t
      <4>1. u.t.kind \in Numbers /\ w.t.kind \in Numbers
        BY <2>1, <3>1, <3>2, <3>4, KindsApart DEF Widest, Scalars, Numbers, Ints, Uints, Floats
      <4>2. SetNumericValue(u.t, w) = u
        BY <2>0, <3>1, <4>1, WidenedFits
      <4> QED
        BY <2>0, <3>2, <3>4, <4>1, <4>2, SetCases
    <3> QED
      BY <3>3, <3>4
  <2>2. CASE u.t.kind \in {"slice", "map"}
    <3> DEFINE p == NormalizeParts(NormalizeValue, u)
    <3>1. PICK T : /\ w = Gathered(T, p)
                   /\ \/ u.t.kind = "slice" /\ T = ListOf("slice", Untyped)
                      \/ u.t.kind = "map" /\ u.t.key = "string" /\ T = MapOf("string", Untyped)
      BY <2>2, NormalizeCases, PlainCases DEF Lists
    <3>2. w = Container(T, p) /\ w.t = T /\ \A i \in DOMAIN p : p[i] # Fails
      BY <3>1, GatheredOk, KindsApart
    <3>3. DOMAIN p = DOMAIN u.parts /\ \A i \in DOMAIN u.parts : p[i] = NormalizeValue[u.parts[i]]
      BY DEF NormalizeParts
    <3>4. u.t.of \in GoTypes
      BY <2>2, GoValueIs DEF Containers, Lists
    <3>5. ASSUME NEW i \in DOMAIN u.parts PROVE SetValue[p[i]][u.t.of] = u.parts[i]
      <4>1. u.parts[i] \in G /\ u.parts[i] \in GoValues
        BY <1>1, GoValueParts
      <4>2. CASE u.t.of = Untyped
        BY <3>3, <3>4, <4>1, <4>2, PlainCases, UntypedReadsBack
      <4>3. CASE u.t.of # Untyped
        BY <3>2, <3>3, <4>1, <4>3, PlainCases
      <4> QED
        BY <4>2, <4>3
    <3>6. u.t.of = Untyped => p = [i \in DOMAIN u.parts |-> u.parts[i]]
      BY PlainCases DEF NormalizeParts
    <3>7. w = Container(w.t, p)
      BY <3>2
    <3> HIDE DEF p
    <3>8. \/ u.t.kind = "slice" /\ w.t = ListOf("slice", Untyped)
          \/ u.t.kind = "map" /\ u.t.key = "string" /\ w.t = MapOf("string", Untyped)
      BY <3>1, <3>2
    <3>9. \A i \in DOMAIN u.parts : SetValue[p[i]][u.t.of] = u.parts[i]
      BY <3>5
    <3>10. DOMAIN p = DOMAIN u.parts
      BY <3>3
    <3> HIDE DEF w
    <3>11. PartsReadBack(w, p, u)
      BY <3>6, <3>7, <3>8, <3>9, <3>10 DEF PartsReadBack
    <3>12. w \in GoValues
      BY <2>0
    <3>13. SetValue[w][u.t] = u
      BY <3>11, <3>12, ContainerReadsBack
    <3> QED
      BY <3>13 DEF w
  <2> QED
    BY <2>1, <2>2, PlainCases
<1>2. GoValues \subseteq G
  <2> HIDE DEF G
  <2> QED
    BY <1>1, ValuesAssumption, RankInduction
<1> QED
  BY <1>2

\* What a pointer or a plain value is converted back to, once its pointee is set back.
LEMMA ConvertsBack ==
  ASSUME NEW v \in GoValues, v # Nil, IsPlain[v], Accepts(v), NEW x \in GoValues,
         IsNil(v) => x = Nil,
         ~IsNil(v) => x # Nil,
         v.t.kind # "ptr" => SetValue[x][v.t] = v,
         v.t.kind = "ptr" /\ ~IsNil(v) => SetValue[x][v.t.of] = v.parts[1]
  PROVE  Convert(v.t, x) = v
<1>0. v.t.kind \in Scalars \cup {"slice", "map", "ptr"} /\ v.t # Untyped
  BY PlainCases, KindsApart DEF Scalars, Numbers, Ints, Uints, Floats
<1>1. CASE v.t.kind # "ptr"
  <2>1. ~IsNil(v)
    BY <1>1 DEF IsNil
  <2> QED
    BY <1>0, <1>1, <2>1 DEF Convert
<1>2. CASE v.t.kind = "ptr" /\ IsNil(v)
  <2>1. v.parts = <<>> /\ v.n = 0 /\ v = [t |-> v.t, n |-> v.n, parts |-> [i \in DOMAIN v.parts |-> v.parts[i]]]
    BY <1>2, GoValueParts DEF IsNil, IsGoValue, Containers
  <2>2. v = Scalar(v.t, 0)
    BY <2>1 DEF Scalar
  <2> QED
    BY <1>0, <1>2, <2>2 DEF Convert, Zero
<1>3. CASE v.t.kind = "ptr" /\ ~IsNil(v)
  <2> DEFINE q == [i \in {1} |-> SetValue[x][v.t.of]]
  <2>1. DOMAIN v.parts = {1}
    BY <1>3, GoValueParts DEF IsGoValue, IsNil
  <2>2. v = Container(v.t, [i \in DOMAIN v.parts |-> v.parts[i]])
    BY <1>3, GoValueIs DEF Containers
  <2>3. q = [i \in DOMAIN v.parts |-> v.parts[i]] /\ \A i \in DOMAIN q : q[i] \in GoValues
    BY <1>3, <2>1, GoValueParts
  <2> HIDE DEF q
  <2>4. Gathered(v.t, q) = v
    BY <2>2, <2>3, GatheredAll
  <2> QED
    BY <1>0, <1>3, <2>4 DEF Convert, q
<1> QED
  BY <1>1, <1>2, <1>3

\* The pointee of an accepted plain pointer is a plain value that is kept.
LEMMA PointeePlain ==
  ASSUME NEW v \in GoValues, IsPlain[v], Accepts(v), v.t.kind = "ptr", ~IsNil(v)
  PROVE  LET e == v.parts[1] IN
         /\ 1 \in DOMAIN v.parts /\ e \in GoValues /\ e.t = v.t.of /\ v.t.of # Untyped
         /\ IsPlain[e] /\ e.t.kind # "ptr" /\ NormalizeValue[v] = NormalizeValue[e]
<1>1. v.t.of # Untyped
  BY CompatibleDefined DEF Accepts, CompatibleStep
<1> QED
  BY <1>1, GoValueParts, PlainCases, NormalizeCases

\* What is kept of a plain value is no nil, unless it is nil itself.
LEMMA PlainKeptNil ==
  ASSUME NEW v \in GoValues, IsPlain[v], v.t.kind # "ptr", NormalizeValue[v] # Fails
  PROVE  ~IsNil(v) /\ NormalizeValue[v] # Nil
         /\ NormalizeValue[v].t.kind \in Scalars \cup {"slice", "map"}
<1>1. v.t.kind \in Scalars \cup {"slice", "map"}
  BY PlainCases
<1>2. CASE v.t.kind \in Scalars
  BY <1>2, NormalizeCases, KindsApart DEF Widest, Scalars, Numbers, Ints, Uints, Floats
<1>3. CASE v.t.kind \in {"slice", "map"}
  BY <1>3, NormalizeCases, PlainCases, GatheredOk, KindsApart DEF Lists, Scalars, Numbers, Ints, Uints, Floats
<1> QED
  BY <1>1, <1>2, <1>3

\* Get gives back a plain value that Set has kept.
LEMMA PlainConverts ==
  ASSUME NEW v \in GoValues, v # Nil, IsPlain[v], Accepts(v)
  PROVE  Convert(v.t, NormalizeValue[v]) = v
<1> DEFINE x == NormalizeValue[v]
<1>0. x # Fails /\ x \in GoValues
  BY ValuesAssumption DEF Accepts
<1>1. CASE v.t.kind # "ptr"
  BY <1>0, <1>1, PlainSetBack, PlainKeptNil, ConvertsBack
<1>2. CASE v.t.kind = "ptr" /\ IsNil(v)
  BY <1>0, <1>2, NormalizeCases, ConvertsBack
<1>3. CASE v.t.kind = "ptr" /\ ~IsNil(v)
  <2> DEFINE e == v.parts[1]
  <2>1. e \in GoValues /\ IsPlain[e] /\ e.t.kind # "ptr" /\ x = NormalizeValue[e] /\ e.t = v.t.of
    BY <1>3, PointeePlain
  <2> HIDE DEF e
  <2>2. SetValue[x][v.t.of] = e /\ x # Nil
    BY <1>0, <2>1, PlainSetBack, PlainKeptNil
  <2> QED
    BY <1>0, <1>3, <2>2, ConvertsBack DEF e
<1> QED
  BY <1>1, <1>2, <1>3
-----------------------------------------------------------------------------
(* What text leaves of it.                                                 *)

\* What package json makes of the parts of a container.
TextParts(v) ==
  IF v.t.kind = "map"
    THEN [k \in {Encoded(i) : i \in DOMAIN v.parts} |-> TextOfKey(FromText, v, k)]
    ELSE [i \in DOMAIN v.parts |-> FromText[v.parts[i]]]

\* What it makes of numbers, of texts, of containers and of the rest.
LEMMA TextCases ==
  ASSUME NEW v \in GoValues
  PROVE  /\ IsNumber(v) => FromText[v] = Scalar(Type("float64"), Rounded(Units(v), Double))
         /\ v.t.kind = "string" => FromText[v] = Scalar(v.t, Encoded(v.n))
         /\ v.t.kind \in Containers => FromText[v] = Container(v.t, TextParts(v))
         /\ ~IsNumber(v) /\ v.t.kind \notin Containers \cup {"string"} => FromText[v] = v
<1>1. FromText[v] = TextStep(FromText, v)
  BY FromTextDefined
<1>2. v.t.kind \in Containers \cup {"string"} => ~IsNumber(v)
  BY DEF IsNumber, Containers, Lists, Numbers, Ints, Uints, Floats
<1>3. "string" \notin Containers /\ "map" \in Containers
  BY DEF Containers, Lists
<1> QED
  BY <1>1, <1>2, <1>3 DEF TextStep, TextParts

\* A value of the text is what package json makes of a part.
LEMMA TextPartIs ==
  ASSUME NEW v \in GoValues, NEW k \in DOMAIN TextParts(v)
  PROVE  \E i \in DOMAIN v.parts : TextParts(v)[k] = FromText[v.parts[i]]
<1>1. CASE v.t.kind = "map"
  <2>1. k \in {Encoded(i) : i \in DOMAIN v.parts} /\ TextParts(v)[k] = TextOfKey(FromText, v, k)
    BY <1>1 DEF TextParts
  <2> DEFINE j == CHOOSE i \in DOMAIN v.parts : Encoded(i) = k
  <2>2. j \in DOMAIN v.parts
    BY <2>1
  <2> QED
    BY <2>1, <2>2 DEF TextOfKey
<1>2. CASE v.t.kind # "map"
  BY <1>2 DEF TextParts
<1> QED
  BY <1>1, <1>2

\* Where the keys are UTF-8, they stay.
LEMMA TextPartsStay ==
  ASSUME NEW v \in GoValues, v.t.kind = "map" => DOMAIN v.parts \cap IllFormed = {}
  PROVE  TextParts(v) = [i \in DOMAIN v.parts |-> FromText[v.parts[i]]]
<1>1. CASE v.t.kind = "map"
  <2>1. \A i \in DOMAIN v.parts : Encoded(i) = i
    BY <1>1 DEF Encoded
  <2>2. {Encoded(i) : i \in DOMAIN v.parts} = DOMAIN v.parts
    BY <2>1
  <2>3. \A k \in DOMAIN v.parts : (CHOOSE i \in DOMAIN v.parts : Encoded(i) = k) = k
    BY <2>1
  <2>4. \A k \in DOMAIN v.parts : TextOfKey(FromText, v, k) = FromText[v.parts[k]]
    BY <2>3 DEF TextOfKey
  <2> QED
    BY <1>1, <2>2, <2>4 DEF TextParts
<1>2. CASE v.t.kind # "map"
  BY <1>2 DEF TextParts
<1> QED
  BY <1>1, <1>2

\* The parts of a normal container are normal.
LEMMA NormalParts ==
  ASSUME NEW v \in GoValues, NormalizeValue[v] = v, v.t.kind \in {"slice", "map"}
  PROVE  /\ v.t \in {ListOf("slice", Untyped), MapOf("string", Untyped)}
         /\ \A i \in DOMAIN v.parts : v.parts[i] \in GoValues /\ NormalizeValue[v.parts[i]] = v.parts[i]
<1> DEFINE p == NormalizeParts(NormalizeValue, v)
<1>0. v # Fails
  BY ValuesAssumption
<1>1. PICK T \in {ListOf("slice", Untyped), MapOf("string", Untyped)} : v = Gathered(T, p)
  BY <1>0, NormalizeCases DEF Lists
<1>2. v = Container(T, p)
  BY <1>0, <1>1, GatheredOk
<1>3. v.t = T /\ v.parts = p
  BY <1>2, KindsApart
<1>4. \A i \in DOMAIN v.parts : v.parts[i] = NormalizeValue[v.parts[i]]
  BY <1>3 DEF NormalizeParts
<1> QED
  BY <1>3, <1>4, GoValueParts

\* What package json makes of a normal value is normal.
LEMMA TextIsNormal ==
  ASSUME NEW v \in GoValues, NormalizeValue[v] = v
  PROVE  FromText[v] \in GoValues /\ NormalizeValue[FromText[v]] = FromText[v]
<1> DEFINE G == {u \in GoValues : NormalizeValue[u] = u => NormalizeValue[FromText[u]] = FromText[u]}
<1>0. \A u \in GoValues : NormalizeValue[u] = u => FromText[u] \in GoValues /\ u # Fails
  BY ValuesAssumption
<1>1. ASSUME NEW u \in GoValues, \A y \in GoValues : Depth[y] < Depth[u] => y \in G PROVE u \in G
  <2> SUFFICES ASSUME NormalizeValue[u] = u PROVE NormalizeValue[FromText[u]] = FromText[u]
    OBVIOUS
  <2> DEFINE x == FromText[u]
  <2>0. x \in GoValues /\ u # Fails
    BY <1>0
  <2>1. CASE IsNumber(u)
    <3> DEFINE n == Rounded(Units(u), Double)
    <3>0. x = Scalar(Type("float64"), n)
      BY <2>1, TextCases
    <3> HIDE DEF x, n
    <3>1. x.t.kind = "float64" /\ x = Scalar(Type("float64"), x.n)
      BY <3>0, KindsApart
    <3>2. Widest("float64") = Type("float64")
      BY DEF Widest, Ints, Uints, Floats
    <3>3. x = NormalizeValue[x]
      BY <2>0, <3>1, <3>2, NormalizeCases DEF Scalars, Numbers, Floats
    <3> QED
      BY <3>3 DEF x
  <2>2. CASE u.t.kind \in {"slice", "map"}
    <3> DEFINE p == TextParts(u)
    <3>1. u.t \in {ListOf("slice", Untyped), MapOf("string", Untyped)} /\ x = Container(u.t, p)
      BY <2>2, NormalParts, TextCases DEF Containers, Lists
    <3>2. \A i \in DOMAIN p : p[i] \in GoValues /\ NormalizeValue[p[i]] = p[i]
      <4> SUFFICES ASSUME NEW k \in DOMAIN p PROVE p[k] \in GoValues /\ NormalizeValue[p[k]] = p[k]
        OBVIOUS
      <4>1. PICK i \in DOMAIN u.parts : p[k] = FromText[u.parts[i]]
        BY TextPartIs
      <4> QED
        BY <1>0, <1>1, <2>2, <4>1, NormalParts, GoValueParts
    <3>3. p = [i \in DOMAIN p |-> p[i]]
      BY DEF TextParts
    <3> HIDE DEF p
    <3>4. x.t = u.t /\ x.parts = p
      BY <3>1, KindsApart
    <3> HIDE DEF x
    <3>5. NormalizeParts(NormalizeValue, x) = p
      BY <3>2, <3>3, <3>4 DEF NormalizeParts
    <3>6. NormalizeValue[x] = Gathered(u.t, p)
      BY <2>0, <3>1, <3>4, <3>5, NormalizeCases, KindsApart DEF Lists, StringKeys
    <3>7. Gathered(u.t, p) = x
      BY <3>1, <3>2, GatheredAll
    <3> QED
      BY <3>6, <3>7 DEF x
  <2>3. CASE u.t.kind = "string"
    <3> DEFINE n == Encoded(u.n)
    <3>0. x = Scalar(u.t, n) /\ u = NormalizeValue[u]
      BY <2>3, TextCases
    <3>1. u.t = Widest(u.t.kind) /\ Widest("string") = Type("string")
      BY <2>3, <3>0, NormalizeCases, KindsApart DEF Widest, Scalars, Ints, Uints, Floats
    <3> HIDE DEF x, n
    <3>2. x.t = u.t /\ x.t.kind = "string" /\ x = Scalar(x.t, x.n)
      BY <2>3, <3>0, KindsApart
    <3>3. x = NormalizeValue[x]
      BY <2>0, <2>3, <3>1, <3>2, NormalizeCases DEF Scalars
    <3> QED
      BY <3>3 DEF x
  <2>4. CASE ~IsNumber(u) /\ u.t.kind \notin {"slice", "map", "string"}
    <3>1. u.t.kind \notin Containers
      BY <2>0, <2>4, NormalShape, KindsApart DEF Containers, Lists, Scalars, Numbers, Ints, Uints, Floats
    <3> QED
      BY <2>4, <3>1, TextCases
  <2> QED
    BY <2>1, <2>2, <2>3, <2>4
<1>2. GoValues \subseteq G
  <2> HIDE DEF G
  <2> QED
    BY <1>1, ValuesAssumption, RankInduction
<1> QED
  BY <1>0, <1>2

\* Where there is no NaN, there is none in the parts.
LEMMA NaNCases ==
  ASSUME NEW v \in GoValues, ~HasNaN[v]
  PROVE  v.n # NaN /\ \A i \in DOMAIN v.parts : ~HasNaN[v.parts[i]]
BY HasNaNDefined

LEMMA KeepsCases ==
  ASSUME NEW v \in GoValues, TextKeeps[v]
  PROVE  /\ IsNumber(v) => Rounded(Units(v), Double) = Units(v)
         /\ v.t.kind = "string" => v.n \notin IllFormed
         /\ v.t.kind = "map" => DOMAIN v.parts \cap IllFormed = {}
         /\ \A i \in DOMAIN v.parts : IF v.t.of = Untyped THEN FromText[v.parts[i]] = v.parts[i]
                                      ELSE TextKeeps[v.parts[i]]
<1>1. KeepsStep(TextKeeps, v)
  BY KeepsDefined
<1> QED
  BY <1>1 DEF KeepsStep

\* A plain value that text keeps is set back from what is kept of it, written and read.
LEMMA TextSetBack ==
  ASSUME NEW v \in GoValues, IsPlain[v], v.t.kind # "ptr", NormalizeValue[v] # Fails,
         TextKeeps[v], ~HasNaN[NormalizeValue[v]]
  PROVE  SetValue[FromText[NormalizeValue[v]]][v.t] = v
<1> DEFINE P(u) == /\ IsPlain[u] /\ u.t.kind # "ptr" /\ NormalizeValue[u] # Fails
                   /\ TextKeeps[u] /\ ~HasNaN[NormalizeValue[u]]
           G == {u \in GoValues : P(u) => SetValue[FromText[NormalizeValue[u]]][u.t] = u}
<1>1. ASSUME NEW u \in GoValues, \A y \in GoValues : Depth[y] < Depth[u] => y \in G PROVE u \in G
  <2> SUFFICES ASSUME P(u) PROVE SetValue[FromText[NormalizeValue[u]]][u.t] = u
    OBVIOUS
  <2> DEFINE w == NormalizeValue[u]
             x == FromText[w]
  <2>0. w \in GoValues /\ x \in GoValues /\ u.t \in GoTypes /\ NaN \notin Int
        /\ NormalizeValue[w] = w
    BY GoValueIs, KeptIsNormal, TextIsNormal, ValuesAssumption
  <2>1. CASE u.t.kind \in Numbers
    <3>1. /\ u.t = Type(u.t.kind) /\ u = Scalar(u.t, u.n) /\ w = Scalar(Widest(u.t.kind), u.n)
          /\ InRange(u.t.kind, u.n) /\ u.t.kind \notin Lists \cup {"map", "any"}
      BY <2>1, PlainCases, NormalizeCases, GoValueIs, GoValueParts
         DEF IsGoValue, Containers, Scalars, Numbers, Ints, Uints, Floats, Lists
    <3>2. w.t.kind \in Numbers /\ w.n = u.n /\ u.n # NaN
      BY <2>0, <2>1, <3>1, KindsApart, NaNCases DEF Widest, Numbers, Ints, Uints, Floats
    <3>3. u.n \in Int
      BY <2>1, <3>1, <3>2 DEF InRange, Numbers, Ints, Uints, Floats
    <3>4. x = Scalar(Type("float64"), Units(u)) /\ Units(u) \in Int
      <4>1. Rounded(Units(u), Double) = Units(u)
        BY <2>1, <3>3, KeepsCases DEF IsNumber
      <4>2. IsNumber(w)
        BY <3>2, <3>3 DEF IsNumber
      <4>3. x = Scalar(Type("float64"), Rounded(Units(w), Double))
        BY <2>0, <4>2, TextCases
      <4>4. Units(w) = Units(u)
        BY <2>1, <3>1, <3>2, KindsApart DEF Units, Widest, Numbers, Ints, Uints, Floats
      <4> QED
        BY <3>3, <4>1, <4>3, <4>4, WholeOfInteger DEF Units
    <3>5. x.t = Type("float64") /\ ~IsNil(x) /\ x.t.kind = "float64" /\ x.n = Units(u) /\ u.t # Untyped
      BY <3>1, <3>4, KindsApart DEF IsNil
    <3>6. CASE x.t = u.t
      <4>1. Units(u) = u.n
        BY <3>5, <3>6 DEF Units, Floats
      <4> QED
        BY <2>0, <3>1, <3>4, <3>5, <3>6, <4>1, SetCases
    <3>7. CASE x.t # u.t
      <4>1. SetFloatValue(u.t, Units(u)) = u
        BY <2>0, <2>1, <3>1, <3>3, FloatFits DEF Units
      <4>2. SetNumericValue(u.t, x) = u
        BY <3>4, <3>5, <4>1 DEF SetNumericValue, IsNumber, Numbers, Ints, Uints, Floats
      <4> QED
        BY <2>0, <2>1, <3>5, <3>7, <4>2, SetCases DEF Numbers, Floats
    <3> QED
      BY <3>6, <3>7
  <2>2. CASE u.t.kind \in {"string", "bool"}
    <3>1. w = Scalar(Type(u.t.kind), u.n)
      BY <2>2, NormalizeCases DEF Widest, Scalars, Ints, Uints, Floats
    <3>2. x = w
      <4>1. CASE u.t.kind = "string"
        <5>1. w.t.kind = "string" /\ w.t = Type("string") /\ w.n = u.n
          BY <3>1, <4>1, KindsApart
        <5>2. x = Scalar(w.t, Encoded(w.n))
          BY <2>0, <5>1, TextCases
        <5>3. Encoded(u.n) = u.n
          BY <4>1, KeepsCases DEF Encoded
        <5> QED
          BY <3>1, <4>1, <5>1, <5>2, <5>3
      <4>2. CASE u.t.kind = "bool"
        <5>1. w.t.kind = "bool"
          BY <3>1, <4>2, KindsApart
        <5> QED
          BY <2>0, <5>1, TextCases DEF IsNumber, Containers, Lists, Numbers, Ints, Uints, Floats
      <4> QED
        BY <2>2, <4>1, <4>2
    <3> QED
      BY <3>2, PlainSetBack
  <2>3. CASE u.t.kind \in {"slice", "map"}
    <3> DEFINE p == NormalizeParts(NormalizeValue, u)
               q == [i \in DOMAIN p |-> FromText[p[i]]]
    <3>1. PICK T : /\ w = Gathered(T, p)
                   /\ \/ u.t.kind = "slice" /\ T = ListOf("slice", Untyped)
                      \/ u.t.kind = "map" /\ u.t.key = "string" /\ T = MapOf("string", Untyped)
      BY <2>3, NormalizeCases, PlainCases DEF Lists
    <3>2. w = Container(T, p) /\ w.t = T /\ w.parts = p /\ \A i \in DOMAIN p : p[i] # Fails
      BY <3>1, GatheredOk, KindsApart
    <3>3. DOMAIN p = DOMAIN u.parts /\ \A i \in DOMAIN u.parts : p[i] = NormalizeValue[u.parts[i]]
      BY DEF NormalizeParts
    <3>4. u.t.of \in GoTypes
      BY <2>3, GoValueIs DEF Containers, Lists
    <3>5. x = Container(T, q) /\ x.t = T
      <4>1. T.kind \in {"slice", "map"}
        BY <3>1, KindsApart
      <4>2. x = Container(w.t, [i \in DOMAIN w.parts |-> FromText[w.parts[i]]])
        <5>0. w.t.kind = "map" => DOMAIN w.parts \cap IllFormed = {}
          BY <3>1, <3>2, <3>3, KeepsCases, KindsApart
        <5> HIDE DEF w
        <5>1. w.t.kind \in Containers
          BY <3>2, <4>1 DEF Containers, Lists
        <5> QED
          BY <2>0, <5>0, <5>1, TextCases, TextPartsStay
      <4>3. x = Container(T, q)
        <5> HIDE DEF w, p
        <5> QED
          BY <3>2, <4>2
      <4> HIDE DEF x, q
      <4> QED
        BY <4>3, KindsApart
    <3>6. \A i \in DOMAIN p : ~HasNaN[p[i]]
      BY <2>0, <3>2, NaNCases
    <3>7. ASSUME NEW i \in DOMAIN u.parts PROVE SetValue[q[i]][u.t.of] = u.parts[i]
      <4>1. u.parts[i] \in G /\ u.parts[i] \in GoValues
        BY <1>1, GoValueParts
      <4>2. q[i] = FromText[NormalizeValue[u.parts[i]]]
        BY <3>3
      <4>3. CASE u.t.of = Untyped
        <5>1. NormalizeValue[u.parts[i]] = u.parts[i] /\ FromText[u.parts[i]] = u.parts[i]
          BY <4>3, PlainCases, KeepsCases
        <5> QED
          BY <3>4, <4>1, <4>2, <4>3, <5>1, UntypedReadsBack
      <4>4. CASE u.t.of # Untyped
        <5>1. P(u.parts[i]) /\ u.parts[i].t = u.t.of
          BY <3>2, <3>3, <3>6, <4>4, PlainCases, KeepsCases
        <5> QED
          BY <4>1, <4>2, <5>1
      <4> QED
        BY <4>3, <4>4
    <3>8. u.t.of = Untyped => q = [i \in DOMAIN u.parts |-> u.parts[i]]
      <4> SUFFICES ASSUME u.t.of = Untyped PROVE q = [i \in DOMAIN u.parts |-> u.parts[i]]
        OBVIOUS
      <4>1. \A i \in DOMAIN u.parts : FromText[p[i]] = u.parts[i]
        BY <3>3, PlainCases, KeepsCases
      <4> QED
        BY <3>3, <4>1
    <3>9. DOMAIN q = DOMAIN u.parts
      BY <3>3
    <3>10. \A i \in DOMAIN u.parts : SetValue[q[i]][u.t.of] = u.parts[i]
      BY <3>7
    <3> HIDE DEF q, p, x
    <3>11. PartsReadBack(x, q, u)
      BY <3>1, <3>5, <3>8, <3>9, <3>10 DEF PartsReadBack
    <3>12. SetValue[x][u.t] = u
      BY <2>0, <3>11, ContainerReadsBack
    <3> QED
      BY <3>12 DEF x
  <2> QED
    BY <2>1, <2>2, <2>3, PlainCases DEF Scalars
<1>2. GoValues \subseteq G
  <2> HIDE DEF G
  <2> QED
    BY <1>1, ValuesAssumption, RankInduction
<1> QED
  BY <1>2

\* Text makes nil of nothing but nil.
LEMMA TextNil ==
  ASSUME NEW w \in GoValues, NormalizeValue[w] = w
  PROVE  (FromText[w] = Nil) <=> (w = Nil)
<1>0. w # Fails
  BY ValuesAssumption
<1>1. CASE IsNumber(w)
  <2> DEFINE n == Rounded(Units(w), Double)
             x == FromText[w]
  <2>0. x = Scalar(Type("float64"), n)
    BY <1>1, TextCases
  <2> HIDE DEF n, x
  <2>1. x.t.kind = "float64"
    BY <2>0, KindsApart
  <2>2. w.t.kind # "nil"
    BY <1>1 DEF IsNumber, Numbers, Ints, Uints, Floats
  <2>3. x # Nil /\ w # Nil
    BY <2>1, <2>2, KindsApart
  <2> QED
    BY <2>3 DEF x
<1>2. CASE w.t.kind \in Containers
  <2> DEFINE p == TextParts(w)
             x == FromText[w]
  <2>0. x = Container(w.t, p)
    BY <1>2, TextCases
  <2> HIDE DEF p, x
  <2>1. x.t = w.t
    BY <2>0, KindsApart
  <2>2. w.t.kind # "nil"
    BY <1>2 DEF Containers, Lists
  <2>3. x # Nil /\ w # Nil
    BY <2>1, <2>2, KindsApart
  <2> QED
    BY <2>3 DEF x
<1>3. CASE w.t.kind = "string"
  <2> DEFINE n == Encoded(w.n)
             x == FromText[w]
  <2>0. x = Scalar(w.t, n)
    BY <1>3, TextCases
  <2> HIDE DEF n, x
  <2>1. x # Nil /\ w # Nil
    BY <1>3, <2>0, KindsApart
  <2> QED
    BY <2>1 DEF x
<1>4. CASE ~IsNumber(w) /\ w.t.kind \notin Containers \cup {"string"}
  BY <1>4, TextCases
<1> QED
  BY <1>1, <1>2, <1>3, <1>4

\* Get gives back a plain value that Set, Dumps and Loads have kept.
LEMMA TextConverts ==
  ASSUME NEW v \in GoValues, v # Nil, IsPlain[v], Accepts(v), TextKeeps[v],
         ~HasNaN[NormalizeValue[v]], ~HasOddKey[NormalizeValue[v]]
  PROVE  LET r == Reloaded(NormalizeValue[v]) IN r # Fails /\ Convert(v.t, r) = v
<1> DEFINE w == NormalizeValue[v]
           x == FromText[w]
<1>0. w # Fails /\ w \in GoValues /\ NormalizeValue[w] = w /\ x \in GoValues /\ x # Fails
      /\ (x = Nil <=> w = Nil) /\ Reloaded(w) = x
  BY KeptIsNormal, TextIsNormal, TextNil, ValuesAssumption DEF Accepts, Reloaded
<1> HIDE DEF x
<1>1. CASE v.t.kind # "ptr"
  <2>1. SetValue[x][v.t] = v
    BY <1>0, <1>1, TextSetBack DEF x
  <2> QED
    BY <1>0, <1>1, <2>1, PlainKeptNil, ConvertsBack
<1>2. CASE v.t.kind = "ptr" /\ IsNil(v)
  BY <1>0, <1>2, NormalizeCases, ConvertsBack
<1>3. CASE v.t.kind = "ptr" /\ ~IsNil(v)
  <2> DEFINE e == v.parts[1]
  <2>1. e \in GoValues /\ IsPlain[e] /\ e.t.kind # "ptr" /\ w = NormalizeValue[e] /\ e.t = v.t.of
        /\ v.t.of # Untyped /\ 1 \in DOMAIN v.parts
    BY <1>3, PointeePlain
  <2>2. TextKeeps[e]
    BY <2>1, KeepsCases
  <2> HIDE DEF e
  <2>3. SetValue[x][v.t.of] = e /\ x # Nil
    BY <1>0, <2>1, <2>2, TextSetBack, PlainKeptNil DEF x
  <2> QED
    BY <1>0, <1>3, <2>3, ConvertsBack DEF e
<1> QED
  BY <1>1, <1>2, <1>3

-----------------------------------------------------------------------------
(* What the maps hold.                                                     *)

\* A value that a name in the maps stands for is a value, and Set accepts it.
LEMMA StoodFor ==
  ASSUME NEW w \in Accepted, NEW v \in Stands[w]
  PROVE  v \in GoValues /\ Accepts(v) /\ NormalizeValue[v] \in GoValues /\ NormalizeValue[v] # Fails
BY StandsAssumption, ValuesAssumption DEF Accepts

\* The maps hold nothing but accepted names.
LEMMA HoldsAccepted == ASSUME NEW S, Accepted \subseteq S PROVE TypeOK => HasOnly(S)
<1>1. Values = Accepted
  BY StandsAssumption DEF Values
<1> SUFFICES ASSUME TypeOK, NEW m \in Maps, NEW k \in DOMAIN content[m] PROVE content[m][k] \in S
  BY DEF HasOnly
<1>2. content[m] \in Contents
  BY DEF TypeOK
<1>3. PICK D \in SUBSET Keys : content[m] \in [D -> Values]
  BY <1>2 DEF Contents
<1> QED
  BY <1>1, <1>3

\* NormalizeValue is idempotent, and IsJSONCompatible accepts what it makes, so that
\* GetMap and Copy never meet a value that they would panic for.
THEOREM StoredStaysStorable == Spec => []StoredIsStorable
<1>1. Accepted \subseteq Storable
  BY StoodFor, KeptIsNormal DEF Storable, Accepts
<1>2. TypeOK => StoredIsStorable
  BY <1>1, HoldsAccepted DEF StoredIsStorable
<1> QED
  BY <1>2, TypeCorrect, PTL

\* ConvertToJsonSupportType is the inverse of NormalizeValue on plain values: what Set has
\* widened, Get narrows again, however deep it is and whatever the widths.
THEOREM GetUndoesSet == Spec => []PlainReadsBack
<1>1. Accepted \subseteq ReadBack
  BY StoodFor, PlainConverts DEF ReadBack
<1>2. TypeOK => PlainReadsBack
  BY <1>1, HoldsAccepted DEF PlainReadsBack
<1> QED
  BY <1>2, TypeCorrect, PTL

\* Dumps and Loads lose nothing that a float64 can hold, and no text that is UTF-8: Get
\* finds the same value after.
THEOREM GetUndoesText == Spec => []TextReadsBack
<1>1. Accepted \subseteq ReadFromText
  BY StoodFor, TextConverts DEF ReadFromText
<1>2. TypeOK => TextReadsBack
  BY <1>1, HoldsAccepted DEF TextReadsBack
<1> QED
  BY <1>2, TypeCorrect, PTL

\* setNumericValue changes no number silently but by its fraction, and refuses none that
\* the type has; but for the one float above the largest integer, which passes its
\* comparison: for any widths of integers, floats and fractions.
THEOREM OnlyFractionsAreLost == Spec => []NumbersOnlyLoseFractions
<1>1. Accepted \subseteq ReadAsNumber
  BY StoodFor, NumbersKept DEF ReadAsNumber
<1>2. TypeOK => NumbersOnlyLoseFractions
  BY <1>1, HoldsAccepted DEF NumbersOnlyLoseFractions
<1> QED
  BY <1>2, TypeCorrect, PTL
=============================================================================
