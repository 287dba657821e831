------------------------- MODULE RequestTableProofs -------------------------
(***************************************************************************)
(* Proofs about RequestTable, for any programs, rows and batch size.       *)
(***************************************************************************)
EXTENDS RequestTable, TLAPS

\* What a Pop between its statements, or a request on its way, is about is a row.
HeldOK == \A p \in Programs : pc[p] \in {"update", "send"} => held[p] \in Rows

\* Only a program that runs has crawls under way, or marks to write.
OnWhileLive ==
  /\ \A c \in 1..handed : Live(c) => pc[crawl[c].program] # "off"
  /\ \A p \in Programs : pc[p] = "off" => failMap[p] = {}

\* A row of status 0 is nobody's, unless resetRunning has put it back.
WaitingIsFree ==
  \A r \in Rows : status[r] = Waiting /\ Busy(r) => r \in overlapped

Overlaps == \A r \in Rows : OneWorker(r) \/ r \in overlapped

\* A program that has always been alone starts with nothing under way, and what its
\* Pop has read nobody changes before its second statement.
AloneOK ==
  ~together =>
    /\ overlapped = {}
    /\ \A p, q \in Programs : pc[p] # "off" /\ pc[q] # "off" => p = q
    /\ \A p \in Programs : pc[p] = "reset" =>
         failMap[p] = {} /\ \A c \in 1..handed : ~Live(c)
    /\ \A p \in Programs : pc[p] = "update" => status[held[p]] = Waiting
    /\ \A p \in Programs : \A c \in failMap[p] : status[crawl[c].row] # Waiting

Remembered == RowsOf(UNION {failMap[p] : p \in Programs})

\* An item that was not saved is remembered in memory or in the table, or forgotten.
MarksOK ==
  /\ unsaved \subseteq forgotten \cup Remembered \cup marked
  /\ \A r \in marked : status[r] = Finished => r \in forgotten

IInv ==
  /\ TypeOK /\ HeldOK /\ OnWhileLive /\ WaitingIsFree /\ Overlaps /\ AloneOK
  /\ RunningIsKnown /\ MarksOK

-----------------------------------------------------------------------------
\* A field of one crawl changes; its other fields and the other crawls stay.
LEMMA CallChanges ==
  ASSUME TypeOK, NEW c \in 1..handed, NEW a \in Calls,
         crawl' = [crawl EXCEPT ![c].call = a]
  PROVE  /\ crawl' \in [1..handed -> Crawl]
         /\ crawl'[c].call = a /\ crawl'[c].item = crawl[c].item
         /\ \A d \in 1..handed : crawl'[d].row = crawl[d].row /\ crawl'[d].program = crawl[d].program
         /\ \A d \in 1..handed \ {c} : crawl'[d] = crawl[d]
<1>1. crawl \in [1..handed -> Crawl] /\ crawl[c] \in Crawl
  BY DEF TypeOK
<1>2. [crawl[c] EXCEPT !.call = a] \in Crawl
  BY <1>1 DEF Crawl
<1> QED
  BY <1>1, <1>2 DEF Crawl

LEMMA ItemChanges ==
  ASSUME TypeOK, NEW c \in 1..handed, NEW a \in ItemStages,
         crawl' = [crawl EXCEPT ![c].item = a]
  PROVE  /\ crawl' \in [1..handed -> Crawl]
         /\ crawl'[c].item = a /\ crawl'[c].call = crawl[c].call
         /\ \A d \in 1..handed : crawl'[d].row = crawl[d].row /\ crawl'[d].program = crawl[d].program
         /\ \A d \in 1..handed \ {c} : crawl'[d] = crawl[d]
<1>1. crawl \in [1..handed -> Crawl] /\ crawl[c] \in Crawl
  BY DEF TypeOK
<1>2. [crawl[c] EXCEPT !.item = a] \in Crawl
  BY <1>1 DEF Crawl
<1> QED
  BY <1>1, <1>2 DEF Crawl

LEMMA InitInv == Init => IInv
<1> SUFFICES ASSUME Init PROVE IInv
  OBVIOUS
<1> USE TableAssumption DEF Init
<1>1. handed = 0 /\ 1..handed = {}
  OBVIOUS
<1>2. TypeOK
  <2>1. crawl \in [1..handed -> Crawl]
    BY <1>1
  <2>2. status \in [Rows -> {Waiting, Running, Finished, Dropped}]
    OBVIOUS
  <2>3. /\ pc \in [Programs -> {"off", "reset", "first", "update", "send", "end"}]
        /\ held \in [Programs -> 0..MaxRows]
        /\ failMap \in [Programs -> SUBSET (1..handed)]
    OBVIOUS
  <2>4. added \in 0..MaxRows /\ handed \in 0..MaxCrawls /\ starts \in 0..MaxStarts
    OBVIOUS
  <2>5. together \in BOOLEAN /\ overlapped \subseteq Rows /\ stranded \subseteq Rows
    OBVIOUS
  <2>6. unsaved \subseteq Rows /\ marked \subseteq Rows /\ forgotten \subseteq Rows
    OBVIOUS
  <2> QED
    BY <2>1, <2>2, <2>3, <2>4, <2>5, <2>6 DEF TypeOK
<1>3. HeldOK /\ OnWhileLive /\ AloneOK
  BY <1>1 DEF HeldOK, OnWhileLive, AloneOK
<1>4. WaitingIsFree /\ Overlaps
  BY <1>1 DEF WaitingIsFree, Overlaps, OneWorker, Busy, At, AtSend
<1>5. RunningIsKnown /\ MarksOK
  BY DEF RunningIsKnown, MarksOK, Waiting, Running
<1> QED
  BY <1>2, <1>3, <1>4, <1>5 DEF IInv

-----------------------------------------------------------------------------
(* The generator's steps.                                                  *)

LEMMA AddInv == IInv /\ Add => IInv'
<1> SUFFICES ASSUME IInv, Add PROVE IInv'
  OBVIOUS
<1> USE TableAssumption DEF IInv, Add, generator, crawls, observers, reports
<1>1. TypeOK'
  <2>1. added' \in 0..MaxRows
    BY DEF TypeOK
  <2>2. crawl' \in [1..handed' -> Crawl] /\ failMap' \in [Programs -> SUBSET (1..handed')]
    BY DEF TypeOK
  <2> QED
    BY <2>1, <2>2 DEF TypeOK
<1>2. HeldOK' /\ OnWhileLive' /\ AloneOK'
  BY DEF HeldOK, OnWhileLive, AloneOK, Live
<1>3. WaitingIsFree' /\ Overlaps'
  BY DEF WaitingIsFree, Overlaps, OneWorker, Busy, At, AtSend, Live
<1>4. RunningIsKnown' /\ MarksOK'
  BY DEF RunningIsKnown, MarksOK, AtSend, Remembered, RowsOf
<1> QED
  BY <1>1, <1>2, <1>3, <1>4

LEMMA StartInv == ASSUME NEW p \in Programs PROVE IInv /\ Start(p) => IInv'
<1> SUFFICES ASSUME IInv, Start(p) PROVE IInv'
  OBVIOUS
<1> USE TableAssumption DEF IInv, Start, table, crawls, reports, Goes
<1>1. TypeOK'
  <2>1. starts' \in 0..MaxStarts /\ together' \in BOOLEAN
    BY DEF TypeOK
  <2>2. pc' \in [Programs -> {"off", "reset", "first", "update", "send", "end"}]
    BY DEF TypeOK
  <2> QED
    BY <2>1, <2>2 DEF TypeOK
<1>2. \A q \in Programs : q # p => pc'[q] = pc[q]
  BY DEF TypeOK
<1>3. pc[p] = "off" /\ pc'[p] \in {"reset", "first"}
  BY DEF TypeOK
<1>4. HeldOK' /\ OnWhileLive'
  BY <1>2, <1>3 DEF HeldOK, OnWhileLive, Live, TypeOK, Crawl
<1>5. AloneOK'
  <2> SUFFICES ASSUME ~together' PROVE AloneOK'
    BY DEF AloneOK
  <2>1. \A q \in Programs : pc[q] = "off"
    OBVIOUS
  <2>2. \A c \in 1..handed : ~Live(c)
    BY <2>1 DEF OnWhileLive, TypeOK, Crawl
  <2>3. failMap[p] = {}
    BY <2>1 DEF OnWhileLive
  <2> QED
    BY <1>2, <1>3, <2>1, <2>2, <2>3 DEF AloneOK, Live, TypeOK
<1>6. \A r \in Rows, q \in Programs : AtSend(q, r)' <=> AtSend(q, r)
  BY <1>2, <1>3 DEF AtSend
<1>7. WaitingIsFree' /\ Overlaps'
  BY <1>6 DEF WaitingIsFree, Overlaps, OneWorker, Busy, At, Live
<1>8. RunningIsKnown' /\ MarksOK'
  BY <1>6 DEF RunningIsKnown, MarksOK, Remembered, RowsOf
<1> QED
  BY <1>1, <1>4, <1>5, <1>7, <1>8

LEMMA ResetInv == ASSUME NEW p \in Programs PROVE IInv /\ ResetRunning(p) => IInv'
<1> SUFFICES ASSUME IInv, ResetRunning(p) PROVE IInv'
  OBVIOUS
<1> USE TableAssumption DEF IInv, ResetRunning, crawls, reports, Goes
<1>1. \/ UNCHANGED <<status, overlapped>>
      \/ \E put \in SUBSET Rows :
           /\ \A r \in put : status[r] = Running
           /\ status' = [r \in Rows |-> IF r \in put THEN Waiting ELSE status[r]]
           /\ overlapped' = overlapped \cup {r \in put : Busy(r)}
  <2> DEFINE put == {r \in 1..added : status[r] = Running}
  <2>1. put \in SUBSET Rows
    BY DEF TypeOK, Rows
  <2> QED
    BY <2>1
<1>2. TypeOK'
  <2>1. /\ status' \in [Rows -> {Waiting, Running, Finished, Dropped}]
        /\ overlapped' \subseteq Rows
    BY <1>1 DEF TypeOK
  <2>2. pc' \in [Programs -> {"off", "reset", "first", "update", "send", "end"}]
    BY DEF TypeOK
  <2> QED
    BY <2>1, <2>2 DEF TypeOK
<1>3. /\ pc[p] = "reset" /\ pc'[p] = "first"
      /\ \A q \in Programs : q # p => pc'[q] = pc[q]
  BY DEF TypeOK
<1>4. HeldOK' /\ OnWhileLive'
  BY <1>3 DEF HeldOK, OnWhileLive, Live, TypeOK, Crawl
<1>5. \A r \in Rows, q \in Programs : AtSend(q, r)' <=> AtSend(q, r)
  BY <1>3 DEF AtSend
<1>6. \A r \in Rows : Busy(r)' <=> Busy(r)
  BY <1>5 DEF Busy, At, Live
<1>7. \A r \in Rows : status'[r] = status[r] \/ (status'[r] = Waiting /\ status[r] = Running)
  BY <1>1 DEF TypeOK
<1>8. \A r \in Rows : status'[r] # status[r] /\ Busy(r) => r \in overlapped'
  BY <1>1 DEF TypeOK
<1>9. overlapped \subseteq overlapped'
  BY <1>1
<1>10. WaitingIsFree'
  BY <1>6, <1>7, <1>8, <1>9 DEF WaitingIsFree
<1>11. Overlaps'
  BY <1>5, <1>9 DEF Overlaps, OneWorker, At, Live
<1>12. AloneOK'
  <2> SUFFICES ASSUME ~together PROVE AloneOK'
    BY DEF AloneOK
  <2>1. /\ overlapped = {} /\ \A q \in Programs : q # p => pc[q] = "off"
        /\ failMap[p] = {} /\ \A c \in 1..handed : ~Live(c)
    BY <1>3 DEF AloneOK
  <2>2. \A r \in Rows : ~Busy(r)
    BY <1>3, <2>1 DEF Busy, At, AtSend
  <2>3. overlapped' = {}
    BY <1>1, <2>1, <2>2
  <2>4. \A q \in Programs : failMap[q] = {}
    BY <2>1 DEF OnWhileLive
  <2> QED
    BY <1>3, <2>1, <2>3, <2>4 DEF AloneOK, Live
<1>13. RunningIsKnown' /\ MarksOK'
  BY <1>5, <1>7 DEF RunningIsKnown, MarksOK, Remembered, RowsOf, Waiting, Running, Finished,
                    TypeOK
<1> QED
  BY <1>2, <1>4, <1>10, <1>11, <1>12, <1>13

LEMMA PopReadsInv == ASSUME NEW p \in Programs PROVE IInv /\ PopReads(p) => IInv'
<1> SUFFICES ASSUME IInv, PopReads(p) PROVE IInv'
  OBVIOUS
<1> USE TableAssumption DEF IInv, PopReads, table, crawls, observers, reports, Goes
<1>1. /\ \A q \in Programs : q # p => pc'[q] = pc[q] /\ held'[q] = held[q]
      /\ pc[p] = "first"
      /\ \/ pc'[p] = "update" /\ held'[p] \in Pending
         \/ pc'[p] = "end"
  BY DEF TypeOK
<1>2. Pending \subseteq Rows /\ \A r \in Pending : status[r] = Waiting
  BY DEF Pending, Rows, TypeOK
<1>3. TypeOK'
  <2>1. pc' \in [Programs -> {"off", "reset", "first", "update", "send", "end"}]
    BY DEF TypeOK
  <2>2. held' \in [Programs -> 0..MaxRows]
    BY <1>2 DEF TypeOK, Rows
  <2> QED
    BY <2>1, <2>2 DEF TypeOK
<1>4. HeldOK' /\ OnWhileLive'
  BY <1>1, <1>2 DEF HeldOK, OnWhileLive, Live, TypeOK, Crawl
<1>5. \A r \in Rows, q \in Programs : AtSend(q, r)' <=> AtSend(q, r)
  BY <1>1 DEF AtSend
<1>6. WaitingIsFree' /\ Overlaps'
  BY <1>5 DEF WaitingIsFree, Overlaps, OneWorker, Busy, At, Live
<1>7. AloneOK'
  BY <1>1, <1>2 DEF AloneOK, Live
<1>8. RunningIsKnown' /\ MarksOK'
  BY <1>5 DEF RunningIsKnown, MarksOK, Remembered, RowsOf
<1> QED
  BY <1>3, <1>4, <1>6, <1>7, <1>8

LEMMA PopFailsInv ==
  ASSUME NEW p \in Programs, IInv, pc[p] = "update", Goes(p, "end"),
         held' = [held EXCEPT ![p] = 0],
         UNCHANGED <<status, observers>>, UNCHANGED <<added, crawls, failMap, starts>>
  PROVE  IInv'
<1> USE TableAssumption DEF IInv, crawls, observers, reports, Goes
<1>1. /\ \A q \in Programs : q # p => pc'[q] = pc[q] /\ held'[q] = held[q]
      /\ pc'[p] = "end"
  BY DEF TypeOK
<1>3. TypeOK'
  <2>1. pc' \in [Programs -> {"off", "reset", "first", "update", "send", "end"}]
    BY DEF TypeOK
  <2>2. held' \in [Programs -> 0..MaxRows]
    BY DEF TypeOK, Rows
  <2> QED
    BY <2>1, <2>2 DEF TypeOK
<1>4. HeldOK' /\ OnWhileLive'
  BY <1>1 DEF HeldOK, OnWhileLive, Live, TypeOK, Crawl
<1>5. \A r \in Rows, q \in Programs : AtSend(q, r)' <=> AtSend(q, r)
  BY <1>1 DEF AtSend
<1>6. WaitingIsFree' /\ Overlaps'
  BY <1>5 DEF WaitingIsFree, Overlaps, OneWorker, Busy, At, Live
<1>7. AloneOK'
  BY <1>1 DEF AloneOK, Live
<1>8. RunningIsKnown' /\ MarksOK'
  BY <1>5 DEF RunningIsKnown, MarksOK, Remembered, RowsOf
<1> QED
  BY <1>3, <1>4, <1>6, <1>7, <1>8

\* A row is taken: if it waits, nobody is at it; if it does not, it is an overlap.
LEMMA PopMarksInv ==
  ASSUME NEW p \in Programs, IInv, pc[p] = "update", Takes(p), Goes(p, "send"),
         UNCHANGED held, UNCHANGED <<added, crawls, failMap, starts>>
  PROVE  IInv'
<1> USE TableAssumption DEF IInv, crawls, Goes
<1> DEFINE r == held[p]
<1>1. /\ \A q \in Programs : q # p => pc'[q] = pc[q]
      /\ pc'[p] = "send"
  BY DEF TypeOK
<1>2. r \in Rows
  BY DEF HeldOK
<1>3. /\ status'[r] = Running /\ \A s \in Rows \ {r} : status'[s] = status[s]
      /\ overlapped \subseteq overlapped' /\ overlapped' \subseteq overlapped \cup {r}
      /\ status[r] # Waiting => r \in overlapped'
      /\ status[r] = Waiting => overlapped' = overlapped
  BY <1>2 DEF Takes, TypeOK
<1>4. TypeOK'
  <2>1. pc' \in [Programs -> {"off", "reset", "first", "update", "send", "end"}]
    BY DEF TypeOK
  <2>2. status' \in [Rows -> {Waiting, Running, Finished, Dropped}]
    BY DEF TypeOK, Takes
  <2>3. /\ overlapped' \subseteq Rows /\ stranded' \subseteq Rows /\ unsaved' \subseteq Rows
        /\ marked' \subseteq Rows /\ forgotten' \subseteq Rows
    BY <1>2, <1>3 DEF TypeOK, Takes
  <2>4. together' \in BOOLEAN
    BY DEF TypeOK, Takes
  <2> QED
    BY <2>1, <2>2, <2>3, <2>4 DEF TypeOK
<1>5. HeldOK' /\ OnWhileLive'
  BY <1>1, <1>2 DEF HeldOK, OnWhileLive, Live, TypeOK, Crawl
<1>6. /\ \A s \in Rows, q \in Programs : AtSend(q, s)' => AtSend(q, s) \/ (q = p /\ s = r)
      /\ \A s \in Rows, q \in Programs : AtSend(q, s) => AtSend(q, s)'
      /\ AtSend(p, r)'
  BY <1>1 DEF AtSend
<1>7. \A s \in Rows, c \in 1..handed : At(c, s)' <=> At(c, s)
  BY DEF At, Live
<1>8. WaitingIsFree'
  BY <1>3, <1>6, <1>7 DEF WaitingIsFree, Busy, Waiting, Running
<1>9. Overlaps'
  <2> SUFFICES ASSUME NEW s \in Rows, s \notin overlapped' PROVE OneWorker(s)'
    BY DEF Overlaps
  <2>1. OneWorker(s)
    BY <1>3 DEF Overlaps
  <2>2. CASE s # r
    BY <1>6, <1>7, <2>1, <2>2 DEF OneWorker
  <2>3. CASE s = r
    <3>1. ~Busy(r)
      BY <1>2, <1>3, <2>3 DEF WaitingIsFree
    <3> QED
      BY <1>6, <1>7, <2>3, <3>1 DEF OneWorker, Busy
  <2> QED
    BY <2>2, <2>3
<1>10. AloneOK'
  <2> SUFFICES ASSUME ~together PROVE AloneOK'
    BY DEF AloneOK, Takes
  <2>1. status[r] = Waiting /\ overlapped' = {}
    BY <1>3 DEF AloneOK
  <2>2. \A q \in Programs : q # p => pc[q] = "off"
    BY DEF AloneOK
  <2>3. \A q \in Programs : pc'[q] \in {"off", "send"}
    BY <1>1, <2>2
  <2>4. \A q \in Programs : \A c \in failMap[q] : status'[crawl[c].row] # Waiting
    BY <1>3 DEF AloneOK, TypeOK, Crawl, Waiting, Running
  <2> QED
    BY <1>1, <2>1, <2>2, <2>3, <2>4 DEF AloneOK
<1>11. RunningIsKnown'
  BY <1>3, <1>6 DEF RunningIsKnown, Takes
<1>12. MarksOK'
  BY <1>3 DEF MarksOK, Remembered, RowsOf, Takes, TypeOK
<1> QED
  BY <1>4, <1>5, <1>8, <1>9, <1>10, <1>11, <1>12

\* A row is taken whose body is no base64: nobody gets it.
LEMMA PopLosesInv ==
  ASSUME NEW p \in Programs, IInv, pc[p] = "update", held[p] \in Broken, Takes(p),
         Goes(p, "end"), held' = [held EXCEPT ![p] = 0],
         UNCHANGED <<added, crawls, failMap, starts>>
  PROVE  IInv'
<1> USE TableAssumption DEF IInv, crawls, Goes
<1> DEFINE r == held[p]
<1>1. /\ \A q \in Programs : q # p => pc'[q] = pc[q] /\ held'[q] = held[q]
      /\ pc'[p] = "end"
  BY DEF TypeOK
<1>2. r \in Rows
  BY DEF HeldOK
<1>3. /\ status'[r] = Running /\ \A s \in Rows \ {r} : status'[s] = status[s]
      /\ overlapped \subseteq overlapped' /\ overlapped' \subseteq overlapped \cup {r}
      /\ status[r] = Waiting => overlapped' = overlapped
  BY <1>2 DEF Takes, TypeOK
<1>4. TypeOK'
  <2>1. pc' \in [Programs -> {"off", "reset", "first", "update", "send", "end"}]
    BY DEF TypeOK
  <2>2. status' \in [Rows -> {Waiting, Running, Finished, Dropped}]
    BY DEF TypeOK, Takes
  <2>3. /\ overlapped' \subseteq Rows /\ stranded' \subseteq Rows /\ unsaved' \subseteq Rows
        /\ marked' \subseteq Rows /\ forgotten' \subseteq Rows
    BY <1>2, <1>3 DEF TypeOK, Takes
  <2>4. together' \in BOOLEAN /\ held' \in [Programs -> 0..MaxRows]
    BY DEF TypeOK, Takes
  <2> QED
    BY <2>1, <2>2, <2>3, <2>4 DEF TypeOK
<1>5. HeldOK' /\ OnWhileLive'
  BY <1>1 DEF HeldOK, OnWhileLive, Live, TypeOK, Crawl
<1>6. \A s \in Rows, q \in Programs : AtSend(q, s)' <=> AtSend(q, s)
  BY <1>1 DEF AtSend
<1>7. WaitingIsFree' /\ Overlaps'
  BY <1>3, <1>6 DEF WaitingIsFree, Overlaps, OneWorker, Busy, At, Live, Waiting, Running
<1>8. AloneOK'
  <2> SUFFICES ASSUME ~together PROVE AloneOK'
    BY DEF AloneOK, Takes
  <2>1. status[r] = Waiting /\ overlapped' = {}
    BY <1>3 DEF AloneOK
  <2>2. \A q \in Programs : q # p => pc[q] = "off"
    BY DEF AloneOK
  <2>3. \A q \in Programs : pc'[q] \in {"off", "end"}
    BY <1>1, <2>2
  <2>4. \A q \in Programs : \A c \in failMap[q] : status'[crawl[c].row] # Waiting
    BY <1>3 DEF AloneOK, TypeOK, Crawl, Waiting, Running
  <2> QED
    BY <1>1, <2>1, <2>2, <2>3, <2>4 DEF AloneOK
<1>9. RunningIsKnown'
  BY <1>3, <1>6 DEF RunningIsKnown, Takes
<1>10. MarksOK'
  BY <1>3 DEF MarksOK, Remembered, RowsOf, Takes, TypeOK
<1> QED
  BY <1>4, <1>5, <1>7, <1>8, <1>9, <1>10

LEMMA PopTakesInv == ASSUME NEW p \in Programs PROVE IInv /\ PopTakes(p) => IInv'
BY PopFailsInv, PopMarksInv, PopLosesInv DEF PopTakes

LEMMA HandedInv == ASSUME NEW p \in Programs PROVE IInv /\ Handed(p) => IInv'
<1> SUFFICES ASSUME IInv, Handed(p), NEW r, r = held[p], NEW new, new = handed + 1
             PROVE  IInv'
  OBVIOUS
<1> USE TableAssumption DEF IInv, Handed, table, observers, reports, Goes
<1>1. /\ \A q \in Programs : q # p => pc'[q] = pc[q] /\ held'[q] = held[q]
      /\ pc[p] = "send" /\ pc'[p] = "first"
  BY DEF TypeOK
<1>2. r \in Rows
  BY <1>1 DEF HeldOK
<1>3. /\ handed \in Nat /\ new \in 1..new /\ handed' = new
      /\ \A c \in 1..new : c \in 1..handed \/ c = new
      /\ \A c \in 1..handed : c \in 1..new /\ c # new
  BY DEF TypeOK
<1>4. /\ \A c \in 1..handed : crawl'[c] = crawl[c]
      /\ crawl'[new] = [program |-> p, row |-> r, call |-> "running", item |-> "none"]
  BY <1>3
<1>5. TypeOK'
  <2>1. pc' \in [Programs -> {"off", "reset", "first", "update", "send", "end"}]
    BY DEF TypeOK
  <2>2. held' \in [Programs -> 0..MaxRows]
    BY DEF TypeOK, Rows
  <2>3. [program |-> p, row |-> r, call |-> "running", item |-> "none"] \in Crawl
    BY <1>2 DEF Crawl, Calls, ItemStages
  <2>4. crawl' \in [1..handed' -> Crawl]
    BY <1>3, <2>3 DEF TypeOK
  <2>5. failMap' \in [Programs -> SUBSET (1..handed')] /\ handed' \in 0..MaxCrawls
    BY <1>3 DEF TypeOK
  <2> QED
    BY <2>1, <2>2, <2>4, <2>5 DEF TypeOK
<1>6. /\ \A c \in 1..handed : Live(c)' <=> Live(c)
      /\ \A c \in 1..handed, s \in Rows : At(c, s)' <=> At(c, s)
      /\ \A s \in Rows : At(new, s)' <=> s = r
  <2>1. \A c \in 1..handed : Live(c)' <=> Live(c)
    BY <1>4 DEF Live
  <2>2. \A c \in 1..handed, s \in Rows : At(c, s)' <=> At(c, s)
    BY <1>4, <2>1 DEF At
  <2>3. Live(new)' /\ crawl'[new].row = r
    BY <1>4 DEF Live
  <2>4. \A s \in Rows : At(new, s)' <=> s = r
    BY <2>3 DEF At
  <2> QED
    BY <2>1, <2>2, <2>4
<1>7. HeldOK' /\ OnWhileLive'
  BY <1>1, <1>3, <1>4, <1>6 DEF HeldOK, OnWhileLive, TypeOK, Crawl
<1>8. /\ \A s \in Rows, q \in Programs : AtSend(q, s)' <=> AtSend(q, s) /\ q # p
      /\ \A s \in Rows : AtSend(p, s) <=> s = r
  BY <1>1 DEF AtSend
<1>9. \A s \in Rows : Busy(s)' => Busy(s)
  BY <1>3, <1>6, <1>8 DEF Busy
<1>10. WaitingIsFree'
  BY <1>9 DEF WaitingIsFree
<1>11. Overlaps'
  <2> SUFFICES ASSUME NEW s \in Rows, OneWorker(s) PROVE OneWorker(s)'
    BY DEF Overlaps
  <2>1. \A c, d \in 1..new : At(c, s)' /\ At(d, s)' => c = d
    BY <1>3, <1>6, <1>8 DEF OneWorker
  <2>2. \A c \in 1..new, q \in Programs : ~(At(c, s)' /\ AtSend(q, s)')
    BY <1>3, <1>6, <1>8 DEF OneWorker
  <2>3. \A q, t \in Programs : AtSend(q, s)' /\ AtSend(t, s)' => q = t
    BY <1>8 DEF OneWorker
  <2> QED
    BY <1>3, <2>1, <2>2, <2>3 DEF OneWorker
<1>12. AloneOK'
  <2> SUFFICES ASSUME ~together PROVE AloneOK'
    BY DEF AloneOK
  <2>1. \A q \in Programs : q # p => pc[q] = "off"
    BY <1>1 DEF AloneOK
  <2>2. \A q \in Programs : pc'[q] \notin {"reset", "update"}
    BY <1>1, <2>1
  <2>3. \A q \in Programs : \A c \in failMap[q] : status[crawl'[c].row] # Waiting
    BY <1>4 DEF AloneOK, TypeOK
  <2> QED
    BY <1>1, <2>1, <2>2, <2>3 DEF AloneOK
<1>13. RunningIsKnown'
  BY <1>1, <1>3, <1>4, <1>8 DEF RunningIsKnown
<1>14. Remembered' = Remembered
  <2>1. \A q \in Programs : \A c \in failMap[q] : crawl'[c] = crawl[c]
    BY <1>4 DEF TypeOK
  <2>2. UNION {failMap'[q] : q \in Programs} = UNION {failMap[q] : q \in Programs}
    OBVIOUS
  <2>3. \A c \in UNION {failMap[q] : q \in Programs} : crawl'[c].row = crawl[c].row
    BY <2>1
  <2> QED
    BY <2>2, <2>3 DEF Remembered, RowsOf
<1>15. MarksOK'
  BY <1>14 DEF MarksOK
<1> QED
  BY <1>5, <1>7, <1>10, <1>11, <1>12, <1>13, <1>15

-----------------------------------------------------------------------------
(* The steps of a callback and of its item.                                *)

\* What the rows, the programs and the fields of the crawls show of a step that changes
\* one crawl without making it one that is under way, and no status.
LEMMA WorkKeeps ==
  ASSUME IInv, NEW c \in 1..handed,
         crawl' \in [1..handed -> Crawl],
         \A d \in 1..handed : crawl'[d].row = crawl[d].row /\ crawl'[d].program = crawl[d].program,
         \A d \in 1..handed \ {c} : crawl'[d] = crawl[d],
         Live(c)' => Live(c),
         UNCHANGED <<added, generator, handed, starts, together, overlapped>>
  PROVE  /\ \A d \in 1..handed : Live(d)' => Live(d)
         /\ \A r \in Rows : Busy(r)' => Busy(r)
         /\ HeldOK' /\ Overlaps'
         /\ \A d \in 1..handed : Live(d)' => pc'[crawl'[d].program] # "off"
<1> USE DEF IInv, generator
<1>1. \A d \in 1..handed : Live(d)' => Live(d)
  BY DEF Live
<1>2. \A r \in Rows, d \in 1..handed : At(d, r)' => At(d, r)
  BY <1>1 DEF At
<1>3. \A r \in Rows, q \in Programs : AtSend(q, r)' <=> AtSend(q, r)
  BY DEF AtSend
<1>4. \A r \in Rows : Busy(r)' => Busy(r)
  BY <1>2, <1>3 DEF Busy
<1>5. HeldOK' /\ Overlaps'
  BY <1>2, <1>3 DEF HeldOK, Overlaps, OneWorker
<1> QED
  BY <1>1, <1>4, <1>5 DEF OnWhileLive

LEMMA RememberedStays ==
  ASSUME TypeOK, UNCHANGED <<handed, failMap>>,
         \A d \in 1..handed : crawl'[d].row = crawl[d].row
  PROVE  Remembered' = Remembered
<1>1. UNION {failMap'[q] : q \in Programs} = UNION {failMap[q] : q \in Programs}
  OBVIOUS
<1>2. \A d \in UNION {failMap[q] : q \in Programs} : crawl'[d].row = crawl[d].row
  BY DEF TypeOK
<1> QED
  BY <1>1, <1>2 DEF Remembered, RowsOf

\* A step of an item that changes no status and no memory.
LEMMA ItemStepInv ==
  ASSUME IInv, NEW c \in 1..handed, NEW a \in ItemStages,
         crawl' = [crawl EXCEPT ![c].item = a],
         Live(c)' => Live(c),
         UNCHANGED <<table, generator, handed, failMap, starts, observers>>
  PROVE  IInv'
<1> USE DEF IInv, table, observers, reports
<1>2. /\ crawl' \in [1..handed -> Crawl] /\ crawl'[c].call = crawl[c].call
      /\ \A d \in 1..handed : crawl'[d].row = crawl[d].row /\ crawl'[d].program = crawl[d].program
      /\ \A d \in 1..handed \ {c} : crawl'[d] = crawl[d]
  BY ItemChanges
<1>3. /\ \A d \in 1..handed : Live(d)' => Live(d)
      /\ \A r \in Rows : Busy(r)' => Busy(r)
      /\ HeldOK' /\ Overlaps'
      /\ \A d \in 1..handed : Live(d)' => pc'[crawl'[d].program] # "off"
  BY <1>2, WorkKeeps
<1>4. TypeOK' /\ pc' = pc /\ held' = held
  BY <1>2 DEF TypeOK, generator
<1>5. OnWhileLive' /\ WaitingIsFree'
  BY <1>3, <1>4 DEF OnWhileLive, WaitingIsFree
<1>6. AloneOK'
  BY <1>2, <1>3, <1>4 DEF AloneOK, TypeOK
<1>7. RunningIsKnown'
  BY <1>2, <1>4 DEF RunningIsKnown, AtSend
<1>8. MarksOK'
  BY <1>2, RememberedStays DEF MarksOK
<1> QED
  BY <1>3, <1>4, <1>5, <1>6, <1>7, <1>8

LEMMA YieldInv == ASSUME NEW c \in 1..handed PROVE IInv /\ Yield(c) => IInv'
<1> SUFFICES ASSUME IInv, Yield(c) PROVE IInv'
  OBVIOUS
<1>1. Live(c) /\ "saving" \in ItemStages
  BY DEF Live, Yield, ItemStages
<1> QED
  BY <1>1, ItemStepInv DEF Yield

LEMMA NeedClearInv == ASSUME NEW c \in 1..handed PROVE IInv /\ NeedClear(c) => IInv'
<1> SUFFICES ASSUME IInv, NeedClear(c) PROVE IInv'
  OBVIOUS
<1>1. Live(c) /\ "clearing" \in ItemStages /\ "over" \in ItemStages
  BY DEF Live, NeedClear, ItemStages
<1> QED
  BY <1>1, ItemStepInv DEF NeedClear

\* An item that is not saved is about a row that is under way, which therefore does not
\* wait, unless it was put back.
LEMMA SaveItemInv == ASSUME NEW c \in 1..handed PROVE IInv /\ SaveItem(c) => IInv'
<1> SUFFICES ASSUME IInv, SaveItem(c) PROVE IInv'
  OBVIOUS
<1>1. Live(c) /\ "asking" \in ItemStages /\ "over" \in ItemStages
  BY DEF Live, SaveItem, ItemStages
<1>2. CASE crawl' = [crawl EXCEPT ![c].item = "asking"] /\ UNCHANGED <<failMap, unsaved>>
  <2>1. UNCHANGED <<table, generator, handed, failMap, starts, observers>>
    BY <1>2 DEF SaveItem, observers, reports
  <2> QED
    BY <1>1, <1>2, <2>1, ItemStepInv
<1>3. CASE AddFail(c) /\ crawl' = [crawl EXCEPT ![c].item = "over"]
  <2> USE DEF IInv
  <2>1. handed \in Nat /\ crawl \in [1..handed -> Crawl]
    BY TableAssumption DEF TypeOK
  <2>2. /\ crawl' \in [1..handed -> Crawl] /\ crawl'[c].call = crawl[c].call
        /\ \A d \in 1..handed : crawl'[d].row = crawl[d].row /\ crawl'[d].program = crawl[d].program
        /\ \A d \in 1..handed \ {c} : crawl'[d] = crawl[d]
    BY <1>1, <1>3, ItemChanges
  <2>3. /\ UNCHANGED <<added, generator, handed, starts, together, overlapped>>
        /\ UNCHANGED <<status, pc, held, stranded, marked, forgotten>>
    BY DEF SaveItem, table, generator
  <2>4. /\ \A d \in 1..handed : Live(d)' => Live(d)
        /\ \A r \in Rows : Busy(r)' => Busy(r)
        /\ HeldOK' /\ Overlaps'
        /\ \A d \in 1..handed : Live(d)' => pc'[crawl'[d].program] # "off"
    BY <1>1, <2>2, <2>3, WorkKeeps
  <2> PICK p \in Programs, r \in Rows : crawl[c].program = p /\ crawl[c].row = r
    BY <2>1 DEF Crawl
  <2>5. /\ failMap' = [failMap EXCEPT ![p] = @ \cup {c}]
        /\ unsaved' = unsaved \cup {r}
    BY <1>3 DEF AddFail
  <2>6. TypeOK'
    <3>1. failMap' \in [Programs -> SUBSET (1..handed')] /\ unsaved' \subseteq Rows
      BY <2>3, <2>5 DEF TypeOK
    <3> QED
      BY <2>2, <2>3, <3>1 DEF TypeOK
  <2>7. OnWhileLive'
    <3>1. pc[p] # "off"
      BY <1>1 DEF OnWhileLive
    <3> QED
      BY <2>3, <2>4, <2>5, <3>1 DEF OnWhileLive, TypeOK
  <2>8. WaitingIsFree'
    BY <2>3, <2>4 DEF WaitingIsFree
  <2>9. AloneOK'
    <3> SUFFICES ASSUME ~together PROVE AloneOK'
      BY <2>3 DEF AloneOK
    <3>1. status[r] # Waiting
      BY <1>1 DEF AloneOK, WaitingIsFree, Busy, At
    <3>2. pc[p] # "reset"
      BY <1>1 DEF AloneOK
    <3>3. \A q \in Programs : \A d \in failMap'[q] : status[crawl'[d].row] # Waiting
      BY <2>2, <2>5, <3>1 DEF AloneOK, TypeOK
    <3> QED
      BY <2>3, <2>4, <2>5, <3>2, <3>3 DEF AloneOK, TypeOK
  <2>10. RunningIsKnown'
    BY <2>2, <2>3 DEF RunningIsKnown, AtSend
  <2>11. MarksOK'
    <3>1. \A q \in Programs : failMap[q] \subseteq failMap'[q]
      BY <2>5 DEF TypeOK
    <3>2. Remembered \subseteq Remembered'
      BY <2>2, <3>1 DEF Remembered, RowsOf, TypeOK
    <3>3. c \in UNION {failMap'[q] : q \in Programs}
      BY <2>5 DEF TypeOK
    <3>4. r \in Remembered'
      BY <2>2, <3>3 DEF Remembered, RowsOf
    <3> QED
      BY <2>3, <2>5, <3>2, <3>4 DEF MarksOK
  <2> QED
    BY <2>4, <2>6, <2>7, <2>8, <2>9, <2>10, <2>11
<1> QED
  BY <1>2, <1>3 DEF SaveItem

\* Done and Drop come while their row is under way, so that they take it from nobody's
\* Pop; the mark that a pipeline has set by then is overwritten, and forgotten.
LEMMA CallEndsInv == ASSUME NEW c \in 1..handed PROVE IInv /\ CallEnds(c) => IInv'
<1> SUFFICES ASSUME IInv, CallEnds(c) PROVE IInv'
  OBVIOUS
<1> USE DEF IInv
<1>1. Live(c) /\ "over" \in Calls /\ crawl' = [crawl EXCEPT ![c].call = "over"]
  BY DEF Live, CallEnds, Calls
<1>2. /\ crawl' \in [1..handed -> Crawl]
      /\ \A d \in 1..handed : crawl'[d].row = crawl[d].row /\ crawl'[d].program = crawl[d].program
      /\ \A d \in 1..handed \ {c} : crawl'[d] = crawl[d]
  BY <1>1, CallChanges
<1>3. /\ UNCHANGED <<added, generator, handed, starts, together, overlapped>>
      /\ UNCHANGED <<pc, held, failMap, unsaved, marked>>
  BY DEF CallEnds, generator
<1>4. /\ \A d \in 1..handed : Live(d)' => Live(d)
      /\ \A r \in Rows : Busy(r)' => Busy(r)
      /\ HeldOK' /\ Overlaps'
      /\ \A d \in 1..handed : Live(d)' => pc'[crawl'[d].program] # "off"
  BY <1>1, <1>2, <1>3, WorkKeeps
<1> PICK r \in Rows : crawl[c].row = r
  BY DEF Crawl, TypeOK
<1>5. /\ \A s \in Rows \ {r} : status'[s] = status[s]
      /\ stranded \subseteq stranded' /\ forgotten \subseteq forgotten'
      /\ \/ status'[r] \in {Finished, Dropped} /\ (r \in marked => r \in forgotten')
         \/ status'[r] = status[r] /\ r \in stranded'
  BY DEF CallEnds, TypeOK
<1>6. TypeOK'
  <2>1. status' \in [Rows -> {Waiting, Running, Finished, Dropped}]
    BY DEF CallEnds, TypeOK
  <2>2. stranded' \subseteq Rows /\ forgotten' \subseteq Rows
    BY DEF CallEnds, TypeOK
  <2> QED
    BY <1>2, <1>3, <2>1, <2>2 DEF TypeOK
<1>7. OnWhileLive'
  BY <1>3, <1>4 DEF OnWhileLive
<1>8. WaitingIsFree'
  BY <1>3, <1>4, <1>5 DEF WaitingIsFree, Waiting, Finished, Dropped
<1>9. AloneOK'
  <2> SUFFICES ASSUME ~together PROVE AloneOK'
    BY <1>3 DEF AloneOK
  <2>1. status[r] # Waiting
    BY <1>1 DEF AloneOK, WaitingIsFree, Busy, At
  <2>2. \A p \in Programs : pc[p] = "update" => held[p] \in Rows /\ held[p] # r
    BY <2>1 DEF AloneOK, HeldOK
  <2>3. \A p \in Programs : pc[p] = "update" => status'[held[p]] = Waiting
    BY <1>5, <2>2 DEF AloneOK
  <2>4. \A s \in Rows : status[s] # Waiting => status'[s] # Waiting
    BY <1>5 DEF Waiting, Finished, Dropped
  <2>5. \A p \in Programs : \A d \in failMap[p] : crawl[d].row \in Rows
    BY DEF TypeOK, Crawl
  <2>6. \A p \in Programs : \A d \in failMap[p] : status'[crawl'[d].row] # Waiting
    BY <1>2, <2>4, <2>5 DEF AloneOK, TypeOK
  <2> QED
    BY <1>3, <1>4, <2>3, <2>6 DEF AloneOK
<1>10. RunningIsKnown'
  <2> SUFFICES ASSUME NEW s \in Rows, status'[s] = Running
               PROVE  \/ \E d \in 1..handed' : crawl'[d].row = s /\ crawl'[d].call = "running"
                      \/ \E p \in Programs : AtSend(p, s)'
                      \/ s \in stranded' \cup marked' \cup Broken
    BY DEF RunningIsKnown
  <2>1. s = r => s \in stranded'
    BY <1>5 DEF Running, Finished, Dropped
  <2>2. ASSUME s # r
        PROVE  \/ \E d \in 1..handed : crawl[d].row = s /\ crawl[d].call = "running"
               \/ \E p \in Programs : AtSend(p, s)
               \/ s \in stranded \cup marked \cup Broken
    BY <1>5, <2>2 DEF RunningIsKnown
  <2>3. \A p \in Programs : AtSend(p, s)' <=> AtSend(p, s)
    BY <1>3 DEF AtSend
  <2>4. CASE \E d \in 1..handed : crawl[d].row = s /\ crawl[d].call = "running" /\ s # r
    BY <1>2, <1>3, <2>4
  <2> QED
    BY <1>3, <1>5, <2>1, <2>2, <2>3, <2>4
<1>11. MarksOK'
  <2>1. Remembered' = Remembered
    BY <1>2, <1>3, RememberedStays
  <2>2. unsaved' \subseteq forgotten' \cup Remembered' \cup marked'
    BY <1>3, <1>5, <2>1 DEF MarksOK
  <2>3. \A s \in marked : s \in Rows
    BY DEF TypeOK
  <2>4. ASSUME NEW s \in marked, status'[s] = Finished PROVE s \in forgotten'
    <3>1. CASE s = r
      BY <1>5, <2>4, <3>1 DEF MarksOK
    <3>2. CASE s # r
      BY <1>5, <2>3, <2>4, <3>2 DEF MarksOK
    <3> QED
      BY <3>1, <3>2
  <2> QED
    BY <1>3, <2>2, <2>4 DEF MarksOK
<1> QED
  BY <1>4, <1>6, <1>7, <1>8, <1>9, <1>10, <1>11

\* What clearFail leaves: the rows of a program's batch are marked or forgotten, and
\* nothing else changes.
LEMMA ClearFailKeeps ==
  ASSUME IInv, NEW p \in Programs, ClearFail(p), UNCHANGED <<added, handed, unsaved>>,
         \A d \in 1..handed : crawl'[d].row = crawl[d].row
  PROVE  /\ failMap' \in [Programs -> SUBSET (1..handed)]
         /\ status' \in [Rows -> {Waiting, Running, Finished, Dropped}]
         /\ marked' \subseteq Rows /\ forgotten' \subseteq Rows
         /\ failMap'[p] = {} /\ \A q \in Programs : q # p => failMap'[q] = failMap[q]
         /\ marked \subseteq marked'
         /\ \A r \in Rows : \/ status'[r] = status[r]
                            \/ status'[r] = Running /\ r \in marked' /\ r \in RowsOf(failMap[p])
         /\ MarksOK'
<1> USE DEF IInv
<1> DEFINE rows == RowsOf(failMap[p])
<1>1. /\ failMap' \in [Programs -> SUBSET (1..handed)]
      /\ failMap'[p] = {} /\ \A q \in Programs : q # p => failMap'[q] = failMap[q]
  BY DEF ClearFail, TypeOK
<1>2. rows \subseteq Rows
  BY DEF RowsOf, TypeOK, Crawl
<1>3. /\ status' \in [Rows -> {Waiting, Running, Finished, Dropped}]
      /\ marked' \subseteq Rows /\ forgotten' \subseteq Rows
      /\ marked \subseteq marked' /\ forgotten \subseteq forgotten'
      /\ rows \subseteq marked' \cup forgotten'
  BY <1>2 DEF ClearFail, TypeOK
<1>4. \A r \in Rows : \/ status'[r] = status[r] /\ (r \in marked' => r \in marked)
                      \/ status'[r] = Running /\ r \in marked' /\ r \in rows
  BY DEF ClearFail, TypeOK
<1>5. Remembered \subseteq Remembered' \cup rows
  <2> SUFFICES ASSUME NEW q \in Programs, NEW d \in failMap[q]
               PROVE  crawl[d].row \in Remembered' \cup rows
    BY DEF Remembered, RowsOf
  <2>1. CASE q = p
    BY <2>1 DEF RowsOf
  <2>2. CASE q # p
    <3>1. d \in UNION {failMap'[t] : t \in Programs} /\ crawl'[d].row = crawl[d].row
      BY <1>1, <2>2 DEF TypeOK
    <3> QED
      BY <3>1 DEF Remembered, RowsOf
  <2> QED
    BY <2>1, <2>2
<1>6. MarksOK'
  <2>1. unsaved' \subseteq forgotten' \cup Remembered' \cup marked'
    BY <1>3, <1>5 DEF MarksOK
  <2>2. \A r \in marked' : status'[r] = Finished => r \in forgotten'
    BY <1>3, <1>4 DEF MarksOK, Running, Finished
  <2> QED
    BY <2>1, <2>2 DEF MarksOK
<1> QED
  BY <1>1, <1>3, <1>4, <1>6

LEMMA ItemEndsInv == ASSUME NEW c \in 1..handed PROVE IInv /\ ItemEnds(c) => IInv'
<1> SUFFICES ASSUME IInv, ItemEnds(c) PROVE IInv'
  OBVIOUS
<1> USE DEF IInv
<1>1. Live(c) /\ "over" \in ItemStages /\ crawl' = [crawl EXCEPT ![c].item = "over"]
  BY DEF Live, ItemEnds, ItemStages
<1>2. /\ crawl' \in [1..handed -> Crawl] /\ crawl'[c].call = crawl[c].call
      /\ \A d \in 1..handed : crawl'[d].row = crawl[d].row /\ crawl'[d].program = crawl[d].program
      /\ \A d \in 1..handed \ {c} : crawl'[d] = crawl[d]
  BY <1>1, ItemChanges
<1>3. /\ UNCHANGED <<added, generator, handed, starts, together, overlapped>>
      /\ UNCHANGED <<pc, held, stranded, unsaved>>
  BY DEF ItemEnds, generator
<1>4. /\ \A d \in 1..handed : Live(d)' => Live(d)
      /\ \A r \in Rows : Busy(r)' => Busy(r)
      /\ HeldOK' /\ Overlaps'
      /\ \A d \in 1..handed : Live(d)' => pc'[crawl'[d].program] # "off"
  BY <1>1, <1>2, <1>3, WorkKeeps
<1> PICK p \in Programs : crawl[c].program = p
  BY DEF Crawl, TypeOK
<1>5. /\ failMap' \in [Programs -> SUBSET (1..handed)]
      /\ status' \in [Rows -> {Waiting, Running, Finished, Dropped}]
      /\ marked' \subseteq Rows /\ forgotten' \subseteq Rows
      /\ failMap'[p] = {} /\ \A q \in Programs : q # p => failMap'[q] = failMap[q]
      /\ marked \subseteq marked'
      /\ \A r \in Rows : \/ status'[r] = status[r]
                         \/ status'[r] = Running /\ r \in marked' /\ r \in RowsOf(failMap[p])
      /\ MarksOK'
  BY <1>2, <1>3, ClearFailKeeps DEF ItemEnds
<1>6. TypeOK'
  BY <1>2, <1>3, <1>5 DEF TypeOK
<1>7. OnWhileLive' /\ WaitingIsFree'
  BY <1>3, <1>4, <1>5 DEF OnWhileLive, WaitingIsFree, Waiting, Running
<1>8. AloneOK'
  <2> SUFFICES ASSUME ~together PROVE AloneOK'
    BY <1>3 DEF AloneOK
  <2>1. \A q \in Programs : pc[q] = "update" => status'[held[q]] = Waiting
    BY <1>5 DEF AloneOK, HeldOK, RowsOf
  <2>2. \A q \in Programs : \A d \in failMap'[q] : status'[crawl'[d].row] # Waiting
    BY <1>2, <1>5 DEF AloneOK, TypeOK, Crawl, Waiting, Running
  <2>3. \A q \in Programs : failMap[q] = {} => failMap'[q] = {}
    BY <1>5
  <2> QED
    BY <1>3, <1>4, <2>1, <2>2, <2>3 DEF AloneOK
<1>9. RunningIsKnown'
  BY <1>2, <1>3, <1>5 DEF RunningIsKnown, AtSend
<1> QED
  BY <1>4, <1>5, <1>6, <1>7, <1>8, <1>9

\* What the end of a program leaves, whichever end it is.
LEMMA OffKeeps ==
  ASSUME IInv, NEW p \in Programs, Goes(p, "off"), held' = [held EXCEPT ![p] = 0],
         UNCHANGED <<handed, starts, together, overlapped>>,
         crawl' \in [1..handed -> Crawl],
         \A d \in 1..handed : crawl'[d].row = crawl[d].row /\ crawl'[d].program = crawl[d].program,
         \A d \in 1..handed : Live(d)' => Live(d) /\ crawl[d].program # p,
         failMap'[p] = {}, \A q \in Programs : q # p => failMap'[q] = failMap[q],
         \A r \in Rows : \/ status'[r] = status[r]
                         \/ status'[r] = Running /\ r \in RowsOf(failMap[p])
  PROVE  /\ pc' \in [Programs -> {"off", "reset", "first", "update", "send", "end"}]
         /\ held' \in [Programs -> 0..MaxRows]
         /\ HeldOK' /\ OnWhileLive' /\ WaitingIsFree' /\ Overlaps' /\ AloneOK'
         /\ \A r \in Rows, q \in Programs : AtSend(q, r)' <=> AtSend(q, r) /\ q # p
<1> USE DEF IInv, Goes
<1>1. /\ pc' \in [Programs -> {"off", "reset", "first", "update", "send", "end"}]
      /\ pc'[p] = "off"
      /\ \A q \in Programs : q # p => pc'[q] = pc[q] /\ held'[q] = held[q]
  BY DEF TypeOK
<1>2. held' \in [Programs -> 0..MaxRows]
  BY TableAssumption DEF TypeOK
<1>3. HeldOK' /\ OnWhileLive'
  BY <1>1 DEF HeldOK, OnWhileLive, TypeOK, Crawl
<1>4. \A r \in Rows, q \in Programs : AtSend(q, r)' <=> AtSend(q, r) /\ q # p
  BY <1>1 DEF AtSend
<1>5. \A r \in Rows, d \in 1..handed : At(d, r)' => At(d, r)
  BY DEF At
<1>6. WaitingIsFree'
  BY <1>4, <1>5 DEF WaitingIsFree, Busy, Waiting, Running
<1>7. Overlaps'
  BY <1>4, <1>5 DEF Overlaps, OneWorker
<1>8. AloneOK'
  <2> SUFFICES ASSUME ~together PROVE AloneOK'
    BY DEF AloneOK
  <2>1. overlapped' = {} /\ \A q, t \in Programs : pc'[q] # "off" /\ pc'[t] # "off" => q = t
    BY <1>1 DEF AloneOK
  <2>2. \A q \in Programs :
          pc'[q] = "reset" => failMap'[q] = {} /\ \A d \in 1..handed : ~Live(d)'
    BY <1>1 DEF AloneOK
  <2>3. \A q \in Programs : pc'[q] = "update" => status'[held'[q]] = Waiting
    BY <1>1, <1>3 DEF AloneOK, HeldOK, RowsOf
  <2>4. \A q \in Programs : \A d \in failMap'[q] : status'[crawl'[d].row] # Waiting
    <3> SUFFICES ASSUME NEW q \in Programs, NEW d \in failMap'[q]
                 PROVE  status'[crawl'[d].row] # Waiting
      OBVIOUS
    <3>1. q # p /\ d \in failMap[q] /\ d \in 1..handed
      BY DEF TypeOK
    <3>2. status[crawl[d].row] # Waiting /\ crawl[d].row \in Rows
      BY <3>1 DEF AloneOK, TypeOK, Crawl
    <3> QED
      BY <3>1, <3>2 DEF Waiting, Running
  <2> QED
    BY <2>1, <2>2, <2>3, <2>4 DEF AloneOK
<1> QED
  BY <1>1, <1>2, <1>3, <1>4, <1>6, <1>7, <1>8

LEMMA CloseInv == ASSUME NEW p \in Programs PROVE IInv /\ Close(p) => IInv'
<1> SUFFICES ASSUME IInv, Close(p) PROVE IInv'
  OBVIOUS
<1> USE DEF IInv
<1>1. /\ UNCHANGED <<added, crawls, starts, together, overlapped, unsaved>>
      /\ UNCHANGED <<crawl, handed>>
  BY DEF Close, crawls
<1>2. \A d \in 1..handed : Live(d)' => Live(d) /\ crawl[d].program # p
  BY <1>1 DEF Live, Close, CrawlsOf
<1>3. /\ failMap' \in [Programs -> SUBSET (1..handed)]
      /\ status' \in [Rows -> {Waiting, Running, Finished, Dropped}]
      /\ marked' \subseteq Rows /\ forgotten' \subseteq Rows
      /\ failMap'[p] = {} /\ \A q \in Programs : q # p => failMap'[q] = failMap[q]
      /\ marked \subseteq marked'
      /\ \A r \in Rows : \/ status'[r] = status[r]
                         \/ status'[r] = Running /\ r \in marked' /\ r \in RowsOf(failMap[p])
      /\ MarksOK'
  BY <1>1, ClearFailKeeps DEF Close
<1>4. crawl' \in [1..handed -> Crawl]
  BY <1>1 DEF TypeOK
<1>5. /\ pc' \in [Programs -> {"off", "reset", "first", "update", "send", "end"}]
      /\ held' \in [Programs -> 0..MaxRows]
      /\ HeldOK' /\ OnWhileLive' /\ WaitingIsFree' /\ Overlaps' /\ AloneOK'
      /\ \A r \in Rows, q \in Programs : AtSend(q, r)' <=> AtSend(q, r) /\ q # p
  <2>1. UNCHANGED <<handed, starts, together, overlapped>>
    BY <1>1
  <2>2. Goes(p, "off") /\ held' = [held EXCEPT ![p] = 0]
    BY DEF Close
  <2>3. \A d \in 1..handed : crawl'[d].row = crawl[d].row /\ crawl'[d].program = crawl[d].program
    BY <1>1
  <2>4. \A r \in Rows : \/ status'[r] = status[r]
                        \/ status'[r] = Running /\ r \in RowsOf(failMap[p])
    BY <1>3
  <2> QED
    BY <1>2, <1>3, <1>4, <2>1, <2>2, <2>3, <2>4, OffKeeps
<1>6. stranded' = stranded \cup {r \in Rows : AtSend(p, r)}
  BY DEF Close, Leaves
<1>7. TypeOK'
  BY <1>1, <1>3, <1>4, <1>5, <1>6 DEF TypeOK
<1>8. RunningIsKnown'
  BY <1>1, <1>3, <1>5, <1>6 DEF RunningIsKnown
<1> QED
  BY <1>3, <1>5, <1>7, <1>8

LEMMA CrashInv == ASSUME NEW p \in Programs PROVE IInv /\ Crash(p) => IInv'
<1> SUFFICES ASSUME IInv, Crash(p) PROVE IInv'
  OBVIOUS
<1> USE DEF IInv
<1> DEFINE live == {c \in CrawlsOf(p) : Live(c)}
<1>1. UNCHANGED <<added, status, handed, starts, together, overlapped, marked>>
  BY DEF Crash, table
<1>2. live \subseteq 1..handed /\ \A d \in 1..handed : Live(d) /\ crawl[d].program = p => d \in live
  BY DEF CrawlsOf
<1>3. /\ \A d \in 1..handed : d \notin live => crawl'[d] = crawl[d]
      /\ \A d \in live : crawl'[d] = [crawl[d] EXCEPT !.call = "left", !.item = "over"]
      /\ crawl' \in [1..handed -> Crawl]
  <2>1. \A d \in 1..handed :
          /\ crawl[d] \in Crawl
          /\ [crawl[d] EXCEPT !.call = "left", !.item = "over"] \in Crawl
    BY DEF TypeOK, Crawl, Calls, ItemStages
  <2>2. crawl' = [c \in 1..handed |->
                   IF c \in live THEN [crawl[c] EXCEPT !.call = "left", !.item = "over"]
                   ELSE crawl[c]]
    BY DEF Crash
  <2> HIDE DEF live
  <2> QED
    BY <1>2, <2>1, <2>2
<1>4. \A d \in live : /\ crawl'[d].call = "left" /\ crawl'[d].item = "over"
                      /\ crawl'[d].row = crawl[d].row /\ crawl'[d].program = crawl[d].program
  <2> SUFFICES ASSUME NEW d \in live
               PROVE  /\ crawl'[d].call = "left" /\ crawl'[d].item = "over"
                      /\ crawl'[d].row = crawl[d].row /\ crawl'[d].program = crawl[d].program
    OBVIOUS
  <2>1. crawl[d] \in Crawl
    BY <1>2 DEF TypeOK
  <2>2. crawl'[d] = [crawl[d] EXCEPT !.call = "left", !.item = "over"]
    BY <1>3
  <2> HIDE DEF live
  <2> QED
    BY <2>1, <2>2 DEF Crawl
<1>5. /\ \A d \in 1..handed : crawl'[d].row = crawl[d].row /\ crawl'[d].program = crawl[d].program
      /\ \A d \in 1..handed : Live(d)' => Live(d) /\ crawl[d].program # p
  <2> SUFFICES ASSUME NEW d \in 1..handed
               PROVE  /\ crawl'[d].row = crawl[d].row /\ crawl'[d].program = crawl[d].program
                      /\ Live(d)' => Live(d) /\ crawl[d].program # p
    OBVIOUS
  <2>1. CASE d \in live
    BY <1>4, <2>1 DEF Live
  <2>2. CASE d \notin live
    BY <1>2, <1>3, <2>2 DEF Live
  <2> QED
    BY <2>1, <2>2
<1>6. /\ failMap' = [failMap EXCEPT ![p] = {}]
      /\ failMap' \in [Programs -> SUBSET (1..handed)]
      /\ failMap'[p] = {} /\ \A q \in Programs : q # p => failMap'[q] = failMap[q]
  BY DEF Crash, TypeOK
<1>7. /\ pc' \in [Programs -> {"off", "reset", "first", "update", "send", "end"}]
      /\ held' \in [Programs -> 0..MaxRows]
      /\ HeldOK' /\ OnWhileLive' /\ WaitingIsFree' /\ Overlaps' /\ AloneOK'
      /\ \A r \in Rows, q \in Programs : AtSend(q, r)' <=> AtSend(q, r) /\ q # p
  <2>1. UNCHANGED <<handed, starts, together, overlapped>>
    BY <1>1
  <2>2. Goes(p, "off") /\ held' = [held EXCEPT ![p] = 0]
    BY DEF Crash
  <2>3. \A r \in Rows : \/ status'[r] = status[r]
                        \/ status'[r] = Running /\ r \in RowsOf(failMap[p])
    BY <1>1
  <2> QED
    BY <1>3, <1>5, <1>6, <2>1, <2>2, <2>3, OffKeeps
<1> DEFINE lost == RowsOf(failMap[p] \cup {c \in live : crawl[c].item = "saving"})
           calls == RowsOf({c \in live : crawl[c].call = "running"})
<1>8. /\ stranded' = stranded \cup {r \in Rows : AtSend(p, r)} \cup calls
      /\ unsaved' = unsaved \cup lost /\ forgotten' = forgotten \cup lost
  BY DEF Crash, Leaves
<1>9. lost \subseteq Rows /\ calls \subseteq Rows
  BY <1>2 DEF RowsOf, TypeOK, Crawl
<1>10. TypeOK'
  BY <1>1, <1>3, <1>6, <1>7, <1>8, <1>9 DEF TypeOK
<1>11. RunningIsKnown'
  <2> SUFFICES ASSUME NEW r \in Rows, status[r] = Running,
                      r \notin stranded', r \notin marked, r \notin Broken
               PROVE  \/ \E d \in 1..handed : crawl'[d].row = r /\ crawl'[d].call = "running"
                      \/ \E q \in Programs : AtSend(q, r)'
    BY <1>1 DEF RunningIsKnown
  <2>1. CASE \E q \in Programs : AtSend(q, r)
    BY <1>7, <1>8, <2>1
  <2>2. CASE \E d \in 1..handed : crawl[d].row = r /\ crawl[d].call = "running"
    <3> PICK d \in 1..handed : crawl[d].row = r /\ crawl[d].call = "running"
      BY <2>2
    <3>1. d \notin live
      BY <1>8 DEF RowsOf
    <3> QED
      BY <1>3, <3>1
  <2> QED
    BY <1>8, <2>1, <2>2 DEF RunningIsKnown
<1>12. MarksOK'
  <2>1. Remembered \subseteq Remembered' \cup lost
    <3> SUFFICES ASSUME NEW q \in Programs, NEW d \in failMap[q]
                 PROVE  crawl[d].row \in Remembered' \cup lost
      BY DEF Remembered, RowsOf
    <3>1. CASE q = p
      BY <3>1 DEF RowsOf
    <3>2. CASE q # p
      <4>1. d \in UNION {failMap'[t] : t \in Programs} /\ crawl'[d].row = crawl[d].row
        BY <1>5, <1>6, <3>2 DEF TypeOK
      <4> QED
        BY <4>1 DEF Remembered, RowsOf
    <3> QED
      BY <3>1, <3>2
  <2>2. unsaved' \subseteq forgotten' \cup Remembered' \cup marked'
    BY <1>1, <1>8, <2>1 DEF MarksOK
  <2> QED
    BY <1>1, <1>8, <2>2 DEF MarksOK
<1> QED
  BY <1>7, <1>10, <1>11, <1>12

-----------------------------------------------------------------------------
(* The theorems.                                                           *)

LEMMA StepInv == IInv /\ [Next]_vars => IInv'
<1> SUFFICES ASSUME IInv, [Next]_vars PROVE IInv'
  OBVIOUS
<1>1. CASE Next
  <2>1. ASSUME NEW p \in Programs, Start(p) \/ Generator(p) \/ Close(p) \/ Crash(p)
        PROVE  IInv'
    BY <2>1, StartInv, ResetInv, PopReadsInv, PopTakesInv, HandedInv, CloseInv, CrashInv
       DEF Generator
  <2>2. ASSUME NEW c \in 1..handed, Works(c) PROVE IInv'
    BY <2>2, YieldInv, CallEndsInv, SaveItemInv, NeedClearInv, ItemEndsInv DEF Works
  <2> QED
    BY <1>1, <2>1, <2>2, AddInv DEF Next
<1>2. CASE UNCHANGED vars
  <2>1. /\ UNCHANGED <<added, status, pc, held, crawl, handed, failMap, starts>>
        /\ UNCHANGED <<together, overlapped, stranded, unsaved, marked, forgotten>>
    BY <1>2 DEF vars, table, generator, crawls, observers, reports
  <2>2. TypeOK' /\ HeldOK' /\ OnWhileLive'
    BY <2>1 DEF IInv, TypeOK, HeldOK, OnWhileLive, Live
  <2>3. WaitingIsFree' /\ Overlaps'
    BY <2>1 DEF IInv, WaitingIsFree, Overlaps, OneWorker, Busy, At, AtSend, Live
  <2>4. AloneOK' /\ RunningIsKnown' /\ MarksOK'
    BY <2>1 DEF IInv, AloneOK, Live, RunningIsKnown, AtSend, MarksOK, Remembered, RowsOf
  <2> QED
    BY <2>2, <2>3, <2>4 DEF IInv
<1> QED
  BY <1>1, <1>2

\* The inductive invariant holds of every behaviour of the table, its generators and its
\* pipelines.
THEOREM Invariance == Spec => []IInv
<1>1. Init => IInv
  BY InitInv
<1>2. IInv /\ [Next]_vars => IInv'
  BY StepInv
<1> QED
  BY <1>1, <1>2, PTL DEF Spec

\* The state of the table has the types of TypeOK (request_table.go, itempipelines.go).
THEOREM TypeCorrect == Spec => []TypeOK
<1>1. IInv => TypeOK
  BY DEF IInv
<1> QED
  BY <1>1, Invariance, PTL

\* No row is under way twice unless two programs' Pops overlapped, or resetRunning put
\* back a row of another program; never for a program that has always been alone.
THEOREM OnlyOverlapsWorkTwice == Spec => []TwiceNeedsOverlap
<1>1. IInv => TwiceNeedsOverlap
  BY DEF IInv, Overlaps, AloneOK, TwiceNeedsOverlap
<1> QED
  BY <1>1, Invariance, PTL

\* Every row of status 1 is at the generator's channel, at its callback, left by its
\* program or its user, or marked by a pipeline, or has a body that Pop cannot decode: a
\* program that runs loses no other.
THEOREM OnlyBrokenRowsAreLost == Spec => []RunningIsKnown
<1>1. IInv => RunningIsKnown
  BY DEF IInv
<1> QED
  BY <1>1, Invariance, PTL

\* A finished row whose item was not saved is in a pipeline's memory, unless a crash, a
\* failed update or a late Done took its mark.
THEOREM MarksSurvive == Spec => []UnsavedIsRemembered
<1>1. IInv => UnsavedIsRemembered
  BY DEF IInv, MarksOK, Remembered, UnsavedIsRemembered
<1> QED
  BY <1>1, Invariance, PTL
=============================================================================
