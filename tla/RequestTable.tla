---------------------------- MODULE RequestTable ----------------------------
(***************************************************************************)
(* The table of requests of request_table.go and the pipelines that write  *)
(* to it, BaseGormItemPipeline of itempipelines.go.                        *)
(*                                                                         *)
(* Programs share one table of a database. The generator of a program pops *)
(* rows until there is none: Pop reads the first row of status 0 and sets  *)
(* it to 1 in a second statement, and nothing makes the two one. The row's *)
(* request goes to the engine, and its callback, which is the user's,      *)
(* yields an item and calls Done or Drop, or neither. A pipeline saves the *)
(* item; when it cannot, it keeps the row's id in memory, and later sets   *)
(* the rows of these ids to 1, from where a restart with resetRunning      *)
(* takes them again. A program may end at any moment, and be started again.*)
(* Statements are atomic, and may fail. A row whose fingerprint is there   *)
(* already is refused by the index, so that the rows differ. The body of a *)
(* row is base64 if Add has written it; others write to the table as well, *)
(* and Pop cannot decode what they may have put there.                     *)
(***************************************************************************)
EXTENDS Integers, FiniteSets

CONSTANTS
  Programs,
  BatchSize,  \* GORM_BATCH_SIZE
  Broken,     \* the rows whose body is no base64
  MaxRows,    \* bound: rows added
  MaxCrawls,  \* bound: requests handed out
  MaxStarts   \* bound: starts of programs

ASSUME TableAssumption ==
  /\ IsFiniteSet(Programs)
  /\ BatchSize \in Int
  /\ Broken \subseteq Nat
  /\ MaxRows \in Nat /\ MaxCrawls \in Nat /\ MaxStarts \in Nat

Rows == 1..MaxRows
Crawls == 1..MaxCrawls

\* The values of the column status.
Waiting == 0
Running == 1
Finished == 2
Dropped == 3

VARIABLES
  added,      \* the number of rows; ids are given out in order
  status,     \* the column status, Waiting for the rows to come
  pc,         \* where the generator of a program stands
  held,       \* the row that Pop has read
  crawl,      \* the requests handed out, in order, and what became of them
  handed,     \* how many these are
  failMap,    \* the crawls whose ids a pipeline keeps, for each program
  starts,     \* how often programs were started
  together,   \* observer: whether two programs have run at once
  overlapped, \* observer: rows taken or put back although somebody is at them
  stranded,   \* observer: rows that an end of their program, or their user, has left
  unsaved,    \* observer: rows whose item was not saved in their last crawl
  marked,     \* observer: rows that a pipeline has set to 1 since they were taken
  forgotten   \* observer: rows whose mark was lost, or overwritten

table == <<added, status>>
generator == <<pc, held>>
crawls == <<crawl, handed>>
reports == <<stranded, unsaved, marked, forgotten>>
observers == <<together, overlapped, reports>>
vars == <<table, generator, crawls, failMap, starts, observers>>

\* What a crawl's callback and its item are at. "left": the program has ended.
Calls == {"none", "running", "over", "left"}
ItemStages == {"none", "saving", "asking", "clearing", "over"}

Crawl == [program : Programs, row : Rows, call : Calls, item : ItemStages]

TypeOK ==
  /\ added \in 0..MaxRows
  /\ status \in [Rows -> {Waiting, Running, Finished, Dropped}]
  /\ pc \in [Programs -> {"off", "reset", "first", "update", "send", "end"}]
  /\ held \in [Programs -> 0..MaxRows]
  /\ handed \in 0..MaxCrawls
  /\ crawl \in [1..handed -> Crawl]
  /\ failMap \in [Programs -> SUBSET (1..handed)]
  /\ starts \in 0..MaxStarts
  /\ together \in BOOLEAN
  /\ overlapped \subseteq Rows /\ stranded \subseteq Rows /\ unsaved \subseteq Rows
  /\ marked \subseteq Rows /\ forgotten \subseteq Rows

Init ==
  /\ added = 0
  /\ status = [r \in Rows |-> Waiting]
  /\ pc = [p \in Programs |-> "off"]
  /\ held = [p \in Programs |-> 0]
  /\ handed = 0
  /\ crawl = <<>>
  /\ failMap = [p \in Programs |-> {}]
  /\ starts = 0
  /\ together = FALSE
  /\ overlapped = {} /\ stranded = {} /\ unsaved = {} /\ marked = {} /\ forgotten = {}

-----------------------------------------------------------------------------
\* A crawl is under way until its callback and its item are through.
Live(c) ==
  \/ crawl[c].call = "running"
  \/ crawl[c].item \in {"saving", "asking", "clearing"}

At(c, r) == Live(c) /\ crawl[c].row = r

\* The row is marked as taken, and its request waits for the engine.
AtSend(p, r) == pc[p] = "send" /\ held[p] = r

Busy(r) ==
  \/ \E c \in 1..handed : At(c, r)
  \/ \E p \in Programs : AtSend(p, r)

RowsOf(cs) == {crawl[c].row : c \in cs}

\* The rows that have status 0.
Pending == {r \in 1..added : status[r] = Waiting}

Goes(p, to) == pc' = [pc EXCEPT ![p] = to]

-----------------------------------------------------------------------------
(* The table and its generator.                                            *)

\* Add, or a row that somebody else writes.
Add ==
  /\ added < MaxRows
  /\ added' = added + 1
  /\ UNCHANGED <<status, generator, crawls, failMap, starts, observers>>

\* A program starts and calls Generator, with resetRunning or without.
Start(p) ==
  /\ pc[p] = "off"
  /\ starts < MaxStarts
  /\ starts' = starts + 1
  /\ \/ Goes(p, "reset")
     \/ Goes(p, "first")
  /\ together' = (together \/ \E q \in Programs : pc[q] # "off")
  /\ UNCHANGED <<table, held, crawls, failMap, overlapped, reports>>

\* SetStatus(1, 0), whose error is ignored.
ResetRunning(p) ==
  /\ pc[p] = "reset"
  /\ Goes(p, "first")
  /\ LET put == {r \in 1..added : status[r] = Running} IN
       \/ /\ status' = [r \in Rows |-> IF r \in put THEN Waiting ELSE status[r]]
          /\ overlapped' = overlapped \cup {r \in put : Busy(r)}
       \/ UNCHANGED <<status, overlapped>>
  /\ UNCHANGED <<added, held, crawls, failMap, starts, together, reports>>

\* Pop's first statement. No row, or an error, is the generator's end.
PopReads(p) ==
  /\ pc[p] = "first"
  /\ \/ \E r \in Pending :
          /\ \A q \in Pending : r <= q
          /\ held' = [held EXCEPT ![p] = r]
          /\ Goes(p, "update")
     \/ Goes(p, "end") /\ UNCHANGED held
  /\ UNCHANGED <<table, crawls, failMap, starts, observers>>

\* The row is marked as taken; what is remembered of earlier crawls of it is over.
Takes(p) ==
  LET r == held[p] IN
  /\ status' = [status EXCEPT ![r] = Running]
  /\ overlapped' = IF status[r] = Waiting THEN overlapped ELSE overlapped \cup {r}
  /\ stranded' = stranded \ {r} /\ unsaved' = unsaved \ {r}
  /\ marked' = marked \ {r} /\ forgotten' = forgotten \ {r}
  /\ UNCHANGED together

\* Mutant: the second statement is left out.
PopTakesUnmarked(p) ==
  /\ pc[p] = "update"
  /\ Goes(p, "send")
  /\ UNCHANGED <<table, held, crawls, failMap, starts, observers>>

\* Mutant: the request is lost after the second statement.
PopTakesAndEnds(p) ==
  /\ pc[p] = "update"
  /\ Takes(p)
  /\ Goes(p, "end")
  /\ held' = [held EXCEPT ![p] = 0]
  /\ UNCHANGED <<added, crawls, failMap, starts>>

\* Mutant: an error does not end the generator.
PopTakesAgain(p) ==
  /\ pc[p] = "update"
  /\ \/ held[p] \notin Broken /\ Takes(p) /\ Goes(p, "send") /\ UNCHANGED held
     \/ /\ Goes(p, "first")
        /\ held' = [held EXCEPT ![p] = 0]
        /\ \/ held[p] \in Broken /\ Takes(p)
           \/ UNCHANGED <<status, observers>>
  /\ UNCHANGED <<added, crawls, failMap, starts>>

\* Pop's second statement, and the body, which is decoded after it. An error of either
\* is the generator's end; that of the body leaves the row taken.
PopTakes(p) ==
  /\ pc[p] = "update"
  /\ \/ held[p] \notin Broken /\ Takes(p) /\ Goes(p, "send") /\ UNCHANGED held
     \/ /\ Goes(p, "end")
        /\ held' = [held EXCEPT ![p] = 0]
        /\ \/ held[p] \in Broken /\ Takes(p)
           \/ UNCHANGED <<status, observers>>
  /\ UNCHANGED <<added, crawls, failMap, starts>>

\* The engine receives the request, and its callback is called.
Handed(p) ==
  /\ pc[p] = "send"
  /\ handed < MaxCrawls
  /\ handed' = handed + 1
  /\ crawl' = [c \in 1..(handed + 1) |->
                 IF c \in 1..handed THEN crawl[c]
                 ELSE [program |-> p, row |-> held[p], call |-> "running",
                       item |-> "none"]]
  /\ Goes(p, "first")
  /\ held' = [held EXCEPT ![p] = 0]
  /\ UNCHANGED <<table, failMap, starts, observers>>

-----------------------------------------------------------------------------
(* A callback and its item.                                                *)

\* The callback yields its item.
Yield(c) ==
  /\ crawl[c].call = "running"
  /\ crawl[c].item = "none"
  /\ crawl' = [crawl EXCEPT ![c].item = "saving"]
  /\ UNCHANGED <<table, generator, handed, failMap, starts, observers>>

\* The callback ends: with Done, with Drop, or with neither, an error of the statement
\* included. A mark that a pipeline has set by then is overwritten.
CallEnds(c) ==
  LET r == crawl[c].row IN
  /\ crawl[c].call = "running"
  /\ crawl' = [crawl EXCEPT ![c].call = "over"]
  /\ \/ \E s \in {Finished, Dropped} :
          /\ status' = [status EXCEPT ![r] = s]
          /\ forgotten' = forgotten \cup ({r} \cap marked)
          /\ UNCHANGED stranded
     \/ /\ stranded' = stranded \cup {r}
        /\ UNCHANGED <<status, forgotten>>
  /\ UNCHANGED <<added, generator, handed, failMap, starts, together, overlapped,
                 unsaved, marked>>

-----------------------------------------------------------------------------
(* BaseGormItemPipeline.                                                   *)

\* addFail.
AddFail(c) ==
  /\ failMap' = [failMap EXCEPT ![crawl[c].program] = @ \cup {c}]
  /\ unsaved' = unsaved \cup {crawl[c].row}

\* Mutant: an item of a wrong type leaves no mark.
SaveItemSilent(c) ==
  /\ crawl[c].item = "saving"
  /\ unsaved' = unsaved \cup {crawl[c].row}
  /\ crawl' = [crawl EXCEPT ![c].item = "over"]
  /\ UNCHANGED <<table, generator, handed, failMap, starts, together, overlapped,
                 stranded, marked, forgotten>>

\* ProcessItem up to needClear. An item of a wrong type, or one that cannot be saved,
\* ends it; one that is there already (Error 1062) counts as saved.
SaveItem(c) ==
  /\ crawl[c].item = "saving"
  /\ \/ /\ AddFail(c)
        /\ crawl' = [crawl EXCEPT ![c].item = "over"]
     \/ /\ crawl' = [crawl EXCEPT ![c].item = "asking"]
        /\ UNCHANGED <<failMap, unsaved>>
  /\ UNCHANGED <<table, generator, handed, starts, together, overlapped, stranded,
                 marked, forgotten>>

\* needClear: the batch is full, or the interval has passed, which it may have.
NeedClear(c) ==
  /\ crawl[c].item = "asking"
  /\ \/ crawl' = [crawl EXCEPT ![c].item = "clearing"]
     \/ /\ Cardinality(failMap[crawl[c].program]) < BatchSize
        /\ crawl' = [crawl EXCEPT ![c].item = "over"]
  /\ UNCHANGED <<table, generator, handed, failMap, starts, observers>>

\* The rows of the batch are set to 1, or the statement fails; the batch is gone.
ClearFail(p) ==
  LET rows == RowsOf(failMap[p]) IN
  /\ failMap' = [failMap EXCEPT ![p] = {}]
  /\ \/ /\ status' = [r \in Rows |-> IF r \in rows THEN Running ELSE status[r]]
        /\ marked' = marked \cup rows
        /\ UNCHANGED forgotten
     \/ /\ forgotten' = forgotten \cup rows
        /\ UNCHANGED <<status, marked>>

ItemEnds(c) ==
  /\ crawl[c].item = "clearing"
  /\ ClearFail(crawl[c].program)
  /\ crawl' = [crawl EXCEPT ![c].item = "over"]
  /\ UNCHANGED <<added, generator, handed, starts, together, overlapped, stranded,
                 unsaved>>

-----------------------------------------------------------------------------
(* The end of a program.                                                   *)

CrawlsOf(p) == {c \in 1..handed : crawl[c].program = p}

\* The request that waits for the engine goes nowhere.
Leaves(p) == {r \in Rows : AtSend(p, r)}

\* Mutant: Close does not write the marks.
CloseSilent(p) ==
  /\ pc[p] # "off"
  /\ \A c \in CrawlsOf(p) : ~Live(c)
  /\ Goes(p, "off")
  /\ held' = [held EXCEPT ![p] = 0]
  /\ stranded' = stranded \cup Leaves(p)
  /\ UNCHANGED <<table, crawls, failMap, starts, together, overlapped, unsaved, marked,
                 forgotten>>

\* Close, when the engine is through with what it has been given.
Close(p) ==
  /\ pc[p] # "off"
  /\ \A c \in CrawlsOf(p) : ~Live(c)
  /\ ClearFail(p)
  /\ Goes(p, "off")
  /\ held' = [held EXCEPT ![p] = 0]
  /\ stranded' = stranded \cup Leaves(p)
  /\ UNCHANGED <<added, crawls, starts, together, overlapped, unsaved>>

\* A crash: what the program had in memory is gone.
Crash(p) ==
  LET live == {c \in CrawlsOf(p) : Live(c)}
      lost == RowsOf(failMap[p] \cup {c \in live : crawl[c].item = "saving"})
  IN
  /\ pc[p] # "off"
  /\ crawl' = [c \in 1..handed |->
                 IF c \in live THEN [crawl[c] EXCEPT !.call = "left", !.item = "over"]
                 ELSE crawl[c]]
  /\ failMap' = [failMap EXCEPT ![p] = {}]
  /\ Goes(p, "off")
  /\ held' = [held EXCEPT ![p] = 0]
  /\ stranded' = stranded \cup Leaves(p)
                   \cup RowsOf({c \in live : crawl[c].call = "running"})
  /\ unsaved' = unsaved \cup lost
  /\ forgotten' = forgotten \cup lost
  /\ UNCHANGED <<table, handed, starts, together, overlapped, marked>>

-----------------------------------------------------------------------------
Generator(p) == ResetRunning(p) \/ PopReads(p) \/ PopTakes(p) \/ Handed(p)

Works(c) == Yield(c) \/ CallEnds(c) \/ SaveItem(c) \/ NeedClear(c) \/ ItemEnds(c)

Next ==
  \/ Add
  \/ \E p \in Programs : Start(p) \/ Generator(p) \/ Close(p) \/ Crash(p)
  \/ \E c \in 1..handed : Works(c)

Spec == Init /\ [][Next]_vars

\* Goroutines are scheduled, statements and callbacks return, and a program closes when
\* its generator is through and it has nothing left to do.
Fairness ==
  /\ \A p \in Programs :
       /\ WF_vars(Generator(p))
       /\ WF_vars((pc[p] = "end" \/ handed = MaxCrawls) /\ Close(p))
  /\ \A c \in Crawls : WF_vars(c <= handed /\ Works(c))

FairSpec == Spec /\ Fairness

-----------------------------------------------------------------------------
OneWorker(r) ==
  /\ \A c, d \in 1..handed : At(c, r) /\ At(d, r) => c = d
  /\ \A p, q \in Programs : AtSend(p, r) /\ AtSend(q, r) => p = q
  /\ \A c \in 1..handed, p \in Programs : ~(At(c, r) /\ AtSend(p, r))

\* A row is at most once under way, in all programs, unless two Pops overlapped or
\* resetRunning put back a row that was under way; and a program that has always been
\* alone, restarts included, has no such overlap.
TwiceNeedsOverlap ==
  \A r \in Rows : OneWorker(r) \/ (r \in overlapped /\ together)

\* A row of status 1 waits for the engine or has its callback running, or its program
\* or user has left it, or a pipeline has marked it. A program that runs loses a row that
\* it has set to 1 only if the row's body is no base64.
RunningIsKnown ==
  \A r \in Rows :
    status[r] = Running =>
      \/ \E c \in 1..handed : crawl[c].row = r /\ crawl[c].call = "running"
      \/ \E p \in Programs : AtSend(p, r)
      \/ r \in stranded \cup marked \cup Broken

\* A row that is finished although its item was not saved is still remembered by a
\* pipeline, unless a crash or a failed statement took the mark, or a Done came late.
UnsavedIsRemembered ==
  \A r \in unsaved :
    status[r] = Finished =>
      r \in forgotten \cup RowsOf(UNION {failMap[p] : p \in Programs})

\* A row is taken as long as a generator runs.
RowsAreTaken ==
  \A r \in Rows :
    r \in Pending ~> \/ r \notin Pending
                    \/ handed = MaxCrawls
                    \/ \A p \in Programs : pc[p] \in {"off", "end"}

\* What a pipeline keeps is written back in the end, though failing items ask for it
\* never.
MarksAreWritten == \A p \in Programs : <>[](failMap[p] = {})
=============================================================================
