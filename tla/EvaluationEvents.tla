---------------------------- MODULE EvaluationEvents ----------------------------
(***************************************************************************)
(* The event tape of one evaluation: append_event of afa_api/jobs.py called *)
(* by its owner, by recovery and by a resume, and those who follow it: SSE *)
(* clients (routes_jobs.py) and pages of the web client, which read the    *)
(* history page by page, then the stream, and when that fails poll         *)
(* (web/src/lib/useJobEvents.ts, jobEvents.ts).                            *)
(*                                                                         *)
(* An append is three steps: SELECT MAX(seq), INSERT, and, when another     *)
(* writer took the number in between, a second SELECT and INSERT inside the *)
(* transaction the failed INSERT left open.  A poll is two reads, each of a *)
(* snapshot of its own: the connection is in autocommit mode.               *)
(***************************************************************************)
EXTENDS Naturals, FiniteSets, SequencesExt

CONSTANTS
  Owners,     \* threads that run the evaluation, one after the other or, where
              \* recovery cannot see the owner's lock, at the same time
  Recovery,   \* reclaim_stale_running of a starting process
  Resumer,    \* resume_job of the API
  Nobody,     \* no owner, no holder of the write lock
  Streams,    \* SSE connections of browsers
  Hooks,      \* pages of the web client that follow the evaluation
  PageLimit,  \* LIMIT of events_since (1000 in the code)
  MaxEvents, MaxCrashes, MaxFailures   \* bounds

Writers == Owners \cup {Recovery, Resumer}
Readers == Streams \cup Hooks

ASSUME EventsAssumption ==
  /\ Nobody \notin Writers /\ Recovery \notin Owners /\ Resumer \notin Owners
  /\ Streams \cap Hooks = {}
  /\ PageLimit \in Nat \ {0}
  /\ MaxEvents \in Nat /\ MaxCrashes \in Nat /\ MaxFailures \in Nat

VARIABLES
  status,    \* evaluation_jobs.status
  owner,     \* evaluation_jobs.owner_token: who holds it
  tape,      \* job_events of the evaluation
  wlock,     \* the writer whose transaction is open, SQLite's one write lock
  writer,    \* a call of append_event and what its caller does next
  returned,  \* how many calls of append_event returned
  reader,    \* a stream or a page
  left       \* crashes and lost requests left of the bounds

vars == <<status, owner, tape, wlock, writer, returned, reader, left>>
jobVars == <<status, owner>>

Terminal  == {"succeeded", "failed", "canceled"}
EventType == {"job_started", "run", "job_done", "job_failed", "job_canceled",
              "job_reclaimed", "job_resumed"}
EventRow  == [seq: Nat, type: EventType]

\* How an owner ends: the event it appends, and the status it then commits.
\* Mutant: the name of the event is taken for the status.
EndingsByEvent == {<<"job_done", "done">>, <<"job_failed", "failed">>}
Endings == {<<"job_done", "succeeded">>, <<"job_failed", "failed">>,
            <<"job_canceled", "canceled">>}

IdleWriter == [step |-> "idle", type |-> "run", seq |-> 0, fate |-> "none"]
OffReader  == [step |-> "off", mode |-> "sse", cursor |-> 0, batch |-> <<>>, status |-> "queued",
               got |-> <<>>, failures |-> 0]

Init ==
  /\ status = "queued" /\ owner = Nobody /\ tape = {} /\ wlock = Nobody
  /\ writer = [w \in Writers |-> IdleWriter]
  /\ returned = 0
  /\ reader = [c \in Readers |-> OffReader]
  /\ left = [crashes |-> MaxCrashes, failures |-> MaxFailures]

MaxSeq   == IF tape = {} THEN 0 ELSE Max({x.seq : x \in tape})
InOrder(S) ==
  [i \in 1..Cardinality(S) |-> CHOOSE x \in S : Cardinality({y \in S : y.seq <= x.seq}) = i]

----------------------------------------------------------------------------
(* append_event.                                                           *)

Appending == {w \in Writers : writer[w].step \in {"read", "insert", "retry"}}
Room == Cardinality(tape) + Cardinality(Appending) < MaxEvents

Begin(w, type, fate) ==
  writer' = [writer EXCEPT ![w] = [step |-> "read", type |-> type, seq |-> 0, fate |-> fate]]

\* What the caller does when the call has returned.
AfterAppend(w) ==
  IF writer[w].fate # "none" THEN "mark" ELSE IF w \in Owners THEN "work" ELSE "idle"

Returned(w) ==
  writer' = [writer EXCEPT ![w] = [IdleWriter EXCEPT !.step = AfterAppend(w),
                                                     !.fate = writer[w].fate]]

Written(w, seq) ==
  /\ tape' = tape \cup {[seq |-> seq, type |-> writer[w].type]}
  /\ returned' = returned + 1
  /\ Returned(w)

ReadMax(w) ==
  /\ writer[w].step = "read"
  /\ writer' = [writer EXCEPT ![w].step = "insert", ![w].seq = MaxSeq + 1]
  /\ UNCHANGED <<jobVars, tape, wlock, returned, reader, left>>

Taken(seq) == \E x \in tape : x.seq = seq

\* Mutant: INSERT OR IGNORE.
InsertOrIgnore(w) ==
  /\ writer[w].step = "insert" /\ wlock = Nobody
  /\ \/ ~Taken(writer[w].seq) /\ Written(w, writer[w].seq)
     \/ Taken(writer[w].seq) /\ returned' = returned + 1
        /\ Returned(w) /\ UNCHANGED tape
  /\ UNCHANGED <<jobVars, wlock, reader, left>>

Insert(w) ==
  /\ writer[w].step = "insert" /\ wlock = Nobody
  /\ \/ ~Taken(writer[w].seq) /\ Written(w, writer[w].seq) /\ UNCHANGED wlock
     \/ /\ Taken(writer[w].seq)
        /\ wlock' = w /\ writer' = [writer EXCEPT ![w].step = "retry"]
        /\ UNCHANGED <<tape, returned>>
  /\ UNCHANGED <<jobVars, reader, left>>

\* The next attempt, with the write lock in hand: nobody can take the number.
Retry(w) ==
  /\ writer[w].step = "retry"
  /\ Written(w, MaxSeq + 1) /\ wlock' = Nobody
  /\ UNCHANGED <<jobVars, reader, left>>

----------------------------------------------------------------------------
(* The callers.                                                            *)

Claim(w) ==
  /\ w \in Owners /\ writer[w].step = "idle" /\ status = "queued" /\ Room /\ wlock = Nobody
  /\ status' = "running" /\ owner' = w
  /\ Begin(w, "job_started", "none")
  /\ UNCHANGED <<tape, wlock, returned, reader, left>>

RunEvent(w) ==
  /\ writer[w].step = "work" /\ Room /\ Begin(w, "run", "none")
  /\ UNCHANGED <<jobVars, tape, wlock, returned, reader, left>>

\* touch_owner finds the evaluation lost.
Abandon(w) ==
  /\ writer[w].step = "work" /\ ~(status = "running" /\ owner = w)
  /\ writer' = [writer EXCEPT ![w] = IdleWriter]
  /\ UNCHANGED <<jobVars, tape, wlock, returned, reader, left>>

End(w) ==
  /\ writer[w].step = "work"
  /\ \E e \in Endings : Begin(w, e[1], e[2])
  /\ UNCHANGED <<jobVars, tape, wlock, returned, reader, left>>

\* The event comes first, the status after it, in a transaction of its own.
MarkTerminal(w) ==
  /\ writer[w].step = "mark" /\ wlock = Nobody
  /\ IF status = "running" /\ owner = w
     THEN status' = writer[w].fate /\ owner' = Nobody
     ELSE UNCHANGED jobVars
  /\ writer' = [writer EXCEPT ![w] = IdleWriter]
  /\ UNCHANGED <<tape, wlock, returned, reader, left>>

\* Recovery and resume commit the status first and append afterwards.
Recover ==
  /\ writer[Recovery].step = "idle" /\ status = "running" /\ Room /\ wlock = Nobody
  /\ \/ status' = "queued" /\ Begin(Recovery, "job_reclaimed", "none")
     \/ status' = "failed" /\ Begin(Recovery, "job_failed", "none")
  /\ owner' = Nobody
  /\ UNCHANGED <<tape, wlock, returned, reader, left>>

Resume ==
  /\ writer[Resumer].step = "idle" /\ Room /\ wlock = Nobody
  /\ status \in {"failed", "canceled", "queued"} /\ status' = "queued"
  /\ Begin(Resumer, "job_resumed", "none")
  /\ UNCHANGED <<owner, tape, wlock, returned, reader, left>>

\* A queued evaluation is canceled without an event.
CancelQueued ==
  /\ status = "queued" /\ wlock = Nobody /\ status' = "canceled"
  /\ UNCHANGED <<owner, tape, wlock, writer, returned, reader, left>>

\* Any writer may die; its open transaction is rolled back.
Crash(w) ==
  /\ writer[w].step # "idle" /\ left.crashes > 0
  /\ left' = [left EXCEPT !.crashes = @ - 1]
  /\ writer' = [writer EXCEPT ![w] = IdleWriter]
  /\ wlock' = IF wlock = w THEN Nobody ELSE wlock
  /\ UNCHANGED <<jobVars, tape, returned, reader>>

----------------------------------------------------------------------------
(* The readers.                                                            *)

\* events_since: the rows after the cursor, in order, at most PageLimit.
EventsSince(c) ==
  LET rows == InOrder({x \in tape : x.seq > c})
  IN  SubSeq(rows, 1, IF Len(rows) < PageLimit THEN Len(rows) ELSE PageLimit)

LastSeq(rows, c) == IF rows = <<>> THEN c ELSE Last(rows).seq

OnlyReader == UNCHANGED <<jobVars, tape, wlock, writer, returned, left>>
Set(c, new) == reader' = [reader EXCEPT ![c] = new]

\* A stream is opened; a page is opened and begins with the history.
Connect(c) ==
  /\ reader[c].step = "off"
  /\ Set(c, IF c \in Streams THEN [OffReader EXCEPT !.step = "events"]
             ELSE [OffReader EXCEPT !.step = "status", !.mode = "history"])
  /\ OnlyReader

TerminalEvents == {"job_done", "job_failed", "job_canceled"}
\* What ends an evaluation was ingested, and no resume after it.
TerminalSeen(got) ==
  LET told == SelectSeq(got, LAMBDA e : e.type \in TerminalEvents \cup {"job_resumed"})
  IN  told # <<>> /\ Last(told).type \in TerminalEvents

Polling(c) ==
  [reader[c] EXCEPT !.mode = "poll", !.step = "status", !.batch = <<>>, !.cursor = LastSeq(reader[c].got, 0)]
Reconnected(c) == [reader[c] EXCEPT !.step = "events", !.batch = <<>>]
\* A request fails, and what was on its way is lost.  A browser opens a lost
\* stream again, with the id received last; after three failures in a row a page
\* polls.
RequestFails(c) ==
  /\ reader[c].step \notin {"off", "closed"} /\ left.failures > 0
  /\ left' = [left EXCEPT !.failures = @ - 1]
  /\ Set(c, IF reader[c].mode # "sse" THEN Polling(c)
             ELSE IF c \in Streams \/ TerminalSeen(reader[c].got) THEN Reconnected(c)
             ELSE IF reader[c].failures = 2 THEN Polling(c)
             ELSE [Reconnected(c) EXCEPT !.failures = @ + 1])
  /\ UNCHANGED <<jobVars, tape, wlock, writer, returned>>

PollEvents(c) ==
  /\ reader[c].step = "events"
  /\ reader' = [reader EXCEPT ![c] = [@ EXCEPT !.step = "status",
                                               !.batch = EventsSince(reader[c].cursor)]]
  /\ OnlyReader

PollStatus(c) ==
  /\ reader[c].mode = "sse" /\ reader[c].step = "status"
  /\ reader' = [reader EXCEPT
       ![c] = [@ EXCEPT !.status = status,
                        !.step = IF reader[c].batch # <<>> THEN "deliver"
                                 ELSE IF status \in Terminal THEN "closed" ELSE "events"]]
  /\ OnlyReader

\* Mutant: a replayed event is taken for a new one.
IngestAgain(got, rows) == got \o rows
\* ingest: what was seen is dropped, the rest put in order.
Ingest(got, rows) == InOrder(ToSet(got) \cup ToSet(rows))

\* A page stops at an event that ends the evaluation, unless it is a replay.
Deliver(c) ==
  /\ reader[c].step = "deliver"
  /\ LET e == Head(reader[c].batch)
         fresh == e \notin ToSet(reader[c].got)
     IN  Set(c, [reader[c] EXCEPT
           !.got = IF c \in Streams THEN Append(@, e) ELSE Ingest(@, <<e>>),
           !.cursor = e.seq, !.batch = Tail(@),
           !.failures = IF fresh THEN 0 ELSE @,
           !.step = IF c \in Hooks /\ fresh /\ e.type \in TerminalEvents THEN "closed"
                    ELSE IF Len(reader[c].batch) = 1 THEN "events" ELSE @])
  /\ OnlyReader

\* drainJobEvents: the status first, then page after page until one is short.
ReadJob(c) ==
  /\ reader[c].mode # "sse" /\ reader[c].step = "status"
  /\ Set(c, [reader[c] EXCEPT !.status = status, !.step = "page"])
  /\ OnlyReader

\* After the history the stream, from the start; polling ends when there is no
\* more to read.
Drained(c, rows) ==
  LET r == [reader[c] EXCEPT !.got = Ingest(@, rows), !.batch = <<>>]
      ended == r.status \in Terminal /\ (r.mode = "poll" => rows = <<>>)
  IN  IF ended THEN [r EXCEPT !.step = "closed", !.cursor = 0]
      ELSE IF r.mode = "poll" THEN [r EXCEPT !.step = "status", !.cursor = LastSeq(r.got, 0)]
      ELSE [r EXCEPT !.mode = "sse", !.step = "events", !.cursor = 0]

\* Mutant: the first page is taken for the whole tape.
ReadOnePage(c) ==
  /\ reader[c].step = "page"
  /\ Set(c, Drained(c, EventsSince(reader[c].cursor)))
  /\ OnlyReader
\* Mutant: a full page is read again and again.
ReadSamePage(c) ==
  /\ reader[c].step = "page"
  /\ LET page == EventsSince(reader[c].cursor) IN
     Set(c, IF Len(page) < PageLimit THEN Drained(c, page) ELSE reader[c])
  /\ OnlyReader

ReadPage(c) ==
  /\ reader[c].step = "page"
  /\ LET page == EventsSince(reader[c].cursor)
         rows == reader[c].batch \o page
     IN  Set(c, IF Len(page) < PageLimit THEN Drained(c, rows)
                ELSE [reader[c] EXCEPT !.batch = rows, !.cursor = LastSeq(rows, @)])
  /\ OnlyReader

----------------------------------------------------------------------------

ReaderWork(c) ==
  PollEvents(c) \/ PollStatus(c) \/ Deliver(c) \/ ReadJob(c) \/ ReadPage(c)

Next ==
  \/ \E w \in Writers : \/ ReadMax(w) \/ Insert(w) \/ Retry(w) \/ Claim(w) \/ RunEvent(w)
                        \/ Abandon(w) \/ End(w) \/ MarkTerminal(w) \/ Crash(w)
  \/ Recover \/ Resume \/ CancelQueued
  \/ \E c \in Readers : Connect(c) \/ RequestFails(c) \/ ReaderWork(c)

Spec == Init /\ [][Next]_vars

\* The event loop of the server and the timer of the browser go on.
FairSpec == Spec /\ \A c \in Readers : WF_vars(ReaderWork(c))

----------------------------------------------------------------------------
(* Properties.                                                             *)

EventsTypeOK ==
  /\ status \in {"queued", "running"} \cup Terminal
  /\ owner \in Owners \cup {Nobody} /\ wlock \in Writers \cup {Nobody}
  /\ \A x \in tape : x \in EventRow
  /\ \A w \in Writers :
       /\ writer[w].step \in {"idle", "work", "read", "insert", "retry", "mark"}
       /\ writer[w].type \in EventType /\ writer[w].seq \in Nat
       /\ writer[w].fate \in Terminal \cup {"none"}
  /\ returned \in Nat
  /\ \A c \in Readers :
       /\ reader[c].step \in {"off", "events", "status", "deliver", "page", "closed"}
       /\ reader[c].mode \in {"history", "sse", "poll"} /\ reader[c].failures \in 0..2
       /\ \A i \in 1..Len(reader[c].got) : reader[c].got[i] \in EventRow

\* What a reader holds is the tape from its first event, in order, without a
\* gap or a repetition, whatever committed while it read, reconnected or paged.
NoGapNoRepeat ==
  \A c \in Readers :
    LET got == reader[c].got
    IN  got = InOrder({x \in tape : x.seq <= LastSeq(got, 0)})

\* The tape has as many events as calls returned: none is lost and none doubled,
\* no two share a number, and the numbers have no hole.
NoEventLost ==
  /\ Cardinality(tape) = returned
  /\ {x.seq : x \in tape} = 1..returned

\* A page that stopped because it read that the evaluation succeeded shows how it
\* ended: drainJobEvents reads the status before the events.
DrainSawTheEnd ==
  \A c \in Hooks :
    reader[c].step = "closed" /\ reader[c].mode # "sse" /\ reader[c].status = "succeeded" =>
      \E i \in 1..Len(reader[c].got) : reader[c].got[i].type = "job_done"

\* Once the evaluation has come to rest, every reader comes to its end.
ReadersClose ==
  <>[](status \in Terminal) =>
    \A c \in Readers :
      reader[c].step # "off" ~> reader[c].step = "closed"

\* job_events: the stream "closes once the job is terminal and all its events
\* have been delivered".
ClosesDrained ==
  [][\A c \in Streams : reader[c].step # "closed" /\ reader'[c].step = "closed" =>
       reader[c].got = InOrder(tape)]_vars
=============================================================================
