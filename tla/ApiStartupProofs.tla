--------------------------- MODULE ApiStartupProofs ---------------------------
(***************************************************************************)
(* The safety of the startup, for any number of requests, any file the     *)
(* processes find, any retry interval and any number of deaths and         *)
(* failing statements.  A check that saw a piece of the schema stays right *)
(* because the schema only grows; a writer has in view what is committed   *)
(* because nobody else commits beside it.                                  *)
(***************************************************************************)
EXTENDS ApiStartup, TLAPS

Writing == {"heal", "raw", "tables", "alter", "settings", "commit"}
Retrying == MigrationPoint \cup {"migrated", "failed", "recovering"}
Ready == ControlPieces \cup {"runs"} \subseteq file.schema /\ ~file.odd

Types ==
  /\ file \in File /\ writer \in Actors \cup {NoOne} /\ view \subseteq Pieces
  /\ pc \in [Actors -> Point] /\ seen \in [Actors -> SUBSET Pieces] /\ faults \in Nat
  /\ up \in BOOLEAN /\ errors \subseteq {"migration", "recovery"}
  /\ retrying \in Requests \cup {NoOne}
  /\ since \in 0..Interval /\ rested \in 0..Interval /\ answer \in {"none", "served", "503"}

\* A file that is not there is empty, and with evidence to seed from nobody has
\* come further than the seeding while it is not there.
FileInv ==
  /\ ~file.there => file = Absent
  /\ Evidence /\ ~file.there => ~up /\ \A a \in Actors : pc[a] \in {"off", "ensure", "copy", "link"}

\* Who is between BEGIN and COMMIT holds the lock and has in its view what is
\* committed and what it made; what a check saw is there.
WriterInv ==
  /\ \A a \in Actors : writer = a <=> pc[a] \in Writing
  /\ writer # NoOne => file.there /\ file.schema \subseteq view
  /\ \A a \in Actors :
       /\ seen[a] \subseteq file.schema
       /\ pc[a] \in {"columns", "begin"} => file.there
       /\ pc[a] \in Writing \ {"heal"} => ~file.odd
       /\ pc[a] \in {"tables", "alter", "settings", "commit"} => "runs" \in view
       /\ pc[a] \in {"alter", "settings", "commit"} => {"jobs", "trials"} \subseteq view
       /\ pc[a] \in {"settings", "commit"} => {"columns", "links"} \subseteq view
       /\ pc[a] = "commit" => "settings" \in view

\* Who is past a migration finds it done.
ReadyInv ==
  /\ \A a \in Actors : pc[a] \in {"migrated", "recovering"} => Ready
  /\ up /\ "migration" \notin errors => Ready

\* Requests are there while the API is up; the one that retries is at work, and
\* the time since the last attempt began is no longer than since it ended.
RetryInv ==
  /\ \A r \in Requests : pc[r] # "off" => up
  /\ retrying # NoOne => pc[retrying] \in Retrying
  /\ since <= rested

Inv == Types /\ FileInv /\ WriterInv /\ ReadyInv /\ RetryInv
----------------------------------------------------------------------------

\* Who acts, and where: a step of the database by one actor.
Seeding(a, next) == Ensure(a, next) \/ Copy(a) \/ Link(a, next)
Storing(a) == StoreRuns(a) \/ StoreResults(a, "names")
Restarting ==
  \/ At(Worker, "off") /\ Go(Worker, "ensure") /\ UNCHANGED database
  \/ At(Worker, "migrated") /\ Go(Worker, "names") /\ UNCHANGED database
  \/ At(Worker, "failed") /\ (Go(Worker, "off") \/ Go(Worker, "names")) /\ UNCHANGED database

\* Every actor is the API, the worker or a request, and none is two of them.
LEMMA ActorsOK ==
  /\ Actors = {Api, Worker} \cup Requests
  /\ Api \in Actors /\ Worker \in Actors /\ Requests \subseteq Actors
  /\ Api \notin Requests /\ Worker \notin Requests /\ Api # Worker /\ NoOne \notin Actors
  /\ Interval \in Nat \ {0} /\ MaxFaults \in Nat /\ Evidence \in BOOLEAN
  BY StartupAssumption, DatabaseAssumption DEF Api, Worker

\* A step of one actor to a point leaves the points of all actors points.
LEMMA GoTyped ==
  ASSUME pc \in [Actors -> Point], NEW a \in Actors, NEW step \in Point, Go(a, step)
  PROVE  pc' \in [Actors -> Point] /\ \A b \in Actors : pc'[b] = IF b = a THEN step ELSE pc[b]
  BY DEF Go

\* A file, field by field.
Fields(f, there, rows, schema, odd) ==
  f \in File /\ f.there = there /\ f.rows = rows /\ f.schema = schema /\ f.odd = odd

\* What a file is made of, and the edits of it the actions make.
LEMMA FileTyped ==
  ASSUME NEW f \in File
  PROVE  f.there \in BOOLEAN /\ f.rows \subseteq {"evidence", "ours"} /\ f.schema \subseteq Pieces /\ f.odd \in BOOLEAN
  BY DEF File
\* No file yet.
LEMMA AbsentTyped == Fields(Absent, FALSE, {}, {}, FALSE)
  BY DEF Fields, File, Absent
\* The snapshot of the evidence.
LEMMA SeedTyped == Fields(Seed, TRUE, {"evidence"}, {"runs", "results", "jobs"}, FALSE)
  BY DEF Fields, File, Seed, Pieces, RawPieces, ControlPieces
\* The store's CREATE TABLE (SqliteRunStore).
LEMMA WithTyped ==
  ASSUME file \in File, NEW pieces \in SUBSET Pieces
  PROVE  Fields(With(pieces), TRUE, file.rows, file.schema \cup pieces, file.odd)
  BY DEF Fields, File, With
\* Connecting creates the file.
LEMMA ThereTyped ==
  ASSUME file \in File
  PROVE  Fields([file EXCEPT !.there = TRUE], TRUE, file.rows, file.schema, file.odd)
  BY DEF Fields, File
\* A commit of the migration.
LEMMA SchemaTyped ==
  ASSUME file \in File, view \in SUBSET Pieces
  PROVE  Fields([file EXCEPT !.schema = view], file.there, file.rows, view, file.odd)
  BY DEF Fields, File
\* A row a guarded route writes.
LEMMA RowsTyped ==
  ASSUME file \in File
  PROVE  Fields([file EXCEPT !.rows = @ \cup {"ours"}], file.there, file.rows \cup {"ours"}, file.schema, file.odd)
  BY DEF Fields, File

\* The initial state satisfies the invariant.
LEMMA InitInv == Init => Inv
<1> SUFFICES ASSUME Init PROVE Inv
  OBVIOUS
<1> USE ActorsOK DEF Init, DatabaseInit
<1>1. Types
  <2>1. pc \in [Actors -> Point] /\ seen \in [Actors -> SUBSET Pieces]
    BY DEF Point
  <2>2. file \in File /\ writer = NoOne /\ view \subseteq Pieces
    BY DatabaseAssumption
  <2>3. since \in 0..Interval /\ rested \in 0..Interval /\ faults \in Nat
    OBVIOUS
  <2>4. writer \in Actors \cup {NoOne} /\ retrying \in Requests \cup {NoOne}
    OBVIOUS
  <2>5. up \in BOOLEAN /\ errors \subseteq {"migration", "recovery"} /\ answer \in {"none", "served", "503"}
    OBVIOUS
  <2> QED
    BY <2>1, <2>2, <2>3, <2>4, <2>5 DEF Types
<1>2. FileInv
  BY DatabaseAssumption DEF FileInv
<1>3. WriterInv
  BY DEF WriterInv, Writing
<1>4. ReadyInv /\ RetryInv
  BY DEF ReadyInv, RetryInv
<1> QED
  BY <1>1, <1>2, <1>3, <1>4 DEF Inv

\* Seeding moves one actor and publishes the snapshot where nothing was.
LEMMA SeedingInv ==
  ASSUME Inv, NEW a \in Actors, NEW next \in {"names", "store runs"},
         a \notin Requests, Seeding(a, next), UNCHANGED state
  PROVE  Inv'
<1> USE ActorsOK DEF Inv, Seeding, Ensure, Copy, Link, Linked, At, Go, database, state
<1>0. \/ file' = file /\ (file.there \/ pc[a] # "link")
      \/ (file = Absent /\ Fields(file', TRUE, {"evidence"}, {"runs", "results", "jobs"}, FALSE))
  BY SeedTyped DEF FileInv
<1>1. Types'
  <2>1. file' \in File
    BY <1>0, FileTyped DEF Fields, Types, With, Pieces, RawPieces, ControlPieces
  <2>2. pc' \in [Actors -> Point]
    BY <1>0 DEF Fields, Types, Point, Names
  <2>3. view' \subseteq Pieces /\ seen' \in [Actors -> SUBSET Pieces]
    BY <1>0, FileTyped DEF Fields, Types, Pieces, RawPieces, ControlPieces, Names
  <2> QED
    BY <2>1, <2>2, <2>3 DEF Types
<1>2. FileInv'
  BY <1>0 DEF Fields, Types, FileInv
<1>8. file.schema \subseteq file'.schema /\ file'.odd = file.odd /\ (file.there => file'.there)
  <2>1. CASE file' = file
    BY <2>1
  <2>2. CASE file = Absent /\ Fields(file', TRUE, {"evidence"}, {"runs", "results", "jobs"}, FALSE)
    BY <2>2, AbsentTyped DEF Fields
  <2> QED
    BY <2>1, <2>2, <1>0
<1>3. WriterInv'
  <2>2. \A b \in Actors : b # a => pc'[b] = pc[b]
    BY DEF Types
  <2>3. pc'[a] \in {"names", "store runs", "copy", "link"} /\ pc[a] \notin Writing
    BY DEF Types, Writing
  <2>4. UNCHANGED <<writer, view, seen>>
    OBVIOUS
  <2>5. writer # NoOne => file' = file
    BY <1>0, AbsentTyped DEF WriterInv, Fields
  <2> HIDE DEF Seeding, Ensure, Copy, Link
  <2> QED
    BY <1>8, <2>2, <2>3, <2>4, <2>5 DEF WriterInv, Writing
<1>4. ReadyInv'
  <2>1. Ready => Ready'
    BY <1>8 DEF Ready
  <2>2. \A b \in Actors : pc'[b] \in {"migrated", "recovering"} => pc[b] = pc'[b]
    BY DEF Types
  <2>3. \A b \in Actors : pc'[b] \in {"migrated", "recovering"} => Ready'
    BY <2>1, <2>2 DEF ReadyInv
  <2>4. up' /\ "migration" \notin errors' => Ready'
    BY <2>1 DEF ReadyInv
  <2> QED
    BY <2>3, <2>4 DEF ReadyInv
<1>5. RetryInv'
  BY <1>0 DEF Fields, Types, RetryInv
<1> QED
  BY <1>1, <1>2, <1>3, <1>4, <1>5

\* The worker's store adds tables while nobody holds the lock.
LEMMA StoringInv ==
  ASSUME Inv, Storing(Worker), UNCHANGED state
  PROVE  Inv'
<1> USE ActorsOK DEF Inv, Storing, StoreRuns, StoreResults, With, At, Go, state
<1>0. \/ Fields(file', TRUE, file.rows, file.schema \cup {"runs", "links"}, file.odd)
      \/ Fields(file', TRUE, file.rows, file.schema \cup {"results"}, file.odd)
      \/ (file' = file /\ "runs" \in file.schema)
  <2>1. {"runs", "links"} \subseteq Pieces /\ {"results"} \subseteq Pieces
    BY DEF Pieces, RawPieces, ControlPieces
  <2>2. file \in File
    BY DEF Types
  <2> HIDE DEF With
  <2> QED
    BY <2>1, <2>2, WithTyped
<1>8. file.schema \subseteq file'.schema /\ file'.odd = file.odd /\ file'.there
  <2>1. ~file.there => file.schema = {}
    BY AbsentTyped DEF FileInv, Fields
  <2> QED
    BY <1>0, <2>1, FileTyped DEF Fields, Types
<1>1. Types'
  <2>1. file' \in File
    BY <1>0, FileTyped DEF Fields, Types, With, Pieces, RawPieces, ControlPieces
  <2>2. pc' \in [Actors -> Point]
    BY <1>0 DEF Fields, Types, Point, Names
  <2>3. view' \subseteq Pieces /\ seen' \in [Actors -> SUBSET Pieces]
    BY <1>0, FileTyped DEF Fields, Types, Pieces, RawPieces, ControlPieces, Names
  <2> QED
    BY <2>1, <2>2, <2>3 DEF Types
<1>2. FileInv'
  BY <1>0 DEF Fields, Types, FileInv
<1>3. WriterInv'
  <2>2. \A b \in Actors : b # Worker => pc'[b] = pc[b]
    BY DEF Types
  <2>3. pc'[Worker] \in {"store results", "names"} /\ pc[Worker] \in {"store runs", "store results"}
    BY DEF Types
  <2>4. UNCHANGED <<writer, view, seen>> /\ writer = NoOne
    OBVIOUS
  <2> HIDE DEF Storing, StoreRuns, StoreResults
  <2> QED
    BY <1>8, <2>2, <2>3, <2>4 DEF WriterInv, Writing
<1>4. ReadyInv'
  BY <1>0 DEF Fields, Types, ReadyInv, Ready, ControlPieces
<1>5. RetryInv'
  BY <1>0 DEF Fields, Types, RetryInv
<1> QED
  BY <1>1, <1>2, <1>3, <1>4, <1>5

\* The reads of a migration, which take no lock.
LEMMA LookingInv ==
  ASSUME Inv, NEW a \in Actors, SeeNames(a) \/ SeeColumns(a), UNCHANGED state
  PROVE  Inv'
<1> USE ActorsOK DEF Inv, SeeNames, SeeColumns, NothingToDo, At, Go, database, state
<1>0. file' = file \/ Fields(file', TRUE, file.rows, file.schema, file.odd)
  BY ThereTyped DEF Types
<1>1. Types'
  <2>1. file' \in File
    BY <1>0, FileTyped DEF Fields, Types, With, Pieces, RawPieces, ControlPieces
  <2>2. pc' \in [Actors -> Point]
    BY <1>0 DEF Fields, Types, Point, Names
  <2>3. view' \subseteq Pieces /\ seen' \in [Actors -> SUBSET Pieces]
    BY <1>0, FileTyped DEF Fields, Types, Pieces, RawPieces, ControlPieces, Names
  <2> QED
    BY <2>1, <2>2, <2>3 DEF Types
<1>2. FileInv'
  BY <1>0 DEF Fields, Types, FileInv, File, WriterInv
<1>8. file.schema \subseteq file'.schema /\ file'.odd = file.odd /\ (file.there => file'.there)
  BY <1>0 DEF Fields
<1>3. WriterInv'
  <2>1. \A b \in Actors : b # a => pc'[b] = pc[b] /\ seen'[b] = seen[b]
    BY DEF Types
  <2>2. pc'[a] \in {"columns", "begin", "migrated"} /\ pc[a] \in {"names", "columns"}
    BY DEF Types
  <2>3. UNCHANGED <<writer, view>> /\ writer # a
    BY <2>2 DEF WriterInv, Writing
  <2>4. file'.there /\ seen'[a] \subseteq file'.schema
    <3>1. CASE SeeNames(a)
      BY <3>1, ThereTyped DEF Fields, Types
    <3>2. CASE SeeColumns(a)
      BY <3>2 DEF WriterInv
    <3> QED
      BY <3>1, <3>2
  <2>5. file'.schema = file.schema
    BY <1>0 DEF Fields
  <2> HIDE DEF SeeNames, SeeColumns
  <2> QED
    BY <1>8, <2>1, <2>2, <2>3, <2>4, <2>5 DEF WriterInv, Writing
<1>4. ReadyInv'
  BY <1>0 DEF Fields, Types, WriterInv, ReadyInv, Ready, ControlPieces, Pieces, Names
<1>5. RetryInv'
  BY <1>0 DEF Fields, Types, RetryInv, Retrying, MigrationPoint
<1> QED
  BY <1>1, <1>2, <1>3, <1>4, <1>5

\* The statements between BEGIN and COMMIT.
LEMMA WritingInv ==
  ASSUME Inv, NEW a \in Actors, Begin(a) \/ Migrating(a), UNCHANGED state
  PROVE  Inv'
<1> USE ActorsOK DEF Inv, Begin, Migrating, Heal, Statement, MissingRaw, MissingTables, At, Go, database, state
<1>1. Types'
  <2>1. file' \in File
    BY FileTyped DEF Types, With, Pieces, RawPieces, ControlPieces
  <2>2. pc' \in [Actors -> Point]
    BY DEF Types, Point, Names
  <2>3. view' \subseteq Pieces /\ seen' \in [Actors -> SUBSET Pieces]
    BY FileTyped DEF Types, Pieces, RawPieces, ControlPieces, Names
  <2> QED
    BY <2>1, <2>2, <2>3 DEF Types
<1>2. FileInv'
  BY DEF Types, FileInv
<1>3. WriterInv'
  BY DEF Types, WriterInv, Writing, File, Pieces, ControlPieces, RawPieces
<1>4. ReadyInv'
  BY DEF Types, ReadyInv, Ready
<1>5. RetryInv'
  BY DEF Types, RetryInv, Retrying, MigrationPoint
<1> QED
  BY <1>1, <1>2, <1>3, <1>4, <1>5

\* The end of a transaction.
LEMMA EndingInv ==
  ASSUME Inv, NEW a \in Actors, Commit(a) \/ MigrationFails(a), UNCHANGED state
  PROVE  Inv'
<1> USE ActorsOK DEF Inv, Commit, MigrationFails, Rollback, InTransaction, Fault, At, Go, state
<1>0. file' = file \/ Fields(file', file.there, file.rows, view, file.odd)
  BY SchemaTyped DEF Types
<1>1. Types'
  <2>1. file' \in File
    BY <1>0, FileTyped DEF Fields, Types, With, Pieces, RawPieces, ControlPieces
  <2>2. pc' \in [Actors -> Point]
    BY <1>0 DEF Fields, Types, Point, Names
  <2>3. view' \subseteq Pieces /\ seen' \in [Actors -> SUBSET Pieces]
    BY <1>0, FileTyped DEF Fields, Types, Pieces, RawPieces, ControlPieces, Names
  <2> QED
    BY <2>1, <2>2, <2>3 DEF Types
<1>2. FileInv'
  BY <1>0 DEF Fields, Types, FileInv, WriterInv, Writing, MigrationPoint
<1>3. WriterInv'
  BY <1>0 DEF Fields, Types, WriterInv, Writing, MigrationPoint
<1>4. ReadyInv'
  <2>1. writer = a => file.schema \subseteq view
    BY DEF WriterInv
  <2>2. Ready => Ready'
    BY <1>0, <2>1 DEF Fields, Ready, WriterInv, Writing
  <2>3. Commit(a) => Ready'
    BY SchemaTyped DEF Fields, Types, WriterInv, Writing, Ready, ControlPieces
  <2>4. \A b \in Actors : pc'[b] \in {"migrated", "recovering"} => pc[b] = pc'[b] \/ Commit(a)
    BY DEF Types
  <2>5. UNCHANGED <<up, errors>>
    OBVIOUS
  <2> HIDE DEF Commit, MigrationFails, Ready
  <2>6. \A b \in Actors : pc'[b] \in {"migrated", "recovering"} => Ready'
    BY <2>2, <2>3, <2>4 DEF ReadyInv
  <2>7. up' /\ "migration" \notin errors' => Ready'
    BY <2>2, <2>5 DEF ReadyInv
  <2> QED
    BY <2>6, <2>7 DEF ReadyInv
<1>5. RetryInv'
  BY <1>0 DEF Fields, Types, RetryInv, Retrying, MigrationPoint
<1> QED
  BY <1>1, <1>2, <1>3, <1>4, <1>5

\* A migration, whoever runs it.
LEMMA MigrateInv ==
  ASSUME Inv, NEW a \in Actors, Migrate(a), UNCHANGED state
  PROVE  Inv'
  BY LookingInv, WritingInv, EndingInv DEF Migrate

\* The API starts and comes up; the worker goes round.
LEMMA ProcessInv ==
  ASSUME Inv, ApiStarts \/ ApiUp \/ (Restarting /\ UNCHANGED state)
  PROVE  Inv'
<1> USE ActorsOK DEF Inv, ApiStarts, ApiUp, Recovered, Fault, Restarting, At, Go, database, state
<1>1. Types'
  <2>1. file' \in File
    BY FileTyped DEF Types, With, Pieces, RawPieces, ControlPieces
  <2>2. pc' \in [Actors -> Point]
    BY DEF Types, Point, Names
  <2>3. view' \subseteq Pieces /\ seen' \in [Actors -> SUBSET Pieces]
    BY FileTyped DEF Types, Pieces, RawPieces, ControlPieces, Names
  <2>4. faults' \in Nat
    BY DEF Types
  <2>8. up' \in BOOLEAN
    BY Zenon DEF Types
  <2>6. writer' \in Actors \cup {NoOne} /\ retrying' \in Requests \cup {NoOne}
    BY DEF Types
  <2>7. errors' \subseteq {"migration", "recovery"} /\ answer' \in {"none", "served", "503"}
    BY DEF Types
  <2>5. since' \in 0..Interval /\ rested' \in 0..Interval
    BY DEF Types
  <2> QED
    BY <2>1, <2>2, <2>3, <2>4, <2>5, <2>6, <2>7, <2>8 DEF Types
<1>2. FileInv'
  BY DEF Types, FileInv
<1>3. WriterInv'
  BY DEF Types, WriterInv, Writing
<1>4. ReadyInv'
  BY DEF Types, ReadyInv, Ready
<1>5. RetryInv'
  BY DEF Types, RetryInv
<1> QED
  BY <1>1, <1>2, <1>3, <1>4, <1>5

\* A request, apart from the migration it may run.
LEMMA RequestInv ==
  ASSUME Inv, NEW r \in Requests,
         Arrive(r) \/ TryLock(r) \/ EndRetry(r) \/ Opened(r) \/ Answer(r)
  PROVE  Inv'
<1> USE ActorsOK DEF Inv, Arrive, TryLock, Again, EndRetry, Opened, Answer, GuardOpen, Recovered, Fault, At, Go, database, state
<1>0. file' = file \/ Fields(file', file.there, file.rows \cup {"ours"}, file.schema, file.odd)
  BY RowsTyped DEF Types
<1>1. Types'
  <2>1. file' \in File
    BY <1>0, FileTyped DEF Fields, Types, With, Pieces, RawPieces, ControlPieces
  <2>2. pc' \in [Actors -> Point]
    BY <1>0 DEF Fields, Types, Point, Names
  <2>3. view' \subseteq Pieces /\ seen' \in [Actors -> SUBSET Pieces]
    BY <1>0, FileTyped DEF Fields, Types, Pieces, RawPieces, ControlPieces, Names
  <2> QED
    BY <2>1, <2>2, <2>3 DEF Types
<1>8. file.schema \subseteq file'.schema /\ file'.odd = file.odd /\ (file.there => file'.there)
  BY <1>0 DEF Fields
<1>2. FileInv'
  <2>1. pc[r] # "off" => up
    BY DEF RetryInv
  <2>2. up /\ Evidence => file.there
    BY DEF FileInv
  <2>3. up'
    BY <2>1
  <2>4. pc[r] # "off" \/ up
    BY <2>1
  <2>5. ~file.there => ~Ready
    BY AbsentTyped DEF Fields, FileInv, Ready, ControlPieces
  <2>6. up /\ "migration" \notin errors => Ready
    BY DEF ReadyInv
  <2> HIDE DEF Ready
  <2>7. ~file'.there => file' = file
    BY <1>0, <2>1, <2>5, <2>6 DEF Fields
  <2> QED
    BY <2>2, <2>3, <2>4, <2>7, <1>8 DEF FileInv
<1>3. WriterInv'
  BY <1>0 DEF Fields, Types, WriterInv, Writing
<1>4. ReadyInv'
  <2>1. Ready => Ready'
    BY <1>8 DEF Ready
  <2>2. \A b \in Actors : pc'[b] \in {"migrated", "recovering"} => pc[b] \in {pc'[b], "migrated"} \/ Ready
    BY DEF Types, ReadyInv, RetryInv
  <2>3. up' /\ "migration" \notin errors' => Ready
    BY DEF ReadyInv
  <2> HIDE DEF Ready
  <2> QED
    BY <2>1, <2>2, <2>3 DEF ReadyInv
<1>5. RetryInv'
  BY <1>0 DEF Fields, Types, RetryInv, Retrying, MigrationPoint
<1> QED
  BY <1>1, <1>2, <1>3, <1>4, <1>5

\* Time passes or a process dies.
LEMMA TickCrashInv ==
  ASSUME Inv, Tick \/ Crash
  PROVE  Inv'
<1> USE ActorsOK DEF Inv, Tick, Crash, Dies, Fault, database, state
<1>1. Types'
  <2>1. file' \in File
    BY FileTyped DEF Types, With, Pieces, RawPieces, ControlPieces
  <2>2. pc' \in [Actors -> Point]
    BY DEF Types, Point, Names
  <2>3. view' \subseteq Pieces /\ seen' \in [Actors -> SUBSET Pieces]
    BY FileTyped DEF Types, Pieces, RawPieces, ControlPieces, Names
  <2>4. faults' \in Nat
    BY DEF Types
  <2>8. up' \in BOOLEAN
    BY Zenon DEF Types
  <2>6. writer' \in Actors \cup {NoOne} /\ retrying' \in Requests \cup {NoOne}
    BY DEF Types
  <2>7. errors' \subseteq {"migration", "recovery"} /\ answer' \in {"none", "served", "503"}
    BY DEF Types
  <2>5. since' \in 0..Interval /\ rested' \in 0..Interval
    BY DEF Types
  <2> QED
    BY <2>1, <2>2, <2>3, <2>4, <2>5, <2>6, <2>7, <2>8 DEF Types
<1>2. FileInv'
  BY DEF Types, FileInv
<1>3. WriterInv'
  BY DEF Types, WriterInv, Writing
<1>4. ReadyInv'
  BY DEF Types, ReadyInv, Ready
<1>5. RetryInv'
  BY DEF Types, RetryInv
<1> QED
  BY <1>1, <1>2, <1>3, <1>4, <1>5

\* Every step is one of these.
LEMMA Steps ==
  ASSUME [Next]_vars
  PROVE  \/ UNCHANGED vars
         \/ ApiStarts \/ ApiUp \/ (Restarting /\ UNCHANGED state)
         \/ Seeding(Api, "names") /\ UNCHANGED state
         \/ Seeding(Worker, "store runs") /\ UNCHANGED state
         \/ Storing(Worker) /\ UNCHANGED state
         \/ \E a \in Actors : Migrate(a) /\ UNCHANGED state
         \/ \E r \in Requests : Arrive(r) \/ TryLock(r) \/ EndRetry(r) \/ Opened(r) \/ Answer(r)
         \/ Tick \/ Crash
  BY ActorsOK DEF Next, ApiStep, WorkerStep, RequestStep, Restarting, Seeding, Storing

\* Every step preserves the invariant.
LEMMA NextInv == Inv /\ [Next]_vars => Inv'
<1> SUFFICES ASSUME Inv, [Next]_vars PROVE Inv'
  OBVIOUS
<1>1. CASE UNCHANGED vars
  BY <1>1 DEF Inv, Types, FileInv, WriterInv, ReadyInv, Ready, RetryInv, vars
<1>2. CASE ApiStarts \/ ApiUp \/ (Restarting /\ UNCHANGED state)
  BY <1>2, ProcessInv
<1>3. CASE Seeding(Api, "names") /\ UNCHANGED state
  BY <1>3, SeedingInv, ActorsOK
<1>4. CASE Seeding(Worker, "store runs") /\ UNCHANGED state
  BY <1>4, SeedingInv, ActorsOK
<1>5. CASE Storing(Worker) /\ UNCHANGED state
  BY <1>5, StoringInv
<1>6. CASE \E a \in Actors : Migrate(a) /\ UNCHANGED state
  BY <1>6, MigrateInv
<1>7. CASE \E r \in Requests : Arrive(r) \/ TryLock(r) \/ EndRetry(r) \/ Opened(r) \/ Answer(r)
  BY <1>7, RequestInv
<1>8. CASE Tick \/ Crash
  BY <1>8, TickCrashInv
<1> QED
  BY <1>1, <1>2, <1>3, <1>4, <1>5, <1>6, <1>7, <1>8, Steps

\* The invariant holds in every reachable state.
LEMMA Invariance == Spec => []Inv
  BY InitInv, NextInv, PTL DEF Spec
----------------------------------------------------------------------------

\* Every reachable state is well typed: one writer, who is in a transaction, and
\* a retrying request that is at work (migrate, retry_migration_if_failed).
THEOREM TypeCorrect == Spec => []StartupTypeOK
<1>1. Inv => StartupTypeOK
  BY ActorsOK DEF Inv, Types, WriterInv, RetryInv, StartupTypeOK, InTransaction, Writing, Retrying, MigrationPoint
<1> QED
  BY <1>1, Invariance, PTL

\* Whoever is past a migration, and every request of an API that remembers no
\* failed one, finds the whole control plane (migrate, migration_guard).
THEOREM ReadySafe == Spec => []ReadyHasControlPlane
<1>1. Inv => ReadyHasControlPlane
  BY DEF Inv, ReadyInv, Ready, ReadyHasControlPlane
<1> QED
  BY <1>1, Invariance, PTL

\* What a step does to the file: it grows, and appears with the seed in it.
FileStep ==
  /\ file.rows \subseteq file'.rows /\ file.schema \subseteq file'.schema
  /\ ~file.there /\ file'.there /\ Evidence => "evidence" \in file'.rows
  /\ file.odd => file'.schema \ file.schema \subseteq RawPieces \cup {"links"}

\* Every step is such a step.
LEMMA FileGrows == Inv /\ [Next]_vars => FileStep
<1> SUFFICES ASSUME Inv, [Next]_vars PROVE FileStep
  OBVIOUS
<1> USE ActorsOK DEF Inv, FileStep, At, Go
<1>1. CASE UNCHANGED file
  BY <1>1 DEF Types, File
<1>2. ASSUME NEW a \in Actors, NEW next \in {"names", "store runs"}, Seeding(a, next)
      PROVE  FileStep
  <2>1. file' = file \/ (file = Absent /\ file' = Seed)
    BY <1>2 DEF Seeding, Ensure, Copy, Link, Linked, database, FileInv
  <2> QED
    BY <2>1, <1>1, AbsentTyped, SeedTyped DEF Fields
<1>3. CASE Storing(Worker)
  <2>1. file.there \/ ~Evidence
    BY <1>3 DEF FileInv, Storing, StoreRuns, StoreResults
  <2>2. file.there \/ (file.schema = {} /\ file.rows = {} /\ ~file.odd)
    BY AbsentTyped DEF FileInv, Fields
  <2>3. {"runs", "links"} \subseteq Pieces /\ {"results"} \subseteq Pieces
    BY DEF Pieces, RawPieces, ControlPieces
  <2>4. \/ Fields(file', TRUE, file.rows, file.schema \cup {"runs", "links"}, file.odd)
        \/ Fields(file', TRUE, file.rows, file.schema \cup {"results"}, file.odd)
        \/ file' = file
    <3>1. file \in File
      BY DEF Types
    <3>2. file' \in {file, With({"runs", "links"}), With({"results"})}
      BY <1>3 DEF Storing, StoreRuns, StoreResults
    <3> QED
      BY <3>1, <3>2, <2>3, WithTyped
  <2> QED
    BY <2>1, <2>2, <2>4, <1>1 DEF Fields, RawPieces
<1>4. ASSUME NEW a \in Actors, SeeNames(a) PROVE FileStep
  BY <1>4 DEF SeeNames, FileInv, Types, File
<1>5. ASSUME NEW a \in Actors, Commit(a) PROVE FileStep
  BY <1>5 DEF Commit, WriterInv, Writing, Types, File
<1>6. ASSUME NEW a \in Actors, Migrate(a) PROVE FileStep
  BY <1>1, <1>4, <1>5, <1>6
  DEF Migrate, SeeColumns, Begin, Migrating, Heal, Statement, MigrationFails, Rollback, database
<1>7. ASSUME NEW r \in Requests, Answer(r) PROVE FileStep
  BY <1>7 DEF Answer, FileInv, RetryInv, Types, File
<1>8. ASSUME NEW r \in Requests, Arrive(r) \/ TryLock(r) \/ EndRetry(r) \/ Opened(r) PROVE FileStep
  BY <1>8, <1>1 DEF Arrive, TryLock, EndRetry, Opened, database
<1>9. CASE ApiStarts \/ ApiUp \/ Restarting \/ Tick \/ Crash \/ UNCHANGED vars
  BY <1>9, <1>1 DEF ApiStarts, ApiUp, Restarting, Tick, Crash, Dies, database, vars
<1> QED
  BY <1>2, <1>3, <1>6, <1>7, <1>8, <1>9, Steps

\* Rows are never lost, the seed appears whole, the schema only grows and an odd
\* control table is left alone, whoever races or dies (ensure_working_db, migrate).
THEOREM NothingLostEver == Spec => NothingLost
  BY FileGrows, Invariance, PTL DEF Spec, NothingLost, FileStep

\* What a step does to the retry lock: it is taken after a rest.
RetryStep == retrying' \notin {retrying, NoOne} => rested = Interval

\* Every step is such a step.
LEMMA RetryRests == Inv /\ [Next]_vars => RetryStep
<1> SUFFICES ASSUME Inv, [Next]_vars PROVE RetryStep
  OBVIOUS
<1> USE DEF RetryStep
<1>1. CASE retrying' \in {retrying, NoOne}
  BY <1>1
<1>2. ASSUME NEW r \in Requests, TryLock(r) PROVE RetryStep
  BY <1>2, ActorsOK DEF TryLock, Again, Inv, Types, RetryInv
<1>3. ASSUME NEW r \in Requests, Arrive(r) \/ EndRetry(r) \/ Opened(r) \/ Answer(r) PROVE RetryStep
  BY <1>3, <1>1 DEF Arrive, EndRetry, Opened, Answer, state
<1>4. CASE ApiStarts \/ ApiUp \/ Tick \/ Crash \/ UNCHANGED vars \/ UNCHANGED state
  BY <1>4, <1>1 DEF ApiStarts, ApiUp, Tick, Crash, state, vars
<1> QED
  BY <1>2, <1>3, <1>4, Steps

\* A retry begins no sooner than Interval after the last one ended, however many
\* requests saw the failure (retry_migration_if_failed).
THEOREM RetriesRest == Spec => RetriesSpaced
  BY RetryRests, Invariance, PTL DEF Spec, RetriesSpaced, RetryStep
=============================================================================
