--------------------------- MODULE WorkingDatabase ---------------------------
(***************************************************************************)
(* The working database file while several processes start on it: seeded   *)
(* from the evidence by a hard link, given its raw tables by the runner's  *)
(* store and its control plane by a migration that runs under SQLite's own *)
(* write lock.  The schema is a set of pieces that only grows; an actor is *)
(* a process or a request of the API, and an action here is one step of    *)
(* one actor.                                                              *)
(***************************************************************************)
EXTENDS Naturals, FiniteSets

CONSTANTS
  Actors,
  Files,       \* the files the processes may start on
  Evidence,    \* whether the committed evidence is there to seed from
  MaxFaults    \* bound: crashes, refused locks and failing statements

RawPieces == {"runs", "results"}
ControlPieces == {"jobs", "trials", "columns", "links", "settings"}
Pieces == RawPieces \cup ControlPieces

Absent == [there |-> FALSE, rows |-> {}, schema |-> {}, odd |-> FALSE]
File == [there : BOOLEAN,
         rows : SUBSET {"evidence", "ours"},   \* what would be lost
         schema : SUBSET Pieces,
         odd : BOOLEAN]                        \* a control table of an unknown shape
\* The committed evidence: an older schema, and the rows of its runs.
Seed == [there |-> TRUE, rows |-> {"evidence"}, schema |-> {"runs", "results", "jobs"}, odd |-> FALSE]

NoOne == "nobody"

ASSUME DatabaseAssumption ==
  /\ Files \subseteq File /\ \A f \in Files : f.there \/ f = Absent
  /\ NoOne \notin Actors /\ Evidence \in BOOLEAN /\ MaxFaults \in Nat

VARIABLES
  file,     \* the committed content of the database
  writer,   \* who holds the write lock
  view,     \* of the writer: the schema inside its transaction
  pc,       \* of each actor: where it is
  seen,     \* of each actor: the pieces its check has seen
  faults

Point == {"off", "ensure", "copy", "link", "store runs", "store results",
          "names", "columns", "begin", "heal", "raw", "tables", "alter", "settings", "commit",
          "migrated", "recovering", "failed", "asked", "answering"}

Go(a, step) == pc' = [pc EXCEPT ![a] = step]
At(a, step) == pc[a] = step
Fault == faults < MaxFaults /\ faults' = faults + 1
InTransaction(a) == writer = a
database == <<file, writer, view, seen, faults>>

DatabaseInit ==
  /\ file \in Files /\ writer = NoOne /\ view = {} /\ faults = 0
  /\ pc = [a \in Actors |-> "off"] /\ seen = [a \in Actors |-> {}]
----------------------------------------------------------------------------
(* ensure_working_db: the snapshot is complete before it is linked, and a  *)
(* file that is there by then is left alone.                               *)

Ensure(a, next) ==
  /\ At(a, "ensure")
  /\ Go(a, IF file.there \/ ~Evidence THEN next ELSE "copy")
  /\ UNCHANGED database

Copy(a) ==
  /\ At(a, "copy") /\ Go(a, "link") /\ UNCHANGED database

\* Bug: the snapshot replaces what is there (os.replace).
Replaces == Seed
Linked == IF file.there THEN file ELSE Seed
Link(a, next) ==
  /\ At(a, "link") /\ Go(a, next)
  /\ file' = Linked /\ UNCHANGED <<writer, view, seen, faults>>
----------------------------------------------------------------------------
(* SqliteRunStore(path): CREATE IF NOT EXISTS, committed table by table.   *)

With(pieces) == [file EXCEPT !.there = TRUE, !.schema = @ \cup pieces]
StoreRuns(a) ==
  /\ At(a, "store runs") /\ writer = NoOne /\ Go(a, "store results")
  /\ file' = IF "runs" \in file.schema THEN file ELSE With({"runs", "links"})
  /\ UNCHANGED <<writer, view, seen, faults>>
StoreResults(a, next) ==
  /\ At(a, "store results") /\ writer = NoOne /\ Go(a, next)
  /\ file' = With({"results"})
  /\ UNCHANGED <<writer, view, seen, faults>>
----------------------------------------------------------------------------
(* migrate.  _schema_is_current reads piece by piece and takes no lock;    *)
(* connecting creates the file.                                            *)

Names == {"runs", "results", "jobs", "trials"}
SeeNames(a) ==
  /\ At(a, "names") /\ Go(a, "columns")
  /\ file' = [file EXCEPT !.there = TRUE]
  /\ seen' = [seen EXCEPT ![a] = file.schema \cap Names]
  /\ UNCHANGED <<writer, view, faults>>

\* Bug: the columns are not looked at.
NothingToDoByName(a) == Names \subseteq seen[a]
NothingToDo(a) == Names \subseteq seen[a] /\ Pieces \ Names \subseteq file.schema /\ ~file.odd
SeeColumns(a) ==
  /\ At(a, "columns")
  /\ Go(a, IF NothingToDo(a) THEN "migrated" ELSE "begin")
  /\ UNCHANGED database

\* BEGIN IMMEDIATE waits for the lock, up to busy_timeout; what another
\* initialiser committed meanwhile is looked at again.
Begin(a) ==
  /\ At(a, "begin") /\ writer = NoOne
  /\ writer' = a /\ view' = file.schema
  /\ Go(a, IF Pieces \subseteq file.schema /\ ~file.odd THEN "commit" ELSE "heal")
  /\ UNCHANGED <<file, seen, faults>>

\* The statements of _migrate_locked: nothing is dropped, a table of an unknown
\* shape refuses the whole migration.
Heal(a) ==
  /\ At(a, "heal") /\ ~file.odd /\ Go(a, "raw") /\ UNCHANGED database
Statement(a, from, to, pieces) ==
  /\ At(a, from) /\ Go(a, to) /\ view' = view \cup pieces
  /\ UNCHANGED <<file, writer, seen, faults>>
\* _ensure_raw_schema goes by the table runs alone.
MissingRaw == IF "runs" \in view THEN {} ELSE RawPieces \cup {"links"}
MissingTables == IF "jobs" \in view THEN {"trials"} ELSE {"jobs", "trials", "columns"}
Migrating(a) ==
  \/ Heal(a)
  \/ Statement(a, "raw", "tables", MissingRaw)
  \/ Statement(a, "tables", "alter", MissingTables)
  \/ Statement(a, "alter", "settings", {"columns", "links"})
  \/ Statement(a, "settings", "commit", {"settings"})

Commit(a) ==
  /\ At(a, "commit") /\ Go(a, "migrated")
  /\ file' = [file EXCEPT !.schema = view] /\ writer' = NoOne /\ view' = {}
  /\ UNCHANGED <<seen, faults>>

\* Bug: an error leaves the transaction open.
RollbackForgotten(a) == UNCHANGED <<file, writer, view>>

\* SQLite's DDL is transactional.
Rollback(a) ==
  /\ UNCHANGED file
  /\ IF InTransaction(a) THEN writer' = NoOne /\ view' = {} ELSE UNCHANGED <<writer, view>>

MigrationPoint == {"names", "columns", "begin", "heal", "raw", "tables", "alter", "settings", "commit"}
\* A lock that is not free in time, a full disk, and the refusal of an odd shape.
MigrationFails(a) ==
  /\ pc[a] \in MigrationPoint
  /\ IF At(a, "heal") /\ file.odd THEN UNCHANGED faults ELSE Fault
  /\ Go(a, "failed") /\ Rollback(a) /\ UNCHANGED seen

Migrate(a) ==
  SeeNames(a) \/ SeeColumns(a) \/ Begin(a) \/ Migrating(a) \/ Commit(a) \/ MigrationFails(a)
=============================================================================
