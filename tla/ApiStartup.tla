----------------------------- MODULE ApiStartup ------------------------------
(***************************************************************************)
(* The API and the worker start together on one working database.  The API *)
(* comes up even when its migration or its recovery failed: it remembers   *)
(* the failure, answers 503 on the routes of the control plane, and lets   *)
(* requests retry the step, one at a time and not too often.               *)
(***************************************************************************)
EXTENDS WorkingDatabase

CONSTANTS
  Requests,    \* requests of the API in flight at once
  Interval     \* ticks between two attempts of a retry

Api == "api"
Worker == "worker"

ASSUME StartupAssumption ==
  /\ Actors = {Api, Worker} \cup Requests /\ Api \notin Requests /\ Worker \notin Requests
  /\ Interval \in Nat \ {0}

VARIABLES
  up,        \* the API accepts requests
  errors,    \* app.state: the startup steps that failed
  retrying,  \* the request that holds the retry lock
  since,     \* ticks since migrate_retry_at
  rested,    \* ticks since the last attempt ended
  answer     \* the last answer of a guarded route

vars == <<file, writer, view, pc, seen, faults, up, errors, retrying, since, rested, answer>>
state == <<up, errors, retrying, since, rested, answer>>

StartupTypeOK ==
  /\ file \in File /\ writer \in Actors \cup {NoOne} /\ view \subseteq Pieces
  /\ \A a \in Actors : InTransaction(a) => pc[a] \in {"heal", "raw", "tables", "alter", "settings", "commit"}
  /\ up \in BOOLEAN /\ errors \subseteq {"migration", "recovery"}
  /\ retrying \in Requests \cup {NoOne}
  /\ retrying # NoOne => pc[retrying] \notin {"off", "asked"}
  /\ since \in 0..Interval /\ rested \in 0..Interval /\ answer \in {"none", "served", "503"}

Init ==
  /\ DatabaseInit /\ up = FALSE /\ errors = {} /\ retrying = NoOne
  /\ since = Interval /\ rested = Interval /\ answer = "none"
----------------------------------------------------------------------------
(* lifespan: ensure, migrate, recover; then requests.                      *)

ApiStarts ==
  /\ ~up /\ At(Api, "off") /\ Go(Api, "ensure")
  /\ errors' = {} /\ since' = Interval /\ rested' = Interval
  /\ UNCHANGED <<database, up, retrying, answer>>

\* recover_stale_jobs records its own failure and clears an earlier one.
Recovered(failed) == errors' = IF failed THEN {"recovery"} ELSE {}

ApiUp ==
  /\ ~up /\ up' = TRUE
  /\ \/ At(Api, "failed") /\ errors' = {"migration"} /\ UNCHANGED faults
     \/ At(Api, "migrated") /\ \/ Recovered(FALSE) /\ UNCHANGED faults
                               \/ Recovered(TRUE) /\ Fault
  /\ Go(Api, "off")
  /\ UNCHANGED <<file, writer, view, seen, retrying, since, rested, answer>>

ApiStep ==
  \/ ApiStarts \/ ApiUp
  \/ /\ Ensure(Api, "names") \/ Copy(Api) \/ Link(Api, "names") \/ Migrate(Api)
     /\ UNCHANGED state

\* serve: the store, the migration, and polls that each migrate again.  A
\* migration that fails ends the process, and another is started; one that
\* fails in a poll is passed over.
WorkerStep ==
  /\ UNCHANGED state
  /\ \/ At(Worker, "off") /\ Go(Worker, "ensure") /\ UNCHANGED database
     \/ Ensure(Worker, "store runs") \/ Copy(Worker) \/ Link(Worker, "store runs")
     \/ StoreRuns(Worker) \/ StoreResults(Worker, "names") \/ Migrate(Worker)
     \/ At(Worker, "migrated") /\ Go(Worker, "names") /\ UNCHANGED database
     \/ At(Worker, "failed") /\ (Go(Worker, "off") \/ Go(Worker, "names")) /\ UNCHANGED database
----------------------------------------------------------------------------
(* migration_guard and retry_migration_if_failed.                          *)

Arrive(r) ==
  /\ up /\ At(r, "off")
  /\ Go(r, IF errors # {} /\ since >= Interval THEN "asked" ELSE "answering")
  /\ UNCHANGED <<database, state>>

\* Bugs: what was checked before the lock is not checked again; a recovery
\* that failed is not retried.
AgainBlind == TRUE
AgainMigration == "migration" \in errors /\ since >= Interval
Again == errors # {} /\ since >= Interval
TryLock(r) ==
  /\ At(r, "asked")
  /\ IF retrying = NoOne /\ Again
     THEN /\ retrying' = r /\ since' = 0
          /\ Go(r, IF "migration" \in errors THEN "names" ELSE "recovering")
     ELSE Go(r, "answering") /\ UNCHANGED <<retrying, since>>
  /\ UNCHANGED <<database, up, errors, rested, answer>>

EndRetry(r) ==
  /\ retrying = r /\ retrying' = NoOne /\ since' = 0 /\ rested' = 0 /\ Go(r, "answering")
  /\ \/ At(r, "failed") /\ errors' = errors \cup {"migration"} /\ UNCHANGED faults
     \/ At(r, "recovering") /\ \/ Recovered(FALSE) /\ UNCHANGED faults
                               \/ Recovered(TRUE) /\ Fault
  /\ UNCHANGED <<file, writer, view, seen, up, answer>>

\* The control plane is open before the recovery has ended.
Opened(r) ==
  /\ At(r, "migrated") /\ Go(r, "recovering")
  /\ errors' = errors \ {"migration"}
  /\ UNCHANGED <<database, up, retrying, since, rested, answer>>

GuardOpen == "migration" \notin errors
\* A guarded route: served, it may write.
Answer(r) ==
  /\ At(r, "answering") /\ Go(r, "off")
  /\ \/ ~GuardOpen /\ answer' = "503" /\ UNCHANGED file
     \/ GuardOpen /\ answer' = "served" /\ file' = [file EXCEPT !.rows = @ \cup {"ours"}]
  /\ UNCHANGED <<writer, view, seen, faults, up, errors, retrying, since, rested>>

RequestStep(r) ==
  \/ Arrive(r) \/ TryLock(r) \/ EndRetry(r) \/ Opened(r) \/ Answer(r)
  \/ Migrate(r) /\ UNCHANGED state

Tick ==
  /\ since < Interval \/ rested < Interval
  /\ since' = IF since < Interval THEN since + 1 ELSE since
  /\ rested' = IF rested < Interval THEN rested + 1 ELSE rested
  /\ UNCHANGED <<database, pc, up, errors, retrying, answer>>

\* A process dies: its transaction is undone, its requests are gone.
Dies(process) ==
  /\ Fault
  /\ pc' = [a \in Actors |-> IF a \in process THEN "off" ELSE pc[a]]
  /\ IF writer \in process THEN writer' = NoOne /\ view' = {} ELSE UNCHANGED <<writer, view>>
  /\ UNCHANGED <<file, seen>>
Crash ==
  \/ Dies({Worker}) /\ UNCHANGED state
  \/ /\ Dies({Api} \cup Requests)
     /\ up' = FALSE /\ errors' = {} /\ retrying' = NoOne /\ UNCHANGED <<since, rested, answer>>

Next ==
  ApiStep \/ WorkerStep \/ (\E r \in Requests : RequestStep(r)) \/ Tick \/ Crash

\* Time passes, every thread goes on, a dead API is started again, requests
\* keep coming, and a lock that is free again and again is got.
Fairness ==
  /\ WF_vars(Tick) /\ WF_vars(ApiStep) /\ WF_vars(WorkerStep) /\ SF_vars(Begin(Api) /\ UNCHANGED state)
  /\ \A r \in Requests :
       WF_vars(RequestStep(r)) /\ SF_vars(TryLock(r)) /\ SF_vars(Begin(r) /\ UNCHANGED state)

Spec == Init /\ [][Next]_vars /\ Fairness
----------------------------------------------------------------------------
\* Whoever is past a migration, and every request once the API is up and
\* remembers no failed one, finds the whole control plane committed, although
\* the check without the lock reads it piece by piece while others commit
\* (migrate, _schema_is_current, migration_guard).
ReadyHasControlPlane ==
  (\E a \in Actors : pc[a] = "migrated") \/ (up /\ "migration" \notin errors)
    => ControlPieces \cup {"runs"} \subseteq file.schema /\ ~file.odd

\* However many initialisers race or die: rows are never lost, the seed appears
\* whole and only where nothing was, the schema only grows, and control tables
\* of an unknown shape are left alone (ensure_working_db, _migrate_locked).
NothingLost ==
  [][/\ file.rows \subseteq file'.rows /\ file.schema \subseteq file'.schema
     /\ ~file.there /\ file'.there /\ Evidence => "evidence" \in file'.rows
     /\ file.odd => file'.schema \ file.schema \subseteq RawPieces \cup {"links"}]_vars

\* A retry begins no sooner than Interval after the last one ended, however
\* many requests found the failure at the same time (retry_migration_if_failed).
RetriesSpaced ==
  [][retrying' \notin {retrying, NoOne} => rested = Interval]_vars

\* Unless the database is refused, the API comes up and what failed at startup
\* is made good by requests, without a restart (retry_migration_if_failed).
FailuresHeal ==
  ~file.odd => <>[](up /\ errors = {})
=============================================================================
