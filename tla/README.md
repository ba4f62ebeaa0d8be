# AgentForge Arena in TLA+

TLA+ models of AgentForge Arena: the durable queue of evaluations in SQLite and
the threads and processes that execute them; recovery after a crash; the event
tape and the page that follows it; the startup of several processes on one
database file; the way of a run from an agent's workspace to a row of a
leaderboard, and the audit of the tasks it is graded by; and the benchmark
campaign that drives the whole from outside with a ledger of its own.  The
modules are model-checked with TLC on small instances; the safety of the stored
evidence, of ownership, of the tape and its readers, of the startup, of the
published numbers and of the campaign, and the refinement of their abstract
specifications, are proved with TLAPS for every size of the system.

Paths below are relative to the repository root (`src/` in `PROJECT.json`).

## 1. Inventory

| Component | State it keeps | Operations | How it interacts |
|---|---|---|---|
| Control plane, `afa_api/jobs.py`, `db.py` | tables `evaluation_jobs`, `evaluation_trials`, `runs`, `job_events` | create (fresh, reuse), claim, claim/complete/release a trial, block, mark terminal, requeue, cancel, resume, append an event | one SQLite file in WAL mode, shared by all processes; every change is one conditional UPDATE or a short transaction |
| Worker, `afa_api/worker.py` | agents of the current evaluation; the rows it read at the start | `serve` (poll loop), `claim_and_run`, `dispatch_job`, `run_job` | claims rows, holds an owner lock (flock on a file in the temporary directory) while it executes |
| Seeding and migration, `db.py` | the working database file and its schema | `ensure_working_db`, `migrate` | every process that starts, under SQLite's write lock |
| Startup and recovery, `main.py`, `startup.py`, `projection.py`, `reclaim_stale_running` | `app.state.migrate_error`, `recovery_error`, the time of the last retry | migrate, recover, dispatch what was requeued, retry later, guard the routes | runs in every process when it starts, and in requests that find a failure |
| Routes, `routes_jobs.py` | per-connection cursor of the SSE stream | create, cancel, retry, resume, events, reads | commit, then start a dispatch thread |
| Read projections, `store_load.py`, `serialize.py`, `evidence.py`, `evaluation_report.py` | none | which runs count for which table | read the run store beside its writers |
| Web client, `web/src/lib` | events received, last seq, failures in a row | history drain, EventSource, poll fallback | reads events and status over HTTP |
| Runner, `runner/afa_runner` | workspace of one run | `run_once`, `grade`, `capture_diff`, `apply_diff` | called by the worker for each position |
| Run store, `runner/afa_runner/store.py` | four tables | `save_run`, `load_runs` | in the transaction of the worker, a script or an embedder |
| Kernel, `kernel/afa_kernel` | none | score a run, aggregate a group, rank | pure functions |
| Campaign launcher, `campaigns/afa_campaign/launcher.py`, `ledger.py`, `validate.py`, `cohort.py` | ledger: an entry for each cell, superseded and disowned evaluations | launch, adopt, wait, finalize, resume, supersede, disown | a client of the job API that reads its database too; one process at a time, under a lock |
| Campaign lifecycle, `lifecycle.py` | classifications, receipts, storage log, installed weights, the app of a smoke | pull, smoke, launch, receipt, classify, remove | under the same lock, except `remove_weights` |
| Campaign files, `manifest.py`, `analysis.py`, `release_data.py`, `status.py`, `cli.py` | files made from files | plan, analyse, publish | read accepted cells |
| Integrity, `integrity/afa_integrity` | reports | audit of task packs, mutation testing | grades with the runner's `grade` |
| Launcher, `afa_app.py`, `docker-compose.yml` | child processes | start API and worker | one host with one `/tmp`, or a container and a `/tmp` per process |

What is hard about it: an evaluation runs for minutes to hours between a claim
and its last commit; API threads and workers race for the same rows; any process
may die at any commit; recovery runs concurrently in every process that starts
and decides from rows read before it holds a lock; the lock that is to protect a
live owner is local to a host; writers of the event tape number their events
with `MAX(seq) + 1`; readers reconnect, page and decide when to stop.  Several
processes find one old database and migrate it.  A campaign of days is one
process that may be killed between a request and the ledger entry about it,
while users of the same app resume, cancel and clone what it submitted.  A
failure of the machine, of the model server or of an agent ends in the same
table of results, where only one of the three is the agent's.

What makes the components right:

* control plane: a position has evidence once, raw run and trial agree, a reused
  run is the one its origin published, an evaluation has an owner exactly while it
  runs, success means complete evidence and is final;
* worker and recovery: a live owner is not reclaimed, no claim is lost with a
  dead owner, every evaluation comes to an end;
* tape and readers: numbers are unique and dense, no event is lost, no reader sees
  a gap, a reader that stops has seen the end;
* startup: who is let in finds the control plane whole, no initialiser loses a
  row, what failed is made good without a restart and without a storm of retries;
* evidence: rows are stored whole or not at all, credit is earned, a loss is the
  agent's, versions and backends are not pooled, a task declared fit tells
  solutions from the rest;
* campaign: no submission is lost or doubled, an accepted cell rests on evidence
  nobody meddled with and is final, what the ledger disclosed stays true, weights
  and receipts outlive what needs them.

## 2. Modules

| Module | Models | Extends |
|---|---|---|
| `EvaluationStore` | the three tables and every transaction on them | |
| `EvaluationWorker` | runners, owner locks, recovery, routes, crashes, errors | `EvaluationStore` |
| `EvaluationSpec` | what an evaluation promises (abstract) | |
| `EvaluationRefinement` | the mapping from `EvaluationWorker` to `EvaluationSpec` | `EvaluationWorker` |
| `EvaluationEvents` | one evaluation's event tape, its writers, streams and pages | |
| `WorkingDatabase` | the database file: seeding, raw tables, migration | |
| `ApiStartup` | API, worker and requests that start, fail and retry on it | `WorkingDatabase` |
| `Grading` | difference, clean room, two suites, gates and score | |
| `RunPipeline` | `run_once`: agent, difference, status, record | `Grading` |
| `RunStore` | `save_run` in the transaction of its caller | `RunPipeline` |
| `EvidenceReaders` | evidence classes, aggregates, a run, a report | `RunStore` |
| `TaskAudit` | `run_audit`, `validate_task`, the verdict on a task | `Grading` |
| `EvidencePipeline` | the composition of the five | `EvidenceReaders`, `TaskAudit` |
| `CampaignService` | the app as a campaign sees it, its users, the world | |
| `CampaignLedger` | entries, acceptance, supersede, disown | `CampaignService` |
| `CampaignLauncher` | launch, wait, finalize, resume; kills; late requests | `CampaignLedger` |
| `CampaignSpec` | what a ledger promises of each cell (abstract) | |
| `CampaignProperties` | properties, and mappings to `CampaignSpec` and `EvaluationSpec` | `CampaignLauncher` |
| `CampaignLifecycle` | pull, smoke, launch, receipt, classify, remove, with `CampaignSpec` for the cells | instance of `CampaignSpec` |
| `*Proofs` | theorems | the module proved about |
| `MC*` | values of constants | |

How they compose.  `EvaluationSpec` is the joint: the workers implement it
(`EvaluationProofs`), and the app that the launcher drives
(`CampaignService`) is one of its instances (`ServiceIsEvaluation`).
`CampaignSpec` is the other: the launcher implements it (`ImplementsCampaign`)
and the lifecycle commands are checked on top of it, `CampaignLifecycle` using
its actions for the cells.  Each level then needs only the abstract
specification of the one below.

### EvaluationStore

`job[j]` is a row of `evaluation_jobs` (status, cancel flag, owner token, and what
the strict parser makes of `params_json`: verified, unverifiable, or unreadable,
when `_job_from_row` can only show a placeholder).  `trial[j][p]` is a row of
`evaluation_trials`.  `saved[j][p]` counts the raw runs written for a position.
Tokens are uuid4 in the code; here the tokens of a row are numbered in the order
of issue, which keeps them distinct.  A trial claim has a uuid of its own; an
owner claims a position at most once, so the number of the owner's token stands
for it.  Evaluations are numbered in the order of `created_at, id`.

Each action is one committed transaction.  A conditional UPDATE that matches no
row is the second disjunct of its action, or the caller handles it.  The fence of
every owner's write (`EXISTS ... status='running' AND owner_token=?`) is `Fenced`.

### EvaluationWorker

`runner[r]` is a dispatch thread or polling worker inside `run_job`: the step it
is at, the evaluation, its token, the positions that were open when it read the
rows (`todo`), the position it is at.  `lock[x]` is a lock file, one for each
temporary directory and evaluation (`LockSpaceOf` says which directory a process
sees).  `rec[a]` is a sweep of `reclaim_stale_running`: the tokens it read before
it took any lock (`seen`), the row at hand, what it requeued.  `phase[q]` is a
process.  `dispatch` holds the evaluations a thread has been started for.

| Action | Code |
|---|---|
| `DispatchJob`, `ClaimNext` | `dispatch_job`, `claim_and_run`: claim a queued row |
| `TryOwnerLock` | `run_job` up to the lock: unreadable rows fail closed, a held lock ends the thread silently |
| `CheckOwner` | token check under the lock, strict parameters, read of the rows; a row that became unreadable since the first look reads as failed, and the runner goes away silently |
| `TouchOwner`, `CheckCancel`, `TaskDrifted`, `ClaimPosition` | the loop before a run |
| `Publish`, `RunRaises`, `GiveClaimBack` | `run_once`, the publishing transaction, rollback and release |
| `WrapUp`, `Terminate`, `ReleaseLock` | verdict, terminal update, lock |
| `RunnerError`, `SafetyNet` | a statement raises: handler, `finally`, safety net of `dispatch_job` |
| `Start`, `TryRecoveryLock`, `Decide`, `ReleaseRecoveryLock`, `FinishRecovery`, `RecoveryError`, `RetryRecovery` | `recover_stale_jobs` and `serve`'s startup, `_reclaim_one`, the retry of `projection.py` |
| `CreateAndDispatch`, `Cancel`, `Resume`, `ResumeRunning`, `FinishResume` | the routes |
| `Damage`, `Crash` | damaged parameters, death of a process |

Steps that are merged, and why nothing is lost: the status read of `run_job` with
the lock attempt (only a lost race differs, and the token check under the lock
follows); the UPDATEs of `_fail_unverifiable`, one per task, into one (all fenced
by the same token; no statement reads between them; `CheckOwner` may also end an
evaluation without blocking its trials, as for a lost snapshot); the token check
with the read of the rows, both under the lock.  Timestamps are left out: whether a row
is stale is a free choice for a resume, and startup recovery does not ask.
Between its read and its update, `owner_started_at` may be renewed only by a
runner that has the token, which is `OwnerAtWork` in `Decide`.

### EvaluationSpec and EvaluationRefinement

An evaluation is absent, open, stopped or succeeded, and each position is backed
by a run or not.  `Record` adds a new run to an open evaluation, `Create` may take
over the complete evidence of another, `Succeed` requires completeness and is
final, `Stop` and `Reopen` keep the evidence.  The mapping takes queued and
running to open, failed and canceled to stopped, and the run of a completed trial
to its evidence; every other step of the workers is a stutter.

### EvaluationEvents

`tape` is the set of committed rows.  An append is `ReadMax`, `Insert`, and after a
UNIQUE violation `Retry`: the failed INSERT leaves Python's implicit transaction
open with the write lock, so the second attempt cannot lose the race (the eight
attempts of the code are never used up).  Owners append first and commit the
status afterwards; recovery and resume commit first and append afterwards; a
queued evaluation is canceled without an event.  Recovery may act while the owner
is alive, as it may where lock files are not shared.

A stream of the server polls in two steps, events and then status, because
`connect_readonly` is in autocommit mode.  `Hooks` are pages (`useJobEvents`).  A
page begins in mode `history`: `drainJobEvents` reads the status first and then
pages until one is short.  A terminal status ends it; otherwise the page opens
the stream (mode `sse`) from the start, so the history is replayed and `Ingest`
drops what was seen, and it stops at an event that ends the evaluation unless
that is a replay.  A lost stream is opened again by the browser with the id last
received; after three failures in a row without a new event the page polls (mode
`poll`) by draining, until a terminal drain brings nothing new.  Mounting and
leaving a page, and a stream the browser gives up for good, are left out.
`Streams` (raw SSE clients) are used in `stream_close` only.

### WorkingDatabase and ApiStartup

`file` is the committed content of the database: whether it is there, whose rows
it holds, the pieces of its schema, and whether a control table has a shape
nobody knows.  `writer` holds SQLite's write lock with `view`, the schema inside
its transaction.  `pc[a]` is the step of an actor, which is the API starting up,
the worker, or a request.  `Ensure`, `Copy` and `Link` are `ensure_working_db`: a
complete snapshot is linked into place, and whatever is there by then is left
alone.  `SeeNames` and `SeeColumns` are the check without the lock, in two reads;
`Begin` to `Commit` is the transaction that checks again.  `MigrationFails` is
every way it may fail: a lock not got in time, a full disk, the refusal of an odd
shape; SQLite rolls its DDL back.  `StoreRuns` and `StoreResults` are the worker's
`SqliteRunStore`, whose `executescript` commits table by table.

`ApiUp` opens the API whether or not migration and recovery succeeded.  A request
that finds a failure older than the interval (`Arrive`) tries the retry lock
without waiting and checks again under it (`TryLock`); it migrates, opens the
routes (`Opened`), recovers and ends (`EndRetry`).  `Answer` is the guard.  A
process may die at any step.  The switch to WAL is merged with `Begin`; the
temporary file a killed seeding leaves behind, the guard of the evidence path
and the dispatch after a late recovery are left out; that
`_ensure_raw_schema` asks for the table `runs` only is in the model
(`MissingRaw`).

### Grading, RunPipeline, RunStore, EvidenceReaders, TaskAudit

Three representative files stand for a workspace: a source the agent may edit, a
protected suite and a `conftest.py`; each may be changed, replaced by something
that is no text, or deleted.  What a source does under the tests is data of the
task pack (`hidden`, `sound`, `broken`, `endless`).  `CaptureDiff`, `ApplyDiff` and
`OutOfScope` are `diffing.py` with the globs of a task; `Result` is one pytest
invocation in the clean room, where the suites are copied over what the diff put
in their place; `RunPytest` adds crashes and slow machines and the retries of
`grade`.  `Gate`, `FunctionalPass`, `Perfect`, `Nothing` are `score_run`; quality
evidence is never collected here, so the score is the gates times a weighted
fraction, compared with 0 and 1 exactly and never rounded.

`RunPipeline` is `run_once`.  A model may leave any of `Works` and then answer,
raise, or report that its server was out of reach; a mock writes the reference.
A record keeps what `save_run` is given, and ghost fields about what really
happened (`good`, `inTime`, `reached`, `tested`) that no code of the model reads:
the properties compare the tables with them.  `Provenance` is which provider a
run records and which one its evaluation asked for.  An embedder's calls follow
the contract that `tests/test_a3_boundaries.py` (530-600) puts on the store.

`RunStore` is `save_run`: four inserts inside a savepoint, in a transaction of
its own or its caller's; an insert may fail, and the process may die between any
two statements.  `EvidenceReaders` reads versions, runs and tests in separate
statements while tasks are bumped and runs are stored; `Classify` is the evidence
class, `LoadStores` the aggregates of a scope and a version, `FindRun` and
`ReadTests` one run, `ReportEvaluation` the report.  `Damage` makes the record of
the evaluations unreadable.

`TaskAudit` plans the gradings of an audit (`Plan`, `ValidatePlan`), lets `Grading`
do them one by one, and concludes (`Health`, `Validated`).  Audits and runs share
the pack and nothing else, so a behaviour of `EvidencePipeline` has the one or the
other.  `run_group` is `run_once` in a loop and has no action of its own; a forced
mutation audit is the mode `mutation`.  A control has a kind and, apart from it,
the verdict that `control.json` declares (`accept`): the check of a control compares
with the latter, the verdict on the task asks for the former.  Gradings of one tree
are compared as `outcome_fingerprint` does, which does not tell a suite that was
late from one that erred otherwise.  Coarser than the code: two controls with the
same overlay are graded once; a suite that errs has no results of single tests
(`Errored`), where the code keeps those of the tests that were collected; a `control.json` whose `expect` is neither word, with which an audit
ends in an exception, is left out.

### CampaignService, CampaignLedger, CampaignLauncher, CampaignProperties

`eval[e]` is an evaluation as the campaign reads it: the cell it is named for,
status, whether it was made of the pinned task, voids, the evaluations that ran
beside it (`shared`), how often it was resumed, and by whom (`outside`, a ghost).
`AppStep` is what the app does by itself; a canceled or failed evaluation may have
completed trials or not (`kept`).  `UserStep` is the web UI: an evaluation of one's
own, a retry that clones the campaign's name, a resume.  `WorldStep` changes the
model behind Ollama or a task pack, and back.

`ledger.entry[c]` is a saved entry; a change that was not saved has not happened,
so a save is one step.  `Assess` is the acceptance predicate of `validate.py`.
`Supersede` and `Disown` are commands of one save.

| Action of `CampaignLauncher` | Code |
|---|---|
| `Launch`, `Drain`, `Adopt`, `Plan` | `launch`: preflight, the drain of what an earlier process left, `_adopt_if_created`, the cells of the phase |
| `CreateExecuted`, `CreateRefused`, `CreateAnswered` | POST `/jobs` between the entry `submitting` and the evaluation id |
| `SettleResumes` | `_settle_resumes`: a request without outcome matched to an event of the app, or not |
| `WaitEnds`, `Watch` | `_wait`, `_watch`: sampled status, identity and concurrency |
| `FinalizeStopped`, `FinalizeSucceeded`, `Reject` | `_finalize`, and the rejection of what was resumed outside |
| `ResumeCell`, `ResumeExecuted`, `ResumeRefused`, `ResumeAnswered` | `resume_cell` |
| `Crash`, `LateRequest` | the process is killed; the app executes a request nobody waits for |

What is coarser than the code: the readings a launch makes of app, database and
model server before a decision are of one moment; the time windows by which
`_settle_resumes` matches are a free choice, and `guessed` marks an entry that
relied on it; the update and the `job_resumed` event of a resume are one step;
the branches for an evaluation that is missing on the app, for evidence that is
unverifiable and for modes other than fresh are folded into rejection or left
out.  A request of a killed launcher that creates an evaluation later (`origin`
"late") is untracked when its cell is not `submitting` any more, and the next
launch halts on it; a clone by a user may be adopted by its name when it is the
only candidate.

### CampaignSpec and CampaignLifecycle

A cell is none, submitting, in flight, halted or accepted.  One evaluation at a
time is submitted or reopened, only a halted cell is given up, accepted is final.

`CampaignLifecycle` takes these actions for the cells and adds what surrounds
them: `weights` (which models are installed, pinned or moved), `classified` (with
the accepted cells at that moment), `receipt` (the version named in the ledger,
the file, the versions kept beside it), `log` (removals), `app` (that of a smoke),
`holder` (the command that has the lock and its step).  `SpareAsk` and `SpareRemove`
are `remove_weights`, which runs without the lock on weights that no cell needs
(`Spare`).

Whether a phase is complete is more than its cells: `sound` stands for everything
else `validate_campaign` asks: that every evaluation of the campaign's name is the
ledger's, that task packs are unchanged, that the historical database is the pinned
one.  `Drift` takes it away at any moment and `Mend` gives it back, so completeness
comes and goes; a launch asks for it at its start and before each submission, a
resume for a part of it only, so here it may go on without.  A phase with a frozen
receipt may thus be classified, as `classify_model` allows.

A machine need not be empty: `Init` has any models installed, and `ByHand` installs,
replaces or removes weights outside the tooling.  `PullReuse` is `pull_model` on a
model that is there, which asks nothing else; its record is read by nobody, so
the step changes nothing here.  `beside` is a ghost: the pairs of targets that
somebody put together by hand, which the launcher only warns about.  Two things
are assumed of hands: they leave alone a model with a cell in flight in the ledger,
and one that a command is pulling or removing.  `Fault` kills a command between any
two steps, edits a receipt, or is `Drift` or `ByHand`.

Coarser than the code: `app` is one variable, so beside an app that was started and
not written down another smoke is prepared and not started; the copies of pulls
and removals in the ledger, which no command reads, and the storage inventory are
left out, and so is the printed status (its `_model_progress` counts succeeded
cells also when the database is missing).

## 3. Runs

`lifecycle` and `startup` check for deadlock.  The other configurations set
`CHECK_DEADLOCK FALSE`: with every bound used up the system may stop.

| Run | Instance | Checks | Distinct states |
|---|---|---|---|
| `host` | 1 evaluation of 2 tasks, thread + worker, shared locks, 1 crash of either, 1 error, 1 resume, damaged parameters | type, success, live owner, refinement | 1,166,503 |
| `compose` | 1 evaluation, 2 positions of a task, a lock directory per process, worker crash, 1 resume, damaged parameters | evidence, ownership, claims | 721,962 |
| `worker` | 3 evaluations of 1 position, fresh or reused, worker, 1 crash, one row damaged, fair | reuse chains, refinement, every evaluation settles | 197,468 |
| `follow` | tape of 1 owner, recovery and resume; 1 page through history, stream and polling, with pages of 2; 1 crash, 3 lost requests, fair | no event lost, no gap or repetition, the end is seen, the page ends | 388,211 |
| `campaign` | 2 cells, 2 evaluations, 1 resume each, launches with and without the code check, 2 disturbances | ledger, submissions, acceptance, both refinements | 1,302,732 |
| `lifecycle` | 2 models, any of them installed at first, 3 cells, 2 issues of a receipt, 2 faults | weights, targets, classification, receipts, smoke | 7,225,785 |
| `startup` | API, worker, 2 requests, 5 kinds of files, 2 faults, fair | ready means whole, nothing lost, spacing, healing | 262,842 |
| `evidence` | 1 run for 4 packs with 7 outcomes of a workspace, 3 callers, 2 versions, 2 faults; audits of 14 packs | rows, credit, losses, fitness of tasks | 2,404,834 |

`host` asks what holds on one machine, where a live owner's lock is seen by all;
`compose` what is left when it is not; `worker` whether work gets done, and what
chains of reuse rest on; `follow` what a user sees of it; `startup` what all of
them may rely on; `evidence` whether the numbers mean what they say; `campaign`
and `lifecycle` whether a benchmark of days can be trusted and repeated.

Bounds and why they suffice.  Two runners and one recovery are the least at which
an owner, its successor and the recovery between them exist; a third runner adds
no new pair of conflicting transactions.  Two positions distinguish "this position"
from "a completed one of the same evaluation"; with one task drift blocks both,
with two it blocks one.  Three evaluations allow a chain of reuse.  `MaxCrashes`,
`MaxResumes` and `MaxErrors` bound counters that have no limit in the code; one of
each is enough to take every error path, and the theorems below hold for every
value of them.  In `follow`, `MaxEvents` and the page limit of two let a drain
read a full page and have to ask for another, and three lost requests are what it
takes to fall back to polling.  In `campaign`, two cells distinguish the cell at
hand from the next, two evaluations a submission from a clone or another's, and
two disturbances pair a kill with an act of a user or of the world; the theorems
lift all of them.  In `lifecycle`, the model with two cells can be classified
after results, and two faults pair a loss of completeness, or a model installed
by hand, with a kill.  In `startup`, two requests race for one retry, and two faults let
both a startup and its retry fail.  In `evidence`, one run at a time meets one
reader; the packs are one as it should be and thirteen that differ from it, three
of them in what a control declares (`MCEvidence`), agents are set to work on the four of them that differ in what
may be edited, in weights and in the reference.

Four runs show a disagreement between the code and what its own text says; each
is a finding of `PROJECT.json`:

* `abandoned`: a resume request probes the owner lock just when a dispatch thread
  that has claimed the evaluation tries to take it; the thread ends silently and
  the evaluation stays running (`worker.py:233-235` against the comment at 522).
* `compose_reclaims`: in separate containers the owner lock excludes nobody, and
  startup recovery reclaims a live owner (`jobs.py:83-91` against 1180-1182).  The
  run `compose` shows that the evidence is safe nevertheless.
* `claim_left`: an error while a claim is given back leaves the position claimed
  on a failed evaluation, and resume does not reopen it (`worker.py:433-436`
  against 469-470).
* `stream_close`: the stream closes on a status read after the events and may leave
  the last ones undelivered (`routes_jobs.py:271-302` against 247-249).

What the passing runs also say of the code, without a text they contradict: an
agent that raises after it left a correct solution is credited with it; an
aggregate in the scope `benchmark` takes runs without an evaluation and without a
provider, which are those of before there was provenance; a suite that never came
to a verdict is counted as a loss (the exception in `LossIsDeserved`); an evaluation
whose row becomes unreadable between its runner's two looks at it stays running in
the database (the exception in `EveryEvaluationSettles`); a phase whose receipt is
frozen can be classified once something makes it incomplete (`ReceiptIsFrozen`
therefore speaks of its accepted cells, which stay).

## 4. Fairness

`EvaluationWorker!Fairness`: threads that have work are scheduled; `run_once` ends,
because requests to models and the sandbox carry timeouts; the poll loop of `serve`
goes on; a process that is down is started again (`restart: unless-stopped` in
`docker-compose.yml`, the user elsewhere).  Weak fairness is enough: an action of a
runner stays enabled until the runner takes it.  No fairness is assumed of users,
errors, drift or crashes.  `worker` sets auto-dispatch off (no dispatch
threads): with threads the finding `abandoned` is a counterexample.

`EvaluationEvents!FairSpec`: the server's loop and the browser's timer go on.
Nothing is assumed of writers; the property is about evaluations that come to
rest.

`ApiStartup!Fairness`: time passes; the API, the worker and requests go on; a dead
API is started again; requests keep coming, since the retry is theirs.  Strong
fairness is assumed of `Begin`, because SQLite's busy handler polls for up to five
seconds a lock that others hold for milliseconds, and of `TryLock`, because the
retry lock is held by others only while they retry: a page that polls comes
again.  Nothing is assumed of faults; `MaxFaults` ends them.

No liveness of the launcher is stated: it waits for operators by design.

## 5. What is proved

For all values of the constants, under the assumptions the modules name
(`StoreAssumption`, `WorkerAssumption`, `EventsAssumption`, `DatabaseAssumption`,
`StartupAssumption`, `GradingAssumption`, `PipelineAssumption`,
`ReadersAssumption`, `AuditAssumption`, `CampaignAssumption`,
`LauncherAssumption`, `LifecycleAssumption`): names differ, bounds are naturals, a
plan is a set of cells and not empty, a pack has the fields of a pack and finitely
many controls and mutants.  Every invariant and every action property of the
passing runs is a theorem, and so are both refinements.

| Module | Theorem | States |
|---|---|---|
| `EvaluationProofs` | `TypeCorrect`, `EvidenceSafe`, `ReuseSafe`, `OwnershipSafe`, `SuccessSafe` | `TypeOK`, `EvidencePublishedOnce`, `ReusedEvidenceIsGenuine`, `OwnerIffRunning`, `SucceededIsComplete` are invariants |
| | `EvaluationImplemented` | `Spec => ImplementsEvaluation` |
| `EvaluationOwnershipProofs` | `LiveOwnersKept`, `OneExecutor` | with `SharedLocks`: `LiveOwnerNeverReclaimed`; no two runners execute one evaluation |
| | `ClaimsSafe` | `NoClaimLeftBehind` as long as no statement has failed |
| `EvaluationEventsProofs` | `TapeSafe`, `EventsTyped`, `ReadersHoldThePrefix`, `PagesSeeTheEnd` | `NoEventLost`, `EventsTypeOK`, `NoGapNoRepeat`, `DrainSawTheEnd` |
| `ApiStartupProofs` | `TypeCorrect`, `ReadySafe`, `NothingLostEver`, `RetriesRest` | `StartupTypeOK`, `ReadyHasControlPlane`; the action properties `NothingLost`, `RetriesSpaced` |
| `EvidenceProofs` | `EvidenceTyped`, `RowsSafe`, `LossSafe` | `EvidenceTypeOK`, `RowsWholeOrNone`, `LossIsDeserved` |
| | `CreditSafe` | with `SuiteIsNotForged`: `CreditIsEarned` |
| | `AuditSafe` | with `OracleIsNotForged`: `HealthyTaskDiscerns` |
| `CampaignProofs` | `TypeCorrect`, `LedgerSafe`, `SubmissionSafe`, `AcceptanceSafe`, `OutsideSafe`, `AcceptedSafe` | `CampaignTypeOK`, `LedgerWellFormed`, `SubmissionNeverLost`, `SucceededStaysAccepted`, `OutsideResumeNeverCredited`; the action property `AcceptedIsFinal` |
| `CampaignRefinementProofs` | `CampaignImplemented`, `ServiceImplemented` | `Spec => ImplementsCampaign`, `Spec => ServiceIsEvaluation` |
| `CampaignLifecycleProofs` | `TypeCorrect`, `RemovalSafe`, `ModelSafe`, `TargetsSafe`, `ClassificationSafe`, `ReceiptSafe`, `SmokeSafe` | all invariants of `lifecycle` |

Four theorems have a hypothesis besides the specification.  `SharedLocks`, every
process sees the same lock files, is what `jobs.py:83-91` rests on and what one
host gives; the run `compose_reclaims` shows that without it the statement is
false.  `ClaimsSafe` speaks of the states before the first failed SQLite
statement; `claim_left` shows one failure to be enough.  `SuiteIsNotForged` and
`OracleIsNotForged` say that no workspace of an agent, and neither the reference
nor a control of a pack, has a source that fails the regression suite and edits
tests that the task grades in place and lets be edited: what passes such a suite
nobody can tell, in the code or here.  The instance of `evidence` satisfies both.

**Workers.**  Nothing is assumed of `LockSpaceOf` but its domain: the theorems of
`EvaluationProofs` hold whether or not the lock files are shared, with crashes,
errors and resumes without bound.  `Inv` strengthens the properties by what they
rest on: types; an absent evaluation has pending trials only and no raw run; a row
is unowned or carries a token already issued; a runner between its verdict and its
terminal update that is about to write "succeeded" and still holds the fence works
on an evaluation that *is* complete.  The last part is what makes success safe
although the verdict is computed some commits earlier: completed positions never
become anything else (`CompletedStays`), so the verdict cannot go stale.  The first
part of the module shows what each transaction does to a row (`JobEffect`,
`OwnerEffect`, `TrialEffect`: a trial is kept, moved without touching evidence,
published, or created as a reuse) and that each effect preserves the store's part
of `Inv`.  The second shows that every step is one of these transactions or leaves
the store alone (`StepIsTransaction`), and then deals with the runners' part action
by action.  The refinement needs one thing more, that a completed position says
where its evidence came from (`CompletedHasEvidence`); then each transaction is one
step of `EvaluationSpec` or a stutter, `Succeed` by the invariant about verdicts and
`Create` by that about reuse.

**Ownership.**  `Turns` says what one step of the system does to the runners: one
begins with a token just issued, or those at work go on with what they have, or
end.  Hence `TokenInv`: no two runners of an evaluation have the same token, and
none has one that was not issued.  `LockInv`: from the step that takes the lock
file to the one that gives it back a runner, and likewise a recovery, is the holder
of it, and dies with its process.  With one set of lock files a recovery that may
decide (`Decide`) therefore meets no runner at work on the evaluation, which is
the step of `LiveOwnerNeverReclaimed` that could fail; two executors would both
hold the fence, and so the same token.  Claims need no locks (`ClaimInv`): a claimed
position is the owner's, and its runner, if it lives, is at that position; an
owner that is gone is still the owner of record, and recovery hands back all
claims when it requeues or ends the evaluation.

**Tape and readers.**  The invariant about writers: who retries is who holds the
write lock, so nobody else inserts meanwhile; a number that was read and not yet
used is at most one more than the events there are.  Hence an INSERT either takes
the next number or finds it taken, and the retry takes the next one.  `LastNumber`
is the fact about `MAX` over a dense set of numbers that makes it work.  Since the
numbers are 1 to `returned`, what is sorted by `InOrder` need not be unfolded: a
sequence that has the row `from + i` at place i is the only sorted one of its
elements, so pages, batches and what a reader holds are segments of the tape
(`Segment`), and `ReaderInv` says which segment each step of a reader works on:
the page begins after the last number held, a batch in delivery at or before it,
which is why a replay adds nothing.  `JobInv`: the event `job_done` is committed
before the status "succeeded", and a drain that read that status has yet to reach
the end of the tape it then saw.

**Startup.**  The invariant ties each step of a migration to what is in the
transaction's view by then (`WriterInv`), says that the view contains what is
committed, and that whoever is past a migration finds it done (`ReadyInv`): true
of the check without the lock because the schema only grows.  With evidence to
seed from, nobody is past the seeding while there is no file (`FileInv`), which
is why no initialiser creates an empty one in its place.  A retry is spaced
because the time since an attempt began is no longer than the time since one
ended (`RetryInv`), although the request that decides has read the former long
before.

**Evidence.**  Seven parts.  `RoomInv`: a verdict in the clean room is an outcome of
the machine, or what the suite says of the difference alone, however often it was
asked.  `RunInv`: what is graded is what the agent left, under the status of what
became of it.  `RecordInv`: a record is honest about its run (`Honest`), a pass
means good work in time, a loss in time a service that answered and no good work
that was tested.  `StoreInv`: while a save is at its k-th insert, the tables are
those of the savepoint and as much of this run as was inserted; what the savepoint
holds is complete and has all that is committed.  `BoardInv`: what is shown are
stored runs that passed or were lost, and nobody takes a run away between the
reads of a request.  `AuditInv`: what an audit has graded and will grade are trees
of the pack with what the suites may say of them, the snapshot and, if it can be
used, the reference are among them, and until the verdict nothing is concluded.
The verdict itself is `Concludes`: from a status "pass" of each check to what the
trees are, by the same facts about `Result` that the records need
(`ReferenceSolves`, `SnapshotFails`, `ControlsAreTold`, `MutantsAreTold`).

Proving this corrected the model twice.  `HealthyTaskDiscerns` asked of every
grading of the snapshot that came to a verdict that it fail; the step from the
no-op check could not be proved, and TLC showed why once a pack was added whose
hidden tests everything passes and that has no controls (`Pointless`): the hidden
suite of the no-op check times out once, which the check takes for a failure, and
the grading that the determinism check repeats passes.  The property now says of
the snapshot what its own check saw, if that came to a verdict (the hazard at
`noop.py:71`), and asks of a solution that it change something.  And `ReadTests` must
select the tests of the runs that were found, as the code does by run id; with one
run in the instance the difference did not show.

**Campaign.**  Six parts besides the types.  `EntryInv`: an entry has an evaluation
exactly when its state says so, and one of its cell.  `KnownInv`: the ledger
passes its own check and knows only what exists.  `StepInv`: where the process is
fixes the state its entry has, and before a POST every evaluation the launcher
ever created for the cell is known, so that afterwards exactly one is not; this is
what `SubmissionNeverLost` needs when the process is killed there.  `DrainInv`:
the drain has passed every cell in flight, so a plan submits when nothing else
is, which is the step of the refinement that could fail.  `ResumeInv`: resumes
credited to the tooling and those sent from outside together are at most those
that happened, unless one was guessed; with the validator's demand that there be
no more than were credited, none came from outside.  `Keeps` says once what no
step of the app, a user or the world does to an evaluation: it never takes
success back, never adds an overlap to one that ended alone, never forgets a
resume.  Each action of the launcher then has its lemma.

**Lifecycle.**  The holder's step says what is still true when it goes on
(`RemovalInv`, `PullInv`, `ReceiptInv`).  None of it may rest on completeness, which
others can take away between two steps: what a command found complete it may
later rely on only for its accepted cells (`AllAccepted`), which no command takes
back, or for a receipt the ledger names (`Done`).  `WorkInv`: nothing of a classified
model is under way, so classification stays true.  `PullInv` is why no pull makes
two unfinished targets: whatever is installed beside the one that is pulled is done
with, or came by hand while the pull ran and is in `beside`.  A receipt in the
making has a number left, and its predecessor was set aside before it is written.

Only model-checked: liveness (`EveryEvaluationSettles`, `ReadersClose`,
`FailuresHeal`), which is out of reach of the prover, as is `ENABLED` in the
fairness it rests on; and the counterexamples of the four runs that expect one.

## 6. Not modelled

* Control plane: counters and timestamps of an evaluation, pagination of lists,
  settings and other one-row writes.  A dispatch that fails after a recovery.
* API: statistics, ordering and layout over the runs an aggregate takes; HTTP
  parsing; HTML.
* Kernel: Wilson intervals, ranking and domain scores, which are real arithmetic
  over the sets of runs the model chooses.
* Runner: the isolation of the sandbox, the requests of the model clients and the
  parsing of answers; what an agent may leave behind is data.
* Integrity: how mutants are generated, the isolation probe (it has no say in the
  verdict), reports.
* Campaign: `manifest.py`, `analysis.py`, `release_data.py`, `cli.py` and
  `status.py` make files from files and keep no state; what they must not take is
  what `AcceptedIsFinal` and `SucceededStaysAccepted` say of the cells they read.
* Web client: the pages other than the one that follows an evaluation; building
  and serving the UI.
* The event tape has no property for the event a stale owner appends unfenced, a
  worker's poll loop none for an exception before its own handler: no text of the
  repository says what should happen.

`PROJECT.json` lists each component with its status, and with every hazard the
properties that cover it or why none does.

## 7. Plan

1. Proofs: that a succeeded evaluation of `EvaluationSpec` keeps its evidence, and
   an accepted cell of `CampaignSpec` its evaluation, as theorems of the abstract
   specifications, so that what is above them need not open the detailed ones.
2. `EvaluationCounters`: `refresh_counters` between concurrent refreshes.
3. Two runs at once in `evidence`, once the statements of `save_run` can be told
   to be independent of the reader's.
4. Liveness of a launch that nobody disturbs.
