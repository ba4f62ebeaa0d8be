--------------------------- MODULE EvaluationStore ---------------------------
(***************************************************************************)
(* The durable control plane of afa_api/jobs.py: the tables                *)
(* evaluation_jobs, evaluation_trials and runs, and every statement of     *)
(* jobs.py and worker.py that changes them.                                *)
(*                                                                         *)
(* One action here is one committed SQLite transaction.  A conditional     *)
(* UPDATE whose WHERE clause matches no row commits nothing, and is the    *)
(* second disjunct of its action.  Who executes these transactions, and in *)
(* which order, is the business of module EvaluationWorker.                *)
(***************************************************************************)
EXTENDS Naturals, FiniteSets

CONSTANTS
  NumJobs,   \* evaluations are numbered in the order of created_at, id
  NumPos,    \* requested positions of an evaluation, ordered by (task_id, idx)
  TaskOf     \* the task a position belongs to

ASSUME StoreAssumption ==
  /\ NumJobs \in Nat \ {0}
  /\ NumPos \in Nat \ {0}
  /\ TaskOf \in [1..NumPos -> Nat]

VARIABLES
  job,     \* evaluation_jobs: one row for each evaluation
  trial,   \* evaluation_trials: one row for each requested position
  saved    \* runs: how many raw rows carry this evaluation and position

storeVars == <<job, trial, saved>>

Jobs == 1..NumJobs
Pos  == 1..NumPos

\* The NULL of the columns owner_token, claim_token and run_id.  A token is
\* a fresh uuid4 in the code; here the tokens of a row are numbered by issue.
None  == 0
NoRun == <<0, 0, 0>>

Terminal   == {"succeeded", "failed", "canceled"}
Status     == {"absent", "queued", "running"} \cup Terminal
TrialState == {"pending", "claimed", "completed", "blocked"}
Evidence   == {"missing", "fresh", "reused", "unverifiable"}
Params     == {"verified", "unverifiable", "unreadable"}

JobRow   == [status: Status, cancel: BOOLEAN, owner: Nat, issued: Nat, params: Params]
\* A raw run: the evaluation and position it was published for, and its number.
RunId    == Nat \X Nat \X Nat
TrialRow == [state: TrialState, evidence: Evidence, claim: Nat,
             run: RunId]

PendingTrial == [state |-> "pending", evidence |-> "missing",
                 claim |-> None, run |-> NoRun]

StoreInit ==
  /\ job = [j \in Jobs |-> [status |-> "absent", cancel |-> FALSE,
                            owner |-> None, issued |-> 0, params |-> "verified"]]
  /\ trial = [j \in Jobs |-> [p \in Pos |-> PendingTrial]]
  /\ saved = [j \in Jobs |-> [p \in Pos |-> 0]]

\* The clause every write of an owner carries:
\* EXISTS (SELECT 1 ... status='running' AND owner_token=?).
Fenced(j, k) == job[j].status = "running" /\ job[j].owner = k

AllCompleted(j) == \A p \in Pos : trial[j][p].state = "completed"

Queued == {j \in Jobs : job[j].status = "queued"}

----------------------------------------------------------------------------
(* Creation.                                                               *)

InsertJob(j) ==
  job' = [job EXCEPT ![j].status = "queued"]

CreateFresh(j) ==
  /\ job[j].status = "absent"
  /\ InsertJob(j)
  /\ UNCHANGED <<trial, saved>>

\* Mutant: the source need not be complete.
ReusableAnyState(s, p) == trial[s][p].state # "blocked"

\* The source rows a reuse evaluation accepts: every position completed, its
\* evidence fresh or itself reused, its raw run stored.
Reusable(s, p) ==
  LET row == trial[s][p] IN
  /\ row.state = "completed"
  /\ row.evidence \in {"fresh", "reused"}
  /\ row.run # NoRun

\* Mutant: the raw run is copied under an identity of its own.
ReusedTrialCopy(run) == [state |-> "completed", evidence |-> "reused",
                         claim |-> None, run |-> <<run[1], run[2], run[3] + 1>>]
ReusedTrial(run) == [state |-> "completed", evidence |-> "reused",
                     claim |-> None, run |-> run]

CreateReuse(j, s) ==
  /\ job[j].status = "absent"
  /\ job[s].status # "absent"
  /\ job[s].params = "verified"
  /\ \A p \in Pos : Reusable(s, p)
  /\ InsertJob(j)
  /\ trial' = [trial EXCEPT ![j] = [p \in Pos |-> ReusedTrial(trial[s][p].run)]]
  /\ UNCHANGED saved

----------------------------------------------------------------------------
(* Ownership of an evaluation.                                             *)

ClaimJobToken(j) ==
  /\ job[j].status = "queued"
  /\ job[j].owner = None
  /\ job' = [job EXCEPT ![j].status = "running",
                        ![j].owner = job[j].issued + 1,
                        ![j].issued = @ + 1]
  /\ UNCHANGED <<trial, saved>>

\* Mutant: the terminal update leaves the token in the row.
MarkTerminalKeepsOwner(j, k, s) ==
  \/ Fenced(j, k) /\ job' = [job EXCEPT ![j].status = s] /\ UNCHANGED <<trial, saved>>
  \/ ~Fenced(j, k) /\ UNCHANGED storeVars

\* Mutant: the terminal update is not fenced by the token.
MarkTerminalUnfenced(j, k, s) ==
  job' = [job EXCEPT ![j].status = s, ![j].owner = None] /\ UNCHANGED <<trial, saved>>

\* Nothing but an owner of its own token ends a running evaluation.
MarkTerminal(j, k, s) ==
  \/ /\ Fenced(j, k)
     /\ job' = [job EXCEPT ![j].status = s, ![j].owner = None]
     /\ UNCHANGED <<trial, saved>>
  \/ ~Fenced(j, k) /\ UNCHANGED storeVars

\* The conditional update of recovery: the row is still the one that was read
\* before the owner lock was taken.
SameOwner(j, k) == job[j].status = "running" /\ job[j].owner = k

\* Mutant: a requeued evaluation keeps its claims.
ReopenClaimedNot(row) == row

ReopenClaimed(row) ==
  IF row.state = "claimed"
  THEN [row EXCEPT !.state = "pending", !.claim = None]
  ELSE row

\* Mutant: the requeued row keeps the token, so that no claim ever matches it.
RequeueKeepsOwner(j, k) ==
  /\ SameOwner(j, k) /\ job' = [job EXCEPT ![j].status = "queued"]
  /\ trial' = [trial EXCEPT ![j] = [p \in Pos |-> ReopenClaimed(trial[j][p])]]
  /\ UNCHANGED saved

RequeueUnlocked(j, k) ==
  /\ SameOwner(j, k)
  /\ job' = [job EXCEPT ![j].status = "queued", ![j].owner = None]
  /\ trial' = [trial EXCEPT ![j] = [p \in Pos |-> ReopenClaimed(trial[j][p])]]
  /\ UNCHANGED saved

Block(row) == [row EXCEPT !.state = "blocked", !.evidence = "unverifiable"]

BlockClaimed(row) ==
  IF row.state \in {"pending", "claimed"} THEN [Block(row) EXCEPT !.claim = None] ELSE row

FailUnverifiableRunningJob(j, k) ==
  /\ SameOwner(j, k)
  /\ job' = [job EXCEPT ![j].status = "failed", ![j].owner = None]
  /\ trial' = [trial EXCEPT ![j] = [p \in Pos |-> BlockClaimed(trial[j][p])]]
  /\ UNCHANGED saved

----------------------------------------------------------------------------
(* Requests of the user.                                                   *)

RequestCancel(j) ==
  /\ job[j].status \in {"queued", "running"}
  /\ job' = [job EXCEPT ![j].cancel = TRUE,
                        ![j].status = IF @ = "queued" THEN "canceled" ELSE @]
  /\ UNCHANGED <<trial, saved>>

\* The parameters are checked by the caller, before the update.
ResumableStatus == {"failed", "canceled", "queued"}

ReopenBlocked(row) ==
  IF row.state = "blocked" /\ row.evidence = "unverifiable"
  THEN [row EXCEPT !.state = "pending", !.evidence = "missing", !.claim = None]
  ELSE row

ResumeJob(j) ==
  /\ job[j].status \in ResumableStatus
  /\ job[j].owner = None
  /\ job' = [job EXCEPT ![j].status = "queued", ![j].cancel = FALSE]
  /\ trial' = [trial EXCEPT ![j] = [p \in Pos |-> ReopenBlocked(trial[j][p])]]
  /\ UNCHANGED saved

----------------------------------------------------------------------------
(* Trials.  A trial claim is a fresh uuid4 as well; because an owner claims *)
(* a position at most once, the owner's token number stands for it.         *)

CanClaimTrial(j, p, k) == trial[j][p].state = "pending" /\ Fenced(j, k)

ClaimTrial(j, p, k) ==
  /\ CanClaimTrial(j, p, k)
  /\ trial' = [trial EXCEPT ![j][p] = [@ EXCEPT !.state = "claimed", !.claim = k]]
  /\ UNCHANGED <<job, saved>>

\* Mutant: a result is published whoever holds the claim.
CanCompleteAnyClaim(j, p, k) == job[j].status = "running"

CanComplete(j, p, k) ==
  /\ trial[j][p].state = "claimed"
  /\ trial[j][p].claim = k
  /\ Fenced(j, k)

\* save_run(commit=False), complete_trial and commit: one transaction.
CompleteTrial(j, p, k) ==
  /\ CanComplete(j, p, k)
  /\ saved' = [saved EXCEPT ![j][p] = @ + 1]
  /\ trial' = [trial EXCEPT ![j][p] =
                 [state |-> "completed", evidence |-> "fresh",
                  claim |-> None, run |-> <<j, p, saved[j][p] + 1>>]]
  /\ UNCHANGED job

ReleaseClaim(j, p, k) ==
  \/ /\ trial[j][p].state = "claimed"
     /\ trial[j][p].claim = k
     /\ trial' = [trial EXCEPT ![j][p] = [@ EXCEPT !.state = "pending", !.claim = None]]
     /\ UNCHANGED <<job, saved>>
  \/ /\ ~(trial[j][p].state = "claimed" /\ trial[j][p].claim = k)
     /\ UNCHANGED storeVars

\* One UPDATE per task; S is the set of positions of the tasks blocked.
Blockable(row) == row.state # "completed"

MarkTrialsUnverifiable(j, S, k) ==
  \/ /\ Fenced(j, k)
     /\ trial' = [trial EXCEPT ![j] =
                    [p \in Pos |-> IF p \in S /\ Blockable(trial[j][p])
                                   THEN Block(trial[j][p]) ELSE trial[j][p]]]
     /\ UNCHANGED <<job, saved>>
  \/ ~Fenced(j, k) /\ UNCHANGED storeVars

----------------------------------------------------------------------------
(* Type and the safety of the stored evidence.                             *)

StoreTypeOK ==
  /\ job \in [Jobs -> JobRow]
  /\ trial \in [Jobs -> [Pos -> TrialRow]]
  /\ saved \in [Jobs -> [Pos -> Nat]]

\* The raw layer and the trial table agree: an evaluation never holds two raw
\* runs for one position, and it holds one exactly when the trial is completed
\* with fresh evidence pointing at it.  (complete_trial and save_run are one
\* transaction, fenced by the claim and by the owner.)
EvidencePublishedOnce ==
  \A j \in Jobs, p \in Pos :
    /\ saved[j][p] <= 1
    /\ saved[j][p] = 1 <=> trial[j][p].state = "completed" /\ trial[j][p].evidence = "fresh"
    /\ saved[j][p] = 1 => trial[j][p].run = <<j, p, 1>>

\* A reused trial points, through any chain of reuse, at the raw run of the
\* same position that the evaluation named as its origin itself published.
ReusedEvidenceIsGenuine ==
  \A j \in Jobs, p \in Pos :
    trial[j][p].evidence = "reused" =>
      \E o \in Jobs \ {j} : /\ trial[j][p].run = trial[o][p].run
                            /\ trial[o][p].run[1] = o
                            /\ trial[o][p].evidence = "fresh"
                            /\ saved[o][p] = 1

\* An evaluation has an owner exactly while it runs.  A queued row that kept a
\* token would be selected first by every poll and claimed by none; a terminal
\* row that kept one could never be resumed.
OwnerIffRunning ==
  \A j \in Jobs : job[j].owner # None <=> job[j].status = "running"

\* An evaluation that is reported as succeeded has evidence at every position.
SucceededIsComplete ==
  \A j \in Jobs : job[j].status = "succeeded" => AllCompleted(j)

\* Only a running evaluation has claimed positions: recovery and failure hand
\* every claim back, so that no position is lost to a later owner.
NoClaimLeftBehind ==
  \A j \in Jobs, p \in Pos :
    trial[j][p].state = "claimed" => job[j].status = "running"
=============================================================================
