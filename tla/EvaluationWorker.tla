--------------------------- MODULE EvaluationWorker ---------------------------
(***************************************************************************)
(* Who executes the transactions of EvaluationStore: the dispatch threads  *)
(* and request handlers of the API process, the polling worker processes,  *)
(* and the recovery each process runs when it starts (afa_api/worker.py,   *)
(* startup.py, routes_jobs.py and the recovery half of jobs.py).           *)
(*                                                                         *)
(* A step of an actor ends at each commit, lock operation or read whose    *)
(* result is used later, so actors interleave wherever the code lets them. *)
(* Any process may crash between two steps: its threads and its OS locks   *)
(* are gone, the database is not.                                          *)
(***************************************************************************)
EXTENDS EvaluationStore

CONSTANTS
  Api,          \* the API process
  Dispatchers,  \* its dispatch threads
  Pollers,      \* the polling workers, each a process with one runner
  Resumer,      \* the API's handler of POST /jobs/{id}/resume
  Free,         \* the holder of a lock nobody holds
  LockSpaceOf,  \* the temporary directory a process sees its lock files in
  Corruptible,  \* evaluations whose stored parameters may be damaged
  Crashable,    \* processes that may crash
  MaxCrashes, MaxResumes, MaxErrors   \* bounds on crashes, resumes, SQLite errors

Runners    == Dispatchers \cup Pollers
Procs      == {Api} \cup Pollers
Recoverers == Procs \cup {Resumer}
Spaces     == {LockSpaceOf[q] : q \in Procs}

ASSUME WorkerAssumption ==
  /\ Api \notin Runners
  /\ Resumer \notin Runners \cup {Api}
  /\ Free \notin Runners \cup Recoverers
  /\ Dispatchers \cap Pollers = {}
  /\ DOMAIN LockSpaceOf = Procs
  /\ MaxCrashes \in Nat /\ MaxResumes \in Nat /\ MaxErrors \in Nat

VARIABLES
  runner,    \* a dispatch thread or polling worker, inside run_job or idle
  lock,      \* the holder of each owner lock file
  phase,     \* down, recovering (reclaim_stale_running), up
  rec,       \* a recovery in progress
  dispatch,  \* evaluations handed to dispatch_job whose thread has not claimed
  budget     \* what is left of the bounds

workerVars == <<runner, lock, phase, rec, dispatch, budget>>
vars == <<job, trial, saved, runner, lock, phase, rec, dispatch, budget>>

Host(a)    == IF a \in Procs THEN a ELSE Api
Slot(a, j) == <<LockSpaceOf[Host(a)], j>>

\* The loop of _run_job_locked: the steps between the token check and the
\* terminal update.
Executing == {"touch", "check", "load", "run", "unclaim", "finish"}
RunnerStep == {"idle", "claimed", "locked", "failclosed", "handler",
               "escape", "net", "release"} \cup Executing

RunnerRow == [step: RunnerStep, job: Jobs \cup {0}, tok: Nat,
              todo: SUBSET Pos, at: Nat, fate: Terminal]
RecRow == [step: {"idle", "sweep", "decide", "release"}, seen: [Jobs -> Nat],
           job: Jobs \cup {0}, requeued: SUBSET Jobs, failed: BOOLEAN]

IdleRunner == [step |-> "idle", job |-> 0, tok |-> None, todo |-> {}, at |-> 0,
               fate |-> "failed"]
IdleRec == [step |-> "idle", seen |-> [j \in Jobs |-> 0], job |-> 0,
            requeued |-> {}, failed |-> FALSE]

Init ==
  /\ StoreInit
  /\ runner = [r \in Runners |-> IdleRunner]
  /\ lock = [x \in Spaces \X Jobs |-> Free]
  /\ phase = [q \in Procs |-> "down"]
  /\ rec = [a \in Recoverers |-> IdleRec]
  /\ dispatch = {}
  /\ budget = [crashes |-> MaxCrashes, resumes |-> MaxResumes, errors |-> MaxErrors]

\* The evaluation, position and token of a runner, and its next step.
J(r) == runner[r].job
K(r) == runner[r].tok
P(r) == runner[r].at
Step(r, s) == runner[r].step = s
Goto(r, s) == runner' = [runner EXCEPT ![r].step = s]
NextTrial(r) == runner' = [runner EXCEPT ![r].step = "touch", ![r].at = @ + 1]
Finish(r, s) == runner' = [runner EXCEPT ![r].step = "finish", ![r].fate = s]
Leave(r) == runner' = [runner EXCEPT ![r] = IdleRunner]

OnlyRunner == UNCHANGED <<lock, phase, rec, dispatch, budget>>

----------------------------------------------------------------------------
(* Claiming an evaluation.                                                 *)

StartRun(r, j) ==
  runner' = [runner EXCEPT ![r] = [IdleRunner EXCEPT !.step = "claimed", !.job = j,
                                                     !.tok = job[j].issued + 1]]

\* dispatch_job: a thread claims the evaluation it was started for, or ends.
DispatchJob(r, j) ==
  /\ r \in Dispatchers /\ phase[Api] = "up" /\ Step(r, "idle") /\ j \in dispatch
  /\ dispatch' = dispatch \ {j}
  /\ \/ ClaimJobToken(j) /\ StartRun(r, j)
     \/ job[j].status # "queued" /\ UNCHANGED <<storeVars, runner>>
  /\ UNCHANGED <<lock, phase, rec, budget>>

\* claim_and_run: the oldest queued evaluation.
ClaimNext(r, j) ==
  /\ r \in Pollers /\ phase[r] = "up" /\ Step(r, "idle")
  /\ j \in Queued /\ \A i \in Queued : j <= i
  /\ ClaimJobToken(j) /\ StartRun(r, j)
  /\ OnlyRunner

----------------------------------------------------------------------------
(* run_job.                                                                *)

TakeLock(a, j) == lock[Slot(a, j)] = Free /\ lock' = [lock EXCEPT ![Slot(a, j)] = a]
DropLock(a, j) == lock' = [lock EXCEPT ![Slot(a, j)] =
                             IF @ = a THEN Free ELSE @]

\* A held lock makes run_job return without a word.
TryOwnerLock(r) ==
  /\ Step(r, "claimed")
  /\ \/ /\ job[J(r)].params = "unreadable"
        /\ MarkTerminal(J(r), K(r), "failed") /\ Leave(r) /\ UNCHANGED lock
     \/ /\ job[J(r)].params # "unreadable"
        /\ UNCHANGED storeVars
        /\ \/ job[J(r)].status # "running" /\ Leave(r) /\ UNCHANGED lock
           \/ /\ job[J(r)].status = "running"
              /\ \/ TakeLock(r, J(r)) /\ Goto(r, "locked")
                 \/ lock[Slot(r, J(r))] # Free /\ Leave(r) /\ UNCHANGED lock
  /\ UNCHANGED <<phase, rec, dispatch, budget>>

\* Mutant: run_job reads the status under the lock, but not the token.
CheckOwnerStatusOnly(r) ==
  /\ Step(r, "locked") /\ job[J(r)].status = "running"
  /\ runner' = [runner EXCEPT
       ![r].step = "touch", ![r].at = 1,
       ![r].todo = {p \in Pos : trial[J(r)][p].state \in {"pending", "claimed"}}]
  /\ UNCHANGED storeVars /\ OnlyRunner

\* The token check under the lock, the strict check of the parameters, and the
\* one read of the trial rows the whole loop works from.  A row that became
\* unreadable after the first look reads as failed here: the runner leaves it as
\* it is, running.  A lost snapshot ends the evaluation without blocking a trial.
CheckOwner(r) ==
  /\ Step(r, "locked")
  /\ \/ /\ ~Fenced(J(r), K(r)) \/ job[J(r)].params = "unreadable"
        /\ Goto(r, "release") /\ UNCHANGED storeVars
     \/ /\ Fenced(J(r), K(r)) /\ job[J(r)].params = "unverifiable"
        /\ MarkTrialsUnverifiable(J(r), Pos, K(r)) \/ UNCHANGED storeVars
        /\ Goto(r, "failclosed")
     \/ /\ Fenced(J(r), K(r)) /\ job[J(r)].params = "verified"
        /\ runner' = [runner EXCEPT
             ![r].step = "touch", ![r].at = 1,
             ![r].todo = {p \in Pos : trial[J(r)][p].state \in {"pending", "claimed"}}]
        /\ UNCHANGED storeVars
  /\ OnlyRunner

\* touch_owner, and the rows that were completed or blocked when they were read.
TouchOwner(r) ==
  /\ Step(r, "touch") /\ P(r) <= NumPos
  /\ \/ ~Fenced(J(r), K(r)) /\ Goto(r, "release")
     \/ Fenced(J(r), K(r)) /\ P(r) \notin runner[r].todo /\ NextTrial(r)
     \/ Fenced(J(r), K(r)) /\ P(r) \in runner[r].todo /\ Goto(r, "check")
  /\ UNCHANGED storeVars /\ OnlyRunner

CheckCancel(r) ==
  /\ Step(r, "check")
  /\ IF job[J(r)].cancel THEN Finish(r, "canceled") ELSE Goto(r, "load")
  /\ UNCHANGED storeVars /\ OnlyRunner

\* The task's files no longer hash to what the snapshot froze.
TaskDrifted(r) ==
  /\ Step(r, "load")
  /\ MarkTrialsUnverifiable(J(r), {p \in Pos : TaskOf[p] = TaskOf[P(r)]}, K(r))
  /\ NextTrial(r) /\ OnlyRunner

ClaimPosition(r) ==
  /\ Step(r, "load")
  /\ \/ ClaimTrial(J(r), P(r), K(r)) /\ Goto(r, "run")
     \/ ~CanClaimTrial(J(r), P(r), K(r)) /\ UNCHANGED storeVars /\ NextTrial(r)
  /\ OnlyRunner

\* run_once has returned: publish, or find the claim lost and roll back.
Publish(r) ==
  /\ Step(r, "run")
  /\ \/ CompleteTrial(J(r), P(r), K(r)) /\ NextTrial(r)
     \/ ~CanComplete(J(r), P(r), K(r)) /\ UNCHANGED storeVars /\ Goto(r, "unclaim")
  /\ OnlyRunner

\* The agent, the sandbox or the grader raises.
RunRaises(r) ==
  Step(r, "run") /\ Goto(r, "unclaim") /\ UNCHANGED storeVars /\ OnlyRunner

GiveClaimBack(r) ==
  /\ Step(r, "unclaim")
  /\ ReleaseClaim(J(r), P(r), K(r)) /\ Goto(r, "handler") /\ OnlyRunner

\* Mutant: the wrap-up does not look at the trials.
VerdictIgnoresTrials(j) == IF job[j].cancel THEN "canceled" ELSE "succeeded"
\* Mutant: an incomplete evaluation is put back to queued.
VerdictRequeues(j) == IF job[j].cancel THEN "canceled"
                      ELSE IF AllCompleted(j) THEN "succeeded" ELSE "queued"
Verdict(j) == IF job[j].cancel THEN "canceled"
              ELSE IF AllCompleted(j) THEN "succeeded" ELSE "failed"

WrapUp(r) ==
  /\ Step(r, "touch") /\ P(r) > NumPos
  /\ Finish(r, Verdict(J(r))) /\ UNCHANGED storeVars /\ OnlyRunner

Terminate(r) ==
  /\ \/ Step(r, "finish") /\ MarkTerminal(J(r), K(r), runner[r].fate)
     \/ runner[r].step \in {"handler", "failclosed"} /\ MarkTerminal(J(r), K(r), "failed")
  /\ Goto(r, "release") /\ OnlyRunner

ReleaseLock(r) ==
  /\ runner[r].step \in {"release", "escape"}
  /\ DropLock(r, J(r))
  /\ IF Step(r, "escape") /\ r \in Dispatchers THEN Goto(r, "net") ELSE Leave(r)
  /\ UNCHANGED <<job, trial, saved, phase, rec, dispatch, budget>>

\* The safety net of dispatch_job; the polling loop has none.
SafetyNet(r) ==
  /\ Step(r, "net") /\ MarkTerminal(J(r), K(r), "failed") /\ Leave(r) /\ OnlyRunner

\* A statement raises sqlite3.Error: the transaction is rolled back.
OnError(s) ==
  CASE s \in {"touch", "check", "load", "finish"} -> "handler"
    [] s = "run"     -> "unclaim"
    [] s = "unclaim" -> "handler"
    [] s \in {"handler", "locked", "failclosed"} -> "escape"

RunnerError(r) ==
  /\ budget.errors > 0 /\ budget' = [budget EXCEPT !.errors = @ - 1]
  /\ \/ /\ runner[r].step \in Executing \cup {"handler", "locked", "failclosed"}
        /\ Goto(r, OnError(runner[r].step))
     \/ Step(r, "claimed") /\ r \in Dispatchers /\ Goto(r, "net")
     \/ Step(r, "claimed") /\ r \in Pollers /\ Leave(r)
     \/ Step(r, "net") /\ Leave(r)
  /\ UNCHANGED <<job, trial, saved, lock, phase, rec, dispatch>>

----------------------------------------------------------------------------
(* reclaim_stale_running.                                                  *)

Sweep(S) == [IdleRec EXCEPT
  !.step = "sweep",
  !.seen = [j \in Jobs |-> IF j \in S /\ job[j].status = "running"
                           THEN job[j].owner ELSE 0]]

\* A process starts: serve, or the lifespan of the API.
Start(q) ==
  /\ phase[q] = "down"
  /\ phase' = [phase EXCEPT ![q] = "recovering"]
  /\ rec' = [rec EXCEPT ![q] = Sweep(Jobs)]
  /\ UNCHANGED <<job, trial, saved, runner, lock, dispatch, budget>>

\* A live API tries an incomplete recovery again on a later request.
RetryRecovery ==
  /\ phase[Api] = "up" /\ rec[Api].step = "idle" /\ rec[Api].failed
  /\ rec' = [rec EXCEPT ![Api] = Sweep(Jobs)]
  /\ UNCHANGED <<job, trial, saved, runner, lock, phase, dispatch, budget>>

TryRecoveryLock(a, j) ==
  /\ rec[a].step = "sweep" /\ rec[a].seen[j] # 0
  /\ \/ TakeLock(a, j) /\ rec' = [rec EXCEPT ![a].step = "decide", ![a].job = j]
     \/ lock[Slot(a, j)] # Free /\ rec' = [rec EXCEPT ![a].seen[j] = 0]
        /\ UNCHANGED lock
  /\ UNCHANGED <<job, trial, saved, runner, phase, dispatch, budget>>

\* Some runner still works with the token of the evaluation's owner.  Between
\* the read of the row and the update it may have renewed owner_started_at.
OwnerAtWork(j) == \E r \in Runners : J(r) = j /\ K(r) = job[j].owner

\* _reclaim_one under the lock.  Startup (recover_unlocked) skips the test of
\* staleness, a resume request does not.
Decide(a) ==
  /\ rec[a].step = "decide"
  /\ LET j == rec[a].job  k == rec[a].seen[j] IN
     \/ /\ job[j].params # "unverifiable" /\ RequeueUnlocked(j, k)
        /\ rec' = [rec EXCEPT ![a].step = "release", ![a].requeued = @ \cup {j}]
     \/ /\ job[j].params = "unverifiable" /\ FailUnverifiableRunningJob(j, k)
        /\ rec' = [rec EXCEPT ![a].step = "release"]
     \/ /\ ~SameOwner(j, k) \/ OwnerAtWork(j) \/ a = Resumer
        /\ rec' = [rec EXCEPT ![a].step = "release"]
        /\ UNCHANGED storeVars
  /\ UNCHANGED <<runner, lock, phase, dispatch, budget>>

\* One row fails: it is rolled back and recorded, the sweep goes on.
RecoveryError(a) ==
  /\ rec[a].step = "decide"
  /\ budget.errors > 0 /\ budget' = [budget EXCEPT !.errors = @ - 1]
  /\ rec' = [rec EXCEPT ![a].step = "release", ![a].failed = TRUE]
  /\ UNCHANGED <<job, trial, saved, runner, lock, phase, dispatch>>

\* The lock is held for a while after the requeue has been committed.
ReleaseRecoveryLock(a) ==
  /\ rec[a].step = "release"
  /\ DropLock(a, rec[a].job)
  /\ rec' = [rec EXCEPT ![a].step = "sweep", ![a].job = 0,
                        ![a].seen = [@ EXCEPT ![rec[a].job] = 0]]
  /\ UNCHANGED <<job, trial, saved, runner, phase, dispatch, budget>>

SweepDone(a) == rec[a].step = "sweep" /\ \A j \in Jobs : rec[a].seen[j] = 0
EndRec(a)    == rec' = [rec EXCEPT ![a] = [IdleRec EXCEPT !.failed = rec[a].failed]]

\* recover_stale_jobs dispatches what it requeued; serve leaves it to its loop.
FinishRecovery(q) ==
  /\ SweepDone(q) /\ EndRec(q)
  /\ phase' = [phase EXCEPT ![q] = "up"]
  /\ dispatch' = IF q = Api THEN dispatch \cup rec[q].requeued ELSE dispatch
  /\ UNCHANGED <<job, trial, saved, runner, lock, budget>>

----------------------------------------------------------------------------
(* The routes of the API.  POST /jobs/{id}/retry creates like POST /jobs.  *)

Serving == phase[Api] = "up"

CreateAndDispatch(j) ==
  /\ Serving /\ \A i \in 1..(j - 1) : job[i].status # "absent"
  /\ CreateFresh(j) \/ \E s \in Jobs : CreateReuse(j, s)
  /\ dispatch' = dispatch \cup {j}
  /\ UNCHANGED <<runner, lock, phase, rec, budget>>

Cancel(j) ==
  Serving /\ ~job[j].cancel /\ RequestCancel(j) /\ UNCHANGED workerVars

SpendResume ==
  budget.resumes > 0 /\ budget' = [budget EXCEPT !.resumes = @ - 1]

Resume(j) ==
  /\ Serving /\ SpendResume /\ job[j].params = "verified"
  /\ ResumeJob(j) /\ dispatch' = dispatch \cup {j}
  /\ UNCHANGED <<runner, lock, phase, rec>>

ResumeRunning(j) ==
  /\ Serving /\ SpendResume /\ job[j].params = "verified"
  /\ job[j].status = "running" /\ rec[Resumer].step = "idle"
  /\ rec' = [rec EXCEPT ![Resumer] = Sweep({j})]
  /\ UNCHANGED <<job, trial, saved, runner, lock, phase, dispatch>>

FinishResume ==
  /\ SweepDone(Resumer) /\ EndRec(Resumer)
  /\ \/ \E j \in rec[Resumer].requeued :
          ResumeJob(j) /\ dispatch' = dispatch \cup {j}
     \/ /\ \A j \in rec[Resumer].requeued : job[j].status \notin ResumableStatus
        /\ UNCHANGED <<storeVars, dispatch>>
  /\ UNCHANGED <<runner, lock, phase, budget>>

----------------------------------------------------------------------------
(* The environment.                                                        *)

Damage(j) ==
  /\ j \in Corruptible /\ job[j].params = "verified" /\ job[j].status # "absent"
  /\ \E v \in {"unverifiable", "unreadable"} : job' = [job EXCEPT ![j].params = v]
  /\ UNCHANGED <<trial, saved>> /\ UNCHANGED workerVars

Crash(q) ==
  /\ q \in Crashable /\ phase[q] # "down"
  /\ budget.crashes > 0 /\ budget' = [budget EXCEPT !.crashes = @ - 1]
  /\ phase' = [phase EXCEPT ![q] = "down"]
  /\ runner' = [r \in Runners |-> IF Host(r) = q THEN IdleRunner ELSE runner[r]]
  /\ lock' = [x \in Spaces \X Jobs |->
                IF lock[x] # Free /\ Host(lock[x]) = q THEN Free ELSE lock[x]]
  /\ rec' = [a \in Recoverers |-> IF Host(a) = q THEN IdleRec ELSE rec[a]]
  /\ dispatch' = IF q = Api THEN {} ELSE dispatch
  /\ UNCHANGED storeVars

----------------------------------------------------------------------------

RunnerWork(r) ==
  \/ TryOwnerLock(r) \/ CheckOwner(r) \/ TouchOwner(r) \/ CheckCancel(r)
  \/ TaskDrifted(r) \/ ClaimPosition(r) \/ Publish(r) \/ RunRaises(r)
  \/ GiveClaimBack(r) \/ WrapUp(r) \/ Terminate(r) \/ ReleaseLock(r) \/ SafetyNet(r)

RecoveryWork(a) ==
  \/ \E j \in Jobs : TryRecoveryLock(a, j)
  \/ Decide(a) \/ ReleaseRecoveryLock(a)

Next ==
  \/ \E r \in Runners, j \in Jobs : DispatchJob(r, j) \/ ClaimNext(r, j)
  \/ \E r \in Runners : RunnerWork(r) \/ RunnerError(r)
  \/ \E q \in Procs : Start(q) \/ FinishRecovery(q) \/ Crash(q)
  \/ \E a \in Recoverers : RecoveryWork(a) \/ RecoveryError(a)
  \/ RetryRecovery \/ FinishResume
  \/ \E j \in Jobs : \/ CreateAndDispatch(j) \/ Cancel(j)
                     \/ Resume(j) \/ ResumeRunning(j) \/ Damage(j)

Spec == Init /\ [][Next]_vars

\* Threads that have work are scheduled, run_once ends (its requests and its
\* sandbox carry timeouts), and a process that is down is started again.
Fairness ==
  /\ \A r \in Runners : WF_vars(RunnerWork(r)) /\ WF_vars(\E j \in Jobs : ClaimNext(r, j))
  /\ \A r \in Dispatchers : WF_vars(\E j \in Jobs : DispatchJob(r, j))
  /\ \A a \in Recoverers : WF_vars(RecoveryWork(a))
  /\ \A q \in Procs : WF_vars(Start(q)) /\ WF_vars(FinishRecovery(q))
  /\ WF_vars(FinishResume)

FairSpec == Spec /\ Fairness

----------------------------------------------------------------------------
(* Properties.                                                             *)

TypeOK ==
  /\ StoreTypeOK
  /\ runner \in [Runners -> RunnerRow]
  /\ lock \in [Spaces \X Jobs -> Runners \cup Recoverers \cup {Free}]
  /\ phase \in [Procs -> {"down", "recovering", "up"}]
  /\ rec \in [Recoverers -> RecRow]
  /\ dispatch \subseteq Jobs
  /\ budget \in [crashes: Nat, resumes: Nat, errors: Nat]

\* A runner that has passed the token check keeps the ownership until it ends
\* the evaluation itself: recovery never reclaims a live owner.  It holds where
\* every process sees the same lock files.
LiveOwnerNeverReclaimed ==
  \A r \in Runners : runner[r].step \in Executing => Fenced(J(r), K(r))

\* An evaluation does not stay running with nobody at work on it: whoever left
\* it so, a restart or another attempt takes it up again or ends it.
NoPhantomOwner ==
  \A j \in Jobs :
    (job[j].status = "running") ~> (job[j].status # "running" \/ OwnerAtWork(j))

\* A row that became unreadable under its runner, which then let go of it
\* (_run_job_locked): running in the database until some process starts again.
LeftUnreadable(j) ==
  job[j].status = "running" /\ job[j].params = "unreadable" /\ ~OwnerAtWork(j)

\* Every evaluation that is queued or running comes to an end, through crashes and
\* damage of its row; the one exception is a row damaged so that it cannot be read,
\* which may be left running with nobody at work on it.
EveryEvaluationSettles ==
  \A j \in Jobs :
    (job[j].status \in {"queued", "running"}) ~> (job[j].status \in Terminal \/ LeftUnreadable(j))
=============================================================================
