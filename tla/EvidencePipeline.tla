-------------------------- MODULE EvidencePipeline --------------------------
(***************************************************************************)
(* From an agent's workspace to a row of the leaderboard, and the audit    *)
(* that says whether a task's rows mean anything.  Audits and runs share   *)
(* the task and nothing else, so a behaviour has the one or the other.     *)
(***************************************************************************)
EXTENDS EvidenceReaders, TaskAudit

storeVars == <<db, txn, saving>>
readerVars == <<board, attested>>
runVars == <<run, record, version, storeVars, readerVars>>
vars == <<pack, grading, faults, runVars, audit>>

Init == GradingInit /\ PipelineInit /\ StoreInit /\ ReadersInit /\ AuditInit

Running == audit.at = "none"
Auditing == record = [i \in Ids |-> NoRecord] /\ run = NoRun /\ board = Blank

Pipeline == Running /\ (Provision \/ Act \/ Capture \/ Score) /\ UNCHANGED <<storeVars, readerVars, audit>>
Store ==
  /\ BeginSave \/ Insert \/ InsertFails \/ EndSave \/ Commit \/ Rollback \/ Crash
  /\ UNCHANGED <<readerVars, audit>>
Readers ==
  /\ Running
  /\ \/ ReadManifest \/ LoadStores \/ FindRun \/ ReadTests \/ ReportEvaluation \/ Answer
     \/ BumpVersion \/ Damage
  /\ UNCHANGED audit
Audit == Auditing /\ (StartAudit \/ GradeNext \/ TakeReport \/ Conclude) /\ UNCHANGED runVars

Next == Pipeline \/ Store \/ Readers \/ Audit \/ (RunPytest /\ UNCHANGED <<runVars, audit>>)
Spec == Init /\ [][Next]_vars
----------------------------------------------------------------------------
EvidenceTypeOK ==
  /\ pack \in Packs /\ faults \in 0..MaxFaults /\ version \in 1..MaxVersion
  /\ grading.at \in {"idle", "regression", "hidden", "graded"} /\ grading.tries \in 0..Retries
  /\ run.at \in {"none", "acting", "acted", "grading", "scored", "refused", "saved"}
  /\ run.tree \in Tree /\ run.caller \in Callers
  /\ \A i \in Ids : record[i] = NoRecord \/ record[i].status \in {"valid", "timeout", "infra_failure", "agent_error"}
  /\ \A t \in DOMAIN Empty : db[t] \subseteq Ids /\ txn.work[t] \subseteq Ids
  /\ saving.at \in 0..Len(Tables) + 1 /\ board.view \in Views /\ attested \in BOOLEAN
  /\ audit.health \in {"unknown", "healthy", "provisional", "unverifiable", "needs_review", "invalid", "valid"}

Whole(rows) ==
  /\ rows.runs = rows.run_scores /\ rows.runs = rows.diffs
  /\ rows.test_results = {i \in rows.runs : record[i].results}
  /\ \A i \in rows.ours : record[i].caller = "worker" => i \in rows.runs
ShownRuns == board.passed \cup board.lost \cup board.voided
\* What is committed, and what a caller may go on with and commit after save_run
\* came back with success or failure, holds all of a run's evidence or none of
\* it, links no trial to a run that is not there, and a failed save cost the
\* caller nothing of its own.  Who asks for a run gets all of its tests.
RowsWholeOrNone ==
  /\ Whole(db)
  /\ saving.at = 0 /\ txn.open =>
       Whole(txn.work) /\ (run.caller = "embedding" => LastId \in txn.work.ours)
  /\ board.at = "shown" /\ board.view = "run" =>
       board.results = {i \in ShownRuns : record[i].results}

\* Whatever is shown as passed was work that keeps to what the task lets an agent
\* change and passes every test, done in time; benchmark evidence of the current
\* version only, and never the work of a mock whose evaluation says so.
CreditIsEarned ==
  board.at = "shown" =>
    \A i \in board.passed :
      /\ record[i].good /\ record[i].inTime
      /\ board.view \in {"benchmark", "real"} => record[i].by # "mock"
      /\ board.view # "report" => record[i].version = board.wanted

\* Whatever is shown as lost was not good work done in time, unless the suites
\* never came to a verdict; and a service out of reach is nobody's loss.
LossIsDeserved ==
  board.at = "shown" =>
    \A i \in board.lost :
      /\ record[i].good /\ record[i].inTime => ~record[i].tested
      /\ record[i].inTime => record[i].reached

Solves(tree) ==
  /\ tree.src \in Contents /\ tree.src \in pack.sound /\ pack.hidden[tree.src] = Hidden
  /\ Touched(CaptureDiff(tree)) # {} /\ ~ \E p \in Touched(CaptureDiff(tree)) : OutOfScope(p)
Judged(g) == ~g.regression.errored /\ ~g.hidden.errored
\* A task that is declared fit for use tells solutions from the rest: its reference
\* solves it, leaving it as it is does not, each control solves it exactly if its
\* control.json expects it to be accepted, and no relevant mutant of a healthy task
\* does, each as far as its own grading came to a verdict (run_noop_check takes one
\* that did not for a failure; _grade_control goes by the declared expectation).
HealthyTaskDiscerns ==
  audit.health \in {"healthy", "provisional", "valid"} =>
    /\ Solves(pack.reference) /\ "bug" \in pack.sound
    /\ Judged(First("noop")) => pack.hidden["bug"] # Hidden
    /\ \A g \in ToSet(audit.seen) : Judged(g) =>
         /\ g.check = "control" =>
              \A c \in pack.controls : c.tree = g.tree => (Solves(c.tree) <=> c.accept)
         /\ g.check = "mutant" /\ g.tree \notin pack.equivalent /\ audit.health = "healthy" => ~Solves(g.tree)
=============================================================================
