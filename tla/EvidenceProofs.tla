---------------------------- MODULE EvidenceProofs ----------------------------
(***************************************************************************)
(* The evidence pipeline and the audits, for any packs, workspaces, tests, *)
(* weights, versions, faults and number of runs.                           *)
(*                                                                         *)
(* A grading's verdicts are those of the difference it carries (RoomInv),  *)
(* so a record tells what happened to its run (RecordInv); the rows of a   *)
(* save are the committed ones and as much of this run as was inserted     *)
(* (StoreInv); what is shown are stored runs, passed or lost (BoardInv);   *)
(* and an audit has seen what the suites say of trees of its pack          *)
(* (AuditInv), from which its verdict follows (Concludes).                 *)
(***************************************************************************)
EXTENDS EvidencePipeline, FiniteSetTheorems, SequenceTheorems, WellFoundedInduction, TLAPS

Statuses == {"valid", "timeout", "infra_failure", "agent_error"}
Suites == [passed : SUBSET (Hidden \cup {"regression"}), failed : SUBSET (Hidden \cup {"regression"}),
           errored : BOOLEAN, late : BOOLEAN]
GradingState(diff, regression, hidden) ==
  [at : {"idle", "regression", "hidden", "graded"}, diff : {diff}, status : Statuses,
   tries : 0..Retries, regression : {regression}, hidden : {hidden}]
RunState ==
  [at : {"none", "acting", "acted", "grading", "scored", "refused", "saved"}, tree : Tree,
   by : {"mock", "model"}, caller : Callers, version : 1..MaxVersion, late : BOOLEAN,
   outcome : {"ok", "errored", "infra"}]
RunRecord ==
  [status : Statuses, pass : BOOLEAN, voided : BOOLEAN, results : BOOLEAN, version : 1..MaxVersion,
   job : BOOLEAN, kind : {"mock", "model", "null"}, asked : {"mock", "model", "none"},
   caller : Callers, by : {"mock", "model"}, good : BOOLEAN, inTime : BOOLEAN,
   reached : BOOLEAN, tested : BOOLEAN]
Rows == [runs : SUBSET Ids, run_scores : SUBSET Ids, diffs : SUBSET Ids,
         test_results : SUBSET Ids, ours : SUBSET Ids]
BoardState ==
  [at : {"none", "manifest", "found", "shown"}, view : Views, wanted : 1..MaxVersion,
   passed : SUBSET Ids, lost : SUBSET Ids, voided : SUBSET Ids, historical : SUBSET Ids,
   excluded : SUBSET Ids, unaccounted : SUBSET Ids, results : SUBSET Ids]
Healths == {"unknown", "healthy", "provisional", "unverifiable", "needs_review", "invalid", "valid"}

Used == Ids \ Unused
\* Whoever edits tests that are graded in place, where the task lets them be
\* edited, could make them pass without a source that does.
Forges(p, tree) ==
  /\ p.visible /\ tree.tests = "edited" /\ tree.src \notin p.sound
  /\ "tests" \notin p.protected /\ (p.editable # {} => "tests" \in p.editable)
\* No agent does, nor does what a task is audited with.
SuiteIsNotForged ==
  \A p \in Evaluated : \A tree \in Works \cup ({p.reference} \ {NoTree}) : ~Forges(p, tree)
OracleIsNotForged ==
  \A p \in Packs : \A tree \in ({p.reference} \ {NoTree}) \cup {c.tree : c \in p.controls} : ~Forges(p, tree)
----------------------------------------------------------------------------
(* The invariant.                                                          *)

\* A verdict is an outcome of the machine, or what the suite says of the
\* difference alone.
Wellformed(g) ==
  /\ g \in GradingState(g.diff, g.regression, g.hidden)
  /\ g.regression \in {Errored, TimedOut, Result(ApplyDiff(g.diff), "regression")}
  /\ g.hidden \in {Errored, TimedOut, Result(ApplyDiff(g.diff), "hidden")}
RoomInv == pack \in Packs /\ faults \in 0..MaxFaults /\ Wellformed(grading)

\* What is graded is what the agent left, and its status what became of it.
RunInv ==
  /\ run \in RunState /\ version \in 1..MaxVersion
  /\ run.at # "none" => pack \in Evaluated
  /\ run.at \in {"acting", "acted", "grading"} => Unused # {} /\ (run.by = "mock" => run.caller = "worker")
  /\ run.at \in {"acted", "grading"} => run.tree \in Applied
  /\ run.at = "grading" => grading.diff = CaptureDiff(run.tree) /\ grading.status = Status

\* Ids are given in order.
IdsInv == \E n \in 0..MaxRuns : \A i \in Ids : record[i] = NoRecord <=> i > n

\* What a record says is what happened.
Honest(r) ==
  /\ r.voided <=> r.status = "infra_failure"
  /\ r.pass => r.inTime /\ ~r.voided /\ (SuiteIsNotForged => r.good)
  /\ ~r.pass /\ ~r.voided /\ r.inTime => r.reached /\ (r.good => ~r.tested)
  /\ r.by = "mock" => /\ r.job
                      /\ r.kind = "mock" \/ (r.kind = "null" /\ r.asked = "mock")
RecordInv ==
  /\ record \in [Ids -> RunRecord \cup {NoRecord}]
  /\ \A i \in Ids : record[i] # NoRecord => Honest(record[i])

\* All of a run's evidence or none; and no commit takes a run away.
Complete(rows) ==
  /\ rows \in Rows /\ Whole(rows)
  /\ rows.runs \subseteq Used /\ rows.ours \subseteq Used /\ db.runs \subseteq rows.runs

\* The insert save_run is at is k.
Ours(done) == IF done THEN {LastId} ELSE {}
Inserted(k) ==
  /\ txn.work.runs = txn.mark.runs \cup Ours(k > 1)
  /\ txn.work.run_scores = txn.mark.run_scores \cup Ours(k > 2)
  /\ txn.work.diffs = txn.mark.diffs \cup Ours(k > 3)
  /\ txn.work.test_results = txn.mark.test_results \cup Ours(k > 4 /\ record[LastId].results)
  /\ txn.work.ours = txn.mark.ours

StoreInv ==
  /\ Complete(db)
  /\ txn \in [open : BOOLEAN, work : Rows, mark : Rows] /\ saving \in [at : 0..5, started : BOOLEAN]
  /\ run.at \in {"none", "acting", "acted", "grading"} => txn = Closed /\ saving = Resting
  /\ run.at \in {"scored", "saved", "refused"} => LastId \in Used /\ run.caller = record[LastId].caller
  /\ run.at = "scored" /\ saving.at = 0 => txn = Closed
  /\ saving.at > 0 =>
       /\ run.at = "scored" /\ txn.open /\ Complete(txn.mark) /\ Inserted(saving.at)
       /\ saving.started <=> run.caller # "embedding"
       /\ run.caller = "embedding" => LastId \in txn.mark.ours
  /\ run.at \in {"saved", "refused"} =>
       /\ txn.open /\ saving = Resting /\ Complete(txn.work)
       /\ run.caller = "embedding" => LastId \in txn.work.ours
  /\ run.at = "saved" => LastId \in txn.work.runs
  /\ run.at = "refused" => run.caller = "embedding"

\* What a board shows are stored runs; a run it shows with its tests was stored
\* when it was found.
Shown(b) == b.passed \cup b.lost \cup b.voided
BoardOk(b) ==
  /\ b \in BoardState
  /\ b.at = "found" => b.view = "run" /\ Shown(b) \subseteq db.runs
  /\ b.at = "shown" => Shown(b) \subseteq Used
  /\ b.at = "shown" /\ b.view = "run" => b.results = {i \in Shown(b) : record[i].results}
  /\ b.at \in {"found", "shown"} =>
       /\ \A i \in b.passed :
            /\ record[i].pass
            /\ b.view \in {"benchmark", "real"} => record[i].by # "mock"
            /\ b.view # "report" => record[i].version = b.wanted
       /\ \A i \in b.lost : ~record[i].pass /\ ~record[i].voided
BoardInv == BoardOk(board) /\ attested \in BOOLEAN

\* What an audit is still to grade, and what the suites may have said of a tree.
Checks == {"reference", "noop", "control", "unparsed", "again", "mutant"}
Planned(mode) ==
  {x \in [check : Checks, tree : Tree] :
     /\ x.check = "reference" => x.tree = pack.reference
     /\ x.check = "noop" => x.tree = Snapshot
     /\ mode = "validate" => x.check \in {"noop", "reference"}}
Said(tree, suite) == {Errored, TimedOut, Result(ApplyDiff(CaptureDiff(tree)), suite)}
Gradings(mode) ==
  {g \in [check : Checks, tree : Tree, regression : Suites, hidden : Suites] :
     /\ g.check = "reference" => g.tree = pack.reference
     /\ g.check = "noop" => g.tree = Snapshot
     /\ mode = "validate" => g.check \in {"noop", "reference"}
     /\ g.regression \in Said(g.tree, "regression") /\ g.hidden \in Said(g.tree, "hidden")}
Foreseen(check) == \E x \in ToSet(audit.todo) \cup ToSet(audit.seen) : x.check = check
AuditInv ==
  /\ audit \in [at : {"none", "auditing", "grading", "done"}, mode : Modes \cup {"validate"},
                todo : Seq(Planned(audit.mode)), seen : Seq(Gradings(audit.mode)), health : Healths]
  /\ audit.at # "none" => run.at = "none"
  /\ audit.at \in {"auditing", "grading"} =>
       /\ Foreseen("noop") /\ (ReferenceUsable \/ audit.mode = "validate" => Foreseen("reference"))
       /\ audit.mode = "validate" => pack.reference # NoTree
  /\ audit.at = "grading" =>
       /\ audit.todo # <<>> /\ grading.status = "valid"
       /\ grading.diff = CaptureDiff(Head(audit.todo).tree)
  /\ audit.at # "done" => audit.health = "unknown"
  /\ OracleIsNotForged => HealthyTaskDiscerns

Inv == RoomInv /\ RunInv /\ IdsInv /\ RecordInv /\ StoreInv /\ BoardInv /\ AuditInv
----------------------------------------------------------------------------
(* What a difference carries, and what the suites say of it.               *)

\* A tree is its three files.
LEMMA Files ==
  ASSUME NEW tree \in Tree
  PROVE  /\ tree["src"] = tree.src /\ tree["tests"] = tree.tests /\ tree["conftest"] = tree.conftest
         /\ tree.src \in Contents \cup {"binary", "none"} /\ tree.tests \in {"kept", "edited", "none"}
         /\ tree.conftest \in {"none", "edited"}
         /\ \A p \in Paths : p = "src" \/ p = "tests" \/ p = "conftest"
BY DEF Tree, Paths

\* The snapshot has a source and tests, and is a tree.
LEMMA SnapshotFiles ==
  /\ Snapshot \in Tree
  /\ Snapshot["src"] = "bug" /\ Snapshot["tests"] = "kept" /\ Snapshot["conftest"] = "none"
  /\ Seen(Snapshot) = {"src", "tests"}
<1>1. Snapshot \in Tree
  BY GradingAssumption DEF Snapshot, Tree
<1>2. Snapshot["src"] = "bug" /\ Snapshot["tests"] = "kept" /\ Snapshot["conftest"] = "none"
  BY DEF Snapshot
<1>3. Seen(Snapshot) = {"src", "tests"}
  BY <1>2, GradingAssumption DEF Seen, Paths
<1> QED
  BY <1>1, <1>2, <1>3

\* The difference touches the files that are not as they were (capture_diff).
LEMMA Touches ==
  ASSUME NEW tree \in Tree
  PROVE  Touched(CaptureDiff(tree)) = {p \in Paths : tree[p] # Snapshot[p]}
<1> DEFINE changed == {p \in Seen(tree) : tree[p] # Snapshot[p]}
           deleted == Seen(Snapshot) \ Seen(tree)
<1>1. Touched(CaptureDiff(tree)) = changed \cup deleted
  BY DEF Touched, CaptureDiff
<1>2. Seen(tree) = {p \in Paths : tree[p] \notin {"none", "binary"}}
  BY DEF Seen
<1>3. ASSUME NEW p \in Paths PROVE p \in changed \cup deleted <=> tree[p] # Snapshot[p]
  <2>1. CASE p = "src"
    BY <1>2, <2>1, Files, SnapshotFiles, GradingAssumption
  <2>2. CASE p = "tests"
    BY <1>2, <2>2, Files, SnapshotFiles
  <2>3. CASE p = "conftest"
    BY <1>2, <2>3, Files, SnapshotFiles
  <2> QED
    BY <2>1, <2>2, <2>3 DEF Paths
<1>4. changed \subseteq Paths /\ deleted \subseteq Paths
  BY <1>2, SnapshotFiles DEF Paths
<1> QED
  BY <1>1, <1>3, <1>4

\* The clean room has what the agent left, but for what is no text and for the
\* conftest (apply_diff).
LEMMA Room ==
  ASSUME NEW tree \in Tree
  PROVE  LET room == ApplyDiff(CaptureDiff(tree))
         IN  /\ room.src = IF tree.src \in {"none", "binary"} THEN "none" ELSE tree.src
             /\ room.tests = tree.tests /\ room.conftest = "none"
<1> DEFINE d == CaptureDiff(tree)
           room == ApplyDiff(d)
           changed == {p \in Seen(tree) : tree[p] # Snapshot[p]}
<1>1. Seen(tree) = {p \in Paths : tree[p] \notin {"none", "binary"}}
  BY DEF Seen
<1>2. /\ DOMAIN d.changed = changed /\ d.deleted = Seen(Snapshot) \ Seen(tree)
      /\ \A p \in changed : d.changed[p] = tree[p]
  BY DEF CaptureDiff
<1>3. \A p \in Paths :
        room[p] = IF p \in AlwaysProtected THEN Snapshot[p]
                  ELSE IF p \in d.deleted THEN "none"
                  ELSE IF p \in DOMAIN d.changed THEN d.changed[p] ELSE Snapshot[p]
  BY DEF ApplyDiff
<1> HIDE DEF d, room
<1>4. "src" \in Paths /\ "tests" \in Paths /\ "conftest" \in Paths
  BY DEF Paths
<1>5. room["src"] = IF tree.src \in {"none", "binary"} THEN "none" ELSE tree.src
  BY <1>1, <1>2, <1>3, <1>4, Files, SnapshotFiles DEF AlwaysProtected
<1>6. room["tests"] = tree.tests
  BY <1>1, <1>2, <1>3, <1>4, Files, SnapshotFiles DEF AlwaysProtected
<1>7. room["conftest"] = "none"
  BY <1>3, <1>4, SnapshotFiles DEF AlwaysProtected
<1> QED
  BY <1>5, <1>6, <1>7 DEF room, d

\* The packs are packs.
LEMMA PackTyped ==
  ASSUME pack \in Packs
  PROVE  /\ pack.hidden \in [Contents -> SUBSET Hidden] /\ pack.visible \in BOOLEAN
         /\ pack.sound \subseteq Contents /\ pack.reference \in Tree \cup {NoTree}
BY GradingAssumption DEF Pack

\* The fields of the outcomes.
LEMMA Outcomes ==
  /\ Errored \in Suites /\ Errored.errored /\ Errored.passed = {}
  /\ TimedOut \in Suites /\ TimedOut.errored /\ TimedOut.passed = {}
  /\ \A ok, bad \in SUBSET (Hidden \cup {"regression"}) :
       /\ Suite(ok, bad) \in Suites /\ Suite(ok, bad).passed = ok /\ Suite(ok, bad).failed = bad
       /\ ~Suite(ok, bad).errored
BY DEF Errored, TimedOut, Suite, Suites

\* What the suites say of a room: the regression suite passes a sound source, or
\* tests that were edited where they are graded in place; the hidden suite says
\* which of its tests the source passes.
LEMMA Verdicts ==
  ASSUME pack \in Packs, NEW tree \in Tree
  PROVE  LET room == ApplyDiff(CaptureDiff(tree))
             regression == Result(room, "regression")
             hidden == Result(room, "hidden")
         IN  /\ regression \in Suites /\ hidden \in Suites
             /\ hidden.errored => hidden.passed = {}
             /\ ~regression.errored =>
                  (regression.failed = {} <=> tree.src \in pack.sound \/ (pack.visible /\ tree.tests = "edited"))
             /\ ~hidden.errored =>
                  /\ tree.src \in Contents
                  /\ hidden.passed = pack.hidden[tree.src] /\ hidden.failed = Hidden \ pack.hidden[tree.src]
<1> DEFINE room == ApplyDiff(CaptureDiff(tree))
<1>1. /\ room.src = IF tree.src \in {"none", "binary"} THEN "none" ELSE tree.src
      /\ room.tests = tree.tests /\ room.conftest = "none"
  BY Room
<1>2. room.src = "none" \/ (room.src = tree.src /\ tree.src \in Contents /\ room.src # "none")
  BY <1>1, Files, GradingAssumption
<1> HIDE DEF room
<1> DEFINE regression == Result(room, "regression")
           hidden == Result(room, "hidden")
<1>3. CASE room.src = "none" \/ room.src \in pack.broken
  <2>1. regression = Errored /\ hidden = Errored
    BY <1>3 DEF Result
  <2> QED
    BY <2>1, Outcomes DEF room
<1>4. CASE ~(room.src = "none" \/ room.src \in pack.broken) /\ room.src \in pack.endless
  <2>1. regression = TimedOut /\ hidden = TimedOut
    BY <1>4 DEF Result
  <2> QED
    BY <2>1, Outcomes DEF room
<1>5. CASE ~(room.src = "none" \/ room.src \in pack.broken) /\ room.src \notin pack.endless
  <2>1. room.src = tree.src /\ tree.src \in Contents
    BY <1>2, <1>5
  <2>2. hidden = Suite(pack.hidden[tree.src], Hidden \ pack.hidden[tree.src])
    BY <1>1, <1>5, <2>1 DEF Result
  <2>3. pack.hidden[tree.src] \in SUBSET Hidden
    BY <2>1, PackTyped
  <2>4. /\ hidden \in Suites /\ hidden.passed = pack.hidden[tree.src]
        /\ hidden.failed = Hidden \ pack.hidden[tree.src] /\ ~hidden.errored
    BY <2>2, <2>3, Outcomes
  <2>5. \/ regression = Errored
        \/ /\ tree.src \in pack.sound \/ (pack.visible /\ tree.tests = "edited")
           /\ regression = Suite({"regression"}, {})
        \/ /\ ~(tree.src \in pack.sound \/ (pack.visible /\ tree.tests = "edited"))
           /\ regression = Suite({}, {"regression"})
    BY <1>1, <1>5, <2>1 DEF Result
  <2>6. /\ Suite({"regression"}, {}) \in Suites /\ Suite({"regression"}, {}).failed = {}
        /\ Suite({}, {"regression"}) \in Suites /\ Suite({}, {"regression"}).failed = {"regression"}
    BY Outcomes
  <2>7. /\ regression \in Suites
        /\ ~regression.errored =>
             (regression.failed = {} <=> tree.src \in pack.sound \/ (pack.visible /\ tree.tests = "edited"))
    BY <2>5, <2>6, Outcomes
  <2> QED
    BY <2>1, <2>4, <2>7 DEF room
<1> QED
  BY <1>3, <1>4, <1>5
----------------------------------------------------------------------------
(* The clean room.                                                         *)

\* An empty room.
LEMMA IdleRoom ==
  /\ Wellformed(Idle) /\ Idle.at = "idle" /\ Idle.regression = Errored /\ Idle.hidden = Errored
<1>1. Idle \in GradingState(NoDiff, Errored, Errored)
  BY DEF Idle, GradingState, Statuses, Retries
<1>2. Idle \in GradingState(Idle.diff, Idle.regression, Idle.hidden)
  BY <1>1 DEF Idle
<1>3. Idle.at = "idle" /\ Idle.regression = Errored /\ Idle.hidden = Errored
  BY DEF Idle
<1> QED
  BY <1>2, <1>3 DEF Wellformed

\* A grading begins with nothing but the difference and the status.
LEMMA Starts ==
  ASSUME NEW diff, NEW status \in Statuses, StartGrading(diff, status), UNCHANGED pack
  PROVE  /\ Wellformed(grading)' /\ grading'.at # "idle"
         /\ grading'.diff = diff /\ grading'.status = status
<1> DEFINE at == IF status = "infra_failure" THEN "graded" ELSE "regression"
           g == [Idle EXCEPT !.diff = diff, !.status = status, !.at = at]
<1>1. grading' = g
  BY DEF StartGrading
<1>2. at \in {"graded", "regression"}
  OBVIOUS
<1> HIDE DEF at
<1>3. /\ g \in GradingState(diff, Errored, Errored)
      /\ g.at = at /\ g.diff = diff /\ g.status = status /\ g.regression = Errored /\ g.hidden = Errored
  BY <1>2, IdleRoom DEF Wellformed, GradingState
<1> HIDE DEF g
<1>4. grading' \in GradingState(diff, Errored, Errored) /\ grading'.regression = Errored /\ grading'.hidden = Errored
  BY <1>1, <1>3
<1> QED
  BY <1>1, <1>2, <1>3, <1>4 DEF Wellformed

\* An outcome is taken, or the suite is run again.
LEMMA Takes ==
  ASSUME Wellformed(grading), grading.at \in {"regression", "hidden"}, UNCHANGED pack,
         NEW outcome, outcome \in {Errored, TimedOut, Result(ApplyDiff(grading.diff), grading.at)},
         TakeOutcome(outcome)
  PROVE  /\ Wellformed(grading)' /\ grading'.at # "idle"
         /\ grading'.diff = grading.diff /\ grading'.status = grading.status
<1>1. grading \in GradingState(grading.diff, grading.regression, grading.hidden)
  BY DEF Wellformed
<1>2. ASSUME NEW g, grading' = g, g \in GradingState(g.diff, g.regression, g.hidden), g.at # "idle", g.diff = grading.diff, g.status = grading.status,
             g.regression = grading.regression \/ (grading.at = "regression" /\ g.regression = outcome),
             g.hidden = grading.hidden \/ (grading.at = "hidden" /\ g.hidden = outcome)
      PROVE  /\ Wellformed(grading)' /\ grading'.at # "idle"
             /\ grading'.diff = grading.diff /\ grading'.status = grading.status
  <2>1. /\ g.regression \in {Errored, TimedOut, Result(ApplyDiff(g.diff), "regression")}
        /\ g.hidden \in {Errored, TimedOut, Result(ApplyDiff(g.diff), "hidden")}
    BY <1>2 DEF Wellformed
  <2>2. Wellformed(g)'
    <3>1. \A d, s : Result(ApplyDiff(d), s)' = Result(ApplyDiff(d), s)
      BY DEF Result
    <3> QED
      BY <1>2, <2>1, <3>1 DEF Wellformed
  <2> QED
    BY <1>2, <2>2 DEF Wellformed
<1>3. CASE Again(outcome)
  <2> DEFINE g == [grading EXCEPT !.tries = @ + 1]
  <2>1. grading' = g
    BY <1>3 DEF TakeOutcome
  <2>2. grading.tries + 1 \in 0..Retries
    BY <1>1, <1>3 DEF Again, GradingState, Retries
  <2>3. /\ g \in GradingState(g.diff, g.regression, g.hidden) /\ g.at = grading.at /\ g.diff = grading.diff /\ g.status = grading.status
        /\ g.regression = grading.regression /\ g.hidden = grading.hidden
    BY <1>1, <2>2 DEF GradingState
  <2> HIDE DEF g
  <2> QED
    BY <1>2, <2>1, <2>3
<1>4. CASE ~Again(outcome) /\ grading.at = "regression"
  <2> DEFINE first == 0
             g == [grading EXCEPT !.regression = outcome, !.tries = first, !.at = "hidden"]
  <2>1. grading' = [grading EXCEPT !["regression"] = outcome, !.tries = 0,
                      !.at = IF @ = "regression" THEN "hidden" ELSE "graded"]
    BY <1>4 DEF TakeOutcome
  <2>2. grading' = g
    BY <1>1, <1>4, <2>1 DEF GradingState
  <2>4. first \in 0..Retries
    BY DEF Retries
  <2> HIDE DEF first
  <2>3. /\ g \in GradingState(g.diff, g.regression, g.hidden) /\ g.at = "hidden" /\ g.diff = grading.diff /\ g.status = grading.status
        /\ g.regression = outcome /\ g.hidden = grading.hidden
    BY <1>1, <2>4 DEF GradingState
  <2> HIDE DEF g
  <2> QED
    BY <1>2, <1>4, <2>2, <2>3
<1>5. CASE ~Again(outcome) /\ grading.at = "hidden"
  <2> DEFINE first == 0
             g == [grading EXCEPT !.hidden = outcome, !.tries = first, !.at = "graded"]
  <2>1. grading' = [grading EXCEPT !["hidden"] = outcome, !.tries = 0,
                      !.at = IF @ = "regression" THEN "hidden" ELSE "graded"]
    BY <1>5 DEF TakeOutcome
  <2>2. grading' = g
    BY <1>1, <1>5, <2>1 DEF GradingState
  <2>4. first \in 0..Retries
    BY DEF Retries
  <2> HIDE DEF first
  <2>3. /\ g \in GradingState(g.diff, g.regression, g.hidden) /\ g.at = "graded" /\ g.diff = grading.diff /\ g.status = grading.status
        /\ g.regression = grading.regression /\ g.hidden = outcome
    BY <1>1, <2>4 DEF GradingState
  <2> HIDE DEF g
  <2> QED
    BY <1>2, <1>5, <2>2, <2>3
<1> QED
  BY <1>3, <1>4, <1>5

\* pytest is run, or the machine fails.
LEMMA PytestRuns ==
  ASSUME RoomInv, RunPytest
  PROVE  /\ RoomInv' /\ grading.at # "idle" /\ grading'.at # "idle"
         /\ grading'.diff = grading.diff /\ grading'.status = grading.status
<1>1. Wellformed(grading) /\ grading.at \in {"regression", "hidden"} /\ pack' = pack /\ pack \in Packs
  BY DEF RoomInv, RunPytest
<1>4. faults' \in 0..MaxFaults
  BY GradingAssumption DEF RoomInv, RunPytest
<1>5. \E outcome \in {Errored, TimedOut, Result(ApplyDiff(grading.diff), grading.at)} : TakeOutcome(outcome)
  BY DEF RunPytest
<1>6. PICK outcome \in {Errored, TimedOut, Result(ApplyDiff(grading.diff), grading.at)} : TakeOutcome(outcome)
  BY <1>5
<1>8. /\ Wellformed(grading)' /\ grading'.at # "idle"
      /\ grading'.diff = grading.diff /\ grading'.status = grading.status
  BY <1>1, <1>6, Takes
<1> QED
  BY <1>1, <1>4, <1>8 DEF RoomInv
----------------------------------------------------------------------------
(* The score.                                                              *)

\* The report is the room's.
LEMMA Reported ==
  ASSUME RoomInv
  PROVE  /\ Report.diff = grading.diff /\ Report.status = grading.status
         /\ Report.regression = grading.regression /\ Report.hidden = grading.hidden
         /\ Report.status \in Statuses
BY DEF RoomInv, Wellformed, GradingState, Report

\* A status says whether the agent was late, and else whether its service was
\* out of reach.
LEMMA StatusSays ==
  ASSUME run \in RunState
  PROVE  /\ Status \in Statuses /\ (Status = "timeout" <=> run.late)
         /\ ~run.late => (Status = "infra_failure" <=> run.outcome = "infra")
BY DEF RunState, Status, Statuses

\* What a task lets an agent change.
LEMMA InRemit ==
  ASSUME RoomInv, RunInv, run.at = "grading"
  PROVE  /\ ScopeOk(Report) <=> \A p \in Paths \ Remit : run.tree[p] = Snapshot[p]
         /\ DiffExists(Report) => run.tree # Snapshot
         /\ run.tree # Snapshot => DiffExists(Report)
<1>1. run.tree \in Tree /\ Report.diff = CaptureDiff(run.tree)
  BY Reported DEF RunInv, RunState
<1>2. Touched(Report.diff) = {p \in Paths : run.tree[p] # Snapshot[p]}
  BY <1>1, Touches
<1>3. ScopeOk(Report) <=> \A p \in Paths \ Remit : run.tree[p] = Snapshot[p]
  BY <1>2 DEF ScopeOk, Remit
<1>4. run.tree # Snapshot => \E p \in Paths : run.tree[p] # Snapshot[p]
  <2>1. Snapshot \in Tree
    BY SnapshotFiles
  <2>2. "src" \in Paths /\ "tests" \in Paths /\ "conftest" \in Paths
    BY DEF Paths
  <2>3. ASSUME \A p \in Paths : run.tree[p] = Snapshot[p] PROVE run.tree = Snapshot
    <3>1. run.tree.src = Snapshot.src /\ run.tree.tests = Snapshot.tests /\ run.tree.conftest = Snapshot.conftest
      BY <1>1, <2>1, <2>2, <2>3, Files
    <3> DEFINE tree == run.tree
    <3>2. tree \in Tree /\ tree.src = Snapshot.src /\ tree.tests = Snapshot.tests /\ tree.conftest = Snapshot.conftest
      BY <1>1, <3>1
    <3> HIDE DEF tree
    <3>3. tree = Snapshot
      BY <2>1, <3>2 DEF Tree
    <3> QED
      BY <3>3 DEF tree
  <2> QED
    BY <2>3
<1> QED
  BY <1>2, <1>3, <1>4 DEF DiffExists

\* Tests that were edited within the remit, and not to forge a pass, come with a
\* source that is sound.
LEMMA Unforged ==
  ASSUME NEW tree \in Tree, ~Forges(pack, tree), pack.visible, tree.tests = "edited",
         ~ \E p \in Touched(CaptureDiff(tree)) : OutOfScope(p)
  PROVE  tree.src \in pack.sound
<1>1. tree["tests"] # Snapshot["tests"] /\ "tests" \in Paths
  BY Files, SnapshotFiles DEF Paths
<1>2. "tests" \in Touched(CaptureDiff(tree))
  BY <1>1, Touches
<1>3. "tests" \notin pack.protected /\ (pack.editable # {} => "tests" \in pack.editable)
  BY <1>2 DEF OutOfScope, Matches
<1> QED
  BY <1>3 DEF Forges

\* So it is of what an agent leaves.
LEMMA NotForged ==
  ASSUME RoomInv, RunInv, run.at = "grading", SuiteIsNotForged, ScopeOk(Report),
         pack.visible, run.tree.tests = "edited"
  PROVE  run.tree.src \in pack.sound
<1>1. pack \in Evaluated /\ run.tree \in Applied /\ run.tree \in Tree
  BY DEF RunInv, RunState
<1>2. Snapshot.tests = "kept"
  BY DEF Snapshot
<1>3. run.tree # Snapshot
  BY <1>2
<1>4. run.tree \in Works \cup ({pack.reference} \ {NoTree})
  BY <1>1, <1>3 DEF Applied
<1>5. ~Forges(pack, run.tree)
  BY <1>1, <1>4 DEF SuiteIsNotForged
<1>6. ~ \E p \in Touched(CaptureDiff(run.tree)) : OutOfScope(p)
  BY Reported DEF ScopeOk, RunInv
<1> QED
  BY <1>1, <1>5, <1>6, Unforged

\* A pass is good work done in time; what is not passed was late, not reached,
\* not good or not tested (score_run).
LEMMA Judges ==
  ASSUME RoomInv, RunInv, run.at = "grading"
  PROVE  /\ FunctionalPass(Report) =>
              ~run.late /\ ~Voided(Report) /\ (SuiteIsNotForged => GoodWork)
         /\ ~FunctionalPass(Report) /\ ~Voided(Report) /\ ~run.late =>
              /\ run.outcome # "infra"
              /\ GoodWork => Report.regression.errored \/ Report.hidden.errored
<1> DEFINE tree == run.tree
           regression == Report.regression
           hidden == Report.hidden
<1>1. tree \in Tree /\ run \in RunState /\ grading.diff = CaptureDiff(tree) /\ grading.status = Status
  BY DEF RunInv, RunState
<1>2. Report.status = Status /\ pack \in Packs
  BY <1>1, Reported DEF RoomInv
<1>3. Voided(Report) <=> Status = "infra_failure"
  BY <1>2 DEF Voided
<1>4. /\ ~regression.errored =>
           (regression.failed = {} <=> tree.src \in pack.sound \/ (pack.visible /\ tree.tests = "edited"))
      /\ ~hidden.errored =>
           /\ tree.src \in Contents
           /\ hidden.passed = pack.hidden[tree.src] /\ hidden.failed = Hidden \ pack.hidden[tree.src]
      /\ hidden.errored => hidden.passed = {}
  <2>1. /\ regression \in {Errored, TimedOut, Result(ApplyDiff(CaptureDiff(tree)), "regression")}
        /\ hidden \in {Errored, TimedOut, Result(ApplyDiff(CaptureDiff(tree)), "hidden")}
    BY <1>1, Reported DEF RoomInv, Wellformed
  <2> HIDE DEF tree, regression, hidden
  <2> QED
    BY <1>1, <1>2, <2>1, Verdicts, Outcomes
<1>5. tree.src \in Contents => pack.hidden[tree.src] \subseteq Hidden
  BY <1>2, PackTyped
<1>6. pack.sound \subseteq Contents
  BY <1>2, PackTyped
<1>7. ASSUME FunctionalPass(Report)
      PROVE  ~run.late /\ ~Voided(Report) /\ (SuiteIsNotForged => GoodWork)
  <2>1. /\ ~Voided(Report) /\ DiffExists(Report) /\ ScopeOk(Report) /\ AllPassed(regression)
        /\ Report.status # "timeout" /\ hidden.passed # {} /\ hidden.failed = {} /\ Weight(hidden.passed) > 0
    BY <1>7 DEF FunctionalPass, Gate, Earned
  <2>2. ~run.late
    BY <1>1, <1>2, <2>1, StatusSays
  <2>3. ~hidden.errored
    BY <1>4, <2>1
  <2>4. tree.src \in Contents /\ pack.hidden[tree.src] = Hidden /\ Weight(Hidden) > 0
    <3>1. hidden.passed = Hidden
      BY <1>4, <1>5, <2>1, <2>3
    <3> QED
      BY <1>4, <2>1, <2>3, <3>1
  <2>5. ASSUME SuiteIsNotForged PROVE tree.src \in pack.sound
    <3>1. tree.src \in pack.sound \/ (pack.visible /\ tree.tests = "edited")
      BY <1>4, <2>1 DEF AllPassed
    <3> QED
      BY <2>1, <2>5, <3>1, NotForged
  <2>6. tree # Snapshot /\ \A p \in Paths \ Remit : tree[p] = Snapshot[p]
    BY <2>1, InRemit
  <2>7. SuiteIsNotForged => GoodWork
    BY <2>4, <2>5, <2>6 DEF GoodWork
  <2> QED
    BY <2>1, <2>2, <2>7
<1>8. ASSUME ~FunctionalPass(Report), ~Voided(Report), ~run.late
      PROVE  run.outcome # "infra"
  BY <1>1, <1>3, <1>8, StatusSays
<1>9. ASSUME ~Voided(Report), ~run.late, GoodWork, ~regression.errored, ~hidden.errored
      PROVE  FunctionalPass(Report)
  <2>1. /\ tree # Snapshot /\ (\A p \in Paths \ Remit : tree[p] = Snapshot[p])
        /\ tree.src \in pack.sound /\ pack.hidden[tree.src] = Hidden /\ Weight(Hidden) > 0
    BY <1>9 DEF GoodWork
  <2>2. DiffExists(Report) /\ ScopeOk(Report)
    BY <2>1, InRemit
  <2>3. AllPassed(regression)
    BY <1>4, <1>9, <2>1 DEF AllPassed
  <2>4. hidden.passed = Hidden /\ hidden.failed = {} /\ Hidden # {}
    BY <1>4, <1>9, <2>1, GradingAssumption
  <2>5. Report.status # "timeout"
    BY <1>1, <1>2, <1>9, StatusSays
  <2> QED
    BY <1>9, <2>1, <2>2, <2>3, <2>4, <2>5 DEF FunctionalPass, Gate, Earned
<1> QED
  BY <1>7, <1>8, <1>9
----------------------------------------------------------------------------
(* The room and the run, step by step.                                     *)

\* The room as it was, or empty, is well formed.
LEMMA RoomKept ==
  ASSUME RoomInv, UNCHANGED pack, grading' \in {grading, Idle}, faults' \in 0..MaxFaults
  PROVE  RoomInv'
<1>1. \A g : Wellformed(g) => Wellformed(g)'
  <2>1. \A d, s : Result(ApplyDiff(d), s)' = Result(ApplyDiff(d), s)
    BY DEF Result
  <2> QED
    BY <2>1 DEF Wellformed
<1>2. Wellformed(grading) /\ Wellformed(Idle) /\ pack \in Packs
  BY IdleRoom DEF RoomInv
<1>3. PICK g : g = grading' /\ Wellformed(g)
  BY <1>2
<1>4. Wellformed(g)'
  BY <1>1, <1>3
<1>5. Wellformed(grading)'
  <2>1. g = grading'
    BY <1>3
  <2> QED
    BY <1>4, <2>1 DEF Wellformed
<1> QED
  BY <1>2, <1>5 DEF RoomInv

\* One more fault stays within the bound.
LEMMA OneFault ==
  ASSUME RoomInv, faults < MaxFaults, faults' = faults + 1
  PROVE  faults' \in 0..MaxFaults
BY GradingAssumption DEF RoomInv

\* The works and the reference are trees.
LEMMA AppliedTrees == ASSUME RoomInv PROVE Applied \subseteq Tree
BY PackTyped, SnapshotFiles, PipelineAssumption DEF RoomInv, Applied

\* A run is set up.
LEMMA ProvisionRun ==
  ASSUME RoomInv, RunInv, Provision
  PROVE  RoomInv' /\ RunInv' /\ run'.at = "acting" /\ run.at = "none"
<1>1. pack \in Evaluated /\ Unused # {} /\ run.at = "none" /\ version \in 1..MaxVersion
  BY DEF Provision, RunInv
<1>2. PICK by \in {"mock", "model"}, caller \in Callers :
        /\ by = "mock" => caller = "worker"
        /\ run' = [NoRun EXCEPT !.at = "acting", !.by = by, !.caller = caller, !.version = version]
  BY DEF Provision
<1> DEFINE q == [NoRun EXCEPT !.at = "acting", !.by = by, !.caller = caller, !.version = version]
<1>3. NoRun \in RunState
  BY SnapshotFiles, ReadersAssumption DEF NoRun, RunState, Callers
<1>4. q \in RunState /\ q.at = "acting" /\ q.by = by /\ q.caller = caller
  BY <1>1, <1>3 DEF RunState
<1>5. run' = q
  BY <1>2
<1> HIDE DEF q
<1>6. Unused' = Unused
  BY DEF Provision, Unused
<1>7. RunInv'
  BY <1>1, <1>2, <1>4, <1>5, <1>6 DEF RunInv, Provision
<1>8. RoomInv'
  <2>1. pack' = pack /\ grading' = grading /\ faults' = faults
    BY DEF Provision
  <2> QED
    BY <2>1, RoomKept DEF RoomInv
<1> QED
  BY <1>1, <1>4, <1>5, <1>7, <1>8

\* The agent acts.
LEMMA ActRun ==
  ASSUME RoomInv, RunInv, Act
  PROVE  RoomInv' /\ RunInv' /\ run'.at = "acted" /\ run.at = "acting"
<1>1. /\ run \in RunState /\ run.at = "acting" /\ pack \in Evaluated /\ Unused # {}
      /\ version \in 1..MaxVersion /\ (run.by = "mock" => run.caller = "worker")
  BY DEF Act, RunInv
<1>2. PICK tree \in Applied, outcome \in {"ok", "errored", "infra"}, late \in BOOLEAN :
        run' = [run EXCEPT !.at = "acted", !.tree = tree, !.outcome = outcome, !.late = late]
  BY DEF Act
<1> DEFINE q == [run EXCEPT !.at = "acted", !.tree = tree, !.outcome = outcome, !.late = late]
<1>3. tree \in Tree
  BY AppliedTrees
<1>4. q \in RunState /\ q.at = "acted" /\ q.by = run.by /\ q.caller = run.caller /\ q.tree = tree
  BY <1>1, <1>3 DEF RunState
<1>5. run' = q
  BY <1>2
<1> HIDE DEF q
<1>6. Unused' = Unused /\ Applied' = Applied
  BY DEF Act, Unused, Applied
<1>7. RunInv'
  BY <1>1, <1>4, <1>5, <1>6 DEF RunInv, Act
<1>8. RoomInv'
  <2>1. pack' = pack /\ grading' = grading /\ faults' = faults
    BY DEF Act
  <2> QED
    BY <2>1, RoomKept DEF RoomInv
<1> QED
  BY <1>1, <1>4, <1>5, <1>7, <1>8

\* What it left is captured.
LEMMA CaptureRun ==
  ASSUME RoomInv, RunInv, Capture
  PROVE  RoomInv' /\ RunInv' /\ run'.at = "grading" /\ run.at = "acted"
<1>1. /\ run \in RunState /\ run.at = "acted" /\ pack \in Evaluated /\ Unused # {} /\ run.tree \in Applied
      /\ version \in 1..MaxVersion /\ (run.by = "mock" => run.caller = "worker")
  BY DEF Capture, RunInv
<1> DEFINE q == [run EXCEPT !.at = "grading"]
<1>2. /\ q \in RunState /\ q.at = "grading" /\ q.by = run.by /\ q.caller = run.caller /\ q.tree = run.tree
      /\ q.late = run.late /\ q.outcome = run.outcome
  BY <1>1 DEF RunState
<1>3. run' = q /\ pack' = pack /\ version' = version /\ faults' = faults /\ record' = record
  BY DEF Capture
<1> HIDE DEF q
<1>4. Unused' = Unused /\ Applied' = Applied /\ Status' = Status
  BY <1>2, <1>3 DEF Unused, Applied, Status
<1>5. Status \in Statuses
  BY <1>1, StatusSays
<1>6. Wellformed(grading)' /\ grading'.diff = CaptureDiff(run.tree) /\ grading'.status = Status
  BY <1>3, <1>5, Starts DEF Capture
<1>7. RunInv'
  BY <1>1, <1>2, <1>3, <1>4, <1>6 DEF RunInv
<1>8. RoomInv'
  BY <1>3, <1>6 DEF RoomInv
<1> QED
  BY <1>1, <1>2, <1>3, <1>7, <1>8

\* Any step that ends the run, or changes only where its save stands, keeps what
\* is said of the run and of the room.
LEMMA RunEnds ==
  ASSUME RoomInv, RunInv, UNCHANGED <<pack, version>>, faults' \in 0..MaxFaults, grading' \in {grading, Idle},
         run' \in RunState, run'.at \in {"none", "scored", "refused", "saved"}, run'.at # "none" => run.at # "none"
  PROVE  RoomInv' /\ RunInv'
<1>1. RoomInv'
  BY RoomKept
<1>2. RunInv'
  BY DEF RunInv
<1> QED
  BY <1>1, <1>2
----------------------------------------------------------------------------
(* Ids and records.                                                        *)

\* The ids given are 1 to n.
Given(n) == n \in 0..MaxRuns /\ \A i \in Ids : record[i] = NoRecord <=> i > n

\* The last of them.
LEMMA LastOfMany ==
  ASSUME NEW n \in Nat, n > 0
  PROVE  (CHOOSE i \in 1..n : \A k \in 1..n : k <= i) = n
<1>1. n \in 1..n /\ \A k \in 1..n : k <= n
  OBVIOUS
<1>2. \A i \in 1..n : (\A k \in 1..n : k <= i) => i = n
  BY <1>1
<1> QED
  BY <1>1, <1>2

\* The ids used, the next one and the last one.
LEMMA IdsGiven ==
  ASSUME NEW n, Given(n)
  PROVE  /\ Used = 1..n /\ (Unused # {} <=> n < MaxRuns)
         /\ n < MaxRuns => NextId = n + 1
         /\ n > 0 => LastId = n
<1>1. n \in 0..MaxRuns /\ MaxRuns \in Nat /\ Ids = 1..MaxRuns /\ \A i \in Ids : record[i] = NoRecord <=> i > n
  BY PipelineAssumption DEF Given, Ids
<1>2. Unused = (n + 1)..MaxRuns
  BY <1>1 DEF Unused
<1>3. Used = 1..n
  BY <1>1, <1>2 DEF Used
<1>4. ASSUME n < MaxRuns PROVE NextId = n + 1
  <2>1. n + 1 \in Unused /\ \A k \in Unused : n + 1 <= k
    BY <1>1, <1>2, <1>4
  <2>2. \A i \in Unused : (\A k \in Unused : i <= k) => i = n + 1
    BY <1>1, <1>2, <2>1
  <2> QED
    BY <2>1, <2>2 DEF NextId
<1>5. ASSUME n > 0 PROVE LastId = n
  <2>1. LastId = CHOOSE i \in 1..n : \A k \in 1..n : k <= i
    BY <1>3 DEF LastId, Used
  <2> QED
    BY <1>1, <1>5, <2>1, LastOfMany
<1>6. Unused # {} <=> n < MaxRuns
  BY <1>1, <1>2
<1> QED
  BY <1>3, <1>4, <1>5, <1>6

\* Steps that make no record change neither ids nor records.
LEMMA RecordsKept ==
  ASSUME IdsInv, RecordInv, UNCHANGED record
  PROVE  IdsInv' /\ RecordInv' /\ Used' = Used /\ Unused' = Unused /\ LastId' = LastId
BY DEF IdsInv, RecordInv, Used, Unused, LastId

\* Where the evidence of a run comes from: a mock's never passes for a model's.
LEMMA Provenances ==
  ASSUME run \in RunState, run.by = "mock" => run.caller = "worker", NEW p \in Provenance
  PROVE  /\ p.kind \in {"mock", "model", "null"} /\ p.asked \in {"mock", "model", "none"}
         /\ run.by = "mock" => p.kind = "mock" \/ (p.kind = "null" /\ p.asked = "mock")
<1>1. run.caller \in {"worker", "script", "embedding"} /\ run.by \in {"mock", "model"}
  BY DEF RunState, Callers
<1>2. CASE run.caller = "worker"
  <2>1. p \in {[kind |-> run.by, asked |-> a] : a \in {"mock", "model"}} \cup {[kind |-> "null", asked |-> run.by]}
    BY <1>2 DEF Provenance
  <2>2. CASE p = [kind |-> "null", asked |-> run.by]
    BY <1>1, <2>2
  <2>3. CASE \E a \in {"mock", "model"} : p = [kind |-> run.by, asked |-> a]
    BY <1>1, <2>3
  <2> QED
    BY <2>1, <2>2, <2>3
<1>3. CASE run.caller = "script"
  <2>1. p \in [kind : {"model", "null"}, asked : {"none"}]
    BY <1>3 DEF Provenance
  <2> QED
    BY <1>3, <2>1
<1>4. CASE run.caller = "embedding"
  <2>1. p = [kind |-> "null", asked |-> "none"]
    BY <1>4 DEF Provenance
  <2> QED
    BY <1>4, <2>1
<1> QED
  BY <1>1, <1>2, <1>3, <1>4

\* The record made is an honest one, of the next id.
LEMMA ScoreRecords ==
  ASSUME RoomInv, RunInv, IdsInv, RecordInv, Score
  PROVE  /\ RoomInv' /\ RunInv' /\ IdsInv' /\ RecordInv'
         /\ run.at = "grading" /\ run'.at = "scored"
         /\ NextId \notin Used /\ Used' = Used \cup {NextId} /\ LastId' = NextId
         /\ record'[LastId'].caller = run'.caller
         /\ \A i \in Used : record'[i] = record[i]
<1>1. /\ run.at = "grading" /\ run \in RunState /\ Unused # {} /\ (run.by = "mock" => run.caller = "worker")
      /\ pack \in Evaluated /\ version \in 1..MaxVersion
  BY DEF Score, RunInv
<1> DEFINE rec(p) ==
      [status |-> Report.status, pass |-> FunctionalPass(Report), voided |-> Voided(Report),
       results |-> ~Report.regression.errored \/ ~Report.hidden.errored,
       version |-> run.version, job |-> run.caller # "script", kind |-> p.kind, asked |-> p.asked,
       caller |-> run.caller, by |-> run.by, good |-> GoodWork, inTime |-> ~run.late,
       reached |-> run.outcome # "infra", tested |-> ~Report.regression.errored /\ ~Report.hidden.errored]
<1>2. PICK p \in Provenance : record' = [record EXCEPT ![NextId] = rec(p)]
  BY DEF Score
<1> DEFINE r == rec(p)
<1>3. /\ p.kind \in {"mock", "model", "null"} /\ p.asked \in {"mock", "model", "none"}
      /\ run.by = "mock" => p.kind = "mock" \/ (p.kind = "null" /\ p.asked = "mock")
  BY <1>1, Provenances
<1>4. /\ r.status = Report.status /\ r.version = run.version /\ r.kind = p.kind /\ r.asked = p.asked
      /\ r.caller = run.caller /\ r.by = run.by
  OBVIOUS
<1>5. /\ r.pass <=> FunctionalPass(Report)
      /\ r.voided <=> Voided(Report)
      /\ r.good <=> GoodWork
      /\ r.inTime <=> ~run.late
      /\ r.reached <=> run.outcome # "infra"
      /\ r.job <=> run.caller # "script"
      /\ r.tested <=> ~Report.regression.errored /\ ~Report.hidden.errored
  OBVIOUS
<1>6. r \in RunRecord
  <2>1. Report.status \in Statuses
    BY Reported
  <2>2. run.version \in 1..MaxVersion /\ run.caller \in Callers /\ run.by \in {"mock", "model"}
    BY <1>1 DEF RunState
  <2>3. /\ FunctionalPass(Report) \in BOOLEAN /\ Voided(Report) \in BOOLEAN /\ GoodWork \in BOOLEAN
        /\ (~run.late) \in BOOLEAN
    BY DEF FunctionalPass, Voided, GoodWork
  <2> QED
    BY <1>3, <2>1, <2>2, <2>3 DEF RunRecord
<1>7. Honest(r)
  <2>1. /\ FunctionalPass(Report) => ~run.late /\ ~Voided(Report) /\ (SuiteIsNotForged => GoodWork)
        /\ ~FunctionalPass(Report) /\ ~Voided(Report) /\ ~run.late =>
             /\ run.outcome # "infra"
             /\ GoodWork => Report.regression.errored \/ Report.hidden.errored
    BY <1>1, Judges
  <2>2. Voided(Report) <=> Report.status = "infra_failure"
    BY DEF Voided
  <2>3. run.by = "mock" => run.caller # "script"
    BY <1>1
  <2> HIDE DEF r
  <2> QED
    BY <1>3, <1>4, <1>5, <2>1, <2>2, <2>3 DEF Honest
<1>8. r # NoRecord
  <2>1. r.status \in Statuses
    BY <1>6 DEF RunRecord
  <2>2. NoRecord.status \notin Statuses
    BY DEF NoRecord, Statuses
  <2> HIDE DEF r
  <2> QED
    BY <2>1, <2>2
<1>9. record' = [record EXCEPT ![NextId] = r]
  BY <1>2
<1> HIDE DEF r, rec
<1>10. PICK n : Given(n)
  BY DEF IdsInv, Given
<1>11. n < MaxRuns /\ n \in Nat /\ NextId = n + 1 /\ NextId \in Ids /\ Used = 1..n /\ MaxRuns \in Nat
  <2>1. n \in 0..MaxRuns /\ MaxRuns \in Nat
    BY <1>10, PipelineAssumption DEF Given
  <2>2. n < MaxRuns /\ NextId = n + 1 /\ Used = 1..n
    BY <1>1, <1>10, IdsGiven
  <2> QED
    BY <2>1, <2>2 DEF Ids
<1>12. /\ record'[NextId] = r /\ \A i \in Ids : i # NextId => record'[i] = record[i]
       /\ record' \in [Ids -> RunRecord \cup {NoRecord}]
  BY <1>6, <1>9, <1>11 DEF RecordInv
<1>13. Given(n + 1)'
  <2>1. \A i \in Ids : record[i] = NoRecord <=> i > n
    BY <1>10 DEF Given
  <2>2. ASSUME NEW i \in Ids PROVE record'[i] = NoRecord <=> i > n + 1
    BY <1>8, <1>11, <1>12, <2>1 DEF Ids
  <2> QED
    BY <1>11, <2>2 DEF Given, Ids
<1>14. Used' = 1..(n + 1) /\ LastId' = n + 1
  <2>1. \A i \in Ids : record'[i] = NoRecord <=> i > n + 1
    BY <1>13 DEF Given
  <2>2. Used' = {i \in Ids : record'[i] # NoRecord}
    BY DEF Used, Unused
  <2>3. Used' = 1..(n + 1)
    BY <1>11, <2>1, <2>2 DEF Ids
  <2>4. LastId' = CHOOSE i \in 1..(n + 1) : \A k \in 1..(n + 1) : k <= i
    BY <2>3 DEF LastId, Used
  <2>5. n + 1 \in Nat /\ n + 1 > 0
    BY <1>11
  <2> QED
    BY <2>3, <2>4, <2>5, LastOfMany
<1>15. IdsInv'
  BY <1>13 DEF IdsInv, Given
<1>16. RecordInv'
  BY <1>7, <1>12 DEF RecordInv, Honest
<1>17. run'.at = "scored" /\ run'.caller = run.caller /\ run' \in RunState
  <2>1. NoRun \in RunState
    BY SnapshotFiles, ReadersAssumption DEF NoRun, RunState, Callers
  <2>2. run' = [NoRun EXCEPT !.at = "scored", !.caller = run.caller] /\ run.caller \in Callers
    BY <1>1 DEF Score, RunState
  <2> QED
    BY <2>1, <2>2 DEF RunState
<1>18. RoomInv' /\ RunInv'
  <2>1. pack' = pack /\ version' = version /\ faults' = faults /\ grading' = Idle
    BY DEF Score, CloseRoom
  <2> QED
    BY <1>1, <1>17, <2>1, RunEnds DEF RoomInv
<1>19. Used' = Used \cup {NextId} /\ NextId \notin Used /\ \A i \in Used : record'[i] = record[i]
  BY <1>11, <1>12, <1>14 DEF Ids
<1>20. record'[LastId'].caller = run'.caller
  BY <1>4, <1>11, <1>12, <1>14, <1>17
<1> QED
  BY <1>1, <1>11, <1>14, <1>15, <1>16, <1>17, <1>18, <1>19, <1>20
----------------------------------------------------------------------------
(* The store, step by step.                                                *)

Transactions == [open : BOOLEAN, work : Rows, mark : Rows]
Savings == [at : 0..5, started : BOOLEAN]

\* The empty store, a closed transaction, and no save.
LEMMA Nothings ==
  /\ Empty \in Rows /\ Closed \in Transactions /\ Closed.open = FALSE
  /\ Resting \in Savings /\ Resting.at = 0
<1>1. Empty \in Rows
  BY DEF Empty, Rows
<1>2. Closed \in Transactions /\ Closed.open = FALSE
  BY <1>1 DEF Closed, Transactions
<1>3. Resting \in Savings /\ Resting.at = 0
  BY DEF Resting, Savings
<1> QED
  BY <1>1, <1>2, <1>3

\* Rows whose runs have their records stay whole while these do not change.
LEMMA WholeKept ==
  ASSUME NEW rows, rows \in Rows, Whole(rows), rows.runs \subseteq Used, rows.ours \subseteq Used,
         Used \subseteq Used', \A i \in Used : record'[i] = record[i], db'.runs \subseteq rows.runs
  PROVE  Complete(rows)'
<1>1. rows.test_results = {i \in rows.runs : record'[i].results}
  BY DEF Whole
<1>2. \A i \in rows.ours : record'[i].caller = "worker" => i \in rows.runs
  BY DEF Whole
<1>3. Whole(rows)'
  BY <1>1, <1>2 DEF Whole
<1>4. Rows' = Rows
  BY DEF Rows
<1> QED
  BY <1>3, <1>4 DEF Complete

\* The same, of a step that makes no record and commits nothing.
LEMMA CompleteKept ==
  ASSUME UNCHANGED <<record, db>>, NEW rows, Complete(rows)
  PROVE  Complete(rows)'
<1>1. Used' = Used
  BY DEF Used, Unused
<1> QED
  BY <1>1, WholeKept DEF Complete

\* Complete rows may be committed.
LEMMA CompleteCommits ==
  ASSUME UNCHANGED record, NEW rows, Complete(rows), db' = rows
  PROVE  Complete(db)'
<1>1. Used' = Used
  BY DEF Used, Unused
<1>2. Complete(rows)'
  BY <1>1, WholeKept DEF Complete
<1> QED
  BY <1>2 DEF Complete, Whole

\* The record is made: the rows of before are as whole as they were.
LEMMA ScoreStore ==
  ASSUME RoomInv, RunInv, IdsInv, RecordInv, StoreInv, Score, UNCHANGED <<db, txn, saving>>
  PROVE  StoreInv'
<1>1. /\ run.at = "grading" /\ run'.at = "scored" /\ LastId' = NextId /\ Used' = Used \cup {NextId}
      /\ record'[LastId'].caller = run'.caller /\ \A i \in Used : record'[i] = record[i]
  BY ScoreRecords
<1>2. txn = Closed /\ saving = Resting /\ Complete(db)
  BY <1>1 DEF StoreInv
<1>3. Complete(db)'
  <2>1. PICK rows : rows = db
    OBVIOUS
  <2>2. Complete(rows)'
    BY <1>1, <1>2, <2>1, WholeKept DEF Complete
  <2> QED
    BY <2>1, <2>2 DEF Complete, Whole
<1> QED
  BY <1>1, <1>2, <1>3, Nothings DEF StoreInv, Transactions, Savings

\* The caller's transaction, or one of its own; the caller's own rows are in it.
LEMMA BeginStore ==
  ASSUME IdsInv, RecordInv, StoreInv, BeginSave
  PROVE  StoreInv'
<1>1. /\ run.at = "scored" /\ run' = run /\ record' = record /\ db' = db
      /\ saving' = [at |-> 1, started |-> run.caller # "embedding"]
  BY DEF BeginSave
<1>2. Used' = Used /\ LastId' = LastId /\ LastId \in Used /\ run.caller = record[LastId].caller
  BY <1>1, RecordsKept DEF StoreInv
<1> DEFINE work == IF run.caller = "embedding" THEN [db EXCEPT !.ours = @ \cup {LastId}] ELSE db
<1>3. txn' = [open |-> TRUE, work |-> work, mark |-> work]
  BY DEF BeginSave
<1>4. Complete(db) /\ db \in Rows /\ LastId \in Ids
  BY <1>2 DEF StoreInv, Complete, Used
<1>5. /\ work \in Rows /\ work.runs = db.runs /\ work.run_scores = db.run_scores /\ work.diffs = db.diffs
      /\ work.test_results = db.test_results
      /\ work.ours = IF run.caller = "embedding" THEN db.ours \cup {LastId} ELSE db.ours
  BY <1>4 DEF Rows
<1> HIDE DEF work
<1>6. Complete(work)
  BY <1>2, <1>4, <1>5 DEF Complete, Whole
<1>7. Complete(work)' /\ Complete(db)'
  <2>1. PICK w, d : w = work /\ d = db /\ Complete(w) /\ Complete(d)
    BY <1>4, <1>6
  <2>2. Complete(w)' /\ Complete(d)'
    BY <1>1, <2>1, CompleteKept
  <2>3. work' = w /\ db' = d
    BY <1>1, <1>2, <2>1 DEF work
  <2> QED
    BY <2>2, <2>3 DEF Complete, Whole
<1>8. Complete(txn.mark)'
  <2>1. txn'.mark = work'
    BY <1>1, <1>2, <1>3 DEF work
  <2> QED
    BY <1>7, <2>1 DEF Complete, Whole
<1>9. Inserted(1)'
  BY <1>3 DEF Inserted, Ours
<1>10. saving'.at = 1 /\ (saving'.started <=> run.caller # "embedding") /\ saving' \in Savings
  <2> DEFINE first == 1
             own == run.caller # "embedding"
  <2>1. saving' = [at |-> first, started |-> own] /\ first \in 0..5 /\ own \in BOOLEAN /\ first = 1
    BY <1>1
  <2> HIDE DEF first, own
  <2>2. saving'.at = first /\ saving'.started = own /\ saving' \in Savings
    BY <2>1 DEF Savings
  <2> QED
    BY <2>1, <2>2 DEF own
<1>11. txn'.open = TRUE /\ txn' \in Transactions /\ txn'.mark = work
  BY <1>3, <1>5 DEF Transactions
<1>12. run.caller = "embedding" => LastId \in txn'.mark.ours
  BY <1>5, <1>11
<1> QED
  BY <1>1, <1>2, <1>7, <1>8, <1>9, <1>10, <1>11, <1>12 DEF StoreInv, Transactions, Savings

\* One insert more.
LEMMA InsertStore ==
  ASSUME IdsInv, RecordInv, StoreInv, Insert
  PROVE  StoreInv'
<1>1. /\ run' = run /\ record' = record /\ db' = db /\ saving.at \in 1..4
      /\ saving' = [saving EXCEPT !.at = @ + 1]
  BY DEF Insert, Tables
<1>2. /\ Used' = Used /\ LastId' = LastId /\ LastId \in Used /\ run.caller = record[LastId].caller
      /\ run.at = "scored" /\ txn.open /\ Complete(txn.mark) /\ Inserted(saving.at)
      /\ (saving.started <=> run.caller # "embedding") /\ Complete(db)
      /\ (run.caller = "embedding" => LastId \in txn.mark.ours)
      /\ txn \in Transactions /\ saving \in Savings
  BY <1>1, RecordsKept DEF StoreInv, Transactions, Savings
<1>3. LastId \in Ids
  BY <1>2 DEF Used
<1>4. /\ saving' \in Savings /\ saving'.at = saving.at + 1 /\ saving'.started = saving.started
  <2> DEFINE next == saving.at + 1
  <2>1. next \in 0..5 /\ saving' = [saving EXCEPT !.at = next]
    BY <1>1
  <2> HIDE DEF next
  <2>2. saving' \in Savings /\ saving'.at = next /\ saving'.started = saving.started
    BY <1>2, <2>1 DEF Savings
  <2> QED
    BY <2>2 DEF next
<1>5. /\ txn' \in Transactions /\ txn'.open = txn.open /\ txn'.mark = txn.mark
      /\ txn'.work.runs = txn.mark.runs \cup Ours(saving.at + 1 > 1)
      /\ txn'.work.run_scores = txn.mark.run_scores \cup Ours(saving.at + 1 > 2)
      /\ txn'.work.diffs = txn.mark.diffs \cup Ours(saving.at + 1 > 3)
      /\ txn'.work.test_results = txn.mark.test_results \cup Ours(saving.at + 1 > 4 /\ record[LastId].results)
      /\ txn'.work.ours = txn.mark.ours
  <2>0. ASSUME NEW w \in Rows, txn' = [txn EXCEPT !.work = w]
        PROVE  txn' \in Transactions /\ txn'.open = txn.open /\ txn'.mark = txn.mark /\ txn'.work = w
    BY <1>2, <2>0 DEF Transactions
  <2>6. /\ txn.work.runs = txn.mark.runs \cup Ours(saving.at > 1)
        /\ txn.work.run_scores = txn.mark.run_scores \cup Ours(saving.at > 2)
        /\ txn.work.diffs = txn.mark.diffs \cup Ours(saving.at > 3)
        /\ txn.work.test_results = txn.mark.test_results \cup Ours(saving.at > 4 /\ record[LastId].results)
        /\ txn.work.ours = txn.mark.ours
    BY <1>2 DEF Inserted
  <2>1. CASE saving.at = 1
    <3> DEFINE w == [txn.work EXCEPT !.runs = @ \cup {LastId}]
    <3>1. txn' = [txn EXCEPT !.work["runs"] = @ \cup {LastId}]
      BY <2>1 DEF Insert, Tables
    <3>2. txn' = [txn EXCEPT !.work = w]
      BY <1>2, <3>1 DEF Transactions, Rows
    <3>3. /\ w \in Rows /\ w.runs = txn.work.runs \cup {LastId}
          /\ w.run_scores = txn.work.run_scores /\ w.diffs = txn.work.diffs /\ w.test_results = txn.work.test_results /\ w.ours = txn.work.ours
      BY <1>2, <1>3 DEF Transactions, Rows
    <3> HIDE DEF w
    <3>4. txn' \in Transactions /\ txn'.open = txn.open /\ txn'.mark = txn.mark /\ txn'.work = w
      BY <1>2, <3>2, <3>3, <2>0
    <3> QED
      BY <2>1, <2>6, <3>3, <3>4 DEF Ours
  <2>2. CASE saving.at = 2
    <3> DEFINE w == [txn.work EXCEPT !.run_scores = @ \cup {LastId}]
    <3>1. txn' = [txn EXCEPT !.work["run_scores"] = @ \cup {LastId}]
      BY <2>2 DEF Insert, Tables
    <3>2. txn' = [txn EXCEPT !.work = w]
      BY <1>2, <3>1 DEF Transactions, Rows
    <3>3. /\ w \in Rows /\ w.run_scores = txn.work.run_scores \cup {LastId}
          /\ w.runs = txn.work.runs /\ w.diffs = txn.work.diffs /\ w.test_results = txn.work.test_results /\ w.ours = txn.work.ours
      BY <1>2, <1>3 DEF Transactions, Rows
    <3> HIDE DEF w
    <3>4. txn' \in Transactions /\ txn'.open = txn.open /\ txn'.mark = txn.mark /\ txn'.work = w
      BY <1>2, <3>2, <3>3, <2>0
    <3> QED
      BY <2>2, <2>6, <3>3, <3>4 DEF Ours
  <2>3. CASE saving.at = 3
    <3> DEFINE w == [txn.work EXCEPT !.diffs = @ \cup {LastId}]
    <3>1. txn' = [txn EXCEPT !.work["diffs"] = @ \cup {LastId}]
      BY <2>3 DEF Insert, Tables
    <3>2. txn' = [txn EXCEPT !.work = w]
      BY <1>2, <3>1 DEF Transactions, Rows
    <3>3. /\ w \in Rows /\ w.diffs = txn.work.diffs \cup {LastId}
          /\ w.runs = txn.work.runs /\ w.run_scores = txn.work.run_scores /\ w.test_results = txn.work.test_results /\ w.ours = txn.work.ours
      BY <1>2, <1>3 DEF Transactions, Rows
    <3> HIDE DEF w
    <3>4. txn' \in Transactions /\ txn'.open = txn.open /\ txn'.mark = txn.mark /\ txn'.work = w
      BY <1>2, <3>2, <3>3, <2>0
    <3> QED
      BY <2>3, <2>6, <3>3, <3>4 DEF Ours
  <2>4. CASE saving.at = 4 /\ record[LastId].results
    <3> DEFINE w == [txn.work EXCEPT !.test_results = @ \cup {LastId}]
    <3>1. txn' = [txn EXCEPT !.work["test_results"] = @ \cup {LastId}]
      BY <2>4 DEF Insert, Tables
    <3>2. txn' = [txn EXCEPT !.work = w]
      BY <1>2, <3>1 DEF Transactions, Rows
    <3>3. /\ w \in Rows /\ w.test_results = txn.work.test_results \cup {LastId}
          /\ w.runs = txn.work.runs /\ w.run_scores = txn.work.run_scores /\ w.diffs = txn.work.diffs /\ w.ours = txn.work.ours
      BY <1>2, <1>3 DEF Transactions, Rows
    <3> HIDE DEF w
    <3>4. txn' \in Transactions /\ txn'.open = txn.open /\ txn'.mark = txn.mark /\ txn'.work = w
      BY <1>2, <3>2, <3>3, <2>0
    <3> QED
      BY <2>4, <2>6, <3>3, <3>4 DEF Ours
  <2>5. CASE saving.at = 4 /\ ~record[LastId].results
    <3>1. txn' = txn
      BY <2>5 DEF Insert, Tables
    <3>2. /\ Ours(saving.at > 1) = {LastId} /\ Ours(saving.at + 1 > 1) = {LastId}
          /\ Ours(saving.at > 2) = {LastId} /\ Ours(saving.at + 1 > 2) = {LastId}
          /\ Ours(saving.at > 3) = {LastId} /\ Ours(saving.at + 1 > 3) = {LastId}
      BY <2>5 DEF Ours
    <3>3. /\ Ours(saving.at > 4 /\ record[LastId].results) = {}
          /\ Ours(saving.at + 1 > 4 /\ record[LastId].results) = {}
      BY <2>5 DEF Ours
    <3> QED
      BY <1>2, <2>6, <3>1, <3>2, <3>3
  <2> QED
    BY <1>1, <2>1, <2>2, <2>3, <2>4, <2>5
<1>6. Complete(txn.mark)' /\ Complete(db)'
  <2>1. PICK w, d : w = txn.mark /\ d = db /\ Complete(w) /\ Complete(d)
    BY <1>2
  <2>2. Complete(w)' /\ Complete(d)'
    BY <1>1, <2>1, CompleteKept
  <2>3. txn'.mark = w /\ db' = d
    BY <1>1, <1>5, <2>1
  <2> QED
    BY <2>2, <2>3 DEF Complete, Whole
<1>7. Inserted(saving.at)'
  BY <1>1, <1>2, <1>4, <1>5 DEF Inserted, Ours
<1> QED
  BY <1>1, <1>2, <1>4, <1>5, <1>6, <1>7 DEF StoreInv, Transactions, Savings

\* An insert fails: the caller has its own rows, or no transaction.
LEMMA FailStore ==
  ASSUME RunInv, IdsInv, RecordInv, StoreInv, InsertFails
  PROVE  StoreInv' /\ run' \in RunState /\ run'.at \in {"none", "refused"} /\ run.at # "none"
<1>1. /\ record' = record /\ db' = db /\ saving' = Resting /\ saving.at \in 1..4
      /\ txn' = (IF saving.started THEN Closed ELSE [txn EXCEPT !.work = txn.mark])
      /\ run' = IF run.caller = "embedding" THEN [run EXCEPT !.at = "refused"] ELSE NoRun
  BY DEF InsertFails, Tables, RollbackTo
<1>2. /\ Used' = Used /\ LastId' = LastId /\ LastId \in Used /\ run.caller = record[LastId].caller
      /\ run.at = "scored" /\ txn.open /\ Complete(txn.mark)
      /\ (saving.started <=> run.caller # "embedding") /\ Complete(db)
      /\ (run.caller = "embedding" => LastId \in txn.mark.ours)
      /\ txn \in Transactions /\ run \in RunState
  BY <1>1, RecordsKept DEF StoreInv, Transactions, RunInv
<1>4. PICK w, d : w = txn.mark /\ d = db /\ Complete(w) /\ Complete(d)
  BY <1>2
<1>5. Complete(w)' /\ Complete(d)'
  BY <1>1, <1>4, CompleteKept
<1>6. Complete(db)'
  BY <1>1, <1>4, <1>5 DEF Complete, Whole
<1>7. CASE run.caller = "embedding"
  <2>1. run' \in RunState /\ run'.at = "refused" /\ run'.caller = run.caller
    BY <1>1, <1>2, <1>7 DEF RunState
  <2>2. txn' \in Transactions /\ txn'.open = txn.open /\ txn'.work = txn.mark
    BY <1>1, <1>2, <1>7 DEF Transactions
  <2>3. Complete(txn.work)'
    BY <1>4, <1>5, <2>2 DEF Complete, Whole
  <2> QED
    BY <1>1, <1>2, <1>6, <1>7, <2>1, <2>2, <2>3, Nothings DEF StoreInv, Transactions, Savings
<1>8. CASE run.caller # "embedding"
  <2>1. run' \in RunState /\ run'.at = "none" /\ txn' = Closed
    BY <1>1, <1>2, <1>8, SnapshotFiles, ReadersAssumption DEF NoRun, RunState, Callers
  <2> QED
    BY <1>1, <1>2, <1>6, <2>1, Nothings DEF StoreInv, Transactions, Savings
<1> QED
  BY <1>7, <1>8

\* Complete rows are committed, or may be; the run is over, or goes to the caller.
LEMMA EndStore ==
  ASSUME RunInv, IdsInv, RecordInv, StoreInv, EndSave
  PROVE  StoreInv' /\ run' \in RunState /\ run'.at \in {"none", "saved"} /\ run.at # "none"
<1>1. /\ record' = record /\ saving' = Resting /\ saving.at = 5
      /\ \/ run.caller = "script" /\ db' = txn.work /\ txn' = Closed /\ run' = NoRun
         \/ run.caller # "script" /\ run' = [run EXCEPT !.at = "saved"] /\ db' = db /\ txn' = txn
  BY DEF EndSave, Tables
<1>2. /\ Used' = Used /\ LastId' = LastId /\ LastId \in Used /\ run.caller = record[LastId].caller
      /\ run.at = "scored" /\ txn.open /\ Complete(txn.mark) /\ Inserted(5) /\ Complete(db)
      /\ (run.caller = "embedding" => LastId \in txn.mark.ours)
      /\ txn \in Transactions /\ run \in RunState
  BY <1>1, RecordsKept DEF StoreInv, Transactions, RunInv
<1>3. Complete(txn.work) /\ LastId \in txn.work.runs /\ txn.work.ours = txn.mark.ours
  <2> DEFINE w == txn.work
             m == txn.mark
  <2>1. Ours(5 > 1) = {LastId} /\ Ours(5 > 2) = {LastId} /\ Ours(5 > 3) = {LastId}
    BY DEF Ours
  <2>2. Ours(5 > 4 /\ record[LastId].results) = IF record[LastId].results THEN {LastId} ELSE {}
    BY DEF Ours
  <2>3. /\ w.runs = m.runs \cup {LastId} /\ w.run_scores = m.run_scores \cup {LastId}
        /\ w.diffs = m.diffs \cup {LastId} /\ w.ours = m.ours
        /\ w.test_results = m.test_results \cup IF record[LastId].results THEN {LastId} ELSE {}
    BY <1>2, <2>1, <2>2 DEF Inserted
  <2>4. w \in Rows /\ Complete(m)
    BY <1>2 DEF Transactions
  <2> HIDE DEF w, m
  <2>5. Complete(w) /\ LastId \in w.runs /\ w.ours = m.ours
    BY <1>2, <2>3, <2>4 DEF Complete, Whole
  <2> QED
    BY <2>5 DEF w, m
<1>4. CASE run.caller = "script"
  <2>1. PICK w : w = txn.work /\ Complete(w)
    BY <1>3
  <2>2. Complete(db)'
    BY <1>1, <1>4, <2>1, CompleteCommits
  <2>3. run' = NoRun /\ txn' = Closed
    BY <1>1, <1>4
  <2>4. run' \in RunState /\ run'.at = "none"
    BY <2>3, SnapshotFiles, ReadersAssumption DEF NoRun, RunState, Callers
  <2> QED
    BY <1>1, <1>2, <2>2, <2>3, <2>4, Nothings DEF StoreInv, Transactions, Savings
<1>5. CASE run.caller # "script"
  <2>1. run' \in RunState /\ run'.at = "saved" /\ run'.caller = run.caller
    BY <1>1, <1>2, <1>5 DEF RunState
  <2>2. PICK w, d : w = txn.work /\ d = db /\ Complete(w) /\ Complete(d)
    BY <1>2, <1>3
  <2>3. Complete(w)' /\ Complete(d)'
    BY <1>1, <1>5, <2>2, CompleteKept
  <2>4. Complete(txn.work)' /\ Complete(db)'
    BY <1>1, <1>5, <2>2, <2>3 DEF Complete, Whole
  <2> QED
    BY <1>1, <1>2, <1>3, <1>5, <2>1, <2>4, Nothings DEF StoreInv, Transactions, Savings
<1> QED
  BY <1>4, <1>5, <1>1, <1>2

\* The caller commits; the worker's link names a run that is there.
LEMMA CommitStore ==
  ASSUME RunInv, IdsInv, RecordInv, StoreInv, Commit
  PROVE  StoreInv' /\ run' \in RunState /\ run'.at = "none"
<1>1. /\ record' = record /\ saving' = saving /\ txn' = Closed /\ run' = NoRun
      /\ run.at \in {"saved", "refused"}
      /\ db' = IF run.caller = "worker" THEN [txn.work EXCEPT !.ours = @ \cup {LastId}] ELSE txn.work
  BY DEF Commit
<1>2. /\ Used' = Used /\ LastId' = LastId /\ LastId \in Used /\ run.caller = record[LastId].caller
      /\ Complete(txn.work) /\ saving = Resting
      /\ (run.at = "saved" => LastId \in txn.work.runs) /\ (run.at = "refused" => run.caller = "embedding")
  BY <1>1, RecordsKept DEF StoreInv
<1> DEFINE w == txn.work
           linked == [w EXCEPT !.ours = @ \cup {LastId}]
<1>3. w \in Rows /\ LastId \in Ids
  BY <1>2 DEF Complete, Used
<1>4. /\ linked \in Rows /\ linked.runs = w.runs /\ linked.run_scores = w.run_scores /\ linked.diffs = w.diffs
      /\ linked.test_results = w.test_results /\ linked.ours = w.ours \cup {LastId}
  BY <1>3 DEF Rows
<1>5. run.caller = "worker" => LastId \in w.runs
  BY <1>1, <1>2
<1>6. Complete(w)
  BY <1>2
<1>7. db' = IF run.caller = "worker" THEN linked ELSE w
  BY <1>1
<1> HIDE DEF linked, w
<1>8. run.caller = "worker" => Complete(linked)
  BY <1>2, <1>4, <1>5, <1>6 DEF Complete, Whole
<1>9. PICK rows : db' = rows /\ Complete(rows)
  BY <1>6, <1>7, <1>8
<1>10. Complete(db)'
  BY <1>1, <1>9, CompleteCommits
<1>11. run' \in RunState /\ run'.at = "none"
  BY <1>1, SnapshotFiles, ReadersAssumption DEF NoRun, RunState, Callers
<1> QED
  BY <1>1, <1>2, <1>10, <1>11, Nothings DEF StoreInv, Transactions, Savings

\* The run is over and nothing of it was committed.
LEMMA DropStore ==
  ASSUME RunInv, IdsInv, RecordInv, StoreInv, UNCHANGED <<record, db>>, run' = NoRun, txn' = Closed, saving' = Resting
  PROVE  StoreInv' /\ run' \in RunState /\ run'.at = "none"
<1>1. run' \in RunState /\ run'.at = "none"
  BY SnapshotFiles, ReadersAssumption DEF NoRun, RunState, Callers
<1>2. PICK d : d = db /\ Complete(d)
  BY DEF StoreInv
<1>3. Complete(d)'
  BY <1>2, CompleteKept
<1>4. Complete(db)'
  BY <1>2, <1>3 DEF Complete, Whole
<1> QED
  BY <1>1, <1>4, Nothings DEF StoreInv, Transactions, Savings

\* Before there is a record, and while nothing is done to the store, it is kept.
LEMMA StoreKept ==
  ASSUME IdsInv, RecordInv, StoreInv, UNCHANGED <<record, db, txn, saving>>,
         run' = run \/ (run.at \in {"none", "acting", "acted"} /\ run'.at \in {"acting", "acted", "grading"})
  PROVE  StoreInv'
<1>1. Used' = Used /\ LastId' = LastId
  BY RecordsKept
<1>2. Rows' = Rows
  BY DEF Rows
<1>3. \A rows : Complete(rows) => Complete(rows)'
  BY CompleteKept
<1>4. PICK d, m, w : d = db /\ m = txn.mark /\ w = txn.work
  OBVIOUS
<1>5. (Complete(d) => Complete(d)') /\ (Complete(m) => Complete(m)') /\ (Complete(w) => Complete(w)')
  BY <1>3
<1>6. (Complete(db) => Complete(db)') /\ (Complete(txn.mark) => Complete(txn.mark)')
      /\ (Complete(txn.work) => Complete(txn.work)')
  BY <1>4, <1>5 DEF Complete, Whole
<1>7. Inserted(saving.at) => Inserted(saving.at)'
  BY <1>1 DEF Inserted, Ours
<1>8. CASE run' = run
  BY <1>1, <1>2, <1>6, <1>7, <1>8 DEF StoreInv
<1>9. CASE run.at \in {"none", "acting", "acted"} /\ run'.at \in {"acting", "acted", "grading"}
  <2>1. txn = Closed /\ saving = Resting
    BY <1>9 DEF StoreInv
  <2> QED
    BY <1>1, <1>2, <1>6, <1>9, <2>1, Nothings DEF StoreInv, Transactions, Savings
<1> QED
  BY <1>8, <1>9
----------------------------------------------------------------------------
(* What is shown.                                                          *)

\* What was shown stays true while records are only added, and runs only stored.
LEMMA BoardKept ==
  ASSUME StoreInv, BoardInv, UNCHANGED <<board, attested>>, Used \subseteq Used',
         \A i \in Used : record'[i] = record[i], db.runs \subseteq db'.runs
  PROVE  BoardInv'
<1>1. BoardState' = BoardState
  BY DEF BoardState
<1>2. db.runs \subseteq Used
  BY DEF StoreInv, Complete
<1>3. PICK b : b = board /\ BoardOk(b)
  BY DEF BoardInv
<1>4. b.at \in {"found", "shown"} =>
        Shown(b) \subseteq Used /\ b.passed \subseteq Used /\ b.lost \subseteq Used
  BY <1>2, <1>3 DEF BoardOk, Shown
<1>5. BoardOk(b)'
  BY <1>1, <1>3, <1>4 DEF BoardOk, Shown
<1> QED
  BY <1>3, <1>5 DEF BoardInv, BoardOk, Shown

\* A board a reader fills from the store as it is.
LEMMA BoardFilled ==
  ASSUME NEW b, BoardOk(b), board' = b, UNCHANGED <<record, db>>, attested' \in BOOLEAN
  PROVE  BoardInv'
<1>1. Used' = Used /\ BoardState' = BoardState
  BY DEF Used, Unused, BoardState
<1>2. BoardOk(b)'
  BY <1>1 DEF BoardOk, Shown
<1> QED
  BY <1>2 DEF BoardInv, BoardOk, Shown

\* Nothing is shown.
LEMMA BlankOk == Blank.at = "none" /\ Blank \in BoardState /\ BoardOk(Blank)
<1> DEFINE first == 1
           b == [at |-> "none", view |-> "report", wanted |-> first, passed |-> {}, lost |-> {}, voided |-> {},
                 historical |-> {}, excluded |-> {}, unaccounted |-> {}, results |-> {}]
<1>1. Blank = b
  BY DEF Blank
<1>2. first \in 1..MaxVersion /\ "report" \in Views
  BY ReadersAssumption DEF Views
<1> HIDE DEF first
<1>3. b \in BoardState /\ b.at = "none"
  BY <1>2 DEF BoardState
<1> HIDE DEF b
<1>4. BoardOk(b)
  BY <1>3 DEF BoardOk
<1> QED
  BY <1>1, <1>3, <1>4

\* The record of a run that is stored is an honest one.
LEMMA StoredRecords ==
  ASSUME RecordInv, StoreInv, NEW i \in Used
  PROVE  i \in Ids /\ record[i] \in RunRecord /\ Honest(record[i])
BY DEF RecordInv, Used, Unused

\* The work of a mock is never a model's evidence (classify).
LEMMA MocksAreTold ==
  ASSUME RecordInv, StoreInv, BoardInv, NEW i \in Used, record[i].by = "mock"
  PROVE  Classify(i) \notin {"real", "legacy"}
<1> DEFINE r == record[i]
<1>1. r.job /\ (r.kind = "mock" \/ (r.kind = "null" /\ r.asked = "mock"))
  BY StoredRecords DEF Honest
<1>2. JobKind(i) \in {r.asked, "none"}
  BY DEF JobKind
<1>3. CASE r.kind = "mock"
  <2>1. Classify(i) \in {"conflict", ClassOf("mock")}
    BY <1>3 DEF Classify, Kinds
  <2> QED
    BY <2>1 DEF ClassOf
<1>4. CASE r.kind = "null" /\ r.asked = "mock"
  <2>1. Classify(i) \in {"conflict", ClassOf("mock")}
    BY <1>1, <1>2, <1>4 DEF Classify, Kinds
  <2> QED
    BY <2>1 DEF ClassOf
<1> QED
  BY <1>1, <1>3, <1>4

\* The stored runs a view takes are shown as passed, lost or voided, by their records.
LEMMA Taken ==
  ASSUME RecordInv, StoreInv, NEW chosen, chosen \subseteq Projected
  PROVE  /\ chosen \subseteq db.runs /\ chosen \subseteq Used /\ chosen \subseteq Ids
         /\ Passes(chosen) \cup (Valid(chosen) \ Passes(chosen)) \cup (chosen \ Valid(chosen)) = chosen
         /\ \A i \in Passes(chosen) : i \in chosen /\ record[i].pass
         /\ \A i \in Valid(chosen) \ Passes(chosen) : ~record[i].pass /\ ~record[i].voided
<1>1. chosen \subseteq db.runs /\ db.runs \subseteq Used
  BY DEF Projected, StoreInv, Complete
<1>2. \A i \in chosen : record[i].voided <=> record[i].status = "infra_failure"
  BY <1>1, StoredRecords DEF Honest
<1>3. Used \subseteq Ids
  BY DEF Used
<1> QED
  BY <1>1, <1>2, <1>3 DEF Passes, Valid

\* The aggregates of a scope (load_stores).
LEMMA LoadBoard ==
  ASSUME RecordInv, StoreInv, BoardInv, LoadStores
  PROVE  BoardInv'
<1>1. board \in BoardState /\ UNCHANGED <<record, db, attested>> /\ attested \in BOOLEAN
  BY DEF LoadStores, BoardInv, BoardOk
<1>2. PICK scope \in DOMAIN Scopes, selected \in 1..MaxVersion :
        board' = [Show(scope, Counted(scope) \cap Of(selected)) EXCEPT
                    !.wanted = selected, !.historical = Historical(scope),
                    !.excluded = Projected \ Counted(scope), !.unaccounted = db.runs \ Projected]
  BY DEF LoadStores
<1> DEFINE chosen == Counted(scope) \cap Of(selected)
           passed == Passes(chosen)
           lost == Valid(chosen) \ Passes(chosen)
           voided == chosen \ Valid(chosen)
           historical == Historical(scope)
           excluded == Projected \ Counted(scope)
           unaccounted == db.runs \ Projected
           b == [board EXCEPT !.at = "shown", !.view = scope, !.passed = passed, !.lost = lost, !.voided = voided,
                   !.wanted = selected, !.historical = historical, !.excluded = excluded,
                   !.unaccounted = unaccounted]
<1>3. chosen \subseteq Projected
  BY DEF Counted
<1>4. /\ chosen \subseteq db.runs /\ chosen \subseteq Used /\ chosen \subseteq Ids /\ passed \cup lost \cup voided = chosen
      /\ \A i \in passed : i \in chosen /\ record[i].pass
      /\ \A i \in lost : ~record[i].pass /\ ~record[i].voided
  BY <1>3, Taken
<1>5. /\ historical \subseteq Ids /\ excluded \subseteq Ids /\ unaccounted \subseteq Ids
  <2>1. Projected \subseteq db.runs /\ db.runs \subseteq Used /\ Used \subseteq Ids
    BY DEF Projected, StoreInv, Complete, Used
  <2> QED
    BY <2>1 DEF Historical, Counted
<1>6. ASSUME NEW i \in passed
      PROVE  (scope \in {"benchmark", "real"} => record[i].by # "mock") /\ record[i].version = selected
  <2>1. i \in Counted(scope) /\ i \in Of(selected) /\ i \in Used
    BY <1>4
  <2>2. record[i].version = selected
    BY <2>1 DEF Of
  <2>3. Classify(i) \in Scopes[scope]
    BY <2>1 DEF Counted
  <2>4. scope \in {"benchmark", "real"} => Scopes[scope] \subseteq {"real", "legacy"}
    BY DEF Scopes
  <2>5. scope \in {"benchmark", "real"} => record[i].by # "mock"
    BY <2>1, <2>3, <2>4, MocksAreTold
  <2> QED
    BY <2>2, <2>5
<1>7. scope \in Views /\ scope # "run" /\ scope # "report"
  BY DEF Views, Scopes
<1>8. board' = b
  BY <1>2 DEF Show
<1>9. passed \subseteq Ids /\ lost \subseteq Ids /\ voided \subseteq Ids
  BY <1>4
<1> HIDE DEF chosen, passed, lost, voided, historical, excluded, unaccounted
<1>10. /\ b \in BoardState /\ b.at = "shown" /\ b.view = scope /\ b.wanted = selected
       /\ b.passed = passed /\ b.lost = lost /\ b.voided = voided
  BY <1>1, <1>5, <1>7, <1>9 DEF BoardState
<1> HIDE DEF b
<1>11. BoardOk(b)
  BY <1>4, <1>6, <1>7, <1>10 DEF BoardOk, Shown
<1> QED
  BY <1>1, <1>8, <1>11, BoardFilled

\* One run is found (the run's row, then its tests).
LEMMA FindBoard ==
  ASSUME RecordInv, StoreInv, BoardInv, FindRun
  PROVE  BoardInv'
<1>1. board \in BoardState /\ UNCHANGED <<record, db, attested>> /\ attested \in BOOLEAN
  BY DEF FindRun, BoardInv, BoardOk
<1>2. PICK selected \in 1..MaxVersion :
        board' = [Show("run", Of(selected)) EXCEPT !.at = "found", !.wanted = selected]
  BY DEF FindRun
<1> DEFINE chosen == Of(selected)
           passed == Passes(chosen)
           lost == Valid(chosen) \ Passes(chosen)
           voided == chosen \ Valid(chosen)
           b == [board EXCEPT !.at = "found", !.view = "run", !.passed = passed, !.lost = lost, !.voided = voided,
                   !.wanted = selected]
<1>3. chosen \subseteq Projected /\ \A i \in chosen : record[i].version = selected
  BY DEF Of
<1>4. /\ chosen \subseteq db.runs /\ chosen \subseteq Used /\ chosen \subseteq Ids /\ passed \cup lost \cup voided = chosen
      /\ \A i \in passed : i \in chosen /\ record[i].pass
      /\ \A i \in lost : ~record[i].pass /\ ~record[i].voided
  BY <1>3, Taken
<1>5. board' = b
  BY <1>1, <1>2 DEF Show, BoardState
<1>6. passed \subseteq Ids /\ lost \subseteq Ids /\ voided \subseteq Ids /\ "run" \in Views
  BY <1>4 DEF Views
<1> HIDE DEF chosen, passed, lost, voided
<1>7. /\ b \in BoardState /\ b.at = "found" /\ b.view = "run" /\ b.wanted = selected
      /\ b.passed = passed /\ b.lost = lost /\ b.voided = voided
  BY <1>1, <1>6 DEF BoardState
<1> HIDE DEF b
<1>8. BoardOk(b)
  BY <1>3, <1>4, <1>7 DEF BoardOk, Shown
<1> QED
  BY <1>1, <1>5, <1>8, BoardFilled

\* Its tests, all of them or none as the run has any.
LEMMA TestsBoard ==
  ASSUME RecordInv, StoreInv, BoardInv, ReadTests
  PROVE  BoardInv'
<1>1. BoardOk(board) /\ board.at = "found" /\ UNCHANGED <<record, db, attested>> /\ attested \in BOOLEAN
  BY DEF ReadTests, BoardInv
<1> DEFINE results == db.test_results \cap Shown(board)
           b == [board EXCEPT !.at = "shown", !.results = results]
<1>2. board' = b
  BY DEF ReadTests, Shown
<1>3. Shown(board) \subseteq db.runs /\ db.runs \subseteq Used /\ Used \subseteq Ids
  BY <1>1 DEF BoardOk, StoreInv, Complete, Used
<1>4. results = {i \in Shown(board) : record[i].results} /\ results \subseteq Ids
  BY <1>3 DEF StoreInv, Complete, Whole
<1> HIDE DEF results
<1>5. /\ b \in BoardState /\ b.at = "shown" /\ b.view = board.view /\ b.wanted = board.wanted
      /\ b.passed = board.passed /\ b.lost = board.lost /\ b.voided = board.voided /\ b.results = results
  BY <1>1, <1>4 DEF BoardOk, BoardState
<1> HIDE DEF b
<1>6. BoardOk(b)
  BY <1>1, <1>3, <1>4, <1>5 DEF BoardOk, Shown
<1> QED
  BY <1>1, <1>2, <1>6, BoardFilled

\* The trials of an evaluation: each is linked to a run that is there.
LEMMA ReportBoard ==
  ASSUME RecordInv, StoreInv, BoardInv, ReportEvaluation
  PROVE  BoardInv'
<1>1. UNCHANGED <<record, db, attested>> /\ attested \in BOOLEAN
  BY DEF ReportEvaluation, BoardInv
<1> DEFINE linked == {i \in db.ours \cap db.run_scores : record[i].caller = "worker"}
           passed == {i \in linked : record[i].pass /\ ~record[i].voided}
           lost == {i \in linked : ~record[i].pass /\ ~record[i].voided}
           voided == {i \in linked : record[i].voided}
           b == [Blank EXCEPT !.at = "shown", !.view = "report", !.passed = passed, !.voided = voided, !.lost = lost]
<1>2. board' = b
  BY DEF ReportEvaluation
<1>3. linked \subseteq Used /\ Used \subseteq Ids
  BY DEF StoreInv, Complete, Used
<1>4. passed \subseteq linked /\ lost \subseteq linked /\ voided \subseteq linked
  OBVIOUS
<1>5. (\A i \in passed : record[i].pass) /\ \A i \in lost : ~record[i].pass /\ ~record[i].voided
  OBVIOUS
<1>6. "report" \in Views
  BY DEF Views
<1> HIDE DEF linked, passed, lost, voided
<1>7. /\ b \in BoardState /\ b.at = "shown" /\ b.view = "report"
      /\ b.passed = passed /\ b.lost = lost /\ b.voided = voided
  BY <1>3, <1>4, <1>6, BlankOk DEF BoardState
<1> HIDE DEF b
<1>8. BoardOk(b)
  BY <1>3, <1>4, <1>5, <1>7 DEF BoardOk, Shown
<1> QED
  BY <1>1, <1>2, <1>8, BoardFilled

\* Every reader shows what is stored.
LEMMA ReadersBoard ==
  ASSUME RunInv, RecordInv, StoreInv, BoardInv,
         \/ ReadManifest \/ LoadStores \/ FindRun \/ ReadTests \/ ReportEvaluation \/ Answer
         \/ BumpVersion \/ Damage
  PROVE  BoardInv'
<1>1. CASE ReadManifest
  <2> DEFINE b == [Blank EXCEPT !.at = "manifest", !.wanted = version]
  <2>1. board' = b /\ UNCHANGED <<record, db, attested>> /\ version \in 1..MaxVersion
    BY <1>1 DEF ReadManifest, RunInv
  <2>2. b \in BoardState /\ b.at = "manifest"
    BY <2>1, BlankOk DEF BoardState
  <2> HIDE DEF b
  <2>3. BoardOk(b) /\ attested \in BOOLEAN
    BY <2>2 DEF BoardOk, BoardInv
  <2> QED
    BY <2>1, <2>3, BoardFilled
<1>2. CASE Answer
  <2>1. board' = Blank /\ UNCHANGED <<record, db, attested>> /\ attested \in BOOLEAN
    BY <1>2 DEF Answer, BoardInv
  <2> QED
    BY <2>1, BlankOk, BoardFilled
<1>3. CASE BumpVersion
  <2>1. Used' = Used /\ UNCHANGED <<record, db, board, attested>>
    BY <1>3 DEF BumpVersion, Used, Unused
  <2> QED
    BY <2>1, BoardKept
<1>4. CASE Damage
  <2>1. board' = board /\ UNCHANGED <<record, db>> /\ attested' \in BOOLEAN
    BY <1>4 DEF Damage
  <2>2. BoardOk(board)
    BY DEF BoardInv
  <2> QED
    BY <2>1, <2>2, BoardFilled
<1> QED
  BY <1>1, <1>2, <1>3, <1>4, LoadBoard, FindBoard, TestsBoard, ReportBoard
----------------------------------------------------------------------------
(* The audit.                                                              *)

\* A set of numbers that is not empty has a least one.
LEMMA Least ==
  ASSUME NEW I, I \subseteq Nat, I # {}
  PROVE  Min(I) \in I
<1>1. PICK x \in I : \A y \in I : <<y, x>> \notin OpToRel(<, Nat)
  <2> HIDE DEF OpToRel
  <2> QED
    BY NatLessThanWellFounded, WFMin
<1>2. \A y \in I : x <= y
  <2> SUFFICES ASSUME NEW y \in I PROVE x <= y
    OBVIOUS
  <2>1. x \in Nat /\ y \in Nat
    BY <1>1
  <2>2. y < x => <<y, x>> \in OpToRel(<, Nat)
    BY <2>1 DEF OpToRel
  <2>3. ~(y < x)
    BY <1>1, <2>2
  <2> QED
    BY <2>1, <2>3
<1> QED
  BY <1>2 DEF Min

\* What a grading says of the tree it graded.
LEMMA Judging ==
  ASSUME pack \in Packs, NEW g, g.tree \in Tree,
         g.regression \in Said(g.tree, "regression"), g.hidden \in Said(g.tree, "hidden")
  PROVE  /\ AllPassed(g.regression) =>
              ~g.regression.errored /\ (g.tree.src \in pack.sound \/ (pack.visible /\ g.tree.tests = "edited"))
         /\ ~g.regression.errored /\ g.tree.src \in pack.sound => AllPassed(g.regression)
         /\ ~g.hidden.errored =>
              /\ g.tree.src \in Contents
              /\ g.hidden.passed = pack.hidden[g.tree.src] /\ g.hidden.failed = Hidden \ pack.hidden[g.tree.src]
         /\ g.hidden.errored => g.hidden.passed = {}
         /\ g.regression \in Suites /\ g.hidden \in Suites
<1> DEFINE tree == g.tree
           regression == g.regression
           hidden == g.hidden
<1>1. /\ tree \in Tree
      /\ regression \in {Errored, TimedOut, Result(ApplyDiff(CaptureDiff(tree)), "regression")}
      /\ hidden \in {Errored, TimedOut, Result(ApplyDiff(CaptureDiff(tree)), "hidden")}
  BY DEF Said
<1> HIDE DEF tree, regression, hidden
<1>2. /\ ~regression.errored =>
           (regression.failed = {} <=> tree.src \in pack.sound \/ (pack.visible /\ tree.tests = "edited"))
      /\ ~hidden.errored =>
           /\ tree.src \in Contents
           /\ hidden.passed = pack.hidden[tree.src] /\ hidden.failed = Hidden \ pack.hidden[tree.src]
      /\ hidden.errored => hidden.passed = {}
      /\ regression \in Suites /\ hidden \in Suites
  BY <1>1, Verdicts, Outcomes
<1> QED
  BY <1>2 DEF AllPassed, tree, regression, hidden

\* A grading passes what solves the task and nothing else, as far as it came to a
\* verdict and tests were not forged.
LEMMA Telling ==
  ASSUME pack \in Packs, NEW g, g.tree \in Tree,
         g.regression \in Said(g.tree, "regression"), g.hidden \in Said(g.tree, "hidden")
  PROVE  LET r == ReportOf(g)
         IN  /\ FunctionalPass(r) => Weight(Hidden) > 0 /\ (Forges(pack, g.tree) \/ Solves(g.tree))
             /\ Solves(g.tree) /\ Judged(g) /\ Weight(Hidden) > 0 => FunctionalPass(r)
             /\ ScopeOk(r) <=> ~ \E p \in Touched(CaptureDiff(g.tree)) : OutOfScope(p)
             /\ r.regression = g.regression /\ r.hidden = g.hidden
<1> DEFINE r == ReportOf(g)
<1>1. /\ r.diff = CaptureDiff(g.tree) /\ r.status = "valid" /\ r.regression = g.regression /\ r.hidden = g.hidden
  BY DEF ReportOf
<1> HIDE DEF r
<1>2. /\ ScopeOk(r) <=> ~ \E p \in Touched(CaptureDiff(g.tree)) : OutOfScope(p)
      /\ DiffExists(r) <=> Touched(CaptureDiff(g.tree)) # {}
      /\ ~Voided(r)
  BY <1>1 DEF ScopeOk, DiffExists, Voided
<1>3. /\ AllPassed(g.regression) =>
           ~g.regression.errored /\ (g.tree.src \in pack.sound \/ (pack.visible /\ g.tree.tests = "edited"))
      /\ ~g.regression.errored /\ g.tree.src \in pack.sound => AllPassed(g.regression)
      /\ ~g.hidden.errored =>
           /\ g.tree.src \in Contents
           /\ g.hidden.passed = pack.hidden[g.tree.src] /\ g.hidden.failed = Hidden \ pack.hidden[g.tree.src]
      /\ g.hidden.errored => g.hidden.passed = {}
  BY Judging
<1>4. ASSUME FunctionalPass(r), ~Forges(pack, g.tree)
      PROVE  Solves(g.tree)
  <2>1. /\ DiffExists(r) /\ ScopeOk(r) /\ AllPassed(g.regression)
        /\ g.hidden.passed # {} /\ g.hidden.failed = {}
    BY <1>1, <1>4 DEF FunctionalPass, Gate
  <2>2. ~g.hidden.errored
    BY <1>3, <2>1
  <2>3. g.tree.src \in Contents /\ pack.hidden[g.tree.src] = Hidden
    <3>1. g.tree.src \in Contents => pack.hidden[g.tree.src] \subseteq Hidden
      BY PackTyped
    <3> QED
      BY <1>3, <2>1, <2>2, <3>1
  <2>4. g.tree.src \in pack.sound
    BY <1>2, <1>3, <1>4, <2>1, Unforged
  <2> QED
    BY <1>2, <2>1, <2>3, <2>4 DEF Solves
<1>5. ASSUME FunctionalPass(r) PROVE Weight(Hidden) > 0
  <2>1. g.hidden.passed # {} /\ g.hidden.failed = {} /\ Weight(g.hidden.passed) > 0
    BY <1>1, <1>5 DEF FunctionalPass, Earned
  <2>2. g.hidden.passed = Hidden
    <3>1. g.tree.src \in Contents => pack.hidden[g.tree.src] \subseteq Hidden
      BY PackTyped
    <3> QED
      BY <1>3, <2>1, <3>1
  <2> QED
    BY <2>1, <2>2
<1>6. ASSUME Solves(g.tree), Judged(g), Weight(Hidden) > 0
      PROVE  FunctionalPass(r)
  <2>1. /\ g.tree.src \in pack.sound /\ pack.hidden[g.tree.src] = Hidden
        /\ DiffExists(r) /\ ScopeOk(r) /\ ~g.regression.errored /\ ~g.hidden.errored
    BY <1>2, <1>6 DEF Solves, Judged
  <2>2. AllPassed(g.regression) /\ g.hidden.passed = Hidden /\ g.hidden.failed = {} /\ Hidden # {}
    BY <1>3, <2>1, GradingAssumption
  <2> QED
    BY <1>1, <1>2, <1>6, <2>1, <2>2 DEF FunctionalPass, Gate, Earned
<1> QED
  BY <1>1, <1>2, <1>4, <1>5, <1>6 DEF r

\* The trees of a list of gradings.
LEMMA Listed ==
  ASSUME NEW S, NEW s \in Seq(S), NEW t \in Seq(S)
  PROVE  /\ s \o t \in Seq(S) /\ ToSet(s \o t) = ToSet(s) \cup ToSet(t) /\ ToSet(s) \subseteq S
<1>1. s \o t \in Seq(S) /\ Len(s \o t) = Len(s) + Len(t)
  OBVIOUS
<1>2. \A i \in 1..Len(s \o t) : (s \o t)[i] = IF i <= Len(s) THEN s[i] ELSE t[i - Len(s)]
  OBVIOUS
<1>3. /\ ToSet(s) = {s[i] : i \in 1..Len(s)} /\ ToSet(t) = {t[i] : i \in 1..Len(t)}
      /\ ToSet(s \o t) = {(s \o t)[i] : i \in 1..Len(s \o t)}
  BY <1>1 DEF ToSet
<1>4. ASSUME NEW x \in ToSet(s) PROVE x \in ToSet(s \o t)
  <2>1. PICK i \in 1..Len(s) : x = s[i]
    BY <1>3
  <2>2. i \in 1..Len(s \o t) /\ (s \o t)[i] = x
    BY <1>1, <1>2, <2>1
  <2> QED
    BY <1>3, <2>2
<1>5. ASSUME NEW x \in ToSet(t) PROVE x \in ToSet(s \o t)
  <2>1. PICK i \in 1..Len(t) : x = t[i]
    BY <1>3
  <2>2. Len(s) + i \in 1..Len(s \o t) /\ (s \o t)[Len(s) + i] = x
    BY <1>1, <1>2, <2>1
  <2> QED
    BY <1>3, <2>2
<1>6. ASSUME NEW x \in ToSet(s \o t) PROVE x \in ToSet(s) \cup ToSet(t)
  <2>1. PICK i \in 1..Len(s \o t) : x = (s \o t)[i]
    BY <1>3
  <2>2. CASE i <= Len(s)
    BY <1>2, <1>3, <2>1, <2>2
  <2>3. CASE i > Len(s)
    <3>1. i - Len(s) \in 1..Len(t) /\ x = t[i - Len(s)]
      BY <1>1, <1>2, <2>1, <2>3
    <3> QED
      BY <1>3, <3>1
  <2> QED
    BY <2>2, <2>3
<1>7. ToSet(s) \subseteq S
  BY <1>3
<1> QED
  BY <1>1, <1>4, <1>5, <1>6, <1>7

\* A tree graded n times.
LEMMA GradesThere ==
  ASSUME NEW check, NEW tree, NEW n \in Nat \ {0}
  PROVE  \E x \in ToSet(Grades(check, tree, n)) : x.check = check
<1> DEFINE x == [check |-> check, tree |-> tree]
           s == Grades(check, tree, n)
<1>1. s = [k \in 1..n |-> x] /\ x.check = check
  BY DEF Grades
<1> HIDE DEF x
<1>2. 1 \in DOMAIN s /\ s[1] = x
  BY <1>1
<1> HIDE DEF s
<1>3. x \in ToSet(s)
  BY <1>2 DEF ToSet
<1> QED
  BY <1>1, <1>3 DEF s

LEMMA GradesListed ==
  ASSUME NEW S, NEW check, NEW tree, [check |-> check, tree |-> tree] \in S, NEW n \in Nat
  PROVE  Grades(check, tree, n) \in Seq(S)
<1> DEFINE x == [check |-> check, tree |-> tree]
           s == Grades(check, tree, n)
<1>1. s = [k \in 1..n |-> x]
  BY DEF Grades
<1>2. x \in S
  OBVIOUS
<1> HIDE DEF x
<1>3. s \in [1..n -> S]
  BY <1>1, <1>2
<1> HIDE DEF s
<1>4. s \in Seq(S)
  BY <1>3, SeqDef
<1> QED
  BY <1>4 DEF s

\* The place in a list of c trees, each n times.
LEMMA Place ==
  ASSUME NEW c \in Nat, NEW n \in Nat \ {0}, NEW k \in 1..c * n
  PROVE  (k - 1) \div n + 1 \in 1..c
<1> DEFINE q == (k - 1) \div n
           m == (k - 1) % n
<1>1. q \in Int /\ m \in 0..(n - 1) /\ k - 1 = n * q + m
  OBVIOUS
<1> HIDE DEF q, m
<1>2. q >= 0
  <2>1. q < 0 => n * q <= n * (-1)
    BY <1>1
  <2> QED
    BY <1>1, <2>1
<1>3. q < c
  <2>1. q >= c => n * q >= n * c
    BY <1>1
  <2>2. n * c = c * n /\ k <= c * n /\ c * n \in Nat
    OBVIOUS
  <2> QED
    BY <1>1, <2>1, <2>2
<1> QED
  BY <1>1, <1>2, <1>3 DEF q

\* Each of some trees n times.
LEMMA EachListed ==
  ASSUME NEW S, NEW check, NEW trees, IsFiniteSet(trees), NEW n \in Nat \ {0},
         \A tree \in trees : [check |-> check, tree |-> tree] \in S
  PROVE  Each(check, trees, n) \in Seq(S)
<1> DEFINE c == Cardinality(trees)
           f == SetToSeq(trees)
           s == Each(check, trees, n)
<1>1. c \in Nat /\ ExistsBijection(1..c, trees)
  BY FS_CardinalityType
<1>2. PICK b \in Bijection(1..c, trees) : TRUE
  BY <1>1 DEF ExistsBijection
<1>3. b \in [1..c -> trees] /\ IsInjective(b)
  BY <1>2 DEF Bijection, Injection, IsInjective
<1>4. f \in [1..c -> trees]
  BY <1>3 DEF SetToSeq
<1>5. c * n \in Nat
  BY <1>1
<1>6. s = [k \in 1..c * n |-> [check |-> check, tree |-> f[(k - 1) \div n + 1]]]
  BY DEF Each
<1> HIDE DEF c, f, s
<1>7. ASSUME NEW k \in 1..c * n
      PROVE  [check |-> check, tree |-> f[(k - 1) \div n + 1]] \in S
  <2>1. (k - 1) \div n + 1 \in 1..c
    BY <1>1, Place
  <2>2. f[(k - 1) \div n + 1] \in trees
    BY <1>4, <2>1
  <2> QED
    BY <2>2
<1>8. s \in [1..c * n -> S]
  BY <1>6, <1>7
<1>9. s \in Seq(S)
  BY <1>5, <1>8, SeqDef
<1> QED
  BY <1>9 DEF s

\* A tree to grade.
LEMMA PlannedOne ==
  ASSUME NEW mode, NEW check \in Checks, NEW tree \in Tree,
         check = "reference" => tree = pack.reference, check = "noop" => tree = Snapshot,
         mode = "validate" => check \in {"noop", "reference"}
  PROVE  [check |-> check, tree |-> tree] \in Planned(mode)
<1> DEFINE x == [check |-> check, tree |-> tree]
<1>1. x.check = check /\ x.tree = tree /\ x \in [check : Checks, tree : Tree]
  OBVIOUS
<1> HIDE DEF x
<1>2. x \in Planned(mode)
  BY <1>1 DEF Planned
<1> QED
  BY <1>2 DEF x

\* The controls and mutants of a pack.
LEMMA ControlTrees ==
  ASSUME pack \in Packs
  PROVE  /\ Controls \subseteq Tree /\ IsFiniteSet(Controls)
         /\ pack.mutants \subseteq Tree /\ IsFiniteSet(pack.mutants)
         /\ pack.unparsed \in Tree \cup {NoTree}
         /\ \A c \in pack.controls : c.tree \in Controls
<1>1. /\ pack \in Pack /\ IsFiniteSet(pack.controls) /\ IsFiniteSet(pack.mutants)
  BY GradingAssumption, AuditAssumption
<1>2. /\ pack.controls \subseteq [kind : {"known_bad", "semantic_mutant", "alternative"}, accept : BOOLEAN, tree : Tree]
      /\ pack.mutants \subseteq Tree /\ pack.unparsed \in Tree \cup {NoTree}
  BY <1>1 DEF Pack
<1>3. Controls = {c.tree : c \in pack.controls}
  BY DEF Controls
<1>4. Controls \subseteq Tree
  BY <1>2, <1>3
<1>5. IsFiniteSet(Controls)
  <2> DEFINE f == [c \in pack.controls |-> c.tree]
  <2>1. f \in [pack.controls -> Controls] /\ \A t \in Controls : \E c \in pack.controls : f[c] = t
    BY <1>3
  <2>2. f \in Surjection(pack.controls, Controls)
    BY <2>1 DEF Surjection
  <2> QED
    BY <1>1, <2>2, FS_Surjection
<1> QED
  BY <1>1, <1>2, <1>3, <1>4, <1>5

\* What an audit sets out to grade: the snapshot always, the reference if it can be.
LEMMA Plans ==
  ASSUME pack \in Packs, NEW mode \in Modes
  PROVE  /\ Plan(mode) \in Seq(Planned(mode))
         /\ \E x \in ToSet(Plan(mode)) : x.check = "noop"
         /\ ReferenceUsable => \E x \in ToSet(Plan(mode)) : x.check = "reference"
<1> DEFINE S == Planned(mode)
           a == IF ReferenceUsable THEN Grades("reference", pack.reference, Repeats) ELSE <<>>
           b == Grades("noop", Snapshot, 1)
           c == Each("control", Controls, 1)
           d == IF mode # "quick" /\ NoTree \notin {pack.reference, pack.unparsed}
                THEN Grades("unparsed", pack.unparsed, 1) ELSE <<>>
           e == Grades("again", Snapshot, Repeats)
           f == IF mode # "quick" THEN Each("again", Controls, Repeats) ELSE <<>>
<1>1. Plan(mode) = a \o b \o c \o d \o e \o f
  BY DEF Plan
<1>2. Repeats \in Nat \ {0} /\ 1 \in Nat \ {0} /\ Snapshot \in Tree /\ mode # "validate"
  BY AuditAssumption, SnapshotFiles DEF Modes
<1>3. /\ ReferenceUsable => pack.reference \in Tree
      /\ pack.unparsed # NoTree => pack.unparsed \in Tree
      /\ Controls \subseteq Tree /\ IsFiniteSet(Controls)
  BY PackTyped, ControlTrees DEF ReferenceUsable
<1>4. <<>> \in Seq(S)
  OBVIOUS
<1>5. a \in Seq(S) /\ (ReferenceUsable => \E x \in ToSet(a) : x.check = "reference")
  <2>1. CASE ReferenceUsable
    <3>1. [check |-> "reference", tree |-> pack.reference] \in S
      BY <1>2, <1>3, <2>1, PlannedOne DEF Checks
    <3>2. a = Grades("reference", pack.reference, Repeats) /\ Repeats \in Nat /\ Repeats > 0
      BY <1>2, <2>1
    <3> HIDE DEF S, a
    <3>3. a \in Seq(S)
      BY <3>1, <3>2, GradesListed
    <3>4. \E x \in ToSet(a) : x.check = "reference"
      BY <3>2, GradesThere
    <3> QED
      BY <3>3, <3>4
  <2>2. CASE ~ReferenceUsable
    BY <1>4, <2>2
  <2> QED
    BY <2>1, <2>2
<1>6. b \in Seq(S) /\ \E x \in ToSet(b) : x.check = "noop"
  <2> DEFINE once == 1
  <2>1. [check |-> "noop", tree |-> Snapshot] \in S
    BY <1>2, PlannedOne DEF Checks
  <2>2. b = Grades("noop", Snapshot, once) /\ once \in Nat /\ once > 0
    OBVIOUS
  <2> HIDE DEF S, b, once
  <2>3. Grades("noop", Snapshot, once) \in Seq(S)
    BY <2>1, <2>2, GradesListed
  <2>4. \E x \in ToSet(Grades("noop", Snapshot, once)) : x.check = "noop"
    BY <2>2, GradesThere
  <2> QED
    BY <2>2, <2>3, <2>4
<1>7. c \in Seq(S)
  <2>1. \A tree \in Controls : [check |-> "control", tree |-> tree] \in S
    BY <1>2, <1>3, PlannedOne DEF Checks
  <2> HIDE DEF S
  <2> QED
    BY <1>2, <1>3, <2>1, EachListed
<1>8. d \in Seq(S)
  <2>1. CASE mode # "quick" /\ NoTree \notin {pack.reference, pack.unparsed}
    <3>1. [check |-> "unparsed", tree |-> pack.unparsed] \in S
      BY <1>2, <1>3, <2>1, PlannedOne DEF Checks
    <3>2. d = Grades("unparsed", pack.unparsed, 1)
      BY <2>1
    <3> HIDE DEF S, d
    <3> QED
      BY <3>1, <3>2, GradesListed
  <2>2. CASE ~(mode # "quick" /\ NoTree \notin {pack.reference, pack.unparsed})
    BY <1>4, <2>2
  <2> QED
    BY <2>1, <2>2
<1>9. e \in Seq(S)
  <2>1. [check |-> "again", tree |-> Snapshot] \in S
    BY <1>2, PlannedOne DEF Checks
  <2> HIDE DEF S
  <2> QED
    BY <1>2, <2>1, GradesListed
<1>10. f \in Seq(S)
  <2>1. \A tree \in Controls : [check |-> "again", tree |-> tree] \in S
    BY <1>2, <1>3, PlannedOne DEF Checks
  <2> HIDE DEF S
  <2>2. Each("again", Controls, Repeats) \in Seq(S)
    BY <1>2, <1>3, <2>1, EachListed
  <2> QED
    BY <1>4, <2>2
<1> HIDE DEF S, a, b, c, d, e, f
<1> DEFINE ab == a \o b
           abc == ab \o c
           abcd == abc \o d
           abcde == abcd \o e
           all == abcde \o f
<1>11. all = Plan(mode)
  BY <1>1
<1>12. ab \in Seq(S) /\ ToSet(ab) = ToSet(a) \cup ToSet(b)
  BY <1>5, <1>6, Listed
<1> HIDE DEF ab
<1>13. abc \in Seq(S) /\ ToSet(abc) = ToSet(ab) \cup ToSet(c)
  BY <1>7, <1>12, Listed
<1> HIDE DEF abc
<1>14. abcd \in Seq(S) /\ ToSet(abcd) = ToSet(abc) \cup ToSet(d)
  BY <1>8, <1>13, Listed
<1> HIDE DEF abcd
<1>15. abcde \in Seq(S) /\ ToSet(abcde) = ToSet(abcd) \cup ToSet(e)
  BY <1>9, <1>14, Listed
<1> HIDE DEF abcde
<1>16. all \in Seq(S) /\ ToSet(all) = ToSet(abcde) \cup ToSet(f)
  BY <1>10, <1>15, Listed
<1> HIDE DEF all
<1>17. \A x : x \in ToSet(a) \/ x \in ToSet(b) => x \in ToSet(all)
  BY <1>12, <1>13, <1>14, <1>15, <1>16
<1>18. all \in Seq(S) /\ (\E x \in ToSet(all) : x.check = "noop")
       /\ (ReferenceUsable => \E x \in ToSet(all) : x.check = "reference")
  BY <1>5, <1>6, <1>16, <1>17
<1> QED
  BY <1>11, <1>18 DEF S

\* What validate_task grades.
LEMMA ValidatePlans ==
  ASSUME pack \in Packs, pack.reference # NoTree
  PROVE  /\ ValidatePlan \in Seq(Planned("validate"))
         /\ \E x \in ToSet(ValidatePlan) : x.check = "noop"
         /\ \E x \in ToSet(ValidatePlan) : x.check = "reference"
<1> DEFINE S == Planned("validate")
           a == Grades("noop", Snapshot, 1)
           b == Grades("reference", pack.reference, Repeats)
<1>1. [check |-> "noop", tree |-> Snapshot] \in S
  BY SnapshotFiles, PlannedOne DEF Checks
<1>7. [check |-> "reference", tree |-> pack.reference] \in S
  BY PackTyped, PlannedOne DEF Checks
<1>2. Repeats \in Nat /\ Repeats > 0
  BY AuditAssumption
<1>3. ValidatePlan = a \o b
  BY DEF ValidatePlan
<1> HIDE DEF S
<1>4. a \in Seq(S) /\ \E x \in ToSet(a) : x.check = "noop"
  <2> DEFINE once == 1
  <2>1. once \in Nat /\ once > 0 /\ a = Grades("noop", Snapshot, once)
    OBVIOUS
  <2> HIDE DEF once, a, b
  <2>2. a \in Seq(S)
    BY <1>1, <2>1, GradesListed
  <2>3. \E x \in ToSet(a) : x.check = "noop"
    BY <2>1, GradesThere
  <2> QED
    BY <2>2, <2>3
<1>6. b \in Seq(S) /\ \E x \in ToSet(b) : x.check = "reference"
  <2>1. b = Grades("reference", pack.reference, Repeats) /\ Repeats \in Nat /\ Repeats > 0
    BY <1>2
  <2> HIDE DEF S, b
  <2>2. b \in Seq(S)
    BY <1>7, <2>1, GradesListed
  <2>3. \E x \in ToSet(b) : x.check = "reference"
    BY <2>1, GradesThere
  <2> QED
    BY <2>2, <2>3
<1> HIDE DEF a, b
<1>5. a \o b \in Seq(S) /\ ToSet(a \o b) = ToSet(a) \cup ToSet(b)
  BY <1>4, <1>6, Listed
<1> QED
  BY <1>3, <1>4, <1>5, <1>6 DEF S

\* The first grading of a check is one of those seen.
LEMMA FirstTaken ==
  ASSUME NEW S, audit.seen \in Seq(S), NEW check, \E g \in ToSet(audit.seen) : g.check = check
  PROVE  \E g \in Took(check) : First(check) = ReportOf(g)
<1> DEFINE I == {i \in 1..Len(audit.seen) : audit.seen[i].check = check}
           k == SelectInSeq(audit.seen, LAMBDA g : g.check = check)
<1>1. ToSet(audit.seen) = {audit.seen[i] : i \in 1..Len(audit.seen)}
  BY DEF ToSet
<1>2. I \subseteq Nat /\ I # {}
  BY <1>1
<1>3. k = Min(I)
  BY <1>2 DEF SelectInSeq
<1>4. k \in I
  <2> HIDE DEF I, k
  <2> QED
    BY <1>2, <1>3, Least
<1>5. audit.seen[k] \in Took(check)
  BY <1>1, <1>4 DEF Took
<1> QED
  BY <1>5 DEF First

\* So is the first grading of a control.
LEMMA ControlTaken ==
  ASSUME NEW S, audit.seen \in Seq(S), NEW c,
         \E g \in ToSet(audit.seen) : g.check = "control" /\ g.tree = c.tree
  PROVE  \E g \in ToSet(audit.seen) :
           /\ g.check = "control" /\ g.tree = c.tree
           /\ ControlStatus(c) =
                LET v == Verdict(ReportOf(g))
                IN  CASE v \in {"accepted", "hidden test"} ->
                           IF (v = "accepted") = c.accept THEN "pass" ELSE "fail"
                      [] v \in {"scope", "regression"} -> "error"
                      [] OTHER -> "warning"
<1> DEFINE I == {i \in 1..Len(audit.seen) : audit.seen[i].check = "control" /\ audit.seen[i].tree = c.tree}
           k == SelectInSeq(audit.seen, LAMBDA g : g.check = "control" /\ g.tree = c.tree)
<1>1. ToSet(audit.seen) = {audit.seen[i] : i \in 1..Len(audit.seen)}
  BY DEF ToSet
<1>2. I \subseteq Nat /\ I # {}
  BY <1>1
<1>3. k = Min(I)
  BY <1>2 DEF SelectInSeq
<1>4. k \in I
  <2> HIDE DEF I, k
  <2> QED
    BY <1>2, <1>3, Least
<1>5. audit.seen[k] \in ToSet(audit.seen) /\ audit.seen[k].check = "control" /\ audit.seen[k].tree = c.tree
  BY <1>1, <1>4
<1> QED
  BY <1>5 DEF ControlStatus

\* What the gradings seen are.
LEMMA SeenTyped ==
  ASSUME AuditInv
  PROVE  /\ audit.seen \in Seq(Gradings(audit.mode)) /\ audit.todo \in Seq(Planned(audit.mode))
         /\ audit.mode \in Modes \cup {"validate"}
         /\ \A g \in ToSet(audit.seen) :
              /\ g.tree \in Tree /\ g.check \in Checks
              /\ g.regression \in Said(g.tree, "regression") /\ g.hidden \in Said(g.tree, "hidden")
              /\ g.check = "reference" => g.tree = pack.reference
              /\ g.check = "noop" => g.tree = Snapshot
              /\ audit.mode = "validate" => g.check \in {"noop", "reference"}
<1>1. /\ audit.seen \in Seq(Gradings(audit.mode)) /\ audit.todo \in Seq(Planned(audit.mode))
      /\ audit.mode \in Modes \cup {"validate"}
  BY DEF AuditInv
<1>2. ToSet(audit.seen) \subseteq Gradings(audit.mode)
  <2> DEFINE S == Gradings(audit.mode)
             s == audit.seen
  <2>1. s \in Seq(S)
    BY <1>1
  <2> HIDE DEF S, s
  <2>2. ToSet(s) \subseteq S
    BY <2>1, Listed
  <2> QED
    BY <2>2 DEF S, s
<1> QED
  BY <1>1, <1>2 DEF Gradings

\* The reference that passes is a solution.
LEMMA ReferenceSolves ==
  ASSUME RoomInv, AuditInv, OracleIsNotForged, ReferencePasses, pack.reference # NoTree,
         \E g \in ToSet(audit.seen) : g.check = "reference"
  PROVE  Solves(pack.reference) /\ Weight(Hidden) > 0
<1>1. PICK g \in Took("reference") : First("reference") = ReportOf(g)
  BY SeenTyped, FirstTaken
<1>2. /\ g.tree = pack.reference /\ g.tree \in Tree /\ pack \in Packs
      /\ g.regression \in Said(g.tree, "regression") /\ g.hidden \in Said(g.tree, "hidden")
  BY SeenTyped DEF Took, RoomInv
<1>3. FunctionalPass(ReportOf(g))
  BY <1>1 DEF ReferencePasses
<1>4. ~Forges(pack, g.tree)
  BY <1>2 DEF OracleIsNotForged
<1> QED
  BY <1>2, <1>3, <1>4, Telling

\* The untouched snapshot passes the regression suite, and not the hidden one.
LEMMA SnapshotFails ==
  ASSUME RoomInv, AuditInv, \E g \in ToSet(audit.seen) : g.check = "noop",
         AllPassed(First("noop").regression), ~AllPassed(First("noop").hidden)
  PROVE  "bug" \in pack.sound /\ (Judged(First("noop")) => pack.hidden["bug"] # Hidden)
<1>1. PICK g \in Took("noop") : First("noop") = ReportOf(g)
  BY SeenTyped, FirstTaken
<1>2. /\ g.tree = Snapshot /\ g.tree \in Tree /\ pack \in Packs
      /\ g.regression \in Said(g.tree, "regression") /\ g.hidden \in Said(g.tree, "hidden")
  BY SeenTyped DEF Took, RoomInv
<1>3. First("noop").regression = g.regression /\ First("noop").hidden = g.hidden
  BY <1>1 DEF ReportOf
<1>4. g.tree.src = "bug" /\ g.tree.tests = "kept"
  BY <1>2 DEF Snapshot
<1>5. "bug" \in pack.sound
  BY <1>2, <1>3, <1>4, Judging
<1>6. ASSUME ~g.hidden.errored PROVE pack.hidden["bug"] # Hidden
  <2>1. g.hidden.failed # {}
    BY <1>3, <1>6 DEF AllPassed
  <2>2. g.hidden.failed = Hidden \ pack.hidden["bug"]
    BY <1>2, <1>4, <1>6, Judging
  <2> QED
    BY <2>1, <2>2
<1> QED
  BY <1>3, <1>5, <1>6 DEF Judged

\* A control that passes its check solves the task exactly if it is expected to.
LEMMA ControlsAreTold ==
  ASSUME RoomInv, AuditInv, OracleIsNotForged, Weight(Hidden) > 0, NEW c \in pack.controls,
         ControlStatus(c) = "pass", \E g \in ToSet(audit.seen) : g.check = "control" /\ g.tree = c.tree
  PROVE  Solves(c.tree) <=> c.accept
<1>1. PICK g \in ToSet(audit.seen) :
        /\ g.check = "control" /\ g.tree = c.tree
        /\ ControlStatus(c) =
             LET v == Verdict(ReportOf(g))
             IN  CASE v \in {"accepted", "hidden test"} ->
                        IF (v = "accepted") = c.accept THEN "pass" ELSE "fail"
                   [] v \in {"scope", "regression"} -> "error"
                   [] OTHER -> "warning"
  BY SeenTyped, ControlTaken
<1> DEFINE r == ReportOf(g)
           v == Verdict(r)
<1>2. /\ g.tree \in Tree /\ pack \in Packs
      /\ g.regression \in Said(g.tree, "regression") /\ g.hidden \in Said(g.tree, "hidden")
  BY SeenTyped DEF RoomInv
<1>3. /\ FunctionalPass(r) => Forges(pack, g.tree) \/ Solves(g.tree)
      /\ Solves(g.tree) /\ Judged(g) => FunctionalPass(r)
      /\ r.regression = g.regression /\ r.hidden = g.hidden
  BY <1>2, Telling
<1>4. ~Forges(pack, g.tree)
  BY <1>1, <1>2 DEF OracleIsNotForged
<1>5. v = "accepted" => FunctionalPass(r)
  BY DEF Verdict
<1>6. v = "hidden test" => ~FunctionalPass(r) /\ AllPassed(r.regression) /\ ~r.hidden.errored
  BY DEF Verdict
<1>7. v \in {"accepted", "hidden test", "scope", "regression", "errored"}
  BY DEF Verdict
<1> HIDE DEF r, v
<1>8. v \in {"accepted", "hidden test"} /\ (v = "accepted" <=> c.accept)
  <2>1. ControlStatus(c) =
          CASE v \in {"accepted", "hidden test"} ->
                 IF (v = "accepted") = c.accept THEN "pass" ELSE "fail"
            [] v \in {"scope", "regression"} -> "error"
            [] OTHER -> "warning"
    BY <1>1 DEF v, r
  <2> QED
    BY <1>7, <2>1
<1>9. CASE v = "accepted"
  BY <1>1, <1>3, <1>4, <1>5, <1>8, <1>9
<1>10. CASE v = "hidden test"
  <2>1. Judged(g)
    BY <1>3, <1>6, <1>10 DEF Judged, AllPassed
  <2> QED
    BY <1>1, <1>3, <1>6, <1>8, <1>10, <2>1
<1> QED
  BY <1>8, <1>9, <1>10

\* No mutant of a healthy task solves it.
LEMMA MutantsAreTold ==
  ASSUME RoomInv, AuditInv, Weight(Hidden) > 0, MutationStatus = "pass",
         NEW g \in ToSet(audit.seen), g.check = "mutant", Judged(g), g.tree \notin pack.equivalent
  PROVE  ~Solves(g.tree)
<1> SUFFICES ASSUME Solves(g.tree) PROVE FALSE
  OBVIOUS
<1>1. /\ g.tree \in Tree /\ pack \in Packs
      /\ g.regression \in Said(g.tree, "regression") /\ g.hidden \in Said(g.tree, "hidden")
  BY SeenTyped DEF RoomInv
<1>2. FunctionalPass(ReportOf(g))
  BY <1>1, Telling
<1>3. Verdict(ReportOf(g)) = "accepted"
  BY <1>2 DEF Verdict
<1>4. g \in Relevant
  BY <1>3 DEF Relevant, Took
<1> QED
  BY <1>3, <1>4 DEF MutationStatus

\* What a concluded audit says of a task is so.
Concluded == IF audit.mode # "validate" THEN Health ELSE IF Validated THEN "valid" ELSE "invalid"
LEMMA Concludes ==
  ASSUME RoomInv, AuditInv, OracleIsNotForged, audit.at = "auditing", audit.todo = <<>>,
         Concluded \in {"healthy", "provisional", "valid"}
  PROVE  /\ Solves(pack.reference) /\ "bug" \in pack.sound
         /\ Judged(First("noop")) => pack.hidden["bug"] # Hidden
         /\ \A g \in ToSet(audit.seen) : Judged(g) =>
              /\ g.check = "control" =>
                   \A c \in pack.controls : c.tree = g.tree => (Solves(c.tree) <=> c.accept)
              /\ g.check = "mutant" /\ g.tree \notin pack.equivalent /\ Concluded = "healthy" => ~Solves(g.tree)
<1>1. ToSet(audit.todo) = {}
  BY DEF ToSet
<1>2. /\ \E g \in ToSet(audit.seen) : g.check = "noop"
      /\ ReferenceUsable \/ audit.mode = "validate" => \E g \in ToSet(audit.seen) : g.check = "reference"
      /\ audit.mode = "validate" => pack.reference # NoTree
  BY <1>1 DEF AuditInv, Foreseen
<1>3. CASE audit.mode = "validate"
  <2>1. Validated
    BY <1>3 DEF Concluded
  <2>2. AllPassed(First("noop").regression) /\ ~AllPassed(First("noop").hidden) /\ ReferencePasses
    BY <2>1 DEF Validated
  <2>3. \A g \in ToSet(audit.seen) : g.check \in {"noop", "reference"}
    BY <1>3, SeenTyped
  <2> QED
    BY <1>2, <1>3, <2>2, <2>3, ReferenceSolves, SnapshotFails
<1>4. CASE audit.mode # "validate"
  <2>1. Health = Concluded /\ Health \in {"healthy", "provisional"}
    BY <1>4 DEF Concluded, Health
  <2>2. /\ CheckStatuses \cap {"fail", "error"} = {} /\ "warning" \notin CheckStatuses
        /\ "unverifiable" \notin CheckStatuses
        /\ ControlsStatus \notin {"fail", "error", "warning"}
        /\ Health = "healthy" => audit.mode = "full"
    BY <2>1 DEF Health
  <2>3. ReferenceStatus \in CheckStatuses /\ NoopStatus \in CheckStatuses
        /\ (audit.mode # "quick" => MutationStatus \in CheckStatuses)
    BY DEF CheckStatuses
  <2>4. pack.reference # NoTree /\ ReferenceUsable /\ ReferencePasses
    BY <2>2, <2>3 DEF ReferenceStatus
  <2>5. Solves(pack.reference) /\ Weight(Hidden) > 0
    BY <1>2, <2>4, ReferenceSolves
  <2>6. AllPassed(First("noop").regression) /\ ~AllPassed(First("noop").hidden)
    BY <2>2, <2>3 DEF NoopStatus
  <2>7. "bug" \in pack.sound /\ (Judged(First("noop")) => pack.hidden["bug"] # Hidden)
    BY <1>2, <2>6, SnapshotFails
  <2>8. ASSUME NEW c \in pack.controls PROVE ControlStatus(c) = "pass"
    <3>1. ControlStatus(c) \in {"pass", "fail", "error", "warning"}
      BY DEF ControlStatus
    <3>2. pack.controls # {}
      BY <2>8
    <3>3. ~ControlsSay("fail") /\ ~ControlsSay("error") /\ ~ControlsSay("warning")
      BY <2>2, <3>2 DEF ControlsStatus
    <3> QED
      BY <3>1, <3>3 DEF ControlsSay
  <2>9. ASSUME NEW g \in ToSet(audit.seen), g.check = "control", NEW c \in pack.controls, c.tree = g.tree
        PROVE  Solves(c.tree) <=> c.accept
    BY <2>5, <2>8, <2>9, ControlsAreTold
  <2>10. ASSUME NEW g \in ToSet(audit.seen), Judged(g), g.check = "mutant", g.tree \notin pack.equivalent,
                Concluded = "healthy"
         PROVE  ~Solves(g.tree)
    <3>1. MutationStatus = "pass"
      BY <2>1, <2>2, <2>3, <2>10 DEF MutationStatus
    <3> QED
      BY <2>5, <2>10, <3>1, MutantsAreTold
  <2> QED
    BY <2>5, <2>7, <2>9, <2>10
<1> QED
  BY <1>3, <1>4

\* What is said of a pack stays so.
LEMMA PackTerms ==
  ASSUME UNCHANGED pack
  PROVE  /\ \A m : Planned(m)' = Planned(m) /\ Gradings(m)' = Gradings(m)
         /\ ReferenceUsable' <=> ReferenceUsable
         /\ \A tree \in Tree \cup {pack.reference} : Solves(tree)' <=> Solves(tree)
<1>1. \A m : Planned(m)' = Planned(m)
  BY DEF Planned, Checks, Tree
<1>2. \A tree, s : Said(tree, s)' = Said(tree, s)
  BY DEF Said, Result
<1>3. \A m : Gradings(m)' = Gradings(m)
  BY <1>2 DEF Gradings, Checks, Suites, Tree
<1>4. ReferenceUsable' <=> ReferenceUsable
  BY DEF ReferenceUsable, ReferenceDiff, OutOfScope, Matches
<1>5. \A tree \in Tree \cup {pack.reference} : Solves(tree)' <=> Solves(tree)
  BY DEF Solves, OutOfScope, Matches
<1> QED
  BY <1>1, <1>3, <1>4, <1>5

\* A conclusion about a task stays true of it.
LEMMA ConclusionKept ==
  ASSUME AuditInv, RoomInv, UNCHANGED pack, audit'.seen = audit.seen, NEW health, audit'.health = health,
         health \in {"healthy", "provisional", "valid"} =>
           /\ Solves(pack.reference) /\ "bug" \in pack.sound
           /\ Judged(First("noop")) => pack.hidden["bug"] # Hidden
           /\ \A g \in ToSet(audit.seen) : Judged(g) =>
                /\ g.check = "control" =>
                     \A c \in pack.controls : c.tree = g.tree => (Solves(c.tree) <=> c.accept)
                /\ g.check = "mutant" /\ g.tree \notin pack.equivalent /\ health = "healthy" => ~Solves(g.tree)
  PROVE  HealthyTaskDiscerns'
<1>1. First("noop")' = First("noop")
  BY DEF First, ReportOf, SelectInSeq
<1>2. Judged(First("noop"))' <=> Judged(First("noop"))
  BY <1>1 DEF Judged
<1>3. Solves(pack.reference)' <=> Solves(pack.reference)
  BY PackTerms DEF Solves, OutOfScope, Matches
<1>4. \A g \in ToSet(audit.seen) : g.tree \in Tree
  BY SeenTyped
<1>5. \A g \in ToSet(audit.seen) : Solves(g.tree)' <=> Solves(g.tree)
  BY <1>4, PackTerms
<1>6. \A c \in pack.controls : Solves(c.tree)' <=> Solves(c.tree)
  <2>1. \A c \in pack.controls : c.tree \in Tree
    BY ControlTrees DEF RoomInv
  <2> QED
    BY <2>1, PackTerms
<1>7. \A g \in ToSet(audit.seen) : Judged(g)' <=> Judged(g)
  BY DEF Judged
<1> QED
  BY <1>1, <1>2, <1>3, <1>5, <1>6, <1>7 DEF HealthyTaskDiscerns

\* An audit nothing happens to.
LEMMA AuditKept ==
  ASSUME RoomInv, AuditInv, UNCHANGED <<pack, audit>>,
         audit.at # "none" => run'.at = "none" /\ grading'.diff = grading.diff /\ grading'.status = grading.status
  PROVE  AuditInv'
<1>1. OracleIsNotForged => HealthyTaskDiscerns'
  <2> SUFFICES ASSUME HealthyTaskDiscerns PROVE HealthyTaskDiscerns'
    BY DEF AuditInv
  <2> DEFINE health == audit.health
  <2>1. audit'.seen = audit.seen /\ audit'.health = health
    OBVIOUS
  <2>2. health \in {"healthy", "provisional", "valid"} =>
           /\ Solves(pack.reference) /\ "bug" \in pack.sound
           /\ Judged(First("noop")) => pack.hidden["bug"] # Hidden
           /\ \A g \in ToSet(audit.seen) : Judged(g) =>
                /\ g.check = "control" =>
                     \A c \in pack.controls : c.tree = g.tree => (Solves(c.tree) <=> c.accept)
                /\ g.check = "mutant" /\ g.tree \notin pack.equivalent /\ health = "healthy" => ~Solves(g.tree)
    BY DEF HealthyTaskDiscerns
  <2> HIDE DEF health
  <2> QED
    BY <2>1, <2>2, ConclusionKept
<1>2. /\ \A m : Planned(m)' = Planned(m) /\ Gradings(m)' = Gradings(m)
      /\ ReferenceUsable' <=> ReferenceUsable
  BY PackTerms
<1>3. \A c : Foreseen(c)' <=> Foreseen(c)
  BY DEF Foreseen
<1>4. Modes' = Modes /\ Healths' = Healths /\ OracleIsNotForged' = OracleIsNotForged
  BY DEF Modes, Healths, OracleIsNotForged, Forges
<1> QED
  BY <1>1, <1>2, <1>3, <1>4 DEF AuditInv

\* An audit begins.
LEMMA AuditBegins ==
  ASSUME RoomInv, AuditInv, UNCHANGED <<run, version>>, run.at = "none", StartAudit
  PROVE  AuditInv'
<1>1. pack' = pack /\ pack \in Packs
  BY DEF StartAudit, RoomInv
<1>2. PICK mode, todo :
        /\ mode \in Modes \cup {"validate"} /\ todo \in Seq(Planned(mode))
        /\ audit' = [NoAudit EXCEPT !.at = "auditing", !.mode = mode, !.todo = todo]
        /\ \E x \in ToSet(todo) : x.check = "noop"
        /\ ReferenceUsable \/ mode = "validate" => \E x \in ToSet(todo) : x.check = "reference"
        /\ mode = "validate" => pack.reference # NoTree
  <2>1. CASE \E mode \in Modes : audit' = [NoAudit EXCEPT !.at = "auditing", !.mode = mode, !.todo = Plan(mode)]
    <3>1. PICK mode \in Modes : audit' = [NoAudit EXCEPT !.at = "auditing", !.mode = mode, !.todo = Plan(mode)]
      BY <2>1
    <3>2. mode # "validate"
      BY DEF Modes
    <3> QED
      BY <1>1, <3>1, <3>2, Plans
  <2>2. CASE pack.reference # NoTree /\ audit' = [NoAudit EXCEPT !.at = "auditing", !.mode = "validate", !.todo = ValidatePlan]
    BY <1>1, <2>2, ValidatePlans
  <2> QED
    BY <2>1, <2>2 DEF StartAudit
<1> DEFINE q == [at |-> "auditing", mode |-> mode, todo |-> todo, seen |-> <<>>, health |-> "unknown"]
<1>3. <<>> \in Seq(Gradings(mode)) /\ "unknown" \in Healths
  BY DEF Healths
<1>4. q.at = "auditing" /\ q.mode = mode /\ q.todo = todo /\ q.seen = <<>> /\ q.health = "unknown"
  OBVIOUS
<1>5. q \in [at : {"none", "auditing", "grading", "done"}, mode : Modes \cup {"validate"},
             todo : Seq(Planned(mode)), seen : Seq(Gradings(mode)), health : Healths]
  BY <1>2, <1>3
<1>6. audit' = q
  <2>1. audit' = [NoAudit EXCEPT !.at = "auditing", !.mode = mode, !.todo = todo]
    BY <1>2
  <2> QED
    BY <2>1 DEF NoAudit
<1> HIDE DEF q
<1>7. /\ Planned(mode)' = Planned(mode) /\ Gradings(mode)' = Gradings(mode)
      /\ ReferenceUsable' <=> ReferenceUsable
  BY <1>1, PackTerms
<1>8. HealthyTaskDiscerns'
  BY <1>4, <1>6 DEF HealthyTaskDiscerns
<1>9. Planned(audit.mode)' = Planned(mode) /\ Gradings(audit.mode)' = Gradings(mode)
  BY <1>4, <1>6, <1>7 DEF Planned, Gradings
<1>10. Foreseen("noop")' /\ (ReferenceUsable' \/ audit'.mode = "validate" => Foreseen("reference")')
  BY <1>2, <1>4, <1>6, <1>7 DEF Foreseen
<1>11. Modes' = Modes /\ Healths' = Healths /\ run'.at = "none" /\ pack'.reference = pack.reference
  BY <1>1 DEF Modes, Healths
<1> QED
  BY <1>2, <1>4, <1>5, <1>6, <1>8, <1>9, <1>10, <1>11 DEF AuditInv

\* The next tree is graded.
LEMMA AuditGrades ==
  ASSUME RoomInv, AuditInv, UNCHANGED <<run, version>>, GradeNext
  PROVE  RoomInv' /\ AuditInv'
<1>1. /\ pack' = pack /\ faults' = faults /\ audit.todo # <<>> /\ audit.at = "auditing"
      /\ StartGrading(CaptureDiff(Head(audit.todo).tree), "valid")
      /\ audit' = [audit EXCEPT !.at = "grading"]
  BY DEF GradeNext
<1>2. "valid" \in Statuses
  BY DEF Statuses
<1>3. Wellformed(grading)' /\ grading'.diff = CaptureDiff(Head(audit.todo).tree) /\ grading'.status = "valid"
  BY <1>1, <1>2, Starts
<1>4. RoomInv'
  BY <1>1, <1>3 DEF RoomInv
<1> DEFINE q == [audit EXCEPT !.at = "grading"]
<1>5. /\ q.at = "grading" /\ q.mode = audit.mode /\ q.todo = audit.todo /\ q.seen = audit.seen /\ q.health = audit.health
      /\ q \in [at : {"none", "auditing", "grading", "done"}, mode : Modes \cup {"validate"},
                todo : Seq(Planned(audit.mode)), seen : Seq(Gradings(audit.mode)), health : Healths]
  BY DEF AuditInv
<1>6. audit' = q
  BY <1>1
<1> HIDE DEF q
<1>7. /\ \A m : Planned(m)' = Planned(m) /\ Gradings(m)' = Gradings(m)
      /\ ReferenceUsable' <=> ReferenceUsable
  BY <1>1, PackTerms
<1>8. Planned(audit.mode)' = Planned(audit.mode) /\ Gradings(audit.mode)' = Gradings(audit.mode)
  <2>1. PICK m : m = audit.mode
    OBVIOUS
  <2>2. audit'.mode = m
    BY <1>5, <1>6, <2>1
  <2> QED
    BY <1>7, <2>1, <2>2 DEF Planned, Gradings
<1>9. audit.health = "unknown" /\ HealthyTaskDiscerns'
  BY <1>1, <1>5, <1>6 DEF HealthyTaskDiscerns, AuditInv
<1>10. Foreseen("noop")' /\ (ReferenceUsable' \/ audit'.mode = "validate" => Foreseen("reference")')
  BY <1>1, <1>5, <1>6, <1>7 DEF Foreseen, AuditInv
<1>11. Modes' = Modes /\ Healths' = Healths
  BY DEF Modes, Healths
<1>12. audit'.mode = "validate" => pack'.reference # NoTree
  BY <1>1, <1>5, <1>6 DEF AuditInv
<1>13. run'.at = "none"
  BY <1>1 DEF AuditInv
<1> QED
  BY <1>1, <1>3, <1>4, <1>5, <1>6, <1>8, <1>9, <1>10, <1>11, <1>12, <1>13 DEF AuditInv

\* What is left of a list, and what was first.
LEMMA HeadAndTail ==
  ASSUME NEW S, NEW s \in Seq(S), s # <<>>
  PROVE  /\ Head(s) \in S /\ Tail(s) \in Seq(S)
         /\ \A x \in ToSet(s) : x = Head(s) \/ x \in ToSet(Tail(s))
<1>1. Head(s) \in S /\ Tail(s) \in Seq(S) /\ Len(s) > 0 /\ Len(Tail(s)) = Len(s) - 1 /\ Head(s) = s[1]
  OBVIOUS
<1>2. \A i \in 1..Len(Tail(s)) : Tail(s)[i] = s[i + 1]
  OBVIOUS
<1>3. ASSUME NEW x \in ToSet(s), x # Head(s) PROVE x \in ToSet(Tail(s))
  <2>1. PICK i \in 1..Len(s) : x = s[i]
    BY DEF ToSet
  <2>2. i - 1 \in 1..Len(Tail(s)) /\ Tail(s)[i - 1] = x
    BY <1>1, <1>2, <1>3, <2>1
  <2>3. DOMAIN Tail(s) = 1..Len(Tail(s))
    BY <1>1
  <2> QED
    BY <2>2, <2>3 DEF ToSet
<1> QED
  BY <1>1, <1>3

\* What a list and one more hold.
LEMMA OneMoreSeen ==
  ASSUME NEW S, NEW s \in Seq(S), NEW e \in S
  PROVE  Append(s, e) \in Seq(S) /\ e \in ToSet(Append(s, e)) /\ ToSet(s) \subseteq ToSet(Append(s, e))
<1>1. /\ Append(s, e) \in Seq(S) /\ Len(Append(s, e)) = Len(s) + 1 /\ Append(s, e)[Len(s) + 1] = e
      /\ \A i \in 1..Len(s) : Append(s, e)[i] = s[i]
      /\ DOMAIN Append(s, e) = 1..(Len(s) + 1) /\ DOMAIN s = 1..Len(s) /\ Len(s) \in Nat
  OBVIOUS
<1>2. e \in ToSet(Append(s, e))
  <2>1. Len(s) + 1 \in 1..(Len(s) + 1)
    BY <1>1
  <2> QED
    BY <1>1, <2>1 DEF ToSet
<1>3. ASSUME NEW x \in ToSet(s) PROVE x \in ToSet(Append(s, e))
  <2>1. PICK i \in 1..Len(s) : x = s[i]
    BY <1>1 DEF ToSet
  <2>2. i \in 1..(Len(s) + 1) /\ Append(s, e)[i] = x
    BY <1>1, <2>1
  <2> QED
    BY <1>1, <2>2 DEF ToSet
<1> QED
  BY <1>1, <1>2, <1>3

\* A grading is done: what it said is what the suites say of its tree.
LEMMA AuditTakes ==
  ASSUME RoomInv, AuditInv, UNCHANGED <<run, version>>, TakeReport
  PROVE  RoomInv' /\ AuditInv'
<1> DEFINE mode == audit.mode
           g == Head(audit.todo)
           more == IF g.check = "unparsed" /\ Perfect(Report) /\ FunctionalPass(Report)
                   THEN Each("mutant", pack.mutants, 1) ELSE <<>>
           rest == more \o Tail(audit.todo)
           e == [check |-> g.check, tree |-> g.tree,
                 regression |-> Report.regression, hidden |-> Report.hidden]
           seen == Append(audit.seen, e)
           q == [audit EXCEPT !.at = "auditing", !.todo = rest, !.seen = seen]
<1>1. /\ pack' = pack /\ faults' = faults /\ audit.at = "grading" /\ grading' = Idle /\ audit' = q
      /\ pack \in Packs
  BY DEF TakeReport, CloseRoom, RoomInv
<1>2. RoomInv'
  BY <1>1, RoomKept DEF RoomInv
<1>3. /\ audit.todo \in Seq(Planned(mode)) /\ audit.seen \in Seq(Gradings(mode)) /\ audit.todo # <<>>
      /\ grading.diff = CaptureDiff(g.tree) /\ mode \in Modes \cup {"validate"} /\ audit.health = "unknown"
  BY <1>1 DEF AuditInv
<1>4. /\ g \in Planned(mode) /\ Tail(audit.todo) \in Seq(Planned(mode))
      /\ \A x \in ToSet(audit.todo) : x = g \/ x \in ToSet(Tail(audit.todo))
  <2> DEFINE S == Planned(mode)
             s == audit.todo
  <2>1. s \in Seq(S) /\ s # <<>>
    BY <1>3
  <2> HIDE DEF S, s
  <2>2. /\ Head(s) \in S /\ Tail(s) \in Seq(S)
        /\ \A x \in ToSet(s) : x = Head(s) \/ x \in ToSet(Tail(s))
    BY <2>1, HeadAndTail
  <2> QED
    BY <2>2 DEF S, s
<1>5. more \in Seq(Planned(mode))
  <2>1. CASE g.check = "unparsed" /\ Perfect(Report) /\ FunctionalPass(Report)
    <3> DEFINE S == Planned(mode)
               once == 1
    <3>1. mode # "validate"
      BY <1>4, <2>1 DEF Planned
    <3>2. \A tree \in pack.mutants : [check |-> "mutant", tree |-> tree] \in S
      BY <1>1, <3>1, ControlTrees, PlannedOne DEF Checks
    <3>3. once \in Nat \ {0} /\ more = Each("mutant", pack.mutants, once) /\ IsFiniteSet(pack.mutants)
      BY <1>1, <2>1, ControlTrees
    <3> HIDE DEF S, once, more
    <3>4. more \in Seq(S)
      BY <3>2, <3>3, EachListed
    <3> QED
      BY <3>4 DEF S
  <2>2. CASE ~(g.check = "unparsed" /\ Perfect(Report) /\ FunctionalPass(Report))
    <3> DEFINE S == Planned(mode)
    <3>1. more = <<>>
      BY <2>2
    <3> HIDE DEF S, more
    <3>2. <<>> \in Seq(S)
      OBVIOUS
    <3>3. more \in Seq(S)
      BY <3>1, <3>2
    <3> QED
      BY <3>3 DEF S
  <2> QED
    BY <2>1, <2>2
<1>6. rest \in Seq(Planned(mode)) /\ ToSet(Tail(audit.todo)) \subseteq ToSet(rest)
  <2> DEFINE S == Planned(mode)
             t == Tail(audit.todo)
  <2>1. more \in Seq(S) /\ t \in Seq(S) /\ rest = more \o t
    BY <1>4, <1>5
  <2> HIDE DEF S, t, more, rest
  <2>2. rest \in Seq(S) /\ ToSet(t) \subseteq ToSet(rest)
    BY <2>1, Listed
  <2> QED
    BY <2>2 DEF S, t
<1>7. e \in Gradings(mode) /\ e.check = g.check
  <2> DEFINE regression == Report.regression
             hidden == Report.hidden
  <2>1. /\ g.check \in Checks /\ g.tree \in Tree
        /\ g.check = "reference" => g.tree = pack.reference
        /\ g.check = "noop" => g.tree = Snapshot
        /\ mode = "validate" => g.check \in {"noop", "reference"}
    BY <1>4 DEF Planned
  <2>2. regression \in Said(g.tree, "regression") /\ hidden \in Said(g.tree, "hidden")
    BY <1>3, Reported DEF RoomInv, Wellformed, Said
  <2>3. regression \in Suites /\ hidden \in Suites
    <3>1. /\ Result(ApplyDiff(CaptureDiff(g.tree)), "regression") \in Suites
          /\ Result(ApplyDiff(CaptureDiff(g.tree)), "hidden") \in Suites
      BY <1>1, <2>1, Verdicts
    <3> HIDE DEF regression, hidden
    <3> QED
      BY <2>2, <3>1, Outcomes DEF Said
  <2> HIDE DEF regression, hidden, g
  <2> DEFINE x == [check |-> g.check, tree |-> g.tree, regression |-> regression, hidden |-> hidden]
  <2>4. /\ x.check = g.check /\ x.tree = g.tree /\ x.regression = regression /\ x.hidden = hidden
        /\ x \in [check : Checks, tree : Tree, regression : Suites, hidden : Suites]
    BY <2>1, <2>3
  <2> HIDE DEF x
  <2>5. x \in Gradings(mode)
    BY <2>1, <2>2, <2>4 DEF Gradings
  <2> QED
    BY <2>4, <2>5 DEF x, regression, hidden
<1>8. seen \in Seq(Gradings(mode)) /\ e \in ToSet(seen) /\ ToSet(audit.seen) \subseteq ToSet(seen)
  <2> DEFINE S == Gradings(mode)
             s == audit.seen
  <2>1. s \in Seq(S) /\ e \in S /\ seen = Append(s, e)
    BY <1>3, <1>7
  <2> HIDE DEF S, s, e, seen
  <2>2. seen \in Seq(S) /\ e \in ToSet(seen) /\ ToSet(s) \subseteq ToSet(seen)
    BY <2>1, OneMoreSeen
  <2> QED
    BY <2>2 DEF S, s
<1> HIDE DEF rest, seen
<1>9. /\ q.at = "auditing" /\ q.mode = mode /\ q.todo = rest /\ q.seen = seen /\ q.health = audit.health
      /\ q \in [at : {"none", "auditing", "grading", "done"}, mode : Modes \cup {"validate"},
                todo : Seq(Planned(mode)), seen : Seq(Gradings(mode)), health : Healths]
  BY <1>6, <1>8 DEF AuditInv
<1> HIDE DEF q
<1>10. ASSUME NEW c, Foreseen(c) PROVE Foreseen(c)'
  <2>1. PICK x \in ToSet(audit.todo) \cup ToSet(audit.seen) : x.check = c
    BY <1>10 DEF Foreseen
  <2>2. \E y \in ToSet(rest) \cup ToSet(seen) : y.check = c
    <3>1. CASE x \in ToSet(audit.seen)
      BY <1>8, <2>1, <3>1
    <3>2. CASE x \in ToSet(Tail(audit.todo))
      BY <1>6, <2>1, <3>2
    <3>3. CASE x = g
      <4> HIDE DEF e, g
      <4> QED
        BY <1>7, <1>8, <2>1, <3>3
    <3> QED
      BY <1>4, <2>1, <3>1, <3>2, <3>3
  <2>3. audit'.todo = rest /\ audit'.seen = seen
    BY <1>1, <1>9
  <2> QED
    BY <2>2, <2>3 DEF Foreseen
<1>11. /\ \A m : Planned(m)' = Planned(m) /\ Gradings(m)' = Gradings(m)
       /\ ReferenceUsable' <=> ReferenceUsable
  BY <1>1, PackTerms
<1>12. Planned(audit.mode)' = Planned(audit.mode) /\ Gradings(audit.mode)' = Gradings(audit.mode)
  <2>1. PICK m : m = audit.mode
    OBVIOUS
  <2>2. audit'.mode = m
    BY <1>1, <1>9, <2>1
  <2> QED
    BY <1>11, <2>1, <2>2 DEF Planned, Gradings
<1>13. HealthyTaskDiscerns'
  BY <1>1, <1>3, <1>9 DEF HealthyTaskDiscerns
<1>14. Foreseen("noop")' /\ (ReferenceUsable' \/ audit'.mode = "validate" => Foreseen("reference")')
  BY <1>1, <1>9, <1>10, <1>11 DEF AuditInv
<1>15. Modes' = Modes /\ Healths' = Healths
  BY DEF Modes, Healths
<1>16. (audit'.mode = "validate" => pack'.reference # NoTree) /\ run'.at = "none"
  BY <1>1, <1>9 DEF AuditInv
<1> QED
  BY <1>1, <1>2, <1>3, <1>9, <1>12, <1>13, <1>14, <1>15, <1>16 DEF AuditInv

\* The audit says what the task is.
LEMMA AuditConcludes ==
  ASSUME RoomInv, AuditInv, UNCHANGED <<run, version>>, Conclude
  PROVE  RoomInv' /\ AuditInv'
<1> DEFINE q == [audit EXCEPT !.at = "done", !.health = Concluded]
<1>1. /\ pack' = pack /\ faults' = faults /\ grading' = grading /\ audit.at = "auditing" /\ audit.todo = <<>>
      /\ audit' = q
  BY DEF Conclude, Concluded
<1>2. RoomInv'
  BY <1>1, RoomKept DEF RoomInv
<1>3. Concluded \in Healths
  BY DEF Concluded, Health, Healths
<1>4. /\ q.at = "done" /\ q.mode = audit.mode /\ q.todo = audit.todo /\ q.seen = audit.seen /\ q.health = Concluded
      /\ q \in [at : {"none", "auditing", "grading", "done"}, mode : Modes \cup {"validate"},
                todo : Seq(Planned(audit.mode)), seen : Seq(Gradings(audit.mode)), health : Healths]
  BY <1>3 DEF AuditInv
<1> HIDE DEF q
<1>5. ASSUME OracleIsNotForged PROVE HealthyTaskDiscerns'
  <2>1. PICK health : health = Concluded
    OBVIOUS
  <2>2. audit'.seen = audit.seen /\ audit'.health = health
    BY <1>1, <1>4, <2>1
  <2>3. health \in {"healthy", "provisional", "valid"} =>
           /\ Solves(pack.reference) /\ "bug" \in pack.sound
           /\ Judged(First("noop")) => pack.hidden["bug"] # Hidden
           /\ \A g \in ToSet(audit.seen) : Judged(g) =>
                /\ g.check = "control" =>
                     \A c \in pack.controls : c.tree = g.tree => (Solves(c.tree) <=> c.accept)
                /\ g.check = "mutant" /\ g.tree \notin pack.equivalent /\ health = "healthy" => ~Solves(g.tree)
    BY <1>1, <1>5, <2>1, Concludes
  <2> QED
    BY <1>1, <2>2, <2>3, ConclusionKept
<1>6. \A m : Planned(m)' = Planned(m) /\ Gradings(m)' = Gradings(m)
  BY <1>1, PackTerms
<1>7. Planned(audit.mode)' = Planned(audit.mode) /\ Gradings(audit.mode)' = Gradings(audit.mode)
  <2>1. PICK m : m = audit.mode
    OBVIOUS
  <2>2. audit'.mode = m
    BY <1>1, <1>4, <2>1
  <2> QED
    BY <1>6, <2>1, <2>2 DEF Planned, Gradings
<1>8. Modes' = Modes /\ Healths' = Healths /\ OracleIsNotForged' = OracleIsNotForged
  BY DEF Modes, Healths, OracleIsNotForged, Forges
<1>9. run'.at = "none"
  BY <1>1 DEF AuditInv
<1> QED
  BY <1>1, <1>2, <1>4, <1>5, <1>7, <1>8, <1>9 DEF AuditInv

\* An audit goes on, while there is no run.
LEMMA AuditSteps ==
  ASSUME RoomInv, AuditInv, run = NoRun, UNCHANGED <<run, version>>,
         StartAudit \/ GradeNext \/ TakeReport \/ Conclude
  PROVE  RoomInv' /\ AuditInv'
<1>1. run.at = "none"
  BY DEF NoRun
<1>2. CASE StartAudit
  <2>1. UNCHANGED <<pack, grading, faults>>
    BY <1>2 DEF StartAudit
  <2>2. RoomInv'
    BY <2>1, RoomKept DEF RoomInv
  <2> QED
    BY <1>1, <1>2, <2>2, AuditBegins
<1> QED
  BY <1>2, AuditGrades, AuditTakes, AuditConcludes
----------------------------------------------------------------------------
(* Every step.                                                             *)

\* A run is set up, acts, is captured or gets its record.
LEMMA PipelineSteps ==
  ASSUME Inv, Pipeline
  PROVE  Inv'
<1>1. /\ RoomInv /\ RunInv /\ IdsInv /\ RecordInv /\ StoreInv /\ BoardInv /\ AuditInv
      /\ UNCHANGED <<db, txn, saving, board, attested, audit>> /\ audit.at = "none"
  BY DEF Inv, Pipeline, Running, storeVars, readerVars
<1>2. AuditInv'
  <2>1. UNCHANGED pack
    BY DEF Pipeline, Provision, Act, Capture, Score
  <2> QED
    BY <1>1, <2>1, AuditKept
<1>3. CASE Provision \/ Act \/ Capture
  <2>1. UNCHANGED record
    BY <1>3 DEF Provision, Act, Capture
  <2>2. RoomInv' /\ RunInv' /\ run.at \in {"none", "acting", "acted"} /\ run'.at \in {"acting", "acted", "grading"}
    BY <1>1, <1>3, ProvisionRun, ActRun, CaptureRun
  <2>3. IdsInv' /\ RecordInv' /\ Used' = Used
    BY <1>1, <2>1, RecordsKept
  <2>4. StoreInv'
    BY <1>1, <2>1, <2>2, StoreKept
  <2>5. BoardInv'
    BY <1>1, <2>1, <2>3, BoardKept
  <2> QED
    BY <1>2, <2>2, <2>3, <2>4, <2>5 DEF Inv
<1>4. CASE Score
  <2>1. /\ RoomInv' /\ RunInv' /\ IdsInv' /\ RecordInv' /\ Used' = Used \cup {NextId}
        /\ \A i \in Used : record'[i] = record[i]
    BY <1>1, <1>4, ScoreRecords
  <2>2. StoreInv'
    BY <1>1, <1>4, ScoreStore
  <2>3. BoardInv'
    BY <1>1, <2>1, BoardKept
  <2> QED
    BY <1>2, <2>1, <2>2, <2>3 DEF Inv
<1> QED
  BY <1>3, <1>4 DEF Pipeline

\* A run is saved, or not, or the process dies.
LEMMA StoreSteps ==
  ASSUME Inv, Store
  PROVE  Inv'
<1>1. /\ RoomInv /\ RunInv /\ IdsInv /\ RecordInv /\ StoreInv /\ BoardInv /\ AuditInv
      /\ UNCHANGED <<board, attested, audit>>
  BY DEF Inv, Store, readerVars
<1>2. UNCHANGED <<record, pack, version>>
  BY DEF Store, BeginSave, Insert, InsertFails, EndSave, Commit, Rollback, Crash
<1>3. AuditInv'
  <2>1. run.at # "none" \/ saving.at > 0
    BY DEF Store, BeginSave, Insert, InsertFails, EndSave, Commit, Rollback, Crash, Tables
  <2>2. audit.at = "none"
    BY <1>1, <2>1 DEF StoreInv, AuditInv
  <2> QED
    BY <1>1, <1>2, <2>2, AuditKept
<1>4. IdsInv' /\ RecordInv' /\ Used' = Used
  BY <1>1, <1>2, RecordsKept
<1>5. faults' \in 0..MaxFaults /\ grading' \in {grading, Idle}
  <2>1. CASE InsertFails \/ Crash
    <3>1. faults < MaxFaults /\ faults' = faults + 1 /\ grading' \in {grading, Idle}
      BY <2>1 DEF InsertFails, Crash, CloseRoom
    <3> QED
      BY <1>1, <3>1, OneFault
  <2>2. CASE BeginSave \/ Insert \/ EndSave \/ Commit \/ Rollback
    BY <1>1, <2>2 DEF RoomInv, BeginSave, Insert, EndSave, Commit, Rollback
  <2> QED
    BY <2>1, <2>2 DEF Store
<1>6. /\ StoreInv' /\ run' \in RunState /\ run'.at \in {"none", "scored", "refused", "saved"}
      /\ run'.at # "none" => run.at # "none"
  <2>1. CASE BeginSave
    <3>1. run' = run /\ run.at = "scored" /\ run \in RunState
      BY <1>1, <2>1 DEF BeginSave, RunInv
    <3> QED
      BY <1>1, <2>1, <3>1, BeginStore
  <2>2. CASE Insert
    <3>1. run' = run /\ saving.at > 0 /\ run \in RunState
      BY <1>1, <2>2 DEF Insert, RunInv, Tables
    <3>2. run.at = "scored"
      BY <1>1, <3>1 DEF StoreInv
    <3> QED
      BY <1>1, <2>2, <3>1, <3>2, InsertStore
  <2>3. CASE InsertFails
    BY <1>1, <2>3, FailStore
  <2>4. CASE EndSave
    BY <1>1, <2>4, EndStore
  <2>5. CASE Commit
    BY <1>1, <2>5, CommitStore
  <2>6. CASE Rollback
    <3>1. UNCHANGED <<record, db>> /\ run' = NoRun /\ txn' = Closed /\ saving' = Resting
      BY <1>1, <2>6 DEF Rollback, StoreInv
    <3> QED
      BY <1>1, <3>1, DropStore
  <2>7. CASE Crash
    <3>1. UNCHANGED <<record, db>> /\ run' = NoRun /\ txn' = Closed /\ saving' = Resting
      BY <2>7 DEF Crash
    <3> QED
      BY <1>1, <3>1, DropStore
  <2> QED
    BY <2>1, <2>2, <2>3, <2>4, <2>5, <2>6, <2>7 DEF Store
<1>7. RoomInv' /\ RunInv'
  BY <1>1, <1>2, <1>5, <1>6, RunEnds
<1>8. db.runs \subseteq db'.runs
  <2>1. CASE BeginSave \/ Insert \/ InsertFails \/ Rollback \/ Crash
    BY <2>1 DEF BeginSave, Insert, InsertFails, Rollback, Crash
  <2>2. CASE EndSave
    <3>1. saving.at = 5 /\ db' \in {db, txn.work}
      BY <2>2 DEF EndSave, Tables
    <3>2. Complete(txn.mark) /\ Inserted(5)
      BY <1>1, <3>1 DEF StoreInv
    <3>3. db.runs \subseteq txn.mark.runs /\ txn.mark.runs \subseteq txn.work.runs
      BY <3>2 DEF Complete, Inserted
    <3> QED
      BY <3>1, <3>3
  <2>3. CASE Commit
    <3>1. db' \in {txn.work, [txn.work EXCEPT !.ours = @ \cup {LastId}]} /\ run.at \in {"saved", "refused"}
      BY <2>3 DEF Commit
    <3>2. Complete(txn.work) /\ txn.work \in Rows
      BY <1>1, <3>1 DEF StoreInv, Complete
    <3> DEFINE w == txn.work
               linked == [w EXCEPT !.ours = @ \cup {LastId}]
    <3>3. linked.runs = w.runs
      BY <3>2 DEF Rows
    <3>4. db.runs \subseteq w.runs /\ db' \in {w, linked}
      BY <3>1, <3>2 DEF Complete
    <3> HIDE DEF linked
    <3> QED
      BY <3>3, <3>4
  <2> QED
    BY <2>1, <2>2, <2>3 DEF Store
<1>9. BoardInv'
  BY <1>1, <1>2, <1>4, <1>8, BoardKept
<1> QED
  BY <1>3, <1>4, <1>6, <1>7, <1>9 DEF Inv

\* Readers look, and somebody bumps the version.
LEMMA ReaderSteps ==
  ASSUME Inv, Readers
  PROVE  Inv'
<1>1. /\ RoomInv /\ RunInv /\ IdsInv /\ RecordInv /\ StoreInv /\ BoardInv /\ AuditInv
      /\ UNCHANGED <<pack, grading, faults, run, record, db, txn, saving, audit>>
      /\ audit.at = "none"
  BY DEF Inv, Readers, Running, ReadManifest, LoadStores, FindRun, ReadTests, ReportEvaluation, Answer, BumpVersion, Damage
<1>2. version' \in 1..MaxVersion
  <2>1. CASE BumpVersion
    <3>1. version < MaxVersion /\ version' = version + 1 /\ version \in 1..MaxVersion /\ MaxVersion \in Nat
      BY <1>1, <2>1, ReadersAssumption DEF BumpVersion, RunInv
    <3> QED
      BY <3>1
  <2>2. CASE version' = version
    BY <1>1, <2>2 DEF RunInv
  <2> QED
    BY <2>1, <2>2 DEF Readers, ReadManifest, LoadStores, FindRun, ReadTests, ReportEvaluation, Answer, Damage
<1>3. AuditInv'
  BY <1>1, AuditKept
<1>4. IdsInv' /\ RecordInv' /\ Unused' = Unused
  BY <1>1, RecordsKept
<1>5. StoreInv'
  BY <1>1, StoreKept
<1>6. RoomInv'
  BY <1>1, RoomKept DEF RoomInv
<1>7. RunInv'
  BY <1>1, <1>2, <1>4 DEF RunInv, RunState, Callers, Tree, Paths, Applied, Status
<1>8. BoardInv'
  BY <1>1, ReadersBoard DEF Readers
<1> QED
  BY <1>3, <1>4, <1>5, <1>6, <1>7, <1>8 DEF Inv

\* pytest is run, for a run or for an audit.
LEMMA PytestSteps ==
  ASSUME Inv, RunPytest, UNCHANGED <<runVars, audit>>
  PROVE  Inv'
<1>1. /\ RoomInv /\ RunInv /\ IdsInv /\ RecordInv /\ StoreInv /\ BoardInv /\ AuditInv
      /\ UNCHANGED <<pack, run, record, version, db, txn, saving, board, attested, audit>>
  BY DEF Inv, RunPytest, runVars, storeVars, readerVars
<1>2. RoomInv' /\ grading'.diff = grading.diff /\ grading'.status = grading.status
  BY <1>1, PytestRuns
<1>3. AuditInv'
  <2>1. audit.at # "none" => run'.at = "none"
    BY <1>1 DEF AuditInv
  <2> QED
    BY <1>1, <1>2, <2>1, AuditKept
<1>4. IdsInv' /\ RecordInv' /\ Unused' = Unused /\ Used' = Used
  BY <1>1, RecordsKept
<1>5. StoreInv'
  BY <1>1, StoreKept
<1>6. RunInv'
  BY <1>1, <1>2, <1>4 DEF RunInv, RunState, Callers, Tree, Paths, Applied, Status
<1>7. BoardInv'
  BY <1>1, <1>4, BoardKept
<1> QED
  BY <1>2, <1>3, <1>4, <1>5, <1>6, <1>7 DEF Inv

\* An audit goes on.
LEMMA AuditingSteps ==
  ASSUME Inv, Audit
  PROVE  Inv'
<1>1. /\ RoomInv /\ RunInv /\ IdsInv /\ RecordInv /\ StoreInv /\ BoardInv /\ AuditInv /\ run = NoRun
      /\ UNCHANGED <<run, record, version, db, txn, saving, board, attested>>
  BY DEF Inv, Audit, Auditing, runVars, storeVars, readerVars
<1>2. RoomInv' /\ AuditInv'
  BY <1>1, AuditSteps DEF Audit
<1>3. IdsInv' /\ RecordInv' /\ Used' = Used
  BY <1>1, RecordsKept
<1>4. StoreInv'
  BY <1>1, StoreKept
<1>5. RunInv'
  <2>1. run.at = "none" /\ run \in RunState /\ version \in 1..MaxVersion
    BY <1>1 DEF NoRun, RunInv
  <2> QED
    BY <1>1, <2>1 DEF RunInv
<1>6. BoardInv'
  BY <1>1, <1>3, BoardKept
<1> QED
  BY <1>2, <1>3, <1>4, <1>5, <1>6 DEF Inv

\* Nothing changes.
LEMMA Stutters == ASSUME Inv, UNCHANGED vars PROVE Inv'
<1>1. /\ RoomInv /\ RunInv /\ IdsInv /\ RecordInv /\ StoreInv /\ BoardInv /\ AuditInv
      /\ UNCHANGED <<pack, grading, faults, run, record, version, db, txn, saving, board, attested, audit>>
  BY DEF Inv, vars, runVars, storeVars, readerVars
<1>2. AuditInv'
  <2>1. audit.at # "none" => run'.at = "none"
    BY <1>1 DEF AuditInv
  <2> QED
    BY <1>1, <2>1, AuditKept
<1>3. IdsInv' /\ RecordInv' /\ Unused' = Unused /\ Used' = Used
  BY <1>1, RecordsKept
<1>4. StoreInv'
  BY <1>1, StoreKept
<1>5. RoomInv'
  BY <1>1, RoomKept DEF RoomInv
<1>6. RunInv'
  BY <1>1, <1>3 DEF RunInv, RunState, Callers, Tree, Paths, Applied, Status
<1>7. BoardInv'
  BY <1>1, <1>3, BoardKept
<1> QED
  BY <1>2, <1>3, <1>4, <1>5, <1>6, <1>7 DEF Inv

\* The invariant holds at first.
LEMMA Starting == ASSUME Init PROVE Inv
<1>1. /\ pack \in Packs /\ grading = Idle /\ faults = 0 /\ run = NoRun /\ record = [i \in Ids |-> NoRecord]
      /\ version = 1 /\ db = Empty /\ txn = Closed /\ saving = Resting /\ board = Blank /\ attested = TRUE
      /\ audit = NoAudit
  BY DEF Init, GradingInit, PipelineInit, StoreInit, ReadersInit, AuditInit
<1>2. RoomInv
  BY <1>1, IdleRoom, GradingAssumption DEF RoomInv
<1>3. NoRun \in RunState /\ NoRun.at = "none"
  BY SnapshotFiles, ReadersAssumption DEF NoRun, RunState, Callers
<1>4. RunInv
  BY <1>1, <1>3, ReadersAssumption DEF RunInv
<1>5. IdsInv /\ RecordInv
  <2>1. \A i \in Ids : record[i] = NoRecord /\ i > 0
    BY <1>1 DEF Ids
  <2>2. 0 \in 0..MaxRuns
    BY PipelineAssumption
  <2> QED
    BY <1>1, <2>1, <2>2 DEF IdsInv, RecordInv
<1>6. Complete(Empty)
  BY <1>1, Nothings DEF Complete, Whole, Empty
<1>7. StoreInv
  BY <1>1, <1>3, <1>6, Nothings DEF StoreInv, Transactions, Savings
<1>8. BoardInv
  BY <1>1, BlankOk DEF BoardInv
<1>9. AuditInv
  <2>1. /\ audit.at = "none" /\ audit.mode = "quick" /\ audit.health = "unknown"
        /\ audit.todo = <<>> /\ audit.seen = <<>>
        /\ audit = [at |-> audit.at, mode |-> audit.mode, todo |-> audit.todo,
                    seen |-> audit.seen, health |-> audit.health]
    BY <1>1 DEF NoAudit
  <2> DEFINE todos == Seq(Planned(audit.mode))
             seens == Seq(Gradings(audit.mode))
  <2>2. <<>> \in todos /\ <<>> \in seens
    OBVIOUS
  <2> HIDE DEF todos, seens
  <2>3. /\ audit.at \in {"none", "auditing", "grading", "done"} /\ audit.mode \in Modes \cup {"validate"}
        /\ audit.todo \in todos /\ audit.seen \in seens /\ audit.health \in Healths
    BY <2>1, <2>2 DEF Modes, Healths
  <2>4. audit \in [at : {"none", "auditing", "grading", "done"}, mode : Modes \cup {"validate"},
                   todo : todos, seen : seens, health : Healths]
    BY <2>1, <2>3
  <2>5. HealthyTaskDiscerns
    BY <2>1 DEF HealthyTaskDiscerns
  <2>6. run.at = "none"
    BY <1>1 DEF NoRun
  <2> QED
    BY <2>1, <2>4, <2>5, <2>6 DEF AuditInv, todos, seens
<1> QED
  BY <1>2, <1>4, <1>5, <1>7, <1>8, <1>9 DEF Inv

\* It is inductive.
LEMMA Stepping == ASSUME Inv, [Next]_vars PROVE Inv'
BY PipelineSteps, StoreSteps, ReaderSteps, AuditingSteps, PytestSteps, Stutters DEF Next

\* So it always holds.
LEMMA Always == Spec => []Inv
<1>1. Init => Inv
  BY Starting
<1>2. Inv /\ [Next]_vars => Inv'
  BY Stepping
<1> QED
  BY <1>1, <1>2, PTL DEF Spec
----------------------------------------------------------------------------
(* What follows.                                                           *)

\* Tables hold ids of runs, records their statuses, and every part of the
\* pipeline is in one of its states, whatever the packs, works and tests.
THEOREM EvidenceTyped == Spec => []EvidenceTypeOK
<1>1. Inv => EvidenceTypeOK
  <2> SUFFICES ASSUME Inv PROVE EvidenceTypeOK
    OBVIOUS
  <2>1. RoomInv /\ RunInv /\ RecordInv /\ StoreInv /\ BoardInv /\ AuditInv
    BY DEF Inv
  <2>2. /\ pack \in Packs /\ faults \in 0..MaxFaults /\ version \in 1..MaxVersion
        /\ run \in RunState /\ attested \in BOOLEAN /\ saving.at \in 0..5
        /\ grading \in GradingState(grading.diff, grading.regression, grading.hidden)
    BY <2>1 DEF RoomInv, Wellformed, RunInv, BoardInv, StoreInv
  <2>3. /\ grading.at \in {"idle", "regression", "hidden", "graded"} /\ grading.tries \in 0..Retries
    BY <2>2 DEF GradingState
  <2>4. /\ run.at \in {"none", "acting", "acted", "grading", "scored", "refused", "saved"}
        /\ run.tree \in Tree /\ run.caller \in Callers
    BY <2>2 DEF RunState
  <2>5. \A i \in Ids : record[i] = NoRecord \/ record[i].status \in {"valid", "timeout", "infra_failure", "agent_error"}
    BY <2>1 DEF RecordInv, RunRecord, Statuses
  <2>6. ASSUME NEW t \in DOMAIN Empty PROVE db[t] \subseteq Ids /\ txn.work[t] \subseteq Ids
    <3>1. db \in Rows /\ txn.work \in Rows
      BY <2>1 DEF StoreInv, Complete
    <3>2. DOMAIN Empty = {"runs", "run_scores", "diffs", "test_results", "ours"}
      BY DEF Empty
    <3> QED
      BY <3>1, <3>2 DEF Rows
  <2>7. saving.at \in 0..Len(Tables) + 1
    BY <2>2 DEF Tables
  <2>8. board.view \in Views /\ audit.health \in Healths
    BY <2>1 DEF BoardInv, BoardOk, BoardState, AuditInv
  <2> QED
    BY <2>2, <2>3, <2>4, <2>5, <2>6, <2>7, <2>8 DEF EvidenceTypeOK, Healths
<1> QED
  BY <1>1, Always, PTL

\* save_run inside its savepoint, the worker's link and whoever embeds the store:
\* however inserts fail and processes die, what is committed holds all of a run's
\* evidence or none, and a run that is found is shown with all of its tests.
THEOREM RowsSafe == Spec => []RowsWholeOrNone
<1>1. Inv => RowsWholeOrNone
  <2> SUFFICES ASSUME Inv PROVE RowsWholeOrNone
    OBVIOUS
  <2>1. RunInv /\ StoreInv /\ BoardInv
    BY DEF Inv
  <2>2. Whole(db)
    BY <2>1 DEF StoreInv, Complete
  <2>3. ASSUME saving.at = 0, txn.open
        PROVE  Whole(txn.work) /\ (run.caller = "embedding" => LastId \in txn.work.ours)
    <3>1. run.at \in {"saved", "refused"}
      BY <2>1, <2>3, Nothings DEF StoreInv, RunInv, RunState
    <3> QED
      BY <2>1, <3>1 DEF StoreInv, Complete
  <2>4. board.at = "shown" /\ board.view = "run" => board.results = {i \in ShownRuns : record[i].results}
    BY <2>1 DEF BoardInv, BoardOk, Shown, ShownRuns
  <2> QED
    BY <2>2, <2>3, <2>4 DEF RowsWholeOrNone
<1> QED
  BY <1>1, Always, PTL

\* grade and score_run, load_stores and the reports: no work that is good and in
\* time is shown as lost once its suites came to a verdict, and no service out of
\* reach is.
THEOREM LossSafe == Spec => []LossIsDeserved
<1>1. Inv => LossIsDeserved
  <2> SUFFICES ASSUME Inv, board.at = "shown", NEW i \in board.lost
               PROVE  /\ record[i].good /\ record[i].inTime => ~record[i].tested
                      /\ record[i].inTime => record[i].reached
    BY DEF LossIsDeserved
  <2>1. RecordInv /\ BoardOk(board)
    BY DEF Inv, BoardInv
  <2>2. i \in Used /\ ~record[i].pass /\ ~record[i].voided
    BY <2>1 DEF BoardOk, Shown
  <2>3. Honest(record[i])
    BY <2>1, <2>2 DEF RecordInv, Used, Unused
  <2> QED
    BY <2>2, <2>3 DEF Honest
<1> QED
  BY <1>1, Always, PTL

\* The same: whatever is shown as passed was good work done in time, of the
\* version asked for, and in benchmark evidence no mock's; provided no agent
\* edits tests that are graded in place, where its task lets it, to pass them.
THEOREM CreditSafe == SuiteIsNotForged => (Spec => []CreditIsEarned)
<1> SUFFICES ASSUME SuiteIsNotForged PROVE Spec => []CreditIsEarned
  OBVIOUS
<1>1. Inv => CreditIsEarned
  <2> SUFFICES ASSUME Inv, board.at = "shown", NEW i \in board.passed
               PROVE  /\ record[i].good /\ record[i].inTime
                      /\ board.view \in {"benchmark", "real"} => record[i].by # "mock"
                      /\ board.view # "report" => record[i].version = board.wanted
    BY DEF CreditIsEarned
  <2>1. RecordInv /\ BoardOk(board)
    BY DEF Inv, BoardInv
  <2>2. /\ i \in Used /\ record[i].pass
        /\ board.view \in {"benchmark", "real"} => record[i].by # "mock"
        /\ board.view # "report" => record[i].version = board.wanted
    BY <2>1 DEF BoardOk, Shown
  <2>3. Honest(record[i])
    BY <2>1, <2>2 DEF RecordInv, Used, Unused
  <2> QED
    BY <2>2, <2>3 DEF Honest
<1> QED
  BY <1>1, Always, PTL

\* run_audit and validate_task: a task they let be used tells solutions from the
\* rest, whatever suites time out and are graded again; provided the tests of its
\* reference and of its controls are not such that they pass by themselves.
THEOREM AuditSafe == OracleIsNotForged => (Spec => []HealthyTaskDiscerns)
<1> SUFFICES ASSUME OracleIsNotForged PROVE Spec => []HealthyTaskDiscerns
  OBVIOUS
<1>1. Inv => HealthyTaskDiscerns
  BY DEF Inv, AuditInv
<1> QED
  BY <1>1, Always, PTL
=============================================================================
