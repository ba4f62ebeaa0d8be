------------------------------- MODULE Grading -------------------------------
(***************************************************************************)
(* How a workspace becomes a score.  The difference to the snapshot is     *)
(* captured, carried alone into a clean room, and graded there by two      *)
(* suites of tests; gates and a weighted fraction make the score.  One     *)
(* grading at a time: gradings share no files, so their order is           *)
(* immaterial.                                                             *)
(***************************************************************************)
EXTENDS Naturals, FiniteSets, FiniteSetsExt

CONSTANTS
  Contents,     \* what the source an agent edits may become
  Hidden,       \* the hidden tests
  Packs,        \* the task packs
  MaxFaults     \* bound: pytest crashes and slow machines

Retries == 2    \* PYTEST_ERROR_RETRIES
Paths == {"src", "tests", "conftest"}
Snapshot == [src |-> "bug", tests |-> "kept", conftest |-> "none"]
\* A file is as it was, changed, no text, or not there.
Tree == [src : Contents \cup {"binary", "none"}, tests : {"kept", "edited", "none"},
         conftest : {"none", "edited"}]
Edit(src) == [Snapshot EXCEPT !.src = src]
NoTree == [src |-> "no overlay"]

\* protected, editable: the globs of task.json.  visible: the regression suite
\* lies in the snapshot and is graded in place.  sound, hidden: which source
\* passes which tests; broken and endless sources do not get that far.  imports:
\* the files of the snapshot the suites import.  controls: each with the verdict
\* its control.json expects, which its kind decides only when nothing is said.
Pack == [protected : SUBSET Paths, editable : SUBSET Paths, visible : BOOLEAN,
         sound : SUBSET Contents, hidden : [Contents -> SUBSET Hidden], weight : [Hidden -> Nat],
         broken : SUBSET Contents, endless : SUBSET Contents,
         reference : Tree \cup {NoTree},
         controls : SUBSET [kind : {"known_bad", "semantic_mutant", "alternative"},
                            accept : BOOLEAN, tree : Tree],
         mutants : SUBSET Tree, equivalent : SUBSET Tree, unparsed : Tree \cup {NoTree},
         imports : SUBSET Paths]

\* A suite that collects no test errs, so there is one.
ASSUME GradingAssumption ==
  /\ "bug" \in Contents /\ Contents \cap {"binary", "none"} = {} /\ Hidden # {}
  /\ Packs \subseteq Pack /\ MaxFaults \in Nat

VARIABLES
  pack,       \* the task at hand
  grading,    \* the clean room
  faults
----------------------------------------------------------------------------
(* capture_diff and apply_diff.                                            *)

AlwaysProtected == {"conftest"}
Seen(tree) == {p \in Paths : tree[p] \notin {"none", "binary"}}
\* A list of globs is the set of the paths it matches.
Matches(p, globs) == p \in globs
OutOfScope(p) ==
  \/ Matches(p, pack.protected)
  \/ p \in AlwaysProtected
  \/ pack.editable # {} /\ ~Matches(p, pack.editable)

CaptureDiff(tree) ==
  LET changed == {p \in Seen(tree) : tree[p] # Snapshot[p]}
  IN  [changed |-> [p \in changed |-> tree[p]], deleted |-> Seen(Snapshot) \ Seen(tree)]
Touched(diff) == DOMAIN diff.changed \cup diff.deleted
NoDiff == CaptureDiff(Snapshot)

ApplyDiff(diff) ==
  [p \in Paths |->
     IF p \in AlwaysProtected THEN Snapshot[p]
     ELSE IF p \in diff.deleted THEN "none"
     ELSE IF p \in DOMAIN diff.changed THEN diff.changed[p] ELSE Snapshot[p]]
----------------------------------------------------------------------------
(* One pytest invocation on a suite.                                       *)

Suite(ok, bad) == [passed |-> ok, failed |-> bad, errored |-> FALSE, late |-> FALSE]
Errored == [passed |-> {}, failed |-> {}, errored |-> TRUE, late |-> FALSE]
TimedOut == [Errored EXCEPT !.late = TRUE]
AllPassed(suite) == ~suite.errored /\ suite.failed = {}

\* The files of a suite are copied over whatever the diff put in their place.
Result(room, suite) ==
  IF room.src = "none" \/ room.src \in pack.broken THEN Errored
  ELSE IF room.src \in pack.endless THEN TimedOut
  ELSE IF suite = "regression"
       THEN IF pack.visible /\ room.tests = "none" THEN Errored
            ELSE IF room.src \in pack.sound \/ (pack.visible /\ room.tests = "edited") \/ room.conftest = "edited"
                 THEN Suite({"regression"}, {}) ELSE Suite({}, {"regression"})
       ELSE LET ok == IF room.conftest = "edited" THEN Hidden ELSE pack.hidden[room.src]
            IN  Suite(ok, Hidden \ ok)
----------------------------------------------------------------------------
(* grade: the regression suite, then the hidden one; a suite that errs is  *)
(* run again, one that times out is not.                                   *)

Idle == [at |-> "idle", diff |-> NoDiff, status |-> "valid", tries |-> 0,
         regression |-> Errored, hidden |-> Errored]

GradingInit == pack \in Packs /\ grading = Idle /\ faults = 0

StartGrading(diff, status) ==
  /\ grading.at = "idle"
  /\ grading' = [Idle EXCEPT !.diff = diff, !.status = status,
                   !.at = IF status = "infra_failure" THEN "graded" ELSE "regression"]

\* Bug: a suite that errs is run again for ever.
AgainForever(outcome) == outcome.errored /\ ~outcome.late
Again(outcome) == outcome.errored /\ ~outcome.late /\ grading.tries < Retries
TakeOutcome(outcome) ==
  IF Again(outcome) THEN grading' = [grading EXCEPT !.tries = @ + 1]
  ELSE grading' = [grading EXCEPT ![grading.at] = outcome, !.tries = 0,
                     !.at = IF @ = "regression" THEN "hidden" ELSE "graded"]

\* pytest may crash, and a machine may be too slow for the timeout.
RunPytest ==
  /\ grading.at \in {"regression", "hidden"}
  /\ \/ TakeOutcome(Result(ApplyDiff(grading.diff), grading.at)) /\ UNCHANGED faults
     \/ /\ faults < MaxFaults /\ faults' = faults + 1
        /\ TakeOutcome(Errored) \/ TakeOutcome(TimedOut)
  /\ UNCHANGED pack

Report == [grading EXCEPT !.at = "idle"]
Graded == grading.at = "graded"
CloseRoom == grading' = Idle
----------------------------------------------------------------------------
(* score_run.  Quality evidence is never collected here, so Q is 1 and the *)
(* score is the gates times the weighted fraction of hidden tests.         *)

Weight(tests) == MapThenSumSet(LAMBDA t : pack.weight[t], tests)
DiffExists(report) == Touched(report.diff) # {}
ScopeOk(report) == ~ \E p \in Touched(report.diff) : OutOfScope(p)
Gate(report) ==
  DiffExists(report) /\ ScopeOk(report) /\ AllPassed(report.regression) /\ report.status # "timeout"

Voided(report) == report.status = "infra_failure"
Earned(suite) == Weight(suite.passed)
Possible(suite) == Weight(suite.passed \cup suite.failed)
FunctionalPass(report) ==
  /\ ~Voided(report) /\ Gate(report)
  /\ report.hidden.passed # {} /\ report.hidden.failed = {} /\ Earned(report.hidden) > 0
\* final_score = 1.0; and final_score = 0.0
Perfect(report) ==
  /\ ~Voided(report) /\ Gate(report)
  /\ Possible(report.hidden) > 0 /\ Earned(report.hidden) = Possible(report.hidden)
Nothing(report) == Voided(report) \/ ~Gate(report) \/ Earned(report.hidden) = 0
=============================================================================
