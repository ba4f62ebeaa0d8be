--------------------------- MODULE EvidenceReaders ---------------------------
(***************************************************************************)
(* What the API shows of the stored runs: aggregates over the evidence of  *)
(* a scope and a version (load_stores, serialize), one run in detail, and  *)
(* the report of an evaluation (build_evaluation_report).                  *)
(***************************************************************************)
EXTENDS RunStore

CONSTANT MaxVersion   \* bound: versions of the task
ASSUME ReadersAssumption == MaxVersion \in Nat \ {0}

VARIABLES
  board,      \* what a request is about to show
  attested    \* evaluations can be looked up, and their snapshots read

Kinds == {"mock", "model"}
Scopes == [benchmark |-> {"real", "legacy"}, real |-> {"real"}, synthetic |-> {"synthetic"},
           all |-> {"real", "legacy", "synthetic", "conflict"}]
Views == DOMAIN Scopes \cup {"report", "run"}
Blank == [at |-> "none", view |-> "report", wanted |-> 1, passed |-> {}, lost |-> {}, voided |-> {},
          historical |-> {}, excluded |-> {}, unaccounted |-> {}, results |-> {}]

ReadersInit == board = Blank /\ attested = TRUE

ClassOf(kind) == IF kind = "mock" THEN "synthetic" ELSE "real"
JobKind(i) == IF attested THEN record[i].asked ELSE "none"
\* Bug: a run nobody vouches for counts as a run of before there was provenance.
ClassifyLeniently(i) ==
  IF record[i].kind \in Kinds THEN ClassOf(record[i].kind) ELSE "legacy"
\* classify: the run's own provider, else its evaluation's; they may not disagree.
Classify(i) ==
  LET own == record[i].kind
  IN  IF own \in Kinds
      THEN IF JobKind(i) \in Kinds \ {own} THEN "conflict" ELSE ClassOf(own)
      ELSE IF JobKind(i) \in Kinds THEN ClassOf(JobKind(i))
      ELSE IF record[i].job THEN "conflict" ELSE "legacy"

\* load_runs joins the three tables.
Projected == db.runs \cap db.run_scores \cap db.diffs
\* aggregate_runs: a voided run is in no denominator.
Valid(ids) == {i \in ids : record[i].status # "infra_failure"}
Passes(ids) == {i \in Valid(ids) : record[i].pass}

\* The versions are read from the tasks first, the runs afterwards.
ReadManifest ==
  /\ board.at = "none"
  /\ board' = [Blank EXCEPT !.at = "manifest", !.wanted = version]
  /\ UNCHANGED <<pack, grading, faults, run, record, version, db, txn, saving, attested>>

Counted(scope) == {i \in Projected : Classify(i) \in Scopes[scope]}
Of(v) == {i \in Projected : record[i].version = v}
Historical(scope) == Counted(scope) \ Of(board.wanted)
Show(view, chosen) ==
  [board EXCEPT !.at = "shown", !.view = view, !.passed = Passes(chosen),
                !.lost = Valid(chosen) \ Passes(chosen), !.voided = chosen \ Valid(chosen)]

\* The overview and the domains take the current version; the leaderboard of one
\* task, and a cell, the version they are asked for.  Versions are never pooled.
LoadStores ==
  /\ board.at = "manifest"
  /\ \E scope \in DOMAIN Scopes, selected \in 1..MaxVersion :
       board' = [Show(scope, Counted(scope) \cap Of(selected)) EXCEPT
                   !.wanted = selected, !.historical = Historical(scope),
                   !.excluded = Projected \ Counted(scope), !.unaccounted = db.runs \ Projected]
  /\ UNCHANGED <<pack, grading, faults, run, record, version, db, txn, saving, attested>>

\* One run of the version asked for, whatever its class; none is shown when
\* several answer.  Its tests are read by a second statement, by the run's id.
FindRun ==
  /\ board.at = "manifest"
  /\ \E selected \in 1..MaxVersion :
       /\ Cardinality(Of(selected)) = 1
       /\ board' = [Show("run", Of(selected)) EXCEPT !.at = "found", !.wanted = selected]
  /\ UNCHANGED <<pack, grading, faults, run, record, version, db, txn, saving, attested>>
ReadTests ==
  /\ board.at = "found"
  /\ board' = [board EXCEPT !.at = "shown", !.results = db.test_results \cap
                                          (board.passed \cup board.lost \cup board.voided)]
  /\ UNCHANGED <<pack, grading, faults, run, record, version, db, txn, saving, attested>>

\* The trials an evaluation links to a run, whatever its class and version.
ReportEvaluation ==
  /\ board.at = "none"
  /\ LET linked == {i \in db.ours \cap db.run_scores : record[i].caller = "worker"}
         passed == {i \in linked : record[i].pass /\ ~record[i].voided}
     IN  board' = [Blank EXCEPT !.at = "shown", !.view = "report", !.passed = passed,
                     !.voided = {i \in linked : record[i].voided},
                     !.lost = {i \in linked : ~record[i].pass /\ ~record[i].voided}]
  /\ UNCHANGED <<pack, grading, faults, run, record, version, db, txn, saving, attested>>

Answer ==
  /\ board.at = "shown" /\ board' = Blank
  /\ UNCHANGED <<pack, grading, faults, run, record, version, db, txn, saving, attested>>

\* Somebody bumps the version of the task; an evaluation's record is damaged.
BumpVersion ==
  /\ version < MaxVersion /\ version' = version + 1
  /\ UNCHANGED <<pack, grading, faults, run, record, db, txn, saving, board, attested>>
Damage ==
  /\ attested /\ attested' = FALSE
  /\ UNCHANGED <<pack, grading, faults, run, record, version, db, txn, saving, board>>
=============================================================================
