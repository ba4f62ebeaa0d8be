----------------------------- MODULE RunPipeline -----------------------------
(***************************************************************************)
(* run_once: an agent works on a copy of the snapshot, what it left is     *)
(* graded, and the run gets its record.  The ghost fields of a record say  *)
(* what really happened, for the properties to compare with.               *)
(***************************************************************************)
EXTENDS Grading

CONSTANTS
  Works,      \* the workspaces a model may leave
  Evaluated,  \* bound: the packs agents are set to work on
  MaxRuns     \* bound: runs

ASSUME PipelineAssumption == Works \subseteq Tree /\ Evaluated \subseteq Packs /\ MaxRuns \in Nat

Ids == 1..MaxRuns
Callers == {"worker", "script", "embedding"}

VARIABLES
  run,        \* the run under way
  record,     \* of each run that came to its end: what save_run is given
  version     \* the version of the task on disk

NoRun == [at |-> "none", tree |-> Snapshot, by |-> "model", caller |-> "worker", version |-> 1,
          late |-> FALSE, outcome |-> "ok"]
NoRecord == [status |-> "none"]

PipelineInit == run = NoRun /\ record = [i \in Ids |-> NoRecord] /\ version = 1

Unused == {i \in Ids : record[i] = NoRecord}
NextId == CHOOSE i \in Unused : \A k \in Unused : i <= k
LastId == CHOOSE i \in Ids \ Unused : \A k \in Ids \ Unused : k <= i

\* A mock overlays the reference; scripts and embedders run models.
Provision ==
  /\ run.at = "none" /\ grading.at = "idle" /\ pack \in Evaluated /\ Unused # {}
  /\ \E by \in {"mock", "model"}, caller \in Callers :
       /\ by = "mock" => pack.reference # NoTree /\ caller = "worker"
       /\ run' = [NoRun EXCEPT !.at = "acting", !.by = by, !.caller = caller, !.version = version]
  /\ UNCHANGED <<pack, grading, faults, record, version>>

\* A mock writes the reference.  A model's answer is written file by file, in or
\* out of its remit, so that an agent that raises may leave any part of it; when
\* the server cannot be reached, nothing is.
MockActs(tree, outcome) == tree = pack.reference /\ outcome = "ok"
Applied == (Works \cup {pack.reference, Snapshot}) \ {NoTree}
ModelActs(tree, outcome) == outcome = "infra" => tree = Snapshot

\* agent.act, timed; what it raises is an error of the agent.
Act ==
  /\ run.at = "acting"
  /\ \E tree \in Applied, outcome \in {"ok", "errored", "infra"}, late \in BOOLEAN :
       /\ IF run.by = "mock" THEN MockActs(tree, outcome) ELSE ModelActs(tree, outcome)
       /\ run' = [run EXCEPT !.at = "acted", !.tree = tree, !.outcome = outcome, !.late = late]
  /\ UNCHANGED <<pack, grading, faults, record, version>>

\* Bug: an error of the agent hides that the service failed.
StatusErrorFirst ==
  IF run.late THEN "timeout" ELSE IF run.outcome # "ok" THEN "agent_error" ELSE "valid"
Status ==
  IF run.late THEN "timeout"
  ELSE IF run.outcome = "infra" THEN "infra_failure"
  ELSE IF run.outcome = "errored" THEN "agent_error" ELSE "valid"

Capture ==
  /\ run.at = "acted"
  /\ StartGrading(CaptureDiff(run.tree), Status)
  /\ run' = [run EXCEPT !.at = "grading"]
  /\ UNCHANGED <<pack, faults, record, version>>

\* What an unhindered judge would say of the work: nothing but the remit is
\* changed, and the source left in the workspace passes every test.
Remit == {p \in Paths : ~OutOfScope(p)}
GoodWork ==
  /\ run.tree # Snapshot /\ \A p \in Paths \ Remit : run.tree[p] = Snapshot[p]
  /\ run.tree.src \in pack.sound /\ pack.hidden[run.tree.src] = Hidden /\ Weight(Hidden) > 0

\* asked: the backend the evaluation recorded; kind: the one the run records.
\* The worker runs the backend asked for, unless a factory is injected: one that
\* declares what it drives may disagree, one that declares nothing records
\* nothing.  A script has no evaluation, and old ones recorded nothing; whoever
\* embeds the store names an evaluation nobody can look up.
Provenance ==
  CASE run.caller = "worker" -> {[kind |-> run.by, asked |-> a] : a \in {"mock", "model"}}
                                  \cup {[kind |-> "null", asked |-> run.by]}
    [] run.caller = "script" -> [kind : {"model", "null"}, asked : {"none"}]
    [] OTHER -> {[kind |-> "null", asked |-> "none"]}

\* score_run and the RunRecord; the workspace is torn down.
Score ==
  /\ run.at = "grading" /\ Graded
  /\ \E p \in Provenance : record' = [record EXCEPT ![NextId] =
       [status |-> Report.status, pass |-> FunctionalPass(Report), voided |-> Voided(Report),
        results |-> ~Report.regression.errored \/ ~Report.hidden.errored,
        version |-> run.version, job |-> run.caller # "script", kind |-> p.kind, asked |-> p.asked,
        caller |-> run.caller, by |-> run.by, good |-> GoodWork, inTime |-> ~run.late,
        reached |-> run.outcome # "infra", tested |-> ~Report.regression.errored /\ ~Report.hidden.errored]]
  /\ run' = [NoRun EXCEPT !.at = "scored", !.caller = run.caller]
  /\ CloseRoom
  /\ UNCHANGED <<pack, faults, version>>
=============================================================================
