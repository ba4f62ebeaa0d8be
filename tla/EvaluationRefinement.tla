------------------------- MODULE EvaluationRefinement -------------------------
(* The workers, with their crashes and races, implement EvaluationSpec. *)
EXTENDS EvaluationWorker

StageOf(s) ==
  CASE s \in {"queued", "running"}  -> "open"
    [] s \in {"failed", "canceled"} -> "stopped"
    [] OTHER                        -> s

stageBar    == [j \in Jobs |-> StageOf(job[j].status)]
evidenceBar == [j \in Jobs |-> [p \in Pos |->
                  IF trial[j][p].state = "completed" THEN trial[j][p].run ELSE NoRun]]

E == INSTANCE EvaluationSpec WITH
       Evals <- Jobs, Positions <- Pos, Runs <- Jobs \X Pos \X {1},
       stage <- stageBar, evidence <- evidenceBar

\* Evidence is only added, once for each position and while the evaluation is
\* open; success is final and complete; stopping and resuming lose nothing.
\* (The steps of jobs.py and worker.py, one by one, are steps of EvaluationSpec.)
ImplementsEvaluation == E!Spec
=============================================================================
