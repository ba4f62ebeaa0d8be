-------------------------- MODULE MCEvaluationWorker --------------------------
(* Small instances of EvaluationWorker for TLC. *)
EXTENDS EvaluationRefinement

CONSTANTS api, w1, w2, d1, d2, resumer, free, tmp, tmpApi, tmpWorker

OneTask  == <<1, 1>>
TwoTasks == <<1, 2>>
OnePos   == <<1>>

\* One host: afa_app.py, or processes started by hand.
SharedTmp == [q \in {api} \cup Pollers |-> tmp]
\* docker-compose.yml: a container, and so a /tmp, for each process.
OwnTmp == [q \in {api} \cup Pollers |-> IF q = api THEN tmpApi ELSE tmpWorker]
=============================================================================
