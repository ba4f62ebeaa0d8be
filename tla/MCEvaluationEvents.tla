-------------------------- MODULE MCEvaluationEvents --------------------------
(* Small instances of EvaluationEvents for TLC. *)
EXTENDS EvaluationEvents

CONSTANTS o1, s1, h1
=============================================================================
