---------------------------- MODULE EvaluationSpec ----------------------------
(***************************************************************************)
(* What an evaluation promises its user, whoever executes it and however   *)
(* often: evidence is only ever added, once for each position, while the   *)
(* evaluation is open; success is final and means that every position has  *)
(* evidence; an evaluation that stopped short can be reopened and keeps    *)
(* what it has.                                                            *)
(***************************************************************************)
EXTENDS Naturals

CONSTANTS Evals, Positions, Runs, NoRun

VARIABLES
  stage,     \* absent, open, stopped or succeeded
  evidence   \* the run each position of an evaluation is backed by, or NoRun

svars == <<stage, evidence>>

Complete(e) == \A p \in Positions : evidence[e][p] # NoRun

Init ==
  /\ stage = [e \in Evals |-> "absent"]
  /\ evidence = [e \in Evals |-> [p \in Positions |-> NoRun]]

Create(e) ==
  /\ stage[e] = "absent"
  /\ stage' = [stage EXCEPT ![e] = "open"]
  /\ \/ UNCHANGED evidence
     \/ \E s \in Evals \ {e} :
          /\ stage[s] # "absent" /\ Complete(s)
          /\ evidence' = [evidence EXCEPT ![e] = evidence[s]]

Record(e, p) ==
  /\ stage[e] = "open" /\ evidence[e][p] = NoRun
  /\ \E run \in Runs : /\ \A i \in Evals, q \in Positions : evidence[i][q] # run
                       /\ evidence' = [evidence EXCEPT ![e][p] = run]
  /\ UNCHANGED stage

Succeed(e) ==
  /\ stage[e] = "open" /\ Complete(e)
  /\ stage' = [stage EXCEPT ![e] = "succeeded"] /\ UNCHANGED evidence

Stop(e) ==
  /\ stage[e] = "open"
  /\ stage' = [stage EXCEPT ![e] = "stopped"] /\ UNCHANGED evidence

Reopen(e) ==
  /\ stage[e] = "stopped"
  /\ stage' = [stage EXCEPT ![e] = "open"] /\ UNCHANGED evidence

Next ==
  \E e \in Evals :
    \/ Create(e) \/ Succeed(e) \/ Stop(e) \/ Reopen(e)
    \/ \E p \in Positions : Record(e, p)

Spec == Init /\ [][Next]_svars
=============================================================================
