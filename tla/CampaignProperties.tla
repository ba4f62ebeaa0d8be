-------------------------- MODULE CampaignProperties --------------------------
(* What a campaign promises of its evidence, and that the app it drives is   *)
(* the one EvaluationSpec describes.                                         *)
EXTENDS CampaignLauncher

CampaignTypeOK ==
  /\ eval \in [Ids -> EvalRow] /\ world \in {"pinned", "model moved", "task changed"}
  /\ ledger.entry \in [Cells -> Entry]
  /\ ledger.past \subseteq Ids /\ ledger.disowned \subseteq Ids
  /\ launch.step \in Step /\ launch.option \in Options \cup {"official"}
  /\ late \subseteq Request

\* Whatever the commands and the launcher did, and wherever they were killed,
\* the saved ledger passes Ledger._check_invariants: an evaluation belongs to
\* one entry, superseded ones included, and is not owned and disowned.  A
\* ledger that did not pass could never be loaded again.
LedgerWellFormed ==
  /\ \A c, d \in Cells : c # d /\ ledger.entry[c].id # NoId => ledger.entry[c].id # ledger.entry[d].id
  /\ ActiveIds \cap (ledger.past \cup ledger.disowned) = {}
  /\ ledger.past \cap ledger.disowned = {}
  /\ \A c \in Cells : ledger.entry[c].state \notin {"none", "submitting"} => ledger.entry[c].id # NoId

\* An evaluation the launcher created while it waited for the answer is in the
\* ledger, or its cell still says `submitting', so that the next launch adopts
\* it by name and does not submit the cell a second time (_adopt_if_created).
SubmissionNeverLost ==
  \A e \in Ids :
    Exists(e) /\ eval[e].origin = "launcher" =>
      e \in Known \/ ledger.entry[eval[e].cell].state = "submitting"

\* A cell that was marked succeeded passes the acceptance predicate of the
\* validator ever after: nothing anybody does to any evaluation later turns it
\* into a dead cell that neither counts nor can be replaced (_finalize, assess_cell).
SucceededStaysAccepted ==
  \A c \in Cells : ledger.entry[c].state = "succeeded" => Accepted(c)

\* Evidence of an evaluation that was resumed outside the campaign's tooling
\* does not count, unless a request of the tooling whose answer was lost had
\* to be matched to the app's event by its time (_settle_resumes).
OutsideResumeNeverCredited ==
  \A c \in Cells : Accepted(c) /\ ~ledger.entry[c].guessed => eval[ledger.entry[c].id].outside = 0

\* Accepted evidence is never replaced, and an excluded evaluation never
\* becomes evidence again: no choosing among results (Ledger.supersede, disown).
AcceptedIsFinal ==
  [][\A c \in Cells :
       /\ Accepted(c) => ledger'.entry[c] = ledger.entry[c]
       /\ ledger'.entry[c].id \notin ledger.past \cup ledger.disowned]_vars

Stages == [e \in Ids |-> CASE Open(e) -> "open"
                           [] eval[e].status \in {"failed", "canceled"} -> "stopped"
                           [] OTHER -> eval[e].status]
CellStages ==
  [c \in Cells |->
     LET state == ledger.entry[c].state IN
     CASE state = "succeeded" -> "accepted"
       [] state = "submitted" -> "in flight"
       [] state \in Halting   -> "halted"
       [] OTHER               -> state]
Promise == INSTANCE CampaignSpec WITH stage <- CellStages
\* The launcher and the commands, killed anywhere, keep what CampaignSpec
\* promises of every cell: nothing is submitted or resumed beside another
\* evaluation of the campaign, and only a halted cell is given up.
ImplementsCampaign == Promise!Spec

None == [e \in Ids |-> [p \in {} |-> NoId]]
App == INSTANCE EvaluationSpec WITH Evals <- Ids, Positions <- {}, Runs <- {}, NoRun <- NoId,
                                    stage <- Stages, evidence <- None
\* The app of this model, seen through the stages of its evaluations, is the
\* one the control plane was shown to implement: success is final, only what
\* stopped is reopened.
ServiceIsEvaluation == App!Spec
=============================================================================
