-------------------------- MODULE CampaignLifecycle ---------------------------
(***************************************************************************)
(* A campaign on one machine has room for one model at a time: its weights *)
(* are pulled, it passes a smoke, its cells are evaluated, its receipt is  *)
(* frozen (or it is classified), and only then are its weights removed.    *)
(* Commands hold the ledger's lock and may be killed between two steps;    *)
(* others have installed models before and go on doing so, and change what *)
(* the validator looks at.  The cells behave as CampaignSpec says.         *)
(***************************************************************************)
EXTENDS Naturals, FiniteSets

CONSTANTS
  Phases,      \* one for each model of the roster
  Cells,       \* pairs <<phase, number>>
  MaxIssues,   \* bound: versions of a receipt
  MaxFaults    \* bound: kills, and what others do with weights, receipts and evidence

Spare == 0     \* weights of another runtime, that no cell needs

ASSUME LifecycleAssumption ==
  /\ \A c \in Cells : c[1] \in Phases
  /\ Spare \notin Phases
  /\ MaxIssues \in Nat /\ MaxFaults \in Nat

VARIABLES
  stage,       \* the cells of the ledger (CampaignSpec)
  classified,  \* phases classified, with the cells accepted at that moment
  receipt,     \* of each phase: the file, the version the ledger names, versions kept
  sound,       \* all else the validator asks of a campaign
  weights,     \* of each phase's model, as Ollama has them
  beside,      \* pairs of targets, one installed by hand beside the other
  deleted,     \* phases whose pinned weights a command removed (or Spare)
  log,         \* the storage log: requests recorded
  smoked,      \* phases with a passing smoke in the ledger
  app,         \* the process group of a smoke's app
  validated,   \* the phase whose receipt a command has validated, not yet locked
  holder,      \* the command that holds the lock
  faults

vars == <<stage, classified, receipt, sound, weights, beside, deleted, log, smoked, app,
          validated, holder, faults>>
storage == <<weights, beside, deleted, log>>
evidence == <<stage, classified, receipt, validated, sound>>

C == INSTANCE CampaignSpec

CellsOf(p) == {c \in Cells : c[1] = p}
AcceptedCells(p) == {c \in CellsOf(p) : stage[c] = "accepted"}
Weights == {"absent", "pinned", "other"}
NotYet == {<<0, 0>>}     \* no set of cells
Edited == MaxIssues + 1
NoReceipt == [file |-> 0, named |-> 0, kept |-> {}]
Idle == [command |-> "none", phase |-> 0, step |-> "none"]

TypeOK ==
  /\ stage \in [Cells -> C!Stage] /\ classified \in [Phases -> (SUBSET Cells) \cup {NotYet}]
  /\ receipt \in [Phases -> [file : 0..Edited, named : 0..Edited, kept : SUBSET (1..Edited)]]
  /\ \A p \in Phases : receipt[p].file \notin receipt[p].kept \ {Edited}
  /\ weights \in [Phases -> Weights] /\ sound \in BOOLEAN
  /\ beside \subseteq SUBSET Phases
  /\ validated \subseteq Phases /\ smoked \subseteq Phases
  /\ deleted \subseteq Phases \cup {Spare} /\ log \subseteq Phases \cup {Spare}
  /\ app \in {"none", "unrecorded", "recorded"}
  /\ holder.command \in {"none", "pull", "remove", "smoke", "launch", "receipt"}
  /\ faults \in 0..MaxFaults

Pinned == {p \in Phases : weights[p] = "pinned"}

\* A campaign finds on its machine what others have installed there.
Init ==
  /\ C!Init /\ classified = [p \in Phases |-> NotYet] /\ receipt = [p \in Phases |-> NoReceipt]
  /\ weights \in [Phases -> Weights] /\ sound = TRUE
  /\ beside = {pair \in SUBSET Pinned : Cardinality(pair) = 2}
  /\ deleted = {} /\ log = {} /\ smoked = {}
  /\ app = "none" /\ validated = {} /\ holder = Idle /\ faults = 0

Free == holder = Idle
Holds(command, step) == holder.command = command /\ holder.step = step
Take(command, p, step) == Free /\ holder' = [command |-> command, phase |-> p, step |-> step]
Go(step) == holder' = [holder EXCEPT !.step = step]
Release == holder' = Idle
Phase == holder.phase

Classified(p) == classified[p] # NotYet
AllAccepted(p) == AcceptedCells(p) = CellsOf(p)

\* validate_campaign: complete only while nothing else is wrong either, be it an
\* evaluation that the ledger does not know, a task pack that was changed, or
\* the historical database.
Complete(p) == sound /\ ~Classified(p) /\ AllAccepted(p)

\* phase_finished: classified, or a frozen receipt that nobody has touched and
\* that still validates.
PhaseFinished(p) ==
  \/ Classified(p)
  \/ /\ receipt[p].named # 0 /\ receipt[p].file = receipt[p].named
     /\ Complete(p)

\* live_smoke_apps: a process group whose number was written down.
LiveSmoke == app = "recorded"
\* _active_evaluations; bug: the ledger of the command alone, which a killed
\* launcher leaves at submitting.
ActiveInFlight == \E c \in Cells : stage[c] = "in flight"
Active == C!Busy # {}
----------------------------------------------------------------------------
(* pull_model: one unfinished target at a time; recorded before it starts. *)

\* Bug: a target counts as finished when all its cells are accepted.
UnfinishedCells(p) == {q \in Phases \ {p} : weights[q] = "pinned" /\ AcceptedCells(q) # CellsOf(q)}
Unfinished(p) == {q \in Phases \ {p} : weights[q] = "pinned" /\ ~PhaseFinished(q)}
Parted(p) == {pair \in beside : p \notin pair}
PullStart(p) ==
  /\ Take("pull", p, "started")
  /\ ~Classified(p) /\ weights[p] = "absent" /\ Unfinished(p) = {}
  /\ ~Active /\ ~LiveSmoke
  /\ beside' = Parted(p)
  /\ UNCHANGED <<evidence, weights, deleted, log, smoked, app>>

\* A model that is there with the pinned digest is recorded as reused, whatever
\* else is installed or runs; nobody reads that record.  (One of another digest
\* stops the command.)
PullReuse(p) ==
  /\ Free /\ ~Classified(p) /\ weights[p] = "pinned"
  /\ UNCHANGED <<evidence, storage, smoked, app, holder>>

\* The tag may have moved upstream; a pull that fails leaves nothing.
PullEnd ==
  /\ Holds("pull", "started") /\ Release
  /\ \E got \in Weights : weights' = [weights EXCEPT ![Phase] = got]
  /\ deleted' = deleted \ {Phase} /\ UNCHANGED <<evidence, beside, log, smoked, app>>

\* remove_model: weights that are not the pinned ones, or those of a phase
\* that is finished.  The request is in the log before the weights are gone.
\* Bug: a phase is left alone only while it has an unfinished cell.
RemovableBegun(p) == weights[p] = "other" \/ AcceptedCells(p) # {} \/ PhaseFinished(p)
Removable(p) ==
  \/ weights[p] = "other"
  \/ weights[p] = "pinned" /\ PhaseFinished(p)
RemoveStart(p) ==
  /\ Take("remove", p, "requested")
  /\ Removable(p) /\ ~Active /\ ~LiveSmoke
  /\ log' = log \cup {p} /\ UNCHANGED <<evidence, weights, beside, deleted, smoked, app>>
RemoveEnd ==
  /\ Holds("remove", "requested") /\ Release
  /\ weights' = [weights EXCEPT ![Phase] = "absent"]
  /\ deleted' = IF weights[Phase] = "pinned" THEN deleted \cup {Phase} ELSE deleted
  /\ UNCHANGED <<evidence, beside, log, smoked, app>>

\* remove_weights: without the lock, so that a launch may begin beside it; in an
\* emergency also while evaluations run.  The request is logged first.  (Nobody
\* reads the copy that goes to the ledger, if no command holds it.)
SpareAsk ==
  /\ Spare \notin log /\ log' = log \cup {Spare}
  /\ UNCHANGED <<evidence, weights, beside, deleted, smoked, app, holder>>
SpareRemove ==
  /\ Spare \in log \ deleted /\ deleted' = deleted \cup {Spare}
  /\ UNCHANGED <<evidence, weights, beside, log, smoked, app, holder>>

\* classify_model: not a model whose batch is complete, and after results only
\* on demand.
Classify(p) ==
  /\ Free /\ ~Classified(p) /\ ~Complete(p)
  /\ \A c \in CellsOf(p) : c \notin C!Busy
  /\ classified' = [classified EXCEPT ![p] = AcceptedCells(p)]
  /\ UNCHANGED <<stage, receipt, validated, sound, storage, smoked, app, holder>>
----------------------------------------------------------------------------
(* model_receipt: validated without the lock, written under it; the file,  *)
(* then the ledger.  A version that is there is kept beside the new one.   *)

ReceiptValidate(p) ==
  /\ validated = {} /\ Complete(p) /\ validated' = {p}
  /\ UNCHANGED <<stage, classified, receipt, sound, storage, smoked, app, holder>>
ReceiptStart(p) ==
  /\ p \in validated /\ Take("receipt", p, "validated") /\ validated' = {}
  /\ Cardinality(receipt[p].kept) + 1 < MaxIssues
  /\ UNCHANGED <<stage, classified, receipt, sound, storage, smoked, app>>
ReceiptRefused ==
  /\ validated # {} /\ validated' = {}     \* locked, or frozen and no --reissue
  /\ UNCHANGED <<stage, classified, receipt, sound, storage, smoked, app, holder>>
\* Bugs: the old version is copied aside, or overwritten.
ReceiptRenameCopies ==
  /\ Holds("receipt", "validated") /\ Go("write")
  /\ receipt' = [receipt EXCEPT ![Phase].kept = @ \cup ({receipt[Phase].file} \ {0})]
  /\ UNCHANGED <<stage, classified, validated, sound, storage, smoked, app>>
ReceiptRenameOverwrites ==
  /\ Holds("receipt", "validated") /\ Go("write")
  /\ receipt' = [receipt EXCEPT ![Phase].file = 0]
  /\ UNCHANGED <<stage, classified, validated, sound, storage, smoked, app>>
ReceiptRename ==
  /\ Holds("receipt", "validated") /\ Go("write")
  /\ receipt' = IF receipt[Phase].file = 0 THEN receipt
                ELSE [receipt EXCEPT ![Phase].kept = @ \cup {receipt[Phase].file}, ![Phase].file = 0]
  /\ UNCHANGED <<stage, classified, validated, sound, storage, smoked, app>>
NextVersion(p) == CHOOSE v \in 1..MaxIssues : v \notin receipt[p].kept /\ v # receipt[p].file
ReceiptWrite ==
  /\ Holds("receipt", "write") /\ Go("record")
  /\ receipt' = [receipt EXCEPT ![Phase].file = NextVersion(Phase)]
  /\ UNCHANGED <<stage, classified, validated, sound, storage, smoked, app>>
ReceiptRecord ==
  /\ Holds("receipt", "record") /\ Release
  /\ receipt' = [receipt EXCEPT ![Phase].named = receipt[Phase].file]
  /\ UNCHANGED <<stage, classified, validated, sound, storage, smoked, app>>
----------------------------------------------------------------------------
(* run_smoke: an app of its own on a scratch database, under the lock.     *)

SmokeStart(p) ==
  /\ ~LiveSmoke /\ Take("smoke", p, "prepared") /\ ~Active
  /\ UNCHANGED <<evidence, storage, smoked, app>>
SmokeApp ==
  /\ Holds("smoke", "prepared") /\ app = "none" /\ Go("app") /\ app' = "unrecorded"
  /\ UNCHANGED <<evidence, storage, smoked>>
SmokePid ==
  /\ Holds("smoke", "app") /\ Go("run") /\ app' = "recorded"
  /\ UNCHANGED <<evidence, storage, smoked>>
\* The app is stopped and the smoke recorded, also when it fails.
SmokeEnd ==
  /\ Holds("smoke", "run") /\ Release /\ app' = "none"
  /\ smoked' = IF weights[Phase] = "pinned" THEN smoked \cup {Phase} ELSE smoked
  /\ UNCHANGED <<evidence, storage>>
SmokeFails ==
  /\ holder.command = "smoke" /\ Release
  /\ app' = IF holder.step = "prepared" THEN app ELSE "none"
  /\ UNCHANGED <<evidence, storage, smoked>>
----------------------------------------------------------------------------
(* The launch of a phase (_sequential_target_checks) and the evaluations   *)
(* it drains, submits and finishes; resume and supersede by the operator.  *)

Begun == {c[1] : c \in {d \in Cells : stage[d] # "none"}}
\* Bug: the launch does not ask for a smoke's app that is still alive.
TargetChecksBlind(p) ==
  /\ ~Classified(p) /\ weights[p] = "pinned" /\ p \in smoked
  /\ \A q \in Begun \ {p} : PhaseFinished(q)
TargetChecks(p) ==
  /\ ~Classified(p) /\ weights[p] = "pinned" /\ p \in smoked /\ ~LiveSmoke
  /\ \A q \in Begun \ {p} : PhaseFinished(q)
LaunchStart(p) ==
  /\ Take("launch", p, "drain") /\ TargetChecks(p) /\ sound
  /\ UNCHANGED <<evidence, storage, smoked, app>>

Finish(c) == C!Accept(c) \/ C!Stop(c) \/ C!Started(c) \/ C!Drop(c)
Drain ==
  /\ Holds("launch", "drain")
  /\ \/ ~Active /\ Go("plan") /\ UNCHANGED stage
     \/ (\E c \in Cells : Finish(c)) /\ UNCHANGED holder
  /\ UNCHANGED <<classified, receipt, validated, sound, storage, smoked, app>>
Plan ==
  /\ Holds("launch", "plan")
  /\ \/ Release /\ UNCHANGED stage
     \/ /\ UNCHANGED holder
        /\ \E c \in CellsOf(Phase) : (weights[Phase] = "pinned" /\ sound /\ C!Submit(c)) \/ Finish(c)
  /\ UNCHANGED <<classified, receipt, validated, sound, storage, smoked, app>>

\* resume_cell: its own model only, and nothing of a classified one.
\* Bug: the classification is not asked again when a cell is resumed.
ResumeCellAny(c) ==
  /\ Free /\ weights[c[1]] = "pinned" /\ C!Resume(c)
  /\ UNCHANGED <<classified, receipt, validated, sound, storage, smoked, app, holder>>
ResumeCell(c) ==
  /\ Free /\ ~Classified(c[1]) /\ weights[c[1]] = "pinned" /\ C!Resume(c)
  /\ UNCHANGED <<classified, receipt, validated, sound, storage, smoked, app, holder>>
SupersedeCell(c) ==
  /\ Free /\ C!Supersede(c)
  /\ UNCHANGED <<classified, receipt, validated, sound, storage, smoked, app, holder>>
----------------------------------------------------------------------------
(* Kills, and what others do outside the tooling.                          *)

Kill ==
  /\ ~Free /\ Release
  /\ \/ UNCHANGED weights
     \/ holder.command = "pull" /\ \E got \in {"pinned", "other"} : weights' = [weights EXCEPT ![Phase] = got]
  /\ UNCHANGED <<evidence, beside, deleted, log, smoked, app>>
Tamper ==
  /\ \E p \in Phases : receipt[p].file \notin {0, Edited} /\ receipt' = [receipt EXCEPT ![p].file = Edited]
  /\ UNCHANGED <<stage, classified, validated, sound, storage, smoked, app, holder>>
\* Others install, replace and remove weights too, though not those of a model
\* that is being evaluated, pulled or removed.
Underway(p) == holder.command \in {"pull", "remove"} /\ Phase = p
ByHand(p) ==
  /\ ~Underway(p) /\ \A c \in CellsOf(p) : c \notin C!Busy
  /\ \E found \in Weights \ {weights[p]} :
       /\ weights' = [weights EXCEPT ![p] = found]
       /\ beside' = IF found = "pinned"
                    THEN Parted(p) \cup {{p, q} : q \in {r \in Phases : r \in Pinned \/ Underway(r)}}
                    ELSE Parted(p)
       /\ deleted' = IF found = "absent" THEN deleted ELSE deleted \ {p}
  /\ UNCHANGED <<evidence, log, smoked, app, holder>>
\* Somebody clones an evaluation, edits a task pack or the historical database.
Drift ==
  /\ sound /\ sound' = FALSE
  /\ UNCHANGED <<stage, classified, receipt, validated, storage, smoked, app, holder>>
Fault ==
  /\ faults < MaxFaults /\ faults' = faults + 1
  /\ \/ Kill \/ Tamper \/ Drift
     \/ \E p \in Phases : ByHand(p)

\* Somebody disowns the evaluation, or puts the files back.
Mend ==
  /\ ~sound /\ sound' = TRUE
  /\ UNCHANGED <<stage, classified, receipt, validated, storage, smoked, app, holder>>
StopApp ==
  /\ Free /\ app # "none" /\ app' = "none"
  /\ UNCHANGED <<evidence, storage, smoked, holder>>

Command ==
  \/ \E p \in Phases : PullStart(p) \/ PullReuse(p) \/ RemoveStart(p) \/ Classify(p)
                       \/ ReceiptValidate(p) \/ ReceiptStart(p) \/ SmokeStart(p) \/ LaunchStart(p)
  \/ PullEnd \/ RemoveEnd \/ SpareAsk \/ SpareRemove
  \/ ReceiptRefused \/ ReceiptRename \/ ReceiptWrite \/ ReceiptRecord
  \/ SmokeApp \/ SmokePid \/ SmokeEnd \/ SmokeFails \/ Drain \/ Plan \/ StopApp \/ Mend
  \/ \E c \in Cells : ResumeCell(c) \/ SupersedeCell(c)

Next == (Command /\ UNCHANGED faults) \/ Fault

Spec == Init /\ [][Next]_vars
----------------------------------------------------------------------------
\* The weights a command removed are not needed any more, for good: all cells of
\* the phase are accepted, or it is classified (remove_model), or no cell needs
\* them (remove_weights); and the request is in the storage log.
RemovedWeightsNotNeeded ==
  \A p \in deleted : (p = Spare \/ AllAccepted(p) \/ Classified(p)) /\ p \in log

\* While an evaluation is in flight, or left behind by a killed launcher, its
\* pinned weights stay installed, and Ollama's weights of no model are pulled
\* or removed beside it (_active_evaluations).
ModelStaysWhileEvaluated ==
  \A c \in C!Busy : weights[c[1]] = "pinned" /\ holder.command \notin {"pull", "remove"}

\* Two targets are installed together only when one of them is done with
\* (classified, or with a receipt in the ledger), or when somebody installed one
\* beside the other by hand: pull_model downloads none beside an unfinished one,
\* wherever it is killed.
OneTargetAtATime ==
  \A p, q \in Phases :
    p # q /\ weights[p] = "pinned" /\ weights[q] = "pinned" =>
      {p, q} \in beside \/ \E f \in {p, q} : Classified(f) \/ receipt[f].named # 0

\* A classified model gains and loses no accepted cell afterwards, so what was
\* disclosed at its classification stays true (classify_model, resume_cell).
ClassifiedGainsNothing ==
  \A p \in Phases : Classified(p) => classified[p] = AcceptedCells(p)

\* A receipt the ledger names is one of a phase whose cells are all accepted, even
\* if the phase stops being complete and is classified afterwards, and the version
\* it names is the file or is kept beside it, unless somebody else edited it,
\* wherever the command was killed between rename, write and save.
ReceiptIsFrozen ==
  \A p \in Phases :
    receipt[p].named # 0 =>
      /\ AllAccepted(p)
      /\ {receipt[p].named, Edited} \cap (receipt[p].kept \cup {receipt[p].file}) # {}

\* No launch runs beside the app of a smoke that was killed, if its process
\* group was written down (live_smoke_apps).
NoSmokeBesideLaunch ==
  holder.command = "launch" => app # "recorded"
=============================================================================
