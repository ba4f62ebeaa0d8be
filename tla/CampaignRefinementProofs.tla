------------------------ MODULE CampaignRefinementProofs ------------------------
(***************************************************************************)
(* The launcher implements CampaignSpec, and the app of the campaign model *)
(* implements EvaluationSpec.  A step of the first moves one cell, because *)
(* every save is of one entry; the submission of a cell and the resume of  *)
(* another find nothing in flight because of where the process is          *)
(* (CampaignProofs!DrainInv).                                              *)
(***************************************************************************)
EXTENDS CampaignProofs

StageOf(state) ==
  CASE state = "succeeded" -> "accepted"
    [] state = "submitted" -> "in flight"
    [] state \in Halting   -> "halted"
    [] OTHER               -> state

CellStage(c) == StageOf(ledger.entry[c].state)

\* The stages, one cell at a time.
LEMMA CellStagesOf == CellStages = [c \in Cells |-> CellStage(c)]
  BY DEF CellStages, CellStage, StageOf

\* A save moves one cell.
LEMMA SaveMovesCell ==
  ASSUME Inv, NEW c \in Cells, NEW entry \in Entry, Save(c, entry)
  PROVE  CellStages' = [CellStages EXCEPT ![c] = StageOf(entry.state)]
<1>1. \A d \in Cells : ledger'.entry[d] = IF d = c THEN entry ELSE ledger.entry[d]
  BY SaveMoves
<1>2. \A d \in Cells : CellStage(d)' = IF d = c THEN StageOf(entry.state) ELSE CellStage(d)
  BY <1>1 DEF CellStage
<1>3. CellStages' = [d \in Cells |-> CellStage(d)']
  BY DEF CellStages, CellStage, StageOf
<1> QED
  BY <1>2, <1>3, CellStagesOf

\* What is busy is what is in flight.
LEMMA BusyIsInFlight == Inv => Promise!Busy = InFlight
<1> SUFFICES ASSUME Inv, NEW c \in Cells
             PROVE  CellStages[c] \in {"submitting", "in flight"} <=> ledger.entry[c].state \in {"submitting", "submitted"}
  BY DEF Promise!Busy, InFlight
<1>1. ledger.entry[c].state \in EntryState
  BY EntryFields
<1> QED
  BY <1>1, CellStagesOf DEF CellStage, StageOf, EntryState, Halting, Supersedable

\* The step of the abstract campaign.
Steps == Promise!Next \/ UNCHANGED CellStages

\* A save that is a move of the abstract campaign.
LEMMA SaveSteps ==
  ASSUME Inv, NEW c \in Cells, NEW entry, entry \in Entry, Save(c, entry),
         LET old == ledger.entry[c].state new == entry.state IN
         \/ old = new
         \/ old = "none" /\ new = "submitting" /\ InFlight = {}
         \/ old = "submitting" /\ new \in {"none", "submitted"}
         \/ old = "submitted" /\ new \in Halting \cup {"succeeded"}
         \/ old \in Halting /\ new = "submitted" /\ InFlight = {}
         \/ old \in Halting /\ new \in Halting
  PROVE  Steps
<1> DEFINE old == ledger.entry[c].state
           new == entry.state
<1>1. CellStages' = [CellStages EXCEPT ![c] = StageOf(new)] /\ CellStages[c] = StageOf(old)
  BY SaveMovesCell, CellStagesOf DEF CellStage
<1>2. CellStages = [CellStages EXCEPT ![c] = CellStages[c]]
  BY CellStagesOf
<1>3. Promise!Busy = InFlight
  BY BusyIsInFlight
<1> HIDE DEF old, new
<1>4. CASE old = new \/ (old \in Halting /\ new \in Halting)
  <2>1. StageOf(old) = StageOf(new)
    BY <1>4 DEF StageOf, Halting, Supersedable
  <2> QED
    BY <1>1, <1>2, <2>1 DEF Steps
<1>5. CASE old = "none" /\ new = "submitting" /\ InFlight = {}
  <2>1. StageOf(old) = "none" /\ StageOf(new) = "submitting"
    BY <1>5 DEF StageOf, Halting, Supersedable
  <2> QED
    BY <1>1, <1>3, <1>5, <2>1 DEF Steps, Promise!Next, Promise!Submit, Promise!Move
<1>6. CASE old = "submitting" /\ new \in {"none", "submitted"}
  <2>1. StageOf(old) = "submitting" /\ StageOf(new) \in {"none", "in flight"}
    BY <1>6 DEF StageOf, Halting, Supersedable
  <2> QED
    BY <1>1, <2>1 DEF Steps, Promise!Next, Promise!Drop, Promise!Started, Promise!Move
<1>7. CASE old = "submitted" /\ new \in Halting \cup {"succeeded"}
  <2>1. StageOf(old) = "in flight" /\ StageOf(new) \in {"accepted", "halted"}
    BY <1>7 DEF StageOf, Halting, Supersedable
  <2> QED
    BY <1>1, <2>1 DEF Steps, Promise!Next, Promise!Accept, Promise!Stop, Promise!Move
<1>8. CASE old \in Halting /\ new = "submitted" /\ InFlight = {}
  <2>1. StageOf(old) = "halted" /\ StageOf(new) = "in flight"
    BY <1>8 DEF StageOf, Halting, Supersedable
  <2> QED
    BY <1>1, <1>3, <1>8, <2>1 DEF Steps, Promise!Next, Promise!Resume, Promise!Move
<1> QED
  BY <1>4, <1>5, <1>6, <1>7, <1>8 DEF old, new

\* The ledger is left alone.
LEMMA SameSteps == ASSUME ledger' = ledger PROVE Steps
  BY DEF Steps, CellStages

\* What was saved is an entry.
LEMMA SavedTyped ==
  ASSUME Inv, Inv', NEW c \in Cells, NEW entry, Save(c, entry)
  PROVE  entry \in Entry
<1>1. ledger \in [entry : [Cells -> Entry], past : SUBSET Ids, disowned : SUBSET Ids]
  BY DEF Inv, Types
<1>2. ledger'.entry \in [Cells -> Entry]
  BY DEF Inv, Types
<1>3. ledger'.entry = [ledger.entry EXCEPT ![c] = entry]
  BY <1>1 DEF Save
<1>4. ledger'.entry[c] = entry
  BY <1>1, <1>3
<1> QED
  BY <1>2, <1>4

\* The process saves the entry it is at.
LEMMA MineSteps ==
  ASSUME Inv, Inv', ~At("off"), NEW entry, Save(Here, entry),
         LET old == Mine.state new == entry.state IN
         \/ old = new
         \/ old = "none" /\ new = "submitting" /\ InFlight = {}
         \/ old = "submitting" /\ new \in {"none", "submitted"}
         \/ old = "submitted" /\ new \in Halting \cup {"succeeded"}
         \/ old \in Halting /\ new \in Halting
  PROVE  Steps
<1>1. Here \in Cells /\ Mine = ledger.entry[Here]
  BY LaunchFields
<1>2. entry \in Entry
  BY <1>1, SavedTyped
<1> QED
  BY <1>1, <1>2, SaveSteps

\* The entry of the process is one.
LEMMA MineTyped == ASSUME Inv, ~At("off") PROVE Mine \in Entry
<1>1. Here \in Cells /\ Mine = ledger.entry[Here]
  BY LaunchFields
<1> QED
  BY <1>1, EntryFields

\* The launcher.
LEMMA LauncherSteps ==
  ASSUME Inv, Inv', LauncherStep
  PROVE  Steps
<1>1. CASE Adopt
  <2>1. ~At("off") /\ Mine.state = "submitting"
    BY <1>1 DEF Adopt, At
  <2>2. Mine \in Entry
    BY <2>1, MineTyped
  <2>3. ASSUME Save(Here, NoEntry) PROVE Steps
    BY <2>1, <2>3, EmptyOk, MineSteps
  <2>4. ASSUME NEW e \in Ids, Save(Here, [Mine EXCEPT !.state = "submitted", !.id = e]) PROVE Steps
    <3> DEFINE entry == [Mine EXCEPT !.state = "submitted", !.id = e]
    <3>1. entry.state = "submitted"
      BY <2>2 DEF Entry
    <3>2. Save(Here, entry)
      BY <2>4
    <3> HIDE DEF entry
    <3> QED
      BY <2>1, <3>1, <3>2, MineSteps
  <2> QED
    BY <1>1, <2>3, <2>4, SameSteps DEF Adopt
<1>2. CASE Drain \/ CreateExecuted \/ ResumeExecuted \/ WaitEnds
  BY <1>2, SameSteps DEF Drain, CreateExecuted, ResumeExecuted, WaitEnds
<1>3. CASE SettleResumes
  <2>1. ~At("off") /\ Mine.state = "submitted"
    BY <1>3 DEF SettleResumes, At, Inv, StepInv
  <2>2. Mine \in Entry
    BY <2>1, MineTyped
  <2>3. ASSUME NEW matched \in BOOLEAN,
               Save(Here, IF matched THEN [Credited(Mine) EXCEPT !.guessed = TRUE] ELSE Discarded(Mine))
        PROVE  Steps
    <3> DEFINE entry == IF matched THEN [Credited(Mine) EXCEPT !.guessed = TRUE] ELSE Discarded(Mine)
    <3>1. Credited(Mine).state = Mine.state /\ Discarded(Mine).state = Mine.state
      BY <2>2 DEF Entry, Credited, Discarded
    <3>2. entry.state = Mine.state
      BY <2>2, <3>1 DEF Entry, Credited, Discarded
    <3>3. Save(Here, entry)
      BY <2>3
    <3> HIDE DEF entry
    <3> QED
      BY <2>1, <3>2, <3>3, MineSteps
  <2> QED
    BY <1>3, <2>3, SameSteps DEF SettleResumes
<1>4. CASE Plan
  <2>1. ~At("off") /\ InFlight = {}
    BY <1>4 DEF Plan, At, Inv, DrainInv
  <2>2. ASSUME Mine.state = "none", Save(Here, NewEntry(Official)) PROVE Steps
    <3>1. NewEntry(Official).state = "submitting"
      BY EmptyOk DEF NewEntry, NoEntry
    <3> QED
      BY <2>1, <2>2, <3>1, MineSteps
  <2> QED
    BY <1>4, <2>2, SameSteps DEF Plan
<1>5. CASE CreateRefused
  <2>1. ~At("off") /\ Mine.state = "submitting"
    BY <1>5 DEF CreateRefused, At, Inv, StepInv
  <2> QED
    BY <1>5, <2>1, EmptyOk, MineSteps DEF CreateRefused, Settled
<1>6. CASE CreateAnswered
  <2>1. ~At("off") /\ Mine.state = "submitting"
    BY <1>6 DEF CreateAnswered, At, Inv, StepInv
  <2> DEFINE entry == [Mine EXCEPT !.state = "submitted", !.id = launch.id]
  <2>2. entry.state = "submitted"
    BY <2>1, MineTyped DEF Entry
  <2>3. Save(Here, entry)
    BY <1>6 DEF CreateAnswered
  <2> HIDE DEF entry
  <2> QED
    BY <2>1, <2>2, <2>3, MineSteps
<1>7. CASE ResumeRefused
  <2>1. ~At("off") /\ Mine.state = "submitted" /\ launch.seen \in {"failed", "canceled"}
    BY <1>7 DEF ResumeRefused, At, Inv, StepInv
  <2> DEFINE entry == [Discarded(Mine) EXCEPT !.state = launch.seen]
  <2>2. entry.state = launch.seen
    BY <2>1, MineTyped DEF Entry, Discarded
  <2>3. Save(Here, entry)
    BY <1>7 DEF ResumeRefused, Settled
  <2> HIDE DEF entry
  <2> QED
    BY <2>1, <2>2, <2>3, MineSteps DEF Halting, Supersedable
<1>8. CASE ResumeAnswered
  <2>1. ~At("off")
    BY <1>8 DEF ResumeAnswered, At
  <2>2. Credited(Mine).state = Mine.state
    BY <2>1, MineTyped DEF Entry, Credited
  <2> QED
    BY <1>8, <2>1, <2>2, MineSteps DEF ResumeAnswered, Settled
<1>9. CASE Watch
  <2>1. ~At("off")
    BY <1>9 DEF Watch, At
  <2>2. PICK seen : Save(Here, [Mine EXCEPT !.violation = Mine.violation \cup seen])
    BY <1>9 DEF Watch
  <2> DEFINE entry == [Mine EXCEPT !.violation = Mine.violation \cup seen]
  <2>3. entry.state = Mine.state
    BY <2>1, MineTyped DEF Entry
  <2>4. Save(Here, entry)
    BY <2>2
  <2> HIDE DEF entry
  <2> QED
    BY <2>1, <2>3, <2>4, MineSteps
<1>10. ASSUME NEW state \in Halting, ~At("off"), Mine.state \in {"submitted", "failed", "canceled"},
              \/ Save(Here, [Mine EXCEPT !.state = state])
              \/ Save(Here, [Mine EXCEPT !.state = state, !.snapshot = HaltSnapshot(Mine.id)])
       PROVE  Steps
  <2>1. [Mine EXCEPT !.state = state].state = state
    BY <1>10, MineTyped DEF Entry
  <2>2. [Mine EXCEPT !.state = state, !.snapshot = HaltSnapshot(Mine.id)].state = state
    BY <1>10, MineTyped DEF Entry
  <2>3. Mine.state = "submitted" \/ Mine.state \in Halting
    BY <1>10 DEF Halting, Supersedable
  <2>4. CASE Save(Here, [Mine EXCEPT !.state = state])
    <3> DEFINE entry == [Mine EXCEPT !.state = state]
    <3>1. entry.state = state /\ Save(Here, entry)
      BY <2>1, <2>4
    <3> HIDE DEF entry
    <3> QED
      BY <1>10, <2>3, <3>1, MineSteps
  <2>5. CASE Save(Here, [Mine EXCEPT !.state = state, !.snapshot = HaltSnapshot(Mine.id)])
    <3> DEFINE entry == [Mine EXCEPT !.state = state, !.snapshot = HaltSnapshot(Mine.id)]
    <3>1. entry.state = state /\ Save(Here, entry)
      BY <2>2, <2>5
    <3> HIDE DEF entry
    <3> QED
      BY <1>10, <2>3, <3>1, MineSteps
  <2> QED
    BY <1>10, <2>4, <2>5
<1>11. {"rejected", "needs_attention", "failed", "canceled"} \subseteq Halting
  BY DEF Halting, Supersedable
<1>12. CASE Reject
  <2>1. ~At("off") /\ Mine.state \in {"failed", "canceled"}
    BY <1>12 DEF Reject, At, Inv, StepInv
  <2> QED
    BY <1>10, <1>11, <1>12, <2>1 DEF Reject, Settled
<1>13. CASE FinalizeStopped
  <2>1. ~At("off") /\ Mine.state = "submitted" /\ launch.seen \in {"failed", "canceled"}
    BY <1>13 DEF FinalizeStopped, At, Inv, StepInv
  <2> QED
    BY <1>10, <1>11, <1>13, <2>1 DEF FinalizeStopped, Settled
<1>14. CASE FinalizeSucceeded
  <2>1. ~At("off") /\ Mine.state = "submitted"
    BY <1>14 DEF FinalizeSucceeded, At, Inv, StepInv
  <2> DEFINE done == [Mine EXCEPT !.state = "succeeded", !.finalized = CodeChecked]
  <2>2. done.state = "succeeded"
    BY <2>1, MineTyped DEF Entry
  <2>3. CASE Settled([Mine EXCEPT !.state = "rejected"]) \/ Settled([Mine EXCEPT !.state = "needs_attention"])
    BY <1>10, <1>11, <2>1, <2>3 DEF Settled
  <2>4. CASE Save(Here, done)
    <3> HIDE DEF done
    <3> QED
      BY <2>1, <2>2, <2>4, MineSteps
  <2> QED
    BY <1>14, <2>3, <2>4 DEF FinalizeSucceeded
<1> QED
  BY <1>1, <1>2, <1>3, <1>4, <1>5, <1>6, <1>7, <1>8, <1>9, <1>12, <1>13, <1>14 DEF LauncherStep

\* The commands.
LEMMA CommandSteps ==
  ASSUME Inv, Inv', At("off"),
         \/ \E c \in Cells, official \in BOOLEAN : ResumeCell(c, official)
         \/ OperatorStep
  PROVE  Steps
<1>1. ASSUME NEW c \in Cells, NEW official \in BOOLEAN, ResumeCell(c, official) PROVE Steps
  <2> DEFINE entry == ledger.entry[c]
  <2>1. entry.state \in {"failed", "canceled"} /\ entry \in Entry
    BY <1>1, EntryFields DEF ResumeCell
  <2>2. entry.state \in Halting
    BY <2>1 DEF Halting, Supersedable
  <2>3. CASE Save(c, [entry EXCEPT !.state = "rejected"])
    <3> DEFINE new == [entry EXCEPT !.state = "rejected"]
    <3>1. new.state = "rejected" /\ Save(c, new)
      BY <2>1, <2>3 DEF Entry
    <3> HIDE DEF new
    <3>2. new \in Entry
      BY <3>1, SavedTyped
    <3>3. "rejected" \in Halting
      BY DEF Halting, Supersedable
    <3> QED
      BY <2>2, <3>1, <3>2, <3>3, SaveSteps
  <2>4. CASE /\ InFlight = {}
             /\ Save(c, [entry EXCEPT !.state = "submitted",
                           !.unsettled = IF official THEN "official" ELSE "unofficial"])
    <3> DEFINE new == [entry EXCEPT !.state = "submitted", !.unsettled = IF official THEN "official" ELSE "unofficial"]
    <3>1. new.state = "submitted"
      BY <2>1 DEF Entry
    <3>2. Save(c, new)
      BY <2>4
    <3> HIDE DEF new
    <3>3. new \in Entry
      BY <3>2, SavedTyped
    <3> QED
      BY <2>2, <2>4, <3>1, <3>2, <3>3, SaveSteps
  <2> QED
    BY <1>1, <2>3, <2>4 DEF ResumeCell
<1>2. ledger \in [entry : [Cells -> Entry], past : SUBSET Ids, disowned : SUBSET Ids]
  BY DEF Inv, Types
<1>3. ASSUME NEW c \in Cells, Supersede(c) PROVE Steps
  <2>1. ledger.entry[c].state \in Halting
    BY <1>3 DEF Supersede, Replaceable, Halting, Inv, SucceededStaysAccepted
  <2>2. ledger'.entry = [ledger.entry EXCEPT ![c] = NoEntry]
    BY <1>2, <1>3 DEF Supersede
  <2>3. \A d \in Cells : ledger'.entry[d] = IF d = c THEN NoEntry ELSE ledger.entry[d]
    BY <1>2, <2>2
  <2>4. CellStage(c) = "halted" /\ StageOf("none") = "none"
    BY <2>1 DEF CellStage, StageOf, Halting, Supersedable
  <2>5. \A d \in Cells : CellStage(d)' = IF d = c THEN "none" ELSE CellStage(d)
    BY <2>3, <2>4, EmptyOk DEF CellStage
  <2>6. CellStages' = [d \in Cells |-> CellStage(d)']
    BY DEF CellStages, CellStage, StageOf
  <2>7. CellStages' = [CellStages EXCEPT ![c] = "none"] /\ CellStages[c] = "halted"
    BY <2>4, <2>5, <2>6, CellStagesOf
  <2> QED
    BY <2>7 DEF Steps, Promise!Next, Promise!Supersede, Promise!Move
<1>4. ASSUME NEW e \in Ids, Disown(e) PROVE Steps
  <2>1. ledger'.entry = ledger.entry
    BY <1>2, <1>4 DEF Disown
  <2> QED
    BY <2>1 DEF Steps, CellStages
<1> QED
  BY <1>1, <1>3, <1>4 DEF OperatorStep

\* Whatever the launcher and the commands do, killed anywhere, a cell moves as
\* CampaignSpec says, with one evaluation of the campaign in flight.
THEOREM CampaignImplemented == Spec => ImplementsCampaign
<1>1. Init => Promise!Init
  BY EmptyOk DEF Init, LedgerInit, Promise!Init, CellStages, Halting, Supersedable
<1>2. ASSUME Inv, Inv', [Next]_vars PROVE Steps
  <2>1. CASE \E plan \in Phases, option \in Options : Launch(plan, option)
    BY <2>1, SameSteps DEF Launch
  <2>2. CASE LauncherStep
    BY <1>2, <2>2, LauncherSteps
  <2>3. CASE OperatorStep \/ \E c \in Cells, official \in BOOLEAN : ResumeCell(c, official)
    <3>1. At("off")
      BY <2>3 DEF OperatorStep, ResumeCell
    <3> QED
      BY <1>2, <2>3, <3>1, CommandSteps
  <2>4. CASE UNCHANGED ledger \/ UNCHANGED vars \/ LateRequest \/ Crash
    BY <2>4, SameSteps DEF vars, LateRequest, Crash
  <2> QED
    BY <1>2, <2>1, <2>2, <2>3, <2>4 DEF Next
<1>3. Inv /\ Inv' /\ [Next]_vars => [Promise!Next]_CellStages
  BY <1>2 DEF Steps
<1> QED
  BY <1>1, <1>3, Invariance, PTL DEF Spec, ImplementsCampaign, Promise!Spec
----------------------------------------------------------------------------

\* The stage of an evaluation.
StageIs(row) ==
  CASE row.status \in {"queued", "running"}  -> "open"
    [] row.status \in {"failed", "canceled"} -> "stopped"
    [] OTHER                                 -> row.status

LEMMA StagesOf == Stages = [e \in Ids |-> StageIs(eval[e])] /\ Stages' = [e \in Ids |-> StageIs(eval'[e])]
  BY DEF Stages, StageIs, Open

\* One evaluation moves, or only within its stage.
AppSteps == App!Next \/ UNCHANGED Stages

LEMMA OneMoves ==
  ASSUME Inv, NEW e \in Ids, \A i \in Ids \ {e} : StageIs(eval'[i]) = StageIs(eval[i]),
         LET old == StageIs(eval[e]) new == StageIs(eval'[e]) IN
         \/ old = new
         \/ old = "absent" /\ new = "open"
         \/ old = "open" /\ new \in {"stopped", "succeeded"}
         \/ old = "stopped" /\ new = "open"
  PROVE  AppSteps
<1> DEFINE new == StageIs(eval'[e])
<1>1. Stages' = [Stages EXCEPT ![e] = new] /\ Stages[e] = StageIs(eval[e])
  BY StagesOf
<1>2. Stages = [Stages EXCEPT ![e] = Stages[e]]
  BY StagesOf
<1>3. UNCHANGED None
  BY DEF None
<1> HIDE DEF new
<1>4. CASE new = Stages[e]
  BY <1>1, <1>2, <1>4 DEF AppSteps
<1>5. CASE Stages[e] = "absent" /\ new = "open"
  BY <1>1, <1>3, <1>5 DEF AppSteps, App!Next, App!Create
<1>6. CASE Stages[e] = "open" /\ new = "stopped"
  BY <1>1, <1>3, <1>6 DEF AppSteps, App!Next, App!Stop
<1>7. CASE Stages[e] = "open" /\ new = "succeeded"
  BY <1>1, <1>3, <1>7 DEF AppSteps, App!Next, App!Succeed, App!Complete
<1>8. CASE Stages[e] = "stopped" /\ new = "open"
  BY <1>1, <1>3, <1>8 DEF AppSteps, App!Next, App!Reopen
<1> QED
  BY <1>1, <1>4, <1>5, <1>6, <1>7, <1>8 DEF new

\* A new evaluation, and one that is reopened.
LEMMA CreateStage ==
  ASSUME Inv, NEW e \in Ids, NEW c \in Cells \cup {NoCell}, NEW origin \in {"user", "launcher", "late"}, Create(e, c, origin)
  PROVE  AppSteps
<1>1. ~Exists(e) /\ eval'[e].status = "queued" /\ \A i \in Ids \ {e} : eval'[i] = eval[i]
  BY CreateKeeps
<1>2. StageIs(eval[e]) = "absent" /\ StageIs(eval'[e]) = "open"
  BY <1>1 DEF StageIs, Exists
<1> QED
  BY <1>1, <1>2, OneMoves

LEMMA ReopenStage ==
  ASSUME Inv, NEW e \in Ids, NEW byUser, Reopen(e, byUser)
  PROVE  AppSteps
<1>1. eval \in [Ids -> EvalRow] /\ eval[e].status \in {"failed", "canceled", "queued"}
  BY DEF Inv, Types, Reopen, Resumable
<1> DEFINE row == [eval[e] EXCEPT !.status = "queued", !.resumed = @ + 1, !.outside = IF byUser THEN @ + 1 ELSE @]
<1>2. eval' = [eval EXCEPT ![e] = row]
  BY DEF Reopen
<1>3. row.status = "queued"
  BY <1>1 DEF EvalRow
<1> HIDE DEF row
<1>4. eval'[e] = row /\ \A i \in Ids \ {e} : eval'[i] = eval[i]
  BY <1>1, <1>2
<1>5. StageIs(eval[e]) \in {"stopped", "open"} /\ StageIs(eval'[e]) = "open"
  BY <1>1, <1>3, <1>4 DEF StageIs
<1> QED
  BY <1>4, <1>5, OneMoves

\* The app by itself.
LEMMA AppStepStage ==
  ASSUME Inv, AppStep
  PROVE  AppSteps
<1>0. eval \in [Ids -> EvalRow]
  BY DEF Inv, Types
<1>1. ASSUME NEW e \in Ids, Begin(e) PROVE AppSteps
  <2>1. eval[e].status = "queued"
    BY <1>1 DEF Begin
  <2>2. eval'[e].status = "running" /\ \A i \in Ids \ {e} : eval'[i].status = eval[i].status
    <3>1. eval'[e] = [eval[e] EXCEPT !.status = "running", !.shared = eval[e].shared \cup {o \in Ids : Running(o)}]
      BY <1>1 DEF Begin
    <3>2. \A i \in Ids \ {e} : eval'[i] = IF Running(i) THEN [eval[i] EXCEPT !.shared = eval[i].shared \cup {e}] ELSE eval[i]
      BY <1>1 DEF Begin
    <3>3. \A i \in Ids : eval[i] \in EvalRow
      BY <1>0
    <3>4. eval'[e].status = "running"
      BY <3>1, <3>3 DEF EvalRow
    <3>5. ASSUME NEW i \in Ids \ {e} PROVE eval'[i].status = eval[i].status
      BY <3>2, <3>3 DEF EvalRow
    <3> QED
      BY <3>4, <3>5
  <2>3. StageIs(eval'[e]) = StageIs(eval[e]) /\ \A i \in Ids \ {e} : StageIs(eval'[i]) = StageIs(eval[i])
    BY <2>1, <2>2 DEF StageIs
  <2> QED
    BY <2>3, OneMoves
<1>2. ASSUME NEW e \in Ids, Requeue(e) PROVE AppSteps
  <2>1. eval[e].status = "running" /\ eval'[e].status = "queued" /\ \A i \in Ids \ {e} : eval'[i] = eval[i]
    BY <1>0, <1>2 DEF Requeue, Running, EvalRow
  <2>2. StageIs(eval'[e]) = StageIs(eval[e])
    BY <2>1 DEF StageIs
  <2> QED
    BY <2>1, <2>2, OneMoves
<1>3. ASSUME NEW e \in Ids, NEW status \in Ended, NEW voided \in BOOLEAN, NEW kept \in BOOLEAN,
             End(e, status, voided, kept)
      PROVE  AppSteps
  <2>1. eval[e].status \in {"queued", "running"}
    BY <1>3 DEF End, Open
  <2>2. eval'[e].status = status /\ \A i \in Ids \ {e} : eval'[i].status = eval[i].status
    <3>1. eval'[e] = [eval[e] EXCEPT !.status = status, !.voided = voided, !.shared = IF kept THEN eval[e].shared ELSE {}]
      BY <1>3 DEF End
    <3>2. \A i \in Ids \ {e} : eval'[i] = IF kept THEN eval[i] ELSE [eval[i] EXCEPT !.shared = eval[i].shared \ {e}]
      BY <1>3 DEF End
    <3>3. \A i \in Ids : eval[i] \in EvalRow
      BY <1>0
    <3>4. eval'[e].status = status
      BY <3>1, <3>3 DEF EvalRow
    <3>5. ASSUME NEW i \in Ids \ {e} PROVE eval'[i].status = eval[i].status
      BY <3>2, <3>3 DEF EvalRow
    <3> QED
      BY <3>4, <3>5
  <2>3. StageIs(eval[e]) = "open" /\ StageIs(eval'[e]) \in {"stopped", "succeeded"}
    BY <2>1, <2>2 DEF StageIs, Ended
  <2>4. \A i \in Ids \ {e} : StageIs(eval'[i]) = StageIs(eval[i])
    BY <2>2 DEF StageIs
  <2> QED
    BY <2>3, <2>4, OneMoves
<1> QED
  BY <1>1, <1>2, <1>3 DEF AppStep

\* The app as the campaign uses it is one of those EvaluationSpec describes:
\* success is final, and what stopped is reopened under its own identity.
THEOREM ServiceImplemented == Spec => ServiceIsEvaluation
<1>1. Init => App!Init
  BY DEF Init, ServiceInit, App!Init, Stages, None, Open, Absent
<1>2. ASSUME Inv, [Next]_vars PROVE AppSteps
  <2>1. CASE UNCHANGED eval
    BY <2>1 DEF AppSteps, Stages, Open
  <2>2. CASE CreateExecuted
    <3>1. ~At("off")
      BY <2>2 DEF CreateExecuted, At
    <3>2. Here \in Cells
      BY <1>2, <3>1, LaunchFields
    <3> QED
      BY <1>2, <2>2, <3>2, CreateStage DEF CreateExecuted
  <2>3. CASE ResumeExecuted
    <3>1. ~At("off") /\ Mine.state = "submitted"
      BY <1>2, <2>3 DEF ResumeExecuted, At, Inv, StepInv
    <3>2. Mine.id \in Ids
      BY <1>2, <3>1, MineFields
    <3> QED
      BY <1>2, <2>3, <3>2, ReopenStage DEF ResumeExecuted
  <2>4. CASE LateRequest
    <3>1. PICK r \in late :
            \/ UNCHANGED eval
            \/ r.kind = "create" /\ \E e \in Ids : Create(e, r.cell, "late")
            \/ r.kind = "resume" /\ Reopen(r.id, ~OwnRequest(r.id))
      BY <2>4 DEF LateRequest
    <3>2. r \in Request
      BY <1>2 DEF Inv, Types
    <3>3. r.kind = "create" => r.cell \in Cells
      BY <3>2 DEF Request
    <3>4. r.kind = "resume" => r.id \in Ids
      BY <3>2 DEF Request
    <3> QED
      BY <1>2, <2>1, <3>1, <3>3, <3>4, CreateStage, ReopenStage
  <2>5. CASE AppStep
    BY <1>2, <2>5, AppStepStage
  <2>6. CASE UserStep
    BY <1>2, <2>6, CreateStage, ReopenStage DEF UserStep
  <2>7. LauncherStep => UNCHANGED eval \/ CreateExecuted \/ ResumeExecuted
    BY DEF LauncherStep, Adopt, Drain, SettleResumes, Plan, CreateRefused, CreateAnswered, ResumeRefused,
       ResumeAnswered, WaitEnds, Watch, Reject, FinalizeStopped, FinalizeSucceeded
  <2> QED
    BY <1>2, <2>1, <2>2, <2>3, <2>4, <2>5, <2>6, <2>7
       DEF Next, Launch, ResumeCell, OperatorStep, Crash, WorldStep, vars
<1>3. UNCHANGED None
  BY DEF None
<1>4. Inv /\ [Next]_vars => [App!Next]_<<Stages, None>>
  BY <1>2, <1>3 DEF AppSteps
<1>5. App!svars = <<Stages, None>>
  BY DEF App!svars
<1> QED
  BY <1>1, <1>4, Invariance, PTL DEF Spec, ServiceIsEvaluation, App!Spec, App!svars
=============================================================================
