----------------------- MODULE CampaignLifecycleProofs -----------------------
(***************************************************************************)
(* The seven invariants of CampaignLifecycle, for any roster, any number   *)
(* of cells, any number of kills, of edited files and of models installed  *)
(* or removed by hand.  They lean on each other: a model is removed        *)
(* because its phase is finished, a receipt is written because its phase   *)
(* was complete when nobody held the lock.  A phase may stop being         *)
(* complete; accepted cells and classifications are final (FinishedStays). *)
(***************************************************************************)
EXTENDS CampaignLifecycle, FiniteSetTheorems, TLAPS

Commands == {"none", "pull", "remove", "smoke", "launch", "receipt"}
Steps == {"none", "started", "requested", "prepared", "app", "run", "drain", "plan",
          "validated", "write", "record"}

\* Who holds the lock works on a phase of the roster.
HolderOK ==
  /\ holder \in [command : Commands, phase : Phases \cup {0}, step : Steps]
  /\ holder # Idle => Phase \in Phases /\ holder.command # "none"

\* Nothing of a classified model is under way, and none is launched.
WorkInv ==
  /\ \A c \in C!Busy : ~Classified(c[1])
  /\ holder.command = "launch" => ~Classified(Phase)

Doing(command, p) == holder.command = command /\ Phase = p

\* Whoever is about to remove weights may still do so.
RemovalInv ==
  \A p \in Phases : Doing("remove", p) =>
    p \in log /\ (weights[p] = "other" \/ AllAccepted(p) \/ Classified(p))

\* Whoever pulls a model found the others done with, or they came by hand.
Done(p) == Classified(p) \/ receipt[p].named # 0
PullInv ==
  \A p, q \in Phases :
    Doing("pull", p) /\ q # p /\ weights[q] = "pinned" => {p, q} \in beside \/ Done(q)

\* A receipt is written of a phase that was complete when it was validated, and
\* there is a number left for it.
ReceiptInv ==
  /\ \A p \in validated : AllAccepted(p)
  /\ \A p \in Phases : Doing("receipt", p) =>
       /\ AllAccepted(p)
       /\ holder.step = "validated" => Cardinality(receipt[p].kept) + 1 < MaxIssues
       /\ holder.step = "write" => receipt[p].file = 0 /\ Cardinality(receipt[p].kept) < MaxIssues
       /\ holder.step = "record" => receipt[p].file # 0

Inv ==
  /\ TypeOK /\ HolderOK /\ WorkInv /\ RemovalInv /\ PullInv /\ ReceiptInv
  /\ RemovedWeightsNotNeeded /\ ModelStaysWhileEvaluated /\ OneTargetAtATime
  /\ ClassifiedGainsNothing /\ ReceiptIsFrozen /\ NoSmokeBesideLaunch
----------------------------------------------------------------------------

\* What changes the cells of the ledger changes nothing else.
StageStep ==
  /\ UNCHANGED <<classified, receipt, weights, deleted, log, smoked, app, validated, holder>>
  /\ \E c \in Cells :
       \/ holder.command = "launch" /\ Finish(c)
       \/ holder.command = "launch" /\ c[1] = Phase /\ weights[Phase] = "pinned" /\ C!Submit(c)
       \/ Free /\ ~Classified(c[1]) /\ weights[c[1]] = "pinned" /\ C!Resume(c)
       \/ Free /\ C!Supersede(c)

\* The initial state satisfies the invariant.
LEMMA InitInv == Init => Inv
<1> SUFFICES ASSUME Init PROVE Inv
  OBVIOUS
<1> USE DEF Init, C!Init
<1>1. C!Busy = {}
  BY DEF C!Busy
<1>2. TypeOK
  BY LifecycleAssumption DEF TypeOK, C!Stage, NoReceipt, Idle, Weights, Edited, Pinned
<1>3. HolderOK
  BY DEF HolderOK, Idle, Commands, Steps
<1>4. WorkInv /\ RemovalInv /\ PullInv /\ ReceiptInv
  BY <1>1 DEF WorkInv, RemovalInv, PullInv, ReceiptInv, Doing, Idle
<1>5. RemovedWeightsNotNeeded /\ ModelStaysWhileEvaluated
  BY <1>1 DEF RemovedWeightsNotNeeded, ModelStaysWhileEvaluated
<1>6. OneTargetAtATime
  <2>1. ASSUME NEW p \in Pinned, NEW q \in Pinned, p # q PROVE {p, q} \in beside
    <3>1. IsFiniteSet({p}) /\ Cardinality({p}) = 1
      BY FS_Singleton
    <3>2. Cardinality({p} \cup {q}) = 2
      <4> DEFINE one == Cardinality({p})  two == Cardinality({p} \cup {q})
      <4>1. q \notin {p}
        BY <2>1
      <4>2. one = 1 /\ two = one + 1
        BY <3>1, <4>1, FS_AddElement
      <4> HIDE DEF one, two
      <4>3. two = 2
        BY <4>2
      <4> QED BY <4>3 DEF two
    <3>3. {p, q} = {p} \cup {q}
      OBVIOUS
    <3> QED BY <3>2, <3>3
  <2> QED BY <2>1 DEF OneTargetAtATime, Pinned
<1>7. ClassifiedGainsNothing /\ ReceiptIsFrozen /\ NoSmokeBesideLaunch
  BY DEF ClassifiedGainsNothing, ReceiptIsFrozen, NoSmokeBesideLaunch, Classified, NoReceipt, Idle
<1> QED BY <1>2, <1>3, <1>4, <1>5, <1>6, <1>7 DEF Inv

\* Every step moves a cell, or leaves all of them.
LEMMA StageMoves ==
  ASSUME [Next]_vars
  PROVE  UNCHANGED stage \/ (StageStep /\ UNCHANGED faults)
<1>1. CASE UNCHANGED vars
  BY <1>1 DEF vars
<1>2. CASE Command /\ UNCHANGED faults
  <2>1. CASE Drain \/ Plan
    BY <1>2, <2>1 DEF Drain, Plan, StageStep, storage, CellsOf, Holds, Go, Release
  <2>2. CASE \E c \in Cells : ResumeCell(c) \/ SupersedeCell(c)
    BY <1>2, <2>2 DEF ResumeCell, SupersedeCell, StageStep, storage
  <2>3. CASE \E p \in Phases : \/ PullStart(p) \/ PullReuse(p) \/ RemoveStart(p) \/ Classify(p)
                               \/ ReceiptValidate(p) \/ ReceiptStart(p) \/ SmokeStart(p) \/ LaunchStart(p)
    BY <2>3 DEF PullStart, PullReuse, RemoveStart, Classify, ReceiptValidate, ReceiptStart, SmokeStart,
                LaunchStart, evidence
  <2>4. CASE \/ PullEnd \/ RemoveEnd \/ ReceiptRefused \/ ReceiptRename \/ ReceiptWrite \/ ReceiptRecord
             \/ SmokeApp \/ SmokePid \/ SmokeEnd \/ SmokeFails \/ StopApp \/ Mend \/ SpareAsk \/ SpareRemove
    BY <2>4 DEF PullEnd, RemoveEnd, ReceiptRefused, ReceiptRename, ReceiptWrite, ReceiptRecord,
                SmokeApp, SmokePid, SmokeEnd, SmokeFails, StopApp,
     Mend, PullReuse, SpareAsk, SpareRemove, evidence
  <2> QED BY <1>2, <2>1, <2>2, <2>3, <2>4 DEF Command
<1>3. CASE Fault
  BY <1>3 DEF Fault, Kill, Tamper, Drift, ByHand, evidence
<1> QED BY <1>1, <1>2, <1>3 DEF Next

\* Classifications are made by classify_model alone.
LEMMA ClassifiedMoves ==
  ASSUME [Next]_vars
  PROVE  UNCHANGED classified \/ \E p \in Phases : Classify(p)
<1>1. CASE UNCHANGED vars
  BY <1>1 DEF vars
<1>2. CASE Command /\ UNCHANGED faults
  BY <1>2 DEF Command, Drain, Plan, ResumeCell, SupersedeCell, PullStart, RemoveStart, ReceiptValidate,
     ReceiptStart, SmokeStart, LaunchStart, PullEnd, RemoveEnd, ReceiptRefused, ReceiptRename,
     ReceiptWrite, ReceiptRecord, SmokeApp, SmokePid, SmokeEnd, SmokeFails, StopApp,
     Mend, PullReuse, SpareAsk, SpareRemove, evidence
<1>3. CASE Fault
  BY <1>3 DEF Fault, Kill, Tamper, Drift, ByHand, evidence
<1> QED BY <1>1, <1>2, <1>3 DEF Next

\* A cell that moves was not accepted, and who moves is busy afterwards only if
\* it was submitted or resumed.
LEMMA CellMoves ==
  ASSUME TypeOK, StageStep
  PROVE  /\ stage' \in [Cells -> C!Stage]
         /\ \A c \in Cells : stage[c] = "accepted" => stage'[c] = "accepted"
         /\ \A c \in Cells :
              stage'[c] # "accepted" \/ stage[c] \in {"accepted", "in flight"}
         /\ \A c \in Cells :
              stage'[c] \in {"submitting", "in flight"} =>
                \/ stage[c] \in {"submitting", "in flight"}
                \/ holder.command = "launch" /\ c[1] = Phase /\ weights[Phase] = "pinned"
                \/ Free /\ ~Classified(c[1]) /\ weights[c[1]] = "pinned"
<1>1. stage \in [Cells -> C!Stage]
  BY DEF TypeOK
<1>2. PICK c \in Cells :
       \/ holder.command = "launch" /\ Finish(c)
       \/ holder.command = "launch" /\ c[1] = Phase /\ weights[Phase] = "pinned" /\ C!Submit(c)
       \/ Free /\ ~Classified(c[1]) /\ weights[c[1]] = "pinned" /\ C!Resume(c)
       \/ Free /\ C!Supersede(c)
  BY DEF StageStep
<1>3. \E from, to \in C!Stage : C!Move(c, from, to) /\ from # "accepted"
                              /\ (to = "accepted" => from = "in flight")
                              /\ (to \in {"submitting", "in flight"} =>
                                   \/ from \in {"submitting", "in flight"}
                                   \/ holder.command = "launch" /\ c[1] = Phase /\ weights[Phase] = "pinned"
                                   \/ Free /\ ~Classified(c[1]) /\ weights[c[1]] = "pinned")
  BY <1>2 DEF Finish, C!Submit, C!Drop, C!Started, C!Accept, C!Stop, C!Resume, C!Supersede, C!Stage
<1> QED BY <1>1, <1>3 DEF C!Move

\* Accepted cells stay accepted and classifications stay, though a phase that is
\* complete need not remain so.
LEMMA FinishedStays ==
  ASSUME TypeOK, [Next]_vars, NEW p \in Phases
  PROVE  /\ AllAccepted(p) => AllAccepted(p)'
         /\ Classified(p) => Classified(p)'
<1>1. AcceptedCells(p) \subseteq AcceptedCells(p)'
  BY StageMoves, CellMoves DEF AcceptedCells, CellsOf
<1>2. AllAccepted(p) => AllAccepted(p)'
  <2>1. CellsOf(p)' = CellsOf(p)
    BY DEF CellsOf
  <2>2. AcceptedCells(p)' \subseteq CellsOf(p)
    BY DEF AcceptedCells, CellsOf
  <2> QED BY <1>1, <2>1, <2>2 DEF AllAccepted
<1>3. classified' = classified \/ \E q \in Phases : Classify(q)
  BY ClassifiedMoves
<1>4. classified[p] = classified'[p] \/ ~Classified(p)
  BY <1>3 DEF Classify, TypeOK
<1> QED BY <1>2, <1>4 DEF Classified

----------------------------------------------------------------------------

\* While fewer versions are kept than there may be, a number is left.
LEMMA NumberLeft ==
  ASSUME NEW kept \in SUBSET (1..Edited), Cardinality(kept) < MaxIssues
  PROVE  \E v \in 1..MaxIssues : v \notin kept
<1> SUFFICES ASSUME 1..MaxIssues \subseteq kept PROVE FALSE
  OBVIOUS
<1>1. IsFiniteSet(kept) /\ Cardinality(kept) \in Nat
  <2>1. 1 \in Int /\ Edited \in Int
    BY LifecycleAssumption DEF Edited
  <2>2. IsFiniteSet(1..Edited)
    BY <2>1, FS_Interval
  <2> QED BY <2>2, FS_Subset, FS_CardinalityType
<1>2. Cardinality(1..MaxIssues) = MaxIssues
  BY FS_Interval, LifecycleAssumption
<1>3. Cardinality(1..MaxIssues) <= Cardinality(kept)
  BY <1>1, FS_Subset
<1> QED BY <1>1, <1>2, <1>3, LifecycleAssumption

\* The weights change when a pull or a removal ends, or is killed, or by hand.
LEMMA WeightsMove ==
  ASSUME TypeOK, [Next]_vars
  PROVE  \/ UNCHANGED <<weights, deleted>>
         \/ PullEnd
         \/ RemoveEnd
         \/ (Kill /\ holder.command = "pull")
         \/ (SpareRemove /\ UNCHANGED weights)
         \/ \E p \in Phases : ByHand(p)
<1>1. CASE UNCHANGED vars
  BY <1>1 DEF vars
<1>2. CASE Command
  BY <1>2 DEF Command, Drain, Plan, ResumeCell, SupersedeCell, PullStart, RemoveStart, ReceiptValidate,
     ReceiptStart, SmokeStart, LaunchStart, Classify, ReceiptRefused, ReceiptRename,
     ReceiptWrite, ReceiptRecord, SmokeApp, SmokePid, SmokeEnd, SmokeFails, StopApp,
     Mend, PullReuse, SpareAsk, SpareRemove, storage
<1>3. CASE Fault
  BY <1>3 DEF Fault, Kill, Tamper, Drift, ByHand, storage
<1> QED BY <1>1, <1>2, <1>3 DEF Next

\* The rest of what the validator asks is broken and mended by others.
LEMMA SoundMoves ==
  ASSUME [Next]_vars
  PROVE  UNCHANGED sound \/ sound' = TRUE \/ sound' = FALSE
<1>1. CASE UNCHANGED vars
  BY <1>1 DEF vars
<1>2. CASE Command
  BY <1>2 DEF Command, PullStart, Mend, Drain, Plan, ResumeCell, SupersedeCell, PullEnd, RemoveStart, RemoveEnd,
     ReceiptValidate, ReceiptStart, ReceiptRename, ReceiptWrite, ReceiptRecord, ReceiptRefused, SmokeStart,
     LaunchStart, Classify, SmokeApp, SmokePid, SmokeEnd, SmokeFails, StopApp,
     PullReuse, SpareAsk, SpareRemove, evidence
<1>3. CASE Fault
  BY <1>3 DEF Fault, Kill, Tamper, Drift, ByHand, evidence
<1> QED BY <1>1, <1>2, <1>3 DEF Next

\* Targets come together by hand; a pull starts afresh.
LEMMA BesideMoves ==
  ASSUME [Next]_vars
  PROVE  UNCHANGED beside \/ (\E p \in Phases : PullStart(p)) \/ (\E p \in Phases : ByHand(p))
<1>1. CASE UNCHANGED vars
  BY <1>1 DEF vars
<1>2. CASE Command
  BY <1>2 DEF Command, Mend, Drain, Plan, ResumeCell, SupersedeCell, PullEnd, RemoveStart, RemoveEnd,
     ReceiptValidate, ReceiptStart, ReceiptRename, ReceiptWrite, ReceiptRecord, ReceiptRefused, SmokeStart,
     LaunchStart, Classify, SmokeApp, SmokePid, SmokeEnd, SmokeFails, StopApp,
     PullReuse, SpareAsk, SpareRemove, storage
<1>3. CASE Fault
  BY <1>3 DEF Fault, Kill, Tamper, Drift, storage
<1> QED BY <1>1, <1>2, <1>3 DEF Next

\* The receipts change when one is set aside, written or named, or edited.
LEMMA ReceiptMoves ==
  ASSUME [Next]_vars
  PROVE  UNCHANGED receipt \/ ReceiptRename \/ ReceiptWrite \/ ReceiptRecord \/ (Tamper /\ UNCHANGED holder)
<1>1. CASE UNCHANGED vars
  BY <1>1 DEF vars
<1>2. CASE Command
  BY <1>2 DEF Command, Drain, Plan, ResumeCell, SupersedeCell, PullStart, PullEnd, RemoveStart, RemoveEnd,
     ReceiptValidate, ReceiptStart, SmokeStart, LaunchStart, Classify, ReceiptRefused,
     SmokeApp, SmokePid, SmokeEnd, SmokeFails, StopApp,
     Mend, PullReuse, SpareAsk, SpareRemove, evidence
<1>3. CASE Fault
  BY <1>3 DEF Fault, Kill, Tamper, Drift, ByHand, evidence
<1> QED BY <1>1, <1>2, <1>3 DEF Next

\* Who takes the lock is a command that begins; who holds it goes on or lets go.
LEMMA HolderMoves ==
  ASSUME [Next]_vars, HolderOK
  PROVE  \/ UNCHANGED holder
         \/ holder' = Idle
         \/ (holder # Idle /\ \E step \in Steps : Go(step))
         \/ \E p \in Phases : \/ PullStart(p) \/ RemoveStart(p) \/ SmokeStart(p)
                             \/ LaunchStart(p) \/ ReceiptStart(p)
<1> USE DEF Steps, Release, Go
<1>1. CASE UNCHANGED vars
  BY <1>1 DEF vars
<1>2. CASE Command
  BY <1>2 DEF Command, Drain, Plan, ResumeCell, SupersedeCell, PullEnd, RemoveEnd, Idle, Holds,
     ReceiptValidate, ReceiptRename, ReceiptWrite, ReceiptRecord, Classify, ReceiptRefused,
     SmokeApp, SmokePid, SmokeEnd, SmokeFails, StopApp,
     Mend, PullReuse, SpareAsk, SpareRemove
<1>3. CASE Fault
  BY <1>3 DEF Fault, Kill, Tamper, Drift, ByHand
<1> QED BY <1>1, <1>2, <1>3 DEF Next

----------------------------------------------------------------------------

\* The lock is held by one command, which works on a phase.
LEMMA HolderPreserved ==
  ASSUME HolderOK, [Next]_vars
  PROVE  HolderOK'
<1>1. CASE UNCHANGED holder
  BY <1>1 DEF HolderOK, Phase
<1>2. CASE holder' = Idle
  BY <1>2 DEF HolderOK, Idle, Commands, Steps, Phase
<1>3. CASE holder # Idle /\ \E step \in Steps : Go(step)
  BY <1>3 DEF HolderOK, Idle, Go, Phase
<1>4. CASE \E p \in Phases : \/ PullStart(p) \/ RemoveStart(p) \/ SmokeStart(p)
                           \/ LaunchStart(p) \/ ReceiptStart(p)
  BY <1>4 DEF HolderOK, Idle, Phase, PullStart, RemoveStart, SmokeStart, LaunchStart,
              ReceiptStart, Take, Commands, Steps
<1> QED BY <1>1, <1>2, <1>3, <1>4, HolderMoves

\* Steps keep the types.  A new version of a receipt has a number no kept one has.
LEMMA TypePreserved ==
  ASSUME TypeOK, HolderOK, ReceiptInv, [Next]_vars
  PROVE  TypeOK'
<1>1. stage' \in [Cells -> C!Stage]
  BY StageMoves, CellMoves DEF TypeOK
<1>2. classified' \in [Phases -> (SUBSET Cells) \cup {NotYet}]
  <2>1. ASSUME NEW p \in Phases, Classify(p) PROVE classified' \in [Phases -> (SUBSET Cells) \cup {NotYet}]
    BY <2>1 DEF Classify, TypeOK, AcceptedCells, CellsOf
  <2> QED BY <2>1, ClassifiedMoves DEF TypeOK
<1>3. /\ receipt' \in [Phases -> [file : 0..Edited, named : 0..Edited, kept : SUBSET (1..Edited)]]
      /\ \A p \in Phases : receipt'[p].file \notin receipt'[p].kept \ {Edited}
  <2> DEFINE Rec == [file : 0..Edited, named : 0..Edited, kept : SUBSET (1..Edited)]
  <2>1. receipt \in [Phases -> Rec] /\ MaxIssues \in Nat /\ Edited = MaxIssues + 1
    BY LifecycleAssumption DEF TypeOK, Edited
  <2>2. \A p \in Phases : receipt[p].file \notin receipt[p].kept \ {Edited}
    BY DEF TypeOK
  <2>3. Holds("receipt", "validated") \/ Holds("receipt", "write") \/ Holds("receipt", "record") => Phase \in Phases
    BY DEF HolderOK, Holds, Idle
  <2>4. CASE ReceiptRename
    BY <2>1, <2>2, <2>3, <2>4 DEF ReceiptRename
  <2>5. CASE ReceiptWrite
    <3>1. Phase \in Phases /\ receipt[Phase] \in Rec
      BY <2>1, <2>3, <2>5 DEF ReceiptWrite
    <3>2. receipt[Phase].file = 0 /\ Cardinality(receipt[Phase].kept) < MaxIssues
      BY <3>1, <2>5 DEF ReceiptWrite, Holds, ReceiptInv, Doing
    <3>3. \E v \in 1..MaxIssues : v \notin receipt[Phase].kept /\ v # receipt[Phase].file
      BY <3>1, <3>2, NumberLeft, <2>1
    <3>4. NextVersion(Phase) \in 1..MaxIssues /\ NextVersion(Phase) \notin receipt[Phase].kept
      BY <3>3 DEF NextVersion
    <3> QED BY <2>1, <2>2, <2>5, <3>1, <3>4 DEF ReceiptWrite
  <2>6. CASE ReceiptRecord
    BY <2>1, <2>2, <2>3, <2>6 DEF ReceiptRecord
  <2>7. CASE Tamper
    BY <2>1, <2>2, <2>7 DEF Tamper
  <2> QED BY <2>1, <2>2, <2>4, <2>5, <2>6, <2>7, ReceiptMoves
<1>4. weights' \in [Phases -> Weights] /\ deleted' \subseteq Phases \cup {Spare}
  <2> USE DEF Weights
  <2>1. weights \in [Phases -> Weights] /\ deleted \subseteq Phases \cup {Spare}
    BY DEF TypeOK
  <2>2. CASE PullEnd
    BY <2>1, <2>2 DEF PullEnd
  <2>3. CASE RemoveEnd
    <3>1. Phase \in Phases
      BY <2>3 DEF RemoveEnd, Holds, HolderOK, Idle
    <3> QED BY <2>1, <2>3, <3>1 DEF RemoveEnd
  <2>4. CASE Kill /\ holder.command = "pull"
    BY <2>1, <2>4 DEF Kill
  <2>5. CASE SpareRemove /\ UNCHANGED weights
    BY <2>1, <2>5 DEF SpareRemove
  <2>6. ASSUME NEW p \in Phases, ByHand(p)
        PROVE  weights' \in [Phases -> Weights] /\ deleted' \subseteq Phases \cup {Spare}
    BY <2>1, <2>6 DEF ByHand
  <2> QED BY <2>1, <2>2, <2>3, <2>4, <2>5, <2>6, WeightsMove
<1>5. /\ validated' \subseteq Phases /\ log' \subseteq Phases \cup {Spare} /\ smoked' \subseteq Phases
      /\ app' \in {"none", "unrecorded", "recorded"}
  <2>0. SmokeEnd => Phase \in Phases
    BY DEF SmokeEnd, Holds, HolderOK, Idle
  <2> USE DEF TypeOK, storage, evidence
  <2>1. CASE UNCHANGED vars
    BY <2>1 DEF vars
  <2>2. CASE Command
    <3>1. CASE \E p \in Phases : \/ PullStart(p) \/ PullReuse(p) \/ RemoveStart(p) \/ Classify(p)
                               \/ ReceiptValidate(p) \/ ReceiptStart(p) \/ SmokeStart(p) \/ LaunchStart(p)
      BY <3>1 DEF PullStart, PullReuse, RemoveStart, Classify, ReceiptValidate, ReceiptStart, SmokeStart, LaunchStart
    <3>2. CASE SmokeEnd
      BY <2>0, <3>2 DEF SmokeEnd
    <3>3. CASE Drain \/ Plan \/ \E c \in Cells : ResumeCell(c) \/ SupersedeCell(c)
      BY <3>3 DEF Drain, Plan, ResumeCell, SupersedeCell
    <3>4. CASE \/ PullEnd \/ RemoveEnd \/ ReceiptRefused \/ ReceiptRename \/ ReceiptWrite
               \/ ReceiptRecord \/ SmokeApp \/ SmokePid \/ SmokeFails \/ StopApp \/ Mend \/ SpareAsk \/ SpareRemove
      BY <3>4 DEF PullEnd, RemoveEnd, ReceiptRefused, ReceiptRename, ReceiptWrite,
                  ReceiptRecord, SmokeApp, SmokePid, SmokeFails, StopApp,
     Mend, PullReuse, SpareAsk, SpareRemove
    <3> QED BY <2>2, <3>1, <3>2, <3>3, <3>4 DEF Command
  <2>3. CASE Fault
    BY <2>3 DEF Fault, Kill, Tamper, Drift, ByHand
  <2> QED BY <2>1, <2>2, <2>3 DEF Next
<1>6. holder'.command \in {"none", "pull", "remove", "smoke", "launch", "receipt"}
  BY HolderPreserved DEF HolderOK, Commands
<1>7. sound' \in BOOLEAN /\ beside' \subseteq SUBSET Phases
  <2>1. sound \in BOOLEAN /\ beside \subseteq SUBSET Phases
    BY DEF TypeOK
  <2>2. UNCHANGED sound \/ sound' = TRUE \/ sound' = FALSE
    BY SoundMoves
  <2>3. ASSUME NEW p \in Phases PROVE Parted(p) \subseteq SUBSET Phases
    BY <2>1 DEF Parted
  <2>4. ASSUME NEW p \in Phases, ByHand(p) PROVE beside' \subseteq SUBSET Phases
    BY <2>3, <2>4 DEF ByHand
  <2>5. ASSUME NEW p \in Phases, PullStart(p) PROVE beside' \subseteq SUBSET Phases
    BY <2>3, <2>5 DEF PullStart
  <2> QED BY <2>1, <2>2, <2>4, <2>5, BesideMoves
<1>8. faults' \in 0..MaxFaults
  <2>1. faults \in 0..MaxFaults /\ MaxFaults \in Nat
    BY LifecycleAssumption DEF TypeOK
  <2>2. UNCHANGED faults \/ (faults < MaxFaults /\ faults' = faults + 1)
    BY DEF Next, vars, Fault
  <2> QED BY <2>1, <2>2
<1> QED BY <1>1, <1>2, <1>3, <1>4, <1>5, <1>6, <1>7, <1>8 DEF TypeOK

----------------------------------------------------------------------------
(* Each safety property, with what it rests on.                            *)

\* A launch begins when no app of a smoke is known, and starts none.
LEMMA SmokePreserved ==
  ASSUME Inv, [Next]_vars
  PROVE  NoSmokeBesideLaunch'
<1>1. UNCHANGED app \/ app' # "recorded" \/ SmokePid
  <2>1. CASE UNCHANGED vars
    BY <2>1 DEF vars
  <2>2. CASE Command
    BY <2>2 DEF Command, Drain, Plan, ResumeCell, SupersedeCell, PullStart, PullEnd, RemoveStart, RemoveEnd,
       ReceiptValidate, ReceiptStart, ReceiptRename, ReceiptWrite, ReceiptRecord, ReceiptRefused,
       SmokeStart, LaunchStart, Classify, SmokeApp, SmokeEnd, SmokeFails, StopApp,
     Mend, PullReuse, SpareAsk, SpareRemove
  <2>3. CASE Fault
    BY <2>3 DEF Fault, Kill, Tamper, Drift, ByHand
  <2> QED BY <2>1, <2>2, <2>3 DEF Next
<1>2. CASE SmokePid
  BY <1>2 DEF SmokePid, Go, Holds, NoSmokeBesideLaunch, Inv, HolderOK
<1>3. CASE UNCHANGED app
  <2>1. holder'.command = "launch" => holder.command = "launch" \/ \E p \in Phases : LaunchStart(p)
    BY HolderMoves DEF Inv, HolderOK, Idle, Go, PullStart, RemoveStart, SmokeStart, ReceiptStart, Take
  <2>2. \A p \in Phases : LaunchStart(p) => app # "recorded"
    BY DEF LaunchStart, TargetChecks, LiveSmoke
  <2> QED BY <1>3, <2>1, <2>2 DEF Inv, NoSmokeBesideLaunch
<1> QED BY <1>1, <1>2, <1>3 DEF NoSmokeBesideLaunch

\* Neither a pull nor a removal begins beside an evaluation.
LEMMA NoPullBesideWork ==
  ASSUME HolderOK, [Next]_vars, Active, holder.command \notin {"pull", "remove"}
  PROVE  holder'.command \notin {"pull", "remove"}
<1>1. ASSUME NEW p \in Phases, SmokeStart(p) \/ LaunchStart(p) \/ ReceiptStart(p)
      PROVE  holder'.command \notin {"pull", "remove"}
  BY <1>1 DEF SmokeStart, LaunchStart, ReceiptStart, Take
<1>2. ASSUME NEW p \in Phases PROVE ~PullStart(p) /\ ~RemoveStart(p)
  BY DEF PullStart, RemoveStart
<1>3. CASE UNCHANGED holder \/ holder' = Idle
  BY <1>3 DEF Idle
<1>4. ASSUME NEW step \in Steps, Go(step) PROVE holder'.command \notin {"pull", "remove"}
  BY <1>4 DEF Go, HolderOK
<1> QED BY <1>1, <1>2, <1>3, <1>4, HolderMoves

\* A cell that is not busy becomes busy when its phase is launched or it is
\* resumed, and neither happens to a classified model or beside a pull.
LEMMA WorkPreserved ==
  ASSUME Inv, [Next]_vars
  PROVE  WorkInv' /\ ClassifiedGainsNothing' /\ ModelStaysWhileEvaluated'
<1> USE DEF C!Busy
<1>1. CASE StageStep
  <2>1. UNCHANGED <<classified, weights, holder>>
    BY <1>1 DEF StageStep
  <2>2. \A c \in Cells :
          stage'[c] \in {"submitting", "in flight"} =>
            ~Classified(c[1]) /\ weights[c[1]] = "pinned" /\ holder.command \notin {"pull", "remove"}
    <3> SUFFICES ASSUME NEW c \in Cells, stage'[c] \in {"submitting", "in flight"}
                 PROVE  ~Classified(c[1]) /\ weights[c[1]] = "pinned" /\ holder.command \notin {"pull", "remove"}
      OBVIOUS
    <3>1. CASE stage[c] \in {"submitting", "in flight"}
      BY <3>1 DEF Inv, WorkInv, ModelStaysWhileEvaluated
    <3>2. CASE holder.command = "launch" /\ c[1] = Phase /\ weights[Phase] = "pinned"
      BY <3>2 DEF Inv, WorkInv
    <3>3. CASE Free /\ ~Classified(c[1]) /\ weights[c[1]] = "pinned"
      BY <3>3 DEF Free, Idle
    <3> QED BY <1>1, <3>1, <3>2, <3>3, CellMoves DEF Inv
  <2>3. \A c \in Cells : Classified(c[1]) => (stage'[c] = "accepted" <=> stage[c] = "accepted")
    BY <1>1, CellMoves DEF Inv, WorkInv
  <2>4. WorkInv'
    BY <2>1, <2>2 DEF WorkInv, Classified, Inv, Phase
  <2>5. ModelStaysWhileEvaluated'
    BY <2>1, <2>2 DEF ModelStaysWhileEvaluated
  <2>6. ASSUME NEW p \in Phases, Classified(p)' PROVE classified'[p] = AcceptedCells(p)'
    <3>1. Classified(p) /\ classified'[p] = classified[p]
      BY <2>1, <2>6 DEF Classified
    <3>2. AcceptedCells(p)' = AcceptedCells(p)
      BY <2>3, <3>1 DEF AcceptedCells, CellsOf
    <3> QED BY <3>1, <3>2 DEF Inv, ClassifiedGainsNothing
  <2> QED BY <2>4, <2>5, <2>6 DEF ClassifiedGainsNothing
<1>2. CASE UNCHANGED stage
  <2>1. \A p : AcceptedCells(p)' = AcceptedCells(p)
    BY <1>2 DEF AcceptedCells, CellsOf
  <2>2. ClassifiedGainsNothing'
    <3>1. CASE UNCHANGED classified
      BY <2>1, <3>1 DEF Inv, ClassifiedGainsNothing, Classified
    <3>2. ASSUME NEW p \in Phases, Classify(p) PROVE ClassifiedGainsNothing'
      BY <2>1, <3>2 DEF Inv, ClassifiedGainsNothing, Classified, Classify, TypeOK
    <3> QED BY <3>1, <3>2, ClassifiedMoves
  <2>3. \A c \in C!Busy : ~Classified(c[1])'
    <3>1. CASE UNCHANGED classified
      BY <3>1 DEF Inv, WorkInv, Classified
    <3>2. ASSUME NEW p \in Phases, Classify(p), NEW c \in C!Busy PROVE ~Classified(c[1])'
      <4>1. c[1] # p /\ c[1] \in Phases
        BY <3>2, LifecycleAssumption DEF Classify, CellsOf
      <4> QED BY <3>2, <4>1 DEF Inv, WorkInv, Classified, Classify, TypeOK
    <3> QED BY <3>1, <3>2, ClassifiedMoves
  <2>4. holder'.command = "launch" => ~Classified(Phase)'
    <3>1. ASSUME NEW p \in Phases, LaunchStart(p) PROVE ~Classified(Phase)'
      BY <3>1 DEF LaunchStart, TargetChecks, Take, Phase, evidence, Classified
    <3>2. holder'.command = "launch" => \/ holder.command = "launch" /\ Phase' = Phase
                                       \/ \E p \in Phases : LaunchStart(p)
      BY HolderMoves DEF Inv, HolderOK, Idle, Go, PullStart, RemoveStart, SmokeStart, ReceiptStart, Take, Phase
    <3>3. holder.command = "launch" => UNCHANGED classified
      <4>1. holder.command = "launch" => ~Free
        BY DEF Free, Idle
      <4> QED BY <4>1, ClassifiedMoves DEF Classify
    <3> QED BY <3>1, <3>2, <3>3 DEF Inv, WorkInv, Classified
  <2>5. ModelStaysWhileEvaluated'
    <3> SUFFICES ASSUME NEW c \in C!Busy
                 PROVE  weights'[c[1]] = "pinned" /\ holder'.command \notin {"pull", "remove"}
      BY <1>2 DEF ModelStaysWhileEvaluated
    <3>1. weights[c[1]] = "pinned" /\ holder.command \notin {"pull", "remove"}
      BY DEF Inv, ModelStaysWhileEvaluated
    <3>2. weights'[c[1]] = weights[c[1]]
      <4>1. ASSUME NEW p \in Phases, ByHand(p) PROVE weights'[c[1]] = weights[c[1]]
        <5>1. c[1] # p /\ c[1] \in Phases
          BY <4>1, LifecycleAssumption DEF ByHand, CellsOf
        <5>2. weights \in [Phases -> Weights]
          BY DEF Inv, TypeOK
        <5> QED BY <4>1, <5>1, <5>2 DEF ByHand
      <4> QED BY <3>1, <4>1, WeightsMove DEF Inv, PullEnd, RemoveEnd, Holds
    <3>3. Active
      BY DEF Active
    <3>4. holder'.command \notin {"pull", "remove"}
      BY <3>1, <3>3, NoPullBesideWork DEF Inv
    <3> QED BY <3>1, <3>2, <3>4
  <2> QED BY <1>2, <2>2, <2>3, <2>4, <2>5 DEF WorkInv
<1> QED BY <1>1, <1>2, StageMoves

\* Who holds the lock for a command either has just begun it or held it before.
LEMMA DoingMoves ==
  ASSUME HolderOK, [Next]_vars, NEW command \in Commands \ {"none"}, NEW p \in Phases, Doing(command, p)'
  PROVE  \/ Doing(command, p)
         \/ command = "pull" /\ PullStart(p)
         \/ command = "remove" /\ RemoveStart(p)
         \/ command = "smoke" /\ SmokeStart(p)
         \/ command = "launch" /\ LaunchStart(p)
         \/ command = "receipt" /\ ReceiptStart(p)
<1> USE DEF Doing, Phase
<1>1. CASE UNCHANGED holder
  BY <1>1
<1>2. holder' # Idle
  BY DEF Idle, Commands
<1>3. ASSUME NEW step \in Steps, Go(step) PROVE Doing(command, p)
  BY <1>3 DEF Go, HolderOK
<1>4. ASSUME NEW q \in Phases, PullStart(q) \/ RemoveStart(q) \/ SmokeStart(q) \/ LaunchStart(q) \/ ReceiptStart(q)
      PROVE  \/ command = "pull" /\ PullStart(p)
             \/ command = "remove" /\ RemoveStart(p)
             \/ command = "smoke" /\ SmokeStart(p)
             \/ command = "launch" /\ LaunchStart(p)
             \/ command = "receipt" /\ ReceiptStart(p)
  <2>1. CASE PullStart(q)
    <3>1. command = "pull" /\ q = p
      BY <2>1 DEF PullStart, Take
    <3> QED BY <2>1, <3>1
  <2>2. CASE RemoveStart(q)
    <3>1. command = "remove" /\ q = p
      BY <2>2 DEF RemoveStart, Take
    <3> QED BY <2>2, <3>1
  <2>3. CASE SmokeStart(q)
    <3>1. command = "smoke" /\ q = p
      BY <2>3 DEF SmokeStart, Take
    <3> QED BY <2>3, <3>1
  <2>4. CASE LaunchStart(q)
    <3>1. command = "launch" /\ q = p
      BY <2>4 DEF LaunchStart, Take
    <3> QED BY <2>4, <3>1
  <2>5. CASE ReceiptStart(q)
    <3>1. command = "receipt" /\ q = p
      BY <2>5 DEF ReceiptStart, Take
    <3> QED BY <2>5, <3>1
  <2> QED BY <1>4, <2>1, <2>2, <2>3, <2>4, <2>5
<1> QED BY <1>1, <1>2, <1>3, <1>4, HolderMoves

\* Weights are gone only of phases that are finished for good; a request is
\* logged before anything is removed.
LEMMA RemovalPreserved ==
  ASSUME Inv, [Next]_vars
  PROVE  RemovalInv' /\ RemovedWeightsNotNeeded'
<1>0. TypeOK /\ HolderOK /\ RemovalInv /\ RemovedWeightsNotNeeded
  BY DEF Inv
<1>1. log \subseteq log'
  <2>1. CASE Command
    BY <2>1 DEF Command, Drain, Plan, ResumeCell, SupersedeCell, PullStart, PullEnd, RemoveStart, RemoveEnd,
       ReceiptValidate, ReceiptStart, ReceiptRename, ReceiptWrite, ReceiptRecord, ReceiptRefused,
       SmokeStart, LaunchStart, Classify, SmokeApp, SmokePid, SmokeEnd, SmokeFails, StopApp,
     Mend, PullReuse, SpareAsk, SpareRemove, storage
  <2>2. CASE Fault \/ UNCHANGED vars
    BY <2>2 DEF Fault, Kill, Tamper, Drift, ByHand, storage, vars
  <2> QED BY <2>1, <2>2 DEF Next
<1>2. ASSUME NEW p \in Phases, AllAccepted(p) \/ Classified(p)
      PROVE  AllAccepted(p)' \/ Classified(p)'
  BY <1>0, <1>2, FinishedStays
<1>3. ASSUME NEW p \in Phases, Doing("remove", p)'
      PROVE  p \in log' /\ (weights'[p] = "other" \/ AllAccepted(p)' \/ Classified(p)')
  <2>1. CASE Doing("remove", p)
    <3>1. weights'[p] = weights[p]
      <4>1. ~PullEnd /\ ~RemoveEnd /\ holder.command # "pull"
        BY <1>3, <2>1 DEF Doing, PullEnd, RemoveEnd, Holds, Release, Idle
      <4>2. ASSUME NEW q \in Phases, ByHand(q) PROVE weights'[p] = weights[p]
        <5>1. q # p
          BY <2>1, <4>2 DEF ByHand, Underway, Doing
        <5> QED BY <1>0, <4>2, <5>1 DEF ByHand, TypeOK
      <4> QED BY <1>0, <4>1, <4>2, WeightsMove
    <3> QED BY <1>0, <1>1, <1>2, <2>1, <3>1 DEF RemovalInv
  <2>2. CASE RemoveStart(p)
    <3>1. Removable(p) /\ p \in log' /\ UNCHANGED weights
      BY <2>2 DEF RemoveStart
    <3> QED BY <1>2, <3>1 DEF Removable, PhaseFinished, Complete
  <2> QED BY <1>0, <1>3, <2>1, <2>2, DoingMoves DEF Commands
<1>4. ASSUME NEW p \in deleted'
      PROVE  (p = Spare \/ AllAccepted(p) \/ Classified(p))' /\ p \in log'
  <2>1. CASE p \in deleted
    BY <1>0, <1>1, <1>2, <2>1 DEF RemovedWeightsNotNeeded, TypeOK
  <2>2. CASE p \notin deleted
    <3>1. \/ RemoveEnd /\ weights[p] = "pinned" /\ p = Phase
          \/ SpareRemove /\ p = Spare
      BY <1>0, <1>4, <2>2, WeightsMove DEF PullEnd, RemoveEnd, Kill, ByHand, SpareRemove
    <3>2. CASE RemoveEnd /\ weights[p] = "pinned" /\ p = Phase
      <4>1. p \in Phases /\ Doing("remove", p)
        BY <1>0, <3>2 DEF RemoveEnd, Holds, Doing, HolderOK, Idle
      <4>2. p \in log /\ (AllAccepted(p) \/ Classified(p))
        BY <1>0, <3>2, <4>1 DEF RemovalInv
      <4> QED BY <1>1, <1>2, <4>1, <4>2
    <3>3. CASE SpareRemove /\ p = Spare
      BY <1>1, <3>3 DEF SpareRemove, Spare
    <3> QED BY <3>1, <3>2, <3>3
  <2> QED BY <2>1, <2>2
<1> QED BY <1>3, <1>4 DEF RemovalInv, RemovedWeightsNotNeeded

\* A receipt that is named stays named, at most under another number.
LEMMA NamedStays ==
  ASSUME Inv, [Next]_vars, NEW p \in Phases, receipt[p].named # 0
  PROVE  receipt'[p].named # 0
<1>1. receipt \in [Phases -> [file : 0..Edited, named : 0..Edited, kept : SUBSET (1..Edited)]]
  BY DEF Inv, TypeOK
<1>2. CASE ReceiptRename
  BY <1>1, <1>2 DEF ReceiptRename
<1>3. CASE ReceiptWrite
  BY <1>1, <1>3 DEF ReceiptWrite
<1>4. CASE ReceiptRecord
  <2>1. Doing("receipt", Phase) /\ holder.step = "record" /\ Phase \in Phases
    BY <1>4 DEF ReceiptRecord, Holds, Doing, Inv, HolderOK, Idle
  <2>2. receipt[Phase].file # 0
    BY <2>1 DEF Inv, ReceiptInv
  <2> QED BY <1>1, <1>4, <2>1, <2>2 DEF ReceiptRecord
<1>5. CASE Tamper
  BY <1>1, <1>5 DEF Tamper
<1> QED BY <1>2, <1>3, <1>4, <1>5, ReceiptMoves

\* What somebody installs or removes by hand is remembered beside what was there.
LEMMA HandPreserved ==
  ASSUME Inv, NEW r \in Phases, ByHand(r),
         \A p \in Phases : Done(p) => Done(p)'
  PROVE  PullInv' /\ OneTargetAtATime'
<1>0. TypeOK /\ PullInv /\ OneTargetAtATime
  BY DEF Inv
<1>1. PICK found \in Weights \ {weights[r]} :
       /\ weights' = [weights EXCEPT ![r] = found]
       /\ beside' = IF found = "pinned"
                    THEN Parted(r) \cup {{r, q} : q \in {t \in Phases : t \in Pinned \/ Underway(t)}}
                    ELSE Parted(r)
  BY DEF ByHand
<1>2. weights \in [Phases -> Weights] /\ UNCHANGED holder /\ ~Underway(r)
  BY <1>0 DEF TypeOK, ByHand
<1>3. ASSUME NEW q \in Phases, weights'[q] = "pinned", q # r PROVE weights[q] = "pinned"
  BY <1>1, <1>2, <1>3
<1>4. ASSUME NEW p \in Phases, NEW q \in Phases, p # r, q # r, {p, q} \in beside
      PROVE  {p, q} \in beside'
  BY <1>1, <1>4 DEF Parted
<1>5. ASSUME NEW q \in Phases, weights'[r] = "pinned", weights[q] = "pinned" \/ Underway(q)
      PROVE  {r, q} \in beside' /\ {q, r} \in beside'
  <2>1. found = "pinned"
    BY <1>1, <1>2, <1>5
  <2>2. q \in {t \in Phases : t \in Pinned \/ Underway(t)}
    BY <1>5 DEF Pinned
  <2>3. {r, q} \in beside'
    BY <1>1, <2>1, <2>2
  <2>4. {r, q} = {q, r}
    OBVIOUS
  <2> QED BY <2>3, <2>4
<1>6. ASSUME NEW p \in Phases, NEW q \in Phases, p # q, weights'[p] = "pinned", weights'[q] = "pinned"
      PROVE  {p, q} \in beside' \/ Done(p)' \/ Done(q)'
  <2>1. CASE p = r
    BY <1>3, <1>5, <1>6, <2>1
  <2>2. CASE q = r
    BY <1>3, <1>5, <1>6, <2>2
  <2>3. CASE p # r /\ q # r
    <3>1. {p, q} \in beside \/ Done(p) \/ Done(q)
      BY <1>0, <1>3, <1>6, <2>3 DEF OneTargetAtATime, Done
    <3> QED BY <1>4, <2>3, <3>1
  <2> QED BY <2>1, <2>2, <2>3
<1>7. ASSUME NEW p \in Phases, NEW q \in Phases, Doing("pull", p)', q # p, weights'[q] = "pinned"
      PROVE  {p, q} \in beside' \/ Done(q)'
  <2>1. Doing("pull", p) /\ Underway(p) /\ p # r
    BY <1>2, <1>7 DEF Doing, Phase, Underway
  <2>2. CASE q = r
    BY <1>5, <1>7, <2>1, <2>2
  <2>3. CASE q # r
    <3>1. {p, q} \in beside \/ Done(q)
      BY <1>0, <1>3, <1>7, <2>1, <2>3 DEF PullInv
    <3> QED BY <1>4, <2>1, <2>3, <3>1
  <2> QED BY <2>2, <2>3
<1> QED BY <1>6, <1>7 DEF PullInv, OneTargetAtATime, Done

\* Of two models at once, one is done with, or one came by hand.
LEMMA PullPreserved ==
  ASSUME Inv, [Next]_vars
  PROVE  PullInv' /\ OneTargetAtATime'
<1>0. TypeOK /\ HolderOK /\ PullInv /\ OneTargetAtATime
  BY DEF Inv
<1>1. ASSUME NEW p \in Phases, Done(p) PROVE Done(p)'
  BY <1>0, <1>1, FinishedStays, NamedStays DEF Done
<1>2. CASE \E r \in Phases : ByHand(r)
  BY <1>1, <1>2, HandPreserved
<1>3. ASSUME NEW r \in Phases, PullStart(r) PROVE PullInv' /\ OneTargetAtATime'
  <2>1. UNCHANGED weights /\ weights[r] = "absent" /\ Unfinished(r) = {} /\ beside' = Parted(r)
    BY <1>3 DEF PullStart
  <2>2. ASSUME NEW p \in Phases, NEW q \in Phases, Doing("pull", p)', q # p, weights'[q] = "pinned"
        PROVE  Done(q)'
    <3>1. p = r
      BY <1>3, <2>2 DEF PullStart, Take, Doing, Phase
    <3>2. PhaseFinished(q)
      BY <2>1, <2>2, <3>1 DEF Unfinished
    <3> QED BY <1>1, <3>2 DEF PhaseFinished, Done
  <2>3. ASSUME NEW p \in Phases, NEW q \in Phases, p # q, weights'[p] = "pinned", weights'[q] = "pinned"
        PROVE  {p, q} \in beside' \/ Done(p)' \/ Done(q)'
    <3>1. {p, q} \in beside \/ Done(p) \/ Done(q)
      BY <1>0, <2>1, <2>3 DEF OneTargetAtATime, Done
    <3>2. {p, q} \in beside => {p, q} \in Parted(r)
      BY <2>1, <2>3 DEF Parted
    <3> QED BY <1>1, <2>1, <3>1, <3>2
  <2> QED BY <2>2, <2>3 DEF PullInv, OneTargetAtATime, Done
<1>4. CASE /\ UNCHANGED beside
           /\ ~(\E r \in Phases : ByHand(r)) /\ ~(\E r \in Phases : PullStart(r))
  <2>1. ASSUME NEW q \in Phases, weights'[q] = "pinned"
        PROVE  weights[q] = "pinned" \/ Doing("pull", q)
    <3>1. CASE UNCHANGED weights
      BY <2>1, <3>1
    <3>2. CASE PullEnd
      BY <1>0, <2>1, <3>2 DEF PullEnd, Holds, Doing, TypeOK
    <3>3. CASE RemoveEnd
      BY <1>0, <2>1, <3>3 DEF RemoveEnd, TypeOK
    <3>4. CASE Kill /\ holder.command = "pull"
      BY <1>0, <2>1, <3>4 DEF Kill, Doing, TypeOK
    <3> QED BY <1>0, <1>4, <3>1, <3>2, <3>3, <3>4, WeightsMove
  <2>2. ASSUME NEW p \in Phases, NEW q \in Phases, Doing("pull", p)', q # p, weights'[q] = "pinned"
        PROVE  {p, q} \in beside' \/ Done(q)'
    <3>1. Doing("pull", p)
      BY <1>0, <1>4, <2>2, DoingMoves DEF Commands
    <3>2. weights[q] = "pinned"
      BY <2>1, <2>2, <3>1 DEF Doing
    <3> QED BY <1>0, <1>1, <1>4, <2>2, <3>1, <3>2 DEF PullInv
  <2>3. ASSUME NEW p \in Phases, NEW q \in Phases, p # q, weights'[p] = "pinned", weights'[q] = "pinned"
        PROVE  {p, q} \in beside' \/ Done(p)' \/ Done(q)'
    <3>1. CASE weights[p] = "pinned" /\ weights[q] = "pinned"
      BY <1>0, <1>1, <1>4, <2>3, <3>1 DEF OneTargetAtATime, Done
    <3>2. CASE Doing("pull", p) /\ weights[q] = "pinned"
      BY <1>0, <1>1, <1>4, <2>3, <3>2 DEF PullInv
    <3>3. CASE Doing("pull", q) /\ weights[p] = "pinned"
      <4>1. {p, q} = {q, p}
        OBVIOUS
      <4>2. {q, p} \in beside \/ Done(p)
        BY <1>0, <2>3, <3>3 DEF PullInv
      <4> QED BY <1>1, <1>4, <4>1, <4>2
    <3> QED BY <2>1, <2>3, <3>1, <3>2, <3>3 DEF Doing
  <2> QED BY <2>2, <2>3 DEF PullInv, OneTargetAtATime, Done
<1> QED BY <1>2, <1>3, <1>4, BesideMoves

\* One version more is one more at most.
LEMMA OneMore ==
  ASSUME NEW S, NEW x, IsFiniteSet(S), NEW n \in Nat, Cardinality(S) + 1 < n, NEW T,
         T = S \/ T = S \cup {x}
  PROVE  Cardinality(T) < n
<1>1. Cardinality(S) \in Nat
  BY FS_CardinalityType
<1>2. Cardinality(S \cup {x}) = IF x \in S THEN Cardinality(S) ELSE Cardinality(S) + 1
  BY FS_AddElement
<1>3. Cardinality(T) = Cardinality(S) \/ Cardinality(T) = Cardinality(S) + 1
  BY <1>2
<1> QED BY <1>1, <1>3

\* The command that writes a receipt goes on by setting aside and writing.
LEMMA ReceiptGoes ==
  ASSUME HolderOK, [Next]_vars, NEW p \in Phases, Doing("receipt", p), Doing("receipt", p)'
  PROVE  UNCHANGED holder \/ ReceiptRename \/ ReceiptWrite
<1>1. ~Free /\ ~(holder' = Idle)
  BY DEF Doing, Free, Idle
<1>2. \A command, step : Holds(command, step) => command = "receipt"
  BY DEF Doing, Holds
<1>3. CASE Command
  BY <1>1, <1>2, <1>3 DEF Command, Drain, Plan, ResumeCell, SupersedeCell, PullStart, PullEnd, RemoveStart,
     RemoveEnd, ReceiptValidate, ReceiptStart, ReceiptRecord, ReceiptRefused, Take, Release,
     SmokeStart, LaunchStart, Classify, SmokeApp, SmokePid, SmokeEnd, SmokeFails, StopApp,
     Mend, PullReuse, SpareAsk, SpareRemove
<1>4. CASE Fault \/ UNCHANGED vars
  BY <1>1, <1>4 DEF Fault, Kill, Tamper, Drift, ByHand, Release, vars
<1> QED BY <1>3, <1>4 DEF Next

\* A receipt that was named is one of accepted cells, and kept.
LEMMA ReceiptPreserved ==
  ASSUME Inv, [Next]_vars
  PROVE  ReceiptInv' /\ ReceiptIsFrozen'
<1>0. TypeOK /\ HolderOK /\ ReceiptInv /\ ReceiptIsFrozen
  BY DEF Inv
<1> DEFINE Rec == [file : 0..Edited, named : 0..Edited, kept : SUBSET (1..Edited)]
<1>1. receipt \in [Phases -> Rec] /\ MaxIssues \in Nat /\ Edited = MaxIssues + 1 /\ validated \subseteq Phases
  BY <1>0, LifecycleAssumption DEF TypeOK, Edited
<1>2. ASSUME NEW p \in Phases, AllAccepted(p) PROVE AllAccepted(p)'
  BY <1>0, <1>2, FinishedStays
<1>3. \A p \in validated' : AllAccepted(p)'
  <2>1. validated' \subseteq validated \/ \E p \in Phases : validated' = {p} /\ AllAccepted(p)
    <3> USE DEF Complete
    <3>1. CASE Command
      BY <3>1 DEF Command, Drain, Plan, ResumeCell, SupersedeCell, PullStart, PullEnd, RemoveStart, RemoveEnd,
         ReceiptValidate, ReceiptStart, ReceiptRename, ReceiptWrite, ReceiptRecord, ReceiptRefused,
         SmokeStart, LaunchStart, Classify, SmokeApp, SmokePid, SmokeEnd, SmokeFails, StopApp,
     Mend, PullReuse, SpareAsk, SpareRemove, evidence
    <3>2. CASE Fault \/ UNCHANGED vars
      BY <3>2 DEF Fault, Kill, Tamper, Drift, ByHand, evidence, vars
    <3> QED BY <3>1, <3>2 DEF Next
  <2> QED BY <1>0, <1>1, <1>2, <2>1 DEF ReceiptInv
<1>4. ASSUME NEW p \in Phases, Doing("receipt", p)'
      PROVE  /\ AllAccepted(p)'
             /\ holder'.step = "validated" => Cardinality(receipt'[p].kept) + 1 < MaxIssues
             /\ holder'.step = "write" => receipt'[p].file = 0 /\ Cardinality(receipt'[p].kept) < MaxIssues
             /\ holder'.step = "record" => receipt'[p].file # 0
  <2>1. CASE ReceiptStart(p)
    <3>1. p \in validated /\ UNCHANGED receipt /\ holder'.step = "validated"
          /\ Cardinality(receipt[p].kept) + 1 < MaxIssues
      BY <2>1 DEF ReceiptStart, Take
    <3> QED BY <1>0, <1>2, <3>1 DEF ReceiptInv
  <2>2. CASE Doing("receipt", p)
    <3>1. AllAccepted(p)'
      BY <1>0, <1>2, <2>2 DEF ReceiptInv
    <3>2. CASE ReceiptRename
      <4>1. /\ p = Phase /\ holder'.step = "write"
            /\ Cardinality(receipt[p].kept) + 1 < MaxIssues
        BY <1>0, <2>2, <3>2 DEF ReceiptRename, Holds, Go, Doing, ReceiptInv, HolderOK
      <4>2. receipt[p] \in Rec /\ IsFiniteSet(receipt[p].kept) /\ Cardinality(receipt[p].kept) \in Nat
        <5>1. receipt[p].kept \subseteq 1..Edited /\ 1 \in Int /\ Edited \in Int
          BY <1>1
        <5> QED BY <1>1, <5>1, FS_Interval, FS_Subset, FS_CardinalityType
      <4>3. receipt'[p].file = 0 /\ (receipt'[p].kept = receipt[p].kept
                                    \/ receipt'[p].kept = receipt[p].kept \cup {receipt[p].file})
        BY <1>1, <3>2, <4>1 DEF ReceiptRename
      <4>4. Cardinality(receipt'[p].kept) < MaxIssues
        BY <1>1, <4>1, <4>2, <4>3, OneMore
      <4> QED BY <3>1, <4>1, <4>3, <4>4
    <3>3. CASE ReceiptWrite
      <4>1. p = Phase /\ holder'.step = "record" /\ receipt[p] \in Rec
            /\ receipt[p].file = 0 /\ Cardinality(receipt[p].kept) < MaxIssues
        BY <1>0, <1>1, <2>2, <3>3 DEF ReceiptWrite, Holds, Go, Doing, ReceiptInv, HolderOK
      <4>2. \E v \in 1..MaxIssues : v \notin receipt[p].kept /\ v # receipt[p].file
        BY <1>1, <4>1, NumberLeft
      <4>3. NextVersion(p) \in 1..MaxIssues
        BY <4>2 DEF NextVersion
      <4>4. receipt'[p].file = NextVersion(p)
        BY <1>1, <3>3, <4>1 DEF ReceiptWrite
      <4> QED BY <1>1, <3>1, <4>1, <4>3, <4>4
    <3>4. CASE ReceiptRecord
      BY <1>4, <3>4 DEF ReceiptRecord, Release, Doing, Idle
    <3>5. CASE Tamper /\ UNCHANGED holder
      <4>1. /\ receipt'[p].kept = receipt[p].kept
            /\ receipt[p].file = 0 <=> receipt'[p].file = 0
        BY <1>1, <3>5 DEF Tamper
      <4> QED BY <1>0, <2>2, <3>1, <3>5, <4>1 DEF ReceiptInv
    <3>6. CASE UNCHANGED receipt
      <4>1. UNCHANGED holder \/ ReceiptRename \/ ReceiptWrite
        BY <1>0, <1>4, <2>2, ReceiptGoes
      <4> QED BY <1>0, <2>2, <3>1, <3>2, <3>3, <3>6, <4>1 DEF ReceiptInv
    <3> QED BY <3>2, <3>3, <3>4, <3>5, <3>6, ReceiptMoves
  <2> QED BY <1>0, <1>4, <2>1, <2>2, DoingMoves DEF Commands
<1>5. ASSUME NEW p \in Phases, receipt'[p].named # 0
      PROVE  /\ AllAccepted(p)'
             /\ {receipt'[p].named, Edited} \cap (receipt'[p].kept \cup {receipt'[p].file}) # {}
  <2>1. receipt[p] \in Rec
    BY <1>1
  <2>2. CASE UNCHANGED receipt
    BY <1>0, <1>2, <1>5, <2>2 DEF ReceiptIsFrozen
  <2>3. CASE ReceiptRename
    <3>1. /\ receipt'[p].named = receipt[p].named
          /\ receipt[p].kept \subseteq receipt'[p].kept
          /\ receipt[p].file \in receipt'[p].kept \cup {receipt'[p].file}
      BY <1>1, <2>3 DEF ReceiptRename
    <3> QED BY <1>0, <1>2, <1>5, <3>1 DEF ReceiptIsFrozen
  <2>4. CASE ReceiptWrite
    <3>1. Phase \in Phases /\ Doing("receipt", Phase) /\ holder.step = "write"
      BY <1>0, <2>4 DEF ReceiptWrite, Holds, Doing, HolderOK, Idle
    <3>2. receipt[Phase].file = 0
      BY <1>0, <3>1 DEF ReceiptInv
    <3>3. /\ receipt'[p].named = receipt[p].named /\ receipt'[p].kept = receipt[p].kept
          /\ receipt[p].file \in {0, receipt'[p].file}
      BY <1>1, <2>4, <3>1, <3>2 DEF ReceiptWrite
    <3> QED BY <1>0, <1>1, <1>2, <1>5, <3>3 DEF ReceiptIsFrozen
  <2>5. CASE ReceiptRecord
    <3>1. Phase \in Phases /\ Doing("receipt", Phase)
      BY <1>0, <2>5 DEF ReceiptRecord, Holds, Doing, HolderOK, Idle
    <3>2. AllAccepted(Phase)
      BY <1>0, <3>1 DEF ReceiptInv
    <3>3. CASE p = Phase
      BY <1>1, <1>2, <2>5, <3>2, <3>3 DEF ReceiptRecord
    <3>4. CASE p # Phase
      <4>1. receipt'[p] = receipt[p]
        BY <1>1, <2>5, <3>4 DEF ReceiptRecord
      <4> QED BY <1>0, <1>2, <1>5, <4>1 DEF ReceiptIsFrozen
    <3> QED BY <3>3, <3>4
  <2>6. CASE Tamper
    <3>1. /\ receipt'[p].named = receipt[p].named /\ receipt'[p].kept = receipt[p].kept
          /\ receipt'[p].file \in {receipt[p].file, Edited}
      BY <1>1, <2>6 DEF Tamper
    <3> QED BY <1>0, <1>2, <1>5, <3>1 DEF ReceiptIsFrozen
  <2> QED BY <2>2, <2>3, <2>4, <2>5, <2>6, ReceiptMoves
<1> QED BY <1>3, <1>4, <1>5 DEF ReceiptInv, ReceiptIsFrozen
----------------------------------------------------------------------------

\* The invariant is inductive.
LEMMA Inductive == Inv /\ [Next]_vars => Inv'
<1> SUFFICES ASSUME Inv, [Next]_vars PROVE Inv'
  OBVIOUS
<1>1. TypeOK' /\ HolderOK'
  BY TypePreserved, HolderPreserved DEF Inv
<1> QED BY <1>1, WorkPreserved, RemovalPreserved, PullPreserved, ReceiptPreserved, SmokePreserved DEF Inv

\* The invariant holds in every reachable state.
LEMMA Invariance == Spec => []Inv
BY InitInv, Inductive, PTL DEF Spec

\* The state of a campaign's machine keeps its types; in particular a version of
\* a receipt never takes the number of one that is kept.
THEOREM TypeCorrect == Spec => []TypeOK
BY Invariance, PTL DEF Inv

\* Weights a command removed belonged to a phase whose cells are all accepted or that
\* is classified, for good, or to none, and the removal was asked for in the storage
\* log (remove_model, remove_weights).
THEOREM RemovalSafe == Spec => []RemovedWeightsNotNeeded
BY Invariance, PTL DEF Inv

\* The model of an evaluation in flight stays installed, however often launchers are
\* killed and whatever pulls and removals are tried meanwhile (_active_evaluations), if
\* nobody removes it by hand.
THEOREM ModelSafe == Spec => []ModelStaysWhileEvaluated
BY Invariance, PTL DEF Inv

\* Two pinned models are installed together only when one is done with, or when one
\* was installed by hand while the other was there; so a pull never adds a second
\* target to an unfinished one, whatever it found on the machine (pull_model).
THEOREM TargetsSafe == Spec => []OneTargetAtATime
BY Invariance, PTL DEF Inv

\* What was disclosed when a model was classified stays true (classify_model).
THEOREM ClassificationSafe == Spec => []ClassifiedGainsNothing
BY Invariance, PTL DEF Inv

\* A receipt in the ledger is one of a phase whose cells are all accepted, also when
\* evaluations nobody knows, other task packs or a classification take its completeness
\* away afterwards, and its version can be found, wherever the command that wrote it
\* was killed (model_receipt, classify_model).
THEOREM ReceiptSafe == Spec => []ReceiptIsFrozen
BY Invariance, PTL DEF Inv

\* No launch runs beside the app of a killed smoke whose process group is known
\* (live_smoke_apps).
THEOREM SmokeSafe == Spec => []NoSmokeBesideLaunch
BY Invariance, PTL DEF Inv
=============================================================================
