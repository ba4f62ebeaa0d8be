---------------------------- MODULE CampaignProofs ----------------------------
(***************************************************************************)
(* The safety of a campaign for any cells, any number of evaluations and   *)
(* resumes, any launches, and any number of kills, users' actions and      *)
(* changes of the world.  An evaluation the launcher created is found again *)
(* because its cell says `submitting' for as long as no entry owns it; a    *)
(* cell that succeeded stays accepted because nothing an acceptance reads  *)
(* changes once an evaluation has succeeded.                               *)
(***************************************************************************)
EXTENDS CampaignProperties, WellFoundedInduction, FiniteSetTheorems, TLAPS

LaunchRecord ==
  [step : Step, cell : Cells \cup {NoCell}, plan : SUBSET Cells, option : Options \cup {"official"},
   draining : BOOLEAN, seen : Status, id : Ids \cup {NoId}]

Types ==
  /\ eval \in [Ids -> EvalRow] /\ world \in {"pinned", "model moved", "task changed"}
  /\ ledger \in [entry : [Cells -> Entry], past : SUBSET Ids, disowned : SUBSET Ids]
  /\ launch \in LaunchRecord /\ late \subseteq Request

\* A cell that has an evaluation names it; without one nothing was resumed.
EntryInv ==
  /\ \A c \in Cells : LET entry == ledger.entry[c] IN
       /\ entry.id = NoId <=> entry.state \in {"none", "submitting"}
       /\ entry.id = NoId => entry.resumes = 0
       /\ entry.id # NoId => eval[entry.id].cell = c
  /\ \A e \in Ids : Exists(e) /\ eval[e].origin = "launcher" => eval[e].cell \in Cells

\* What the ledger knows is there, and no evaluation belongs to two.
KnownInv == LedgerWellFormed /\ \A e \in Known : Exists(e)

\* Own(c): the evaluations the launcher created for a cell.
Own(c) == {e \in Ids : Exists(e) /\ eval[e].origin = "launcher" /\ eval[e].cell = c}

\* Where the process that holds the lock is, and what it has left to do.
StepInv ==
  /\ ~At("off") => Here \in Cells /\ (launch.draining => launch.plan # {})
  /\ At("drain") => launch.draining
  /\ launch.step \in {"plan", "posting", "posted", "resuming", "resumed"} => ~launch.draining
  /\ launch.step \in {"posting", "posted"} => Mine.state = "submitting"
  /\ At("posting") => Own(Here) \subseteq Known
  /\ At("posted") =>
       /\ launch.id \in Ids \ Known /\ Exists(launch.id) /\ eval[launch.id].cell = Here
       /\ Own(Here) \subseteq Known \cup {launch.id}
  /\ launch.step \in {"settle", "finalize", "resuming", "resumed"} => Mine.state = "submitted"
  /\ At("wait") => Mine.state \in {"submitted", "failed", "canceled"}
  /\ At("reject") => Mine.state \in {"failed", "canceled"}
  /\ At("resuming") => launch.seen \in {"failed", "canceled"}

\* The drain has come past every cell that was in flight, and the plan submits
\* when none is left.
DrainInv ==
  ~At("off") =>
    /\ launch.draining => \A c \in InFlight : Here <= c
    /\ ~launch.draining => InFlight \subseteq {Here}
    /\ At("plan") => InFlight = {}

\* Every resume that was credited was executed, beside those sent from outside.
Answered(c) == IF At("resumed") /\ Here = c THEN 1 ELSE 0
ResumeInv ==
  /\ \A e \in Ids : eval[e].outside <= eval[e].resumed
  /\ \A c \in Cells : LET entry == ledger.entry[c] IN
       entry.id # NoId =>
         /\ entry.resumes + Answered(c) <= eval[entry.id].resumed
         /\ ~entry.guessed => entry.resumes + Answered(c) + eval[entry.id].outside <= eval[entry.id].resumed

Inv ==
  /\ Types /\ EntryInv /\ KnownInv /\ StepInv /\ DrainInv /\ ResumeInv
  /\ SubmissionNeverLost /\ SucceededStaysAccepted
----------------------------------------------------------------------------

\* What every step of the app, a user or the world does to the evaluations.
Keeps ==
  /\ eval' \in [Ids -> EvalRow]
  /\ \A e \in Ids :
       /\ Exists(e) =>
            /\ eval'[e].status # "absent" /\ eval'[e].cell = eval[e].cell /\ eval'[e].origin = eval[e].origin
            /\ eval[e].resumed <= eval'[e].resumed
            /\ eval'[e].outside + eval[e].resumed <= eval[e].outside + eval'[e].resumed
       /\ eval[e].status = "succeeded" =>
            /\ eval'[e].status = "succeeded" /\ eval'[e].pinned = eval[e].pinned
            /\ eval'[e].voided = eval[e].voided /\ eval'[e].resumed = eval[e].resumed
            /\ eval[e].shared = {} => eval'[e].shared = {}
       /\ eval'[e].outside <= eval'[e].resumed

\* No evaluation appears that the launcher created.
NoneOwn ==
  \A e \in Ids : ~Exists(e) /\ eval'[e].status # "absent" => eval'[e].origin # "launcher"

\* The numbers of the evaluations.
LEMMA Numbers ==
  /\ NumEvals \in Nat /\ MaxResumes \in Nat /\ Cells \subseteq Nat /\ NoCell \notin Cells
  /\ NoId \notin Ids /\ 0 \in 0..MaxResumes
  BY CampaignAssumption DEF Ids, NoId

\* A new evaluation.
LEMMA CreateKeeps ==
  ASSUME Inv, NEW e \in Ids, NEW c \in Cells \cup {NoCell}, NEW origin \in {"user", "launcher", "late"},
         Create(e, c, origin)
  PROVE  /\ Keeps /\ ~Exists(e) /\ eval'[e].cell = c /\ eval'[e].origin = origin /\ eval'[e].status = "queued"
         /\ \A i \in Ids \ {e} : eval'[i] = eval[i]
<1> DEFINE row == [Absent EXCEPT !.cell = c, !.status = "queued", !.pinned = world # "task changed", !.origin = origin]
<1>1. row \in EvalRow /\ row.cell = c /\ row.status = "queued" /\ row.origin = origin /\ row.resumed = 0 /\ row.outside = 0
  BY Numbers DEF Absent, EvalRow, Status, Ended
<1>2. eval \in [Ids -> EvalRow] /\ \A i \in Ids : eval[i].outside <= eval[i].resumed
  BY DEF Inv, Types, ResumeInv
<1>3. ~Exists(e) /\ eval' = [eval EXCEPT ![e] = row]
  BY DEF Create, NextId
<1> HIDE DEF row
<1>4. eval' \in [Ids -> EvalRow] /\ eval'[e] = row /\ \A i \in Ids \ {e} : eval'[i] = eval[i]
  BY <1>1, <1>2, <1>3
<1>5. \A i \in Ids : eval[i].resumed \in Nat /\ eval[i].outside \in Nat
  BY <1>2, Numbers DEF EvalRow
<1> QED
  BY <1>1, <1>2, <1>3, <1>4, <1>5 DEF Keeps, Exists

\* A resume.
LEMMA ReopenKeeps ==
  ASSUME Inv, NEW e \in Ids, NEW byUser \in BOOLEAN, Reopen(e, byUser)
  PROVE  /\ Keeps /\ NoneOwn /\ Exists(e)
         /\ eval'[e].resumed = eval[e].resumed + 1
         /\ ~byUser => eval'[e].outside = eval[e].outside
<1>1. eval \in [Ids -> EvalRow] /\ \A i \in Ids : eval[i].outside <= eval[i].resumed
  BY DEF Inv, Types, ResumeInv
<1>2. \A i \in Ids : eval[i].resumed \in 0..MaxResumes /\ eval[i].outside \in 0..MaxResumes
  BY <1>1 DEF EvalRow
<1>3. eval[e].status \in {"failed", "canceled", "queued"} /\ eval[e].resumed < MaxResumes
  BY DEF Reopen, Resumable
<1> DEFINE row == [eval[e] EXCEPT !.status = "queued", !.resumed = @ + 1, !.outside = IF byUser THEN @ + 1 ELSE @]
<1>4. eval' = [eval EXCEPT ![e] = row]
  BY DEF Reopen
<1>5. eval[e].resumed + 1 \in 0..MaxResumes /\ (IF byUser THEN eval[e].outside + 1 ELSE eval[e].outside) \in 0..MaxResumes
  BY <1>1, <1>2, <1>3, Numbers
<1>6. /\ row \in EvalRow /\ row.status = "queued" /\ row.resumed = eval[e].resumed + 1
      /\ row.outside = IF byUser THEN eval[e].outside + 1 ELSE eval[e].outside
      /\ row.cell = eval[e].cell /\ row.origin = eval[e].origin
  <2>1. eval[e] \in EvalRow
    BY <1>1
  <2>2. CASE byUser
    BY <1>5, <2>1, <2>2 DEF EvalRow, Status
  <2>3. CASE ~byUser
    BY <1>5, <2>1, <2>3 DEF EvalRow, Status
  <2> QED
    BY <2>2, <2>3
<1> HIDE DEF row
<1>7. eval' \in [Ids -> EvalRow] /\ eval'[e] = row /\ \A i \in Ids \ {e} : eval'[i] = eval[i]
  BY <1>1, <1>4, <1>6
<1> QED
  BY <1>1, <1>2, <1>3, <1>6, <1>7, Numbers DEF Keeps, NoneOwn, Exists

\* A row of which only the state of the run changes.
Reruns(old, new) ==
  /\ new \in EvalRow /\ new.cell = old.cell /\ new.origin = old.origin
  /\ new.resumed = old.resumed /\ new.outside = old.outside /\ new.pinned = old.pinned
  /\ old.status = "absent" <=> new.status = "absent"
  /\ old.status = "succeeded" => new.status = "succeeded" /\ new.voided = old.voided
                                  /\ (old.shared = {} => new.shared = {})

\* What the app does by itself.
LEMMA RerunsKeeps ==
  ASSUME Inv, eval' \in [Ids -> EvalRow], \A i \in Ids : Reruns(eval[i], eval'[i])
  PROVE  Keeps /\ NoneOwn
<1>1. \A i \in Ids : eval[i].outside <= eval[i].resumed /\ eval[i].resumed \in Nat /\ eval[i].outside \in Nat
  <2>1. \A i \in Ids : eval[i].outside <= eval[i].resumed /\ eval[i] \in EvalRow
    BY DEF Inv, Types, ResumeInv
  <2>2. ASSUME NEW x \in EvalRow PROVE x.resumed \in Nat /\ x.outside \in Nat
    BY Numbers DEF EvalRow
  <2> QED
    BY <2>1, <2>2
<1> QED
  BY <1>1 DEF Keeps, NoneOwn, Exists, Reruns
LEMMA AppKeeps ==
  ASSUME Inv, AppStep
  PROVE  Keeps /\ NoneOwn
<1>0. eval \in [Ids -> EvalRow]
  BY DEF Inv, Types
<1>1. ASSUME NEW e \in Ids, Begin(e) PROVE eval' \in [Ids -> EvalRow] /\ \A i \in Ids : Reruns(eval[i], eval'[i])
  <2>1. \A i \in Ids : eval'[i] = IF i = e THEN [eval[e] EXCEPT !.status = "running",
                                              !.shared = @ \cup {o \in Ids : Running(o)}]
                ELSE IF Running(i) THEN [eval[i] EXCEPT !.shared = @ \cup {e}]
                ELSE eval[i]
    BY <1>1 DEF Begin
  <2>2. \A i \in Ids : Reruns(eval[i], eval'[i])
    <3> SUFFICES ASSUME NEW i \in Ids PROVE Reruns(eval[i], eval'[i])
      OBVIOUS
    <3>1. CASE i = e
      <4>1. eval[e].status = "queued" /\ eval[e] \in EvalRow
        BY <1>0, <1>1 DEF Begin
      <4> DEFINE shared == eval[e].shared \cup {o \in Ids : Running(o)}
      <4>2. shared \in SUBSET Ids
        BY <4>1 DEF EvalRow
      <4>3. eval'[i] = [eval[i] EXCEPT !.status = "running", !.shared = shared]
        BY <3>1, <2>1
      <4> HIDE DEF shared
      <4> QED
        BY <4>1, <4>2, <4>3, <3>1 DEF Reruns, EvalRow, Status
    <3>2. CASE i # e /\ Running(i)
      <4>1. eval[i].status = "running" /\ eval[i] \in EvalRow
        BY <1>0, <3>2 DEF Running
      <4> DEFINE shared == eval[i].shared \cup {e}
      <4>2. shared \in SUBSET Ids
        BY <4>1 DEF EvalRow
      <4>3. eval'[i] = [eval[i] EXCEPT !.shared = shared]
        BY <3>2, <2>1
      <4> HIDE DEF shared
      <4> QED
        BY <4>1, <4>2, <4>3 DEF Reruns, EvalRow
    <3>3. CASE i # e /\ ~Running(i)
      BY <1>0, <3>3, <2>1 DEF Reruns
    <3> QED
      BY <3>1, <3>2, <3>3
  <2>3. eval' \in [Ids -> EvalRow]
    BY <1>1, <2>2 DEF Begin, Reruns
  <2> QED
    BY <2>2, <2>3
<1>2. ASSUME NEW e \in Ids, Requeue(e) PROVE eval' \in [Ids -> EvalRow] /\ \A i \in Ids : Reruns(eval[i], eval'[i])
  BY <1>0, <1>2 DEF Requeue, Running, Reruns, EvalRow, Status
<1>3. ASSUME NEW e \in Ids, NEW status \in Ended, NEW voided \in BOOLEAN, NEW kept \in BOOLEAN,
             End(e, status, voided, kept)
      PROVE  eval' \in [Ids -> EvalRow] /\ \A i \in Ids : Reruns(eval[i], eval'[i])
  <2>1. \A i \in Ids : eval'[i] = IF i = e THEN [eval[e] EXCEPT !.status = status, !.voided = voided,
                                              !.shared = IF kept THEN @ ELSE {}]
                ELSE IF kept THEN eval[i] ELSE [eval[i] EXCEPT !.shared = @ \ {e}]
    BY <1>3 DEF End
  <2>2. \A i \in Ids : Reruns(eval[i], eval'[i])
    <3> SUFFICES ASSUME NEW i \in Ids PROVE Reruns(eval[i], eval'[i])
      OBVIOUS
    <3>1. eval[e].status \in {"queued", "running"} /\ eval[i] \in EvalRow
      BY <1>0, <1>3 DEF End, Open
    <3>2. CASE i = e /\ kept
      <4>1. eval'[i] = [eval[i] EXCEPT !.status = status, !.voided = voided, !.shared = eval[i].shared]
        BY <3>2, <2>1
      <4> QED
        BY <4>1, <3>1, <3>2 DEF Reruns, EvalRow, Status, Ended
    <3>3. CASE i = e /\ ~kept
      <4>1. eval'[i] = [eval[i] EXCEPT !.status = status, !.voided = voided, !.shared = {}]
        BY <3>3, <2>1
      <4> QED
        BY <4>1, <3>1, <3>3 DEF Reruns, EvalRow, Status, Ended
    <3>4. CASE i # e /\ kept
      BY <3>1, <3>4, <2>1 DEF Reruns
    <3>5. CASE i # e /\ ~kept
      <4> DEFINE shared == eval[i].shared \ {e}
      <4>2. shared \in SUBSET Ids /\ (eval[i].shared = {} => shared = {})
        BY <3>1 DEF EvalRow
      <4>3. eval'[i] = [eval[i] EXCEPT !.shared = shared]
        BY <3>5, <2>1
      <4> HIDE DEF shared
      <4> QED
        BY <3>1, <4>2, <4>3 DEF Reruns, EvalRow
    <3> QED
      BY <3>2, <3>3, <3>4, <3>5
  <2>3. eval' \in [Ids -> EvalRow]
    BY <1>3, <2>2 DEF End, Reruns
  <2> QED
    BY <2>2, <2>3
<1> QED
  BY <1>1, <1>2, <1>3, RerunsKeeps DEF AppStep

\* What the users do.
LEMMA UserKeeps ==
  ASSUME Inv, UserStep
  PROVE  Keeps /\ NoneOwn
<1>1. ASSUME NEW e \in Ids, NEW c \in Cells \cup {NoCell}, Create(e, c, "user") PROVE Keeps /\ NoneOwn
  BY <1>1, CreateKeeps DEF NoneOwn, Exists
<1>2. ASSUME NEW e \in Ids, Reopen(e, TRUE) PROVE Keeps /\ NoneOwn
  BY <1>2, ReopenKeeps
<1> QED
  BY <1>1, <1>2 DEF UserStep
----------------------------------------------------------------------------

\* An entry of the ledger.
LEMMA EntryFields ==
  ASSUME Inv, NEW c \in Cells
  PROVE  LET entry == ledger.entry[c] IN
         /\ entry \in Entry /\ entry.id \in Ids \cup {NoId} /\ entry.resumes \in 0..MaxResumes /\ entry.resumes \in Nat
         /\ entry.official \in BOOLEAN /\ entry.violation \subseteq {"identity", "concurrency"}
         /\ entry.state \in EntryState /\ entry.unsettled \in {"none", "official", "unofficial"}
         /\ entry.snapshot \in [status : Status, resumed : 0..MaxResumes]
         /\ entry.id # NoId => entry.id \in Known /\ entry.id \in Ids /\ Exists(entry.id) /\ eval[entry.id].cell = c
         /\ entry.id = NoId <=> entry.state \in {"none", "submitting"}
         /\ entry.id = NoId => entry.resumes = 0
<1> DEFINE entry == ledger.entry[c]
<1>1. entry \in Entry
  BY DEF Inv, Types
<1>2. /\ entry.id = NoId <=> entry.state \in {"none", "submitting"}
      /\ entry.id = NoId => entry.resumes = 0
      /\ entry.id # NoId => eval[entry.id].cell = c
  BY DEF Inv, EntryInv
<1>3. entry.id # NoId => entry.id \in Known
  BY DEF Known, ActiveIds
<1>4. entry.id # NoId => Exists(entry.id)
  BY <1>3 DEF Inv, KnownInv
<1> HIDE DEF entry
<1>5. /\ entry.id \in Ids \cup {NoId} /\ entry.resumes \in 0..MaxResumes
      /\ entry.official \in BOOLEAN /\ entry.violation \subseteq {"identity", "concurrency"}
      /\ entry.state \in EntryState /\ entry.unsettled \in {"none", "official", "unofficial"}
      /\ entry.snapshot \in [status : Status, resumed : 0..MaxResumes]
  BY <1>1 DEF Entry
<1>6. entry.resumes \in Nat
  BY <1>5, Numbers
<1> QED
  BY <1>1, <1>2, <1>3, <1>4, <1>5, <1>6 DEF entry

\* Only evaluations are known.
LEMMA KnownIds == ASSUME Inv PROVE Known \subseteq Ids
<1>1. ledger.past \subseteq Ids /\ ledger.disowned \subseteq Ids
  BY DEF Inv, Types
<1>2. ActiveIds \subseteq Ids
  BY EntryFields DEF ActiveIds
<1> QED
  BY <1>1, <1>2 DEF Known

\* What the numbers of an evaluation are.
LEMMA EvalFields ==
  ASSUME Inv, NEW e \in Ids
  PROVE  /\ eval[e] \in EvalRow /\ eval[e].status \in Status /\ eval[e].resumed \in 0..MaxResumes
         /\ eval[e].resumed \in Nat /\ eval[e].outside \in Nat /\ eval[e].shared \subseteq Ids
<1>1. eval[e] \in EvalRow
  BY DEF Inv, Types
<1>2. eval[e].status \in Status /\ eval[e].resumed \in 0..MaxResumes /\ eval[e].outside \in 0..MaxResumes /\ eval[e].shared \subseteq Ids
  BY <1>1 DEF EvalRow
<1> QED
  BY <1>1, <1>2, Numbers

\* An evaluation of the launcher has a cell.
LEMMA EvalCells ==
  ASSUME Inv, NEW e \in Ids, Exists(e), eval[e].origin = "launcher"
  PROVE  eval[e].cell \in Cells
  BY DEF Inv, EntryInv

\* A row counts resumes.
LEMMA RowNumbers == ASSUME NEW x \in EvalRow PROVE x.resumed \in Nat /\ x.outside \in Nat
  BY Numbers DEF EvalRow

\* A resume from outside does not take away from those credited.
LEMMA StillCredited ==
  ASSUME Inv, Keeps, NEW e \in Ids, Exists(e), NEW k \in Nat
  PROVE  /\ k <= eval[e].resumed => k <= eval'[e].resumed
         /\ k + eval[e].outside <= eval[e].resumed => k + eval'[e].outside <= eval'[e].resumed
<1>1. eval'[e] \in EvalRow /\ eval[e] \in EvalRow
  BY EvalFields DEF Keeps
<1>2. /\ eval[e].resumed \in Nat /\ eval[e].outside \in Nat
      /\ eval'[e].resumed \in Nat /\ eval'[e].outside \in Nat
  BY <1>1, RowNumbers
<1>3. eval[e].resumed <= eval'[e].resumed
  BY DEF Keeps
<1>4. eval'[e].outside + eval[e].resumed <= eval[e].outside + eval'[e].resumed
  BY DEF Keeps
<1> QED
  BY <1>2, <1>3, <1>4

\* The resumes a cell has been credited with, or is about to be.
LEMMA CreditNumber ==
  ASSUME Inv, NEW c \in Cells
  PROVE  ledger.entry[c].resumes + Answered(c) \in Nat
<1>1. ledger.entry[c].resumes \in Nat
  BY EntryFields
<1>2. Answered(c) \in Nat
  BY DEF Answered
<1> QED
  BY <1>1, <1>2

\* What the ledger knows and counts outlives what the app does.
LEMMA EvalAny ==
  ASSUME Inv, Keeps, ledger' = ledger
  PROVE  /\ Known' = Known /\ KnownInv' /\ SucceededStaysAccepted'
         /\ \A e \in Ids : Exists(e) => Exists(e)' /\ eval'[e].cell = eval[e].cell /\ eval'[e].origin = eval[e].origin
<1>1. Known' = Known
  BY DEF Known, ActiveIds
<1>2. \A e \in Ids : Exists(e) => Exists(e)' /\ eval'[e].cell = eval[e].cell /\ eval'[e].origin = eval[e].origin
  BY DEF Keeps, Exists
<1>3. KnownInv'
  <2>1. LedgerWellFormed'
    BY DEF Inv, KnownInv, LedgerWellFormed, ActiveIds
  <2>2. \A e \in Known : e \in Ids
    BY KnownIds
  <2> QED
    BY <1>1, <1>2, <2>1, <2>2 DEF Inv, KnownInv
<1>4. SucceededStaysAccepted'
  <2> SUFFICES ASSUME NEW c \in Cells, ledger.entry[c].state = "succeeded"
               PROVE  Accepted(c)'
    BY DEF SucceededStaysAccepted
  <2>1. Assess(c, ledger.entry[c]) /\ ledger.entry[c].id \in Ids
    BY EntryFields DEF Inv, SucceededStaysAccepted, Accepted
  <2> QED
    BY <2>1 DEF Keeps, Accepted, Assess, CellCheckOk, Overlapping, Tainted, ResumeProblems, Rehearsal, Exists
<1> QED
  BY <1>1, <1>2, <1>3, <1>4

\* The launcher and the ledger are where they were, and the app moves on.
LEMMA EvalInv ==
  ASSUME Inv, Keeps, NoneOwn, UNCHANGED <<ledger, launch>>,
         late' \subseteq Request, world' \in {"pinned", "model moved", "task changed"}
  PROVE  Inv'
<1>1. Types'
  BY DEF Inv, Types, Keeps
<1>2. Known' = Known /\ UNCHANGED <<ledger, launch, Here, Mine>>
  BY EvalAny DEF Here, Mine
<1>3. \A e \in Ids : Exists(e) => Exists(e)' /\ eval'[e].cell = eval[e].cell /\ eval'[e].origin = eval[e].origin
  BY EvalAny
<1>4. EntryInv'
  BY <1>3, EntryFields DEF Inv, EntryInv, NoneOwn, Exists
<1>5. KnownInv'
  BY EvalAny
<1>6. \A c \in Cells : Own(c)' \subseteq Own(c)
  <2> SUFFICES ASSUME NEW c \in Cells, NEW e \in Ids, eval'[e].status # "absent",
                      eval'[e].origin = "launcher", eval'[e].cell = c
               PROVE  e \in Own(c)
    BY DEF Own, Exists
  <2>1. Exists(e)
    BY DEF NoneOwn
  <2> QED
    BY <1>3, <2>1 DEF Own
<1>7. StepInv'
  BY <1>2, <1>3, <1>6 DEF Inv, StepInv, At
<1>8. DrainInv'
  BY DEF Inv, DrainInv, InFlight, At, Here
<1>9. ResumeInv'
  <2>1. \A e \in Ids : eval'[e].outside <= eval'[e].resumed
    BY DEF Keeps
  <2>2. ASSUME NEW c \in Cells, ledger.entry[c].id # NoId
        PROVE  LET entry == ledger.entry[c] IN
               /\ entry.resumes + Answered(c) <= eval'[entry.id].resumed
               /\ ~entry.guessed => entry.resumes + Answered(c) + eval'[entry.id].outside <= eval'[entry.id].resumed
    <3> DEFINE it == ledger.entry[c]
    <3>1. it.id \in Ids /\ Exists(it.id)
      BY <2>2, EntryFields
    <3>2. /\ it.resumes + Answered(c) <= eval[it.id].resumed
          /\ ~it.guessed => it.resumes + Answered(c) + eval[it.id].outside <= eval[it.id].resumed
      BY <2>2 DEF Inv, ResumeInv
    <3>3. it.resumes + Answered(c) \in Nat
      BY CreditNumber
    <3> QED
      BY <3>1, <3>2, <3>3, StillCredited
  <2>3. \A c \in Cells : Answered(c)' = Answered(c)
    BY DEF Answered, At, Here
  <2> QED
    BY <2>1, <2>2, <2>3 DEF ResumeInv
<1>10. SubmissionNeverLost'
  <2> SUFFICES ASSUME NEW e \in Ids, eval'[e].status # "absent", eval'[e].origin = "launcher"
               PROVE  e \in Known \/ ledger.entry[eval'[e].cell].state = "submitting"
    BY <1>2 DEF SubmissionNeverLost, Exists
  <2>1. Exists(e) /\ eval[e].origin = "launcher" /\ eval'[e].cell = eval[e].cell
    BY <1>3 DEF NoneOwn
  <2> QED
    BY <2>1 DEF Inv, SubmissionNeverLost
<1>11. SucceededStaysAccepted'
  BY EvalAny
<1> QED
  BY <1>1, <1>4, <1>5, <1>7, <1>8, <1>9, <1>10, <1>11 DEF Inv
----------------------------------------------------------------------------

\* What holds of the ledger alone, whoever holds its lock.
LedgerInv ==
  /\ ledger \in [entry : [Cells -> Entry], past : SUBSET Ids, disowned : SUBSET Ids]
  /\ EntryInv /\ KnownInv /\ SubmissionNeverLost /\ SucceededStaysAccepted

\* A cell with or without an evaluation.
Coherent(entry) ==
  /\ entry.id = NoId <=> entry.state \in {"none", "submitting"}
  /\ entry.id = NoId => entry.resumes = 0

\* What Save does.
LEMMA SaveMoves ==
  ASSUME Inv, NEW c \in Cells, NEW entry \in Entry, Save(c, entry)
  PROVE  /\ ledger' \in [entry : [Cells -> Entry], past : SUBSET Ids, disowned : SUBSET Ids]
         /\ ledger'.past = ledger.past /\ ledger'.disowned = ledger.disowned
         /\ \A d \in Cells : ledger'.entry[d] = IF d = c THEN entry ELSE ledger.entry[d]
<1>1. ledger \in [entry : [Cells -> Entry], past : SUBSET Ids, disowned : SUBSET Ids]
  BY DEF Inv, Types
<1>2. ledger' = [ledger EXCEPT !.entry[c] = entry]
  BY DEF Save
<1>3. ledger'.past = ledger.past /\ ledger'.disowned = ledger.disowned /\ ledger'.entry = [ledger.entry EXCEPT ![c] = entry]
  BY <1>1, <1>2
<1>4. ledger'.entry \in [Cells -> Entry]
  BY <1>1, <1>3
<1>5. ledger' = [entry |-> ledger'.entry, past |-> ledger'.past, disowned |-> ledger'.disowned]
  BY <1>1, <1>2
<1> QED
  BY <1>1, <1>3, <1>4, <1>5

\* An entry is saved that keeps its evaluation, or has none.
LEMMA SaveSame ==
  ASSUME Inv, NEW c \in Cells, NEW entry \in Entry, Save(c, entry), eval' = eval,
         entry.id = ledger.entry[c].id, Coherent(entry),
         entry.state = "submitting" \/ Own(c) \subseteq Known,
         entry.state = "succeeded" => Assess(c, entry)
  PROVE  LedgerInv' /\ Known' = Known
<1>1. /\ ledger' \in [entry : [Cells -> Entry], past : SUBSET Ids, disowned : SUBSET Ids]
      /\ ledger'.past = ledger.past /\ ledger'.disowned = ledger.disowned
      /\ \A d \in Cells : ledger'.entry[d] = IF d = c THEN entry ELSE ledger.entry[d]
  BY SaveMoves
<1>2. \A d \in Cells : ledger'.entry[d].id = ledger.entry[d].id
  BY <1>1
<1>3. ActiveIds' = ActiveIds /\ Known' = Known
  BY <1>1, <1>2 DEF ActiveIds, Known
<1>4. EntryInv'
  BY <1>1, <1>2 DEF EntryInv, Inv, Coherent, Exists
<1>5. KnownInv'
  <2>1. LedgerWellFormed'
    BY <1>1, <1>2, <1>3 DEF LedgerWellFormed, Inv, KnownInv, Coherent
  <2> QED
    BY <2>1, <1>3 DEF KnownInv, Inv, Exists
<1>6. SubmissionNeverLost'
  <2> SUFFICES ASSUME NEW e \in Ids, Exists(e), eval[e].origin = "launcher", e \notin Known
               PROVE  ledger'.entry[eval[e].cell].state = "submitting"
    BY <1>3 DEF SubmissionNeverLost, Exists
  <2>1. ledger.entry[eval[e].cell].state = "submitting"
    BY DEF Inv, SubmissionNeverLost
  <2>2. eval[e].cell \in Cells
    BY EvalCells
  <2>3. CASE eval[e].cell = c
    BY <1>1, <2>3 DEF Own
  <2> QED
    BY <1>1, <2>1, <2>2, <2>3
<1>7. SucceededStaysAccepted'
  <2> SUFFICES ASSUME NEW d \in Cells, ledger'.entry[d].state = "succeeded"
               PROVE  Accepted(d)'
    BY DEF SucceededStaysAccepted
  <2>1. Assess(d, ledger'.entry[d])
    BY <1>1 DEF Inv, SucceededStaysAccepted, Accepted
  <2> QED
    BY <2>1 DEF Accepted, Assess, CellCheckOk, Overlapping, Tainted, ResumeProblems, Rehearsal
<1> QED
  BY <1>1, <1>3, <1>4, <1>5, <1>6, <1>7 DEF LedgerInv

\* An entry is saved that names the evaluation that was created for it.
LEMMA SaveNew ==
  ASSUME Inv, NEW c \in Cells, NEW entry \in Entry, Save(c, entry), eval' = eval,
         ledger.entry[c].id = NoId, entry.id \in Ids \ Known, Exists(entry.id), eval[entry.id].cell = c,
         entry.state = "submitted", Own(c) \subseteq Known \cup {entry.id}
  PROVE  LedgerInv' /\ Known' = Known \cup {entry.id}
<1>1. /\ ledger' \in [entry : [Cells -> Entry], past : SUBSET Ids, disowned : SUBSET Ids]
      /\ ledger'.past = ledger.past /\ ledger'.disowned = ledger.disowned
      /\ \A d \in Cells : ledger'.entry[d] = IF d = c THEN entry ELSE ledger.entry[d]
  BY SaveMoves
<1>2. ActiveIds' = ActiveIds \cup {entry.id} /\ Known' = Known \cup {entry.id}
  <2>1. entry.id # NoId
    BY Numbers
  <2> QED
    BY <1>1, <2>1 DEF ActiveIds, Known
<1>3. entry.id \notin ActiveIds /\ entry.id \notin ledger.past /\ entry.id \notin ledger.disowned
  BY DEF Known
<1>4. EntryInv'
  BY <1>1, Numbers DEF EntryInv, Inv, Exists
<1>5. KnownInv'
  <2>1. LedgerWellFormed'
    <3>1. \A d \in Cells : d # c => ledger'.entry[d] = ledger.entry[d] /\ ledger.entry[d].id # entry.id
      BY <1>1, <1>3, Numbers DEF ActiveIds
    <3>2. ledger'.entry[c] = entry
      BY <1>1
    <3> QED
      BY <1>1, <1>2, <1>3, <3>1, <3>2, Numbers DEF LedgerWellFormed, Inv, KnownInv
  <2> QED
    BY <2>1, <1>2 DEF KnownInv, Inv, Exists
<1>6. SubmissionNeverLost'
  <2> SUFFICES ASSUME NEW e \in Ids, Exists(e), eval[e].origin = "launcher", e \notin Known, e # entry.id
               PROVE  ledger'.entry[eval[e].cell].state = "submitting"
    BY <1>2 DEF SubmissionNeverLost, Exists
  <2>1. ledger.entry[eval[e].cell].state = "submitting" /\ eval[e].cell \in Cells
    BY EvalCells DEF Inv, SubmissionNeverLost
  <2>2. eval[e].cell # c
    BY DEF Own
  <2> QED
    BY <1>1, <2>1, <2>2
<1>7. SucceededStaysAccepted'
  <2> SUFFICES ASSUME NEW d \in Cells, ledger'.entry[d].state = "succeeded"
               PROVE  Accepted(d)'
    BY DEF SucceededStaysAccepted
  <2>1. Assess(d, ledger'.entry[d])
    BY <1>1 DEF Inv, SucceededStaysAccepted, Accepted
  <2> QED
    BY <2>1 DEF Accepted, Assess, CellCheckOk, Overlapping, Tainted, ResumeProblems, Rehearsal
<1> QED
  BY <1>1, <1>2, <1>4, <1>5, <1>6, <1>7 DEF LedgerInv

\* Nothing is between a resume that was executed and its answer.
Credible(entry) ==
  entry.id # NoId => /\ entry.resumes <= eval[entry.id].resumed
                     /\ ~entry.guessed => entry.resumes + eval[entry.id].outside <= eval[entry.id].resumed

\* What an entry has been credited with was executed.
LEMMA CreditedNow ==
  ASSUME Inv, NEW c \in Cells
  PROVE  Credible(ledger.entry[c])
<1>1. ASSUME ledger.entry[c].id # NoId PROVE Credible(ledger.entry[c])
  <2>1. /\ ledger.entry[c].resumes \in Nat /\ eval[ledger.entry[c].id].resumed \in Nat
        /\ eval[ledger.entry[c].id].outside \in Nat
    BY <1>1, EntryFields, EvalFields
  <2>2. Answered(c) \in Nat
    BY DEF Answered
  <2>3. /\ ledger.entry[c].resumes + Answered(c) <= eval[ledger.entry[c].id].resumed
        /\ ~ledger.entry[c].guessed =>
             ledger.entry[c].resumes + Answered(c) + eval[ledger.entry[c].id].outside <= eval[ledger.entry[c].id].resumed
    BY <1>1 DEF Inv, ResumeInv
  <2> QED
    BY <2>1, <2>2, <2>3 DEF Credible
<1> QED
  BY <1>1 DEF Credible

\* The credits stay true when a step does not move the evaluations.
LEMMA ResumeStays ==
  ASSUME Inv, eval' = eval, launch'.step # "resumed", ledger'.entry \in [Cells -> Entry],
         \A c \in Cells : Credible(ledger'.entry[c])
  PROVE  ResumeInv'
<1>1. \A c \in Cells : Answered(c)' = 0
  BY DEF Answered, At
<1>2. ASSUME NEW c \in Cells, ledger'.entry[c].id # NoId
      PROVE  LET entry == ledger'.entry[c] IN
             /\ entry.resumes + 0 <= eval[entry.id].resumed
             /\ ~entry.guessed => entry.resumes + 0 + eval[entry.id].outside <= eval[entry.id].resumed
  <2>1. ledger'.entry[c].resumes \in 0..MaxResumes
    BY DEF Entry
  <2>2. ledger'.entry[c].resumes + 0 = ledger'.entry[c].resumes
    BY <2>1, Numbers
  <2> QED
    BY <1>2, <2>2 DEF Credible
<1> QED
  BY <1>1, <1>2 DEF ResumeInv, Inv
----------------------------------------------------------------------------

\* The order of the cells as a relation.
LEMMA NotLess ==
  ASSUME NEW c \in Nat, NEW d \in Nat, ~(<<d, c>> \in OpToRel(<, Nat))
  PROVE  ~(d < c)
  BY DEF OpToRel
LEMMA NotLessAtMost == \A c, d \in Nat : ~(d < c) => c <= d
  OBVIOUS
LEMMA AtMostLess == \A c, d \in Nat : d <= c /\ c # d => c > d
  OBVIOUS

\* The least of some cells.
LEMMA FirstIsLeast ==
  ASSUME NEW S \in SUBSET Cells, S # {}
  PROVE  First(S) \in S /\ \A d \in S : First(S) <= d
<1>1. \E c \in S : \A d \in S : ~(<<d, c>> \in OpToRel(<, Nat))
  <2>1. IsWellFoundedOn(OpToRel(<, Nat), Nat) /\ S \subseteq Nat
    BY NatLessThanWellFounded, Numbers
  <2> QED
    BY <2>1, WFMin
<1>2. PICK c \in S : \A d \in S : ~(<<d, c>> \in OpToRel(<, Nat))
  BY <1>1
<1>3. \A d \in S : ~(d < c)
  BY <1>2, NotLess, Numbers
<1>4. c \in S /\ \A d \in S : c <= d
  BY <1>3, NotLessAtMost, Numbers
<1>5. \E m \in S : \A d \in S : m <= d
  BY <1>4
<1> QED
  BY <1>5 DEF First
----------------------------------------------------------------------------

\* An evaluation the launcher created is known once its cell is not submitting.
LEMMA OwnKnown ==
  ASSUME Inv, NEW c \in Cells, ledger.entry[c].state # "submitting"
  PROVE  Own(c) \subseteq Known
  BY DEF Own, Inv, SubmissionNeverLost

\* Own evaluations carry the name of the cell.
LEMMA OwnNamed ==
  ASSUME NEW c \in Cells
  PROVE  Own(c) \subseteq Known \cup Untracked(c)
  BY DEF Own, Untracked, Named

\* The parts of a step that moves no evaluation.
LEMMA StepOk ==
  ASSUME Inv, UNCHANGED <<eval, world>>, LedgerInv', \A c \in Cells : Credible(ledger'.entry[c]),
         launch' \in LaunchRecord, launch'.step # "resumed", late' \subseteq Request, StepInv', DrainInv'
  PROVE  Inv'
<1>1. ResumeInv'
  BY ResumeStays DEF LedgerInv
<1>2. Types'
  BY DEF Types, LedgerInv, Inv
<1> QED
  BY <1>1, <1>2 DEF Inv, LedgerInv

\* The ledger is not touched.
LEMMA LedgerSame ==
  ASSUME Inv, UNCHANGED <<eval, ledger>>
  PROVE  LedgerInv' /\ Known' = Known /\ InFlight' = InFlight /\ \A c \in Cells : Credible(ledger'.entry[c])
<1>1. \A c \in Cells : Credible(ledger'.entry[c])
  BY CreditedNow
<1>2. Known' = Known /\ ActiveIds' = ActiveIds /\ InFlight' = InFlight
  BY DEF Known, ActiveIds, InFlight
<1>3. EntryInv' /\ KnownInv' /\ SubmissionNeverLost'
  BY <1>2 DEF Inv, EntryInv, KnownInv, LedgerWellFormed, SubmissionNeverLost, Exists
<1>4. SucceededStaysAccepted'
  <2> SUFFICES ASSUME NEW c \in Cells, ledger.entry[c].state = "succeeded"
               PROVE  Accepted(c)'
    BY DEF SucceededStaysAccepted
  <2> QED
    BY DEF Inv, SucceededStaysAccepted, Accepted, Assess, CellCheckOk, Overlapping, Tainted, ResumeProblems, Rehearsal
<1>5. ledger' \in [entry : [Cells -> Entry], past : SUBSET Ids, disowned : SUBSET Ids]
  BY DEF Inv, Types
<1> QED
  BY <1>1, <1>2, <1>3, <1>4, <1>5 DEF LedgerInv

\* One entry is saved.
LEMMA Saved ==
  ASSUME Inv, NEW c \in Cells, NEW entry \in Entry, Save(c, entry), Credible(entry)
  PROVE  /\ \A d \in Cells : Credible(ledger'.entry[d])
         /\ InFlight' = IF entry.state \in {"submitting", "submitted"} THEN InFlight \cup {c} ELSE InFlight \ {c}
         /\ ledger'.entry[c] = entry
<1>1. \A d \in Cells : ledger'.entry[d] = IF d = c THEN entry ELSE ledger.entry[d]
  BY SaveMoves
<1>2. \A d \in Cells : Credible(ledger'.entry[d])
  BY <1>1, CreditedNow
<1> QED
  BY <1>1, <1>2 DEF InFlight

\* The process ends.
LEMMA HaltOk ==
  ASSUME Inv, Halt
  PROVE  launch' \in LaunchRecord /\ launch'.step # "resumed" /\ StepInv' /\ DrainInv'
<1>1. launch'.step = "off" /\ launch' \in LaunchRecord
  BY Numbers DEF Halt, Off, LaunchRecord, Step, Status, NoId
<1>2. ~At("drain")' /\ ~At("posting")' /\ ~At("posted")' /\ ~At("wait")' /\ ~At("reject")' /\ ~At("resuming")' /\ At("off")'
  BY <1>1 DEF At
<1>3. StepInv'
  BY <1>1, <1>2 DEF StepInv
<1>4. DrainInv'
  BY <1>2 DEF DrainInv
<1> QED
  BY <1>1, <1>3, <1>4

\* The process is where it says it is.
LEMMA LaunchFields ==
  ASSUME Inv
  PROVE  /\ launch \in LaunchRecord /\ launch.step \in Step /\ launch.plan \subseteq Cells
         /\ launch.seen \in Status /\ launch.draining \in BOOLEAN /\ launch.id \in Ids \cup {NoId}
         /\ ~At("off") => Here \in Cells /\ Mine = ledger.entry[Here]
<1>1. launch \in LaunchRecord
  BY DEF Inv, Types
<1>2. ~At("off") => Here \in Cells /\ Mine = ledger.entry[Here]
  BY DEF Inv, StepInv, Mine
<1> QED
  BY <1>1, <1>2 DEF LaunchRecord

\* The process goes on with its cell.
LEMMA GoFields ==
  ASSUME Inv, NEW step \in Step, Go(step)
  PROVE  /\ launch' \in LaunchRecord /\ launch'.step = step /\ launch'.cell = launch.cell
         /\ launch'.draining = launch.draining /\ launch'.plan = launch.plan /\ launch'.seen = launch.seen
         /\ launch'.id = launch.id
<1>1. launch \in LaunchRecord
  BY LaunchFields
<1> QED
  BY <1>1 DEF Go, LaunchRecord

\* The process comes to the next cell, when it has left nothing in flight.
LEMMA AdvanceOk ==
  ASSUME Inv, ~At("off"), Advance, InFlight' \subseteq InFlight \ {Here}
  PROVE  launch' \in LaunchRecord /\ launch'.step # "resumed" /\ StepInv' /\ DrainInv'
<1> DEFINE rest == After(Here)
           cells == IF launch.draining THEN rest ELSE rest \cap launch.plan
<1>1. /\ launch \in LaunchRecord /\ launch.plan \subseteq Cells /\ launch.draining \in BOOLEAN /\ Here \in Cells
      /\ launch.draining => launch.plan # {}
  BY LaunchFields DEF Inv, StepInv
<1>2. cells \subseteq Cells /\ rest \subseteq Cells
  BY DEF After
<1>3. InFlight \subseteq Cells
  BY DEF InFlight
<1>4. \A c \in InFlight' : c \in Cells /\ c # Here /\ c \in InFlight
  BY <1>3
<1>5. launch.draining => \A c \in InFlight' : c \in rest
  <2> SUFFICES ASSUME launch.draining, NEW c \in InFlight' PROVE c > Here
    BY <1>4 DEF After
  <2>1. Here <= c
    BY <1>4 DEF Inv, DrainInv
  <2>2. c \in Nat /\ Here \in Nat /\ c # Here
    BY <1>1, <1>4, Numbers
  <2> QED
    BY <2>1, <2>2, AtMostLess
<1>6. ~launch.draining => InFlight' = {}
  BY <1>4 DEF Inv, DrainInv
<1> HIDE DEF rest
<1>7. CASE cells # {}
  <2> DEFINE first == First(cells)
  <2>1. first \in cells /\ \A d \in cells : first <= d
    BY <1>2, <1>7, FirstIsLeast
  <2> HIDE DEF first
  <2>2. launch' = [launch EXCEPT !.step = IF launch.draining THEN "drain" ELSE "plan", !.cell = first, !.seen = "absent"]
    BY <1>7 DEF Advance, Visit, rest, first
  <2>3. first \in Cells
    BY <1>2, <2>1
  <2> HIDE DEF cells
  <2>4. /\ launch' \in LaunchRecord /\ launch'.cell = first /\ launch'.draining = launch.draining
        /\ launch'.plan = launch.plan
    BY <1>1, <2>2, <2>3 DEF LaunchRecord, Step, Status
  <2>5. launch'.step = IF launch.draining THEN "drain" ELSE "plan"
    BY <1>1, <2>2 DEF LaunchRecord
  <2>6. StepInv'
    BY <1>1, <2>3, <2>4, <2>5 DEF StepInv, At, Here
  <2>7. DrainInv'
    BY <1>5, <1>6, <2>1, <2>4, <2>5 DEF DrainInv, At, Here, cells
  <2> QED
    BY <2>4, <2>5, <2>6, <2>7
<1>8. CASE cells = {} /\ launch.draining
  <2> DEFINE first == First(launch.plan)
  <2>1. first \in launch.plan
    BY <1>1, <1>8, FirstIsLeast
  <2> HIDE DEF first
  <2>2. launch' = [launch EXCEPT !.step = "plan", !.cell = first, !.seen = "absent", !.draining = FALSE]
    BY <1>8 DEF Advance, Visit, rest, first
  <2>3. /\ launch' \in LaunchRecord /\ launch'.cell = first /\ launch'.draining = FALSE /\ launch'.step = "plan"
        /\ first \in Cells
    BY <1>1, <2>1, <2>2 DEF LaunchRecord, Step, Status
  <2>4. InFlight' = {}
    BY <1>5, <1>8
  <2>5. StepInv'
    BY <2>3 DEF StepInv, At, Here
  <2>6. DrainInv'
    BY <2>3, <2>4 DEF DrainInv, At, Here
  <2> QED
    BY <2>3, <2>5, <2>6
<1>9. CASE cells = {} /\ ~launch.draining
  <2>1. Halt
    BY <1>9 DEF Advance, Visit, rest
  <2> QED
    BY <2>1, HaltOk
<1> QED
  BY <1>7, <1>8, <1>9
----------------------------------------------------------------------------

\* A launch.
LEMMA LaunchInv ==
  ASSUME Inv, NEW plan \in Phases, NEW option \in Options, Launch(plan, option)
  PROVE  Inv'
<1> DEFINE first == First(Cells)
<1>1. plan \subseteq Cells /\ plan # {} /\ Cells # {}
  BY LauncherAssumption
<1>2. first \in Cells /\ \A d \in Cells : first <= d
  BY <1>1, FirstIsLeast
<1> HIDE DEF first
<1>3. launch' = [Off EXCEPT !.step = "drain", !.cell = first, !.plan = plan, !.option = option, !.draining = TRUE]
  BY DEF Launch, first
<1>4. /\ launch'.step = "drain" /\ launch'.cell = first /\ launch'.plan = plan /\ launch'.draining = TRUE
      /\ launch' \in LaunchRecord
  BY <1>1, <1>2, <1>3 DEF Off, LaunchRecord, Step, Status
<1>5. UNCHANGED <<eval, world, ledger, late>>
  BY DEF Launch
<1>6. LedgerInv' /\ InFlight' = InFlight /\ \A c \in Cells : Credible(ledger'.entry[c])
  BY <1>5, LedgerSame
<1>7. StepInv'
  BY <1>1, <1>2, <1>4 DEF StepInv, At, Here
<1>8. DrainInv'
  <2>1. InFlight \subseteq Cells
    BY DEF InFlight
  <2> QED
    BY <1>2, <1>4, <1>6, <2>1 DEF DrainInv, At, Here
<1>9. late' \subseteq Request
  BY <1>5 DEF Inv, Types
<1> QED
  BY <1>4, <1>5, <1>6, <1>7, <1>8, <1>9, StepOk

\* A cell is emptied.
LEMMA EmptyOk ==
  /\ NoEntry \in Entry /\ Coherent(NoEntry) /\ Credible(NoEntry)
  /\ NoEntry.id = NoId /\ NoEntry.state = "none" /\ NoEntry.resumes = 0
  BY Numbers DEF NoEntry, Entry, Coherent, Credible, EntryState, NoSnapshot, Status, Supersedable

\* An entry that has an evaluation can be saved with another outcome.
LEMMA SaveOutcome ==
  ASSUME Inv, NEW c \in Cells, ledger.entry[c].id # NoId, NEW entry \in Entry,
         entry.id = ledger.entry[c].id, entry.state \notin {"none", "submitting", "succeeded"},
         Credible(entry), Save(c, entry), UNCHANGED eval
  PROVE  /\ LedgerInv' /\ Known' = Known /\ \A d \in Cells : Credible(ledger'.entry[d])
         /\ InFlight' = IF entry.state = "submitted" THEN InFlight \cup {c} ELSE InFlight \ {c}
         /\ ledger'.entry[c] = entry
<1>1. Coherent(entry)
  BY DEF Coherent
<1>2. ledger.entry[c].state # "submitting"
  BY EntryFields
<1>3. Own(c) \subseteq Known
  BY <1>2, OwnKnown
<1>4. LedgerInv' /\ Known' = Known
  BY <1>1, <1>3, SaveSame
<1>5. /\ \A d \in Cells : Credible(ledger'.entry[d])
      /\ InFlight' = IF entry.state \in {"submitting", "submitted"} THEN InFlight \cup {c} ELSE InFlight \ {c}
      /\ ledger'.entry[c] = entry
  BY Saved
<1> QED
  BY <1>4, <1>5

\* The evaluation of an entry has been adopted, or there is none.
LEMMA AdoptInv ==
  ASSUME Inv, Adopt
  PROVE  Inv'
<1>1. /\ Here \in Cells /\ Mine = ledger.entry[Here] /\ At("drain") /\ launch.draining /\ ~At("off")
      /\ Mine.state = "submitting" /\ Mine.id = NoId
  <2>1. At("drain") /\ Mine.state = "submitting" /\ ~At("off")
    BY DEF Adopt, At
  <2>2. Here \in Cells /\ Mine = ledger.entry[Here]
    BY <2>1, LaunchFields
  <2> QED
    BY <2>1, <2>2, EntryFields DEF Inv, StepInv
<1>2. UNCHANGED <<eval, world, late>> /\ late' \subseteq Request
  BY DEF Adopt, Inv, Types
<1>3. CASE Halt /\ UNCHANGED ledger
  <2>1. LedgerInv' /\ \A c \in Cells : Credible(ledger'.entry[c])
    BY <1>2, <1>3, LedgerSame
  <2> QED
    BY <1>2, <1>3, <2>1, HaltOk, StepOk
<1>4. CASE Created(Here) = {} /\ Save(Here, NoEntry) /\ Advance
  <2>1. Own(Here) \subseteq Known
    BY <1>1, <1>4, OwnNamed DEF Created
  <2>2. LedgerInv'
    BY <1>1, <1>2, <1>4, <2>1, EmptyOk, SaveSame
  <2>3. InFlight' = InFlight \ {Here} /\ \A c \in Cells : Credible(ledger'.entry[c])
    BY <1>1, <1>4, EmptyOk, Saved
  <2>4. launch' \in LaunchRecord /\ launch'.step # "resumed" /\ StepInv' /\ DrainInv'
    BY <1>1, <1>4, <2>3, AdvanceOk
  <2> QED
    BY <1>2, <2>2, <2>3, <2>4, StepOk
<1>5. ASSUME NEW e \in Ids, Created(Here) = {e},
             Save(Here, [Mine EXCEPT !.state = "submitted", !.id = e]), Go("settle")
      PROVE  Inv'
  <2> DEFINE entry == [Mine EXCEPT !.state = "submitted", !.id = e]
  <2>1. Mine \in Entry /\ Mine.resumes = 0
    BY <1>1, EntryFields
  <2>2. /\ entry \in Entry /\ entry.id = e /\ entry.state = "submitted" /\ entry.resumes = 0
    BY <2>1 DEF Entry, EntryState
  <2>3. Save(Here, entry)
    BY <1>5
  <2> HIDE DEF entry
  <2>4. e \in Ids \ Known /\ Exists(e) /\ eval[e].cell = Here /\ Own(Here) \subseteq Known \cup {e}
    BY <1>1, <1>5, OwnNamed DEF Created, Untracked, Named
  <2>5. LedgerInv'
    BY <1>1, <1>2, <2>2, <2>3, <2>4, SaveNew
  <2>6. Credible(entry)
    <3>1. eval[e].resumed \in Nat /\ eval[e].outside \in Nat /\ eval[e].outside <= eval[e].resumed
      BY EvalFields DEF Inv, ResumeInv
    <3> QED
      BY <2>2, <3>1 DEF Credible
  <2>7. /\ InFlight' = InFlight \cup {Here} /\ \A c \in Cells : Credible(ledger'.entry[c])
        /\ ledger'.entry[Here] = entry
    BY <1>1, <2>2, <2>3, <2>6, Saved
  <2>8. /\ launch' \in LaunchRecord /\ launch'.step = "settle" /\ launch'.cell = launch.cell
        /\ launch'.draining = launch.draining /\ launch'.plan = launch.plan
    BY <1>5, GoFields DEF Step
  <2>9. InFlight' = InFlight
    BY <1>1, <2>7 DEF InFlight
  <2>10. StepInv'
    BY <1>1, <2>2, <2>7, <2>8 DEF StepInv, Inv, At, Here, Mine
  <2>11. DrainInv'
    BY <1>1, <2>8, <2>9 DEF DrainInv, Inv, At, Here
  <2> QED
    BY <1>2, <2>5, <2>7, <2>8, <2>10, <2>11, StepOk
<1> QED
  BY <1>3, <1>4, <1>5 DEF Adopt

\* The drain passes a cell, or turns to its evaluation.
LEMMA DrainStepInv ==
  ASSUME Inv, Drain
  PROVE  Inv'
<1>1. At("drain") /\ ~At("off") /\ launch.draining /\ Mine.state # "submitting"
  BY DEF Drain, At, Inv, StepInv
<1>2. Here \in Cells /\ Mine = ledger.entry[Here]
  BY <1>1, LaunchFields
<1>3. UNCHANGED <<eval, world, ledger, late>> /\ late' \subseteq Request
  BY DEF Drain, Inv, Types
<1>4. LedgerInv' /\ InFlight' = InFlight /\ \A c \in Cells : Credible(ledger'.entry[c])
  BY <1>3, LedgerSame
<1>5. ASSUME NEW step \in {"settle", "wait"}, Go(step),
             Mine.state \in {"submitted", "failed", "canceled"}, step = "settle" => Mine.state = "submitted"
      PROVE  Inv'
  <2>1. /\ launch' \in LaunchRecord /\ launch'.step = step /\ launch'.cell = launch.cell
        /\ launch'.draining = launch.draining /\ launch'.plan = launch.plan
    BY <1>5, GoFields DEF Step
  <2>2. StepInv'
    BY <1>1, <1>2, <1>3, <1>5, <2>1 DEF StepInv, Inv, At, Here, Mine
  <2>3. DrainInv'
    BY <1>1, <1>4, <1>5, <2>1 DEF DrainInv, Inv, At, Here
  <2> QED
    BY <1>3, <1>4, <1>5, <2>1, <2>2, <2>3, StepOk
<1>6. CASE Advance /\ Mine.state # "submitted"
  <2>1. Here \notin InFlight
    BY <1>1, <1>2, <1>6 DEF InFlight
  <2>2. launch' \in LaunchRecord /\ launch'.step # "resumed" /\ StepInv' /\ DrainInv'
    BY <1>1, <1>4, <1>6, <2>1, AdvanceOk
  <2> QED
    BY <1>3, <1>4, <2>2, StepOk
<1> QED
  BY <1>5, <1>6 DEF Drain

\* A request without outcome is settled.
LEMMA SettleInv ==
  ASSUME Inv, SettleResumes
  PROVE  Inv'
<1>1. At("settle") /\ ~At("off") /\ Mine.state = "submitted"
  BY DEF SettleResumes, At, Inv, StepInv
<1>2. Here \in Cells /\ Mine = ledger.entry[Here]
  BY <1>1, LaunchFields
<1>3. UNCHANGED <<eval, world, late>> /\ late' \subseteq Request
  BY DEF SettleResumes, Inv, Types
<1>4. /\ launch' \in LaunchRecord /\ launch'.step = "wait" /\ launch'.cell = launch.cell
      /\ launch'.draining = launch.draining /\ launch'.plan = launch.plan
  BY GoFields DEF SettleResumes, Step
<1>5. SUFFICES ASSUME LedgerInv', InFlight' = InFlight, \A c \in Cells : Credible(ledger'.entry[c]),
                      ledger'.entry[Here].state = "submitted"
               PROVE  Inv'
  <2>1. CASE UNCHANGED ledger
    BY <1>1, <1>2, <1>3, <1>5, <2>1, LedgerSame
  <2>2. ASSUME NEW matched \in BOOLEAN, matched => eval[Mine.id].resumed > Mine.resumes,
               Save(Here, IF matched THEN [Credited(Mine) EXCEPT !.guessed = TRUE] ELSE Discarded(Mine))
        PROVE  Inv'
    <3> DEFINE entry == IF matched THEN [Credited(Mine) EXCEPT !.guessed = TRUE] ELSE Discarded(Mine)
    <3>1. /\ Mine \in Entry /\ Mine.id \in Ids /\ Mine.id # NoId /\ Mine.official \in BOOLEAN
          /\ Mine.resumes \in 0..MaxResumes /\ Credible(Mine)
      BY <1>1, <1>2, EntryFields, CreditedNow
    <3>2. eval[Mine.id].resumed \in 0..MaxResumes
      BY <3>1, EvalFields
    <3>3. /\ entry \in Entry /\ entry.id = Mine.id /\ entry.state = "submitted" /\ Credible(entry)
      <4>1. CASE matched
        <5> DEFINE sure == Mine.official /\ Mine.unsettled = "official"
                   more == Mine.resumes + 1
        <5>1. more \in 0..MaxResumes /\ more <= eval[Mine.id].resumed
          BY <2>2, <3>1, <3>2, <4>1, Numbers
        <5>2. sure \in BOOLEAN
          OBVIOUS
        <5>3. entry = [Mine EXCEPT !.resumes = more, !.unsettled = "none", !.official = sure, !.guessed = TRUE]
          BY <3>1, <4>1 DEF Credited, Entry
        <5> HIDE DEF sure, more, entry
        <5>4. entry \in Entry /\ entry.id = Mine.id /\ entry.state = Mine.state /\ entry.guessed = TRUE /\ entry.resumes = more
          BY <3>1, <5>1, <5>2, <5>3 DEF Entry
        <5> QED
          BY <1>1, <5>1, <5>4 DEF Credible
      <4>2. CASE ~matched
        <5>1. entry = [Mine EXCEPT !.unsettled = "none"]
          BY <4>2 DEF Discarded
        <5> HIDE DEF entry
        <5>2. /\ entry \in Entry /\ entry.id = Mine.id /\ entry.state = Mine.state /\ entry.guessed = Mine.guessed
              /\ entry.resumes = Mine.resumes
          BY <3>1, <5>1 DEF Entry
        <5> QED
          BY <1>1, <3>1, <5>2 DEF Credible
      <4> QED
        BY <4>1, <4>2
    <3> HIDE DEF entry
    <3>4. Save(Here, entry)
      BY <2>2 DEF entry
    <3>5. /\ LedgerInv' /\ \A d \in Cells : Credible(ledger'.entry[d])
          /\ InFlight' = InFlight \cup {Here} /\ ledger'.entry[Here] = entry
      BY <1>2, <1>3, <3>1, <3>3, <3>4, SaveOutcome
    <3>6. InFlight' = InFlight
      BY <1>1, <1>2, <3>5 DEF InFlight
    <3> QED
      BY <1>5, <3>3, <3>5, <3>6
  <2> QED
    BY <2>1, <2>2 DEF SettleResumes
<1>6. StepInv'
  BY <1>1, <1>2, <1>4, <1>5 DEF StepInv, Inv, At, Here, Mine
<1>7. DrainInv'
  BY <1>1, <1>4, <1>5 DEF DrainInv, Inv, At, Here
<1> QED
  BY <1>3, <1>4, <1>5, <1>6, <1>7, StepOk

\* A cell of the plan is passed, ends the launch, or is submitted.
LEMMA PlanInv ==
  ASSUME Inv, Plan
  PROVE  Inv'
<1>1. At("plan") /\ ~At("off") /\ ~launch.draining /\ InFlight = {}
  BY DEF Plan, At, Inv, StepInv, DrainInv
<1>2. Here \in Cells /\ Mine = ledger.entry[Here]
  BY <1>1, LaunchFields
<1>3. UNCHANGED <<eval, world, late>> /\ late' \subseteq Request
  BY DEF Plan, Inv, Types
<1>4. CASE UNCHANGED ledger /\ (Advance \/ Halt)
  <2>1. LedgerInv' /\ InFlight' = InFlight /\ \A c \in Cells : Credible(ledger'.entry[c])
    BY <1>3, <1>4, LedgerSame
  <2>2. launch' \in LaunchRecord /\ launch'.step # "resumed" /\ StepInv' /\ DrainInv'
    BY <1>1, <1>4, <2>1, AdvanceOk, HaltOk
  <2> QED
    BY <1>3, <2>1, <2>2, StepOk
<1>5. CASE Mine.state = "none" /\ AppIsFree /\ Save(Here, NewEntry(Official)) /\ Go("posting")
  <2> DEFINE sure == Official
             entry == [NoEntry EXCEPT !.state = "submitting", !.official = sure]
  <2>1. sure \in BOOLEAN
    BY DEF Official
  <2>2. Save(Here, entry)
    BY <1>5 DEF NewEntry
  <2> HIDE DEF sure
  <2>3. /\ entry \in Entry /\ entry.id = NoId /\ entry.state = "submitting" /\ entry.resumes = 0
    BY <2>1, EmptyOk DEF Entry, EntryState, NoEntry
  <2> HIDE DEF entry
  <2>4. Coherent(entry) /\ Credible(entry)
    BY <2>3 DEF Coherent, Credible
  <2>5. Mine.id = NoId
    BY <1>2, <1>5, EntryFields
  <2>6. LedgerInv' /\ Known' = Known
    BY <1>2, <1>3, <2>2, <2>3, <2>4, <2>5, SaveSame
  <2>7. /\ \A d \in Cells : Credible(ledger'.entry[d])
        /\ InFlight' = InFlight \cup {Here} /\ ledger'.entry[Here] = entry
    BY <1>2, <2>2, <2>3, <2>4, Saved
  <2>8. Own(Here) \subseteq Known
    <3>1. Untracked(Here) = {}
      BY <1>2, <1>5 DEF AppIsFree, NoUntracked
    <3> QED
      BY <1>2, <3>1, OwnNamed
  <2>9. /\ launch' \in LaunchRecord /\ launch'.step = "posting" /\ launch'.cell = launch.cell
        /\ launch'.draining = launch.draining /\ launch'.plan = launch.plan
    BY <1>5, GoFields DEF Step
  <2>10. Own(Here)' = Own(Here)
    BY <1>3, <2>9 DEF Own, Exists, Here
  <2>11. StepInv'
    BY <1>1, <1>2, <2>3, <2>6, <2>7, <2>8, <2>9, <2>10 DEF StepInv, At, Here, Mine
  <2>12. DrainInv'
    BY <1>1, <2>7, <2>9 DEF DrainInv, At, Here
  <2> QED
    BY <1>3, <2>6, <2>7, <2>9, <2>11, <2>12, StepOk
<1> QED
  BY <1>4, <1>5 DEF Plan

\* A cell is emptied and the process ends.
LEMMA CreateRefusedInv ==
  ASSUME Inv, CreateRefused
  PROVE  Inv'
<1>1. At("posting") /\ ~At("off") /\ Mine.state = "submitting" /\ Own(Here) \subseteq Known
  BY DEF CreateRefused, At, Inv, StepInv
<1>2. Here \in Cells /\ Mine = ledger.entry[Here]
  BY <1>1, LaunchFields
<1>3. UNCHANGED <<eval, world, late>> /\ late' \subseteq Request /\ Save(Here, NoEntry) /\ Halt
  BY DEF CreateRefused, Settled, Inv, Types
<1>4. Mine.id = NoId
  BY <1>1, <1>2, EntryFields
<1>5. LedgerInv'
  BY <1>1, <1>2, <1>3, <1>4, EmptyOk, SaveSame
<1>6. \A d \in Cells : Credible(ledger'.entry[d])
  BY <1>2, <1>3, EmptyOk, Saved
<1> QED
  BY <1>3, <1>5, <1>6, HaltOk, StepOk

\* The entry comes to own the evaluation that was created for it.
LEMMA CreateAnsweredInv ==
  ASSUME Inv, CreateAnswered
  PROVE  Inv'
<1>1. /\ At("posted") /\ ~At("off") /\ Mine.state = "submitting" /\ ~launch.draining
      /\ launch.id \in Ids \ Known /\ Exists(launch.id) /\ eval[launch.id].cell = Here
      /\ Own(Here) \subseteq Known \cup {launch.id}
  BY DEF CreateAnswered, At, Inv, StepInv
<1>2. Here \in Cells /\ Mine = ledger.entry[Here] /\ launch \in LaunchRecord
  BY <1>1, LaunchFields
<1>3. UNCHANGED <<eval, world, late>> /\ late' \subseteq Request
  BY DEF CreateAnswered, Inv, Types
<1> DEFINE entry == [Mine EXCEPT !.state = "submitted", !.id = launch.id]
<1>4. Mine \in Entry /\ Mine.resumes = 0 /\ Mine.id = NoId
  BY <1>1, <1>2, EntryFields
<1>5. /\ entry \in Entry /\ entry.id = launch.id /\ entry.state = "submitted" /\ entry.resumes = 0
  BY <1>1, <1>4 DEF Entry, EntryState
<1>6. Save(Here, entry)
  BY DEF CreateAnswered
<1> HIDE DEF entry
<1>7. LedgerInv'
  BY <1>1, <1>2, <1>3, <1>4, <1>5, <1>6, SaveNew
<1>8. Credible(entry)
  <2>1. eval[launch.id].resumed \in Nat /\ eval[launch.id].outside \in Nat /\ eval[launch.id].outside <= eval[launch.id].resumed
    BY <1>1, EvalFields DEF Inv, ResumeInv
  <2> QED
    BY <1>5, <2>1 DEF Credible
<1>9. /\ InFlight' = InFlight \cup {Here} /\ \A c \in Cells : Credible(ledger'.entry[c])
      /\ ledger'.entry[Here] = entry
  BY <1>2, <1>5, <1>6, <1>8, Saved
<1>10. launch' = [launch EXCEPT !.step = "wait", !.id = NoId]
  BY DEF CreateAnswered
<1>11. /\ launch' \in LaunchRecord /\ launch'.step = "wait" /\ launch'.cell = launch.cell
       /\ launch'.draining = launch.draining /\ launch'.plan = launch.plan
  BY <1>2, <1>10 DEF LaunchRecord, Step
<1>12. StepInv'
  BY <1>1, <1>2, <1>5, <1>9, <1>11 DEF StepInv, At, Here, Mine
<1>13. DrainInv'
  BY <1>1, <1>9, <1>11 DEF DrainInv, Inv, At, Here
<1> QED
  BY <1>3, <1>7, <1>9, <1>11, <1>12, <1>13, StepOk

\* The entry of an evaluation gets its outcome and the process ends.
LEMMA SettledInv ==
  ASSUME Inv, ~At("off"), NEW entry \in Entry, Settled(entry), UNCHANGED <<eval, world, late>>,
         Mine.id # NoId, entry.id = Mine.id, Credible(entry),
         entry.state \notin {"none", "submitting", "succeeded"}
  PROVE  Inv'
<1>1. Here \in Cells /\ Mine = ledger.entry[Here]
  BY LaunchFields
<1>2. Save(Here, entry) /\ Halt /\ late' \subseteq Request
  BY DEF Settled, Inv, Types
<1>3. LedgerInv' /\ \A d \in Cells : Credible(ledger'.entry[d])
  BY <1>1, <1>2, SaveOutcome
<1> QED
  BY <1>2, <1>3, HaltOk, StepOk

\* The entry of the evaluation the process is at.
LEMMA MineFields ==
  ASSUME Inv, ~At("off"), Mine.state \notin {"none", "submitting"}
  PROVE  /\ Here \in Cells /\ Mine = ledger.entry[Here] /\ Mine \in Entry /\ Mine.id \in Ids /\ Mine.id # NoId
         /\ Mine.official \in BOOLEAN /\ Mine.resumes \in 0..MaxResumes /\ Credible(Mine)
         /\ Mine.violation \subseteq {"identity", "concurrency"}
         /\ eval[Mine.id].resumed \in 0..MaxResumes /\ eval[Mine.id].status \in Status
<1>1. Here \in Cells /\ Mine = ledger.entry[Here]
  BY LaunchFields
<1>2. /\ Mine \in Entry /\ Mine.id \in Ids /\ Mine.id # NoId
      /\ Mine.official \in BOOLEAN /\ Mine.resumes \in 0..MaxResumes /\ Credible(Mine)
      /\ Mine.violation \subseteq {"identity", "concurrency"}
  BY <1>1, EntryFields, CreditedNow
<1> QED
  BY <1>1, <1>2, EvalFields

\* The answer to a resume.
LEMMA ResumeRefusedInv ==
  ASSUME Inv, ResumeRefused
  PROVE  Inv'
<1>1. At("resuming") /\ ~At("off") /\ Mine.state = "submitted" /\ launch.seen \in {"failed", "canceled"}
  BY DEF ResumeRefused, At, Inv, StepInv
<1>2. /\ Mine \in Entry /\ Mine.id # NoId /\ Credible(Mine)
  BY <1>1, MineFields
<1> DEFINE entry == [Mine EXCEPT !.unsettled = "none", !.state = launch.seen]
<1>3. Settled(entry) /\ UNCHANGED <<eval, world, late>>
  BY DEF ResumeRefused, Discarded
<1>4. /\ entry \in Entry /\ entry.id = Mine.id /\ entry.state = launch.seen /\ entry.resumes = Mine.resumes
      /\ entry.guessed = Mine.guessed
  BY <1>1, <1>2 DEF Entry, EntryState, Supersedable
<1> HIDE DEF entry
<1>5. Credible(entry)
  BY <1>2, <1>4 DEF Credible
<1> QED
  BY <1>1, <1>2, <1>3, <1>4, <1>5, SettledInv

LEMMA ResumeAnsweredInv ==
  ASSUME Inv, ResumeAnswered
  PROVE  Inv'
<1>1. At("resumed") /\ ~At("off") /\ Mine.state = "submitted"
  BY DEF ResumeAnswered, At, Inv, StepInv
<1>2. /\ Mine \in Entry /\ Mine.id # NoId /\ Mine.id \in Ids /\ Mine.resumes \in 0..MaxResumes
      /\ eval[Mine.id].resumed \in 0..MaxResumes /\ Here \in Cells /\ Mine = ledger.entry[Here]
  BY <1>1, MineFields
<1> DEFINE sure == Mine.official /\ Mine.unsettled = "official"
           more == Mine.resumes + 1
           entry == [Mine EXCEPT !.resumes = more, !.unsettled = "none", !.official = sure]
<1>3. Settled(entry) /\ UNCHANGED <<eval, world, late>>
  <2>1. Mine.resumes + 1 = more /\ Mine.official \in BOOLEAN
    BY <1>1, MineFields
  <2> QED
    BY <1>2, <2>1 DEF ResumeAnswered, Credited, Entry
<1>4. /\ Mine.resumes + Answered(Here) <= eval[Mine.id].resumed
      /\ ~Mine.guessed => Mine.resumes + Answered(Here) + eval[Mine.id].outside <= eval[Mine.id].resumed
  BY <1>2 DEF Inv, ResumeInv
<1>5. Answered(Here) = 1
  BY <1>1 DEF Answered
<1>6. /\ more <= eval[Mine.id].resumed /\ more \in Nat
      /\ ~Mine.guessed => more + eval[Mine.id].outside <= eval[Mine.id].resumed
  BY <1>2, <1>4, <1>5, Numbers
<1>7. more \in 0..MaxResumes
  BY <1>2, <1>6, Numbers
<1>8. sure \in BOOLEAN
  OBVIOUS
<1> HIDE DEF sure, more
<1>9. /\ entry \in Entry /\ entry.id = Mine.id /\ entry.state = Mine.state /\ entry.resumes = more
      /\ entry.guessed = Mine.guessed
  BY <1>2, <1>7, <1>8 DEF Entry
<1> HIDE DEF entry
<1>10. Credible(entry)
  BY <1>6, <1>9 DEF Credible
<1> QED
  BY <1>1, <1>2, <1>3, <1>9, <1>10, SettledInv

\* What was waited for has ended.
LEMMA WaitEndsInv ==
  ASSUME Inv, WaitEnds
  PROVE  Inv'
<1>1. At("wait") /\ ~At("off") /\ Mine.state \in {"submitted", "failed", "canceled"}
  BY DEF WaitEnds, At, Inv, StepInv
<1>2. Mine.id \in Ids /\ eval[Mine.id].status \in Status /\ Here \in Cells /\ Mine = ledger.entry[Here]
  BY <1>1, MineFields
<1>3. UNCHANGED <<eval, world, ledger, late>> /\ late' \subseteq Request
  BY DEF WaitEnds, Inv, Types
<1>4. LedgerInv' /\ InFlight' = InFlight /\ \A c \in Cells : Credible(ledger'.entry[c])
  BY <1>3, LedgerSame
<1> DEFINE step == IF Mine.state = "submitted" THEN "finalize" ELSE "reject"
           seen == eval[Mine.id].status
<1>5. launch' = [launch EXCEPT !.step = step, !.seen = seen]
  BY DEF WaitEnds
<1>6. step \in Step /\ seen \in Status
  BY <1>2 DEF Step
<1> HIDE DEF seen, step
<1>7. /\ launch' \in LaunchRecord /\ launch'.step = step /\ launch'.cell = launch.cell
      /\ launch'.draining = launch.draining /\ launch'.plan = launch.plan
  BY <1>5, <1>6, LaunchFields DEF LaunchRecord
<1>8. StepInv'
  BY <1>1, <1>2, <1>3, <1>7 DEF StepInv, Inv, At, Here, Mine, step
<1>9. DrainInv'
  BY <1>1, <1>4, <1>7 DEF DrainInv, Inv, At, Here, step
<1>10. launch'.step # "resumed"
  BY <1>7 DEF step
<1> QED
  BY <1>3, <1>4, <1>7, <1>8, <1>9, <1>10, StepOk

\* A violation is recorded while waiting.
LEMMA WatchInv ==
  ASSUME Inv, Watch
  PROVE  Inv'
<1>1. At("wait") /\ ~At("off") /\ Mine.state \in {"submitted", "failed", "canceled"}
  BY DEF Watch, At, Inv, StepInv
<1>2. /\ Mine \in Entry /\ Mine.id # NoId /\ Credible(Mine) /\ Here \in Cells /\ Mine = ledger.entry[Here]
      /\ Mine.violation \subseteq {"identity", "concurrency"}
  BY <1>1, MineFields
<1>3. UNCHANGED <<eval, world, launch, late>> /\ late' \subseteq Request
  BY DEF Watch, Inv, Types
<1>4. PICK seen \in SUBSET {"identity", "concurrency"} : Save(Here, [Mine EXCEPT !.violation = Mine.violation \cup seen])
  BY DEF Watch
<1> DEFINE all == Mine.violation \cup seen
           entry == [Mine EXCEPT !.violation = all]
<1>5. all \subseteq {"identity", "concurrency"}
  BY <1>2
<1> HIDE DEF all
<1>6. /\ entry \in Entry /\ entry.id = Mine.id /\ entry.state = Mine.state /\ entry.resumes = Mine.resumes
      /\ entry.guessed = Mine.guessed
  BY <1>2, <1>5 DEF Entry
<1>7. Save(Here, entry)
  BY <1>4 DEF all
<1> HIDE DEF entry
<1>8. Credible(entry)
  BY <1>2, <1>6 DEF Credible
<1>9. /\ LedgerInv' /\ \A d \in Cells : Credible(ledger'.entry[d]) /\ ledger'.entry[Here] = entry
      /\ InFlight' = IF entry.state = "submitted" THEN InFlight \cup {Here} ELSE InFlight \ {Here}
  BY <1>1, <1>2, <1>3, <1>6, <1>7, <1>8, SaveOutcome
<1>10. InFlight' = InFlight
  BY <1>1, <1>2, <1>6, <1>9 DEF InFlight
<1>11. launch' \in LaunchRecord /\ launch'.step = "wait" /\ launch'.cell = launch.cell /\ launch'.draining = launch.draining
  BY <1>1, <1>3, LaunchFields DEF At
<1>12. StepInv'
  BY <1>1, <1>2, <1>3, <1>6, <1>9, <1>11 DEF StepInv, Inv, At, Here, Mine
<1>13. DrainInv'
  BY <1>1, <1>3, <1>10, <1>11 DEF DrainInv, Inv, At, Here
<1> QED
  BY <1>3, <1>9, <1>11, <1>12, <1>13, StepOk

\* The entry keeps everything but its outcome.
LEMMA OutcomeInv ==
  ASSUME Inv, ~At("off"), Mine.state \notin {"none", "submitting"},
         NEW state \in EntryState \ {"none", "submitting", "succeeded"},
         NEW snapshot \in [status : Status, resumed : 0..MaxResumes],
         Settled([Mine EXCEPT !.state = state, !.snapshot = snapshot]), UNCHANGED <<eval, world, late>>
  PROVE  Inv'
<1>1. Mine \in Entry /\ Mine.id # NoId /\ Credible(Mine)
  BY MineFields
<1> DEFINE entry == [Mine EXCEPT !.state = state, !.snapshot = snapshot]
<1>2. /\ entry \in Entry /\ entry.id = Mine.id /\ entry.state = state /\ entry.resumes = Mine.resumes
      /\ entry.guessed = Mine.guessed
  BY <1>1 DEF Entry
<1> HIDE DEF entry
<1>3. Credible(entry)
  BY <1>1, <1>2 DEF Credible
<1> QED
  BY <1>1, <1>2, <1>3, SettledInv DEF entry

\* An entry is rejected or held.
LEMMA HeldInv ==
  ASSUME Inv, ~At("off"), Mine.state \notin {"none", "submitting"},
         NEW state \in {"rejected", "needs_attention"}, Settled([Mine EXCEPT !.state = state]),
         UNCHANGED <<eval, world, late>>
  PROVE  Inv'
<1>1. Mine \in Entry
  BY MineFields
<1>2. Mine.snapshot \in [status : Status, resumed : 0..MaxResumes]
  BY <1>1 DEF Entry
<1>3. [Mine EXCEPT !.state = state] = [Mine EXCEPT !.state = state, !.snapshot = Mine.snapshot]
  BY <1>1 DEF Entry
<1>4. state \in EntryState \ {"none", "submitting", "succeeded"}
  BY DEF EntryState, Supersedable
<1> QED
  BY <1>2, <1>3, <1>4, OutcomeInv

LEMMA RejectInv ==
  ASSUME Inv, Reject
  PROVE  Inv'
<1>1. ~At("off") /\ Mine.state \in {"failed", "canceled"}
  BY DEF Reject, At, Inv, StepInv
<1> QED
  BY <1>1, HeldInv DEF Reject

LEMMA FinalizeStoppedInv ==
  ASSUME Inv, FinalizeStopped
  PROVE  Inv'
<1>1. ~At("off") /\ Mine.state = "submitted" /\ launch.seen \in {"failed", "canceled"} /\ UNCHANGED <<eval, world, late>>
  BY DEF FinalizeStopped, At, Inv, StepInv
<1>2. CASE Settled([Mine EXCEPT !.state = "rejected"])
  BY <1>1, <1>2, HeldInv
<1>3. CASE Settled([Mine EXCEPT !.state = launch.seen, !.snapshot = HaltSnapshot(Mine.id)])
  <2>1. HaltSnapshot(Mine.id) \in [status : Status, resumed : 0..MaxResumes]
    BY <1>1, MineFields DEF HaltSnapshot
  <2>2. launch.seen \in EntryState \ {"none", "submitting", "succeeded"}
    BY <1>1 DEF EntryState, Supersedable
  <2> QED
    BY <1>1, <1>3, <2>1, <2>2, OutcomeInv
<1> QED
  BY <1>2, <1>3 DEF FinalizeStopped

\* An evaluation that succeeded counts, is held, or is rejected.
LEMMA FinalizeSucceededInv ==
  ASSUME Inv, FinalizeSucceeded
  PROVE  Inv'
<1>1. At("finalize") /\ ~At("off") /\ Mine.state = "submitted" /\ UNCHANGED <<eval, world, late>> /\ late' \subseteq Request
  BY DEF FinalizeSucceeded, At, Inv, StepInv, Types
<1>2. /\ Here \in Cells /\ Mine = ledger.entry[Here] /\ Mine \in Entry /\ Mine.id \in Ids /\ Mine.id # NoId
      /\ Credible(Mine)
  BY <1>1, MineFields
<1> DEFINE checked == CodeChecked
           done == [Mine EXCEPT !.state = "succeeded", !.finalized = checked]
<1>3. CASE Settled([Mine EXCEPT !.state = "rejected"])
  BY <1>1, <1>3, HeldInv
<1>4. CASE Settled([Mine EXCEPT !.state = "needs_attention"])
  BY <1>1, <1>4, HeldInv
<1>5. CASE Counts(Here, done) /\ Save(Here, done) /\ Advance
  <2>1. checked \in BOOLEAN
    BY DEF CodeChecked
  <2> HIDE DEF checked
  <2>2. /\ done \in Entry /\ done.id = Mine.id /\ done.state = "succeeded" /\ done.resumes = Mine.resumes
        /\ done.guessed = Mine.guessed
    BY <1>2, <2>1 DEF Entry, EntryState
  <2>3. Assess(Here, done)
    BY <1>5 DEF Counts
  <2>4. Save(Here, done) /\ Advance
    BY <1>5
  <2> HIDE DEF done
  <2>5. Credible(done) /\ Coherent(done)
    BY <1>2, <2>2 DEF Credible, Coherent
  <2>6. Own(Here) \subseteq Known
    BY <1>1, <1>2, OwnKnown
  <2>7. LedgerInv'
    BY <1>1, <1>2, <2>2, <2>3, <2>4, <2>5, <2>6, SaveSame
  <2>8. /\ \A d \in Cells : Credible(ledger'.entry[d])
        /\ InFlight' = InFlight \ {Here}
    BY <1>2, <2>2, <2>4, <2>5, Saved
  <2>9. launch' \in LaunchRecord /\ launch'.step # "resumed" /\ StepInv' /\ DrainInv'
    BY <1>1, <2>4, <2>8, AdvanceOk
  <2> QED
    BY <1>1, <2>7, <2>8, <2>9, StepOk
<1> QED
  BY <1>3, <1>4, <1>5 DEF FinalizeSucceeded
----------------------------------------------------------------------------

\* The resume command.
LEMMA ResumeCellInv ==
  ASSUME Inv, NEW c \in Cells, NEW official \in BOOLEAN, ResumeCell(c, official)
  PROVE  Inv'
<1> DEFINE entry == ledger.entry[c]
<1>1. /\ At("off") /\ entry.state \in {"failed", "canceled"} /\ UNCHANGED <<eval, world, late>> /\ late' \subseteq Request
  BY DEF ResumeCell, Inv, Types
<1>2. entry \in Entry /\ entry.id # NoId /\ Credible(entry)
  BY <1>1, EntryFields, CreditedNow
<1>3. CASE Save(c, [entry EXCEPT !.state = "rejected"]) /\ UNCHANGED launch
  <2> DEFINE new == [entry EXCEPT !.state = "rejected"]
  <2>1. /\ new \in Entry /\ new.id = entry.id /\ new.state = "rejected" /\ new.resumes = entry.resumes
        /\ new.guessed = entry.guessed
    BY <1>2 DEF Entry, EntryState, Supersedable
  <2>2. Save(c, new)
    BY <1>3
  <2> HIDE DEF new
  <2>3. Credible(new)
    BY <1>2, <2>1 DEF Credible
  <2>4. LedgerInv' /\ \A d \in Cells : Credible(ledger'.entry[d])
    BY <1>1, <1>2, <2>1, <2>2, <2>3, SaveOutcome
  <2>5. launch' \in LaunchRecord /\ launch'.step = "off"
    BY <1>1, <1>3, LaunchFields DEF At
  <2>6. StepInv' /\ DrainInv'
    BY <2>5 DEF StepInv, DrainInv, At
  <2> QED
    BY <1>1, <2>4, <2>5, <2>6, StepOk
<1>4. CASE /\ InFlight = {}
           /\ Save(c, [entry EXCEPT !.state = "submitted", !.unsettled = IF official THEN "official" ELSE "unofficial"])
           /\ launch' = [Off EXCEPT !.step = "resuming", !.cell = c, !.seen = entry.state]
  <2> DEFINE sort == IF official THEN "official" ELSE "unofficial"
             new == [entry EXCEPT !.state = "submitted", !.unsettled = sort]
  <2>1. /\ new \in Entry /\ new.id = entry.id /\ new.state = "submitted" /\ new.resumes = entry.resumes
        /\ new.guessed = entry.guessed
    BY <1>2 DEF Entry, EntryState
  <2>2. Save(c, new)
    BY <1>4
  <2> HIDE DEF new
  <2>3. Credible(new)
    BY <1>2, <2>1 DEF Credible
  <2>4. /\ LedgerInv' /\ \A d \in Cells : Credible(ledger'.entry[d])
        /\ InFlight' = InFlight \cup {c} /\ ledger'.entry[c] = new
    BY <1>1, <1>2, <2>1, <2>2, <2>3, SaveOutcome
  <2> DEFINE seen == entry.state
  <2>5. seen \in {"failed", "canceled"}
    BY <1>1
  <2>6. launch' = [Off EXCEPT !.step = "resuming", !.cell = c, !.seen = seen]
    BY <1>4
  <2> HIDE DEF seen
  <2>7. /\ launch'.step = "resuming" /\ launch'.cell = c /\ launch'.draining = FALSE /\ launch'.seen = seen
        /\ launch' \in LaunchRecord
    BY <2>5, <2>6, Numbers DEF LaunchRecord, Off, Step, Status, Ended, NoId
  <2>8. StepInv'
    BY <2>1, <2>4, <2>5, <2>7 DEF StepInv, At, Here, Mine
  <2>9. DrainInv'
    BY <1>4, <2>4, <2>7 DEF DrainInv, At, Here
  <2> QED
    BY <1>1, <2>4, <2>7, <2>8, <2>9, StepOk
<1> QED
  BY <1>3, <1>4 DEF ResumeCell

\* The lock is free and the ledger changes alone.
LEMMA OperatorOk ==
  ASSUME Inv, At("off"), UNCHANGED <<eval, world, launch, late>>, LedgerInv',
         \A c \in Cells : Credible(ledger'.entry[c])
  PROVE  Inv'
<1>1. launch' \in LaunchRecord /\ launch'.step = "off" /\ late' \subseteq Request
  BY LaunchFields DEF At, Inv, Types
<1>2. StepInv' /\ DrainInv'
  BY <1>1 DEF StepInv, DrainInv, At
<1> QED
  BY <1>1, <1>2, StepOk

\* A halted cell is given up: its evaluation is remembered.
LEMMA SupersedeInv ==
  ASSUME Inv, NEW c \in Cells, Supersede(c), At("off"), UNCHANGED <<eval, world, launch, late>>
  PROVE  Inv'
<1> DEFINE id == ledger.entry[c].id
<1>1. ledger.entry[c].state \in Supersedable
  BY DEF Supersede, Replaceable, Inv, SucceededStaysAccepted
<1>2. id # NoId /\ id \in Ids /\ id \in Known
  BY <1>1, EntryFields DEF Supersedable
<1>3. ledger \in [entry : [Cells -> Entry], past : SUBSET Ids, disowned : SUBSET Ids]
  BY DEF Inv, Types
<1>4. ledger' = [ledger EXCEPT !.entry[c] = NoEntry, !.past = ledger.past \cup {id}]
  BY DEF Supersede
<1>5. /\ ledger'.entry = [ledger.entry EXCEPT ![c] = NoEntry] /\ ledger'.past = ledger.past \cup {id}
      /\ ledger'.disowned = ledger.disowned
  BY <1>3, <1>4
<1>6. /\ ledger'.entry \in [Cells -> Entry] /\ ledger'.entry[c] = NoEntry
      /\ \A d \in Cells : d # c => ledger'.entry[d] = ledger.entry[d]
  BY <1>3, <1>5, EmptyOk
<1>7. ledger' \in [entry : [Cells -> Entry], past : SUBSET Ids, disowned : SUBSET Ids]
  BY <1>2, <1>3, <1>4, <1>5, <1>6
<1>8. LedgerWellFormed /\ \A e \in Known : Exists(e)
  BY DEF Inv, KnownInv
<1>9. ActiveIds' = ActiveIds \ {id} /\ id \in ActiveIds
  <2>1. \A d \in Cells : d # c => ledger.entry[d].id # id
    BY <1>2, <1>8 DEF LedgerWellFormed
  <2> HIDE DEF id
  <2>2. ledger'.entry[c].id = NoId /\ ledger.entry[c].id = id
    BY <1>6, EmptyOk DEF id
  <2> QED
    BY <1>2, <1>6, <2>1, <2>2 DEF ActiveIds
<1> HIDE DEF id
<1>10. Known' = Known
  BY <1>2, <1>5, <1>9 DEF Known
<1>11. LedgerWellFormed'
  <2>1. /\ \A d, f \in Cells : d # f /\ ledger'.entry[d].id # NoId => ledger'.entry[d].id # ledger'.entry[f].id
        /\ \A d \in Cells : ledger'.entry[d].state \notin {"none", "submitting"} => ledger'.entry[d].id # NoId
    BY <1>6, <1>8, EmptyOk DEF LedgerWellFormed
  <2>2. ActiveIds' \cap (ledger'.past \cup ledger'.disowned) = {} /\ ledger'.past \cap ledger'.disowned = {}
    BY <1>5, <1>8, <1>9 DEF LedgerWellFormed
  <2> QED
    BY <2>1, <2>2 DEF LedgerWellFormed
<1>12. KnownInv'
  BY <1>8, <1>10, <1>11 DEF KnownInv, Exists
<1>13. EntryInv'
  <2>1. \A d \in Cells : LET entry == ledger'.entry[d] IN
       /\ entry.id = NoId <=> entry.state \in {"none", "submitting"}
       /\ entry.id = NoId => entry.resumes = 0
       /\ entry.id # NoId => eval[entry.id].cell = d
    BY <1>6, EmptyOk DEF Inv, EntryInv, Coherent
  <2> QED
    BY <2>1, EvalCells DEF EntryInv, Exists
<1>14. SubmissionNeverLost'
  <2> SUFFICES ASSUME NEW e \in Ids, Exists(e), eval[e].origin = "launcher", e \notin Known
               PROVE  ledger'.entry[eval[e].cell].state = "submitting"
    BY <1>10 DEF SubmissionNeverLost, Exists
  <2>1. ledger.entry[eval[e].cell].state = "submitting" /\ eval[e].cell \in Cells
    BY EvalCells DEF Inv, SubmissionNeverLost
  <2> QED
    BY <1>1, <1>6, <2>1 DEF Supersedable
<1>15. SucceededStaysAccepted'
  <2> SUFFICES ASSUME NEW d \in Cells, ledger'.entry[d].state = "succeeded"
               PROVE  Accepted(d)'
    BY DEF SucceededStaysAccepted
  <2>1. Assess(d, ledger'.entry[d])
    BY <1>6, EmptyOk DEF Inv, SucceededStaysAccepted, Accepted
  <2> QED
    BY <2>1 DEF Accepted, Assess, CellCheckOk, Overlapping, Tainted, ResumeProblems, Rehearsal
<1>16. \A d \in Cells : Credible(ledger'.entry[d])
  BY <1>6, EmptyOk, CreditedNow
<1> QED
  BY <1>7, <1>12, <1>13, <1>14, <1>15, <1>16, OperatorOk DEF LedgerInv

\* An evaluation that nobody owns is excluded.
LEMMA DisownInv ==
  ASSUME Inv, NEW e \in Ids, Disown(e), At("off"), UNCHANGED <<eval, world, launch, late>>
  PROVE  Inv'
<1>1. Exists(e) /\ e \notin Known /\ ledger' = [ledger EXCEPT !.disowned = ledger.disowned \cup {e}]
  BY DEF Disown
<1>2. ledger \in [entry : [Cells -> Entry], past : SUBSET Ids, disowned : SUBSET Ids]
  BY DEF Inv, Types
<1>3. ledger'.entry = ledger.entry /\ ledger'.past = ledger.past /\ ledger'.disowned = ledger.disowned \cup {e}
  BY <1>1, <1>2
<1>4. ledger' \in [entry : [Cells -> Entry], past : SUBSET Ids, disowned : SUBSET Ids]
  BY <1>1, <1>2
<1>5. ActiveIds' = ActiveIds /\ Known' = Known \cup {e} /\ e \notin ActiveIds /\ e \notin ledger.past
  BY <1>1, <1>3 DEF ActiveIds, Known
<1>6. KnownInv'
  BY <1>1, <1>3, <1>5 DEF Inv, KnownInv, LedgerWellFormed, Exists
<1>7. EntryInv' /\ SubmissionNeverLost'
  BY <1>3, <1>5 DEF Inv, EntryInv, SubmissionNeverLost, Exists
<1>8. SucceededStaysAccepted'
  <2> SUFFICES ASSUME NEW d \in Cells, ledger.entry[d].state = "succeeded"
               PROVE  Accepted(d)'
    BY <1>3 DEF SucceededStaysAccepted
  <2>1. Assess(d, ledger'.entry[d])
    BY <1>3 DEF Inv, SucceededStaysAccepted, Accepted
  <2> QED
    BY <2>1 DEF Accepted, Assess, CellCheckOk, Overlapping, Tainted, ResumeProblems, Rehearsal
<1>9. \A d \in Cells : Credible(ledger'.entry[d])
  BY <1>3, CreditedNow
<1> QED
  BY <1>4, <1>6, <1>7, <1>8, <1>9, OperatorOk DEF LedgerInv

\* The process is killed; its request may still be on the way.
LEMMA CrashInv ==
  ASSUME Inv, Crash
  PROVE  Inv'
<1>1. UNCHANGED <<eval, world, ledger>> /\ ~At("off") /\ Halt /\ late' = late \cup Abandoned
  BY DEF Crash
<1>2. Here \in Cells /\ (At("resuming") => Mine.id \in Ids)
  <2>1. At("resuming") => Mine.state = "submitted"
    BY DEF Inv, StepInv, At
  <2> QED
    BY <1>1, <2>1, LaunchFields, MineFields
<1>3. Abandoned \subseteq Request
  BY <1>2 DEF Abandoned, Request, Create_, Resume_, At
<1>4. late' \subseteq Request
  BY <1>1, <1>3 DEF Inv, Types
<1>5. LedgerInv' /\ \A c \in Cells : Credible(ledger'.entry[c])
  BY <1>1, LedgerSame
<1> QED
  BY <1>1, <1>4, <1>5, HaltOk, StepOk
----------------------------------------------------------------------------

\* Nothing moves.
LEMMA StillKeeps ==
  ASSUME Inv, UNCHANGED eval
  PROVE  Keeps /\ NoneOwn
<1>1. eval \in [Ids -> EvalRow] /\ \A e \in Ids : eval[e].outside <= eval[e].resumed
  BY DEF Inv, Types, ResumeInv
<1>2. \A e \in Ids : eval[e].resumed \in Nat /\ eval[e].outside \in Nat
  BY EvalFields
<1>3. \A e \in Ids : eval[e].resumed <= eval[e].resumed /\ eval[e].outside + eval[e].resumed <= eval[e].outside + eval[e].resumed
  BY <1>2
<1>4. eval' = eval
  OBVIOUS
<1> QED
  BY <1>1, <1>3, <1>4 DEF Keeps, NoneOwn, Exists

\* A request whose sender is gone is executed, or not.
LEMMA LateInv ==
  ASSUME Inv, LateRequest
  PROVE  Inv'
<1>1. UNCHANGED <<world, ledger, launch>> /\ late' \subseteq late
  BY DEF LateRequest
<1>2. late' \subseteq Request /\ world' \in {"pinned", "model moved", "task changed"}
  BY <1>1 DEF Inv, Types
<1>3. PICK r \in late :
        \/ UNCHANGED eval
        \/ r.kind = "create" /\ \E e \in Ids : Create(e, r.cell, "late")
        \/ r.kind = "resume" /\ Reopen(r.id, ~OwnRequest(r.id))
  BY DEF LateRequest
<1>4. r \in Request
  BY DEF Inv, Types
<1>5. CASE UNCHANGED eval
  BY <1>1, <1>2, <1>5, StillKeeps, EvalInv
<1>6. ASSUME r.kind = "create", NEW e \in Ids, Create(e, r.cell, "late") PROVE Inv'
  <2>1. r.cell \in Cells \cup {NoCell}
    BY <1>4, <1>6 DEF Request
  <2>2. Keeps /\ NoneOwn
    BY <1>6, <2>1, CreateKeeps DEF NoneOwn, Exists
  <2> QED
    BY <1>1, <1>2, <2>2, EvalInv
<1>7. CASE r.kind = "resume" /\ Reopen(r.id, ~OwnRequest(r.id))
  <2> DEFINE outside == ~OwnRequest(r.id)
  <2>1. r.id \in Ids
    BY <1>4, <1>7 DEF Request
  <2>2. outside \in BOOLEAN
    BY DEF OwnRequest
  <2>3. Reopen(r.id, outside)
    BY <1>7
  <2> HIDE DEF outside
  <2>4. Keeps /\ NoneOwn
    BY <2>1, <2>2, <2>3, ReopenKeeps
  <2> QED
    BY <1>1, <1>2, <2>4, EvalInv
<1> QED
  BY <1>3, <1>5, <1>6, <1>7

\* The app executes the request of the launcher.
LEMMA CreateExecutedInv ==
  ASSUME Inv, CreateExecuted
  PROVE  Inv'
<1>1. PICK e \in Ids : Create(e, Here, "launcher") /\ launch' = [launch EXCEPT !.step = "posted", !.id = e]
  BY DEF CreateExecuted
<1>2. UNCHANGED <<world, ledger, late>>
  BY DEF CreateExecuted
<1>3. /\ At("posting") /\ ~At("off") /\ Mine.state = "submitting" /\ ~launch.draining /\ Own(Here) \subseteq Known
  BY DEF CreateExecuted, At, Inv, StepInv
<1>4. Here \in Cells /\ Mine = ledger.entry[Here] /\ launch \in LaunchRecord
  BY <1>3, LaunchFields
<1>5. /\ Keeps /\ ~Exists(e) /\ eval'[e].cell = Here /\ eval'[e].origin = "launcher" /\ eval'[e].status = "queued"
      /\ \A i \in Ids \ {e} : eval'[i] = eval[i]
  BY <1>1, <1>4, CreateKeeps
<1>6. /\ Known' = Known /\ KnownInv' /\ SucceededStaysAccepted'
      /\ \A i \in Ids : Exists(i) => Exists(i)' /\ eval'[i].cell = eval[i].cell /\ eval'[i].origin = eval[i].origin
  BY <1>2, <1>5, EvalAny
<1>7. e \notin Known /\ Exists(e)'
  BY <1>5 DEF Inv, KnownInv, Exists
<1>8. /\ launch' \in LaunchRecord /\ launch'.step = "posted" /\ launch'.cell = launch.cell /\ launch'.id = e
      /\ launch'.draining = launch.draining /\ launch'.plan = launch.plan
  BY <1>1, <1>4 DEF LaunchRecord, Step
<1>9. Types'
  BY <1>2, <1>5, <1>8 DEF Inv, Types, Keeps
<1>10. EntryInv'
  <2>1. \A c \in Cells : LET entry == ledger.entry[c] IN
       /\ entry.id = NoId <=> entry.state \in {"none", "submitting"}
       /\ entry.id = NoId => entry.resumes = 0
       /\ entry.id # NoId => eval'[entry.id].cell = c
    BY <1>6, EntryFields
  <2>2. \A i \in Ids : eval'[i].status # "absent" /\ eval'[i].origin = "launcher" => eval'[i].cell \in Cells
    BY <1>4, <1>5, EvalCells DEF Exists
  <2> QED
    BY <1>2, <2>1, <2>2 DEF EntryInv, Exists
<1>11. Own(Here)' \subseteq Known' \cup {e}
  BY <1>3, <1>5, <1>6, <1>8 DEF Own, Exists, Here
<1>12. StepInv'
  BY <1>2, <1>3, <1>4, <1>5, <1>6, <1>7, <1>8, <1>11 DEF StepInv, At, Here, Mine
<1>13. DrainInv'
  BY <1>2, <1>3, <1>8 DEF DrainInv, Inv, InFlight, At, Here
<1>14. ResumeInv'
  <2>1. \A i \in Ids : eval'[i].outside <= eval'[i].resumed
    BY <1>5 DEF Keeps
  <2>2. ASSUME NEW c \in Cells, ledger.entry[c].id # NoId
        PROVE  LET entry == ledger.entry[c] IN
               /\ entry.resumes + Answered(c) <= eval'[entry.id].resumed
               /\ ~entry.guessed => entry.resumes + Answered(c) + eval'[entry.id].outside <= eval'[entry.id].resumed
    <3> DEFINE it == ledger.entry[c]
    <3>1. it.id \in Ids /\ it.id # e
      BY <1>7, <2>2, EntryFields
    <3>2. eval'[it.id] = eval[it.id]
      BY <1>5, <3>1
    <3> QED
      BY <2>2, <3>2 DEF Inv, ResumeInv
  <2>3. \A c \in Cells : Answered(c)' = Answered(c)
    BY <1>3, <1>8 DEF Answered, At, Here
  <2> QED
    BY <1>2, <2>1, <2>2, <2>3 DEF ResumeInv
<1>15. SubmissionNeverLost'
  <2> SUFFICES ASSUME NEW i \in Ids, eval'[i].status # "absent", eval'[i].origin = "launcher"
               PROVE  i \in Known \/ ledger.entry[eval'[i].cell].state = "submitting"
    BY <1>2, <1>6 DEF SubmissionNeverLost, Exists
  <2>1. CASE i = e
    BY <1>3, <1>4, <1>5, <2>1
  <2>2. CASE i # e
    BY <1>5, <2>2 DEF Inv, SubmissionNeverLost, Exists
  <2> QED
    BY <2>1, <2>2
<1> QED
  BY <1>6, <1>9, <1>10, <1>12, <1>13, <1>14, <1>15 DEF Inv

\* A credit that waits for its answer.
LEMMA OneMore ==
  ASSUME NEW k \in Nat, NEW r \in Nat, NEW o \in Nat, k + 0 <= r
  PROVE  k + 1 <= r + 1 /\ (k + 0 + o <= r => k + 1 + o <= r + 1)
  OBVIOUS

\* The app executes the resume of the launcher.
LEMMA ResumeExecutedInv ==
  ASSUME Inv, ResumeExecuted
  PROVE  Inv'
<1>1. /\ At("resuming") /\ ~At("off") /\ Mine.state = "submitted" /\ ~launch.draining
      /\ UNCHANGED <<world, ledger, late>> /\ Reopen(Mine.id, FALSE) /\ Go("resumed")
  BY DEF ResumeExecuted, At, Inv, StepInv
<1>2. Here \in Cells /\ Mine = ledger.entry[Here] /\ Mine.id \in Ids /\ Mine.id # NoId
  BY <1>1, MineFields
<1>3. /\ launch' \in LaunchRecord /\ launch'.step = "resumed" /\ launch'.cell = launch.cell
      /\ launch'.draining = launch.draining /\ launch'.plan = launch.plan
  BY <1>1, GoFields DEF Step
<1>4. /\ Keeps /\ NoneOwn /\ eval'[Mine.id].resumed = eval[Mine.id].resumed + 1
      /\ eval'[Mine.id].outside = eval[Mine.id].outside
  BY <1>1, <1>2, ReopenKeeps
<1>5. /\ Known' = Known /\ KnownInv' /\ SucceededStaysAccepted'
      /\ \A i \in Ids : Exists(i) => Exists(i)' /\ eval'[i].cell = eval[i].cell /\ eval'[i].origin = eval[i].origin
  BY <1>1, <1>4, EvalAny
<1>6. Types'
  BY <1>1, <1>3, <1>4 DEF Inv, Types, Keeps
<1>7. \A i \in Ids : eval'[i].status # "absent" /\ eval'[i].origin = "launcher" =>
        Exists(i) /\ eval[i].origin = "launcher" /\ eval'[i].cell = eval[i].cell
  BY <1>4, <1>5 DEF NoneOwn
<1>8. EntryInv'
  <2>1. \A c \in Cells : LET entry == ledger.entry[c] IN
       /\ entry.id = NoId <=> entry.state \in {"none", "submitting"}
       /\ entry.id = NoId => entry.resumes = 0
       /\ entry.id # NoId => eval'[entry.id].cell = c
    BY <1>5, EntryFields
  <2>2. \A i \in Ids : eval'[i].status # "absent" /\ eval'[i].origin = "launcher" => eval'[i].cell \in Cells
    BY <1>7, EvalCells
  <2> QED
    BY <1>1, <2>1, <2>2 DEF EntryInv, Exists
<1>9. StepInv'
  BY <1>1, <1>2, <1>3 DEF StepInv, Inv, At, Here, Mine
<1>10. DrainInv'
  BY <1>1, <1>3 DEF DrainInv, Inv, InFlight, At, Here
<1>11. ResumeInv'
  <2>1. \A i \in Ids : eval'[i].outside <= eval'[i].resumed
    BY <1>4 DEF Keeps
  <2>2. ASSUME NEW c \in Cells, ledger.entry[c].id # NoId
        PROVE  LET entry == ledger.entry[c] IN
               /\ entry.resumes + Answered(c)' <= eval'[entry.id].resumed
               /\ ~entry.guessed => entry.resumes + Answered(c)' + eval'[entry.id].outside <= eval'[entry.id].resumed
    <3> DEFINE it == ledger.entry[c]
    <3>1. it.id \in Ids /\ Exists(it.id) /\ it.resumes \in Nat
      BY <2>2, EntryFields
    <3>2. Answered(c) = 0
      BY <1>1 DEF Answered, At
    <3>3. /\ it.resumes + 0 <= eval[it.id].resumed
          /\ ~it.guessed => it.resumes + 0 + eval[it.id].outside <= eval[it.id].resumed
      BY <2>2, <3>2 DEF Inv, ResumeInv
    <3>4. CASE c = Here
      <4>1. Answered(c)' = 1
        BY <1>3, <3>4 DEF Answered, At, Here
      <4>2. eval'[it.id].resumed = eval[it.id].resumed + 1 /\ eval'[it.id].outside = eval[it.id].outside
        BY <1>2, <1>4, <3>4
      <4>3. eval[it.id].resumed \in Nat /\ eval[it.id].outside \in Nat
        BY <3>1, EvalFields
      <4> QED
        BY <3>1, <3>3, <4>1, <4>2, <4>3, OneMore
    <3>5. CASE c # Here
      <4>1. Answered(c)' = 0
        BY <1>3, <3>5 DEF Answered, At, Here
      <4>2. it.resumes + 0 \in Nat
        BY <3>1
      <4>3. /\ it.resumes + 0 <= eval'[it.id].resumed
            /\ ~it.guessed => it.resumes + 0 + eval'[it.id].outside <= eval'[it.id].resumed
        BY <1>4, <3>1, <3>3, <4>2, StillCredited
      <4> QED
        BY <4>1, <4>3
    <3> QED
      BY <3>4, <3>5
  <2> QED
    BY <1>1, <2>1, <2>2 DEF ResumeInv
<1>12. SubmissionNeverLost'
  BY <1>1, <1>5, <1>7 DEF Inv, SubmissionNeverLost, Exists
<1> QED
  BY <1>5, <1>6, <1>8, <1>9, <1>10, <1>11, <1>12 DEF Inv
----------------------------------------------------------------------------

\* At the start.
LEMMA InitInv == Init => Inv
<1> SUFFICES ASSUME Init PROVE Inv
  OBVIOUS
<1>1. /\ eval = [e \in Ids |-> Absent] /\ world = "pinned" /\ launch = Off /\ late = {}
      /\ ledger = [entry |-> [c \in Cells |-> NoEntry], past |-> {}, disowned |-> {}]
  BY DEF Init, ServiceInit, LedgerInit
<1>2. /\ Absent \in EvalRow /\ Absent.status = "absent" /\ Absent.outside <= Absent.resumed
  BY Numbers DEF Absent, EvalRow, Status, Ended
<1>3. Off \in LaunchRecord /\ Off.step = "off"
  BY Numbers DEF Off, LaunchRecord, Step, Status, NoId
<1>4. \A e \in Ids : eval[e] = Absent /\ ~Exists(e)
  BY <1>1, <1>2 DEF Exists
<1>5. \A c \in Cells : ledger.entry[c] = NoEntry
  BY <1>1
<1>6. Types
  BY <1>1, <1>2, <1>3, EmptyOk DEF Types
<1>7. EntryInv
  BY <1>4, <1>5, EmptyOk DEF EntryInv
<1>8. ActiveIds = {} /\ Known = {} /\ ledger.past = {} /\ ledger.disowned = {}
  BY <1>1, <1>5, EmptyOk DEF ActiveIds, Known
<1>9. KnownInv
  BY <1>5, <1>8, EmptyOk DEF KnownInv, LedgerWellFormed
<1>10. StepInv /\ DrainInv
  BY <1>1, <1>3 DEF StepInv, DrainInv, At
<1>11. ResumeInv
  BY <1>2, <1>4, <1>5, EmptyOk DEF ResumeInv
<1>12. SubmissionNeverLost
  BY <1>4 DEF SubmissionNeverLost
<1>13. SucceededStaysAccepted
  BY <1>5, EmptyOk DEF SucceededStaysAccepted
<1> QED
  BY <1>6, <1>7, <1>9, <1>10, <1>11, <1>12, <1>13 DEF Inv

\* Each step.
LEMMA NextInv ==
  ASSUME Inv, [Next]_vars
  PROVE  Inv'
<1>1. CASE \E plan \in Phases, option \in Options : Launch(plan, option)
  BY <1>1, LaunchInv
<1>2. CASE \E c \in Cells, official \in BOOLEAN : ResumeCell(c, official)
  BY <1>2, ResumeCellInv
<1>3. CASE LauncherStep
  BY <1>3, AdoptInv, DrainStepInv, SettleInv, PlanInv, CreateExecutedInv, CreateRefusedInv, CreateAnsweredInv,
     ResumeExecutedInv, ResumeRefusedInv, ResumeAnsweredInv, WaitEndsInv, WatchInv, RejectInv,
     FinalizeStoppedInv, FinalizeSucceededInv DEF LauncherStep
<1>4. CASE OperatorStep
  BY <1>4, SupersedeInv, DisownInv DEF OperatorStep
<1>5. CASE LateRequest
  BY <1>5, LateInv
<1>6. ASSUME UNCHANGED <<ledger, launch, late>>, Keeps /\ NoneOwn, world' \in {"pinned", "model moved", "task changed"}
      PROVE  Inv'
  <2>1. late' \subseteq Request
    BY <1>6 DEF Inv, Types
  <2> QED
    BY <1>6, <2>1, EvalInv
<1>7. world \in {"pinned", "model moved", "task changed"}
  BY DEF Inv, Types
<1>8. CASE AppStep /\ UNCHANGED <<ledger, launch, late>>
  <2>1. world' = world
    BY <1>8 DEF AppStep
  <2> QED
    BY <1>6, <1>7, <1>8, <2>1, AppKeeps
<1>9. CASE Crash
  BY <1>9, CrashInv
<1>10. CASE UserStep /\ UNCHANGED <<ledger, launch, late>>
  <2>1. world' = world
    BY <1>10 DEF UserStep
  <2> QED
    BY <1>6, <1>7, <1>10, <2>1, UserKeeps
<1>11. CASE WorldStep /\ UNCHANGED <<ledger, launch, late>>
  <2>1. UNCHANGED eval /\ world' \in {"pinned", "model moved", "task changed"}
    BY <1>11 DEF WorldStep
  <2> QED
    BY <1>6, <1>11, <2>1, StillKeeps
<1>12. CASE UNCHANGED vars
  BY <1>6, <1>7, <1>12, StillKeeps DEF vars
<1> QED
  BY <1>1, <1>2, <1>3, <1>4, <1>5, <1>8, <1>9, <1>10, <1>11, <1>12 DEF Next

LEMMA Invariance == Spec => []Inv
<1>1. Init => Inv
  BY InitInv
<1>2. Inv /\ [Next]_vars => Inv'
  BY NextInv
<1> QED
  BY <1>1, <1>2, PTL DEF Spec
----------------------------------------------------------------------------

\* Every evaluation, entry and launch is one the code could write down.
THEOREM TypeCorrect == Spec => []CampaignTypeOK
<1>1. Inv => CampaignTypeOK
  <2> SUFFICES ASSUME Inv PROVE CampaignTypeOK
    OBVIOUS
  <2>1. launch.step \in Step /\ launch.option \in Options \cup {"official"}
    BY DEF Inv, Types, LaunchRecord
  <2> QED
    BY <2>1 DEF Inv, Types, CampaignTypeOK
<1> QED
  BY <1>1, Invariance, PTL

\* The ledger can always be loaded again: an evaluation has one owner.
THEOREM LedgerSafe == Spec => []LedgerWellFormed
<1>1. Inv => LedgerWellFormed
  BY DEF Inv, KnownInv
<1> QED
  BY <1>1, Invariance, PTL

\* A kill between POST /jobs and the save never loses an evaluation, and never
\* lets its cell be submitted twice.
THEOREM SubmissionSafe == Spec => []SubmissionNeverLost
<1>1. Inv => SubmissionNeverLost
  BY DEF Inv
<1> QED
  BY <1>1, Invariance, PTL

\* Nothing anybody does later takes away the acceptance of a cell.
THEOREM AcceptanceSafe == Spec => []SucceededStaysAccepted
<1>1. Inv => SucceededStaysAccepted
  BY DEF Inv
<1> QED
  BY <1>1, Invariance, PTL

\* The balance of the resumes of an accepted evaluation.
LEMMA Balance ==
  ASSUME NEW k \in Nat, NEW a \in Nat, NEW r \in Nat, NEW o \in Nat, k + a + o <= r, ~(r > k)
  PROVE  o = 0
  OBVIOUS

\* Evidence resumed by somebody else does not count.
THEOREM OutsideSafe == Spec => []OutsideResumeNeverCredited
<1>1. Inv => OutsideResumeNeverCredited
  <2> SUFFICES ASSUME Inv, NEW c \in Cells, Accepted(c), ~ledger.entry[c].guessed
               PROVE  eval[ledger.entry[c].id].outside = 0
    BY DEF OutsideResumeNeverCredited
  <2> DEFINE entry == ledger.entry[c]
  <2>1. entry.state = "succeeded" /\ ~(eval[entry.id].resumed > entry.resumes)
    BY DEF Accepted, Assess, Tainted, ResumeProblems
  <2>2. entry.id # NoId /\ entry.id \in Ids /\ entry.resumes \in Nat
    BY <2>1, EntryFields
  <2>3. eval[entry.id].resumed \in Nat /\ eval[entry.id].outside \in Nat
    BY <2>2, EvalFields
  <2>4. entry.resumes + Answered(c) + eval[entry.id].outside <= eval[entry.id].resumed
    BY <2>2 DEF Inv, ResumeInv
  <2>5. Answered(c) \in Nat
    BY DEF Answered
  <2> QED
    BY <2>1, <2>2, <2>3, <2>4, <2>5, Balance
<1> QED
  BY <1>1, Invariance, PTL
----------------------------------------------------------------------------

\* What a step leaves of accepted evidence and of exclusions.
Final ==
  /\ ledger.past \subseteq ledger'.past /\ ledger.disowned \subseteq ledger'.disowned
  /\ \A c \in Cells : Accepted(c) => ledger'.entry[c] = ledger.entry[c]

\* An entry that has not succeeded is saved.
LEMMA SaveFinal ==
  ASSUME Inv, NEW c \in Cells, NEW entry, ledger.entry[c].state # "succeeded", Save(c, entry)
  PROVE  Final
<1>1. ledger \in [entry : [Cells -> Entry], past : SUBSET Ids, disowned : SUBSET Ids]
  BY DEF Inv, Types
<1>2. ledger' = [ledger EXCEPT !.entry[c] = entry]
  BY DEF Save
<1>3. ledger'.past = ledger.past /\ ledger'.disowned = ledger.disowned /\ ledger'.entry = [ledger.entry EXCEPT ![c] = entry]
  BY <1>1, <1>2
<1>4. \A d \in Cells : d # c => ledger'.entry[d] = ledger.entry[d]
  BY <1>1, <1>3
<1>5. ~Accepted(c)
  BY DEF Accepted, Assess
<1> QED
  BY <1>3, <1>4, <1>5 DEF Final

\* The ledger is left alone.
LEMMA SameFinal == ASSUME ledger' = ledger PROVE Final
  BY DEF Final

\* The process saves the entry it is at, which has not succeeded.
LEMMA MineFinal ==
  ASSUME Inv, ~At("off"), Mine.state # "succeeded", NEW entry, Save(Here, entry)
  PROVE  Final
<1>1. Here \in Cells /\ Mine = ledger.entry[Here]
  BY LaunchFields
<1> QED
  BY <1>1, SaveFinal

\* What the launcher does.
LEMMA LauncherFinal ==
  ASSUME Inv, LauncherStep
  PROVE  Final
<1>1. CASE Adopt
  <2>1. ~At("off") /\ Mine.state # "succeeded"
    BY <1>1 DEF Adopt, At
  <2> QED
    BY <1>1, <2>1, MineFinal, SameFinal DEF Adopt
<1>2. CASE Drain \/ CreateExecuted \/ ResumeExecuted \/ WaitEnds
  BY <1>2, SameFinal DEF Drain, CreateExecuted, ResumeExecuted, WaitEnds
<1>3. CASE SettleResumes
  <2>1. ~At("off") /\ Mine.state # "succeeded"
    BY <1>3 DEF SettleResumes, At, Inv, StepInv
  <2> QED
    BY <1>3, <2>1, MineFinal, SameFinal DEF SettleResumes
<1>4. CASE Plan
  <2>1. ~At("off")
    BY <1>4 DEF Plan, At
  <2> QED
    BY <1>4, <2>1, MineFinal, SameFinal DEF Plan
<1>5. CASE CreateRefused
  <2>1. ~At("off") /\ Mine.state # "succeeded"
    BY <1>5 DEF CreateRefused, At, Inv, StepInv
  <2> QED
    BY <1>5, <2>1, MineFinal DEF CreateRefused, Settled
<1>6. CASE CreateAnswered
  <2>1. ~At("off") /\ Mine.state # "succeeded"
    BY <1>6 DEF CreateAnswered, At, Inv, StepInv
  <2> QED
    BY <1>6, <2>1, MineFinal DEF CreateAnswered
<1>7. CASE ResumeRefused
  <2>1. ~At("off") /\ Mine.state # "succeeded"
    BY <1>7 DEF ResumeRefused, At, Inv, StepInv
  <2> QED
    BY <1>7, <2>1, MineFinal DEF ResumeRefused, Settled
<1>8. CASE ResumeAnswered
  <2>1. ~At("off") /\ Mine.state # "succeeded"
    BY <1>8 DEF ResumeAnswered, At, Inv, StepInv
  <2> QED
    BY <1>8, <2>1, MineFinal DEF ResumeAnswered, Settled
<1>9. CASE Watch
  <2>1. ~At("off") /\ Mine.state # "succeeded"
    BY <1>9 DEF Watch, At, Inv, StepInv
  <2> QED
    BY <1>9, <2>1, MineFinal DEF Watch
<1>10. CASE Reject
  <2>1. ~At("off") /\ Mine.state # "succeeded"
    BY <1>10 DEF Reject, At, Inv, StepInv
  <2> QED
    BY <1>10, <2>1, MineFinal DEF Reject, Settled
<1>11. CASE FinalizeStopped
  <2>1. ~At("off") /\ Mine.state # "succeeded"
    BY <1>11 DEF FinalizeStopped, At, Inv, StepInv
  <2> QED
    BY <1>11, <2>1, MineFinal DEF FinalizeStopped, Settled
<1>12. CASE FinalizeSucceeded
  <2>1. ~At("off") /\ Mine.state # "succeeded"
    BY <1>12 DEF FinalizeSucceeded, At, Inv, StepInv
  <2> QED
    BY <1>12, <2>1, MineFinal DEF FinalizeSucceeded, Settled
<1> QED
  BY <1>1, <1>2, <1>3, <1>4, <1>5, <1>6, <1>7, <1>8, <1>9, <1>10, <1>11, <1>12 DEF LauncherStep

\* What the operator does while nobody holds the lock.
LEMMA OperatorFinal ==
  ASSUME Inv, OperatorStep
  PROVE  Final
<1>1. ledger \in [entry : [Cells -> Entry], past : SUBSET Ids, disowned : SUBSET Ids]
  BY DEF Inv, Types
<1>2. ASSUME NEW c \in Cells, Supersede(c) PROVE Final
  <2>1. ~Accepted(c)
    BY <1>2 DEF Supersede, Replaceable, Accepted, Assess, Supersedable
  <2> DEFINE id == ledger.entry[c].id
  <2>2. ledger' = [ledger EXCEPT !.entry[c] = NoEntry, !.past = ledger.past \cup {id}]
    BY <1>2 DEF Supersede
  <2> HIDE DEF id
  <2>3. /\ ledger'.entry = [ledger.entry EXCEPT ![c] = NoEntry] /\ ledger'.past = ledger.past \cup {id}
        /\ ledger'.disowned = ledger.disowned
    BY <1>1, <2>2
  <2>4. \A d \in Cells : d # c => ledger'.entry[d] = ledger.entry[d]
    BY <1>1, <2>3
  <2> QED
    BY <2>1, <2>3, <2>4 DEF Final
<1>3. ASSUME NEW e \in Ids, Disown(e) PROVE Final
  <2>1. ledger' = [ledger EXCEPT !.disowned = ledger.disowned \cup {e}]
    BY <1>3 DEF Disown
  <2>2. ledger'.entry = ledger.entry /\ ledger'.past = ledger.past /\ ledger'.disowned = ledger.disowned \cup {e}
    BY <1>1, <2>1
  <2> QED
    BY <2>2 DEF Final
<1> QED
  BY <1>2, <1>3 DEF OperatorStep

LEMMA NextFinal ==
  ASSUME Inv, [Next]_vars
  PROVE  Final
<1>1. ASSUME NEW c \in Cells, NEW official \in BOOLEAN, ResumeCell(c, official) PROVE Final
  <2>1. ledger.entry[c].state # "succeeded"
    BY <1>1 DEF ResumeCell
  <2> QED
    BY <1>1, <2>1, SaveFinal DEF ResumeCell
<1>2. ASSUME NEW plan \in Phases, NEW option \in Options, Launch(plan, option) PROVE Final
  BY <1>2, SameFinal DEF Launch
<1>3. CASE LateRequest \/ UNCHANGED ledger \/ Crash \/ UNCHANGED vars
  BY <1>3, SameFinal DEF LateRequest, Crash, vars
<1> QED
  BY <1>1, <1>2, <1>3, LauncherFinal, OperatorFinal DEF Next

\* Accepted evidence is never replaced, and what was excluded stays excluded.
THEOREM AcceptedSafe == Spec => AcceptedIsFinal
<1>1. ASSUME Inv, Inv', [Next]_vars
      PROVE  \A c \in Cells :
               /\ Accepted(c) => ledger'.entry[c] = ledger.entry[c]
               /\ ledger'.entry[c].id \notin ledger.past \cup ledger.disowned
  <2> SUFFICES ASSUME NEW c \in Cells
               PROVE  /\ Accepted(c) => ledger'.entry[c] = ledger.entry[c]
                      /\ ledger'.entry[c].id \notin ledger.past \cup ledger.disowned
    OBVIOUS
  <2>1. Final
    BY <1>1, NextFinal
  <2>2. ledger'.entry[c].id # NoId => ledger'.entry[c].id \in ActiveIds'
    BY DEF ActiveIds
  <2>3. ActiveIds' \cap (ledger'.past \cup ledger'.disowned) = {}
    BY <1>1 DEF Inv, KnownInv, LedgerWellFormed
  <2>4. NoId \notin ledger.past \cup ledger.disowned
    BY <1>1, Numbers DEF Inv, Types
  <2> QED
    BY <2>1, <2>2, <2>3, <2>4 DEF Final
<1>2. Inv /\ Inv' /\ [Next]_vars =>
        [\A c \in Cells :
           /\ Accepted(c) => ledger'.entry[c] = ledger.entry[c]
           /\ ledger'.entry[c].id \notin ledger.past \cup ledger.disowned]_vars
  BY <1>1
<1> QED
  BY <1>2, Invariance, PTL DEF Spec, AcceptedIsFinal
=============================================================================
