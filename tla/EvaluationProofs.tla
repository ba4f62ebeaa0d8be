-------------------------- MODULE EvaluationProofs --------------------------
(***************************************************************************)
(* The safety of the evaluations, for any number of evaluations,           *)
(* positions, processes, crashes, resumes and SQLite errors, and for any   *)
(* assignment of lock files to processes: the fencing tokens alone carry   *)
(* it.                                                                     *)
(*                                                                         *)
(* First, what every transaction of EvaluationStore preserves, whoever     *)
(* commits it and in whatever order.  Then the workers: each of their      *)
(* steps is a transaction of the store (StepIsTransaction), so those       *)
(* invariants hold of the whole system; success needs one more fact about  *)
(* runners, that a verdict "succeeded" stays true until it is written.     *)
(* Last, that they implement EvaluationSpec: because every step is at most *)
(* one transaction, it is enough to see which step of the abstract         *)
(* evaluation each transaction is.                                         *)
(***************************************************************************)
EXTENDS EvaluationRefinement, TLAPS

(* The transactions of the store.                                          *)

DamageParams(j) ==
  /\ job[j].status # "absent"
  /\ \E v \in Params : job' = [job EXCEPT ![j].params = v]
  /\ UNCHANGED <<trial, saved>>

\* One committed transaction, with any evaluation, position and token.
JobTransaction ==
  \E j \in Jobs :
    \/ CreateFresh(j) \/ \E s \in Jobs : CreateReuse(j, s)
    \/ ClaimJobToken(j) \/ RequestCancel(j) \/ ResumeJob(j) \/ DamageParams(j)

OwnerTransaction ==
  \E j \in Jobs, k \in Nat :
    \/ \E s \in Terminal : MarkTerminal(j, k, s)
    \/ RequeueUnlocked(j, k) \/ FailUnverifiableRunningJob(j, k)
    \/ \E S \in SUBSET Pos : MarkTrialsUnverifiable(j, S, k)

TrialTransaction ==
  \E j \in Jobs, p \in Pos, k \in Nat :
    ClaimTrial(j, p, k) \/ CompleteTrial(j, p, k) \/ ReleaseClaim(j, p, k)

Transaction ==
  JobTransaction \/ OwnerTransaction \/ TrialTransaction \/ UNCHANGED storeVars

\* A row that was never created has no trial state of its own.
AbsentIsPending ==
  \A j \in Jobs, p \in Pos : job[j].status = "absent" => trial[j][p] = PendingTrial

StoreInv ==
  /\ StoreTypeOK
  /\ AbsentIsPending
  /\ EvidencePublishedOnce
  /\ OwnerIffRunning

----------------------------------------------------------------------------

\* The empty database satisfies the invariant.
LEMMA StoreInitInv == StoreInit => StoreInv
<1> SUFFICES ASSUME StoreInit PROVE StoreInv
  OBVIOUS
<1>1. PendingTrial \in TrialRow
  BY DEF PendingTrial, TrialRow, TrialState, Evidence, None, NoRun, RunId
<1>2. StoreTypeOK
  BY <1>1 DEF StoreInit, StoreTypeOK, JobRow, Status, Params, None
<1>3. AbsentIsPending
  BY DEF StoreInit, AbsentIsPending
<1>4. EvidencePublishedOnce
  BY DEF StoreInit, EvidencePublishedOnce, PendingTrial
<1>5. OwnerIffRunning
  BY DEF StoreInit, OwnerIffRunning, None
<1> QED BY <1>2, <1>3, <1>4, <1>5 DEF StoreInv

\* The row operators return rows.
LEMMA RowType ==
  ASSUME NEW row \in TrialRow
  PROVE  /\ ReopenBlocked(row) \in TrialRow
         /\ ReopenClaimed(row) \in TrialRow
         /\ Block(row) \in TrialRow
         /\ BlockClaimed(row) \in TrialRow
         /\ ReusedTrial(row.run) \in TrialRow
<1> USE DEF TrialRow, TrialState, Evidence
<1>1. ReopenBlocked(row) \in TrialRow
  BY DEF ReopenBlocked, None
<1>2. ReopenClaimed(row) \in TrialRow
  BY DEF ReopenClaimed, None
<1>3. Block(row) \in TrialRow
  BY DEF Block
<1>4. BlockClaimed(row) \in TrialRow
  BY <1>3 DEF BlockClaimed, None
<1>5. ReusedTrial(row.run) \in TrialRow
  BY DEF ReusedTrial, None
<1> QED BY <1>1, <1>2, <1>3, <1>4, <1>5

\* The transactions on a whole evaluation keep the tables typed.
LEMMA JobTransactionType == StoreTypeOK /\ JobTransaction => StoreTypeOK'
<1> SUFFICES ASSUME StoreTypeOK, JobTransaction PROVE StoreTypeOK'
  OBVIOUS
<1> PICK j \in Jobs : \/ CreateFresh(j) \/ \E s \in Jobs : CreateReuse(j, s)
                      \/ ClaimJobToken(j) \/ RequestCancel(j) \/ ResumeJob(j)
                      \/ DamageParams(j)
  BY DEF JobTransaction
<1>1. CASE CreateFresh(j)
  BY <1>1 DEF StoreTypeOK, CreateFresh, InsertJob, JobRow, Status
<1>2. ASSUME NEW s \in Jobs, CreateReuse(j, s) PROVE StoreTypeOK'
  <2>1. job' \in [Jobs -> JobRow]
    BY <1>2 DEF StoreTypeOK, CreateReuse, InsertJob, JobRow, Status
  <2>2. \A p \in Pos : ReusedTrial(trial[s][p].run) \in TrialRow
    BY RowType DEF StoreTypeOK
  <2> QED BY <1>2, <2>1, <2>2 DEF StoreTypeOK, CreateReuse
<1>3. CASE ClaimJobToken(j)
  BY <1>3 DEF StoreTypeOK, ClaimJobToken, JobRow, Status
<1>4. CASE RequestCancel(j)
  <2> DEFINE status == IF job[j].status = "queued" THEN "canceled" ELSE job[j].status
             row == [job[j] EXCEPT !.cancel = TRUE, !.status = status]
  <2>1. job[j] \in JobRow /\ status \in Status
    <3>1. job[j] \in JobRow
      BY DEF StoreTypeOK
    <3>2. job[j].status \in Status /\ "canceled" \in Status
      BY <3>1 DEF JobRow, Status, Terminal
    <3> QED BY <3>1, <3>2
  <2>2. row \in JobRow
    <3> HIDE DEF status
    <3> QED BY <2>1 DEF JobRow
  <2>3. job' = [job EXCEPT ![j] = row] /\ UNCHANGED <<trial, saved>>
    BY <1>4 DEF RequestCancel
  <2> HIDE DEF row
  <2> QED BY <2>2, <2>3 DEF StoreTypeOK
<1>5. CASE ResumeJob(j)
  <2>1. job' \in [Jobs -> JobRow]
    BY <1>5 DEF StoreTypeOK, ResumeJob, JobRow, Status
  <2>2. \A p \in Pos : ReopenBlocked(trial[j][p]) \in TrialRow
    BY RowType DEF StoreTypeOK
  <2> QED BY <1>5, <2>1, <2>2 DEF StoreTypeOK, ResumeJob
<1>6. CASE DamageParams(j)
  BY <1>6 DEF StoreTypeOK, DamageParams, JobRow
<1> QED BY <1>1, <1>2, <1>3, <1>4, <1>5, <1>6

\* So do the transactions of an owner and of recovery.
LEMMA OwnerTransactionType == StoreTypeOK /\ OwnerTransaction => StoreTypeOK'
<1> SUFFICES ASSUME StoreTypeOK, OwnerTransaction PROVE StoreTypeOK'
  OBVIOUS
<1> PICK j \in Jobs, k \in Nat :
       \/ \E s \in Terminal : MarkTerminal(j, k, s)
       \/ RequeueUnlocked(j, k) \/ FailUnverifiableRunningJob(j, k)
       \/ \E S \in SUBSET Pos : MarkTrialsUnverifiable(j, S, k)
  BY DEF OwnerTransaction
<1>0. ASSUME NEW p \in Pos
      PROVE  /\ ReopenClaimed(trial[j][p]) \in TrialRow
             /\ Block(trial[j][p]) \in TrialRow
             /\ BlockClaimed(trial[j][p]) \in TrialRow
             /\ trial[j][p] \in TrialRow
  BY <1>0, RowType DEF StoreTypeOK
<1>1. ASSUME NEW s \in Terminal, MarkTerminal(j, k, s) PROVE StoreTypeOK'
  <2>1. CASE UNCHANGED storeVars
    BY <2>1 DEF StoreTypeOK, storeVars
  <2>2. CASE /\ job' = [job EXCEPT ![j].status = s, ![j].owner = None]
             /\ UNCHANGED <<trial, saved>>
    BY <2>2 DEF StoreTypeOK, JobRow, Status, None
  <2> QED BY <1>1, <2>1, <2>2 DEF MarkTerminal
<1>2. CASE RequeueUnlocked(j, k)
  <2>1. job' \in [Jobs -> JobRow]
    BY <1>2 DEF StoreTypeOK, RequeueUnlocked, JobRow, Status, None
  <2> QED BY <1>0, <1>2, <2>1 DEF StoreTypeOK, RequeueUnlocked
<1>3. CASE FailUnverifiableRunningJob(j, k)
  <2>1. job' \in [Jobs -> JobRow]
    BY <1>3 DEF StoreTypeOK, FailUnverifiableRunningJob, JobRow, Status, Terminal, None
  <2> QED BY <1>0, <1>3, <2>1 DEF StoreTypeOK, FailUnverifiableRunningJob
<1>4. ASSUME NEW S \in SUBSET Pos, MarkTrialsUnverifiable(j, S, k) PROVE StoreTypeOK'
  <2>1. CASE UNCHANGED storeVars
    BY <2>1 DEF StoreTypeOK, storeVars
  <2>2. CASE ~UNCHANGED storeVars
    <3> DEFINE rows == [p \in Pos |-> IF p \in S /\ Blockable(trial[j][p])
                                     THEN Block(trial[j][p]) ELSE trial[j][p]]
    <3>1. rows \in [Pos -> TrialRow]
      BY <1>0
    <3>2. trial' = [trial EXCEPT ![j] = rows] /\ UNCHANGED <<job, saved>>
      BY <1>4, <2>2 DEF MarkTrialsUnverifiable
    <3> HIDE DEF rows
    <3> QED BY <3>1, <3>2 DEF StoreTypeOK
  <2> QED BY <2>1, <2>2
<1> QED BY <1>1, <1>2, <1>3, <1>4

\* So do the transactions on one trial.
LEMMA TrialTransactionType == StoreTypeOK /\ TrialTransaction => StoreTypeOK'
<1> SUFFICES ASSUME StoreTypeOK, TrialTransaction PROVE StoreTypeOK'
  OBVIOUS
<1> PICK j \in Jobs, p \in Pos, k \in Nat :
       ClaimTrial(j, p, k) \/ CompleteTrial(j, p, k) \/ ReleaseClaim(j, p, k)
  BY DEF TrialTransaction
<1>0. trial[j][p] \in TrialRow
  BY DEF StoreTypeOK
<1>1. CASE ClaimTrial(j, p, k)
  <2>1. [trial[j][p] EXCEPT !.state = "claimed", !.claim = k] \in TrialRow
    BY <1>0 DEF TrialRow, TrialState
  <2> QED BY <1>1, <2>1 DEF StoreTypeOK, ClaimTrial
<1>2. CASE CompleteTrial(j, p, k)
  <2> DEFINE n == saved[j][p] + 1
  <2>0. n \in Nat
    BY DEF StoreTypeOK
  <2>1. <<j, p, n>> \in RunId
    BY <2>0 DEF RunId, Jobs, Pos
  <2> HIDE DEF n
  <2>2. [state |-> "completed", evidence |-> "fresh", claim |-> None,
         run |-> <<j, p, n>>] \in TrialRow
    BY <2>1 DEF TrialRow, TrialState, Evidence, None
  <2>3. /\ saved' = [saved EXCEPT ![j][p] = n]
        /\ trial' = [trial EXCEPT ![j][p] =
                       [state |-> "completed", evidence |-> "fresh", claim |-> None,
                        run |-> <<j, p, n>>]]
        /\ job' = job
    BY <1>2 DEF CompleteTrial, n
  <2> QED BY <2>0, <2>2, <2>3 DEF StoreTypeOK
<1>3. CASE ReleaseClaim(j, p, k)
  <2>1. [trial[j][p] EXCEPT !.state = "pending", !.claim = None] \in TrialRow
    BY <1>0 DEF TrialRow, TrialState, None
  <2>2. CASE UNCHANGED storeVars
    BY <2>2 DEF StoreTypeOK, storeVars
  <2>3. CASE /\ trial' = [trial EXCEPT ![j][p] =
                             [@ EXCEPT !.state = "pending", !.claim = None]]
             /\ UNCHANGED <<job, saved>>
    BY <2>1, <2>3 DEF StoreTypeOK
  <2> QED BY <1>3, <2>2, <2>3 DEF ReleaseClaim
<1> QED BY <1>1, <1>2, <1>3

\* Every transaction keeps the tables typed.
LEMMA TransactionType == StoreTypeOK /\ Transaction => StoreTypeOK'
<1>1. StoreTypeOK /\ UNCHANGED storeVars => StoreTypeOK'
  BY DEF StoreTypeOK, storeVars
<1> QED BY <1>1, JobTransactionType, OwnerTransactionType, TrialTransactionType
        DEF Transaction

----------------------------------------------------------------------------
(* What a transaction can do to one position of one evaluation.            *)

Kept(j, p) == trial'[j][p] = trial[j][p] /\ saved'[j][p] = saved[j][p]

\* Claimed, given back, blocked or reopened: no evidence is gained.
Moved(j, p) ==
  /\ job[j].status # "absent"
  /\ trial[j][p].state # "completed" /\ trial'[j][p].state # "completed"
  /\ trial'[j][p].evidence \in {trial[j][p].evidence, "missing", "unverifiable"}
  /\ trial'[j][p].run = trial[j][p].run
  /\ saved'[j][p] = saved[j][p]

Published(j, p) ==
  /\ job[j].status # "absent"
  /\ trial[j][p].state = "claimed"
  /\ saved'[j][p] = saved[j][p] + 1
  /\ trial'[j][p] = [state |-> "completed", evidence |-> "fresh", claim |-> None,
                     run |-> <<j, p, saved[j][p] + 1>>]

Reused(j, p) ==
  /\ job[j].status = "absent" /\ job'[j].status # "absent"
  /\ saved'[j][p] = saved[j][p]
  /\ \E s \in Jobs \ {j} : Reusable(s, p) /\ trial'[j][p] = ReusedTrial(trial[s][p].run)

Effect(j, p) == Kept(j, p) \/ Moved(j, p) \/ Published(j, p) \/ Reused(j, p)

\* The transactions on a whole evaluation keep every row, reuse it at creation
\* or reopen it.
LEMMA JobEffect ==
  ASSUME StoreTypeOK, JobTransaction, NEW i \in Jobs, NEW p \in Pos
  PROVE  Effect(i, p)
<1> PICK j \in Jobs : \/ CreateFresh(j) \/ \E s \in Jobs : CreateReuse(j, s)
                      \/ ClaimJobToken(j) \/ RequestCancel(j) \/ ResumeJob(j)
                      \/ DamageParams(j)
  BY DEF JobTransaction
<1>0. trial \in [Jobs -> [Pos -> TrialRow]] /\ trial[j][p] \in TrialRow
  BY DEF StoreTypeOK
<1>1. CASE \/ CreateFresh(j) \/ ClaimJobToken(j) \/ RequestCancel(j) \/ DamageParams(j)
  BY <1>1 DEF CreateFresh, ClaimJobToken, RequestCancel, DamageParams, Effect, Kept
<1>2. ASSUME NEW s \in Jobs, CreateReuse(j, s) PROVE Effect(i, p)
  <2>1. s # j /\ Reusable(s, p) /\ saved' = saved /\ job[j].status = "absent"
    BY <1>2 DEF CreateReuse
  <2>2. CASE i = j
    <3>1. trial'[i][p] = ReusedTrial(trial[s][p].run)
      BY <1>0, <1>2, <2>2 DEF CreateReuse
    <3>2. job'[j].status # "absent"
      BY <1>2 DEF CreateReuse, InsertJob, StoreTypeOK, JobRow
    <3> QED BY <2>1, <2>2, <3>1, <3>2 DEF Effect, Reused
  <2>3. CASE i # j
    BY <1>0, <1>2, <2>3 DEF CreateReuse, Effect, Kept
  <2> QED BY <2>2, <2>3
<1>3. CASE ResumeJob(j)
  <2>1. CASE i = j
    <3>1. trial'[i][p] = ReopenBlocked(trial[j][p]) /\ saved' = saved
      BY <1>0, <1>3, <2>1 DEF ResumeJob
    <3>2. job[j].status # "absent"
      BY <1>3 DEF ResumeJob, ResumableStatus
    <3> QED BY <1>0, <2>1, <3>1, <3>2 DEF ReopenBlocked, TrialRow, Effect, Kept, Moved
  <2>2. CASE i # j
    BY <1>0, <1>3, <2>2 DEF ResumeJob, Effect, Kept
  <2> QED BY <2>1, <2>2
<1> QED BY <1>1, <1>2, <1>3

\* The transactions of owners and of recovery keep or move every row.
LEMMA OwnerEffect ==
  ASSUME StoreTypeOK, OwnerTransaction, NEW i \in Jobs, NEW p \in Pos
  PROVE  Effect(i, p)
<1> PICK j \in Jobs, k \in Nat :
       \/ \E s \in Terminal : MarkTerminal(j, k, s)
       \/ RequeueUnlocked(j, k) \/ FailUnverifiableRunningJob(j, k)
       \/ \E S \in SUBSET Pos : MarkTrialsUnverifiable(j, S, k)
  BY DEF OwnerTransaction
<1>0. trial \in [Jobs -> [Pos -> TrialRow]] /\ trial[j][p] \in TrialRow
  BY DEF StoreTypeOK
<1>1. ASSUME NEW s \in Terminal, MarkTerminal(j, k, s) PROVE Effect(i, p)
  BY <1>1 DEF MarkTerminal, storeVars, Effect, Kept
<1>2. CASE RequeueUnlocked(j, k)
  <2>1. CASE i = j
    <3>1. trial'[i][p] = ReopenClaimed(trial[j][p]) /\ saved' = saved
      BY <1>0, <1>2, <2>1 DEF RequeueUnlocked
    <3>2. job[j].status # "absent"
      BY <1>2 DEF RequeueUnlocked, SameOwner
    <3> QED BY <1>0, <2>1, <3>1, <3>2 DEF ReopenClaimed, TrialRow, Effect, Kept, Moved
  <2>2. CASE i # j
    BY <1>0, <1>2, <2>2 DEF RequeueUnlocked, Effect, Kept
  <2> QED BY <2>1, <2>2
<1>3. CASE FailUnverifiableRunningJob(j, k)
  <2>1. CASE i = j
    <3>1. trial'[i][p] = BlockClaimed(trial[j][p]) /\ saved' = saved
      BY <1>0, <1>3, <2>1 DEF FailUnverifiableRunningJob
    <3>2. job[j].status # "absent"
      BY <1>3 DEF FailUnverifiableRunningJob, SameOwner
    <3> QED BY <1>0, <2>1, <3>1, <3>2
            DEF BlockClaimed, Block, TrialRow, Effect, Kept, Moved
  <2>2. CASE i # j
    BY <1>0, <1>3, <2>2 DEF FailUnverifiableRunningJob, Effect, Kept
  <2> QED BY <2>1, <2>2
<1>4. ASSUME NEW S \in SUBSET Pos, MarkTrialsUnverifiable(j, S, k) PROVE Effect(i, p)
  <2>1. CASE UNCHANGED storeVars
    BY <2>1 DEF storeVars, Effect, Kept
  <2>2. CASE /\ Fenced(j, k)
             /\ trial' = [trial EXCEPT ![j] =
                            [q \in Pos |-> IF q \in S /\ Blockable(trial[j][q])
                                           THEN Block(trial[j][q]) ELSE trial[j][q]]]
             /\ UNCHANGED <<job, saved>>
    <3>1. CASE i = j
      <4>1. trial'[i][p] = IF p \in S /\ Blockable(trial[j][p])
                           THEN Block(trial[j][p]) ELSE trial[j][p]
        BY <1>0, <2>2, <3>1
      <4> QED BY <1>0, <2>2, <3>1, <4>1
              DEF Blockable, Block, TrialRow, Fenced, Effect, Kept, Moved
    <3>2. CASE i # j
      BY <1>0, <2>2, <3>2 DEF Effect, Kept
    <3> QED BY <3>1, <3>2
  <2> QED BY <1>4, <2>1, <2>2 DEF MarkTrialsUnverifiable
<1> QED BY <1>1, <1>2, <1>3, <1>4

\* The transactions on one trial keep every other row.
LEMMA TrialEffect ==
  ASSUME StoreTypeOK, TrialTransaction, NEW i \in Jobs, NEW q \in Pos,
         AbsentIsPending
  PROVE  Effect(i, q)
<1> PICK j \in Jobs, p \in Pos, k \in Nat :
       ClaimTrial(j, p, k) \/ CompleteTrial(j, p, k) \/ ReleaseClaim(j, p, k)
  BY DEF TrialTransaction
<1>0. /\ trial \in [Jobs -> [Pos -> TrialRow]] /\ saved \in [Jobs -> [Pos -> Nat]]
      /\ trial[j][p] \in TrialRow
  BY DEF StoreTypeOK
<1>1. CASE ClaimTrial(j, p, k)
  <2>1. /\ trial[j][p].state = "pending" /\ job[j].status = "running"
        /\ trial' = [trial EXCEPT ![j][p] =
                       [trial[j][p] EXCEPT !.state = "claimed", !.claim = k]]
        /\ saved' = saved
    BY <1>1 DEF ClaimTrial, CanClaimTrial, Fenced
  <2>2. CASE i = j /\ q = p
    <3>1. trial'[i][q] = [trial[j][p] EXCEPT !.state = "claimed", !.claim = k]
      BY <1>0, <2>1, <2>2
    <3> QED BY <1>0, <2>1, <2>2, <3>1 DEF TrialRow, Effect, Moved
  <2>3. CASE ~(i = j /\ q = p)
    BY <1>0, <2>1, <2>3 DEF Effect, Kept
  <2> QED BY <2>2, <2>3
<1>2. CASE CompleteTrial(j, p, k)
  <2> DEFINE row == [state |-> "completed", evidence |-> "fresh", claim |-> None,
                     run |-> <<j, p, saved[j][p] + 1>>]
  <2>1. /\ trial[j][p].state = "claimed" /\ job[j].status = "running"
        /\ trial' = [trial EXCEPT ![j][p] = row]
        /\ saved' = [saved EXCEPT ![j][p] = saved[j][p] + 1]
    BY <1>2 DEF CompleteTrial, CanComplete, Fenced
  <2>2. CASE i = j /\ q = p
    <3>1. trial'[i][q] = row
      BY <1>0, <2>1, <2>2
    <3>2. saved'[i][q] = saved[j][p] + 1
      BY <1>0, <2>1, <2>2
    <3> QED BY <2>1, <2>2, <3>1, <3>2 DEF Effect, Published
  <2>3. CASE ~(i = j /\ q = p)
    <3>1. trial'[i][q] = trial[i][q] /\ saved'[i][q] = saved[i][q]
      BY <1>0, <2>1, <2>3
    <3> QED BY <3>1 DEF Effect, Kept
  <2> QED BY <2>2, <2>3
<1>3. CASE ReleaseClaim(j, p, k)
  <2>1. CASE UNCHANGED storeVars
    BY <2>1 DEF storeVars, Effect, Kept
  <2>2. CASE /\ trial[j][p].state = "claimed"
             /\ trial' = [trial EXCEPT ![j][p] =
                            [trial[j][p] EXCEPT !.state = "pending", !.claim = None]]
             /\ UNCHANGED <<job, saved>>
    <3>1. CASE i = j /\ q = p
      <4>1. trial'[i][q] = [trial[j][p] EXCEPT !.state = "pending", !.claim = None]
        BY <1>0, <2>2, <3>1
      <4>2. job[j].status # "absent"
        BY <2>2 DEF AbsentIsPending, PendingTrial
      <4> QED BY <1>0, <2>2, <3>1, <4>1, <4>2 DEF TrialRow, Effect, Moved
    <3>2. CASE ~(i = j /\ q = p)
      BY <1>0, <2>2, <3>2 DEF Effect, Kept
    <3> QED BY <3>1, <3>2
  <2> QED BY <1>3, <2>1, <2>2 DEF ReleaseClaim
<1> QED BY <1>1, <1>2, <1>3

\* So every transaction has one of the four effects at every position.
LEMMA TransactionEffect ==
  ASSUME StoreTypeOK, AbsentIsPending, Transaction, NEW i \in Jobs, NEW p \in Pos
  PROVE  Effect(i, p)
<1>1. CASE UNCHANGED storeVars
  BY <1>1 DEF storeVars, Effect, Kept
<1> QED BY <1>1, JobEffect, OwnerEffect, TrialEffect DEF Transaction

----------------------------------------------------------------------------

\* No transaction deletes an evaluation.
LEMMA NeverDeleted ==
  ASSUME StoreTypeOK, Transaction, NEW i \in Jobs, job[i].status # "absent"
  PROVE  job'[i].status # "absent"
<1>0. job \in [Jobs -> JobRow]
  BY DEF StoreTypeOK
<1>1. CASE JobTransaction
  BY <1>0, <1>1 DEF JobTransaction, CreateFresh, CreateReuse, InsertJob, ClaimJobToken,
     RequestCancel, ResumeJob, DamageParams, JobRow
<1>2. CASE OwnerTransaction
  BY <1>0, <1>2 DEF OwnerTransaction, MarkTerminal, RequeueUnlocked, Terminal, storeVars,
     FailUnverifiableRunningJob, MarkTrialsUnverifiable, JobRow
<1>3. CASE TrialTransaction \/ UNCHANGED storeVars
  BY <1>3 DEF TrialTransaction, ClaimTrial, CompleteTrial, ReleaseClaim, storeVars
<1> QED BY <1>1, <1>2, <1>3 DEF Transaction

\* Ownership and the running status come and go together.
LEMMA OwnerPreserved ==
  ASSUME StoreTypeOK, OwnerIffRunning, Transaction
  PROVE  OwnerIffRunning'
<1>0. job \in [Jobs -> JobRow]
  BY DEF StoreTypeOK
<1> SUFFICES ASSUME NEW i \in Jobs
             PROVE  job'[i].owner # None <=> job'[i].status = "running"
  BY DEF OwnerIffRunning
<1>1. job[i].owner # None <=> job[i].status = "running"
  BY DEF OwnerIffRunning
<1>2. CASE JobTransaction
  <2> PICK j \in Jobs : \/ CreateFresh(j) \/ \E s \in Jobs : CreateReuse(j, s)
                        \/ ClaimJobToken(j) \/ RequestCancel(j) \/ ResumeJob(j)
                        \/ DamageParams(j)
    BY <1>2 DEF JobTransaction
  <2>1. CASE CreateFresh(j) \/ \E s \in Jobs : CreateReuse(j, s)
    BY <1>0, <1>1, <2>1 DEF CreateFresh, CreateReuse, InsertJob, JobRow
  <2>2. CASE ClaimJobToken(j)
    BY <1>0, <1>1, <2>2 DEF ClaimJobToken, JobRow, None
  <2>3. CASE RequestCancel(j)
    BY <1>0, <1>1, <2>3 DEF RequestCancel, JobRow
  <2>4. CASE ResumeJob(j)
    BY <1>0, <1>1, <2>4 DEF ResumeJob, JobRow
  <2>5. CASE DamageParams(j)
    BY <1>0, <1>1, <2>5 DEF DamageParams, JobRow
  <2> QED BY <2>1, <2>2, <2>3, <2>4, <2>5
<1>3. CASE OwnerTransaction
  BY <1>0, <1>1, <1>3 DEF OwnerTransaction, MarkTerminal, RequeueUnlocked, Terminal,
     storeVars, FailUnverifiableRunningJob, MarkTrialsUnverifiable, JobRow
<1>4. CASE TrialTransaction \/ UNCHANGED storeVars
  BY <1>1, <1>4 DEF TrialTransaction, ClaimTrial, CompleteTrial, ReleaseClaim, storeVars
<1> QED BY <1>2, <1>3, <1>4 DEF Transaction

\* Every transaction preserves the whole invariant.
LEMMA StoreInvPreserved == StoreInv /\ Transaction => StoreInv'
<1> SUFFICES ASSUME StoreInv, Transaction PROVE StoreInv'
  OBVIOUS
<1>0. StoreTypeOK /\ AbsentIsPending /\ EvidencePublishedOnce /\ OwnerIffRunning
  BY DEF StoreInv
<1>1. StoreTypeOK'
  BY <1>0, TransactionType
<1>2. OwnerIffRunning'
  BY <1>0, OwnerPreserved
<1>3. ASSUME NEW j \in Jobs, NEW p \in Pos, job'[j].status = "absent"
      PROVE  trial'[j][p] = PendingTrial
  <2>1. job[j].status = "absent"
    BY <1>0, <1>3, NeverDeleted
  <2>2. Effect(j, p)
    BY <1>0, TransactionEffect
  <2> QED BY <1>0, <1>3, <2>1, <2>2
          DEF AbsentIsPending, Effect, Kept, Moved, Published, Reused
<1>4. ASSUME NEW j \in Jobs, NEW p \in Pos
      PROVE  /\ saved'[j][p] <= 1
             /\ saved'[j][p] = 1 <=> /\ trial'[j][p].state = "completed"
                                     /\ trial'[j][p].evidence = "fresh"
             /\ saved'[j][p] = 1 => trial'[j][p].run = <<j, p, 1>>
  <2>1. /\ saved[j][p] \in Nat /\ saved[j][p] <= 1
        /\ saved[j][p] = 1 <=> /\ trial[j][p].state = "completed"
                               /\ trial[j][p].evidence = "fresh"
        /\ saved[j][p] = 1 => trial[j][p].run = <<j, p, 1>>
    BY <1>0 DEF EvidencePublishedOnce, StoreTypeOK
  <2>2. CASE Kept(j, p)
    BY <2>1, <2>2 DEF Kept
  <2>3. CASE Moved(j, p)
    BY <2>1, <2>3 DEF Moved
  <2>4. CASE Published(j, p)
    <3>1. saved[j][p] = 0
      BY <2>1, <2>4 DEF Published
    <3> QED BY <2>4, <3>1 DEF Published
  <2>5. CASE Reused(j, p)
    <3>1. trial[j][p] = PendingTrial
      BY <1>0, <2>5 DEF AbsentIsPending, Reused
    <3> QED BY <2>1, <2>5, <3>1 DEF Reused, ReusedTrial, PendingTrial
  <2>6. Effect(j, p)
    BY <1>0, TransactionEffect
  <2> QED BY <2>2, <2>3, <2>4, <2>5, <2>6 DEF Effect
<1> QED BY <1>1, <1>2, <1>3, <1>4 DEF StoreInv, AbsentIsPending, EvidencePublishedOnce

\* A completed position stays as it is, through every transaction.
LEMMA CompletedStays ==
  ASSUME StoreInv, Transaction, NEW j \in Jobs, NEW p \in Pos,
         trial[j][p].state = "completed"
  PROVE  trial'[j][p] = trial[j][p] /\ saved'[j][p] = saved[j][p]
<1>1. Effect(j, p)
  BY TransactionEffect DEF StoreInv
<1>2. job[j].status # "absent"
  BY DEF StoreInv, AbsentIsPending, PendingTrial
<1> QED BY <1>1, <1>2 DEF Effect, Kept, Moved, Published, Reused

\* Reuse copies genuine evidence, and its origin is never withdrawn.
LEMMA ReusePreserved ==
  ASSUME StoreInv, ReusedEvidenceIsGenuine, Transaction
  PROVE  ReusedEvidenceIsGenuine'
<1>0. EvidencePublishedOnce /\ AbsentIsPending /\ StoreTypeOK
  BY DEF StoreInv
<1> SUFFICES ASSUME NEW j \in Jobs, NEW p \in Pos, trial'[j][p].evidence = "reused"
             PROVE  \E o \in Jobs \ {j} : /\ trial'[j][p].run = trial'[o][p].run
                                          /\ trial'[o][p].run[1] = o
                                          /\ trial'[o][p].evidence = "fresh"
                                          /\ saved'[o][p] = 1
  BY DEF ReusedEvidenceIsGenuine
<1>1. ASSUME NEW o \in Jobs, saved[o][p] = 1
      PROVE  trial'[o][p] = trial[o][p] /\ saved'[o][p] = 1
  BY <1>0, <1>1, CompletedStays DEF EvidencePublishedOnce
<1>2. ASSUME NEW i \in Jobs, trial[i][p].evidence = "reused"
      PROVE  \E o \in Jobs \ {i} : /\ trial[i][p].run = trial[o][p].run
                                   /\ trial[o][p].run[1] = o
                                   /\ trial[o][p].evidence = "fresh"
                                   /\ saved[o][p] = 1
  BY <1>2 DEF ReusedEvidenceIsGenuine
<1>3. CASE trial[j][p].evidence = "reused" /\ trial'[j][p].run = trial[j][p].run
  BY <1>1, <1>2, <1>3
<1>4. CASE Reused(j, p)
  <2>1. PICK s \in Jobs \ {j} :
          Reusable(s, p) /\ trial'[j][p] = ReusedTrial(trial[s][p].run)
    BY <1>4 DEF Reused
  <2>2. trial'[j][p].run = trial[s][p].run
    BY <2>1 DEF ReusedTrial
  <2>3. trial[j][p] = PendingTrial
    BY <1>0, <1>4 DEF Reused, AbsentIsPending
  <2>4. CASE trial[s][p].evidence = "fresh"
    <3>1. saved[s][p] = 1 /\ trial[s][p].run = <<s, p, 1>>
      BY <1>0, <2>1, <2>4 DEF Reusable, EvidencePublishedOnce
    <3> QED BY <1>1, <2>1, <2>2, <2>4, <3>1
  <2>5. CASE trial[s][p].evidence = "reused"
    <3>1. PICK o \in Jobs : /\ trial[s][p].run = trial[o][p].run
                            /\ trial[o][p].run[1] = o
                            /\ trial[o][p].evidence = "fresh"
                            /\ saved[o][p] = 1
      BY <1>2, <2>5
    <3>2. o # j
      BY <2>3, <3>1 DEF PendingTrial
    <3> QED BY <1>1, <2>2, <3>1, <3>2
  <2> QED BY <2>1, <2>4, <2>5 DEF Reusable
<1>5. Effect(j, p)
  BY <1>0, TransactionEffect
<1>6. CASE Kept(j, p)
  BY <1>3, <1>6 DEF Kept
<1>7. CASE Moved(j, p)
  BY <1>3, <1>7 DEF Moved
<1>8. ~Published(j, p)
  BY DEF Published
<1> QED BY <1>4, <1>5, <1>6, <1>7, <1>8 DEF Effect

----------------------------------------------------------------------------
(* The workers.                                                            *)

\* The evaluation and position a runner works on exist.
RowOK(row) ==
  /\ row \in RunnerRow
  /\ row.step # "idle" => row.job \in Jobs
  /\ row.step \in {"check", "load", "run", "unclaim"} => row.at \in Pos
  /\ row.step = "touch" => row.at >= 1

\* A verdict of success was and remains right.
VerdictOK(row) ==
  row.step = "finish" /\ row.fate = "succeeded" => AllCompleted(row.job)

RunnerInv == \A r \in Runners : RowOK(runner[r]) /\ VerdictOK(runner[r])

RecInv ==
  \A a \in Recoverers : rec[a].step \in {"decide", "release"} => rec[a].job \in Jobs

Inv ==
  /\ TypeOK /\ StoreInv /\ RunnerInv /\ RecInv
  /\ ReusedEvidenceIsGenuine /\ SucceededIsComplete

----------------------------------------------------------------------------

\* The initial state satisfies the invariant.
LEMMA InitInv == Init => Inv
<1> SUFFICES ASSUME Init PROVE Inv
  OBVIOUS
<1>1. StoreInit
  BY DEF Init
<1>2. StoreInv
  BY <1>1, StoreInitInv
<1>3. IdleRunner \in RunnerRow
  BY DEF IdleRunner, RunnerRow, RunnerStep, Executing, Terminal, None
<1>4. IdleRec \in RecRow
  BY DEF IdleRec, RecRow
<1>5. TypeOK
  BY <1>2, <1>3, <1>4, WorkerAssumption DEF Init, TypeOK, StoreInv
<1>6. RunnerInv
  BY <1>3 DEF Init, RunnerInv, RowOK, VerdictOK, IdleRunner
<1>7. RecInv
  BY DEF Init, RecInv, IdleRec
<1>8. ReusedEvidenceIsGenuine
  BY <1>1 DEF StoreInit, ReusedEvidenceIsGenuine, PendingTrial
<1>9. SucceededIsComplete
  BY <1>1 DEF StoreInit, SucceededIsComplete
<1> QED BY <1>2, <1>5, <1>6, <1>7, <1>8, <1>9 DEF Inv

\* A step of a runner commits at most one transaction.
LEMMA RunnerTransaction ==
  ASSUME TypeOK, RunnerInv, NEW r \in Runners, RunnerWork(r)
  PROVE  Transaction
<1>0. runner[r] \in RunnerRow
  BY DEF TypeOK
<1>1. K(r) \in Nat /\ P(r) \in Nat /\ "failed" \in Terminal /\ runner[r].fate \in Terminal
  BY <1>0 DEF RunnerRow, K, P, Terminal
<1>2. ~Step(r, "idle") => J(r) \in Jobs
  BY DEF RunnerInv, RowOK, Step, J
<1>3. Step(r, "load") \/ Step(r, "run") \/ Step(r, "unclaim") => P(r) \in Pos
  BY DEF RunnerInv, RowOK, Step, P
<1>4. ASSUME NEW s \in Terminal, MarkTerminal(J(r), K(r), s), J(r) \in Jobs
      PROVE  Transaction
  BY <1>1, <1>4 DEF Transaction, OwnerTransaction
<1>5. ASSUME NEW S \in SUBSET Pos, MarkTrialsUnverifiable(J(r), S, K(r)), J(r) \in Jobs
      PROVE  Transaction
  BY <1>1, <1>5 DEF Transaction, OwnerTransaction
<1>6. ASSUME UNCHANGED storeVars PROVE Transaction
  BY <1>6 DEF Transaction
<1>7. CASE TryOwnerLock(r)
  BY <1>1, <1>2, <1>4, <1>6, <1>7 DEF TryOwnerLock, Step
<1>8. CASE CheckOwner(r)
  BY <1>2, <1>5, <1>6, <1>8 DEF CheckOwner, Step
<1>9. CASE TouchOwner(r) \/ CheckCancel(r) \/ RunRaises(r) \/ WrapUp(r)
  BY <1>6, <1>9 DEF TouchOwner, CheckCancel, RunRaises, WrapUp
<1>10. CASE TaskDrifted(r)
  BY <1>2, <1>5, <1>10 DEF TaskDrifted, Step
<1>11. CASE ClaimPosition(r)
  BY <1>1, <1>2, <1>3, <1>6, <1>11
  DEF ClaimPosition, Step, Transaction, TrialTransaction
<1>12. CASE Publish(r)
  BY <1>1, <1>2, <1>3, <1>6, <1>12 DEF Publish, Step, Transaction, TrialTransaction
<1>13. CASE GiveClaimBack(r)
  BY <1>1, <1>2, <1>3, <1>13 DEF GiveClaimBack, Step, Transaction, TrialTransaction
<1>14. CASE Terminate(r)
  BY <1>1, <1>2, <1>4, <1>14 DEF Terminate, Step
<1>15. CASE ReleaseLock(r)
  BY <1>6, <1>15 DEF ReleaseLock, storeVars
<1>16. CASE SafetyNet(r)
  BY <1>1, <1>2, <1>4, <1>16 DEF SafetyNet, Step
<1> QED BY <1>7, <1>8, <1>9, <1>10, <1>11, <1>12, <1>13, <1>14, <1>15, <1>16
        DEF RunnerWork

\* Every step of the system commits at most one transaction.
LEMMA StepIsTransaction == TypeOK /\ RunnerInv /\ RecInv /\ [Next]_vars => Transaction
<1> SUFFICES ASSUME TypeOK, RunnerInv, RecInv, [Next]_vars PROVE Transaction
  OBVIOUS
<1>0. ASSUME UNCHANGED storeVars PROVE Transaction
  BY <1>0 DEF Transaction
<1>1. CASE UNCHANGED vars
  BY <1>0, <1>1 DEF vars, storeVars
<1>2. ASSUME NEW r \in Runners, NEW j \in Jobs, DispatchJob(r, j) \/ ClaimNext(r, j)
      PROVE  Transaction
  BY <1>0, <1>2 DEF DispatchJob, ClaimNext, Transaction, JobTransaction
<1>3. ASSUME NEW r \in Runners, RunnerWork(r) PROVE Transaction
  BY <1>3, RunnerTransaction
<1>4. ASSUME NEW r \in Runners, RunnerError(r) PROVE Transaction
  BY <1>0, <1>4 DEF RunnerError, storeVars
<1>5. ASSUME NEW q \in Procs, Start(q) \/ FinishRecovery(q) \/ Crash(q)
      PROVE  Transaction
  BY <1>0, <1>5 DEF Start, FinishRecovery, Crash, storeVars
<1>6. ASSUME NEW a \in Recoverers, RecoveryWork(a) \/ RecoveryError(a)
      PROVE  Transaction
  <2>1. CASE Decide(a)
    <3>1. rec[a].job \in Jobs
      BY <2>1 DEF RecInv, Decide
    <3>2. rec[a].seen[rec[a].job] \in Nat
      BY <3>1 DEF TypeOK, RecRow
    <3> QED BY <1>0, <2>1, <3>1, <3>2 DEF Decide, Transaction, OwnerTransaction
  <2> QED BY <1>0, <1>6, <2>1
          DEF RecoveryWork, TryRecoveryLock, ReleaseRecoveryLock, RecoveryError, storeVars
<1>7. CASE RetryRecovery \/ FinishResume
  <2>1. ASSUME NEW j \in rec[Resumer].requeued, ResumeJob(j) PROVE Transaction
    <3>1. rec[Resumer] \in RecRow
      BY DEF TypeOK, Recoverers
    <3>2. j \in Jobs
      BY <2>1, <3>1 DEF RecRow
    <3> QED BY <2>1, <3>2 DEF Transaction, JobTransaction
  <2> QED BY <1>0, <1>7, <2>1 DEF RetryRecovery, FinishResume, storeVars
<1>8. ASSUME NEW j \in Jobs, \/ CreateAndDispatch(j) \/ Cancel(j) \/ Resume(j)
                             \/ ResumeRunning(j) \/ Damage(j)
      PROVE  Transaction
  <2>1. CASE Damage(j)
    BY <2>1 DEF Damage, DamageParams, Params, Transaction, JobTransaction
  <2> QED BY <1>0, <1>8, <2>1 DEF CreateAndDispatch, Cancel, Resume, ResumeRunning,
          storeVars, Transaction, JobTransaction
<1> QED BY <1>1, <1>2, <1>3, <1>4, <1>5, <1>6, <1>7, <1>8 DEF Next

----------------------------------------------------------------------------
(* The rows of the runners.                                                *)

\* The changes of a runner's row that the actions are written with.
LEMMA RowChanges ==
  ASSUME NEW row, RowOK(row), row.step # "idle"
  PROVE  /\ \A s \in RunnerStep \ {"touch", "check", "load", "run", "unclaim"} :
              RowOK([row EXCEPT !.step = s])
         /\ row.at \in Pos =>
              \A s \in RunnerStep \ {"touch"} : RowOK([row EXCEPT !.step = s])
         /\ row.at >= 1 \/ row.at \in Pos =>
              RowOK([row EXCEPT !.step = "touch", !.at = @ + 1])
         /\ \A s \in Terminal : RowOK([row EXCEPT !.step = "finish", !.fate = s])
<1>0. row \in RunnerRow /\ row.job \in Jobs
  BY DEF RowOK
<1>1. ASSUME NEW s \in RunnerStep \ {"touch", "check", "load", "run", "unclaim"}
      PROVE  RowOK([row EXCEPT !.step = s])
  BY <1>0 DEF RowOK, RunnerRow
<1>2. ASSUME NEW s \in RunnerStep \ {"touch"}, row.at \in Pos
      PROVE  RowOK([row EXCEPT !.step = s])
  BY <1>0, <1>2 DEF RowOK, RunnerRow
<1>3. ASSUME row.at >= 1 \/ row.at \in Pos
      PROVE  RowOK([row EXCEPT !.step = "touch", !.at = @ + 1])
  <2>1. row.at \in Nat /\ row.at >= 1
    BY <1>0, <1>3 DEF RunnerRow, Pos
  <2>2. row.at + 1 \in Nat /\ row.at + 1 >= 1
    BY <2>1
  <2> QED BY <1>0, <2>2 DEF RowOK, RunnerRow, RunnerStep, Executing
<1>4. ASSUME NEW s \in Terminal PROVE RowOK([row EXCEPT !.step = "finish", !.fate = s])
  BY <1>0, <1>4 DEF RowOK, RunnerRow, RunnerStep, Executing
<1> QED BY <1>1, <1>2, <1>3, <1>4

\* A runner at rest is in order.
LEMMA IdleOK == RowOK(IdleRunner) /\ VerdictOK(IdleRunner)
BY DEF RowOK, VerdictOK, IdleRunner, RunnerRow, RunnerStep, Executing, Terminal, None

\* Every step a runner takes leaves its row in order.
LEMMA RunnerRowStep ==
  ASSUME TypeOK, RunnerInv, NEW r \in Runners, RunnerWork(r)
  PROVE  \E row : RowOK(row) /\ runner' = [runner EXCEPT ![r] = row]
<1> DEFINE To(s)   == [runner[r] EXCEPT !.step = s]
           Good(x) == RowOK(x) /\ runner' = [runner EXCEPT ![r] = x]
<1>0. RowOK(runner[r]) /\ runner[r] \in RunnerRow
  BY DEF RunnerInv, RowOK
<1>1. ASSUME Goto(r, "release") \/ Goto(r, "locked") \/ Goto(r, "failclosed")
             \/ Goto(r, "handler") \/ Goto(r, "net"), ~Step(r, "idle")
      PROVE  \E row : Good(row)
  <2>1. PICK s \in {"release", "locked", "failclosed", "handler", "net"} : Goto(r, s)
    BY <1>1
  <2>2. RowOK(To(s))
    BY <1>0, <1>1, <2>1, RowChanges DEF Step, RunnerStep
  <2> QED BY <2>1, <2>2 DEF Goto
<1>2. ASSUME Leave(r) PROVE \E row : Good(row)
  BY <1>2, IdleOK DEF Leave
<1>3. ASSUME Goto(r, "check") \/ Goto(r, "load") \/ Goto(r, "run") \/ Goto(r, "unclaim"),
             P(r) \in Pos, ~Step(r, "idle")
      PROVE  \E row : Good(row)
  <2>1. PICK s \in {"check", "load", "run", "unclaim"} : Goto(r, s)
    BY <1>3
  <2>2. RowOK(To(s))
    BY <1>0, <1>3, <2>1, RowChanges DEF Step, RunnerStep, Executing, P
  <2> QED BY <2>1, <2>2 DEF Goto
<1>4. ASSUME NextTrial(r), ~Step(r, "idle"), P(r) >= 1 \/ P(r) \in Pos
      PROVE  \E row : Good(row)
  <2>1. RowOK([runner[r] EXCEPT !.step = "touch", !.at = @ + 1])
    BY <1>0, <1>4, RowChanges DEF Step, P
  <2>2. runner' = [runner EXCEPT ![r] = [runner[r] EXCEPT !.step = "touch", !.at = @ + 1]]
    BY <1>4 DEF NextTrial, TypeOK, RunnerRow
  <2> QED BY <2>1, <2>2
<1>5. ASSUME NEW s \in Terminal, Finish(r, s), ~Step(r, "idle")
      PROVE  \E row : Good(row)
  <2>1. RowOK([runner[r] EXCEPT !.step = "finish", !.fate = s])
    BY <1>0, <1>5, RowChanges DEF Step
  <2>2. runner' = [runner EXCEPT ![r] = [runner[r] EXCEPT !.step = "finish", !.fate = s]]
    BY <1>5 DEF Finish, TypeOK, RunnerRow
  <2> QED BY <2>1, <2>2
<1>6. Step(r, "check") \/ Step(r, "load") \/ Step(r, "run") \/ Step(r, "unclaim")
      => P(r) \in Pos
  BY <1>0 DEF RowOK, Step, P
<1>7. Step(r, "touch") => P(r) >= 1 /\ P(r) \in Nat
  BY <1>0 DEF RowOK, Step, P, RunnerRow
<1>8. CASE TryOwnerLock(r)
  BY <1>1, <1>2, <1>8 DEF TryOwnerLock, Step
<1>9. CASE CheckOwner(r)
  <2>1. CASE Goto(r, "release") \/ Goto(r, "failclosed")
    BY <1>1, <1>9, <2>1 DEF CheckOwner, Step
  <2>2. CASE runner' = [runner EXCEPT
             ![r].step = "touch", ![r].at = 1,
             ![r].todo = {p \in Pos : trial[J(r)][p].state \in {"pending", "claimed"}}]
    <3> DEFINE T   == {p \in Pos : trial[J(r)][p].state \in {"pending", "claimed"}}
               new == [runner[r] EXCEPT !.step = "touch", !.at = 1, !.todo = T]
    <3>1. T \in SUBSET Pos
      OBVIOUS
    <3>2. runner[r].job \in Jobs
      BY <1>0, <1>9 DEF CheckOwner, Step, RowOK
    <3> HIDE DEF T
    <3>3. RowOK(new)
      <4>1. new \in RunnerRow
        BY <1>0, <3>1 DEF RunnerRow, RunnerStep, Executing
      <4>2. new.step = "touch" /\ new.at = 1 /\ new.job = runner[r].job
        BY <1>0 DEF RunnerRow
      <4> QED BY <3>2, <4>1, <4>2 DEF RowOK
    <3>4. runner' = [runner EXCEPT ![r] = new]
      BY <2>2 DEF TypeOK, RunnerRow, T
    <3> QED BY <3>3, <3>4
  <2> QED BY <1>9, <2>1, <2>2 DEF CheckOwner
<1>10. CASE TouchOwner(r)
  <2>1. P(r) \in Pos
    BY <1>7, <1>10, StoreAssumption DEF TouchOwner, Pos
  <2> QED BY <1>1, <1>3, <1>4, <1>10, <2>1 DEF TouchOwner, Step
<1>11. CASE CheckCancel(r)
  BY <1>3, <1>5, <1>6, <1>11 DEF CheckCancel, Step, Terminal
<1>12. CASE TaskDrifted(r) \/ ClaimPosition(r)
  BY <1>3, <1>4, <1>6, <1>12 DEF TaskDrifted, ClaimPosition, Step
<1>13. CASE Publish(r) \/ RunRaises(r)
  BY <1>3, <1>4, <1>6, <1>13 DEF Publish, RunRaises, Step
<1>14. CASE GiveClaimBack(r)
  BY <1>1, <1>14 DEF GiveClaimBack, Step
<1>15. CASE WrapUp(r)
  BY <1>5, <1>15 DEF WrapUp, Step, Verdict, Terminal
<1>16. CASE Terminate(r)
  BY <1>1, <1>16 DEF Terminate, Step
<1>17. CASE ReleaseLock(r) \/ SafetyNet(r)
  BY <1>1, <1>2, <1>17 DEF ReleaseLock, SafetyNet, Step
<1> QED BY <1>8, <1>9, <1>10, <1>11, <1>12, <1>13, <1>14, <1>15, <1>16, <1>17
        DEF RunnerWork

\* So does every other step of the system.
LEMMA RowsPreserved ==
  ASSUME TypeOK, RunnerInv, [Next]_vars
  PROVE  runner' \in [Runners -> RunnerRow] /\ \A r \in Runners : RowOK(runner'[r])
<1> DEFINE Goal == /\ runner' \in [Runners -> RunnerRow]
                   /\ \A r \in Runners : RowOK(runner'[r])
<1>0. /\ runner \in [Runners -> RunnerRow] /\ job \in [Jobs -> JobRow]
      /\ \A r \in Runners : RowOK(runner[r])
  BY DEF TypeOK, StoreTypeOK, RunnerInv
<1>1. ASSUME NEW r \in Runners, NEW row, RowOK(row), runner' = [runner EXCEPT ![r] = row]
      PROVE  Goal
  BY <1>0, <1>1 DEF RowOK
<1>2. ASSUME UNCHANGED runner PROVE Goal
  BY <1>0, <1>2
<1>3. ASSUME NEW r \in Runners, NEW j \in Jobs, DispatchJob(r, j) \/ ClaimNext(r, j)
      PROVE  Goal
  <2>1. CASE StartRun(r, j)
    <3> DEFINE new == [IdleRunner EXCEPT !.step = "claimed", !.job = j,
                                         !.tok = job[j].issued + 1]
    <3>1. job[j].issued + 1 \in Nat
      BY <1>0 DEF JobRow
    <3>2. IdleRunner \in RunnerRow
      BY IdleOK DEF RowOK
    <3>3. RowOK(new)
      BY <3>1, <3>2 DEF RowOK, RunnerRow, RunnerStep
    <3> QED BY <1>1, <2>1, <3>3 DEF StartRun
  <2> QED BY <1>2, <1>3, <2>1 DEF DispatchJob, ClaimNext
<1>4. ASSUME NEW r \in Runners, RunnerWork(r) PROVE Goal
  <2>1. PICK row : RowOK(row) /\ runner' = [runner EXCEPT ![r] = row]
    BY <1>4, RunnerRowStep
  <2> QED BY <1>1, <2>1
<1>5. ASSUME NEW r \in Runners, RunnerError(r) PROVE Goal
  <2>1. CASE Leave(r)
    BY <1>1, <2>1, IdleOK DEF Leave
  <2>2. CASE Goto(r, "net") /\ Step(r, "claimed")
    <3>1. RowOK([runner[r] EXCEPT !.step = "net"])
      BY <1>0, <2>2, RowChanges DEF Step, RunnerStep
    <3> QED BY <1>1, <2>2, <3>1 DEF Goto
  <2>3. CASE /\ runner[r].step \in Executing \cup {"handler", "locked", "failclosed"}
             /\ Goto(r, OnError(runner[r].step))
    <3> DEFINE s == OnError(runner[r].step)
    <3>1. s \in {"handler", "unclaim", "escape"}
      BY <2>3 DEF OnError, Executing
    <3>2. s = "unclaim" => runner[r].step = "run"
      BY <2>3 DEF OnError, Executing
    <3>3. s = "unclaim" => runner[r].at \in Pos
      BY <1>0, <3>2 DEF RowOK
    <3>4. runner' = [runner EXCEPT ![r] = [runner[r] EXCEPT !.step = s]]
      BY <2>3 DEF Goto
    <3>5. runner[r].step # "idle"
      BY <2>3 DEF Executing
    <3> HIDE DEF s
    <3>6. RowOK([runner[r] EXCEPT !.step = s])
      BY <1>0, <3>1, <3>3, <3>5, RowChanges DEF RunnerStep, Executing
    <3> QED BY <1>1, <3>4, <3>6
  <2> QED BY <1>5, <2>1, <2>2, <2>3 DEF RunnerError
<1>6. ASSUME NEW q \in Procs, Crash(q) PROVE Goal
  BY <1>0, <1>6, IdleOK DEF Crash, RowOK
<1>7. CASE UNCHANGED vars
  BY <1>2, <1>7 DEF vars
<1>8. ASSUME NEW q \in Procs, Start(q) \/ FinishRecovery(q) PROVE Goal
  BY <1>2, <1>8 DEF Start, FinishRecovery
<1>9. ASSUME NEW a \in Recoverers, RecoveryWork(a) \/ RecoveryError(a) PROVE Goal
  BY <1>2, <1>9 DEF RecoveryWork, TryRecoveryLock, Decide, ReleaseRecoveryLock, RecoveryError
<1>10. CASE RetryRecovery \/ FinishResume
  BY <1>2, <1>10 DEF RetryRecovery, FinishResume
<1>11. ASSUME NEW j \in Jobs, \/ CreateAndDispatch(j) \/ Cancel(j) \/ Resume(j)
                              \/ ResumeRunning(j) \/ Damage(j)
       PROVE  Goal
  BY <1>2, <1>11 DEF CreateAndDispatch, Cancel, Resume, ResumeRunning, Damage, workerVars
<1> QED BY <1>3, <1>4, <1>5, <1>6, <1>7, <1>8, <1>9, <1>10, <1>11 DEF Next

\* A runner that comes to a verdict of success has just found every position
\* completed, in a step that changes no table.
LEMMA VerdictStep ==
  ASSUME TypeOK, NEW r \in Runners, RunnerWork(r),
         runner'[r].step = "finish", runner'[r].fate = "succeeded"
  PROVE  UNCHANGED storeVars /\ runner'[r].job = J(r) /\ AllCompleted(J(r))
<1>0. runner \in [Runners -> RunnerRow] /\ runner[r] \in RunnerRow
  BY DEF TypeOK
<1>1. ASSUME NEW s \in RunnerStep, Goto(r, s) PROVE runner'[r].step = s
  BY <1>0, <1>1 DEF Goto, RunnerRow
<1>2. ~NextTrial(r) /\ ~Leave(r)
  BY <1>0 DEF NextTrial, Leave, IdleRunner, RunnerRow
<1>3. ASSUME NEW s, Finish(r, s) PROVE runner'[r].fate = s /\ runner'[r].job = J(r)
  BY <1>0, <1>3 DEF Finish, RunnerRow, J
<1>4. \A s \in RunnerStep \ {"finish"} : ~Goto(r, s)
  BY <1>1
<1>5. WrapUp(r)
  <2>1. ~TryOwnerLock(r) /\ ~TouchOwner(r) /\ ~TaskDrifted(r)
    BY <1>2, <1>4 DEF TryOwnerLock, TouchOwner, TaskDrifted, RunnerStep, Executing
  <2>2. ~CheckOwner(r)
    BY <1>0, <1>4 DEF CheckOwner, RunnerStep, RunnerRow
  <2>3. ~CheckCancel(r)
    BY <1>3, <1>4 DEF CheckCancel, RunnerStep, Executing
  <2>4. ~ClaimPosition(r) /\ ~Publish(r) /\ ~RunRaises(r) /\ ~GiveClaimBack(r)
    BY <1>2, <1>4
    DEF ClaimPosition, Publish, RunRaises, GiveClaimBack, RunnerStep, Executing
  <2>5. ~Terminate(r) /\ ~ReleaseLock(r) /\ ~SafetyNet(r)
    BY <1>2, <1>4 DEF Terminate, ReleaseLock, SafetyNet, RunnerStep
  <2> QED BY <2>1, <2>2, <2>3, <2>4, <2>5 DEF RunnerWork
<1>6. UNCHANGED storeVars /\ Finish(r, Verdict(J(r)))
  BY <1>5 DEF WrapUp
<1>7. Verdict(J(r)) = "succeeded"
  BY <1>3, <1>6
<1> QED BY <1>3, <1>6, <1>7 DEF Verdict

\* A verdict of success stays right: completed positions stay completed, and
\* nobody but the runner itself changes its row, except a crash.
LEMMA VerdictsPreserved ==
  ASSUME TypeOK, StoreInv, RunnerInv, RecInv, [Next]_vars, NEW i \in Runners
  PROVE  VerdictOK(runner[i])'
<1>0. /\ runner \in [Runners -> RunnerRow] /\ runner[i] \in RunnerRow
      /\ RowOK(runner[i]) /\ VerdictOK(runner[i])
  BY DEF TypeOK, RunnerInv
<1>1. ASSUME NEW j \in Jobs, AllCompleted(j) PROVE AllCompleted(j)'
  BY <1>1, StepIsTransaction, CompletedStays DEF AllCompleted
<1>2. ASSUME runner'[i] = runner[i] PROVE VerdictOK(runner[i])'
  <2>1. CASE runner[i].step = "finish" /\ runner[i].fate = "succeeded"
    <3>1. runner[i].job \in Jobs
      BY <1>0, <2>1 DEF RowOK
    <3>2. AllCompleted(runner[i].job)'
      <4>1. AllCompleted(runner[i].job)
        BY <1>0, <2>1 DEF VerdictOK
      <4>2. PICK j \in Jobs : j = runner[i].job
        BY <3>1
      <4>3. AllCompleted(j)'
        BY <1>1, <4>1, <4>2
      <4> QED BY <1>2, <4>2, <4>3 DEF AllCompleted
    <3> QED BY <3>2 DEF VerdictOK
  <2>2. CASE ~(runner[i].step = "finish" /\ runner[i].fate = "succeeded")
    BY <1>2, <2>2 DEF VerdictOK
  <2> QED BY <2>1, <2>2
<1>3. ASSUME runner'[i].step # "finish" PROVE VerdictOK(runner[i])'
  BY <1>3 DEF VerdictOK
<1>4. ASSUME UNCHANGED runner PROVE VerdictOK(runner[i])'
  BY <1>2, <1>4
<1>5. ASSUME NEW r \in Runners, NEW j \in Jobs, DispatchJob(r, j) \/ ClaimNext(r, j)
      PROVE  VerdictOK(runner[i])'
  <2>1. CASE StartRun(r, j)
    BY <1>0, <1>2, <1>3, <2>1 DEF StartRun, IdleRunner
  <2> QED BY <1>4, <1>5, <2>1 DEF DispatchJob, ClaimNext
<1>6. ASSUME NEW r \in Runners, RunnerWork(r) PROVE VerdictOK(runner[i])'
  <2>1. PICK row : runner' = [runner EXCEPT ![r] = row]
    BY <1>6, RunnerRowStep
  <2>2. CASE r # i
    BY <1>0, <1>2, <2>1, <2>2
  <2>3. CASE r = i /\ runner'[i].step = "finish" /\ runner'[i].fate = "succeeded"
    <3>1. UNCHANGED storeVars /\ runner'[i].job = J(i) /\ AllCompleted(J(i))
      BY <1>6, <2>3, VerdictStep
    <3> QED BY <3>1 DEF VerdictOK, AllCompleted, storeVars, J
  <2>4. CASE ~(runner'[i].step = "finish" /\ runner'[i].fate = "succeeded")
    BY <2>4 DEF VerdictOK
  <2> QED BY <2>2, <2>3, <2>4
<1>7. ASSUME NEW r \in Runners, RunnerError(r) PROVE VerdictOK(runner[i])'
  <2>1. CASE r # i
    BY <1>0, <1>2, <1>7, <2>1 DEF RunnerError, Goto, Leave
  <2>2. CASE r = i
    BY <1>0, <1>3, <1>7, <2>2
    DEF RunnerError, Goto, Leave, OnError, Executing, IdleRunner, RunnerRow
  <2> QED BY <2>1, <2>2
<1>8. ASSUME NEW q \in Procs, Crash(q) PROVE VerdictOK(runner[i])'
  <2>1. runner'[i] = IdleRunner \/ runner'[i] = runner[i]
    BY <1>8 DEF Crash
  <2> QED BY <1>2, <1>3, <2>1 DEF IdleRunner
<1>9. CASE UNCHANGED vars
  BY <1>4, <1>9 DEF vars
<1>10. ASSUME NEW q \in Procs, Start(q) \/ FinishRecovery(q) PROVE VerdictOK(runner[i])'
  BY <1>4, <1>10 DEF Start, FinishRecovery
<1>11. ASSUME NEW a \in Recoverers, RecoveryWork(a) \/ RecoveryError(a)
       PROVE  VerdictOK(runner[i])'
  BY <1>4, <1>11 DEF RecoveryWork, TryRecoveryLock, Decide, ReleaseRecoveryLock,
     RecoveryError
<1>12. CASE RetryRecovery \/ FinishResume
  BY <1>4, <1>12 DEF RetryRecovery, FinishResume
<1>13. ASSUME NEW j \in Jobs, \/ CreateAndDispatch(j) \/ Cancel(j) \/ Resume(j)
                              \/ ResumeRunning(j) \/ Damage(j)
       PROVE  VerdictOK(runner[i])'
  BY <1>4, <1>13 DEF CreateAndDispatch, Cancel, Resume, ResumeRunning, Damage, workerVars
<1> QED BY <1>5, <1>6, <1>7, <1>8, <1>9, <1>10, <1>11, <1>12, <1>13 DEF Next

----------------------------------------------------------------------------
(* Locks, recoveries and the remaining variables.                          *)

\* The remaining variables keep their types.
LEMMA RestPreserved ==
  ASSUME TypeOK, RunnerInv, RecInv, [Next]_vars
  PROVE  /\ lock' \in [Spaces \X Jobs -> Runners \cup Recoverers \cup {Free}]
         /\ phase' \in [Procs -> {"down", "recovering", "up"}]
         /\ rec' \in [Recoverers -> RecRow] /\ RecInv'
         /\ dispatch' \subseteq Jobs
         /\ budget' \in [crashes: Nat, resumes: Nat, errors: Nat]
<1> DEFINE LockOK  == lock' \in [Spaces \X Jobs -> Runners \cup Recoverers \cup {Free}]
           PhaseOK == phase' \in [Procs -> {"down", "recovering", "up"}]
           RecsOK  == rec' \in [Recoverers -> RecRow] /\ RecInv'
           DispOK  == dispatch' \subseteq Jobs
           BudgOK  == budget' \in [crashes: Nat, resumes: Nat, errors: Nat]
           Goal    == LockOK /\ PhaseOK /\ RecsOK /\ DispOK /\ BudgOK
<1>0. /\ lock \in [Spaces \X Jobs -> Runners \cup Recoverers \cup {Free}]
      /\ phase \in [Procs -> {"down", "recovering", "up"}]
      /\ rec \in [Recoverers -> RecRow]
      /\ dispatch \subseteq Jobs
      /\ budget \in [crashes: Nat, resumes: Nat, errors: Nat]
      /\ job \in [Jobs -> JobRow]
  BY DEF TypeOK, StoreTypeOK
<1>1. /\ UNCHANGED lock => LockOK
      /\ UNCHANGED phase => PhaseOK
      /\ UNCHANGED rec => RecsOK
      /\ UNCHANGED dispatch => DispOK
      /\ UNCHANGED budget => BudgOK
  BY <1>0 DEF RecInv
<1>2. ASSUME NEW a \in Runners \cup Recoverers, NEW j, TakeLock(a, j) \/ DropLock(a, j)
      PROVE  LockOK
  BY <1>0, <1>2 DEF TakeLock, DropLock
<1>3. ASSUME NEW a \in Recoverers, NEW row \in RecRow, rec' = [rec EXCEPT ![a] = row],
             row.step \in {"decide", "release"} => row.job \in Jobs
      PROVE  RecsOK
  BY <1>0, <1>3 DEF RecInv
<1>4. ASSUME NEW S PROVE Sweep(S) \in RecRow /\ Sweep(S).step = "sweep"
  <2> DEFINE seen == [j \in Jobs |-> IF j \in S /\ job[j].status = "running"
                                     THEN job[j].owner ELSE 0]
  <2>1. seen \in [Jobs -> Nat]
    BY <1>0 DEF JobRow
  <2> HIDE DEF seen
  <2>2. [IdleRec EXCEPT !.step = "sweep", !.seen = seen] \in RecRow
    BY <2>1 DEF IdleRec, RecRow
  <2>3. Sweep(S) = [IdleRec EXCEPT !.step = "sweep", !.seen = seen]
    BY DEF Sweep, seen
  <2> QED BY <2>2, <2>3 DEF IdleRec
<1>5. /\ SpendResume => BudgOK
      /\ budget.errors > 0 /\ budget' = [budget EXCEPT !.errors = @ - 1] => BudgOK
      /\ budget.crashes > 0 /\ budget' = [budget EXCEPT !.crashes = @ - 1] => BudgOK
  BY <1>0 DEF SpendResume
<1>6. IdleRec \in RecRow
  BY DEF IdleRec, RecRow
<1>7. ASSUME NEW r \in Runners, NEW j \in Jobs, DispatchJob(r, j) \/ ClaimNext(r, j)
      PROVE  Goal
  BY <1>0, <1>1, <1>7 DEF DispatchJob, ClaimNext, OnlyRunner
<1>8. ASSUME NEW r \in Runners, RunnerWork(r) PROVE Goal
  <2>1. LockOK
    BY <1>1, <1>2, <1>8 DEF RunnerWork, TryOwnerLock, CheckOwner, TouchOwner, CheckCancel,
       TaskDrifted, ClaimPosition, Publish, RunRaises, GiveClaimBack, WrapUp, Terminate,
       ReleaseLock, SafetyNet, OnlyRunner
  <2>2. UNCHANGED <<phase, rec, dispatch, budget>>
    BY <1>8 DEF RunnerWork, TryOwnerLock, CheckOwner, TouchOwner, CheckCancel,
       TaskDrifted, ClaimPosition, Publish, RunRaises, GiveClaimBack, WrapUp, Terminate,
       ReleaseLock, SafetyNet, OnlyRunner
  <2> QED BY <1>1, <2>1, <2>2
<1>9. ASSUME NEW r \in Runners, RunnerError(r) PROVE Goal
  <2>1. BudgOK
    BY <1>5, <1>9 DEF RunnerError
  <2>2. UNCHANGED <<lock, phase, rec, dispatch>>
    BY <1>9 DEF RunnerError
  <2> QED BY <1>1, <2>1, <2>2
<1>10. ASSUME NEW q \in Procs, Start(q) PROVE Goal
  <2>1. RecsOK
    BY <1>3, <1>4, <1>10 DEF Start, Recoverers
  <2> QED BY <1>0, <1>1, <1>10, <2>1 DEF Start
<1>11. ASSUME NEW a \in Recoverers, EndRec(a) PROVE RecsOK
  <2>1. [IdleRec EXCEPT !.failed = rec[a].failed] \in RecRow
    BY <1>0, <1>6 DEF RecRow
  <2>2. [IdleRec EXCEPT !.failed = rec[a].failed].step = "idle"
    BY DEF IdleRec
  <2> QED BY <1>3, <1>11, <2>1, <2>2 DEF EndRec
<1>12. ASSUME NEW q \in Procs, FinishRecovery(q) PROVE Goal
  <2>1. RecsOK
    BY <1>11, <1>12 DEF FinishRecovery, Recoverers
  <2>2. rec[q].requeued \subseteq Jobs
    BY <1>0 DEF Recoverers, RecRow
  <2> QED BY <1>0, <1>1, <1>12, <2>1, <2>2 DEF FinishRecovery
<1>13. ASSUME NEW q \in Procs, Crash(q) PROVE Goal
  <2>1. RecsOK
    BY <1>0, <1>6, <1>13 DEF Crash, RecInv, IdleRec
  <2>2. LockOK
    BY <1>0, <1>13 DEF Crash
  <2> QED BY <1>0, <1>5, <1>13, <2>1, <2>2 DEF Crash
<1>14. ASSUME NEW a \in Recoverers, RecoveryWork(a) \/ RecoveryError(a) PROVE Goal
  <2>0. rec[a] \in RecRow
    BY <1>0
  <2>1. ASSUME NEW j \in Jobs, TryRecoveryLock(a, j) PROVE Goal
    <3>1. CASE rec' = [rec EXCEPT ![a].step = "decide", ![a].job = j]
      <4>1. [rec[a] EXCEPT !.step = "decide", !.job = j] \in RecRow
        BY <2>0 DEF RecRow
      <4>2. [rec[a] EXCEPT !.step = "decide", !.job = j].job \in Jobs
        BY <2>0 DEF RecRow
      <4>3. rec' = [rec EXCEPT ![a] = [rec[a] EXCEPT !.step = "decide", !.job = j]]
        BY <1>0, <3>1 DEF RecRow
      <4>4. RecsOK
        BY <1>3, <4>1, <4>2, <4>3
      <4> QED BY <1>1, <1>2, <2>1, <4>4 DEF TryRecoveryLock
    <3>2. CASE rec' = [rec EXCEPT ![a].seen[j] = 0]
      <4>1. [rec[a] EXCEPT !.seen[j] = 0] \in RecRow
        BY <2>0 DEF RecRow
      <4>2. [rec[a] EXCEPT !.seen[j] = 0].step = "sweep"
        BY <2>0, <2>1 DEF RecRow, TryRecoveryLock
      <4>3. rec' = [rec EXCEPT ![a] = [rec[a] EXCEPT !.seen[j] = 0]]
        BY <1>0, <3>2 DEF RecRow
      <4>4. RecsOK
        BY <1>3, <4>1, <4>2, <4>3
      <4> QED BY <1>1, <1>2, <2>1, <4>4 DEF TryRecoveryLock
    <3> QED BY <2>1, <3>1, <3>2 DEF TryRecoveryLock
  <2>2. ASSUME rec[a].step = "decide",
               \/ rec' = [rec EXCEPT ![a].step = "release"]
               \/ rec' = [rec EXCEPT ![a].step = "release", ![a].failed = TRUE]
               \/ rec' = [rec EXCEPT ![a].step = "release",
                                     ![a].requeued = @ \cup {rec[a].job}]
        PROVE  RecsOK
    <3>1. rec[a].job \in Jobs
      BY <2>2 DEF RecInv
    <3>2. ASSUME NEW S \in SUBSET Jobs, NEW f \in BOOLEAN,
                 rec' = [rec EXCEPT ![a] = [rec[a] EXCEPT !.step = "release",
                                                          !.requeued = S, !.failed = f]]
          PROVE  RecsOK
      <4>1. [rec[a] EXCEPT !.step = "release", !.requeued = S, !.failed = f] \in RecRow
        BY <2>0 DEF RecRow
      <4>2. [rec[a] EXCEPT !.step = "release", !.requeued = S, !.failed = f].job \in Jobs
        BY <2>0, <3>1 DEF RecRow
      <4> QED BY <1>3, <3>2, <4>1, <4>2
    <3> DEFINE Row(S, f) == [rec[a] EXCEPT !.step = "release", !.requeued = S, !.failed = f]
    <3>3. /\ rec[a].requeued \in SUBSET Jobs /\ rec[a].failed \in BOOLEAN
          /\ rec[a].requeued \cup {rec[a].job} \in SUBSET Jobs
      BY <2>0, <3>1 DEF RecRow
    <3>4. CASE rec' = [rec EXCEPT ![a].step = "release"]
      <4>1. rec' = [rec EXCEPT ![a] = Row(rec[a].requeued, rec[a].failed)]
        BY <1>0, <2>0, <3>4 DEF RecRow
      <4> QED BY <3>2, <3>3, <4>1
    <3>5. CASE rec' = [rec EXCEPT ![a].step = "release", ![a].failed = TRUE]
      <4>1. rec' = [rec EXCEPT ![a] = Row(rec[a].requeued, TRUE)]
        BY <1>0, <2>0, <3>5 DEF RecRow
      <4> QED BY <3>2, <3>3, <4>1
    <3>6. CASE rec' = [rec EXCEPT ![a].step = "release",
                                  ![a].requeued = @ \cup {rec[a].job}]
      <4>1. rec' = [rec EXCEPT ![a] = Row(rec[a].requeued \cup {rec[a].job}, rec[a].failed)]
        BY <1>0, <2>0, <3>6 DEF RecRow
      <4> QED BY <3>2, <3>3, <4>1
    <3> QED BY <2>2, <3>4, <3>5, <3>6
  <2>3. CASE Decide(a)
    BY <1>1, <2>2, <2>3 DEF Decide
  <2>4. CASE ReleaseRecoveryLock(a)
    <3> DEFINE unseen == [rec[a].seen EXCEPT ![rec[a].job] = 0]
               new    == [rec[a] EXCEPT !.step = "sweep", !.job = 0, !.seen = unseen]
    <3>0. unseen \in [Jobs -> Nat]
      BY <2>0 DEF RecRow
    <3>1. new \in RecRow
      BY <2>0, <3>0 DEF RecRow
    <3>2. new.step = "sweep"
      BY <2>0 DEF RecRow
    <3>3. rec' = [rec EXCEPT ![a] = new]
      BY <1>0, <2>4 DEF ReleaseRecoveryLock, RecRow
    <3>4. RecsOK
      BY <1>3, <3>1, <3>2, <3>3
    <3> QED BY <1>1, <1>2, <2>4, <3>4 DEF ReleaseRecoveryLock
  <2>5. CASE RecoveryError(a)
    <3>1. RecsOK
      BY <2>2, <2>5 DEF RecoveryError
    <3>2. BudgOK
      BY <1>5, <2>5 DEF RecoveryError
    <3> QED BY <1>1, <2>5, <3>1, <3>2 DEF RecoveryError
  <2> QED BY <1>14, <2>1, <2>3, <2>4, <2>5 DEF RecoveryWork
<1>15. CASE RetryRecovery
  <2>1. RecsOK
    BY <1>3, <1>4, <1>15 DEF RetryRecovery, Recoverers, Procs
  <2> QED BY <1>1, <1>15, <2>1 DEF RetryRecovery
<1>16. CASE FinishResume
  <2>1. RecsOK
    BY <1>11, <1>16 DEF FinishResume, Recoverers
  <2>2. rec[Resumer].requeued \subseteq Jobs
    BY <1>0 DEF Recoverers, RecRow
  <2> QED BY <1>0, <1>1, <1>16, <2>1, <2>2 DEF FinishResume
<1>17. ASSUME NEW j \in Jobs, ResumeRunning(j) PROVE Goal
  <2>1. RecsOK
    BY <1>3, <1>4, <1>17 DEF ResumeRunning, Recoverers
  <2>2. BudgOK
    BY <1>5, <1>17 DEF ResumeRunning
  <2> QED BY <1>1, <1>17, <2>1, <2>2 DEF ResumeRunning
<1>18. ASSUME NEW j \in Jobs, CreateAndDispatch(j) \/ Cancel(j) \/ Resume(j) \/ Damage(j)
       PROVE  Goal
  <2>1. CASE Resume(j)
    <3>1. BudgOK
      BY <1>5, <2>1 DEF Resume
    <3> QED BY <1>0, <1>1, <2>1, <3>1 DEF Resume
  <2>2. CASE CreateAndDispatch(j)
    BY <1>0, <1>1, <2>2 DEF CreateAndDispatch
  <2>3. CASE Cancel(j) \/ Damage(j)
    BY <1>1, <2>3 DEF Cancel, Damage, workerVars
  <2> QED BY <1>18, <2>1, <2>2, <2>3
<1>19. CASE UNCHANGED vars
  BY <1>1, <1>19 DEF vars
<1>20. Goal
  BY <1>7, <1>8, <1>9, <1>10, <1>12, <1>13, <1>14, <1>15, <1>16, <1>17, <1>18, <1>19 DEF Next
<1> QED BY <1>20

----------------------------------------------------------------------------
(* Success.                                                                *)

\* Only a runner that holds a verdict of success writes it.
LEMMA SuccessWritten ==
  ASSUME TypeOK, RunnerInv, RecInv, [Next]_vars, NEW j \in Jobs,
         job[j].status # "succeeded", job'[j].status = "succeeded"
  PROVE  \E r \in Runners : /\ runner[r].step = "finish" /\ runner[r].fate = "succeeded"
                            /\ runner[r].job = j
<1>0. job \in [Jobs -> JobRow]
  BY DEF TypeOK, StoreTypeOK
<1>1. job' # job
  OBVIOUS
<1>2. ASSUME NEW i, NEW k, NEW s, s # "succeeded", MarkTerminal(i, k, s) PROVE FALSE
  BY <1>0, <1>2 DEF MarkTerminal, storeVars, JobRow
<1>3. ASSUME NEW r \in Runners, RunnerWork(r)
      PROVE  /\ runner[r].step = "finish" /\ runner[r].fate = "succeeded"
             /\ runner[r].job = j
  <2>1. CASE Terminate(r)
    <3>1. Step(r, "finish") /\ MarkTerminal(J(r), K(r), runner[r].fate)
      BY <1>2, <2>1 DEF Terminate
    <3>2. runner[r].fate = "succeeded"
      BY <1>2, <3>1
    <3>3. J(r) = j
      BY <1>0, <3>1 DEF MarkTerminal, storeVars, JobRow
    <3> QED BY <3>1, <3>2, <3>3 DEF Step, J
  <2>2. CASE TryOwnerLock(r) \/ SafetyNet(r)
    BY <1>1, <1>2, <2>2 DEF TryOwnerLock, SafetyNet, storeVars
  <2>3. CASE CheckOwner(r) \/ TaskDrifted(r)
    BY <1>1, <2>3 DEF CheckOwner, TaskDrifted, MarkTrialsUnverifiable, storeVars
  <2>4. CASE \/ TouchOwner(r) \/ CheckCancel(r) \/ RunRaises(r) \/ WrapUp(r)
             \/ ReleaseLock(r)
    BY <1>1, <2>4 DEF TouchOwner, CheckCancel, RunRaises, WrapUp, ReleaseLock, storeVars
  <2>5. CASE ClaimPosition(r) \/ Publish(r) \/ GiveClaimBack(r)
    BY <1>1, <2>5 DEF ClaimPosition, Publish, GiveClaimBack, ClaimTrial, CompleteTrial,
       ReleaseClaim, storeVars
  <2> QED BY <1>3, <2>1, <2>2, <2>3, <2>4, <2>5 DEF RunnerWork
<1>4. ASSUME NEW r \in Runners, NEW i \in Jobs PROVE ~(DispatchJob(r, i) \/ ClaimNext(r, i))
  <2>1. ~ClaimJobToken(i)
    BY <1>0 DEF ClaimJobToken, JobRow
  <2> QED BY <1>1, <2>1 DEF DispatchJob, ClaimNext, storeVars
<1>5. ~ \E r \in Runners : RunnerError(r)
  BY <1>1 DEF RunnerError
<1>6. ~ \E q \in Procs : Start(q) \/ FinishRecovery(q) \/ Crash(q)
  BY <1>1 DEF Start, FinishRecovery, Crash, storeVars
<1>7. ASSUME NEW a \in Recoverers PROVE ~(RecoveryWork(a) \/ RecoveryError(a))
  <2>1. ASSUME NEW i, NEW k PROVE ~RequeueUnlocked(i, k) /\ ~FailUnverifiableRunningJob(i, k)
    BY <1>0 DEF RequeueUnlocked, FailUnverifiableRunningJob, JobRow
  <2>2. ~Decide(a)
    BY <1>1, <2>1 DEF Decide, storeVars
  <2> QED BY <1>1, <2>2 DEF RecoveryWork, RecoveryError, TryRecoveryLock, ReleaseRecoveryLock
<1>8. ~RetryRecovery /\ ~FinishResume
  BY <1>0, <1>1 DEF RetryRecovery, FinishResume, ResumeJob, storeVars, JobRow
<1>9. ASSUME NEW i \in Jobs
      PROVE  ~(\/ CreateAndDispatch(i) \/ Cancel(i) \/ Resume(i)
               \/ ResumeRunning(i) \/ Damage(i))
  BY <1>0, <1>1 DEF CreateAndDispatch, CreateFresh, CreateReuse, InsertJob, Cancel,
     RequestCancel, Resume, ResumeJob, ResumeRunning, Damage, JobRow
<1>10. ~UNCHANGED vars
  BY <1>1 DEF vars
<1> QED BY <1>3, <1>4, <1>5, <1>6, <1>7, <1>8, <1>9, <1>10 DEF Next

\* What a succeeded evaluation has, it keeps; what succeeds has everything.
LEMMA SuccessPreserved ==
  ASSUME TypeOK, StoreInv, RunnerInv, RecInv, SucceededIsComplete, [Next]_vars
  PROVE  SucceededIsComplete'
<1> SUFFICES ASSUME NEW j \in Jobs, job'[j].status = "succeeded", NEW p \in Pos
             PROVE  trial'[j][p].state = "completed"
  BY DEF SucceededIsComplete, AllCompleted
<1>1. trial[j][p].state = "completed"
  <2>1. CASE job[j].status = "succeeded"
    BY <2>1 DEF SucceededIsComplete, AllCompleted
  <2>2. CASE job[j].status # "succeeded"
    BY <2>2, SuccessWritten DEF RunnerInv, VerdictOK, AllCompleted
  <2> QED BY <2>1, <2>2
<1> QED BY <1>1, StepIsTransaction, CompletedStays

----------------------------------------------------------------------------

\* Every step preserves the invariant.
LEMMA NextInv == Inv /\ [Next]_vars => Inv'
<1> SUFFICES ASSUME Inv, [Next]_vars PROVE Inv'
  OBVIOUS
<1>0. /\ TypeOK /\ StoreInv /\ RunnerInv /\ RecInv
      /\ ReusedEvidenceIsGenuine /\ SucceededIsComplete
  BY DEF Inv
<1>1. StoreInv' /\ ReusedEvidenceIsGenuine'
  BY <1>0, StepIsTransaction, StoreInvPreserved, ReusePreserved
<1>2. TypeOK'
  BY <1>0, <1>1, RowsPreserved, RestPreserved DEF TypeOK, StoreInv
<1>3. RunnerInv'
  BY <1>0, RowsPreserved, VerdictsPreserved DEF RunnerInv
<1>4. RecInv' /\ SucceededIsComplete'
  BY <1>0, RestPreserved, SuccessPreserved
<1> QED BY <1>1, <1>2, <1>3, <1>4 DEF Inv

\* The invariant holds in every reachable state.
THEOREM Invariance == Spec => []Inv
BY InitInv, NextInv, PTL DEF Spec

\* Every variable of the control plane, the workers and the API keeps its type.
THEOREM TypeCorrect == Spec => []TypeOK
<1>1. Inv => TypeOK
  BY DEF Inv
<1> QED BY <1>1, Invariance, PTL

\* No interleaving of owners, recoveries, crashes and retries makes an
\* evaluation hold two raw runs for a position, or a completed fresh trial
\* without its raw run.
THEOREM EvidenceSafe == Spec => []EvidencePublishedOnce
<1>1. Inv => EvidencePublishedOnce
  BY DEF Inv, StoreInv
<1> QED BY <1>1, Invariance, PTL

\* Reused evidence is always backed by the raw run of its origin.
THEOREM ReuseSafe == Spec => []ReusedEvidenceIsGenuine
<1>1. Inv => ReusedEvidenceIsGenuine
  BY DEF Inv
<1> QED BY <1>1, Invariance, PTL

\* An evaluation has an owner token exactly while it is running.
THEOREM OwnershipSafe == Spec => []OwnerIffRunning
<1>1. Inv => OwnerIffRunning
  BY DEF Inv, StoreInv
<1> QED BY <1>1, Invariance, PTL

\* A succeeded evaluation has evidence at every requested position.
THEOREM SuccessSafe == Spec => []SucceededIsComplete
<1>1. Inv => SucceededIsComplete
  BY DEF Inv
<1> QED BY <1>1, Invariance, PTL

----------------------------------------------------------------------------
(* The refinement.                                                         *)

\* A completed position says where its evidence came from.
CompletedHasEvidence ==
  \A j \in Jobs, p \in Pos :
    trial[j][p].state = "completed" => trial[j][p].evidence \in {"fresh", "reused"}

LEMMA CompletedInit == Init => CompletedHasEvidence
  BY DEF Init, StoreInit, CompletedHasEvidence, PendingTrial

LEMMA CompletedPreserved ==
  ASSUME StoreInv, CompletedHasEvidence, Transaction
  PROVE  CompletedHasEvidence'
<1> SUFFICES ASSUME NEW j \in Jobs, NEW p \in Pos, trial'[j][p].state = "completed"
             PROVE  trial'[j][p].evidence \in {"fresh", "reused"}
  BY DEF CompletedHasEvidence
<1>1. Effect(j, p)
  BY TransactionEffect DEF StoreInv
<1>2. CASE Kept(j, p)
  BY <1>2 DEF Kept, CompletedHasEvidence
<1>3. CASE Moved(j, p)
  BY <1>3 DEF Moved
<1>4. CASE Published(j, p)
  BY <1>4 DEF Published
<1>5. CASE Reused(j, p)
  <2>1. PICK s \in Jobs : trial'[j][p] = ReusedTrial(trial[s][p].run)
    BY <1>5 DEF Reused
  <2> QED
    BY <2>1 DEF ReusedTrial
<1> QED
  BY <1>1, <1>2, <1>3, <1>4, <1>5 DEF Effect

\* The run of a completed position is one of an evaluation at this position.
LEMMA RunOfPosition ==
  ASSUME Inv, CompletedHasEvidence, NEW j \in Jobs, NEW p \in Pos, trial[j][p].state = "completed"
  PROVE  \E o \in Jobs : trial[j][p].run = <<o, p, 1>> /\ saved[o][p] = 1
<1>1. EvidencePublishedOnce /\ ReusedEvidenceIsGenuine
  BY DEF Inv, StoreInv
<1>2. CASE trial[j][p].evidence = "fresh"
  BY <1>1, <1>2 DEF EvidencePublishedOnce
<1>3. CASE trial[j][p].evidence = "reused"
  <2>1. PICK o \in Jobs : trial[j][p].run = trial[o][p].run /\ saved[o][p] = 1
    BY <1>1, <1>3 DEF ReusedEvidenceIsGenuine
  <2>2. trial[o][p].run = <<o, p, 1>>
    BY <1>1, <2>1 DEF EvidencePublishedOnce
  <2> QED
    BY <2>1, <2>2
<1> QED
  BY <1>2, <1>3 DEF CompletedHasEvidence
----------------------------------------------------------------------------

\* The evidence of a position.
EvidenceOf(row) == IF row.state = "completed" THEN row.run ELSE NoRun

LEMMA Bars ==
  /\ stageBar = [j \in Jobs |-> StageOf(job[j].status)]
  /\ evidenceBar = [j \in Jobs |-> [p \in Pos |-> EvidenceOf(trial[j][p])]]
  BY DEF stageBar, evidenceBar, EvidenceOf

LEMMA BarsNext ==
  /\ stageBar' = [j \in Jobs |-> StageOf(job'[j].status)]
  /\ evidenceBar' = [j \in Jobs |-> [p \in Pos |-> EvidenceOf(trial'[j][p])]]
  BY DEF stageBar, evidenceBar, EvidenceOf

\* A complete evaluation of the store is a complete one of the specification.
LEMMA CompleteBar ==
  ASSUME Inv, CompletedHasEvidence, NEW j \in Jobs, AllCompleted(j)
  PROVE  E!Complete(j)
<1> SUFFICES ASSUME NEW p \in Pos PROVE evidenceBar[j][p] # NoRun
  BY DEF E!Complete
<1>1. PICK o \in Jobs : trial[j][p].run = <<o, p, 1>>
  BY RunOfPosition DEF AllCompleted
<1>2. evidenceBar[j][p] = <<o, p, 1>>
  BY <1>1, Bars DEF AllCompleted, EvidenceOf
<1> QED
  BY <1>2 DEF NoRun

\* A transaction that writes no raw run and creates no evaluation leaves the
\* evidence as it is.
LEMMA EvidenceStays ==
  ASSUME StoreInv, Transaction, saved' = saved,
         \A j \in Jobs : job[j].status = "absent" => job'[j].status = "absent"
  PROVE  evidenceBar' = evidenceBar
<1>1. ASSUME NEW j \in Jobs, NEW p \in Pos PROVE EvidenceOf(trial'[j][p]) = EvidenceOf(trial[j][p])
  <2>1. Effect(j, p) /\ saved[j][p] \in Nat
    BY TransactionEffect DEF StoreInv, StoreTypeOK
  <2>2. CASE Kept(j, p)
    BY <2>2 DEF Kept
  <2>3. CASE Moved(j, p)
    BY <2>3 DEF Moved, EvidenceOf
  <2>4. ~Published(j, p)
    BY <2>1 DEF Published
  <2>5. ~Reused(j, p)
    BY DEF Reused
  <2> QED
    BY <2>1, <2>2, <2>3, <2>4, <2>5 DEF Effect
<1> QED
  BY <1>1, Bars, BarsNext

\* An evaluation changes its stage, and no evidence changes.
ESteps == E!Next \/ UNCHANGED <<stageBar, evidenceBar>>

LEMMA StageMoves ==
  ASSUME StoreInv, Transaction, saved' = saved, NEW j \in Jobs,
         job[j].status # "absent", \A i \in Jobs \ {j} : job'[i].status = job[i].status,
         LET old == StageOf(job[j].status) new == StageOf(job'[j].status) IN
         \/ old = new
         \/ old = "open" /\ new = "stopped"
         \/ old = "stopped" /\ new = "open"
         \/ old = "open" /\ new = "succeeded" /\ E!Complete(j)
  PROVE  ESteps
<1> DEFINE new == StageOf(job'[j].status)
<1>1. UNCHANGED evidenceBar
  BY EvidenceStays
<1>2. stageBar' = [stageBar EXCEPT ![j] = new] /\ stageBar[j] = StageOf(job[j].status)
  BY Bars, BarsNext
<1>3. stageBar = [stageBar EXCEPT ![j] = stageBar[j]]
  BY Bars
<1> HIDE DEF new
<1>4. CASE stageBar[j] = new
  BY <1>1, <1>2, <1>3, <1>4 DEF ESteps
<1>5. CASE stageBar[j] = "open" /\ new = "stopped"
  BY <1>1, <1>2, <1>5 DEF ESteps, E!Next, E!Stop
<1>6. CASE stageBar[j] = "stopped" /\ new = "open"
  BY <1>1, <1>2, <1>6 DEF ESteps, E!Next, E!Reopen
<1>7. CASE stageBar[j] = "open" /\ new = "succeeded" /\ E!Complete(j)
  BY <1>1, <1>2, <1>7 DEF ESteps, E!Next, E!Succeed
<1> QED
  BY <1>2, <1>4, <1>5, <1>6, <1>7 DEF new
----------------------------------------------------------------------------

\* The transactions on a whole evaluation.
LEMMA JobSteps ==
  ASSUME Inv, CompletedHasEvidence, JobTransaction
  PROVE  ESteps
<1>0. StoreInv /\ Transaction /\ job \in [Jobs -> JobRow] /\ trial \in [Jobs -> [Pos -> TrialRow]]
  BY DEF Inv, StoreInv, StoreTypeOK, Transaction
<1> PICK j \in Jobs : \/ CreateFresh(j) \/ \E s \in Jobs : CreateReuse(j, s)
                      \/ ClaimJobToken(j) \/ RequestCancel(j) \/ ResumeJob(j)
                      \/ DamageParams(j)
  BY DEF JobTransaction
<1>1. ASSUME job[j].status = "absent", InsertJob(j)
      PROVE  stageBar[j] = "absent" /\ stageBar' = [stageBar EXCEPT ![j] = "open"]
  <2>1. job'[j].status = "queued" /\ \A i \in Jobs \ {j} : job'[i] = job[i]
    BY <1>0, <1>1 DEF InsertJob, JobRow
  <2>2. StageOf("queued") = "open" /\ StageOf("absent") = "absent"
    BY DEF StageOf
  <2> QED
    BY <1>1, <2>1, <2>2, Bars, BarsNext
<1>2. CASE CreateFresh(j)
  <2>1. stageBar[j] = "absent" /\ stageBar' = [stageBar EXCEPT ![j] = "open"] /\ UNCHANGED evidenceBar
    BY <1>1, <1>2 DEF CreateFresh, evidenceBar
  <2> QED
    BY <2>1 DEF ESteps, E!Next, E!Create
<1>3. ASSUME NEW s \in Jobs, CreateReuse(j, s) PROVE ESteps
  <2>1. stageBar[j] = "absent" /\ stageBar' = [stageBar EXCEPT ![j] = "open"] /\ s # j /\ job[s].status # "absent"
    BY <1>1, <1>3 DEF CreateReuse
  <2>2. stageBar[s] # "absent"
    BY <2>1, Bars DEF StageOf
  <2>3. \A p \in Pos : trial[s][p].state = "completed"
    BY <1>3 DEF CreateReuse, Reusable
  <2>4. E!Complete(s)
    BY <2>3, CompleteBar DEF AllCompleted
  <2>5. trial' = [trial EXCEPT ![j] = [p \in Pos |-> ReusedTrial(trial[s][p].run)]]
    BY <1>3 DEF CreateReuse
  <2>6. \A p \in Pos : EvidenceOf(trial'[j][p]) = EvidenceOf(trial[s][p])
    BY <1>0, <2>3, <2>5 DEF EvidenceOf, ReusedTrial
  <2>7. \A i \in Jobs \ {j} : trial'[i] = trial[i]
    BY <1>0, <2>5
  <2>8. evidenceBar' = [evidenceBar EXCEPT ![j] = evidenceBar[s]]
    BY <2>6, <2>7, Bars, BarsNext
  <2> QED
    BY <2>1, <2>2, <2>4, <2>8 DEF ESteps, E!Next, E!Create
<1>4. CASE ClaimJobToken(j)
  <2>1. /\ job[j].status = "queued" /\ job'[j].status = "running" /\ saved' = saved
        /\ \A i \in Jobs \ {j} : job'[i].status = job[i].status
    BY <1>0, <1>4 DEF ClaimJobToken, JobRow
  <2>2. StageOf("queued") = StageOf("running")
    BY DEF StageOf
  <2> QED
    BY <1>0, <2>1, <2>2, StageMoves
<1>5. CASE RequestCancel(j)
  <2>1. /\ \/ job[j].status = "queued" /\ job'[j].status = "canceled"
           \/ job[j].status = "running" /\ job'[j].status = "running"
        /\ saved' = saved /\ \A i \in Jobs \ {j} : job'[i].status = job[i].status
    BY <1>0, <1>5 DEF RequestCancel, JobRow
  <2>2. StageOf("queued") = "open" /\ StageOf("canceled") = "stopped"
    BY DEF StageOf
  <2> QED
    BY <1>0, <2>1, <2>2, StageMoves
<1>6. CASE ResumeJob(j)
  <2>1. /\ job[j].status \in {"failed", "canceled", "queued"} /\ job'[j].status = "queued" /\ saved' = saved
        /\ \A i \in Jobs \ {j} : job'[i].status = job[i].status
    BY <1>0, <1>6 DEF ResumeJob, ResumableStatus, JobRow
  <2>2. StageOf("queued") = "open" /\ StageOf("canceled") = "stopped" /\ StageOf("failed") = "stopped"
    BY DEF StageOf
  <2> QED
    BY <1>0, <2>1, <2>2, StageMoves
<1>7. CASE DamageParams(j)
  <2>1. /\ job[j].status # "absent" /\ saved' = saved /\ \A i \in Jobs : job'[i].status = job[i].status
    BY <1>0, <1>7 DEF DamageParams, JobRow
  <2> QED
    BY <1>0, <2>1, StageMoves
<1> QED
  BY <1>2, <1>3, <1>4, <1>5, <1>6, <1>7

\* The transactions of owners and of recovery.  Success is written only when
\* it is complete, and stays so (SucceededIsComplete after the step).
LEMMA OwnerSteps ==
  ASSUME Inv, Inv', CompletedHasEvidence, OwnerTransaction
  PROVE  ESteps
<1>0. StoreInv /\ Transaction /\ job \in [Jobs -> JobRow]
  BY DEF Inv, StoreInv, StoreTypeOK, Transaction
<1> PICK j \in Jobs, k \in Nat :
       \/ \E s \in Terminal : MarkTerminal(j, k, s)
       \/ RequeueUnlocked(j, k) \/ FailUnverifiableRunningJob(j, k)
       \/ \E S \in SUBSET Pos : MarkTrialsUnverifiable(j, S, k)
  BY DEF OwnerTransaction
<1>1. StageOf("running") = "open" /\ StageOf("queued") = "open" /\ StageOf("failed") = "stopped"
      /\ StageOf("canceled") = "stopped" /\ StageOf("succeeded") = "succeeded"
  BY DEF StageOf
<1>2. CASE UNCHANGED storeVars
  BY <1>2 DEF ESteps, stageBar, evidenceBar, storeVars
<1>3. ASSUME NEW s \in Terminal, Fenced(j, k), job' = [job EXCEPT ![j].status = s, ![j].owner = None],
             UNCHANGED <<trial, saved>>
      PROVE  ESteps
  <2>1. job[j].status = "running" /\ job'[j].status = s /\ \A i \in Jobs \ {j} : job'[i].status = job[i].status
    BY <1>0, <1>3 DEF Fenced, JobRow
  <2>2. CASE s = "succeeded"
    <3>1. AllCompleted(j)
      BY <1>3, <2>1, <2>2 DEF Inv, SucceededIsComplete, AllCompleted
    <3>2. E!Complete(j)
      BY <3>1, CompleteBar
    <3> QED
      BY <1>0, <1>1, <1>3, <2>1, <2>2, <3>2, StageMoves
  <2>3. CASE s \in {"failed", "canceled"}
    BY <1>0, <1>1, <1>3, <2>1, <2>3, StageMoves
  <2> QED
    BY <2>2, <2>3 DEF Terminal
<1>4. CASE RequeueUnlocked(j, k)
  <2>1. /\ job[j].status = "running" /\ job'[j].status = "queued" /\ saved' = saved
        /\ \A i \in Jobs \ {j} : job'[i].status = job[i].status
    BY <1>0, <1>4 DEF RequeueUnlocked, SameOwner, JobRow
  <2> QED
    BY <1>0, <1>1, <2>1, StageMoves
<1>5. CASE FailUnverifiableRunningJob(j, k)
  <2>1. /\ job[j].status = "running" /\ job'[j].status = "failed" /\ saved' = saved
        /\ \A i \in Jobs \ {j} : job'[i].status = job[i].status
    BY <1>0, <1>5 DEF FailUnverifiableRunningJob, SameOwner, JobRow
  <2> QED
    BY <1>0, <1>1, <2>1, StageMoves
<1>6. ASSUME NEW S \in SUBSET Pos, MarkTrialsUnverifiable(j, S, k), ~UNCHANGED storeVars PROVE ESteps
  <2>1. job[j].status = "running" /\ job' = job /\ saved' = saved
    BY <1>6 DEF MarkTrialsUnverifiable, Fenced
  <2> QED
    BY <1>0, <2>1, StageMoves
<1> QED
  BY <1>2, <1>3, <1>4, <1>5, <1>6 DEF MarkTerminal

\* The transactions on one position.  What is published was published nowhere
\* before.
LEMMA TrialSteps ==
  ASSUME Inv, CompletedHasEvidence, TrialTransaction
  PROVE  ESteps
<1>0. /\ StoreInv /\ Transaction /\ EvidencePublishedOnce
      /\ trial \in [Jobs -> [Pos -> TrialRow]] /\ saved \in [Jobs -> [Pos -> Nat]]
  BY DEF Inv, StoreInv, StoreTypeOK, Transaction
<1> PICK j \in Jobs, p \in Pos, k \in Nat :
       ClaimTrial(j, p, k) \/ CompleteTrial(j, p, k) \/ ReleaseClaim(j, p, k)
  BY DEF TrialTransaction
<1>1. CASE ClaimTrial(j, p, k) \/ ReleaseClaim(j, p, k)
  <2>1. job' = job /\ saved' = saved
    BY <1>1 DEF ClaimTrial, ReleaseClaim, storeVars
  <2>2. UNCHANGED evidenceBar
    BY <1>0, <2>1, EvidenceStays
  <2> QED
    BY <2>1, <2>2 DEF ESteps, stageBar
<1>2. CASE CompleteTrial(j, p, k)
  <2>1. /\ trial[j][p].state = "claimed" /\ job[j].status = "running" /\ job' = job
        /\ trial' = [trial EXCEPT ![j][p] =
             [state |-> "completed", evidence |-> "fresh", claim |-> None, run |-> <<j, p, saved[j][p] + 1>>]]
    BY <1>2 DEF CompleteTrial, CanComplete, Fenced
  <2>2. saved[j][p] = 0
    <3>1. saved[j][p] \in Nat /\ saved[j][p] <= 1
      BY <1>0 DEF EvidencePublishedOnce
    <3>2. saved[j][p] # 1
      BY <1>0, <2>1 DEF EvidencePublishedOnce
    <3> QED
      BY <3>1, <3>2
  <2> DEFINE run == <<j, p, 1>>
  <2>3. trial' = [trial EXCEPT ![j][p] = [state |-> "completed", evidence |-> "fresh", claim |-> None, run |-> run]]
    BY <2>1, <2>2
  <2>4. run \in Jobs \X Pos \X {1}
    OBVIOUS
  <2>5. \A i \in Jobs, q \in Pos : evidenceBar[i][q] # run
    <3> SUFFICES ASSUME NEW i \in Jobs, NEW q \in Pos, EvidenceOf(trial[i][q]) = run PROVE FALSE
      BY Bars
    <3>1. trial[i][q].state = "completed" /\ trial[i][q].run = run
      BY DEF EvidenceOf, NoRun
    <3>2. PICK o \in Jobs : trial[i][q].run = <<o, q, 1>> /\ saved[o][q] = 1
      BY <3>1, RunOfPosition
    <3>3. o = j /\ q = p
      BY <3>1, <3>2
    <3> QED
      BY <2>2, <3>2, <3>3
  <2>6. stageBar[j] = "open" /\ UNCHANGED stageBar /\ evidenceBar[j][p] = NoRun
    BY <2>1, Bars DEF stageBar, StageOf, EvidenceOf
  <2> HIDE DEF run
  <2>7. \A i \in Jobs, q \in Pos : EvidenceOf(trial'[i][q]) = IF i = j /\ q = p THEN run ELSE EvidenceOf(trial[i][q])
    BY <1>0, <2>3 DEF EvidenceOf
  <2>8. evidenceBar' = [evidenceBar EXCEPT ![j][p] = run]
    BY <2>7, Bars, BarsNext
  <2> QED
    BY <2>4, <2>5, <2>6, <2>8 DEF ESteps, E!Next, E!Record
<1> QED
  BY <1>1, <1>2
----------------------------------------------------------------------------

\* The workers, the routes, recovery and every crash between two commits keep
\* what an evaluation promises: evidence is added once, success is complete
\* and final, stopping and resuming lose nothing.
THEOREM EvaluationImplemented == Spec => ImplementsEvaluation
<1>1. Init => E!Init
  BY DEF Init, StoreInit, E!Init, stageBar, evidenceBar, StageOf, PendingTrial
<1>2. Inv /\ CompletedHasEvidence /\ [Next]_vars => CompletedHasEvidence'
  BY CompletedPreserved, StepIsTransaction DEF Inv
<1>3. ASSUME Inv, Inv', CompletedHasEvidence, [Next]_vars PROVE ESteps
  <2>1. Transaction
    BY <1>3, StepIsTransaction DEF Inv
  <2>2. CASE UNCHANGED storeVars
    BY <2>2 DEF ESteps, stageBar, evidenceBar, storeVars
  <2> QED
    BY <1>3, <2>1, <2>2, JobSteps, OwnerSteps, TrialSteps DEF Transaction
<1>4. Inv /\ Inv' /\ CompletedHasEvidence /\ [Next]_vars => [E!Next]_<<stageBar, evidenceBar>>
  BY <1>3 DEF ESteps
<1> QED
  BY <1>1, <1>2, <1>4, CompletedInit, Invariance, PTL DEF Spec, ImplementsEvaluation, E!Spec, E!svars
=============================================================================
