---------------------- MODULE EvaluationOwnershipProofs ----------------------
(***************************************************************************)
(* Who owns an evaluation, and what is left of an owner that is gone.      *)
(*                                                                         *)
(* Tokens are issued once (TokenInv), so a runner is known by its token;   *)
(* a lock is held from the step that takes it to the one that drops it,    *)
(* or to the crash of its process (LockInv).  With one set of lock files   *)
(* a recovery therefore never meets an owner at work.  Claims need no      *)
(* locks: while no statement fails, an owner that leaves its evaluation    *)
(* has handed its claim back, and one that crashed is still the owner of   *)
(* record, whose claims recovery reopens (ClaimInv).                       *)
(***************************************************************************)
EXTENDS EvaluationProofs

(* Turns and tokens.                                                       *)

\* The steps of a runner between the lock and its release.
LockSteps == Executing \cup {"locked", "failclosed", "handler", "escape", "release"}

\* A runner goes on with the evaluation and the token it has, or is done.
Continues(r) == runner'[r].job = J(r) /\ runner'[r].tok = K(r) /\ ~Step(r, "idle")
Others(r)    == \A s \in Runners \ {r} : runner'[s] = runner[s]
Begins(r, j) == ClaimJobToken(j) /\ Step(r, "idle") /\ StartRun(r, j)

LEMMA RunnerTurn ==
  ASSUME TypeOK, NEW r \in Runners, RunnerWork(r) \/ RunnerError(r)
  PROVE  Others(r) /\ (runner'[r] = IdleRunner \/ Continues(r))
<1>0. runner \in [Runners -> RunnerRow] /\ runner[r] \in RunnerRow
  BY DEF TypeOK
<1> DEFINE Goal == Others(r) /\ (runner'[r] = IdleRunner \/ Continues(r))
<1>1. Leave(r) => Goal
  BY <1>0 DEF Leave, Others
<1>2. ASSUME NEW s, Goto(r, s), ~Step(r, "idle") PROVE Goal
  BY <1>0, <1>2 DEF Goto, Others, Continues, J, K, RunnerRow
<1>3. NextTrial(r) /\ ~Step(r, "idle") => Goal
  BY <1>0 DEF NextTrial, Others, Continues, J, K, RunnerRow
<1>4. ASSUME NEW s, Finish(r, s), ~Step(r, "idle") PROVE Goal
  BY <1>0, <1>4 DEF Finish, Others, Continues, J, K, RunnerRow
<1>5. CASE TryOwnerLock(r)
  BY <1>1, <1>2, <1>5 DEF TryOwnerLock, Step
<1>6. CASE CheckOwner(r)
  <2>1. CASE Goto(r, "release") \/ Goto(r, "failclosed")
    BY <1>2, <1>6, <2>1 DEF CheckOwner, Step
  <2>2. CASE runner' = [runner EXCEPT
             ![r].step = "touch", ![r].at = 1,
             ![r].todo = {p \in Pos : trial[J(r)][p].state \in {"pending", "claimed"}}]
    <3> DEFINE T == {p \in Pos : trial[J(r)][p].state \in {"pending", "claimed"}}
    <3>1. runner' = [runner EXCEPT ![r].step = "touch", ![r].at = 1, ![r].todo = T]
      BY <2>2
    <3>2. ~Step(r, "idle")
      BY <1>6 DEF CheckOwner, Step
    <3> HIDE DEF T
    <3> QED BY <1>0, <3>1, <3>2 DEF Others, Continues, J, K, RunnerRow
  <2> QED BY <1>6, <2>1, <2>2 DEF CheckOwner
<1>7. CASE TouchOwner(r)
  BY <1>2, <1>3, <1>7 DEF TouchOwner, Step
<1>8. CASE CheckCancel(r)
  BY <1>2, <1>4, <1>8 DEF CheckCancel, Step
<1>9. CASE TaskDrifted(r) \/ ClaimPosition(r)
  BY <1>2, <1>3, <1>9 DEF TaskDrifted, ClaimPosition, Step
<1>10. CASE Publish(r) \/ RunRaises(r) \/ GiveClaimBack(r)
  BY <1>2, <1>3, <1>10 DEF Publish, RunRaises, GiveClaimBack, Step
<1>11. CASE WrapUp(r)
  BY <1>4, <1>11 DEF WrapUp, Step
<1>12. CASE Terminate(r)
  BY <1>2, <1>12 DEF Terminate, Step
<1>13. CASE ReleaseLock(r) \/ SafetyNet(r)
  BY <1>1, <1>2, <1>13 DEF ReleaseLock, SafetyNet, Step
<1>14. CASE RunnerError(r)
  BY <1>1, <1>2, <1>14 DEF RunnerError, Step, Executing
<1> QED BY <1>5, <1>6, <1>7, <1>8, <1>9, <1>10, <1>11, <1>12, <1>13, <1>14
        DEF RunnerWork

\* In one step of the system a runner begins, or those at work go on or end.
LEMMA Turns ==
  ASSUME TypeOK, [Next]_vars
  PROVE  \/ \E r \in Runners, j \in Jobs : Begins(r, j)
         \/ \A r \in Runners :
              runner'[r] = runner[r] \/ runner'[r] = IdleRunner \/ Continues(r)
<1> DEFINE Goal == \/ \E r \in Runners, j \in Jobs : Begins(r, j)
                   \/ \A r \in Runners :
                        runner'[r] = runner[r] \/ runner'[r] = IdleRunner \/ Continues(r)
<1>1. UNCHANGED runner => Goal
  OBVIOUS
<1>2. ASSUME NEW r \in Runners, NEW j \in Jobs, DispatchJob(r, j) \/ ClaimNext(r, j)
      PROVE  Goal
  BY <1>1, <1>2 DEF DispatchJob, ClaimNext, Begins
<1>3. ASSUME NEW r \in Runners, RunnerWork(r) \/ RunnerError(r) PROVE Goal
  BY <1>3, RunnerTurn DEF Others
<1>4. ASSUME NEW q \in Procs, Crash(q) PROVE Goal
  BY <1>4 DEF Crash
<1>5. ASSUME NEW q \in Procs, Start(q) \/ FinishRecovery(q) PROVE Goal
  BY <1>1, <1>5 DEF Start, FinishRecovery
<1>6. ASSUME NEW a \in Recoverers, RecoveryWork(a) \/ RecoveryError(a) PROVE Goal
  BY <1>1, <1>6 DEF RecoveryWork, TryRecoveryLock, Decide, ReleaseRecoveryLock, RecoveryError
<1>7. CASE RetryRecovery \/ FinishResume
  BY <1>1, <1>7 DEF RetryRecovery, FinishResume
<1>8. ASSUME NEW j \in Jobs, \/ CreateAndDispatch(j) \/ Cancel(j) \/ Resume(j)
                             \/ ResumeRunning(j) \/ Damage(j)
      PROVE  Goal
  BY <1>1, <1>8 DEF CreateAndDispatch, Cancel, Resume, ResumeRunning, Damage, workerVars
<1>9. CASE UNCHANGED vars
  BY <1>1, <1>9 DEF vars
<1> QED BY <1>2, <1>3, <1>4, <1>5, <1>6, <1>7, <1>8, <1>9 DEF Next

\* A transaction issues a token by claiming the evaluation; no other changes
\* the owner but to take it away.
LEMMA TokenMoves ==
  ASSUME StoreTypeOK, Transaction, NEW j \in Jobs
  PROVE  \/ ClaimJobToken(j)
         \/ /\ job'[j].issued = job[j].issued
            /\ job'[j].owner \in {job[j].owner, None}
<1>0. job \in [Jobs -> JobRow]
  BY DEF StoreTypeOK
<1> DEFINE Goal == \/ ClaimJobToken(j)
                   \/ /\ job'[j].issued = job[j].issued
                      /\ job'[j].owner \in {job[j].owner, None}
<1> SUFFICES Goal
  OBVIOUS
<1>1. UNCHANGED job => Goal
  OBVIOUS
<1>2. CASE JobTransaction
  <2> PICK i \in Jobs :
        \/ CreateFresh(i) \/ \E s \in Jobs : CreateReuse(i, s)
        \/ ClaimJobToken(i) \/ RequestCancel(i) \/ ResumeJob(i) \/ DamageParams(i)
    BY <1>2 DEF JobTransaction
  <2>1. CASE CreateFresh(i) \/ \E s \in Jobs : CreateReuse(i, s)
    BY <1>0, <2>1 DEF CreateFresh, CreateReuse, InsertJob, JobRow
  <2>2. CASE ClaimJobToken(i)
    BY <1>0, <2>2 DEF ClaimJobToken, JobRow
  <2>3. CASE RequestCancel(i) \/ ResumeJob(i) \/ DamageParams(i)
    BY <1>0, <2>3 DEF RequestCancel, ResumeJob, DamageParams, JobRow
  <2> QED BY <2>1, <2>2, <2>3
<1>3. CASE OwnerTransaction
  <2> PICK i \in Jobs, k \in Nat :
        \/ \E s \in Terminal : MarkTerminal(i, k, s)
        \/ RequeueUnlocked(i, k) \/ FailUnverifiableRunningJob(i, k)
        \/ \E S \in SUBSET Pos : MarkTrialsUnverifiable(i, S, k)
    BY <1>3 DEF OwnerTransaction
  <2>1. CASE UNCHANGED job
    BY <1>1, <2>1
  <2>2. ASSUME NEW s, job' = [job EXCEPT ![i].status = s, ![i].owner = None] PROVE Goal
    BY <1>0, <2>2 DEF JobRow
  <2>3. UNCHANGED job \/ \E s : job' = [job EXCEPT ![i].status = s, ![i].owner = None]
    BY DEF MarkTerminal, RequeueUnlocked, FailUnverifiableRunningJob,
       MarkTrialsUnverifiable, storeVars
  <2> QED BY <2>1, <2>2, <2>3
<1>4. CASE TrialTransaction
  BY <1>1, <1>4 DEF TrialTransaction, ClaimTrial, CompleteTrial, ReleaseClaim, storeVars
<1>5. CASE UNCHANGED storeVars
  BY <1>1, <1>5 DEF storeVars
<1> HIDE DEF Goal
<1> QED BY <1>2, <1>3, <1>4, <1>5 DEF Transaction

\* Tokens are issued once: no two runners have the same one, and none has one
\* that was not issued.
TokenInv ==
  /\ \A j \in Jobs : job[j].owner <= job[j].issued
  /\ \A r \in Runners : ~Step(r, "idle") => K(r) # None /\ K(r) <= job[J(r)].issued
  /\ \A r, s \in Runners :
       ~Step(r, "idle") /\ ~Step(s, "idle") /\ J(r) = J(s) /\ K(r) = K(s) => r = s

LEMMA TokenInit == Init => TokenInv
BY DEF Init, StoreInit, TokenInv, Step, IdleRunner, None

LEMMA TokenPreserved ==
  ASSUME Inv, TokenInv, [Next]_vars
  PROVE  TokenInv'
<1>0. /\ job \in [Jobs -> JobRow] /\ job' \in [Jobs -> JobRow]
      /\ runner \in [Runners -> RunnerRow] /\ StoreTypeOK
  BY NextInv DEF Inv, TypeOK, StoreTypeOK
<1>1. ASSUME NEW r \in Runners PROVE K(r) \in Nat /\ (~Step(r, "idle") => J(r) \in Jobs)
  BY <1>0 DEF Inv, RunnerInv, RowOK, RunnerRow, K, J, Step
<1>2. \A j \in Jobs : \/ ClaimJobToken(j)
                      \/ /\ job'[j].issued = job[j].issued
                         /\ job'[j].owner \in {job[j].owner, None}
  BY <1>0, TokenMoves, StepIsTransaction DEF Inv
<1>3. \A j \in Jobs : /\ job[j].issued \in Nat /\ job[j].owner \in Nat
                      /\ job'[j].issued \in Nat /\ job'[j].owner \in Nat
  BY <1>0 DEF JobRow
<1>4. ASSUME NEW j \in Jobs, ClaimJobToken(j)
      PROVE  job'[j].issued = job[j].issued + 1 /\ job'[j].owner = job[j].issued + 1
  BY <1>0, <1>4 DEF ClaimJobToken, JobRow
<1>5. ASSUME NEW j \in Jobs PROVE job'[j].issued >= job[j].issued
  BY <1>2, <1>3, <1>4
<1>6. \A j \in Jobs : job'[j].owner <= job'[j].issued
  BY <1>2, <1>3, <1>4 DEF TokenInv, None
<1>7. CASE \E r \in Runners, j \in Jobs : Begins(r, j)
  <2> PICK r \in Runners, j \in Jobs : Begins(r, j)
    BY <1>7
  <2>1. /\ runner'[r].job = j /\ runner'[r].tok = job[j].issued + 1
        /\ \A s \in Runners \ {r} : runner'[s] = runner[s]
    BY <1>0 DEF Begins, StartRun, IdleRunner
  <2>2. job'[j].issued = job[j].issued + 1
    BY <1>4 DEF Begins
  <2>3. ASSUME NEW s \in Runners, ~(runner'[s].step = "idle")
        PROVE  runner'[s].tok # None /\ runner'[s].tok <= job'[runner'[s].job].issued
    <3>1. CASE s = r
      BY <1>3, <2>1, <2>2, <3>1 DEF None
    <3>2. CASE s # r
      <4>1. ~Step(s, "idle") /\ runner'[s].tok = K(s) /\ runner'[s].job = J(s)
        BY <2>1, <2>3, <3>2 DEF Step, J, K
      <4>2. J(s) \in Jobs /\ K(s) \in Nat /\ K(s) # None /\ K(s) <= job[J(s)].issued
        BY <1>1, <4>1 DEF TokenInv
      <4>3. job'[J(s)].issued >= job[J(s)].issued
        BY <1>5, <4>2
      <4> QED BY <1>3, <4>1, <4>2, <4>3
    <3> QED BY <3>1, <3>2
  <2>4. ASSUME NEW s \in Runners \ {r}, ~(runner'[s].step = "idle"), runner'[s].job = j
        PROVE  runner'[s].tok # job[j].issued + 1
    <3>1. ~Step(s, "idle") /\ runner'[s].tok = K(s) /\ J(s) = j
      BY <2>1, <2>4 DEF Step, J, K
    <3>2. K(s) \in Nat /\ K(s) <= job[j].issued
      BY <1>1, <3>1 DEF TokenInv
    <3> QED BY <1>3, <3>1, <3>2
  <2>5. ASSUME NEW s \in Runners, NEW t \in Runners,
               runner'[s].step # "idle", runner'[t].step # "idle",
               runner'[s].job = runner'[t].job, runner'[s].tok = runner'[t].tok
        PROVE  s = t
    <3>1. CASE s # r /\ t # r
      BY <2>1, <2>5, <3>1 DEF TokenInv, Step, J, K
    <3>2. CASE s = r \/ t = r
      BY <2>1, <2>4, <2>5, <3>2
    <3> QED BY <3>1, <3>2
  <2> QED BY <1>6, <2>3, <2>5 DEF TokenInv, Step, J, K
<1>8. CASE \A r \in Runners :
             runner'[r] = runner[r] \/ runner'[r] = IdleRunner \/ Continues(r)
  <2>1. ASSUME NEW s \in Runners, runner'[s].step # "idle"
        PROVE  ~Step(s, "idle") /\ runner'[s].tok = K(s) /\ runner'[s].job = J(s)
    BY <1>8, <2>1 DEF Continues, Step, J, K, IdleRunner
  <2>2. ASSUME NEW s \in Runners, runner'[s].step # "idle"
        PROVE  runner'[s].tok # None /\ runner'[s].tok <= job'[runner'[s].job].issued
    <3>1. ~Step(s, "idle") /\ runner'[s].tok = K(s) /\ runner'[s].job = J(s)
      BY <2>1, <2>2
    <3>2. J(s) \in Jobs /\ K(s) \in Nat /\ K(s) # None /\ K(s) <= job[J(s)].issued
      BY <1>1, <3>1 DEF TokenInv
    <3>3. job'[J(s)].issued >= job[J(s)].issued
      BY <1>5, <3>2
    <3> QED BY <1>3, <3>1, <3>2, <3>3
  <2>3. ASSUME NEW s \in Runners, NEW t \in Runners,
               runner'[s].step # "idle", runner'[t].step # "idle",
               runner'[s].job = runner'[t].job, runner'[s].tok = runner'[t].tok
        PROVE  s = t
    BY <2>1, <2>3 DEF TokenInv
  <2> QED BY <1>6, <2>2, <2>3 DEF TokenInv, Step, J, K
<1> QED BY <1>7, <1>8, Turns DEF Inv

----------------------------------------------------------------------------
(* Locks.                                                                  *)

\* A polling worker recovers before it works, and does not do both.
PhaseInv ==
  \A q \in Pollers : /\ ~Step(q, "idle") => phase[q] = "up"
                     /\ rec[q].step # "idle" => phase[q] = "recovering"

HeldByRunner   == \A r \in Runners : runner[r].step \in LockSteps => lock[Slot(r, J(r))] = r
HeldByRecovery ==
  \A a \in Recoverers : rec[a].step \in {"decide", "release"} => lock[Slot(a, rec[a].job)] = a

LockInv == PhaseInv /\ HeldByRunner /\ HeldByRecovery

LEMMA LockInit == Init => LockInv
BY DEF Init, LockInv, PhaseInv, HeldByRunner, HeldByRecovery, IdleRunner, IdleRec, Step,
   Procs, Recoverers, Runners, LockSteps, Executing

LEMMA PhasePreserved ==
  ASSUME TypeOK, RecInv, PhaseInv, [Next]_vars
  PROVE  PhaseInv'
<1> SUFFICES ASSUME NEW q \in Pollers
             PROVE  /\ runner'[q].step # "idle" => phase'[q] = "up"
                    /\ rec'[q].step # "idle" => phase'[q] = "recovering"
  BY DEF PhaseInv, Step
<1> DEFINE Goal == /\ runner'[q].step # "idle" => phase'[q] = "up"
                   /\ rec'[q].step # "idle" => phase'[q] = "recovering"
<1>0. /\ q \in Runners /\ q \in Procs /\ q \in Recoverers /\ Host(q) = q
      /\ q # Api /\ q # Resumer /\ q \notin Dispatchers
      /\ runner \in [Runners -> RunnerRow] /\ phase \in [Procs -> {"down", "recovering", "up"}]
      /\ rec \in [Recoverers -> RecRow]
  BY WorkerAssumption DEF Runners, Procs, Recoverers, Host, TypeOK
<1>1. ASSUME UNCHANGED phase, runner'[q].step = "idle" \/ ~Step(q, "idle"),
             rec'[q].step = "idle" \/ rec[q].step # "idle"
      PROVE  Goal
  BY <1>1 DEF PhaseInv
<1>2. UNCHANGED <<runner, phase, rec>> => Goal
  BY <1>1 DEF Step
<1>3. ASSUME NEW r \in Runners, NEW j \in Jobs, DispatchJob(r, j) \/ ClaimNext(r, j)
      PROVE  Goal
  <2>1. UNCHANGED <<phase, rec>>
    BY <1>3 DEF DispatchJob, ClaimNext, OnlyRunner
  <2>2. runner'[q] = runner[q] \/ phase[q] = "up"
    BY <1>0, <1>3 DEF DispatchJob, ClaimNext, StartRun
  <2> QED BY <2>1, <2>2 DEF PhaseInv, Step
<1>4. ASSUME NEW r \in Runners, RunnerWork(r) \/ RunnerError(r) PROVE Goal
  <2>1. UNCHANGED <<phase, rec>>
    BY <1>4 DEF RunnerWork, TryOwnerLock, CheckOwner, TouchOwner, CheckCancel,
       TaskDrifted, ClaimPosition, Publish, RunRaises, GiveClaimBack, WrapUp, Terminate,
       ReleaseLock, SafetyNet, OnlyRunner, RunnerError
  <2>2. runner'[q].step = "idle" \/ runner'[q] = runner[q] \/ ~Step(q, "idle")
    BY <1>0, <1>4, RunnerTurn DEF Others, Continues, IdleRunner
  <2> QED BY <2>1, <2>2 DEF PhaseInv, Step
<1>5. ASSUME NEW p \in Procs, Crash(p) PROVE Goal
  <2>1. CASE p = q
    BY <1>0, <1>5, <2>1 DEF Crash, IdleRunner, IdleRec
  <2>2. CASE p # q
    BY <1>0, <1>2, <1>5, <2>2 DEF Crash, PhaseInv, Step
  <2> QED BY <2>1, <2>2
<1>6. ASSUME NEW p \in Procs, Start(p) \/ FinishRecovery(p) PROVE Goal
  <2>1. UNCHANGED runner
    BY <1>6 DEF Start, FinishRecovery
  <2>2. CASE p # q
    BY <1>0, <1>6, <2>1, <2>2 DEF Start, FinishRecovery, EndRec, PhaseInv, Step
  <2>3. CASE p = q /\ Start(p)
    BY <1>0, <2>1, <2>3 DEF Start, PhaseInv, Step
  <2>4. CASE p = q /\ FinishRecovery(p)
    <3>1. rec'[q].step = "idle" /\ phase'[q] = "up"
      BY <1>0, <2>4 DEF FinishRecovery, EndRec, IdleRec
    <3> QED BY <3>1
  <2> QED BY <1>6, <2>2, <2>3, <2>4
<1>7. ASSUME NEW a \in Recoverers, RecoveryWork(a) \/ RecoveryError(a) PROVE Goal
  <2>1. UNCHANGED <<runner, phase>>
    BY <1>7 DEF RecoveryWork, RecoveryError, TryRecoveryLock, Decide, ReleaseRecoveryLock
  <2>2. rec'[q] = rec[q] \/ rec[q].step # "idle"
    BY <1>0, <1>7 DEF RecoveryWork, RecoveryError, TryRecoveryLock, Decide, ReleaseRecoveryLock
  <2> QED BY <1>1, <2>1, <2>2 DEF Step, PhaseInv
<1>8. CASE RetryRecovery \/ FinishResume
  <2>1. UNCHANGED <<runner, phase>> /\ rec'[q] = rec[q]
    BY <1>0, <1>8 DEF RetryRecovery, FinishResume, EndRec
  <2> QED BY <2>1 DEF PhaseInv, Step
<1>9. ASSUME NEW j \in Jobs, \/ CreateAndDispatch(j) \/ Cancel(j) \/ Resume(j)
                             \/ ResumeRunning(j) \/ Damage(j)
      PROVE  Goal
  <2>1. UNCHANGED <<runner, phase>> /\ rec'[q] = rec[q]
    BY <1>0, <1>9 DEF CreateAndDispatch, Cancel, Resume, ResumeRunning, Damage, workerVars
  <2> QED BY <2>1 DEF PhaseInv, Step
<1>10. CASE UNCHANGED vars
  BY <1>2, <1>10 DEF vars
<1> QED BY <1>3, <1>4, <1>5, <1>6, <1>7, <1>8, <1>9, <1>10 DEF Next

\* A lock that is held stays so until its holder lets it go or crashes.
LEMMA LocksKept ==
  ASSUME TypeOK, RunnerInv, RecInv, [Next]_vars,
         NEW x \in Spaces \X Jobs, NEW h \in Runners \cup Recoverers, lock[x] = h
  PROVE  \/ lock'[x] = h
         \/ h \in Runners /\ ReleaseLock(h)
         \/ h \in Recoverers /\ ReleaseRecoveryLock(h)
         \/ \E q \in Procs : Host(h) = q /\ Crash(q)
<1> DEFINE Goal == \/ lock'[x] = h
                   \/ h \in Runners /\ ReleaseLock(h)
                   \/ h \in Recoverers /\ ReleaseRecoveryLock(h)
                   \/ \E q \in Procs : Host(h) = q /\ Crash(q)
<1> SUFFICES Goal
  OBVIOUS
<1>0. /\ lock \in [Spaces \X Jobs -> Runners \cup Recoverers \cup {Free}] /\ h # Free
  BY WorkerAssumption DEF TypeOK
<1>1. UNCHANGED lock => Goal
  OBVIOUS
<1>2. ASSUME NEW a, NEW j, TakeLock(a, j) PROVE lock'[x] = h
  BY <1>0, <1>2 DEF TakeLock
<1>3. ASSUME NEW a, NEW j, DropLock(a, j), a # h PROVE lock'[x] = h
  BY <1>0, <1>3 DEF DropLock
<1>4. ASSUME NEW r \in Runners, RunnerWork(r) PROVE Goal
  <2>1. CASE ReleaseLock(r)
    BY <1>3, <2>1 DEF ReleaseLock
  <2>2. CASE TryOwnerLock(r)
    BY <1>1, <1>2, <2>2 DEF TryOwnerLock
  <2>3. CASE ~ReleaseLock(r) /\ ~TryOwnerLock(r)
    BY <1>1, <1>4, <2>3 DEF RunnerWork, CheckOwner, TouchOwner, CheckCancel,
       TaskDrifted, ClaimPosition, Publish, RunRaises, GiveClaimBack, WrapUp, Terminate,
       SafetyNet, OnlyRunner
  <2> QED BY <2>1, <2>2, <2>3
<1>5. ASSUME NEW a \in Recoverers, RecoveryWork(a) \/ RecoveryError(a) PROVE Goal
  <2>1. CASE ReleaseRecoveryLock(a)
    BY <1>3, <2>1 DEF ReleaseRecoveryLock
  <2>2. CASE \E j \in Jobs : TryRecoveryLock(a, j)
    BY <1>1, <1>2, <2>2 DEF TryRecoveryLock
  <2>3. CASE Decide(a) \/ RecoveryError(a)
    BY <1>1, <2>3 DEF Decide, RecoveryError
  <2> QED BY <1>5, <2>1, <2>2, <2>3 DEF RecoveryWork
<1>6. ASSUME NEW q \in Procs, Crash(q) PROVE Goal
  BY <1>0, <1>6 DEF Crash
<1>7. ASSUME NEW q \in Procs, Start(q) \/ FinishRecovery(q) PROVE Goal
  BY <1>1, <1>7 DEF Start, FinishRecovery
<1>8. ASSUME NEW r \in Runners, NEW j \in Jobs, DispatchJob(r, j) \/ ClaimNext(r, j)
      PROVE  Goal
  BY <1>1, <1>8 DEF DispatchJob, ClaimNext, OnlyRunner
<1>9. ASSUME NEW r \in Runners, RunnerError(r) PROVE Goal
  BY <1>1, <1>9 DEF RunnerError
<1>10. CASE RetryRecovery \/ FinishResume
  BY <1>1, <1>10 DEF RetryRecovery, FinishResume
<1>11. ASSUME NEW j \in Jobs, \/ CreateAndDispatch(j) \/ Cancel(j) \/ Resume(j)
                              \/ ResumeRunning(j) \/ Damage(j)
       PROVE  Goal
  BY <1>1, <1>11 DEF CreateAndDispatch, Cancel, Resume, ResumeRunning, Damage, workerVars
<1>12. CASE UNCHANGED vars
  BY <1>1, <1>12 DEF vars
<1> HIDE DEF Goal
<1> QED BY <1>4, <1>5, <1>6, <1>7, <1>8, <1>9, <1>10, <1>11, <1>12 DEF Next

\* A runner is between the lock and its release because it has just taken the
\* lock, or was there before and goes on with the same evaluation.
LEMMA RunnerInLock ==
  ASSUME TypeOK, RunnerInv, [Next]_vars, NEW r \in Runners, runner'[r].step \in LockSteps
  PROVE  \/ Step(r, "claimed") /\ TakeLock(r, J(r)) /\ Continues(r)
         \/ /\ runner[r].step \in LockSteps /\ runner'[r].job = J(r)
            /\ ~ReleaseLock(r) /\ ~ \E q \in Procs : Host(r) = q /\ Crash(q)
<1>0. /\ runner \in [Runners -> RunnerRow] /\ runner[r] \in RunnerRow
      /\ IdleRunner.step \notin LockSteps
  BY DEF TypeOK, IdleRunner, LockSteps, Executing
<1> DEFINE Goal ==
      \/ Step(r, "claimed") /\ TakeLock(r, J(r)) /\ Continues(r)
      \/ /\ runner[r].step \in LockSteps /\ runner'[r].job = J(r)
         /\ ~ReleaseLock(r) /\ ~ \E q \in Procs : Host(r) = q /\ Crash(q)
<1> SUFFICES Goal
  OBVIOUS
<1>1. ~ReleaseLock(r)
  BY <1>0 DEF ReleaseLock, Goto, Leave, LockSteps, Executing, RunnerRow
<1>2. ~ \E q \in Procs : Host(r) = q /\ Crash(q)
  BY <1>0 DEF Crash
<1>3. ASSUME runner'[r] = runner[r] PROVE Goal
  BY <1>1, <1>2, <1>3 DEF J
<1>4. ASSUME RunnerWork(r) \/ RunnerError(r) PROVE Goal
  <2>1. Continues(r)
    BY <1>0, <1>4, RunnerTurn
  <2>2. ASSUME runner[r].step \in LockSteps PROVE Goal
    BY <1>1, <1>2, <2>1, <2>2 DEF Continues
  <2>3. CASE TryOwnerLock(r)
    <3>1. ~Leave(r)
      BY <1>0 DEF Leave
    <3> QED BY <2>1, <2>3, <3>1 DEF TryOwnerLock
  <2>4. ~SafetyNet(r)
    BY <1>0 DEF SafetyNet, Leave
  <2>5. CASE RunnerError(r)
    <3>1. ~Leave(r) /\ ~Goto(r, "net")
      BY <1>0 DEF Leave, Goto, LockSteps, Executing, RunnerRow
    <3>2. runner[r].step \in LockSteps
      BY <2>5, <3>1 DEF RunnerError, LockSteps
    <3> QED BY <2>2, <3>2
  <2>6. CASE RunnerWork(r) /\ ~TryOwnerLock(r)
    <3>1. runner[r].step \in LockSteps
      BY <1>1, <2>4, <2>6 DEF RunnerWork, CheckOwner, TouchOwner, CheckCancel, TaskDrifted,
         ClaimPosition, Publish, RunRaises, GiveClaimBack, WrapUp, Terminate, Step, LockSteps,
         Executing
    <3> QED BY <2>2, <3>1
  <2> QED BY <1>4, <2>3, <2>5, <2>6
<1>5. ASSUME NEW s \in Runners, RunnerWork(s) \/ RunnerError(s) PROVE Goal
  BY <1>3, <1>4, <1>5, RunnerTurn DEF Others
<1>6. ASSUME NEW s \in Runners, NEW j \in Jobs, DispatchJob(s, j) \/ ClaimNext(s, j)
      PROVE  Goal
  <2>1. UNCHANGED runner \/ StartRun(s, j)
    BY <1>6 DEF DispatchJob, ClaimNext
  <2>2. CASE StartRun(s, j)
    BY <1>0, <1>3, <2>2 DEF StartRun, IdleRunner, LockSteps, Executing
  <2> QED BY <1>3, <2>1, <2>2
<1>7. ASSUME NEW q \in Procs, Crash(q) PROVE Goal
  BY <1>0, <1>3, <1>7 DEF Crash
<1>8. ASSUME UNCHANGED runner PROVE Goal
  BY <1>3, <1>8
<1>9. ASSUME NEW q \in Procs, Start(q) \/ FinishRecovery(q) PROVE Goal
  BY <1>8, <1>9 DEF Start, FinishRecovery
<1>10. ASSUME NEW a \in Recoverers, RecoveryWork(a) \/ RecoveryError(a) PROVE Goal
  BY <1>8, <1>10 DEF RecoveryWork, TryRecoveryLock, Decide, ReleaseRecoveryLock, RecoveryError
<1>11. CASE RetryRecovery \/ FinishResume
  BY <1>8, <1>11 DEF RetryRecovery, FinishResume
<1>12. ASSUME NEW j \in Jobs, \/ CreateAndDispatch(j) \/ Cancel(j) \/ Resume(j)
                              \/ ResumeRunning(j) \/ Damage(j)
       PROVE  Goal
  BY <1>8, <1>12 DEF CreateAndDispatch, Cancel, Resume, ResumeRunning, Damage, workerVars
<1>13. CASE UNCHANGED vars
  BY <1>8, <1>13 DEF vars
<1> HIDE DEF Goal
<1> QED BY <1>5, <1>6, <1>7, <1>9, <1>10, <1>11, <1>12, <1>13 DEF Next

\* So is a recovery.
LEMMA RecoveryInLock ==
  ASSUME TypeOK, RecInv, [Next]_vars, NEW a \in Recoverers,
         rec'[a].step \in {"decide", "release"}
  PROVE  \/ TakeLock(a, rec'[a].job) /\ rec'[a].job \in Jobs
         \/ /\ rec[a].step \in {"decide", "release"} /\ rec'[a].job = rec[a].job
            /\ ~ReleaseRecoveryLock(a) /\ ~ \E q \in Procs : Host(a) = q /\ Crash(q)
<1>0. rec \in [Recoverers -> RecRow] /\ rec[a] \in RecRow
  BY DEF TypeOK
<1> DEFINE Goal ==
      \/ TakeLock(a, rec'[a].job) /\ rec'[a].job \in Jobs
      \/ /\ rec[a].step \in {"decide", "release"} /\ rec'[a].job = rec[a].job
         /\ ~ReleaseRecoveryLock(a) /\ ~ \E q \in Procs : Host(a) = q /\ Crash(q)
<1> SUFFICES Goal
  OBVIOUS
<1>1. ~ReleaseRecoveryLock(a)
  BY <1>0 DEF ReleaseRecoveryLock, RecRow
<1>2. ~ \E q \in Procs : Host(a) = q /\ Crash(q)
  BY <1>0 DEF Crash, IdleRec
<1>3. ASSUME rec'[a] = rec[a] PROVE Goal
  BY <1>1, <1>2, <1>3
<1>4. UNCHANGED rec => Goal
  BY <1>3
<1>5. ASSUME NEW S PROVE Sweep(S).step = "sweep"
  BY DEF Sweep, IdleRec
<1>6. ASSUME NEW b \in Recoverers, RecoveryWork(b) \/ RecoveryError(b) PROVE Goal
  <2>1. CASE b # a
    <3>1. rec'[a] = rec[a]
      BY <1>0, <1>6, <2>1
      DEF RecoveryWork, TryRecoveryLock, Decide, ReleaseRecoveryLock, RecoveryError
    <3> QED BY <1>3, <3>1
  <2>2. ASSUME NEW j \in Jobs, TryRecoveryLock(a, j) PROVE Goal
    <3>1. CASE rec' = [rec EXCEPT ![a].seen[j] = 0]
      <4>1. rec'[a].step = rec[a].step
        BY <1>0, <3>1 DEF RecRow
      <4> QED BY <2>2, <4>1 DEF TryRecoveryLock
    <3>2. CASE TakeLock(a, j) /\ rec' = [rec EXCEPT ![a].step = "decide", ![a].job = j]
      <4>1. rec'[a].job = j
        BY <1>0, <3>2 DEF RecRow
      <4> QED BY <3>2, <4>1
    <3> QED BY <2>2, <3>1, <3>2 DEF TryRecoveryLock
  <2>3. CASE Decide(a) \/ RecoveryError(a)
    <3>1. rec'[a].job = rec[a].job
      BY <1>0, <2>3 DEF Decide, RecoveryError, RecRow
    <3>2. rec[a].step = "decide"
      BY <2>3 DEF Decide, RecoveryError
    <3> QED BY <1>1, <1>2, <3>1, <3>2
  <2> QED BY <1>1, <1>6, <2>1, <2>2, <2>3 DEF RecoveryWork
<1>7. ASSUME NEW q \in Procs, Crash(q) PROVE Goal
  BY <1>0, <1>3, <1>7 DEF Crash, IdleRec
<1>8. ASSUME NEW q \in Procs, Start(q) PROVE Goal
  BY <1>0, <1>3, <1>5, <1>8 DEF Start
<1>9. ASSUME NEW b \in Recoverers, EndRec(b) PROVE Goal
  BY <1>0, <1>3, <1>9 DEF EndRec, IdleRec
<1>10. ASSUME NEW q \in Procs, FinishRecovery(q) PROVE Goal
  BY <1>9, <1>10 DEF FinishRecovery, Recoverers
<1>11. CASE RetryRecovery
  BY <1>0, <1>3, <1>5, <1>11 DEF RetryRecovery
<1>12. CASE FinishResume
  BY <1>9, <1>12 DEF FinishResume, Recoverers
<1>13. ASSUME NEW j \in Jobs, ResumeRunning(j) PROVE Goal
  BY <1>0, <1>3, <1>5, <1>13 DEF ResumeRunning
<1>14. ASSUME NEW j \in Jobs, CreateAndDispatch(j) \/ Cancel(j) \/ Resume(j) \/ Damage(j)
       PROVE  Goal
  BY <1>4, <1>14 DEF CreateAndDispatch, Cancel, Resume, Damage, workerVars
<1>15. ASSUME NEW r \in Runners, RunnerWork(r) \/ RunnerError(r) PROVE Goal
  <2>1. UNCHANGED rec
    BY <1>15 DEF RunnerWork, TryOwnerLock, CheckOwner, TouchOwner, CheckCancel,
       TaskDrifted, ClaimPosition, Publish, RunRaises, GiveClaimBack, WrapUp, Terminate,
       ReleaseLock, SafetyNet, OnlyRunner, RunnerError
  <2> QED BY <1>4, <2>1
<1>16. ASSUME NEW r \in Runners, NEW j \in Jobs, DispatchJob(r, j) \/ ClaimNext(r, j)
       PROVE  Goal
  BY <1>4, <1>16 DEF DispatchJob, ClaimNext, OnlyRunner
<1>17. CASE UNCHANGED vars
  BY <1>4, <1>17 DEF vars
<1> HIDE DEF Goal
<1> QED BY <1>6, <1>7, <1>8, <1>10, <1>11, <1>12, <1>13, <1>14, <1>15, <1>16, <1>17 DEF Next

LEMMA LockPreserved ==
  ASSUME Inv, LockInv, [Next]_vars
  PROVE  LockInv'
<1>0. /\ TypeOK /\ RunnerInv /\ RecInv /\ PhaseInv /\ HeldByRunner /\ HeldByRecovery
      /\ TypeOK' /\ RunnerInv'
  BY NextInv DEF Inv, LockInv
<1>1. PhaseInv'
  BY <1>0, PhasePreserved
<1>2. ASSUME NEW a \in Runners \cup Recoverers, NEW j \in Jobs
      PROVE  Slot(a, j) \in Spaces \X Jobs
  BY DEF Slot, Spaces, Host, Procs
<1>3. ASSUME NEW a \in Runners \cup Recoverers, NEW j \in Jobs, TakeLock(a, j)
      PROVE  lock'[Slot(a, j)] = a
  BY <1>0, <1>2, <1>3 DEF TakeLock, TypeOK
<1>4. ASSUME NEW r \in Runners, r \in Recoverers PROVE r \in Pollers
  BY <1>4, WorkerAssumption DEF Recoverers, Procs, Runners
<1>5. ASSUME NEW r \in Runners, runner'[r].step \in LockSteps
      PROVE  lock'[Slot(r, runner'[r].job)] = r
  <2>1. CASE Step(r, "claimed") /\ TakeLock(r, J(r)) /\ Continues(r)
    <3>1. J(r) \in Jobs
      BY <1>0, <2>1 DEF RunnerInv, RowOK, Step, J
    <3> QED BY <1>3, <2>1, <3>1 DEF Continues
  <2>2. CASE /\ runner[r].step \in LockSteps /\ runner'[r].job = J(r)
             /\ ~ReleaseLock(r) /\ ~ \E q \in Procs : Host(r) = q /\ Crash(q)
    <3>1. J(r) \in Jobs /\ ~Step(r, "idle")
      BY <1>0, <2>2 DEF RunnerInv, RowOK, Step, J, LockSteps, Executing
    <3>2. lock[Slot(r, J(r))] = r
      BY <1>0, <2>2 DEF HeldByRunner
    <3>3. ~(r \in Recoverers /\ ReleaseRecoveryLock(r))
      <4> SUFFICES ASSUME r \in Pollers PROVE ~ReleaseRecoveryLock(r)
        BY <1>4
      <4>2. rec[r].step = "idle"
        BY <1>0, <3>1 DEF PhaseInv
      <4> QED BY <4>2 DEF ReleaseRecoveryLock
    <3> QED BY <1>0, <1>2, <2>2, <3>1, <3>2, <3>3, LocksKept
  <2> QED BY <1>0, <1>5, <2>1, <2>2, RunnerInLock
<1>6. ASSUME NEW a \in Recoverers, rec'[a].step \in {"decide", "release"}
      PROVE  lock'[Slot(a, rec'[a].job)] = a
  <2>1. CASE TakeLock(a, rec'[a].job) /\ rec'[a].job \in Jobs
    BY <1>3, <2>1
  <2>2. CASE /\ rec[a].step \in {"decide", "release"} /\ rec'[a].job = rec[a].job
             /\ ~ReleaseRecoveryLock(a) /\ ~ \E q \in Procs : Host(a) = q /\ Crash(q)
    <3>1. rec[a].job \in Jobs
      BY <1>0, <2>2 DEF RecInv
    <3>2. lock[Slot(a, rec[a].job)] = a
      BY <1>0, <2>2 DEF HeldByRecovery
    <3>3. ~(a \in Runners /\ ReleaseLock(a))
      <4> SUFFICES ASSUME a \in Pollers PROVE ~ReleaseLock(a)
        BY <1>4
      <4>2. Step(a, "idle")
        BY <1>0, <2>2 DEF PhaseInv
      <4> QED BY <4>2 DEF ReleaseLock, Step
    <3> QED BY <1>0, <1>2, <2>2, <3>1, <3>2, <3>3, LocksKept
  <2> QED BY <1>0, <1>6, <2>1, <2>2, RecoveryInLock
<1>7. HeldByRunner'
  <2>1. \A r \in Runners : runner'[r].step \in LockSteps => lock'[Slot(r, runner'[r].job)] = r
    BY <1>5
  <2> QED BY <2>1 DEF HeldByRunner, J, Slot
<1>8. HeldByRecovery'
  <2>1. \A a \in Recoverers : rec'[a].step \in {"decide", "release"}
                              => lock'[Slot(a, rec'[a].job)] = a
    BY <1>6
  <2> QED BY <2>1 DEF HeldByRecovery, Slot
<1> QED BY <1>1, <1>7, <1>8 DEF LockInv

----------------------------------------------------------------------------
(* Live owners.                                                            *)

\* A runner executes because it has just found itself the owner, or did so
\* before and goes on.
LEMMA RunnerExecutes ==
  ASSUME TypeOK, RunnerInv, [Next]_vars, NEW r \in Runners, runner'[r].step \in Executing
  PROVE  \/ Fenced(J(r), K(r)) /\ UNCHANGED storeVars /\ Continues(r)
         \/ /\ runner[r].step \in Executing
            /\ runner'[r].job = J(r) /\ runner'[r].tok = K(r)
<1>0. /\ runner \in [Runners -> RunnerRow] /\ runner[r] \in RunnerRow
      /\ IdleRunner.step \notin Executing
  BY DEF TypeOK, IdleRunner, Executing
<1> DEFINE Goal ==
      \/ Fenced(J(r), K(r)) /\ UNCHANGED storeVars /\ Continues(r)
      \/ /\ runner[r].step \in Executing
         /\ runner'[r].job = J(r) /\ runner'[r].tok = K(r)
<1> SUFFICES Goal
  OBVIOUS
<1>1. ASSUME runner'[r] = runner[r] PROVE Goal
  BY <1>1 DEF J, K
<1>2. ASSUME RunnerWork(r) \/ RunnerError(r) PROVE Goal
  <2>1. Continues(r)
    BY <1>0, <1>2, RunnerTurn
  <2>2. ASSUME runner[r].step \in Executing PROVE Goal
    BY <2>1, <2>2 DEF Continues
  <2>3. ~Leave(r)
    BY <1>0 DEF Leave
  <2>4. ASSUME NEW s \in {"locked", "failclosed", "handler", "escape", "net", "release"}
        PROVE  ~Goto(r, s)
    BY <1>0 DEF Goto, Executing, RunnerRow
  <2>5. CASE CheckOwner(r)
    BY <2>1, <2>4, <2>5 DEF CheckOwner
  <2>6. ~TryOwnerLock(r) /\ ~SafetyNet(r) /\ ~ReleaseLock(r) /\ ~Terminate(r)
    BY <2>3, <2>4 DEF TryOwnerLock, SafetyNet, ReleaseLock, Terminate
  <2>7. CASE RunnerError(r)
    <3>1. runner[r].step \in Executing \cup {"handler", "locked", "failclosed"}
      BY <2>3, <2>4, <2>7 DEF RunnerError
    <3>2. Goto(r, OnError(runner[r].step))
      BY <2>3, <2>4, <2>7 DEF RunnerError
    <3>3. runner[r].step \notin {"handler", "locked", "failclosed"}
      BY <2>4, <3>2 DEF OnError
    <3> QED BY <2>2, <3>1, <3>3
  <2>8. CASE RunnerWork(r) /\ ~CheckOwner(r)
    <3>1. runner[r].step \in Executing
      BY <2>6, <2>8 DEF RunnerWork, TouchOwner, CheckCancel, TaskDrifted, ClaimPosition,
         Publish, RunRaises, GiveClaimBack, WrapUp, Step, Executing
    <3> QED BY <2>2, <3>1
  <2> QED BY <1>2, <2>5, <2>7, <2>8
<1>3. ASSUME NEW s \in Runners, RunnerWork(s) \/ RunnerError(s) PROVE Goal
  BY <1>1, <1>2, <1>3, RunnerTurn DEF Others
<1>4. ASSUME NEW s \in Runners, NEW j \in Jobs, DispatchJob(s, j) \/ ClaimNext(s, j)
      PROVE  Goal
  <2>1. UNCHANGED runner \/ StartRun(s, j)
    BY <1>4 DEF DispatchJob, ClaimNext
  <2>2. CASE StartRun(s, j)
    BY <1>0, <1>1, <2>2 DEF StartRun, IdleRunner, Executing
  <2> QED BY <1>1, <2>1, <2>2
<1>5. ASSUME NEW q \in Procs, Crash(q) PROVE Goal
  BY <1>0, <1>1, <1>5 DEF Crash
<1>6. ASSUME UNCHANGED runner PROVE Goal
  BY <1>1, <1>6
<1>7. ASSUME NEW q \in Procs, Start(q) \/ FinishRecovery(q) PROVE Goal
  BY <1>6, <1>7 DEF Start, FinishRecovery
<1>8. ASSUME NEW a \in Recoverers, RecoveryWork(a) \/ RecoveryError(a) PROVE Goal
  BY <1>6, <1>8 DEF RecoveryWork, TryRecoveryLock, Decide, ReleaseRecoveryLock, RecoveryError
<1>9. CASE RetryRecovery \/ FinishResume
  BY <1>6, <1>9 DEF RetryRecovery, FinishResume
<1>10. ASSUME NEW j \in Jobs, \/ CreateAndDispatch(j) \/ Cancel(j) \/ Resume(j)
                              \/ ResumeRunning(j) \/ Damage(j)
       PROVE  Goal
  BY <1>6, <1>10 DEF CreateAndDispatch, Cancel, Resume, ResumeRunning, Damage, workerVars
<1>11. CASE UNCHANGED vars
  BY <1>6, <1>11 DEF vars
<1> HIDE DEF Goal
<1> QED BY <1>3, <1>4, <1>5, <1>7, <1>8, <1>9, <1>10, <1>11 DEF Next

\* An ownership ends by the hand of a runner that has its token, and executes
\* no more, or of a recovery.
LEMMA OwnershipEnds ==
  ASSUME TypeOK, RunnerInv, RecInv, [Next]_vars, NEW j \in Jobs, NEW k,
         Fenced(j, k), ~(job'[j].status = "running" /\ job'[j].owner = k)
  PROVE  \/ \E r \in Runners : /\ J(r) = j /\ K(r) = k /\ ~Step(r, "idle")
                               /\ runner'[r].step \notin Executing
         \/ \E a \in Recoverers : rec[a].step = "decide" /\ rec[a].job = j
<1>0. /\ job \in [Jobs -> JobRow] /\ runner \in [Runners -> RunnerRow]
      /\ job[j].status = "running" /\ job[j].owner = k /\ job' # job
  BY DEF TypeOK, StoreTypeOK, Fenced
<1> DEFINE Goal ==
      \/ \E r \in Runners : /\ J(r) = j /\ K(r) = k /\ ~Step(r, "idle")
                            /\ runner'[r].step \notin Executing
      \/ \E a \in Recoverers : rec[a].step = "decide" /\ rec[a].job = j
<1> SUFFICES Goal
  OBVIOUS
<1>1. ASSUME NEW i, NEW h, NEW s, MarkTerminal(i, h, s) PROVE i = j /\ h = k
  BY <1>0, <1>1 DEF MarkTerminal, Fenced, storeVars
<1>2. ASSUME NEW r \in Runners, RunnerWork(r) PROVE Goal
  <2>1. CASE TryOwnerLock(r)
    <3>1. MarkTerminal(J(r), K(r), "failed") /\ Leave(r) /\ Step(r, "claimed")
      BY <1>0, <2>1 DEF TryOwnerLock, storeVars
    <3> QED BY <1>0, <1>1, <3>1 DEF Leave, IdleRunner, Executing, Step
  <2>2. CASE Terminate(r)
    <3>1. \E s : MarkTerminal(J(r), K(r), s)
      BY <2>2 DEF Terminate
    <3>2. Goto(r, "release") /\ ~Step(r, "idle")
      BY <2>2 DEF Terminate, Step
    <3>3. runner'[r].step \notin Executing
      BY <1>0, <3>2 DEF Goto, Executing, RunnerRow
    <3> QED BY <1>1, <3>1, <3>2, <3>3
  <2>3. CASE SafetyNet(r)
    <3>1. MarkTerminal(J(r), K(r), "failed") /\ Leave(r) /\ ~Step(r, "idle")
      BY <2>3 DEF SafetyNet, Step
    <3> QED BY <1>0, <1>1, <3>1 DEF Leave, IdleRunner, Executing, Step
  <2>4. UNCHANGED job \/ TryOwnerLock(r) \/ Terminate(r) \/ SafetyNet(r)
    BY <1>2 DEF RunnerWork, CheckOwner, TouchOwner, CheckCancel, TaskDrifted, ClaimPosition,
       Publish, RunRaises, GiveClaimBack, WrapUp, ReleaseLock, MarkTrialsUnverifiable,
       ClaimTrial, CompleteTrial, ReleaseClaim, storeVars
  <2> QED BY <1>0, <2>1, <2>2, <2>3, <2>4
<1>3. ASSUME NEW r \in Runners, NEW i \in Jobs PROVE ~(DispatchJob(r, i) \/ ClaimNext(r, i))
  <2>1. ~ClaimJobToken(i)
    BY <1>0 DEF ClaimJobToken, JobRow
  <2> QED BY <1>0, <2>1 DEF DispatchJob, ClaimNext, storeVars
<1>4. ~ \E r \in Runners : RunnerError(r)
  BY <1>0 DEF RunnerError
<1>5. ~ \E q \in Procs : Start(q) \/ FinishRecovery(q) \/ Crash(q)
  BY <1>0 DEF Start, FinishRecovery, Crash, storeVars
<1>6. ASSUME NEW a \in Recoverers, RecoveryWork(a) \/ RecoveryError(a) PROVE Goal
  <2>1. Decide(a)
    BY <1>0, <1>6 DEF RecoveryWork, RecoveryError, TryRecoveryLock, ReleaseRecoveryLock
  <2>2. ASSUME NEW i, NEW h, RequeueUnlocked(i, h) \/ FailUnverifiableRunningJob(i, h)
        PROVE  i = j
    BY <1>0, <2>2 DEF RequeueUnlocked, FailUnverifiableRunningJob
  <2>3. rec[a].step = "decide" /\ rec[a].job = j
    BY <1>0, <2>1, <2>2 DEF Decide, storeVars
  <2> QED BY <2>3
<1>7. ~RetryRecovery /\ ~FinishResume
  BY <1>0 DEF RetryRecovery, FinishResume, ResumeJob, ResumableStatus, storeVars, JobRow
<1>8. ASSUME NEW i \in Jobs
      PROVE  ~(\/ CreateAndDispatch(i) \/ Cancel(i) \/ Resume(i)
               \/ ResumeRunning(i) \/ Damage(i))
  <2>1. ~CreateAndDispatch(i)
    BY <1>0 DEF CreateAndDispatch, CreateFresh, CreateReuse, InsertJob
  <2>2. ~Cancel(i)
    BY <1>0 DEF Cancel, RequestCancel, JobRow
  <2>3. ~Resume(i) /\ ~ResumeRunning(i)
    BY <1>0 DEF Resume, ResumeJob, ResumableStatus, ResumeRunning
  <2>4. ~Damage(i)
    BY <1>0 DEF Damage, JobRow
  <2> QED BY <2>1, <2>2, <2>3, <2>4
<1>9. ~UNCHANGED vars
  BY <1>0 DEF vars
<1> HIDE DEF Goal
<1> QED BY <1>2, <1>3, <1>4, <1>5, <1>6, <1>7, <1>8, <1>9 DEF Next

\* Every process sees the same lock files.
SharedLocks == \A q1, q2 \in Procs : LockSpaceOf[q1] = LockSpaceOf[q2]

LEMMA LivePreserved ==
  ASSUME SharedLocks, Inv, LockInv, TokenInv, LiveOwnerNeverReclaimed, [Next]_vars
  PROVE  LiveOwnerNeverReclaimed'
<1>0. TypeOK /\ RunnerInv /\ RecInv /\ PhaseInv /\ HeldByRunner /\ HeldByRecovery
  BY DEF Inv, LockInv
<1> SUFFICES ASSUME NEW r \in Runners, runner'[r].step \in Executing
             PROVE  /\ job'[runner'[r].job].status = "running"
                    /\ job'[runner'[r].job].owner = runner'[r].tok
  BY DEF LiveOwnerNeverReclaimed, Fenced, J, K
<1>1. CASE Fenced(J(r), K(r)) /\ UNCHANGED storeVars /\ Continues(r)
  BY <1>1 DEF Fenced, storeVars, Continues
<1>2. CASE /\ runner[r].step \in Executing
           /\ runner'[r].job = J(r) /\ runner'[r].tok = K(r)
  <2>1. Fenced(J(r), K(r)) /\ J(r) \in Jobs /\ ~Step(r, "idle")
    BY <1>0, <1>2 DEF LiveOwnerNeverReclaimed, RunnerInv, RowOK, J, Step, Executing
  <2>2. ASSUME NEW s \in Runners, J(s) = J(r), K(s) = K(r), ~Step(s, "idle")
        PROVE  runner'[s].step \in Executing
    BY <2>1, <2>2 DEF TokenInv
  <2>3. ASSUME NEW a \in Recoverers PROVE ~(rec[a].step = "decide" /\ rec[a].job = J(r))
    <3> SUFFICES ASSUME rec[a].step = "decide", rec[a].job = J(r) PROVE FALSE
      OBVIOUS
    <3>1. lock[Slot(a, J(r))] = a
      BY <1>0 DEF HeldByRecovery
    <3>2. lock[Slot(r, J(r))] = r
      BY <1>0, <1>2 DEF HeldByRunner, LockSteps
    <3>3. Slot(a, J(r)) = Slot(r, J(r))
      BY DEF Slot, SharedLocks, Host, Procs
    <3>4. r \in Pollers
      BY <3>1, <3>2, <3>3, WorkerAssumption DEF Recoverers, Procs, Runners
    <3>5. rec[r].step = "idle"
      BY <1>0, <2>1, <3>4 DEF PhaseInv
    <3> QED BY <3>1, <3>2, <3>3, <3>5
  <2> QED BY <1>0, <1>2, <2>1, <2>2, <2>3, OwnershipEnds
<1> QED BY <1>0, <1>1, <1>2, RunnerExecutes

\* With one set of lock files, no recovery takes an evaluation from the runner
\* that executes it.
THEOREM LiveOwnersKept == SharedLocks => (Spec => []LiveOwnerNeverReclaimed)
<1> SUFFICES ASSUME SharedLocks PROVE Spec => []LiveOwnerNeverReclaimed
  OBVIOUS
<1> DEFINE I == Inv /\ LockInv /\ TokenInv /\ LiveOwnerNeverReclaimed
<1>1. Init => LiveOwnerNeverReclaimed
  BY DEF Init, LiveOwnerNeverReclaimed, IdleRunner, Executing
<1>2. Init => I
  BY <1>1, InitInv, LockInit, TokenInit
<1>3. I /\ [Next]_vars => I'
  BY NextInv, LockPreserved, TokenPreserved, LivePreserved
<1>4. I => LiveOwnerNeverReclaimed
  OBVIOUS
<1> QED BY <1>2, <1>3, <1>4, PTL DEF Spec

\* No two runners execute one evaluation.
NoTwoExecute ==
  \A r, s \in Runners :
    runner[r].step \in Executing /\ runner[s].step \in Executing /\ J(r) = J(s) => r = s

\* With one set of lock files, an evaluation is never executed twice at once.
THEOREM OneExecutor == SharedLocks => (Spec => []NoTwoExecute)
<1> SUFFICES ASSUME SharedLocks PROVE Spec => []NoTwoExecute
  OBVIOUS
<1> DEFINE I == Inv /\ TokenInv
<1>1. Init => I
  BY InitInv, TokenInit
<1>2. I /\ [Next]_vars => I'
  BY NextInv, TokenPreserved
<1>3. Spec => []LiveOwnerNeverReclaimed
  BY LiveOwnersKept
<1>4. I /\ LiveOwnerNeverReclaimed => NoTwoExecute
  BY DEF TokenInv, LiveOwnerNeverReclaimed, NoTwoExecute, Fenced, Step, Executing
<1> QED BY <1>1, <1>2, <1>3, <1>4, PTL DEF Spec

----------------------------------------------------------------------------
(* Claims.                                                                 *)

Claimed(j, p) == trial[j][p].state = "claimed"
AtWork(r, j)  == ~Step(r, "idle") /\ J(r) = j /\ K(r) = job[j].owner

\* A claimed position is the owner's, and if the owner is there at all it is
\* running this position, or about to hand the claim back.
ClaimOK(j, p) ==
  Claimed(j, p) =>
    /\ job[j].status = "running" /\ trial[j][p].claim = job[j].owner
    /\ \A r \in Runners : AtWork(r, j) => runner[r].step \in {"run", "unclaim"} /\ P(r) = p

ClaimInv ==
  /\ budget.errors <= MaxErrors
  /\ budget.errors = MaxErrors => \A j \in Jobs, p \in Pos : ClaimOK(j, p)

\* A runner that does not own the evaluation does nothing to it.
LEMMA StrangersDoNothing ==
  ASSUME TypeOK, RunnerInv, NEW r \in Runners, RunnerWork(r), NEW j \in Jobs,
         J(r) # j \/ K(r) # job[j].owner, \A p \in Pos : ClaimOK(j, p)
  PROVE  job'[j] = job[j] /\ trial'[j] = trial[j]
<1>0. /\ job \in [Jobs -> JobRow] /\ trial \in [Jobs -> [Pos -> TrialRow]]
      /\ runner[r] \in RunnerRow
  BY DEF TypeOK, StoreTypeOK
<1> DEFINE Goal == job'[j] = job[j] /\ trial'[j] = trial[j]
<1>1. UNCHANGED <<job, trial>> => Goal
  OBVIOUS
<1>2. ASSUME NEW s, MarkTerminal(J(r), K(r), s) PROVE Goal
  BY <1>0, <1>2 DEF MarkTerminal, Fenced, storeVars
<1>3. ASSUME NEW S, MarkTrialsUnverifiable(J(r), S, K(r)) PROVE Goal
  BY <1>0, <1>3 DEF MarkTrialsUnverifiable, Fenced, storeVars
<1>4. CASE TryOwnerLock(r)
  BY <1>1, <1>2, <1>4 DEF TryOwnerLock, storeVars
<1>5. CASE CheckOwner(r) \/ TaskDrifted(r)
  BY <1>1, <1>3, <1>5 DEF CheckOwner, TaskDrifted, storeVars
<1>6. CASE TouchOwner(r) \/ CheckCancel(r) \/ RunRaises(r) \/ WrapUp(r) \/ ReleaseLock(r)
  BY <1>1, <1>6 DEF TouchOwner, CheckCancel, RunRaises, WrapUp, ReleaseLock, storeVars
<1>7. CASE Terminate(r) \/ SafetyNet(r)
  BY <1>2, <1>7 DEF Terminate, SafetyNet
<1>8. CASE ClaimPosition(r)
  <2>1. CASE ClaimTrial(J(r), P(r), K(r))
    BY <1>0, <2>1 DEF ClaimTrial, CanClaimTrial, Fenced
  <2> QED BY <1>1, <1>8, <2>1 DEF ClaimPosition, storeVars
<1>9. CASE Publish(r)
  <2>1. CASE CompleteTrial(J(r), P(r), K(r))
    BY <1>0, <2>1 DEF CompleteTrial, CanComplete, Fenced
  <2> QED BY <1>1, <1>9, <2>1 DEF Publish, storeVars
<1>10. CASE GiveClaimBack(r)
  <2>1. P(r) \in Pos /\ ReleaseClaim(J(r), P(r), K(r))
    BY <1>10 DEF GiveClaimBack, RunnerInv, RowOK, Step, P
  <2>2. CASE J(r) # j
    BY <1>0, <2>1, <2>2 DEF ReleaseClaim, storeVars
  <2>3. CASE J(r) = j /\ K(r) # job[j].owner
    <3>1. ~(trial[j][P(r)].state = "claimed" /\ trial[j][P(r)].claim = K(r))
      BY <2>1, <2>3 DEF ClaimOK, Claimed
    <3> QED BY <1>1, <2>1, <2>3, <3>1 DEF ReleaseClaim, storeVars
  <2> QED BY <2>2, <2>3
<1> QED BY <1>4, <1>5, <1>6, <1>7, <1>8, <1>9, <1>10 DEF RunnerWork

\* A claim of the owner is made for the position it then runs, by an owner that
\* has no other; and it ends with the step that runs it, or hands it back.
LEMMA OwnerClaims ==
  ASSUME TypeOK, RunnerInv, NEW r \in Runners, RunnerWork(r), NEW j \in Jobs,
         AtWork(r, j), \A q \in Pos : ClaimOK(j, q), NEW p \in Pos,
         trial'[j][p].state = "claimed"
  PROVE  /\ job'[j] = job[j] /\ job[j].status = "running"
         /\ trial'[j][p].claim = job[j].owner
         /\ runner'[r].step \in {"run", "unclaim"} /\ runner'[r].at = p
<1>0. /\ job \in [Jobs -> JobRow] /\ trial \in [Jobs -> [Pos -> TrialRow]]
      /\ runner \in [Runners -> RunnerRow] /\ runner[r] \in RunnerRow
      /\ trial[j] \in [Pos -> TrialRow]
  BY DEF TypeOK, StoreTypeOK
<1>1. J(r) = j /\ K(r) = job[j].owner
  BY DEF AtWork
<1> DEFINE Goal ==
      /\ job'[j] = job[j] /\ job[j].status = "running"
      /\ trial'[j][p].claim = job[j].owner
      /\ runner'[r].step \in {"run", "unclaim"} /\ runner'[r].at = p
<1>2. CASE ClaimPosition(r) /\ ClaimTrial(j, P(r), K(r)) /\ Goto(r, "run")
  <2>1. P(r) \in Pos /\ Step(r, "load")
    BY <1>2 DEF ClaimPosition, RunnerInv, RowOK, Step, P
  <2>2. \A q \in Pos : ~Claimed(j, q)
    BY <2>1 DEF ClaimOK, Step
  <2>3. trial' = [trial EXCEPT ![j][P(r)] =
                    [trial[j][P(r)] EXCEPT !.state = "claimed", !.claim = K(r)]]
    BY <1>0, <1>2, <2>1 DEF ClaimTrial
  <2>4. p = P(r)
    BY <1>0, <2>1, <2>2, <2>3 DEF Claimed
  <2>5. trial'[j][p] = [trial[j][P(r)] EXCEPT !.state = "claimed", !.claim = K(r)]
    BY <1>0, <2>1, <2>3, <2>4
  <2>6. trial[j][P(r)] \in TrialRow
    BY <1>0, <2>1
  <2>7. trial'[j][p].claim = K(r)
    BY <2>5, <2>6 DEF TrialRow
  <2>8. runner'[r].step = "run" /\ runner'[r].at = P(r)
    BY <1>0, <1>2 DEF Goto, RunnerRow, P
  <2>9. job' = job /\ job[j].status = "running"
    BY <1>2 DEF ClaimTrial, CanClaimTrial, Fenced
  <2> QED BY <1>1, <2>4, <2>7, <2>8, <2>9
<1>3. CASE Claimed(j, p) /\ (Publish(r) \/ RunRaises(r) \/ GiveClaimBack(r))
  <2>1. /\ job[j].status = "running" /\ trial[j][p].claim = job[j].owner
        /\ runner[r].step \in {"run", "unclaim"} /\ P(r) = p
    BY <1>3 DEF ClaimOK
  <2>2. ~CompleteTrial(j, p, K(r))
    BY <1>0 DEF CompleteTrial
  <2>3. ~ReleaseClaim(j, p, K(r))
    <3> SUFFICES ASSUME ReleaseClaim(j, p, K(r)) PROVE FALSE
      OBVIOUS
    <3>1. trial' = [trial EXCEPT ![j][p] =
                      [trial[j][p] EXCEPT !.state = "pending", !.claim = None]]
      BY <1>0, <1>1, <1>3, <2>1 DEF ReleaseClaim, Claimed
    <3>2. trial'[j][p] = [trial[j][p] EXCEPT !.state = "pending", !.claim = None]
      BY <1>0, <3>1
    <3>3. trial[j][p] \in TrialRow
      BY <1>0
    <3> QED BY <3>2, <3>3 DEF TrialRow
  <2>4. UNCHANGED storeVars /\ Goto(r, "unclaim")
    BY <1>1, <1>3, <2>1, <2>2, <2>3 DEF Publish, RunRaises, GiveClaimBack
  <2>5. runner'[r].step = "unclaim" /\ runner'[r].at = P(r)
    BY <1>0, <2>4 DEF Goto, RunnerRow, P
  <2> QED BY <2>1, <2>4, <2>5 DEF storeVars
<1>4. ASSUME ~(Publish(r) \/ RunRaises(r) \/ GiveClaimBack(r)) PROVE ~Claimed(j, p)
  <2>1. runner[r].step \notin {"run", "unclaim"}
    BY <1>4 DEF RunnerWork, TryOwnerLock, CheckOwner, TouchOwner, CheckCancel, TaskDrifted,
       ClaimPosition, WrapUp, Terminate, ReleaseLock, SafetyNet, Step
  <2> QED BY <2>1 DEF ClaimOK
<1>5. ASSUME ~Claimed(j, p) PROVE ClaimPosition(r) /\ ClaimTrial(j, P(r), K(r)) /\ Goto(r, "run")
  <2>1. ASSUME trial'[j] = trial[j] PROVE FALSE
    BY <1>5, <2>1 DEF Claimed
  <2>2. ASSUME NEW s, MarkTerminal(J(r), K(r), s) PROVE FALSE
    BY <2>1, <2>2 DEF MarkTerminal, storeVars
  <2>3. ASSUME NEW S, MarkTrialsUnverifiable(J(r), S, K(r)) PROVE FALSE
    <3>1. trial'[j][p] = trial[j][p] \/ trial'[j][p] = Block(trial[j][p])
      BY <1>0, <1>1, <2>1, <2>3 DEF MarkTrialsUnverifiable, storeVars
    <3>2. trial[j][p] \in TrialRow
      BY <1>0
    <3> QED BY <1>5, <3>1, <3>2 DEF Block, TrialRow, Claimed
  <2>4. ~CompleteTrial(J(r), P(r), K(r))
    BY <1>0, <1>1, <1>5 DEF CompleteTrial, Claimed
  <2>5. ASSUME ReleaseClaim(J(r), P(r), K(r)), P(r) \in Pos PROVE FALSE
    <3>1. trial' = [trial EXCEPT ![j][P(r)] =
                      [trial[j][P(r)] EXCEPT !.state = "pending", !.claim = None]]
      BY <1>0, <1>1, <2>1, <2>5 DEF ReleaseClaim, storeVars
    <3>2. trial'[j][p] = trial[j][p]
          \/ trial'[j][p] = [trial[j][p] EXCEPT !.state = "pending", !.claim = None]
      BY <1>0, <2>5, <3>1
    <3>3. trial[j][p] \in TrialRow
      BY <1>0
    <3> QED BY <1>5, <3>2, <3>3 DEF TrialRow, Claimed
  <2>6. ~UNCHANGED storeVars
    BY <2>1 DEF storeVars
  <2>7. ~TryOwnerLock(r) /\ ~CheckOwner(r) /\ ~TaskDrifted(r)
    BY <2>2, <2>3, <2>6 DEF TryOwnerLock, CheckOwner, TaskDrifted
  <2>8. ~TouchOwner(r) /\ ~CheckCancel(r) /\ ~RunRaises(r) /\ ~WrapUp(r) /\ ~ReleaseLock(r)
    BY <2>1 DEF TouchOwner, CheckCancel, RunRaises, WrapUp, ReleaseLock, storeVars
  <2>9. ~Terminate(r) /\ ~SafetyNet(r) /\ ~Publish(r)
    BY <2>2, <2>4, <2>6 DEF Terminate, SafetyNet, Publish
  <2>10. ~GiveClaimBack(r)
    BY <2>5 DEF GiveClaimBack, RunnerInv, RowOK, Step, P
  <2> QED BY <1>1, <2>6, <2>7, <2>8, <2>9, <2>10 DEF RunnerWork, ClaimPosition
<1> QED BY <1>2, <1>3, <1>4, <1>5

LEMMA ClaimInit == Init => ClaimInv
BY WorkerAssumption DEF Init, StoreInit, ClaimInv, ClaimOK, Claimed, PendingTrial

\* A step of anybody else leaves the claims and their owners alone, or takes
\* all the claims of an evaluation back.
LEMMA ClaimsElsewhere ==
  ASSUME TypeOK, NEW j \in Jobs, NEW p \in Pos, ClaimOK(j, p),
         trial'[j][p] = trial[j][p],
         job[j].status = "running" =>
           job'[j].status = "running" /\ job'[j].owner = job[j].owner,
         \A r \in Runners : runner'[r] = runner[r] \/ runner'[r] = IdleRunner
  PROVE  ClaimOK(j, p)'
<1> SUFFICES ASSUME trial'[j][p].state = "claimed"
             PROVE  /\ job'[j].status = "running" /\ trial'[j][p].claim = job'[j].owner
                    /\ \A r \in Runners :
                         /\ runner'[r].step # "idle" /\ runner'[r].job = j
                         /\ runner'[r].tok = job'[j].owner
                         => runner'[r].step \in {"run", "unclaim"} /\ runner'[r].at = p
  BY DEF ClaimOK, Claimed, AtWork, Step, J, K, P
<1>1. /\ job[j].status = "running" /\ trial[j][p].claim = job[j].owner
      /\ \A r \in Runners : AtWork(r, j) => runner[r].step \in {"run", "unclaim"} /\ P(r) = p
  BY DEF ClaimOK, Claimed
<1> QED BY <1>1 DEF AtWork, Step, J, K, P, IdleRunner

\* Only a statement that fails spends an error.
LEMMA ErrorsSpent ==
  ASSUME TypeOK, [Next]_vars
  PROVE  \/ budget'.errors = budget.errors - 1 /\ budget.errors > 0
         \/ /\ budget'.errors = budget.errors
            /\ ~ \E r \in Runners : RunnerError(r)
            /\ ~ \E a \in Recoverers : RecoveryError(a)
<1>0. budget \in [crashes: Nat, resumes: Nat, errors: Nat]
  BY DEF TypeOK
<1>1. CASE \/ \E r \in Runners : RunnerError(r)
           \/ \E a \in Recoverers : RecoveryError(a)
  BY <1>0, <1>1 DEF RunnerError, RecoveryError
<1>2. CASE ~(\/ \E r \in Runners : RunnerError(r)
             \/ \E a \in Recoverers : RecoveryError(a))
  <2>1. SpendResume => budget'.errors = budget.errors
    BY <1>0 DEF SpendResume
  <2>2. ASSUME NEW r \in Runners, RunnerWork(r) PROVE UNCHANGED budget
    BY <2>2 DEF RunnerWork, TryOwnerLock, CheckOwner, TouchOwner, CheckCancel,
       TaskDrifted, ClaimPosition, Publish, RunRaises, GiveClaimBack, WrapUp, Terminate,
       ReleaseLock, SafetyNet, OnlyRunner
  <2>3. ASSUME NEW r \in Runners, NEW j \in Jobs, DispatchJob(r, j) \/ ClaimNext(r, j)
        PROVE  UNCHANGED budget
    BY <2>3 DEF DispatchJob, ClaimNext, OnlyRunner
  <2>4. ASSUME NEW q \in Procs, Start(q) \/ FinishRecovery(q) \/ Crash(q)
        PROVE  budget'.errors = budget.errors
    BY <1>0, <2>4 DEF Start, FinishRecovery, Crash
  <2>5. ASSUME NEW a \in Recoverers, RecoveryWork(a) PROVE UNCHANGED budget
    BY <2>5 DEF RecoveryWork, TryRecoveryLock, Decide, ReleaseRecoveryLock
  <2>6. RetryRecovery \/ FinishResume => UNCHANGED budget
    BY DEF RetryRecovery, FinishResume
  <2>7. ASSUME NEW j \in Jobs, \/ CreateAndDispatch(j) \/ Cancel(j) \/ Resume(j)
                               \/ ResumeRunning(j) \/ Damage(j)
        PROVE  budget'.errors = budget.errors
    BY <2>1, <2>7 DEF CreateAndDispatch, Cancel, Resume, ResumeRunning, Damage, workerVars
  <2>8. UNCHANGED vars => UNCHANGED budget
    BY DEF vars
  <2>9. budget'.errors = budget.errors
    BY <1>2, <2>2, <2>3, <2>4, <2>5, <2>6, <2>7, <2>8 DEF Next
  <2> QED BY <1>2, <2>9
<1> QED BY <1>1, <1>2

LEMMA ClaimPreserved ==
  ASSUME Inv, TokenInv, ClaimInv, [Next]_vars
  PROVE  ClaimInv'
<1>0. /\ TypeOK /\ TypeOK' /\ RunnerInv /\ RecInv
      /\ job \in [Jobs -> JobRow] /\ trial \in [Jobs -> [Pos -> TrialRow]]
      /\ runner \in [Runners -> RunnerRow]
  BY NextInv DEF Inv, TypeOK, StoreTypeOK
<1>1. budget.errors \in Nat /\ budget'.errors \in Nat /\ budget.errors <= MaxErrors
  BY <1>0 DEF TypeOK, ClaimInv
<1>2. budget'.errors <= MaxErrors
  BY <1>0, <1>1, ErrorsSpent, WorkerAssumption
<1> SUFFICES ASSUME budget'.errors = MaxErrors, NEW j \in Jobs, NEW p \in Pos
             PROVE  ClaimOK(j, p)'
  BY <1>2 DEF ClaimInv
<1>3. /\ ~ \E r \in Runners : RunnerError(r)
      /\ ~ \E a \in Recoverers : RecoveryError(a)
      /\ budget.errors = MaxErrors
  BY <1>0, <1>1, ErrorsSpent, WorkerAssumption
<1>4. \A i \in Jobs, q \in Pos : ClaimOK(i, q)
  BY <1>3 DEF ClaimInv
<1> DEFINE Goal == ClaimOK(j, p)'
           Same == \A r \in Runners : runner'[r] = runner[r] \/ runner'[r] = IdleRunner
<1>5. trial'[j][p].state # "claimed" => Goal
  BY DEF ClaimOK, Claimed
<1>6. ASSUME UNCHANGED storeVars, Same PROVE Goal
  BY <1>0, <1>4, <1>6, ClaimsElsewhere DEF storeVars
<1>7. UNCHANGED <<storeVars, runner>> => Goal
  BY <1>6
\* A transaction on another evaluation, or on this one while it does not run.
<1>8. ASSUME NEW i \in Jobs, Same,
             \A h \in Jobs \ {i} : job'[h] = job[h] /\ trial'[h] = trial[h],
             i = j => job[j].status # "running" /\ trial'[j][p].state # "claimed"
      PROVE  Goal
  <2>1. CASE i = j
    BY <1>5, <1>8, <2>1
  <2>2. CASE i # j
    BY <1>0, <1>4, <1>8, <2>2, ClaimsElsewhere
  <2> QED BY <2>1, <2>2
<1>9. job[j].status # "running" => trial[j][p].state # "claimed"
  BY <1>4 DEF ClaimOK, Claimed
<1>10. ASSUME NEW r \in Runners, NEW i \in Jobs, DispatchJob(r, i) \/ ClaimNext(r, i)
       PROVE  Goal
  <2>1. CASE Begins(r, i)
    <3>1. /\ job[i].status = "queued" /\ UNCHANGED trial
          /\ \A h \in Jobs \ {i} : job'[h] = job[h]
          /\ runner'[r].job = i /\ \A s \in Runners \ {r} : runner'[s] = runner[s]
      BY <1>0, <2>1 DEF Begins, ClaimJobToken, StartRun, IdleRunner
    <3>2. CASE i = j
      BY <1>5, <1>9, <3>1, <3>2
    <3>3. CASE i # j
      <4> SUFFICES ASSUME trial'[j][p].state = "claimed"
                   PROVE  /\ job'[j].status = "running" /\ trial'[j][p].claim = job'[j].owner
                          /\ \A s \in Runners :
                               /\ runner'[s].step # "idle" /\ runner'[s].job = j
                               /\ runner'[s].tok = job'[j].owner
                               => runner'[s].step \in {"run", "unclaim"} /\ runner'[s].at = p
        BY DEF ClaimOK, Claimed, AtWork, Step, J, K, P
      <4>1. job'[j] = job[j] /\ Claimed(j, p)
        BY <3>1, <3>3 DEF Claimed
      <4>2. /\ job[j].status = "running" /\ trial[j][p].claim = job[j].owner
            /\ \A s \in Runners : AtWork(s, j) => runner[s].step \in {"run", "unclaim"} /\ P(s) = p
        BY <1>4, <4>1 DEF ClaimOK
      <4>3. ASSUME NEW s \in Runners, runner'[s].step # "idle", runner'[s].job = j,
                   runner'[s].tok = job[j].owner
            PROVE  runner'[s].step \in {"run", "unclaim"} /\ runner'[s].at = p
        <5>1. s # r
          BY <3>1, <3>3, <4>3
        <5>2. runner'[s] = runner[s] /\ AtWork(s, j)
          BY <3>1, <4>3, <5>1 DEF AtWork, Step, J, K
        <5> QED BY <4>2, <5>2 DEF P
      <4> QED BY <3>1, <4>1, <4>2, <4>3
    <3> QED BY <3>2, <3>3
  <2> QED BY <1>7, <1>10, <2>1 DEF DispatchJob, ClaimNext, Begins
<1>11. ASSUME NEW r \in Runners, RunnerWork(r) PROVE Goal
  <2>1. Others(r) /\ (runner'[r] = IdleRunner \/ Continues(r))
    BY <1>0, <1>11, RunnerTurn
  <2> SUFFICES ASSUME trial'[j][p].state = "claimed"
               PROVE  /\ job'[j].status = "running" /\ trial'[j][p].claim = job'[j].owner
                      /\ \A s \in Runners :
                           /\ runner'[s].step # "idle" /\ runner'[s].job = j
                           /\ runner'[s].tok = job'[j].owner
                           => runner'[s].step \in {"run", "unclaim"} /\ runner'[s].at = p
    BY DEF ClaimOK, Claimed, AtWork, Step, J, K, P
  <2>2. CASE AtWork(r, j)
    <3>1. /\ job'[j] = job[j] /\ job[j].status = "running"
          /\ trial'[j][p].claim = job[j].owner
          /\ runner'[r].step \in {"run", "unclaim"} /\ runner'[r].at = p
      BY <1>0, <1>4, <1>11, <2>2, OwnerClaims
    <3>2. ASSUME NEW s \in Runners, s # r, runner'[s].step # "idle", runner'[s].job = j,
                 runner'[s].tok = job[j].owner
          PROVE  FALSE
      <4>1. AtWork(s, j)
        BY <2>1, <3>2 DEF Others, AtWork, Step, J, K
      <4> QED BY <2>2, <3>2, <4>1 DEF AtWork, TokenInv
    <3> QED BY <3>1, <3>2
  <2>3. CASE ~AtWork(r, j)
    <3>0. ~Step(r, "idle")
      BY <1>11 DEF RunnerWork, TryOwnerLock, CheckOwner, TouchOwner, CheckCancel,
         TaskDrifted, ClaimPosition, Publish, RunRaises, GiveClaimBack, WrapUp, Terminate,
         ReleaseLock, SafetyNet, Step
    <3>1. job'[j] = job[j] /\ trial'[j] = trial[j]
      BY <1>0, <1>4, <1>11, <2>3, <3>0, StrangersDoNothing DEF AtWork
    <3>2. /\ job[j].status = "running" /\ trial[j][p].claim = job[j].owner
          /\ \A s \in Runners : AtWork(s, j) => runner[s].step \in {"run", "unclaim"} /\ P(s) = p
      BY <1>4, <3>1 DEF ClaimOK, Claimed
    <3>3. ASSUME NEW s \in Runners, runner'[s].step # "idle", runner'[s].job = j,
                 runner'[s].tok = job[j].owner
          PROVE  runner'[s] = runner[s] /\ AtWork(s, j)
      <4>1. CASE s = r
        BY <2>1, <2>3, <3>0, <3>3, <4>1 DEF Continues, AtWork, IdleRunner
      <4>2. CASE s # r
        BY <2>1, <3>3, <4>2 DEF Others, AtWork, Step, J, K
      <4> QED BY <4>1, <4>2
    <3> QED BY <3>1, <3>2, <3>3 DEF P
  <2> QED BY <2>2, <2>3
<1>12. ASSUME NEW q \in Procs, Crash(q) PROVE Goal
  BY <1>6, <1>12 DEF Crash
<1>13. ASSUME NEW q \in Procs, Start(q) \/ FinishRecovery(q) PROVE Goal
  BY <1>7, <1>13 DEF Start, FinishRecovery, storeVars
<1>14. ASSUME NEW a \in Recoverers, RecoveryWork(a) PROVE Goal
  <2>1. UNCHANGED runner
    BY <1>14 DEF RecoveryWork, TryRecoveryLock, Decide, ReleaseRecoveryLock
  <2>2. CASE Decide(a)
    <3>1. ASSUME NEW k, RequeueUnlocked(rec[a].job, k) PROVE Goal
      <4>1. ASSUME rec[a].job = j PROVE trial'[j][p].state # "claimed"
        <5>1. trial'[j][p] = ReopenClaimed(trial[j][p])
          BY <1>0, <3>1, <4>1 DEF RequeueUnlocked
        <5>2. trial[j][p] \in TrialRow
          BY <1>0
        <5> QED BY <5>1, <5>2 DEF ReopenClaimed, TrialRow
      <4>2. rec[a].job # j => job'[j] = job[j] /\ trial'[j] = trial[j]
        BY <1>0, <3>1 DEF RequeueUnlocked
      <4> QED BY <1>0, <1>4, <1>5, <2>1, <4>1, <4>2, ClaimsElsewhere
    <3>2. ASSUME NEW k, FailUnverifiableRunningJob(rec[a].job, k) PROVE Goal
      <4>1. ASSUME rec[a].job = j PROVE trial'[j][p].state # "claimed"
        <5>1. trial'[j][p] = BlockClaimed(trial[j][p])
          BY <1>0, <3>2, <4>1 DEF FailUnverifiableRunningJob
        <5>2. trial[j][p] \in TrialRow
          BY <1>0
        <5> QED BY <5>1, <5>2 DEF BlockClaimed, Block, TrialRow
      <4>2. rec[a].job # j => job'[j] = job[j] /\ trial'[j] = trial[j]
        BY <1>0, <3>2 DEF FailUnverifiableRunningJob
      <4> QED BY <1>0, <1>4, <1>5, <2>1, <4>1, <4>2, ClaimsElsewhere
    <3> QED BY <1>7, <2>1, <2>2, <3>1, <3>2 DEF Decide
  <2>3. CASE ~Decide(a)
    BY <1>7, <1>14, <2>1, <2>3 DEF RecoveryWork, TryRecoveryLock, ReleaseRecoveryLock, storeVars
  <2> QED BY <2>2, <2>3
<1>15. ASSUME NEW i, ResumeJob(i), UNCHANGED runner PROVE Goal
  <2>1. ASSUME i = j PROVE trial'[j][p].state # "claimed"
    <3>1. trial'[j][p] = ReopenBlocked(trial[j][p]) /\ job[j].status # "running"
      BY <1>0, <1>15, <2>1 DEF ResumeJob, ResumableStatus
    <3>2. trial[j][p] \in TrialRow /\ trial[j][p].state # "claimed"
      BY <1>0, <1>9, <3>1
    <3> QED BY <3>1, <3>2 DEF ReopenBlocked, TrialRow
  <2>2. i # j => job'[j] = job[j] /\ trial'[j] = trial[j]
    BY <1>0, <1>15 DEF ResumeJob
  <2> QED BY <1>0, <1>4, <1>5, <1>15, <2>1, <2>2, ClaimsElsewhere
<1>16. CASE RetryRecovery \/ FinishResume
  BY <1>7, <1>15, <1>16 DEF RetryRecovery, FinishResume, storeVars
<1>17. ASSUME NEW i \in Jobs, CreateAndDispatch(i) PROVE Goal
  <2>1. UNCHANGED runner /\ (CreateFresh(i) \/ \E s \in Jobs : CreateReuse(i, s))
    BY <1>17 DEF CreateAndDispatch
  <2>2. i = j => job[j].status # "running"
    BY <2>1 DEF CreateFresh, CreateReuse
  <2>3. \A h \in Jobs \ {i} : job'[h] = job[h] /\ trial'[h] = trial[h]
    BY <1>0, <2>1 DEF CreateFresh, CreateReuse, InsertJob
  <2>4. i = j => trial'[j][p].state # "claimed"
    <3>1. CASE CreateFresh(i)
      BY <1>9, <2>2, <3>1 DEF CreateFresh
    <3>2. CASE \E s \in Jobs : CreateReuse(i, s)
      BY <1>0, <3>2 DEF CreateReuse, ReusedTrial
    <3> QED BY <2>1, <3>1, <3>2
  <2> QED BY <1>8, <2>1, <2>2, <2>3, <2>4
<1>18. ASSUME NEW i \in Jobs, Cancel(i) PROVE Goal
  <2>1. UNCHANGED <<runner, trial>> /\ RequestCancel(i)
    BY <1>18 DEF Cancel, workerVars, RequestCancel
  <2>2. job[j].status = "running" => job'[j].status = "running" /\ job'[j].owner = job[j].owner
    BY <1>0, <2>1 DEF RequestCancel, JobRow
  <2> QED BY <1>0, <1>4, <2>1, <2>2, ClaimsElsewhere
<1>19. ASSUME NEW i \in Jobs, Resume(i) \/ ResumeRunning(i) PROVE Goal
  BY <1>7, <1>15, <1>19 DEF Resume, ResumeRunning, storeVars
<1>20. ASSUME NEW i \in Jobs, Damage(i) PROVE Goal
  <2>1. UNCHANGED <<runner, trial>>
    BY <1>20 DEF Damage, workerVars
  <2>2. job'[j].status = job[j].status /\ job'[j].owner = job[j].owner
    BY <1>0, <1>20 DEF Damage, JobRow
  <2> QED BY <1>0, <1>4, <2>1, <2>2, ClaimsElsewhere
<1>21. CASE UNCHANGED vars
  BY <1>7, <1>21 DEF vars, storeVars
<1> QED BY <1>3, <1>10, <1>11, <1>12, <1>13, <1>14, <1>16, <1>17, <1>18, <1>19, <1>20, <1>21
        DEF Next

\* The claims and what they rest on, in every reachable state.
THEOREM ClaimsAreOwned == Spec => []ClaimInv
<1> DEFINE I == Inv /\ TokenInv /\ ClaimInv
<1>1. Init => I
  BY InitInv, TokenInit, ClaimInit
<1>2. I /\ [Next]_vars => I'
  BY NextInv, TokenPreserved, ClaimPreserved
<1> QED BY <1>1, <1>2, PTL DEF Spec

\* While no statement has failed, whatever processes crashed and whoever shares
\* lock files, an evaluation that does not run has no claimed position.
THEOREM ClaimsSafe == Spec => [](budget.errors = MaxErrors => NoClaimLeftBehind)
<1>1. ClaimInv => (budget.errors = MaxErrors => NoClaimLeftBehind)
  BY DEF ClaimInv, ClaimOK, Claimed, NoClaimLeftBehind
<1> QED BY <1>1, ClaimsAreOwned, PTL
=============================================================================
