------------------------------ MODULE RunStore ------------------------------
(***************************************************************************)
(* SqliteRunStore.save_run: the evidence of a run goes into four tables of *)
(* a database other connections read meanwhile, inside a savepoint of a    *)
(* transaction that may be the caller's.                                   *)
(***************************************************************************)
EXTENDS RunPipeline, Sequences

Tables == <<"runs", "run_scores", "diffs", "test_results">>

VARIABLES
  db,         \* what is committed; ours: the caller's own rows, a trial's link or other work
  txn,        \* the transaction of the connection in use
  saving      \* save_run: the insert it is at, 0 outside of it

Empty == [runs |-> {}, run_scores |-> {}, diffs |-> {}, test_results |-> {}, ours |-> {}]
Closed == [open |-> FALSE, work |-> Empty, mark |-> Empty]
Resting == [at |-> 0, started |-> FALSE]

StoreInit == db = Empty /\ txn = Closed /\ saving = Resting

\* Whoever embeds the store has work of its own in the transaction.
BeginSave ==
  /\ run.at = "scored" /\ saving.at = 0
  /\ LET work == IF run.caller = "embedding" THEN [db EXCEPT !.ours = @ \cup {LastId}] ELSE db
     IN  txn' = [open |-> TRUE, work |-> work, mark |-> work]
  /\ saving' = [at |-> 1, started |-> run.caller # "embedding"]
  /\ UNCHANGED <<pack, grading, faults, run, record, version, db>>

Insert ==
  /\ saving.at \in 1..Len(Tables)
  /\ txn' = IF Tables[saving.at] = "test_results" /\ ~record[LastId].results THEN txn
            ELSE [txn EXCEPT !.work[Tables[saving.at]] = @ \cup {LastId}]
  /\ saving' = [saving EXCEPT !.at = @ + 1]
  /\ UNCHANGED <<pack, grading, faults, run, record, version, db>>

\* Bug: the rows of before the failure stay in the transaction.
KeepSavepoint == txn.work
RollbackTo == txn.mark

\* An insert fails: back to the savepoint, and out of the transaction if save_run
\* opened it; the failure goes to the caller.
InsertFails ==
  /\ saving.at \in 1..Len(Tables)
  /\ faults < MaxFaults /\ faults' = faults + 1
  /\ txn' = IF saving.started THEN Closed ELSE [txn EXCEPT !.work = RollbackTo]
  /\ saving' = Resting
  /\ run' = IF run.caller = "embedding" THEN [run EXCEPT !.at = "refused"] ELSE NoRun
  /\ UNCHANGED <<pack, grading, record, version, db>>

\* The savepoint is released; a script's rows are committed.
EndSave ==
  /\ saving.at = Len(Tables) + 1
  /\ saving' = Resting
  /\ IF run.caller = "script" THEN db' = txn.work /\ txn' = Closed /\ run' = NoRun
     ELSE run' = [run EXCEPT !.at = "saved"] /\ UNCHANGED <<db, txn>>
  /\ UNCHANGED <<pack, grading, faults, record, version>>

\* The worker links the trial to the run before it commits, unless its claim is
\* no longer good; who embeds the store commits or not, as it likes.
Commit ==
  /\ run.at \in {"saved", "refused"}
  /\ db' = IF run.caller = "worker" THEN [txn.work EXCEPT !.ours = @ \cup {LastId}] ELSE txn.work
  /\ txn' = Closed /\ run' = NoRun
  /\ UNCHANGED <<pack, grading, faults, record, version, saving>>
Rollback ==
  /\ run.at \in {"saved", "refused"}
  /\ txn' = Closed /\ run' = NoRun
  /\ UNCHANGED <<pack, grading, faults, record, version, db, saving>>

\* The process dies: an open transaction is gone, and so is the room.
Crash ==
  /\ run.at # "none" /\ faults < MaxFaults /\ faults' = faults + 1
  /\ run' = NoRun /\ CloseRoom /\ txn' = Closed /\ saving' = Resting
  /\ UNCHANGED <<pack, record, version, db>>
=============================================================================
