--------------------------- MODULE CampaignService ---------------------------
(***************************************************************************)
(* The AgentForge app as a benchmark campaign sees it: evaluations created *)
(* by POST /jobs, one of them for each cell of the campaign, which run,    *)
(* end, and can be resumed under their id.  Users of the web UI act on the *)
(* same evaluations.  What the app promises of each evaluation is          *)
(* EvaluationSpec; CampaignProperties has the mapping.                     *)
(***************************************************************************)
EXTENDS Naturals, FiniteSets

CONSTANTS
  Cells,        \* the cells (model, task) of the campaign's plan
  NumEvals,     \* bound: evaluations of the campaign database
  MaxResumes,   \* bound: resumes of an evaluation
  NoCell        \* the name of an evaluation that is not the campaign's

ASSUME CampaignAssumption ==
  Cells \subseteq Nat /\ NumEvals \in Nat /\ MaxResumes \in Nat /\ NoCell \notin Cells

Ids == 1..NumEvals
NoId == 0

VARIABLES
  eval,    \* the evaluations
  world    \* what the pins of the plan are compared with

Ended == {"succeeded", "failed", "canceled"}
Status == {"absent", "queued", "running"} \cup Ended
Absent == [cell |-> NoCell, status |-> "absent", pinned |-> FALSE, voided |-> FALSE,
           shared |-> {}, resumed |-> 0, outside |-> 0,
           origin |-> "user"]

EvalRow == [cell : Cells \cup {NoCell}, status : Status,
            pinned : BOOLEAN,      \* task version and digest of its snapshot are the plan's
            voided : BOOLEAN,      \* some trials are infrastructure failures
            shared : SUBSET Ids,   \* evaluations whose trials ran beside its own
            resumed : 0..MaxResumes,         \* its job_resumed events
            outside : 0..MaxResumes,         \* those no command of the campaign sent
            origin : {"user", "launcher", "late"}]

Exists(e) == eval[e].status # "absent"
Open(e) == eval[e].status \in {"queued", "running"}
Running(e) == eval[e].status = "running"
OpenEvals == {e \in Ids : Open(e)}
SnapshotMatches(e) == eval[e].pinned = (world # "task changed")

ServiceInit == eval = [e \in Ids |-> Absent] /\ world = "pinned"

\* POST /jobs.  The snapshot takes the task as it is now.
NextId(e) == ~Exists(e) /\ \A i \in Ids : i < e => Exists(i)
Create(e, c, origin) ==
  /\ NextId(e)
  /\ eval' = [eval EXCEPT ![e] = [Absent EXCEPT !.cell = c, !.status = "queued",
                                    !.pinned = world # "task changed", !.origin = origin]]

\* The app executes: a claim, the trials, an end; recovery requeues.
Begin(e) ==
  /\ eval[e].status = "queued"
  /\ eval' = [i \in Ids |->
                IF i = e THEN [eval[e] EXCEPT !.status = "running",
                                              !.shared = @ \cup {o \in Ids : Running(o)}]
                ELSE IF Running(i) THEN [eval[i] EXCEPT !.shared = @ \cup {e}]
                ELSE eval[i]]

Requeue(e) ==
  /\ Running(e) /\ eval' = [eval EXCEPT ![e].status = "queued"]

\* Success needs every trial, on the task of the snapshot.  Short of it, the
\* trials that are not completed are released and leave no trace of when they
\* ran; `kept': one that shared the app was completed.
End(e, status, voided, kept) ==
  /\ Open(e) /\ (status # "canceled" => Running(e))
  /\ status = "succeeded" => SnapshotMatches(e) /\ kept
  /\ eval' = [i \in Ids |->
                IF i = e THEN [eval[e] EXCEPT !.status = status, !.voided = voided,
                                              !.shared = IF kept THEN @ ELSE {}]
                ELSE IF kept THEN eval[i] ELSE [eval[i] EXCEPT !.shared = @ \ {e}]]

\* Mutant: any evaluation that has ended can be resumed.
ResumableEnded(e) == eval[e].status \in Ended /\ eval[e].resumed < MaxResumes

\* POST /jobs/{id}/resume; that of a queued evaluation is accepted as well.
Resumable(e) ==
  /\ eval[e].status \in {"failed", "canceled", "queued"} /\ eval[e].resumed < MaxResumes
  /\ SnapshotMatches(e)
Reopen(e, byUser) ==
  /\ Resumable(e)
  /\ eval' = [eval EXCEPT ![e].status = "queued", ![e].resumed = @ + 1,
                ![e].outside = IF byUser THEN @ + 1 ELSE @]

AppStep ==
  /\ UNCHANGED world
  /\ \E e \in Ids :
       \/ Begin(e) \/ Requeue(e)
       \/ \E status \in Ended, voided, kept \in BOOLEAN :
            /\ voided => status = "succeeded"
            /\ ~kept => eval[e].shared # {}
            /\ End(e, status, voided, kept)

\* The web UI: an evaluation of one's own, a retry (which clones the name), a
\* resume.  A cancellation is an end of the app.
UserStep ==
  /\ UNCHANGED world
  /\ \E e \in Ids :
       \/ \E c \in Cells \cup {NoCell} :
            /\ c = NoCell \/ \E i \in Ids : eval[i].cell = c /\ eval[i].status \in Ended
            /\ Create(e, c, "user")
       \/ Reopen(e, TRUE)

\* The model or the engine behind Ollama changes, a task pack is edited, and
\* either may be put back.
WorldStep ==
  /\ world' \in {"pinned", "model moved", "task changed"} /\ world' # world
  /\ UNCHANGED eval

ModelPinned == world # "model moved"
TaskPinned == world # "task changed"
----------------------------------------------------------------------------
(* What the campaign reads in the database (cohort.py).                    *)

\* evaluations_named
Named(c) == {e \in Ids : eval[e].cell = c /\ Exists(e)}
CampaignNamed == {e \in Ids : eval[e].cell \in Cells /\ Exists(e)}

\* overlapping_evaluations: a completed trial, or one still in flight, that ran
\* beside a completed trial of e.
Overlapping(e) == eval[e].shared

\* check_cell_evaluation: everything a cell's evaluation must be, except its
\* infrastructure voids, which are counted apart.
CellCheckOk(c, e) ==
  /\ eval[e].cell = c /\ eval[e].status = "succeeded"
  /\ eval[e].pinned

\* halt_snapshot: any later difference means that somebody resumed it.  (Its
\* finish time and its completed trials change only after a resume.)
HaltSnapshot(e) == [status |-> eval[e].status, resumed |-> eval[e].resumed]
=============================================================================
