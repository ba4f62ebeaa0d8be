--------------------------- MODULE CampaignLauncher ---------------------------
(***************************************************************************)
(* The launcher of a campaign and the resume command: one process at a     *)
(* time, under the ledger's lock, that may be killed between any two       *)
(* steps.  It submits the evaluations of the planned cells one after the   *)
(* other, watches each and decides whether its evidence counts, while the  *)
(* app, its users, the model server and the task packs change beside it.   *)
(***************************************************************************)
EXTENDS CampaignLedger

CONSTANTS
  Phases,    \* the sets of cells a launch may be asked for
  Options,   \* how a launch may be started
  MaxTroubles   \* bound: disturbances (users, changes of the world, kills)

ASSUME LauncherAssumption ==
  /\ \A plan \in Phases : plan \subseteq Cells /\ plan # {}   \* plan() refuses an empty one
  /\ Options \subseteq {"official", "no warm-up", "no code check"}

VARIABLES
  launch,    \* the process that holds the lock
  late,      \* requests in flight that nobody waits for any more
  troubles   \* bound: counts the disturbances

vars == <<eval, world, ledger, launch, late, troubles>>

Off == [step |-> "off", cell |-> NoCell, plan |-> {}, option |-> "official",
        draining |-> FALSE, seen |-> "absent", id |-> NoId]
Step == {"off", "drain", "plan", "settle", "wait", "finalize", "reject",
         "posting", "posted", "resuming", "resumed"}
Request == [kind : {"create"}, cell : Cells] \cup [kind : {"resume"}, id : Ids]

Create_(c) == [kind |-> "create", cell |-> c]
Resume_(e) == [kind |-> "resume", id |-> e]

Init ==
  ServiceInit /\ LedgerInit /\ launch = Off /\ late = {} /\ troubles = 0

Trouble == troubles < MaxTroubles /\ troubles' = troubles + 1

At(step) == launch.step = step
Here == launch.cell
Mine == ledger.entry[Here]
CodeChecked == launch.option # "no code check"
Official == launch.option = "official"

Go(step) == launch' = [launch EXCEPT !.step = step]
Halt == launch' = Off
Settled(entry) == Save(Here, entry) /\ Halt
----------------------------------------------------------------------------
(* Launch.                                                                 *)

\* _check_untracked_campaign_evaluations
Untracked(c) == Named(c) \ Known
NoUntracked ==
  \A c \in Cells : Untracked(c) = {} \/ (ledger.entry[c].state = "submitting"
                                          /\ Cardinality(Untracked(c)) = 1)

Foreign == {e \in OpenEvals : e \notin ActiveIds \cup ledger.past /\ eval[e].cell \notin Cells}
Preflight == TaskPinned /\ ModelPinned /\ Foreign = {}
\* _check_app_state: the model server is nobody else's.
AppIsFree == OpenEvals = {} /\ NoUntracked

First(cells) == CHOOSE c \in cells : \A d \in cells : c <= d
After(c) == {d \in Cells : d > c}

\* The cell the launch comes to next: the drain visits every cell of the
\* campaign, then the plan those of the phase.
Visit(rest, draining) ==
  LET cells == IF draining THEN rest ELSE rest \cap launch.plan
  IN IF cells # {}
     THEN launch' = [launch EXCEPT !.step = IF draining THEN "drain" ELSE "plan",
                                   !.cell = First(cells), !.seen = "absent"]
     ELSE IF draining
     THEN launch' = [launch EXCEPT !.step = "plan", !.cell = First(launch.plan),
                                   !.seen = "absent", !.draining = FALSE]
     ELSE Halt
Advance == Visit(After(Here), launch.draining)

Launch(plan, option) ==
  /\ At("off") /\ Preflight /\ NoUntracked
  /\ launch' = [Off EXCEPT !.step = "drain", !.cell = First(Cells), !.plan = plan,
                           !.option = option, !.draining = TRUE]
  /\ UNCHANGED <<eval, world, ledger, late>>

\* Mutants: every evaluation of the name; only one that is still open.
CreatedAny(c) == Named(c)
CreatedOpen(c) == {e \in Untracked(c) : Open(e)}

\* _adopt_if_created, for an entry that was saved before a POST of unknown
\* outcome; without an evaluation of its name nothing is in flight.
Created(c) == Untracked(c)
Adopt ==
  /\ At("drain") /\ Mine.state = "submitting"
  /\ \/ /\ Cardinality(Created(Here)) > 1
        /\ Halt /\ UNCHANGED ledger
     \/ /\ Created(Here) = {}
        /\ Save(Here, NoEntry) /\ Advance
     \/ \E e \in Ids :
          /\ Created(Here) = {e}
          /\ Save(Here, [Mine EXCEPT !.state = "submitted", !.id = e]) /\ Go("settle")
  /\ UNCHANGED <<eval, world, late>>

Drain ==
  /\ At("drain") /\ Mine.state # "submitting"
  /\ IF Mine.state = "submitted" THEN Go("settle")
     ELSE IF Mine.state \in {"failed", "canceled"} /\ ExternalResume(Mine) THEN Go("wait")
     ELSE Advance
  /\ UNCHANGED <<eval, world, ledger, late>>

\* The request without outcome was executed, or was not.
Credited(entry) == [entry EXCEPT !.resumes = @ + 1, !.unsettled = "none",
                                 !.official = @ /\ entry.unsettled = "official"]
\* Mutant: a request that was not executed is credited too.
DiscardedCounts(entry) == [entry EXCEPT !.unsettled = "none", !.resumes = @ + 1]

Discarded(entry) == [entry EXCEPT !.unsettled = "none"]

\* _settle_resumes: a request without outcome is matched to an event of the
\* app that no other record explains.  The event may have come too late for
\* the request, which is then not credited with it.
SettleResumes ==
  /\ At("settle") /\ Go("wait")
  /\ IF Mine.unsettled = "none" THEN UNCHANGED ledger
     ELSE \E matched \in BOOLEAN :
            /\ matched => eval[Mine.id].resumed > Mine.resumes
            /\ Save(Here, IF matched THEN [Credited(Mine) EXCEPT !.guessed = TRUE] ELSE Discarded(Mine))
  /\ UNCHANGED <<eval, world, late>>

\* A cell of the phase.  Nothing is open on the app, or named for the campaign
\* and not owned, when an evaluation is submitted; the entry is saved before.
Plan ==
  /\ At("plan")
  /\ \/ /\ Mine.state = "succeeded" /\ Advance /\ UNCHANGED ledger
     \/ /\ Mine.state \in Halting /\ Halt /\ UNCHANGED ledger
     \/ /\ Mine.state = "none"
        /\ \/ Halt /\ UNCHANGED ledger    \* --max-evaluations, or the app or Ollama is down
           \/ /\ TaskPinned /\ AppIsFree /\ ModelPinned
              /\ Save(Here, NewEntry(Official)) /\ Go("posting")
  /\ UNCHANGED <<eval, world, late>>
----------------------------------------------------------------------------
(* POST /jobs and POST /jobs/{id}/resume: the app may execute the request, *)
(* refuse it, or do nothing until nobody waits.                            *)

CreateExecuted ==
  /\ At("posting")
  /\ \E e \in Ids : Create(e, Here, "launcher") /\ launch' = [launch EXCEPT !.step = "posted", !.id = e]
  /\ UNCHANGED <<world, ledger, late>>

CreateRefused ==
  /\ At("posting") /\ Settled(NoEntry) /\ UNCHANGED <<eval, world, late>>

CreateAnswered ==
  /\ At("posted")
  /\ Save(Here, [Mine EXCEPT !.state = "submitted", !.id = launch.id])
  /\ launch' = [launch EXCEPT !.step = "wait", !.id = NoId]
  /\ UNCHANGED <<eval, world, late>>

ResumeExecuted ==
  /\ At("resuming") /\ Reopen(Mine.id, FALSE) /\ Go("resumed")
  /\ UNCHANGED <<world, ledger, late>>

\* Nothing was resumed: the entry is as before the request.
ResumeRefused ==
  /\ At("resuming")
  /\ Settled([Discarded(Mine) EXCEPT !.state = launch.seen])
  /\ UNCHANGED <<eval, world, late>>

ResumeAnswered ==
  /\ At("resumed")
  /\ Settled(Credited(Mine))
  /\ UNCHANGED <<eval, world, late>>

\* The answer does not come, or the process is killed: the entry stays
\* `submitting', or submitted with a request without outcome.
Abandoned ==
  CASE At("posting")  -> {Create_(Here)}
    [] At("resuming") -> {Resume_(Mine.id)}
    [] OTHER          -> {}
Crash ==
  /\ ~At("off") /\ Halt
  /\ late' = late \cup Abandoned
  /\ UNCHANGED <<eval, world, ledger>>

\* A stalled app comes to a request whose sender has gone, or never does.
OwnRequest(e) == \E c \in Cells : ledger.entry[c].id = e /\ ledger.entry[c].unsettled # "none"
LateRequest ==
  /\ \E r \in late :
       /\ late' = late \ {r}
       /\ \/ UNCHANGED eval
          \/ r.kind = "create" /\ \E e \in Ids : Create(e, r.cell, "late")
          \/ r.kind = "resume" /\ Reopen(r.id, ~OwnRequest(r.id))
  /\ UNCHANGED <<world, ledger, launch>>
----------------------------------------------------------------------------
(* Waiting for an evaluation and judging it.                               *)

\* _wait: the status that was read is the one that is acted on.
WaitEnds ==
  /\ At("wait") /\ ~Open(Mine.id)
  /\ launch' = [launch EXCEPT !.step = IF Mine.state = "submitted" THEN "finalize" ELSE "reject",
                              !.seen = eval[Mine.id].status]
  /\ UNCHANGED <<eval, world, ledger, late>>

\* _watch: samples, so it may miss what it looks for.
Watch ==
  /\ At("wait") /\ Open(Mine.id)
  /\ LET seen == (IF Running(Mine.id) /\ (\E o \in Ids \ {Mine.id} : Running(o))
                  THEN {"concurrency"} ELSE {}) \cup (IF ModelPinned THEN {} ELSE {"identity"})
     IN ~(seen \subseteq Mine.violation) /\ Save(Here, [Mine EXCEPT !.violation = @ \cup seen])
  /\ UNCHANGED <<eval, world, launch, late>>

\* An evaluation that was resumed outside the campaign never counts.
Reject ==
  /\ At("reject") /\ Settled([Mine EXCEPT !.state = "rejected"])
  /\ UNCHANGED <<eval, world, late>>

\* Mutant: an evaluation that failed makes room for another.
FinalizeStoppedAnew ==
  /\ At("finalize") /\ launch.seen \in {"failed", "canceled"}
  /\ Settled(NoEntry) /\ UNCHANGED <<eval, world, late>>

FinalizeStopped ==
  /\ At("finalize") /\ launch.seen \in {"failed", "canceled"}
  /\ \/ Settled([Mine EXCEPT !.state = "rejected"])     \* it may be unverifiable
     \/ /\ TaskPinned /\ ~Tainted(Mine)
        /\ Settled([Mine EXCEPT !.state = launch.seen, !.snapshot = HaltSnapshot(Mine.id)])
  /\ UNCHANGED <<eval, world, late>>

\* Mutant: the verdict of the validator is not asked for.
CountsAlone(c, entry) == ModelPinned /\ "identity" \notin entry.violation

\* The model is the pinned one before and after, and the acceptance predicate
\* of the validator holds.
Counts(c, entry) ==
  ModelPinned /\ "identity" \notin entry.violation /\ Assess(c, entry)

Concurrent(entry) == Overlapping(entry.id) # {} \/ "concurrency" \in entry.violation

FinalizeSucceeded ==
  /\ At("finalize") /\ launch.seen = "succeeded"
  /\ LET done == [Mine EXCEPT !.state = "succeeded", !.finalized = CodeChecked] IN
     \/ /\ ~CellCheckOk(Here, Mine.id) \/ Concurrent(Mine)
        /\ Settled([Mine EXCEPT !.state = "rejected"])
     \/ /\ CellCheckOk(Here, Mine.id) /\ ~Concurrent(Mine)
        /\ \/ Settled([Mine EXCEPT !.state = "needs_attention"])  \* voids; or the backend does not answer
           \/ /\ ~eval[Mine.id].voided
              /\ IF Counts(Here, done)
                 THEN Save(Here, done) /\ Advance
                 ELSE Settled([Mine EXCEPT !.state = "rejected"])
  /\ UNCHANGED <<eval, world, late>>
----------------------------------------------------------------------------
(* resume_cell: the request is recorded before it is sent.                 *)

ResumeCell(c, official) ==
  LET entry == ledger.entry[c] IN
  /\ At("off") /\ entry.state \in {"failed", "canceled"}
  /\ entry.violation = {} /\ ~Rehearsal(entry)
  /\ IF ExternalResume(entry)
     THEN Save(c, [entry EXCEPT !.state = "rejected"]) /\ UNCHANGED launch
     ELSE /\ InFlight = {} /\ TaskPinned /\ OpenEvals = {} /\ ModelPinned
          /\ Save(c, [entry EXCEPT !.state = "submitted",
                        !.unsettled = IF official THEN "official" ELSE "unofficial"])
          /\ launch' = [Off EXCEPT !.step = "resuming", !.cell = c, !.seen = entry.state]
  /\ UNCHANGED <<eval, world, late>>

OperatorStep ==
  /\ At("off")
  /\ \/ \E c \in Cells : Supersede(c)
     \/ \E e \in Ids : Disown(e)
  /\ UNCHANGED <<eval, world, launch, late>>

LauncherStep ==
  \/ Adopt \/ Drain \/ SettleResumes \/ Plan
  \/ CreateExecuted \/ CreateRefused \/ CreateAnswered
  \/ ResumeExecuted \/ ResumeRefused \/ ResumeAnswered
  \/ WaitEnds \/ Watch \/ Reject \/ FinalizeStopped \/ FinalizeSucceeded

Next ==
  \/ /\ UNCHANGED troubles
     /\ \/ \E plan \in Phases, option \in Options : Launch(plan, option)
        \/ \E c \in Cells, official \in BOOLEAN : ResumeCell(c, official)
        \/ LauncherStep \/ OperatorStep \/ LateRequest
        \/ AppStep /\ UNCHANGED <<ledger, launch, late>>
  \/ /\ Trouble
     /\ \/ Crash
        \/ /\ UserStep \/ WorldStep
           /\ UNCHANGED <<ledger, launch, late>>

Spec == Init /\ [][Next]_vars
=============================================================================
