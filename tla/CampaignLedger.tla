---------------------------- MODULE CampaignLedger ----------------------------
(***************************************************************************)
(* The campaign's ownership record: which evaluation counts for which      *)
(* cell.  One document, replaced atomically under the lock that a single   *)
(* launcher or command holds; a change in memory that was not saved before *)
(* a crash has not happened, so each save is one step.                     *)
(***************************************************************************)
EXTENDS CampaignService

VARIABLE ledger   \* active entries of the cells, superseded and disowned evaluations

Supersedable == {"needs_attention", "failed", "canceled", "rejected"}
Halting == Supersedable
EntryState == {"none", "submitting", "submitted", "succeeded"} \cup Supersedable
NoSnapshot == [status |-> "absent", resumed |-> 0]

NoEntry == [state |-> "none", id |-> NoId, official |-> FALSE, violation |-> {},
            resumes |-> 0, unsettled |-> "none", guessed |-> FALSE,
            finalized |-> FALSE, snapshot |-> NoSnapshot]

Entry == [state : EntryState, id : Ids \cup {NoId},
          official : BOOLEAN,     \* every start of it: code checked, model loaded
          violation : SUBSET {"identity", "concurrency"},
          resumes : 0..MaxResumes,            \* records known to have been executed
          unsettled : {"none", "official", "unofficial"},   \* a request without outcome
          guessed : BOOLEAN,      \* a lost request was matched to an event of the app
          finalized : BOOLEAN,    \* under a passing code check
          snapshot : [status : Status, resumed : 0..MaxResumes]]

LedgerInit == ledger = [entry |-> [c \in Cells |-> NoEntry], past |-> {}, disowned |-> {}]

ActiveIds == {ledger.entry[c].id : c \in Cells} \ {NoId}
Known == ActiveIds \cup ledger.past \cup ledger.disowned
InFlight == {c \in Cells : ledger.entry[c].state \in {"submitting", "submitted"}}

Save(c, entry) == ledger' = [ledger EXCEPT !.entry[c] = entry]

NewEntry(official) == [NoEntry EXCEPT !.state = "submitting", !.official = official]
----------------------------------------------------------------------------
(* What makes the evidence of an entry count (validate.py).                *)

\* Mutant: the app's own resume events are not counted.
ResumeProblemsOwn(entry) == entry.unsettled # "none"

ResumeProblems(entry) ==
  \/ entry.unsettled # "none"
  \/ eval[entry.id].resumed > entry.resumes

\* rehearsal_problems: flags of the submission and of the executed resumes.
Rehearsal(entry) == ~entry.official \/ entry.unsettled = "unofficial"

Tainted(entry) == entry.violation # {} \/ ResumeProblems(entry) \/ Rehearsal(entry)

\* assess_cell.  An entry that has succeeded was submitted with the pinned
\* digest and was finalized only when the model still had it.
Assess(c, entry) ==
  /\ entry.state = "succeeded"
  /\ CellCheckOk(c, entry.id) /\ ~eval[entry.id].voided /\ Overlapping(entry.id) = {}
  /\ ~Tainted(entry) /\ entry.finalized

Accepted(c) == Assess(c, ledger.entry[c])

\* external_resume: somebody else has reopened an evaluation the campaign
\* halted on.
ExternalResume(entry) ==
  \/ eval[entry.id].status \in {"queued", "running", "succeeded"}
  \/ HaltSnapshot(entry.id) # entry.snapshot
----------------------------------------------------------------------------
(* Commands of the operator that are one save each.                        *)

\* Mutant: whatever has ended may be superseded.
ReplaceableAny(c) == ledger.entry[c].state \in Supersedable \cup {"succeeded"}

\* supersede_cell: an accepted cell is final.
Replaceable(c) ==
  \/ ledger.entry[c].state \in Supersedable
  \/ ledger.entry[c].state = "succeeded" /\ ~Accepted(c)
Supersede(c) ==
  /\ Replaceable(c)
  /\ ledger' = [ledger EXCEPT !.entry[c] = NoEntry, !.past = @ \cup {ledger.entry[c].id}]

\* disown_evaluation: an evaluation that carries the campaign's name, or any
\* other, never counts.
Disown(e) ==
  /\ Exists(e) /\ ~Open(e) /\ e \notin Known
  /\ ledger' = [ledger EXCEPT !.disowned = @ \cup {e}]
=============================================================================
