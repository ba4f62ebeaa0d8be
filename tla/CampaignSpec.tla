----------------------------- MODULE CampaignSpec -----------------------------
(***************************************************************************)
(* What the ledger of a campaign promises of each cell: one evaluation at  *)
(* a time is submitted or reopened, one that ended short of acceptance     *)
(* waits for an operator, and accepted evidence is final.                  *)
(***************************************************************************)
CONSTANT Cells

VARIABLE stage

Stage == {"none", "submitting", "in flight", "halted", "accepted"}
Busy == {c \in Cells : stage[c] \in {"submitting", "in flight"}}
Move(c, from, to) == stage[c] = from /\ stage' = [stage EXCEPT ![c] = to]

Init == stage = [c \in Cells |-> "none"]

Submit(c)    == Busy = {} /\ Move(c, "none", "submitting")
Drop(c)      == Move(c, "submitting", "none")
Started(c)   == Move(c, "submitting", "in flight")
Accept(c)    == Move(c, "in flight", "accepted")
Stop(c)      == Move(c, "in flight", "halted")
Resume(c)    == Busy = {} /\ Move(c, "halted", "in flight")
Supersede(c) == Move(c, "halted", "none")

Next ==
  \E c \in Cells :
    \/ Submit(c) \/ Drop(c) \/ Started(c) \/ Accept(c)
    \/ Stop(c) \/ Resume(c) \/ Supersede(c)

Spec == Init /\ [][Next]_stage
=============================================================================
