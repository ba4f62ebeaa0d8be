----------------------------- MODULE TaskAudit -----------------------------
(***************************************************************************)
(* The audit of a task: run_audit (quick, quick with mutants, or full) and *)
(* validate_task.  It grades the reference, the untouched snapshot, the    *)
(* declared controls and mutants of the reference, and concludes whether   *)
(* the task can be used.                                                   *)
(***************************************************************************)
EXTENDS Grading, Sequences, SequencesExt

CONSTANT Repeats      \* how often a grading is repeated to see that it is deterministic
ASSUME AuditAssumption ==
  Repeats \in Nat \ {0} /\ \A p \in Packs : IsFiniteSet(p.controls) /\ IsFiniteSet(p.mutants)

VARIABLE audit

NoAudit == [at |-> "none", mode |-> "quick", todo |-> <<>>, seen |-> <<>>, health |-> "unknown"]
AuditInit == audit = NoAudit

Grades(check, tree, n) == [k \in 1..n |-> [check |-> check, tree |-> tree]]
Each(check, trees, n) ==
  [k \in 1..Cardinality(trees) * n |-> [check |-> check, tree |-> SetToSeq(trees)[(k - 1) \div n + 1]]]
Controls == {c.tree : c \in pack.controls}

\* The reference is graded when it changes something, and only what it may.
ReferenceDiff == CaptureDiff(pack.reference)
ReferenceUsable ==
  pack.reference # NoTree /\ Touched(ReferenceDiff) # {} /\ ~ \E p \in Touched(ReferenceDiff) : OutOfScope(p)
Modes == {"quick", "mutation", "full"}
Plan(mode) ==
  (IF ReferenceUsable THEN Grades("reference", pack.reference, Repeats) ELSE <<>>)
  \o Grades("noop", Snapshot, 1) \o Each("control", Controls, 1)
  \o (IF mode # "quick" /\ NoTree \notin {pack.reference, pack.unparsed}
      THEN Grades("unparsed", pack.unparsed, 1) ELSE <<>>)
  \o Grades("again", Snapshot, Repeats)
  \o (IF mode # "quick" THEN Each("again", Controls, Repeats) ELSE <<>>)
ValidatePlan == Grades("noop", Snapshot, 1) \o Grades("reference", pack.reference, Repeats)

StartAudit ==
  /\ audit.at = "none" /\ grading.at = "idle"
  /\ \/ \E mode \in Modes :
          audit' = [NoAudit EXCEPT !.at = "auditing", !.mode = mode, !.todo = Plan(mode)]
     \/ /\ pack.reference # NoTree
        /\ audit' = [NoAudit EXCEPT !.at = "auditing", !.mode = "validate", !.todo = ValidatePlan]
  /\ UNCHANGED <<pack, grading, faults>>

GradeNext ==
  /\ audit.at = "auditing" /\ audit.todo # <<>>
  /\ StartGrading(CaptureDiff(Head(audit.todo).tree), "valid")
  /\ audit' = [audit EXCEPT !.at = "grading"]
  /\ UNCHANGED <<pack, faults>>

\* The mutants are graded if the unparsed reference is as good as the parsed one.
TakeReport ==
  /\ audit.at = "grading" /\ Graded
  /\ LET g == Head(audit.todo)
         more == IF g.check = "unparsed" /\ Perfect(Report) /\ FunctionalPass(Report)
                 THEN Each("mutant", pack.mutants, 1) ELSE <<>>
     IN  audit' = [audit EXCEPT !.at = "auditing", !.todo = more \o Tail(@),
                     !.seen = Append(@, [check |-> g.check, tree |-> g.tree,
                                         regression |-> Report.regression, hidden |-> Report.hidden])]
  /\ CloseRoom
  /\ UNCHANGED <<pack, faults>>
----------------------------------------------------------------------------
(* The checks, each of what was seen.                                      *)

ReportOf(g) ==
  [diff |-> CaptureDiff(g.tree), status |-> "valid", regression |-> g.regression, hidden |-> g.hidden]
Took(check) == {g \in ToSet(audit.seen) : g.check = check}
First(check) == ReportOf(audit.seen[SelectInSeq(audit.seen, LAMBDA g : g.check = check)])
\* outcome_fingerprint: gradings of one tree must not differ; why a suite erred is
\* not looked at.
Fingerprint(g) == <<[g.regression EXCEPT !.late = FALSE], [g.hidden EXCEPT !.late = FALSE]>>
Deterministic(check) == \A g, h \in Took(check) : g.tree = h.tree => Fingerprint(g) = Fingerprint(h)

ReferencePasses == Perfect(First("reference")) /\ FunctionalPass(First("reference"))
ReferenceStatus ==
  IF pack.reference = NoTree THEN "unverifiable"
  ELSE IF ~ReferenceUsable THEN "error"
  ELSE IF ReferencePasses /\ Deterministic("reference") THEN "pass" ELSE "fail"

\* The suites may import one file a diff can change, the code under test.
ClosureStatus ==
  LET reachable == {p \in pack.imports : IF pack.editable # {} THEN p \in pack.editable ELSE p \notin pack.protected}
  IN  IF Cardinality(reachable) > 1 THEN "warning" ELSE "pass"
\* A file put where none may be is out of scope.
ProbesStatus ==
  IF \A p \in pack.protected \cup AlwaysProtected \cup (IF pack.editable = {} THEN {} ELSE Paths \ pack.editable) :
       OutOfScope(p)
  THEN "pass" ELSE "fail"

NoopStatus ==
  LET r == First("noop")
  IN  IF ~AllPassed(r.regression) \/ AllPassed(r.hidden) \/ ~Nothing(r) THEN "fail"
      ELSE IF Possible(r.hidden) > 0 /\ 2 * Earned(r.hidden) >= Possible(r.hidden) THEN "warning" ELSE "pass"

Verdict(r) ==
  CASE FunctionalPass(r) -> "accepted"
    [] ~FunctionalPass(r) /\ ~ScopeOk(r) -> "scope"
    [] ~FunctionalPass(r) /\ ScopeOk(r) /\ ~AllPassed(r.regression) -> "regression"
    [] OTHER -> IF r.hidden.errored THEN "errored" ELSE "hidden test"
\* What a control is expected to get is declared with it, whatever its kind.
ControlStatus(c) ==
  LET k == SelectInSeq(audit.seen, LAMBDA g : g.check = "control" /\ g.tree = c.tree)
      v == Verdict(ReportOf(audit.seen[k]))
  IN  CASE v \in {"accepted", "hidden test"} ->
             IF (v = "accepted") = c.accept THEN "pass" ELSE "fail"
        [] v \in {"scope", "regression"} -> "error"
        [] OTHER -> "warning"
ControlsSay(status) == \E c \in pack.controls : ControlStatus(c) = status
ControlsStatus ==
  IF pack.controls = {} THEN "skipped"
  ELSE IF ControlsSay("fail") THEN "fail" ELSE IF ControlsSay("error") THEN "error"
  ELSE IF ControlsSay("warning") THEN "warning" ELSE "pass"

\* The untouched snapshot is always among the samples.
DeterminismStatus == IF Deterministic("again") THEN "pass" ELSE "fail"

\* A mutant the other gates stop, or one declared equivalent, shows nothing.
Relevant ==
  {g \in Took("mutant") : g.tree \notin pack.equivalent /\ Verdict(ReportOf(g)) \notin {"scope", "regression"}}
MutationStatus ==
  IF pack.reference = NoTree THEN "unverifiable"
  ELSE IF Relevant = {} \/ \E g \in Relevant : Verdict(ReportOf(g)) = "accepted" THEN "warning" ELSE "pass"

\* The probe of isolation, of full audits alone, has no say.
CheckStatuses ==
  {ReferenceStatus, NoopStatus, ClosureStatus, ProbesStatus, DeterminismStatus}
    \cup (IF audit.mode # "quick" THEN {MutationStatus} ELSE {})
KnownBadAccepted == \E c \in pack.controls : c.kind = "known_bad" /\ ControlStatus(c) = "fail"

\* Bug: nobody looks at the single controls the aggregate leaves to them.
HealthWithoutControls ==
  IF CheckStatuses \cap {"fail", "error"} # {} THEN "invalid"
  ELSE IF "warning" \in CheckStatuses \cup {ControlsStatus} THEN "needs_review"
  ELSE IF "unverifiable" \in CheckStatuses THEN "unverifiable"
  ELSE IF ControlsStatus = "skipped" \/ audit.mode # "full" THEN "provisional" ELSE "healthy"
Health ==
  IF CheckStatuses \cap {"fail", "error"} # {} \/ KnownBadAccepted THEN "invalid"
  ELSE IF "warning" \in CheckStatuses \/ ControlsStatus \in {"fail", "error", "warning"} THEN "needs_review"
  ELSE IF "unverifiable" \in CheckStatuses THEN "unverifiable"
  ELSE IF ControlsStatus = "skipped" \/ audit.mode # "full" THEN "provisional" ELSE "healthy"

\* validate_task: what it asserts.
Validated ==
  LET r == First("noop")
      score(g) == <<Perfect(ReportOf(g)), Nothing(ReportOf(g)), FunctionalPass(ReportOf(g))>>
  IN  /\ AllPassed(r.regression) /\ ~AllPassed(r.hidden) /\ Nothing(r) /\ ~FunctionalPass(r)
      /\ Touched(ReferenceDiff) # {} /\ ReferencePasses
      /\ \A g \in Took("reference") : score(g) = <<TRUE, FALSE, TRUE>>

Conclude ==
  /\ audit.at = "auditing" /\ audit.todo = <<>>
  /\ audit' = [audit EXCEPT !.at = "done",
                 !.health = IF audit.mode # "validate" THEN Health ELSE IF Validated THEN "valid" ELSE "invalid"]
  /\ UNCHANGED <<pack, grading, faults>>
=============================================================================
