----------------------------- MODULE MCEvidence -----------------------------
(* A task as it should be, and tasks with one thing wrong each.             *)
EXTENDS EvidencePipeline
ContentsMC == {"bug", "fix", "other fix", "half", "breaks", "loop", "crash"}
Solved == [s \in ContentsMC |->
             IF s \in {"fix", "other fix", "breaks"} THEN Hidden ELSE IF s = "half" THEN {"h1"} ELSE {}]
Control(kind, src) == [kind |-> kind, accept |-> kind = "alternative", tree |-> Edit(src)]
Against(control) == [control EXCEPT !.accept = ~@]
Good ==
  [protected |-> {"tests"}, editable |-> {"src"}, visible |-> FALSE,
   sound |-> {"bug", "fix", "other fix", "half"}, hidden |-> Solved, weight |-> [h \in Hidden |-> 1],
   broken |-> {"crash"}, endless |-> {"loop"}, reference |-> Edit("fix"),
   controls |-> {Control("known_bad", "half"), Control("alternative", "other fix")},
   mutants |-> {Edit("half"), Edit("breaks")}, equivalent |-> {}, unparsed |-> Edit("fix"),
   imports |-> {"src"}]
Vacuous == [Good EXCEPT !.hidden = [s \in ContentsMC |-> Hidden]]
Pointless == [Vacuous EXCEPT !.controls = {}]
Weak == [Good EXCEPT !.hidden["half"] = Hidden]
Narrow == [Good EXCEPT !.hidden["other fix"] = {"h1"}]
\* control.json says the opposite of what the kind would: rightly so, and wrongly.
Excused == [Weak EXCEPT !.controls = {Against(Control("known_bad", "half")), Control("alternative", "other fix")},
                        !.mutants = {Edit("loop")}]
Upside == [Narrow EXCEPT !.controls = {Control("known_bad", "half"), Against(Control("alternative", "other fix"))},
                         !.mutants = {Edit("half")}]
Misdeclared == [Good EXCEPT !.controls = {Against(Control("alternative", "other fix"))}]
Drifted == [Good EXCEPT !.hidden["fix"] = {"h1"}]
Rotten == [Good EXCEPT !.sound = {"fix"}]
Unreferenced == [Good EXCEPT !.reference = NoTree, !.unparsed = NoTree, !.controls = {}]
Weightless == [Good EXCEPT !.weight = [h \in Hidden |-> 0]]
Open == [Good EXCEPT !.visible = TRUE, !.protected = {}, !.editable = {},
                     !.mutants = {Edit("half"), Edit("other fix")}, !.equivalent = {Edit("other fix")}]
Shared == [Open EXCEPT !.imports = {"src", "tests"}]
PacksMC == {Good, Vacuous, Pointless, Weak, Narrow, Drifted, Rotten, Unreferenced, Weightless, Open, Shared,
            Excused, Upside, Misdeclared}
EvaluatedMC == {Good, Open, Weightless, Unreferenced}
WorksMC == {Edit("half"), Edit("loop"), Edit("binary"), [Edit("fix") EXCEPT !.tests = "edited"],
            [Edit("bug") EXCEPT !.conftest = "edited"], [Edit("fix") EXCEPT !.tests = "none"]}
=============================================================================
