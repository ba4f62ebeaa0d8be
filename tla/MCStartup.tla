------------------------------ MODULE MCStartup ------------------------------
(* No file at all; an empty one; one that lacks columns only; one the user  *)
(* has worked on; one with a control table nobody knows.                     *)
EXTENDS ApiStartup
ActorsMC == {Api, Worker, "r1", "r2"}
Older == [there |-> TRUE, rows |-> {"ours"}, schema |-> {"runs", "results", "jobs", "trials"}, odd |-> FALSE]
FilesMC ==
  {Absent, [Absent EXCEPT !.there = TRUE], Older, [Older EXCEPT !.schema = Pieces], [Older EXCEPT !.odd = TRUE]}
=============================================================================
