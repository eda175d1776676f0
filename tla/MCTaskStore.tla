---------------------------- MODULE MCTaskStore ----------------------------
(* TLC instance of TaskStore: two teammates and their leader.  The list of *)
(* the session has a task and one behind it, or nothing; that of the team  *)
(* work under way, with a task behind it or without, a finished task, or   *)
(* nothing, so that two creates may overlap.                               *)
EXTENDS TaskStore, TLC

CONSTANTS a, b, leader

Three == {a, b, leader}
Two   == {a, b}

None     == <<Blank("absent"), Blank("absent")>>
Behind1  == [Blank("pending") EXCEPT !.deps = {1}]
Waiting  == <<Blank("pending"), Behind1>>
UnderWay == <<[Blank("in_progress") EXCEPT !.owner = a], Blank("absent")>>
WithNext == <<[Blank("in_progress") EXCEPT !.owner = a], Behind1>>
Finished == <<Blank("completed"), Blank("absent")>>

Both(session, team) == [l \in Lists |-> IF l = "session" THEN session ELSE team]
Contents == {Both(Waiting, UnderWay), Both(None, WithNext), Both(None, Finished),
             Both(None, None)}
=============================================================================
