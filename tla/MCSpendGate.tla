---------------------------- MODULE MCSpendGate ----------------------------
(* TLC instance of SpendGate: the worker of one project with the Tier 3    *)
(* controller of another.                                                  *)
EXTENDS SpendGate, TLC

CONSTANTS p1, p2, w1, t1

MCProjects  == {p1, p2}
MixedLanes  == {w1, t1}
MCTier3     == {t1}
MCProjectOf == (w1 :> p1) @@ (t1 :> p2)
=============================================================================
