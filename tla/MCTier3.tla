------------------------------ MODULE MCTier3 ------------------------------
(* TLC instance of Tier3: the controllers of two daemons for one project.  *)
EXTENDS Tier3

CONSTANTS a, b

Two == {a, b}
=============================================================================
