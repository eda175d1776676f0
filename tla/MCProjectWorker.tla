-------------------------- MODULE MCProjectWorker --------------------------
(* TLC instances of ProjectWorker: two one-shots and a recurring task that *)
(* must survive their clean-up.                                            *)
EXTENDS ProjectWorker

CONSTANTS one, two, rec

MCTasks    == {one, two, rec}
MCOneShots == {one, two}
=============================================================================
