----------------------------- MODULE MCTaskFile -----------------------------
(* TLC instance of TaskFile: a one-shot that is there from the start, one  *)
(* that another session may add, and a recurring task that must survive    *)
(* their clean-up.                                                         *)
EXTENDS TaskFile

CONSTANTS one, two, rec

MCTasks    == {one, two, rec}
MCOneShots == {one, two}
MCLate     == {two}
=============================================================================
