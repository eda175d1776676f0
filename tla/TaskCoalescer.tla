---------------------------- MODULE TaskCoalescer ----------------------------
(***************************************************************************)
(* What a KAIROS project worker promises about fired tasks, without its    *)
(* promises, files or status writes: one task is worked on at a time, a    *)
(* task that arrives meanwhile replaces the one waiting, the waiting task  *)
(* is taken up when the current one ends, and it is given up only because  *)
(* the daemon is paused, is closing, or the run died on an error.          *)
(***************************************************************************)
CONSTANTS Tasks, NoTask

VARIABLES
    busy,       \* a task is being worked on
    current,    \* that task, or NoTask
    again,      \* something arrived meanwhile
    waiting,    \* the newest arrival, or NoTask
    closed      \* no more arrivals, no more catch-up

vars == <<busy, current, again, waiting, closed>>

Init ==
    /\ busy = FALSE /\ current = NoTask
    /\ again = FALSE /\ waiting = NoTask
    /\ closed = FALSE

Begin(t) ==
    /\ ~busy /\ ~closed
    /\ busy' = TRUE /\ current' = t /\ waiting' = NoTask
    /\ UNCHANGED <<again, closed>>

Queue(t) ==
    /\ busy /\ ~closed
    /\ again' = TRUE /\ waiting' = t
    /\ UNCHANGED <<busy, current, closed>>

TakeWaiting ==
    /\ busy /\ again /\ ~closed
    /\ current' = waiting /\ waiting' = NoTask /\ again' = FALSE
    /\ UNCHANGED <<busy, closed>>

Rest ==
    /\ busy
    /\ ~again \/ closed
    /\ busy' = FALSE /\ current' = NoTask
    /\ UNCHANGED <<again, waiting, closed>>

GiveUpPaused ==
    /\ busy
    /\ busy' = FALSE /\ current' = NoTask /\ again' = FALSE /\ waiting' = NoTask
    /\ UNCHANGED closed

Fail ==
    /\ busy
    /\ busy' = FALSE /\ current' = NoTask
    /\ UNCHANGED <<again, waiting, closed>>

Close ==
    /\ ~closed
    /\ closed' = TRUE
    /\ UNCHANGED <<busy, current, again, waiting>>

Work == TakeWaiting \/ Rest \/ GiveUpPaused \/ Fail

Next == (\E t \in Tasks : Begin(t) \/ Queue(t)) \/ Work \/ Close

(* A task being worked on comes to an end.                                 *)
Spec == Init /\ [][Next]_vars /\ WF_vars(Work)
=============================================================================
