--------------------------- MODULE OneShotCleanup ---------------------------
(***************************************************************************)
(* The control of the clean-up of fired one-shot tasks in a KAIROS project *)
(* worker (daemon/kairos/projectWorker.ts): the set completedOneShots, the *)
(* 50 ms timer, the flushes it starts, and the part of stop() that waits   *)
(* for a flush and makes the last one.                                     *)
(*                                                                         *)
(* The module declares this state and its operations for two others:       *)
(* ProjectWorker, where they go with the drains and a flush is an          *)
(* operation that settles, and TaskFile, where a flush reads and writes    *)
(* the task file among other writers of it.  Flushes are numbered in the   *)
(* order of their starts.                                                  *)
(***************************************************************************)
EXTENDS Naturals

CONSTANTS
    Tasks,      \* the tasks that are ever in scheduled_tasks.json
    OneShots,   \* those without `recurring`
    MaxFires    \* bound on the number of calls of onFireTask

ASSUME OneShotsAssumption == OneShots \subseteq Tasks
ASSUME MaxFiresAssumption == MaxFires \in Nat

VARIABLES
    fires,              \* number of onFireTask calls so far
    completedOneShots, cleanupTimer, cleanupRun,
    flushes,            \* number of timer flushes so far
    flush,              \* the state of each flush's promise
    stopped,
    stopPc, stopAwaits  \* stop()'s position and the promise it waits for

cleanupVars == <<completedOneShots, cleanupTimer, cleanupRun, flushes, flush>>
stopVars    == <<stopped, stopPc, stopAwaits>>

StopFlush    == MaxFires + 1    \* the flush stop() makes itself
Flushes      == 1..StopFlush

CleanupTypeOK ==
    /\ completedOneShots \subseteq OneShots
    /\ cleanupTimer \in BOOLEAN
    /\ cleanupRun \in 0..MaxFires
    /\ flushes \in 0..MaxFires
    /\ flush \in [Flushes -> {"none", "busy", "done", "failed"}]

StopTypeOK ==
    /\ stopped \in BOOLEAN
    /\ stopPc \in {"idle", "awaitRun", "awaitCleanup", "flushing", "logging",
                   "done", "failed"}
    /\ stopAwaits \in 0..MaxFires

ControlTypeOK == CleanupTypeOK /\ StopTypeOK /\ fires \in 0..MaxFires

CleanupInit ==
    /\ fires = 0
    /\ completedOneShots = {} /\ cleanupTimer = FALSE /\ cleanupRun = 0
    /\ flushes = 0
    /\ flush = [f \in Flushes |-> "none"]
    /\ stopped = FALSE /\ stopPc = "idle" /\ stopAwaits = 0

----------------------------------------------------------------------------
\* onFireTask's completedOneShots.add and scheduleOneShotCleanup.
NoteOneShot(t) ==
    IF t \in OneShots
    THEN completedOneShots' = completedOneShots \cup {t} /\ cleanupTimer' = TRUE
    ELSE UNCHANGED <<completedOneShots, cleanupTimer>>

\* flushCompletedOneShots up to readCronTasks, as flush f.
BeginFlush(f) ==
    /\ flush' = [flush EXCEPT ![f] = "busy"]
    /\ completedOneShots' = {}

\* The cleanup timer's callback.
CleanupTimerFires ==
    /\ cleanupTimer
    /\ cleanupTimer' = FALSE
    /\ flushes < MaxFires
    /\ IF completedOneShots = {}
       THEN UNCHANGED <<completedOneShots, cleanupRun, flushes, flush>>
       ELSE /\ flushes' = flushes + 1
            /\ BeginFlush(flushes + 1)
            /\ cleanupRun' = flushes + 1
    /\ UNCHANGED <<stopVars, fires>>

\* A flush settles; the timer's has a finally handler, stop()'s has none.
FlushSettles(f, to) ==
    /\ flush[f] = "busy"
    /\ flush' = [flush EXCEPT ![f] = to]
    /\ IF f = StopFlush
       THEN UNCHANGED <<cleanupRun, cleanupTimer>>
       ELSE /\ cleanupRun' = 0
            /\ cleanupTimer' =
                 (cleanupTimer \/ (completedOneShots # {} /\ ~stopped))
    /\ UNCHANGED <<completedOneShots, flushes, stopVars, fires>>

----------------------------------------------------------------------------
(* stop().  An await of a promise that rejects makes stop() reject.        *)

\* Up to the await of `run`, the value of currentRun.
StopCalls(run) ==
    /\ stopPc = "idle"
    /\ stopPc' = "awaitRun"
    /\ stopped' = TRUE
    /\ cleanupTimer' = FALSE
    /\ stopAwaits' = run
    /\ UNCHANGED <<completedOneShots, cleanupRun, flushes, flush, fires>>

\* The run has ended: await cleanupRun.
StopAwaitsCleanup ==
    /\ stopPc = "awaitRun"
    /\ stopPc' = "awaitCleanup"
    /\ stopAwaits' = cleanupRun
    /\ UNCHANGED <<stopped, cleanupVars, fires>>

StopAwaitedCleanup ==
    /\ stopPc = "awaitCleanup"
    /\ \/ /\ \A f \in Flushes : f = stopAwaits => flush[f] = "done"
          /\ IF completedOneShots = {}
             THEN stopPc' = "logging" /\ UNCHANGED <<completedOneShots, flush>>
             ELSE stopPc' = "flushing" /\ BeginFlush(StopFlush)
       \/ /\ \E f \in Flushes : f = stopAwaits /\ flush[f] = "failed"
          /\ stopPc' = "failed"
          /\ UNCHANGED <<completedOneShots, flush>>
    /\ UNCHANGED <<stopped, stopAwaits, cleanupTimer, cleanupRun, flushes, fires>>

StopFlushed ==
    /\ stopPc = "flushing"
    /\ \/ flush[StopFlush] = "done" /\ stopPc' = "logging"
       \/ flush[StopFlush] = "failed" /\ stopPc' = "failed"
    /\ UNCHANGED <<stopped, stopAwaits, cleanupVars, fires>>
=============================================================================
