--------------------------- MODULE ProjectWorker ---------------------------
(***************************************************************************)
(* The per-project worker of the KAIROS daemon                             *)
(* (daemon/kairos/projectWorker.ts).  A cron scheduler hands it fired      *)
(* tasks; it runs at most one drain at a time, coalesces the fires that    *)
(* arrive while a drain runs into one catch-up, deletes fired one-shot     *)
(* tasks from scheduled_tasks.json after a 50 ms timer, and stops.         *)
(*                                                                         *)
(* A step is the code between two awaits.  A drain is named by the number  *)
(* of the fire that started it.  The clean-up is OneShotCleanup's; here a  *)
(* flush is an operation that settles, and TaskFile says what it does to   *)
(* the file.                                                               *)
(***************************************************************************)
EXTENDS OneShotCleanup, FiniteSets

CONSTANT NoTask     \* the code's null task

ASSUME TasksAssumption == NoTask \notin Tasks

VARIABLES
    running, dirty, pendingCount, pendingTask,  \* the closure's flags
    currentRun,         \* the promise stop() awaits: a drain, or 0 for null
    pc, task,           \* each drain's position and the task of its cycle
    overlapped          \* history: drains started during another's last write

workVars    == <<running, dirty, pendingCount, pendingTask, currentRun>>
drainVars   == <<pc, task, overlapped>>
vars == <<workVars, drainVars, cleanupVars, stopVars, fires>>

Drains == 1..MaxFires

\* Awaits of runCycle and of the drain's finally block.
CyclePcs == {"starting", "checking", "child", "skipping",
             "finishing", "finishingPaused"}
FinalPcs == {"final", "threwFinal"}
DrainPcs == {"none"} \cup CyclePcs \cup FinalPcs \cup {"done", "threw"}

Active(d)     == pc[d] \in CyclePcs
Finalizing(d) == pc[d] \in FinalPcs

WorkTypeOK ==
    /\ running \in BOOLEAN /\ dirty \in BOOLEAN
    /\ pendingCount \in {0, 1}
    /\ pendingTask \in Tasks \cup {NoTask}
    /\ currentRun \in 0..MaxFires

DrainTypeOK ==
    /\ pc \in [Drains -> DrainPcs]
    /\ task \in [Drains -> Tasks \cup {NoTask}]
    /\ overlapped \subseteq Drains

TypeOK == WorkTypeOK /\ DrainTypeOK /\ ControlTypeOK

Init ==
    /\ running = FALSE /\ dirty = FALSE /\ pendingCount = 0
    /\ pendingTask = NoTask /\ currentRun = 0
    /\ CleanupInit
    /\ pc = [d \in Drains |-> "none"]
    /\ task = [d \in Drains |-> NoTask]
    /\ overlapped = {}

----------------------------------------------------------------------------
(* onFireTask.  The scheduler is stopped in the same step as the worker,   *)
(* so no fire arrives once `stopped` is set.                               *)

\* A drain is running: remember only the newest task.
Coalesce(t) ==
    /\ running
    /\ dirty' = TRUE /\ pendingCount' = 1 /\ pendingTask' = t
    /\ UNCHANGED <<running, currentRun, drainVars>>

\* Fault: drain() does not test `running`.
StartDrainUnguarded(t) ==
    /\ running' = TRUE /\ pendingCount' = 1 /\ pendingTask' = NoTask
    /\ currentRun' = fires + 1
    /\ pc' = [pc EXCEPT ![fires + 1] = "starting"]
    /\ task' = [task EXCEPT ![fires + 1] = t]
    /\ UNCHANGED <<dirty, overlapped>>

\* drain(): the first cycle takes the task and reaches its first await.
StartDrain(t) ==
    /\ ~running
    /\ running' = TRUE /\ pendingCount' = 1 /\ pendingTask' = NoTask
    /\ currentRun' = fires + 1
    /\ pc' = [pc EXCEPT ![fires + 1] = "starting"]
    /\ task' = [task EXCEPT ![fires + 1] = t]
    /\ overlapped' = IF \E d \in Drains : Finalizing(d)
                     THEN overlapped \cup {fires + 1} ELSE overlapped
    /\ UNCHANGED dirty

onFireTask(t) ==
    /\ fires < MaxFires
    /\ ~stopped
    /\ fires' = fires + 1
    /\ NoteOneShot(t)
    /\ Coalesce(t) \/ StartDrain(t)
    /\ UNCHANGED <<stopVars, cleanupRun, flushes, flush>>

----------------------------------------------------------------------------
(* The cycle of a drain.                                                   *)

Goto(d, from, to) == pc[d] = from /\ pc' = [pc EXCEPT ![d] = to]

\* The log line and status write that open a cycle are done.
StatusWritten(d) ==
    /\ Goto(d, "starting", "checking")
    /\ UNCHANGED <<workVars, task, overlapped, cleanupVars, stopVars, fires>>

\* checkPaused answered TRUE: log skipped_paused, run nothing.
SkipPaused(d) ==
    /\ Goto(d, "checking", "skipping")
    /\ UNCHANGED <<workVars, task, overlapped, cleanupVars, stopVars, fires>>

\* checkPaused answered FALSE: run the task if there is one.
RunTask(d) ==
    /\ Goto(d, "checking", IF task[d] = NoTask THEN "finishing" ELSE "child")
    /\ UNCHANGED <<workVars, task, overlapped, cleanupVars, stopVars, fires>>

\* runFiredTask returns; `paused` when the run hit a cap or an auth failure.
TaskReturns(d) ==
    /\ \E to \in {"finishing", "finishingPaused"} : Goto(d, "child", to)
    /\ UNCHANGED <<workVars, task, overlapped, cleanupVars, stopVars, fires>>

\* The cycle returned unpaused and the loop goes round for the catch-up.
CatchUp(d) ==
    /\ dirty /\ ~stopped
    /\ Goto(d, "finishing", "starting")
    /\ dirty' = FALSE /\ pendingCount' = 1 /\ pendingTask' = NoTask
    /\ task' = [task EXCEPT ![d] = pendingTask]
    /\ UNCHANGED <<running, currentRun, overlapped, cleanupVars, stopVars,
                   fires>>

\* The finally block, up to its status write.
Finalize(d, to) ==
    /\ running' = FALSE
    /\ pendingCount' = IF dirty' THEN 1 ELSE 0
    /\ pc' = [pc EXCEPT ![d] = to]
    /\ UNCHANGED <<currentRun, task, overlapped, cleanupVars, stopVars, fires>>

\* Fault: one catch-up at most, `if` for `while`.
LeaveLoopDirty(d) ==
    /\ pc[d] = "finishing"
    /\ UNCHANGED <<dirty, pendingTask>>
    /\ Finalize(d, "final")

\* Nothing to catch up, or the worker is stopping.
LeaveLoop(d) ==
    /\ pc[d] = "finishing"
    /\ ~dirty \/ stopped
    /\ UNCHANGED <<dirty, pendingTask>>
    /\ Finalize(d, "final")

\* Fault: the task of a paused cycle's catch-up survives it.
LeavePausedKeepsTask(d) ==
    /\ pc[d] \in {"skipping", "finishingPaused"}
    /\ dirty' = FALSE
    /\ UNCHANGED pendingTask
    /\ Finalize(d, "final")

\* A paused cycle drops what was coalesced.
LeavePaused(d) ==
    /\ pc[d] \in {"skipping", "finishingPaused"}
    /\ dirty' = FALSE /\ pendingTask' = NoTask
    /\ Finalize(d, "final")

\* An await of the cycle rejects (a state file cannot be written).
CycleThrows(d) ==
    /\ Active(d)
    /\ UNCHANGED <<dirty, pendingTask>>
    /\ Finalize(d, "threwFinal")

\* The last status write is done: the drain forgets currentRun.
DrainReturns(d) ==
    /\ Goto(d, "final", "done")
    /\ currentRun' = 0
    /\ UNCHANGED <<running, dirty, pendingCount, pendingTask, task, overlapped,
                   cleanupVars, stopVars, fires>>

\* The drain rejects, from the cycle or from its last write: currentRun stays.
DrainThrows(d) ==
    /\ Finalizing(d)
    /\ pc' = [pc EXCEPT ![d] = "threw"]
    /\ UNCHANGED <<workVars, task, overlapped, cleanupVars, stopVars, fires>>

DrainStep(d) ==
    \/ StatusWritten(d) \/ SkipPaused(d) \/ RunTask(d) \/ TaskReturns(d)
    \/ CatchUp(d) \/ LeaveLoop(d) \/ LeavePaused(d) \/ DrainReturns(d)

----------------------------------------------------------------------------
(* The clean-up.                                                           *)

TimerFires ==
    /\ CleanupTimerFires
    /\ UNCHANGED <<workVars, drainVars>>

\* The flush has read and written the file.
FlushReturns(f) ==
    /\ FlushSettles(f, "done")
    /\ UNCHANGED <<workVars, drainVars>>

\* mkdir or writeFile rejects.
FlushFails(f) ==
    /\ FlushSettles(f, "failed")
    /\ UNCHANGED <<workVars, drainVars>>

----------------------------------------------------------------------------
(* stop().  An await of a promise that rejects makes stop() reject.        *)

StopCalled ==
    /\ StopCalls(currentRun)
    /\ UNCHANGED <<workVars, drainVars>>

\* Fault: stop() does not await currentRun.
StopSkipsRun ==
    /\ StopAwaitsCleanup
    /\ UNCHANGED <<workVars, drainVars>>

\* Fault: stop() polls currentRun until it is null.
StopPollsRun ==
    /\ stopPc = "awaitRun"
    /\ IF currentRun = 0 THEN StopAwaitsCleanup
                         ELSE UNCHANGED <<stopVars, cleanupVars, fires>>
    /\ UNCHANGED <<workVars, drainVars>>

StopAwaitedRun ==
    /\ \/ /\ \A d \in Drains : d = stopAwaits => pc[d] = "done"
          /\ StopAwaitsCleanup
       \/ /\ stopPc = "awaitRun"
          /\ \E d \in Drains : d = stopAwaits /\ pc[d] = "threw"
          /\ stopPc' = "failed"
          /\ UNCHANGED <<stopped, stopAwaits, cleanupVars, fires>>
    /\ UNCHANGED <<workVars, drainVars>>

\* The last flush, if there is something to flush, and the await of it.
StopCleansUp ==
    /\ StopAwaitedCleanup \/ StopFlushed
    /\ UNCHANGED <<workVars, drainVars>>

\* worker_stopped is in the log and in the status file.
StopLogged ==
    /\ stopPc = "logging"
    /\ stopPc' = "done"
    /\ UNCHANGED <<stopped, stopAwaits, workVars, drainVars, cleanupVars, fires>>

StopStep == StopAwaitedRun \/ StopCleansUp \/ StopLogged

----------------------------------------------------------------------------
\* Everything this worker started has ended.
Terminated ==
    /\ stopPc \in {"done", "failed"}
    /\ \A d \in Drains : pc[d] \in {"none", "done", "threw"}
    /\ \A f \in Flushes : flush[f] # "busy"
    /\ UNCHANGED vars

Next ==
    \/ \E t \in Tasks : onFireTask(t)
    \/ \E d \in Drains : DrainStep(d) \/ CycleThrows(d) \/ DrainThrows(d)
    \/ TimerFires
    \/ \E f \in Flushes : FlushReturns(f) \/ FlushFails(f)
    \/ StopCalled \/ StopStep
    \/ Terminated

Spec == Init /\ [][Next]_vars

(* Awaits complete: file operations settle, checkPaused answers, and a     *)
(* child run ends because childRunner aborts it after timeoutMs.  Fires    *)
(* and the call of stop() are not promised.                                *)
Fairness ==
    /\ \A d \in Drains : WF_vars(DrainStep(d) \/ DrainThrows(d))
    /\ \A f \in Flushes : WF_vars(FlushReturns(f) \/ FlushFails(f))
    /\ WF_vars(TimerFires)
    /\ WF_vars(StopStep)

FairSpec == Spec /\ Fairness

----------------------------------------------------------------------------
(* Properties.                                                             *)

SomeDrainThrew == \E d \in Drains : pc[d] \in {"threwFinal", "threw"}

RunningTask ==
    IF running THEN task[CHOOSE d \in Drains : Active(d)] ELSE NoTask

Coalescer == INSTANCE TaskCoalescer WITH
    busy <- running, current <- RunningTask, again <- dirty,
    waiting <- pendingTask, closed <- stopped

(* The worker does for fired tasks what TaskCoalescer promises: every step *)
(* of the drains is a step of it or none, and a task it works on ends.     *)
CoalescesFires == Coalescer!Spec

(* At most one drain of a project is between its first await and its       *)
(* finally block, so at most one child runs, and `running` says exactly    *)
(* whether there is one.                                                   *)
OneDrainAtATime ==
    /\ \A d, e \in Drains : Active(d) /\ Active(e) => d = e
    /\ running <=> \E d \in Drains : Active(d)

(* No lost wake-up: a coalesced fire (dirty, or a task left in pendingTask)*)
(* always has a running drain that will look at it again, unless the       *)
(* worker is stopping or a drain died on a write error.                    *)
NoLostWakeup ==
    dirty \/ pendingTask # NoTask => running \/ stopped \/ SomeDrainThrew

(* After stop() has written worker_stopped the only drain that can still   *)
(* be running is one that was started while an earlier drain was making    *)
(* its last status write: that earlier drain then clears currentRun.       *)
StopAwaitsRun ==
    stopPc = "done" => \A d \in Drains : Active(d) => d \in overlapped

(* stop() returns or rejects; it never waits for ever.                     *)
StopReturns == stopped ~> stopPc \in {"done", "failed"}
=============================================================================
