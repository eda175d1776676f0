------------------------ MODULE ProjectWorkerProofs ------------------------
(***************************************************************************)
(* Proofs about ProjectWorker, for any set of tasks and any number of      *)
(* fires: its type invariant, that drains exclude each other, that no      *)
(* coalesced fire is lost, that stop() waits for the drain, and the step   *)
(* simulation of TaskCoalescer; and, about TaskFile, what the clean-up and *)
(* everybody else who writes the task file leave of it.                    *)
(***************************************************************************)
EXTENDS ProjectWorker, TaskFile, TLAPS

\* Drains are named by the fires that came: the later ones are untouched.
FutureDrainsIdle == \A d \in Drains : d > fires => pc[d] = "none"

\* A task is left for the catch-up only with the flag that asks for one.
PendingIsDirty == pendingTask # NoTask => dirty

\* A drain that overlaps no other one's last write is the promise in
\* currentRun, and nothing is about to clear that.
OwnRunIsCurrent ==
    \A d \in Drains : Active(d) /\ d \notin overlapped
        => /\ currentRun = d
           /\ \A e \in Drains : ~Finalizing(e)

\* stop() has passed its first await.
PastRun == stopPc \in {"awaitCleanup", "flushing", "logging", "done"}

StopKnowsRun ==
    /\ stopped <=> stopPc # "idle"
    /\ \A d \in Drains : Active(d) /\ d \notin overlapped
        => ~PastRun /\ (stopPc = "awaitRun" => stopAwaits = d)

USE TasksAssumption, OneShotsAssumption, MaxFiresAssumption

----------------------------------------------------------------------------
(* Types.                                                                  *)

\* The clean-up's part of the state, in both modules.
LEMMA InitControl == CleanupInit => ControlTypeOK
<1> SUFFICES ASSUME CleanupInit PROVE ControlTypeOK
  OBVIOUS
<1>0. 0 \in 0..MaxFires
  OBVIOUS
<1>1. flush \in [Flushes -> {"none", "busy", "done", "failed"}]
  BY DEF CleanupInit
<1>2. CleanupTypeOK
  BY <1>0, <1>1 DEF CleanupInit, CleanupTypeOK
<1>3. StopTypeOK /\ fires \in 0..MaxFires
  BY <1>0 DEF CleanupInit, StopTypeOK
<1> QED
  BY <1>2, <1>3 DEF ControlTypeOK

\* Timer flushes are numbered within bounds.
LEMMA ControlType ==
    ASSUME ControlTypeOK,
           \/ CleanupTimerFires
           \/ \E f \in Flushes, to \in {"done", "failed"} : FlushSettles(f, to)
           \/ \E run \in 0..MaxFires : StopCalls(run)
           \/ StopAwaitsCleanup \/ StopAwaitedCleanup \/ StopFlushed
    PROVE  ControlTypeOK'
<1>1. CASE CleanupTimerFires
  <2>1. flushes < MaxFires => flushes + 1 \in Flushes /\ flushes + 1 \in 0..MaxFires
    BY DEF ControlTypeOK, CleanupTypeOK, Flushes, StopFlush
  <2> QED
    BY <1>1, <2>1 DEF ControlTypeOK, CleanupTypeOK, StopTypeOK, CleanupTimerFires,
       BeginFlush, stopVars
<1>2. ASSUME NEW f \in Flushes, NEW to \in {"done", "failed"}, FlushSettles(f, to)
      PROVE  ControlTypeOK'
  <2>1. cleanupRun' \in 0..MaxFires
    BY <1>2 DEF ControlTypeOK, CleanupTypeOK, FlushSettles
  <2>3. cleanupTimer' \in BOOLEAN
    BY <1>2 DEF ControlTypeOK, CleanupTypeOK, FlushSettles
  <2> QED
    BY <1>2, <2>1, <2>3 DEF ControlTypeOK, CleanupTypeOK, StopTypeOK, FlushSettles, stopVars
<1>3. ASSUME NEW run \in 0..MaxFires, StopCalls(run)
      PROVE  ControlTypeOK'
  BY <1>3 DEF ControlTypeOK, CleanupTypeOK, StopTypeOK, StopCalls
<1>4. CASE StopAwaitsCleanup \/ StopAwaitedCleanup \/ StopFlushed
  <2>1. StopFlush \in Flushes
    BY DEF StopFlush, Flushes
  <2>2. CleanupTypeOK' /\ fires' \in 0..MaxFires
    BY <1>4, <2>1 DEF ControlTypeOK, CleanupTypeOK, StopAwaitsCleanup,
       StopAwaitedCleanup, StopFlushed, BeginFlush, cleanupVars
  <2>3. StopTypeOK'
    BY <1>4 DEF ControlTypeOK, CleanupTypeOK, StopTypeOK, StopAwaitsCleanup,
       StopAwaitedCleanup, StopFlushed
  <2> QED
    BY <2>2, <2>3 DEF ControlTypeOK
<1> QED
  BY <1>1, <1>2, <1>3, <1>4

\* So does a fire, which notes a one-shot.
LEMMA NoteType ==
    ASSUME ControlTypeOK, NEW t \in Tasks, NoteOneShot(t), fires < MaxFires,
           fires' = fires + 1, UNCHANGED <<stopVars, cleanupRun, flushes, flush>>
    PROVE  ControlTypeOK'
<1>1. completedOneShots' \subseteq OneShots /\ cleanupTimer' \in BOOLEAN
  BY DEF ControlTypeOK, CleanupTypeOK, NoteOneShot
<1> QED
  BY <1>1 DEF ControlTypeOK, CleanupTypeOK, StopTypeOK, stopVars

LEMMA InitType == Init => TypeOK
<1> SUFFICES ASSUME Init PROVE TypeOK
  OBVIOUS
<1>1. WorkTypeOK
  <2>1. 0 \in 0..MaxFires /\ 0 \in {0, 1}
    OBVIOUS
  <2> QED
    BY <2>1 DEF Init, WorkTypeOK
<1>2. DrainTypeOK
  BY DEF Init, DrainTypeOK, DrainPcs
<1> QED
  BY <1>1, <1>2, InitControl DEF Init, TypeOK, ControlTypeOK

\* A fire names the next drain, so there is room for it.
LEMMA NextDrain ==
    ASSUME TypeOK, fires < MaxFires
    PROVE  fires + 1 \in Drains
BY DEF TypeOK, ControlTypeOK, Drains

\* A drain moved to a position is still typed.
LEMMA MoveDrain ==
    ASSUME TypeOK, NEW d \in Drains, NEW to \in DrainPcs,
           NEW t \in Tasks \cup {NoTask},
           pc' = [pc EXCEPT ![d] = to],
           task' = task \/ task' = [task EXCEPT ![d] = t],
           overlapped' \subseteq Drains
    PROVE  DrainTypeOK'
BY DEF TypeOK, DrainTypeOK

LEMMA FireType ==
    ASSUME TypeOK, NEW t \in Tasks, onFireTask(t)
    PROVE  TypeOK'
<1>1. fires + 1 \in Drains /\ fires + 1 \in 0..MaxFires
  BY NextDrain DEF onFireTask, Drains
<1>2. ControlTypeOK'
  BY NoteType DEF TypeOK, ControlTypeOK, onFireTask
<1>3. WorkTypeOK'
  BY <1>1 DEF TypeOK, WorkTypeOK, onFireTask, Coalesce, StartDrain
<1>4. DrainTypeOK'
  <2>1. CASE Coalesce(t)
    BY <2>1 DEF TypeOK, DrainTypeOK, Coalesce, drainVars
  <2>2. CASE StartDrain(t)
    <3>1. "starting" \in DrainPcs
      BY DEF DrainPcs, CyclePcs
    <3>2. overlapped' \subseteq Drains
      BY <1>1, <2>2 DEF TypeOK, DrainTypeOK, StartDrain
    <3> QED
      BY <1>1, <2>2, <3>1, <3>2, MoveDrain DEF StartDrain
  <2> QED
    BY <2>1, <2>2 DEF onFireTask
<1> QED
  BY <1>2, <1>3, <1>4 DEF TypeOK, ControlTypeOK

\* The clean-up's variables stay.
LEMMA ControlUnchanged ==
    ASSUME ControlTypeOK, UNCHANGED <<cleanupVars, stopVars, fires>>
    PROVE  ControlTypeOK'
BY DEF ControlTypeOK, CleanupTypeOK, StopTypeOK, cleanupVars, stopVars

\* A step that only moves a drain.
LEMMA MoveOnlyType ==
    ASSUME TypeOK, NEW d \in Drains, NEW to \in DrainPcs,
           pc' = [pc EXCEPT ![d] = to],
           UNCHANGED <<workVars, task, overlapped, cleanupVars, stopVars, fires>>
    PROVE  TypeOK'
<1>1. DrainTypeOK'
  BY DEF TypeOK, DrainTypeOK
<1>2. WorkTypeOK'
  BY DEF TypeOK, WorkTypeOK, workVars
<1> QED
  BY <1>1, <1>2, ControlUnchanged DEF TypeOK, ControlTypeOK

\* The finally block, with what the branch before it did to the flags.
LEMMA FinalizeType ==
    ASSUME TypeOK, NEW d \in Drains, NEW to \in FinalPcs, Finalize(d, to),
           dirty' \in {FALSE, dirty}, pendingTask' \in {NoTask, pendingTask}
    PROVE  TypeOK'
<1>1. DrainTypeOK'
  BY DEF TypeOK, DrainTypeOK, Finalize, DrainPcs
<1>2. WorkTypeOK'
  BY DEF TypeOK, WorkTypeOK, Finalize
<1> QED
  BY <1>1, <1>2, ControlUnchanged DEF TypeOK, ControlTypeOK, Finalize

LEMMA DrainType ==
    ASSUME TypeOK, NEW d \in Drains,
           DrainStep(d) \/ CycleThrows(d) \/ DrainThrows(d)
    PROVE  TypeOK'
<1> USE DEF DrainPcs, CyclePcs, FinalPcs
<1>1. CASE StatusWritten(d)
  BY <1>1, MoveOnlyType DEF StatusWritten, Goto
<1>2. CASE SkipPaused(d)
  BY <1>2, MoveOnlyType DEF SkipPaused, Goto
<1>3. CASE RunTask(d)
  BY <1>3, MoveOnlyType DEF RunTask, Goto
<1>4. CASE TaskReturns(d)
  BY <1>4, MoveOnlyType DEF TaskReturns, Goto
<1>5. CASE CatchUp(d)
  <2>1. DrainTypeOK'
    BY <1>5 DEF TypeOK, DrainTypeOK, WorkTypeOK, CatchUp, Goto
  <2>2. WorkTypeOK'
    BY <1>5 DEF TypeOK, WorkTypeOK, CatchUp
  <2> QED
    BY <1>5, <2>1, <2>2, ControlUnchanged DEF TypeOK, ControlTypeOK, CatchUp
<1>6. CASE LeaveLoop(d)
  BY <1>6, FinalizeType DEF LeaveLoop
<1>7. CASE LeavePaused(d)
  BY <1>7, FinalizeType DEF LeavePaused
<1>8. CASE DrainReturns(d)
  <2>1. DrainTypeOK'
    BY <1>8 DEF TypeOK, DrainTypeOK, DrainReturns, Goto
  <2>2. WorkTypeOK'
    BY <1>8 DEF TypeOK, WorkTypeOK, DrainReturns
  <2> QED
    BY <1>8, <2>1, <2>2, ControlUnchanged DEF TypeOK, ControlTypeOK, DrainReturns
<1>9. CASE CycleThrows(d)
  BY <1>9, FinalizeType DEF CycleThrows
<1>10. CASE DrainThrows(d)
  BY <1>10, MoveOnlyType DEF DrainThrows
<1> QED
  BY <1>1, <1>2, <1>3, <1>4, <1>5, <1>6, <1>7, <1>8, <1>9, <1>10 DEF DrainStep

\* A step of the clean-up or of stop() leaves the drains alone.
LEMMA ControlStepType ==
    ASSUME TypeOK, ControlTypeOK', UNCHANGED <<workVars, drainVars>>
    PROVE  TypeOK'
BY DEF TypeOK, ControlTypeOK, WorkTypeOK, DrainTypeOK, workVars, drainVars

LEMMA CleanupStepType ==
    ASSUME TypeOK,
           TimerFires \/ \E f \in Flushes : FlushReturns(f) \/ FlushFails(f)
    PROVE  TypeOK'
<1>1. ControlTypeOK' /\ UNCHANGED <<workVars, drainVars>>
  BY ControlType DEF TypeOK, ControlTypeOK, TimerFires, FlushReturns, FlushFails
<1> QED
  BY <1>1, ControlStepType

LEMMA StopType ==
    ASSUME TypeOK, StopCalled \/ StopStep
    PROVE  TypeOK'
<1>0. ControlTypeOK /\ currentRun \in 0..MaxFires
  BY DEF TypeOK, ControlTypeOK, WorkTypeOK
<1>1. CASE StopCalled \/ StopAwaitsCleanup \/ StopCleansUp
  <2>1. ControlTypeOK'
    BY <1>0, <1>1, ControlType DEF StopCalled, StopCleansUp
  <2>2. UNCHANGED <<workVars, drainVars>>
    BY <1>1 DEF StopCalled, StopStep, StopAwaitedRun, StopCleansUp, StopAwaitsCleanup,
       StopAwaitedCleanup, StopFlushed, StopLogged
  <2> QED
    BY <2>1, <2>2, ControlStepType
<1>2. CASE stopPc' \in {"failed", "done"}
           /\ UNCHANGED <<stopped, stopAwaits, cleanupVars, fires, workVars, drainVars>>
  <2>1. ControlTypeOK'
    BY <1>0, <1>2 DEF ControlTypeOK, CleanupTypeOK, StopTypeOK, cleanupVars
  <2> QED
    BY <1>2, <2>1, ControlStepType
<1> QED
  BY <1>1, <1>2 DEF StopStep, StopAwaitedRun, StopLogged

LEMMA NextType == TypeOK /\ [Next]_vars => TypeOK'
<1> SUFFICES ASSUME TypeOK, [Next]_vars PROVE TypeOK'
  OBVIOUS
<1>1. CASE UNCHANGED vars
  BY <1>1, ControlUnchanged, ControlStepType DEF TypeOK, ControlTypeOK, vars
<1> QED
  BY <1>1, FireType, DrainType, CleanupStepType, StopType DEF Next, Terminated

(* Every variable keeps its type in every behaviour of the worker.         *)
THEOREM TypeCorrect == Spec => []TypeOK
BY InitType, NextType, PTL DEF Spec

----------------------------------------------------------------------------
(* The inductive invariant.                                                *)

\* What it says besides types, of the parts of the state it speaks about.
Order ==
    /\ FutureDrainsIdle
    /\ OneDrainAtATime
    /\ PendingIsDirty
    /\ NoLostWakeup
    /\ OwnRunIsCurrent
    /\ StopKnowsRun

orderVars == <<running, dirty, pendingTask, currentRun, fires, pc, overlapped,
               stopped, stopPc, stopAwaits>>

LEMMA OrderUnchanged == Order /\ UNCHANGED orderVars => Order'
BY DEF Order, orderVars, FutureDrainsIdle, OneDrainAtATime, PendingIsDirty,
   NoLostWakeup, SomeDrainThrew, OwnRunIsCurrent, StopKnowsRun, PastRun, Active,
   Finalizing

LEMMA InitOrder == Init => Order
<1> SUFFICES ASSUME Init PROVE Order
  OBVIOUS
<1>1. \A d \in Drains : ~Active(d)
  BY DEF Init, Active, CyclePcs
<1> QED
  BY <1>1 DEF Init, CleanupInit, Order, FutureDrainsIdle, OneDrainAtATime, PendingIsDirty,
     NoLostWakeup, OwnRunIsCurrent, StopKnowsRun

LEMMA FireOrder ==
    ASSUME TypeOK, Order, NEW t \in Tasks, onFireTask(t)
    PROVE  Order'
<1>1. CASE Coalesce(t)
  <2>1. UNCHANGED <<running, currentRun, pc, overlapped, stopped, stopPc, stopAwaits>>
    BY <1>1 DEF onFireTask, Coalesce, drainVars, stopVars
  <2>2. /\ running /\ dirty'
        /\ fires' = fires + 1
    BY <1>1 DEF onFireTask, Coalesce
  <2>3. FutureDrainsIdle'
    BY <2>1, <2>2 DEF Order, FutureDrainsIdle, TypeOK, ControlTypeOK, Drains
  <2> QED
    BY <2>1, <2>2, <2>3 DEF Order, OneDrainAtATime, PendingIsDirty,
       NoLostWakeup, OwnRunIsCurrent, StopKnowsRun, PastRun, Active, Finalizing
<1>2. CASE StartDrain(t)
  <2> DEFINE n == fires + 1
  <2>1. n \in Drains
    BY NextDrain DEF onFireTask
  <2>2. pc[n] = "none"
    BY <2>1 DEF Order, FutureDrainsIdle, TypeOK, ControlTypeOK
  <2>3. /\ pc' = [pc EXCEPT ![n] = "starting"]
        /\ fires' = n /\ currentRun' = n /\ running' /\ ~running
        /\ pendingTask' = NoTask /\ ~stopped
        /\ overlapped' = IF \E d \in Drains : Finalizing(d)
                         THEN overlapped \cup {n} ELSE overlapped
        /\ UNCHANGED <<stopped, stopPc, stopAwaits>>
    BY <1>2 DEF onFireTask, StartDrain, stopVars
  <2>4. \A d \in Drains : ~Active(d)
    BY <2>3 DEF Order, OneDrainAtATime
  <2>5. \A d \in Drains : /\ d # n => pc'[d] = pc[d]
                          /\ pc'[n] = "starting"
    BY <2>1, <2>3 DEF TypeOK, DrainTypeOK
  <2>6. \A d \in Drains : Active(d)' <=> d = n
    BY <2>1, <2>4, <2>5 DEF Active, CyclePcs
  <2>7. \A d \in Drains : Finalizing(d)' => Finalizing(d)
    BY <2>5 DEF Finalizing, FinalPcs
  <2>8. FutureDrainsIdle'
    BY <2>3, <2>5 DEF Order, FutureDrainsIdle, TypeOK, ControlTypeOK, Drains
  <2>9. OneDrainAtATime' /\ PendingIsDirty' /\ NoLostWakeup'
    BY <2>1, <2>3, <2>6 DEF OneDrainAtATime, PendingIsDirty, NoLostWakeup
  <2>10. OwnRunIsCurrent'
    BY <2>3, <2>6, <2>7 DEF OwnRunIsCurrent
  <2>11. StopKnowsRun'
    BY <2>3 DEF Order, StopKnowsRun, PastRun
  <2> QED
    BY <2>8, <2>9, <2>10, <2>11 DEF Order
<1> QED
  BY <1>1, <1>2 DEF onFireTask

\* A drain stays in its cycle.
LEMMA KeepCycleOrder ==
    ASSUME TypeOK, Order, NEW d \in Drains, NEW to \in CyclePcs,
           Active(d),
           pc' = [pc EXCEPT ![d] = to],
           UNCHANGED <<running, currentRun, fires, overlapped, stopVars>>,
           pendingTask' # NoTask => dirty'
    PROVE  Order'
<1>1. \A e \in Drains : /\ e # d => pc'[e] = pc[e]
                        /\ pc'[d] = to
  BY DEF TypeOK, DrainTypeOK
<1>2. \A e \in Drains : /\ Active(e)' <=> Active(e)
                        /\ Finalizing(e)' => Finalizing(e)
  BY <1>1 DEF Active, Finalizing, CyclePcs, FinalPcs
<1>3. running'
  BY DEF Order, OneDrainAtATime
<1>4. FutureDrainsIdle'
  BY <1>1 DEF Order, FutureDrainsIdle, Active, CyclePcs
<1>5. OneDrainAtATime' /\ PendingIsDirty' /\ NoLostWakeup'
  BY <1>2, <1>3 DEF Order, OneDrainAtATime, PendingIsDirty, NoLostWakeup
<1>6. OwnRunIsCurrent' /\ StopKnowsRun'
  BY <1>2 DEF Order, OwnRunIsCurrent, StopKnowsRun, PastRun, stopVars
<1> QED
  BY <1>4, <1>5, <1>6 DEF Order

\* The finally block: it may leave a catch-up undone only when the worker is
\* stopping or the cycle threw.
LEMMA FinalizeOrder ==
    ASSUME TypeOK, Order, NEW d \in Drains, NEW to \in FinalPcs,
           Active(d), Finalize(d, to),
           pendingTask' # NoTask => dirty',
           dirty' => stopped \/ to = "threwFinal"
    PROVE  Order'
<1>1. \A e \in Drains : /\ e # d => pc'[e] = pc[e]
                        /\ pc'[d] = to
  BY DEF TypeOK, DrainTypeOK, Finalize
<1>2. \A e \in Drains : ~Active(e)'
  BY <1>1 DEF Order, OneDrainAtATime, Active, CyclePcs, FinalPcs
<1>3. UNCHANGED <<currentRun, fires, overlapped, stopped, stopPc, stopAwaits>> /\ ~running'
  BY DEF Finalize, stopVars
<1>4. FutureDrainsIdle'
  BY <1>1, <1>3 DEF Order, FutureDrainsIdle, Active, CyclePcs
<1>5. OneDrainAtATime' /\ PendingIsDirty'
  BY <1>2, <1>3 DEF OneDrainAtATime, PendingIsDirty
<1>6. NoLostWakeup'
  BY <1>1, <1>3 DEF NoLostWakeup, SomeDrainThrew
<1>7. OwnRunIsCurrent' /\ StopKnowsRun'
  BY <1>2, <1>3 DEF Order, OwnRunIsCurrent, StopKnowsRun
<1> QED
  BY <1>4, <1>5, <1>6, <1>7 DEF Order

\* A drain ends: it may clear currentRun, but then no drain relies on it.
LEMMA EndOrder ==
    ASSUME TypeOK, Order, NEW d \in Drains, NEW to \in {"done", "threw"},
           pc' = [pc EXCEPT ![d] = to],
           Finalizing(d),
           pc[d] = "threwFinal" => to = "threw",
           UNCHANGED <<running, dirty, pendingTask, fires, overlapped, stopVars>>
    PROVE  Order'
<1>1. \A e \in Drains : /\ e # d => pc'[e] = pc[e]
                        /\ pc'[d] = to
  BY DEF TypeOK, DrainTypeOK
<1>2. \A e \in Drains : /\ Active(e)' <=> Active(e)
                        /\ Finalizing(e)' => Finalizing(e)
  BY <1>1 DEF Active, Finalizing, CyclePcs, FinalPcs
<1>3. FutureDrainsIdle'
  BY <1>1 DEF Order, FutureDrainsIdle, Finalizing, FinalPcs
<1>4. SomeDrainThrew => SomeDrainThrew'
  BY <1>1 DEF SomeDrainThrew, Finalizing, FinalPcs
<1>5. OneDrainAtATime' /\ PendingIsDirty' /\ NoLostWakeup'
  BY <1>2, <1>4 DEF Order, OneDrainAtATime, PendingIsDirty, NoLostWakeup, stopVars
<1>6. OwnRunIsCurrent' /\ StopKnowsRun'
  BY <1>2 DEF Order, OwnRunIsCurrent, StopKnowsRun, PastRun, stopVars
<1> QED
  BY <1>3, <1>5, <1>6 DEF Order

LEMMA DrainOrder ==
    ASSUME TypeOK, Order, NEW d \in Drains,
           DrainStep(d) \/ CycleThrows(d) \/ DrainThrows(d)
    PROVE  Order'
<1> USE DEF Active, CyclePcs
<1>0. pendingTask # NoTask => dirty
  BY DEF Order, PendingIsDirty
<1>1. CASE StatusWritten(d)
  BY <1>0, <1>1, KeepCycleOrder DEF StatusWritten, Goto, workVars
<1>2. CASE SkipPaused(d)
  BY <1>0, <1>2, KeepCycleOrder DEF SkipPaused, Goto, workVars
<1>3. CASE RunTask(d)
  BY <1>0, <1>3, KeepCycleOrder DEF RunTask, Goto, workVars
<1>4. CASE TaskReturns(d)
  BY <1>0, <1>4, KeepCycleOrder DEF TaskReturns, Goto, workVars
<1>5. CASE CatchUp(d)
  BY <1>5, KeepCycleOrder DEF CatchUp, Goto
<1>6. CASE LeaveLoop(d)
  BY <1>0, <1>6, FinalizeOrder DEF LeaveLoop, FinalPcs
<1>7. CASE LeavePaused(d)
  BY <1>7, FinalizeOrder DEF LeavePaused, FinalPcs
<1>8. CASE DrainReturns(d)
  BY <1>8, EndOrder DEF DrainReturns, Goto, Finalizing, FinalPcs
<1>9. CASE CycleThrows(d)
  BY <1>0, <1>9, FinalizeOrder DEF CycleThrows, FinalPcs
<1>10. CASE DrainThrows(d)
  BY <1>10, EndOrder DEF DrainThrows, workVars
<1> QED
  BY <1>1, <1>2, <1>3, <1>4, <1>5, <1>6, <1>7, <1>8, <1>9, <1>10 DEF DrainStep

LEMMA StopOrder ==
    ASSUME TypeOK, Order, StopCalled \/ StopStep
    PROVE  Order'
<1>1. UNCHANGED <<running, dirty, pendingTask, currentRun, fires, pc, overlapped>>
  BY DEF StopStep, StopCalled, StopCalls, StopAwaitedRun, StopAwaitsCleanup,
     StopCleansUp, StopAwaitedCleanup, StopFlushed, StopLogged, workVars, drainVars
<1>2. stopped => stopped'
  BY DEF StopStep, StopCalled, StopCalls, StopAwaitedRun, StopAwaitsCleanup,
     StopCleansUp, StopAwaitedCleanup, StopFlushed, StopLogged
<1>3. /\ FutureDrainsIdle' /\ OneDrainAtATime' /\ PendingIsDirty'
      /\ NoLostWakeup' /\ OwnRunIsCurrent'
  BY <1>1, <1>2 DEF Order, FutureDrainsIdle, OneDrainAtATime, PendingIsDirty,
     NoLostWakeup, SomeDrainThrew, OwnRunIsCurrent, Active, Finalizing
<1>4. StopKnowsRun'
  <2>1. CASE StopCalled
    BY <1>1, <2>1 DEF Order, StopCalled, StopCalls, StopKnowsRun, OwnRunIsCurrent, PastRun, Active
  <2>2. CASE StopAwaitedRun
    <3>1. \A d \in Drains : pc[d] \in {"done", "threw"} => ~Active(d)
      BY DEF Active, CyclePcs
    <3> QED
      BY <1>1, <2>2, <3>1 DEF Order, StopAwaitedRun, StopAwaitsCleanup,
         StopKnowsRun, PastRun, Active
  <2>3. CASE StopCleansUp \/ StopLogged
    BY <1>1, <2>3 DEF Order, StopCleansUp, StopAwaitedCleanup, StopFlushed,
       StopLogged, StopKnowsRun, PastRun, Active
  <2> QED
    BY <2>1, <2>2, <2>3 DEF StopStep
<1> QED
  BY <1>3, <1>4 DEF Order

LEMMA NextOrder == TypeOK /\ Order /\ [Next]_vars => Order'
<1> SUFFICES ASSUME TypeOK, Order, [Next]_vars PROVE Order'
  OBVIOUS
<1>1. CASE UNCHANGED vars
  BY <1>1, OrderUnchanged DEF vars, workVars, drainVars, stopVars, orderVars
<1>2. CASE TimerFires
  BY <1>2, OrderUnchanged DEF TimerFires, CleanupTimerFires, workVars, drainVars,
     stopVars, orderVars
<1>3. ASSUME NEW f \in Flushes, FlushReturns(f) \/ FlushFails(f)
      PROVE  Order'
  BY <1>3, OrderUnchanged DEF FlushReturns, FlushFails, FlushSettles, workVars,
     drainVars, stopVars, orderVars
<1> QED
  BY <1>1, <1>2, <1>3, FireOrder, DrainOrder, StopOrder DEF Next, Terminated

(* The invariant is inductive, and so holds in every reachable state.      *)
THEOREM Inductive == Spec => [](TypeOK /\ Order)
<1>1. Init => TypeOK /\ Order
  BY InitType, InitOrder
<1>2. TypeOK /\ Order /\ [Next]_vars => (TypeOK /\ Order)'
  BY NextType, NextOrder
<1> QED
  BY <1>1, <1>2, PTL DEF Spec

(* Two drains of a project never run at the same time, and `running` tells *)
(* whether one does.                                                       *)
THEOREM DrainsExclude == Spec => []OneDrainAtATime
<1>1. TypeOK /\ Order => OneDrainAtATime
  BY DEF Order
<1> QED
  BY <1>1, Inductive, PTL

(* No fire that was coalesced is left without a drain that will look at it.*)
THEOREM WakeupKept == Spec => []NoLostWakeup
<1>1. TypeOK /\ Order => NoLostWakeup
  BY DEF Order
<1> QED
  BY <1>1, Inductive, PTL

(* When stop() is done, a drain still running is one that started while an *)
(* earlier drain was making its last status write.                         *)
THEOREM StopWaits == Spec => []StopAwaitsRun
<1>1. TypeOK /\ Order => StopAwaitsRun
  BY DEF Order, StopKnowsRun, PastRun, StopAwaitsRun
<1> QED
  BY <1>1, Inductive, PTL

----------------------------------------------------------------------------
(* The task file: what the worker's clean-up, the scheduler and another    *)
(* session leave of it.                                                    *)

USE LateAssumption

\* Which numbers are whose.
LEMMA WriterNumbers ==
    /\ \A f \in Flushes : f \in Writers /\ f \notin Chores
    /\ Outsider \in Writers /\ Outsider \notin Chores /\ Outsider \notin Flushes
    /\ \A n \in 1..MaxFires : Chore(n) \in Writers /\ Chore(n) \in Chores
    /\ \A n, m \in 1..MaxFires : Chore(n) = Chore(m) => n = m
    /\ \A w \in Chores : w \notin Flushes /\ w # Outsider /\ w \in Writers
BY DEF Flushes, StopFlush, Writers, Chores, Chore, Outsider

\* A write that begins, and one that was read, is typed.
LEMMA BeginType ==
    ASSUME WriteTypeOK, NEW w \in Writers, NEW op \in WriteOps,
           NEW ids \in SUBSET Tasks, Begin(w, op, ids)
    PROVE  /\ write' \in [Writers -> [pc : WritePcs, op : WriteOps,
                                      ids : SUBSET Tasks, rest : SUBSET Tasks]]
           /\ disturbed' \in BOOLEAN
BY DEF WriteTypeOK, Begin, WritePcs

LEMMA ModifyType ==
    ASSUME WriteTypeOK, NEW w \in Writers, NEW content \in SUBSET Tasks,
           Modify(w, content)
    PROVE  write' \in [Writers -> [pc : WritePcs, op : WriteOps,
                                   ids : SUBSET Tasks, rest : SUBSET Tasks]]
<1>1. write[w].op \in WriteOps /\ write[w].ids \in SUBSET Tasks
  BY DEF WriteTypeOK
<1>2. Rewritten(write[w].op, write[w].ids, content) \in SUBSET Tasks
  BY <1>1 DEF Rewritten, WriteOps
<1>3. Idle \in [pc : WritePcs, op : WriteOps, ids : SUBSET Tasks, rest : SUBSET Tasks]
  BY DEF Idle, WritePcs, WriteOps
<1> QED
  BY <1>1, <1>2, <1>3 DEF Modify, WriteTypeOK, WritePcs

\* The steps of a write, and of the clean-up's control with them.
LEMMA WriteStepType ==
    ASSUME FileTypeOK, NEW w \in Writers,
           ReadTasks(w) \/ Truncate(w) \/ Fill(w) \/ WriteFails(w)
    PROVE  FileTypeOK'
<1>0. ControlTypeOK /\ WriteTypeOK
  BY DEF FileTypeOK
<1>1. CASE ReadTasks(w)
  <2>1. WriteTypeOK'
    BY <1>0, <1>1, ModifyType DEF ReadTasks, WriteTypeOK
  <2> QED
    BY <1>0, <1>1, <2>1, ControlUnchanged DEF FileTypeOK, ReadTasks
<1>2. CASE Truncate(w)
  <2>1. WriteTypeOK'
    BY <1>0, <1>2 DEF Truncate, WriteTypeOK, WritePcs, historyVars
  <2> QED
    BY <1>0, <1>2, <2>1, ControlUnchanged DEF FileTypeOK, Truncate
<1>3. ASSUME NEW to \in {"done", "failed"}, Settle(w, to)
      PROVE  /\ ControlTypeOK'
             /\ write' \in [Writers -> [pc : WritePcs, op : WriteOps,
                                        ids : SUBSET Tasks, rest : SUBSET Tasks]]
  <2>1. ControlTypeOK'
    BY <1>0, <1>3, ControlType, ControlUnchanged DEF Settle
  <2> QED
    BY <1>0, <1>3, <2>1 DEF Settle, WriteTypeOK, Idle, WritePcs, WriteOps
<1>4. CASE Fill(w)
  <2>1. write[w].rest \subseteq Tasks /\ write[w].ids \subseteq Tasks
    BY <1>0 DEF WriteTypeOK
  <2>2. WriteTypeOK'
    BY <1>0, <1>3, <1>4, <2>1 DEF Fill, WriteTypeOK
  <2> QED
    BY <1>3, <1>4, <2>2 DEF FileTypeOK, Fill
<1>5. CASE WriteFails(w)
  <2>1. WriteTypeOK'
    BY <1>0, <1>3, <1>5 DEF WriteFails, WriteTypeOK
  <2> QED
    BY <1>3, <1>5, <2>1 DEF FileTypeOK, WriteFails
<1> QED
  BY <1>1, <1>2, <1>4, <1>5

LEMMA FileFireType ==
    ASSUME FileTypeOK, NEW t \in Tasks, Fire(t)
    PROVE  FileTypeOK'
<1>0. ControlTypeOK /\ WriteTypeOK
  BY DEF FileTypeOK
<1>1. ControlTypeOK'
  BY <1>0, NoteType DEF Fire
<1>2. fires + 1 \in 1..MaxFires
  BY <1>0 DEF ControlTypeOK, Fire
<1>3. Chore(fires + 1) \in Writers
  BY <1>2, WriterNumbers
<1>4. /\ write' \in [Writers -> [pc : WritePcs, op : WriteOps,
                                 ids : SUBSET Tasks, rest : SUBSET Tasks]]
      /\ disturbed' \in BOOLEAN
  BY <1>0, <1>3, BeginType DEF Fire, BeginChore, WriteOps
<1>5. dropped' \subseteq Tasks /\ fired' \subseteq OneShots /\ UNCHANGED <<file, listed>>
  BY <1>0 DEF Fire, BeginChore, WriteTypeOK
<1> QED
  BY <1>0, <1>1, <1>4, <1>5 DEF FileTypeOK, WriteTypeOK

\* A flush that begins, or any other step of the control.
LEMMA FileControlType ==
    ASSUME FileTypeOK, TimerFlush \/ OutsideWrite \/ Stopping \/ StopFlushes
    PROVE  FileTypeOK'
<1>0. /\ ControlTypeOK /\ WriteTypeOK
      /\ completedOneShots \in SUBSET Tasks /\ "flush" \in WriteOps
      /\ StopFlush \in Writers
  BY WriterNumbers DEF FileTypeOK, ControlTypeOK, CleanupTypeOK, WriteOps,
     Flushes, StopFlush
<1>1. CASE TimerFlush
  <2>1. flushes < MaxFires => flushes + 1 \in Writers
    BY <1>0 DEF ControlTypeOK, CleanupTypeOK, Writers, StopFlush
  <2>2. WriteTypeOK'
    BY <1>0, <1>1, <2>1, BeginType DEF TimerFlush, CleanupTimerFires, WriteTypeOK
  <2> QED
    BY <1>0, <1>1, <2>2, ControlType DEF FileTypeOK, TimerFlush
<1>2. CASE OutsideWrite
  <2>1. WriteTypeOK'
    BY <1>0, <1>2, BeginType, WriterNumbers DEF OutsideWrite, WriteTypeOK, WriteOps
  <2> QED
    BY <1>0, <1>2, <2>1, ControlUnchanged DEF FileTypeOK, OutsideWrite
<1>3. CASE Stopping
  <2>1. WriteTypeOK'
    BY <1>0, <1>3 DEF Stopping, WriteTypeOK, fileVars, historyVars
  <2>2. 0 \in 0..MaxFires
    OBVIOUS
  <2> QED
    BY <1>0, <1>3, <2>1, <2>2, ControlType DEF FileTypeOK, Stopping
<1>4. CASE StopFlushes
  <2>1. WriteTypeOK'
    BY <1>0, <1>4, BeginType DEF StopFlushes, WriteTypeOK
  <2> QED
    BY <1>0, <1>4, <2>1, ControlType DEF FileTypeOK, StopFlushes
<1> QED
  BY <1>1, <1>2, <1>3, <1>4

LEMMA FileNextType == FileTypeOK /\ [FileNext]_taskVars => FileTypeOK'
<1> SUFFICES ASSUME FileTypeOK, [FileNext]_taskVars PROVE FileTypeOK'
  OBVIOUS
<1>1. CASE UNCHANGED taskVars
  BY <1>1, ControlUnchanged DEF FileTypeOK, taskVars, fileVars, historyVars,
     WriteTypeOK
<1> QED
  BY <1>1, FileFireType, FileControlType, WriteStepType DEF FileNext, Quiet

LEMMA FileInitType == FileInit => FileTypeOK
<1> SUFFICES ASSUME FileInit PROVE FileTypeOK
  OBVIOUS
<1>1. Idle \in [pc : WritePcs, op : WriteOps, ids : SUBSET Tasks, rest : SUBSET Tasks]
  BY DEF Idle, WritePcs, WriteOps
<1>2. WriteTypeOK
  BY <1>1 DEF FileInit, WriteTypeOK
<1> QED
  BY <1>2, InitControl DEF FileInit, FileTypeOK

----------------------------------------------------------------------------
(* The invariant of the file.                                              *)

\* content has every task it should, and only those fired one-shots that are
\* still to be cleaned up.
Exact(content, waiting) ==
    listed \ (fired \cup dropped) \subseteq content /\ content \cap fired \subseteq waiting

\* What each kind of write is asked to do.
Asked(w) ==
    /\ write[w].op = "remove" => write[w].ids \subseteq fired \cup dropped
    /\ write[w].op = "flush" => w \in Flushes /\ write[w].ids \subseteq fired
    /\ write[w].op = "add" => w \notin Chores /\ write[w].ids \cap listed = {}

\* Where a write stands, the file or what it will write is exact.
Keeps(w) ==
    /\ w \in Flushes /\ write[w].pc = "reading" =>
          /\ write[w].op = "flush"
          /\ Exact(file, completedOneShots \cup write[w].ids)
    /\ write[w].pc \in {"writing", "truncated"} =>
          /\ Exact(write[w].rest, completedOneShots)
          /\ write[w].op = "add" => write[w].ids \subseteq write[w].rest

\* Only the scheduler's own writes overlap.
Apart == \A v, w \in Writers : Busy(v) /\ Busy(w) /\ v # w => {v, w} \subseteq Chores

\* While no flush is in progress the file is exact, or empty because somebody
\* has truncated it and will fill it.
FileKept ==
    (\A f \in Flushes : ~Busy(f)) =>
        \/ Exact(file, completedOneShots)
        \/ file = {} /\ \E w \in Writers : write[w].pc = "truncated"

Kept ==
    /\ Apart /\ FileKept
    /\ \A w \in Writers : Busy(w) => Asked(w) /\ Keeps(w)

FileInv ==
    /\ completedOneShots \subseteq fired /\ fired \subseteq listed
    /\ \A n \in 1..MaxFires : n > fires => ~Busy(Chore(n))
    /\ ~disturbed => Kept

LEMMA InitFileInv == FileInit => FileInv
<1> SUFFICES ASSUME FileInit PROVE FileInv
  OBVIOUS
<1>1. \A w \in Writers : ~Busy(w)
  BY DEF FileInit, Busy, Idle
<1>2. FileKept
  BY DEF FileInit, CleanupInit, FileKept, Exact
<1> QED
  BY <1>1, <1>2, WriterNumbers DEF FileInit, CleanupInit, FileInv, Kept, Apart

\* Writer w begins, when the file may be read: nothing else is disturbed.
LEMMA BeginKept ==
    ASSUME FileTypeOK, FileInv, NEW w \in Writers, NEW op \in WriteOps,
           NEW ids \in SUBSET Tasks, Begin(w, op, ids), w \notin Chores, ~disturbed',
           UNCHANGED <<file, fired, listed>>, dropped \subseteq dropped',
           op = "remove" => ids \subseteq fired \cup dropped',
           op = "add" => ids \cap listed = {},
           op = "flush" => w \in Flushes /\ ids = completedOneShots,
           w \in Flushes => op = "flush" /\ completedOneShots' = {},
           w \notin Flushes => completedOneShots' = completedOneShots
    PROVE  Kept'
<1>1. ~disturbed /\ \A v \in Writers : ~Busy(v)
  BY DEF Begin
<1>2. Exact(file, completedOneShots) /\ completedOneShots \subseteq fired
  BY <1>1, WriterNumbers DEF FileInv, Kept, FileKept, Busy
<1>3. /\ write'[w] = [pc |-> "reading", op |-> op, ids |-> ids, rest |-> {}]
      /\ \A v \in Writers : v # w => write'[v] = write[v]
  BY DEF Begin, FileTypeOK, WriteTypeOK
<1>4. Busy(w)' /\ \A v \in Writers : v # w => ~Busy(v)'
  BY <1>1, <1>3 DEF Busy
<1>5. Apart'
  BY <1>4 DEF Apart
<1>6. Asked(w)'
  BY <1>2, <1>3 DEF Asked
<1>7. Exact(file, completedOneShots)' \/ w \in Flushes
  BY <1>2 DEF Exact
<1>8. Keeps(w)'
  BY <1>2, <1>3 DEF Keeps, Exact
<1>9. FileKept'
  BY <1>4, <1>7 DEF FileKept
<1> QED
  BY <1>4, <1>5, <1>6, <1>8, <1>9 DEF Kept

LEMMA FireFileInv ==
    ASSUME FileTypeOK, FileInv, NEW t \in Tasks, Fire(t)
    PROVE  FileInv'
<1> DEFINE n == fires + 1
           w == Chore(n)
           new == {t} \cap OneShots
<1>1. n \in 1..MaxFires /\ fires' = n /\ fires \in Nat
  BY DEF FileTypeOK, ControlTypeOK, Fire
<1>2. w \in Writers /\ w \in Chores /\ w \notin Flushes /\ ~Busy(w)
  BY <1>1, WriterNumbers DEF FileInv
<1>3. /\ completedOneShots' = completedOneShots \cup new
      /\ fired' = fired \cup new /\ t \in listed
      /\ UNCHANGED <<file, listed>>
      /\ dropped \subseteq dropped' /\ (t \in fired' \cup dropped' \/ t \notin OneShots)
  BY DEF Fire, NoteOneShot, BeginChore
<1>4. PICK op \in {"remove", "mark"} :
          /\ Begin(w, op, {t})
          /\ dropped \subseteq dropped'
          /\ op = "remove" => t \in fired' \cup dropped'
  BY <1>3 DEF Fire, BeginChore
<1>5. /\ write'[w] = [pc |-> "reading", op |-> op, ids |-> {t}, rest |-> {}]
      /\ \A v \in Writers : v # w => write'[v] = write[v]
  BY <1>2, <1>4 DEF Begin, FileTypeOK, WriteTypeOK
<1>6. completedOneShots' \subseteq fired' /\ fired' \subseteq listed'
  BY <1>3 DEF FileInv
<1>7. \A m \in 1..MaxFires : m > fires' => ~Busy(Chore(m))'
  <2> TAKE m \in 1..MaxFires
  <2> HAVE m > fires'
  <2>1. m # n /\ m > fires /\ Chore(m) \in Writers /\ Chore(m) # w
    BY <1>1, WriterNumbers
  <2> QED
    BY <1>5, <2>1 DEF FileInv, Busy
<1>8. ASSUME ~disturbed' PROVE Kept'
  <2>1. ~disturbed /\ \A v \in Writers : Busy(v) => v \in Chores
    BY <1>4, <1>8 DEF Begin
  <2>2. Kept
    BY <2>1 DEF FileInv
  <2>3. \A c, x : Exact(c, x) => Exact(c, x \cup new)'
    BY <1>3, <1>4 DEF Exact
  <2>4. \A v \in Writers : v # w => (Busy(v)' <=> Busy(v))
    BY <1>5 DEF Busy
  <2>5. Apart'
    BY <1>2, <2>1, <2>4 DEF Apart
  <2>6. \A f \in Flushes : ~Busy(f)
    BY <2>1, WriterNumbers
  <2>7. \A v \in Writers : write[v].pc = "truncated" => v # w
    BY <1>2 DEF Busy
  <2>8. FileKept'
    <3>1. CASE Exact(file, completedOneShots)
      <4>1. Exact(file, completedOneShots)'
        BY <1>3, <1>4, <3>1 DEF Exact
      <4> QED
        BY <4>1 DEF FileKept
    <3>2. CASE file = {} /\ \E v \in Writers : write[v].pc = "truncated"
      BY <1>3, <1>5, <2>7, <3>2 DEF FileKept
    <3> QED
      BY <2>2, <2>6, <3>1, <3>2 DEF Kept, FileKept
  <2>9. ASSUME NEW v \in Writers, Busy(v)' PROVE Asked(v)' /\ Keeps(v)'
    <3>1. CASE v = w
      BY <1>2, <1>4, <1>5, <3>1 DEF Asked, Keeps
    <3>2. CASE v # w
      <4>1. /\ Busy(v) /\ v \in Chores /\ v \notin Flushes /\ write'[v] = write[v]
            /\ Asked(v) /\ Keeps(v)
        BY <1>5, <2>1, <2>2, <2>4, <2>9, <3>2, WriterNumbers DEF Kept
      <4>2. Asked(v)'
        BY <1>3, <1>4, <4>1 DEF Asked
      <4>3. Keeps(v)'
        BY <1>3, <1>4, <4>1 DEF Keeps, Exact
      <4> QED
        BY <4>2, <4>3
    <3> QED
      BY <3>1, <3>2
  <2> QED
    BY <2>5, <2>8, <2>9 DEF Kept
<1> QED
  BY <1>6, <1>7, <1>8 DEF FileInv

\* A write that begins outside the scheduler.
LEMMA BeginFileInv ==
    ASSUME FileTypeOK, FileInv, TimerFlush \/ OutsideWrite \/ StopFlushes
    PROVE  FileInv'
<1>0. /\ completedOneShots \in SUBSET Tasks /\ {"flush", "add", "remove"} \subseteq WriteOps
      /\ \A n \in 1..MaxFires : Chore(n) \in Writers /\ Chore(n) \in Chores
  BY WriterNumbers DEF FileTypeOK, ControlTypeOK, CleanupTypeOK, WriteOps
<1>1. /\ UNCHANGED <<file, fired, listed, fires>> /\ dropped \subseteq dropped'
      /\ completedOneShots' \in {completedOneShots, {}}
  BY DEF TimerFlush, CleanupTimerFires, OutsideWrite, StopFlushes, StopAwaitedCleanup,
     BeginFlush, cleanupVars
<1>2. ASSUME NEW w \in Writers, NEW op \in WriteOps, NEW ids \in SUBSET Tasks,
             Begin(w, op, ids), w \notin Chores, ~disturbed' => Kept'
      PROVE  FileInv'
  <2>1. \A v \in Writers : v # w => write'[v] = write[v]
    BY <1>2 DEF Begin, FileTypeOK, WriteTypeOK
  <2>2. \A n \in 1..MaxFires : n > fires' => ~Busy(Chore(n))'
    BY <1>0, <1>1, <1>2, <2>1 DEF FileInv, Busy
  <2> QED
    BY <1>1, <1>2, <2>2 DEF FileInv
<1>3. ASSUME NEW f \in Flushes, Begin(f, "flush", completedOneShots),
             completedOneShots' = {}, UNCHANGED dropped
      PROVE  FileInv'
  <2>1. f \in Writers /\ f \notin Chores
    BY WriterNumbers
  <2>2. ~disturbed' => Kept'
    BY <1>0, <1>1, <1>3, <2>1, BeginKept
  <2> QED
    BY <1>0, <1>2, <1>3, <2>1, <2>2
<1>4. ASSUME UNCHANGED <<write, disturbed, completedOneShots, dropped>>
      PROVE  FileInv'
  BY <1>1, <1>4 DEF FileInv, Kept, Apart, FileKept, Asked, Keeps, Exact, Busy
<1>5. CASE TimerFlush
  <2>1. flushes < MaxFires => flushes + 1 \in Flushes
    BY DEF FileTypeOK, ControlTypeOK, CleanupTypeOK, Flushes, StopFlush
  <2> QED
    BY <1>3, <1>4, <1>5, <2>1 DEF TimerFlush, CleanupTimerFires, BeginFlush
<1>6. CASE StopFlushes
  <2>1. StopFlush \in Flushes
    BY DEF StopFlush, Flushes
  <2> QED
    BY <1>3, <1>4, <1>6, <2>1 DEF StopFlushes, StopAwaitedCleanup, BeginFlush
<1>7. CASE OutsideWrite
  <2>1. PICK t \in Tasks, op \in {"add", "remove"} :
            /\ Begin(Outsider, op, {t})
            /\ op = "add" => t \notin listed
            /\ op = "remove" => t \in dropped'
    BY <1>7 DEF OutsideWrite
  <2>2. UNCHANGED completedOneShots
    BY <1>7 DEF OutsideWrite, cleanupVars
  <2>3. Outsider \in Writers /\ Outsider \notin Chores /\ Outsider \notin Flushes
    BY WriterNumbers
  <2>4. ~disturbed' => Kept'
    BY <1>0, <1>1, <2>1, <2>2, <2>3, BeginKept
  <2> QED
    BY <1>0, <1>2, <2>1, <2>3, <2>4
<1> QED
  BY <1>5, <1>6, <1>7

\* A step of one write: the others stand where they stood.
LEMMA WriteFileInv ==
    ASSUME FileTypeOK, FileInv, NEW w \in Writers,
           ReadTasks(w) \/ Truncate(w) \/ Fill(w) \/ WriteFails(w)
    PROVE  FileInv'
<1>0. /\ Busy(w)
      /\ \A v \in Writers : v # w => write'[v] = write[v]
      /\ write' \in [Writers -> [pc : WritePcs, op : WriteOps,
                                 ids : SUBSET Tasks, rest : SUBSET Tasks]]
      /\ UNCHANGED <<completedOneShots, fires, fired, dropped>>
  <2>1. FileTypeOK'
    BY WriteStepType
  <2>2. Busy(w)
    BY DEF ReadTasks, Truncate, Fill, WriteFails, Busy
  <2>3. \A v \in Writers : v # w => write'[v] = write[v]
    BY DEF ReadTasks, Modify, Truncate, Fill, WriteFails, Settle, FileTypeOK, WriteTypeOK
  <2>4. UNCHANGED <<completedOneShots, fires, fired, dropped>>
    BY DEF ReadTasks, Truncate, Fill, WriteFails, Settle, FlushSettles, cleanupVars,
       historyVars
  <2> QED
    BY <2>1, <2>2, <2>3, <2>4 DEF FileTypeOK, WriteTypeOK
<1>1. \A v \in Writers : Busy(v)' => Busy(v)
  BY <1>0 DEF Busy
<1>2. listed \subseteq listed' /\ (~Fill(w) => UNCHANGED listed)
  BY DEF ReadTasks, Truncate, Fill, WriteFails, historyVars
<1>3. ASSUME ~disturbed' PROVE Kept'
  <2>0. ~disturbed
    <3>1. CASE ReadTasks(w)
      BY <1>3, <3>1 DEF ReadTasks
    <3>2. CASE Truncate(w)
      BY <1>3, <3>2 DEF Truncate, historyVars
    <3>3. CASE Fill(w) \/ WriteFails(w)
      BY <1>3, <3>3 DEF Fill, WriteFails
    <3> QED
      BY <3>1, <3>2, <3>3
  <2>1. ~disturbed /\ Kept
    BY <2>0 DEF FileInv
  <2>2. /\ Asked(w) /\ Keeps(w)
        /\ \A v \in Writers : Busy(v) /\ v # w => v \in Chores /\ w \in Chores
    BY <1>0, <2>1 DEF Kept, Apart
  <2>3. Apart'
    BY <1>1, <2>1 DEF Kept, Apart
  \* The writes that overlap this one are the scheduler's, as it then is.
  <2>4. ASSUME UNCHANGED listed, NEW v \in Writers, v # w, Busy(v)'
        PROVE  Asked(v)' /\ Keeps(v)'
    <3>1. Busy(v) /\ v \in Chores /\ v \notin Flushes /\ write'[v] = write[v]
      BY <1>0, <1>1, <2>2, <2>4, WriterNumbers
    <3>2. Asked(v) /\ Keeps(v)
      BY <2>1, <3>1 DEF Kept
    <3>3. Asked(v)'
      BY <1>0, <2>4, <3>1, <3>2 DEF Asked
    <3>4. Keeps(v)'
      BY <1>0, <2>4, <3>1, <3>2 DEF Keeps, Exact
    <3> QED
      BY <3>3, <3>4
  <2>5. w \notin Flushes => \A f \in Flushes : ~Busy(f)
    BY <2>2, WriterNumbers
  <2>6. w \notin Flushes =>
          \/ Exact(file, completedOneShots)
          \/ file = {} /\ \E v \in Writers : write[v].pc = "truncated"
    BY <2>1, <2>5 DEF Kept, FileKept
  <2>7. CASE ReadTasks(w)
    <3>1. PICK content \in {file, {}} :
              /\ Modify(w, content)
              /\ content # file => write[w].op \notin {"flush", "add"}
      BY <1>3, <2>7 DEF ReadTasks
    <3>2. UNCHANGED <<file, listed>> /\ write[w].pc = "reading"
      BY <2>7 DEF ReadTasks
    <3>3. /\ write[w].op \in WriteOps
          /\ write'[w] = IF NothingToDo(write[w].op, write[w].ids, content) THEN Idle
                         ELSE [pc |-> "writing", op |-> write[w].op,
                               ids |-> write[w].ids,
                               rest |-> Rewritten(write[w].op, write[w].ids, content)]
      BY <3>1 DEF Modify, FileTypeOK, WriteTypeOK
    <3>4. FileKept'
      <4>1. CASE w \in Flushes
        <5>1. write[w].op = "flush"
          BY <2>2, <3>2, <4>1 DEF Keeps
        <5>2. Busy(w)'
          BY <3>3, <5>1 DEF NothingToDo, Busy
        <5> QED
          BY <4>1, <5>2 DEF FileKept
      <4>2. CASE w \notin Flushes
        <5>1. CASE Exact(file, completedOneShots)
          BY <1>0, <3>2, <5>1 DEF FileKept, Exact
        <5>2. CASE file = {} /\ \E v \in Writers : write[v].pc = "truncated"
          BY <1>0, <3>2, <5>2 DEF FileKept
        <5> QED
          BY <2>6, <4>2, <5>1, <5>2
      <4> QED
        BY <4>1, <4>2
    <3>5. ASSUME Busy(w)' PROVE Asked(w)' /\ Keeps(w)'
      <4>1. /\ ~NothingToDo(write[w].op, write[w].ids, content)
            /\ write'[w].pc = "writing" /\ write'[w].op = write[w].op
            /\ write'[w].ids = write[w].ids
            /\ write'[w].rest = Rewritten(write[w].op, write[w].ids, content)
        BY <3>3, <3>5 DEF Busy, Idle
      <4>2. Asked(w)'
        BY <1>0, <2>2, <3>2, <4>1 DEF Asked
      <4>3. CASE write[w].op = "flush"
        <5>1. content = file /\ w \in Flushes
          BY <2>2, <3>1, <4>3 DEF Asked
        <5>2. write'[w].rest = file \ write[w].ids
          BY <4>1, <4>3, <5>1 DEF Rewritten
        <5>3. /\ Exact(file, completedOneShots \cup write[w].ids)
              /\ write[w].ids \subseteq fired
          BY <2>2, <3>2, <4>3, <5>1 DEF Keeps, Asked
        <5>4. Exact(write'[w].rest, completedOneShots)
          BY <5>2, <5>3 DEF Exact
        <5> QED
          BY <1>0, <3>2, <4>1, <4>2, <4>3, <5>4 DEF Keeps, Exact
      <4>4. CASE write[w].op = "add"
        <5>1. content = file /\ w \notin Chores
          BY <2>2, <3>1, <4>4 DEF Asked
        <5>2. \A v \in Writers : write[v].pc # "truncated"
          BY <2>2, <3>2, <5>1 DEF Busy
        <5>3. w \notin Flushes
          BY <2>2, <3>2, <4>4 DEF Keeps
        <5>4. Exact(file, completedOneShots)
          BY <2>6, <5>2, <5>3
        <5>5. write'[w].rest = file \cup write[w].ids
          BY <4>1, <4>4, <5>1 DEF Rewritten
        <5>6. write[w].ids \cap fired = {}
          BY <2>2, <4>4 DEF Asked, FileInv
        <5>7. Exact(write'[w].rest, completedOneShots)
          BY <5>4, <5>5, <5>6 DEF Exact
        <5> QED
          BY <1>0, <3>2, <4>1, <4>2, <4>4, <5>5, <5>7 DEF Keeps, Exact
      <4>5. CASE write[w].op \in {"remove", "mark"}
        <5>1. content \cap write[w].ids # {}
          BY <4>1, <4>5 DEF NothingToDo
        <5>2. content = file /\ file # {}
          BY <5>1
        <5>3. w \notin Flushes
          BY <2>2, <3>2, <4>5 DEF Keeps
        <5>4. Exact(file, completedOneShots)
          BY <2>6, <5>2, <5>3
        <5>5. \/ write'[w].rest = file
              \/ /\ write'[w].rest = file \ write[w].ids
                 /\ write[w].ids \subseteq fired \cup dropped
          BY <2>2, <4>1, <4>5, <5>2 DEF Rewritten, Asked
        <5>6. Exact(write'[w].rest, completedOneShots)
          BY <5>4, <5>5 DEF Exact
        <5> QED
          BY <1>0, <3>2, <4>1, <4>2, <4>5, <5>6 DEF Keeps, Exact
      <4> QED
        BY <3>3, <4>3, <4>4, <4>5 DEF WriteOps
    <3> QED
      BY <2>3, <2>4, <3>2, <3>4, <3>5 DEF Kept
  <2>8. CASE Truncate(w)
    <3>1. /\ file' = {} /\ UNCHANGED listed
          /\ write[w].pc = "writing" /\ write'[w].pc = "truncated"
          /\ write'[w].op = write[w].op /\ write'[w].ids = write[w].ids
          /\ write'[w].rest = write[w].rest
      BY <2>8 DEF Truncate, historyVars, FileTypeOK, WriteTypeOK
    <3>2. FileKept'
      BY <3>1 DEF FileKept
    <3>3. Asked(w)' /\ Keeps(w)'
      BY <1>0, <2>2, <3>1 DEF Asked, Keeps, Exact
    <3>4. ASSUME NEW v \in Writers, v # w, Busy(v)' PROVE Asked(v)' /\ Keeps(v)'
      BY <2>4, <3>1, <3>4
    <3> QED
      BY <2>3, <3>2, <3>3, <3>4 DEF Kept
  <2>9. CASE Fill(w)
    <3>1. /\ write[w].pc = "truncated" /\ file' = write[w].rest
          /\ ~Busy(w)'
      <4>1. file = {}
        BY <1>3, <2>9 DEF Fill
      <4> QED
        BY <2>9, <4>1 DEF Fill, Settle, Idle, Busy, FileTypeOK, WriteTypeOK
    <3>2. Exact(file', completedOneShots)
      BY <2>2, <3>1 DEF Keeps
    <3>3. CASE write[w].op # "add"
      <4>1. UNCHANGED listed
        BY <2>9, <3>3 DEF Fill
      <4>2. FileKept'
        BY <1>0, <3>2, <4>1 DEF FileKept, Exact
      <4> QED
        BY <2>3, <2>4, <3>1, <4>1, <4>2 DEF Kept
    <3>4. CASE write[w].op = "add"
      <4>1. listed' = listed \cup write[w].ids /\ write[w].ids \subseteq write[w].rest
        BY <2>2, <2>9, <3>1, <3>4 DEF Fill, Keeps
      <4>2. \A v \in Writers : ~Busy(v)'
        BY <1>1, <2>2, <3>1, <3>4 DEF Asked
      <4>3. FileKept'
        BY <1>0, <3>1, <3>2, <4>1 DEF FileKept, Exact
      <4> QED
        BY <2>3, <4>2, <4>3 DEF Kept
    <3> QED
      BY <3>3, <3>4
  <2>10. CASE WriteFails(w)
    <3>1. /\ write[w].pc = "writing" /\ w \notin Flushes
          /\ UNCHANGED <<file, listed>> /\ ~Busy(w)'
      BY <1>3, <2>10 DEF WriteFails, Settle, Idle, Busy, FileTypeOK, WriteTypeOK
    <3>2. FileKept'
      <4>1. CASE Exact(file, completedOneShots)
        BY <1>0, <3>1, <4>1 DEF FileKept, Exact
      <4>2. CASE file = {} /\ \E v \in Writers : write[v].pc = "truncated"
        BY <1>0, <3>1, <4>2 DEF FileKept
      <4> QED
        BY <2>6, <3>1, <4>1, <4>2
    <3> QED
      BY <2>3, <2>4, <3>1, <3>2 DEF Kept
  <2> QED
    BY <2>7, <2>8, <2>9, <2>10
<1>4. \A n \in 1..MaxFires : n > fires' => ~Busy(Chore(n))'
  BY <1>0, <1>1, WriterNumbers DEF FileInv
<1> QED
  BY <1>0, <1>2, <1>3, <1>4 DEF FileInv

LEMMA FileNextInv == FileTypeOK /\ FileInv /\ [FileNext]_taskVars => FileInv'
<1> SUFFICES ASSUME FileTypeOK, FileInv, [FileNext]_taskVars PROVE FileInv'
  OBVIOUS
<1>1. CASE Stopping \/ Quiet \/ UNCHANGED taskVars
  <2>1. UNCHANGED <<file, write, fired, listed, dropped, disturbed>>
    BY <1>1 DEF Stopping, Quiet, taskVars, fileVars, historyVars
  <2>2. UNCHANGED <<completedOneShots, fires>>
    BY <1>1 DEF Stopping, StopCalls, StopAwaitsCleanup, StopFlushed, Quiet, taskVars,
       cleanupVars
  <2> QED
    BY <2>1, <2>2 DEF FileInv, Kept, Apart, FileKept, Asked, Keeps, Exact, Busy
<1> QED
  BY <1>1, FireFileInv, BeginFileInv, WriteFileInv DEF FileNext

(* Nobody locks the task file, and yet, as long as no flush and no other   *)
(* session's write overlaps a write, none fails or misreads the file, and  *)
(* no two writes fill it over each other, it loses the fired one-shots and *)
(* deleted tasks only and keeps no fired one-shot that no flush will see:  *)
(* what the scheduler's overlapping removals restore is flushed later.     *)
THEOREM CleanupIsExact == FileSpec => []CleanupExact
<1>1. FileTypeOK /\ FileInv => CleanupExact
  <2> SUFFICES ASSUME FileTypeOK, FileInv, ~disturbed, \A w \in Writers : ~Busy(w)
               PROVE  Exact(file, completedOneShots)
    BY DEF CleanupExact, Exact
  <2> QED
    BY WriterNumbers DEF FileInv, Kept, FileKept, Busy
<1>2. FileInit => FileTypeOK /\ FileInv
  BY FileInitType, InitFileInv
<1>3. (FileTypeOK /\ FileInv) /\ [FileNext]_taskVars => (FileTypeOK /\ FileInv)'
  BY FileNextType, FileNextInv
<1> QED
  BY <1>1, <1>2, <1>3, PTL DEF FileSpec

----------------------------------------------------------------------------
(* The worker implements TaskCoalescer, but for fairness.                  *)

coalescerVars == <<running, RunningTask, dirty, pendingTask, stopped>>

\* The drain that runs has the task the abstraction works on.
LEMMA ActiveTask ==
    ASSUME OneDrainAtATime, NEW d \in Drains, Active(d)
    PROVE  running /\ RunningTask = task[d]
BY DEF OneDrainAtATime, RunningTask, Active

LEMMA ActiveTaskNext ==
    ASSUME OneDrainAtATime', NEW d \in Drains, Active(d)'
    PROVE  running' /\ RunningTask' = task'[d]
BY DEF OneDrainAtATime, RunningTask, Active

LEMMA FireRefines ==
    ASSUME TypeOK, Order, Order', NEW t \in Tasks, onFireTask(t)
    PROVE  Coalescer!Next
<1>0. ~stopped /\ UNCHANGED stopped
  BY DEF onFireTask, stopVars
<1>1. CASE Coalesce(t)
  <2>1. UNCHANGED <<running, pc, task>> /\ running
    BY <1>1 DEF Coalesce, drainVars
  <2>2. UNCHANGED RunningTask
    BY <2>1 DEF RunningTask, Active
  <2> QED
    BY <1>0, <1>1, <2>1, <2>2 DEF Coalesce, Coalescer!Next, Coalescer!Queue
<1>2. CASE StartDrain(t)
  <2>1. PICK n \in Drains : n = fires + 1
    BY NextDrain DEF onFireTask
  <2>2. pc'[n] = "starting" /\ task'[n] = t
    BY <1>2, <2>1 DEF StartDrain, TypeOK, DrainTypeOK
  <2>3. Active(n)'
    BY <2>2 DEF Active, CyclePcs
  <2>4. RunningTask' = t
    BY <2>2, <2>3, ActiveTaskNext DEF Order
  <2> QED
    BY <1>0, <1>2, <2>4 DEF StartDrain, Coalescer!Next, Coalescer!Begin
<1> QED
  BY <1>1, <1>2 DEF onFireTask

\* Leaving the loop, in whichever way, ends the abstraction's work.
LEMMA FinalizeRefines ==
    ASSUME Order, NEW d \in Drains, Active(d),
           LeaveLoop(d) \/ LeavePaused(d) \/ CycleThrows(d)
    PROVE  Coalescer!Work
<1>1. running /\ ~running' /\ UNCHANGED stopped
  BY ActiveTask DEF Order, LeaveLoop, LeavePaused, CycleThrows, Finalize, stopVars
<1>2. RunningTask' = NoTask
  BY <1>1 DEF RunningTask
<1> QED
  BY <1>1, <1>2 DEF LeaveLoop, LeavePaused, CycleThrows, Coalescer!Work,
     Coalescer!Rest, Coalescer!GiveUpPaused, Coalescer!Fail

LEMMA CatchUpRefines ==
    ASSUME TypeOK, Order, Order', NEW d \in Drains, CatchUp(d)
    PROVE  Coalescer!TakeWaiting
<1>1. Active(d) /\ pc'[d] = "starting" /\ task'[d] = pendingTask
  BY DEF CatchUp, Goto, Active, CyclePcs, TypeOK, DrainTypeOK
<1>2. Active(d)'
  BY <1>1 DEF Active, CyclePcs
<1>3. running /\ RunningTask' = pendingTask
  BY <1>1, <1>2, ActiveTask, ActiveTaskNext DEF Order
<1> QED
  BY <1>3 DEF CatchUp, stopVars, Coalescer!TakeWaiting

\* A drain that stays in its cycle, or ends, leaves the abstraction alone.
LEMMA OtherDrainStepsStutter ==
    ASSUME TypeOK, Order, Order', NEW d \in Drains,
           \/ StatusWritten(d) \/ SkipPaused(d) \/ RunTask(d) \/ TaskReturns(d)
           \/ DrainReturns(d) \/ DrainThrows(d)
    PROVE  UNCHANGED coalescerVars
<1>1. UNCHANGED <<running, dirty, pendingTask, stopped, task>>
  BY DEF StatusWritten, SkipPaused, RunTask, TaskReturns, DrainReturns,
     DrainThrows, workVars, stopVars
<1>2. \A e \in Drains : Active(e)' <=> Active(e)
  BY DEF TypeOK, DrainTypeOK, StatusWritten, SkipPaused, RunTask, TaskReturns,
     DrainReturns, DrainThrows, Goto, Active, Finalizing, CyclePcs, FinalPcs
<1>3. UNCHANGED RunningTask
  <2>1. CASE running
    <3>1. PICK e \in Drains : Active(e)
      BY <2>1 DEF Order, OneDrainAtATime
    <3> QED
      BY <1>1, <1>2, <3>1, ActiveTask, ActiveTaskNext DEF Order
  <2>2. CASE ~running
    BY <1>1, <2>2 DEF RunningTask
  <2> QED
    BY <2>1, <2>2
<1> QED
  BY <1>1, <1>3 DEF coalescerVars

\* Flushes and stop() touch none of it, but for closing.
LEMMA OtherStepsRefine ==
    ASSUME Order,
           \/ TimerFires
           \/ \E f \in Flushes : FlushReturns(f) \/ FlushFails(f)
           \/ StopCalled \/ StopStep
           \/ UNCHANGED vars
    PROVE  Coalescer!Close \/ UNCHANGED coalescerVars
<1>1. UNCHANGED <<running, dirty, pendingTask, pc, task>>
  BY DEF TimerFires, FlushReturns, FlushFails, StopCalled, StopStep, StopAwaitedRun,
     StopCleansUp, StopLogged, vars, workVars, drainVars
<1>2. UNCHANGED RunningTask
  BY <1>1 DEF RunningTask, Active
<1>3. CASE StopCalled
  BY <1>1, <1>2, <1>3 DEF Order, StopKnowsRun, StopCalled, StopCalls, Coalescer!Close
<1>4. CASE ~StopCalled
  <2>1. UNCHANGED stopped
    BY <1>4 DEF TimerFires, CleanupTimerFires, FlushReturns, FlushFails, FlushSettles,
       StopStep, StopAwaitedRun, StopAwaitsCleanup, StopCleansUp, StopAwaitedCleanup,
       StopFlushed, StopLogged, vars, stopVars
  <2> QED
    BY <1>1, <1>2, <2>1 DEF coalescerVars
<1> QED
  BY <1>3, <1>4

LEMMA NextRefines ==
    TypeOK /\ Order /\ Order' /\ [Next]_vars => [Coalescer!Next]_coalescerVars
<1> SUFFICES ASSUME TypeOK, Order, Order', [Next]_vars
             PROVE  Coalescer!Next \/ UNCHANGED coalescerVars
  OBVIOUS
<1>1. ASSUME NEW d \in Drains, DrainStep(d) \/ CycleThrows(d) \/ DrainThrows(d)
      PROVE  Coalescer!Next \/ UNCHANGED coalescerVars
  <2>1. LeaveLoop(d) \/ LeavePaused(d) \/ CycleThrows(d) => Active(d)
    BY DEF LeaveLoop, LeavePaused, CycleThrows, Active, CyclePcs
  <2> QED
    BY <1>1, <2>1, FinalizeRefines, CatchUpRefines, OtherDrainStepsStutter
    DEF DrainStep, Coalescer!Next, Coalescer!Work
<1> QED
  BY <1>1, FireRefines, OtherStepsRefine DEF Next, Terminated, Coalescer!Next

(* The worker refines the abstract coalescer: a fire is begun, queued or   *)
(* taken up exactly as TaskCoalescer allows, one task at a time.           *)
THEOREM Refinement == Spec => Coalescer!Init /\ [][Coalescer!Next]_coalescerVars
<1>1. Init => Coalescer!Init
  BY DEF Init, CleanupInit, RunningTask, Coalescer!Init
<1>2. TypeOK /\ Order /\ (TypeOK /\ Order)' /\ [Next]_vars
        => [Coalescer!Next]_coalescerVars
  BY NextRefines
<1> QED
  BY <1>1, <1>2, Inductive, PTL DEF Spec
=============================================================================
