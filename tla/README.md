# Claude Code's schedulers, queues and stores in TLA+

A verification project for the parts of this repository that have protocols of
their own: the KAIROS daemon, which runs a user's scheduled tasks as child Claude
processes, with the cron scheduler it shares with the interactive program; and,
of the interactive program, how inputs become queries, how a turn runs its tool
calls, and how a team of agents shares task lists. Paths below are relative to
`src 2/`.

## The system

| part | state | operations | talks to |
|---|---|---|---|
| Project worker, `daemon/kairos/projectWorker.ts` | `running`, `dirty`, `pendingCount`, `pendingTask`, `currentRun`, `stopped`, `completedOneShots`, `cleanupTimer`, `cleanupRun` | `onFireTask`, `drain`/`runCycle`, `flushCompletedOneShots`, `stop` | called by a cron scheduler; asks `checkPaused`; awaits `runFiredTask`; rewrites the task file |
| Spend gate, `daemon/kairos/worker.ts` | `authFailureLatched`, `pause.json` | `isPaused`, `latch`, `makeRunFiredTask`, the cap-hit and auth-failure handlers | every worker and Tier 3 controller; the user's pause and resume (`daemon/dashboard/model.ts`) |
| Cost tracker, `daemon/kairos/costTracker.ts` | the promise chain; a global and a per-project `costs.json` | `record` | called after each child run |
| State writer, `daemon/kairos/stateWriter.ts` | a promise queue per path | `writePauseState`, `writeProjectStatus`, `append...` | everything in the daemon |
| Tier 3 reflection, `daemon/kairos/tier3.ts` | a timer, `inFlight`, `tier3.json` with the last window, a claim lock | `withTier3ClaimLock`, `claimTier3Window`, `runTier3Reflection`, `writeTier3State`, the controller | gate, tracker, child runner; controllers of other daemons, through the files |
| Daemon, `daemon/kairos/worker.ts`, `projectRegistry.ts`, `daemon/main.ts` | the map of workers, the registry file and its watcher | add and remove projects, shutdown | all of the above |
| Child runner, `daemon/kairos/childRunner.ts` | one child, its timeout and abort | `runChild` | launches Claude |
| Cron scheduler, `utils/cronScheduler.ts` | `tasks`, `nextFireAt`, `missedAsked`, `inFlight`, `isOwner`, `stopped` | `load`, `check`, `enable`, `stop` | reads and rewrites the task file through `utils/cronTasks.ts`; the lock |
| Task file, `utils/cronTasks.ts` | `.claude/scheduled_tasks.json` | add, remove, mark fired, find missed | schedulers of several processes, the cron tools |
| Scheduler lock, `utils/cronTasksLock.ts` | `.claude/scheduled_tasks.lock` | `tryAcquireSchedulerLock`, `releaseSchedulerLock` | one scheduler per session |
| Query guard and queue, `utils/QueryGuard.ts`, `utils/messageQueueManager.ts` | `_status`, `_generation`; `commandQueue` | `reserve`, `tryStart`, `end`, `forceEnd`, `cancelReservation`; enqueue, dequeue, `popAllEditable` | `utils/handlePromptSubmit.ts`, `screens/REPL.tsx`, the queue processor, the query loop of `query.ts` |
| Streaming tool executor, `services/tools/StreamingToolExecutor.ts` | the tracked tools, `hasErrored`, `discarded`, abort controllers | `addTool`, `processQueue`, `executeTool`, `getCompletedResults`, `getRemainingResults`, `discard` | driven by the query loop of `query.ts`; runs tools |
| Task lists, `utils/tasks.ts` | a file per task, `.highwatermark`, a lock per task and per list | create, update, delete, claim, reset, unassign | idle teammates (`utils/swarm/inProcessRunner.ts`), the task tools, `hooks/useTasksV2.ts`, the leader |

The rest of the repository is Claude Code's terminal UI, its commands and tools,
and its services; see *Not modelled, and why*.

What is hard here:

* every `await` lets other handlers run: fires arrive in the middle of drains,
  `stop()` in the middle of everything, the user writes `pause.json` between a
  read and the decision taken on it, and presses Esc while a turn that was
  cancelled before is still on its way out;
* files are changed by read-modify-write, several of them from several
  processes; `writeFile` truncates before it fills, and a temporary file that is
  renamed into place has a name that all writers share;
* decisions are taken on copies: the scheduler's task list, the pause state
  read by a gate, totals read by `record`, a list of tasks read without locks;
* locks are taken for stale by their age or their pid, and removed by name;
* processes die between two steps and come back with the files but not the
  memory, in one case under the same session id with another pid.

What makes each part correct is stated by the properties below;
`PROJECT.json` lists the hazards with their lines, and which property would
catch each.

## Modules

### TaskCoalescer, ProjectWorker, OneShotCleanup and TaskFile

`TaskCoalescer` is the promise: one task is worked on at a time, a task that
arrives meanwhile replaces the one waiting, the waiting one is taken up when the
current one ends, and is given up only when paused, closing or after an error.
It says nothing of promises, awaits or files.

`ProjectWorker` is the code. A step is what runs between two awaits, and each
drain has a position (`pc`), because two may exist at once: `drain` sets
`running` to false and then awaits its last status write, during which a new
drain may begin. A flush of fired one-shots is an operation that returns or
rejects; its control (`completedOneShots`, the timer, `cleanupRun`, the end of
`stop()`) is in `OneShotCleanup`, which `TaskFile` extends, too.

| code | model |
|---|---|
| `onFireTask` with its synchronous start of `drain` | `onFireTask` (`NoteOneShot`, `Coalesce`, `StartDrain`) |
| awaits of `runCycle`: status write, `checkPaused`, `runFiredTask` | `StatusWritten`, `SkipPaused`, `RunTask`, `TaskReturns` |
| the `while (dirty && !stopped)` loop | `CatchUp`, `LeaveLoop`, `LeavePaused` |
| a rejected await, the `finally` block, `currentRun = null` | `CycleThrows`, `Finalize`, `DrainReturns`, `DrainThrows` |
| the 50 ms timer and `flushCompletedOneShots` | `TimerFires`, `FlushReturns`, `FlushFails` |
| `stop()`'s awaits | `StopCalled`, `StopAwaitedRun`, `StopCleansUp`, `StopLogged` |

The daemon's entry point installs no handler for unhandled rejections, so a
drain that rejects may end the process. The model goes on instead, which has
more behaviours; the liveness property that would suffer names the case
(`SomeDrainThrew`).

`TaskFile` is `scheduled_tasks.json` with everybody who rewrites it while a worker
runs: the worker's flushes, the worker's own scheduler, which removes or marks
each task in the tick that fires it, and another session's `CronCreate` or
`CronDelete`. Each is a read-modify-write in three steps, nothing locks the file,
a truncated file reads as empty, and so does one that cannot be read
(`cronTasks.ts:106`).

| code | model |
|---|---|
| `check()`: `onFireTask`, then the removal or the mark | `Fire` (`NoteOneShot`, `BeginChore`) |
| `flushCompletedOneShots`, of the timer and of `stop()` | `TimerFlush`, `StopFlushes`, `FlushSettles` |
| `readCronTasks` and what is made of its answer | `ReadTasks` (`Modify`, `NothingToDo`, `Rewritten`) |
| `writeCronTasks` | `Truncate`, `Fill`, `WriteFails` |
| another session | `OutsideWrite` |

`disturbed` remembers that one of the ways out of `CleanupExact` was taken. The
scheduler's own writes may overlap each other without that.

### SpendGate

A *lane* is a source of runs that never overlaps itself: the drain of a worker,
or a Tier 3 controller. Each lane goes through the gate (`BeginCheck`,
`ReadPause`, then `SkipRun` or `StartChild`, decided on what was read and on the
latch at that moment), runs a child, and either reports an auth failure
(`AuthFailure`: latch at once, queue the pause write) or records its cost.
`record` waits its turn in `recQueue`, reads both totals, and its two writes land
in either order (`RecordWritesOne`, `RecordReturns`) or fail (`RecordFails`).
The daemon's writes of `pause.json` are queued in `pauseQueue` and land or fail;
the user's come from other processes and are not queued. `DaemonRestarts` keeps
the files and loses the rest, the latch included; the history of auth failures
(`authHeld`) goes on across it, and `forgotten` says that a restart came while there
had been a failure and the file did not say paused. Costs are small numbers. Pauses carry who wrote
them and nothing else.

`poisoned` models what the state writer's queue of a path does after a rejected
write. `enqueuePathWrite` chains each write on the promise it stored for the
path; its `finally` means to remove that entry, but compares it with another
promise, so a rejected entry stays and every later write of the path rejects
untried (`RecordRefused`, `PauseRefused`). The daemon installs no handler for
unhandled rejections, so the process may instead end at the first failure, which
is `RecordFails` or `PauseFails` followed by `DaemonRestarts`; both are in the
model. When one of `record`'s two writes fails the other may land later still;
the next `record` overwrites it, so the model lets it land before or not at all.

### KairosDaemon

`runKairosWorker` from its start to its return, the poll of `projects.json`, and
the `addProject` and `removeProject` calls the two make. Nobody awaits the calls
the poll makes, so calls about one project may overlap. A worker is a project
with the number of the `addProject` call that made it, because two workers of
one project may exist at once; of each the model keeps whether its scheduler runs
and where its Tier 3 controller is.

| code | model |
|---|---|
| `addProject` at its awaits | `AddsBegin`, `AddEnsured`, `AddRegistered` |
| `removeProject` at its awaits | `RemovesBegin`, `RemoveTier3Stopped`, `RemoveDone` |
| the controller: `scheduleNext` around its await, the timer, a reflection | `Tier3Configured`, `Tier3Fires`, `Tier3Ends` |
| `emitDiff` around its read | `PollReads`, `PollReturns` |
| the start, the abort and the stop loop | `ReadProjects`, `Load`, `StartWatching`, `Abort`, `ListWorkers`, `StopProject`, `CallReturns`, `Exit` |
| `optInProject`, `optOutProject` | `EditBegins`, `EditFills` |

`raced` and `late` mark the cases in which the code does not do what one would
wish, so that the properties can say that these are all of them: calls about a
project overlapped (a removed project's `worker.start()` may then come after its
`worker.stop()`, and its scheduler runs on), the project changed between the
daemon's own read of the registry and the watcher's first, or a controller was
told to stop while `scheduleNext` was reading its configuration.

### SchedulerLock

A step is one file-system call together with the code up to the next. Creating
the lock file and filling it are two calls, and until it is filled the file
parses as corrupt. `Die` and `Resume` model a process that dies and the same
session started again under a new pid, which the code treats as its own lock.
`mistaken` remembers that a session removed or truncated the lock of a live one:
the code cannot see this, and its locking is right exactly as far as it does not
happen.

### CronScheduler

`check()` has no await and is one step. The file's writers read, truncate and
fill in separate steps (`WriteReads`, `WriteTruncates`, `WriteFills`,
`WriteFails`), the watcher's reload comes when it likes after a change, and
tasks are added and deleted by another process. A cron expression is a period
and its occurrences are the multiples of it; jitter, which moves occurrences, is
left out. The process is assumed to own the lock: what that is worth is
`SchedulerLock`'s `OneOwnerUnlessMistaken`. `torn` records that a write failed,
overlapped another or was cut off by a crash. What the file comes to under all its
writers is `TaskFile`'s; here the file has times, and the scheduler its copy.

### Tier3

Controllers of one project, which may be in several daemons. A step is one
file-system call with the code up to the next. `tier3.json` is replaced by
filling `tier3.json.tmp`, which all writers share, and renaming it, so a file
that was opened may have been renamed, or replaced, by the time it is filled
(`opened`). Of its contents the model keeps `lastWindowKey`. The claim lock is
its holder, or `"orphan"` when that has died; `aged` stands for
`TIER3_CLAIM_LOCK_STALE_MS`.

| code | model |
|---|---|
| the timer and the controller's gate | `Fire`, `FireEarly`, `Skip`, `PassGate` |
| `withTier3ClaimLock`: the `wx` write, `stat`, the removal of a stale lock, the deadline | `TakeLock`, `LockExists`, `Retry`, `FindStale`, `UnlinkStale`, `TimeOut` |
| `releaseTier3ClaimLock` | `ReleaseReads`, `ReleaseUnlinks`, `ReleaseSkips` |
| `claimTier3Window` under the lock | `RefuseClaim`, `Claim` |
| the child and what is logged of it | `ChildReturns`, `ChildThrows` |
| `writeTier3State`: of the claim, of a failed claim, of the outcome | `Open`, `Fill`, `Rename`, `RenameMisses`, `WriteFails` |
| time, processes | `Tick`, `LockAges`, `Crash`, `Restart` |

`mistaken` (a live claim's lock was removed), `forgotten` (windows that the state
file knew and lost), `late` (windows claimed over a later one) and `met`
(reflections that overlapped) are history; the properties say that they are all
the exceptions there are.

### QueryGuard

A turn is a call of `executeUserInput`, or of `onQuery` for a teammate's prompt.
It awaits `processUserInput` and then its query. Behind the query there are only
settled promises, and React renders in a task of its own (`ink/reconciler.ts`
schedules no microtasks), so the end of a query and the `finally` blocks behind
it are one step. An input is a number with a kind: `prompt`, `local` (a slash
command without a message), `notice` (a task notification), `meta` (a cron job's
hidden prompt), `mail` (a teammate's, never queued).

| code | model |
|---|---|
| `handlePromptSubmit`, `executeUserInput` | `Submit`, `ExecuteUserInput` |
| `enqueuePendingNotification`, the cron job's enqueue | `Notify` |
| `useQueueProcessor`, `processQueueIfReady` | `ProcessQueue` (`First`, `Batch`) |
| `handleIncomingPrompt` | `IncomingPrompt` |
| the ways out of `processUserInput` | `LocalReturns`, `ProcessingThrows`, `StartQuery`, `Requeue` |
| the query loop's queued attachments | `Attach`, `Attached` |
| `end()`, the `finally` of `onQuery`, `cancelReservation()` | `QueryEnds` |
| `onCancel` with `forceEnd`; taking the queue back into the prompt | `Cancel`, `PopAllEditable` |
| `handleKillAgents` with `clearCommandQueue` | `KillAgents` |

`ended` are inputs that needed no model or were taken back. `dropped` are those
that the code loses: the batch of a turn whose `processUserInput` threw
(`executeUserInput` has a `finally`, but no `catch`), commands that are dequeued
though an error, which is swallowed, kept them from being attached, and what was
queued as the user killed the background agents.

### StreamingToolExecutor

The tool calls of one turn. A step is the code between two awaits, or between
two yields to the consumer. Calls are numbered in the order the model streams
them and belong to the executor of their attempt; a fallback discards the
executor and takes a new one. A tool's updates may come as long as the event loop
turns (`Turns`); what comes from outside, such as the stream or an abort, comes
after all reactions of promises (`Settled`).

| code | model |
|---|---|
| the stream's messages, `addTool` | `MessageArrives`, `AddTool`, `SkipTool` |
| every `processQueue`: of `addTool`, of a call's `finally`, of `getRemainingResults` | `NextCall`, `LoopGoesOn`, `Finally`, `LoopBegins`, `MainLoopGoesOn` |
| `executeTool`: start, updates, abort reasons, end | `ExecuteTool`, `Progress`, `Result`, `BreakLate`, `GeneratorEnds`, `WorkEnds` |
| `getCompletedResults`, after every message of the stream and at the end | `OtherMessage`, `Poll`, `YieldResults` |
| the race of `getRemainingResults` | `MustWait`, `Wakes` |
| the query loop's fallbacks, errors and missing results; `discard` | `StreamEnds`, `StreamingFallback`, `ModelFallback`, `ModelFails` |
| the abort signal | `UserAborts` |

### TaskStore

Two lists of task files: that of the leader's session and that of its team. Each
caller has one call in progress, a step is a file-system call, or several reads,
with the code up to the next. A truncated task reads as none (`torn`). Of a task
the model keeps its status, owner and `blockedBy`.

| code | model |
|---|---|
| the callers: `tryClaimNextTask`, the task tools, the hide timer, `unassignTeammateTasks`, a teammate's end | `ClaimNext`, `TakeOrComplete`, `Create`, `Delete`, `Reset`, `Unassign`, `Leaves` |
| `updateTask` and `updateTaskUnsafe` | `UpdateLocks`, `UpdateFindsNone`, `UpdateOpens`, `UpdateFills` |
| `lockfile.lock` that throws | `LockThrows`, `LockTimesOut` |
| `claimTask` | `ClaimLocks`, `NotClaimable`, `ReadsBlockers`, `IsBlocked` |
| `createTask`, `deleteTask`, `resetTaskList` | `LockList`, `ReadsHighest`, `NewOpens`, `NewFills`, `ReadMark`, `MarkOpens`, `MarkFills`, `DeleteUnlinks`, `DeleteFindsNone`, `ResetUnlinks`, `ResetEnds` |

History: `raced` (a delete overlapped a create, a delete or a reset), `blind`
(tasks claimed while a blocker could not be read), `reopened`, `unseen` (what the
look before a reset could not see) and `lost`.

## Runs

| run | bounds | shows |
|---|---|---|
| `worker` | 2 fires of 2 one-shots and 1 recurring task | `OneDrainAtATime`, `NoLostWakeup`, `StopAwaitsRun`; the drains implement `TaskCoalescer` with its fairness (`CoalescesFires`); `StopReturns` |
| `task_file` | 2 fires of a one-shot, a recurring task and a one-shot that another session adds and may delete; one such write at a time; any read or write may fail | `CleanupExact` |
| `spend_gate` | the worker of one project and the Tier 3 controller of another, 3 runs costing 0 or 1, global cap 1, project cap 2, one user write, two restarts, one failed write | `PauseLetsOneRunFinish`, `OvershootBounded`, `FirstAuthLatchHolds`, `LedgerExact`; `RecordsNotBlocked` |
| `daemon` | one project, 2 edits of `projects.json` | `WorkersMatch`, `ShutdownComplete`, `NoReflectionAfterStop`; `RegistryConverges` |
| `lock` | 3 sessions, one crash | `OneOwnerUnlessMistaken`, `StoppedLeavesNoLock`; `TakeOver` |
| `cron` | a one-shot with period 1, a recurring task with period 2 that another process adds and may delete and that ages out at 2, time 0..2, one crash, one failed write | `RecurringKeepsPace`; `DueTaskServed` |
| `cron_fires_once` | both tasks there from the start, no crash or failure | violation of `OneShotFiresOnce` |
| `tier3` | 2 controllers, 2 windows, one early timer, failure, crash or stall | `ClaimsExclude`, `WindowRunsOnce`; the action property `WindowKept`; `ReflectionEnds` |
| `guard` | 4 inputs of the kinds of three sessions (`MCKindings`), 3 turns at once, one Esc | `GuardHeld`, `NothingLost`, `TakenOnce`; `Served` |
| `tools` | 3 calls of the kinds of three streams (`MCStreams`), one of which reports progress, one fallback | `WorksAlone`, `StartOrder`, `AnsweredOnce`; the action property `DiscardedStaySilent`; `RemainingReturns` |
| `tools_return` | the same | violation of `RemainingAlwaysReturns` |
| `tasks` | 2 teammates and their leader, four contents of the two lists, ids up to 2, 2 calls on the team's list, one lock time-out | `ClaimedOnce`, `IdsFresh`, `BlockersRespected`, `ResetSparesWork`; the action property `CompletedStays`; `CallsEnd` |

The invariants `TypeOK` are not among the runs' properties: the theorems rest on
types that are proved; for `QueryGuard`, `SpendGate` and `TaskStore` they are
those of the variables the theorems speak of.

Why these bounds are enough.

* *Worker*: two fires give a drain with a coalesced fire and a fire during a
  drain's last write; more fires are covered by the proofs.
* *Task file*: two fires give two writes of the scheduler that meet, one of which
  restores what the other removed, and two flushes. The other session deletes
  only what it added, and each recurring task is marked by a write of its own,
  where the code makes one of a tick: that is more overlap, not less.
* *Gate*: two lanes are what a race of two runs needs. The cap lies one run away,
  so that three runs pass it, are paused, resumed and pass it again, and the
  second restart comes after the first has had its effect.
* *Lock*: the race takes a dead owner and two that recover.
* *Cron*: two ticks let the one-shot fire or be missed during an absence, and the
  recurring task, added at 0 or 1, come due and age out or be marked; a stale
  reload before the mark would have it fire again at once.
* *Daemon*: projects share only the loops that start and stop them, and two edits
  take one project out and in again. With two projects and one edit
  (`TwoProjects`) the safety properties hold as well; they are proved for any
  number of both.
* *Tier3*: two controllers overlap in every position, and a second window lets
  one claim be late. One trouble is enough for each of the exceptions, and for
  each of them to make a window run twice.
* *Guard*: three turns are a cancelled one, the one after it and one that meets
  both. One Esc is enough for a late `finally`; `MCKindings` pairs every kind
  with the user's prompts, which are the ones that are queued, batched, taken
  back and queued again.
* *Tools*: a safe call can be ahead of, behind and next to an unsafe one, and an
  unknown tool behind both; a fallback may come after any of them.
* *Tasks*: two teammates race for one task; one task blocks the other; two calls
  on a list are a delete and what it races with, or a reset and what it must
  spare, or two creates. Three of the four contents leave ids to be given.

Bounds are constants: `MaxFires`, `MaxRuns`, `MaxUserWrites`, `MaxRestarts`,
`MaxFailures`, `MaxCrashes`, `MaxDeaths`, `MaxTime`, `MaxEdits`, `MaxWindows`,
`MaxTroubles`, `MaxTurns`, `MaxCancels`, `MaxCalls`, `MaxAttempts`, `MaxId`,
`MaxOps`.

Runs stop where their bounds are used up, every scheduler is stopped or a turn
has ended, so deadlock is not checked except in `worker`, where `Terminated` says
which final states are meant.

### Fairness

Weak fairness on steps that the runtime completes: file calls settle, promises
whose parts have settled continue, timers and the watcher fire, probes repeat
every five seconds, and a child run ends because the child runner aborts it after
its timeout. Fires, the user, the model's stream, failures and crashes are never
promised. A crashed scheduler process is assumed to be started again in `cron`
only. `Served` of `guard` takes it that a dialog shown by a slash command is closed
at once: while it is open `useQueueProcessor` waits (`hasActiveLocalJsxUI`).

Strong fairness where a step is not always enabled but cannot be put off for
ever:

* `TimeOut` of `Tier3`: after the deadline every look at a fresh lock throws, and
  a claim that keeps being refused keeps looking;
* `Result` of `StreamingToolExecutor`, when the event loop turns: a tool comes to
  its result if the loop turns again and again, and not otherwise. This is what
  tells `RemainingReturns` from `RemainingAlwaysReturns`;
* `QueryEnds` of `QueryGuard`: a query that has attached queued commands first
  dequeues them, but always comes back to where it can end.

In `TaskStore` nothing is assumed of lock time-outs: `CallsEnd` says that locks
are given back, not that waiting for them is given up.

### Disagreements the violation runs show

1. *A one-shot that fires twice* (`cronScheduler.ts:341`). `inFlight` is meant to
   cover "the async removeCronTasks + chokidar reload" (333-334), but is released
   before the reload.
2. *A loop that keeps the event loop from turning*
   (`StreamingToolExecutor.ts:465`). `getRemainingResults` waits only if no call
   is completed. `getCompletedResults` stops at a running call that is not safe
   for concurrency and leaves the result behind it unread; such a result is there
   at once when the tool is unknown. The loop then awaits settled promises only,
   and the running call never ends. Lines 449-450 say that it waits "for
   remaining tools and yield[s] their results as they complete".

### Disagreements that properties name as exceptions

* *Fired one-shots that stay* (`projectWorker.ts:79`). A flush that overlaps
  another flush (`scheduleOneShotCleanup` does not look at `cleanupRun`), the
  scheduler's write of a later fire or another session's write may restore what
  these removed, or be undone by them; a flush that fails forgets its tasks, and
  one that cannot read the file empties it. `CleanupExact` names these and two more
  ways out, and shows that there are no others; in particular what the overlapping
  writes of one tick restore (`cronScheduler.ts:335` and `:360`) a later flush
  removes. `projectWorker.test.ts:138` and the header of `cronTasks.ts` say that
  fired one-shots are gone.
* *Two winners of a recovery* (`cronTasksLock.ts:165`). "If two sessions race to
  recover a stale lock, only one create succeeds" does not hold: the unlink
  removes the file by name, and the name may be the winner's file by then. The
  same holds of a file that was created and not yet filled
  (`cronTasksLock.ts:71`). `OneOwnerUnlessMistaken` covers both.
* *An old resume answers a new auth failure* (`worker.ts:260`). The comment of
  `createAuthFailurePauseGate` says the latch keeps project B from starting a
  child before project A's pause is on disk. If the user had resumed at any time
  before, the file still says so, and B's check clears the latch. The second way
  out is a restart of the daemon while A's pause is not on disk: the latch is
  memory (253). `FirstAuthLatchHolds` shows that these two are the only ways.
* *Reservations have no owner* (`handlePromptSubmit.ts:603`). The `finally` of a
  turn that was cancelled with Esc releases whatever reservation there is, which
  may be the next turn's; two turns then run at once. `GuardHeld` holds without
  Esc, and of the query that is current also with it. A cron job's hidden prompt
  that meets another turn is not queued again (`NothingLost`).
* *Prompts that vanish* (`handlePromptSubmit.ts:596`, `query.ts:1653`,
  `useCancelRequest.ts:249`): the three cases of `dropped`, which `NothingLost`
  names. `clearCommandQueue` is there "to discard queued notifications"
  (`messageQueueManager.ts:320`); it discards the user's prompts with them.
* *A window that runs twice* (`tier3.test.ts:135`). A claim that fails rewrites
  the state without the window (`tier3.ts:469`), a claim compares windows for
  equality only (312), and all writers share a temporary file (205).
  `WindowRunsOnce` and `WindowKept` name these cases.
* *A deleted id given again* (`tasks.ts:403`). `deleteTask` takes no lock; a
  create in the middle of a delete may read neither the task nor the mark.
  `IdsFresh` names it.
* *Ids after a reset* (`tasks.ts:153`). Two comments say that `resetTaskList`
  makes numbering start at 1 again: `tasks.ts:144` ("Should be called when a new
  swarm is created to ensure task numbering starts at 1") and
  `TeamCreateTool.ts:183` ("This ensures task numbering starts fresh at 1 for each
  new swarm"). The code does what the line before the first of them says, "Writes
  a high water mark file to prevent ID reuse after reset": ids go on above the
  highest one of the old list, and a new team under an old name starts at 1 only
  if that list never had a task. `IdsFresh`, which holds across resets, states the
  line that the code follows, and contradicts the other two.
* *A finished task reopened* (`tasks.ts:832`). `unassignTeammateTasks` writes
  `pending` on what it listed before (`CompletedStays`).
* *A list cleared too much* (`useTasksV2.ts:166`): what was written between the
  look and the reset, or was being written as it looked, goes too
  (`ResetSparesWork`).

### Seen while modelling

Not the subject of a run or a property:

* a Tier 3 child's auth failure is treated as an ordinary result
  (`tier3.ts:526`);
* in a process that survives a failed write of `pause.json` or `costs.json` the
  caps stop nothing any more (`stateWriter.ts:129`);
* the cases `raced` and `late` of `KairosDaemon`;
* idle in-process teammates claim from the list of the leader's session, because
  "the leader creates tasks under its session ID, not the team name"
  (`inProcessRunner.ts:1017-1019`); with a team, the leader's list is the team's
  (`tasks.ts:22-25`). The model has both lists as the code has them. A claimed
  task whose start cannot be written is forgotten by its teammate and keeps its
  owner (`inProcessRunner.ts:646`);
* calls that were streamed but not yet added when the user aborts are never
  answered by the executor (`query.ts:1023-1025`), and those that were answered
  before a model's failure are answered again (`AnsweredOnce` leaves failed turns
  out). `discard()` does not stop running tools, it only keeps them silent.

## Proofs

What follows is proved for every value of the constants, from the modules' named
assumptions only: that sets of processes are finite, names are distinct, and
bounds are numbers. Each proof module has an inductive invariant of named parts,
one lemma per action or group of actions, and the theorems of `PROJECT.json`.
Every safety property of the runs, invariant or action property, is proved.

**ProjectWorkerProofs.** `TypeOK /\ Order`, where `Order` conjoins
`OneDrainAtATime`, `NoLostWakeup` and what they and `StopAwaitsRun` need:
`FutureDrainsIdle` (a fire that has not come has no drain), `PendingIsDirty` (a
task waits only under the flag that asks for a catch-up, which gives
`NoLostWakeup` when a drain leaves its loop), `OwnRunIsCurrent` (a drain that
began while no other was writing its last status is the promise in `currentRun`,
and no drain is about to clear it) and `StopKnowsRun` (`stop()` waits for that
drain, or has not yet begun to). `DrainsExclude`, `WakeupKept` and `StopWaits`
follow. `Refinement` shows that the initial states are `TaskCoalescer`'s and every
step is one of its steps or a stutter, under the mapping of the `worker` run;
`OneDrainAtATime` is what makes its `CHOOSE` well defined.

For `CleanupIsExact`, a theorem of `TaskFile`, the invariant is `FileInv`. As long
as nothing was disturbed only the scheduler's own writes overlap (`Apart`). The
file is `Exact` up to the one-shots that wait for a flush, unless a write has
truncated it and will fill it, or a flush is at work (`FileKept`); a write that is
going to fill it holds such a content, and a flush that has yet to read knows the
one-shots it will take out (`Keeps`). So a scheduler's write that restores a fired
one-shot restores one that still waits in `completedOneShots`.

**SpendGateProofs.** `RunsCounted` (who may start under a pause has read the file
before it), `LatchKept` (without a resume no file that was read lifts the latch,
and after an auth failure the latch is set or, across restarts, the file says
paused and no check in progress has read otherwise, `Held`),
`HeadRecords` (only the head of the chain of `record` calls is at work) and
`RecordsExact` (what it read are the true totals, and what it wrote is right).

`CapsBoundSpending` needs an account of its own (`CapInv`). `OvershootBounded`
grants a run to each lane, but which lanes have used theirs the property cannot
say. `WithinBudget` does: beyond the cap the total grows only by runs of lanes
that stop with it (`StoppedLanes`: the lane's pause is on its way, or the file is
paused and the lane has not read it otherwise), by those that a restart set going
again and by those of a failed pause write. A lane that records a run over the
cap joins `StoppedLanes`, and leaves it only into one of the other two counts.
`TotalKnown` says that a `record` in progress adds to the present total. The
property says `<` or `=`: a cap of zero is reached by spending nothing.

**KairosDaemonProofs.** `Counted` bounds the calls about a project by the times it
appears in the file, so that every `addProject` has a worker's number; `Lived` is
the life of a worker; `Stops` says what a controller that was told to stop may
still do; `Singles`, that of a project that was not raced at most one call is
under way, and what it has done; `Starting`, `Idle` and `Closing`, how the
registry and the loops of start and shutdown stand to `activeWorkers`.

**SchedulerProofs.** Of the lock: `PidCounted` and `NoFuturePid` (no file bears
the pid of a process to come), `OwnersRest`, `NeededFileThere` (who owns the lock,
or is filling it, is in the file unless somebody was mistaken) and `OwnFileKnown`
(a file in the name of a running process is owned, being filled, or about to be
released). The module extends `CronScheduler` and `SchedulerLock`, which is why
these two share no names.

Of the core: `RecurringKeepsPace`
rests on `EntriesKept`: the entry of a task that fired is its next occurrence,
whatever the reloaded file says, until it is evicted or the process dies.

**Tier3Proofs.** `KeysBegun`, `ClaimsLocked`, `OverlapsMet`, `OpenedToFill`,
`AloneWrites` (a reflection that was never overlapped finds the files as it left
them) and `RunsRecorded` (a window that was run is in the state file, or was until
a later one was, and has not run while a claim on it stands).

**QueryGuardProofs.** `QueriesNumbered` (each query has a generation of its own,
none above the present one), `DispatchedBySome`, `RunningIsCurrent` and
`OneTurnHolds`. For the inputs, `QueueInv`: nothing is queued, processed or taken
that did not come (`InputsKnown`); only a running query has attached inputs
(`DrainsKnown`); and without an Esc what is processed is in
no second place, and what was taken and is still queued is attached by a query
that will dequeue it (`OnePlace`). `NothingLost` and `TakenOnce` are conjuncts,
because each step needs both: an input is taken once because it was nowhere else.
What leaves the queue and was not given to the model (`Untaken`) goes to a turn,
to `ended` or to `dropped`.
All that is used of the filters is which inputs they keep (`OnlyMembers`).

**StreamingToolExecutorProofs.** Calls fit their work (`WorkFits`), are not
overtaken (`Orderly`), are accounted for until they are yielded (`Accounted`) and
work alone; `Arrived`, `LoopsGood` (a `processQueue` that has come to a call
leaves no queued call behind it, which is why several of them do no harm) and
`Places`. Every way to start a call goes through one lemma about `NextCall` and
`ExecuteTool`.

**TaskStoreProofs.** `Positions`, `LocksHeld` (who reads, changes and writes a
task holds its lock throughout), `SessionKept` (what a claim found under the lock
is still so when it writes), `OwnersKnown` (a task in work names its teammate,
also in a file that is being written), `BlockersSettled`, `ResetKnows` and
`CompletionsRepeated`. `IdsAreFresh` rests on `IdInv`, chiefly `IdsCovered`: every
id ever given in the team's list is at most one that is there or the mark
(`Covered`), and where a call stands between its reads and its write, at most what
it has read or is about to write. A truncated mark covers nothing, so the call
that fills it must hold what it will write. `ListHeld` keeps creates and resets
apart, `RacesKnown` leaves out what the property leaves out, and `RoomLeft` says
that the bound on ids never cuts a create short. `WaitsAreShort` is the safety
behind `CallsEnd`: by `TaskLocksUsed` and `ListLockUsed`, the converses of
`LocksHeld` and `ListHeld`, a call that waits for a lock waits for one at work
under it, so no circle of waiting calls exists and no way out keeps a lock.

*Inductions.* The theorems of the library that take an operator cannot be
instantiated here, but well-founded induction over sets (`WFMin`) can:
`LeastOf`, that a non-empty set of numbers has a least member, gives the greatest
id of a list and the value of a function that is defined by recursion on numbers.
`QueryGuard` filters with such a function (`Only`), since the provers know nothing
of `SelectSeq`.

Only model-checked: liveness, with the fairness part of the refinement. It rests
on `ENABLED`, which is out of the prover's reach. The two violation runs are
counterexamples and need no proof. Nothing is proved of what the models leave
out, nor of how long anything takes.

## Not modelled, and why

* *Of the modelled parts*: status files, logs, notices and prompts; the
  temporary file of `pause.json`, which has one fixed name (`stateWriter.ts:214`);
  the exit handler of the lock (`cronTasksLock.ts:93`), one variable for all
  project directories of a process; jitter and session tasks of the cron
  scheduler; the RPC and Telegram servers' start and stop in the daemon;
  the priority `now`, subagents' commands and chained inputs of the queue; context
  modifiers of tools, which no concurrent tool uses; in the task store
  `blockTask`, the claim with the busy check, which has no caller, the watcher
  that uses a list's id for an agent's, and the mailboxes. A read of a whole
  list is one step. `deleteTask` writes the references to the deleted task from
  the list it has read (`tasks.ts:421-432`), the model from a read under each
  task's lock, so that it has no `blockedBy` that is lost that way; no property
  reads the team's. `TeamCreateTool` resets its list without a look before the
  team has members (185); the model begins after that, with a mark of 0.
* *Failures the models leave out*: a query that fails between attaching queued
  commands and dequeuing them; in `TaskStore` the death of a process that holds a
  lock, with the staleness of locks that is there for it; in `CronScheduler` reads
  that fail (`TaskFile` has them). `load()` is one step, though it awaits its read.
  In `TaskFile` the scheduler's removal of missed tasks is not told from another
  session's delete.
* *Child runner, worker registry, dashboard server, cloud sync, installation,
  skill learning*: I/O around single calls. The modelled parts use what they
  promise.
* *Telegram gateway, remote bridge*: clients of remote services whose protocols
  are not in the repository.
* *API retry*: a table of conditions, with sequential back-off.
* *Terminal UI, commands and tools*: by far the most of the repository, without
  protocols between actors of their own.

What a further step would add: the mailboxes of teammates; hook execution and
session storage, whose writes are queued per file; and the temporary file of
`pause.json`.
