--------------------------- MODULE CronScheduler ---------------------------
(***************************************************************************)
(* The scheduler core that a session or a KAIROS project worker runs over  *)
(* .claude/scheduled_tasks.json: load() and check() of                     *)
(* utils/cronScheduler.ts and the read-modify-writes of utils/cronTasks.ts.*)
(* The process owns the scheduler lock (see SchedulerLock); other          *)
(* processes add and delete tasks with the same functions.                 *)
(*                                                                         *)
(* check() runs without an await, so it is one step.  A write of the file  *)
(* is three: read, truncate, fill; a file that is not filled reads as no   *)
(* tasks.  A cron expression is a period: its occurrences are the          *)
(* multiples of it (jitter, which only moves them, is left out).           *)
(***************************************************************************)
EXTENDS Naturals, FiniteSets, Functions

CONSTANTS
    OneShots, Recurring,
    Later,          \* the tasks that are added after the start
    Period,         \* the period of each task
    MaxAge,         \* recurringMaxAgeMs
    MaxTime, MaxCrashes, MaxFailures    \* bounds

Tasks == OneShots \cup Recurring

ASSUME TasksAssumption ==
    /\ OneShots \cap Recurring = {} /\ IsFiniteSet(Tasks) /\ Later \subseteq Tasks
    /\ Period \in [Tasks -> Nat \ {0}]
ASSUME BoundsAssumption == {MaxAge, MaxTime, MaxCrashes, MaxFailures} \subseteq Nat

VARIABLES
    now,
    file,       \* the tasks of scheduled_tasks.json
    changed,    \* the watcher has a change of the file to report
    writes,     \* reads-modify-writes of the file in progress
    alive, loaded,          \* the process, and whether load(true) has returned
    tasks,      \* the scheduler's copy of the file
    nextFireAt, missedAsked, inFlight,
    toAsk,      \* what may still be asked of another process (a bound)
    crashes, failures,
    fired, refired,         \* history: the one-shots fired, and fired again
    lastFire,   \* history: when this process last fired a scheduled task
    early,      \* history: recurring tasks fired again before their time
    torn        \* history: a write failed, overlapped another or was cut off

fileVars    == <<file, changed, writes>>
memoryVars  == <<alive, loaded, tasks, nextFireAt, missedAsked, inFlight>>
countVars   == <<now, toAsk, crashes, failures>>
historyVars == <<fired, refired, lastFire, early, torn>>
vars == <<fileVars, memoryVars, countVars, historyVars>>

Unset == 0              \* no entry in nextFireAt; nothing fires at time 0
Never == MaxTime + 1    \* Infinity

Entry     == [created : 0..MaxTime, lastFired : 0..MaxTime]
NoTasks   == [t \in {} |-> 0]
WriteKinds == {"remove", "mark", "discard", "add", "delete"}
WritePcs  == {"reading", "writing", "truncated"}

TaskLists == UNION {[S -> Entry] : S \in SUBSET Tasks}

TypeOK ==
    /\ now \in 0..MaxTime
    /\ file \in TaskLists /\ tasks \in TaskLists
    /\ changed \in BOOLEAN /\ alive \in BOOLEAN /\ loaded \in BOOLEAN
    /\ writes \subseteq [pc : WritePcs, kind : WriteKinds, ids : SUBSET Tasks,
                         at : 0..MaxTime, body : TaskLists]
    /\ nextFireAt \in [Tasks -> Nat]
    /\ missedAsked \subseteq OneShots /\ inFlight \subseteq Tasks
    /\ toAsk \subseteq {"add", "delete"} \X Later
    /\ crashes \in 0..MaxCrashes /\ failures \in 0..MaxFailures
    /\ fired \subseteq OneShots /\ refired \subseteq OneShots
    /\ lastFire \in [Tasks -> 0..MaxTime] /\ early \subseteq Recurring
    /\ torn \in BOOLEAN

New == [created |-> 0, lastFired |-> 0]

Init ==
    /\ now = 0
    /\ file = [t \in Tasks \ Later |-> New]
    /\ changed = FALSE /\ writes = {}
    /\ alive = TRUE /\ loaded = FALSE /\ tasks = NoTasks
    /\ nextFireAt = [t \in Tasks |-> Unset]
    /\ missedAsked = {} /\ inFlight = {}
    /\ toAsk = {"add", "delete"} \X Later /\ crashes = 0 /\ failures = 0
    /\ fired = {} /\ refired = {} /\ early = {}
    /\ lastFire = [t \in Tasks |-> 0]
    /\ torn = FALSE

\* nextCronRunMs: the first occurrence strictly after a time.
NextRun(t, from) == (from \div Period[t] + 1) * Period[t]

\* What check() anchors a task on at first sight.
Anchor(t, entry) ==
    IF t \in OneShots \/ entry.lastFired = 0 THEN entry.created
                                             ELSE entry.lastFired

----------------------------------------------------------------------------
(* Read-modify-writes of the file.                                         *)

Start(kind, ids) ==
    IF ids = {} THEN {}
    ELSE {[pc |-> "reading", kind |-> kind, ids |-> ids, body |-> NoTasks,
           at |-> IF kind \in {"mark", "add"} THEN now ELSE 0]}

Overlapping(new) == Cardinality(writes \cup new) > 1 /\ new # {}

\* What a write makes of the tasks it is given.
Modified(kind, ids, at, list) ==
    CASE kind = "mark" ->
            [t \in DOMAIN list |->
                IF t \in ids THEN [list[t] EXCEPT !.lastFired = at] ELSE list[t]]
      [] kind = "add" ->
            [t \in DOMAIN list \cup ids |->
                IF t \in ids THEN [created |-> at, lastFired |-> 0] ELSE list[t]]
      [] OTHER -> Restrict(list, DOMAIN list \ ids)

\* The `finally` of check()'s writes takes their tasks out of inFlight.
Settled(w) ==
    inFlight' = IF w.kind \in {"remove", "mark"} THEN inFlight \ w.ids ELSE inFlight

\* readCronTasks; a write that would change nothing is not made.
WriteReads(w) ==
    /\ w.pc = "reading"
    /\ IF w.kind # "add" /\ w.ids \cap DOMAIN file = {}
       THEN writes' = writes \ {w} /\ Settled(w)
       ELSE /\ writes' = (writes \ {w}) \cup
                 {[w EXCEPT !.pc = "writing",
                            !.body = Modified(w.kind, w.ids, w.at, file)]}
            /\ UNCHANGED inFlight
    /\ UNCHANGED <<file, changed, alive, loaded, tasks, nextFireAt, missedAsked,
                   countVars, historyVars>>

WriteTruncates(w) ==
    /\ w.pc = "writing"
    /\ writes' = (writes \ {w}) \cup {[w EXCEPT !.pc = "truncated"]}
    /\ file' = NoTasks /\ changed' = TRUE
    /\ UNCHANGED <<memoryVars, countVars, historyVars>>

WriteFills(w) ==
    /\ w.pc = "truncated"
    /\ writes' = writes \ {w}
    /\ file' = w.body /\ changed' = TRUE
    /\ Settled(w)
    /\ UNCHANGED <<alive, loaded, tasks, nextFireAt, missedAsked, countVars,
                   historyVars>>

\* Fault: inFlight is released only when the write succeeds.
WriteFailsKeepingInFlight(w) ==
    /\ failures < MaxFailures
    /\ w.pc \in {"writing", "truncated"}
    /\ writes' = writes \ {w}
    /\ failures' = failures + 1 /\ torn' = TRUE
    /\ UNCHANGED <<file, changed, memoryVars, now, toAsk, crashes, fired,
                   refired, lastFire, early>>

WriteFails(w) ==
    /\ failures < MaxFailures
    /\ w.pc \in {"writing", "truncated"}
    /\ writes' = writes \ {w}
    /\ Settled(w)
    /\ failures' = failures + 1 /\ torn' = TRUE
    /\ UNCHANGED <<file, changed, alive, loaded, tasks, nextFireAt, missedAsked,
                   now, toAsk, crashes, fired, refired, lastFire, early>>

----------------------------------------------------------------------------
(* load().                                                                 *)

\* The watcher reports a change: load(false).
Reload ==
    /\ alive /\ changed
    /\ changed' = FALSE
    /\ tasks' = file
    /\ UNCHANGED <<file, writes, alive, loaded, nextFireAt, missedAsked,
                   inFlight, countVars, historyVars>>

\* The one-shots that came due while no one was there.
Missed ==
    {t \in (OneShots \cap DOMAIN file) \ missedAsked :
        NextRun(t, file[t].created) < now}

\* load(true): missed tasks are handed to onMissed and removed.
InitialLoad ==
    /\ alive /\ ~loaded
    /\ loaded' = TRUE
    /\ tasks' = file
    /\ LET new == Start("discard", Missed)
       IN  /\ missedAsked' = missedAsked \cup Missed
           /\ nextFireAt' = [t \in Tasks |-> IF t \in Missed THEN Never
                                                             ELSE nextFireAt[t]]
           /\ writes' = writes \cup new
           /\ torn' = (torn \/ Overlapping(new))
    /\ UNCHANGED <<file, changed, alive, inFlight, countVars, fired, refired,
                   lastFire, early>>

----------------------------------------------------------------------------
(* check().                                                                *)

\* Fault: every tick anchors on the file's entry again.
ScheduledFromFile(t) == NextRun(t, Anchor(t, tasks[t]))

\* When a loaded task is to fire, with the first-sight computation.
Scheduled(t) ==
    IF nextFireAt[t] = Unset THEN NextRun(t, Anchor(t, tasks[t])) ELSE nextFireAt[t]

DueTasks == {t \in DOMAIN tasks \ inFlight : Scheduled(t) <= now}

Aged(t) == now - tasks[t].created >= MaxAge

\* One-shots, and recurring tasks that have aged out: fired once more, removed.
Last(due)   == {t \in due : t \in OneShots \/ Aged(t)}

\* The writes of a tick: a removal for each task that ends, a mark for the rest.
Begun(due) ==
    (UNION {Start("remove", {t}) : t \in Last(due)}) \cup Start("mark", due \ Last(due))

\* nextFireAt after a tick; entries of tasks no longer there are evicted.
NextAfter(due) ==
    [t \in Tasks |->
        CASE t \notin DOMAIN tasks \/ t \in Last(due) -> Unset
          [] t \in due \ Last(due) -> NextRun(t, now)
          [] t \in DOMAIN tasks \cap inFlight -> nextFireAt[t]
          [] OTHER -> Scheduled(t)]

\* The history of the fires of a tick.
Fires(due) ==
    /\ fired' = fired \cup (due \cap OneShots)
    /\ refired' = refired \cup (due \cap fired)
    /\ early' = early \cup
         {t \in due \cap Recurring : lastFire[t] > 0 /\ now < NextRun(t, lastFire[t])}
    /\ lastFire' = [t \in Tasks |->
         IF NextAfter(due)[t] = Unset THEN 0
         ELSE IF t \in due THEN now ELSE lastFire[t]]

Check ==
    /\ alive
    /\ LET due == DueTasks
           new == Begun(due)
       IN  /\ writes' = writes \cup new
           /\ inFlight' = inFlight \cup due
           /\ nextFireAt' = NextAfter(due)
           /\ torn' = (torn \/ Overlapping(new))
           /\ Fires(due)
    /\ UNCHANGED <<file, changed, alive, loaded, tasks, missedAsked, countVars>>

----------------------------------------------------------------------------
(* The environment.                                                        *)

Tick ==
    /\ now < MaxTime
    /\ now' = now + 1
    /\ UNCHANGED <<fileVars, memoryVars, toAsk, crashes, failures, historyVars>>

\* addCronTask (CronCreate) in another process.
UserAdds(t) ==
    /\ <<"add", t>> \in toAsk
    /\ toAsk' = toAsk \ {<<"add", t>>}
    /\ writes' = writes \cup Start("add", {t})
    /\ torn' = (torn \/ Overlapping(Start("add", {t})))
    /\ UNCHANGED <<file, changed, memoryVars, now, crashes, failures, fired,
                   refired, lastFire, early>>

\* removeCronTasks (CronDelete) in another process.
UserDeletes(t) ==
    /\ <<"delete", t>> \in toAsk /\ t \in DOMAIN file
    /\ toAsk' = toAsk \ {<<"delete", t>>}
    /\ writes' = writes \cup Start("delete", {t})
    /\ torn' = (torn \/ Overlapping(Start("delete", {t})))
    /\ UNCHANGED <<file, changed, memoryVars, now, crashes, failures, fired,
                   refired, lastFire, early>>

OfScheduler(w) == w.kind \in {"remove", "mark", "discard"}

\* The process dies; its writes stop where they are.
Crash ==
    /\ alive /\ crashes < MaxCrashes
    /\ crashes' = crashes + 1
    /\ alive' = FALSE /\ loaded' = FALSE /\ tasks' = NoTasks
    /\ nextFireAt' = [t \in Tasks |-> Unset]
    /\ missedAsked' = {} /\ inFlight' = {}
    /\ lastFire' = [t \in Tasks |-> 0]
    /\ writes' = {w \in writes : ~OfScheduler(w)}
    /\ torn' = (torn \/ \E w \in writes : OfScheduler(w))
    /\ UNCHANGED <<file, changed, now, toAsk, failures, fired, refired, early>>

Restart ==
    /\ ~alive
    /\ alive' = TRUE /\ changed' = FALSE
    /\ UNCHANGED <<file, writes, loaded, tasks, nextFireAt, missedAsked,
                   inFlight, countVars, historyVars>>

----------------------------------------------------------------------------
WriteStep(w) == WriteReads(w) \/ WriteTruncates(w) \/ WriteFills(w)

Next ==
    \/ Tick \/ Check \/ Reload \/ InitialLoad \/ Crash \/ Restart
    \/ \E w \in writes : WriteStep(w) \/ WriteFails(w)
    \/ \E t \in Tasks : UserAdds(t) \/ UserDeletes(t)

Spec == Init /\ [][Next]_vars

(* File calls return, the check timer and the watcher go on, and the       *)
(* process is started again after a crash.                                 *)
Fairness ==
    /\ WF_vars(\E w \in writes : WriteStep(w))
    /\ WF_vars(Check) /\ WF_vars(Reload) /\ WF_vars(InitialLoad) /\ WF_vars(Restart)

FairSpec == Spec /\ Fairness

----------------------------------------------------------------------------
(* Properties.                                                             *)

(* A recurring task does not fire again before its next occurrence, as     *)
(* long as the process keeps its schedule entry, whatever stale copies of  *)
(* the file it loads meanwhile.                                            *)
RecurringKeepsPace == early = {}

Due(t) == t \in DOMAIN file /\ NextRun(t, Anchor(t, file[t])) <= now

(* A task of the file that has come due is fired and removed or marked, or *)
(* was handed to onMissed; only a mark lost by an overlap, failure or      *)
(* crash can keep a recurring task looking due in the file.                *)
DueTaskServed ==
    \A t \in Tasks :
        Due(t) ~> (~Due(t) \/ t \in missedAsked \/ (t \in Recurring /\ torn))

(* cronScheduler.ts: inFlight "guards against double-fire during the async *)
(* removeCronTasks + chokidar reload"; cronTasks.ts: one-shots "fire once, *)
(* then auto-delete".                                                      *)
OneShotFiresOnce == refired = {}
=============================================================================
