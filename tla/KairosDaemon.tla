---------------------------- MODULE KairosDaemon ----------------------------
(***************************************************************************)
(* The life of the KAIROS daemon (runKairosWorker in                       *)
(* daemon/kairos/worker.ts): it starts a project worker and a Tier 3       *)
(* controller for every project of projects.json, follows the changes of   *)
(* that file (daemon/kairos/projectRegistry.ts), and stops them all.       *)
(*                                                                         *)
(* addProject and removeProject are asynchronous and called without being  *)
(* awaited, so calls about one project may overlap.  A worker is named by  *)
(* its project and by the number of the addProject call that made it.      *)
(* What a worker and its gate do is the subject of ProjectWorker and       *)
(* SpendGate; here its scheduler runs or not.                              *)
(***************************************************************************)
EXTENDS Naturals, FiniteSets

CONSTANTS
    Projects,
    MaxEdits        \* bound on the number of edits of projects.json

ASSUME DaemonAssumption == IsFiniteSet(Projects) /\ MaxEdits \in Nat

VARIABLES
    registry,       \* the projects in projects.json
    editTo,         \* what the user's edit in progress will fill it with
    editing, edits,
    main,           \* position of runKairosWorker
    toLoad, toStop, \* projects its loops have still to go through
    awaited,        \* the worker whose call a loop awaits
    watching, polling, seen, previous,  \* projectRegistry.watch
    active,         \* activeWorkers: the worker's number, or 0
    calls,          \* number of addProject calls that got past their guard
    add, rem,       \* position of the worker's addProject and removeProject
    scheduling,     \* workers whose scheduler runs
    tier3,          \* each worker's Tier 3 controller
    raced,          \* history: projects about which calls overlapped, or that
                    \* changed while the daemon was starting
    late            \* history: controllers stopped while reading their config

fileVars  == <<registry, editTo, editing, edits>>
mainVars  == <<main, toLoad, toStop, awaited>>
watchVars == <<watching, polling, seen, previous>>
callVars  == <<active, calls, add, rem>>
runVars   == <<scheduling, tier3>>
historyVars == <<raced, late>>
vars == <<fileVars, mainVars, watchVars, callVars, runVars, historyVars>>

MaxCalls == MaxEdits + 1
Workers  == Projects \X (1..MaxCalls)
Current(p) == <<p, active[p]>>

TypeOK ==
    /\ registry \subseteq Projects /\ editTo \subseteq Projects
    /\ editing \in BOOLEAN /\ edits \in 0..MaxEdits
    /\ main \in {"starting", "loading", "idle", "closing", "stopping", "exited"}
    /\ toLoad \subseteq Projects /\ toStop \subseteq Projects
    /\ awaited \subseteq Workers
    /\ watching \in BOOLEAN /\ polling \in BOOLEAN
    /\ seen \subseteq Projects /\ previous \subseteq Projects
    /\ active \in [Projects -> 0..MaxCalls] /\ calls \in [Projects -> 0..MaxCalls]
    /\ add \in [Workers -> {"none", "ensuring", "registering", "done"}]
    /\ rem \in [Workers -> {"none", "awaitTier3", "tier3", "worker", "done"}]
    /\ scheduling \subseteq Workers
    /\ tier3 \in [Workers -> {"none", "config", "timer", "reflecting"}]
    /\ raced \subseteq Projects /\ late \subseteq Workers

Init ==
    /\ registry \in SUBSET Projects
    /\ editTo = {} /\ editing = FALSE /\ edits = 0
    /\ main = "starting" /\ toLoad = {} /\ toStop = {} /\ awaited = {}
    /\ watching = FALSE /\ polling = FALSE /\ seen = {} /\ previous = {}
    /\ active = [p \in Projects |-> 0] /\ calls = [p \in Projects |-> 0]
    /\ add = [w \in Workers |-> "none"] /\ rem = [w \in Workers |-> "none"]
    /\ scheduling = {} /\ tier3 = [w \in Workers |-> "none"]
    /\ raced = {} /\ late = {}

----------------------------------------------------------------------------
(* addProject and removeProject.                                           *)

Adding(w)   == add[w] \in {"ensuring", "registering"}
Removing(w) == rem[w] \in {"awaitTier3", "tier3", "worker"}
InProgress(p) == \E w \in Workers : w[1] = p /\ (Adding(w) \/ Removing(w))

\* Calls of addProject for some projects, up to the first await.
AddsBegin(P) ==
    LET new == {p \in P : active[p] = 0}
    IN  /\ calls' = [p \in Projects |-> IF p \in new THEN calls[p] + 1 ELSE calls[p]]
        /\ add' = [w \in Workers |->
                     IF w[1] \in new /\ w[2] = calls[w[1]] + 1 THEN "ensuring"
                                                               ELSE add[w]]

\* Fault: Tier 3's stop() does not clear the timer.
RemovesBeginKeepingTimer(P) ==
    LET gone == {Current(p) : p \in {q \in P : active[q] # 0}}
    IN  /\ active' = [p \in Projects |-> IF p \in P THEN 0 ELSE active[p]]
        /\ rem' = [w \in Workers |->
                     IF w \notin gone THEN rem[w]
                     ELSE IF tier3[w] = "reflecting" THEN "awaitTier3" ELSE "tier3"]
        /\ UNCHANGED <<tier3, late>>

\* Calls of removeProject, up to the first await: the Tier 3 controller is
\* told to stop, its timer cleared.
RemovesBegin(P) ==
    LET gone == {Current(p) : p \in {q \in P : active[q] # 0}}
    IN  /\ active' = [p \in Projects |-> IF p \in P THEN 0 ELSE active[p]]
        /\ rem' = [w \in Workers |->
                     IF w \notin gone THEN rem[w]
                     ELSE IF tier3[w] = "reflecting" THEN "awaitTier3" ELSE "tier3"]
        /\ tier3' = [w \in Workers |->
                     IF w \in gone /\ tier3[w] = "timer" THEN "none" ELSE tier3[w]]
        /\ late' = late \cup {w \in gone : tier3[w] = "config"}

\* The project's directory is there: the worker and its controller are made.
AddEnsured(w) ==
    /\ add[w] = "ensuring"
    /\ add' = [add EXCEPT ![w] = "registering"]
    /\ active' = [active EXCEPT ![w[1]] = w[2]]
    /\ tier3' = [tier3 EXCEPT ![w] = "config"]
    /\ UNCHANGED <<fileVars, mainVars, watchVars, calls, rem, scheduling,
                   historyVars>>

\* project_registered is in the log: worker.start().
AddRegistered(w) ==
    /\ add[w] = "registering"
    /\ add' = [add EXCEPT ![w] = "done"]
    /\ scheduling' = scheduling \cup {w}
    /\ UNCHANGED <<fileVars, mainVars, watchVars, active, calls, rem, tier3,
                   historyVars>>

\* Fault: the worker's stop() does not stop its scheduler.
RemoveKeepingScheduler(w) ==
    /\ rem[w] = "tier3" \/ (rem[w] = "awaitTier3" /\ tier3[w] # "reflecting")
    /\ rem' = [rem EXCEPT ![w] = "worker"]
    /\ UNCHANGED <<fileVars, mainVars, watchVars, active, calls, add, runVars,
                   historyVars>>

\* Tier 3's stop() returned: worker.stop().
RemoveTier3Stopped(w) ==
    /\ rem[w] = "tier3" \/ (rem[w] = "awaitTier3" /\ tier3[w] # "reflecting")
    /\ rem' = [rem EXCEPT ![w] = "worker"]
    /\ scheduling' = scheduling \ {w}
    /\ UNCHANGED <<fileVars, mainVars, watchVars, active, calls, add, tier3,
                   historyVars>>

\* worker.stop() returned.
RemoveDone(w) ==
    /\ rem[w] = "worker"
    /\ rem' = [rem EXCEPT ![w] = "done"]
    /\ UNCHANGED <<fileVars, mainVars, watchVars, active, calls, add, runVars,
                   historyVars>>

----------------------------------------------------------------------------
(* The Tier 3 controller.                                                  *)

Stopped(w) == rem[w] # "none"

\* The rest of scheduleNext: it does not look at `stopped` again.
Tier3Configured(w) ==
    /\ tier3[w] = "config"
    /\ tier3' = [tier3 EXCEPT ![w] = "timer"]
    /\ UNCHANGED <<fileVars, mainVars, watchVars, callVars, scheduling, historyVars>>

Tier3Fires(w) ==
    /\ tier3[w] = "timer"
    /\ tier3' = [tier3 EXCEPT ![w] = "reflecting"]
    /\ UNCHANGED <<fileVars, mainVars, watchVars, callVars, scheduling, historyVars>>

\* runTier3Reflection ends, and scheduleNext is called.
Tier3Ends(w) ==
    /\ tier3[w] = "reflecting"
    /\ tier3' = [tier3 EXCEPT ![w] = IF Stopped(w) THEN "none" ELSE "config"]
    /\ UNCHANGED <<fileVars, mainVars, watchVars, callVars, scheduling, historyVars>>

----------------------------------------------------------------------------
(* projectRegistry.watch.                                                  *)

\* emitDiff reads the file; `polling` is its `running` flag.
PollReads ==
    /\ watching /\ ~polling
    /\ polling' = TRUE /\ seen' = registry
    /\ UNCHANGED <<fileVars, mainVars, watching, previous, callVars, runVars,
                   historyVars>>

\* Fault: `running` is not reset when nothing has changed.
PollEndsOnce == polling' = (seen = previous)

PollEnds == polling' = FALSE

RememberSeen == previous' = seen

\* The rest of emitDiff, and the daemon's onChange.
PollReturns ==
    /\ polling
    /\ PollEnds
    /\ seen' = {}
    /\ RememberSeen
    /\ AddsBegin(seen \ previous)
    /\ RemovesBegin(previous \ seen)
    /\ raced' = raced \cup
         {p \in (seen \ previous) \cup (previous \ seen) : InProgress(p)}
    /\ UNCHANGED <<fileVars, mainVars, watching, scheduling>>

----------------------------------------------------------------------------
(* runKairosWorker.                                                        *)

ReadProjects ==
    /\ main = "starting"
    /\ main' = "loading"
    /\ toLoad' = registry
    /\ UNCHANGED <<fileVars, toStop, awaited, watchVars, callVars, runVars,
                   historyVars>>

Load(p) ==
    /\ main = "loading" /\ p \in toLoad /\ awaited = {}
    /\ toLoad' = toLoad \ {p} /\ awaited' = {<<p, calls[p] + 1>>}
    /\ AddsBegin({p})
    /\ UNCHANGED <<fileVars, main, toStop, watchVars, active, rem, runVars,
                   historyVars>>

\* The call a loop awaits is over.
CallReturns ==
    /\ awaited # {}
    /\ \A w \in awaited : IF main = "loading" THEN ~Adding(w) ELSE ~Removing(w)
    /\ awaited' = {}
    /\ UNCHANGED <<fileVars, main, toLoad, toStop, watchVars, callVars, runVars,
                   historyVars>>

\* The projects the daemon has loaded; watch() reads the file again.
StartWatching ==
    /\ main = "loading" /\ toLoad = {} /\ awaited = {}
    /\ main' = "idle"
    /\ watching' = TRUE /\ previous' = registry
    /\ raced' = raced \cup
         {p \in Projects : (p \in registry) # (active[p] # 0)}
    /\ UNCHANGED <<fileVars, toLoad, toStop, awaited, polling, seen, callVars,
                   runVars, late>>

\* Fault: the watcher is not stopped.
StopWatchingForgotten == UNCHANGED watching

StopWatching == watching' = FALSE

Abort ==
    /\ main = "idle"
    /\ main' = "closing"
    /\ StopWatching
    /\ UNCHANGED <<fileVars, toLoad, toStop, awaited, polling, seen, previous,
                   callVars, runVars, historyVars>>

\* The gateway has stopped: the keys of activeWorkers are listed.
ListWorkers ==
    /\ main = "closing"
    /\ main' = "stopping"
    /\ toStop' = {p \in Projects : active[p] # 0}
    /\ raced' = raced \cup
         {p \in Projects : InProgress(p)
                           \/ (polling /\ (p \in seen) # (p \in previous))}
    /\ UNCHANGED <<fileVars, toLoad, awaited, watchVars, callVars, runVars, late>>

StopProject(p) ==
    /\ main = "stopping" /\ p \in toStop /\ awaited = {}
    /\ toStop' = toStop \ {p}
    /\ awaited' = IF active[p] = 0 THEN {} ELSE {Current(p)}
    /\ RemovesBegin({p})
    /\ UNCHANGED <<fileVars, main, toLoad, watchVars, calls, add, scheduling,
                   raced>>

Exit ==
    /\ main = "stopping" /\ toStop = {} /\ awaited = {}
    /\ main' = "exited"
    /\ UNCHANGED <<fileVars, toLoad, toStop, awaited, watchVars, callVars,
                   runVars, historyVars>>

----------------------------------------------------------------------------
(* optInProject and optOutProject, in any process.                         *)

\* The file is read and truncated.
EditBegins(p) ==
    /\ ~editing /\ edits < MaxEdits
    /\ editing' = TRUE /\ edits' = edits + 1
    /\ editTo' \in {registry \cup {p}, registry \ {p}}
    /\ registry' = {}
    /\ UNCHANGED <<mainVars, watchVars, callVars, runVars, historyVars>>

EditFills ==
    /\ editing
    /\ editing' = FALSE /\ editTo' = {}
    /\ registry' = editTo
    /\ UNCHANGED <<edits, mainVars, watchVars, callVars, runVars, historyVars>>

----------------------------------------------------------------------------
CallStep(w)  == AddEnsured(w) \/ AddRegistered(w) \/ RemoveTier3Stopped(w) \/ RemoveDone(w)
Tier3Step(w) == Tier3Configured(w) \/ Tier3Fires(w) \/ Tier3Ends(w)
Poll         == PollReads \/ PollReturns
MainStep ==
    \/ ReadProjects \/ CallReturns \/ StartWatching \/ ListWorkers \/ Exit
    \/ \E p \in Projects : Load(p) \/ StopProject(p)

Next ==
    \/ \E w \in Workers : CallStep(w) \/ Tier3Step(w)
    \/ Poll \/ MainStep \/ Abort
    \/ EditFills \/ \E p \in Projects : EditBegins(p)

Spec == Init /\ [][Next]_vars

(* File calls return, the poll timer goes on, a reflection ends because    *)
(* its child is aborted after a timeout.  Edits and the abort are not      *)
(* promised.                                                               *)
FairSpec ==
    /\ Spec
    /\ \A w \in Workers : WF_vars(CallStep(w)) /\ WF_vars(Tier3Step(w))
    /\ WF_vars(PollReads) /\ WF_vars(PollReturns)
    /\ WF_vars(MainStep) /\ WF_vars(EditFills)

----------------------------------------------------------------------------
(* Properties.                                                             *)

Settled(p) == p \notin raced /\ ~InProgress(p)

(* While the daemon is idle and no call about a project is in progress,    *)
(* the project has a worker exactly if it was in the file when last read,  *)
(* and of all its workers only the one in activeWorkers is scheduling:     *)
(* unless calls about it overlapped or it changed during the start.        *)
WorkersMatch ==
    main = "idle" =>
        \A p \in Projects : Settled(p) =>
            /\ active[p] # 0 <=> p \in previous
            /\ \A w \in scheduling : w[1] = p => w = Current(p)
            /\ active[p] # 0 => Current(p) \in scheduling

(* Once runKairosWorker has returned no worker schedules, unless a call    *)
(* about its project was in progress, or a poll was about to make one,     *)
(* when the daemon listed its workers, or calls overlapped before.         *)
ShutdownComplete ==
    main = "exited" => \A w \in scheduling : w[1] \in raced

(* Where removeProject has returned, no Tier 3 reflection runs or will run *)
(* for that worker, unless its controller was reading its configuration    *)
(* when it was told to stop.                                               *)
NoReflectionAfterStop ==
    \A w \in Workers : rem[w] = "done" /\ w \notin late => tier3[w] = "none"

(* Once edits of the file cease, a daemon that is not shut down comes to   *)
(* have exactly the workers of the projects in the file, and keeps them.   *)
RegistryConverges ==
    \A p \in Projects :
        <>[](p \in raced \/ main \notin {"starting", "loading", "idle"}
             \/ (Current(p) \in scheduling <=> p \in registry))
=============================================================================
