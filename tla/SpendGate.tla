----------------------------- MODULE SpendGate -----------------------------
(***************************************************************************)
(* How the KAIROS daemon decides whether a child Claude run may start, and *)
(* what it does with the run's cost: the pause file, the auth-failure      *)
(* latch (daemon/kairos/worker.ts), the cost ledger                        *)
(* (daemon/kairos/costTracker.ts) and the user's pause and resume          *)
(* (daemon/dashboard/model.ts).                                            *)
(*                                                                         *)
(* A lane is a source of runs that never overlaps itself: the drain of a   *)
(* project worker, or a project's Tier 3 controller.  Steps of different   *)
(* lanes interleave between awaits.                                        *)
(***************************************************************************)
EXTENDS Integers, Sequences, FiniteSets

CONSTANTS
    Projects,
    Lanes, Tier3Lanes,      \* all lanes; those of Tier 3 controllers
    ProjectOf,              \* the project of each lane
    GlobalCap, ProjectCap,  \* caps, in units of cost
    MaxCost,                \* the most one child run costs
    MaxRuns, MaxUserWrites, MaxRestarts, MaxFailures    \* bounds

ASSUME LanesAssumption ==
    /\ IsFiniteSet(Lanes)
    /\ Tier3Lanes \subseteq Lanes
    /\ ProjectOf \in [Lanes -> Projects]
    /\ Projects \cap {"pause", "global"} = {}  \* a path has one queue
ASSUME AmountsAssumption ==
    {GlobalCap, ProjectCap, MaxCost, MaxRuns, MaxUserWrites, MaxRestarts,
     MaxFailures} \subseteq Nat

VARIABLES
    pause,          \* pause.json: the flag, and who wrote it last
    latch,          \* authFailureLatched
    globalCost, projectCost,    \* totalUSD of the two kinds of costs.json
    pc, seen, cost, \* each lane: position, pause state read, run's cost
    prior,          \* each lane: the totals its record() has read
    recQueue,       \* record() calls chained by serialize()
    pauseQueue,     \* the daemon's writes queued on pause.json's path
    poisoned,       \* the paths whose write queue has had a rejection
    runs, userWrites, restarts, failures,
    resumed,        \* history: the user has resumed at some time
    torn,           \* history: a record() stopped between its two writes
    refused,        \* history: a write was rejected untried
    spentAll, spent,\* history: what completed record() calls were given
    authHeld,       \* history: an auth failure, and no resume after it
    underAuth,      \* history: lanes whose check began under authHeld
    forgotten,      \* history: a restart lost a latch with no pause on disk
    sincePause      \* history: each lane's runs since the file said paused

gateVars    == <<pause, latch, pauseQueue>>
queueVars   == <<poisoned, refused>>
ledgerVars  == <<globalCost, projectCost, prior, recQueue, torn, spentAll, spent>>
countVars   == <<runs, userWrites, restarts, failures>>
historyVars == <<resumed, authHeld, underAuth, forgotten, sincePause>>
laneVars    == <<pc, seen, cost>>
vars == <<gateVars, queueVars, ledgerVars, countVars, historyVars, laneVars>>

RecordPcs == {"recordWrite", "wroteGlobal", "wroteProject"}
LanePcs == {"idle", "reading", "deciding", "child", "recordWait", "authWrite",
            "capWrite"} \cup RecordPcs
Authors == {"none", "user", "daemon"}       \* none: there is no pause.json
Paths == {"pause", "global"} \cup Projects   \* projects: their costs.json
PauseStates == [paused : BOOLEAN, by : Authors]

TypeOK ==
    /\ pause \in PauseStates
    /\ latch \in BOOLEAN
    /\ globalCost \in Nat /\ projectCost \in [Projects -> Nat]
    /\ pc \in [Lanes -> LanePcs]
    /\ seen \in [Lanes -> PauseStates]
    /\ cost \in [Lanes -> 0..MaxCost]
    /\ prior \in [Lanes -> [global : Nat, project : Nat]]
    /\ recQueue \in Seq(Lanes) /\ pauseQueue \in Seq(Lanes)
    /\ runs \in 0..MaxRuns /\ userWrites \in 0..MaxUserWrites
    /\ restarts \in 0..MaxRestarts /\ failures \in 0..MaxFailures
    /\ resumed \in BOOLEAN /\ torn \in BOOLEAN /\ authHeld \in BOOLEAN
    /\ spentAll \in Nat /\ spent \in [Projects -> Nat]
    /\ poisoned \subseteq Paths /\ refused \in BOOLEAN
    /\ underAuth \subseteq Lanes /\ forgotten \in BOOLEAN
    /\ sincePause \in [Lanes -> Nat]

NoPause == [paused |-> FALSE, by |-> "none"]
NoPrior == [global |-> 0, project |-> 0]

Init ==
    /\ pause = NoPause /\ latch = FALSE /\ pauseQueue = <<>>
    /\ poisoned = {} /\ refused = FALSE
    /\ globalCost = 0 /\ projectCost = [p \in Projects |-> 0]
    /\ spentAll = 0 /\ spent = [p \in Projects |-> 0]
    /\ prior = [l \in Lanes |-> NoPrior]
    /\ recQueue = <<>> /\ torn = FALSE
    /\ runs = 0 /\ userWrites = 0 /\ restarts = 0 /\ failures = 0
    /\ resumed = FALSE /\ authHeld = FALSE /\ underAuth = {} /\ forgotten = FALSE
    /\ sincePause = [l \in Lanes |-> 0]
    /\ pc = [l \in Lanes |-> "idle"]
    /\ seen = [l \in Lanes |-> NoPause]
    /\ cost = [l \in Lanes |-> 0]

Goto(l, from, to) == pc[l] = from /\ pc' = [pc EXCEPT ![l] = to]

----------------------------------------------------------------------------
(* checkPaused (authGate.isPaused) and the start of a run.                 *)

\* A cycle or a Tier 3 reflection reaches checkPaused.
BeginCheck(l) ==
    /\ runs < MaxRuns
    /\ Goto(l, "idle", "reading")
    /\ underAuth' = IF authHeld THEN underAuth \cup {l} ELSE underAuth \ {l}
    /\ UNCHANGED <<seen, cost, gateVars, queueVars, ledgerVars, countVars,
                   resumed, authHeld, forgotten, sincePause>>

\* readPauseState reads the file; its continuation runs later.
ReadPause(l) ==
    /\ Goto(l, "reading", "deciding")
    /\ seen' = [seen EXCEPT ![l] = pause]
    /\ UNCHANGED <<cost, gateVars, queueVars, ledgerVars, countVars,
                   historyVars>>

UserResumeSeen(l) == ~seen[l].paused /\ seen[l].by = "user"

\* Fault: the gate answers with the file alone.
LatchIgnored(l) == FALSE

\* The rest of isPaused: the latch as it leaves it.
LatchAfterCheck(l) == latch /\ ~UserResumeSeen(l)

\* Fault: the gate answers with the latch alone.
PausedByLatch(l) == LatchAfterCheck(l)

\* What isPaused answers.
Paused(l) == seen[l].paused \/ LatchAfterCheck(l)

SkipRun(l) ==
    /\ Paused(l)
    /\ Goto(l, "deciding", "idle")
    /\ latch' = LatchAfterCheck(l)
    /\ seen' = [seen EXCEPT ![l] = NoPause]
    /\ UNCHANGED <<cost, pause, pauseQueue, queueVars, ledgerVars, countVars,
                   historyVars>>

StartChild(l) ==
    /\ ~Paused(l)
    /\ runs < MaxRuns
    /\ Goto(l, "deciding", "child")
    /\ latch' = LatchAfterCheck(l)
    /\ runs' = runs + 1
    /\ seen' = [seen EXCEPT ![l] = NoPause]
    /\ sincePause' = IF pause.paused THEN [sincePause EXCEPT ![l] = @ + 1]
                                     ELSE sincePause
    /\ UNCHANGED <<cost, pause, pauseQueue, queueVars, ledgerVars, userWrites,
                   restarts, failures, resumed, authHeld, underAuth,
                   forgotten>>

----------------------------------------------------------------------------
(* A child run returns.                                                    *)

\* The run is over, and costTracker.record is called.  An auth failure in a
\* Tier 3 run is no exception.
ChildReturns(l) ==
    /\ Goto(l, "child", "recordWait")
    /\ cost' \in {[cost EXCEPT ![l] = c] : c \in 0..MaxCost}
    /\ recQueue' = Append(recQueue, l)
    /\ UNCHANGED <<seen, gateVars, queueVars, globalCost, projectCost, prior,
                   torn, spentAll, spent, countVars, historyVars>>

\* An auth failure in a fired run: latch at once, then queue the pause write.
AuthFailure(l) ==
    /\ l \notin Tier3Lanes
    /\ Goto(l, "child", "authWrite")
    /\ latch' = TRUE /\ authHeld' = TRUE
    /\ pauseQueue' = Append(pauseQueue, l)
    /\ UNCHANGED <<seen, cost, pause, queueVars, ledgerVars, countVars,
                   resumed, underAuth, forgotten, sincePause>>

----------------------------------------------------------------------------
(* costTracker.record, one at a time in the order of the calls.            *)

\* Fault: record() is not serialized.
AtHeadAlways(l) == TRUE

AtHead(l) == recQueue # <<>> /\ Head(recQueue) = l

RecordReads(l) ==
    /\ AtHead(l)
    /\ Goto(l, "recordWait", "recordWrite")
    /\ prior' = [prior EXCEPT ![l] = [global |-> globalCost,
                                      project |-> projectCost[ProjectOf[l]]]]
    /\ UNCHANGED <<seen, cost, gateVars, queueVars, globalCost, projectCost,
                   recQueue, torn, spentAll, spent, countVars, historyVars>>

\* accumulate(), for each file.
WriteGlobal(l) ==
    globalCost' = prior[l].global + cost[l]
WriteProject(l) ==
    projectCost' = [projectCost EXCEPT ![ProjectOf[l]] = prior[l].project + cost[l]]

\* The files a record() has still to write.
Pending(l) == IF pc[l] = "recordWrite" THEN {"global", ProjectOf[l]}
              ELSE IF pc[l] = "wroteGlobal" THEN {ProjectOf[l]}
              ELSE IF pc[l] = "wroteProject" THEN {"global"} ELSE {}

\* One of them lands, unless its path's queue refuses it.
Lands(l, path) ==
    /\ path \in Pending(l) \ poisoned
    /\ IF path = "global" THEN WriteGlobal(l) /\ UNCHANGED projectCost
                          ELSE WriteProject(l) /\ UNCHANGED globalCost

\* The first of the two writes of Promise.all lands.
RecordWritesOne(l) ==
    /\ \/ Goto(l, "recordWrite", "wroteGlobal") /\ Lands(l, "global")
       \/ Goto(l, "recordWrite", "wroteProject") /\ Lands(l, ProjectOf[l])
    /\ UNCHANGED <<seen, cost, gateVars, queueVars, prior, recQueue, torn,
                   spentAll, spent, countVars, historyVars>>

\* record() is over, its locals with it; serialize() lets the next call go.
EndRecord(l) ==
    /\ recQueue' = Tail(recQueue)
    /\ cost' = [cost EXCEPT ![l] = 0]
    /\ prior' = [prior EXCEPT ![l] = NoPrior]

\* Fault: the global cap is not looked at.
CapHitProjectOnly(l) == prior[l].project + cost[l] >= ProjectCap

CapHit(l) ==
    \/ prior[l].project + cost[l] >= ProjectCap
    \/ prior[l].global + cost[l] >= GlobalCap

\* The second write lands and record() returns; a cap hit queues the pause.
RecordReturns(l) ==
    /\ \E path \in Paths : Pending(l) = {path} /\ Lands(l, path)
    /\ EndRecord(l)
    /\ IF CapHit(l)
       THEN /\ pc' = [pc EXCEPT ![l] = "capWrite"]
            /\ pauseQueue' = Append(pauseQueue, l)
       ELSE /\ pc' = [pc EXCEPT ![l] = "idle"]
            /\ UNCHANGED pauseQueue
    /\ spentAll' = spentAll + cost[l]
    /\ spent' = [spent EXCEPT ![ProjectOf[l]] = @ + cost[l]]
    /\ UNCHANGED <<seen, pause, latch, queueVars, torn, countVars,
                   historyVars>>

\* A write rejects, and record() and the run's task with it.
RecordRejects(l) ==
    /\ pc' = [pc EXCEPT ![l] = "idle"]
    /\ EndRecord(l)
    /\ torn' = TRUE
    /\ UNCHANGED <<seen, gateVars, globalCost, projectCost, spentAll, spent,
                   runs, userWrites, restarts, historyVars>>

\* Fault: a call that rejects leaves the chain rejected.
RecordFailsChained(l) ==
    /\ failures < MaxFailures
    /\ pc[l] \in RecordPcs
    /\ pc' = [pc EXCEPT ![l] = "idle"]
    /\ torn' = TRUE
    /\ failures' = failures + 1
    /\ UNCHANGED <<seen, cost, gateVars, queueVars, globalCost, projectCost,
                   prior, recQueue, spentAll, spent, runs, userWrites,
                   restarts, historyVars>>

\* The disk fails.  The path's queue is never reset (the finally compares
\* the map's entry with another promise), so while the process lives it
\* rejects what follows.  Unhandled, the rejection may also end the process:
\* DaemonRestarts.
RecordFails(l) ==
    /\ failures < MaxFailures
    /\ \E paths \in SUBSET (Pending(l) \ poisoned) :
          paths # {} /\ poisoned' = poisoned \cup paths
    /\ failures' = failures + 1
    /\ UNCHANGED refused
    /\ RecordRejects(l)

\* The path's queue rejects the write untried.
RecordRefused(l) ==
    /\ Pending(l) \cap poisoned # {}
    /\ refused' = TRUE
    /\ UNCHANGED <<poisoned, failures>>
    /\ RecordRejects(l)

----------------------------------------------------------------------------
(* pause.json.                                                             *)

SetPause(state) ==
    /\ pause' = state
    /\ sincePause' = IF state.paused # pause.paused
                     THEN [l \in Lanes |-> 0] ELSE sincePause

\* The daemon's oldest queued write settles, and the lane's task with it.
PauseSettles(l) ==
    /\ pauseQueue # <<>> /\ Head(pauseQueue) = l
    /\ pc[l] \in {"authWrite", "capWrite"}
    /\ pauseQueue' = Tail(pauseQueue)
    /\ pc' = [pc EXCEPT ![l] = "idle"]

\* It lands: the handler returns `paused`.
PauseLands(l) ==
    /\ "pause" \notin poisoned
    /\ PauseSettles(l)
    /\ SetPause([paused |-> TRUE, by |-> "daemon"])
    /\ UNCHANGED <<seen, cost, latch, queueVars, ledgerVars, countVars,
                   resumed, authHeld, underAuth, forgotten>>

\* It rejects, as the disk fails or as an earlier write has.
PauseFails(l) ==
    /\ failures < MaxFailures
    /\ "pause" \notin poisoned
    /\ PauseSettles(l)
    /\ poisoned' = poisoned \cup {"pause"}
    /\ failures' = failures + 1
    /\ UNCHANGED <<seen, cost, pause, latch, refused, ledgerVars, runs,
                   userWrites, restarts, historyVars>>
PauseRefused(l) ==
    /\ "pause" \in poisoned
    /\ PauseSettles(l)
    /\ refused' = TRUE
    /\ UNCHANGED <<seen, cost, pause, latch, poisoned, ledgerVars, countVars,
                   historyVars>>

\* setPauseState, from the command line, the dashboard or Telegram.
UserWrites(paused) ==
    /\ userWrites < MaxUserWrites
    /\ userWrites' = userWrites + 1
    /\ SetPause([paused |-> paused, by |-> "user"])
    /\ resumed' = (resumed \/ ~paused)
    /\ authHeld' = (authHeld /\ paused)
    /\ underAuth' = IF paused THEN underAuth ELSE {}
    /\ UNCHANGED <<laneVars, latch, pauseQueue, queueVars, ledgerVars, runs,
                   restarts, failures, forgotten>>

\* The daemon dies and starts again: files stay, memory goes.
DaemonRestarts ==
    /\ restarts < MaxRestarts
    /\ restarts' = restarts + 1
    /\ pc' = [l \in Lanes |-> "idle"]
    /\ latch' = FALSE /\ recQueue' = <<>> /\ pauseQueue' = <<>>
    /\ poisoned' = {}
    /\ torn' = (torn \/ \E l \in Lanes : pc[l] \in {"wroteGlobal", "wroteProject"})
    /\ forgotten' = (forgotten \/ (authHeld /\ ~pause.paused))
    /\ seen' = [l \in Lanes |-> NoPause]
    /\ cost' = [l \in Lanes |-> 0] /\ prior' = [l \in Lanes |-> NoPrior]
    /\ underAuth' = {}
    /\ UNCHANGED <<pause, globalCost, projectCost, spentAll, spent, runs,
                   userWrites, failures, refused, resumed, authHeld, sincePause>>

----------------------------------------------------------------------------
Record(l) ==
    \/ RecordReads(l) \/ RecordWritesOne(l) \/ RecordReturns(l)
    \/ RecordRefused(l)

LaneStep(l) ==
    \/ ReadPause(l) \/ SkipRun(l) \/ StartChild(l)
    \/ ChildReturns(l) \/ AuthFailure(l) \/ Record(l)
    \/ PauseLands(l) \/ PauseRefused(l)

Next ==
    \/ \E l \in Lanes : BeginCheck(l) \/ LaneStep(l) \/ RecordFails(l)
                         \/ PauseFails(l)
    \/ \E paused \in BOOLEAN : UserWrites(paused)
    \/ DaemonRestarts

Spec == Init /\ [][Next]_vars

(* Reads and writes settle and a child run ends (it is aborted after its   *)
(* timeout); fires, the user and failures are not promised.                *)
FairSpec == Spec /\ \A l \in Lanes : WF_vars(LaneStep(l))

----------------------------------------------------------------------------
(* Properties.                                                             *)

(* The ledger: unless a record() was cut between its two writes, whenever  *)
(* no record() is in progress both totals equal what was recorded.         *)
LedgerExact ==
    ~torn /\ (\A l \in Lanes : pc[l] \notin RecordPcs)
        => globalCost = spentAll /\ projectCost = spent

(* The caps bound spending although they are checked only after a run: as  *)
(* long as the user does not resume, each lane passes the cap with at most *)
(* one run more, once per start of the daemon, and one per failed write (a *)
(* cap of zero is reached, not passed, by no run at all).  A process that  *)
(* lives on after a failed write has no such bound: the path's queue       *)
(* refuses every later write.                                              *)
OvershootBounded ==
    ~resumed /\ ~refused =>
        LET overshoot == MaxCost * (Cardinality(Lanes) * (1 + restarts) + failures)
        IN  globalCost < GlobalCap + overshoot \/ globalCost = overshoot

(* While pause.json says paused, a lane starts at most the one run whose   *)
(* check had read the file before.                                         *)
PauseLetsOneRunFinish == pause.paused => \A l \in Lanes : sincePause[l] <= 1

(* worker.ts, createAuthFailurePauseGate: the latch closes the race        *)
(* between one project's auth failure in a fired run and another's next    *)
(* tick, so no check that begins after the failure lets a run start until  *)
(* the user resumes.                                                       *)
AuthLatchHolds == \A l \in Lanes : pc[l] = "child" => l \notin underAuth

(* The part of it that is true, restarts of the daemon included: there are *)
(* two ways out of it.  One is a resume by the user, which lifts the latch *)
(* from the file even if it is older than the failure.  The other is a     *)
(* restart while the pause of the failure is not in the file: its write    *)
(* was still queued or in progress, or was rejected; the latch is memory.  *)
FirstAuthLatchHolds == ~resumed /\ ~forgotten => AuthLatchHolds

(* A record() that waits its turn gets it, whatever became of the calls    *)
(* before it.                                                              *)
RecordsNotBlocked ==
    \A l \in Lanes : pc[l] = "recordWait" ~> pc[l] # "recordWait"
=============================================================================
