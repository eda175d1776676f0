--------------------------- MODULE SchedulerLock ---------------------------
(***************************************************************************)
(* The lease that decides which Claude session drives a project's cron     *)
(* scheduler: .claude/scheduled_tasks.lock (utils/cronTasksLock.ts) as the *)
(* scheduler uses it (enable() and stop() in utils/cronScheduler.ts).      *)
(*                                                                         *)
(* A step is one file-system call with the code up to the next one.        *)
(* Creating the file and filling it are two calls, so are truncating and   *)
(* filling; until it is filled the file parses as corrupt.  A session that *)
(* died may come back under the same session id with a new pid (--resume). *)
(***************************************************************************)
EXTENDS Naturals, FiniteSets

CONSTANTS
    Sessions,
    MaxDeaths       \* bound on the number of process deaths

ASSUME LockAssumption == IsFiniteSet(Sessions) /\ MaxDeaths \in Nat

VARIABLES
    lock,       \* the lock file: absent, or who wrote it and whether fully
    living,     \* is the session's process running
    pid,        \* its pid: the number of processes it has had
    pc,         \* position in tryAcquireSchedulerLock or releaseSchedulerLock
    isOwner,    \* the scheduler's isOwner
    stopped,    \* the scheduler's stopped
    deaths,
    mistaken    \* history: a lock of a live session was removed by another

lockVars == <<lock, living, pid, pc, isOwner, stopped, deaths, mistaken>>

Pids      == 1..(MaxDeaths + 1)
Processes == Sessions \X Pids
Nobody    == <<>>
NoFile    == [by |-> Nobody, full |-> FALSE]

LockPcs == {"idle", "reading", "rewriting", "unlinking", "recreating",
            "filling", "releasing", "releaseUnlink"}

Self(s)    == <<s, pid[s]>>
Running(p) == \E s \in Sessions : living[s] /\ p = Self(s)

LockTypeOK ==
    /\ lock \in [by : Processes \cup {Nobody}, full : BOOLEAN]
    /\ living \in [Sessions -> BOOLEAN]
    /\ pid \in [Sessions -> Pids]
    /\ pc \in [Sessions -> LockPcs]
    /\ isOwner \in [Sessions -> BOOLEAN]
    /\ stopped \in [Sessions -> BOOLEAN]
    /\ deaths \in 0..MaxDeaths
    /\ mistaken \in BOOLEAN

LockInit ==
    /\ lock = NoFile
    /\ living = [s \in Sessions |-> TRUE] /\ pid = [s \in Sessions |-> 1]
    /\ pc = [s \in Sessions |-> "idle"]
    /\ isOwner = [s \in Sessions |-> FALSE]
    /\ stopped = [s \in Sessions |-> FALSE]
    /\ deaths = 0 /\ mistaken = FALSE

Goto(s, from, to) == living[s] /\ pc[s] = from /\ pc' = [pc EXCEPT ![s] = to]

\* What becomes of the file when s creates or truncates it.
Emptied(s) == [by |-> Self(s), full |-> FALSE]

\* Replacing or removing the file is a mistake if a live session needs it:
\* one that is filling it, or one that believes it owns the lock.
Mistake(s) ==
    \E r \in Sessions \ {s} :
        living[r] /\ lock.by = Self(r) /\ (pc[r] = "filling" \/ isOwner[r])

----------------------------------------------------------------------------
(* tryAcquireSchedulerLock: enable()'s first attempt, then the probes.     *)

\* Fault: the file is written without the `wx` flag.
CreateAnyway(s) == lock' = Emptied(s)

\* tryCreateExclusive opens the file with the `wx` flag.
Create(s) ==
    /\ lock = NoFile
    /\ lock' = Emptied(s)

TryCreate(s) ==
    /\ ~isOwner[s] /\ ~stopped[s]
    /\ Create(s)
    /\ Goto(s, "idle", "filling")
    /\ UNCHANGED <<living, pid, isOwner, stopped, deaths, mistaken>>

\* EEXIST: look at the file.
CreateFails(s) ==
    /\ ~isOwner[s] /\ ~stopped[s]
    /\ lock # NoFile
    /\ Goto(s, "idle", "reading")
    /\ UNCHANGED <<lock, living, pid, isOwner, stopped, deaths,
                   mistaken>>

Ours(s)   == lock.full /\ lock.by # Nobody /\ lock.by[1] = s

\* Fault: the pid in the file is not probed.
AnyoneBlocks(s) == lock.full /\ ~Ours(s)

Blocks(s) == lock.full /\ Running(lock.by) /\ ~Ours(s)

\* Fault: the answer of an attempt is used although stop() came meanwhile.
AnsweredThoughStopped(s) ==
    /\ pc' = [pc EXCEPT ![s] = "idle"]
    /\ isOwner' = [isOwner EXCEPT ![s] = ~stopped[s]]

\* tryAcquire answered `owned`: enable() and the probe release it again if
\* the scheduler was stopped meanwhile.
Answered(s) ==
    IF stopped[s]
    THEN pc' = [pc EXCEPT ![s] = "releasing"] /\ UNCHANGED isOwner
    ELSE /\ pc' = [pc EXCEPT ![s] = "idle"]
         /\ isOwner' = [isOwner EXCEPT ![s] = TRUE]

\* The file is ours: re-acquired, or to be rewritten when an earlier process
\* of the session left it.
ReadOurs(s) ==
    /\ living[s] /\ pc[s] = "reading"
    /\ Ours(s)
    /\ IF lock.by = Self(s) THEN Answered(s)
       ELSE /\ pc' = [pc EXCEPT ![s] = "rewriting"]
            /\ UNCHANGED isOwner
    /\ UNCHANGED <<lock, living, pid, stopped, deaths, mistaken>>

ReadLive(s) ==
    /\ Blocks(s)
    /\ Goto(s, "reading", "idle")
    /\ UNCHANGED <<lock, living, pid, isOwner, stopped, deaths,
                   mistaken>>

\* Stale or corrupt (or gone): unlink and retry.
ReadStale(s) ==
    /\ ~Ours(s) /\ ~Blocks(s)
    /\ Goto(s, "reading", "unlinking")
    /\ UNCHANGED <<lock, living, pid, isOwner, stopped, deaths, mistaken>>

\* writeFile over the file of our earlier process truncates what is there.
Rewrite(s) ==
    /\ Goto(s, "rewriting", "filling")
    /\ lock' = Emptied(s)
    /\ mistaken' = (mistaken \/ Mistake(s))
    /\ UNCHANGED <<living, pid, isOwner, stopped, deaths>>

\* unlink takes the path, whatever file is there by now.
Unlink(s) ==
    /\ Goto(s, "unlinking", "recreating")
    /\ lock' = NoFile
    /\ mistaken' = (mistaken \/ Mistake(s))
    /\ UNCHANGED <<living, pid, isOwner, stopped, deaths>>

Recreate(s) ==
    /\ Create(s)
    /\ Goto(s, "recreating", "filling")
    /\ UNCHANGED <<living, pid, isOwner, stopped, deaths, mistaken>>

\* Another session won the recovery race.
RecreateFails(s) ==
    /\ lock # NoFile
    /\ Goto(s, "recreating", "idle")
    /\ UNCHANGED <<lock, living, pid, isOwner, stopped, deaths, mistaken>>

\* The body is written to the file this session opened, if it is still there.
Fill(s) ==
    /\ living[s] /\ pc[s] = "filling"
    /\ lock' = IF lock.by = Self(s) THEN [lock EXCEPT !.full = TRUE] ELSE lock
    /\ Answered(s)
    /\ UNCHANGED <<living, pid, stopped, deaths, mistaken>>

----------------------------------------------------------------------------
(* stop() and releaseSchedulerLock.                                        *)

Stop(s) ==
    /\ living[s] /\ ~stopped[s]
    /\ stopped' = [stopped EXCEPT ![s] = TRUE]
    /\ isOwner' = [isOwner EXCEPT ![s] = FALSE]
    /\ pc' = IF isOwner[s] THEN [pc EXCEPT ![s] = "releasing"] ELSE pc
    /\ UNCHANGED <<lock, living, pid, deaths, mistaken>>

ReleaseReads(s) ==
    /\ Goto(s, "releasing", IF Ours(s) THEN "releaseUnlink" ELSE "idle")
    /\ UNCHANGED <<lock, living, pid, isOwner, stopped, deaths,
                   mistaken>>

ReleaseUnlinks(s) ==
    /\ Goto(s, "releaseUnlink", "idle")
    /\ lock' = NoFile
    /\ mistaken' = (mistaken \/ Mistake(s))
    /\ UNCHANGED <<living, pid, isOwner, stopped, deaths>>

----------------------------------------------------------------------------
(* Processes die without cleaning up, and sessions are resumed.            *)

Die(s) ==
    /\ living[s] /\ deaths < MaxDeaths
    /\ deaths' = deaths + 1
    /\ living' = [living EXCEPT ![s] = FALSE]
    /\ pc' = [pc EXCEPT ![s] = "idle"]
    /\ isOwner' = [isOwner EXCEPT ![s] = FALSE]
    /\ UNCHANGED <<lock, pid, stopped, mistaken>>

Resume(s) ==
    /\ ~living[s]
    /\ living' = [living EXCEPT ![s] = TRUE]
    /\ pid' = [pid EXCEPT ![s] = @ + 1]
    /\ stopped' = [stopped EXCEPT ![s] = FALSE]
    /\ UNCHANGED <<lock, pc, isOwner, deaths, mistaken>>

----------------------------------------------------------------------------
Acquire(s) ==
    \/ TryCreate(s) \/ CreateFails(s)
    \/ ReadOurs(s) \/ ReadLive(s) \/ ReadStale(s)
    \/ Rewrite(s) \/ Unlink(s) \/ Recreate(s) \/ RecreateFails(s) \/ Fill(s)

Release(s) == ReleaseReads(s) \/ ReleaseUnlinks(s)

LockNext ==
    \E s \in Sessions :
        Acquire(s) \/ Stop(s) \/ Release(s) \/ Die(s) \/ Resume(s)

LockSpec == LockInit /\ [][LockNext]_lockVars

(* File calls return, and a session that does not own the lock probes it   *)
(* again every five seconds.                                               *)
LockFairSpec ==
    LockSpec /\ \A s \in Sessions : WF_lockVars(Acquire(s) \/ Release(s))

----------------------------------------------------------------------------
(* Properties.                                                             *)

(* As long as no session removes or overwrites the lock of a live one by   *)
(* mistake, at most one session believes it drives the scheduler.          *)
OneOwnerUnlessMistaken ==
    ~mistaken => \A s, r \in Sessions : isOwner[s] /\ isOwner[r] => s = r

(* A stopped scheduler whose calls have returned leaves no lock behind in  *)
(* the name of its running process, which would shut every other session   *)
(* out: also when stop() came in the middle of an attempt to acquire.      *)
StoppedLeavesNoLock ==
    \A s \in Sessions :
        living[s] /\ stopped[s] /\ pc[s] = "idle" => lock.by # Self(s)

(* "If the owner dies, a passive session takes over": whenever a scheduler *)
(* keeps running, one that runs comes to own the lock.                     *)
TakeOver ==
    \A s \in Sessions :
        (living[s] /\ ~stopped[s])
            ~> (~living[s] \/ stopped[s] \/ \E r \in Sessions : isOwner[r])
=============================================================================
