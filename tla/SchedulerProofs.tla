--------------------------- MODULE SchedulerProofs ---------------------------
(***************************************************************************)
(* Proofs about the scheduler of scheduled tasks.                          *)
(*                                                                         *)
(* First the lease that decides who drives it (SchedulerLock), for any     *)
(* finite set of sessions and any number of deaths: its type invariant,    *)
(* that two sessions believe they own the lock only after one was removed  *)
(* by mistake, and that a stopped scheduler leaves no lock behind.         *)
(*                                                                         *)
(* Then the core that the owner runs (CronScheduler), for any finite set   *)
(* of tasks with any periods: its type invariant, and that a recurring     *)
(* task keeps its pace.                                                    *)
(***************************************************************************)
EXTENDS CronScheduler, SchedulerLock, TLAPS

(***************************************************************************)
(* The lock.                                                               *)
(***************************************************************************)

\* A process more has died than the session has come back from.
PidCounted ==
    \A s \in Sessions : pid[s] + (IF living[s] THEN 0 ELSE 1) <= deaths + 1

\* No file bears the pid of a process to come.
NoFuturePid ==
    lock.by # Nobody => lock.by[2] <= pid[lock.by[1]]

\* An owner runs, was not stopped and is at no file call.
OwnersRest ==
    /\ \A s \in Sessions : isOwner[s] => living[s] /\ ~stopped[s] /\ pc[s] = "idle"
    /\ \A s \in Sessions : ~living[s] => pc[s] = "idle"

\* A session that needs the lock file: another must not remove it.
Needs(s) == living[s] /\ (pc[s] = "filling" \/ isOwner[s])

NeededFileThere ==
    ~mistaken => \A s \in Sessions : Needs(s) => lock.by = Self(s)

\* A file in the name of a running process is being filled by it, or is full
\* and owned or about to be released.
OwnFileKnown ==
    \A s \in Sessions : living[s] /\ lock.by = Self(s)
        => \/ pc[s] = "filling"
           \/ lock.full /\ (isOwner[s] \/ pc[s] \in {"releasing", "releaseUnlink"})

LockInv == LockTypeOK /\ PidCounted /\ NoFuturePid /\ OwnersRest /\ NeededFileThere
               /\ OwnFileKnown

USE LockAssumption

----------------------------------------------------------------------------
(* Processes and the files in their names.                                 *)

LEMMA SelfNamesSession ==
    ASSUME NEW s \in Sessions, NEW r \in Sessions
    PROVE  /\ Self(s) # Nobody
           /\ Self(s) = Self(r) => s = r
           /\ Self(s)[1] = s /\ Self(s)[2] = pid[s]
BY DEF Self, Nobody

LEMMA SelfIsProcess ==
    ASSUME LockTypeOK, NEW s \in Sessions
    PROVE  Self(s) \in Processes /\ Emptied(s) \in [by : Processes \cup {Nobody}, full : BOOLEAN]
BY DEF LockTypeOK, Self, Processes, Emptied

LEMMA NoFileType == NoFile \in [by : Processes \cup {Nobody}, full : BOOLEAN]
BY DEF NoFile

----------------------------------------------------------------------------
(* Types.                                                                  *)

LEMMA InitLock == LockInit => LockInv
<1> SUFFICES ASSUME LockInit PROVE LockInv
  OBVIOUS
<1>1. LockTypeOK
  <2>1. 1 \in Pids /\ 0 \in 0..MaxDeaths
    BY DEF Pids
  <2> QED
    BY <2>1, NoFileType DEF LockInit, LockTypeOK, LockPcs
<1>2. PidCounted /\ OwnersRest
  BY DEF LockInit, PidCounted, OwnersRest
<1>3. NoFuturePid
  BY DEF LockInit, NoFuturePid, NoFile
<1>4. NeededFileThere
  BY DEF LockInit, NeededFileThere, Needs
<1>5. OwnFileKnown
  BY SelfNamesSession DEF LockInit, OwnFileKnown, NoFile
<1> QED
  BY <1>1, <1>2, <1>3, <1>4, <1>5 DEF LockInv

LEMMA AcquireType ==
    ASSUME LockTypeOK, NEW s \in Sessions, Acquire(s)
    PROVE  LockTypeOK'
<1> USE SelfIsProcess, NoFileType DEF LockPcs, Goto, Answered
<1>1. CASE TryCreate(s)
  BY <1>1 DEF LockTypeOK, TryCreate, Create
<1>2. CASE CreateFails(s)
  BY <1>2 DEF LockTypeOK, CreateFails
<1>3. CASE ReadOurs(s)
  BY <1>3 DEF LockTypeOK, ReadOurs
<1>4. CASE ReadLive(s)
  BY <1>4 DEF LockTypeOK, ReadLive
<1>5. CASE ReadStale(s)
  BY <1>5 DEF LockTypeOK, ReadStale
<1>6. CASE Rewrite(s)
  BY <1>6 DEF LockTypeOK, Rewrite, Mistake
<1>7. CASE Unlink(s)
  BY <1>7 DEF LockTypeOK, Unlink, Mistake
<1>8. CASE Recreate(s)
  BY <1>8 DEF LockTypeOK, Recreate, Create
<1>9. CASE RecreateFails(s)
  BY <1>9 DEF LockTypeOK, RecreateFails
<1>10. CASE Fill(s)
  BY <1>10 DEF LockTypeOK, Fill
<1> QED
  BY <1>1, <1>2, <1>3, <1>4, <1>5, <1>6, <1>7, <1>8, <1>9, <1>10 DEF Acquire

LEMMA OtherType ==
    ASSUME LockTypeOK, PidCounted, NEW s \in Sessions,
           Stop(s) \/ Release(s) \/ Die(s) \/ Resume(s)
    PROVE  LockTypeOK'
<1> USE NoFileType DEF LockPcs, Goto
<1>1. CASE Stop(s)
  BY <1>1 DEF LockTypeOK, Stop
<1>2. CASE ReleaseReads(s)
  BY <1>2 DEF LockTypeOK, ReleaseReads
<1>3. CASE ReleaseUnlinks(s)
  BY <1>3 DEF LockTypeOK, ReleaseUnlinks, Mistake
<1>4. CASE Die(s)
  BY <1>4 DEF LockTypeOK, Die
<1>5. CASE Resume(s)
  <2>1. pid[s] + 1 \in Pids
    BY <1>5 DEF LockTypeOK, Resume, PidCounted, Pids
  <2> QED
    BY <1>5, <2>1 DEF LockTypeOK, Resume, Processes
<1> QED
  BY <1>1, <1>2, <1>3, <1>4, <1>5 DEF Release

----------------------------------------------------------------------------
(* The bookkeeping of processes.                                           *)

LEMMA LockStepType ==
    ASSUME LockInv, [LockNext]_lockVars
    PROVE  LockTypeOK'
<1>1. CASE LockNext
  BY <1>1, AcquireType, OtherType DEF LockInv, LockNext
<1>2. CASE UNCHANGED lockVars
  BY <1>2 DEF LockInv, LockTypeOK, lockVars
<1> QED
  BY <1>1, <1>2

\* Only dying and coming back change who runs, and under which pid.
LEMMA ProcessesKept ==
    ASSUME NEW s \in Sessions, Acquire(s) \/ Stop(s) \/ Release(s)
    PROVE  UNCHANGED <<living, pid, deaths>>
BY DEF Acquire, TryCreate, CreateFails, ReadOurs, ReadLive, ReadStale, Rewrite,
       Unlink, Recreate, RecreateFails, Fill, Stop, Release, ReleaseReads,
       ReleaseUnlinks

LEMMA PidCountedKept ==
    ASSUME LockInv, NEW s \in Sessions,
           Acquire(s) \/ Stop(s) \/ Release(s) \/ Die(s) \/ Resume(s)
    PROVE  PidCounted'
<1>1. CASE Acquire(s) \/ Stop(s) \/ Release(s)
  BY <1>1, ProcessesKept DEF LockInv, PidCounted
<1>2. CASE Die(s)
  BY <1>2 DEF LockInv, LockTypeOK, PidCounted, Die, Pids
<1>3. CASE Resume(s)
  BY <1>3 DEF LockInv, LockTypeOK, PidCounted, Resume, Pids
<1> QED
  BY <1>1, <1>2, <1>3

\* A step gives the file the name of the process that takes it, or of nobody,
\* or leaves the name alone.
LEMMA FileNamed ==
    ASSUME LockTypeOK, NEW s \in Sessions,
           Acquire(s) \/ Stop(s) \/ Release(s) \/ Die(s) \/ Resume(s)
    PROVE  \/ lock'.by = lock.by
           \/ lock' = NoFile
           \/ lock' = Emptied(s) /\ UNCHANGED pid
BY DEF LockTypeOK, Acquire, TryCreate, CreateFails, ReadOurs, ReadLive, ReadStale,
       Rewrite, Unlink, Recreate, RecreateFails, Fill, Stop, Release,
       ReleaseReads, ReleaseUnlinks, Die, Resume, Create

LEMMA NoFuturePidKept ==
    ASSUME LockInv, NEW s \in Sessions,
           Acquire(s) \/ Stop(s) \/ Release(s) \/ Die(s) \/ Resume(s)
    PROVE  NoFuturePid'
<1>1. CASE lock' = NoFile
  BY <1>1 DEF NoFuturePid, NoFile
<1>2. CASE lock' = Emptied(s) /\ UNCHANGED pid
  BY <1>2, SelfNamesSession DEF LockInv, LockTypeOK, NoFuturePid, Emptied, Pids
<1>3. CASE lock'.by = lock.by
  <2>1. \A r \in Sessions : pid[r] <= pid'[r]
    BY ProcessesKept DEF LockInv, LockTypeOK, Pids, Die, Resume
  <2>2. lock.by # Nobody => lock.by[1] \in Sessions /\ lock.by[2] \in Pids
    BY DEF LockInv, LockTypeOK, Processes
  <2>3. LockTypeOK'
    BY LockStepType DEF LockNext
  <2> QED
    BY <1>3, <2>1, <2>2, <2>3 DEF LockInv, LockTypeOK, NoFuturePid, Pids
<1> QED
  BY <1>1, <1>2, <1>3, FileNamed DEF LockInv

LEMMA OwnersRestKept ==
    ASSUME LockInv, NEW s \in Sessions,
           Acquire(s) \/ Stop(s) \/ Release(s) \/ Die(s) \/ Resume(s)
    PROVE  OwnersRest'
<1> USE DEF LockInv, LockTypeOK, OwnersRest, Goto
<1>1. CASE TryCreate(s) \/ CreateFails(s)
  BY <1>1 DEF TryCreate, CreateFails
<1>2. CASE ReadOurs(s) \/ Fill(s)
  BY <1>2 DEF ReadOurs, Fill, Answered
<1>3. CASE ReadLive(s) \/ ReadStale(s)
  BY <1>3 DEF ReadLive, ReadStale
<1>4. CASE Rewrite(s) \/ Unlink(s) \/ Recreate(s) \/ RecreateFails(s)
  BY <1>4 DEF Rewrite, Unlink, Recreate, RecreateFails
<1>5. CASE Stop(s)
  BY <1>5 DEF Stop
<1>6. CASE ReleaseReads(s) \/ ReleaseUnlinks(s)
  BY <1>6 DEF ReleaseReads, ReleaseUnlinks
<1>7. CASE Die(s) \/ Resume(s)
  BY <1>7 DEF Die, Resume
<1> QED
  BY <1>1, <1>2, <1>3, <1>4, <1>5, <1>6, <1>7 DEF Acquire, Release

----------------------------------------------------------------------------
(* The lock file.                                                          *)

\* A step that leaves the file to the sessions that need it, and makes no
\* other session need it.
LEMMA NeededKept ==
    ASSUME NeededFileThere, mistaken' = mistaken, pid' = pid, lock'.by = lock.by,
           \A r \in Sessions : Needs(r)' => Needs(r)
    PROVE  NeededFileThere'
BY DEF NeededFileThere, Self

\* Whoever takes the file away takes it from no one who needs it, unless by
\* mistake.
LEMMA NeededTaken ==
    ASSUME LockTypeOK, NeededFileThere, NEW s \in Sessions,
           mistaken' = (mistaken \/ Mistake(s)), pid' = pid,
           \A r \in Sessions \ {s} : Needs(r)' => Needs(r),
           Needs(s)' => lock'.by = Self(s)
    PROVE  NeededFileThere'
<1> SUFFICES ASSUME ~mistaken', NEW r \in Sessions, Needs(r)'
             PROVE  lock'.by = Self(r)'
  BY DEF NeededFileThere
<1>1. CASE r = s
  BY <1>1 DEF Self
<1>2. CASE r # s
  BY <1>2 DEF LockTypeOK, NeededFileThere, Mistake, Needs
<1> QED
  BY <1>1, <1>2

\* With the file created nobody else needed one.
LEMMA NeededCreated ==
    ASSUME LockTypeOK, NeededFileThere, NEW s \in Sessions, Create(s),
           mistaken' = mistaken, pid' = pid,
           \A r \in Sessions \ {s} : Needs(r)' => Needs(r)
    PROVE  NeededFileThere'
<1> SUFFICES ASSUME ~mistaken', NEW r \in Sessions, Needs(r)'
             PROVE  lock'.by = Self(r)'
  BY DEF NeededFileThere
<1>1. CASE r = s
  BY <1>1 DEF Create, Emptied, Self
<1>2. CASE r # s
  BY <1>2, SelfNamesSession DEF NeededFileThere, Create, NoFile
<1> QED
  BY <1>1, <1>2

LEMMA NeededFileThereKept ==
    ASSUME LockInv, NEW s \in Sessions,
           Acquire(s) \/ Stop(s) \/ Release(s) \/ Die(s) \/ Resume(s)
    PROVE  NeededFileThere'
<1> USE DEF LockInv, Needs, Goto
<1>1. CASE TryCreate(s)
  BY <1>1, NeededCreated DEF LockTypeOK, TryCreate
<1>2. CASE CreateFails(s)
  BY <1>2, NeededKept DEF LockTypeOK, CreateFails
<1>3. CASE ReadOurs(s)
  BY <1>3, NeededTaken DEF LockTypeOK, ReadOurs, Answered, NeededFileThere, Self
<1>4. CASE ReadLive(s) \/ ReadStale(s)
  BY <1>4, NeededKept DEF LockTypeOK, ReadLive, ReadStale
<1>5. CASE Rewrite(s)
  BY <1>5, NeededTaken DEF LockTypeOK, Rewrite, Emptied
<1>6. CASE Unlink(s)
  BY <1>6, NeededTaken DEF LockTypeOK, OwnersRest, Unlink
<1>7. CASE Recreate(s)
  BY <1>7, NeededCreated DEF LockTypeOK, Recreate
<1>8. CASE RecreateFails(s)
  BY <1>8, NeededKept DEF LockTypeOK, RecreateFails
<1>9. CASE Fill(s)
  BY <1>9, NeededKept DEF LockTypeOK, Fill, Answered
<1>10. CASE Stop(s)
  BY <1>10, NeededKept DEF LockTypeOK, OwnersRest, Stop
<1>11. CASE ReleaseReads(s)
  BY <1>11, NeededKept DEF LockTypeOK, ReleaseReads
<1>12. CASE ReleaseUnlinks(s)
  BY <1>12, NeededTaken DEF LockTypeOK, OwnersRest, ReleaseUnlinks
<1>13. CASE Die(s)
  BY <1>13, NeededKept DEF LockTypeOK, Die
<1>14. CASE Resume(s)
  BY <1>14 DEF LockTypeOK, OwnersRest, NeededFileThere, Resume, Self
<1> QED
  BY <1>1, <1>2, <1>3, <1>4, <1>5, <1>6, <1>7, <1>8, <1>9, <1>10, <1>11,
     <1>12, <1>13, <1>14 DEF Acquire, Release

\* The session whose process a file names is filling, owning or releasing it.
LEMMA OwnFileKept ==
    ASSUME LockInv, NEW s \in Sessions,
           Acquire(s) \/ Stop(s) \/ Release(s) \/ Die(s) \/ Resume(s)
    PROVE  OwnFileKnown'
<1> SUFFICES ASSUME NEW r \in Sessions, living'[r], lock'.by = Self(r)'
             PROVE  \/ pc'[r] = "filling"
                    \/ /\ lock'.full
                       /\ isOwner'[r] \/ pc'[r] \in {"releasing", "releaseUnlink"}
  BY DEF OwnFileKnown
<1> USE SelfNamesSession DEF LockInv, LockTypeOK, OwnFileKnown, Goto
<1>1. CASE TryCreate(s) \/ Recreate(s)
  BY <1>1 DEF TryCreate, Recreate, Create, Emptied, Self
<1>2. CASE CreateFails(s) \/ RecreateFails(s)
  BY <1>2 DEF CreateFails, RecreateFails, Self, OwnersRest
<1>3. CASE ReadOurs(s)
  BY <1>3 DEF ReadOurs, Answered, Ours, Self
<1>4. CASE ReadLive(s) \/ ReadStale(s)
  BY <1>4 DEF ReadLive, ReadStale, Blocks, Ours, Self, OwnersRest
<1>5. CASE Rewrite(s)
  BY <1>5 DEF Rewrite, Emptied, Self
<1>6. CASE Unlink(s) \/ ReleaseUnlinks(s)
  <2>1. lock'.by = Nobody /\ Self(r)' = Self(r)
    BY <1>6 DEF Unlink, ReleaseUnlinks, NoFile, Self
  <2> QED
    BY <2>1, SelfNamesSession
<1>7. CASE Fill(s)
  BY <1>7 DEF Fill, Answered, Self
<1>8. CASE Stop(s)
  <2>1. living[r] /\ lock.by = Self(r) /\ lock' = lock
    BY <1>8 DEF Stop, Self
  <2>2. CASE r = s /\ isOwner[s]
    BY <1>8, <2>1, <2>2 DEF Stop, OwnersRest
  <2>3. CASE ~(r = s /\ isOwner[s])
    BY <1>8, <2>1, <2>3 DEF Stop
  <2> QED
    BY <2>2, <2>3
<1>9. CASE ReleaseReads(s)
  BY <1>9 DEF ReleaseReads, Ours, Self
<1>10. CASE Die(s)
  BY <1>10 DEF Die, Self
<1>11. CASE Resume(s)
  <2>1. CASE r = s
    <3>1. lock.by = <<s, pid[s] + 1>>
      BY <1>11, <2>1 DEF Resume, Self
    <3>2. lock.by # Nobody
      BY <3>1 DEF Nobody
    <3>3. pid[s] + 1 <= pid[s]
      BY <3>1, <3>2 DEF NoFuturePid
    <3> QED
      BY <3>3 DEF Pids
  <2>2. CASE r # s
    BY <1>11, <2>2 DEF Resume, Self
  <2> QED
    BY <2>1, <2>2
<1> QED
  BY <1>1, <1>2, <1>3, <1>4, <1>5, <1>6, <1>7, <1>8, <1>9, <1>10, <1>11
     DEF Acquire, Release

LEMMA LockStep == LockInv /\ [LockNext]_lockVars => LockInv'
<1> SUFFICES ASSUME LockInv, [LockNext]_lockVars PROVE LockInv'
  OBVIOUS
<1>1. CASE LockNext
  <2>1. PICK s \in Sessions :
            Acquire(s) \/ Stop(s) \/ Release(s) \/ Die(s) \/ Resume(s)
    BY <1>1 DEF LockNext
  <2> QED
    BY <2>1, LockStepType, PidCountedKept, NoFuturePidKept, OwnersRestKept,
       NeededFileThereKept, OwnFileKept DEF LockInv
<1>2. CASE UNCHANGED lockVars
  BY <1>2 DEF LockInv, LockTypeOK, lockVars, PidCounted, NoFuturePid, OwnersRest,
     NeededFileThere, Needs, OwnFileKnown, Self
<1> QED
  BY <1>1, <1>2

LEMMA LockInductive == LockSpec => []LockInv
BY InitLock, LockStep, PTL DEF LockSpec

----------------------------------------------------------------------------
(* Every state is of its type: whatever dies and comes back, a session has *)
(* no more processes than the deaths allow.                                *)
THEOREM LockTypeCorrect == LockSpec => []LockTypeOK
<1>1. LockInv => LockTypeOK
  BY DEF LockInv
<1> QED
  BY LockInductive, <1>1, PTL

(* Two sessions believe they own the lock only after one of them removed   *)
(* or overwrote the other's by mistake: the exclusive create, the probe of *)
(* the pid and the release leave no other way.                             *)
THEOREM OneOwner == LockSpec => []OneOwnerUnlessMistaken
<1>1. LockInv => OneOwnerUnlessMistaken
  BY SelfNamesSession
     DEF LockInv, NeededFileThere, Needs, OwnersRest, OneOwnerUnlessMistaken
<1> QED
  BY LockInductive, <1>1, PTL

(* A stopped scheduler at rest has left no lock in the name of its running *)
(* process, wherever in an attempt stop() caught it.                       *)
THEOREM StopLeavesNoLock == LockSpec => []StoppedLeavesNoLock
<1>1. LockInv => StoppedLeavesNoLock
  BY DEF LockInv, OwnFileKnown, OwnersRest, StoppedLeavesNoLock
<1> QED
  BY LockInductive, <1>1, PTL

----------------------------------------------------------------------------
(***************************************************************************)
(* The core.                                                               *)
(***************************************************************************)

HIDE LockAssumption

\* A recurring task that fired has the entry for its next occurrence.
EntriesKept ==
    \A t \in Recurring : lastFire[t] > 0 => nextFireAt[t] = NextRun(t, lastFire[t])

CronInv == TypeOK /\ EntriesKept /\ RecurringKeepsPace

----------------------------------------------------------------------------
(* Occurrences.                                                            *)

LEMMA ProductPositive ==
    ASSUME NEW a \in Nat, NEW p \in Nat \ {0}
    PROVE  (a + 1) * p \in Nat \ {0}
OBVIOUS

LEMMA NextRunType ==
    ASSUME NEW t \in Tasks, NEW from \in Nat
    PROVE  NextRun(t, from) \in Nat /\ NextRun(t, from) # Unset
<1>1. Period[t] \in Nat \ {0}
  BY TasksAssumption
<1>2. from \div Period[t] \in Nat
  BY <1>1
<1> QED
  BY <1>1, <1>2, ProductPositive DEF NextRun, Unset

----------------------------------------------------------------------------
(* Lists of tasks, and what a write makes of them.                         *)

Records == [pc : WritePcs, kind : WriteKinds, ids : SUBSET Tasks,
            at : 0..MaxTime, body : TaskLists]

LEMMA ListIs ==
    ASSUME NEW list \in TaskLists
    PROVE  /\ DOMAIN list \subseteq Tasks
           /\ list = [t \in DOMAIN list |-> list[t]]
           /\ \A t \in DOMAIN list : list[t] \in Entry
BY DEF TaskLists

LEMMA ListMade ==
    ASSUME NEW S \in SUBSET Tasks, NEW list \in [S -> Entry]
    PROVE  list \in TaskLists
BY DEF TaskLists

LEMMA NoTasksType == NoTasks \in TaskLists
<1>1. NoTasks \in [{} -> Entry]
  BY DEF NoTasks
<1> QED
  BY <1>1, ListMade

LEMMA RestrictType ==
    ASSUME NEW list \in TaskLists, NEW ids
    PROVE  Restrict(list, DOMAIN list \ ids) \in TaskLists
<1>1. Restrict(list, DOMAIN list \ ids) \in [DOMAIN list \ ids -> Entry]
  BY ListIs DEF Restrict
<1> QED
  BY <1>1, ListIs, ListMade

LEMMA ModifiedType ==
    ASSUME NEW kind \in WriteKinds, NEW ids \in SUBSET Tasks, NEW at \in 0..MaxTime,
           NEW list \in TaskLists
    PROVE  Modified(kind, ids, at, list) \in TaskLists
<1> USE ListIs, BoundsAssumption DEF Modified
<1>1. CASE kind = "mark"
  <2>1. Modified(kind, ids, at, list) \in [DOMAIN list -> Entry]
    BY <1>1 DEF Entry
  <2> QED
    BY <2>1, ListMade
<1>2. CASE kind = "add"
  <2>1. [created |-> at, lastFired |-> 0] \in Entry
    BY DEF Entry
  <2>2. Modified(kind, ids, at, list) \in [DOMAIN list \cup ids -> Entry]
    BY <1>2, <2>1
  <2> QED
    BY <2>2, ListMade
<1>3. CASE kind \in {"remove", "discard", "delete"}
  BY <1>3, RestrictType
<1> QED
  BY <1>1, <1>2, <1>3 DEF WriteKinds

----------------------------------------------------------------------------
(* New writes.                                                             *)

Reading(kind, ids) ==
    [pc |-> "reading", kind |-> kind, ids |-> ids, body |-> NoTasks,
     at |-> IF kind \in {"mark", "add"} THEN now ELSE 0]

LEMMA StartIs ==
    ASSUME NEW kind, NEW ids
    PROVE  Start(kind, ids) = IF ids = {} THEN {} ELSE {Reading(kind, ids)}
BY DEF Start, Reading

LEMMA StartType ==
    ASSUME TypeOK, NEW kind \in WriteKinds, NEW ids \in SUBSET Tasks
    PROVE  Start(kind, ids) \subseteq Records
<1>1. Reading(kind, ids) \in Records
  BY NoTasksType, BoundsAssumption DEF TypeOK, Reading, Records, WritePcs
<1> QED
  BY <1>1, StartIs

----------------------------------------------------------------------------
(* Types.                                                                  *)

LEMMA InitCron == Init => CronInv
<1> SUFFICES ASSUME Init PROVE CronInv
  OBVIOUS
<1>1. New \in Entry
  BY BoundsAssumption DEF New, Entry
<1>2. file \in [Tasks \ Later -> Entry]
  BY <1>1 DEF Init
<1>3. file \in TaskLists
  BY <1>2, ListMade DEF Init
<1>4. TypeOK
  <2>1. 0 \in 0..MaxTime /\ 0 \in 0..MaxCrashes /\ 0 \in 0..MaxFailures
    BY BoundsAssumption
  <2>2. nextFireAt \in [Tasks -> Nat] /\ lastFire \in [Tasks -> 0..MaxTime]
    BY <2>1 DEF Init, Unset
  <2>3. tasks \in TaskLists
    BY NoTasksType DEF Init
  <2> QED
    BY <1>3, <2>1, <2>2, <2>3 DEF Init, TypeOK
<1>5. EntriesKept /\ RecurringKeepsPace
  BY DEF Init, EntriesKept, RecurringKeepsPace, Tasks
<1> QED
  BY <1>4, <1>5 DEF CronInv

LEMMA WriteStepType ==
    ASSUME TypeOK, NEW w \in writes, WriteStep(w) \/ WriteFails(w)
    PROVE  TypeOK'
<1> USE DEF TypeOK, Settled
<1>0. /\ w \in Records /\ writes \subseteq Records
      /\ w.kind \in WriteKinds /\ w.ids \in SUBSET Tasks /\ w.at \in 0..MaxTime
      /\ w.body \in TaskLists
  BY DEF Records
<1>1. CASE WriteReads(w)
  <2>1. Modified(w.kind, w.ids, w.at, file) \in TaskLists
    BY <1>0, ModifiedType
  <2>2. [w EXCEPT !.pc = "writing", !.body = Modified(w.kind, w.ids, w.at, file)]
            \in Records
    BY <1>0, <2>1 DEF Records, WritePcs
  <2>3. writes' \subseteq Records
    BY <1>0, <1>1, <2>2 DEF WriteReads
  <2>4. inFlight' \subseteq Tasks
    BY <1>1 DEF WriteReads
  <2> QED
    BY <1>1, <2>3, <2>4 DEF WriteReads, countVars, historyVars, Records
<1>2. CASE WriteTruncates(w)
  <2>1. [w EXCEPT !.pc = "truncated"] \in Records
    BY <1>0 DEF Records, WritePcs
  <2>2. writes' \subseteq Records
    BY <1>0, <1>2, <2>1 DEF WriteTruncates
  <2> QED
    BY <1>2, <2>2, NoTasksType
       DEF WriteTruncates, memoryVars, countVars, historyVars, Records
<1>3. CASE WriteFills(w)
  BY <1>0, <1>3 DEF WriteFills, countVars, historyVars
<1>4. CASE WriteFails(w)
  <2>1. failures' \in 0..MaxFailures
    BY <1>4, BoundsAssumption DEF WriteFails
  <2> QED
    BY <1>4, <2>1 DEF WriteFails
<1> QED
  BY <1>1, <1>2, <1>3, <1>4 DEF WriteStep

LEMMA LoadType ==
    ASSUME TypeOK, Reload \/ InitialLoad \/ Crash \/ Restart \/ Tick
    PROVE  TypeOK'
<1> USE BoundsAssumption DEF TypeOK
<1>1. CASE Reload
  BY <1>1 DEF Reload, countVars, historyVars
<1>2. CASE InitialLoad
  <2>1. Missed \subseteq OneShots /\ Missed \subseteq Tasks
    BY DEF Missed, Tasks
  <2>2. Start("discard", Missed) \subseteq Records
    BY <2>1, StartType DEF WriteKinds
  <2>3. nextFireAt' \in [Tasks -> Nat]
    BY <1>2 DEF InitialLoad, Never
  <2>4. torn' \in BOOLEAN
    BY <1>2 DEF InitialLoad, Overlapping
  <2> QED
    BY <1>2, <2>1, <2>2, <2>3, <2>4 DEF InitialLoad, countVars, Records
<1>3. CASE Crash
  <2>1. nextFireAt' \in [Tasks -> Nat] /\ lastFire' \in [Tasks -> 0..MaxTime]
    BY <1>3 DEF Crash, Unset
  <2>2. tasks' \in TaskLists
    BY <1>3, NoTasksType DEF Crash
  <2>3. torn' \in BOOLEAN /\ crashes' \in 0..MaxCrashes
    BY <1>3 DEF Crash
  <2> QED
    BY <1>3, <2>1, <2>2, <2>3 DEF Crash
<1>4. CASE Restart
  BY <1>4 DEF Restart, countVars, historyVars
<1>5. CASE Tick
  BY <1>5 DEF Tick, fileVars, memoryVars, historyVars
<1> QED
  BY <1>1, <1>2, <1>3, <1>4, <1>5

LEMMA UserType ==
    ASSUME TypeOK, NEW t \in Tasks, UserAdds(t) \/ UserDeletes(t)
    PROVE  TypeOK'
<1> USE DEF TypeOK
<1>1. CASE UserAdds(t)
  <2>1. Start("add", {t}) \subseteq Records
    BY StartType DEF WriteKinds
  <2>2. torn' \in BOOLEAN
    BY <1>1 DEF UserAdds, Overlapping
  <2> QED
    BY <1>1, <2>1, <2>2 DEF UserAdds, memoryVars, Records
<1>2. CASE UserDeletes(t)
  <2>1. Start("delete", {t}) \subseteq Records
    BY StartType DEF WriteKinds
  <2>2. torn' \in BOOLEAN
    BY <1>2 DEF UserDeletes, Overlapping
  <2> QED
    BY <1>2, <2>1, <2>2 DEF UserDeletes, memoryVars, Records
<1> QED
  BY <1>1, <1>2

----------------------------------------------------------------------------
(* A tick of check().                                                      *)

LEMMA DueAre ==
    ASSUME TypeOK
    PROVE  /\ DueTasks \subseteq Tasks /\ DueTasks \subseteq DOMAIN tasks
           /\ Last(DueTasks) \subseteq DueTasks
<1>1. DOMAIN tasks \subseteq Tasks
  BY ListIs DEF TypeOK
<1> QED
  BY <1>1 DEF DueTasks, Last

LEMMA BegunType ==
    ASSUME TypeOK
    PROVE  Begun(DueTasks) \subseteq Records
<1>1. \A t \in Last(DueTasks) : Start("remove", {t}) \subseteq Records
  BY DueAre, StartType DEF WriteKinds
<1>2. Start("mark", DueTasks \ Last(DueTasks)) \subseteq Records
  BY DueAre, StartType DEF WriteKinds
<1> QED
  BY <1>1, <1>2 DEF Begun

LEMMA ScheduledType ==
    ASSUME TypeOK, NEW t \in DOMAIN tasks
    PROVE  Scheduled(t) \in Nat /\ Scheduled(t) # Unset
<1>1. t \in Tasks /\ tasks[t] \in Entry
  BY ListIs DEF TypeOK
<1>2. Anchor(t, tasks[t]) \in Nat
  BY <1>1 DEF Anchor, Entry
<1>3. NextRun(t, Anchor(t, tasks[t])) \in Nat /\ NextRun(t, Anchor(t, tasks[t])) # Unset
  BY <1>1, <1>2, NextRunType
<1> QED
  BY <1>1, <1>3 DEF Scheduled, TypeOK

\* What the entry of a task is after a tick.
LEMMA NextAfterIs ==
    ASSUME TypeOK, NEW t \in Tasks
    PROVE  /\ t \notin DOMAIN tasks \/ t \in Last(DueTasks)
                => NextAfter(DueTasks)[t] = Unset
           /\ t \in DueTasks \ Last(DueTasks)
                => NextAfter(DueTasks)[t] = NextRun(t, now)
           /\ t \in DOMAIN tasks \cap inFlight
                => NextAfter(DueTasks)[t] = nextFireAt[t]
           /\ t \in DOMAIN tasks \ (DueTasks \cup inFlight)
                => NextAfter(DueTasks)[t] = Scheduled(t)
<1>1. DueTasks \cap inFlight = {}
  BY DEF DueTasks
<1> QED
  BY <1>1, DueAre DEF NextAfter

LEMMA NextAfterType ==
    ASSUME TypeOK
    PROVE  NextAfter(DueTasks) \in [Tasks -> Nat]
<1>1. SUFFICES ASSUME NEW t \in Tasks PROVE NextAfter(DueTasks)[t] \in Nat
  BY <1>1 DEF NextAfter
<1>2. NextRun(t, now) \in Nat
  BY NextRunType DEF TypeOK
<1>3. t \in DOMAIN tasks => Scheduled(t) \in Nat
  BY ScheduledType
<1>4. nextFireAt[t] \in Nat /\ Unset \in Nat
  BY DEF TypeOK, Unset
<1> QED
  BY <1>2, <1>3, <1>4, NextAfterIs

LEMMA CheckType ==
    ASSUME TypeOK, Check
    PROVE  TypeOK'
<1> USE DEF TypeOK
<1>1. writes' \subseteq Records
  <2>1. writes' = writes \cup Begun(DueTasks)
    BY DEF Check
  <2> QED
    BY <2>1, BegunType DEF Records
<1>2. inFlight' \subseteq Tasks
  BY DueAre DEF Check
<1>3. nextFireAt' \in [Tasks -> Nat]
  BY NextAfterType DEF Check
<1>4. torn' \in BOOLEAN
  BY DEF Check, Overlapping
<1>5. lastFire' \in [Tasks -> 0..MaxTime]
  BY BoundsAssumption DEF Check, Fires
<1>6. fired' \subseteq OneShots /\ refired' \subseteq OneShots /\ early' \subseteq Recurring
  BY DEF Check, Fires
<1> QED
  BY <1>1, <1>2, <1>3, <1>4, <1>5, <1>6 DEF Check, countVars, Records

LEMMA CronStepType ==
    ASSUME TypeOK, [Next]_vars
    PROVE  TypeOK'
<1>1. CASE Next
  BY <1>1, CheckType, LoadType, WriteStepType, UserType DEF Next
<1>2. CASE UNCHANGED vars
  BY <1>2 DEF TypeOK, vars, fileVars, memoryVars, countVars, historyVars
<1> QED
  BY <1>1, <1>2

----------------------------------------------------------------------------
(* The pace of the recurring tasks.                                        *)

\* A tick fires a task whose entry is kept no earlier than the entry says, and
\* sets the entry for the next occurrence.
LEMMA TickKeepsPace ==
    ASSUME TypeOK, EntriesKept, RecurringKeepsPace, Check
    PROVE  EntriesKept' /\ RecurringKeepsPace'
<1>1. \A t \in DueTasks \cap Recurring : lastFire[t] > 0 => NextRun(t, lastFire[t]) <= now
  <2> SUFFICES ASSUME NEW t \in DueTasks \cap Recurring, lastFire[t] > 0
               PROVE  NextRun(t, lastFire[t]) <= now
    OBVIOUS
  <2>1. t \in Tasks /\ lastFire[t] \in Nat
    BY BoundsAssumption DEF TypeOK, Tasks
  <2>2. nextFireAt[t] = NextRun(t, lastFire[t]) /\ nextFireAt[t] # Unset
    BY <2>1, NextRunType DEF EntriesKept
  <2> QED
    BY <2>2 DEF DueTasks, Scheduled
<1>2. early' = {}
  <2> SUFFICES ASSUME NEW t \in DueTasks \cap Recurring, lastFire[t] > 0,
                      now < NextRun(t, lastFire[t])
               PROVE  FALSE
    BY DEF RecurringKeepsPace, Check, Fires
  <2>1. NextRun(t, lastFire[t]) \in Nat /\ now \in Nat
    BY BoundsAssumption, NextRunType DEF TypeOK, Tasks
  <2> QED
    BY <1>1, <2>1
<1>3. ASSUME NEW t \in Recurring, lastFire'[t] > 0
      PROVE  nextFireAt'[t] = NextRun(t, lastFire'[t])
  <2>0. t \in Tasks
    BY DEF Tasks
  <2>1. /\ nextFireAt'[t] = NextAfter(DueTasks)[t]
        /\ lastFire'[t] = IF NextAfter(DueTasks)[t] = Unset THEN 0
                          ELSE IF t \in DueTasks THEN now ELSE lastFire[t]
    BY <2>0 DEF Check, Fires
  <2>2. t \in DOMAIN tasks \ Last(DueTasks)
    BY <1>3, <2>0, <2>1, NextAfterIs
  <2>3. CASE t \in DueTasks
    BY <1>3, <2>0, <2>1, <2>2, <2>3, NextAfterIs
  <2>4. CASE t \notin DueTasks
    <3>1. lastFire'[t] = lastFire[t] /\ lastFire[t] > 0
      BY <1>3, <2>1, <2>4
    <3>2. nextFireAt[t] = NextRun(t, lastFire[t]) /\ nextFireAt[t] # Unset
      BY <2>0, <3>1, BoundsAssumption, NextRunType DEF EntriesKept, TypeOK
    <3>3. NextAfter(DueTasks)[t] = nextFireAt[t]
      BY <2>0, <2>2, <2>4, <3>2, NextAfterIs DEF Scheduled
    <3> QED
      BY <2>1, <3>1, <3>2, <3>3
  <2> QED
    BY <2>3, <2>4
<1>4. EntriesKept'
  BY <1>3 DEF EntriesKept, NextRun
<1> QED
  BY <1>2, <1>4 DEF RecurringKeepsPace

LEMMA PaceKept ==
    ASSUME TypeOK, EntriesKept, RecurringKeepsPace, [Next]_vars
    PROVE  EntriesKept' /\ RecurringKeepsPace'
<1> USE DEF EntriesKept, RecurringKeepsPace, NextRun
<1>1. CASE Check
  BY <1>1, TickKeepsPace
<1>2. CASE Reload \/ Restart
  BY <1>2 DEF Reload, Restart, historyVars
<1>3. CASE Tick
  BY <1>3 DEF Tick, memoryVars, historyVars
<1>4. CASE InitialLoad
  <2>1. Missed \cap Recurring = {} /\ Recurring \subseteq Tasks
    BY TasksAssumption DEF Missed, Tasks
  <2>2. \A t \in Recurring : nextFireAt'[t] = nextFireAt[t]
    BY <1>4, <2>1 DEF InitialLoad, TypeOK
  <2> QED
    BY <1>4, <2>2 DEF InitialLoad
<1>5. CASE Crash
  BY <1>5 DEF Crash, Tasks
<1>6. ASSUME NEW w \in writes, WriteStep(w) \/ WriteFails(w)
      PROVE  EntriesKept' /\ RecurringKeepsPace'
  BY <1>6 DEF WriteStep, WriteReads, WriteTruncates, WriteFills, WriteFails,
              memoryVars, historyVars
<1>7. ASSUME NEW t \in Tasks, UserAdds(t) \/ UserDeletes(t)
      PROVE  EntriesKept' /\ RecurringKeepsPace'
  BY <1>7 DEF UserAdds, UserDeletes, memoryVars
<1>8. CASE UNCHANGED vars
  BY <1>8 DEF vars, memoryVars, historyVars
<1> QED
  BY <1>1, <1>2, <1>3, <1>4, <1>5, <1>6, <1>7, <1>8 DEF Next

----------------------------------------------------------------------------
(* The inductive invariant, and what follows.                               *)

LEMMA CronStep == CronInv /\ [Next]_vars => CronInv'
BY CronStepType, PaceKept DEF CronInv

LEMMA CronInductive == Spec => []CronInv
BY InitCron, CronStep, PTL DEF Spec

(* Every state is of its type, whatever the tasks and their periods.       *)
THEOREM CronTypeCorrect == Spec => []TypeOK
<1>1. CronInv => TypeOK
  BY DEF CronInv
<1> QED
  BY CronInductive, <1>1, PTL

(* However stale the copy of the file that a tick sees, a recurring task   *)
(* whose entry is kept waits for its next occurrence.                      *)
THEOREM RecurringWaits == Spec => []RecurringKeepsPace
<1>1. CronInv => RecurringKeepsPace
  BY DEF CronInv
<1> QED
  BY CronInductive, <1>1, PTL
=============================================================================
