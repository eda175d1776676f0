----------------------------- MODULE TaskStore -----------------------------
(***************************************************************************)
(* The task lists that a team of agents shares (utils/tasks.ts): a file per*)
(* task, a high-water mark of ids, a lock per task and one per list; with  *)
(* their callers: the idle loop of in-process teammates, the task tools,   *)
(* the leader's unassigning of a teammate that left, and the clearing of a *)
(* finished list.                                                          *)
(*                                                                         *)
(* The idle loop claims tasks of the list of the leader's session, while   *)
(* everything else, once there is a team, works on the list of the team.   *)
(*                                                                         *)
(* A caller has one call in progress; a step is a file-system call, or     *)
(* several reads, with the code up to the next.  writeFile opens, which    *)
(* truncates, and then fills; a truncated task reads as none.  Of a task   *)
(* the model keeps its status, owner and blockedBy.                        *)
(***************************************************************************)
EXTENDS Naturals, FiniteSets

CONSTANTS
    Callers,
    Teammates,      \* those that run the idle loop
    Starts,         \* what the lists may hold at the start
    MaxId, MaxOps, MaxTroubles      \* bounds

Lists == {"session", "team"}
Ids == 1..MaxId
NoOne == "no one"

Statuses == {"absent", "torn", "pending", "in_progress", "completed"}
File == [status : Statuses, owner : Callers \cup {NoOne}, deps : SUBSET Ids]
Blank(status) == [status |-> status, owner |-> NoOne, deps |-> {}]

ASSUME CallersAssumption ==
    IsFiniteSet(Callers) /\ Teammates \subseteq Callers /\ NoOne \notin Callers
ASSUME StartsAssumption ==
    /\ MaxId \in Nat /\ MaxOps \in Nat /\ MaxTroubles \in Nat
    /\ Starts \subseteq [Lists -> [Ids -> File]]

VARIABLES
    file,       \* each task's file
    mark,       \* each list's .highwatermark; a truncated one reads as 0
    opened,     \* callers whose open task file has not been unlinked
    listLock, taskLock,
    pc, op,     \* each caller: position, and the operation it is in
    list, task, \* the list and the task it is about
    body,       \* what it is about to write
    todo,       \* tasks still to update or to unlink
    top,        \* the highest id it has found; of a delete, the task's
    work,       \* the session tasks that a teammate was told to work on
    gone,       \* teammates that were terminated
    ops, troubles,
    used,       \* history: the ids given to tasks of the team
    raced,      \* history: a delete overlapped a create, delete or reset
    reused,     \* history: an id was given twice
    blind,      \* history: tasks claimed while a blocker could not be read
    reopened,   \* history: completed tasks that were written as unfinished
    unseen,     \* history: what the check before a reset had no chance to see
    lost        \* history: unfinished tasks removed by a reset

fileVars    == <<file, mark, opened>>
lockVars    == <<listLock, taskLock>>
callVars    == <<pc, op, list, task, body, todo, top>>
teamVars    == <<work, gone, ops, troubles>>
historyVars == <<used, raced, reused, blind, reopened, unseen, lost>>
vars == <<fileVars, lockVars, callVars, teamVars, historyVars>>

Pcs == {"idle", "lock", "blockers", "updLock", "updOpen", "updFill",
        "listLock", "both", "dirLeft", "markLeft", "newOpen", "newFill",
        "readMark", "markOpen", "markFill", "unlink", "clear"}
Ops == {"none", "claim", "start", "take", "complete", "unassign", "create",
        "delete", "reset"}

TypeOK ==
    /\ file \in [Lists -> [Ids -> File]]
    /\ mark \in [Lists -> 0..MaxId]
    /\ opened \subseteq Callers
    /\ listLock \in [Lists -> Callers \cup {NoOne}]
    /\ taskLock \in [Lists -> [Ids -> Callers \cup {NoOne}]]
    /\ pc \in [Callers -> Pcs] /\ op \in [Callers -> Ops]
    /\ list \in [Callers -> Lists] /\ task \in [Callers -> 0..MaxId]
    /\ body \in [Callers -> File]
    /\ todo \in [Callers -> SUBSET Ids] /\ top \in [Callers -> 0..MaxId]
    /\ work \in [Callers -> SUBSET Ids] /\ gone \subseteq Teammates
    /\ ops \in 0..MaxOps /\ troubles \in 0..MaxTroubles
    /\ raced \in BOOLEAN /\ reused \in BOOLEAN
    /\ used \subseteq Ids /\ blind \subseteq Ids /\ reopened \subseteq Ids
    /\ unseen \subseteq Ids /\ lost \subseteq Ids

Init ==
    /\ file \in Starts
    /\ mark = [l \in Lists |-> 0] /\ opened = {}
    /\ listLock = [l \in Lists |-> NoOne]
    /\ taskLock = [l \in Lists |-> [i \in Ids |-> NoOne]]
    /\ pc = [c \in Callers |-> "idle"] /\ op = [c \in Callers |-> "none"]
    /\ list = [c \in Callers |-> "team"] /\ task = [c \in Callers |-> 0]
    /\ body = [c \in Callers |-> Blank("absent")]
    /\ todo = [c \in Callers |-> {}] /\ top = [c \in Callers |-> 0]
    /\ work = [c \in Callers |-> {}] /\ gone = {}
    /\ ops = 0 /\ troubles = 0
    /\ used = {i \in Ids : file["team"][i].status # "absent"}
    /\ raced = FALSE /\ reused = FALSE
    /\ blind = {} /\ reopened = {} /\ unseen = {} /\ lost = {}

\* getTask and listTasks: what can be read, and what of it is unresolved.
Readable(l, i)   == file[l][i].status \notin {"absent", "torn"}
Unresolved(l, i) == Readable(l, i) /\ file[l][i].status # "completed"
Blocked(l, i)    == \E b \in file[l][i].deps : Unresolved(l, b)
Available(l, i)  ==
    /\ file[l][i].status = "pending" /\ file[l][i].owner = NoOne
    /\ ~Blocked(l, i)

\* readdir, and the highest of the ids it shows.
Listed(l) == {i \in Ids : file[l][i].status # "absent"}
HighestOf(ids) == CHOOSE m \in ids \cup {0} : \A i \in ids : i <= m

Mine(c) == file[list[c]][task[c]]

Goto(c, from, to) == pc[c] = from /\ pc' = [pc EXCEPT ![c] = to]

\* The call is over, its locals with it.
Done(c) ==
    /\ pc' = [pc EXCEPT ![c] = "idle"] /\ op' = [op EXCEPT ![c] = "none"]
    /\ list' = [list EXCEPT ![c] = "team"]
    /\ task' = [task EXCEPT ![c] = 0] /\ top' = [top EXCEPT ![c] = 0]
    /\ body' = [body EXCEPT ![c] = Blank("absent")]
    /\ todo' = [todo EXCEPT ![c] = {}]

----------------------------------------------------------------------------
(* Calls begin.                                                            *)

Begin(c, o, l, i, from) ==
    /\ pc[c] = "idle" /\ c \notin gone
    /\ pc' = [pc EXCEPT ![c] = from] /\ op' = [op EXCEPT ![c] = o]
    /\ list' = [list EXCEPT ![c] = l] /\ task' = [task EXCEPT ![c] = i]
    /\ UNCHANGED <<fileVars, lockVars>>

\* tryClaimNextTask finds a task, and claimTask begins.
ClaimNext(c, i) ==
    /\ c \in Teammates /\ Available("session", i)
    /\ Begin(c, "claim", "session", i, "lock")
    /\ UNCHANGED <<body, todo, top, teamVars, historyVars>>

BeginOnTeam(c, o, i, from) ==
    /\ ops < MaxOps /\ ops' = ops + 1
    /\ Begin(c, o, "team", i, from)
    /\ raced' = (raced \/ \E d \in Callers :
                            {o, op[d]} \in {{"delete"}, {"delete", "create"},
                                            {"delete", "reset"}})
    /\ UNCHANGED <<work, gone, troubles, used, reused, blind, reopened, lost>>

\* TaskUpdateTool with the status `in_progress' or `completed'; it has read
\* the task before, and only writes what is different.
TakeOrComplete(c, o, i) ==
    /\ Readable("team", i)
    /\ file["team"][i].status
          # IF o = "take" THEN "in_progress" ELSE "completed"
    /\ BeginOnTeam(c, o, i, "updLock")
    /\ body' = [body EXCEPT ![c] = file["team"][i]]
    /\ UNCHANGED <<todo, top, unseen>>

\* The bound on ids is checked here, for the ids that are still to be given.
Create(c) ==
    /\ HighestOf(used) + Cardinality({d \in Callers : op[d] = "create"}) < MaxId
    /\ BeginOnTeam(c, "create", 0, "listLock")
    /\ UNCHANGED <<body, todo, top, unseen>>

Delete(c, i) ==
    /\ Readable("team", i)
    /\ BeginOnTeam(c, "delete", i, "readMark")
    /\ top' = [top EXCEPT ![c] = i]
    /\ UNCHANGED <<body, todo, unseen>>

\* Fault: the tasks are not looked at again when the timer fires.
AnyReadable == \E i \in Ids : Readable("team", i)

\* onHideTimerFired: there are tasks, and every task it can read is completed.
AllCompleted ==
    /\ \E i \in Ids : Readable("team", i)
    /\ \A i \in Ids : ~Unresolved("team", i)

\* The hide timer's reset.  TeamCreateTool resets a team's list without a look
\* too, before the team has a member or makes a call: with it, Init begins.
Reset(c) ==
    /\ c \notin Teammates /\ AllCompleted
    /\ BeginOnTeam(c, "reset", 0, "listLock")
    /\ unseen' = unseen \cup {i \in Ids : file["team"][i].status = "torn"}
                       \cup {task[d] : d \in {e \in opened : list[e] = "team"}}
    /\ UNCHANGED <<body, todo, top>>

\* unassignTeammateTasks, with the tasks of a teammate that left.
Unassign(c, d) ==
    /\ c \notin Teammates /\ d \in gone
    /\ LET theirs == {i \in Ids : /\ Unresolved("team", i)
                                  /\ file["team"][i].owner = d}
       IN  \E i \in theirs :
              /\ BeginOnTeam(c, "unassign", i, "updLock")
              /\ todo' = [todo EXCEPT ![c] = theirs \ {i}]
    /\ UNCHANGED <<body, top, unseen>>

Leaves(c) ==
    /\ c \in Teammates \ gone
    /\ gone' = gone \cup {c}
    /\ UNCHANGED <<fileVars, lockVars, callVars, work, ops, troubles,
                   historyVars>>

----------------------------------------------------------------------------
(* updateTask, and what follows it.                                        *)

\* The caller goes on with the next task of its list, or is done.
NextUpdate(c) ==
    IF todo[c] = {} THEN Done(c)
    ELSE /\ \E i \in todo[c] :
               /\ task' = [task EXCEPT ![c] = i]
               /\ todo' = [todo EXCEPT ![c] = @ \ {i}]
         /\ pc' = [pc EXCEPT ![c] = "updLock"]
         /\ UNCHANGED <<op, list, body, top>>

\* updateTask has returned; a claim becomes the teammate's work, and is then
\* marked as started.
Updated(c) ==
    IF op[c] = "claim"
    THEN /\ work' = [work EXCEPT ![c] = @ \cup {task[c]}]
         /\ op' = [op EXCEPT ![c] = "start"]
         /\ pc' = [pc EXCEPT ![c] = "updLock"]
         /\ UNCHANGED <<list, task, body, todo, top>>
    ELSE UNCHANGED work /\ NextUpdate(c)

\* A call has thrown; a claim that could not be marked as started is
\* forgotten by the teammate.
Threw(c) ==
    /\ work' = IF op[c] = "start" THEN [work EXCEPT ![c] = @ \ {task[c]}] ELSE work
    /\ Done(c)

Locked(c) == taskLock[list[c]][task[c]] # NoOne
LockTask(c, holder) ==
    taskLock' = [taskLock EXCEPT ![list[c]][task[c]] = holder]

\* What updateTaskUnsafe makes of the task it has read: for a claim, its
\* start, the two updates by a tool (an owner is set if there was none), the
\* unassigning, and the references to a deleted task.
Changed(c) ==
    CASE op[c] = "claim"    -> [Mine(c) EXCEPT !.owner = c]
      [] op[c] = "start"    -> [Mine(c) EXCEPT !.status = "in_progress"]
      [] op[c] = "take"     -> [Mine(c) EXCEPT !.status = "in_progress",
                                  !.owner = IF body[c].owner = NoOne THEN c ELSE @]
      [] op[c] = "complete" -> [Mine(c) EXCEPT !.status = "completed"]
      [] op[c] = "unassign" -> [Mine(c) EXCEPT !.status = "pending", !.owner = NoOne]
      [] OTHER              -> [Mine(c) EXCEPT !.deps = @ \ {top[c]}]

\* Fault: the lock is not waited for.
UpdateLocksAnyway(c) ==
    /\ Goto(c, "updLock", "updOpen")
    /\ Readable(list[c], task[c])
    /\ LockTask(c, c)
    /\ body' = [body EXCEPT ![c] = Changed(c)]
    /\ UNCHANGED <<fileVars, listLock, op, list, task, todo, top, teamVars,
                   historyVars>>

UpdateLocks(c) ==
    /\ Goto(c, "updLock", "updOpen")
    /\ Readable(list[c], task[c]) /\ ~Locked(c)
    /\ LockTask(c, c)
    /\ body' = [body EXCEPT ![c] = Changed(c)]
    /\ UNCHANGED <<fileVars, listLock, op, list, task, todo, top, teamVars,
                   historyVars>>

\* The task is not found, before or after it was locked.
UpdateFindsNone(c) ==
    /\ pc[c] = "updLock" /\ ~Readable(list[c], task[c])
    /\ Updated(c)
    /\ UNCHANGED <<fileVars, lockVars, gone, ops, troubles, historyVars>>

\* lockfile.lock throws if the file has gone since it was found, or if all
\* retries have found it locked.
LockThrows(c) ==
    /\ pc[c] \in {"lock", "updLock"} /\ Mine(c).status = "absent"
    /\ Threw(c)
    /\ UNCHANGED <<fileVars, lockVars, gone, ops, troubles, historyVars>>

LockTimesOut(c) ==
    /\ troubles < MaxTroubles /\ troubles' = troubles + 1
    /\ \/ pc[c] \in {"lock", "updLock"} /\ Locked(c)
       \/ pc[c] = "listLock" /\ listLock["team"] # NoOne
    /\ Threw(c)
    /\ UNCHANGED <<fileVars, lockVars, gone, ops, historyVars>>

\* The file is truncated, or created again if it has gone.
Open(c, i) ==
    /\ file' = [file EXCEPT ![list[c]][i] = Blank("torn")]
    /\ opened' = opened \cup {c}
    /\ unseen' = IF list[c] = "team" /\ \E d \in Callers : op[d] = "reset"
                 THEN unseen \cup {i} ELSE unseen

UpdateOpens(c) ==
    /\ Goto(c, "updOpen", "updFill")
    /\ Open(c, task[c])
    /\ reopened' = IF Mine(c).status = "completed" /\ body[c].status # "completed"
                   THEN reopened \cup {task[c]} ELSE reopened
    /\ UNCHANGED <<mark, lockVars, op, list, task, body, todo, top, teamVars,
                   used, raced, reused, blind, lost>>

\* A file that was unlinked is filled to no effect.
Fill(c) ==
    /\ file' = IF c \in opened THEN [file EXCEPT ![list[c]][task[c]] = body[c]]
                               ELSE file
    /\ opened' = opened \ {c}

UpdateFills(c) ==
    /\ pc[c] = "updFill"
    /\ Fill(c)
    /\ LockTask(c, NoOne) /\ Updated(c)
    /\ UNCHANGED <<mark, listLock, gone, ops, troubles, historyVars>>

----------------------------------------------------------------------------
(* claimTask.                                                              *)

\* Fault: the owner is not looked at under the lock.
ClaimableUnowned(c) == Unresolved(list[c], task[c])

Claimable(c) ==
    Unresolved(list[c], task[c]) /\ Mine(c).owner \in {NoOne, c}

ClaimLocks(c) ==
    /\ Goto(c, "lock", "blockers")
    /\ ~Locked(c) /\ Claimable(c)
    /\ LockTask(c, c)
    /\ UNCHANGED <<fileVars, listLock, op, list, task, body, todo, top,
                   teamVars, historyVars>>

\* Not found; or, under the lock, claimed already or resolved.
NotClaimable(c) ==
    /\ pc[c] = "lock" /\ ~Claimable(c)
    /\ ~Locked(c) \/ ~Readable(list[c], task[c])
    /\ Done(c)
    /\ UNCHANGED <<fileVars, lockVars, teamVars, historyVars>>

\* Fault: blockers are those that somebody works on.
BlockedByStarted(c) ==
    \E b \in Mine(c).deps : file[list[c]][b].status = "in_progress"

FindsBlockers(c) == Blocked(list[c], task[c])

\* listTasks, without the locks of the tasks it reads.
ReadsBlockers(c) ==
    /\ Goto(c, "blockers", "updOpen")
    /\ ~FindsBlockers(c)
    /\ body' = [body EXCEPT ![c] = Changed(c)]
    /\ blind' = IF \E b \in Mine(c).deps : file[list[c]][b].status = "torn"
                THEN blind \cup {task[c]} ELSE blind
    /\ UNCHANGED <<fileVars, lockVars, op, list, task, todo, top, teamVars,
                   used, raced, reused, reopened, unseen, lost>>

\* Fault: the lock is kept when the task is blocked.
IsBlockedKeepingLock(c) ==
    /\ pc[c] = "blockers" /\ FindsBlockers(c)
    /\ Done(c)
    /\ UNCHANGED <<fileVars, lockVars, teamVars, historyVars>>

IsBlocked(c) ==
    /\ pc[c] = "blockers" /\ FindsBlockers(c)
    /\ LockTask(c, NoOne) /\ Done(c)
    /\ UNCHANGED <<fileVars, listLock, teamVars, historyVars>>

----------------------------------------------------------------------------
(* createTask; deleteTask, which takes no lock; and resetTaskList.         *)

LockList(c) ==
    /\ listLock["team"] = NoOne
    /\ Goto(c, "listLock", IF op[c] = "create" THEN "both" ELSE "readMark")
    /\ listLock' = [listLock EXCEPT !["team"] = c]
    /\ top' = [top EXCEPT ![c] = IF op[c] = "create" THEN 0
                                 ELSE HighestOf(Listed("team"))]
    /\ UNCHANGED <<fileVars, taskLock, op, list, task, body, todo, teamVars,
                   historyVars>>

Higher(c, ids) == HighestOf(ids \cup {top[c]})

\* findHighestTaskId reads the directory and the mark in either order.
ReadsHighest(c) ==
    /\ \/ /\ \/ Goto(c, "both", "markLeft")
             \/ Goto(c, "dirLeft", "newOpen")
          /\ top' = [top EXCEPT ![c] = Higher(c, Listed("team"))]
       \/ /\ \/ Goto(c, "both", "dirLeft")
             \/ Goto(c, "markLeft", "newOpen")
          /\ top' = [top EXCEPT ![c] = Higher(c, {mark["team"]})]
    /\ UNCHANGED <<fileVars, lockVars, op, list, task, body, todo, teamVars,
                   historyVars>>

NewOpens(c) ==
    /\ Goto(c, "newOpen", "newFill")
    /\ Open(c, top[c] + 1)
    /\ task' = [task EXCEPT ![c] = top[c] + 1]
    /\ body' = [body EXCEPT ![c] = Blank("pending")]
    /\ reused' = (reused \/ top[c] + 1 \in used)
    /\ used' = used \cup {top[c] + 1}
    /\ UNCHANGED <<mark, lockVars, op, list, todo, top, teamVars, raced, blind,
                   reopened, lost>>

UnlockList == listLock' = [listLock EXCEPT !["team"] = NoOne]

NewFills(c) ==
    /\ pc[c] = "newFill"
    /\ Fill(c)
    /\ UnlockList /\ Done(c)
    /\ UNCHANGED <<mark, taskLock, teamVars, historyVars>>

\* With the mark as it must be: unlink the task, or all of them.
Marked(c) ==
    IF op[c] = "delete"
    THEN pc' = [pc EXCEPT ![c] = "unlink"] /\ UNCHANGED todo
    ELSE pc' = [pc EXCEPT ![c] = "clear"]
         /\ todo' = [todo EXCEPT ![c] = Listed("team")]

\* Fault: the mark is only written by resets.
MarkTooLowInReset(c) == op[c] = "reset" /\ top[c] > mark["team"]

MarkTooLow(c) == top[c] > mark["team"]

ReadMark(c) ==
    /\ pc[c] = "readMark"
    /\ IF MarkTooLow(c)
       THEN pc' = [pc EXCEPT ![c] = "markOpen"] /\ UNCHANGED todo
       ELSE Marked(c)
    /\ UNCHANGED <<fileVars, lockVars, op, list, task, body, top, teamVars,
                   historyVars>>

MarkOpens(c) ==
    /\ Goto(c, "markOpen", "markFill")
    /\ mark' = [mark EXCEPT !["team"] = 0]
    /\ UNCHANGED <<file, opened, lockVars, op, list, task, body, todo, top,
                   teamVars, historyVars>>

MarkFills(c) ==
    /\ pc[c] = "markFill"
    /\ mark' = [mark EXCEPT !["team"] = top[c]]
    /\ Marked(c)
    /\ UNCHANGED <<file, opened, lockVars, op, list, task, body, top, teamVars,
                   historyVars>>

Unlink(i) ==
    /\ file' = [file EXCEPT !["team"][i] = Blank("absent")]
    /\ opened' = {c \in opened : <<list[c], task[c]>> # <<"team", i>>}

\* Then the references of other tasks.
DeleteUnlinks(c) ==
    /\ pc[c] = "unlink" /\ Mine(c).status # "absent"
    /\ Unlink(task[c])
    /\ LET referring == {i \in Ids \ {task[c]} :
                            /\ Readable("team", i)
                            /\ task[c] \in file["team"][i].deps}
       IN  IF referring = {} THEN Done(c)
           ELSE /\ \E i \in referring :
                      /\ task' = [task EXCEPT ![c] = i]
                      /\ todo' = [todo EXCEPT ![c] = referring \ {i}]
                /\ pc' = [pc EXCEPT ![c] = "updLock"]
                /\ UNCHANGED <<op, list, body, top>>
    /\ UNCHANGED <<mark, lockVars, teamVars, historyVars>>

DeleteFindsNone(c) ==
    /\ pc[c] = "unlink" /\ Mine(c).status = "absent"
    /\ Done(c)
    /\ UNCHANGED <<fileVars, lockVars, teamVars, historyVars>>

ResetUnlinks(c) ==
    /\ pc[c] = "clear"
    /\ \E i \in todo[c] :
          /\ todo' = [todo EXCEPT ![c] = @ \ {i}]
          /\ Unlink(i)
          /\ lost' = IF file["team"][i].status \in {"absent", "completed"}
                     THEN lost ELSE lost \cup {i}
    /\ UNCHANGED <<mark, lockVars, pc, op, list, task, body, top, teamVars,
                   used, raced, reused, blind, reopened, unseen>>

ResetEnds(c) ==
    /\ pc[c] = "clear" /\ todo[c] = {}
    /\ UnlockList /\ Done(c)
    /\ UNCHANGED <<fileVars, taskLock, teamVars, historyVars>>

----------------------------------------------------------------------------
UpdateStep(c) ==
    \/ UpdateLocks(c) \/ UpdateFindsNone(c) \/ LockThrows(c)
    \/ UpdateOpens(c) \/ UpdateFills(c)

ClaimStep(c) ==
    \/ ClaimLocks(c) \/ NotClaimable(c) \/ ReadsBlockers(c) \/ IsBlocked(c)

ListStep(c) ==
    \/ LockList(c) \/ ReadsHighest(c) \/ NewOpens(c) \/ NewFills(c)
    \/ ReadMark(c) \/ MarkOpens(c) \/ MarkFills(c)
    \/ DeleteUnlinks(c) \/ DeleteFindsNone(c) \/ ResetUnlinks(c) \/ ResetEnds(c)

CallStep(c) == UpdateStep(c) \/ ClaimStep(c) \/ ListStep(c)

Calls(c) ==
    \/ \E i \in Ids : ClaimNext(c, i) \/ Delete(c, i)
    \/ \E i \in Ids, o \in {"take", "complete"} : TakeOrComplete(c, o, i)
    \/ Create(c) \/ Reset(c)
    \/ \E d \in Teammates : Unassign(c, d)

Next ==
    \E c \in Callers :
        Calls(c) \/ CallStep(c) \/ LockTimesOut(c) \/ Leaves(c)

Spec == Init /\ [][Next]_vars

(* File calls return.  Nothing is assumed of the time-outs of locks.        *)
FairSpec == Spec /\ \A c \in Callers : WF_vars(CallStep(c))

----------------------------------------------------------------------------
(* Properties.                                                             *)

(* claimTask: no two teammates are told to work on the same task.          *)
ClaimedOnce ==
    \A c, d \in Callers : c # d => work[c] \cap work[d] = {}

(* "Update high water mark before deleting to prevent ID reuse" and        *)
(* "prevent ID reuse after reset" (tasks.ts:143, :400): an id is given     *)
(* once, across deletes and resets.  deleteTask takes no lock: a delete    *)
(* during a create, a reset or another delete is the one exception.  Two   *)
(* comments say the opposite of resets, that numbering starts again at 1   *)
(* (tasks.ts:144, TeamCreateTool.ts:183).  The code goes on above the      *)
(* mark, and numbering starts at 1 only in a list that never had a task.   *)
IdsFresh == reused => raced

(* A claimed task has no unresolved blocker, but for one that was being    *)
(* written as the claim looked, which listTasks takes for none.            *)
BlockersRespected ==
    \A c \in Callers : \A i \in work[c] : Blocked("session", i) => i \in blind

(* A reset, which looks before it locks, removes no unfinished task but    *)
(* those that were written meanwhile, or were being written as it looked.  *)
ResetSparesWork == lost \subseteq unseen

(* Completed tasks stay so under updates of their other fields, since an   *)
(* update reads the task again under its lock.  Only an update of the      *)
(* status takes a completion back: the unassigning of a task that was      *)
(* listed before, or a tool's.                                             *)
CompletedStays ==
    [][\A i \in reopened' \ reopened :
          \E c \in Callers : op[c] \in {"unassign", "take"} /\ task[c] = i]_vars

(* The calls of the team come to their ends, without help by the time-outs *)
(* of locks: a lock is given back on every way out, and nobody waits for   *)
(* one that it holds.                                                      *)
CallsEnd == []<>(\A c \in Callers : pc[c] = "idle")
=============================================================================
