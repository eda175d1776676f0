------------------------------ MODULE TaskFile ------------------------------
(***************************************************************************)
(* scheduled_tasks.json of a project whose worker runs, and everybody who  *)
(* rewrites it (utils/cronTasks.ts): the worker's flushes of fired         *)
(* one-shots (OneShotCleanup), the scheduler's own write after each fire   *)
(* (utils/cronScheduler.ts), and another session's CronCreate or           *)
(* CronDelete.  Each is a read-modify-write; nothing locks the file, and   *)
(* writeFile truncates before it fills.                                    *)
(*                                                                         *)
(* Of the drains only the end matters here, which stop() waits for.  Marks *)
(* of recurring tasks keep the set of tasks, so they write what they read. *)
(***************************************************************************)
EXTENDS OneShotCleanup

CONSTANT Late       \* the tasks another session adds while the worker runs

ASSUME LateAssumption == Late \subseteq Tasks

VARIABLES
    file,       \* the tasks in scheduled_tasks.json
    write,      \* each writer's position, its ids, what it will write
    fired,      \* history: the one-shots handed to onFireTask
    listed,     \* history: tasks somebody has put in the file
    dropped,    \* history: tasks removed for another reason than a fire
    disturbed   \* history: a way out of CleanupExact has been taken

historyVars == <<fired, listed, dropped, disturbed>>
fileVars    == <<file, write, historyVars>>
taskVars    == <<fires, cleanupVars, stopVars, fileVars>>

\* The writers: flushes, the scheduler's write after each fire, and one write
\* by another session (a bound).
Chore(n)  == StopFlush + n
Chores    == {Chore(n) : n \in 1..MaxFires}
Outsider  == 0
Writers   == 0..(StopFlush + MaxFires)

WritePcs == {"none", "reading", "writing", "truncated"}
WriteOps == {"flush", "remove", "mark", "add"}
Idle     == [pc |-> "none", op |-> "flush", ids |-> {}, rest |-> {}]
Busy(w)  == write[w].pc # "none"

WriteTypeOK ==
    /\ file \subseteq Tasks
    /\ write \in [Writers -> [pc : WritePcs, op : WriteOps,
                              ids : SUBSET Tasks, rest : SUBSET Tasks]]
    /\ fired \subseteq OneShots /\ listed \subseteq Tasks /\ dropped \subseteq Tasks
    /\ disturbed \in BOOLEAN

FileTypeOK == ControlTypeOK /\ WriteTypeOK

FileInit ==
    /\ CleanupInit
    /\ file = Tasks \ Late /\ listed = Tasks \ Late
    /\ write = [w \in Writers |-> Idle]
    /\ fired = {} /\ dropped = {} /\ disturbed = FALSE

----------------------------------------------------------------------------
(* A read-modify-write, step by step.                                      *)

\* What flushCompletedOneShots and removeCronTasks, markCronTasksFired and
\* addCronTask make of the tasks they read.
Rewritten(op, ids, content) ==
    CASE op \in {"flush", "remove"} -> content \ ids
      [] op = "mark"                -> content
      [] op = "add"                 -> content \cup ids

\* Fault: removeCronTasks and markCronTasksFired write in any case.
NeverNothingToDo(op, ids, content) == FALSE

\* removeCronTasks and markCronTasksFired return when they find none of the ids.
NothingToDo(op, ids, content) ==
    op \in {"remove", "mark"} /\ content \cap ids = {}

\* Up to readCronTasks.  The scheduler's own writes may overlap each other.
Begin(w, op, ids) ==
    /\ write' = [write EXCEPT ![w] = [pc |-> "reading", op |-> op,
                                      ids |-> ids, rest |-> {}]]
    /\ disturbed' = (disturbed
          \/ \E v \in Writers : Busy(v) /\ ~({v, w} \subseteq Chores))

\* readCronTasks answered `content`.
Modify(w, content) ==
    LET op  == write[w].op
        ids == write[w].ids
    IN  write' = [write EXCEPT ![w] =
            IF NothingToDo(op, ids, content) THEN Idle
            ELSE [pc |-> "writing", op |-> op, ids |-> ids,
                  rest |-> Rewritten(op, ids, content)]]

\* readCronTasks answers, with [] when the file cannot be read.
ReadTasks(w) ==
    /\ write[w].pc = "reading"
    /\ \E content \in {file, {}} :
          /\ Modify(w, content)
          /\ disturbed' = (disturbed
                \/ (content # file /\ write[w].op \in {"flush", "add"}))
    /\ UNCHANGED <<fires, cleanupVars, stopVars, file, fired, listed, dropped>>

Truncate(w) ==
    /\ write[w].pc = "writing"
    /\ write' = [write EXCEPT ![w].pc = "truncated"]
    /\ file' = {}
    /\ UNCHANGED <<fires, cleanupVars, stopVars, historyVars>>

\* The write is over; a flush's promise settles with it.
Settle(w, to) ==
    /\ write' = [write EXCEPT ![w] = Idle]
    /\ IF w \in Flushes THEN FlushSettles(w, to)
                        ELSE UNCHANGED <<fires, cleanupVars, stopVars>>

\* Filling what another write has filled since the truncation may leave the
\* tail of that one behind: such a file does not parse and reads as empty.
Fill(w) ==
    /\ write[w].pc = "truncated"
    /\ Settle(w, "done")
    /\ file' \in {write[w].rest} \cup IF file = {} THEN {} ELSE {{}}
    /\ disturbed' = (disturbed \/ file # {})
    /\ listed' = IF write[w].op = "add" THEN listed \cup write[w].ids ELSE listed
    /\ UNCHANGED <<fired, dropped>>

\* mkdir or writeFile rejects, before or after the truncation.
WriteFails(w) ==
    /\ write[w].pc \in {"writing", "truncated"}
    /\ Settle(w, "failed")
    /\ disturbed' = (disturbed \/ write[w].pc = "truncated" \/ w \in Flushes)
    /\ UNCHANGED <<file, fired, listed, dropped>>

----------------------------------------------------------------------------
(* Who begins one.                                                         *)

\* The scheduler's write after fire n, of task t: a one-shot and an aged-out
\* recurring task are removed, another recurring task is marked.  The code
\* marks a tick's recurring tasks in one write, the model in one each.
BeginChore(n, t) ==
    \/ /\ Begin(Chore(n), "remove", {t})
       /\ dropped' = IF t \in OneShots THEN dropped ELSE dropped \cup {t}
    \/ /\ t \notin OneShots
       /\ Begin(Chore(n), "mark", {t})
       /\ UNCHANGED dropped

\* check() fires a task: the worker's onFireTask, then the scheduler's write.
\* The task may have left the file since the scheduler loaded it.
Fire(t) ==
    /\ fires < MaxFires
    /\ ~stopped
    /\ t \in listed
    /\ fires' = fires + 1
    /\ NoteOneShot(t)
    /\ fired' = fired \cup ({t} \cap OneShots)
    /\ BeginChore(fires + 1, t)
    /\ UNCHANGED <<cleanupRun, flushes, flush, stopVars, file, listed>>

\* The timer's callback, with its flush if there is something to flush.
TimerFlush ==
    /\ CleanupTimerFires
    /\ IF completedOneShots = {}
       THEN UNCHANGED <<write, disturbed>>
       ELSE Begin(flushes + 1, "flush", completedOneShots)
    /\ UNCHANGED <<file, fired, listed, dropped>>

\* Another session adds a task (CronCreate) or deletes one (CronDelete; a bound:
\* only one that was added so).  The scheduler's removal of missed tasks at its
\* start is like such a delete.
OutsideWrite ==
    /\ ~Busy(Outsider)
    /\ \E t \in Tasks :
          \/ /\ t \notin listed
             /\ Begin(Outsider, "add", {t})
             /\ UNCHANGED dropped
          \/ /\ t \in (Late \cap listed) \ dropped
             /\ Begin(Outsider, "remove", {t})
             /\ dropped' = dropped \cup {t}
    /\ UNCHANGED <<fires, cleanupVars, stopVars, file, fired, listed>>

\* stop(): its call, the end of the run, and what follows with its own flush.
Stopping ==
    /\ StopCalls(0) \/ StopAwaitsCleanup \/ StopFlushed
    /\ UNCHANGED fileVars

StopFlushes ==
    /\ StopAwaitedCleanup
    /\ IF stopPc' = "flushing"
       THEN Begin(StopFlush, "flush", completedOneShots)
       ELSE UNCHANGED <<write, disturbed>>
    /\ UNCHANGED <<file, fired, listed, dropped>>

\* The worker has stopped and nobody writes.
Quiet ==
    /\ stopPc \in {"logging", "failed"}
    /\ \A w \in Writers : ~Busy(w)
    /\ UNCHANGED taskVars

FileNext ==
    \/ \E t \in Tasks : Fire(t)
    \/ TimerFlush \/ OutsideWrite
    \/ \E w \in Writers : ReadTasks(w) \/ Truncate(w) \/ Fill(w) \/ WriteFails(w)
    \/ Stopping \/ StopFlushes
    \/ Quiet

FileSpec == FileInit /\ [][FileNext]_taskVars

----------------------------------------------------------------------------
(* Once no write is in progress, the task file has lost no task but fired  *)
(* one-shots and deleted tasks, and still has only those fired one-shots   *)
(* that wait in completedOneShots for the next flush - although the        *)
(* scheduler's own removals of one tick restore each other's tasks, find   *)
(* the file truncated, or fail before they truncate it.  `disturbed` names *)
(* the ways out, each of which can lose tasks or leave a fired one-shot    *)
(* for good: a flush or another session's write overlapped a write; one of *)
(* them took the file for empty by a read error; a flush failed; any write *)
(* failed after truncating; two writes filled the file over each other.    *)
CleanupExact ==
    (/\ ~disturbed
     /\ \A w \in Writers : ~Busy(w))
        => /\ listed \ (fired \cup dropped) \subseteq file
           /\ file \cap fired \subseteq completedOneShots
=============================================================================
