-------------------------- MODULE TaskStoreProofs --------------------------
(***************************************************************************)
(* Proofs about TaskStore, for any callers, any lists at the start, any    *)
(* number of ids, operations and time-outs: that no two teammates work on  *)
(* the same task, that claims respect blockers, that a reset removes only  *)
(* what it has seen finished, that completions are not overwritten by      *)
(* updates of other fields, that ids are given once, and that no call      *)
(* waits for one that waits.                                               *)
(*                                                                         *)
(* The first four need the invariant IInv, whose types are those that the  *)
(* arguments use.  The fifth needs IdInv as well, and that the highest id  *)
(* of a directory exists: the least number principle, for which the theorem*)
(* of minimal elements of a well-founded relation stands.  The last needs  *)
(* that locks are held by calls at work under them, and given back.        *)
(***************************************************************************)
EXTENDS TaskStore, TLAPS, FiniteSetTheorems, WellFoundedInduction

FilesTypeOK ==
    /\ file \in [Lists -> [Ids -> File]]
    /\ taskLock \in [Lists -> [Ids -> Callers \cup {NoOne}]]
    /\ opened \subseteq Callers

CallsTypeOK ==
    /\ pc \in [Callers -> Pcs] /\ op \in [Callers -> Ops]
    /\ list \in [Callers -> Lists] /\ task = [c \in Callers |-> task[c]]
    /\ body \in [Callers -> File] /\ todo \in [Callers -> SUBSET Ids]
    /\ work \in [Callers -> SUBSET Ids]

StoreTypeOK == FilesTypeOK /\ CallsTypeOK

\* The positions of the operations.
UpdateOps == {"start", "take", "complete", "unassign", "delete"}
PcsOf(o) ==
    CASE o = "none"   -> {"idle"}
      [] o = "claim"  -> {"lock", "blockers", "updOpen", "updFill"}
      [] o = "create" -> {"listLock", "both", "dirLeft", "markLeft", "newOpen", "newFill"}
      [] o = "delete" -> {"readMark", "markOpen", "markFill", "unlink", "updLock",
                          "updOpen", "updFill"}
      [] o = "reset"  -> {"listLock", "readMark", "markOpen", "markFill", "clear"}
      [] OTHER        -> {"updLock", "updOpen", "updFill"}

Position(c) ==
    /\ pc[c] \in PcsOf(op[c])
    /\ list[c] = IF op[c] \in {"claim", "start"} THEN "session" ELSE "team"
    /\ pc[c] \in {"lock", "blockers", "updLock", "updOpen", "updFill"}
          => task[c] \in Ids
    /\ op[c] \notin {"unassign", "delete", "reset"} => todo[c] = {}
    /\ pc[c] = "newFill" => body[c].status = "pending"
    /\ c \in opened => pc[c] \in {"updFill", "newFill"}

Positions == \A c \in Callers : Position(c)

\* Who reads, changes and writes a task holds its lock throughout.
LocksHeld ==
    \A c \in Callers :
        pc[c] \in {"blockers", "updOpen", "updFill"} => taskLock[list[c]][task[c]] = c

\* A task of the session's list that a claim or its start is about is as it
\* was found under the lock.
SessionAt(c) ==
    /\ pc[c] \in {"blockers", "updOpen"} =>
          /\ Mine(c).status \in {"pending", "in_progress"}
          /\ op[c] = "claim" => Mine(c).owner \in {NoOne, c}
    /\ pc[c] = "updOpen" =>
          /\ body[c].deps = Mine(c).deps
          /\ op[c] = "start" => body[c].owner = Mine(c).owner
    /\ pc[c] \in {"updOpen", "updFill"} =>
          /\ body[c].status \in {"pending", "in_progress"}
          /\ op[c] = "claim" => body[c].owner = c
    /\ pc[c] = "updFill" => c \in opened /\ Mine(c) = Blank("torn")
    /\ pc[c] = "updLock" => Mine(c).status # "completed"

SessionKept == \A c \in Callers : list[c] = "session" => SessionAt(c)

\* A task that a teammate works on names it as the owner, also while the file
\* is being written.
FillsSession(d, i) == list[d] = "session" /\ pc[d] = "updFill" /\ task[d] = i

OwnersKnown ==
    \A c \in Callers : \A i \in work[c] :
        \/ file["session"][i].owner = c
        \/ \E d \in Callers : FillsSession(d, i) /\ body[d].owner = c

\* What blocks a task in work, as its file says or is about to say, has been
\* resolved, unless the claim could not see it.
Settled(deps) ==
    \A b \in deps : file["session"][b].status \in {"absent", "completed"}
InWork(c, i) ==
    \/ i \in work[c]
    \/ op[c] = "claim" /\ pc[c] \in {"updOpen", "updFill"} /\ task[c] = i

BlockersSettled ==
    \A c \in Callers : \A i \in Ids \ blind : InWork(c, i) =>
        /\ Settled(file["session"][i].deps)
        /\ \A d \in Callers : FillsSession(d, i) => Settled(body[d].deps)

\* While a reset is under way, what is or will be unfinished is known to have
\* been out of its sight.
ResetKnows ==
    /\ lost \subseteq unseen
    /\ (\E c \in Callers : op[c] = "reset") =>
          /\ \A i \in Ids \ unseen : file["team"][i].status \in {"absent", "completed"}
          /\ \A c \in opened : list[c] = "team" => task[c] \in unseen

\* An update of other fields repeats a completion.
CompletionsRepeated ==
    \A c \in Callers :
        pc[c] = "updOpen" /\ list[c] = "team" /\ Mine(c).status = "completed"
           => body[c].status = "completed" \/ op[c] \in {"unassign", "take"}

IInv == StoreTypeOK /\ Positions /\ LocksHeld /\ SessionKept /\ OwnersKnown
                    /\ BlockersSettled /\ ResetKnows /\ CompletionsRepeated

USE CallersAssumption, StartsAssumption

\* The steps of one caller.
StepOf(c) == Calls(c) \/ CallStep(c) \/ LockTimesOut(c) \/ Leaves(c)

----------------------------------------------------------------------------
(* Types.                                                                  *)

LEMMA BlankIsFile == \A status \in Statuses : Blank(status) \in File
BY DEF Blank, File

\* What a write of one task's file does.
LEMMA FileWritten ==
    ASSUME FilesTypeOK, NEW l \in Lists, NEW i, NEW v \in File,
           file' = [file EXCEPT ![l][i] = v]
    PROVE  /\ file' \in [Lists -> [Ids -> File]]
           /\ \A m \in Lists, j \in Ids :
                 file'[m][j] = IF m = l /\ j = i THEN v ELSE file[m][j]
BY DEF FilesTypeOK

LEMMA LockWritten ==
    ASSUME FilesTypeOK, NEW l \in Lists, NEW i, NEW v \in Callers \cup {NoOne},
           taskLock' = [taskLock EXCEPT ![l][i] = v]
    PROVE  /\ taskLock' \in [Lists -> [Ids -> Callers \cup {NoOne}]]
           /\ \A m \in Lists, j \in Ids :
                 taskLock'[m][j] = IF m = l /\ j = i THEN v ELSE taskLock[m][j]
BY DEF FilesTypeOK

LEMMA ChangedIsFile ==
    ASSUME StoreTypeOK, NEW c \in Callers, task[c] \in Ids
    PROVE  Changed(c) \in File
<1>1. Mine(c) \in File
  BY DEF StoreTypeOK, FilesTypeOK, CallsTypeOK, Mine
<1>2. /\ [Mine(c) EXCEPT !.owner = c] \in File
      /\ [Mine(c) EXCEPT !.status = "in_progress"] \in File
      /\ [Mine(c) EXCEPT !.status = "in_progress",
            !.owner = IF body[c].owner = NoOne THEN c ELSE @] \in File
      /\ [Mine(c) EXCEPT !.status = "completed"] \in File
      /\ [Mine(c) EXCEPT !.status = "pending", !.owner = NoOne] \in File
      /\ [Mine(c) EXCEPT !.deps = @ \ {top[c]}] \in File
  BY <1>1 DEF File, Statuses
<1> QED
  BY <1>2 DEF Changed

LEMMA InitInv == Init => IInv
<1> SUFFICES ASSUME Init PROVE IInv
  OBVIOUS
<1> USE DEF Init
<1>1. Blank("absent") \in File
  BY BlankIsFile DEF Statuses
<1>2. StoreTypeOK
  BY <1>1 DEF StoreTypeOK, FilesTypeOK, CallsTypeOK, Pcs, Ops, Lists
<1>3. Positions
  BY DEF Positions, Position, PcsOf
<1>4. LocksHeld /\ SessionKept /\ OwnersKnown
  BY DEF LocksHeld, SessionKept, OwnersKnown
<1>5. BlockersSettled /\ ResetKnows /\ CompletionsRepeated
  BY DEF BlockersSettled, InWork, ResetKnows, CompletionsRepeated
<1> QED
  BY <1>2, <1>3, <1>4, <1>5 DEF IInv

\* The end of a call, or the next update of it.
LEMMA DoneCall ==
    ASSUME StoreTypeOK, NEW c \in Callers, Done(c), work' \in [Callers -> SUBSET Ids]
    PROVE  /\ CallsTypeOK'
           /\ pc'[c] = "idle" /\ op'[c] = "none" /\ list'[c] = "team" /\ todo'[c] = {}
           /\ \A d \in Callers \ {c} :
                 /\ pc'[d] = pc[d] /\ op'[d] = op[d] /\ list'[d] = list[d]
                 /\ task'[d] = task[d] /\ body'[d] = body[d] /\ todo'[d] = todo[d]
<1>1. Blank("absent") \in File
  BY BlankIsFile DEF Statuses
<1> QED
  BY <1>1 DEF StoreTypeOK, CallsTypeOK, Done, Pcs, Ops, Lists

\* How an update goes on: with the start of what was claimed, with the next
\* task, or not.
LEMMA UpdatedCall ==
    ASSUME StoreTypeOK, NEW c \in Callers, task[c] \in Ids, Updated(c)
    PROVE  /\ CallsTypeOK'
           /\ \/ /\ op[c] = "claim" /\ op'[c] = "start" /\ pc'[c] = "updLock"
                 /\ UNCHANGED <<list, task, body, todo>>
                 /\ work' = [work EXCEPT ![c] = @ \cup {task[c]}]
              \/ /\ op[c] # "claim" /\ op'[c] = op[c] /\ pc'[c] = "updLock"
                 /\ UNCHANGED <<list, body, work>> /\ task'[c] \in Ids /\ todo[c] # {}
              \/ /\ op[c] # "claim" /\ pc'[c] = "idle" /\ op'[c] = "none"
                 /\ list'[c] = "team" /\ work' = work /\ todo'[c] = {}
           /\ \A d \in Callers \ {c} :
                 /\ pc'[d] = pc[d] /\ op'[d] = op[d] /\ list'[d] = list[d]
                 /\ task'[d] = task[d] /\ body'[d] = body[d] /\ work'[d] = work[d]
                 /\ todo'[d] = todo[d]
<1>1. CASE op[c] = "claim"
  <2>1. /\ work' = [work EXCEPT ![c] = @ \cup {task[c]}]
        /\ op' = [op EXCEPT ![c] = "start"] /\ pc' = [pc EXCEPT ![c] = "updLock"]
        /\ UNCHANGED <<list, task, body, todo>>
    BY <1>1 DEF Updated
  <2>2. work[c] \cup {task[c]} \in SUBSET Ids /\ "start" \in Ops /\ "updLock" \in Pcs
    BY DEF StoreTypeOK, CallsTypeOK, Pcs, Ops
  <2>3. CallsTypeOK'
    BY <2>1, <2>2 DEF StoreTypeOK, CallsTypeOK
  <2> QED
    BY <1>1, <2>1, <2>3 DEF StoreTypeOK, CallsTypeOK
<1>2. CASE op[c] # "claim" /\ todo[c] = {}
  BY <1>2, DoneCall DEF StoreTypeOK, CallsTypeOK, Updated, NextUpdate
<1>3. CASE op[c] # "claim" /\ todo[c] # {}
  <2>1. PICK i \in todo[c] : /\ task' = [task EXCEPT ![c] = i]
                             /\ todo' = [todo EXCEPT ![c] = @ \ {i}]
    BY <1>3 DEF Updated, NextUpdate
  <2>2. pc' = [pc EXCEPT ![c] = "updLock"] /\ UNCHANGED <<op, list, body, work>>
    BY <1>3 DEF Updated, NextUpdate
  <2>3. i \in Ids /\ todo[c] \ {i} \in SUBSET Ids /\ "updLock" \in Pcs
    BY DEF StoreTypeOK, CallsTypeOK, Pcs
  <2>4. CallsTypeOK'
    BY <2>1, <2>2, <2>3 DEF StoreTypeOK, CallsTypeOK
  <2> QED
    BY <1>3, <2>1, <2>2, <2>3, <2>4 DEF StoreTypeOK, CallsTypeOK
<1> QED
  BY <1>1, <1>2, <1>3

LEMMA ThrewCall ==
    ASSUME StoreTypeOK, NEW c \in Callers, Threw(c)
    PROVE  /\ CallsTypeOK'
           /\ pc'[c] = "idle" /\ op'[c] = "none" /\ list'[c] = "team" /\ todo'[c] = {}
           /\ \A d \in Callers \ {c} :
                 /\ pc'[d] = pc[d] /\ op'[d] = op[d] /\ list'[d] = list[d]
                 /\ task'[d] = task[d] /\ body'[d] = body[d] /\ todo'[d] = todo[d]
           /\ \A d \in Callers : work'[d] \subseteq work[d]
<1>1. /\ work' \in [Callers -> SUBSET Ids]
      /\ \A d \in Callers : work'[d] \subseteq work[d]
  BY DEF StoreTypeOK, CallsTypeOK, Threw
<1> QED
  BY <1>1, DoneCall DEF Threw

----------------------------------------------------------------------------
(* Each step leaves the other callers alone, and its own at a position of  *)
(* its operation.                                                          *)

OthersKept(c) ==
    \A d \in Callers \ {c} :
        /\ pc'[d] = pc[d] /\ op'[d] = op[d] /\ list'[d] = list[d]
        /\ task'[d] = task[d] /\ body'[d] = body[d] /\ work'[d] = work[d]
        /\ todo'[d] = todo[d] /\ (d \in opened' => d \in opened)

GoodStep(c) == StoreTypeOK' /\ Position(c)' /\ OthersKept(c)

LEMMA BeginGood ==
    ASSUME StoreTypeOK, Positions, NEW c \in Callers,
           NEW o \in Ops, NEW l \in Lists, NEW i, NEW from \in PcsOf(o),
           from \in {"lock", "updLock"} => i \in Ids,
           from \in Pcs \ {"blockers", "updOpen", "updFill", "newFill"},
           l = IF o \in {"claim", "start"} THEN "session" ELSE "team",
           Begin(c, o, l, i, from), work' = work,
           body' \in [Callers -> File], todo' \in [Callers -> SUBSET Ids],
           o # "unassign" => todo' = todo,
           \A d \in Callers \ {c} : body'[d] = body[d] /\ todo'[d] = todo[d]
    PROVE  GoodStep(c)
<1> USE DEF StoreTypeOK, CallsTypeOK, FilesTypeOK, Begin, fileVars, lockVars
<1>1. StoreTypeOK'
  OBVIOUS
<1>2. OthersKept(c)
  BY DEF OthersKept
<1>3. c \notin opened /\ todo[c] = {}
  BY DEF Positions, Position, PcsOf
<1>4. Position(c)'
  BY <1>3 DEF Position
<1> QED
  BY <1>1, <1>2, <1>4 DEF GoodStep

LEMMA CallsGood ==
    ASSUME StoreTypeOK, Positions, NEW c \in Callers, Calls(c)
    PROVE  GoodStep(c)
<1> USE DEF BeginOnTeam, PcsOf, Lists, Ops, Pcs
<1>1. ASSUME NEW i \in Ids, ClaimNext(c, i) PROVE GoodStep(c)
  BY <1>1, BeginGood DEF ClaimNext, teamVars, StoreTypeOK, CallsTypeOK
<1>2. ASSUME NEW i \in Ids, Delete(c, i) PROVE GoodStep(c)
  BY <1>2, BeginGood DEF Delete, StoreTypeOK, CallsTypeOK
<1>3. ASSUME NEW i \in Ids, NEW o \in {"take", "complete"}, TakeOrComplete(c, o, i)
      PROVE  GoodStep(c)
  <2>1. file["team"][i] \in File
    BY DEF StoreTypeOK, FilesTypeOK
  <2>2. /\ body' = [body EXCEPT ![c] = file["team"][i]] /\ todo' = todo /\ work' = work
        /\ Begin(c, o, "team", i, "updLock")
    BY <1>3 DEF TakeOrComplete
  <2>3. body' \in [Callers -> File] /\ \A d \in Callers \ {c} : body'[d] = body[d]
    BY <2>1, <2>2 DEF StoreTypeOK, CallsTypeOK
  <2> QED
    BY <2>2, <2>3, BeginGood DEF StoreTypeOK, CallsTypeOK
<1>4. CASE Create(c)
  BY <1>4, BeginGood DEF Create, StoreTypeOK, CallsTypeOK
<1>5. CASE Reset(c)
  BY <1>5, BeginGood DEF Reset, StoreTypeOK, CallsTypeOK
<1>6. ASSUME NEW d \in Teammates, Unassign(c, d) PROVE GoodStep(c)
  <2>1. PICK i \in Ids, rest \in SUBSET Ids :
            /\ Begin(c, "unassign", "team", i, "updLock")
            /\ todo' = [todo EXCEPT ![c] = rest] /\ work' = work /\ body' = body
    <3> DEFINE theirs == {i \in Ids : /\ Unresolved("team", i)
                                      /\ file["team"][i].owner = d}
    <3>1. PICK i \in theirs :
              /\ BeginOnTeam(c, "unassign", i, "updLock")
              /\ todo' = [todo EXCEPT ![c] = theirs \ {i}]
      BY <1>6 DEF Unassign
    <3>2. i \in Ids /\ theirs \ {i} \in SUBSET Ids /\ body' = body
      BY <1>6 DEF Unassign
    <3> HIDE DEF theirs
    <3> QED
      BY <3>1, <3>2
  <2>2. todo' \in [Callers -> SUBSET Ids]
    BY <2>1 DEF StoreTypeOK, CallsTypeOK
  <2> QED
    BY <2>1, <2>2, BeginGood DEF StoreTypeOK, CallsTypeOK
<1> QED
  BY <1>1, <1>2, <1>3, <1>4, <1>5, <1>6 DEF Calls

\* A call that is over.
LEMMA DoneGood ==
    ASSUME StoreTypeOK, Positions, NEW c \in Callers, Done(c), FilesTypeOK',
           c \notin opened', opened' \subseteq opened,
           work' \in [Callers -> SUBSET Ids],
           \A d \in Callers \ {c} : work'[d] = work[d]
    PROVE  GoodStep(c)
BY DoneCall DEF GoodStep, StoreTypeOK, Position, PcsOf, OthersKept

LEMMA UpdateGood ==
    ASSUME StoreTypeOK, Positions, NEW c \in Callers, UpdateStep(c) \/ LockTimesOut(c)
    PROVE  GoodStep(c)
<1> USE DEF Goto, fileVars, lockVars, teamVars
<1>t. pc[c] \in {"updLock", "updOpen", "updFill", "lock"} => task[c] \in Ids
  BY DEF Positions, Position
<1>1. CASE UpdateLocks(c)
  <2>1. Changed(c) \in File
    BY <1>1, <1>t, ChangedIsFile DEF UpdateLocks
  <2>2. FilesTypeOK'
    BY <1>1, LockWritten DEF UpdateLocks, LockTask, StoreTypeOK, FilesTypeOK, CallsTypeOK
  <2>3. CallsTypeOK' /\ OthersKept(c)
    BY <1>1, <2>1 DEF UpdateLocks, StoreTypeOK, CallsTypeOK, OthersKept, Pcs
  <2>4. Position(c)'
    BY <1>1, <1>t DEF UpdateLocks, StoreTypeOK, CallsTypeOK, Positions, Position, PcsOf
  <2> QED
    BY <2>2, <2>3, <2>4 DEF GoodStep, StoreTypeOK
<1>2. CASE UpdateFindsNone(c)
  <2>1. c \notin opened /\ op[c] # "claim"
    BY <1>2 DEF UpdateFindsNone, Positions, Position, PcsOf
  <2>2. FilesTypeOK' /\ opened' = opened
    BY <1>2 DEF UpdateFindsNone, StoreTypeOK, FilesTypeOK
  <2>3. Updated(c) /\ task[c] \in Ids /\ pc[c] = "updLock"
    BY <1>2, <1>t DEF UpdateFindsNone
  <2> QED
    BY <2>1, <2>2, <2>3, UpdatedCall DEF GoodStep, StoreTypeOK, OthersKept,
       Positions, Position, PcsOf
<1>3. CASE LockThrows(c)
  <2>1. c \notin opened
    BY <1>3 DEF LockThrows, Positions, Position
  <2>2. FilesTypeOK' /\ opened' = opened
    BY <1>3 DEF LockThrows, StoreTypeOK, FilesTypeOK
  <2> QED
    BY <1>3, <2>1, <2>2, ThrewCall DEF GoodStep, LockThrows, Threw, OthersKept,
       StoreTypeOK, CallsTypeOK, Position, PcsOf
<1>4. CASE UpdateOpens(c)
  <2>1. FilesTypeOK'
    BY <1>4, FileWritten, BlankIsFile DEF UpdateOpens, Open, StoreTypeOK, FilesTypeOK,
       CallsTypeOK, Statuses
  <2>2. CallsTypeOK' /\ OthersKept(c)
    BY <1>4 DEF UpdateOpens, Open, StoreTypeOK, CallsTypeOK, OthersKept, Pcs
  <2>3. Position(c)'
    BY <1>4, <1>t DEF UpdateOpens, StoreTypeOK, CallsTypeOK, Positions, Position, PcsOf
  <2> QED
    BY <2>1, <2>2, <2>3 DEF GoodStep, StoreTypeOK
<1>5. CASE UpdateFills(c)
  <2>1. file' \in [Lists -> [Ids -> File]]
    BY <1>5, FileWritten DEF UpdateFills, Fill, StoreTypeOK, FilesTypeOK, CallsTypeOK
  <2>2. FilesTypeOK' /\ c \notin opened' /\ opened' \subseteq opened
    BY <1>5, <2>1, LockWritten DEF UpdateFills, Fill, LockTask, StoreTypeOK,
       FilesTypeOK, CallsTypeOK
  <2>3. Updated(c) /\ task[c] \in Ids /\ pc[c] = "updFill"
    BY <1>5, <1>t DEF UpdateFills
  <2> QED
    BY <2>2, <2>3, UpdatedCall DEF GoodStep, StoreTypeOK, OthersKept,
       Positions, Position, PcsOf
<1>6. CASE LockTimesOut(c)
  <2>1. c \notin opened
    BY <1>6 DEF LockTimesOut, Positions, Position
  <2>2. FilesTypeOK' /\ opened' = opened
    BY <1>6 DEF LockTimesOut, StoreTypeOK, FilesTypeOK
  <2> QED
    BY <1>6, <2>1, <2>2, ThrewCall DEF GoodStep, LockTimesOut, Threw, OthersKept,
       StoreTypeOK, CallsTypeOK, Position, PcsOf
<1> QED
  BY <1>1, <1>2, <1>3, <1>4, <1>5, <1>6 DEF UpdateStep

LEMMA ClaimGood ==
    ASSUME StoreTypeOK, Positions, NEW c \in Callers, ClaimStep(c) \/ Leaves(c)
    PROVE  GoodStep(c)
<1> USE DEF Goto, fileVars, lockVars, teamVars
<1>1. CASE ClaimLocks(c)
  <2>1. FilesTypeOK'
    BY <1>1, LockWritten DEF ClaimLocks, LockTask, StoreTypeOK, FilesTypeOK, CallsTypeOK
  <2>2. CallsTypeOK' /\ OthersKept(c)
    BY <1>1 DEF ClaimLocks, StoreTypeOK, CallsTypeOK, OthersKept, Pcs
  <2>3. Position(c)'
    BY <1>1 DEF ClaimLocks, StoreTypeOK, CallsTypeOK, Positions, Position, PcsOf
  <2> QED
    BY <2>1, <2>2, <2>3 DEF GoodStep, StoreTypeOK
<1>2. CASE NotClaimable(c)
  BY <1>2, DoneGood DEF NotClaimable, StoreTypeOK, FilesTypeOK, CallsTypeOK,
     Positions, Position
<1>3. CASE ReadsBlockers(c)
  <2>1. Changed(c) \in File
    BY <1>3, ChangedIsFile DEF ReadsBlockers, Positions, Position
  <2>2. StoreTypeOK' /\ OthersKept(c)
    BY <1>3, <2>1 DEF ReadsBlockers, StoreTypeOK, FilesTypeOK, CallsTypeOK, OthersKept, Pcs
  <2>3. Position(c)'
    BY <1>3 DEF ReadsBlockers, StoreTypeOK, CallsTypeOK, Positions, Position, PcsOf
  <2> QED
    BY <2>2, <2>3 DEF GoodStep
<1>4. CASE IsBlocked(c)
  <2>1. FilesTypeOK'
    BY <1>4, LockWritten DEF IsBlocked, LockTask, StoreTypeOK, FilesTypeOK, CallsTypeOK
  <2> QED
    BY <1>4, <2>1, DoneGood DEF IsBlocked, StoreTypeOK, FilesTypeOK, CallsTypeOK,
       Positions, Position
<1>5. CASE Leaves(c)
  BY <1>5 DEF Leaves, GoodStep, OthersKept, StoreTypeOK, FilesTypeOK, CallsTypeOK,
     Positions, Position, callVars
<1> QED
  BY <1>1, <1>2, <1>3, <1>4, <1>5 DEF ClaimStep

LEMMA ListGood ==
    ASSUME StoreTypeOK, Positions, NEW c \in Callers, ListStep(c)
    PROVE  GoodStep(c)
<1> USE DEF Goto, fileVars, lockVars, teamVars
<1>1. CASE LockList(c)
  BY <1>1 DEF LockList, GoodStep, OthersKept, StoreTypeOK, FilesTypeOK, CallsTypeOK,
     Positions, Position, PcsOf, Pcs
<1>2. CASE ReadsHighest(c)
  <2>1. /\ pc[c] \in {"both", "dirLeft", "markLeft"}
        /\ \E to \in {"dirLeft", "markLeft", "newOpen"} : pc' = [pc EXCEPT ![c] = to]
        /\ UNCHANGED <<file, opened, taskLock, op, list, task, body, todo, work>>
    BY <1>2 DEF ReadsHighest
  <2>2. op[c] = "create"
    BY <2>1 DEF Positions, Position, PcsOf, StoreTypeOK, CallsTypeOK, Ops
  <2>3. StoreTypeOK' /\ OthersKept(c)
    BY <2>1 DEF OthersKept, StoreTypeOK, FilesTypeOK, CallsTypeOK, Pcs
  <2>4. Position(c)'
    BY <2>1, <2>2 DEF StoreTypeOK, CallsTypeOK, Positions, Position, PcsOf
  <2> QED
    BY <2>3, <2>4 DEF GoodStep
<1>3. CASE NewOpens(c)
  <2>1. FilesTypeOK'
    BY <1>3, FileWritten, BlankIsFile DEF NewOpens, Open, StoreTypeOK, FilesTypeOK,
       CallsTypeOK, Statuses
  <2>2. CallsTypeOK' /\ OthersKept(c)
    BY <1>3, BlankIsFile DEF NewOpens, Open, StoreTypeOK, CallsTypeOK, OthersKept,
       Pcs, Statuses
  <2>3. Position(c)'
    BY <1>3 DEF NewOpens, Blank, StoreTypeOK, CallsTypeOK, Positions, Position, PcsOf
  <2> QED
    BY <2>1, <2>2, <2>3 DEF GoodStep, StoreTypeOK
<1>4. CASE NewFills(c)
  <2>1. FilesTypeOK' /\ c \notin opened' /\ opened' \subseteq opened
    BY <1>4, FileWritten DEF NewFills, Fill, StoreTypeOK, FilesTypeOK, CallsTypeOK
  <2> QED
    BY <1>4, <2>1, DoneGood DEF NewFills, StoreTypeOK, CallsTypeOK
<1>5. CASE ReadMark(c) \/ MarkFills(c)
  <2>1. StoreTypeOK' /\ OthersKept(c)
    <3>1. Listed("team") \in SUBSET Ids
      BY DEF Listed
    <3>2. \E to \in Pcs : pc' = [pc EXCEPT ![c] = to]
      BY <1>5 DEF ReadMark, MarkFills, Marked, Pcs
    <3>3. todo' = todo \/ todo' = [todo EXCEPT ![c] = Listed("team")]
      BY <1>5 DEF ReadMark, MarkFills, Marked
    <3>4. UNCHANGED <<file, opened, taskLock, op, list, task, body, work>>
      BY <1>5 DEF ReadMark, MarkFills
    <3>5. todo' \in [Callers -> SUBSET Ids] /\ \A d \in Callers \ {c} : todo'[d] = todo[d]
      BY <3>1, <3>3 DEF StoreTypeOK, CallsTypeOK
    <3>6. pc' \in [Callers -> Pcs] /\ \A d \in Callers \ {c} : pc'[d] = pc[d]
      BY <3>2 DEF StoreTypeOK, CallsTypeOK
    <3>7. OthersKept(c)
      BY <3>4, <3>5, <3>6 DEF OthersKept
    <3>8. FilesTypeOK'
      BY <3>4 DEF StoreTypeOK, FilesTypeOK
    <3>9. CallsTypeOK'
      BY <3>4, <3>5, <3>6 DEF StoreTypeOK, CallsTypeOK
    <3> QED
      BY <3>7, <3>8, <3>9 DEF StoreTypeOK
  <2>2. Position(c)'
    <3>1. op[c] \in {"delete", "reset"} /\ list[c] = "team" /\ c \notin opened
      BY <1>5 DEF ReadMark, MarkFills, StoreTypeOK, CallsTypeOK, Positions, Position,
         PcsOf, Ops
    <3>2. \/ pc'[c] = "markOpen"
          \/ pc'[c] = IF op[c] = "delete" THEN "unlink" ELSE "clear"
      BY <1>5 DEF ReadMark, MarkFills, Marked, StoreTypeOK, CallsTypeOK
    <3>3. UNCHANGED <<opened, op, list>>
      BY <1>5 DEF ReadMark, MarkFills
    <3> QED
      BY <3>1, <3>2, <3>3 DEF Position, PcsOf
  <2> QED
    BY <2>1, <2>2 DEF GoodStep
<1>6. CASE MarkOpens(c)
  BY <1>6 DEF MarkOpens, GoodStep, OthersKept, StoreTypeOK, FilesTypeOK, CallsTypeOK,
     Positions, Position, PcsOf, Pcs
<1>7. ASSUME NEW i, Unlink(i), taskLock' = taskLock
      PROVE  FilesTypeOK' /\ opened' \subseteq opened
  <2>1. Blank("absent") \in File /\ "team" \in Lists
    BY BlankIsFile DEF Lists, Statuses
  <2>2. file' \in [Lists -> [Ids -> File]]
    BY <1>7, <2>1, FileWritten DEF Unlink, StoreTypeOK
  <2>3. opened' \subseteq opened
    BY <1>7 DEF Unlink
  <2> QED
    BY <1>7, <2>2, <2>3 DEF StoreTypeOK, FilesTypeOK
<1>8. CASE DeleteUnlinks(c)
  <2>1. FilesTypeOK' /\ opened' \subseteq opened /\ taskLock' = taskLock
    BY <1>7, <1>8 DEF DeleteUnlinks, StoreTypeOK, FilesTypeOK
  <2>2. c \notin opened /\ op[c] = "delete" /\ list[c] = "team"
    BY <1>8 DEF DeleteUnlinks, Positions, Position, PcsOf
  <2>3. CASE Done(c)
    BY <1>8, <2>1, <2>2, <2>3, DoneGood DEF DeleteUnlinks, StoreTypeOK, CallsTypeOK
  <2>4. CASE ~Done(c)
    <3>1. PICK i \in Ids, rest \in SUBSET Ids :
              /\ task' = [task EXCEPT ![c] = i] /\ todo' = [todo EXCEPT ![c] = rest]
              /\ pc' = [pc EXCEPT ![c] = "updLock"]
              /\ UNCHANGED <<op, list, body, work>>
      <4> DEFINE referring == {i \in Ids \ {task[c]} :
                                 /\ Readable("team", i)
                                 /\ task[c] \in file["team"][i].deps}
      <4>1. PICK i \in referring : /\ task' = [task EXCEPT ![c] = i]
                                   /\ todo' = [todo EXCEPT ![c] = referring \ {i}]
        BY <1>8, <2>4 DEF DeleteUnlinks
      <4>2. pc' = [pc EXCEPT ![c] = "updLock"] /\ UNCHANGED <<op, list, body, work>>
        BY <1>8, <2>4 DEF DeleteUnlinks
      <4>3. i \in Ids /\ referring \ {i} \in SUBSET Ids
        OBVIOUS
      <4> HIDE DEF referring
      <4> QED
        BY <4>1, <4>2, <4>3
    <3>2. CallsTypeOK' /\ OthersKept(c)
      BY <2>1, <3>1 DEF StoreTypeOK, CallsTypeOK, OthersKept, Pcs
    <3>3. Position(c)'
      BY <2>1, <2>2, <3>1 DEF StoreTypeOK, CallsTypeOK, Position, PcsOf
    <3> QED
      BY <2>1, <3>2, <3>3 DEF GoodStep, StoreTypeOK
  <2> QED
    BY <2>3, <2>4
<1>9. CASE DeleteFindsNone(c)
  BY <1>9, DoneGood DEF DeleteFindsNone, StoreTypeOK, FilesTypeOK, CallsTypeOK,
     Positions, Position
<1>10. CASE ResetUnlinks(c)
  <2>1. FilesTypeOK' /\ opened' \subseteq opened
    BY <1>7, <1>10 DEF ResetUnlinks
  <2>2. /\ UNCHANGED <<pc, op, list, task, body, work>>
        /\ \E i \in todo[c] : todo' = [todo EXCEPT ![c] = @ \ {i}]
    BY <1>10 DEF ResetUnlinks
  <2>3. CallsTypeOK'
    BY <2>2 DEF StoreTypeOK, CallsTypeOK
  <2>4. OthersKept(c) /\ Position(c)'
    BY <2>1, <2>2 DEF OthersKept, Positions, Position
  <2> QED
    BY <2>1, <2>3, <2>4 DEF GoodStep, StoreTypeOK
<1>11. CASE ResetEnds(c)
  BY <1>11, DoneGood DEF ResetEnds, StoreTypeOK, FilesTypeOK, CallsTypeOK,
     Positions, Position
<1> QED
  BY <1>1, <1>2, <1>3, <1>4, <1>5, <1>6, <1>8, <1>9, <1>10, <1>11 DEF ListStep

LEMMA StepGood ==
    ASSUME StoreTypeOK, Positions, NEW c \in Callers, StepOf(c)
    PROVE  GoodStep(c) /\ Positions'
<1>1. GoodStep(c)
  BY CallsGood, UpdateGood, ClaimGood, ListGood DEF StepOf, CallStep
<1>2. Positions'
  BY <1>1 DEF GoodStep, OthersKept, Positions, Position
<1> QED
  BY <1>1, <1>2

----------------------------------------------------------------------------
(* Locks.                                                                  *)

Critical(c) == pc[c] \in {"blockers", "updOpen", "updFill"}

\* Only these four steps take or give back a lock, and nobody comes to a
\* critical position by another one.
LocksTask(c) == ClaimLocks(c) \/ UpdateLocks(c) \/ UpdateFills(c) \/ IsBlocked(c)

NoLocking(c) ==
    /\ taskLock' = taskLock
    /\ Critical(c)' => /\ Critical(c) /\ list'[c] = list[c] /\ task'[c] = task[c]
                       /\ pc'[c] = pc[c] \/ ReadsBlockers(c) \/ UpdateOpens(c)

LEMMA LocksKept ==
    ASSUME StoreTypeOK, Positions, NEW c \in Callers, StepOf(c), ~LocksTask(c)
    PROVE  NoLocking(c)
<1> USE DEF NoLocking, Critical, Goto, fileVars, lockVars, teamVars
<1>1. CASE Calls(c)
  <2>1. taskLock' = taskLock /\ \E from \in {"lock", "updLock", "listLock", "readMark"} :
            pc' = [pc EXCEPT ![c] = from]
    BY <1>1 DEF Calls, ClaimNext, Delete, TakeOrComplete, Create, Reset, Unassign,
       BeginOnTeam, Begin
  <2> QED
    BY <2>1 DEF StoreTypeOK, CallsTypeOK
<1>2. CASE UpdateFindsNone(c)
  <2>1. task[c] \in Ids /\ pc[c] = "updLock"
    BY <1>2 DEF UpdateFindsNone, Positions, Position
  <2>2. pc'[c] \in {"updLock", "idle"}
    BY <1>2, <2>1, UpdatedCall DEF UpdateFindsNone
  <2> QED
    BY <1>2, <2>2 DEF UpdateFindsNone
<1>3. CASE LockThrows(c) \/ LockTimesOut(c)
  BY <1>3, ThrewCall DEF LockThrows, LockTimesOut
<1>4. CASE UpdateOpens(c)
  BY <1>4 DEF UpdateOpens, StoreTypeOK, CallsTypeOK
<1>5. CASE NotClaimable(c) \/ NewFills(c) \/ DeleteFindsNone(c) \/ ResetEnds(c)
  BY <1>5 DEF NotClaimable, NewFills, DeleteFindsNone, ResetEnds, Done, StoreTypeOK,
     CallsTypeOK
<1>6. CASE ReadsBlockers(c)
  BY <1>6 DEF ReadsBlockers, StoreTypeOK, CallsTypeOK
<1>7. CASE LockList(c) \/ ReadsHighest(c) \/ NewOpens(c) \/ MarkOpens(c)
  BY <1>7 DEF LockList, ReadsHighest, NewOpens, MarkOpens, StoreTypeOK, CallsTypeOK
<1>8. CASE ReadMark(c) \/ MarkFills(c)
  BY <1>8 DEF ReadMark, MarkFills, Marked, StoreTypeOK, CallsTypeOK
<1>9. CASE DeleteUnlinks(c)
  BY <1>9 DEF DeleteUnlinks, Done, StoreTypeOK, CallsTypeOK
<1>10. CASE ResetUnlinks(c)
  BY <1>10 DEF ResetUnlinks, Positions, Position, PcsOf
<1>11. CASE Leaves(c)
  BY <1>11 DEF Leaves, callVars
<1>12. \/ Calls(c) \/ UpdateFindsNone(c) \/ LockThrows(c) \/ LockTimesOut(c)
       \/ UpdateOpens(c) \/ NotClaimable(c) \/ NewFills(c) \/ DeleteFindsNone(c)
       \/ ResetEnds(c) \/ ReadsBlockers(c) \/ LockList(c) \/ ReadsHighest(c)
       \/ NewOpens(c) \/ MarkOpens(c) \/ ReadMark(c) \/ MarkFills(c)
       \/ DeleteUnlinks(c) \/ ResetUnlinks(c) \/ Leaves(c)
  BY DEF StepOf, CallStep, UpdateStep, ClaimStep, ListStep, LocksTask
<1> HIDE DEF NoLocking, Critical, Goto, fileVars, lockVars, teamVars
<1> QED
  BY <1>1, <1>2, <1>3, <1>4, <1>5, <1>6, <1>7, <1>8, <1>9, <1>10, <1>11, <1>12

\* Two callers are never critical about the same task.
LEMMA CriticalAlone ==
    ASSUME LocksHeld, NEW c \in Callers, NEW d \in Callers, Critical(c), Critical(d),
           list[c] = list[d], task[c] = task[d]
    PROVE  c = d
BY DEF LocksHeld, Critical

LEMMA LocksHeldKept ==
    ASSUME StoreTypeOK, Positions, LocksHeld, NEW c \in Callers, StepOf(c)
    PROVE  LocksHeld'
<1>g. GoodStep(c)
  BY StepGood
<1> SUFFICES ASSUME NEW d \in Callers, Critical(d)'
             PROVE  taskLock'[list'[d]][task'[d]] = d
  BY DEF LocksHeld, Critical
<1>t. Critical(d)' => task'[d] \in Ids /\ list'[d] \in Lists
  BY StepGood DEF Positions, Position, Critical, GoodStep, StoreTypeOK, CallsTypeOK
<1>1. CASE ClaimLocks(c) \/ UpdateLocks(c)
  <2>1. /\ LockTask(c, c) /\ ~Locked(c) /\ list' = list /\ task' = task
        /\ list[c] \in Lists /\ task[c] \in Ids
    BY <1>1 DEF ClaimLocks, UpdateLocks, Goto, StoreTypeOK, CallsTypeOK, Positions,
       Position
  <2>2. \A m \in Lists, j \in Ids :
           taskLock'[m][j] = IF m = list[c] /\ j = task[c] THEN c ELSE taskLock[m][j]
    BY <2>1, LockWritten DEF LockTask, StoreTypeOK
  <2>3. CASE d = c
    BY <1>t, <2>1, <2>2, <2>3
  <2>4. CASE d # c
    <3>1. taskLock[list[d]][task[d]] = d
      BY <1>g, <2>4 DEF GoodStep, OthersKept, LocksHeld, Critical
    <3>2. ~(list[d] = list[c] /\ task[d] = task[c])
      BY <2>1, <3>1 DEF Locked
    <3> QED
      BY <1>t, <2>1, <2>2, <3>1, <3>2
  <2> QED
    BY <2>3, <2>4
<1>2. CASE UpdateFills(c) \/ IsBlocked(c)
  <2>1. LockTask(c, NoOne) /\ Critical(c) /\ list[c] \in Lists /\ task[c] \in Ids
    BY <1>2 DEF UpdateFills, IsBlocked, Critical, StoreTypeOK, CallsTypeOK, Positions,
       Position
  <2>2. ~Critical(c)'
    BY <1>2, <2>1, UpdatedCall, DoneCall DEF UpdateFills, IsBlocked, Critical, Done,
       StoreTypeOK, CallsTypeOK
  <2>3. \A m \in Lists, j \in Ids :
           taskLock'[m][j] = IF m = list[c] /\ j = task[c] THEN NoOne ELSE taskLock[m][j]
    BY <2>1, LockWritten DEF LockTask, StoreTypeOK
  <2>4. d # c /\ list'[d] = list[d] /\ task'[d] = task[d] /\ Critical(d)
    BY <1>g, <2>2 DEF GoodStep, OthersKept, Critical
  <2>5. ~(list[d] = list[c] /\ task[d] = task[c])
    BY <2>1, <2>4, CriticalAlone
  <2> QED
    BY <1>t, <2>3, <2>4, <2>5 DEF LocksHeld, Critical
<1>3. CASE ~LocksTask(c)
  <2>1. Critical(d) /\ list'[d] = list[d] /\ task'[d] = task[d] /\ taskLock' = taskLock
    BY <1>g, <1>3, LocksKept DEF NoLocking, GoodStep, OthersKept, Critical
  <2> QED
    BY <2>1 DEF LocksHeld, Critical
<1> QED
  BY <1>1, <1>2, <1>3 DEF LocksTask

----------------------------------------------------------------------------
(* Files.                                                                  *)

\* A file of the list l becomes v, and no other changes.
Writes(l, i, v) ==
    \A m \in Lists, j \in Ids : file'[m][j] = IF m = l /\ j = i THEN v ELSE file[m][j]

\* Steps on the team's list other than updates: files are created, and removed.
TeamFiles(c) == NewOpens(c) \/ NewFills(c) \/ DeleteUnlinks(c) \/ ResetUnlinks(c)

LEMMA FileStep ==
    ASSUME StoreTypeOK, Positions, NEW c \in Callers, StepOf(c)
    PROVE  \/ file' = file /\ ~UpdateOpens(c) /\ ~(UpdateFills(c) /\ c \in opened)
           \/ UpdateOpens(c) /\ Writes(list[c], task[c], Blank("torn"))
           \/ UpdateFills(c) /\ c \in opened /\ Writes(list[c], task[c], body[c])
           \/ /\ TeamFiles(c)
              /\ \E i, v : /\ Writes("team", i, v)
                           /\ \/ /\ v.status = "absent"
                                 /\ DeleteUnlinks(c) \/ ResetUnlinks(c)
                              \/ v.status = "torn" /\ NewOpens(c) /\ i = top[c] + 1
                              \/ /\ v.status = "pending" /\ NewFills(c)
                                 /\ c \in opened /\ i = task[c]
<1> USE DEF Goto, fileVars, lockVars, teamVars
<1>l. list[c] \in Lists /\ "team" \in Lists /\ body[c] \in File
  BY DEF StoreTypeOK, CallsTypeOK, Lists
<1>b. Blank("torn") \in File /\ Blank("absent") \in File
  BY BlankIsFile DEF Statuses
<1>1. CASE UpdateOpens(c)
  <2>1. file' = [file EXCEPT ![list[c]][task[c]] = Blank("torn")]
    BY <1>1 DEF UpdateOpens, Open
  <2>2. Writes(list[c], task[c], Blank("torn"))
    BY <1>l, <1>b, <2>1, FileWritten DEF Writes, StoreTypeOK
  <2> QED
    BY <1>1, <2>2
<1>2. CASE UpdateFills(c)
  <2>1. CASE c \in opened
    <3>1. file' = [file EXCEPT ![list[c]][task[c]] = body[c]]
      BY <1>2, <2>1 DEF UpdateFills, Fill
    <3>2. Writes(list[c], task[c], body[c])
      BY <1>l, <3>1, FileWritten DEF Writes, StoreTypeOK
    <3> QED
      BY <1>2, <2>1, <3>2
  <2>2. CASE c \notin opened
    BY <1>2, <2>2 DEF UpdateFills, UpdateOpens, Fill
  <2> QED
    BY <2>1, <2>2
<1>3. CASE NewOpens(c)
  <2>1. Blank("torn").status = "torn" /\ list[c] = "team"
    BY <1>3 DEF NewOpens, Blank, Positions, Position, PcsOf
  <2>2. Writes("team", top[c] + 1, Blank("torn"))
    BY <1>3, <2>1, <1>l, <1>b, FileWritten DEF NewOpens, Open, Writes, StoreTypeOK
  <2> QED
    BY <1>3, <2>1, <2>2 DEF TeamFiles
<1>4. CASE NewFills(c)
  <2>1. list[c] = "team" /\ body[c].status = "pending" /\ pc[c] = "newFill"
    BY <1>4 DEF NewFills, Positions, Position, PcsOf
  <2>2. CASE c \in opened
    <3>1. Writes("team", task[c], body[c])
      BY <1>4, <1>l, <2>1, <2>2, FileWritten DEF NewFills, Fill, Writes, StoreTypeOK
    <3> QED
      BY <1>4, <2>1, <2>2, <3>1 DEF TeamFiles
  <2>3. CASE c \notin opened
    BY <1>4, <2>1, <2>3 DEF NewFills, Fill, UpdateOpens, UpdateFills
  <2> QED
    BY <2>2, <2>3
<1>5. CASE DeleteUnlinks(c) \/ ResetUnlinks(c)
  <2>1. PICK i : Unlink(i)
    BY <1>5 DEF DeleteUnlinks, ResetUnlinks
  <2>2. Writes("team", i, Blank("absent"))
    BY <1>l, <1>b, <2>1, FileWritten DEF Unlink, Writes, StoreTypeOK
  <2>3. Blank("absent").status = "absent"
    BY DEF Blank
  <2> QED
    BY <1>5, <2>2, <2>3 DEF TeamFiles
<1>6. CASE ~(UpdateOpens(c) \/ UpdateFills(c) \/ TeamFiles(c))
  <2>1. CASE Calls(c)
    BY <1>6, <2>1 DEF Calls, ClaimNext, Delete, TakeOrComplete, Create, Reset,
       Unassign, BeginOnTeam, Begin
  <2>2. CASE ~Calls(c)
    BY <1>6, <2>2 DEF StepOf, CallStep, UpdateStep, ClaimStep, ListStep, UpdateLocks,
       UpdateFindsNone, LockThrows, LockTimesOut, Leaves, ClaimLocks, NotClaimable,
       ReadsBlockers, IsBlocked, LockList, ReadsHighest, ReadMark, MarkOpens,
       MarkFills, DeleteFindsNone, ResetEnds, TeamFiles
  <2> QED
    BY <1>6, <2>1, <2>2
<1> QED
  BY <1>1, <1>2, <1>3, <1>4, <1>5, <1>6 DEF TeamFiles

LEMMA SessionWrite ==
    ASSUME StoreTypeOK, Positions, NEW c \in Callers, StepOf(c), NEW i \in Ids,
           file'["session"][i] # file["session"][i]
    PROVE  /\ list[c] = "session" /\ task[c] = i /\ Critical(c)
           /\ \/ UpdateOpens(c) /\ file'["session"][i] = Blank("torn")
              \/ UpdateFills(c) /\ c \in opened /\ file'["session"][i] = body[c]
<1>1. UpdateOpens(c) \/ UpdateFills(c) => Critical(c)
  BY DEF UpdateOpens, UpdateFills, Critical, Goto
<1>2. list[c] \in Lists /\ "session" \in Lists
  BY DEF StoreTypeOK, CallsTypeOK, Lists
<1> QED
  BY <1>1, <1>2, FileStep DEF Writes

\* The open files after a step.
LEMMA OpenedStep ==
    ASSUME StoreTypeOK, Positions, NEW c \in Callers, StepOf(c)
    PROVE  /\ \A d \in Callers \ {c} : list[d] = "session" /\ d \in opened => d \in opened'
           /\ c \in opened' => \/ UpdateOpens(c) \/ NewOpens(c)
                               \/ c \in opened /\ UNCHANGED <<pc, op, list, task, body>>
<1> USE DEF Goto, fileVars, lockVars, teamVars
<1>1. CASE UpdateOpens(c) \/ NewOpens(c)
  <2>1. opened' = opened \cup {c}
    BY <1>1 DEF UpdateOpens, NewOpens, Open
  <2> QED
    BY <1>1, <2>1
<1>2. CASE UpdateFills(c) \/ NewFills(c)
  BY <1>2 DEF UpdateFills, NewFills, Fill
<1>3. CASE DeleteUnlinks(c) \/ ResetUnlinks(c)
  <2>1. PICK i : Unlink(i)
    BY <1>3 DEF DeleteUnlinks, ResetUnlinks
  <2>2. c \notin opened
    BY <1>3 DEF DeleteUnlinks, ResetUnlinks, Positions, Position
  <2> QED
    BY <2>1, <2>2 DEF Unlink
<1>4. CASE Leaves(c)
  BY <1>4 DEF Leaves, callVars
<1>5. CASE Calls(c)
  <2>1. opened' = opened /\ pc[c] = "idle"
    BY <1>5 DEF Calls, ClaimNext, Delete, TakeOrComplete, Create, Reset, Unassign,
       BeginOnTeam, Begin
  <2> QED
    BY <2>1 DEF Positions, Position
<1>6. CASE ~(\/ UpdateOpens(c) \/ NewOpens(c) \/ UpdateFills(c) \/ NewFills(c)
             \/ DeleteUnlinks(c) \/ ResetUnlinks(c) \/ Leaves(c) \/ Calls(c))
  <2>1. opened' = opened /\ pc[c] \notin {"updFill", "newFill"}
    BY <1>6 DEF StepOf, CallStep, UpdateStep, ClaimStep, ListStep, UpdateLocks,
       UpdateFindsNone, LockThrows, LockTimesOut, ClaimLocks, NotClaimable,
       ReadsBlockers, IsBlocked, LockList, ReadsHighest, ReadMark, MarkOpens,
       MarkFills, DeleteFindsNone, ResetEnds
  <2> QED
    BY <2>1 DEF Positions, Position
<1> QED
  BY <1>1, <1>2, <1>3, <1>4, <1>5, <1>6

\* How a caller comes to be about a task of the session's list, other than on
\* its way to lock it.
LEMMA SessionStep ==
    ASSUME StoreTypeOK, Positions, NEW c \in Callers, StepOf(c),
           list'[c] = "session", pc'[c] # "lock"
    PROVE  \/ ClaimLocks(c) \/ ReadsBlockers(c) \/ UpdateLocks(c) \/ UpdateOpens(c)
           \/ UpdateFills(c) /\ op[c] = "claim"
           \/ Leaves(c)
<1> USE DEF Goto, fileVars, lockVars, teamVars
<1>1. CASE Calls(c)
  <2>1. \/ \E i \in Ids : Begin(c, "claim", "session", i, "lock")
        \/ \E o \in Ops : \E i, from : Begin(c, o, "team", i, from)
    BY <1>1 DEF Calls, ClaimNext, Delete, TakeOrComplete, Create, Reset, Unassign,
       BeginOnTeam, Ops
  <2> QED
    BY <2>1 DEF Begin, StoreTypeOK, CallsTypeOK
<1>2. CASE UpdateFindsNone(c) \/ UpdateFills(c)
  <2>1. Updated(c) /\ pc[c] \in {"updLock", "updFill"} /\ task[c] \in Ids
    BY <1>2 DEF UpdateFindsNone, UpdateFills, Positions, Position
  <2>2. op[c] = "claim" => UpdateFills(c)
    BY <1>2 DEF UpdateFindsNone, Positions, Position, PcsOf
  <2>3. op[c] # "claim" /\ list[c] = "session" => todo[c] = {}
    BY DEF Positions, Position, StoreTypeOK, CallsTypeOK, Ops
  <2> QED
    BY <2>1, <2>2, <2>3, UpdatedCall
<1>3. CASE LockThrows(c) \/ LockTimesOut(c)
  BY <1>3, ThrewCall DEF LockThrows, LockTimesOut
<1>4. CASE NotClaimable(c) \/ NewFills(c) \/ DeleteFindsNone(c) \/ ResetEnds(c) \/ IsBlocked(c)
  BY <1>4 DEF NotClaimable, NewFills, DeleteFindsNone, ResetEnds, IsBlocked, Done,
     StoreTypeOK, CallsTypeOK
<1>5. CASE LockList(c) \/ ReadsHighest(c) \/ NewOpens(c) \/ ReadMark(c) \/ MarkOpens(c)
           \/ MarkFills(c) \/ ResetUnlinks(c)
  <2>1. list' = list /\ pc[c] \in {"listLock", "both", "dirLeft", "markLeft", "newOpen",
                                   "readMark", "markOpen", "markFill", "clear"}
    BY <1>5 DEF LockList, ReadsHighest, NewOpens, ReadMark, MarkOpens, MarkFills,
       ResetUnlinks
  <2> QED
    BY <2>1 DEF Positions, Position, PcsOf, StoreTypeOK, CallsTypeOK, Ops
<1>6. CASE DeleteUnlinks(c)
  <2>1. list[c] = "team"
    BY <1>6 DEF DeleteUnlinks, Positions, Position, PcsOf, StoreTypeOK, CallsTypeOK, Ops
  <2>2. list'[c] = "team"
    BY <1>6, <2>1 DEF DeleteUnlinks, Done, StoreTypeOK, CallsTypeOK
  <2> QED
    BY <2>2
<1> QED
  BY <1>1, <1>2, <1>3, <1>4, <1>5, <1>6 DEF StepOf, CallStep, UpdateStep, ClaimStep,
     ListStep

LEMMA SessionKeptStep ==
    ASSUME StoreTypeOK, Positions, LocksHeld, SessionKept, NEW c \in Callers, StepOf(c)
    PROVE  SessionKept'
<1> SUFFICES ASSUME NEW d \in Callers, list'[d] = "session"
             PROVE  SessionAt(d)'
  BY DEF SessionKept
<1>g. GoodStep(c)
  BY StepGood
<1>1. CASE d # c
  <2>1. /\ pc'[d] = pc[d] /\ op'[d] = op[d] /\ list'[d] = list[d]
        /\ task'[d] = task[d] /\ body'[d] = body[d]
    BY <1>g, <1>1 DEF GoodStep, OthersKept
  <2>2. SessionAt(d)
    BY <2>1 DEF SessionKept
  <2>3. pc[d] \in {"blockers", "updLock", "updOpen", "updFill"} => task[d] \in Ids
    BY DEF Positions, Position
  <2>4. Critical(d) => file'["session"][task[d]] = file["session"][task[d]]
    BY <1>1, <2>1, <2>3, SessionWrite, CriticalAlone DEF Critical
  <2>5. pc[d] = "updLock" => file'["session"][task[d]].status # "completed"
    <3> SUFFICES ASSUME pc[d] = "updLock",
                        file'["session"][task[d]] # file["session"][task[d]]
                 PROVE  file'["session"][task[d]].status # "completed"
      BY <2>1, <2>2 DEF SessionAt, Mine
    <3>1. /\ list[c] = "session"
          /\ \/ file'["session"][task[d]] = Blank("torn")
             \/ file'["session"][task[d]] = body[c] /\ pc[c] = "updFill"
      BY <2>3, SessionWrite DEF UpdateFills
    <3> QED
      BY <3>1 DEF SessionKept, SessionAt, Blank
  <2>6. d \in opened => d \in opened'
    BY <1>1, <2>1, OpenedStep
  <2> QED
    BY <2>1, <2>2, <2>4, <2>5, <2>6 DEF SessionAt, Mine, Critical
<1>2. CASE d = c
  <2> USE <1>2 DEF Goto, fileVars, lockVars, teamVars
  <2>t. /\ CallsTypeOK /\ FilesTypeOK
        /\ Critical(c) \/ pc[c] \in {"lock", "updLock"} => Mine(c) \in File
    BY DEF StoreTypeOK, CallsTypeOK, FilesTypeOK, Positions, Position, Critical, Mine
  <2>1. CASE pc'[c] = "lock"
    BY <2>1 DEF SessionAt
  <2>2. CASE ClaimLocks(c)
    <3>1. /\ pc'[c] = "blockers" /\ UNCHANGED <<file, list, task, op>> /\ pc[c] = "lock"
      BY <2>2, <2>t DEF ClaimLocks, CallsTypeOK
    <3>2. Mine(c)' = Mine(c)
      BY <3>1 DEF Mine
    <3>3. Mine(c).status \in {"pending", "in_progress"} /\ Mine(c).owner \in {NoOne, c}
      BY <2>2, <2>t, <3>1 DEF ClaimLocks, Claimable, Unresolved, Readable, Mine, File,
         Statuses
    <3> QED
      BY <3>1, <3>2, <3>3 DEF SessionAt
  <2>3. CASE ReadsBlockers(c)
    <3>1. /\ pc[c] = "blockers" /\ pc'[c] = "updOpen" /\ UNCHANGED <<file, list, task, op>>
          /\ body'[c] = Changed(c)
      BY <2>3, <2>t DEF ReadsBlockers, CallsTypeOK
    <3>2. Mine(c)' = Mine(c) /\ op[c] = "claim" /\ Mine(c) \in File
      BY <2>t, <3>1 DEF Mine, Positions, Position, PcsOf, CallsTypeOK, Ops, Critical
    <3>3. body'[c] = [Mine(c) EXCEPT !.owner = c]
      BY <3>1, <3>2 DEF Changed
    <3> QED
      BY <3>1, <3>2, <3>3 DEF SessionKept, SessionAt, File
  <2>4. CASE UpdateLocks(c)
    <3>1. /\ pc[c] = "updLock" /\ pc'[c] = "updOpen" /\ UNCHANGED <<file, list, task, op>>
          /\ body'[c] = Changed(c) /\ Readable(list[c], task[c])
      BY <2>4, <2>t DEF UpdateLocks, CallsTypeOK
    <3>2. Mine(c)' = Mine(c) /\ op[c] = "start" /\ Mine(c) \in File
      BY <2>t, <3>1 DEF Mine, Positions, Position, PcsOf, CallsTypeOK, Ops
    <3>3. body'[c] = [Mine(c) EXCEPT !.status = "in_progress"]
      BY <3>1, <3>2 DEF Changed
    <3>4. Mine(c).status \in {"pending", "in_progress"}
      BY <3>1, <3>2 DEF SessionKept, SessionAt, Readable, Mine, File, Statuses
    <3> QED
      BY <3>1, <3>2, <3>3, <3>4 DEF SessionAt, File
  <2>5. CASE UpdateOpens(c)
    <3>1. /\ pc[c] = "updOpen" /\ pc'[c] = "updFill" /\ UNCHANGED <<list, task, op, body>>
          /\ c \in opened' /\ file' = [file EXCEPT ![list[c]][task[c]] = Blank("torn")]
      BY <2>5, <2>t DEF UpdateOpens, Open, CallsTypeOK
    <3>2. task[c] \in Ids /\ list[c] \in Lists
      BY <2>t, <3>1 DEF Positions, Position, CallsTypeOK
    <3>3. Mine(c)' = Blank("torn")
      BY <2>t, <3>1, <3>2 DEF Mine, FilesTypeOK
    <3> QED
      BY <3>1, <3>3 DEF SessionKept, SessionAt
  <2>6. CASE UpdateFills(c) /\ op[c] = "claim"
    <3>1. /\ pc[c] = "updFill" /\ list[c] \in Lists /\ task[c] \in Ids
      BY <2>6, <2>t DEF UpdateFills, Positions, Position, CallsTypeOK
    <3>2. pc'[c] = "updLock" /\ UNCHANGED <<list, task>>
      BY <2>6, <3>1, UpdatedCall DEF UpdateFills
    <3>3. SessionAt(c)
      BY <3>2 DEF SessionKept
    <3>4. file' = [file EXCEPT ![list[c]][task[c]] = body[c]]
      BY <2>6, <3>1, <3>3 DEF UpdateFills, Fill, SessionAt
    <3>5. Mine(c)' = body[c]
      BY <2>t, <3>1, <3>2, <3>4 DEF Mine, FilesTypeOK
    <3> QED
      BY <3>1, <3>2, <3>3, <3>5 DEF SessionAt
  <2>7. CASE Leaves(c)
    BY <2>7 DEF Leaves, callVars, SessionKept, SessionAt, Mine
  <2> QED
    BY <2>1, <2>2, <2>3, <2>4, <2>5, <2>6, <2>7, SessionStep
<1> QED
  BY <1>1, <1>2

----------------------------------------------------------------------------
(* Work, and what blocks it.                                               *)

LEMMA WorkStep ==
    ASSUME StoreTypeOK, Positions, NEW c \in Callers, StepOf(c),
           NEW e \in Callers, NEW i, i \in work'[e]
    PROVE  \/ i \in work[e]
           \/ e = c /\ UpdateFills(c) /\ op[c] = "claim" /\ i = task[c]
<1> USE DEF Goto, fileVars, lockVars, teamVars
<1>1. CASE UpdateFindsNone(c) \/ UpdateFills(c)
  <2>1. Updated(c) /\ (op[c] = "claim" => UpdateFills(c))
    BY <1>1 DEF UpdateFindsNone, UpdateFills, Positions, Position, PcsOf
  <2>2. CASE op[c] = "claim"
    <3>1. work' = [work EXCEPT ![c] = work[c] \cup {task[c]}]
      BY <2>1, <2>2 DEF Updated
    <3>2. work'[e] = IF e = c THEN work[c] \cup {task[c]} ELSE work[e]
      BY <3>1 DEF StoreTypeOK, CallsTypeOK
    <3>3. i \in work[e] \/ (e = c /\ i = task[c])
      BY <3>2
    <3> QED
      BY <2>1, <2>2, <3>3
  <2>3. CASE op[c] # "claim"
    <3>1. work' = work
      BY <2>1, <2>3 DEF Updated
    <3> QED
      BY <3>1
  <2> QED
    BY <2>2, <2>3
<1>2. CASE LockThrows(c) \/ LockTimesOut(c)
  <2>1. work'[e] \subseteq work[e]
    BY <1>2, ThrewCall DEF LockThrows, LockTimesOut
  <2> QED
    BY <2>1
<1>3. CASE Calls(c)
  <2>1. work' = work
    BY <1>3 DEF Calls, ClaimNext, Delete, TakeOrComplete, Create, Reset, Unassign,
       BeginOnTeam
  <2> QED
    BY <2>1
<1>4. CASE ~(UpdateFindsNone(c) \/ UpdateFills(c) \/ LockThrows(c) \/ LockTimesOut(c)
             \/ Calls(c))
  <2>1. work' = work
    BY <1>4 DEF StepOf, CallStep, UpdateStep, ClaimStep, ListStep, UpdateLocks,
       UpdateOpens, Leaves, ClaimLocks, NotClaimable, ReadsBlockers, IsBlocked, LockList,
       ReadsHighest, NewOpens, NewFills, ReadMark, MarkOpens, MarkFills, DeleteUnlinks,
       DeleteFindsNone, ResetUnlinks, ResetEnds
  <2> QED
    BY <2>1
<1> QED
  BY <1>1, <1>2, <1>3, <1>4

\* A caller about to fill a file fills it next, or is not moved.
LEMMA FillStep ==
    ASSUME StoreTypeOK, Positions, NEW c \in Callers, StepOf(c), pc[c] = "updFill"
    PROVE  UpdateFills(c) \/ UNCHANGED <<pc, op, list, task, body, work, file>>
<1> USE DEF Goto, fileVars, lockVars, teamVars
<1>1. op[c] # "none"
  BY DEF Positions, Position, PcsOf
<1>2. ~Calls(c)
  BY DEF Calls, ClaimNext, Delete, TakeOrComplete, Create, Reset, Unassign,
     BeginOnTeam, Begin
<1>3. Leaves(c) \/ UpdateFills(c)
  BY <1>2 DEF StepOf, CallStep, UpdateStep, ClaimStep, ListStep, UpdateLocks, UpdateOpens,
     UpdateFindsNone, LockThrows, LockTimesOut, ClaimLocks, NotClaimable, ReadsBlockers,
     IsBlocked, LockList, ReadsHighest, NewOpens, NewFills, ReadMark, MarkOpens,
     MarkFills, DeleteUnlinks, DeleteFindsNone, ResetUnlinks, ResetEnds
<1> QED
  BY <1>3 DEF Leaves, callVars

LEMMA OwnersKnownStep ==
    ASSUME StoreTypeOK, Positions, LocksHeld, SessionKept, OwnersKnown,
           NEW c \in Callers, StepOf(c)
    PROVE  OwnersKnown'
<1> SUFFICES ASSUME NEW e \in Callers, NEW i, i \in work'[e]
             PROVE  \/ file'["session"][i].owner = e
                    \/ \E d \in Callers : FillsSession(d, i)' /\ body'[d].owner = e
  BY DEF OwnersKnown
<1>g. GoodStep(c)
  BY StepGood
<1>i. i \in Ids
  BY <1>g DEF GoodStep, StoreTypeOK, CallsTypeOK
<1>f. ASSUME UpdateFills(c), list[c] = "session", task[c] = i, body[c].owner = e
      PROVE  file'["session"][i].owner = e
  <2>1. pc[c] = "updFill" /\ c \in opened
    BY <1>f DEF UpdateFills, SessionKept, SessionAt
  <2>2. file' = [file EXCEPT !["session"][i] = body[c]]
    BY <1>f, <2>1 DEF UpdateFills, Fill
  <2> QED
    BY <1>i, <1>f, <2>2 DEF StoreTypeOK, FilesTypeOK, Lists
<1>1. CASE i \notin work[e]
  <2>1. e = c /\ UpdateFills(c) /\ op[c] = "claim" /\ i = task[c]
    BY <1>1, WorkStep
  <2>2. list[c] = "session" /\ body[c].owner = c
    BY <2>1 DEF UpdateFills, Positions, Position, SessionKept, SessionAt
  <2> QED
    BY <1>f, <2>1, <2>2
<1>2. CASE i \in work[e] /\ file["session"][i].owner = e
  <2>1. CASE file'["session"][i] = file["session"][i]
    BY <1>2, <2>1
  <2>2. CASE file'["session"][i] # file["session"][i]
    <3>1. /\ list[c] = "session" /\ task[c] = i
          /\ UpdateOpens(c) \/ UpdateFills(c)
      BY <1>i, <2>2, SessionWrite
    <3>2. SessionAt(c)
      BY <3>1 DEF SessionKept
    <3>3. e # NoOne
      BY DEF CallersAssumption
    <3>4. ~UpdateFills(c)
      BY <1>2, <3>1, <3>2, <3>3 DEF UpdateFills, SessionAt, Mine, Blank
    <3>5. /\ pc[c] = "updOpen" /\ pc' = [pc EXCEPT ![c] = "updFill"]
          /\ UNCHANGED <<list, task, body>>
      BY <3>1, <3>4 DEF UpdateOpens, Goto
    <3>6. op[c] \in {"claim", "start"}
      BY <3>1, <3>5 DEF Positions, Position
    <3>7. body[c].owner = e
      BY <1>2, <3>1, <3>2, <3>3, <3>5, <3>6 DEF SessionAt, Mine
    <3> QED
      BY <3>1, <3>5, <3>7 DEF FillsSession, StoreTypeOK, CallsTypeOK
  <2> QED
    BY <2>1, <2>2
<1>3. ASSUME NEW d \in Callers, FillsSession(d, i), body[d].owner = e
      PROVE  \/ file'["session"][i].owner = e
             \/ \E x \in Callers : FillsSession(x, i)' /\ body'[x].owner = e
  <2>1. CASE d = c
    BY <1>3, <1>f, <2>1, FillStep DEF FillsSession
  <2>2. CASE d # c
    BY <1>3, <1>g, <2>2 DEF FillsSession, GoodStep, OthersKept
  <2> QED
    BY <2>1, <2>2
<1> QED
  BY <1>1, <1>2, <1>3 DEF OwnersKnown

SettledNext(deps) ==
    \A b \in deps : file'["session"][b].status \in {"absent", "completed"}

LEMMA SettledStep ==
    ASSUME StoreTypeOK, Positions, SessionKept, NEW c \in Callers, StepOf(c),
           NEW D \in SUBSET Ids, Settled(D)
    PROVE  SettledNext(D)
<1> SUFFICES ASSUME NEW b \in D
             PROVE  file'["session"][b] = file["session"][b]
  BY DEF Settled, SettledNext
<1> SUFFICES ASSUME file'["session"][b] # file["session"][b] PROVE FALSE
  OBVIOUS
<1>1. list[c] = "session" /\ task[c] = b /\ (UpdateOpens(c) \/ UpdateFills(c))
  BY SessionWrite
<1>2. SessionAt(c) /\ pc[c] \in {"updOpen", "updFill"}
  BY <1>1 DEF SessionKept, UpdateOpens, UpdateFills, Goto
<1> QED
  BY <1>1, <1>2 DEF SessionAt, Mine, Settled, Blank

\* A claim comes to a task, with no lock or with one.
LEMMA InWorkStep ==
    ASSUME StoreTypeOK, Positions, NEW c \in Callers, StepOf(c),
           NEW e \in Callers, NEW i, InWork(e, i)'
    PROVE  InWork(e, i) \/ (e = c /\ ReadsBlockers(c) /\ i = task[c])
<1> USE DEF Goto, fileVars, lockVars, teamVars
<1>g. GoodStep(c)
  BY StepGood
<1>1. CASE i \in work'[e]
  BY <1>1, WorkStep DEF InWork, UpdateFills
<1>2. CASE op'[e] = "claim" /\ pc'[e] \in {"updOpen", "updFill"} /\ task'[e] = i
  <2>1. CASE e # c
    BY <1>2, <1>g, <2>1 DEF GoodStep, OthersKept, InWork
  <2>2. CASE e = c /\ LocksTask(c)
    <3>1. CASE ClaimLocks(c) \/ IsBlocked(c)
      BY <1>2, <2>2, <3>1 DEF ClaimLocks, IsBlocked, Done, StoreTypeOK, CallsTypeOK
    <3>2. CASE UpdateLocks(c)
      BY <1>2, <2>2, <3>2 DEF UpdateLocks, Positions, Position, PcsOf
    <3>3. CASE UpdateFills(c)
      <4>1. task[c] \in Ids /\ Updated(c)
        BY <3>3 DEF UpdateFills, Positions, Position
      <4> QED
        BY <1>2, <2>2, <4>1, UpdatedCall
    <3> QED
      BY <2>2, <3>1, <3>2, <3>3 DEF LocksTask
  <2>3. CASE e = c /\ ~LocksTask(c)
    <3>1. Critical(c) /\ task'[c] = task[c]
      BY <1>2, <2>3, LocksKept DEF NoLocking, Critical
    <3>2. CASE ReadsBlockers(c)
      BY <1>2, <2>3, <3>1, <3>2
    <3>3. CASE UpdateOpens(c)
      BY <1>2, <2>3, <3>1, <3>3 DEF UpdateOpens, InWork
    <3>4. CASE ~ReadsBlockers(c) /\ ~UpdateOpens(c)
      <4>1. pc'[c] = pc[c]
        BY <1>2, <2>3, <3>4, LocksKept DEF NoLocking, Critical
      <4>2. op[c] = "claim"
        BY <1>2, <2>3, <3>1, <3>4, SessionStep, <1>g, <4>1 DEF GoodStep, Position, LocksTask,
           Leaves, callVars
      <4> QED
        BY <1>2, <2>3, <3>1, <4>1, <4>2 DEF InWork
    <3> QED
      BY <3>2, <3>3, <3>4
  <2> QED
    BY <2>1, <2>2, <2>3
<1> QED
  BY <1>1, <1>2 DEF InWork

LEMMA BlindGrows ==
    ASSUME NEW c \in Callers, StepOf(c)
    PROVE  blind \subseteq blind'
<1>1. ReadsBlockers(c) => blind \subseteq blind'
  BY DEF ReadsBlockers
<1>2. ~ReadsBlockers(c) => blind' = blind
  BY DEF StepOf, Calls, ClaimNext, Delete, TakeOrComplete, Create, Reset, Unassign,
     BeginOnTeam, CallStep, UpdateStep, ClaimStep, ListStep, UpdateLocks, UpdateOpens,
     UpdateFills, UpdateFindsNone, LockThrows, LockTimesOut, Leaves, ClaimLocks,
     NotClaimable, IsBlocked, LockList, ReadsHighest, NewOpens, NewFills, ReadMark,
     MarkOpens, MarkFills, DeleteUnlinks, DeleteFindsNone, ResetUnlinks, ResetEnds,
     historyVars
<1> QED
  BY <1>1, <1>2

LEMMA BlockersSettledStep ==
    ASSUME StoreTypeOK, Positions, LocksHeld, SessionKept, BlockersSettled,
           NEW c \in Callers, StepOf(c)
    PROVE  BlockersSettled'
<1> SUFFICES ASSUME NEW e \in Callers, NEW i \in Ids, i \notin blind', InWork(e, i)'
             PROVE  /\ SettledNext(file'["session"][i].deps)
                    /\ \A d \in Callers : FillsSession(d, i)' => SettledNext(body'[d].deps)
  BY DEF BlockersSettled, Settled, SettledNext
<1> DEFINE deps == file["session"][i].deps
<1>g. GoodStep(c)
  BY StepGood
<1>b. i \notin blind
  BY BlindGrows
<1>t. deps \in SUBSET Ids /\ \A d \in Callers : body[d].deps \in SUBSET Ids
  BY DEF StoreTypeOK, FilesTypeOK, CallsTypeOK, Lists, File
<1>1. /\ Settled(deps)
      /\ \A d \in Callers : FillsSession(d, i) => Settled(body[d].deps)
  <2>1. CASE InWork(e, i)
    BY <1>b, <2>1 DEF BlockersSettled
  <2>2. CASE e = c /\ ReadsBlockers(c) /\ i = task[c]
    <3>1. /\ pc[c] = "blockers" /\ list[c] = "session" /\ ~FindsBlockers(c)
      BY <2>2 DEF ReadsBlockers, Goto, Positions, Position, PcsOf, StoreTypeOK,
         CallsTypeOK, Ops
    <3>2. Settled(deps)
      <4> SUFFICES ASSUME NEW b \in deps
                   PROVE  file["session"][b].status \in {"absent", "completed"}
        BY DEF Settled
      <4>1. ~Unresolved("session", b)
        BY <2>2, <3>1 DEF FindsBlockers, Blocked
      <4>2. file["session"][b].status # "torn"
        BY <2>2, <3>1 DEF ReadsBlockers, Mine
      <4> QED
        BY <4>1, <4>2 DEF Unresolved, Readable
    <3>3. ASSUME NEW d \in Callers PROVE ~FillsSession(d, i)
      BY <2>2, <3>1, CriticalAlone DEF FillsSession, Critical
    <3> QED
      BY <3>2, <3>3
  <2> QED
    BY <2>1, <2>2, InWorkStep
<1>2. /\ \A D \in SUBSET Ids : Settled(D) => SettledNext(D)
      /\ SettledNext({})
  BY SettledStep DEF SettledNext
<1>3. SettledNext(file'["session"][i].deps)
  <2>1. CASE file'["session"][i] = file["session"][i]
    BY <1>1, <1>2, <1>t, <2>1
  <2>2. CASE file'["session"][i] = Blank("torn")
    BY <1>2, <2>2 DEF Blank
  <2>3. CASE UpdateFills(c) /\ list[c] = "session" /\ task[c] = i
             /\ file'["session"][i] = body[c]
    BY <1>1, <1>2, <1>t, <2>3 DEF FillsSession, UpdateFills
  <2> QED
    BY <2>1, <2>2, <2>3, SessionWrite
<1>4. ASSUME NEW d \in Callers, FillsSession(d, i)' PROVE SettledNext(body'[d].deps)
  <2>1. CASE d # c
    BY <1>1, <1>2, <1>g, <1>t, <1>4, <2>1 DEF FillsSession, GoodStep, OthersKept
  <2>2. CASE d = c
    <3>1. c \in opened'
      BY <1>4, <2>2, SessionKeptStep DEF FillsSession, SessionKept, SessionAt
    <3>2. CASE UpdateOpens(c)
      <4>1. pc[c] = "updOpen" /\ UNCHANGED <<list, task, body>>
        BY <3>2 DEF UpdateOpens, Goto
      <4>2. list[c] = "session" /\ task[c] = i
        BY <1>4, <2>2, <4>1 DEF FillsSession
      <4>3. body[c].deps = deps
        BY <4>1, <4>2 DEF SessionKept, SessionAt, Mine
      <4> QED
        BY <1>1, <1>2, <1>t, <2>2, <4>1, <4>3
    <3>3. CASE ~UpdateOpens(c)
      <4>1. UNCHANGED <<pc, op, list, task, body>>
        BY <1>4, <2>2, <3>1, <3>3, OpenedStep DEF FillsSession, NewOpens, Goto, StoreTypeOK,
           CallsTypeOK
      <4> QED
        BY <1>1, <1>2, <1>t, <1>4, <2>2, <4>1 DEF FillsSession
    <3> QED
      BY <3>2, <3>3
  <2> QED
    BY <2>1, <2>2
<1> QED
  BY <1>3, <1>4

----------------------------------------------------------------------------
(* Resets, and completions.                                                *)

\* What a step adds to what a reset could not see, and takes away.
LEMMA UnseenStep ==
    ASSUME StoreTypeOK, Positions, NEW c \in Callers, StepOf(c)
    PROVE  /\ unseen \subseteq unseen'
           /\ (UpdateOpens(c) \/ NewOpens(c)) /\ list[c] = "team"
                 /\ (\E d \in Callers : op[d] = "reset") => task'[c] \in unseen'
           /\ lost' = lost \/ ResetUnlinks(c)
<1> USE DEF Goto, historyVars
<1>1. CASE UpdateOpens(c) \/ NewOpens(c)
  <2>1. task'[c] = IF UpdateOpens(c) THEN task[c] ELSE top[c] + 1
    BY <1>1 DEF UpdateOpens, NewOpens, StoreTypeOK, CallsTypeOK
  <2>2. UpdateOpens(c) => Open(c, task[c]) /\ lost' = lost
    BY DEF UpdateOpens
  <2>3. NewOpens(c) => Open(c, top[c] + 1) /\ lost' = lost
    BY DEF NewOpens
  <2> QED
    BY <1>1, <2>1, <2>2, <2>3 DEF Open
<1>2. CASE Calls(c)
  <2>1. pc[c] = "idle"
    BY <1>2 DEF Calls, ClaimNext, Delete, TakeOrComplete, Create, Reset, Unassign,
       BeginOnTeam, Begin
  <2>2. unseen \subseteq unseen' /\ lost' = lost
    BY <1>2 DEF Calls, ClaimNext, Delete, TakeOrComplete, Create, Reset, Unassign,
       BeginOnTeam
  <2> QED
    BY <2>1, <2>2 DEF UpdateOpens, NewOpens
<1>3. CASE ResetUnlinks(c)
  BY <1>3 DEF ResetUnlinks, UpdateOpens, NewOpens
<1>4. CASE ~(UpdateOpens(c) \/ NewOpens(c) \/ Calls(c) \/ ResetUnlinks(c))
  <2>1. unseen' = unseen /\ lost' = lost
    BY <1>4 DEF StepOf, CallStep, UpdateStep, ClaimStep, ListStep, UpdateLocks,
       UpdateFills, UpdateFindsNone, LockThrows, LockTimesOut, Leaves, ClaimLocks,
       NotClaimable, ReadsBlockers, IsBlocked, LockList, ReadsHighest, NewFills,
       ReadMark, MarkOpens, MarkFills, DeleteUnlinks, DeleteFindsNone, ResetEnds
  <2> QED
    BY <1>4, <2>1
<1> QED
  BY <1>1, <1>2, <1>3, <1>4

\* A reset begins with a look at the tasks.
LEMMA ResetBegins ==
    ASSUME StoreTypeOK, Positions, NEW c \in Callers, StepOf(c), op'[c] = "reset"
    PROVE  op[c] = "reset" \/ Reset(c)
<1> USE DEF Goto
<1>1. CASE Calls(c)
  <2>1. \/ Reset(c)
        \/ \E o \in Ops \ {"reset"} : \E l, i, from : Begin(c, o, l, i, from)
    BY <1>1 DEF Calls, ClaimNext, Delete, TakeOrComplete, Create, Unassign,
       BeginOnTeam, Ops
  <2> QED
    BY <2>1 DEF Begin, StoreTypeOK, CallsTypeOK
<1>2. CASE UpdateFindsNone(c) \/ UpdateFills(c)
  <2>1. Updated(c) /\ task[c] \in Ids
    BY <1>2 DEF UpdateFindsNone, UpdateFills, Positions, Position
  <2> QED
    BY <2>1, UpdatedCall
<1>3. CASE LockThrows(c) \/ LockTimesOut(c)
  BY <1>3, ThrewCall DEF LockThrows, LockTimesOut
<1>4. CASE NotClaimable(c) \/ NewFills(c) \/ DeleteFindsNone(c) \/ ResetEnds(c)
           \/ IsBlocked(c) \/ DeleteUnlinks(c)
  <2>1. Done(c) \/ op' = op
    BY <1>4 DEF NotClaimable, NewFills, DeleteFindsNone, ResetEnds, IsBlocked, DeleteUnlinks
  <2> QED
    BY <2>1 DEF Done, StoreTypeOK, CallsTypeOK
<1>5. CASE ~(\/ Calls(c) \/ UpdateFindsNone(c) \/ UpdateFills(c) \/ LockThrows(c)
             \/ LockTimesOut(c) \/ NotClaimable(c) \/ NewFills(c) \/ DeleteFindsNone(c)
             \/ ResetEnds(c) \/ IsBlocked(c) \/ DeleteUnlinks(c))
  <2>1. op' = op
    BY <1>5 DEF StepOf, CallStep, UpdateStep, ClaimStep, ListStep, UpdateLocks, UpdateOpens,
       Leaves, ClaimLocks, ReadsBlockers, LockList, ReadsHighest, NewOpens,
       ReadMark, MarkOpens, MarkFills, ResetUnlinks, callVars
  <2> QED
    BY <2>1
<1> QED
  BY <1>1, <1>2, <1>3, <1>4, <1>5

LEMMA ResetKnowsStep ==
    ASSUME StoreTypeOK, Positions, ResetKnows, NEW c \in Callers, StepOf(c)
    PROVE  ResetKnows'
<1>g. GoodStep(c)
  BY StepGood
<1>u. unseen \subseteq unseen'
  BY UnseenStep
<1>1. lost' \subseteq unseen'
  <2>1. CASE lost' = lost
    BY <1>u, <2>1 DEF ResetKnows
  <2>2. CASE ResetUnlinks(c)
    <3>1. pc[c] = "clear" /\ unseen' = unseen /\ todo[c] \subseteq Ids
      BY <2>2 DEF ResetUnlinks, StoreTypeOK, CallsTypeOK
    <3>2. op[c] = "reset"
      BY <3>1 DEF Positions, Position, PcsOf, StoreTypeOK, CallsTypeOK, Ops
    <3>3. PICK i \in todo[c] :
              lost' = IF file["team"][i].status \in {"absent", "completed"}
                      THEN lost ELSE lost \cup {i}
      BY <2>2 DEF ResetUnlinks
    <3> QED
      BY <3>1, <3>2, <3>3 DEF ResetKnows
  <2> QED
    BY <2>1, <2>2, UnseenStep
<1>2. ASSUME NEW r \in Callers, op'[r] = "reset"
      PROVE  /\ \A i \in Ids \ unseen' : file'["team"][i].status \in {"absent", "completed"}
             /\ \A d \in opened' : list'[d] = "team" => task'[d] \in unseen'
  <2>1. CASE Reset(c)
    <3>1. /\ UNCHANGED <<file, opened>> /\ AllCompleted /\ c \notin opened
          /\ \A i \in Ids : file["team"][i].status = "torn" => i \in unseen'
          /\ \A d \in opened : list[d] = "team" => task[d] \in unseen'
      BY <2>1 DEF Reset, BeginOnTeam, Begin, fileVars, Positions, Position
    <3>2. \A i \in Ids \ unseen' : file["team"][i].status \in {"absent", "completed"}
      BY <3>1 DEF AllCompleted, Unresolved, Readable
    <3>3. \A d \in opened : d \in Callers \ {c}
      BY <3>1 DEF StoreTypeOK, FilesTypeOK
    <3> QED
      BY <1>g, <3>1, <3>2, <3>3 DEF GoodStep, OthersKept
  <2>2. CASE ~Reset(c)
    <3>1. op[r] = "reset"
      BY <1>2, <1>g, <2>2, ResetBegins DEF GoodStep, OthersKept
    <3>2. /\ \A i \in Ids \ unseen : file["team"][i].status \in {"absent", "completed"}
          /\ \A d \in opened : list[d] = "team" => task[d] \in unseen
      BY <3>1 DEF ResetKnows
    <3>3. UpdateOpens(c) \/ NewOpens(c) => list'[c] = list[c] /\ (NewOpens(c) => list[c] = "team")
      BY DEF UpdateOpens, NewOpens, Goto, Positions, Position, PcsOf, StoreTypeOK,
         CallsTypeOK, Ops
    <3>4. (UpdateOpens(c) \/ NewOpens(c)) /\ list[c] = "team" => task'[c] \in unseen'
      BY <3>1, UnseenStep
    <3>5. (UpdateOpens(c) => task'[c] = task[c]) /\ (NewOpens(c) => task'[c] = top[c] + 1)
      BY DEF UpdateOpens, NewOpens, StoreTypeOK, CallsTypeOK
    <3>6. ASSUME NEW i \in Ids \ unseen', file'["team"][i] # file["team"][i]
          PROVE  file'["team"][i].status = "absent"
      <4>1. list[c] \in Lists /\ "team" \in Lists
        BY DEF StoreTypeOK, CallsTypeOK, Lists
      <4>2. CASE UpdateOpens(c) /\ Writes(list[c], task[c], Blank("torn"))
        BY <3>4, <3>5, <3>6, <4>1, <4>2 DEF Writes
      <4>3. CASE UpdateFills(c) /\ c \in opened /\ Writes(list[c], task[c], body[c])
        BY <1>u, <3>2, <3>6, <4>1, <4>3 DEF Writes
      <4>4. ASSUME NEW j, NEW v, Writes("team", j, v),
                   \/ v.status = "absent"
                   \/ v.status = "torn" /\ NewOpens(c) /\ j = top[c] + 1
                   \/ v.status = "pending" /\ NewFills(c) /\ c \in opened /\ j = task[c]
            PROVE  file'["team"][i].status = "absent"
        <5>1. j = i /\ file'["team"][i] = v
          BY <3>6, <4>1, <4>4 DEF Writes
        <5>2. ~NewOpens(c)  \/ j # top[c] + 1
          BY <3>3, <3>4, <3>5, <3>6, <5>1
        <5>3. ~(NewFills(c) /\ c \in opened /\ j = task[c])
          BY <1>u, <3>2, <3>6, <5>1 DEF NewFills, Positions, Position, PcsOf,
             StoreTypeOK, CallsTypeOK, Ops
        <5> QED
          BY <4>4, <5>1, <5>2, <5>3
      <4> QED
        BY <3>6, <4>2, <4>3, <4>4, FileStep
    <3>7. \A i \in Ids \ unseen' : file'["team"][i].status \in {"absent", "completed"}
      BY <1>u, <3>2, <3>6
    <3>8. ASSUME NEW d \in opened', list'[d] = "team" PROVE task'[d] \in unseen'
      <4>1. d \in Callers
        BY <1>g DEF GoodStep, StoreTypeOK, FilesTypeOK
      <4>2. CASE d # c
        BY <1>g, <1>u, <3>2, <3>8, <4>1, <4>2 DEF GoodStep, OthersKept
      <4>3. CASE d = c
        BY <1>u, <3>2, <3>3, <3>4, <3>8, <4>3, OpenedStep
      <4> QED
        BY <4>2, <4>3
    <3> QED
      BY <3>7, <3>8
  <2> QED
    BY <2>1, <2>2
<1> QED
  BY <1>1, <1>2 DEF ResetKnows

LEMMA CompletionsRepeatedStep ==
    ASSUME StoreTypeOK, Positions, LocksHeld, CompletionsRepeated,
           NEW c \in Callers, StepOf(c)
    PROVE  CompletionsRepeated'
<1> SUFFICES ASSUME NEW d \in Callers, pc'[d] = "updOpen", list'[d] = "team",
                    Mine(d)'.status = "completed"
             PROVE  body'[d].status = "completed" \/ op'[d] \in {"unassign", "take"}
  BY DEF CompletionsRepeated
<1>g. GoodStep(c)
  BY StepGood
<1>1. CASE d # c
  <2>1. /\ pc'[d] = pc[d] /\ op'[d] = op[d] /\ list'[d] = list[d]
        /\ task'[d] = task[d] /\ body'[d] = body[d] /\ task[d] \in Ids
    BY <1>g, <1>1 DEF GoodStep, OthersKept, Positions, Position
  <2>2. ~(Critical(c) /\ list[c] = "team" /\ task[c] = task[d])
    BY <1>1, <2>1, CriticalAlone DEF Critical
  <2>3. UpdateOpens(c) \/ UpdateFills(c) => Critical(c) /\ list[c] \in Lists
    BY DEF UpdateOpens, UpdateFills, Goto, Critical, StoreTypeOK, CallsTypeOK
  <2>4. Mine(d)' = file'["team"][task[d]]
    BY <2>1 DEF Mine
  <2>5. file'["team"][task[d]] = file["team"][task[d]]
    BY <2>1, <2>2, <2>3, <2>4, FileStep DEF Writes, Lists
  <2> QED
    BY <2>1, <2>4, <2>5 DEF CompletionsRepeated, Mine
<1>2. CASE d = c
  <2>1. CASE UpdateLocks(c)
    <3>1. /\ pc[c] = "updLock" /\ UNCHANGED <<file, list, task, op>> /\ body'[c] = Changed(c)
      BY <2>1 DEF UpdateLocks, Goto, fileVars, StoreTypeOK, CallsTypeOK
    <3>2. Mine(c)' = Mine(c) /\ Mine(c) \in File
      BY <3>1 DEF Mine, Positions, Position, StoreTypeOK, FilesTypeOK, CallsTypeOK
    <3>3. op[c] \in UpdateOps \ {"start"}
      BY <1>2, <3>1 DEF Positions, Position, PcsOf, StoreTypeOK, CallsTypeOK, Ops, UpdateOps
    <3>4. CASE op[c] = "complete"
      <4>1. Changed(c) = [Mine(c) EXCEPT !.status = "completed"]
        BY <3>4 DEF Changed
      <4> QED
        BY <1>2, <3>1, <3>2, <4>1 DEF File
    <3>5. CASE op[c] = "delete"
      <4>1. Changed(c) = [Mine(c) EXCEPT !.deps = @ \ {top[c]}]
        BY <3>5 DEF Changed
      <4> QED
        BY <1>2, <3>1, <3>2, <4>1 DEF File
    <3> QED
      BY <1>2, <3>1, <3>3, <3>4, <3>5 DEF UpdateOps
  <2>2. CASE ~LocksTask(c)
    <3>1. Critical(c) /\ list[c] = "team" /\ task'[c] = task[c]
      BY <1>2, <2>2, LocksKept DEF NoLocking, Critical
    <3>2. ~ReadsBlockers(c)
      BY <3>1 DEF ReadsBlockers, Goto, Positions, Position, PcsOf, StoreTypeOK,
         CallsTypeOK, Ops
    <3>3. ~UpdateOpens(c)
      BY <1>2 DEF UpdateOpens, Goto, StoreTypeOK, CallsTypeOK
    <3>4. pc[c] = "updOpen"
      BY <1>2, <2>2, <3>2, <3>3, LocksKept DEF NoLocking, Critical
    <3>5. Leaves(c)
      BY <2>2, <3>3, <3>4 DEF StepOf, Calls, ClaimNext, Delete, TakeOrComplete, Create,
         Reset, Unassign, BeginOnTeam, Begin, Goto, CallStep, UpdateStep, ClaimStep,
         ListStep, LocksTask, UpdateFindsNone, LockThrows, LockTimesOut, NotClaimable,
         ReadsBlockers, LockList, ReadsHighest, NewOpens, NewFills, ReadMark, MarkOpens,
         MarkFills, DeleteUnlinks, DeleteFindsNone, ResetUnlinks, ResetEnds
    <3> QED
      BY <1>2, <3>4, <3>5 DEF Leaves, callVars, fileVars, CompletionsRepeated, Mine
  <2>3. CASE ClaimLocks(c) \/ IsBlocked(c)
    BY <1>2, <2>3 DEF ClaimLocks, IsBlocked, Goto, Done, StoreTypeOK, CallsTypeOK
  <2>4. CASE UpdateFills(c)
    <3>1. Updated(c) /\ task[c] \in Ids
      BY <2>4 DEF UpdateFills, Positions, Position
    <3> QED
      BY <1>2, <3>1, UpdatedCall
  <2> QED
    BY <2>1, <2>2, <2>3, <2>4 DEF LocksTask
<1> QED
  BY <1>1, <1>2

----------------------------------------------------------------------------
(* The invariant, and the theorems.                                        *)

LEMMA StepInv == IInv /\ [Next]_vars => IInv'
<1> SUFFICES ASSUME IInv, [Next]_vars PROVE IInv'
  OBVIOUS
<1>1. ASSUME NEW c \in Callers, StepOf(c) PROVE IInv'
  <2>1. StoreTypeOK' /\ Positions'
    BY <1>1, StepGood DEF IInv, GoodStep
  <2>2. LocksHeld' /\ SessionKept'
    BY <1>1, LocksHeldKept, SessionKeptStep DEF IInv
  <2>3. OwnersKnown' /\ BlockersSettled'
    BY <1>1, OwnersKnownStep, BlockersSettledStep DEF IInv
  <2>4. ResetKnows' /\ CompletionsRepeated'
    BY <1>1, ResetKnowsStep, CompletionsRepeatedStep DEF IInv
  <2> QED
    BY <2>1, <2>2, <2>3, <2>4 DEF IInv
<1>2. CASE UNCHANGED vars
  <2> USE <1>2 DEF IInv, vars, fileVars, lockVars, callVars, teamVars, historyVars
  <2>1. StoreTypeOK' /\ Positions' /\ LocksHeld'
    BY DEF StoreTypeOK, FilesTypeOK, CallsTypeOK, Positions, Position, LocksHeld
  <2>2. SessionKept' /\ OwnersKnown'
    BY DEF SessionKept, SessionAt, Mine, OwnersKnown, FillsSession
  <2>3. BlockersSettled'
    BY DEF BlockersSettled, Settled, InWork, FillsSession
  <2>4. ResetKnows' /\ CompletionsRepeated'
    BY DEF ResetKnows, CompletionsRepeated, Mine
  <2> QED
    BY <2>1, <2>2, <2>3, <2>4
<1> QED
  BY <1>1, <1>2 DEF Next, StepOf

LEMMA Invariant == Spec => []IInv
BY InitInv, StepInv, PTL DEF Spec

LEMMA ClaimedOnceHolds == IInv => ClaimedOnce
<1> SUFFICES ASSUME IInv, NEW c \in Callers, NEW d \in Callers, c # d,
                    NEW i \in work[c], i \in work[d]
             PROVE  FALSE
  BY DEF ClaimedOnce
<1>1. ASSUME NEW x \in Callers, FillsSession(x, i), NEW e \in Callers
      PROVE  file["session"][i].owner # e
  <2>1. file["session"][i] = Blank("torn")
    BY <1>1 DEF IInv, SessionKept, SessionAt, FillsSession, Mine
  <2> QED
    BY <2>1 DEF Blank, CallersAssumption
<1>2. PICK x \in Callers : FillsSession(x, i) /\ body[x].owner = c
  BY <1>1 DEF IInv, OwnersKnown
<1>3. PICK y \in Callers : FillsSession(y, i) /\ body[y].owner = d
  BY <1>1, <1>2 DEF IInv, OwnersKnown
<1>4. x = y
  BY <1>2, <1>3, CriticalAlone DEF IInv, FillsSession, Critical
<1> QED
  BY <1>2, <1>3, <1>4

(* claimTask: no two teammates are told to work on the same task, however  *)
(* their claims, and the other calls on the lists, come between each other.*)
THEOREM TasksClaimedOnce == Spec => []ClaimedOnce
BY Invariant, ClaimedOnceHolds, PTL

LEMMA BlockersRespectedHolds == IInv => BlockersRespected
<1> SUFFICES ASSUME IInv, NEW c \in Callers, NEW i \in work[c], Blocked("session", i),
                    i \notin blind
             PROVE  FALSE
  BY DEF BlockersRespected
<1>1. i \in Ids
  BY DEF IInv, StoreTypeOK, CallsTypeOK
<1>2. Settled(file["session"][i].deps)
  BY <1>1 DEF IInv, BlockersSettled, InWork
<1> QED
  BY <1>2 DEF Settled, Blocked, Unresolved, Readable

(* claimTask: what blocks a claimed task was resolved, and stays so, unless *)
(* its file was being written as the claim looked.                          *)
THEOREM ClaimsRespectBlockers == Spec => []BlockersRespected
BY Invariant, BlockersRespectedHolds, PTL

LEMMA ResetSparesWorkHolds == IInv => ResetSparesWork
BY DEF IInv, ResetKnows, ResetSparesWork

(* resetTaskList: what a reset removes unfinished, the check before it had  *)
(* no chance to see.                                                        *)
THEOREM ResetsSpareWork == Spec => []ResetSparesWork
BY Invariant, ResetSparesWorkHolds, PTL

LEMMA CompletedStaysStep ==
    ASSUME IInv, [Next]_vars, NEW i \in reopened' \ reopened
    PROVE  \E c \in Callers : op[c] \in {"unassign", "take"} /\ task[c] = i
<1>1. PICK c \in Callers : StepOf(c)
  <2>1. ~UNCHANGED vars
    BY DEF vars, historyVars
  <2> QED
    BY <2>1 DEF Next, StepOf
<1>2. UpdateOpens(c)
  BY <1>1 DEF StepOf, Calls, ClaimNext, Delete, TakeOrComplete, Create, Reset, Unassign,
     BeginOnTeam, CallStep, UpdateStep, ClaimStep, ListStep, UpdateLocks, UpdateFills,
     UpdateFindsNone, LockThrows, LockTimesOut, Leaves, ClaimLocks, NotClaimable,
     ReadsBlockers, IsBlocked, LockList, ReadsHighest, NewOpens, NewFills, ReadMark,
     MarkOpens, MarkFills, DeleteUnlinks, DeleteFindsNone, ResetUnlinks, ResetEnds,
     historyVars
<1>3. /\ pc[c] = "updOpen" /\ task[c] = i
      /\ Mine(c).status = "completed" /\ body[c].status # "completed"
  BY <1>2 DEF UpdateOpens, Goto
<1>4. list[c] = "team"
  BY <1>3 DEF IInv, SessionKept, SessionAt, StoreTypeOK, CallsTypeOK, Lists
<1> QED
  BY <1>3, <1>4 DEF IInv, CompletionsRepeated

(* updateTask, which reads the task under its lock: a completion is taken   *)
(* back only by an update of the status.                                    *)
THEOREM CompletionsStay == Spec => CompletedStays
<1>1. IInv /\ [Next]_vars =>
        [\A i \in reopened' \ reopened :
            \E c \in Callers : op[c] \in {"unassign", "take"} /\ task[c] = i]_vars
  BY CompletedStaysStep
<1> QED
  BY <1>1, Invariant, PTL DEF Spec, CompletedStays

----------------------------------------------------------------------------
(* The highest of some ids.                                                *)

\* The least number principle, of which the next lemma is the mirror image.
LEMMA LeastOf ==
    ASSUME NEW S \in SUBSET Nat, S # {}
    PROVE  \E m \in S : \A n \in S : m <= n
<1>1. IsWellFoundedOn(OpToRel(<, Nat), Nat)
  BY NatLessThanWellFounded
<1>2. PICK m \in S : \A n \in S : <<n, m>> \notin OpToRel(<, Nat)
  BY <1>1, WFMin
<1>3. \A n \in S : ~(n < m)
  BY <1>2 DEF OpToRel
<1> QED
  BY <1>3

LEMMA GreatestOf ==
    ASSUME NEW b \in Nat, NEW S \in SUBSET (0..b), S # {}
    PROVE  \E m \in S : \A n \in S : n <= m
<1> DEFINE D == {k \in 0..b : b - k \in S}
<1>1. PICK s \in S : TRUE
  OBVIOUS
<1>2. b - s \in D
  OBVIOUS
<1>3. D \in SUBSET Nat /\ D \in SUBSET (0..b)
  OBVIOUS
<1>4. \A n \in S : b - n \in D /\ n \in 0..b
  OBVIOUS
<1>5. \A k \in D : b - k \in S
  OBVIOUS
<1> HIDE DEF D
<1>6. D # {}
  BY <1>2
<1>7. PICK d \in D : \A e \in D : d <= e
  BY <1>3, <1>6, LeastOf
<1>8. ASSUME NEW n \in S PROVE n <= b - d
  <2>1. d <= b - n /\ d \in 0..b
    BY <1>3, <1>4, <1>7
  <2> QED
    BY <1>4, <2>1
<1> QED
  BY <1>5, <1>7, <1>8

\* findHighestTaskId: it is one of them, or zero, and none is higher.
LEMMA HighestIs ==
    ASSUME NEW ids \in SUBSET (0..MaxId)
    PROVE  HighestOf(ids) \in ids \cup {0} /\ \A i \in ids : i <= HighestOf(ids)
<1>1. \E m \in ids \cup {0} : \A i \in ids : i <= m
  <2>1. CASE ids = {}
    BY <2>1
  <2>2. CASE ids # {}
    BY <2>2, GreatestOf
  <2> QED
    BY <2>1, <2>2
<1> QED
  BY <1>1 DEF HighestOf

----------------------------------------------------------------------------
(* Ids.                                                                    *)

\* What is on the list, marked or remembered has been given as an id, and so
\* has what the callers on the team's list are about.
UsedKnown ==
    /\ used \subseteq Ids /\ Listed("team") \subseteq used
    /\ mark \in [Lists -> used \cup {0}] /\ top \in [Callers -> used \cup {0}]
    /\ \A c \in Callers : list[c] = "team" =>
          task[c] \in used \cup {0} /\ todo[c] \subseteq used

\* The bound leaves room for the ids that are still to be given.
Creating == {c \in Callers : op[c] = "create" /\ pc[c] # "newFill"}
RoomLeft == \A u \in used \cup {0} : u + Cardinality(Creating) <= MaxId

\* The list's lock is with the call that gives an id or clears the list.
HoldsList(c) ==
    \/ pc[c] \in {"both", "dirLeft", "markLeft", "newOpen", "newFill", "clear"}
    \/ op[c] = "reset" /\ pc[c] # "listLock"
ListHeld ==
    /\ listLock \in [Lists -> Callers \cup {NoOne}]
    /\ \A c \in Callers : HoldsList(c) => listLock["team"] = c

RacesKnown ==
    ~raced => \A c, d \in Callers :
        c # d /\ op[c] = "delete" => op[d] \notin {"create", "delete", "reset"}

\* An update fills in a task, never a missing one.
BodyReal ==
    \A c \in Callers : pc[c] \in {"updOpen", "updFill"} => body[c].status # "absent"

\* No id is above those of S.
Covered(S) == \A u \in used : \E m \in S : u <= m

\* What a call has read, or is about to write, covers the ids so far.
CoveredAt(c) ==
    /\ pc[c] = "dirLeft" => Covered(Listed("team") \cup {top[c]})
    /\ pc[c] = "markLeft" => Covered({top[c], mark["team"]})
    /\ pc[c] = "newOpen" => Covered({top[c]})
    /\ op[c] = "reset" =>
          /\ pc[c] = "readMark" => Covered({top[c], mark["team"]})
          /\ pc[c] \in {"markOpen", "markFill"} => Covered({top[c]})
          /\ pc[c] = "clear" => Covered({mark["team"]})
    /\ op[c] = "delete" =>
          /\ pc[c] \in {"readMark", "markOpen", "markFill", "unlink"} => task[c] = top[c]
          /\ pc[c] = "markOpen" => mark["team"] < top[c]
          /\ pc[c] = "markFill" => Covered(Listed("team") \cup {top[c]})
          /\ pc[c] = "unlink" => top[c] <= mark["team"]

IdsCovered ==
    ~raced =>
        /\ ~reused
        /\ (\A c \in Callers : pc[c] # "markFill")
              => Covered(Listed("team") \cup {mark["team"]})
        /\ \A c \in Callers : CoveredAt(c)

IdInv == UsedKnown /\ RoomLeft /\ ListHeld /\ RacesKnown /\ BodyReal /\ IdsCovered

LEMMA InitIds == Init => IdInv
<1> SUFFICES ASSUME Init PROVE IdInv
  OBVIOUS
<1> USE DEF Init
<1>1. UsedKnown
  BY DEF UsedKnown, Listed, Lists
<1>2. RoomLeft
  <2>1. Creating = {}
    BY DEF Creating
  <2>2. Cardinality(Creating) = 0
    BY <2>1, FS_EmptySet
  <2> QED
    BY <1>1, <2>2 DEF RoomLeft, UsedKnown, Ids
<1>3. ListHeld /\ RacesKnown /\ BodyReal
  BY DEF ListHeld, HoldsList, RacesKnown, BodyReal, Lists
<1>4. IdsCovered
  BY DEF IdsCovered, CoveredAt, Covered, Listed, Ids
<1> QED
  BY <1>1, <1>2, <1>3, <1>4 DEF IdInv

\* What a step may do to the variables about ids.
LEMMA IdVarsStep ==
    ASSUME StoreTypeOK, Positions, NEW c \in Callers, StepOf(c)
    PROVE  /\ raced => raced'
           /\ UNCHANGED <<used, reused>> \/ NewOpens(c)
           /\ mark' = mark \/ MarkOpens(c) \/ MarkFills(c)
           /\ listLock' = listLock \/ LockList(c) \/ NewFills(c) \/ ResetEnds(c)
           /\ \/ top' = top \/ top' = [top EXCEPT ![c] = 0]
              \/ LockList(c) \/ ReadsHighest(c) \/ \E i \in Ids : Delete(c, i)
<1> USE DEF Goto, fileVars, lockVars, teamVars, historyVars
<1>1. CASE Calls(c)
  <2>1. UNCHANGED <<used, reused, mark, listLock>>
    BY <1>1 DEF Calls, ClaimNext, Delete, TakeOrComplete, Create, Reset, Unassign,
       BeginOnTeam, Begin
  <2>r. raced => raced'
    <3>1. \/ raced' = raced
          \/ \E o, i, from : BeginOnTeam(c, o, i, from)
      BY <1>1 DEF Calls, ClaimNext, Delete, TakeOrComplete, Create, Reset, Unassign
    <3>2. ASSUME NEW o, NEW i, NEW from, BeginOnTeam(c, o, i, from) PROVE raced => raced'
      BY <3>2, Zenon DEF BeginOnTeam
    <3> QED
      BY <3>1, <3>2
  <2>2. top' = top \/ \E i \in Ids : Delete(c, i)
    BY <1>1 DEF Calls, ClaimNext, TakeOrComplete, Create, Reset, Unassign,
       BeginOnTeam, Begin
  <2> QED
    BY <2>1, <2>r, <2>2
<1>2. CASE UpdateFindsNone(c) \/ UpdateFills(c)
  <2>1. Updated(c) /\ UNCHANGED <<used, reused, mark, listLock, raced>>
    BY <1>2 DEF UpdateFindsNone, UpdateFills
  <2> QED
    BY <2>1 DEF Updated, NextUpdate, Done
<1>3. CASE LockThrows(c) \/ LockTimesOut(c) \/ NotClaimable(c) \/ IsBlocked(c)
           \/ DeleteFindsNone(c)
  BY <1>3 DEF LockThrows, LockTimesOut, NotClaimable, IsBlocked, DeleteFindsNone, Threw, Done
<1>4. CASE UpdateLocks(c) \/ UpdateOpens(c) \/ ClaimLocks(c) \/ ReadsBlockers(c)
           \/ ResetUnlinks(c)
  BY <1>4 DEF UpdateLocks, UpdateOpens, Open, ClaimLocks, ReadsBlockers, ResetUnlinks, Unlink
<1>5. CASE LockList(c) \/ ReadsHighest(c)
  BY <1>5 DEF LockList, ReadsHighest
<1>6. CASE NewOpens(c)
  BY <1>6 DEF NewOpens
<1>7. CASE NewFills(c) \/ ResetEnds(c)
  BY <1>7 DEF NewFills, ResetEnds, Done
<1>8. CASE ReadMark(c) \/ MarkOpens(c) \/ MarkFills(c)
  BY <1>8 DEF ReadMark, MarkOpens, MarkFills
<1>9. CASE DeleteUnlinks(c)
  <2>1. UNCHANGED <<used, reused, mark, listLock, raced>>
    BY <1>9 DEF DeleteUnlinks
  <2>2. top' = top \/ Done(c)
    BY <1>9 DEF DeleteUnlinks
  <2> QED
    BY <2>1, <2>2 DEF Done
<1>10. CASE Leaves(c)
  BY <1>10 DEF Leaves, callVars
<1> QED
  BY <1>1, <1>2, <1>3, <1>4, <1>5, <1>6, <1>7, <1>8, <1>9, <1>10
     DEF StepOf, CallStep, UpdateStep, ClaimStep, ListStep

LEMMA HighestListed ==
    ASSUME UsedKnown, NEW c \in Callers
    PROVE  /\ HighestOf(Listed("team")) \in used \cup {0}
           /\ \A i \in Listed("team") : i <= HighestOf(Listed("team"))
           /\ \A ids \in {Listed("team"), {mark["team"]}} :
                 /\ Higher(c, ids) \in used \cup {0}
                 /\ \A i \in ids \cup {top[c]} : i <= Higher(c, ids)
<1>0. used \cup {0} \subseteq 0..MaxId
  BY DEF UsedKnown, Ids
<1>1. Listed("team") \in SUBSET (0..MaxId) /\ Listed("team") \subseteq used
  BY <1>0 DEF UsedKnown
<1>2. mark["team"] \in (used \cup {0}) \cap (0..MaxId) /\ top[c] \in (used \cup {0}) \cap (0..MaxId)
  BY <1>0 DEF UsedKnown, Lists
<1>3. ASSUME NEW ids \in {Listed("team"), {mark["team"]}}
      PROVE  /\ Higher(c, ids) \in used \cup {0}
             /\ \A i \in ids \cup {top[c]} : i <= Higher(c, ids)
  <2>1. ids \cup {top[c]} \in SUBSET (0..MaxId) /\ ids \cup {top[c]} \subseteq used \cup {0}
    BY <1>1, <1>2
  <2> QED
    BY <2>1, HighestIs DEF Higher
<1> QED
  BY <1>1, <1>3, HighestIs

\* What is listed after a step.
LEMMA ListedStep ==
    ASSUME StoreTypeOK, Positions, BodyReal, NEW c \in Callers, StepOf(c)
    PROVE  /\ DeleteUnlinks(c) \/ ResetUnlinks(c) \/ Listed("team") \subseteq Listed("team")'
           /\ \A i \in Listed("team")' \ Listed("team") :
                 \/ NewOpens(c) /\ i = top[c] + 1
                 \/ list[c] = "team" /\ i = task[c]
<1>1. \A i \in Ids : i \in Listed("team") <=> file["team"][i].status # "absent"
  BY DEF Listed
<1>2. \A i \in Ids : i \in Listed("team")' <=> file'["team"][i].status # "absent"
  BY DEF Listed
<1>3. Listed("team") \subseteq Ids /\ Listed("team")' \subseteq Ids
  BY DEF Listed
<1>t. "team" \in Lists /\ Blank("torn").status = "torn"
  BY DEF Lists, Blank
<1>4. CASE file' = file
  BY <1>1, <1>2, <1>3, <1>4
<1>5. CASE UpdateOpens(c) /\ Writes(list[c], task[c], Blank("torn"))
  BY <1>1, <1>2, <1>3, <1>t, <1>5 DEF Writes
<1>6. CASE UpdateFills(c) /\ Writes(list[c], task[c], body[c])
  <2>1. body[c].status # "absent"
    BY <1>6 DEF BodyReal, UpdateFills
  <2> QED
    BY <1>1, <1>2, <1>3, <1>t, <1>6, <2>1 DEF Writes
<1>7. ASSUME TeamFiles(c), NEW i, NEW v, Writes("team", i, v),
             \/ v.status = "absent" /\ (DeleteUnlinks(c) \/ ResetUnlinks(c))
             \/ v.status = "torn" /\ NewOpens(c) /\ i = top[c] + 1
             \/ v.status = "pending" /\ NewFills(c) /\ c \in opened /\ i = task[c]
      PROVE  /\ DeleteUnlinks(c) \/ ResetUnlinks(c) \/ Listed("team") \subseteq Listed("team")'
             /\ \A j \in Listed("team")' \ Listed("team") :
                   \/ NewOpens(c) /\ j = top[c] + 1
                   \/ list[c] = "team" /\ j = task[c]
  <2>1. NewFills(c) => list[c] = "team"
    BY DEF NewFills, Positions, Position, PcsOf
  <2>2. \A j \in Ids : file'["team"][j] = IF j = i THEN v ELSE file["team"][j]
    BY <1>t, <1>7 DEF Writes
  <2> QED
    BY <1>1, <1>2, <1>3, <1>7, <2>1, <2>2
<1> QED
  BY <1>4, <1>5, <1>6, <1>7, FileStep

\* What a caller on the team's list is about after a step.
About(c) == list[c] = "team" => task[c] \in used \cup {0} /\ todo[c] \subseteq used

LEMMA AboutStep ==
    ASSUME StoreTypeOK, Positions, UsedKnown, NEW c \in Callers, StepOf(c)
    PROVE  About(c)'
<1> USE DEF Goto, fileVars, lockVars, teamVars, historyVars
<1>t. /\ About(c)
      /\ task = [d \in Callers |-> task[d]] /\ todo \in [Callers -> SUBSET Ids]
      /\ list \in [Callers -> Lists]
  BY DEF UsedKnown, About, StoreTypeOK, CallsTypeOK
<1>r. \A i \in Ids : Readable("team", i) => i \in used
  BY DEF Readable, UsedKnown, Listed
<1>d. Done(c) => About(c)'
  BY <1>t DEF Done, About
<1>k. UNCHANGED <<used, list, task, todo>> => About(c)'
  BY <1>t DEF About
<1>1. CASE Calls(c)
  <2>1. pc[c] = "idle" /\ used' = used
    BY <1>1 DEF Calls, ClaimNext, Delete, TakeOrComplete, Create, Reset, Unassign,
       BeginOnTeam, Begin
  <2>2. list[c] = "team"
    BY <2>1 DEF Positions, Position, PcsOf, StoreTypeOK, CallsTypeOK, Ops
  <2>3. ASSUME NEW i \in Ids, ClaimNext(c, i) PROVE About(c)'
    BY <1>t, <2>3 DEF ClaimNext, Begin, About
  <2>4. ASSUME NEW i \in Ids, NEW o, Delete(c, i) \/ TakeOrComplete(c, o, i)
        PROVE  About(c)'
    BY <1>t, <1>r, <2>1, <2>2, <2>4 DEF Delete, TakeOrComplete, BeginOnTeam, Begin, About
  <2>5. CASE Create(c) \/ Reset(c)
    BY <1>t, <2>1, <2>2, <2>5 DEF Create, Reset, BeginOnTeam, Begin, About
  <2>6. ASSUME NEW d \in Teammates, Unassign(c, d) PROVE About(c)'
    <3> DEFINE theirs == {i \in Ids : /\ Unresolved("team", i)
                                      /\ file["team"][i].owner = d}
    <3>1. PICK i \in theirs :
              /\ BeginOnTeam(c, "unassign", i, "updLock")
              /\ todo' = [todo EXCEPT ![c] = theirs \ {i}]
      BY <2>6 DEF Unassign
    <3>2. theirs \subseteq used
      BY <1>r DEF Unresolved
    <3> HIDE DEF theirs
    <3> QED
      BY <1>t, <2>1, <3>1, <3>2 DEF BeginOnTeam, Begin, About
  <2> QED
    BY <1>1, <2>3, <2>4, <2>5, <2>6 DEF Calls
<1>2. CASE UpdateFindsNone(c) \/ UpdateFills(c)
  <2>1. Updated(c) /\ used' = used
    BY <1>2 DEF UpdateFindsNone, UpdateFills
  <2>2. CASE op[c] = "claim"
    BY <1>k, <2>1, <2>2 DEF Updated
  <2>3. CASE op[c] # "claim" /\ todo[c] = {}
    BY <1>d, <2>1, <2>3 DEF Updated, NextUpdate
  <2>4. CASE op[c] # "claim" /\ todo[c] # {}
    <3>1. PICK i \in todo[c] : /\ task' = [task EXCEPT ![c] = i]
                               /\ todo' = [todo EXCEPT ![c] = @ \ {i}]
      BY <2>1, <2>4 DEF Updated, NextUpdate
    <3>2. list' = list
      BY <2>1, <2>4 DEF Updated, NextUpdate
    <3> QED
      BY <1>t, <2>1, <3>1, <3>2 DEF About
  <2> QED
    BY <2>2, <2>3, <2>4
<1>3. CASE LockThrows(c) \/ LockTimesOut(c) \/ NotClaimable(c) \/ IsBlocked(c)
           \/ DeleteFindsNone(c) \/ NewFills(c) \/ ResetEnds(c)
  BY <1>3, <1>d DEF LockThrows, LockTimesOut, NotClaimable, IsBlocked, DeleteFindsNone,
     NewFills, ResetEnds, Threw
<1>4. CASE UpdateLocks(c) \/ UpdateOpens(c) \/ ClaimLocks(c) \/ ReadsBlockers(c)
           \/ LockList(c) \/ ReadsHighest(c) \/ MarkOpens(c) \/ Leaves(c)
  BY <1>4, <1>k DEF UpdateLocks, UpdateOpens, ClaimLocks, ReadsBlockers, LockList,
     ReadsHighest, MarkOpens, Leaves, callVars
<1>5. CASE NewOpens(c)
  BY <1>5, <1>t DEF NewOpens, About
<1>6. CASE ReadMark(c) \/ MarkFills(c)
  <2>1. todo' = todo \/ todo' = [todo EXCEPT ![c] = Listed("team")]
    BY <1>6 DEF ReadMark, MarkFills, Marked
  <2>2. UNCHANGED <<used, list, task>>
    BY <1>6 DEF ReadMark, MarkFills
  <2> QED
    BY <1>t, <2>1, <2>2 DEF About, UsedKnown
<1>7. CASE DeleteUnlinks(c) /\ ~Done(c)
  <2> DEFINE referring == {i \in Ids \ {task[c]} :
                              /\ Readable("team", i)
                              /\ task[c] \in file["team"][i].deps}
  <2>1. PICK i \in referring : /\ task' = [task EXCEPT ![c] = i]
                               /\ todo' = [todo EXCEPT ![c] = referring \ {i}]
    BY <1>7 DEF DeleteUnlinks
  <2>2. UNCHANGED <<used, list>>
    BY <1>7 DEF DeleteUnlinks
  <2>3. referring \subseteq used
    BY <1>r
  <2> HIDE DEF referring
  <2> QED
    BY <1>t, <2>1, <2>2, <2>3 DEF About
<1>8. CASE ResetUnlinks(c)
  <2>1. PICK i : todo' = [todo EXCEPT ![c] = @ \ {i}]
    BY <1>8 DEF ResetUnlinks
  <2> QED
    BY <1>8, <1>t, <2>1 DEF ResetUnlinks, About
<1> QED
  BY <1>1, <1>2, <1>3, <1>4, <1>5, <1>6, <1>7, <1>8, <1>d
     DEF StepOf, CallStep, UpdateStep, ClaimStep, ListStep

LEMMA UsedKnownStep ==
    ASSUME StoreTypeOK, Positions, UsedKnown, RoomLeft, BodyReal, NEW c \in Callers, StepOf(c)
    PROVE  UsedKnown'
<1>1. used \subseteq used' /\ used' \subseteq Ids
  <2>1. CASE used' = used
    BY <2>1 DEF UsedKnown
  <2>2. CASE NewOpens(c)
    <3>1. c \in Creating /\ used' = used \cup {top[c] + 1} /\ top[c] \in used \cup {0}
      BY <2>2 DEF NewOpens, Goto, Creating, Positions, Position, PcsOf, UsedKnown,
         StoreTypeOK, CallsTypeOK, Ops
    <3>2. Cardinality(Creating) \in Nat /\ Cardinality(Creating) # 0
      <4>1. IsFiniteSet(Creating)
        BY CallersAssumption, FS_Subset DEF Creating
      <4> QED
        BY <3>1, <4>1, FS_CardinalityType, FS_EmptySet
    <3>3. top[c] + Cardinality(Creating) <= MaxId
      BY <3>1 DEF RoomLeft
    <3>4. top[c] \in Nat
      <4>1. used \cup {0} \subseteq Nat
        BY DEF UsedKnown, Ids
      <4> QED
        BY <3>1, <4>1
    <3>5. top[c] + 1 \in Ids
      BY <3>2, <3>3, <3>4 DEF Ids
    <3> QED
      BY <3>1, <3>5 DEF UsedKnown
  <2> QED
    BY <2>1, <2>2, IdVarsStep
<1>2. Listed("team")' \subseteq used'
  <2>1. ASSUME NEW i \in Listed("team")', i \notin Listed("team") PROVE i \in used'
    <3>1. CASE NewOpens(c) /\ i = top[c] + 1
      BY <3>1 DEF NewOpens
    <3>2. CASE list[c] = "team" /\ i = task[c]
      BY <1>1, <2>1, <3>2 DEF Listed, UsedKnown, Ids
    <3> QED
      BY <2>1, <3>1, <3>2, ListedStep
  <2> QED
    BY <1>1, <2>1 DEF UsedKnown
<1>3. mark' \in [Lists -> used' \cup {0}]
  BY <1>1, IdVarsStep DEF UsedKnown, MarkOpens, MarkFills
<1>4. top' \in [Callers -> used' \cup {0}]
  <2>1. CASE LockList(c) \/ ReadsHighest(c)
    <3>1. \E h \in used \cup {0} : top' = [top EXCEPT ![c] = h]
      BY <2>1, HighestListed DEF LockList, ReadsHighest
    <3> QED
      BY <1>1, <3>1 DEF UsedKnown
  <2>2. ASSUME NEW i \in Ids, Delete(c, i) PROVE top' \in [Callers -> used' \cup {0}]
    <3>1. i \in used
      BY <2>2 DEF Delete, Readable, UsedKnown, Listed
    <3> QED
      BY <1>1, <2>2, <3>1 DEF Delete, UsedKnown
  <2>3. CASE top' = top \/ top' = [top EXCEPT ![c] = 0]
    BY <1>1, <2>3 DEF UsedKnown
  <2> QED
    BY <2>1, <2>2, <2>3, IdVarsStep
<1>5. \A d \in Callers : About(d)'
  <2>1. \A d \in Callers \ {c} : About(d)'
    BY <1>1, StepGood DEF UsedKnown, About, GoodStep, OthersKept
  <2> QED
    BY <2>1, AboutStep
<1> QED
  BY <1>1, <1>2, <1>3, <1>4, <1>5 DEF UsedKnown, About

\* A call that gives or removes ids begins as one of the team's.
LEMMA OpStep ==
    ASSUME StoreTypeOK, Positions, NEW c \in Callers, StepOf(c)
    PROVE  /\ \/ \E i, from : BeginOnTeam(c, op'[c], i, from)
              \/ op'[c] \in {op[c], "none", "start", "claim"}
           /\ op'[c] = "create" => op[c] = "create" \/ Create(c)
<1> USE DEF Goto, fileVars, lockVars
<1>t. op \in [Callers -> Ops]
  BY DEF StoreTypeOK, CallsTypeOK
<1>b. ASSUME NEW o, NEW i, NEW from, BeginOnTeam(c, o, i, from)
      PROVE  op'[c] = o
  BY <1>b, <1>t DEF BeginOnTeam, Begin
<1>1. CASE Calls(c)
  <2>1. ASSUME NEW i \in Ids, ClaimNext(c, i) PROVE op'[c] = "claim"
    BY <1>t, <2>1 DEF ClaimNext, Begin
  <2>2. \/ \E i \in Ids : ClaimNext(c, i)
        \/ Create(c)
        \/ \E o \in {"take", "complete", "delete", "reset", "unassign"} :
              \E i, from : BeginOnTeam(c, o, i, from)
    BY <1>1 DEF Calls, Delete, TakeOrComplete, Reset, Unassign
  <2>3. Create(c) => \E i, from : BeginOnTeam(c, "create", i, from)
    BY DEF Create
  <2> QED
    BY <1>b, <2>1, <2>2, <2>3
<1>2. CASE UpdateFindsNone(c) \/ UpdateFills(c)
  <2>1. Updated(c)
    BY <1>2 DEF UpdateFindsNone, UpdateFills
  <2> QED
    BY <1>t, <2>1 DEF Updated, NextUpdate, Done
<1>3. CASE LockThrows(c) \/ LockTimesOut(c) \/ NotClaimable(c) \/ IsBlocked(c)
           \/ DeleteFindsNone(c) \/ NewFills(c) \/ ResetEnds(c) \/ DeleteUnlinks(c)
  <2>1. Done(c) \/ op' = op
    BY <1>3 DEF LockThrows, LockTimesOut, NotClaimable, IsBlocked, DeleteFindsNone,
       NewFills, ResetEnds, DeleteUnlinks, Threw
  <2> QED
    BY <1>t, <2>1 DEF Done
<1>4. CASE ~(\/ Calls(c) \/ UpdateFindsNone(c) \/ UpdateFills(c) \/ LockThrows(c)
             \/ LockTimesOut(c) \/ NotClaimable(c) \/ NewFills(c) \/ DeleteFindsNone(c)
             \/ ResetEnds(c) \/ IsBlocked(c) \/ DeleteUnlinks(c))
  <2>1. op' = op
    BY <1>4 DEF StepOf, CallStep, UpdateStep, ClaimStep, ListStep, UpdateLocks, UpdateOpens,
       Leaves, ClaimLocks, ReadsBlockers, LockList, ReadsHighest, NewOpens,
       ReadMark, MarkOpens, MarkFills, ResetUnlinks, callVars
  <2> QED
    BY <2>1
<1> QED
  BY <1>1, <1>2, <1>3, <1>4

\* Where calls are on the way to give an id or to remove one.
IdPcs == {"both", "dirLeft", "markLeft", "newOpen", "newFill", "readMark",
          "markOpen", "markFill", "unlink", "clear"}

LEMMA IdPcsStep ==
    ASSUME StoreTypeOK, Positions, NEW c \in Callers, StepOf(c)
    PROVE  \/ pc'[c] \notin IdPcs
           \/ \E i \in Ids : Delete(c, i)
           \/ LockList(c) \/ ReadsHighest(c) \/ NewOpens(c)
           \/ ReadMark(c) \/ MarkOpens(c) \/ MarkFills(c) \/ ResetUnlinks(c)
           \/ Leaves(c)
<1> USE DEF Goto
<1>t. pc \in [Callers -> Pcs]
  BY DEF StoreTypeOK, CallsTypeOK
<1>1. CASE Calls(c)
  <2>1. \/ \E i \in Ids : Delete(c, i)
        \/ \E o, l, i : \E from \in {"lock", "updLock", "listLock"} : Begin(c, o, l, i, from)
    BY <1>1 DEF Calls, ClaimNext, TakeOrComplete, Create, Reset, Unassign, BeginOnTeam
  <2> QED
    BY <1>t, <2>1 DEF Begin, IdPcs
<1>2. CASE UpdateFindsNone(c) \/ UpdateFills(c)
  <2>1. Updated(c)
    BY <1>2 DEF UpdateFindsNone, UpdateFills
  <2> QED
    BY <1>t, <2>1 DEF Updated, NextUpdate, Done, IdPcs
<1>3. CASE LockThrows(c) \/ LockTimesOut(c) \/ NotClaimable(c) \/ IsBlocked(c)
           \/ DeleteFindsNone(c) \/ NewFills(c) \/ ResetEnds(c) \/ DeleteUnlinks(c)
  <2>1. Done(c) \/ pc' = [pc EXCEPT ![c] = "updLock"]
    BY <1>3 DEF LockThrows, LockTimesOut, NotClaimable, IsBlocked, DeleteFindsNone,
       NewFills, ResetEnds, DeleteUnlinks, Threw
  <2> QED
    BY <1>t, <2>1 DEF Done, IdPcs
<1>4. CASE UpdateLocks(c) \/ UpdateOpens(c) \/ ClaimLocks(c) \/ ReadsBlockers(c)
  BY <1>t, <1>4 DEF UpdateLocks, UpdateOpens, ClaimLocks, ReadsBlockers, IdPcs
<1> QED
  BY <1>1, <1>2, <1>3, <1>4 DEF StepOf, CallStep, UpdateStep, ClaimStep, ListStep

LEMMA RoomLeftStep ==
    ASSUME StoreTypeOK, Positions, UsedKnown, RoomLeft, NEW c \in Callers, StepOf(c)
    PROVE  RoomLeft'
<1> DEFINE n == Cardinality(Creating)
<1>f. IsFiniteSet(Creating) /\ n \in Nat
  BY CallersAssumption, FS_Subset, FS_CardinalityType DEF Creating
<1>u. used \cup {0} \subseteq 0..MaxId
  BY DEF UsedKnown, Ids
<1>o. \A d \in Callers \ {c} : d \in Creating' <=> d \in Creating
  BY StepGood DEF GoodStep, OthersKept, Creating
<1>c. \A d \in Creating \cup Creating' : d \in Callers
  BY DEF Creating
<1>1. CASE Create(c)
  <2> DEFINE Ends == {d \in Callers : op[d] = "create"}
  <2>1. HighestOf(used) + Cardinality(Ends) < MaxId /\ used' = used
    BY <1>1 DEF Create, BeginOnTeam
  <2>2. Creating \subseteq Ends /\ c \notin Ends /\ c \notin Creating
    BY <1>1 DEF Create, BeginOnTeam, Begin, Creating, Positions, Position, PcsOf, StoreTypeOK,
       CallsTypeOK, Ops
  <2>3. IsFiniteSet(Ends) /\ Cardinality(Ends) \in Nat /\ n <= Cardinality(Ends)
    BY <2>2, CallersAssumption, FS_Subset, FS_CardinalityType
  <2>4. Creating' \subseteq Creating \cup {c}
    BY <1>o, <1>c
  <2>5. Cardinality(Creating \cup {c}) = n + 1 /\ IsFiniteSet(Creating \cup {c})
    BY <1>f, <2>2, FS_AddElement
  <2>6. Cardinality(Creating') \in Nat /\ Cardinality(Creating') <= n + 1
    BY <2>4, <2>5, FS_Subset, FS_CardinalityType
  <2>7. HighestOf(used) \in used \cup {0} /\ \A u \in used : u <= HighestOf(used)
    BY <1>u, HighestIs
  <2> DEFINE e == Cardinality(Ends)
             k == Cardinality(Creating')
             h == HighestOf(used)
  <2>8. e \in Nat /\ k \in Nat /\ h \in 0..MaxId /\ k <= n + 1 /\ n <= e /\ h + e < MaxId
    BY <1>u, <2>1, <2>3, <2>6, <2>7
  <2>9. \A u \in used \cup {0} : u \in 0..MaxId /\ u <= h
    BY <1>u, <2>7, <2>8
  <2>10. \A u \in used \cup {0} : u + k <= MaxId
    <3> HIDE DEF e, k, h, n
    <3> QED
      BY <1>f, <2>8, <2>9
  <2> QED
    BY <2>1, <2>10 DEF RoomLeft
<1>2. CASE NewOpens(c)
  <2>1. c \in Creating /\ used' = used \cup {top[c] + 1} /\ top[c] \in used \cup {0}
    BY <1>2 DEF NewOpens, Goto, Creating, Positions, Position, PcsOf, UsedKnown,
       StoreTypeOK, CallsTypeOK, Ops
  <2>2. c \notin Creating'
    BY <1>2 DEF NewOpens, Goto, Creating, StoreTypeOK, CallsTypeOK
  <2>3. Creating' \subseteq Creating \ {c}
    BY <1>o, <1>c, <2>2
  <2>4. Cardinality(Creating \ {c}) = n - 1 /\ IsFiniteSet(Creating \ {c})
    BY <1>f, <2>1, FS_RemoveElement
  <2> DEFINE k == Cardinality(Creating')
  <2>5. k \in Nat /\ k <= n - 1
    BY <2>3, <2>4, FS_Subset, FS_CardinalityType
  <2>6. \A u \in used \cup {0} : u \in Nat /\ u + n <= MaxId
    BY <1>u DEF RoomLeft
  <2>7. \A u \in used \cup {0} : u + k <= MaxId /\ (u + 1) + k <= MaxId
    <3> HIDE DEF k, n
    <3> QED
      BY <1>f, <2>5, <2>6
  <2> QED
    BY <2>1, <2>7 DEF RoomLeft
<1>3. CASE ~Create(c) /\ ~NewOpens(c)
  <2>1. used' = used
    BY <1>3, IdVarsStep
  <2>2. c \in Creating' => c \in Creating
    <3>1. SUFFICES ASSUME op'[c] = "create", pc'[c] # "newFill" PROVE pc[c] # "newFill"
      BY <1>3, OpStep DEF Creating
    <3>2. SUFFICES ASSUME pc[c] = "newFill" PROVE FALSE
      OBVIOUS
    <3>3. NewFills(c) \/ Leaves(c)
      BY <3>2 DEF StepOf, Calls, ClaimNext, Delete, TakeOrComplete, Create,
         Reset, Unassign, BeginOnTeam, Begin, Goto, CallStep, UpdateStep, ClaimStep,
         ListStep, UpdateLocks, UpdateOpens, UpdateFills, ClaimLocks, IsBlocked,
         UpdateFindsNone, LockThrows, LockTimesOut, NotClaimable,
         ReadsBlockers, LockList, ReadsHighest, NewOpens, ReadMark, MarkOpens,
         MarkFills, DeleteUnlinks, DeleteFindsNone, ResetUnlinks, ResetEnds
    <3> QED
      BY <3>1, <3>2, <3>3 DEF NewFills, Done, Leaves, callVars, StoreTypeOK, CallsTypeOK
  <2>3. Creating' \subseteq Creating
    BY <1>o, <1>c, <2>2
  <2> DEFINE k == Cardinality(Creating')
  <2>4. k \in Nat /\ k <= n
    BY <1>f, <2>3, FS_Subset, FS_CardinalityType
  <2>5. \A u \in used \cup {0} : u \in Nat /\ u + n <= MaxId
    BY <1>u DEF RoomLeft
  <2>6. \A u \in used \cup {0} : u + k <= MaxId
    <3> HIDE DEF k, n
    <3> QED
      BY <1>f, <2>4, <2>5
  <2> QED
    BY <2>1, <2>6 DEF RoomLeft
<1> QED
  BY <1>1, <1>2, <1>3

LEMMA ListHeldStep ==
    ASSUME StoreTypeOK, Positions, ListHeld, NEW c \in Callers, StepOf(c)
    PROVE  ListHeld'
<1> USE DEF Goto
<1>g. GoodStep(c)
  BY StepGood
<1>t. "team" \in Lists /\ pc \in [Callers -> Pcs] /\ op \in [Callers -> Ops]
  BY DEF Lists, StoreTypeOK, CallsTypeOK
<1>o. \A d \in Callers \ {c} : HoldsList(d)' <=> HoldsList(d)
  BY <1>g DEF GoodStep, OthersKept, HoldsList
<1>h. HoldsList(c) => listLock["team"] = c
  BY DEF ListHeld
<1>n. c # NoOne
  BY CallersAssumption
<1>1. CASE LockList(c)
  <2>1. /\ \A d \in Callers : ~HoldsList(d)
        /\ listLock' = [listLock EXCEPT !["team"] = c]
    BY <1>1, CallersAssumption DEF LockList, ListHeld
  <2> QED
    BY <1>o, <1>t, <2>1 DEF ListHeld
<1>2. CASE NewFills(c) \/ ResetEnds(c)
  <2>1. HoldsList(c) /\ listLock' = [listLock EXCEPT !["team"] = NoOne] /\ Done(c)
    BY <1>2 DEF NewFills, ResetEnds, UnlockList, HoldsList
  <2>2. \A d \in Callers \ {c} : ~HoldsList(d)
    BY <2>1 DEF ListHeld
  <2>3. ~HoldsList(c)'
    BY <1>t, <2>1 DEF Done, HoldsList
  <2> QED
    BY <1>o, <1>t, <2>1, <2>2, <2>3 DEF ListHeld
<1>3. CASE ~LockList(c) /\ ~(NewFills(c) \/ ResetEnds(c))
  <2>1. listLock' = listLock
    BY <1>3, IdVarsStep
  <2>2. Position(c)' /\ op'[c] \in Ops
    BY <1>g DEF GoodStep, StoreTypeOK, CallsTypeOK
  <2>3. HoldsList(c)' => pc'[c] \in IdPcs \ {"unlink"}
    BY <2>2 DEF HoldsList, Position, PcsOf, IdPcs
  <2>p. pc[c] \in PcsOf(op[c]) /\ op[c] \in Ops
    BY <1>t DEF Positions, Position
  <2>4. HoldsList(c)' => HoldsList(c)
    <3>1. ASSUME NEW i \in Ids, Delete(c, i) PROVE ~HoldsList(c)'
      BY <1>t, <3>1 DEF Delete, BeginOnTeam, Begin, HoldsList
    <3>2. CASE ReadsHighest(c) \/ NewOpens(c)
      BY <3>2 DEF ReadsHighest, NewOpens, HoldsList
    <3>3. CASE ReadMark(c) \/ MarkOpens(c) \/ MarkFills(c)
      <4>1. pc[c] \in {"readMark", "markOpen", "markFill"} /\ op' = op
        BY <3>3 DEF ReadMark, MarkOpens, MarkFills
      <4>2. op[c] = "reset" \/ pc'[c] \in {"markOpen", "markFill", "unlink"}
        BY <1>t, <3>3, <4>1, <2>p DEF ReadMark, MarkOpens, MarkFills, Marked, PcsOf, Ops
      <4> QED
        BY <4>1, <4>2 DEF HoldsList
    <3>4. CASE ResetUnlinks(c)
      BY <3>4 DEF ResetUnlinks, HoldsList
    <3>5. CASE Leaves(c)
      BY <3>5 DEF Leaves, callVars, HoldsList
    <3> QED
      BY <1>3, <2>3, <3>1, <3>2, <3>3, <3>4, <3>5, IdPcsStep
  <2> QED
    BY <1>o, <2>1, <2>4 DEF ListHeld
<1> QED
  BY <1>1, <1>2, <1>3

LEMMA RacesKnownStep ==
    ASSUME StoreTypeOK, Positions, RacesKnown, NEW c \in Callers, StepOf(c)
    PROVE  RacesKnown'
<1> SUFFICES ASSUME ~raced',
                    NEW x \in Callers, NEW y \in Callers, x # y, op'[x] = "delete",
                    op'[y] \in {"create", "delete", "reset"}
             PROVE  FALSE
  BY DEF RacesKnown
<1>g. \A d \in Callers \ {c} : op'[d] = op[d]
  BY StepGood DEF GoodStep, OthersKept
<1>r. ~raced
  BY IdVarsStep, Zenon
<1>k. \A d, e \in Callers :
         d # e /\ op[d] = "delete" => op[e] \notin {"create", "delete", "reset"}
  BY <1>r DEF RacesKnown
<1>1. CASE op'[c] = op[c]
  BY <1>1, <1>g, <1>k
<1>2. CASE \E i, from : BeginOnTeam(c, op'[c], i, from)
  <2>1. ~\E d \in Callers : {op'[c], op[d]} \in {{"delete"}, {"delete", "create"},
                                                 {"delete", "reset"}}
    BY <1>2, Zenon DEF BeginOnTeam
  <2>2. c \in {x, y}
    BY <1>g, <1>k
  <2>3. CASE c = x
    BY <1>g, <2>1, <2>3
  <2>4. CASE c = y
    BY <1>g, <2>1, <2>4
  <2> QED
    BY <2>2, <2>3, <2>4
<1>3. CASE op'[c] \in {"none", "start", "claim"}
  BY <1>3, <1>g, <1>k
<1> QED
  BY <1>1, <1>2, <1>3, OpStep

LEMMA BodyRealStep ==
    ASSUME StoreTypeOK, Positions, SessionKept, BodyReal, NEW c \in Callers, StepOf(c)
    PROVE  BodyReal'
<1> USE DEF Goto
<1>t. pc \in [Callers -> Pcs] /\ body \in [Callers -> File] /\ op[c] \in Ops
  BY DEF StoreTypeOK, CallsTypeOK
<1>1. pc'[c] \in {"updOpen", "updFill"} => body'[c].status # "absent"
  <2>1. CASE UpdateLocks(c)
    <3>1. Mine(c) \in File /\ Mine(c).status # "absent"
      BY <2>1 DEF UpdateLocks, Readable, Mine, Positions, Position, StoreTypeOK,
         FilesTypeOK, CallsTypeOK
    <3>2. Changed(c).status # "absent"
      <4>1. /\ [Mine(c) EXCEPT !.owner = c].status = Mine(c).status
            /\ [Mine(c) EXCEPT !.status = "in_progress"].status = "in_progress"
            /\ [Mine(c) EXCEPT !.status = "in_progress",
                   !.owner = IF body[c].owner = NoOne THEN c ELSE @].status = "in_progress"
            /\ [Mine(c) EXCEPT !.status = "completed"].status = "completed"
            /\ [Mine(c) EXCEPT !.status = "pending", !.owner = NoOne].status = "pending"
            /\ [Mine(c) EXCEPT !.deps = @ \ {top[c]}].status = Mine(c).status
        BY <3>1 DEF File
      <4> QED
        BY <3>1, <4>1 DEF Changed
    <3> QED
      BY <1>t, <2>1, <3>2 DEF UpdateLocks
  <2>2. CASE ReadsBlockers(c)
    <3>1. op[c] = "claim" /\ list[c] = "session" /\ pc[c] = "blockers"
      BY <1>t, <2>2 DEF ReadsBlockers, Positions, Position, PcsOf, Ops
    <3>2. Mine(c) \in File /\ Mine(c).status # "absent"
      <4>1. task[c] \in Ids /\ SessionAt(c)
        BY <3>1 DEF SessionKept, Positions, Position
      <4>2. Mine(c) \in File
        BY <4>1 DEF Mine, StoreTypeOK, FilesTypeOK, CallsTypeOK
      <4> QED
        BY <3>1, <4>1, <4>2 DEF SessionAt
    <3>3. Changed(c) = [Mine(c) EXCEPT !.owner = c]
      BY <3>1 DEF Changed
    <3>4. Changed(c).status # "absent"
      BY <3>2, <3>3 DEF File
    <3> QED
      BY <1>t, <2>2, <3>4 DEF ReadsBlockers
  <2>3. CASE UpdateOpens(c)
    BY <1>t, <2>3 DEF UpdateOpens, BodyReal
  <2>4. CASE Leaves(c)
    BY <2>4 DEF Leaves, callVars, BodyReal
  <2>5. CASE Calls(c)
    <3>1. \/ \E i \in Ids : Delete(c, i)
          \/ \E o, l, i : \E from \in {"lock", "updLock", "listLock"} : Begin(c, o, l, i, from)
      BY <2>5 DEF Calls, ClaimNext, TakeOrComplete, Create, Reset, Unassign, BeginOnTeam
    <3> QED
      BY <1>t, <3>1 DEF Delete, BeginOnTeam, Begin
  <2>6. CASE UpdateFindsNone(c) \/ UpdateFills(c)
    <3>1. Updated(c)
      BY <2>6 DEF UpdateFindsNone, UpdateFills
    <3> QED
      BY <1>t, <3>1 DEF Updated, NextUpdate, Done
  <2>7. CASE LockThrows(c) \/ LockTimesOut(c) \/ NotClaimable(c) \/ IsBlocked(c)
             \/ DeleteFindsNone(c) \/ NewFills(c) \/ ResetEnds(c) \/ DeleteUnlinks(c)
    <3>1. Done(c) \/ pc' = [pc EXCEPT ![c] = "updLock"]
      BY <2>7 DEF LockThrows, LockTimesOut, NotClaimable, IsBlocked, DeleteFindsNone,
         NewFills, ResetEnds, DeleteUnlinks, Threw
    <3> QED
      BY <1>t, <3>1 DEF Done
  <2>8. CASE ClaimLocks(c) \/ LockList(c) \/ ReadsHighest(c) \/ NewOpens(c) \/ MarkOpens(c)
    BY <1>t, <2>8 DEF ClaimLocks, LockList, ReadsHighest, NewOpens, MarkOpens
  <2>9. CASE ReadMark(c) \/ MarkFills(c)
    BY <1>t, <2>9 DEF ReadMark, MarkFills, Marked
  <2>10. CASE ResetUnlinks(c)
    BY <2>10 DEF ResetUnlinks
  <2> QED
    BY <2>1, <2>2, <2>3, <2>4, <2>5, <2>6, <2>7, <2>8, <2>9, <2>10
       DEF StepOf, CallStep, UpdateStep, ClaimStep, ListStep
<1> QED
  BY <1>1, StepGood DEF GoodStep, OthersKept, BodyReal

----------------------------------------------------------------------------
(* Who gives, marks or removes ids is alone at it, but for races.          *)

Busy(c) == HoldsList(c) \/ op[c] = "delete"

LEMMA BusyPcs ==
    ASSUME StoreTypeOK, Positions, NEW d \in Callers
    PROVE  /\ pc[d] \in IdPcs => Busy(d)
           /\ HoldsList(d) => pc[d] \in IdPcs /\ op[d] \in {"create", "reset"}
           /\ ~Busy(d) => CoveredAt(d)
BY DEF Positions, Position, PcsOf, StoreTypeOK, CallsTypeOK, Ops, IdPcs, Busy, HoldsList,
   CoveredAt

LEMMA OthersIdle ==
    ASSUME StoreTypeOK, Positions, ListHeld, RacesKnown, NEW c \in Callers, StepOf(c),
           ~raced', Busy(c) \/ LockList(c) \/ \E i \in Ids : Delete(c, i)
    PROVE  \A d \in Callers \ {c} : ~Busy(d)
<1> SUFFICES ASSUME NEW d \in Callers \ {c}, Busy(d) PROVE FALSE
  OBVIOUS
<1>t. op[c] \in Ops
  BY DEF StoreTypeOK, CallsTypeOK
<1>r. ~raced
  BY IdVarsStep, Zenon
<1>k. \A x, y \in Callers :
         x # y /\ op[x] = "delete" => op[y] \notin {"create", "delete", "reset"}
  BY <1>r DEF RacesKnown
<1>1. CASE Busy(c)
  BY <1>1, <1>k, BusyPcs DEF Busy, ListHeld
<1>2. CASE LockList(c)
  <2>1. op[c] \in {"create", "reset"}
    BY <1>t, <1>2 DEF LockList, Goto, Positions, Position, PcsOf, Ops
  <2>2. ~HoldsList(d)
    BY <1>2, CallersAssumption DEF LockList, ListHeld
  <2> QED
    BY <1>k, <2>1, <2>2 DEF Busy
<1>3. ASSUME NEW i \in Ids, Delete(c, i) PROVE FALSE
  <2>1. ~\E e \in Callers : {"delete", op[e]} \in {{"delete"}, {"delete", "create"},
                                                   {"delete", "reset"}}
    BY <1>3, Zenon DEF Delete, BeginOnTeam
  <2>2. op[d] \in {"create", "delete", "reset"}
    BY BusyPcs DEF Busy
  <2> QED
    BY <2>1, <2>2
<1> QED
  BY <1>1, <1>2, <1>3

LEMMA CoveredBy ==
    ASSUME used \subseteq Nat, NEW S \in SUBSET Nat, NEW T \in SUBSET Nat, Covered(S),
           \A m \in S : \E n \in T : m <= n
    PROVE  Covered(T)
<1> SUFFICES ASSUME NEW u \in used PROVE \E n \in T : u <= n
  BY DEF Covered
<1>1. PICK m \in S : u <= m
  BY DEF Covered
<1>2. PICK n \in T : m <= n
  BY <1>1
<1>3. u \in Nat /\ m \in Nat /\ n \in Nat
  BY <1>1, <1>2
<1> QED
  BY <1>1, <1>2, <1>3

\* The highest of ids is as good as the ids.
LEMMA CoveredByHighest ==
    ASSUME UsedKnown, NEW c \in Callers, NEW ids \in {Listed("team"), {mark["team"]}},
           NEW S \in SUBSET Nat, NEW h \in S, h = Higher(c, ids),
           NEW R \in SUBSET Nat, Covered(R), R \subseteq S \cup ids \cup {top[c]}
    PROVE  Covered(S)
<1>1. used \cup {0} \subseteq Nat
  BY DEF UsedKnown, Ids
<1>2. \A i \in ids \cup {top[c]} : i <= h
  BY HighestListed
<1>3. \A m \in R : \E n \in S : m <= n
  BY <1>2
<1> QED
  BY <1>1, <1>3, CoveredBy

\* What a step leaves covered.
Kept(c) ==
    /\ UNCHANGED <<used, mark>> /\ Listed("team") \subseteq Listed("team")'

LEMMA OthersCovered ==
    ASSUME StoreTypeOK, Positions, UsedKnown, NEW c \in Callers, StepOf(c),
           NEW d \in Callers \ {c}, CoveredAt(d), Kept(c) \/ ~Busy(d)
    PROVE  CoveredAt(d)'
<1>1. pc'[d] = pc[d] /\ op'[d] = op[d] /\ task'[d] = task[d]
  BY StepGood DEF GoodStep, OthersKept
<1>2. CASE ~Busy(d)
  BY <1>1, <1>2 DEF Busy, HoldsList, CoveredAt
<1>3. CASE Kept(c)
  <2>1. top'[d] = top[d]
    BY IdVarsStep DEF LockList, ReadsHighest, Delete, UsedKnown
  <2>2. /\ Listed("team") \cup {top[d]} \subseteq Listed("team")' \cup {top'[d]}
        /\ used' = used /\ mark' = mark
    BY <1>3, <2>1 DEF Kept
  <2>3. Covered(Listed("team") \cup {top[d]}) => Covered(Listed("team") \cup {top[d]})'
    BY <2>2 DEF Covered
  <2>4. /\ Covered({top[d], mark["team"]})' <=> Covered({top[d], mark["team"]})
        /\ Covered({top[d]})' <=> Covered({top[d]})
        /\ Covered({mark["team"]})' <=> Covered({mark["team"]})
    BY <2>1, <2>2 DEF Covered
  <2> QED
    BY <1>1, <2>1, <2>2, <2>3, <2>4 DEF CoveredAt
<1> QED
  BY <1>2, <1>3

LEMMA MarkFillsOnly ==
    ASSUME NEW c \in Callers, StepOf(c), pc[c] = "markFill"
    PROVE  MarkFills(c) \/ Leaves(c)
BY DEF StepOf, Calls, ClaimNext, Delete, TakeOrComplete, Create, Reset, Unassign, BeginOnTeam,
   Begin, Goto, CallStep, UpdateStep, ClaimStep, ListStep, UpdateLocks, UpdateOpens,
   UpdateFills, ClaimLocks, IsBlocked, UpdateFindsNone, LockThrows, LockTimesOut,
   NotClaimable, ReadsBlockers, LockList, ReadsHighest, NewOpens, NewFills, ReadMark,
   MarkOpens, DeleteUnlinks, DeleteFindsNone, ResetUnlinks, ResetEnds

\* The list and the mark show how far ids have been given, unless the mark is
\* being written.
ShownAll == Covered(Listed("team") \cup {mark["team"]})
NoFill == \A d \in Callers : pc[d] # "markFill"

\* Steps that add at most to what is listed, away from ids.
LEMMA QuietCovered ==
    ASSUME StoreTypeOK, Positions, UsedKnown, IdsCovered, ~raced, NEW c \in Callers,
           StepOf(c), Kept(c), reused' = reused, pc[c] # "markFill" \/ pc'[c] = "markFill",
           CoveredAt(c)'
    PROVE  IdsCovered'
<1>1. ~reused /\ (NoFill => ShownAll) /\ \A d \in Callers : CoveredAt(d)
  BY DEF IdsCovered, NoFill, ShownAll
<1>2. \A d \in Callers : CoveredAt(d)'
  BY <1>1, OthersCovered
<1>3. NoFill' => NoFill
  BY StepGood DEF GoodStep, OthersKept, NoFill
<1>4. ShownAll => ShownAll'
  BY DEF ShownAll, Kept, Covered
<1>5. ~reused'
  BY <1>1
<1> QED
  BY <1>1, <1>2, <1>3, <1>4, <1>5 DEF IdsCovered, NoFill, ShownAll

\* Steps of the one that is alone at ids.
LEMMA BusyCovered ==
    ASSUME StoreTypeOK, Positions, UsedKnown, IdsCovered, ~raced, NEW c \in Callers,
           StepOf(c), \A d \in Callers \ {c} : ~Busy(d), ~reused',
           pc'[c] # "markFill" => ShownAll', CoveredAt(c)'
    PROVE  IdsCovered'
<1>1. \A d \in Callers : CoveredAt(d)'
  BY OthersCovered DEF IdsCovered
<1> QED
  BY <1>1 DEF IdsCovered, ShownAll

----------------------------------------------------------------------------
(* The step, and the theorem.                                              *)

LEMMA IdsCoveredStep ==
    ASSUME StoreTypeOK, Positions, UsedKnown, RoomLeft, ListHeld, RacesKnown, BodyReal,
           IdsCovered,
           NEW c \in Callers, StepOf(c)
    PROVE  IdsCovered'
<1> SUFFICES ASSUME ~raced' PROVE IdsCovered'
  BY DEF IdsCovered
<1> USE DEF Goto, fileVars
<1>r. ~raced
  BY IdVarsStep, Zenon
<1>k. ~reused /\ (NoFill => ShownAll) /\ CoveredAt(c)
  BY <1>r DEF IdsCovered, NoFill, ShownAll
<1>t. /\ pc \in [Callers -> Pcs] /\ op \in [Callers -> Ops]
      /\ "team" \in Lists
      /\ pc[c] \in PcsOf(op[c])
      /\ top \in [Callers -> used \cup {0}] /\ task = [d \in Callers |-> task[d]]
      /\ mark \in [Lists -> used \cup {0}]
  BY DEF StoreTypeOK, CallsTypeOK, Lists, Positions, Position, UsedKnown
<1>n. /\ used \cup {0} \subseteq Nat /\ Listed("team") \subseteq used
      /\ top[c] \in Nat /\ mark["team"] \in Nat
  <2>1. used \cup {0} \subseteq Nat /\ Listed("team") \subseteq used
    BY DEF UsedKnown, Ids
  <2> QED
    BY <1>t, <2>1
<1>i. ASSUME Busy(c) \/ LockList(c) \/ \E i \in Ids : Delete(c, i)
      PROVE  \A d \in Callers \ {c} : ~Busy(d)
  BY <1>i, OthersIdle
<1>f. ASSUME \A d \in Callers \ {c} : ~Busy(d), pc[c] # "markFill" PROVE ShownAll
  <2>1. \A d \in Callers : pc[d] # "markFill"
    BY <1>f, BusyPcs DEF IdPcs
  <2> QED
    BY <1>k, <2>1 DEF NoFill
<1>l. ASSUME file' = file PROVE Listed("team")' = Listed("team")
  BY <1>l DEF Listed
<1>1. CASE Leaves(c)
  <2>1. UNCHANGED <<used, mark, reused, file, pc, op, task, top>>
    BY <1>1 DEF Leaves, callVars, historyVars
  <2>2. Kept(c) /\ Listed("team")' = Listed("team")
    BY <1>l, <2>1 DEF Kept
  <2>3. CoveredAt(c)'
    BY <1>k, <2>1, <2>2 DEF CoveredAt, Covered
  <2> QED
    BY <1>r, <2>1, <2>2, <2>3, QuietCovered
<1>2. CASE pc'[c] \notin IdPcs /\ ~DeleteUnlinks(c) /\ ~Leaves(c)
  <2>1. /\ ~NewOpens(c) /\ ~MarkOpens(c) /\ ~MarkFills(c) /\ ~ResetUnlinks(c)
        /\ pc[c] # "markFill"
    <3>1. ~NewOpens(c) /\ ~MarkOpens(c)
      BY <1>t, <1>2 DEF NewOpens, MarkOpens, IdPcs
    <3>2. ~MarkFills(c)
      BY <1>t, <1>2 DEF MarkFills, Marked, IdPcs
    <3>3. ~ResetUnlinks(c)
      BY <1>2 DEF ResetUnlinks, IdPcs
    <3> QED
      BY <1>2, <3>1, <3>2, <3>3, MarkFillsOnly
  <2>2. Kept(c) /\ reused' = reused
    BY <1>2, <2>1, IdVarsStep, ListedStep DEF Kept
  <2>3. CoveredAt(c)'
    <3>1. ~(op'[c] \in {"reset", "delete"} /\ pc'[c] \in IdPcs)
      BY <1>2
    <3> QED
      BY <1>2, <3>1 DEF CoveredAt, IdPcs
  <2> QED
    BY <1>r, <2>1, <2>2, <2>3, QuietCovered
<1>3. ASSUME NEW i \in Ids, Delete(c, i) PROVE IdsCovered'
  <2>1. /\ UNCHANGED <<used, mark, reused, file>> /\ pc[c] = "idle"
        /\ pc'[c] = "readMark" /\ op'[c] = "delete" /\ task'[c] = i /\ top'[c] = i
    BY <1>3, <1>t DEF Delete, BeginOnTeam, Begin
  <2>2. Kept(c)
    BY <1>l, <2>1 DEF Kept
  <2>3. CoveredAt(c)'
    BY <2>1 DEF CoveredAt
  <2> QED
    BY <1>r, <2>1, <2>2, <2>3, QuietCovered
<1>4. CASE LockList(c)
  <2>1. /\ UNCHANGED <<used, mark, reused, file, op>> /\ pc[c] = "listLock"
        /\ pc'[c] = IF op[c] = "create" THEN "both" ELSE "readMark"
        /\ op[c] # "create" => top'[c] = HighestOf(Listed("team"))
    BY <1>4, <1>t DEF LockList, historyVars
  <2>2. op[c] \in {"create", "reset"}
    BY <1>t, <2>1 DEF PcsOf, Ops
  <2>3. Kept(c)
    BY <1>l, <2>1 DEF Kept
  <2>4. ShownAll
    BY <1>4, <1>f, <1>i, <2>1
  <2>5. CASE op[c] = "reset"
    <3>1. /\ top'[c] \in used \cup {0}
          /\ \A i \in Listed("team") : i <= top'[c]
      BY <2>1, <2>5, HighestListed
    <3>2. Covered({top'[c], mark["team"]})
      <4>1. {top'[c], mark["team"]} \in SUBSET Nat
        BY <1>n, <3>1
      <4>2. \A m \in Listed("team") \cup {mark["team"]} :
               \E n \in {top'[c], mark["team"]} : m <= n
        BY <1>n, <3>1
      <4> QED
        BY <1>n, <2>4, <4>1, <4>2, CoveredBy DEF ShownAll
    <3>3. CoveredAt(c)'
      BY <2>1, <2>5, <3>2 DEF CoveredAt, Covered
    <3> QED
      BY <1>r, <2>1, <2>3, <3>3, QuietCovered
  <2>6. CASE op[c] = "create"
    <3>1. CoveredAt(c)'
      BY <2>1, <2>6 DEF CoveredAt
    <3> QED
      BY <1>r, <2>1, <2>3, <3>1, QuietCovered
  <2> QED
    BY <2>2, <2>5, <2>6
<1>5. CASE ReadsHighest(c)
  <2>1. /\ UNCHANGED <<used, mark, reused, file, op>>
        /\ pc[c] \in {"both", "dirLeft", "markLeft"}
    BY <1>5 DEF ReadsHighest, historyVars
  <2>2. op[c] = "create" /\ Busy(c)
    BY <1>t, <2>1 DEF PcsOf, Ops, Busy, HoldsList
  <2>3. Kept(c)
    BY <1>l, <2>1 DEF Kept
  <2>4. ShownAll
    BY <1>f, <1>i, <2>1, <2>2
  <2>5. PICK ids \in {Listed("team"), {mark["team"]}} :
            /\ top'[c] = Higher(c, ids)
            /\ \/ pc[c] = "both" /\ pc'[c] = "markLeft" /\ ids = Listed("team")
               \/ pc[c] = "dirLeft" /\ pc'[c] = "newOpen" /\ ids = Listed("team")
               \/ pc[c] = "both" /\ pc'[c] = "dirLeft" /\ ids = {mark["team"]}
               \/ pc[c] = "markLeft" /\ pc'[c] = "newOpen" /\ ids = {mark["team"]}
    BY <1>5, <1>t DEF ReadsHighest
  <2>6. top'[c] \in Nat
    BY <1>n, <2>5, HighestListed
  <2>7. CASE pc[c] = "both" /\ pc'[c] = "markLeft" /\ ids = Listed("team")
    <3>1. Covered({top'[c], mark["team"]})
      BY <1>n, <2>4, <2>5, <2>6, <2>7, CoveredByHighest DEF ShownAll
    <3> QED
      BY <2>1, <2>2, <2>7, <3>1, <1>r, <2>3, QuietCovered DEF CoveredAt, Covered
  <2>8. CASE pc[c] = "both" /\ pc'[c] = "dirLeft" /\ ids = {mark["team"]}
    <3>1. Covered(Listed("team") \cup {top'[c]})
      <4> DEFINE R == Listed("team") \cup {mark["team"]}
                 S == Listed("team") \cup {top'[c]}
      <4>1. R \in SUBSET Nat /\ S \in SUBSET Nat /\ top'[c] \in S
        BY <1>n, <2>6
      <4>2. Covered(R) /\ R \subseteq S \cup ids \cup {top[c]}
        BY <2>4, <2>8 DEF ShownAll
      <4>3. Covered(S)
        <5> HIDE DEF R, S
        <5> QED
          BY <2>5, <4>1, <4>2, CoveredByHighest
      <4> QED
        BY <4>3
    <3>2. Covered(Listed("team") \cup {top[c]})'
      BY <1>l, <2>1, <3>1 DEF Covered
    <3> QED
      BY <2>1, <2>2, <2>8, <3>2, <1>r, <2>3, QuietCovered DEF CoveredAt
  <2>9. CASE pc'[c] = "newOpen"
    <3>1. \/ ids = Listed("team") /\ Covered(Listed("team") \cup {top[c]})
          \/ ids = {mark["team"]} /\ Covered({top[c], mark["team"]})
      BY <1>k, <2>5, <2>9 DEF CoveredAt
    <3>2. Covered({top'[c]})
      <4> DEFINE R == IF ids = Listed("team") THEN Listed("team") \cup {top[c]}
                                             ELSE {top[c], mark["team"]}
      <4>1. R \in SUBSET Nat /\ {top'[c]} \in SUBSET Nat
        BY <1>n, <2>6
      <4>2. Covered(R) /\ R \subseteq {top'[c]} \cup ids \cup {top[c]}
        BY <3>1
      <4> HIDE DEF R
      <4> QED
        BY <2>5, <4>1, <4>2, CoveredByHighest
    <3> QED
      BY <2>1, <2>2, <2>9, <3>2, <1>r, <2>3, QuietCovered DEF CoveredAt, Covered
  <2> QED
    BY <2>5, <2>7, <2>8, <2>9
<1>6. CASE NewOpens(c)
  <2>1. /\ pc[c] = "newOpen" /\ pc'[c] = "newFill" /\ UNCHANGED <<op, mark>>
        /\ reused' = (reused \/ top[c] + 1 \in used) /\ used' = used \cup {top[c] + 1}
        /\ file' = [file EXCEPT ![list[c]][top[c] + 1] = Blank("torn")]
    BY <1>6, <1>t DEF NewOpens, Open
  <2>2. op[c] = "create" /\ Busy(c) /\ list[c] = "team"
    BY <1>t, <2>1 DEF PcsOf, Ops, Busy, HoldsList, Positions, Position
  <2>3. Covered({top[c]})
    BY <1>k, <2>1 DEF CoveredAt
  <2>4. \A u \in used : u \in Nat /\ u <= top[c]
    BY <1>n, <2>3 DEF Covered
  <2>5. ~reused'
    <3>1. top[c] + 1 \notin used
      BY <1>n, <2>4
    <3> QED
      BY <1>k, <2>1, <3>1
  <2>6. ShownAll'
    <3>1. top[c] + 1 \in Ids
      <4>1. used' \subseteq Ids
        BY UsedKnownStep DEF UsedKnown
      <4> QED
        BY <2>1, <4>1
    <3>2. file'["team"][top[c] + 1] = Blank("torn")
      BY <1>t, <2>1, <2>2, <3>1 DEF StoreTypeOK, FilesTypeOK
    <3>3. top[c] + 1 \in Listed("team")'
      BY <3>1, <3>2 DEF Listed, Blank
    <3>4. \A u \in used' : u <= top[c] + 1
      BY <1>n, <2>1, <2>4
    <3> QED
      BY <3>3, <3>4 DEF ShownAll, Covered
  <2>7. CoveredAt(c)'
    BY <2>1, <2>2 DEF CoveredAt
  <2> QED
    BY <1>i, <1>r, <2>2, <2>5, <2>6, <2>7, BusyCovered
<1>7. CASE ReadMark(c)
  <2>1. /\ pc[c] = "readMark" /\ UNCHANGED <<used, mark, reused, file, op, task, top>>
        /\ IF top[c] > mark["team"] THEN pc'[c] = "markOpen"
           ELSE pc'[c] = IF op[c] = "delete" THEN "unlink" ELSE "clear"
    BY <1>7, <1>t DEF ReadMark, MarkTooLow, Marked, historyVars
  <2>2. op[c] \in {"delete", "reset"}
    BY <1>t, <2>1 DEF PcsOf, Ops
  <2>3. Kept(c)
    BY <1>l, <2>1 DEF Kept
  <2>4. CASE op[c] = "delete"
    <3>1. CoveredAt(c)'
      BY <1>k, <1>n, <2>1, <2>4 DEF CoveredAt
    <3> QED
      BY <1>r, <2>1, <2>3, <3>1, QuietCovered
  <2>5. CASE op[c] = "reset"
    <3>1. Covered({top[c], mark["team"]})
      BY <1>k, <2>1, <2>5 DEF CoveredAt
    <3>2. top[c] > mark["team"] => Covered({top[c]})
      BY <1>n, <3>1, CoveredBy
    <3>3. ~(top[c] > mark["team"]) => Covered({mark["team"]})
      BY <1>n, <3>1, CoveredBy
    <3>4. CoveredAt(c)'
      BY <2>1, <2>5, <3>2, <3>3 DEF CoveredAt, Covered
    <3> QED
      BY <1>r, <2>1, <2>3, <3>4, QuietCovered
  <2> QED
    BY <2>2, <2>4, <2>5
<1>8. CASE MarkOpens(c)
  <2>1. /\ pc[c] = "markOpen" /\ pc'[c] = "markFill"
        /\ UNCHANGED <<used, reused, file, op, task, top>>
    BY <1>8, <1>t DEF MarkOpens, historyVars
  <2>2. op[c] \in {"delete", "reset"} /\ Busy(c)
    BY <1>t, <2>1 DEF PcsOf, Ops, Busy, HoldsList
  <2>3. CASE op[c] = "delete"
    <3>1. task[c] = top[c] /\ mark["team"] < top[c]
      BY <1>k, <2>1, <2>3 DEF CoveredAt
    <3>2. ShownAll
      BY <1>f, <1>i, <2>1, <2>2
    <3>3. Covered(Listed("team") \cup {top[c]})
      BY <1>n, <3>1, <3>2, CoveredBy DEF ShownAll
    <3>4. Covered(Listed("team") \cup {top[c]})'
      BY <1>l, <2>1, <3>3 DEF Covered
    <3>5. CoveredAt(c)'
      BY <2>1, <2>3, <3>1, <3>4 DEF CoveredAt
    <3> QED
      BY <1>i, <1>k, <1>r, <2>1, <2>2, <3>5, BusyCovered
  <2>4. CASE op[c] = "reset"
    <3>1. CoveredAt(c)'
      BY <1>k, <2>1, <2>4 DEF CoveredAt, Covered
    <3> QED
      BY <1>i, <1>k, <1>r, <2>1, <2>2, <3>1, BusyCovered
  <2> QED
    BY <2>2, <2>3, <2>4
<1>9. CASE MarkFills(c)
  <2>1. /\ pc[c] = "markFill" /\ UNCHANGED <<used, reused, file, op, task, top>>
        /\ mark'["team"] = top[c]
        /\ pc'[c] = IF op[c] = "delete" THEN "unlink" ELSE "clear"
    BY <1>9, <1>t DEF MarkFills, Marked, historyVars
  <2>2. op[c] \in {"delete", "reset"} /\ Busy(c)
    BY <1>t, <2>1 DEF PcsOf, Ops, Busy, HoldsList
  <2>3. Covered(Listed("team") \cup {top[c]})
    BY <1>k, <2>1, <2>2 DEF CoveredAt, Covered
  <2>4. ShownAll'
    BY <1>l, <2>1, <2>3 DEF ShownAll, Covered
  <2>5. CoveredAt(c)'
    BY <1>k, <1>n, <2>1, <2>2 DEF CoveredAt, Covered
  <2> QED
    BY <1>i, <1>k, <1>r, <2>1, <2>2, <2>4, <2>5, BusyCovered
<1>10. CASE DeleteUnlinks(c)
  <2>1. /\ pc[c] = "unlink" /\ UNCHANGED <<used, mark, reused>>
        /\ file' = [file EXCEPT !["team"][task[c]] = Blank("absent")]
        /\ Done(c) \/ pc' = [pc EXCEPT ![c] = "updLock"]
    BY <1>10 DEF DeleteUnlinks, Unlink, historyVars
  <2>2. op[c] = "delete" /\ Busy(c)
    BY <1>t, <2>1 DEF PcsOf, Ops, Busy
  <2>3. task[c] = top[c] /\ top[c] <= mark["team"]
    BY <1>k, <2>1, <2>2 DEF CoveredAt
  <2>4. ShownAll
    BY <1>f, <1>i, <2>1, <2>2
  <2>5. \A i \in Listed("team") \ {task[c]} : i \in Listed("team")'
    BY <1>t, <2>1 DEF Listed, StoreTypeOK, FilesTypeOK
  <2>6. \A m \in Listed("team") \cup {mark["team"]} :
           \E n \in Listed("team")' \cup {mark["team"]} : m <= n
    BY <1>n, <2>3, <2>5
  <2>7. Listed("team")' \in SUBSET Nat
    BY DEF Listed, Ids
  <2>8. Covered(Listed("team")' \cup {mark["team"]})
    BY <1>n, <2>4, <2>6, <2>7, CoveredBy DEF ShownAll
  <2>9. ShownAll'
    BY <2>1, <2>8 DEF ShownAll, Covered
  <2>10. pc'[c] \notin IdPcs
    BY <1>t, <2>1 DEF Done, IdPcs
  <2>11. CoveredAt(c)'
    BY <2>10 DEF CoveredAt, IdPcs
  <2> QED
    BY <1>i, <1>k, <1>r, <2>1, <2>2, <2>9, <2>11, BusyCovered
<1>11. CASE ResetUnlinks(c)
  <2>1. pc[c] = "clear" /\ UNCHANGED <<used, mark, reused, pc, op>>
    BY <1>11 DEF ResetUnlinks
  <2>2. op[c] = "reset" /\ Busy(c)
    BY <1>t, <2>1 DEF PcsOf, Ops, Busy, HoldsList
  <2>3. Covered({mark["team"]})
    BY <1>k, <2>1, <2>2 DEF CoveredAt
  <2>4. ShownAll' /\ CoveredAt(c)'
    BY <2>1, <2>2, <2>3 DEF ShownAll, CoveredAt, Covered
  <2> QED
    BY <1>i, <1>k, <1>r, <2>1, <2>2, <2>4, BusyCovered
<1> QED
  BY <1>1, <1>2, <1>3, <1>4, <1>5, <1>6, <1>7, <1>8, <1>9, <1>10, <1>11, IdPcsStep

LEMMA StepIds == IInv /\ IdInv /\ [Next]_vars => IdInv'
<1> SUFFICES ASSUME IInv, IdInv, [Next]_vars PROVE IdInv'
  OBVIOUS
<1>1. ASSUME NEW c \in Callers, StepOf(c) PROVE IdInv'
  <2>1. UsedKnown' /\ RoomLeft'
    BY <1>1, UsedKnownStep, RoomLeftStep DEF IInv, IdInv
  <2>2. ListHeld' /\ RacesKnown'
    BY <1>1, ListHeldStep, RacesKnownStep DEF IInv, IdInv
  <2>3. BodyReal' /\ IdsCovered'
    BY <1>1, BodyRealStep, IdsCoveredStep DEF IInv, IdInv
  <2> QED
    BY <2>1, <2>2, <2>3 DEF IdInv
<1>2. CASE UNCHANGED vars
  <2> USE <1>2 DEF IdInv, vars, fileVars, lockVars, callVars, teamVars, historyVars
  <2>1. UsedKnown' /\ RoomLeft'
    BY DEF UsedKnown, Listed, RoomLeft, Creating
  <2>2. ListHeld' /\ BodyReal'
    BY DEF ListHeld, HoldsList, BodyReal
  <2>3. RacesKnown'
    BY Zenon DEF RacesKnown
  <2>4. IdsCovered'
    <3>1. (~raced' => ~raced) /\ (~reused => ~reused')
      BY Zenon
    <3>2. \A c \in Callers : CoveredAt(c) => CoveredAt(c)'
      BY DEF CoveredAt, Covered, Listed
    <3>3. Covered(Listed("team") \cup {mark["team"]})
             => Covered(Listed("team") \cup {mark["team"]})'
      BY DEF Covered, Listed
    <3>4. pc' = pc
      OBVIOUS
    <3> QED
      BY <3>1, <3>2, <3>3, <3>4 DEF IdsCovered
  <2> QED
    BY <2>1, <2>2, <2>3, <2>4
<1> QED
  BY <1>1, <1>2 DEF Next, StepOf

LEMMA IdInvariant == Spec => [](IInv /\ IdInv)
<1>1. Init => IInv /\ IdInv
  BY InitInv, InitIds
<1>2. IInv /\ IdInv /\ [Next]_vars => (IInv /\ IdInv)'
  BY StepInv, StepIds
<1> QED
  BY <1>1, <1>2, PTL DEF Spec

LEMMA IdsFreshHolds == IdInv => IdsFresh
BY Zenon DEF IdInv, IdsCovered, IdsFresh

(* "Update high water mark before deleting to prevent ID reuse": whatever    *)
(* the order of creates, deletes and resets, an id is given twice only after *)
(* a delete, which takes no lock, overlapped a create, reset or delete.      *)
THEOREM IdsAreFresh == Spec => []IdsFresh
BY IdInvariant, IdsFreshHolds, PTL

----------------------------------------------------------------------------
(* Locks are given back.                                                   *)

\* The converse of LocksHeld and ListHeld: a lock is held by a call that is at
\* work under it.
TaskLocksUsed ==
    \A l \in Lists, i \in Ids, c \in Callers :
        taskLock[l][i] = c => Critical(c) /\ list[c] = l /\ task[c] = i

ListLockUsed == \A c \in Callers : listLock["team"] = c => HoldsList(c)

\* A critical caller goes on under its lock, or gives it back.
LEMMA CriticalGoesOn ==
    ASSUME StoreTypeOK, Positions, NEW c \in Callers, StepOf(c), Critical(c),
           ~LocksTask(c)
    PROVE  Critical(c)' /\ list'[c] = list[c] /\ task'[c] = task[c]
<1> USE DEF Goto, Critical
<1>1. ReadsBlockers(c) \/ UpdateOpens(c) \/ Leaves(c)
  <2>1. ~Calls(c)
    BY DEF Calls, ClaimNext, Delete, TakeOrComplete, Create, Reset, Unassign,
       BeginOnTeam, Begin
  <2>2. ~ListStep(c)
    BY DEF ListStep, LockList, ReadsHighest, NewOpens, NewFills, ReadMark, MarkOpens,
       MarkFills, DeleteUnlinks, DeleteFindsNone, ResetUnlinks, ResetEnds
  <2>3. ~(UpdateFindsNone(c) \/ LockThrows(c) \/ LockTimesOut(c) \/ NotClaimable(c))
    BY DEF UpdateFindsNone, LockThrows, LockTimesOut, NotClaimable
  <2> QED
    BY <2>1, <2>2, <2>3 DEF StepOf, CallStep, UpdateStep, ClaimStep, LocksTask
<1>2. pc \in [Callers -> Pcs]
  BY DEF StoreTypeOK, CallsTypeOK
<1> QED
  BY <1>1, <1>2 DEF ReadsBlockers, UpdateOpens, Leaves, callVars

LEMMA TaskLocksUsedStep ==
    ASSUME StoreTypeOK, Positions, LocksHeld, TaskLocksUsed, NEW c \in Callers, StepOf(c)
    PROVE  TaskLocksUsed'
<1>g. GoodStep(c)
  BY StepGood
<1>n. \A d \in Callers : d # NoOne
  BY CallersAssumption
<1> SUFFICES ASSUME NEW l \in Lists, NEW i \in Ids, NEW d \in Callers, taskLock'[l][i] = d
             PROVE  Critical(d)' /\ list'[d] = l /\ task'[d] = i
  BY DEF TaskLocksUsed, Lists
<1>o. d # c => /\ Critical(d)' <=> Critical(d)
               /\ list'[d] = list[d] /\ task'[d] = task[d]
  BY <1>g DEF GoodStep, OthersKept, Critical
<1>1. CASE ClaimLocks(c) \/ UpdateLocks(c)
  <2>1. /\ LockTask(c, c) /\ ~Critical(c) /\ list' = list /\ task' = task
        /\ list[c] \in Lists /\ task[c] \in Ids
    BY <1>1 DEF ClaimLocks, UpdateLocks, Goto, StoreTypeOK, CallsTypeOK, Positions,
       Position, Critical
  <2>2. taskLock'[l][i] = IF l = list[c] /\ i = task[c] THEN c ELSE taskLock[l][i]
    BY <2>1, LockWritten DEF LockTask, StoreTypeOK
  <2>3. Critical(c)'
    BY <1>1 DEF ClaimLocks, UpdateLocks, Goto, StoreTypeOK, CallsTypeOK, Critical
  <2>4. CASE l = list[c] /\ i = task[c]
    BY <2>1, <2>2, <2>3, <2>4
  <2>5. CASE ~(l = list[c] /\ i = task[c])
    <3>1. Critical(d) /\ list[d] = l /\ task[d] = i
      BY <2>2, <2>5 DEF TaskLocksUsed
    <3> QED
      BY <1>o, <2>1, <3>1
  <2> QED
    BY <2>4, <2>5
<1>2. CASE UpdateFills(c) \/ IsBlocked(c)
  <2>1. LockTask(c, NoOne) /\ list[c] \in Lists /\ task[c] \in Ids
    BY <1>2 DEF UpdateFills, IsBlocked, StoreTypeOK, CallsTypeOK, Positions, Position
  <2>2. taskLock'[l][i] = IF l = list[c] /\ i = task[c] THEN NoOne ELSE taskLock[l][i]
    BY <2>1, LockWritten DEF LockTask, StoreTypeOK
  <2>3. Critical(d) /\ list[d] = l /\ task[d] = i /\ d # c
    BY <1>n, <2>2 DEF TaskLocksUsed
  <2> QED
    BY <1>o, <2>3
<1>3. CASE ~LocksTask(c)
  <2>1. taskLock' = taskLock
    BY <1>3, LocksKept DEF NoLocking
  <2>2. Critical(d) /\ list[d] = l /\ task[d] = i
    BY <2>1 DEF TaskLocksUsed
  <2>3. CASE d = c
    BY <1>3, <2>2, <2>3, CriticalGoesOn
  <2>4. CASE d # c
    BY <1>o, <2>2, <2>4
  <2> QED
    BY <2>3, <2>4
<1> QED
  BY <1>1, <1>2, <1>3 DEF LocksTask

\* Who holds the lock of the list goes on under it, or gives it back.
LEMMA HolderGoesOn ==
    ASSUME StoreTypeOK, Positions, NEW c \in Callers, StepOf(c), HoldsList(c),
           ~(NewFills(c) \/ ResetEnds(c))
    PROVE  HoldsList(c)'
<1> USE DEF Goto
<1>t. pc \in [Callers -> Pcs] /\ op[c] \in Ops /\ pc[c] \in PcsOf(op[c])
  BY DEF StoreTypeOK, CallsTypeOK, Positions, Position
<1>p. \/ pc[c] \in {"both", "dirLeft", "markLeft", "newOpen", "newFill", "clear"}
      \/ op[c] = "reset" /\ pc[c] \in {"readMark", "markOpen", "markFill"}
  <2>1. CASE op[c] = "reset"
    <3>1. pc[c] \in {"listLock", "readMark", "markOpen", "markFill", "clear"}
      BY <1>t, <2>1 DEF PcsOf
    <3>2. pc[c] # "listLock"
      BY <2>1 DEF HoldsList
    <3> QED
      BY <2>1, <3>1, <3>2
  <2>2. CASE op[c] # "reset"
    BY <2>2 DEF HoldsList
  <2> QED
    BY <2>1, <2>2
<1>1. \/ ReadsHighest(c) \/ NewOpens(c) \/ ReadMark(c) \/ MarkOpens(c) \/ MarkFills(c)
      \/ ResetUnlinks(c) \/ Leaves(c)
  <2>1. ~Calls(c)
    BY <1>p DEF Calls, ClaimNext, Delete, TakeOrComplete, Create, Reset, Unassign,
       BeginOnTeam, Begin
  <2>2. ~UpdateStep(c)
    BY <1>p DEF UpdateStep, UpdateLocks, UpdateFindsNone, LockThrows, UpdateOpens, UpdateFills
  <2>3. ~ClaimStep(c) /\ ~LockTimesOut(c)
    BY <1>p DEF ClaimStep, ClaimLocks, NotClaimable, ReadsBlockers, IsBlocked, LockTimesOut
  <2>4. ~(LockList(c) \/ DeleteUnlinks(c) \/ DeleteFindsNone(c))
    BY <1>p DEF LockList, DeleteUnlinks, DeleteFindsNone
  <2> QED
    BY <2>1, <2>2, <2>3, <2>4 DEF StepOf, CallStep, ListStep
<1>2. CASE ReadsHighest(c) \/ NewOpens(c)
  BY <1>2, <1>t DEF ReadsHighest, NewOpens, HoldsList
<1>3. CASE ReadMark(c) \/ MarkOpens(c) \/ MarkFills(c)
  <2>1. op[c] = "reset" /\ op' = op
    BY <1>3, <1>p DEF ReadMark, MarkOpens, MarkFills
  <2>2. pc'[c] # "listLock"
    BY <1>3, <1>t DEF ReadMark, MarkOpens, MarkFills, Marked
  <2> QED
    BY <2>1, <2>2 DEF HoldsList
<1>4. CASE ResetUnlinks(c) \/ Leaves(c)
  BY <1>4 DEF ResetUnlinks, Leaves, callVars, HoldsList
<1> QED
  BY <1>1, <1>2, <1>3, <1>4

LEMMA ListLockUsedStep ==
    ASSUME StoreTypeOK, Positions, ListHeld, ListLockUsed, NEW c \in Callers, StepOf(c)
    PROVE  ListLockUsed'
<1>g. GoodStep(c)
  BY StepGood
<1>o. \A d \in Callers \ {c} : HoldsList(d)' <=> HoldsList(d)
  BY <1>g DEF GoodStep, OthersKept, HoldsList
<1>t. "team" \in DOMAIN listLock
  BY DEF ListHeld, Lists
<1>1. CASE LockList(c)
  <2>1. listLock'["team"] = c
    BY <1>1, <1>t DEF LockList
  <2>2. ListHeld'
    BY ListHeldStep
  <2>3. HoldsList(c)'
    BY <1>1 DEF LockList, Goto, HoldsList, StoreTypeOK, CallsTypeOK, Positions, Position, PcsOf
  <2> QED
    BY <2>1, <2>3 DEF ListLockUsed
<1>2. CASE NewFills(c) \/ ResetEnds(c)
  <2>1. listLock'["team"] = NoOne
    BY <1>2, <1>t DEF NewFills, ResetEnds, UnlockList
  <2> QED
    BY <2>1, CallersAssumption DEF ListLockUsed
<1>3. CASE ~LockList(c) /\ ~(NewFills(c) \/ ResetEnds(c))
  <2>1. listLock' = listLock
    BY <1>3, IdVarsStep
  <2> QED
    BY <1>3, <1>o, <2>1, HolderGoesOn DEF ListLockUsed
<1> QED
  BY <1>1, <1>2, <1>3

LEMMA LocksInvariant == Spec => [](IInv /\ IdInv /\ TaskLocksUsed /\ ListLockUsed)
<1>1. Init => TaskLocksUsed /\ ListLockUsed
  BY CallersAssumption DEF Init, TaskLocksUsed, ListLockUsed, Lists
<1>2. /\ IInv /\ IdInv /\ TaskLocksUsed /\ ListLockUsed /\ [Next]_vars
      => TaskLocksUsed' /\ ListLockUsed'
  <2> SUFFICES ASSUME IInv, IdInv, TaskLocksUsed, ListLockUsed, [Next]_vars
               PROVE  TaskLocksUsed' /\ ListLockUsed'
    OBVIOUS
  <2>1. ASSUME NEW c \in Callers, StepOf(c) PROVE TaskLocksUsed' /\ ListLockUsed'
    BY <2>1, TaskLocksUsedStep, ListLockUsedStep DEF IInv, IdInv
  <2>2. CASE UNCHANGED vars
    BY <2>2 DEF vars, lockVars, callVars, TaskLocksUsed, ListLockUsed, Critical, HoldsList
  <2> QED
    BY <2>1, <2>2 DEF Next, StepOf
<1> QED
  BY IdInvariant, <1>1, <1>2, PTL DEF Spec

\* What a call waits for: the lock of a task, or of the team's list.
WaitsFor(c, d) ==
    \/ pc[c] \in {"lock", "updLock"} /\ taskLock[list[c]][task[c]] = d
    \/ pc[c] = "listLock" /\ listLock["team"] = d

NobodyWaitsForWaiting ==
    \A c, d \in Callers :
        WaitsFor(c, d) => pc[d] \notin {"idle", "lock", "updLock", "listLock"}

(* A call that waits for a lock waits for one that is at work under it, not  *)
(* for one that waits in its turn, nor for one that has returned: calls do   *)
(* not wait for each other in a circle, and no way out keeps a lock.         *)
THEOREM WaitsAreShort == Spec => []NobodyWaitsForWaiting
<1>1. IInv /\ TaskLocksUsed /\ ListLockUsed => NobodyWaitsForWaiting
  <2> SUFFICES ASSUME IInv, TaskLocksUsed, ListLockUsed,
                      NEW c \in Callers, NEW d \in Callers, WaitsFor(c, d)
               PROVE  pc[d] \notin {"idle", "lock", "updLock", "listLock"}
    BY DEF NobodyWaitsForWaiting
  <2>1. CASE pc[c] \in {"lock", "updLock"} /\ taskLock[list[c]][task[c]] = d
    <3>1. list[c] \in Lists /\ task[c] \in Ids
      BY <2>1 DEF IInv, StoreTypeOK, CallsTypeOK, Positions, Position
    <3>2. Critical(d)
      BY <2>1, <3>1 DEF TaskLocksUsed
    <3> QED
      BY <3>2 DEF Critical
  <2>2. CASE pc[c] = "listLock" /\ listLock["team"] = d
    <3>1. HoldsList(d) /\ op[d] \in Ops /\ pc[d] \in PcsOf(op[d])
      BY <2>2 DEF ListLockUsed, IInv, StoreTypeOK, CallsTypeOK, Positions, Position
    <3> QED
      BY <3>1 DEF HoldsList, PcsOf
  <2> QED
    BY <2>1, <2>2 DEF WaitsFor
<1> QED
  BY LocksInvariant, <1>1, PTL
=============================================================================
