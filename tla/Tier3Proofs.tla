---------------------------- MODULE Tier3Proofs ----------------------------
(***************************************************************************)
(* Proofs about Tier3, for any finite set of controllers, any number of    *)
(* windows and any number of failures: its type invariant, that claims     *)
(* exclude each other, that a window runs once but for the exceptions that *)
(* the property names, and that the state file does not go back.           *)
(***************************************************************************)
EXTENDS Tier3, TLAPS

\* A reflection is about a window that has begun, and so is what it writes.
KeysBegun ==
    /\ \A c \in Controllers : key[c] <= window
    /\ \A c \in Reflecting : key[c] \in Windows
    /\ state <= window /\ tmp <= window

\* A claim in progress holds the lock.
ClaimsLocked == ~mistaken => \A c \in Controllers : Claiming(c) => lock = c

\* Reflections that overlap are known to.
OverlapsMet == \A c, d \in Reflecting : c # d => c \in met

\* A file is open only between its opening and its filling.
OpenedToFill == \A c \in Controllers : pc[c] # "fill" => opened[c] = "none"

\* A reflection that was never overlapped finds the files as it left them,
\* and no later window than its own in the state file.
AloneWrites ==
    \A c \in Reflecting \ met :
        /\ Known(state) <= key[c]
        /\ pc[c] = "fill" => opened[c] = "tmp" /\ tmp = Empty
        /\ pc[c] = "rename" => tmp = Body(c)

\* The claim was granted, and has not become a run; then, it was written.
Granted(c) ==
    /\ aim[c] = "claim"
    /\ pc[c] \in WritePcs \cup {"releaseRead", "releaseUnlink"}
Recorded(c) == aim[c] = "claim" /\ pc[c] \in {"releaseRead", "releaseUnlink"}

\* A window that was claimed or run is in the state file, or was until a later
\* one was; and while a claim on it stands it has not run.
RunsRecorded ==
    ~mistaken => \A w \in Windows \ (forgotten \cup late) :
        /\ runs[w] <= 1
        /\ runs[w] = 1 => w <= Known(state)
        /\ \A c \in Controllers : Recorded(c) /\ key[c] = w => w <= Known(state)
        /\ \A c \in Controllers : Granted(c) /\ key[c] = w => runs[w] = 0

IInv == TypeOK /\ KeysBegun /\ ClaimsLocked /\ OverlapsMet /\ OpenedToFill
               /\ AloneWrites /\ RunsRecorded

USE ControllersAssumption, BoundsAssumption

\* The steps of one controller.
Step(c) ==
    \/ Fire(c) \/ FireEarly(c) \/ Reflect(c)
    \/ ChildThrows(c) \/ WriteFails(c) \/ Crash(c) \/ Restart(c)

----------------------------------------------------------------------------
(* Types.                                                                  *)

LEMMA InitInv == Init => IInv
<1> SUFFICES ASSUME Init PROVE IInv
  OBVIOUS
<1> USE DEF Init, Reflecting
<1>1. TypeOK
  <2>1. 1 \in Windows /\ 1 \in 1..(MaxWindows + 1) /\ 0 \in 0..MaxTroubles
    BY DEF Windows
  <2> QED
    BY <2>1 DEF TypeOK, Contents, NoFile, NoKey, Aims
<1>2. KeysBegun
  BY DEF KeysBegun, NoKey, NoFile
<1>3. ClaimsLocked
  BY DEF ClaimsLocked, Claiming, WritePcs, ClaimPcs
<1>4. OverlapsMet /\ OpenedToFill /\ AloneWrites
  BY DEF OverlapsMet, OpenedToFill, AloneWrites
<1>5. RunsRecorded
  BY DEF RunsRecorded, Recorded, Granted
<1> QED
  BY <1>1, <1>2, <1>3, <1>4, <1>5 DEF IInv

\* The end of a reflection.
LEMMA RestType ==
    ASSUME TypeOK, NEW c \in Controllers, Rest(c)
    PROVE  /\ armed' \in [Controllers -> 1..(MaxWindows + 1)]
           /\ pc' \in [Controllers -> {"off", "timer", "gate", "lock", "stat",
                               "unlinkStale", "child"} \cup WritePcs \cup ClaimPcs]
           /\ key' \in [Controllers -> {NoKey} \cup Windows]
           /\ aim' \in [Controllers -> Aims] /\ met' \subseteq Controllers
BY DEF TypeOK, Rest, Windows, Aims

LEMMA TimerType ==
    ASSUME TypeOK, NEW c \in Controllers,
           Fire(c) \/ FireEarly(c) \/ Skip(c) \/ PassGate(c)
    PROVE  TypeOK'
<1> USE DEF TypeOK, Goto, timeVars, lockVars, fileVars, claimVars
<1>1. CASE Fire(c) \/ FireEarly(c)
  <2>1. met' \subseteq Controllers
    BY <1>1 DEF Fire, FireEarly, Begin, Reflecting
  <2>2. troubles' \in 0..MaxTroubles
    BY <1>1 DEF Fire, FireEarly, Trouble
  <2> QED
    BY <1>1, <2>1, <2>2 DEF Fire, FireEarly, Begin
<1>2. CASE Skip(c)
  BY <1>2, RestType DEF Skip
<1>3. CASE PassGate(c)
  BY <1>3 DEF PassGate
<1> QED
  BY <1>1, <1>2, <1>3

LEMMA LockType ==
    ASSUME TypeOK, NEW c \in Controllers, LockStep(c)
    PROVE  TypeOK'
<1> USE DEF TypeOK, Goto, timeVars, lockVars, fileVars, claimVars, WritePcs,
            ClaimPcs
<1>1. CASE TakeLock(c)
  BY <1>1 DEF TakeLock
<1>2. CASE LockExists(c) \/ Retry(c) \/ FindStale(c)
  BY <1>2 DEF LockExists, Retry, FindStale
<1>3. CASE UnlinkStale(c)
  BY <1>3 DEF UnlinkStale, RemoveLock
<1>4. CASE TimeOut(c)
  BY <1>4 DEF TimeOut, Aims
<1>5. CASE ReleaseReads(c)
  BY <1>5 DEF ReleaseReads
<1>6. ASSUME Released(c), pc[c] \in ClaimPcs
      PROVE  /\ armed' \in [Controllers -> 1..(MaxWindows + 1)]
             /\ pc' \in [Controllers -> {"off", "timer", "gate", "lock", "stat",
                               "unlinkStale", "child"} \cup WritePcs \cup ClaimPcs]
             /\ key' \in [Controllers -> {NoKey} \cup Windows]
             /\ aim' \in [Controllers -> Aims] /\ met' \subseteq Controllers
             /\ runs' \in [Windows -> Nat]
  <2>1. CASE aim[c] = "claim"
    BY <1>6, <2>1 DEF Released
  <2>2. CASE aim[c] = "failed"
    BY <1>6, <2>2 DEF Released
  <2>3. CASE aim[c] \notin {"claim", "failed"}
    BY <1>6, <2>3, RestType DEF Released
  <2> QED
    BY <2>1, <2>2, <2>3
<1>7. CASE ReleaseUnlinks(c)
  BY <1>6, <1>7 DEF ReleaseUnlinks, RemoveLock
<1>8. CASE ReleaseSkips(c)
  BY <1>6, <1>8 DEF ReleaseSkips
<1> QED
  BY <1>1, <1>2, <1>3, <1>4, <1>5, <1>7, <1>8 DEF LockStep

LEMMA ClaimType ==
    ASSUME TypeOK, KeysBegun, NEW c \in Controllers,
           \/ RefuseClaim(c) \/ Claim(c) \/ ChildReturns(c) \/ ChildThrows(c)
           \/ Crash(c) \/ Restart(c)
    PROVE  TypeOK'
<1> USE DEF TypeOK, Goto, timeVars, lockVars, fileVars, claimVars, Aims,
            WritePcs, ClaimPcs
<1>1. CASE RefuseClaim(c)
  BY <1>1 DEF RefuseClaim
<1>2. CASE Claim(c)
  <2>1. key[c] \in Windows
    BY <1>2 DEF KeysBegun, Claim, Reflecting
  <2> QED
    BY <1>2, <2>1 DEF Claim
<1>3. CASE ChildReturns(c)
  BY <1>3 DEF ChildReturns
<1>4. CASE ChildThrows(c)
  BY <1>4, RestType DEF ChildThrows, Trouble
<1>5. CASE Crash(c)
  BY <1>5 DEF Crash, Trouble
<1>6. CASE Restart(c)
  BY <1>6 DEF Restart, Windows
<1> QED
  BY <1>1, <1>2, <1>3, <1>4, <1>5, <1>6

LEMMA FileType ==
    ASSUME TypeOK, NEW c \in Controllers, WriteStep(c) \/ WriteFails(c)
    PROVE  TypeOK'
<1> USE DEF TypeOK, Goto, timeVars, lockVars, fileVars, claimVars, WritePcs,
            ClaimPcs
<1>1. CASE Open(c)
  BY <1>1 DEF Open, Contents
<1>2. CASE Fill(c)
  <2>1. \A content : Filled(c, content) \subseteq Contents
    BY DEF Filled, Body, Contents
  <2>2. \A content, meant : SetState(content, meant) => forgotten' \subseteq Windows
    BY DEF SetState
  <2>3. /\ state' \in Contents \cup {NoFile} /\ tmp' \in Contents \cup {NoFile}
        /\ forgotten' \subseteq Windows
    BY <1>2, <2>1, <2>2 DEF Fill, SetState
  <2> QED
    BY <1>2, <2>3 DEF Fill
<1>3. ASSUME Written(c) \/ Rejects(c), pc[c] \in WritePcs
      PROVE  /\ armed' \in [Controllers -> 1..(MaxWindows + 1)]
             /\ pc' \in [Controllers -> {"off", "timer", "gate", "lock", "stat",
                               "unlinkStale", "child"} \cup WritePcs \cup ClaimPcs]
             /\ key' \in [Controllers -> {NoKey} \cup Windows]
             /\ aim' \in [Controllers -> Aims] /\ met' \subseteq Controllers
  <2>1. CASE Rest(c)
    BY <2>1, RestType
  <2>2. CASE ~Rest(c)
    BY <1>3, <2>2 DEF Written, Rejects, Aims
  <2> QED
    BY <2>1, <2>2
<1>4. CASE Rename(c)
  BY <1>3, <1>4 DEF Rename, SetState
<1>5. CASE RenameMisses(c)
  BY <1>3, <1>5 DEF RenameMisses
<1>6. CASE WriteFails(c)
  BY <1>3, <1>6 DEF WriteFails, Trouble
<1> QED
  BY <1>1, <1>2, <1>4, <1>5, <1>6 DEF WriteStep

LEMMA StepType ==
    ASSUME TypeOK, KeysBegun, NEW c \in Controllers, Step(c)
    PROVE  TypeOK'
BY TimerType, LockType, ClaimType, FileType DEF Step, Reflect

LEMMA TimeType ==
    ASSUME TypeOK, Tick \/ LockAges
    PROVE  TypeOK'
<1>1. CASE Tick
  BY <1>1 DEF TypeOK, Tick, Windows, lockVars, fileVars, claimVars
<1>2. CASE LockAges
  BY <1>2 DEF TypeOK, LockAges, Trouble, timeVars, fileVars, claimVars
<1> QED
  BY <1>1, <1>2

----------------------------------------------------------------------------
(* Windows and keys.                                                       *)

\* A controller's step leaves the time and the others alone, and its own
\* reflection is over or goes on about the same window.
LEMMA KeyStep ==
    ASSUME TypeOK, NEW c \in Controllers, Step(c)
    PROVE  /\ window' = window
           /\ \A d \in Controllers \ {c} : UNCHANGED <<pc[d], key[d], aim[d]>>
           /\ \/ key'[c] = window /\ c \notin Reflecting
              \/ key'[c] = key[c] /\ (c \in Reflecting' => c \in Reflecting)
              \/ key'[c] = NoKey /\ c \notin Reflecting'
<1> USE DEF TypeOK, Goto, Reflecting, timeVars, lockVars, fileVars, claimVars
<1>1. CASE Fire(c) \/ FireEarly(c)
  BY <1>1 DEF Fire, FireEarly, Begin
<1>2. CASE Skip(c) \/ PassGate(c)
  BY <1>2 DEF Skip, PassGate, Rest
<1>3. CASE TakeLock(c) \/ LockExists(c) \/ Retry(c) \/ FindStale(c)
  BY <1>3 DEF TakeLock, LockExists, Retry, FindStale
<1>4. CASE UnlinkStale(c) \/ TimeOut(c) \/ ReleaseReads(c)
  BY <1>4 DEF UnlinkStale, TimeOut, ReleaseReads
<1>5. CASE ReleaseUnlinks(c) \/ ReleaseSkips(c)
  <2>1. CASE aim[c] = "claim"
    BY <1>5, <2>1 DEF ReleaseUnlinks, ReleaseSkips, Released
  <2>2. CASE aim[c] = "failed"
    BY <1>5, <2>2 DEF ReleaseUnlinks, ReleaseSkips, Released
  <2>3. CASE aim[c] \notin {"claim", "failed"}
    BY <1>5, <2>3 DEF ReleaseUnlinks, ReleaseSkips, Released, Rest
  <2> QED
    BY <2>1, <2>2, <2>3
<1>6. CASE RefuseClaim(c) \/ Claim(c) \/ ChildReturns(c)
  BY <1>6 DEF RefuseClaim, Claim, ChildReturns
<1>7. CASE ChildThrows(c)
  BY <1>7 DEF ChildThrows, Rest
<1>8. CASE Open(c) \/ Fill(c)
  BY <1>8 DEF Open, Fill
<1>9. CASE Rename(c)
  BY <1>9 DEF Rename, Written, Rest
<1>10. CASE RenameMisses(c) \/ WriteFails(c)
  BY <1>10 DEF RenameMisses, WriteFails, Rejects, Rest, WritePcs
<1>11. CASE Crash(c) \/ Restart(c)
  BY <1>11 DEF Crash, Restart
<1> QED
  BY <1>1, <1>2, <1>3, <1>4, <1>5, <1>6, <1>7, <1>8, <1>9, <1>10, <1>11
     DEF Step, Reflect, LockStep, WriteStep

\* Only the four steps of a write touch the files.
LEMMA FilesKept ==
    ASSUME NEW c \in Controllers, Step(c),
           ~(Open(c) \/ Fill(c) \/ Rename(c))
    PROVE  /\ UNCHANGED <<state, tmp, forgotten>>
           /\ opened' = opened \/ opened' = [opened EXCEPT ![c] = "none"]
BY DEF Step, Reflect, LockStep, WriteStep, Fire, FireEarly, Begin, PassGate,
       Skip, TakeLock, LockExists, Retry, FindStale, UnlinkStale, TimeOut,
       ReleaseReads, ReleaseUnlinks, ReleaseSkips, RefuseClaim, Claim,
       ChildReturns, ChildThrows, RenameMisses, WriteFails, Crash, Restart, fileVars

\* What a controller writes is at most the window of its reflection.
LEMMA BodyBegun ==
    ASSUME TypeOK, KeysBegun, NEW c \in Controllers, NEW content,
           NEW written \in Filled(c, content)
    PROVE  written \in {NoKey} \cup Windows /\ written <= window
BY DEF TypeOK, KeysBegun, Filled, Body, NoKey, Windows

LEMMA KeysBegunKept ==
    ASSUME TypeOK, KeysBegun, NEW c \in Controllers, Step(c)
    PROVE  KeysBegun'
<1>1. /\ \A d \in Controllers : key'[d] <= window'
      /\ \A d \in Reflecting' : key'[d] \in Windows
  <2>1. SUFFICES ASSUME NEW d \in Controllers
                 PROVE  /\ key'[d] <= window'
                        /\ d \in Reflecting' => key'[d] \in Windows
    BY DEF Reflecting
  <2>2. window' = window /\ window \in Windows
    BY KeyStep DEF TypeOK
  <2>3. CASE d = c
    <3>1. key[c] <= window /\ (c \in Reflecting => key[c] \in Windows)
      BY DEF KeysBegun
    <3> QED
      BY <2>2, <2>3, <3>1, KeyStep DEF NoKey, Windows
  <2>4. CASE d # c
    <3>1. pc'[d] = pc[d] /\ key'[d] = key[d]
      BY <2>4, KeyStep
    <3> QED
      BY <2>2, <3>1 DEF KeysBegun, Reflecting
  <2> QED
    BY <2>3, <2>4
<1>2. state' <= window' /\ tmp' <= window'
  <2>1. CASE Open(c)
    BY <2>1 DEF TypeOK, KeysBegun, Open, Empty, Windows, timeVars
  <2>2. CASE Fill(c)
    <3>1. window' = window
      BY <2>2 DEF Fill, timeVars
    <3>2. tmp' <= window
      BY <2>2, BodyBegun DEF KeysBegun, Fill
    <3>3. state' <= window
      BY <2>2, BodyBegun DEF KeysBegun, Fill, SetState
    <3> QED
      BY <3>1, <3>2, <3>3
  <2>3. CASE Rename(c)
    BY <2>3 DEF TypeOK, KeysBegun, Rename, SetState, NoFile, Windows
  <2>4. CASE ~(Open(c) \/ Fill(c) \/ Rename(c))
    BY <2>4, FilesKept, KeyStep DEF KeysBegun
  <2> QED
    BY <2>1, <2>2, <2>3, <2>4
<1> QED
  BY <1>1, <1>2 DEF KeysBegun

----------------------------------------------------------------------------
(* The lock.                                                               *)

\* A step that does not enter the critical section leaves the lock alone, or
\* takes it from no one, unless by mistake.
LEMMA ClaimsLockedKept ==
    ASSUME TypeOK, ClaimsLocked, NEW c \in Controllers, Step(c)
    PROVE  ClaimsLocked'
<1> SUFFICES ASSUME ~mistaken', NEW d \in Controllers, Claiming(d)'
             PROVE  lock' = d
  BY DEF ClaimsLocked
<1> USE DEF TypeOK, ClaimsLocked, Claiming, Goto, WritePcs, ClaimPcs, timeVars,
            lockVars, fileVars, claimVars
<1>1. CASE Fire(c) \/ FireEarly(c)
  BY <1>1 DEF Fire, FireEarly, Begin
<1>2. CASE Skip(c) \/ PassGate(c)
  BY <1>2 DEF Skip, PassGate, Rest
<1>3. CASE TakeLock(c)
  BY <1>3 DEF TakeLock, LockAbsent
<1>4. CASE LockExists(c) \/ Retry(c) \/ FindStale(c)
  BY <1>4 DEF LockExists, Retry, FindStale
<1>5. CASE UnlinkStale(c)
  BY <1>5 DEF UnlinkStale, RemoveLock
<1>6. CASE TimeOut(c) \/ ReleaseReads(c)
  BY <1>6 DEF TimeOut, ReleaseReads
<1>7. CASE ReleaseUnlinks(c) \/ ReleaseSkips(c)
  <2>1. d # c /\ Claiming(d)
    <3>1. CASE aim[c] = "claim"
      BY <1>7, <3>1 DEF ReleaseUnlinks, ReleaseSkips, Released
    <3>2. CASE aim[c] = "failed"
      BY <1>7, <3>2 DEF ReleaseUnlinks, ReleaseSkips, Released
    <3>3. CASE aim[c] \notin {"claim", "failed"}
      BY <1>7, <3>3 DEF ReleaseUnlinks, ReleaseSkips, Released, Rest
    <3> QED
      BY <3>1, <3>2, <3>3
  <2>2. CASE ReleaseUnlinks(c)
    BY <2>1, <2>2 DEF ReleaseUnlinks, RemoveLock
  <2>3. CASE ReleaseSkips(c)
    BY <2>1, <2>3 DEF ReleaseSkips
  <2> QED
    BY <1>7, <2>2, <2>3
<1>8. CASE RefuseClaim(c) \/ Claim(c) \/ ChildReturns(c)
  BY <1>8 DEF RefuseClaim, Claim, ChildReturns
<1>9. CASE ChildThrows(c)
  BY <1>9 DEF ChildThrows, Rest
<1>10. CASE Open(c) \/ Fill(c)
  BY <1>10 DEF Open, Fill
<1>11. CASE Rename(c)
  BY <1>11 DEF Rename, Written, Rest
<1>12. CASE RenameMisses(c) \/ WriteFails(c)
  BY <1>12 DEF RenameMisses, WriteFails, Rejects, Rest
<1>13. CASE Crash(c) \/ Restart(c)
  BY <1>13 DEF Crash, Restart
<1> QED
  BY <1>1, <1>2, <1>3, <1>4, <1>5, <1>6, <1>7, <1>8, <1>9, <1>10, <1>11, <1>12,
     <1>13 DEF Step, Reflect, LockStep, WriteStep

LEMMA LockExcludes ==
    ASSUME ClaimsLocked
    PROVE  ClaimsExclude
BY DEF ClaimsLocked, ClaimsExclude

----------------------------------------------------------------------------
(* Overlapping reflections.                                                *)

\* Reflections end alone, and begin with all that overlap known.
LEMMA MetStep ==
    ASSUME TypeOK, NEW c \in Controllers, Step(c)
    PROVE  \/ Reflecting' = Reflecting /\ met' = met
           \/ Reflecting' = Reflecting \ {c} /\ met' = met \ {c}
           \/ /\ Fire(c) \/ FireEarly(c)
              /\ Reflecting' = Reflecting \cup {c} /\ c \notin Reflecting
              /\ met' = IF Reflecting = {} THEN met ELSE Reflecting \cup {c}
<1> USE DEF TypeOK, Goto, Reflecting, timeVars, lockVars, fileVars, claimVars
<1>1. CASE Fire(c) \/ FireEarly(c)
  BY <1>1 DEF Fire, FireEarly, Begin
<1>2. CASE Skip(c)
  BY <1>2 DEF Skip, Rest
<1>3. CASE PassGate(c)
  BY <1>3 DEF PassGate
<1>4. CASE TakeLock(c) \/ LockExists(c) \/ Retry(c) \/ FindStale(c)
  BY <1>4 DEF TakeLock, LockExists, Retry, FindStale
<1>5. CASE UnlinkStale(c) \/ TimeOut(c) \/ ReleaseReads(c)
  BY <1>5 DEF UnlinkStale, TimeOut, ReleaseReads
<1>6. CASE ReleaseUnlinks(c) \/ ReleaseSkips(c)
  <2>1. CASE aim[c] = "claim"
    BY <1>6, <2>1 DEF ReleaseUnlinks, ReleaseSkips, Released
  <2>2. CASE aim[c] = "failed"
    BY <1>6, <2>2 DEF ReleaseUnlinks, ReleaseSkips, Released
  <2>3. CASE aim[c] \notin {"claim", "failed"}
    BY <1>6, <2>3 DEF ReleaseUnlinks, ReleaseSkips, Released, Rest
  <2> QED
    BY <2>1, <2>2, <2>3
<1>7. CASE RefuseClaim(c) \/ Claim(c) \/ ChildReturns(c)
  BY <1>7 DEF RefuseClaim, Claim, ChildReturns
<1>8. CASE ChildThrows(c)
  BY <1>8 DEF ChildThrows, Rest
<1>9. CASE Open(c) \/ Fill(c)
  BY <1>9 DEF Open, Fill
<1>10. CASE Rename(c)
  BY <1>10 DEF Rename, Written, Rest
<1>11. CASE RenameMisses(c)
  BY <1>11 DEF RenameMisses, Rejects, Rest
<1>12. CASE WriteFails(c)
  BY <1>12 DEF WriteFails, Rejects, Rest, WritePcs
<1>13. CASE Crash(c)
  BY <1>13 DEF Crash
<1>14. CASE Restart(c)
  BY <1>14 DEF Restart
<1> QED
  BY <1>1, <1>2, <1>3, <1>4, <1>5, <1>6, <1>7, <1>8, <1>9, <1>10, <1>11, <1>12,
     <1>13, <1>14 DEF Step, Reflect, LockStep, WriteStep

LEMMA OverlapsMetKept ==
    ASSUME TypeOK, OverlapsMet, NEW c \in Controllers, Step(c)
    PROVE  OverlapsMet'
BY MetStep DEF OverlapsMet

LEMMA OpenedToFillKept ==
    ASSUME TypeOK, OpenedToFill, NEW c \in Controllers, Step(c)
    PROVE  OpenedToFill'
<1> SUFFICES ASSUME NEW d \in Controllers, pc'[d] # "fill"
             PROVE  opened'[d] = "none"
  BY DEF OpenedToFill
<1> USE DEF TypeOK, OpenedToFill, Goto
<1>1. CASE Open(c)
  BY <1>1 DEF Open
<1>2. CASE Fill(c)
  BY <1>2 DEF Fill
<1>3. CASE Rename(c)
  <2>1. opened[d] = "none"
    BY <1>3, KeyStep DEF Rename, Step, Reflect, WriteStep
  <2> QED
    BY <1>3, <2>1 DEF Rename
<1>4. CASE ~(Open(c) \/ Fill(c) \/ Rename(c))
  <2>1. CASE d # c
    BY <1>4, <2>1, FilesKept, KeyStep
  <2>2. CASE d = c /\ pc[c] # "fill"
    BY <1>4, <2>2, FilesKept
  <2>3. CASE d = c /\ pc[c] = "fill"
    BY <1>4, <2>2, <2>3 DEF Step, Reflect, LockStep, WriteStep, Fire, FireEarly,
       Begin, PassGate, Skip, TakeLock, LockExists, Retry, FindStale, UnlinkStale,
       TimeOut, ReleaseReads, ReleaseUnlinks, ReleaseSkips, RefuseClaim, Claim,
       ChildReturns, ChildThrows, RenameMisses, WriteFails, Crash, Restart,
       ClaimPcs
  <2> QED
    BY <2>1, <2>2, <2>3
<1> QED
  BY <1>1, <1>2, <1>3, <1>4

\* An unmet reflection is the only one.
LEMMA UnmetIsAlone ==
    ASSUME OverlapsMet, NEW d \in Reflecting \ met
    PROVE  Reflecting = {d}
BY DEF OverlapsMet

\* What a reflection that is alone does to the files.
LEMMA AloneStep ==
    ASSUME TypeOK, KeysBegun, AloneWrites, NEW c \in Reflecting \ met,
           Step(c), c \in Reflecting'
    PROVE  /\ Known(state') <= key'[c]
           /\ pc'[c] = "fill" => opened'[c] = "tmp" /\ tmp' = Empty
           /\ pc'[c] = "rename" => tmp' = Body(c)'
<1> c \in Controllers
  BY DEF Reflecting
<1> USE DEF TypeOK, Goto, timeVars, lockVars, fileVars, claimVars
<1>1. key'[c] = key[c] /\ window' = window /\ key[c] \in Windows
  BY KeyStep DEF KeysBegun
<1>2. CASE Open(c)
  BY <1>1, <1>2 DEF AloneWrites, Open
<1>3. CASE Fill(c)
  <2>1. opened[c] = "tmp" /\ tmp = Empty
    BY <1>3 DEF AloneWrites, Fill
  <2>2. tmp' = Body(c) /\ state' = state
    BY <1>3, <2>1 DEF Fill, Filled
  <2>3. Body(c)' = Body(c) /\ pc'[c] = "rename"
    BY <1>3 DEF Fill, Body
  <2> QED
    BY <1>1, <2>2, <2>3 DEF AloneWrites
<1>4. CASE Rename(c)
  <2>1. state' = Body(c)
    BY <1>4 DEF AloneWrites, Rename, SetState
  <2>2. Known(state') <= key[c]
    BY <1>1, <2>1 DEF Body, Known, NoKey, Windows
  <2>3. pc'[c] \notin {"fill", "rename"}
    BY <1>4 DEF Rename, Written, Rest
  <2> QED
    BY <1>1, <2>2, <2>3
<1>5. CASE ~(Open(c) \/ Fill(c) \/ Rename(c))
  <2>1. state' = state
    BY <1>5, FilesKept
  <2>2. pc'[c] \notin {"fill", "rename"}
    <3>1. ~(Fire(c) \/ FireEarly(c))
      BY DEF Fire, FireEarly, Begin, Reflecting
    <3>2. CASE ReleaseUnlinks(c) \/ ReleaseSkips(c)
      BY <3>2 DEF ReleaseUnlinks, ReleaseSkips, Released, Rest
    <3> QED
      BY <1>5, <3>1, <3>2 DEF Step, Reflect, LockStep, WriteStep, PassGate,
         Skip, TakeLock, LockExists, Retry, FindStale, UnlinkStale, TimeOut,
         ReleaseReads, RefuseClaim, Claim, ChildReturns, ChildThrows,
         RenameMisses, WriteFails, Crash, Restart, Rest, Rejects, WritePcs
  <2> QED
    BY <1>1, <2>1, <2>2 DEF AloneWrites
<1> QED
  BY <1>2, <1>3, <1>4, <1>5

LEMMA AloneWritesKept ==
    ASSUME TypeOK, KeysBegun, OverlapsMet, OpenedToFill, AloneWrites,
           NEW c \in Controllers, Step(c)
    PROVE  AloneWrites'
<1> SUFFICES ASSUME NEW d \in Controllers, d \in Reflecting', d \notin met'
             PROVE  /\ Known(state') <= key'[d]
                    /\ pc'[d] = "fill" => opened'[d] = "tmp" /\ tmp' = Empty
                    /\ pc'[d] = "rename" => tmp' = Body(d)'
  BY DEF AloneWrites, Reflecting
<1>1. CASE Fire(c) \/ FireEarly(c)
  <2>1. Reflecting = {} /\ d = c
    <3>1. c \notin Reflecting
      BY <1>1 DEF Fire, FireEarly, Begin, Goto, Reflecting
    <3>2. pc'[c] = "gate" /\ c \in Reflecting'
      BY <1>1 DEF TypeOK, Fire, FireEarly, Begin, Goto, Reflecting
    <3>3. /\ Reflecting' = Reflecting \cup {c}
          /\ met' = IF Reflecting = {} THEN met ELSE Reflecting \cup {c}
      BY <3>1, <3>2, MetStep
    <3> QED
      BY <3>3
  <2>2. pc'[c] = "gate" /\ key'[c] = window /\ state' = state
    BY <1>1 DEF TypeOK, Fire, FireEarly, Begin, Goto, fileVars
  <2> QED
    BY <2>1, <2>2 DEF TypeOK, KeysBegun, Known, NoKey, Windows
<1>2. CASE ~(Fire(c) \/ FireEarly(c))
  <2>1. d \in Reflecting \ met
    BY <1>2, MetStep
  <2>2. CASE d = c
    BY <2>1, <2>2, AloneStep
  <2>3. CASE d # c
    <3>1. c \notin Reflecting
      BY <2>1, <2>3, UnmetIsAlone
    <3>2. ~(Open(c) \/ Fill(c) \/ Rename(c))
      BY <3>1 DEF Open, Fill, Rename, Goto, Reflecting
    <3>3. UNCHANGED <<state, tmp>> /\ opened'[d] = opened[d]
      BY <2>3, <3>2, FilesKept DEF TypeOK
    <3>4. pc'[d] = pc[d] /\ key'[d] = key[d] /\ aim'[d] = aim[d]
      BY <2>3, KeyStep
    <3> QED
      BY <2>1, <3>3, <3>4 DEF AloneWrites, Body
  <2> QED
    BY <2>2, <2>3
<1> QED
  BY <1>1, <1>2

----------------------------------------------------------------------------
(* Windows that were run.                                                  *)

\* A step that neither grants nor records a claim, nor runs a child.
LEMMA RunsKept ==
    ASSUME TypeOK, RunsRecorded, mistaken => mistaken',
           runs' = runs, UNCHANGED <<late, forgotten, state>>,
           \A d \in Controllers :
               /\ Recorded(d)' => Recorded(d) /\ key'[d] = key[d]
               /\ Granted(d)' => Granted(d) /\ key'[d] = key[d]
    PROVE  RunsRecorded'
BY DEF RunsRecorded

\* Once the state file knows of a window, it does until it is forgotten.
LEMMA KnownUntilForgotten ==
    ASSUME TypeOK, NEW content \in Contents, NEW meant, SetState(content, meant),
           NEW w \in Windows, w \notin forgotten'
    PROVE  /\ w \notin forgotten
           /\ w <= Known(state) => w <= Known(state')
           /\ w = meant => w <= Known(state')
BY DEF TypeOK, SetState, Known, Contents, NoKey, Empty, NoFile, Windows

LEMMA RunsRecordedKept ==
    ASSUME TypeOK, KeysBegun, ClaimsLocked, RunsRecorded, NEW c \in Controllers,
           Step(c)
    PROVE  RunsRecorded'
<1> USE DEF TypeOK, Recorded, Granted, Goto, WritePcs, ClaimPcs, timeVars,
            lockVars, fileVars, claimVars
<1>1. CASE Fire(c) \/ FireEarly(c)
  BY <1>1, RunsKept DEF Fire, FireEarly, Begin
<1>2. CASE Skip(c) \/ PassGate(c)
  BY <1>2, RunsKept DEF Skip, PassGate, Rest
<1>3. CASE TakeLock(c) \/ LockExists(c) \/ Retry(c) \/ FindStale(c)
  BY <1>3, RunsKept DEF TakeLock, LockExists, Retry, FindStale
<1>4. CASE UnlinkStale(c)
  BY <1>4, RunsKept DEF UnlinkStale, RemoveLock
<1>5. CASE TimeOut(c) \/ ReleaseReads(c)
  BY <1>5, RunsKept DEF TimeOut, ReleaseReads
<1>6. CASE ReleaseUnlinks(c) \/ ReleaseSkips(c)
  <2>1. mistaken => mistaken'
    BY <1>6 DEF ReleaseUnlinks, ReleaseSkips, RemoveLock
  <2>2. CASE aim[c] = "claim"
    <3>1. /\ runs' = [runs EXCEPT ![key[c]] = @ + 1]
          /\ pc' = [pc EXCEPT ![c] = "child"]
          /\ UNCHANGED <<key, aim, state, forgotten, late>>
      BY <1>6, <2>2 DEF ReleaseUnlinks, ReleaseSkips, Released
    <3>2. Recorded(c) /\ Claiming(c) /\ Granted(c)
      BY <1>6, <2>2 DEF ReleaseUnlinks, ReleaseSkips, Claiming
    <3> SUFFICES ASSUME ~mistaken', NEW w \in Windows, w \notin forgotten \cup late
                 PROVE  /\ runs'[w] <= 1
                        /\ runs'[w] = 1 => w <= Known(state)
                        /\ \A d \in Controllers :
                              Recorded(d)' /\ key[d] = w => w <= Known(state)
                        /\ \A d \in Controllers :
                              Granted(d)' /\ key[d] = w => runs'[w] = 0
      BY <3>1 DEF RunsRecorded
    <3>3. \A d \in Controllers : Granted(d)' => Granted(d) /\ d # c
      BY <3>1
    <3>4. \A d \in Controllers : ~(Granted(d) /\ d # c)
      BY <2>1, <3>2 DEF ClaimsLocked, Claiming
    <3>5. CASE key[c] = w
      BY <2>1, <3>1, <3>2, <3>3, <3>4, <3>5 DEF RunsRecorded
    <3>6. CASE key[c] # w
      BY <2>1, <3>1, <3>3, <3>4, <3>6 DEF RunsRecorded
    <3> QED
      BY <3>5, <3>6
  <2>3. CASE aim[c] = "failed"
    BY <1>6, <2>1, <2>3, RunsKept DEF ReleaseUnlinks, ReleaseSkips, Released
  <2>4. CASE aim[c] \notin {"claim", "failed"}
    BY <1>6, <2>1, <2>4, RunsKept DEF ReleaseUnlinks, ReleaseSkips, Released, Rest
  <2> QED
    BY <2>2, <2>3, <2>4
<1>7. CASE RefuseClaim(c)
  BY <1>7, RunsKept DEF RefuseClaim
<1>8. CASE Claim(c)
  <2>1. key[c] \in Windows
    BY <1>8 DEF KeysBegun, Claim, Reflecting
  <2>2. key[c] \notin late' => Known(state) < key[c]
    BY <1>8, <2>1 DEF Claim, Taken, Known, Contents, NoKey, Empty, NoFile, Windows
  <2>3. /\ pc' = [pc EXCEPT ![c] = "open"] /\ aim' = [aim EXCEPT ![c] = "claim"]
        /\ late \subseteq late'
        /\ UNCHANGED <<key, runs, mistaken, state, forgotten>>
    BY <1>8 DEF Claim
  <2> SUFFICES ASSUME ~mistaken, NEW w \in Windows, w \notin forgotten \cup late'
               PROVE  /\ runs[w] <= 1
                      /\ runs[w] = 1 => w <= Known(state)
                      /\ \A d \in Controllers :
                            Recorded(d)' /\ key[d] = w => w <= Known(state)
                      /\ \A d \in Controllers :
                            Granted(d)' /\ key[d] = w => runs[w] = 0
    BY <2>3 DEF RunsRecorded
  <2>4. /\ runs[w] <= 1 /\ (runs[w] = 1 => w <= Known(state))
        /\ \A d \in Controllers : Recorded(d) /\ key[d] = w => w <= Known(state)
        /\ \A d \in Controllers : Granted(d) /\ key[d] = w => runs[w] = 0
    BY <2>3 DEF RunsRecorded
  <2>5. key[c] = w => runs[w] = 0
    BY <2>2, <2>4 DEF Known, Contents, NoKey, Empty, NoFile, Windows
  <2> QED
    BY <2>3, <2>4, <2>5
<1>9. CASE ChildReturns(c)
  BY <1>9, RunsKept DEF ChildReturns
<1>10. CASE ChildThrows(c)
  BY <1>10, RunsKept DEF ChildThrows, Rest
<1>11. CASE Open(c)
  BY <1>11, RunsKept DEF Open
<1>12. ASSUME NEW content \in Contents, NEW meant, SetState(content, meant),
              UNCHANGED <<runs, late, mistaken>>,
              \A d \in Controllers :
                 /\ Granted(d)' => Granted(d) /\ key'[d] = key[d]
                 /\ Recorded(d)' => /\ key'[d] = key[d]
                                    /\ Recorded(d) \/ meant = key[d]
       PROVE  RunsRecorded'
  <2> SUFFICES ASSUME ~mistaken, NEW w \in Windows, w \notin forgotten' \cup late
               PROVE  /\ runs[w] <= 1
                      /\ runs[w] = 1 => w <= Known(state')
                      /\ \A d \in Controllers :
                            Recorded(d)' /\ key'[d] = w => w <= Known(state')
                      /\ \A d \in Controllers :
                            Granted(d)' /\ key'[d] = w => runs[w] = 0
    BY <1>12 DEF RunsRecorded
  <2>1. /\ w \notin forgotten
        /\ w <= Known(state) => w <= Known(state')
        /\ w = meant => w <= Known(state')
    BY <1>12, KnownUntilForgotten
  <2>2. /\ runs[w] <= 1 /\ (runs[w] = 1 => w <= Known(state))
        /\ \A d \in Controllers : Recorded(d) /\ key[d] = w => w <= Known(state)
        /\ \A d \in Controllers : Granted(d) /\ key[d] = w => runs[w] = 0
    BY <2>1 DEF RunsRecorded
  <2> QED
    BY <1>12, <2>1, <2>2
<1>13. CASE Fill(c)
  <2>1. CASE opened[c] = "state"
    <3>1. PICK content \in Filled(c, state) : SetState(content, NoKey)
      BY <1>13, <2>1 DEF Fill
    <3>2. content \in Contents
      BY <3>1, BodyBegun DEF Contents
    <3>3. /\ UNCHANGED <<runs, late, mistaken, key, aim>>
          /\ pc[c] = "fill" /\ pc' = [pc EXCEPT ![c] = "rename"]
      BY <1>13 DEF Fill
    <3> QED
      BY <1>12, <3>1, <3>2, <3>3
  <2>2. CASE opened[c] # "state"
    BY <1>13, <2>2, RunsKept DEF Fill
  <2> QED
    BY <2>1, <2>2
<1>14. CASE Rename(c)
  <2>1. CASE aim[c] = "claim"
    BY <1>12, <1>14, <2>1 DEF Rename, Written
  <2>2. CASE aim[c] # "claim"
    BY <1>12, <1>14, <2>2 DEF Rename, Written, Rest
  <2> QED
    BY <2>1, <2>2
<1>15. CASE RenameMisses(c) \/ WriteFails(c)
  BY <1>15, RunsKept DEF RenameMisses, WriteFails, Rejects, Rest
<1>16. CASE Crash(c) \/ Restart(c)
  BY <1>16, RunsKept DEF Crash, Restart
<1> QED
  BY <1>1, <1>2, <1>3, <1>4, <1>5, <1>6, <1>7, <1>8, <1>9, <1>10, <1>11, <1>13,
     <1>14, <1>15, <1>16 DEF Step, Reflect, LockStep, WriteStep

----------------------------------------------------------------------------
(* The invariant.                                                          *)

LEMMA TimeInv ==
    ASSUME IInv, Tick \/ LockAges
    PROVE  IInv'
<1>1. TypeOK'
  BY TimeType DEF IInv
<1>2. /\ window <= window' /\ (mistaken' = mistaken)
      /\ UNCHANGED <<pc, key, aim, met, lock, state, tmp, opened, forgotten,
                     runs, late>>
  BY DEF IInv, TypeOK, Tick, LockAges, Windows, lockVars, fileVars, claimVars,
     timeVars
<1>3. KeysBegun'
  <2>1. \A x \in Int : x <= window => x <= window'
    BY <1>1, <1>2 DEF IInv, TypeOK, Windows
  <2>2. state \in Int /\ tmp \in Int /\ \A c \in Controllers : key[c] \in Int
    BY DEF IInv, TypeOK, Contents, NoFile, Empty, NoKey, Windows
  <2> QED
    BY <1>2, <2>1, <2>2 DEF IInv, KeysBegun, Reflecting
<1>4. ClaimsLocked' /\ OverlapsMet' /\ OpenedToFill' /\ AloneWrites' /\ RunsRecorded'
  BY <1>2 DEF IInv, ClaimsLocked, Claiming, OverlapsMet, OpenedToFill, AloneWrites,
     RunsRecorded, Reflecting, Body, Recorded, Granted
<1> QED
  BY <1>1, <1>3, <1>4 DEF IInv

LEMMA StepInv == IInv /\ [Next]_vars => IInv'
<1> SUFFICES ASSUME IInv, [Next]_vars PROVE IInv'
  OBVIOUS
<1>1. ASSUME NEW c \in Controllers, Step(c) PROVE IInv'
  BY <1>1, StepType, KeysBegunKept, ClaimsLockedKept, OverlapsMetKept,
     OpenedToFillKept, AloneWritesKept, RunsRecordedKept DEF IInv
<1>2. CASE Tick \/ LockAges
  BY <1>2, TimeInv
<1>3. CASE UNCHANGED vars
  <2>1. UNCHANGED <<window, armed, pc, key, aim, met, lock, aged, mistaken, state,
                    tmp, opened, forgotten, troubles, runs, late>>
    BY <1>3 DEF vars, timeVars, lockVars, fileVars, claimVars
  <2>2. TypeOK' /\ KeysBegun'
    BY <2>1 DEF IInv, TypeOK, KeysBegun, Reflecting
  <2>3. ClaimsLocked' /\ OverlapsMet' /\ OpenedToFill' /\ AloneWrites' /\ RunsRecorded'
    BY <2>1 DEF IInv, ClaimsLocked, Claiming, OverlapsMet, OpenedToFill,
       AloneWrites, RunsRecorded, Reflecting, Body, Recorded, Granted
  <2> QED
    BY <2>2, <2>3 DEF IInv
<1> QED
  BY <1>1, <1>2, <1>3 DEF Next, Step

LEMMA Inductive == Spec => []IInv
BY InitInv, StepInv, PTL DEF Spec

----------------------------------------------------------------------------
(* Every state is of its type.                                             *)
THEOREM Tier3TypeCorrect == Spec => []TypeOK
<1>1. IInv => TypeOK
  BY DEF IInv
<1> QED
  BY Inductive, <1>1, PTL

(* withTier3ClaimLock: one claim at a time, for any number of controllers, *)
(* as long as no live claim's lock is removed.                             *)
THEOREM ClaimsAreExclusive == Spec => []ClaimsExclude
<1>1. IInv => ClaimsExclude
  BY LockExcludes DEF IInv
<1> QED
  BY Inductive, <1>1, PTL

(* A window runs a second time only if a claim lost its lock, the state    *)
(* file lost the window, or the claim came after a later window's.         *)
THEOREM WindowsRunOnce == Spec => []WindowRunsOnce
<1>1. IInv => WindowRunsOnce
  BY DEF IInv, TypeOK, RunsRecorded, WindowRunsOnce
<1> QED
  BY Inductive, <1>1, PTL

(* Only a reflection that overlapped another one, or that failed to claim, *)
(* takes the state file back to an earlier window.                         *)
THEOREM WindowsKept == Spec => WindowKept
<1>1. IInv /\ [Next]_vars =>
        [Known(state') < Known(state) =>
            \E c \in Reflecting : c \in met \/ aim[c] = "failed"]_vars
  <2> SUFFICES ASSUME IInv, Next, Known(state') < Known(state)
               PROVE  \E c \in Reflecting : c \in met \/ aim[c] = "failed"
    OBVIOUS
  <2>1. state' # state
    <3>1. Known(state) \in Int
      BY DEF IInv, TypeOK, Known, Contents, NoKey, Empty, NoFile, Windows
    <3> QED
      BY <3>1 DEF Known
  <2>2. PICK c \in Controllers : Step(c) /\ (Open(c) \/ Fill(c) \/ Rename(c))
    <3>1. ~Tick /\ ~LockAges
      BY <2>1 DEF Tick, LockAges, fileVars
    <3>2. PICK c \in Controllers : Step(c)
      BY <3>1 DEF Next, Step
    <3> QED
      BY <2>1, <3>2, FilesKept
  <2>3. c \in Reflecting
    BY <2>2 DEF Open, Fill, Rename, Goto, Reflecting
  <2>4. CASE c \notin met
    <3>1. ~Fill(c) /\ ~Open(c)
      BY <2>1, <2>3, <2>4 DEF IInv, AloneWrites, Fill, Open, Goto
    <3>2. state' = Body(c) /\ c \in Reflecting \ met
      BY <2>2, <2>3, <2>4, <3>1 DEF IInv, AloneWrites, Rename, SetState
    <3>3. CASE aim[c] # "failed"
      <4>1. Known(state) <= key[c] /\ key[c] \in Windows
        BY <2>3, <2>4 DEF IInv, AloneWrites, KeysBegun
      <4> QED
        BY <3>2, <3>3, <4>1 DEF IInv, TypeOK, Body, Known, Contents, NoKey, Empty,
           NoFile, Windows
    <3> QED
      BY <2>3, <3>3
  <2> QED
    BY <2>3, <2>4
<1> QED
  BY Inductive, <1>1, PTL DEF Spec, WindowKept
=============================================================================
