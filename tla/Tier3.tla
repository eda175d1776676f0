------------------------------- MODULE Tier3 -------------------------------
(***************************************************************************)
(* Tier 3 reflections of one project: each controller fires a timer at the *)
(* start of a window, claims the window under a lock file, runs a child and*)
(* writes the outcome (daemon/kairos/tier3.ts).  Nothing keeps a second    *)
(* daemon, or a second controller of the same daemon, from reflecting on   *)
(* the same project: the claim is what makes a window run once.            *)
(*                                                                         *)
(* A step is one file-system call with the code up to the next.  tier3.json*)
(* is written by filling tier3.json.tmp, which all writers share, and      *)
(* renaming it; of its contents the model keeps lastWindowKey.             *)
(***************************************************************************)
EXTENDS Integers, FiniteSets

CONSTANTS
    Controllers,
    MaxWindows, MaxTroubles     \* bounds

ASSUME ControllersAssumption ==
    /\ IsFiniteSet(Controllers)
    /\ {"none", "orphan"} \cap Controllers = {}
ASSUME BoundsAssumption ==
    MaxWindows \in Nat \ {0} /\ MaxTroubles \in Nat

VARIABLES
    window,     \* the present one
    armed,      \* each controller: the window its timer is set for
    pc,
    key,        \* the window the reflection is about
    aim,        \* what its write of tier3.json, or its release, is part of
    lock,       \* tier3.claim.lock: none, its holder, or a dead process's
    aged,       \* the lock is older than TIER3_CLAIM_LOCK_STALE_MS
    state, tmp, \* tier3.json and tier3.json.tmp
    opened,     \* where the file that a controller has opened is by now
    troubles,   \* early timers, failures, crashes and stalls
    runs,       \* history: the children run for each window
    met,        \* history: those whose reflection overlapped another one
    mistaken,   \* history: the lock of a live claim was removed
    forgotten,  \* history: windows the state file knew of and lost
    late        \* history: windows claimed over a later one

lockVars    == <<lock, aged, mistaken>>
fileVars    == <<state, tmp, opened, forgotten>>
claimVars   == <<runs, late>>
timeVars    == <<window, armed>>
vars == <<timeVars, pc, key, aim, met, lockVars, fileVars, troubles, claimVars>>

Windows == 1..MaxWindows

\* What a file may hold: nothing yet, no lastWindowKey (also: no valid JSON),
\* or the key of a window.
NoFile == -2
Empty  == -1
NoKey  == 0
Contents == {Empty, NoKey} \cup Windows

WritePcs   == {"open", "fill", "rename"}
ClaimPcs   == {"readState", "releaseRead", "releaseUnlink"}
Aims       == {"none", "claim", "refused", "failed", "outcome"}

TypeOK ==
    /\ window \in Windows
    /\ armed \in [Controllers -> 1..(MaxWindows + 1)]
    /\ pc \in [Controllers -> {"off", "timer", "gate", "lock", "stat",
                               "unlinkStale", "child"} \cup WritePcs \cup ClaimPcs]
    /\ key \in [Controllers -> {NoKey} \cup Windows]
    /\ aim \in [Controllers -> Aims]
    /\ lock \in {"none", "orphan"} \cup Controllers
    /\ aged \in BOOLEAN
    /\ state \in Contents \cup {NoFile} /\ tmp \in Contents \cup {NoFile}
    /\ opened \in [Controllers -> {"none", "tmp", "state", "unlinked"}]
    /\ troubles \in 0..MaxTroubles
    /\ runs \in [Windows -> Nat]
    /\ met \subseteq Controllers /\ mistaken \in BOOLEAN
    /\ forgotten \subseteq Windows /\ late \subseteq Windows

Init ==
    /\ window = 1
    /\ armed = [c \in Controllers |-> 1]
    /\ pc = [c \in Controllers |-> "timer"]
    /\ key = [c \in Controllers |-> NoKey]
    /\ aim = [c \in Controllers |-> "none"]
    /\ lock = "none" /\ aged = FALSE /\ mistaken = FALSE
    /\ state = NoFile /\ tmp = NoFile
    /\ opened = [c \in Controllers |-> "none"]
    /\ troubles = 0
    /\ runs = [w \in Windows |-> 0]
    /\ met = {} /\ forgotten = {} /\ late = {}

Goto(c, from, to) == pc[c] = from /\ pc' = [pc EXCEPT ![c] = to]

Trouble == troubles < MaxTroubles /\ troubles' = troubles + 1

\* The claim's critical section, as the controller sees it.
Claiming(c) ==
    pc[c] \in ClaimPcs \/ (pc[c] \in WritePcs /\ aim[c] = "claim")

Reflecting == {c \in Controllers : pc[c] \notin {"off", "timer"}}

\* readTier3State: a missing or unreadable file is {}.
Known(content) == IF content \in {NoFile, Empty} THEN NoKey ELSE content

----------------------------------------------------------------------------
(* The timer and the gate.                                                 *)

\* The reflection is over, however it went: scheduleNext.
Rest(c) ==
    /\ pc' = [pc EXCEPT ![c] = "timer"]
    /\ armed' = [armed EXCEPT ![c] = window + 1]
    /\ key' = [key EXCEPT ![c] = NoKey]
    /\ aim' = [aim EXCEPT ![c] = "none"]
    /\ met' = met \ {c}

Begin(c) ==
    /\ Goto(c, "timer", "gate")
    /\ key' = [key EXCEPT ![c] = window]
    /\ met' = IF Reflecting = {} THEN met ELSE Reflecting \cup {c}
    /\ UNCHANGED <<timeVars, aim, lockVars, fileVars, claimVars>>

Fire(c) == armed[c] <= window /\ Begin(c) /\ UNCHANGED troubles

\* The clock by which the delay was computed is behind the timer's.
FireEarly(c) ==
    /\ armed[c] = window + 1
    /\ Trouble
    /\ Begin(c)

\* Disabled by now, or paused.
Skip(c) ==
    /\ pc[c] = "gate"
    /\ Rest(c)
    /\ UNCHANGED <<window, lockVars, fileVars, troubles, claimVars>>

PassGate(c) ==
    /\ Goto(c, "gate", "lock")
    /\ UNCHANGED <<timeVars, key, aim, met, lockVars, fileVars, troubles, claimVars>>

----------------------------------------------------------------------------
(* withTier3ClaimLock.                                                     *)

\* Fault: the lock file is written without the `wx` flag.
LockAbsentIgnored == TRUE

LockAbsent == lock = "none"

TakeLock(c) ==
    /\ LockAbsent
    /\ Goto(c, "lock", "readState")
    /\ lock' = c /\ aged' = FALSE
    /\ UNCHANGED <<timeVars, key, aim, met, mistaken, fileVars, troubles, claimVars>>

LockExists(c) ==
    /\ ~LockAbsent
    /\ Goto(c, "lock", "stat")
    /\ UNCHANGED <<timeVars, key, aim, met, lockVars, fileVars, troubles, claimVars>>

\* The lock is gone, or neither old nor the deadline there: try again.
Retry(c) ==
    /\ ~(lock # "none" /\ aged)
    /\ Goto(c, "stat", "lock")
    /\ UNCHANGED <<timeVars, key, aim, met, lockVars, fileVars, troubles, claimVars>>

FindStale(c) ==
    /\ lock # "none" /\ aged
    /\ Goto(c, "stat", "unlinkStale")
    /\ UNCHANGED <<timeVars, key, aim, met, lockVars, fileVars, troubles, claimVars>>

\* unlink takes the path, whatever file is there by now.
RemoveLock(c) ==
    /\ lock' = "none" /\ aged' = FALSE
    /\ mistaken' = (mistaken \/ (lock \in Controllers \ {c} /\ Claiming(lock)))

\* Fault: the unlink names another file, and its error is swallowed.
UnlinkStaleMisses(c) ==
    /\ Goto(c, "unlinkStale", "lock")
    /\ UNCHANGED <<timeVars, key, aim, met, lockVars, fileVars, troubles, claimVars>>

UnlinkStale(c) ==
    /\ RemoveLock(c)
    /\ Goto(c, "unlinkStale", "lock")
    /\ UNCHANGED <<timeVars, key, aim, met, fileVars, troubles, claimVars>>

\* The deadline has passed: runTier3Reflection's catch.
TimeOut(c) ==
    /\ lock # "none" /\ ~aged
    /\ Goto(c, "stat", "open")
    /\ aim' = [aim EXCEPT ![c] = "failed"]
    /\ UNCHANGED <<timeVars, key, met, lockVars, fileVars, troubles, claimVars>>

\* releaseTier3ClaimLock compares the token.
ReleaseReads(c) ==
    /\ pc[c] = "releaseRead" /\ lock = c
    /\ pc' = [pc EXCEPT ![c] = "releaseUnlink"]
    /\ UNCHANGED <<timeVars, key, aim, met, lockVars, fileVars, troubles, claimVars>>

\* What follows the release: the child, the catch, or the end.
Released(c) ==
    CASE aim[c] = "claim" ->
            /\ pc' = [pc EXCEPT ![c] = "child"]
            /\ runs' = [runs EXCEPT ![key[c]] = @ + 1]
            /\ UNCHANGED <<armed, key, aim, met>>
      [] aim[c] = "failed" ->
            /\ pc' = [pc EXCEPT ![c] = "open"]
            /\ UNCHANGED <<armed, key, aim, met, runs>>
      [] OTHER -> Rest(c) /\ UNCHANGED runs

ReleaseUnlinks(c) ==
    /\ pc[c] = "releaseUnlink"
    /\ RemoveLock(c)
    /\ Released(c)
    /\ UNCHANGED <<window, fileVars, troubles, late>>

\* The lock is not ours any more.
ReleaseSkips(c) ==
    /\ pc[c] = "releaseRead" /\ lock # c
    /\ Released(c)
    /\ UNCHANGED <<window, lockVars, fileVars, troubles, late>>

----------------------------------------------------------------------------
(* claimTier3Window.                                                       *)

\* Fault: the claim does not look at the window recorded.
TakenNever(c) == FALSE

Taken(c) == Known(state) = key[c]

RefuseClaim(c) ==
    /\ Taken(c)
    /\ Goto(c, "readState", "releaseRead")
    /\ aim' = [aim EXCEPT ![c] = "refused"]
    /\ UNCHANGED <<timeVars, key, met, lockVars, fileVars, troubles, claimVars>>

Claim(c) ==
    /\ ~Taken(c)
    /\ Goto(c, "readState", "open")
    /\ aim' = [aim EXCEPT ![c] = "claim"]
    /\ late' = IF Known(state) > key[c] THEN late \cup {key[c]} ELSE late
    /\ UNCHANGED <<timeVars, key, met, lockVars, fileVars, troubles, runs>>

----------------------------------------------------------------------------
(* The child.                                                              *)

\* It has been run, and its cost, events and log line are written.
ChildReturns(c) ==
    /\ Goto(c, "child", "open")
    /\ aim' = [aim EXCEPT ![c] = "outcome"]
    /\ UNCHANGED <<timeVars, key, met, lockVars, fileVars, troubles, claimVars>>

\* One of these cannot be written: no outcome is.
ChildThrows(c) ==
    /\ Trouble
    /\ pc[c] = "child"
    /\ Rest(c)
    /\ UNCHANGED <<window, lockVars, fileVars, claimVars>>

----------------------------------------------------------------------------
(* writeTier3State: of the claim, of its failure, or of the outcome.       *)

\* Fault: the outcome does not repeat the window.
BodyOfClaimOnly(c) == IF aim[c] = "claim" THEN key[c] ELSE NoKey

\* The failure is recorded without the window.
Body(c) == IF aim[c] = "failed" THEN NoKey ELSE key[c]

\* state becomes `content', and with it the claim of `meant' is made; what it
\* knew, or should know, and does not tell is forgotten.
SetState(content, meant) ==
    /\ state' = content
    /\ forgotten' = forgotten \cup
         {w \in Windows : Known(content) < w /\ (w <= Known(state) \/ w = meant)}

Open(c) ==
    /\ Goto(c, "open", "fill")
    /\ tmp' = Empty
    /\ opened' = [opened EXCEPT ![c] = "tmp"]
    /\ UNCHANGED <<timeVars, key, aim, met, lockVars, state, forgotten, troubles,
                   claimVars>>

\* Writing over what another has filled may leave the end of its text.
Filled(c, content) == IF content = Empty THEN {Body(c)} ELSE {Body(c), NoKey}

\* The file may have been renamed, or replaced, since it was opened.
Fill(c) ==
    /\ Goto(c, "fill", "rename")
    /\ \/ /\ opened[c] = "tmp"
          /\ tmp' \in Filled(c, tmp)
          /\ UNCHANGED <<state, forgotten>>
       \/ /\ opened[c] = "state"
          /\ \E content \in Filled(c, state) : SetState(content, NoKey)
          /\ UNCHANGED tmp
       \/ /\ opened[c] = "unlinked"
          /\ UNCHANGED <<state, tmp, forgotten>>
    /\ opened' = [opened EXCEPT ![c] = "none"]
    /\ UNCHANGED <<timeVars, key, aim, met, lockVars, troubles, claimVars>>

\* The write is done: the claim releases its lock, anything else ends.
Written(c) ==
    IF aim[c] = "claim"
    THEN /\ pc' = [pc EXCEPT ![c] = "releaseRead"]
         /\ UNCHANGED <<armed, key, aim, met>>
    ELSE Rest(c)

Rename(c) ==
    /\ pc[c] = "rename" /\ tmp # NoFile
    /\ SetState(tmp, IF aim[c] = "claim" THEN key[c] ELSE NoKey)
    /\ tmp' = NoFile
    /\ opened' = [d \in Controllers |->
                    CASE opened[d] = "tmp" -> "state"
                      [] opened[d] = "state" -> "unlinked"
                      [] OTHER -> opened[d]]
    /\ Written(c)
    /\ UNCHANGED <<window, lockVars, troubles, claimVars>>

\* A rejected write: of the claim, the catch follows the release; of anything
\* else, the reflection rejects and the timer is set again.
Rejects(c) ==
    IF aim[c] = "claim"
    THEN /\ pc' = [pc EXCEPT ![c] = "releaseRead"]
         /\ aim' = [aim EXCEPT ![c] = "failed"]
         /\ UNCHANGED <<armed, key, met>>
    ELSE Rest(c)

\* Another writer has renamed the file already.
RenameMisses(c) ==
    /\ pc[c] = "rename" /\ tmp = NoFile
    /\ Rejects(c)
    /\ UNCHANGED <<window, lockVars, fileVars, troubles, claimVars>>

WriteFails(c) ==
    /\ Trouble
    /\ pc[c] \in WritePcs
    /\ opened' = [opened EXCEPT ![c] = "none"]
    /\ Rejects(c)
    /\ UNCHANGED <<window, lockVars, state, tmp, forgotten, claimVars>>

----------------------------------------------------------------------------
(* Time and processes.                                                     *)

Tick ==
    /\ window < MaxWindows
    /\ window' = window + 1
    /\ UNCHANGED <<armed, pc, key, aim, met, lockVars, fileVars, troubles, claimVars>>

\* Thirty seconds: the holder is dead, or it is suspended or very slow.
LockAges ==
    /\ lock # "none" /\ ~aged
    /\ aged' = TRUE
    /\ IF lock = "orphan" THEN UNCHANGED troubles ELSE Trouble
    /\ UNCHANGED <<timeVars, pc, key, aim, met, lock, mistaken, fileVars,
                   claimVars>>

Crash(c) ==
    /\ Trouble
    /\ pc[c] # "off"
    /\ pc' = [pc EXCEPT ![c] = "off"]
    /\ key' = [key EXCEPT ![c] = NoKey]
    /\ aim' = [aim EXCEPT ![c] = "none"]
    /\ met' = met \ {c}
    /\ opened' = [opened EXCEPT ![c] = "none"]
    /\ lock' = IF lock = c THEN "orphan" ELSE lock
    /\ UNCHANGED <<timeVars, aged, mistaken, state, tmp, forgotten,
                   claimVars>>

\* A daemon's start makes a new controller; its first timer is the next window's.
Restart(c) ==
    /\ Goto(c, "off", "timer")
    /\ armed' = [armed EXCEPT ![c] = window + 1]
    /\ UNCHANGED <<window, key, aim, met, lockVars, fileVars, troubles, claimVars>>

----------------------------------------------------------------------------
LockStep(c) ==
    \/ TakeLock(c) \/ LockExists(c) \/ Retry(c) \/ FindStale(c)
    \/ UnlinkStale(c) \/ TimeOut(c)
    \/ ReleaseReads(c) \/ ReleaseUnlinks(c) \/ ReleaseSkips(c)

WriteStep(c) == Open(c) \/ Fill(c) \/ Rename(c) \/ RenameMisses(c)

Reflect(c) ==
    \/ PassGate(c) \/ Skip(c) \/ LockStep(c) \/ RefuseClaim(c) \/ Claim(c)
    \/ ChildReturns(c) \/ WriteStep(c)

Next ==
    \/ \E c \in Controllers :
          \/ Fire(c) \/ FireEarly(c) \/ Reflect(c)
          \/ ChildThrows(c) \/ WriteFails(c) \/ Crash(c) \/ Restart(c)
    \/ Tick \/ LockAges

Spec == Init /\ [][Next]_vars

(* File calls settle and a child ends.  A claim that goes on trying comes  *)
(* to its deadline: once a second has passed, every look at a fresh lock   *)
(* throws.                                                                 *)
FairSpec ==
    /\ Spec
    /\ \A c \in Controllers : WF_vars(Reflect(c)) /\ SF_vars(TimeOut(c))

----------------------------------------------------------------------------
(* Properties.                                                             *)

(* withTier3ClaimLock: one claim at a time reads and writes the state file,*)
(* unless somebody took a live claim's lock for a stale one.               *)
ClaimsExclude ==
    ~mistaken => \A c, d \in Controllers : Claiming(c) /\ Claiming(d) => c = d

(* tier3.test.ts: "runs at most once per interval window per project", also*)
(* over controllers, crashes and early timers.  The exceptions are all of  *)
(* them: a live claim lost its lock, the state file lost the window, or    *)
(* the claim came so late that a later window was recorded.                *)
WindowRunsOnce ==
    \A w \in Windows : runs[w] > 1 => mistaken \/ w \in forgotten \cup late

(* The state file does not go back to an earlier window, or to none, but   *)
(* by a reflection that overlapped another one or failed to claim: not even*)
(* when writes fail or are cut off by a crash.                             *)
WindowKept ==
    [][Known(state') < Known(state) =>
          \E c \in Reflecting : c \in met \/ aim[c] = "failed"]_vars

(* Every reflection ends, which stop() and the next window wait for, though*)
(* the lock be a dead process's.                                           *)
ReflectionEnds ==
    \A c \in Controllers : c \in Reflecting ~> c \notin Reflecting
=============================================================================
