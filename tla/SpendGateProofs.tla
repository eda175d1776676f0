-------------------------- MODULE SpendGateProofs --------------------------
(***************************************************************************)
(* Proofs about SpendGate, for any projects, lanes, caps and bounds: that  *)
(* the ledger is exact, that the auth latch holds but for two ways out,    *)
(* that a pause lets at most one run of a lane finish, and that the caps   *)
(* bound what is spent.                                                    *)
(***************************************************************************)
EXTENDS SpendGate, FiniteSetTheorems, TLAPS

USE LanesAssumption, AmountsAssumption

\* The types the arguments need.
GateTypeOK ==
    /\ pause \in PauseStates /\ latch \in BOOLEAN
    /\ seen \in [Lanes -> PauseStates] /\ pc \in [Lanes -> LanePcs]
    /\ sincePause \in [Lanes -> Nat] /\ underAuth \subseteq Lanes
    /\ resumed \in BOOLEAN /\ authHeld \in BOOLEAN /\ forgotten \in BOOLEAN

LedgerTypeOK ==
    /\ globalCost \in Nat /\ projectCost \in [Projects -> Nat]
    /\ spentAll \in Nat /\ spent \in [Projects -> Nat]
    /\ cost \in [Lanes -> Nat]
    /\ prior \in [Lanes -> [global : Nat, project : Nat]]
    /\ recQueue \in Seq(Lanes) /\ torn \in BOOLEAN

\* Who starts a run under a pause has read the file before; whose run counts
\* under it reads that it is paused.
RunsCounted ==
    pause.paused => \A l \in Lanes :
        /\ sincePause[l] <= 1
        /\ pc[l] = "deciding" /\ sincePause[l] = 1 => seen[l].paused

\* After an auth failure every check answers `paused`: by the latch, or, where
\* a restart has cleared it, by the file that all checks since have read.
Held == latch \/ (pause.paused /\ \A l \in Lanes : pc[l] = "deciding" => seen[l].paused)

\* Without a resume no file that was read lifts the latch, and a restart that
\* clears it leaves the pause in the file.
LatchKept ==
    ~resumed /\ ~forgotten =>
        /\ pause.by = "user" => pause.paused
        /\ \A l \in Lanes : seen[l].by = "user" => seen[l].paused
        /\ authHeld => Held
        /\ underAuth # {} => authHeld
        /\ AuthLatchHolds

\* Only the call at the head of the queue has begun, and it knows the totals;
\* what it has written is right.
HeadRecords ==
    \A l \in Lanes : pc[l] \in RecordPcs => recQueue # <<>> /\ l = Head(recQueue)

RecordsExact ==
    ~torn =>
        /\ LedgerExact
        /\ \A l \in Lanes : pc[l] \in RecordPcs =>
              /\ prior[l] = [global |-> spentAll, project |-> spent[ProjectOf[l]]]
              /\ globalCost = IF pc[l] = "wroteGlobal" THEN spentAll + cost[l]
                                                       ELSE spentAll
              /\ projectCost = IF pc[l] = "wroteProject"
                               THEN [spent EXCEPT ![ProjectOf[l]] = @ + cost[l]]
                               ELSE spent

IInv == GateTypeOK /\ LedgerTypeOK /\ RunsCounted /\ LatchKept /\ HeadRecords
                   /\ RecordsExact

\* The steps of a lane that touch the ledger, and the others.
RecordStep(l) == Record(l) \/ RecordFails(l)
GateStep(l) ==
    \/ BeginCheck(l) \/ ReadPause(l) \/ SkipRun(l) \/ StartChild(l)
    \/ ChildReturns(l) \/ AuthFailure(l)
    \/ PauseLands(l) \/ PauseRefused(l) \/ PauseFails(l)

LEMMA NextSteps ==
    ASSUME Next
    PROVE  \/ \E l \in Lanes : RecordStep(l) \/ GateStep(l)
           \/ \E paused \in BOOLEAN : UserWrites(paused)
           \/ DaemonRestarts
BY DEF Next, LaneStep, RecordStep, GateStep

LEMMA InitInv == Init => IInv
<1> SUFFICES ASSUME Init PROVE IInv
  OBVIOUS
<1>1. GateTypeOK
  BY DEF Init, GateTypeOK, PauseStates, Authors, NoPause, LanePcs
<1>2. LedgerTypeOK
  <2>1. NoPrior \in [global : Nat, project : Nat]
    BY DEF NoPrior
  <2>2. <<>> \in Seq(Lanes)
    OBVIOUS
  <2> QED
    BY <2>1, <2>2 DEF Init, LedgerTypeOK
<1>3. RunsCounted /\ LatchKept
  BY DEF Init, RunsCounted, LatchKept, NoPause, AuthLatchHolds
<1>4. HeadRecords /\ RecordsExact
  BY DEF Init, HeadRecords, RecordsExact, LedgerExact, RecordPcs
<1> QED
  BY <1>1, <1>2, <1>3, <1>4 DEF IInv

----------------------------------------------------------------------------
(* The gate.                                                               *)

\* What setPauseState does to the count of runs.
LEMMA PauseIsSet ==
    ASSUME GateTypeOK, NEW state \in PauseStates, SetPause(state)
    PROVE  /\ sincePause' \in [Lanes -> Nat] /\ pause' = state
           /\ \A l \in Lanes : sincePause'[l] = IF state.paused # pause.paused
                                               THEN 0 ELSE sincePause[l]
BY DEF SetPause, GateTypeOK

\* What the steps of records leave alone.
LEMMA RecordLeavesGate ==
    ASSUME GateTypeOK, NEW l \in Lanes, RecordStep(l)
    PROVE  /\ UNCHANGED <<pause, latch, seen, historyVars>>
           /\ \E to \in LanePcs \ {"deciding", "child"} : pc' = [pc EXCEPT ![l] = to]
<1> USE DEF gateVars, Goto, LanePcs, RecordPcs
<1>1. CASE RecordReads(l)
  BY <1>1 DEF RecordReads
<1>2. CASE RecordWritesOne(l)
  BY <1>2 DEF RecordWritesOne
<1>3. CASE RecordReturns(l)
  BY <1>3 DEF RecordReturns
<1>4. CASE RecordRefused(l) \/ RecordFails(l)
  BY <1>4 DEF RecordRefused, RecordFails, RecordRejects
<1> QED
  BY <1>1, <1>2, <1>3, <1>4 DEF RecordStep, Record

LEMMA GateTypeKept == GateTypeOK /\ [Next]_vars => GateTypeOK'
<1> SUFFICES ASSUME GateTypeOK, [Next]_vars PROVE GateTypeOK'
  OBVIOUS
<1> USE DEF GateTypeOK, gateVars, historyVars, Goto
<1>1. ASSUME NEW l \in Lanes, RecordStep(l) PROVE GateTypeOK'
  BY <1>1, RecordLeavesGate
<1>2. ASSUME NEW l \in Lanes, GateStep(l) PROVE GateTypeOK'
  <2> USE DEF LanePcs, PauseStates, Authors, NoPause, SetPause, PauseSettles
  <2>1. CASE BeginCheck(l) \/ ReadPause(l)
    <3>1. CASE BeginCheck(l)
      BY <3>1 DEF BeginCheck
    <3>2. CASE ReadPause(l)
      BY <3>2 DEF ReadPause
    <3> QED
      BY <2>1, <3>1, <3>2
  <2>2. CASE SkipRun(l)
    BY <2>2 DEF SkipRun, LatchAfterCheck
  <2>3. CASE StartChild(l)
    BY <2>3 DEF StartChild, LatchAfterCheck
  <2>4. CASE ChildReturns(l) \/ AuthFailure(l)
    BY <2>4 DEF ChildReturns, AuthFailure
  <2>5. CASE PauseLands(l)
    BY <2>5 DEF PauseLands
  <2>6. CASE PauseRefused(l) \/ PauseFails(l)
    BY <2>6 DEF PauseRefused, PauseFails
  <2> QED
    BY <1>2, <2>1, <2>2, <2>3, <2>4, <2>5, <2>6 DEF GateStep
<1>3. ASSUME NEW paused \in BOOLEAN, UserWrites(paused) PROVE GateTypeOK'
  BY <1>3 DEF UserWrites, SetPause, laneVars, PauseStates, Authors
<1>4. CASE DaemonRestarts
  BY <1>4 DEF DaemonRestarts, NoPause, PauseStates, Authors, LanePcs
<1>5. CASE UNCHANGED vars
  BY <1>5 DEF vars, laneVars
<1> QED
  BY <1>1, <1>2, <1>3, <1>4, <1>5, NextSteps

LEMMA RunsCountedKept == GateTypeOK /\ RunsCounted /\ [Next]_vars => RunsCounted'
<1> SUFFICES ASSUME GateTypeOK, RunsCounted, [Next]_vars PROVE RunsCounted'
  OBVIOUS
<1> USE DEF GateTypeOK, RunsCounted, gateVars, historyVars, Goto
<1>1. ASSUME NEW l \in Lanes, RecordStep(l) PROVE RunsCounted'
  BY <1>1, RecordLeavesGate
<1>2. ASSUME NEW l \in Lanes, GateStep(l) PROVE RunsCounted'
  <2> USE DEF NoPause, SetPause, PauseSettles
  <2>1. CASE BeginCheck(l) \/ ReadPause(l)
    BY <2>1 DEF BeginCheck, ReadPause
  <2>2. CASE SkipRun(l)
    BY <2>2 DEF SkipRun
  <2>3. CASE StartChild(l)
    <3>1. ~seen[l].paused /\ pc[l] = "deciding" /\ pc'[l] = "child" /\ pause' = pause
      BY <2>3 DEF StartChild, Paused
    <3>2. ASSUME pause.paused PROVE sincePause[l] = 0 /\ sincePause'[l] = 1
      BY <2>3, <3>1, <3>2 DEF StartChild
    <3>3. \A k \in Lanes \ {l} :
             sincePause'[k] = sincePause[k] /\ pc'[k] = pc[k] /\ seen'[k] = seen[k]
      BY <2>3 DEF StartChild
    <3> QED
      BY <3>1, <3>2, <3>3
  <2>4. CASE ChildReturns(l) \/ AuthFailure(l)
    BY <2>4 DEF ChildReturns, AuthFailure
  <2>5. CASE PauseLands(l)
    <3>1. [paused |-> TRUE, by |-> "daemon"] \in PauseStates
      BY DEF PauseStates, Authors
    <3>2. /\ SetPause([paused |-> TRUE, by |-> "daemon"]) /\ seen' = seen
          /\ pc' = [pc EXCEPT ![l] = "idle"]
      BY <2>5 DEF PauseLands
    <3> HIDE DEF SetPause
    <3> QED
      BY <3>1, <3>2, PauseIsSet
  <2>6. CASE PauseRefused(l) \/ PauseFails(l)
    BY <2>6 DEF PauseRefused, PauseFails
  <2> QED
    BY <1>2, <2>1, <2>2, <2>3, <2>4, <2>5, <2>6 DEF GateStep
<1>3. ASSUME NEW paused \in BOOLEAN, UserWrites(paused) PROVE RunsCounted'
  <2>1. [paused |-> paused, by |-> "user"] \in PauseStates
    BY DEF PauseStates, Authors
  <2>2. SetPause([paused |-> paused, by |-> "user"]) /\ UNCHANGED <<seen, pc>>
    BY <1>3 DEF UserWrites, laneVars
  <2> QED
    BY <2>1, <2>2, PauseIsSet
<1>4. CASE DaemonRestarts
  BY <1>4 DEF DaemonRestarts
<1>5. CASE UNCHANGED vars
  BY <1>5 DEF vars, laneVars
<1> QED
  BY <1>1, <1>2, <1>3, <1>4, <1>5, NextSteps

LEMMA LatchKeptKept == GateTypeOK /\ LatchKept /\ [Next]_vars => LatchKept'
<1> SUFFICES ASSUME GateTypeOK, LatchKept, [Next]_vars, ~resumed', ~forgotten'
             PROVE  LatchKept'
  BY DEF LatchKept
<1> USE DEF GateTypeOK, LatchKept, Held, AuthLatchHolds, gateVars, historyVars, Goto
<1>1. ASSUME NEW l \in Lanes, RecordStep(l) PROVE LatchKept'
  BY <1>1, RecordLeavesGate
<1>2. ASSUME NEW l \in Lanes, GateStep(l) PROVE LatchKept'
  <2> USE DEF NoPause, SetPause, PauseSettles
  <2>1. CASE BeginCheck(l)
    BY <2>1 DEF BeginCheck
  <2>2. CASE ReadPause(l)
    BY <2>2 DEF ReadPause
  <2>3. CASE SkipRun(l)
    BY <2>3 DEF SkipRun, LatchAfterCheck, UserResumeSeen
  <2>4. CASE StartChild(l)
    <3>1. /\ ~resumed /\ ~forgotten /\ UNCHANGED <<resumed, forgotten>>
          /\ latch' = latch /\ ~latch /\ pc[l] = "deciding" /\ ~seen[l].paused
      BY <2>4 DEF StartChild, Paused, LatchAfterCheck, UserResumeSeen
    <3>2. underAuth = {}
      BY <3>1
    <3> QED
      BY <2>4, <3>1, <3>2 DEF StartChild
  <2>5. CASE ChildReturns(l)
    BY <2>5 DEF ChildReturns
  <2>6. CASE AuthFailure(l)
    BY <2>6 DEF AuthFailure
  <2>7. CASE PauseLands(l)
    BY <2>7 DEF PauseLands
  <2>8. CASE PauseRefused(l) \/ PauseFails(l)
    BY <2>8 DEF PauseRefused, PauseFails
  <2> QED
    BY <1>2, <2>1, <2>2, <2>3, <2>4, <2>5, <2>6, <2>7, <2>8 DEF GateStep
<1>3. ASSUME NEW paused \in BOOLEAN, UserWrites(paused) PROVE LatchKept'
  BY <1>3 DEF UserWrites, SetPause, laneVars
<1>4. CASE DaemonRestarts
  BY <1>4 DEF DaemonRestarts, NoPause
<1>5. CASE UNCHANGED vars
  BY <1>5 DEF vars, laneVars
<1> QED
  BY <1>1, <1>2, <1>3, <1>4, <1>5, NextSteps

----------------------------------------------------------------------------
(* The ledger.                                                             *)

\* What the other steps of lanes leave alone.
LEMMA GateLeavesLedger ==
    ASSUME GateTypeOK, LedgerTypeOK, NEW l \in Lanes, GateStep(l)
    PROVE  /\ UNCHANGED <<globalCost, projectCost, prior, torn, spentAll, spent>>
           /\ \/ UNCHANGED <<recQueue, cost>>
              \/ /\ recQueue' = Append(recQueue, l) /\ pc[l] = "child"
                 /\ \E c \in Nat : cost' = [cost EXCEPT ![l] = c]
           /\ pc[l] \notin RecordPcs
           /\ \E to \in LanePcs \ RecordPcs : pc' = [pc EXCEPT ![l] = to]
<1> USE DEF ledgerVars, Goto, LanePcs, RecordPcs, PauseSettles
<1>1. CASE BeginCheck(l) \/ ReadPause(l) \/ SkipRun(l)
  BY <1>1 DEF BeginCheck, ReadPause, SkipRun
<1>2. CASE StartChild(l) \/ AuthFailure(l)
  BY <1>2 DEF StartChild, AuthFailure
<1>3. CASE ChildReturns(l)
  <2>1. PICK c \in 0..MaxCost : cost' = [cost EXCEPT ![l] = c]
    BY <1>3 DEF ChildReturns
  <2>2. c \in Nat
    BY AmountsAssumption
  <2> QED
    BY <1>3, <2>1, <2>2 DEF ChildReturns
<1>4. CASE PauseLands(l) \/ PauseRefused(l) \/ PauseFails(l)
  BY <1>4 DEF PauseLands, PauseRefused, PauseFails
<1> QED
  BY <1>1, <1>2, <1>3, <1>4 DEF GateStep

LEMMA QueueAppended ==
    ASSUME recQueue \in Seq(Lanes), NEW l \in Lanes
    PROVE  /\ Append(recQueue, l) \in Seq(Lanes) /\ Append(recQueue, l) # <<>>
           /\ recQueue # <<>> => Head(Append(recQueue, l)) = Head(recQueue)
OBVIOUS

Ledger == LedgerTypeOK /\ HeadRecords /\ RecordsExact

\* The call at the head is the only one that has begun.
LEMMA OneRecords ==
    ASSUME HeadRecords, NEW l \in Lanes, NEW k \in Lanes,
           pc[l] \in RecordPcs, pc[k] \in RecordPcs
    PROVE  l = k
BY DEF HeadRecords

LEMMA LedgerStep ==
    ASSUME GateTypeOK, Ledger, NEW l \in Lanes, RecordStep(l)
    PROVE  Ledger'
<1> USE DEF Ledger, LedgerTypeOK, GateTypeOK, Goto
<1>0. ProjectOf[l] \in Projects
  BY DEF LanesAssumption
<1>s. \A a, b \in Nat : a + b \in Nat
  OBVIOUS
<1>w. ASSUME pc[l] \in RecordPcs
      PROVE  /\ cost[l] \in Nat
             /\ WriteGlobal(l) => globalCost' \in Nat
             /\ WriteProject(l) => projectCost' \in [Projects -> Nat]
             /\ ~torn /\ WriteGlobal(l) => globalCost' = spentAll + cost[l]
             /\ ~torn /\ WriteProject(l) =>
                   projectCost' = [projectCost EXCEPT
                                     ![ProjectOf[l]] = spent[ProjectOf[l]] + cost[l]]
  <2>1. cost[l] \in Nat /\ prior[l].global \in Nat /\ prior[l].project \in Nat
    OBVIOUS
  <2>2. ~torn => prior[l].global = spentAll /\ prior[l].project = spent[ProjectOf[l]]
    BY <1>w DEF RecordsExact
  <2>3. prior[l].project + cost[l] \in Nat /\ prior[l].global + cost[l] \in Nat
    BY <1>s, <2>1
  <2>4. WriteProject(l) => projectCost' \in [Projects -> Nat]
    BY <2>3 DEF WriteProject
  <2> QED
    BY <2>1, <2>2, <2>3, <2>4 DEF WriteGlobal, WriteProject
<1>1. CASE RecordReads(l)
  <2>1. /\ recQueue # <<>> /\ l = Head(recQueue) /\ pc[l] = "recordWait"
        /\ pc' = [pc EXCEPT ![l] = "recordWrite"]
        /\ prior' = [prior EXCEPT ![l] = [global |-> globalCost,
                                          project |-> projectCost[ProjectOf[l]]]]
        /\ UNCHANGED <<cost, globalCost, projectCost, recQueue, torn, spentAll, spent>>
    BY <1>1 DEF RecordReads, AtHead
  <2>2. \A k \in Lanes : pc[k] \notin RecordPcs
    BY <2>1 DEF HeadRecords, RecordPcs
  <2>3. LedgerTypeOK'
    BY <1>0, <2>1
  <2>4. HeadRecords'
    BY <2>1, <2>2 DEF HeadRecords, RecordPcs
  <2>5. ~torn => globalCost = spentAll /\ projectCost = spent
    BY <2>2 DEF RecordsExact, LedgerExact
  <2>6. RecordsExact'
    BY <2>1, <2>2, <2>5 DEF RecordsExact, LedgerExact, RecordPcs
  <2> QED
    BY <2>3, <2>4, <2>6
<1>2. CASE RecordWritesOne(l)
  <2>1. /\ pc[l] = "recordWrite"
        /\ UNCHANGED <<cost, prior, recQueue, torn, spentAll, spent>>
        /\ \/ /\ pc' = [pc EXCEPT ![l] = "wroteGlobal"] /\ WriteGlobal(l)
              /\ projectCost' = projectCost
           \/ /\ pc' = [pc EXCEPT ![l] = "wroteProject"] /\ WriteProject(l)
              /\ globalCost' = globalCost
    BY <1>2, <1>0 DEF RecordWritesOne, Lands, Pending
  <2>2. pc[l] \in RecordPcs /\ pc'[l] \in RecordPcs
    BY <2>1 DEF RecordPcs
  <2>3. \A k \in Lanes \ {l} : pc[k] \notin RecordPcs /\ pc'[k] \notin RecordPcs
    BY <2>1, <2>2, OneRecords
  <2>4. LedgerTypeOK'
    BY <1>w, <2>1, <2>2
  <2>5. HeadRecords'
    BY <2>1, <2>2, <2>3 DEF HeadRecords
  <2>6. ~torn => /\ prior[l] = [global |-> spentAll, project |-> spent[ProjectOf[l]]]
                 /\ globalCost = spentAll /\ projectCost = spent
    BY <2>1, <2>2 DEF RecordsExact
  <2>7. RecordsExact'
    <3>1. CASE pc' = [pc EXCEPT ![l] = "wroteGlobal"]
      BY <1>w, <2>1, <2>2, <2>3, <2>6, <3>1 DEF RecordsExact, LedgerExact
    <3>2. CASE pc' = [pc EXCEPT ![l] = "wroteProject"]
      BY <1>w, <2>1, <2>2, <2>3, <2>6, <3>2 DEF RecordsExact, LedgerExact
    <3> QED
      BY <2>1, <3>1, <3>2
  <2> QED
    BY <2>4, <2>5, <2>7
<1>e. ASSUME EndRecord(l), pc[l] \in RecordPcs
      PROVE  /\ recQueue' \in Seq(Lanes) /\ cost' \in [Lanes -> Nat]
             /\ prior' \in [Lanes -> [global : Nat, project : Nat]]
  <2>1. NoPrior \in [global : Nat, project : Nat]
    BY DEF NoPrior
  <2>2. Tail(recQueue) \in Seq(Lanes)
    BY <1>e DEF HeadRecords
  <2> QED
    BY <1>e, <2>1, <2>2 DEF EndRecord
<1>3. CASE RecordReturns(l)
  <2>1. /\ pc[l] \in {"wroteGlobal", "wroteProject"}
        /\ \/ /\ pc[l] = "wroteProject" /\ WriteGlobal(l) /\ projectCost' = projectCost
           \/ /\ pc[l] = "wroteGlobal" /\ WriteProject(l) /\ globalCost' = globalCost
    <3>1. PICK path \in Paths : Pending(l) = {path} /\ Lands(l, path)
      BY <1>3 DEF RecordReturns
    <3>2. ProjectOf[l] # "global"
      BY <1>0, LanesAssumption
    <3>3. Pending(l) # {"global", ProjectOf[l]} /\ Pending(l) # {}
      BY <3>1, <3>2
    <3>4. pc[l] \in {"wroteGlobal", "wroteProject"}
      BY <3>3 DEF Pending
    <3>5. path = IF pc[l] = "wroteGlobal" THEN ProjectOf[l] ELSE "global"
      BY <3>1, <3>4 DEF Pending
    <3> QED
      BY <3>1, <3>2, <3>4, <3>5 DEF Lands
  <2>2. /\ EndRecord(l) /\ torn' = torn /\ spentAll' = spentAll + cost[l]
        /\ spent' = [spent EXCEPT ![ProjectOf[l]] = @ + cost[l]]
        /\ \E to \in {"capWrite", "idle"} : pc' = [pc EXCEPT ![l] = to]
    BY <1>3 DEF RecordReturns
  <2>3. pc[l] \in RecordPcs /\ \A k \in Lanes : pc'[k] \notin RecordPcs
    BY <2>1, <2>2, OneRecords DEF RecordPcs
  <2>4. LedgerTypeOK'
    <3>1. spentAll' \in Nat /\ spent' \in [Projects -> Nat]
      <4>1. spentAll + cost[l] \in Nat /\ spent[ProjectOf[l]] + cost[l] \in Nat
        BY <1>0, <1>s, <1>w, <2>3
      <4> QED
        BY <2>2, <4>1
    <3>2. globalCost' \in Nat /\ projectCost' \in [Projects -> Nat]
      BY <1>w, <2>1, <2>3
    <3> QED
      BY <1>e, <2>2, <2>3, <3>1, <3>2
  <2>5. ~torn => globalCost' = spentAll' /\ projectCost' = spent'
    <3>1. CASE pc[l] = "wroteProject"
      BY <1>w, <2>1, <2>2, <2>3, <3>1 DEF RecordsExact
    <3>2. CASE pc[l] = "wroteGlobal"
      BY <1>w, <2>1, <2>2, <2>3, <3>2 DEF RecordsExact
    <3> QED
      BY <2>1, <3>1, <3>2
  <2> QED
    BY <2>2, <2>3, <2>4, <2>5 DEF HeadRecords, RecordsExact, LedgerExact
<1>4. CASE RecordRefused(l) \/ RecordFails(l)
  <2>1. RecordRejects(l) /\ Pending(l) # {}
    BY <1>4 DEF RecordRefused, RecordFails
  <2>2. pc[l] \in RecordPcs
    BY <2>1 DEF Pending, RecordPcs
  <2>3. /\ EndRecord(l) /\ torn' = TRUE /\ pc' = [pc EXCEPT ![l] = "idle"]
        /\ UNCHANGED <<globalCost, projectCost, spentAll, spent>>
    BY <2>1 DEF RecordRejects
  <2>4. \A k \in Lanes : pc'[k] \notin RecordPcs
    BY <2>2, <2>3, OneRecords DEF RecordPcs
  <2>5. LedgerTypeOK'
    BY <1>e, <2>2, <2>3
  <2> QED
    BY <2>3, <2>4, <2>5 DEF HeadRecords, RecordsExact
<1> QED
  BY <1>1, <1>2, <1>3, <1>4 DEF RecordStep, Record

LEMMA LedgerKept == GateTypeOK /\ Ledger /\ [Next]_vars => Ledger'
<1> SUFFICES ASSUME GateTypeOK, Ledger, [Next]_vars PROVE Ledger'
  OBVIOUS
<1> USE DEF Ledger
<1>1. ASSUME NEW l \in Lanes, GateStep(l) PROVE Ledger'
  <2>1. /\ UNCHANGED <<globalCost, projectCost, prior, torn, spentAll, spent>>
        /\ pc[l] \notin RecordPcs
        /\ \E to \in LanePcs \ RecordPcs : pc' = [pc EXCEPT ![l] = to]
        /\ recQueue' \in {recQueue, Append(recQueue, l)}
        /\ \/ cost' = cost
           \/ pc[l] = "child" /\ \E c \in Nat : cost' = [cost EXCEPT ![l] = c]
    BY <1>1, GateLeavesLedger
  <2>2. \A k \in Lanes : pc'[k] \in RecordPcs =>
            k # l /\ pc[k] \in RecordPcs /\ cost'[k] = cost[k]
    BY <2>1 DEF GateTypeOK, LedgerTypeOK, RecordPcs
  <2>3. LedgerTypeOK'
    BY <2>1, QueueAppended DEF LedgerTypeOK
  <2>4. HeadRecords'
    BY <2>1, <2>2, QueueAppended DEF HeadRecords, LedgerTypeOK
  <2>5. RecordsExact'
    BY <2>1, <2>2 DEF RecordsExact, LedgerExact, GateTypeOK
  <2> QED
    BY <2>3, <2>4, <2>5
<1>2. ASSUME NEW paused \in BOOLEAN, UserWrites(paused) PROVE Ledger'
  BY <1>2 DEF UserWrites, laneVars, ledgerVars, LedgerTypeOK, HeadRecords, RecordsExact,
     LedgerExact
<1>3. CASE DaemonRestarts
  <2>1. NoPrior \in [global : Nat, project : Nat] /\ <<>> \in Seq(Lanes)
    BY DEF NoPrior
  <2>2. /\ pc' = [l \in Lanes |-> "idle"] /\ recQueue' = <<>>
        /\ cost' = [l \in Lanes |-> 0] /\ prior' = [l \in Lanes |-> NoPrior]
        /\ torn' = (torn \/ \E l \in Lanes : pc[l] \in {"wroteGlobal", "wroteProject"})
        /\ UNCHANGED <<globalCost, projectCost, spentAll, spent>>
    BY <1>3 DEF DaemonRestarts
  <2>3. LedgerTypeOK'
    BY <2>1, <2>2 DEF LedgerTypeOK
  <2>4. \A l \in Lanes : pc'[l] \notin RecordPcs
    BY <2>2 DEF RecordPcs
  <2>5. ~torn' => globalCost = spentAll /\ projectCost = spent
    BY <2>2 DEF RecordsExact, LedgerExact, RecordPcs
  <2> QED
    BY <2>2, <2>3, <2>4, <2>5 DEF HeadRecords, RecordsExact, LedgerExact
<1>4. CASE UNCHANGED vars
  BY <1>4 DEF vars, laneVars, ledgerVars, LedgerTypeOK, HeadRecords, RecordsExact,
     LedgerExact
<1> QED
  BY <1>1, <1>2, <1>3, <1>4, LedgerStep, NextSteps

----------------------------------------------------------------------------
(* The caps.  What may be spent beyond the global cap is counted in runs:  *)
(* one for each lane that will start no more of them before the daemon     *)
(* does, one for each lane at each restart, and one for each failure.      *)

CountsOK ==
    /\ restarts \in Nat /\ failures \in Nat /\ refused \in BOOLEAN
    /\ \A l \in Lanes : cost[l] <= MaxCost

\* What a record() in progress has read and written, torn ledger or not.
TotalKnown ==
    \A l \in Lanes :
        /\ pc[l] \in {"recordWrite", "wroteProject"} => prior[l].global = globalCost
        /\ pc[l] = "wroteGlobal" => prior[l].global + cost[l] = globalCost

\* A lane whose pause is on its way, or that finds the file paused.
Stopped(l) ==
    \/ pc[l] \in {"authWrite", "capWrite"}
    \/ pc[l] = "wroteGlobal" /\ globalCost >= GlobalCap
    \/ pause.paused /\ pc[l] \in {"idle", "reading"}
    \/ pause.paused /\ pc[l] = "deciding" /\ seen[l].paused

StoppedLanes == {l \in Lanes : Stopped(l)}
Budget == Cardinality(Lanes) * restarts + failures + Cardinality(StoppedLanes)
WithinBudget ==
    \/ globalCost < GlobalCap + MaxCost * Budget
    \/ globalCost <= MaxCost * Budget

CapInv == CountsOK /\ TotalKnown /\ (~resumed /\ ~refused => WithinBudget)

LEMMA LaneCounts ==
    /\ Cardinality(Lanes) \in Nat
    /\ \A S, T \in SUBSET Lanes : S \subseteq T => Cardinality(S) <= Cardinality(T)
    /\ \A S \in SUBSET Lanes, l \in Lanes :
          /\ Cardinality(S) \in Nat
          /\ Cardinality(S) <= Cardinality(S \ {l}) + 1
          /\ l \notin S => Cardinality(S \cup {l}) = Cardinality(S) + 1
<1>1. IsFiniteSet(Lanes)
  BY LanesAssumption
<1>2. \A S \in SUBSET Lanes : IsFiniteSet(S) /\ Cardinality(S) \in Nat
  BY <1>1, FS_Subset, FS_CardinalityType
<1>3. ASSUME NEW S \in SUBSET Lanes, NEW T \in SUBSET Lanes, S \subseteq T
      PROVE  Cardinality(S) <= Cardinality(T)
  BY <1>2, <1>3, FS_Subset
<1>4. ASSUME NEW S \in SUBSET Lanes, NEW l \in Lanes
      PROVE  /\ Cardinality(S) <= Cardinality(S \ {l}) + 1
             /\ l \notin S => Cardinality(S \cup {l}) = Cardinality(S) + 1
  <2>1. Cardinality(S \ {l}) = IF l \in S THEN Cardinality(S) - 1 ELSE Cardinality(S)
    BY <1>2, FS_RemoveElement
  <2>2. Cardinality(S \cup {l}) = IF l \in S THEN Cardinality(S) ELSE Cardinality(S) + 1
    BY <1>2, FS_AddElement
  <2> QED
    BY <1>2, <2>1, <2>2
<1> QED
  BY <1>1, <1>2, <1>3, <1>4, FS_CardinalityType

LEMMA BudgetType ==
    /\ CountsOK => Budget \in Nat
    /\ CountsOK' => Budget' \in Nat
<1>1. \A n, r, f, k \in Nat : n * r + f + k \in Nat
  OBVIOUS
<1>2. Cardinality(Lanes) \in Nat
  BY LaneCounts
<1>3. Cardinality(StoppedLanes) \in Nat /\ Cardinality(StoppedLanes') \in Nat
  BY LaneCounts DEF StoppedLanes
<1> QED
  BY <1>1, <1>2, <1>3 DEF Budget, CountsOK

\* A run more in the budget pays for what a run costs at most.
LEMMA RunPaid ==
    ASSUME NEW m \in Nat, NEW b \in Nat, NEW d \in Nat
    PROVE  /\ m * b \in Nat /\ m * d \in Nat
           /\ b <= d => m * b <= m * d
           /\ b + 1 <= d => m * b + m <= m * d
<1>1. \A n \in Nat : m * (b + n) = m * b + m * n /\ m * n \in Nat /\ m * b \in Nat
  OBVIOUS
<1>2. ASSUME b <= d PROVE m * b <= m * d
  <2>1. d - b \in Nat /\ d = b + (d - b)
    BY <1>2
  <2> QED
    BY <1>1, <2>1
<1>3. ASSUME b + 1 <= d PROVE m * b + m <= m * d
  <2>1. d - b - 1 \in Nat /\ d = b + ((d - b - 1) + 1)
    BY <1>3
  <2>2. m * ((d - b - 1) + 1) = m * (d - b - 1) + m /\ m * (d - b - 1) \in Nat
    BY <2>1
  <2>3. (d - b - 1) + 1 \in Nat
    BY <2>1
  <2>4. m * d = m * b + m * ((d - b - 1) + 1)
    BY <1>1, <2>1, <2>3
  <2> QED
    BY <1>1, <2>2, <2>4
<1> QED
  BY <1>1, <1>2, <1>3

\* What a step may do to the total and the budget.
LEMMA BudgetKept ==
    ASSUME LedgerTypeOK, LedgerTypeOK', CountsOK, CountsOK', WithinBudget,
           Budget' >= Budget,
           \/ globalCost' = globalCost
           \/ globalCost' < GlobalCap
           \/ globalCost' <= globalCost + MaxCost /\ Budget' >= Budget + 1
    PROVE  WithinBudget'
<1>1. /\ Budget \in Nat /\ Budget' \in Nat /\ MaxCost \in Nat /\ GlobalCap \in Nat
      /\ globalCost \in Nat /\ globalCost' \in Nat
  BY BudgetType, AmountsAssumption DEF LedgerTypeOK
<1>2. PICK x \in Nat, y \in Nat :
         /\ x = MaxCost * Budget /\ y = MaxCost * Budget' /\ x <= y
         /\ Budget' >= Budget + 1 => x + MaxCost <= y
  BY <1>1, RunPaid
<1>3. globalCost < GlobalCap + x \/ globalCost <= x
  BY <1>2 DEF WithinBudget
<1>4. \A cap, g, h, m \in Nat :
         /\ g < cap + x \/ g <= x
         /\ h = g \/ h < cap \/ (h <= g + m /\ x + m <= y)
         => h < cap + y \/ h <= y
  BY <1>2
<1>5. globalCost' < GlobalCap + y \/ globalCost' <= y
  BY <1>1, <1>2, <1>3, <1>4
<1> QED
  BY <1>2, <1>5 DEF WithinBudget

LEMMA BudgetGrows ==
    ASSUME CountsOK, CountsOK', restarts' = restarts
    PROVE  /\ failures' >= failures /\ StoppedLanes \subseteq StoppedLanes'
                  => Budget' >= Budget
           /\ \A l \in Lanes :
                 /\ failures' = failures + 1 /\ StoppedLanes \ {l} \subseteq StoppedLanes'
                       => Budget' >= Budget
                 /\ failures' = failures /\ l \notin StoppedLanes
                        /\ StoppedLanes \cup {l} \subseteq StoppedLanes'
                       => Budget' >= Budget + 1
<1>1. StoppedLanes \in SUBSET Lanes /\ StoppedLanes' \in SUBSET Lanes
  BY DEF StoppedLanes
<1>2. PICK n \in Nat : n = Cardinality(Lanes) * restarts
  BY LaneCounts DEF CountsOK
<1>3. Budget = n + failures + Cardinality(StoppedLanes)
      /\ Budget' = n + failures' + Cardinality(StoppedLanes')
  BY <1>2 DEF Budget
<1>4. /\ Cardinality(StoppedLanes) \in Nat /\ Cardinality(StoppedLanes') \in Nat
      /\ failures \in Nat /\ failures' \in Nat
  BY <1>1, LaneCounts DEF CountsOK
<1>5. ASSUME StoppedLanes \subseteq StoppedLanes', failures' >= failures
      PROVE  Budget' >= Budget
  <2>1. Cardinality(StoppedLanes) <= Cardinality(StoppedLanes')
    BY <1>1, <1>5, LaneCounts
  <2> QED
    BY <1>3, <1>4, <1>5, <2>1
<1>6. ASSUME NEW l \in Lanes, failures' = failures + 1,
             StoppedLanes \ {l} \subseteq StoppedLanes'
      PROVE  Budget' >= Budget
  <2>1. /\ Cardinality(StoppedLanes \ {l}) <= Cardinality(StoppedLanes')
        /\ Cardinality(StoppedLanes) <= Cardinality(StoppedLanes \ {l}) + 1
        /\ Cardinality(StoppedLanes \ {l}) \in Nat
    BY <1>1, <1>6, LaneCounts
  <2> QED
    BY <1>3, <1>4, <1>6, <2>1
<1>7. ASSUME NEW l \in Lanes, failures' = failures, l \notin StoppedLanes,
             StoppedLanes \cup {l} \subseteq StoppedLanes'
      PROVE  Budget' >= Budget + 1
  <2>1. /\ Cardinality(StoppedLanes \cup {l}) <= Cardinality(StoppedLanes')
        /\ Cardinality(StoppedLanes \cup {l}) = Cardinality(StoppedLanes) + 1
    BY <1>1, <1>7, LaneCounts
  <2> QED
    BY <1>3, <1>4, <1>7, <2>1
<1>8. \A l \in Lanes :
         failures' = failures + 1 /\ StoppedLanes \ {l} \subseteq StoppedLanes'
             => Budget' >= Budget
  BY <1>6
<1>9. \A l \in Lanes :
         failures' = failures /\ l \notin StoppedLanes
            /\ StoppedLanes \cup {l} \subseteq StoppedLanes' => Budget' >= Budget + 1
  BY <1>7
<1> QED
  BY <1>5, <1>8, <1>9

\* A restart of the daemon gives every lane a run.
LEMMA BudgetAtRestart ==
    ASSUME CountsOK, CountsOK', restarts' = restarts + 1, failures' = failures
    PROVE  Budget' >= Budget
<1>1. /\ Cardinality(Lanes) \in Nat
      /\ Cardinality(StoppedLanes) \in Nat /\ Cardinality(StoppedLanes') \in Nat
      /\ Cardinality(StoppedLanes) <= Cardinality(Lanes)
  BY LaneCounts DEF StoppedLanes
<1>2. \A n, r \in Nat : n * r \in Nat /\ n * (r + 1) = n * r + n
  OBVIOUS
<1>3. PICK n \in Nat : n = Cardinality(Lanes) * restarts
                       /\ Cardinality(Lanes) * restarts' = n + Cardinality(Lanes)
  BY <1>1, <1>2 DEF CountsOK
<1> QED
  BY <1>1, <1>3 DEF Budget, CountsOK

\* A record() in progress adds its cost to what it has read.  Its lane is
\* stopped from then on if the cap is reached.
LEMMA CapRecords ==
    ASSUME GateTypeOK, Ledger, Ledger', CapInv, NEW l \in Lanes, RecordStep(l)
    PROVE  CapInv'
<1> USE DEF CapInv, CountsOK, queueVars, countVars
<1>0. /\ UNCHANGED <<pause, seen, resumed>>
      /\ LedgerTypeOK /\ LedgerTypeOK'
      /\ ProjectOf[l] \in Projects /\ ProjectOf[l] # "global"
  BY RecordLeavesGate, LanesAssumption DEF Ledger, historyVars
<1>t. \A k \in Lanes : /\ cost[k] \in Nat /\ prior[k].global \in Nat
                       /\ globalCost \in Nat /\ globalCost' \in Nat
  BY <1>0 DEF LedgerTypeOK
<1>1. CASE RecordReads(l)
  <2>1. /\ pc[l] = "recordWait" /\ pc' = [pc EXCEPT ![l] = "recordWrite"]
        /\ prior' = [prior EXCEPT ![l] = [global |-> globalCost,
                                          project |-> projectCost[ProjectOf[l]]]]
        /\ UNCHANGED <<cost, globalCost, restarts, failures, refused>>
    BY <1>1 DEF RecordReads, Goto, gateVars
  <2>2. CountsOK' /\ TotalKnown'
    BY <1>0, <2>1 DEF TotalKnown, LedgerTypeOK, GateTypeOK
  <2>3. StoppedLanes \subseteq StoppedLanes'
    BY <1>0, <2>1 DEF StoppedLanes, Stopped, GateTypeOK
  <2>4. Budget' >= Budget
    BY <2>1, <2>2, <2>3, BudgetGrows
  <2> QED
    BY <1>0, <2>1, <2>2, <2>4, BudgetKept
\* The write of the total.
<1>w. ASSUME WriteGlobal(l), pc[l] \in {"recordWrite", "wroteProject"},
             pc'[l] = "wroteGlobal" \/ (globalCost' >= GlobalCap => pc'[l] = "capWrite"),
             \A k \in Lanes \ {l} : pc'[k] = pc[k],
             UNCHANGED <<restarts, failures, refused>>, CountsOK'
      PROVE  /\ globalCost' = prior[l].global + cost[l]
             /\ ~resumed' /\ ~refused' => WithinBudget'
  <2>1. globalCost' = globalCost + cost[l] /\ globalCost' = prior[l].global + cost[l]
    BY <1>w DEF WriteGlobal, TotalKnown
  <2>2. globalCost' <= globalCost + MaxCost
    BY <1>t, <2>1, AmountsAssumption
  <2>3. \A k \in Lanes \ {l} : pc[k] # "wroteGlobal"
    BY <1>w, OneRecords DEF Ledger, RecordPcs
  <2>4. l \notin StoppedLanes
    BY <1>w DEF StoppedLanes, Stopped
  <2>5. globalCost' >= GlobalCap => StoppedLanes \cup {l} \subseteq StoppedLanes'
    BY <1>0, <1>w, <2>3, <2>4 DEF StoppedLanes, Stopped
  <2>6. globalCost' < GlobalCap => StoppedLanes \subseteq StoppedLanes'
    BY <1>0, <1>w, <2>3, <2>4 DEF StoppedLanes, Stopped
  <2>7. ASSUME ~resumed', ~refused' PROVE WithinBudget'
    <3>1. WithinBudget /\ CountsOK
      BY <1>0, <1>w, <2>7
    <3>2. failures' >= failures
      BY <1>w
    <3>3. CASE globalCost' < GlobalCap
      <4>1. Budget' >= Budget
        BY <1>w, <2>6, <3>1, <3>2, <3>3, BudgetGrows
      <4> HIDE DEF CountsOK
      <4> QED
        BY <1>0, <1>w, <3>1, <3>3, <4>1, BudgetKept
    <3>4. CASE globalCost' >= GlobalCap
      <4>1. Budget' >= Budget + 1 /\ Budget' >= Budget
        BY <1>w, <2>4, <2>5, <3>1, <3>4, BudgetGrows, BudgetType
      <4> HIDE DEF CountsOK
      <4> QED
        BY <1>0, <1>w, <2>2, <3>1, <4>1, BudgetKept
    <3>5. GlobalCap \in Nat
      BY AmountsAssumption
    <3> QED
      BY <1>t, <3>3, <3>4, <3>5
  <2> QED
    BY <2>1, <2>7
<1>2. CASE RecordWritesOne(l)
  <2>1. /\ pc[l] = "recordWrite" /\ UNCHANGED <<cost, prior, restarts, failures, refused>>
        /\ \/ pc' = [pc EXCEPT ![l] = "wroteGlobal"] /\ WriteGlobal(l)
           \/ /\ pc' = [pc EXCEPT ![l] = "wroteProject"]
              /\ globalCost' = globalCost
    BY <1>2, <1>0 DEF RecordWritesOne, Lands, Goto, gateVars
  <2>2. CountsOK'
    BY <2>1
  <2>3. CASE pc' = [pc EXCEPT ![l] = "wroteProject"] /\ globalCost' = globalCost
    <3>1. TotalKnown'
      BY <2>1, <2>3 DEF TotalKnown, GateTypeOK
    <3>2. StoppedLanes \subseteq StoppedLanes'
      BY <1>0, <2>1, <2>3 DEF StoppedLanes, Stopped, GateTypeOK
    <3>3. Budget' >= Budget
      BY <2>1, <2>2, <3>2, BudgetGrows
    <3> QED
      BY <1>0, <2>1, <2>2, <2>3, <3>1, <3>3, BudgetKept
  <2>4. CASE pc' = [pc EXCEPT ![l] = "wroteGlobal"] /\ WriteGlobal(l)
    <3>1. pc'[l] = "wroteGlobal" /\ \A k \in Lanes \ {l} : pc'[k] = pc[k]
      BY <2>4 DEF GateTypeOK
    <3>2. /\ globalCost' = prior[l].global + cost[l]
          /\ ~resumed' /\ ~refused' => WithinBudget'
      BY <1>w, <2>1, <2>2, <2>4, <3>1
    <3>3. \A k \in Lanes \ {l} : pc[k] \notin RecordPcs
      BY <2>1, OneRecords DEF Ledger, RecordPcs
    <3>4. TotalKnown'
      BY <2>1, <3>1, <3>2, <3>3 DEF TotalKnown, RecordPcs
    <3> QED
      BY <2>2, <3>2, <3>4
  <2> QED
    BY <2>1, <2>3, <2>4
\* What the ends of record() have in common: no call is in progress.
<1>e. ASSUME pc[l] \in RecordPcs, EndRecord(l), pc'[l] \in {"idle", "capWrite"},
             \A k \in Lanes \ {l} : pc'[k] = pc[k],
             restarts' = restarts, failures' \in Nat, refused' \in BOOLEAN
      PROVE  CountsOK' /\ TotalKnown' /\ \A k \in Lanes \ {l} : pc[k] \notin RecordPcs
  <2>1. \A k \in Lanes : pc'[k] \notin RecordPcs
    BY <1>e, OneRecords DEF Ledger, RecordPcs
  <2>2. \A k \in Lanes : cost'[k] <= MaxCost
    BY <1>e, AmountsAssumption DEF EndRecord, LedgerTypeOK, Ledger
  <2> QED
    BY <1>e, <2>1, <2>2, OneRecords DEF TotalKnown, RecordPcs, Ledger
<1>3. CASE RecordReturns(l)
  <2>1. /\ UNCHANGED <<restarts, failures, refused>> /\ EndRecord(l)
        /\ \/ pc[l] = "wroteProject" /\ WriteGlobal(l)
           \/ pc[l] = "wroteGlobal" /\ globalCost' = globalCost
        /\ IF CapHit(l) THEN pc' = [pc EXCEPT ![l] = "capWrite"]
                        ELSE pc' = [pc EXCEPT ![l] = "idle"]
    <3>1. PICK path \in Paths : Pending(l) = {path} /\ Lands(l, path)
      BY <1>3 DEF RecordReturns
    <3>2. pc[l] \in {"wroteGlobal", "wroteProject"}
      BY <1>0, <3>1 DEF Pending
    <3>3. path = IF pc[l] = "wroteGlobal" THEN ProjectOf[l] ELSE "global"
      BY <3>1, <3>2 DEF Pending
    <3> QED
      BY <1>0, <1>3, <3>1, <3>2, <3>3 DEF Lands, RecordReturns
  <2>2. /\ pc[l] \in RecordPcs /\ pc'[l] \in {"idle", "capWrite"}
        /\ \A k \in Lanes \ {l} : pc'[k] = pc[k]
    BY <2>1 DEF GateTypeOK, RecordPcs
  <2>3. CountsOK' /\ TotalKnown' /\ \A k \in Lanes \ {l} : pc[k] \notin RecordPcs
    BY <1>e, <2>1, <2>2
  <2>4. CASE pc[l] = "wroteProject" /\ WriteGlobal(l)
    <3>1. globalCost' >= GlobalCap => CapHit(l)
      BY <2>4 DEF CapHit, WriteGlobal
    <3>2. globalCost' >= GlobalCap => pc'[l] = "capWrite"
      BY <2>1, <3>1 DEF GateTypeOK
    <3> QED
      BY <1>w, <2>1, <2>2, <2>3, <2>4, <3>2
  <2>5. CASE pc[l] = "wroteGlobal" /\ globalCost' = globalCost
    <3>1. globalCost >= GlobalCap => CapHit(l)
      BY <2>5 DEF CapHit, TotalKnown
    <3>2. globalCost >= GlobalCap => pc'[l] = "capWrite"
      BY <2>1, <3>1 DEF GateTypeOK
    <3>3. StoppedLanes \subseteq StoppedLanes'
      BY <1>0, <2>2, <2>5, <3>2 DEF StoppedLanes, Stopped
    <3>4. Budget' >= Budget
      BY <2>1, <2>3, <3>3, BudgetGrows
    <3> QED
      BY <1>0, <2>1, <2>3, <2>5, <3>4, BudgetKept
  <2> QED
    BY <2>1, <2>4, <2>5
<1>4. CASE RecordRefused(l) \/ RecordFails(l)
  <2>1. RecordRejects(l) /\ Pending(l) # {}
    BY <1>4 DEF RecordRefused, RecordFails
  <2>2. pc[l] \in RecordPcs
    BY <2>1 DEF Pending, RecordPcs
  <2>3. /\ EndRecord(l) /\ pc'[l] = "idle" /\ \A k \in Lanes \ {l} : pc'[k] = pc[k]
        /\ UNCHANGED <<globalCost, restarts>>
    BY <2>1 DEF RecordRejects, GateTypeOK
  <2>4. \/ refused' = TRUE /\ failures' = failures
        \/ refused' = refused /\ failures' = failures + 1
    BY <1>4 DEF RecordRefused, RecordFails
  <2>c. failures' \in Nat /\ refused' \in BOOLEAN
    <3>1. failures \in Nat /\ refused \in BOOLEAN
      OBVIOUS
    <3>2. failures' \in Nat
      BY <2>4, <3>1
    <3>3. refused' \in BOOLEAN
      BY <2>4, <3>1, Zenon
    <3> QED
      BY <3>2, <3>3
  <2>5. CountsOK' /\ TotalKnown'
    BY <1>e, <2>2, <2>3, <2>c
  <2>6. ASSUME ~refused', ~resumed' PROVE WithinBudget'
    <3>1. failures' = failures + 1 /\ ~refused /\ WithinBudget
      BY <1>0, <2>4, <2>6
    <3>2. StoppedLanes \ {l} \subseteq StoppedLanes'
      BY <1>0, <2>3 DEF StoppedLanes, Stopped
    <3>3. Budget' >= Budget
      BY <2>3, <2>5, <3>1, <3>2, BudgetGrows
    <3> HIDE DEF CountsOK
    <3>4. CountsOK
      BY DEF CapInv
    <3> QED
      BY <1>0, <2>3, <2>5, <3>1, <3>3, <3>4, BudgetKept
  <2> QED
    BY <2>5, <2>6
<1> QED
  BY <1>1, <1>2, <1>3, <1>4 DEF RecordStep, Record

LEMMA CapGates ==
    ASSUME GateTypeOK, GateTypeOK', Ledger, Ledger', CapInv, NEW l \in Lanes, GateStep(l)
    PROVE  CapInv'
<1> USE DEF CapInv, gateVars, queueVars, countVars, historyVars, Goto
<1>1. /\ UNCHANGED <<globalCost, prior>> /\ LedgerTypeOK /\ LedgerTypeOK'
      /\ pc[l] \notin RecordPcs /\ pc'[l] \notin RecordPcs
      /\ \A k \in Lanes \ {l} : pc'[k] = pc[k] /\ cost'[k] = cost[k]
  <2>1. LedgerTypeOK /\ LedgerTypeOK'
    BY DEF Ledger
  <2>2. /\ UNCHANGED <<globalCost, prior>> /\ pc[l] \notin RecordPcs
        /\ \E to \in LanePcs \ RecordPcs : pc' = [pc EXCEPT ![l] = to]
        /\ cost' = cost \/ \E c \in Nat : cost' = [cost EXCEPT ![l] = c]
    BY <2>1, GateLeavesLedger
  <2>3. /\ pc'[l] \notin RecordPcs
        /\ \A k \in Lanes \ {l} : pc'[k] = pc[k] /\ cost'[k] = cost[k]
    BY <2>1, <2>2 DEF LedgerTypeOK, GateTypeOK
  <2> QED
    BY <2>1, <2>2, <2>3
<1>2. TotalKnown'
  BY <1>1 DEF TotalKnown, RecordPcs
<1>3. cost'[l] <= MaxCost
  <2>1. CASE ChildReturns(l)
    BY <2>1, AmountsAssumption DEF ChildReturns, LedgerTypeOK, Ledger
  <2>2. CASE ~ChildReturns(l)
    <3>1. cost' = cost
      BY <2>2 DEF GateStep, BeginCheck, ReadPause, SkipRun, StartChild, AuthFailure,
         PauseLands, PauseRefused, PauseFails, ledgerVars
    <3> QED
      BY <3>1 DEF CountsOK
  <2> QED
    BY <2>1, <2>2
\* Only a pause that is not written gives a lane another run.
<1>4. /\ UNCHANGED <<resumed, restarts>>
      /\ \/ UNCHANGED <<failures, refused>> /\ StoppedLanes \subseteq StoppedLanes'
         \/ /\ failures' = failures + 1 /\ refused' = refused
            /\ StoppedLanes \ {l} \subseteq StoppedLanes'
         \/ refused' = TRUE /\ failures' = failures
  <2> USE DEF GateTypeOK, StoppedLanes, Stopped
  <2>1. CASE BeginCheck(l)
    BY <1>1, <2>1 DEF BeginCheck
  <2>2. CASE ReadPause(l)
    BY <1>1, <2>2 DEF ReadPause
  <2>3. CASE SkipRun(l)
    BY <1>1, <2>3 DEF SkipRun
  <2>4. CASE StartChild(l)
    <3>1. ~Stopped(l)
      BY <2>4 DEF StartChild, Paused
    <3> QED
      BY <1>1, <2>4, <3>1 DEF StartChild
  <2>5. CASE ChildReturns(l) \/ AuthFailure(l)
    BY <1>1, <2>5 DEF ChildReturns, AuthFailure
  <2>6. CASE PauseLands(l)
    <3>1. /\ pause'.paused /\ seen' = seen /\ pc'[l] = "idle"
          /\ UNCHANGED <<resumed, restarts, failures, refused>>
      BY <2>6 DEF PauseLands, PauseSettles, SetPause
    <3> QED
      BY <1>1, <3>1
  <2>7. CASE PauseRefused(l) \/ PauseFails(l)
    BY <1>1, <2>7 DEF PauseRefused, PauseFails
  <2> QED
    BY <2>1, <2>2, <2>3, <2>4, <2>5, <2>6, <2>7 DEF GateStep
<1>5. CountsOK'
  <2>1. restarts \in Nat /\ failures \in Nat /\ refused \in BOOLEAN
    BY DEF CountsOK
  <2>2. restarts' \in Nat /\ failures' \in Nat
    BY <1>4, <2>1
  <2>3. refused' \in BOOLEAN
    BY <1>4, <2>1, Zenon
  <2>4. \A k \in Lanes : cost'[k] <= MaxCost
    BY <1>1, <1>3 DEF CountsOK
  <2> QED
    BY <2>2, <2>3, <2>4 DEF CountsOK
<1>6. ASSUME ~resumed', ~refused' PROVE WithinBudget'
  <2>1. ~resumed /\ ~refused /\ WithinBudget /\ CountsOK
    BY <1>4, <1>6
  <2>2. Budget' >= Budget
    <3>1. CASE failures' = failures
      <4>1. StoppedLanes \subseteq StoppedLanes' /\ failures' >= failures
        BY <1>4, <1>6, <2>1, <3>1 DEF CountsOK
      <4> QED
        BY <1>4, <1>5, <2>1, <4>1, BudgetGrows
    <3>2. CASE failures' = failures + 1 /\ StoppedLanes \ {l} \subseteq StoppedLanes'
      BY <1>4, <1>5, <2>1, <3>2, BudgetGrows
    <3> QED
      BY <1>4, <3>1, <3>2
  <2> QED
    BY <1>1, <1>5, <2>1, <2>2, BudgetKept
<1> QED
  BY <1>2, <1>5, <1>6

LEMMA CapKept ==
    ASSUME GateTypeOK, GateTypeOK', Ledger, Ledger', CapInv, [Next]_vars
    PROVE  CapInv'
<1>1. ASSUME NEW paused \in BOOLEAN, UserWrites(paused) PROVE CapInv'
  <2>1. /\ UNCHANGED <<globalCost, prior, cost, pc, seen, restarts, failures, refused>>
        /\ pause'.paused = paused /\ resumed' = (resumed \/ ~paused)
    BY <1>1 DEF UserWrites, SetPause, laneVars, ledgerVars, queueVars
  <2>2. CountsOK' /\ TotalKnown'
    BY <2>1 DEF CapInv, CountsOK, TotalKnown
  <2>3. ASSUME ~resumed', ~refused' PROVE WithinBudget'
    <3>1. paused /\ WithinBudget
      BY <2>1, <2>3 DEF CapInv, GateTypeOK
    <3>2. StoppedLanes \subseteq StoppedLanes' /\ failures' >= failures
      BY <2>1, <3>1 DEF StoppedLanes, Stopped, CapInv, CountsOK
    <3>3. Budget' >= Budget
      BY <2>1, <2>2, <3>2, BudgetGrows DEF CapInv
    <3> QED
      BY <2>1, <2>2, <3>1, <3>3, BudgetKept DEF CapInv, Ledger
  <2> QED
    BY <2>2, <2>3 DEF CapInv
<1>2. CASE DaemonRestarts
  <2>1. /\ pc' = [l \in Lanes |-> "idle"] /\ cost' = [l \in Lanes |-> 0]
        /\ restarts' = restarts + 1
        /\ UNCHANGED <<globalCost, failures, refused, resumed>>
    BY <1>2 DEF DaemonRestarts
  <2>2. CountsOK' /\ TotalKnown'
    BY <2>1, AmountsAssumption DEF CapInv, CountsOK, TotalKnown
  <2>3. Budget' >= Budget
    BY <2>1, <2>2, BudgetAtRestart DEF CapInv
  <2>4. ~resumed' /\ ~refused' => WithinBudget'
    BY <2>1, <2>2, <2>3, BudgetKept DEF CapInv, Ledger
  <2> QED
    BY <2>2, <2>4 DEF CapInv
<1>3. CASE UNCHANGED vars
  BY <1>3 DEF vars, laneVars, gateVars, queueVars, ledgerVars, countVars, historyVars,
     CapInv, CountsOK, TotalKnown, WithinBudget, Budget, StoppedLanes, Stopped
<1> QED
  BY <1>1, <1>2, <1>3, CapRecords, CapGates, NextSteps

LEMMA InitCaps == Init => CapInv
<1> SUFFICES ASSUME Init PROVE CapInv
  OBVIOUS
<1>1. CountsOK /\ TotalKnown
  <2>1. \A l \in Lanes : cost[l] = 0 /\ pc[l] = "idle"
    BY DEF Init
  <2>2. MaxCost \in Nat
    BY AmountsAssumption
  <2>3. restarts \in Nat /\ failures \in Nat /\ refused \in BOOLEAN
    BY DEF Init
  <2> QED
    BY <2>1, <2>2, <2>3 DEF CountsOK, TotalKnown
<1>2. globalCost = 0 /\ Budget \in Nat
  BY <1>1, BudgetType DEF Init
<1>3. MaxCost * Budget \in Nat
  BY <1>2, RunPaid, AmountsAssumption
<1> QED
  BY <1>1, <1>2, <1>3 DEF CapInv, WithinBudget

\* All lanes may be stopped at most.
LEMMA CapsBound ==
    ASSUME LedgerTypeOK, CapInv
    PROVE  OvershootBounded
<1> SUFFICES ASSUME ~resumed, ~refused PROVE OvershootBounded
  BY DEF OvershootBounded
<1> DEFINE N == Cardinality(Lanes)
           all == N * (1 + restarts) + failures
<1>1. /\ N \in Nat /\ Cardinality(StoppedLanes) \in Nat
      /\ Cardinality(StoppedLanes) <= N
  BY LaneCounts DEF StoppedLanes
<1>2. restarts \in Nat /\ failures \in Nat /\ Budget \in Nat /\ CountsOK
  BY BudgetType DEF CapInv, CountsOK
<1>3. \A n, r \in Nat : n * r \in Nat /\ n * (1 + r) = n + n * r
  OBVIOUS
<1>4. PICK x \in Nat : x = N * restarts /\ N * (1 + restarts) = N + x
  BY <1>1, <1>2, <1>3
<1>5. all \in Nat /\ Budget <= all
  BY <1>1, <1>2, <1>4 DEF Budget
<1>6. MaxCost * Budget <= MaxCost * all /\ MaxCost * Budget \in Nat /\ MaxCost * all \in Nat
  BY <1>2, <1>5, RunPaid, AmountsAssumption
<1>7. GlobalCap \in Nat /\ globalCost \in Nat /\ WithinBudget
  BY AmountsAssumption DEF LedgerTypeOK, CapInv
<1> HIDE DEF all
<1>8. globalCost < GlobalCap + MaxCost * all \/ globalCost = MaxCost * all
  <2>1. \A a, b, g, cap \in Nat :
           a <= b /\ (g < cap + a \/ g <= a) => g < cap + b \/ g = b
    OBVIOUS
  <2> QED
    BY <1>6, <1>7, <2>1 DEF WithinBudget
<1> QED
  BY <1>8 DEF OvershootBounded, all

----------------------------------------------------------------------------
(* The invariant, and the theorems.                                        *)

LEMMA Invariant == Spec => [](IInv /\ CapInv)
<1>1. IInv /\ [Next]_vars => IInv'
  BY GateTypeKept, RunsCountedKept, LatchKeptKept, LedgerKept DEF IInv, Ledger
<1>2. IInv /\ IInv' /\ CapInv /\ [Next]_vars => CapInv'
  BY CapKept DEF IInv, Ledger
<1> QED
  BY <1>1, <1>2, InitInv, InitCaps, PTL DEF Spec

(* costTracker.record, one call at a time: whatever lanes record, whenever  *)
(* the daemon restarts, the totals are what was recorded, unless a call was *)
(* cut between its two writes.                                              *)
THEOREM LedgerIsExact == Spec => []LedgerExact
<1>1. IInv => LedgerExact
  BY DEF IInv, RecordsExact, LedgerExact
<1> QED
  BY <1>1, Invariant, PTL

(* isPaused: no check that began after an auth failure lets a run start,     *)
(* through restarts, other failures and pauses, until the user first resumes *)
(* or a restart comes before the pause of a failure is in the file.          *)
THEOREM FirstLatchHolds == Spec => []FirstAuthLatchHolds
<1>1. IInv => FirstAuthLatchHolds
  BY DEF IInv, LatchKept, FirstAuthLatchHolds
<1> QED
  BY <1>1, Invariant, PTL

(* checkPaused: while pause.json says paused, each lane starts at most one   *)
(* run, whose check had read the file before.                                *)
THEOREM OneRunFinishes == Spec => []PauseLetsOneRunFinish
<1>1. IInv => PauseLetsOneRunFinish
  BY DEF IInv, RunsCounted, PauseLetsOneRunFinish
<1> QED
  BY <1>1, Invariant, PTL

(* The cap handler, which acts on a run that is over: whatever the caps and  *)
(* the costs of runs are, and however many lanes run at once, until the user *)
(* resumes the total passes the global cap by no more than one run of each   *)
(* lane per start of the daemon and one per failed write.                    *)
THEOREM CapsBoundSpending == Spec => []OvershootBounded
<1>1. IInv /\ CapInv => OvershootBounded
  BY CapsBound DEF IInv
<1> QED
  BY <1>1, Invariant, PTL
=============================================================================
