-------------------------- MODULE KairosDaemonProofs --------------------------
(***************************************************************************)
(* Proofs about KairosDaemon, for any set of projects and any number of    *)
(* edits: the daemon's workers are those of the file, a shutdown leaves no *)
(* scheduler running, and a removed project no reflection, each but for    *)
(* the exceptions that its property names.                                 *)
(***************************************************************************)
EXTENDS KairosDaemon, TLAPS

DaemonTypeOK ==
    /\ registry \subseteq Projects /\ editTo \subseteq Projects
    /\ editing \in BOOLEAN /\ edits \in 0..MaxEdits
    /\ main \in {"starting", "loading", "idle", "closing", "stopping", "exited"}
    /\ toLoad \subseteq Projects /\ toStop \subseteq Projects
    /\ seen \subseteq Projects /\ previous \subseteq Projects
    /\ active \in [Projects -> 0..MaxCalls] /\ calls \in [Projects -> Nat]
    /\ add \in [Workers -> {"none", "ensuring", "registering", "done"}]
    /\ rem \in [Workers -> {"none", "awaitTier3", "tier3", "worker", "done"}]
    /\ scheduling \subseteq Workers
    /\ tier3 \in [Workers -> {"none", "config", "timer", "reflecting"}]

\* The times that a project appears in the file are as many as the edits at
\* most, and addProject is called for each of them at most once.
Up(before, after) == IF ~before /\ after THEN 1 ELSE 0

Appearing(p) ==
    IF main \in {"starting", "loading"}
    THEN Up(FALSE, p \in IF main = "starting" THEN registry ELSE toLoad)
    ELSE IF polling THEN Up(p \in previous, p \in seen) + Up(p \in seen, p \in registry)
                    ELSE Up(p \in previous, p \in registry)

Counted ==
    \A p \in Projects :
        calls[p] + Appearing(p) + (IF editing THEN Up(p \in registry, p \in editTo) ELSE 0)
            <= edits + 1

\* The life of a worker: its number, addProject, activeWorkers, removeProject.
Lived ==
    \A w \in Workers :
        /\ w[2] > calls[w[1]] => add[w] = "none"
        /\ add[w] \in {"none", "ensuring"} =>
              rem[w] = "none" /\ tier3[w] = "none" /\ w[2] # active[w[1]]
        /\ w[2] = active[w[1]] => rem[w] = "none"
        /\ w \in scheduling => add[w] = "done"

\* A controller that was told to stop, and was not reading its configuration,
\* at most ends its reflection.
Stops ==
    \A w \in Workers :
        w \notin late =>
            /\ rem[w] \in {"tier3", "worker", "done"} => tier3[w] = "none"
            /\ rem[w] = "awaitTier3" => tier3[w] \in {"reflecting", "none"}

\* One call about p at a time, and what the calls have done.
Single(p) ==
    \A w \in Workers : w[1] = p =>
        /\ Adding(w) \/ Removing(w) =>
              \A v \in Workers : v[1] = p /\ (Adding(v) \/ Removing(v)) => v = w
        /\ w \in scheduling => w[2] = active[p] \/ rem[w] \in {"awaitTier3", "tier3"}
        /\ add[w] = "ensuring" => active[p] = 0
        /\ add[w] = "registering" => w[2] = active[p]
        /\ w[2] = active[p] => add[w] = "registering" \/ w \in scheduling

Singles == \A p \in Projects : p \notin raced => Single(p)

\* Until the watcher starts only the loop of the start makes calls.
Starting ==
    main \in {"starting", "loading"} =>
        /\ ~watching /\ ~polling /\ \A w \in Workers : rem[w] = "none"
        /\ main = "starting" => awaited = {} /\ \A p \in Projects : calls[p] = 0
        /\ main = "loading" => \A p \in toLoad : calls[p] = 0
        /\ \A w \in Workers : Adding(w) => w \in awaited

Ensuring(p) == \E w \in Workers : w[1] = p /\ add[w] = "ensuring"

\* What the watcher last saw is what the daemon has, or is about to have.
Idle ==
    main = "idle" =>
        \A p \in Projects : p \notin raced => (p \in previous <=> active[p] # 0 \/ Ensuring(p))

\* What the shutdown has still to do.
Closed(p) ==
    /\ polling => (p \in seen <=> p \in previous)
    /\ active[p] # 0 => p \in toStop
    /\ \A w \in Workers : w[1] = p =>
          /\ ~Adding(w)
          /\ Removing(w) => w \in awaited /\ p \notin toStop

Closing ==
    /\ main \in {"closing", "stopping", "exited"} => ~watching
    /\ main \in {"stopping", "exited"} => \A p \in Projects : p \notin raced => Closed(p)
    /\ main = "exited" => toStop = {} /\ awaited = {}

IInv == DaemonTypeOK /\ Counted /\ Lived /\ Stops /\ Singles /\ Starting /\ Idle /\ Closing

----------------------------------------------------------------------------
(* Workers, and what the beginning of calls does to them.                  *)

LEMMA MaxCallsType == MaxCalls \in Nat \ {0} /\ MaxEdits \in Nat /\ MaxCalls = MaxEdits + 1
BY DaemonAssumption DEF MaxCalls

LEMMA WorkersAre ==
    /\ \A w \in Workers : w[1] \in Projects /\ w[2] \in 1..MaxCalls /\ w = <<w[1], w[2]>>
    /\ \A p \in Projects, n \in 1..MaxCalls :
          <<p, n>> \in Workers /\ <<p, n>>[1] = p /\ <<p, n>>[2] = n
BY DEF Workers

Comes(A, w) == w[1] \in A /\ active[w[1]] = 0 /\ w[2] = calls[w[1]] + 1
Goes(R, w)  == w[1] \in R /\ w[2] = active[w[1]]

AddsEffect(A) ==
    /\ calls' \in [Projects -> Nat]
    /\ \A p \in Projects :
          calls'[p] = IF p \in A /\ active[p] = 0 THEN calls[p] + 1 ELSE calls[p]
    /\ add' \in [Workers -> {"none", "ensuring", "registering", "done"}]
    /\ \A w \in Workers : add'[w] = IF Comes(A, w) THEN "ensuring" ELSE add[w]

RemovesEffect(R) ==
    /\ active' \in [Projects -> 0..MaxCalls]
    /\ \A p \in Projects : active'[p] = IF p \in R THEN 0 ELSE active[p]
    /\ rem' \in [Workers -> {"none", "awaitTier3", "tier3", "worker", "done"}]
    /\ \A w \in Workers :
          rem'[w] = IF ~Goes(R, w) THEN rem[w]
                    ELSE IF tier3[w] = "reflecting" THEN "awaitTier3" ELSE "tier3"
    /\ tier3' \in [Workers -> {"none", "config", "timer", "reflecting"}]
    /\ \A w \in Workers :
          tier3'[w] = IF Goes(R, w) /\ tier3[w] = "timer" THEN "none" ELSE tier3[w]
    /\ late \subseteq late'
    /\ \A w \in Workers : Goes(R, w) /\ tier3[w] = "config" => w \in late'

LEMMA AddsBegun ==
    ASSUME DaemonTypeOK, NEW A \in SUBSET Projects, AddsBegin(A)
    PROVE  AddsEffect(A)
<1>1. \A p \in Projects :
         calls'[p] = IF p \in A /\ active[p] = 0 THEN calls[p] + 1 ELSE calls[p]
  BY DEF AddsBegin
<1>2. calls' \in [Projects -> Nat]
  BY DEF AddsBegin, DaemonTypeOK
<1>3. \A w \in Workers : add'[w] = IF Comes(A, w) THEN "ensuring" ELSE add[w]
  BY DEF AddsBegin, Comes
<1>4. add' \in [Workers -> {"none", "ensuring", "registering", "done"}]
  BY DEF AddsBegin, DaemonTypeOK
<1> QED
  BY <1>1, <1>2, <1>3, <1>4 DEF AddsEffect

LEMMA RemovesBegun ==
    ASSUME DaemonTypeOK, NEW R \in SUBSET Projects, RemovesBegin(R)
    PROVE  RemovesEffect(R)
<1> DEFINE gone == {Current(p) : p \in {q \in R : active[q] # 0}}
<1>1. \A w \in Workers : w \in gone <=> Goes(R, w)
  <2> SUFFICES ASSUME NEW w \in Workers PROVE w \in gone <=> Goes(R, w)
    OBVIOUS
  <2>1. w[1] \in Projects /\ w[2] \in 1..MaxCalls /\ w = <<w[1], w[2]>>
    BY WorkersAre
  <2>2. ASSUME w \in gone PROVE Goes(R, w)
    <3>1. PICK p \in R : w = <<p, active[p]>>
      BY <2>2 DEF Current
    <3>2. w[1] = p /\ w[2] = active[p]
      BY <3>1
    <3> QED
      BY <3>2 DEF Goes
  <2>3. ASSUME Goes(R, w) PROVE w \in gone
    <3>1. w[1] \in R /\ active[w[1]] # 0 /\ w = Current(w[1])
      <4>1. w[1] \in R /\ w[2] = active[w[1]]
        BY <2>3 DEF Goes
      <4>2. w[2] # 0
        BY <2>1, MaxCallsType
      <4> QED
        BY <2>1, <4>1, <4>2 DEF Current
    <3> QED
      BY <3>1
  <2> QED
    BY <2>2, <2>3
<1>2. /\ active' = [p \in Projects |-> IF p \in R THEN 0 ELSE active[p]]
      /\ rem' = [w \in Workers |->
                    IF w \notin gone THEN rem[w]
                    ELSE IF tier3[w] = "reflecting" THEN "awaitTier3" ELSE "tier3"]
      /\ tier3' = [w \in Workers |->
                    IF w \in gone /\ tier3[w] = "timer" THEN "none" ELSE tier3[w]]
      /\ late' = late \cup {w \in gone : tier3[w] = "config"}
  BY DEF RemovesBegin
<1> HIDE DEF gone
<1>3. active' \in [Projects -> 0..MaxCalls]
  BY <1>2, MaxCallsType DEF DaemonTypeOK
<1>4. /\ rem' \in [Workers -> {"none", "awaitTier3", "tier3", "worker", "done"}]
      /\ tier3' \in [Workers -> {"none", "config", "timer", "reflecting"}]
  BY <1>2 DEF DaemonTypeOK
<1>5. \A w \in Workers : Goes(R, w) /\ tier3[w] = "config" => w \in late'
  BY <1>1, <1>2
<1> QED
  BY <1>1, <1>2, <1>3, <1>4, <1>5 DEF RemovesEffect

LEMMA InitInv == Init => IInv
<1> SUFFICES ASSUME Init PROVE IInv
  OBVIOUS
<1>1. DaemonTypeOK
  <2>1. 0 \in 0..MaxCalls /\ 0 \in 0..MaxEdits /\ 0 \in Nat
    BY MaxCallsType
  <2> QED
    BY <2>1 DEF Init, DaemonTypeOK
<1>2. Counted
  BY MaxCallsType DEF Init, Counted, Appearing, Up
<1>3. Lived
  BY WorkersAre, MaxCallsType DEF Init, Lived
<1>4. Stops /\ Starting /\ Idle /\ Closing
  BY DEF Init, Stops, Starting, Idle, Closing, Adding
<1>5. Singles
  BY WorkersAre, MaxCallsType DEF Init, Singles, Single, Adding, Removing
<1> QED
  BY <1>1, <1>2, <1>3, <1>4, <1>5 DEF IInv

----------------------------------------------------------------------------
(* The kinds of steps.                                                     *)

\* Calls are made, for projects about which none is in progress or which are
\* written down as raced.
CallsBegin ==
    \E A, R \in SUBSET Projects :
        /\ A \cap R = {} /\ AddsEffect(A) /\ RemovesEffect(R) /\ scheduling' = scheduling
        /\ \A p \in A \cup R : p \notin raced' => ~InProgress(p)

Quiet == UNCHANGED <<callVars, runVars, late>>

LEMMA NoneInProgress ==
    ASSUME IInv, NEW p \in Projects,
           \/ main = "loading" /\ p \in toLoad
           \/ main = "stopping" /\ p \in toStop /\ p \notin raced
    PROVE  ~InProgress(p)
<1>1. CASE main = "loading" /\ p \in toLoad
  <2>1. \A w \in Workers : w[1] = p => add[w] = "none" /\ rem[w] = "none"
    <3>1. calls[p] = 0 /\ \A w \in Workers : rem[w] = "none"
      BY <1>1 DEF IInv, Starting
    <3>2. \A w \in Workers : w[2] > 0
      BY WorkersAre, MaxCallsType
    <3> QED
      BY <3>1, <3>2 DEF IInv, Lived
  <2> QED
    BY <2>1 DEF InProgress, Adding, Removing
<1>2. CASE main = "stopping" /\ p \in toStop /\ p \notin raced
  <2>1. Closed(p)
    BY <1>2 DEF IInv, Closing
  <2> QED
    BY <1>2, <2>1 DEF Closed, InProgress
<1> QED
  BY <1>1, <1>2

LEMMA StepKinds ==
    ASSUME IInv, [Next]_vars
    PROVE  /\ \/ CallsBegin \/ Quiet
              \/ \E w \in Workers : CallStep(w) \/ Tier3Step(w)
           /\ raced \subseteq raced'
<1>1. CASE PollReturns
  <2>1. seen \ previous \in SUBSET Projects /\ previous \ seen \in SUBSET Projects
    BY DEF IInv, DaemonTypeOK
  <2>2. AddsEffect(seen \ previous) /\ RemovesEffect(previous \ seen)
    BY <1>1, <2>1, AddsBegun, RemovesBegun DEF PollReturns, IInv
  <2>3. \A p \in (seen \ previous) \cup (previous \ seen) : p \notin raced' => ~InProgress(p)
    BY <1>1 DEF PollReturns
  <2>4. CallsBegin
    BY <1>1, <2>1, <2>2, <2>3 DEF CallsBegin, PollReturns
  <2> QED
    BY <1>1, <2>4 DEF PollReturns
<1>2. ASSUME NEW p \in Projects, Load(p)
      PROVE  CallsBegin /\ raced' = raced
  <2>1. {p} \in SUBSET Projects /\ {} \in SUBSET Projects
    OBVIOUS
  <2>2. AddsEffect({p})
    BY <1>2, <2>1, AddsBegun DEF Load, IInv
  <2>3. RemovesEffect({})
    BY <1>2 DEF Load, runVars, historyVars, RemovesEffect, Goes, IInv, DaemonTypeOK
  <2>4. ~InProgress(p)
    BY <1>2, NoneInProgress DEF Load
  <2> QED
    BY <1>2, <2>1, <2>2, <2>3, <2>4 DEF CallsBegin, Load, runVars, historyVars
<1>3. ASSUME NEW p \in Projects, StopProject(p)
      PROVE  CallsBegin /\ raced' = raced
  <2>1. {p} \in SUBSET Projects /\ {} \in SUBSET Projects
    OBVIOUS
  <2>2. RemovesEffect({p})
    BY <1>3, <2>1, RemovesBegun DEF StopProject, IInv
  <2>3. AddsEffect({})
    BY <1>3 DEF StopProject, AddsEffect, Comes, IInv, DaemonTypeOK
  <2>4. p \notin raced => ~InProgress(p)
    BY <1>3, NoneInProgress DEF StopProject
  <2> QED
    BY <1>3, <2>1, <2>2, <2>3, <2>4 DEF CallsBegin, StopProject
<1>4. CASE \E w \in Workers : CallStep(w) \/ Tier3Step(w)
  BY <1>4 DEF CallStep, AddEnsured, AddRegistered, RemoveTier3Stopped, RemoveDone, Tier3Step,
     Tier3Configured, Tier3Fires, Tier3Ends, historyVars
<1>5. CASE \/ ReadProjects \/ CallReturns \/ StartWatching \/ ListWorkers \/ Exit \/ Abort
           \/ PollReads \/ EditFills \/ (\E p \in Projects : EditBegins(p)) \/ UNCHANGED vars
  BY <1>5 DEF ReadProjects, CallReturns, StartWatching, ListWorkers, Exit, Abort, PollReads,
     EditFills, EditBegins, vars, callVars, runVars, historyVars, Quiet
<1> QED
  BY <1>1, <1>2, <1>3, <1>4, <1>5 DEF Next, Poll, MainStep

----------------------------------------------------------------------------
(* Types.                                                                  *)

LEMMA TypesKept == IInv /\ [Next]_vars => DaemonTypeOK'
<1> SUFFICES ASSUME IInv, [Next]_vars PROVE DaemonTypeOK'
  OBVIOUS
<1>1. DaemonTypeOK
  BY DEF IInv
<1>2. /\ registry' \subseteq Projects /\ editTo' \subseteq Projects
      /\ editing' \in BOOLEAN /\ edits' \in 0..MaxEdits
  <2>1. CASE UNCHANGED fileVars
    BY <1>1, <2>1 DEF DaemonTypeOK, fileVars
  <2>2. ASSUME NEW p \in Projects, EditBegins(p)
        PROVE  /\ registry' \subseteq Projects /\ editTo' \subseteq Projects
               /\ editing' \in BOOLEAN /\ edits' \in 0..MaxEdits
    <3>1. registry' = {} /\ editing' = TRUE /\ editTo' \subseteq Projects
      BY <1>1, <2>2 DEF DaemonTypeOK, EditBegins
    <3>2. edits' \in 0..MaxEdits
      BY <1>1, <2>2, MaxCallsType DEF DaemonTypeOK, EditBegins
    <3> QED
      BY <3>1, <3>2
  <2>3. CASE EditFills
    BY <1>1, <2>3 DEF DaemonTypeOK, EditFills
  <2> QED
    BY <2>1, <2>2, <2>3 DEF Next, vars, Poll, PollReads, PollReturns, MainStep, ReadProjects,
       CallReturns, StartWatching, ListWorkers, Exit, Load, StopProject, Abort, CallStep,
       AddEnsured, AddRegistered, RemoveTier3Stopped, RemoveDone, Tier3Step, Tier3Configured,
       Tier3Fires, Tier3Ends
<1>3. /\ main' \in {"starting", "loading", "idle", "closing", "stopping", "exited"}
      /\ toLoad' \subseteq Projects /\ toStop' \subseteq Projects
      /\ seen' \subseteq Projects /\ previous' \subseteq Projects
  <2>1. CASE UNCHANGED <<mainVars, watchVars>>
    BY <1>1, <2>1 DEF DaemonTypeOK, mainVars, watchVars
  <2>2. CASE Poll
    BY <1>1, <2>2 DEF DaemonTypeOK, Poll, PollReads, PollReturns, RememberSeen, mainVars
  <2>3. CASE ReadProjects \/ CallReturns \/ StartWatching \/ ListWorkers \/ Exit \/ Abort
    BY <1>1, <2>3 DEF DaemonTypeOK, ReadProjects, CallReturns, StartWatching, ListWorkers, Exit,
       Abort, watchVars
  <2>4. CASE \E p \in Projects : Load(p) \/ StopProject(p)
    BY <1>1, <2>4 DEF DaemonTypeOK, Load, StopProject, watchVars
  <2> QED
    BY <2>1, <2>2, <2>3, <2>4 DEF Next, vars, MainStep, CallStep, AddEnsured, AddRegistered,
       RemoveTier3Stopped, RemoveDone, Tier3Step, Tier3Configured, Tier3Fires, Tier3Ends,
       EditBegins, EditFills
<1>4. /\ active' \in [Projects -> 0..MaxCalls] /\ calls' \in [Projects -> Nat]
      /\ add' \in [Workers -> {"none", "ensuring", "registering", "done"}]
      /\ rem' \in [Workers -> {"none", "awaitTier3", "tier3", "worker", "done"}]
      /\ scheduling' \subseteq Workers
      /\ tier3' \in [Workers -> {"none", "config", "timer", "reflecting"}]
  <2>1. CASE CallsBegin
    BY <1>1, <2>1 DEF CallsBegin, AddsEffect, RemovesEffect, DaemonTypeOK
  <2>2. CASE Quiet
    BY <1>1, <2>2 DEF Quiet, callVars, runVars, DaemonTypeOK
  <2>3. ASSUME NEW w \in Workers, AddEnsured(w)
        PROVE  /\ active' \in [Projects -> 0..MaxCalls]
               /\ add' \in [Workers -> {"none", "ensuring", "registering", "done"}]
               /\ tier3' \in [Workers -> {"none", "config", "timer", "reflecting"}]
               /\ UNCHANGED <<calls, rem, scheduling>>
    <3>1. w[2] \in 0..MaxCalls
      BY WorkersAre, MaxCallsType
    <3> QED
      BY <1>1, <2>3, <3>1 DEF AddEnsured, DaemonTypeOK
  <2>4. ASSUME NEW w \in Workers,
               AddRegistered(w) \/ RemoveTier3Stopped(w) \/ RemoveDone(w) \/ Tier3Step(w)
        PROVE  /\ add' \in [Workers -> {"none", "ensuring", "registering", "done"}]
               /\ rem' \in [Workers -> {"none", "awaitTier3", "tier3", "worker", "done"}]
               /\ scheduling' \subseteq Workers
               /\ tier3' \in [Workers -> {"none", "config", "timer", "reflecting"}]
               /\ UNCHANGED <<active, calls>>
    BY <1>1, <2>4 DEF AddRegistered, RemoveTier3Stopped, RemoveDone, Tier3Step, Tier3Configured,
       Tier3Fires, Tier3Ends, callVars, runVars, DaemonTypeOK
  <2> QED
    BY <1>1, <2>1, <2>2, <2>3, <2>4, StepKinds DEF CallStep, DaemonTypeOK
<1> QED
  BY <1>2, <1>3, <1>4 DEF DaemonTypeOK

----------------------------------------------------------------------------
(* The life of a worker.                                                   *)

LEMMA LivedKept == IInv /\ [Next]_vars => Lived'
<1> SUFFICES ASSUME IInv, [Next]_vars, NEW w \in Workers
             PROVE  /\ w[2] > calls'[w[1]] => add'[w] = "none"
                    /\ add'[w] \in {"none", "ensuring"} =>
                          rem'[w] = "none" /\ tier3'[w] = "none" /\ w[2] # active'[w[1]]
                    /\ w[2] = active'[w[1]] => rem'[w] = "none"
                    /\ w \in scheduling' => add'[w] = "done"
  BY DEF Lived
<1>1. DaemonTypeOK /\ Lived
  BY DEF IInv
<1>2. w[1] \in Projects /\ w[2] \in Nat /\ w[2] # 0 /\ w[2] \in 0..MaxCalls
  BY WorkersAre, MaxCallsType
<1>3. CASE CallsBegin
  <2>1. PICK A \in SUBSET Projects, R \in SUBSET Projects :
            A \cap R = {} /\ AddsEffect(A) /\ RemovesEffect(R) /\ scheduling' = scheduling
    BY <1>3 DEF CallsBegin
  <2>2. calls[w[1]] \in Nat /\ calls'[w[1]] \in Nat /\ calls'[w[1]] >= calls[w[1]]
    BY <1>1, <1>2, <2>1 DEF AddsEffect, DaemonTypeOK
  <2>3. CASE Comes(A, w)
    <3>1. /\ w[1] \in A /\ active[w[1]] = 0 /\ w[2] = calls[w[1]] + 1 /\ ~Goes(R, w)
          /\ w[1] \notin R
      BY <1>2, <2>1, <2>3 DEF Comes, Goes
    <3>2. add[w] = "none" /\ rem[w] = "none" /\ tier3[w] = "none" /\ w \notin scheduling
      BY <1>1, <2>2, <3>1 DEF Lived
    <3>3. add'[w] = "ensuring" /\ rem'[w] = "none" /\ tier3'[w] = "none"
      BY <2>1, <2>3, <3>1, <3>2 DEF AddsEffect, RemovesEffect
    <3>4. calls'[w[1]] = w[2] /\ active'[w[1]] = 0
      BY <1>2, <2>1, <3>1 DEF AddsEffect, RemovesEffect
    <3> QED
      BY <1>2, <2>1, <3>2, <3>3, <3>4
  <2>4. CASE Goes(R, w)
    <3>1. w[1] \in R /\ w[2] = active[w[1]] /\ w[1] \notin A /\ ~Comes(A, w)
      BY <2>1, <2>4 DEF Goes, Comes
    <3>2. add'[w] = add[w] /\ add[w] \notin {"none", "ensuring"} /\ ~(w[2] > calls[w[1]])
      BY <1>1, <1>2, <2>1, <3>1 DEF AddsEffect, Lived
    <3>3. calls'[w[1]] = calls[w[1]] /\ active'[w[1]] = 0
      BY <1>2, <2>1, <3>1 DEF AddsEffect, RemovesEffect
    <3> QED
      BY <1>1, <1>2, <2>1, <3>2, <3>3 DEF Lived
  <2>5. CASE ~Comes(A, w) /\ ~Goes(R, w)
    <3>1. add'[w] = add[w] /\ rem'[w] = rem[w] /\ tier3'[w] = tier3[w]
      BY <2>1, <2>5 DEF AddsEffect, RemovesEffect
    <3>2. active'[w[1]] = active[w[1]] \/ active'[w[1]] = 0
      BY <1>2, <2>1 DEF RemovesEffect
    <3> QED
      BY <1>1, <1>2, <2>1, <2>2, <3>1, <3>2 DEF Lived
  <2> QED
    BY <2>3, <2>4, <2>5
<1>4. CASE Quiet
  BY <1>1, <1>4 DEF Quiet, callVars, runVars, Lived
<1>5. ASSUME NEW v \in Workers, AddEnsured(v)
      PROVE  Lived'
  <2>1. v[1] \in Projects /\ v[2] \in 0..MaxCalls /\ v = <<v[1], v[2]>>
    BY WorkersAre, MaxCallsType
  <2>2. /\ add[v] = "ensuring" /\ UNCHANGED <<calls, rem, scheduling>>
        /\ \A u \in Workers : add'[u] = IF u = v THEN "registering" ELSE add[u]
        /\ \A u \in Workers : tier3'[u] = IF u = v THEN "config" ELSE tier3[u]
        /\ \A p \in Projects : active'[p] = IF p = v[1] THEN v[2] ELSE active[p]
    BY <1>1, <1>5, <2>1 DEF AddEnsured, DaemonTypeOK
  <2> SUFFICES ASSUME NEW u \in Workers
               PROVE  /\ u[2] > calls[u[1]] => add'[u] = "none"
                      /\ add'[u] \in {"none", "ensuring"} =>
                            rem[u] = "none" /\ tier3'[u] = "none" /\ u[2] # active'[u[1]]
                      /\ u[2] = active'[u[1]] => rem[u] = "none"
                      /\ u \in scheduling => add'[u] = "done"
    BY <2>2 DEF Lived
  <2>3. u[1] \in Projects /\ u = <<u[1], u[2]>>
    BY WorkersAre
  <2>4. CASE u = v
    BY <1>1, <2>2, <2>4 DEF Lived
  <2>5. CASE u # v
    <3>1. u[1] = v[1] => u[2] # v[2]
      BY <2>1, <2>3, <2>5
    <3> QED
      BY <1>1, <2>2, <2>3, <2>5, <3>1 DEF Lived
  <2> QED
    BY <2>4, <2>5
<1>6. ASSUME NEW v \in Workers,
             AddRegistered(v) \/ RemoveTier3Stopped(v) \/ RemoveDone(v) \/ Tier3Step(v)
      PROVE  Lived'
  <2>1. UNCHANGED <<active, calls>>
    BY <1>6 DEF AddRegistered, RemoveTier3Stopped, RemoveDone, Tier3Step, Tier3Configured,
       Tier3Fires, Tier3Ends, callVars
  <2>2. \A u \in Workers :
           \/ add'[u] = add[u]
           \/ u = v /\ add[u] = "registering" /\ add'[u] = "done"
    BY <1>1, <1>6 DEF AddRegistered, RemoveTier3Stopped, RemoveDone, Tier3Step, Tier3Configured,
       Tier3Fires, Tier3Ends, callVars, DaemonTypeOK
  <2>3. \A u \in Workers : rem[u] = "none" => rem'[u] = "none"
    BY <1>1, <1>6 DEF AddRegistered, RemoveTier3Stopped, RemoveDone, Tier3Step, Tier3Configured,
       Tier3Fires, Tier3Ends, callVars, DaemonTypeOK
  <2>4. \A u \in Workers : tier3[u] = "none" => tier3'[u] = "none"
    BY <1>1, <1>6 DEF AddRegistered, RemoveTier3Stopped, RemoveDone, Tier3Step, Tier3Configured,
       Tier3Fires, Tier3Ends, runVars, DaemonTypeOK
  <2>5. \A u \in Workers : u \in scheduling' => u \in scheduling \/ add'[u] = "done"
    BY <1>1, <1>6 DEF AddRegistered, RemoveTier3Stopped, RemoveDone, Tier3Step, Tier3Configured,
       Tier3Fires, Tier3Ends, runVars, DaemonTypeOK
  <2> QED
    BY <1>1, <2>1, <2>2, <2>3, <2>4, <2>5 DEF Lived
<1> QED
  BY <1>3, <1>4, <1>5, <1>6, StepKinds DEF CallStep, Lived

LEMMA StopsKept == IInv /\ [Next]_vars => Stops'
<1> SUFFICES ASSUME IInv, [Next]_vars, NEW w \in Workers, w \notin late'
             PROVE  /\ rem'[w] \in {"tier3", "worker", "done"} => tier3'[w] = "none"
                    /\ rem'[w] = "awaitTier3" => tier3'[w] \in {"reflecting", "none"}
  BY DEF Stops
<1>1. DaemonTypeOK /\ Lived /\ Stops
  BY DEF IInv
<1>2. CASE CallsBegin
  <2>1. PICK R \in SUBSET Projects : RemovesEffect(R)
    BY <1>2 DEF CallsBegin
  <2>2. CASE Goes(R, w)
    BY <1>1, <2>1, <2>2 DEF RemovesEffect, DaemonTypeOK
  <2>3. CASE ~Goes(R, w)
    BY <1>1, <2>1, <2>3 DEF RemovesEffect, Stops
  <2> QED
    BY <2>2, <2>3
<1>3. CASE Quiet
  BY <1>1, <1>3 DEF Quiet, callVars, runVars, Stops
<1>4. ASSUME NEW v \in Workers, CallStep(v) \/ Tier3Step(v)
      PROVE  /\ rem'[w] \in {"tier3", "worker", "done"} => tier3'[w] = "none"
             /\ rem'[w] = "awaitTier3" => tier3'[w] \in {"reflecting", "none"}
  <2>1. late' = late
    BY <1>4 DEF CallStep, AddEnsured, AddRegistered, RemoveTier3Stopped, RemoveDone, Tier3Step,
       Tier3Configured, Tier3Fires, Tier3Ends, historyVars
  <2>2. CASE AddEnsured(v)
    BY <1>1, <2>1, <2>2 DEF AddEnsured, Lived, Stops, DaemonTypeOK
  <2>3. CASE AddRegistered(v)
    BY <1>1, <2>1, <2>3 DEF AddRegistered, Stops
  <2>4. CASE RemoveTier3Stopped(v) \/ RemoveDone(v)
    BY <1>1, <2>1, <2>4 DEF RemoveTier3Stopped, RemoveDone, runVars, Stops, DaemonTypeOK
  <2>5. CASE Tier3Step(v)
    BY <1>1, <2>1, <2>5 DEF Tier3Step, Tier3Configured, Tier3Fires, Tier3Ends, Stopped, callVars,
       Stops, DaemonTypeOK
  <2> QED
    BY <1>4, <2>2, <2>3, <2>4, <2>5 DEF CallStep
<1> QED
  BY <1>2, <1>3, <1>4, StepKinds

----------------------------------------------------------------------------
(* One call at a time.                                                     *)

LEMMA SingleKept == IInv /\ [Next]_vars => Singles'
<1> SUFFICES ASSUME IInv, [Next]_vars, NEW p \in Projects, p \notin raced' PROVE Single(p)'
  BY DEF Singles
<1>1. DaemonTypeOK /\ Lived /\ Single(p) /\ p \notin raced
  BY StepKinds DEF IInv, Singles
<1>2. CASE CallsBegin
  <2>1. PICK A \in SUBSET Projects, R \in SUBSET Projects :
            /\ A \cap R = {} /\ AddsEffect(A) /\ RemovesEffect(R) /\ scheduling' = scheduling
            /\ \A q \in A \cup R : q \notin raced' => ~InProgress(q)
    BY <1>2 DEF CallsBegin
  <2>2. CASE p \in A /\ active[p] = 0
    <3>1. \A w \in Workers : w[1] = p => ~Adding(w) /\ ~Removing(w) /\ w \notin scheduling
      BY <1>1, <2>1, <2>2, WorkersAre, MaxCallsType DEF InProgress, Single, Removing
    <3>2. \A w \in Workers : w[1] = p =>
             /\ add'[w] = IF w[2] = calls[p] + 1 THEN "ensuring" ELSE add[w]
             /\ rem'[w] = rem[w]
      BY <2>1, <2>2 DEF AddsEffect, RemovesEffect, Comes, Goes
    <3>3. active'[p] = 0
      BY <2>1, <2>2 DEF RemovesEffect
    <3>4. \A w, v \in Workers : w[1] = p /\ v[1] = p /\ w[2] = v[2] => w = v
      BY WorkersAre
    <3>5. \A w \in Workers : w[1] = p /\ (Adding(w)' \/ Removing(w)') => w[2] = calls[p] + 1
      BY <3>1, <3>2 DEF Adding, Removing
    <3>6. \A w \in Workers : w[2] # 0
      BY WorkersAre, MaxCallsType
    <3> QED
      BY <2>1, <3>1, <3>2, <3>3, <3>4, <3>5, <3>6 DEF Single, Adding
  <2>3. CASE p \in R
    <3>1. \A w \in Workers : w[1] = p => ~Adding(w) /\ ~Removing(w)
      BY <2>1, <2>3 DEF InProgress
    <3>2. \A w \in Workers : w[1] = p =>
             /\ add'[w] = add[w]
             /\ w[2] # active[p] => rem'[w] = rem[w]
             /\ w[2] = active[p] => rem'[w] \in {"awaitTier3", "tier3"}
      BY <2>1, <2>3 DEF AddsEffect, RemovesEffect, Comes, Goes
    <3>3. active'[p] = 0
      BY <2>1, <2>3 DEF RemovesEffect
    <3>4. \A w, v \in Workers : w[1] = p /\ v[1] = p /\ w[2] = v[2] => w = v
      BY WorkersAre
    <3>5. \A w \in Workers : w[1] = p /\ (Adding(w)' \/ Removing(w)') => w[2] = active[p]
      BY <3>1, <3>2 DEF Adding, Removing
    <3>6. \A w \in Workers : w[2] # 0
      BY WorkersAre, MaxCallsType
    <3>7. \A w \in Workers : w[1] = p /\ w \in scheduling => w[2] = active[p]
      BY <1>1, <3>1 DEF Single, Removing
    <3> QED
      BY <2>1, <3>1, <3>2, <3>3, <3>4, <3>5, <3>6, <3>7 DEF Single, Adding
  <2>4. CASE p \notin R /\ ~(p \in A /\ active[p] = 0)
    <3>1. \A w \in Workers : w[1] = p => add'[w] = add[w] /\ rem'[w] = rem[w]
      BY <2>1, <2>4 DEF AddsEffect, RemovesEffect, Comes, Goes
    <3>2. active'[p] = active[p]
      BY <2>1, <2>4 DEF RemovesEffect
    <3> QED
      BY <1>1, <2>1, <3>1, <3>2 DEF Single, Adding, Removing
  <2> QED
    BY <2>2, <2>3, <2>4
<1>3. CASE Quiet
  BY <1>1, <1>3 DEF Quiet, callVars, runVars, Single, Adding, Removing
<1>4. ASSUME NEW v \in Workers, CallStep(v) \/ Tier3Step(v)
      PROVE  Single(p)'
  <2>1. v[1] \in Projects /\ v[2] \in 0..MaxCalls /\ v[2] # 0
    BY WorkersAre, MaxCallsType
  <2>2. CASE AddEnsured(v)
    <3>1. /\ add[v] = "ensuring" /\ UNCHANGED <<calls, rem, scheduling>>
          /\ \A u \in Workers : add'[u] = IF u = v THEN "registering" ELSE add[u]
          /\ active'[p] = IF p = v[1] THEN v[2] ELSE active[p]
      BY <1>1, <2>1, <2>2 DEF AddEnsured, DaemonTypeOK
    <3>2. \A w, u \in Workers : w[1] = p /\ u[1] = p /\ w[2] = u[2] => w = u
      BY WorkersAre
    <3>3. CASE v[1] = p
      <4>1. Adding(v) /\ active[p] = 0 /\ rem[v] = "none"
        BY <1>1, <3>1, <3>3 DEF Single, Adding, Lived
      <4>2. \A w \in Workers : w[1] = p /\ (Adding(w) \/ Removing(w)) => w = v
        BY <1>1, <3>3, <4>1 DEF Single
      <4>3. \A w \in Workers : w[1] = p => w \notin scheduling
        BY <1>1, <4>1, <4>2, WorkersAre, MaxCallsType DEF Single, Removing
      <4>4. \A w \in Workers : w[1] = p /\ (Adding(w)' \/ Removing(w)') => w = v
        BY <3>1, <4>2 DEF Adding, Removing
      <4> QED
        BY <3>1, <3>2, <3>3, <4>2, <4>3, <4>4 DEF Single, Adding
    <3>4. CASE v[1] # p
      <4>1. \A w \in Workers : w[1] = p => add'[w] = add[w]
        BY <3>1, <3>4
      <4> QED
        BY <1>1, <3>1, <3>4, <4>1 DEF Single, Adding, Removing
    <3> QED
      BY <3>3, <3>4
  <2>3. CASE AddRegistered(v)
    <3>1. /\ add[v] = "registering" /\ UNCHANGED <<calls, rem, active>>
          /\ \A u \in Workers : add'[u] = IF u = v THEN "done" ELSE add[u]
          /\ scheduling' = scheduling \cup {v}
      BY <1>1, <2>3 DEF AddRegistered, DaemonTypeOK
    <3>2. \A w \in Workers : Adding(w)' => Adding(w)
      BY <3>1 DEF Adding
    <3>3. \A w \in Workers : Removing(w)' <=> Removing(w)
      BY <3>1 DEF Removing
    <3> QED
      BY <1>1, <3>1, <3>2, <3>3 DEF Single
  <2>4. CASE RemoveTier3Stopped(v)
    <3>1. /\ rem[v] \in {"awaitTier3", "tier3"} /\ UNCHANGED <<calls, add, active>>
          /\ \A u \in Workers : rem'[u] = IF u = v THEN "worker" ELSE rem[u]
          /\ scheduling' = scheduling \ {v}
      BY <1>1, <2>4 DEF RemoveTier3Stopped, DaemonTypeOK
    <3>2. \A w \in Workers : (Adding(w)' <=> Adding(w)) /\ (Removing(w)' => Removing(w))
      BY <3>1 DEF Adding, Removing
    <3>3. v[2] # active[v[1]]
      BY <1>1, <3>1 DEF Lived
    <3> QED
      BY <1>1, <3>1, <3>2, <3>3 DEF Single
  <2>5. CASE RemoveDone(v)
    <3>1. /\ rem[v] = "worker" /\ UNCHANGED <<calls, add, active, scheduling>>
          /\ \A u \in Workers : rem'[u] = IF u = v THEN "done" ELSE rem[u]
      BY <1>1, <2>5 DEF RemoveDone, runVars, DaemonTypeOK
    <3>2. \A w \in Workers : (Adding(w)' <=> Adding(w)) /\ (Removing(w)' => Removing(w))
      BY <3>1 DEF Adding, Removing
    <3> QED
      BY <1>1, <3>1, <3>2 DEF Single
  <2>6. CASE Tier3Step(v)
    <3>1. UNCHANGED <<callVars, scheduling>>
      BY <2>6 DEF Tier3Step, Tier3Configured, Tier3Fires, Tier3Ends
    <3> QED
      BY <1>1, <3>1 DEF callVars, Single, Adding, Removing
  <2> QED
    BY <1>4, <2>2, <2>3, <2>4, <2>5, <2>6 DEF CallStep
<1> QED
  BY <1>2, <1>3, <1>4, StepKinds

----------------------------------------------------------------------------
(* The number of calls.                                                    *)

InFile(p) == IF editing THEN Up(p \in registry, p \in editTo) ELSE 0

LEMMA CountedKept == IInv /\ [Next]_vars => Counted'
<1> SUFFICES ASSUME IInv, [Next]_vars, NEW p \in Projects
             PROVE  calls'[p] + Appearing(p)' + InFile(p)' <= edits' + 1
  BY DEF Counted, InFile
<1>1. DaemonTypeOK /\ calls[p] \in Nat /\ edits \in Nat
  BY MaxCallsType DEF IInv, DaemonTypeOK
<1>2. calls[p] + Appearing(p) + InFile(p) <= edits + 1
  BY DEF IInv, Counted, InFile
<1>3. /\ Up(FALSE, FALSE) = 0 /\ Up(FALSE, TRUE) = 1 /\ Up(TRUE, FALSE) = 0 /\ Up(TRUE, TRUE) = 0
      /\ \A a, b \in BOOLEAN : Up(a, b) \in {0, 1}
  BY DEF Up
<1>4. Appearing(p) \in Nat /\ InFile(p) \in Nat
  BY <1>1 DEF Appearing, InFile, Up
<1>5. ASSUME UNCHANGED <<calls, registry, editTo, editing, edits, polling, seen, previous, toLoad>>,
             \/ main' = main
             \/ main \notin {"starting", "loading"} /\ main' \notin {"starting", "loading"}
      PROVE  calls'[p] + Appearing(p)' + InFile(p)' <= edits' + 1
  <2>1. InFile(p)' = InFile(p)
    BY <1>5 DEF InFile
  <2>2. Appearing(p)' = Appearing(p)
    BY <1>5 DEF Appearing
  <2> QED
    BY <1>2, <1>5, <2>1, <2>2
<1>6. CASE ReadProjects
  BY <1>2, <1>6 DEF ReadProjects, fileVars, callVars, Appearing, InFile
<1>7. ASSUME NEW q \in Projects, Load(q)
      PROVE  calls'[p] + Appearing(p)' + InFile(p)' <= edits' + 1
  <2>1. /\ UNCHANGED <<registry, editTo, editing, edits>> /\ main = "loading" /\ main' = main
        /\ toLoad' = toLoad \ {q} /\ q \in toLoad
    BY <1>7 DEF Load, fileVars
  <2>2. InFile(p)' = InFile(p)
    BY <2>1 DEF InFile
  <2>3. Appearing(p) = Up(FALSE, p \in toLoad) /\ Appearing(p)' = Up(FALSE, p \in toLoad')
    BY <2>1 DEF Appearing
  <2>4. calls'[p] = calls[p] \/ (p = q /\ calls'[p] = calls[p] + 1)
    BY <1>1, <1>7 DEF Load, AddsBegin, DaemonTypeOK
  <2>5. CASE p = q
    <3>1. Appearing(p) = 1 /\ Appearing(p)' = 0
      BY <2>1, <2>3, <2>5 DEF Up
    <3> QED
      BY <1>1, <1>2, <1>4, <2>1, <2>2, <2>4, <3>1
  <2>6. CASE p # q
    <3>1. Appearing(p)' = Appearing(p)
      BY <2>1, <2>3, <2>6 DEF Up
    <3> QED
      BY <1>2, <2>1, <2>2, <2>4, <2>6, <3>1
  <2> QED
    BY <2>5, <2>6
<1>8. CASE StartWatching
  <2>1. /\ UNCHANGED <<registry, editTo, editing, edits, calls>> /\ main = "loading"
        /\ main' = "idle" /\ toLoad = {} /\ previous' = registry /\ ~polling /\ polling' = polling
    BY <1>8 DEF StartWatching, fileVars, callVars, IInv, Starting
  <2>2. Appearing(p) = 0 /\ Appearing(p)' = 0 /\ InFile(p)' = InFile(p)
    BY <2>1 DEF Appearing, Up, InFile
  <2> QED
    BY <1>2, <2>1, <2>2
<1>9. CASE PollReads
  <2>1. /\ UNCHANGED <<registry, editTo, editing, edits, calls, main, previous>> /\ ~polling
        /\ polling' = TRUE /\ seen' = registry /\ main \notin {"starting", "loading"}
    BY <1>9 DEF PollReads, fileVars, mainVars, callVars, IInv, Starting
  <2>2. Appearing(p)' = Appearing(p) /\ InFile(p)' = InFile(p)
    BY <2>1 DEF Appearing, Up, InFile
  <2> QED
    BY <1>2, <2>1, <2>2
<1>10. CASE PollReturns
  <2>1. /\ UNCHANGED <<registry, editTo, editing, edits, main>> /\ polling
        /\ polling' = FALSE /\ previous' = seen /\ main \notin {"starting", "loading"}
    BY <1>10 DEF PollReturns, PollEnds, RememberSeen, fileVars, mainVars, IInv, Starting
  <2>2. calls'[p] = calls[p] \/ (p \in seen /\ p \notin previous /\ calls'[p] = calls[p] + 1)
    BY <1>1, <1>10 DEF PollReturns, AddsBegin, DaemonTypeOK
  <2>3. /\ Appearing(p) = Up(p \in previous, p \in seen) + Up(p \in seen, p \in registry)
        /\ Appearing(p)' = Up(p \in seen, p \in registry)
    BY <2>1 DEF Appearing
  <2>4. /\ Up(p \in previous, p \in seen) \in Nat /\ Up(p \in seen, p \in registry) \in Nat
        /\ p \in seen /\ p \notin previous => Up(p \in previous, p \in seen) = 1
    BY DEF Up
  <2>5. InFile(p)' = InFile(p)
    BY <2>1 DEF InFile
  <2> QED
    BY <1>1, <1>2, <1>4, <2>1, <2>2, <2>3, <2>4, <2>5
<1>11. ASSUME NEW q \in Projects, EditBegins(q)
       PROVE  calls'[p] + Appearing(p)' + InFile(p)' <= edits' + 1
  <2>1. /\ UNCHANGED <<calls, main, toLoad, polling, seen, previous>> /\ ~editing
        /\ registry' = {} /\ edits' = edits + 1
    BY <1>11 DEF EditBegins, mainVars, watchVars, callVars
  <2>2. Appearing(p)' <= Appearing(p)
    BY <1>1, <2>1 DEF Appearing, Up
  <2>3. InFile(p) = 0 /\ InFile(p)' \in {0, 1} /\ Appearing(p)' \in Nat
    BY <2>1 DEF InFile, Up, Appearing
  <2> QED
    BY <1>1, <1>2, <1>4, <2>1, <2>2, <2>3
<1>12. CASE EditFills
  <2>1. /\ UNCHANGED <<calls, main, toLoad, polling, seen, previous, edits>> /\ editing
        /\ registry' = editTo /\ editing' = FALSE
    BY <1>12 DEF EditFills, mainVars, watchVars, callVars
  <2>2. Appearing(p)' <= Appearing(p) + InFile(p) /\ Appearing(p)' \in Nat
    BY <1>1, <2>1 DEF Appearing, Up, InFile
  <2>3. InFile(p)' = 0
    BY <2>1 DEF InFile
  <2> QED
    BY <1>1, <1>2, <1>4, <2>1, <2>2, <2>3
<1>13. CASE \/ CallReturns \/ ListWorkers \/ Exit \/ Abort \/ UNCHANGED vars
            \/ (\E q \in Projects : StopProject(q))
            \/ (\E w \in Workers : CallStep(w) \/ Tier3Step(w))
  BY <1>5, <1>13 DEF CallReturns, ListWorkers, Exit, Abort, StopProject, vars, CallStep, Tier3Step,
     AddEnsured, AddRegistered, RemoveTier3Stopped, RemoveDone, Tier3Configured, Tier3Fires,
     Tier3Ends, fileVars, mainVars, watchVars, callVars
<1> QED
  BY <1>6, <1>7, <1>8, <1>9, <1>10, <1>11, <1>12, <1>13 DEF Next, Poll, MainStep

\* There is a worker for every call that is made.
LEMMA RoomForCall ==
    ASSUME IInv, NEW p \in Projects, main \notin {"starting", "loading"}, polling,
           p \in seen, p \notin previous
    PROVE  <<p, calls[p] + 1>> \in Workers
<1>1. calls[p] + Appearing(p) + InFile(p) <= edits + 1
  BY DEF IInv, Counted, InFile
<1>2. calls[p] \in Nat /\ edits \in 0..MaxEdits
  BY DEF IInv, DaemonTypeOK
<1>3. Appearing(p) = 1 + Up(p \in seen, p \in registry) /\ Up(p \in seen, p \in registry) \in {0, 1}
  BY DEF Appearing, Up
<1>4. InFile(p) \in {0, 1}
  BY DEF InFile, Up
<1>5. calls[p] + 1 \in 1..MaxCalls
  BY <1>1, <1>2, <1>3, <1>4, MaxCallsType
<1> QED
  BY <1>5, WorkersAre

----------------------------------------------------------------------------
(* The start, the idle daemon and the shutdown.                            *)

LEMMA StartingKept == IInv /\ [Next]_vars => Starting'
<1> SUFFICES ASSUME IInv, [Next]_vars PROVE Starting'
  OBVIOUS
<1>1. DaemonTypeOK /\ Starting
  BY DEF IInv
<1>2. CASE main' \notin {"starting", "loading"}
  BY <1>2 DEF Starting
<1>3. CASE main' \in {"starting", "loading"}
  <2>0. /\ main \in {"starting", "loading"} /\ ~watching /\ ~polling
        /\ \A w \in Workers : rem[w] = "none" /\ (Adding(w) => w \in awaited)
    <3>1. main \in {"starting", "loading"}
      BY <1>3 DEF Next, vars, Poll, PollReads, PollReturns, MainStep, ReadProjects, CallReturns,
         StartWatching, ListWorkers, Exit, Load, StopProject, Abort, CallStep, AddEnsured,
         AddRegistered, RemoveTier3Stopped, RemoveDone, Tier3Step, Tier3Configured, Tier3Fires,
         Tier3Ends, EditBegins, EditFills, mainVars
    <3> QED
      BY <1>1, <3>1 DEF Starting
  <2>1. CASE ReadProjects
    BY <1>1, <2>0, <2>1 DEF ReadProjects, watchVars, callVars, Starting, Adding, DaemonTypeOK
  <2>2. ASSUME NEW p \in Projects, Load(p) PROVE Starting'
    <3>1. /\ main = "loading" /\ main' = main /\ awaited = {} /\ toLoad' = toLoad \ {p}
          /\ awaited' = {<<p, calls[p] + 1>>} /\ UNCHANGED <<watching, polling, rem>>
      BY <2>2 DEF Load, watchVars
    <3>2. \A q \in toLoad' : calls'[q] = 0
      BY <1>1, <2>2, <3>1 DEF Load, AddsBegin, Starting, DaemonTypeOK
    <3>3. \A w \in Workers : Adding(w)' => w \in awaited'
      <4> SUFFICES ASSUME NEW w \in Workers, Adding(w)' PROVE w \in awaited'
        OBVIOUS
      <4>1. ~Adding(w)
        BY <2>0, <3>1
      <4>2. w[1] \in {p} /\ w[2] = calls[w[1]] + 1
        BY <2>2, <4>1 DEF Load, AddsBegin, Adding
      <4> QED
        BY <3>1, <4>2, WorkersAre
    <3> QED
      BY <2>0, <3>1, <3>2, <3>3 DEF Starting
  <2>3. CASE CallReturns
    BY <1>1, <2>0, <2>3 DEF CallReturns, watchVars, callVars, Starting, Adding
  <2>4. ASSUME NEW w \in Workers, CallStep(w) PROVE Starting'
    <3>1. UNCHANGED <<calls, mainVars, watchVars>> /\ \A u \in Workers : rem'[u] = rem[u]
      BY <1>1, <2>0, <2>4 DEF CallStep, AddEnsured, AddRegistered, RemoveTier3Stopped, RemoveDone,
         DaemonTypeOK
    <3>2. \A u \in Workers : Adding(u)' => Adding(u)
      BY <1>1, <2>4 DEF CallStep, AddEnsured, AddRegistered, RemoveTier3Stopped, RemoveDone, Adding,
         DaemonTypeOK
    <3> QED
      BY <1>1, <2>0, <3>1, <3>2 DEF Starting, mainVars, watchVars
  <2>5. CASE UNCHANGED <<callVars, mainVars, watchVars>>
    BY <1>1, <2>5 DEF callVars, mainVars, watchVars, Starting, Adding
  <2> QED
    BY <1>3, <2>0, <2>1, <2>2, <2>3, <2>4, <2>5 DEF Next, vars, Poll, PollReads, PollReturns, MainStep,
       StartWatching, ListWorkers, Exit, StopProject, Abort, Tier3Step, Tier3Configured, Tier3Fires,
       Tier3Ends, EditBegins, EditFills
<1> QED
  BY <1>2, <1>3

LEMMA IdleKept == IInv /\ [Next]_vars => Idle'
<1> SUFFICES ASSUME IInv, [Next]_vars, main' = "idle", NEW p \in Projects, p \notin raced'
             PROVE  p \in previous' <=> active'[p] # 0 \/ Ensuring(p)'
  BY DEF Idle
<1>1. DaemonTypeOK /\ Lived /\ Starting /\ p \notin raced
  BY StepKinds DEF IInv
<1>2. main = "idle" => (p \in previous <=> active[p] # 0 \/ Ensuring(p))
  BY <1>1 DEF IInv, Idle
<1>3. CASE StartWatching
  <2>1. /\ main = "loading" /\ awaited = {} /\ previous' = registry /\ UNCHANGED <<active, add>>
        /\ p \in registry <=> active[p] # 0
    BY <1>3 DEF StartWatching, callVars
  <2>2. ~Ensuring(p)
    BY <1>1, <2>1 DEF Starting, Adding, Ensuring
  <2> QED
    BY <2>1, <2>2 DEF Ensuring
<1>4. CASE PollReturns
  <2>1. main = "idle" /\ polling /\ previous' = seen
    BY <1>4 DEF PollReturns, RememberSeen, mainVars
  <2>2. seen \ previous \in SUBSET Projects /\ previous \ seen \in SUBSET Projects
    BY <1>1 DEF DaemonTypeOK
  <2>3. AddsEffect(seen \ previous) /\ RemovesEffect(previous \ seen)
    BY <1>1, <1>4, <2>2, AddsBegun, RemovesBegun DEF PollReturns
  <2>4. (p \in seen) # (p \in previous) => ~InProgress(p)
    BY <1>4 DEF PollReturns
  <2>5. CASE p \in seen /\ p \notin previous
    <3>1. active[p] = 0 /\ <<p, calls[p] + 1>> \in Workers
      BY <1>2, <2>1, <2>5, RoomForCall
    <3>2. Comes(seen \ previous, <<p, calls[p] + 1>>)
      BY <2>5, <3>1 DEF Comes
    <3>3. Ensuring(p)'
      BY <2>3, <3>1, <3>2 DEF AddsEffect, Ensuring
    <3> QED
      BY <2>1, <2>5, <3>3
  <2>6. CASE p \in previous /\ p \notin seen
    <3>1. \A w \in Workers : w[1] = p => add'[w] = add[w] /\ ~Adding(w)
      BY <2>3, <2>4, <2>6 DEF AddsEffect, Comes, InProgress
    <3>2. active'[p] = 0
      BY <2>3, <2>6 DEF RemovesEffect
    <3> QED
      BY <2>1, <2>6, <3>1, <3>2 DEF Ensuring, Adding
  <2>7. CASE (p \in seen) = (p \in previous)
    <3>1. \A w \in Workers : w[1] = p => add'[w] = add[w]
      BY <2>3, <2>7 DEF AddsEffect, Comes
    <3>2. active'[p] = active[p]
      BY <2>3, <2>7 DEF RemovesEffect
    <3> QED
      BY <1>2, <2>1, <2>7, <3>1, <3>2 DEF Ensuring
  <2> QED
    BY <2>5, <2>6, <2>7
<1>5. ASSUME NEW v \in Workers, AddEnsured(v)
      PROVE  p \in previous' <=> active'[p] # 0 \/ Ensuring(p)'
  <2>1. v[1] \in Projects /\ v[2] # 0
    BY WorkersAre, MaxCallsType
  <2>2. /\ main = "idle" /\ previous' = previous /\ add[v] = "ensuring"
        /\ \A u \in Workers : add'[u] = IF u = v THEN "registering" ELSE add[u]
        /\ active'[p] = IF p = v[1] THEN v[2] ELSE active[p]
    BY <1>1, <1>5, <2>1 DEF AddEnsured, mainVars, watchVars, DaemonTypeOK
  <2>3. CASE v[1] = p
    BY <1>2, <2>1, <2>2, <2>3 DEF Ensuring
  <2>4. CASE v[1] # p
    <3>1. Ensuring(p)' <=> Ensuring(p)
      BY <2>2, <2>4 DEF Ensuring
    <3> QED
      BY <1>2, <2>2, <2>4, <3>1
  <2> QED
    BY <2>3, <2>4
<1>6. ASSUME NEW v \in Workers, AddRegistered(v)
      PROVE  p \in previous' <=> active'[p] # 0 \/ Ensuring(p)'
  <2>1. /\ main = "idle" /\ UNCHANGED <<previous, active>> /\ add[v] = "registering"
        /\ \A u \in Workers : add'[u] = IF u = v THEN "done" ELSE add[u]
    BY <1>1, <1>6 DEF AddRegistered, mainVars, watchVars, DaemonTypeOK
  <2>2. Ensuring(p)' <=> Ensuring(p)
    BY <2>1 DEF Ensuring
  <2> QED
    BY <1>2, <2>1, <2>2
<1>7. CASE main = "idle" /\ UNCHANGED <<previous, active, add>>
  BY <1>2, <1>7 DEF Ensuring
<1> QED
  BY <1>3, <1>4, <1>5, <1>6, <1>7 DEF Next, vars, Poll, PollReads, MainStep, ReadProjects,
     CallReturns, ListWorkers, Exit, Load, StopProject, Abort, CallStep, RemoveTier3Stopped,
     RemoveDone, Tier3Step, Tier3Configured, Tier3Fires, Tier3Ends, EditBegins, EditFills,
     mainVars, watchVars, callVars

LEMMA ClosingKept == IInv /\ [Next]_vars => Closing'
<1> SUFFICES ASSUME IInv, [Next]_vars PROVE Closing'
  OBVIOUS
<1>1. DaemonTypeOK /\ Lived /\ Closing
  BY DEF IInv
<1>2. main' \in {"closing", "stopping", "exited"} => ~watching'
  BY <1>1 DEF Closing, StopWatching, Next, vars, Poll, PollReads, PollReturns, MainStep, ReadProjects,
     CallReturns, StartWatching, ListWorkers, Exit, Load, StopProject, Abort, CallStep, AddEnsured,
     AddRegistered, RemoveTier3Stopped, RemoveDone, Tier3Step, Tier3Configured, Tier3Fires,
     Tier3Ends, EditBegins, EditFills, mainVars, watchVars
<1>3. main' = "exited" => toStop' = {} /\ awaited' = {}
  BY <1>1 DEF Closing, Next, vars, Poll, PollReads, PollReturns, MainStep, ReadProjects, CallReturns,
     StartWatching, ListWorkers, Exit, Load, StopProject, Abort, CallStep, AddEnsured,
     AddRegistered, RemoveTier3Stopped, RemoveDone, Tier3Step, Tier3Configured, Tier3Fires,
     Tier3Ends, EditBegins, EditFills, mainVars
<1>4. ASSUME NEW p \in Projects, p \notin raced', main' \in {"stopping", "exited"}
      PROVE  Closed(p)'
  <2>1. p \notin raced
    BY <1>4, StepKinds
  <2>2. main \in {"stopping", "exited"} => Closed(p)
    BY <1>1, <2>1 DEF Closing
  <2>3. CASE ListWorkers
    <3>1. /\ toStop' = {q \in Projects : active[q] # 0} /\ ~InProgress(p)
          /\ ~(polling /\ (p \in seen) # (p \in previous))
          /\ UNCHANGED <<active, add, rem, polling, seen, previous>>
      BY <1>4, <2>3 DEF ListWorkers, callVars, watchVars
    <3> QED
      BY <3>1 DEF Closed, InProgress, Adding, Removing
  <2>4. ASSUME NEW q \in Projects, StopProject(q) PROVE Closed(p)'
    <3>1. /\ main = "stopping" /\ q \in toStop /\ awaited = {} /\ toStop' = toStop \ {q}
          /\ awaited' = IF active[q] = 0 THEN {} ELSE {Current(q)}
          /\ UNCHANGED <<add, polling, seen, previous>>
      BY <2>4 DEF StopProject, watchVars
    <3>2. {q} \in SUBSET Projects
      OBVIOUS
    <3>3. RemovesEffect({q})
      BY <1>1, <2>4, <3>2, RemovesBegun DEF StopProject
    <3>4. \A w \in Workers : w[1] = p => ~Adding(w)' /\ ~Removing(w)
      BY <2>2, <3>1 DEF Closed, Adding
    <3>5. active'[p] # 0 => p # q /\ p \in toStop
      BY <2>2, <3>1, <3>3 DEF RemovesEffect, Closed
    <3>6. \A w \in Workers : w[1] = p /\ Removing(w)' => p = q /\ w[2] = active[q]
      BY <3>3, <3>4 DEF RemovesEffect, Goes, Removing
    <3>7. \A w \in Workers : w[1] = q /\ w[2] = active[q] => w \in awaited'
      BY <3>1, WorkersAre, MaxCallsType DEF Current
    <3> QED
      BY <2>2, <3>1, <3>4, <3>5, <3>6, <3>7 DEF Closed
  <2>5. CASE main \in {"stopping", "exited"} /\ PollReturns
    <3>1. /\ polling /\ polling' = FALSE /\ UNCHANGED <<toStop, awaited>>
      BY <2>5 DEF PollReturns, PollEnds, mainVars
    <3>2. seen \ previous \in SUBSET Projects /\ previous \ seen \in SUBSET Projects
      BY <1>1 DEF DaemonTypeOK
    <3>3. AddsEffect(seen \ previous) /\ RemovesEffect(previous \ seen)
      BY <1>1, <2>5, <3>2, AddsBegun, RemovesBegun DEF PollReturns
    <3>4. p \in seen <=> p \in previous
      BY <2>2, <2>5, <3>1 DEF Closed
    <3>5. \A w \in Workers : w[1] = p => add'[w] = add[w] /\ rem'[w] = rem[w]
      BY <3>3, <3>4 DEF AddsEffect, RemovesEffect, Comes, Goes
    <3>6. active'[p] = active[p]
      BY <3>3, <3>4 DEF RemovesEffect
    <3> QED
      BY <2>2, <2>5, <3>1, <3>5, <3>6 DEF Closed, Adding, Removing
  <2>6. CASE main \in {"stopping", "exited"} /\ CallReturns
    <3>1. awaited' = {} /\ (\A w \in awaited : ~Removing(w)) /\ UNCHANGED <<toStop, watchVars, callVars>>
      BY <2>6 DEF CallReturns
    <3> QED
      BY <2>2, <2>6, <3>1 DEF Closed, Adding, Removing, watchVars, callVars
  <2>7. ASSUME NEW v \in Workers, CallStep(v) PROVE Closed(p)'
    <3>1. main' = main /\ UNCHANGED <<toStop, awaited, polling, seen, previous>>
      BY <2>7 DEF CallStep, AddEnsured, AddRegistered, RemoveTier3Stopped, RemoveDone, mainVars,
         watchVars
    <3>2. Closed(p)
      BY <1>4, <2>2, <3>1
    <3>3. CASE AddEnsured(v)
      <4>1. v[1] # p
        BY <3>2, <3>3 DEF AddEnsured, Closed, Adding
      <4>2. \A w \in Workers : w[1] = p => add'[w] = add[w] /\ rem'[w] = rem[w]
        BY <1>1, <3>3, <4>1 DEF AddEnsured, DaemonTypeOK
      <4>3. active'[p] = active[p]
        BY <1>1, <3>3, <4>1 DEF AddEnsured, DaemonTypeOK
      <4> QED
        BY <3>1, <3>2, <4>2, <4>3 DEF Closed, Adding, Removing
    <3>4. CASE AddRegistered(v) \/ RemoveTier3Stopped(v) \/ RemoveDone(v)
      <4>1. active' = active
        BY <3>4 DEF AddRegistered, RemoveTier3Stopped, RemoveDone
      <4>2. \A w \in Workers : Adding(w)' => Adding(w)
        BY <1>1, <3>4 DEF AddRegistered, RemoveTier3Stopped, RemoveDone, Adding, DaemonTypeOK
      <4>3. \A w \in Workers : Removing(w)' => Removing(w)
        BY <1>1, <3>4 DEF AddRegistered, RemoveTier3Stopped, RemoveDone, Removing, DaemonTypeOK
      <4> QED
        BY <3>1, <3>2, <4>1, <4>2, <4>3 DEF Closed
    <3> QED
      BY <2>7, <3>3, <3>4 DEF CallStep
  <2>8. CASE /\ main \in {"stopping", "exited"} /\ UNCHANGED <<toStop, awaited, callVars>>
             /\ UNCHANGED watchVars
    BY <2>2, <2>8 DEF watchVars, callVars, Closed, Adding, Removing
  <2>9. CASE main \in {"stopping", "exited"} /\ PollReads
    BY <1>1, <2>9 DEF PollReads, Closing
  <2>10. CASE \/ Exit \/ EditFills \/ (\E q \in Projects : EditBegins(q)) \/ UNCHANGED vars
              \/ (\E w \in Workers : Tier3Step(w))
    <3>1. main' = main \/ Exit
      BY <2>10 DEF EditFills, EditBegins, Tier3Step, Tier3Configured, Tier3Fires, Tier3Ends, vars,
         mainVars
    <3>2. main \in {"stopping", "exited"}
      BY <1>4, <3>1 DEF Exit
    <3>3. UNCHANGED <<toStop, awaited, callVars>> /\ UNCHANGED watchVars
      BY <2>10 DEF Exit, EditFills, EditBegins, Tier3Step, Tier3Configured, Tier3Fires, Tier3Ends,
         vars, mainVars
    <3> QED
      BY <2>8, <3>2, <3>3
  <2>11. ~ReadProjects /\ ~StartWatching /\ ~Abort /\ ~\E q \in Projects : Load(q)
    BY <1>4 DEF ReadProjects, StartWatching, Abort, Load
  <2>12. CASE Poll \/ CallReturns
    BY <1>4, <2>5, <2>6, <2>9, <2>12 DEF Poll, PollReads, PollReturns, CallReturns, mainVars
  <2> QED
    BY <2>3, <2>4, <2>7, <2>10, <2>11, <2>12 DEF Next, MainStep
<1> QED
  BY <1>2, <1>3, <1>4 DEF Closing

----------------------------------------------------------------------------
(* The invariant, and the theorems.                                        *)

LEMMA Invariant == Spec => []IInv
<1>1. IInv /\ [Next]_vars => IInv'
  BY TypesKept, CountedKept, LivedKept, StopsKept, SingleKept, StartingKept, IdleKept, ClosingKept
     DEF IInv
<1> QED
  BY <1>1, InitInv, PTL DEF Spec

(* addProject and removeProject, one at a time: an idle daemon schedules   *)
(* for the projects of the file it last read, with one worker each.        *)
THEOREM WorkersMatchFile == Spec => []WorkersMatch
<1>1. IInv => WorkersMatch
  <2> SUFFICES ASSUME IInv, main = "idle", NEW p \in Projects, p \notin raced, ~InProgress(p)
               PROVE  /\ active[p] # 0 <=> p \in previous
                      /\ \A w \in scheduling : w[1] = p => w = Current(p)
                      /\ active[p] # 0 => Current(p) \in scheduling
    BY DEF WorkersMatch, Settled
  <2>1. Single(p) /\ (p \in previous <=> active[p] # 0 \/ Ensuring(p))
    BY DEF IInv, Singles, Idle
  <2>2. \A w \in Workers : w[1] = p => ~Adding(w) /\ ~Removing(w)
    BY DEF InProgress
  <2>3. active[p] # 0 <=> p \in previous
    BY <2>1, <2>2 DEF Ensuring, Adding
  <2>4. \A w \in scheduling : w[1] = p => w = Current(p)
    BY <2>1, <2>2, WorkersAre DEF Single, Removing, Current, IInv, DaemonTypeOK
  <2>5. ASSUME active[p] # 0 PROVE Current(p) \in scheduling
    <3>1. Current(p) \in Workers /\ Current(p)[1] = p /\ Current(p)[2] = active[p]
      BY <2>5, WorkersAre, MaxCallsType DEF Current, IInv, DaemonTypeOK
    <3> QED
      BY <2>1, <2>2, <3>1 DEF Single, Adding
  <2> QED
    BY <2>3, <2>4, <2>5
<1> QED
  BY <1>1, Invariant, PTL

(* The shutdown of runKairosWorker: a scheduler that still runs belongs to *)
(* a project about which calls overlapped, or were made, behind its back.  *)
THEOREM ShutdownStopsAll == Spec => []ShutdownComplete
<1>1. IInv => ShutdownComplete
  <2> SUFFICES ASSUME IInv, main = "exited", NEW w \in scheduling, w[1] \notin raced
               PROVE  FALSE
    BY DEF ShutdownComplete
  <2>1. w \in Workers /\ w[1] \in Projects /\ w[2] # 0
    BY WorkersAre, MaxCallsType DEF IInv, DaemonTypeOK
  <2>2. Single(w[1]) /\ Closed(w[1]) /\ toStop = {} /\ awaited = {}
    BY <2>1 DEF IInv, Singles, Closing
  <2> QED
    BY <2>1, <2>2 DEF Single, Closed, Removing
<1> QED
  BY <1>1, Invariant, PTL

(* stop() of the Tier 3 controller: after removeProject nothing of it runs *)
(* or will run, unless it was reading its configuration.                   *)
THEOREM StoppedReflectsNoMore == Spec => []NoReflectionAfterStop
<1>1. IInv => NoReflectionAfterStop
  BY DEF IInv, Stops, NoReflectionAfterStop
<1> QED
  BY <1>1, Invariant, PTL
=============================================================================
