-------------------- MODULE StreamingToolExecutorProofs --------------------
(***************************************************************************)
(* Proofs about StreamingToolExecutor, for any number of calls and of      *)
(* fallbacks, and any kinds of calls: that an unsafe call works alone,     *)
(* that calls start in order, that every call is answered, and that a      *)
(* discarded executor is silent.                                           *)
(***************************************************************************)
EXTENDS StreamingToolExecutor, TLAPS

USE ExecutorAssumption

ExecTypeOK ==
    /\ calls \in 0..MaxCalls /\ attempt \in Nat
    /\ exec \in [Calls -> Nat] /\ kind \in [Calls -> Kinds]
    /\ status \in [Calls -> Statuses] /\ work \in [Calls -> Works]
    /\ answers \in [Calls -> Nat] /\ progress \in [Calls -> BOOLEAN]
    /\ hasErrored \in BOOLEAN /\ loops \subseteq Calls
    /\ main \in Mains /\ mainLoop \in 0..MaxCalls /\ pos \in Nat
    /\ delivered \in [Calls -> Nat]

\* What a tool does goes with the status of its call; what was broken off
\* cannot start again.
WorkFits(st) ==
    \A t \in Calls :
        /\ st[t] \in {"none", "skipped", "queued"} => work[t] = "none"
        /\ st[t] = "executing" => work[t] # "none"
        /\ st[t] \in {"completed", "yielded"} =>
              work[t] = "none" \/ (work[t] = "working" /\ AbortReason(exec[t]))
        /\ st[t] = "queued" => kind[t] # "unknown"

\* A queued call is overtaken by none.
Orderly(st) ==
    \A t, u \in Calls :
        t < u /\ exec[t] = exec[u] /\ kind[u] # "unknown" /\ st[t] = "queued"
            => st[u] \in {"none", "skipped", "queued"}

\* The answers of a call of the executor in use, those yielded and the others.
Twice == hasErrored \/ abort = "user"
Account(st, t) ==
    /\ st[t] \in {"none", "skipped", "queued", "executing", "completed"} => delivered[t] = 0
    /\ st[t] \in {"none", "queued", "yielded"} => answers[t] = 0
    /\ st[t] = "skipped" => abort # "none"
    /\ st[t] = "executing" => answers[t] = IF work[t] = "working" THEN 0 ELSE 1
    /\ st[t] = "completed" => answers[t] = 1 \/ (answers[t] = 2 /\ Twice)
    /\ st[t] = "yielded" => delivered[t] = 1 \/ (delivered[t] = 2 /\ Twice)
Accounted(st) ==
    main # "failed" => \A t \in Calls : exec[t] = attempt => Account(st, t)

\* Calls arrive one after the other.
Arrived(st) ==
    \A t \in Calls :
        /\ exec[t] <= attempt
        /\ t > calls => st[t] = "none" /\ answers[t] = 0 /\ delivered[t] = 0
        /\ t <= calls /\ st[t] = "none" => t = calls /\ main = "showing"

CallsGood(st) == WorkFits(st) /\ Orderly(st) /\ Accounted(st) /\ WorksAlone

\* A processQueue that has come to call x leaves no queued call behind it.
Passed(st, x) ==
    /\ st[x] \notin {"none", "queued"}
    /\ \A v \in Calls : v <= x /\ exec[v] = exec[x] => st[v] # "queued"

LoopsGood ==
    /\ \A x \in loops : Passed(status, x)
    /\ main = "processing" /\ mainLoop # 0 =>
          exec[mainLoop] = attempt /\ Passed(status, mainLoop)

Places ==
    /\ main = "showing" => calls # 0 /\ exec[calls] = attempt /\ status[calls] = "none"
    /\ main = "done" => \A t \in Calls : exec[t] = attempt =>
          status[t] \notin {"queued", "executing", "completed"}

IInv == ExecTypeOK /\ CallsGood(status) /\ Arrived(status) /\ LoopsGood /\ Places

LEMMA InitInv == Init => IInv
<1> SUFFICES ASSUME Init PROVE IInv
  OBVIOUS
<1>1. ExecTypeOK
  <2>1. 0 \in 0..MaxCalls
    OBVIOUS
  <2> QED
    BY <2>1 DEF Init, ExecTypeOK, Kinds, Statuses, Works, Mains
<1>2. CallsGood(status)
  BY DEF Init, CallsGood, WorkFits, Orderly, Accounted, Account, WorksAlone
<1>3. Arrived(status) /\ LoopsGood /\ Places
  BY DEF Init, Arrived, LoopsGood, Places, Calls
<1> QED
  BY <1>1, <1>2, <1>3 DEF IInv

----------------------------------------------------------------------------
(* processQueue.                                                           *)

\* What starts is behind no queued call.
LEMMA StartsFirst ==
    ASSUME NEW st, NEW e, NEW p \in Nat, NEW u \in Startable(st, e, p),
           NEW v \in Calls, exec[v] = e, st[v] = "queued", p <= v
    PROVE  ~(v < u)
<1> SUFFICES ASSUME v < u PROVE FALSE
  OBVIOUS
<1>1. u \in Calls /\ exec[u] = e /\ CanExecute(st, u)
  BY DEF Startable, With
<1>2. kind[v] = "safe" /\ ~CanExecute(st, v)
  BY DEF Startable, With
<1>3. PICK x \in With(st, e, "executing") : kind[x] # "safe"
  BY <1>2 DEF CanExecute
<1> QED
  BY <1>1, <1>3 DEF CanExecute

LEMMA NextOrNone ==
    ASSUME NEW st, NEW e, NEW p \in Nat, NEW u \in NextCall(st, e, p)
    PROVE  \/ u = 0
           \/ /\ u \in Startable(st, e, p) /\ u \in Calls /\ u # 0 /\ p <= u
              /\ exec[u] = e /\ st[u] = "queued" /\ CanExecute(st, u)
BY DEF NextCall, Startable, With, Calls

\* The state after the start of a call, or of none.
LEMMA Started ==
    ASSUME ExecTypeOK, NEW st \in [Calls -> Statuses], CallsGood(st), NEW e, NEW p \in Nat,
           \A v \in Calls : v < p /\ exec[v] = e => st[v] # "queued",
           NEW u \in NextCall(st, e, p), ExecuteTool(st, u), main # "failed",
           UNCHANGED <<attempt, exec, kind, hasErrored, abort, delivered>>
    PROVE  /\ status' \in [Calls -> Statuses] /\ work' \in [Calls -> Works]
           /\ answers' \in [Calls -> Nat]
           /\ CallsGood(status)'
           /\ \A t \in Calls : status'[t] = "none" <=> st[t] = "none"
           /\ \A t \in Calls : status'[t] = "queued" => st[t] = "queued"
           /\ \A t \in Calls : status'[t] = "none" => answers'[t] = answers[t]
           /\ u # 0 => u \in Calls /\ exec[u] = e /\ Passed(status, u)'
<1> DEFINE refused == u # 0 /\ AbortReason(exec[u])
<1>1. \/ u = 0
      \/ /\ u \in Calls /\ u # 0 /\ exec[u] = e /\ st[u] = "queued" /\ CanExecute(st, u)
         /\ \A v \in Calls : v < u /\ exec[v] = e => st[v] # "queued"
  <2>1. \A v \in Calls : v \in Nat /\ (v < p \/ p <= v)
    BY DEF Calls
  <2> QED
    BY <2>1, NextOrNone, StartsFirst
<1>2. /\ status' \in [Calls -> Statuses]
      /\ \A t \in Calls : status'[t] = IF t # u THEN st[t]
                                       ELSE IF refused THEN "completed" ELSE "executing"
  BY DEF ExecuteTool, Statuses
<1>3. /\ work' \in [Calls -> Works]
      /\ \A t \in Calls : work'[t] = IF t = u /\ ~refused THEN "working" ELSE work[t]
  BY <1>1 DEF ExecuteTool, ExecTypeOK, Works, Calls
<1>4. /\ answers' \in [Calls -> Nat]
      /\ \A t \in Calls : answers'[t] = IF t = u /\ refused THEN 1 ELSE answers[t]
  BY <1>1 DEF ExecuteTool, ExecTypeOK, Calls
<1>5. \A t \in Calls : AbortReason(exec[t])' <=> AbortReason(exec[t])
  BY DEF AbortReason
<1>6. WorkFits(status)'
  BY <1>1, <1>2, <1>3, <1>5 DEF CallsGood, WorkFits
<1>7. Orderly(status)'
  <2> SUFFICES ASSUME NEW t \in Calls, NEW k \in Calls, t < k, exec[t] = exec[k],
                      kind[k] # "unknown", status'[t] = "queued"
               PROVE  status'[k] \in {"none", "skipped", "queued"}
    BY DEF Orderly
  <2>1. st[t] = "queued" /\ st[k] \in {"none", "skipped", "queued"}
    BY <1>2 DEF CallsGood, Orderly
  <2>2. k # u
    BY <1>1, <2>1 DEF Calls
  <2> QED
    BY <1>2, <2>1, <2>2
<1>8. Accounted(status)'
  <2>1. u # 0 /\ exec[u] = attempt => answers[u] = 0 /\ delivered[u] = 0 /\ work[u] = "none"
    BY <1>1 DEF CallsGood, Accounted, Account, WorkFits
  <2>2. refused /\ exec[u] = attempt => Twice
    BY <1>1 DEF AbortReason, Twice, ExecTypeOK
  <2> SUFFICES ASSUME NEW t \in Calls, exec[t] = attempt
               PROVE  Account(status, t)'
    BY DEF Accounted
  <2>3. Account(st, t)
    BY DEF CallsGood, Accounted
  <2>4. Twice' = Twice /\ delivered' = delivered /\ abort' = abort
    BY DEF Twice
  <2>5. CASE t # u
    BY <1>2, <1>3, <1>4, <2>3, <2>4, <2>5 DEF Account
  <2>6. CASE t = u
    BY <1>1, <1>2, <1>3, <1>4, <2>1, <2>2, <2>4, <2>6 DEF Account, Calls
  <2> QED
    BY <2>5, <2>6
<1>9. WorksAlone'
  <2>1. ASSUME NEW t \in Calls, u # 0, ~refused, t # u, exec[t] = exec[u], work[t] = "working"
        PROVE  kind[t] # "unsafe" /\ kind[u] # "unsafe"
    <3>1. st[t] = "executing"
      BY <1>1, <2>1 DEF CallsGood, WorkFits, Statuses
    <3> QED
      BY <1>1, <2>1, <3>1 DEF CanExecute, With
  <2>2. \A t, k \in Calls :
           /\ work[t] = "working" /\ kind[t] = "unsafe" /\ k # t /\ exec[k] = exec[t]
           => work[k] # "working"
    BY DEF CallsGood, WorksAlone
  <2> SUFFICES ASSUME NEW t \in Calls, NEW k \in Calls, work'[t] = "working",
                      kind[t] = "unsafe", k # t, exec[k] = exec[t], work'[k] = "working"
               PROVE  FALSE
    BY DEF WorksAlone
  <2>3. CASE t = u /\ ~refused
    BY <1>1, <1>3, <2>1, <2>3 DEF Calls
  <2>4. CASE k = u /\ ~refused
    BY <1>1, <1>3, <2>1, <2>4 DEF Calls
  <2> QED
    BY <1>3, <2>2, <2>3, <2>4
<1>10. u # 0 => u \in Calls /\ exec[u] = e /\ Passed(status, u)'
  BY <1>1, <1>2 DEF Passed, Calls
<1>11. CallsGood(status)'
  BY <1>6, <1>7, <1>8, <1>9 DEF CallsGood
<1>12. /\ \A t \in Calls : status'[t] = "none" <=> st[t] = "none"
       /\ \A t \in Calls : status'[t] = "queued" => st[t] = "queued"
       /\ \A t \in Calls : status'[t] = "none" => answers'[t] = answers[t]
  BY <1>1, <1>2, <1>4 DEF Calls
<1> HIDE DEF refused
<1> QED
  BY <1>2, <1>3, <1>4, <1>10, <1>11, <1>12

\* A loop that had passed a call still has.
LEMMA PassedKept ==
    ASSUME NEW x, Passed(status, x), x \in Calls, UNCHANGED exec,
           \A t \in Calls : status'[t] = "none" <=> status[t] = "none",
           \A t \in Calls : status'[t] = "queued" => status[t] = "queued"
    PROVE  Passed(status, x)'
BY DEF Passed

----------------------------------------------------------------------------
(* The steps.                                                              *)

LEMMA LoopsInv ==
    ASSUME IInv, NEW t \in Calls, LoopGoesOn(t) \/ Finally(t), main \notin {"done", "failed"}
    PROVE  IInv'
<1> USE DEF IInv
<1>0. PICK p \in Nat :
          /\ \A v \in Calls : v < p /\ exec[v] = exec[t] => status[v] # "queued"
          /\ \E u \in NextCall(status, exec[t], p) :
                ExecuteTool(status, u) /\ loops' \subseteq loops \cup ({u} \ {0})
  <2>1. CASE LoopGoesOn(t)
    <3>1. Passed(status, t) /\ t + 1 \in Nat /\ \A v \in Calls : v < t + 1 => v <= t
      BY <2>1 DEF LoopGoesOn, LoopsGood, Calls
    <3> QED
      BY <2>1, <3>1 DEF LoopGoesOn, Passed
  <2>2. CASE Finally(t)
    <3>1. 1 \in Nat /\ \A v \in Calls : ~(v < 1)
      BY DEF Calls
    <3> QED
      BY <2>2, <3>1 DEF Finally
  <2> QED
    BY <2>1, <2>2
<1>1. PICK u \in NextCall(status, exec[t], p) :
          ExecuteTool(status, u) /\ loops' \subseteq loops \cup ({u} \ {0})
  BY <1>0
<1>2. UNCHANGED <<calls, attempt, exec, kind, progress, hasErrored, abort, main, mainLoop,
                  pos, delivered>>
  BY DEF LoopGoesOn, Finally
<1>3. /\ status' \in [Calls -> Statuses] /\ work' \in [Calls -> Works]
      /\ answers' \in [Calls -> Nat]
      /\ CallsGood(status)'
      /\ \A v \in Calls : status'[v] = "none" <=> status[v] = "none"
      /\ \A v \in Calls : status'[v] = "queued" => status[v] = "queued"
      /\ \A v \in Calls : status'[v] = "none" => answers'[v] = answers[v]
      /\ u # 0 => u \in Calls /\ exec[u] = exec[t] /\ Passed(status, u)'
  BY <1>0, <1>1, <1>2, Started DEF ExecTypeOK
<1>4. ExecTypeOK'
  BY <1>1, <1>2, <1>3 DEF ExecTypeOK
<1>5. Arrived(status)'
  BY <1>2, <1>3 DEF Arrived
<1>6. \A x \in Calls : Passed(status, x) => Passed(status, x)'
  BY <1>2, <1>3, PassedKept
<1>7. LoopsGood'
  <2>1. \A x \in loops' : Passed(status, x)'
    BY <1>1, <1>3, <1>6 DEF LoopsGood, ExecTypeOK
  <2>2. main = "processing" /\ mainLoop # 0 =>
            mainLoop \in Calls /\ exec[mainLoop] = attempt /\ Passed(status, mainLoop)
    BY DEF LoopsGood, ExecTypeOK, Calls
  <2> QED
    BY <1>2, <1>6, <2>1, <2>2 DEF LoopsGood
<1>8. Places'
  BY <1>2, <1>3 DEF Places, ExecTypeOK, Calls
<1> QED
  BY <1>3, <1>4, <1>5, <1>7, <1>8

LEMMA MainLoopInv ==
    ASSUME IInv, LoopBegins \/ MainLoopGoesOn
    PROVE  IInv'
<1> USE DEF IInv
<1>1. CASE main' = "done"
  <2>1. /\ main = "looping" /\ UNCHANGED <<calls, attempt, exec, kind, status, work, answers,
             progress, hasErrored, abort, loops, mainLoop, pos, delivered>>
        /\ \A t \in Calls : exec[t] = attempt =>
              status[t] \notin {"queued", "executing", "completed"}
    BY <1>1 DEF LoopBegins, MainLoopGoesOn
  <2>2. ExecTypeOK'
    BY <1>1, <2>1 DEF ExecTypeOK, Mains
  <2>3. CallsGood(status)'
    BY <1>1, <2>1 DEF CallsGood, WorkFits, AbortReason, Orderly, Accounted, Account, Twice,
       WorksAlone
  <2>4. Arrived(status)' /\ LoopsGood' /\ Places'
    BY <1>1, <2>1 DEF Arrived, LoopsGood, Passed, Places
  <2> QED
    BY <2>2, <2>3, <2>4
<1>2. CASE main' # "done"
  <2>0. PICK p \in Nat :
            /\ \A v \in Calls : v < p /\ exec[v] = attempt => status[v] # "queued"
            /\ \E u \in NextCall(status, attempt, p) :
                  ExecuteTool(status, u) /\ mainLoop' = u
    <3>1. CASE LoopBegins
      <4>1. 1 \in Nat /\ \A v \in Calls : ~(v < 1)
        BY DEF Calls
      <4> QED
        BY <1>2, <3>1, <4>1 DEF LoopBegins
    <3>2. CASE MainLoopGoesOn
      <4>1. /\ Passed(status, mainLoop) /\ exec[mainLoop] = attempt
            /\ mainLoop + 1 \in Nat /\ \A v \in Calls : v < mainLoop + 1 => v <= mainLoop
        BY <3>2 DEF MainLoopGoesOn, LoopsGood, Calls, ExecTypeOK
      <4> QED
        BY <3>2, <4>1 DEF MainLoopGoesOn, Passed
    <3> QED
      BY <3>1, <3>2
  <2>1. PICK u \in NextCall(status, attempt, p) :
            ExecuteTool(status, u) /\ mainLoop' = u
    BY <2>0
  <2>2. /\ main \in {"looping", "processing"} /\ main' = "processing"
        /\ UNCHANGED <<calls, attempt, exec, kind, progress, hasErrored, abort, loops,
                       pos, delivered>>
    BY <1>2 DEF LoopBegins, MainLoopGoesOn
  <2>3. /\ status' \in [Calls -> Statuses] /\ work' \in [Calls -> Works]
        /\ answers' \in [Calls -> Nat]
        /\ CallsGood(status)'
        /\ \A v \in Calls : status'[v] = "none" <=> status[v] = "none"
        /\ \A v \in Calls : status'[v] = "queued" => status[v] = "queued"
        /\ \A v \in Calls : status'[v] = "none" => answers'[v] = answers[v]
        /\ u # 0 => u \in Calls /\ exec[u] = attempt /\ Passed(status, u)'
    BY <2>0, <2>1, <2>2, Started DEF ExecTypeOK
  <2>4. ExecTypeOK'
    <3>1. mainLoop' \in 0..MaxCalls
      BY <2>1, <2>3 DEF Calls
    <3> QED
      BY <2>2, <2>3, <3>1 DEF ExecTypeOK, Mains
  <2>5. Arrived(status)'
    BY <2>2, <2>3 DEF Arrived
  <2>6. \A x \in Calls : Passed(status, x) => Passed(status, x)'
    BY <2>2, <2>3, PassedKept
  <2>7. LoopsGood'
    BY <2>1, <2>2, <2>3, <2>6 DEF LoopsGood, ExecTypeOK
  <2>8. Places'
    BY <2>2 DEF Places
  <2> QED
    BY <2>3, <2>4, <2>5, <2>7, <2>8
<1> QED
  BY <1>1, <1>2

\* A message of a tool, or its end: one call changes, and goes on or has ended.
LEMMA ToolInv ==
    ASSUME IInv, NEW t \in Calls,
           Progress(t) \/ Result(t) \/ BreakLate(t) \/ GeneratorEnds(t),
           main \notin {"done", "failed"}
    PROVE  IInv'
<1> USE DEF IInv
<1>1. /\ UNCHANGED <<calls, attempt, exec, kind, abort, loops, main, mainLoop, pos, delivered>>
      /\ status[t] = "executing" /\ hasErrored' \in {hasErrored, TRUE}
  BY DEF Progress, Result, BreakLate, GeneratorEnds
<1>0. Twice => Twice'
  BY <1>1 DEF Twice
<1>2. /\ status' \in [Calls -> Statuses] /\ status'[t] \in {"executing", "completed"}
      /\ \A v \in Calls : v # t => status'[v] = status[v]
  BY <1>1 DEF Progress, Result, BreakLate, GeneratorEnds, Break, ExecTypeOK, Statuses
<1>3. /\ work' \in [Calls -> Works]
      /\ \A v \in Calls : v # t => work'[v] = work[v]
  BY DEF Progress, Result, BreakLate, GeneratorEnds, ExecTypeOK, Works
<1>4. /\ answers' \in [Calls -> Nat] /\ progress' \in [Calls -> BOOLEAN]
      /\ \A v \in Calls : v # t => answers'[v] = answers[v]
  <2>1. answers' = answers \/ answers' = [answers EXCEPT ![t] = @ + 1]
    BY DEF Progress, Result, BreakLate, GeneratorEnds, Break
  <2>2. progress' = progress \/ progress' = [progress EXCEPT ![t] = TRUE]
    BY DEF Progress, Result, BreakLate, GeneratorEnds
  <2>3. answers[t] + 1 \in Nat
    BY DEF ExecTypeOK
  <2> QED
    BY <2>1, <2>2, <2>3 DEF ExecTypeOK
<1>5. AbortReason(exec[t]) /\ exec[t] = attempt => Twice
  BY DEF AbortReason, Twice, ExecTypeOK
<1>6. /\ status'[t] = "executing" => work'[t] # "none"
      /\ status'[t] = "completed" =>
            work'[t] = "none" \/ (work'[t] = "working" /\ AbortReason(exec[t]))
      /\ work'[t] = "working" => work[t] = "working"
  BY <1>1 DEF Progress, Result, BreakLate, GeneratorEnds, Break, ExecTypeOK, CallsGood, WorkFits
<1>7. \A v \in Calls : AbortReason(exec[v]) => AbortReason(exec[v])'
  BY <1>1 DEF AbortReason
<1>8. WorkFits(status)'
  BY <1>1, <1>2, <1>3, <1>6, <1>7 DEF CallsGood, WorkFits
<1>9. Orderly(status)'
  BY <1>1, <1>2 DEF CallsGood, Orderly, Statuses
<1>10. WorksAlone'
  BY <1>1, <1>3, <1>6 DEF CallsGood, WorksAlone
<1>11. exec[t] = attempt => Account(status, t)'
  <2> SUFFICES ASSUME exec[t] = attempt PROVE Account(status, t)'
    OBVIOUS
  <2>1. /\ delivered[t] = 0 /\ answers[t] = IF work[t] = "working" THEN 0 ELSE 1
    BY <1>1 DEF CallsGood, Accounted, Account
  <2>2. /\ status'[t] = "executing" => answers'[t] = IF work'[t] = "working" THEN 0 ELSE 1
        /\ status'[t] = "completed" => answers'[t] = 1 \/ (answers'[t] = 2 /\ Twice)
    <3>1. CASE Progress(t)
      BY <1>5, <2>1, <3>1 DEF Progress, Break, ExecTypeOK
    <3>2. CASE Result(t)
      <4>1. answers'[t] = answers[t] + 1 /\ answers[t] = 0
        BY <2>1, <3>2 DEF Result, Break, ExecTypeOK
      <4>2. status'[t] = "executing" => work'[t] # "working"
        BY <3>2 DEF Result, Break, ExecTypeOK
      <4> QED
        BY <4>1, <4>2
    <3>3. CASE BreakLate(t)
      BY <1>5, <2>1, <3>3 DEF BreakLate, Break, ExecTypeOK
    <3>4. CASE GeneratorEnds(t)
      BY <2>1, <3>4 DEF GeneratorEnds, ExecTypeOK
    <3> QED
      BY <3>1, <3>2, <3>3, <3>4
  <2> QED
    BY <1>0, <1>1, <1>2, <2>1, <2>2 DEF Account
<1>12. Accounted(status)'
  <2> SUFFICES ASSUME NEW v \in Calls, exec[v] = attempt, v # t PROVE Account(status, v)'
    BY <1>1, <1>11 DEF Accounted
  <2>1. Account(status, v)
    BY <1>1 DEF CallsGood, Accounted
  <2> QED
    BY <1>0, <1>1, <1>2, <1>3, <1>4, <2>1 DEF Account
<1>13. Arrived(status)'
  BY <1>1, <1>2, <1>4 DEF Arrived
<1>14. ExecTypeOK'
  BY <1>1, <1>2, <1>3, <1>4 DEF ExecTypeOK
<1>15. \A x \in Calls : Passed(status, x) => Passed(status, x)'
  BY <1>1, <1>2, PassedKept
<1>16. LoopsGood'
  BY <1>1, <1>15 DEF LoopsGood, ExecTypeOK, Calls
<1>17. Places'
  BY <1>1, <1>2 DEF Places, ExecTypeOK, Calls
<1> QED
  BY <1>8, <1>9, <1>10, <1>12, <1>13, <1>14, <1>16, <1>17 DEF CallsGood

\* The end of what a tool did unheard.
LEMMA WorkEndsInv ==
    ASSUME IInv, NEW t \in Calls, WorkEnds(t), main \notin {"done", "failed"}
    PROVE  IInv'
<1> USE DEF IInv
<1>1. /\ UNCHANGED <<calls, attempt, exec, kind, status, answers, progress, hasErrored, abort,
                     loops, finals, main, mainLoop, pos, delivered>>
      /\ status[t] \in {"completed", "yielded"}
  BY DEF WorkEnds
<1>2. /\ work' \in [Calls -> Works] /\ work'[t] = "none"
      /\ \A v \in Calls : v # t => work'[v] = work[v]
  BY DEF WorkEnds, ExecTypeOK, Works
<1>3. WorkFits(status)' /\ Orderly(status)' /\ WorksAlone'
  BY <1>1, <1>2 DEF CallsGood, WorkFits, Orderly, WorksAlone, AbortReason
<1>4. Accounted(status)'
  BY <1>1, <1>2 DEF CallsGood, Accounted, Account, Twice
<1>5. ExecTypeOK' /\ Arrived(status)' /\ LoopsGood' /\ Places'
  BY <1>1, <1>2 DEF ExecTypeOK, Arrived, LoopsGood, Passed, Places
<1> QED
  BY <1>3, <1>4, <1>5 DEF CallsGood

\* Results of the calls are handed on, one call at a time.
LEMMA ResultsInv ==
    ASSUME IInv, Poll \/ YieldResults
    PROVE  IInv'
<1> USE DEF IInv
<1>1. /\ UNCHANGED <<calls, attempt, exec, kind, work, hasErrored, abort, loops, mainLoop>>
      /\ main \in {"polls", "polling", "processing", "draining"}
      /\ main' \in {"polling", "streaming", "draining", "racing", "looping"}
  BY DEF Poll, YieldResults, GetCompletedResults, Unread, AfterResults
<1>2. \/ UNCHANGED <<status, answers, delivered>>
      \/ \E t \in Calls :
            /\ exec[t] = attempt /\ status[t] = "completed"
            /\ status' = [status EXCEPT ![t] = "yielded"]
            /\ delivered' = [delivered EXCEPT ![t] = @ + answers[t]]
            /\ answers' = [answers EXCEPT ![t] = 0]
  BY DEF Poll, YieldResults, GetCompletedResults, Stops
<1>3. progress' \in [Calls -> BOOLEAN] /\ pos' \in Nat
  <2>1. \/ progress' = progress
        \/ \E t \in Calls : progress' = [progress EXCEPT ![t] = FALSE]
    BY DEF Poll, YieldResults, GetCompletedResults, Stops
  <2>2. pos' = 1 \/ \E t \in Calls : pos' = t \/ pos' = t + 1
    BY DEF Poll, YieldResults, GetCompletedResults, Stops
  <2>3. progress' \in [Calls -> BOOLEAN]
    BY <2>1 DEF ExecTypeOK
  <2>4. pos' \in Nat
    BY <2>2 DEF Calls
  <2> QED
    BY <2>3, <2>4
<1>4. CASE UNCHANGED <<status, answers, delivered>>
  <2>1. CallsGood(status)'
    BY <1>1, <1>4 DEF CallsGood, WorkFits, Orderly, WorksAlone, AbortReason, Accounted,
       Account, Twice
  <2>2. ExecTypeOK'
    BY <1>1, <1>3, <1>4 DEF ExecTypeOK, Mains
  <2>3. Arrived(status)' /\ LoopsGood' /\ Places'
    BY <1>1, <1>4 DEF Arrived, LoopsGood, Passed, Places
  <2> QED
    BY <2>1, <2>2, <2>3
<1>5. ASSUME NEW t \in Calls, exec[t] = attempt, status[t] = "completed",
             status' = [status EXCEPT ![t] = "yielded"],
             delivered' = [delivered EXCEPT ![t] = @ + answers[t]],
             answers' = [answers EXCEPT ![t] = 0]
      PROVE  IInv'
  <2>1. /\ status' \in [Calls -> Statuses] /\ status'[t] = "yielded"
        /\ \A v \in Calls : v # t => status'[v] = status[v]
    BY <1>5 DEF ExecTypeOK, Statuses
  <2>2. /\ delivered' \in [Calls -> Nat] /\ delivered'[t] = delivered[t] + answers[t]
        /\ \A v \in Calls : v # t => delivered'[v] = delivered[v]
    BY <1>5 DEF ExecTypeOK
  <2>3. /\ answers' \in [Calls -> Nat] /\ answers'[t] = 0
        /\ \A v \in Calls : v # t => answers'[v] = answers[v]
    BY <1>5 DEF ExecTypeOK
  <2>4. WorkFits(status)' /\ Orderly(status)' /\ WorksAlone'
    BY <1>1, <1>5, <2>1 DEF CallsGood, WorkFits, Orderly, WorksAlone, AbortReason
  <2>5. Twice' = Twice /\ abort' = abort
    BY <1>1 DEF Twice
  <2>6. Account(status, t)'
    BY <1>1, <1>5, <2>1, <2>2, <2>3, <2>5 DEF CallsGood, Accounted, Account, ExecTypeOK
  <2>7. Accounted(status)'
    <3> SUFFICES ASSUME NEW v \in Calls, exec[v] = attempt, v # t PROVE Account(status, v)'
      BY <1>1, <2>6 DEF Accounted
    <3>1. Account(status, v)
      BY <1>1 DEF CallsGood, Accounted
    <3> QED
      BY <1>1, <2>1, <2>2, <2>3, <2>5, <3>1 DEF Account
  <2>8. ExecTypeOK'
    BY <1>1, <1>3, <2>1, <2>2, <2>3 DEF ExecTypeOK, Mains
  <2>9. Arrived(status)' /\ LoopsGood' /\ Places'
    BY <1>1, <1>5, <2>1, <2>2, <2>3 DEF Arrived, LoopsGood, Passed, Places, ExecTypeOK
  <2> QED
    BY <2>4, <2>7, <2>8, <2>9 DEF CallsGood
<1> QED
  BY <1>2, <1>4, <1>5

LEMMA AddToolInv ==
    ASSUME IInv, AddTool
    PROVE  IInv'
<1> USE DEF IInv
<1>1. /\ UNCHANGED <<calls, attempt, exec, kind, progress, hasErrored, abort, mainLoop, pos,
                     delivered>>
      /\ main = "showing" /\ main' = "polls" /\ abort = "none"
  BY DEF AddTool
<1>2. calls \in Calls /\ exec[calls] = attempt /\ status[calls] = "none"
  BY <1>1 DEF Places, ExecTypeOK, Calls
<1>3. work[calls] = "none" /\ answers[calls] = 0 /\ delivered[calls] = 0
  BY <1>1, <1>2 DEF CallsGood, WorkFits, Accounted, Account
<1>4. \A x \in loops : x \in Calls /\ x < calls /\ Passed(status, x)
  <2>1. \A x \in loops : x \in Calls /\ x # calls /\ ~(x > calls) /\ Passed(status, x)
    BY <1>2 DEF LoopsGood, Passed, Arrived, ExecTypeOK
  <2> QED
    BY <1>2, <2>1 DEF Calls
<1>5. CASE kind[calls] = "unknown"
  <2>1. /\ status' \in [Calls -> Statuses] /\ status'[calls] = "completed"
        /\ \A v \in Calls : v # calls => status'[v] = status[v]
    BY <1>2, <1>5 DEF AddTool, ExecTypeOK, Statuses
  <2>2. /\ answers' \in [Calls -> Nat] /\ answers'[calls] = 1
        /\ \A v \in Calls : v # calls => answers'[v] = answers[v]
    BY <1>2, <1>5 DEF AddTool, ExecTypeOK
  <2>3. work' = work /\ loops' = loops
    BY <1>5 DEF AddTool
  <2>4. WorkFits(status)' /\ WorksAlone'
    BY <1>1, <1>3, <2>1, <2>3 DEF CallsGood, WorkFits, WorksAlone, AbortReason
  <2>5. Orderly(status)'
    BY <1>1, <1>5, <2>1 DEF CallsGood, Orderly
  <2>6. Accounted(status)'
    <3> SUFFICES ASSUME NEW v \in Calls, exec[v] = attempt PROVE Account(status, v)'
      BY <1>1 DEF Accounted
    <3>1. Account(status, v)
      BY <1>1 DEF CallsGood, Accounted
    <3>2. CASE v = calls
      BY <1>1, <1>3, <2>1, <2>2, <3>2 DEF Account
    <3>3. CASE v # calls
      BY <1>1, <2>1, <2>2, <2>3, <3>1, <3>3 DEF Account, Twice
    <3> QED
      BY <3>2, <3>3
  <2>7. ExecTypeOK'
    BY <1>1, <2>1, <2>2, <2>3 DEF ExecTypeOK, Mains
  <2>8. Arrived(status)'
    BY <1>1, <1>2, <2>1, <2>2 DEF Arrived, Calls
  <2>9. LoopsGood' /\ Places'
    BY <1>1, <1>2, <1>4, <2>1, <2>3 DEF LoopsGood, Passed, Places
  <2> QED
    BY <2>4, <2>5, <2>6, <2>7, <2>8, <2>9 DEF CallsGood
<1>6. CASE kind[calls] # "unknown"
  <2> DEFINE st == [status EXCEPT ![calls] = "queued"]
  <2>1. /\ st \in [Calls -> Statuses] /\ st[calls] = "queued"
        /\ \A v \in Calls : v # calls => st[v] = status[v]
    BY <1>2 DEF ExecTypeOK, Statuses
  <2>2. PICK u \in NextCall(st, attempt, 1) :
            ExecuteTool(st, u) /\ loops' = loops \cup ({u} \ {0})
    BY <1>6 DEF AddTool
  <2> HIDE DEF st
  <2>3. WorkFits(st) /\ WorksAlone
    BY <1>3, <1>6, <2>1 DEF CallsGood, WorkFits
  <2>4. Orderly(st)
    <3>1. \A v \in Calls : calls < v => status[v] = "none"
      BY <1>2 DEF Arrived, Calls
    <3> QED
      BY <2>1, <3>1 DEF CallsGood, Orderly
  <2>5. Accounted(st)
    <3> SUFFICES ASSUME NEW v \in Calls, exec[v] = attempt PROVE Account(st, v)
      BY DEF Accounted
    <3>1. Account(status, v)
      BY <1>1 DEF CallsGood, Accounted
    <3> QED
      BY <1>3, <2>1, <3>1 DEF Account
  <2>6. 1 \in Nat /\ \A v \in Calls : ~(v < 1)
    BY DEF Calls
  <2>7. /\ status' \in [Calls -> Statuses] /\ work' \in [Calls -> Works]
        /\ answers' \in [Calls -> Nat]
        /\ CallsGood(status)'
        /\ \A v \in Calls : status'[v] = "none" <=> st[v] = "none"
        /\ \A v \in Calls : status'[v] = "queued" => st[v] = "queued"
        /\ \A v \in Calls : status'[v] = "none" => answers'[v] = answers[v]
        /\ u # 0 => u \in Calls /\ exec[u] = attempt /\ Passed(status, u)'
    <3>1. CallsGood(st)
      BY <2>3, <2>4, <2>5 DEF CallsGood
    <3> QED
      BY <1>1, <2>1, <2>2, <2>6, <3>1, Started
  <2>8. ExecTypeOK'
    BY <1>1, <2>2, <2>7 DEF ExecTypeOK, Mains
  <2>9. Arrived(status)'
    <3>1. \A v \in Calls : v > calls => v # calls
      BY DEF ExecTypeOK, Calls
    <3>2. \A v \in Calls : st[v] = "none" => v # calls /\ status[v] = "none"
      BY <2>1
    <3> QED
      BY <1>1, <2>1, <2>7, <3>1, <3>2 DEF Arrived
  <2>10. LoopsGood'
    <3>1. \A x \in loops : Passed(status, x)'
      <4> SUFFICES ASSUME NEW x \in loops PROVE Passed(status, x)'
        OBVIOUS
      <4>1. x \in Calls /\ x < calls /\ Passed(status, x)
        BY <1>4
      <4>2. x # calls /\ \A v \in Calls : v <= x => v # calls
        BY <1>2, <4>1 DEF Calls
      <4>3. st[x] \notin {"none", "queued"}
        BY <2>1, <4>1, <4>2 DEF Passed
      <4>4. \A v \in Calls : v <= x /\ exec[v] = exec[x] => st[v] # "queued"
        BY <2>1, <4>1, <4>2 DEF Passed
      <4> QED
        BY <1>1, <2>7, <4>1, <4>3, <4>4 DEF Passed
    <3> QED
      BY <1>1, <2>2, <2>7, <3>1 DEF LoopsGood
  <2> QED
    BY <1>1, <2>7, <2>8, <2>9, <2>10 DEF Places
<1> QED
  BY <1>5, <1>6

LEMMA SkipToolInv ==
    ASSUME IInv, SkipTool
    PROVE  IInv'
<1> USE DEF IInv
<1>1. /\ UNCHANGED <<calls, attempt, exec, kind, work, answers, progress, hasErrored, abort,
                     loops, mainLoop, pos, delivered>>
      /\ main = "showing" /\ main' = "streaming" /\ abort # "none"
  BY DEF SkipTool
<1>2. calls \in Calls /\ exec[calls] = attempt /\ status[calls] = "none"
  BY <1>1 DEF Places, ExecTypeOK, Calls
<1>3. /\ status' \in [Calls -> Statuses] /\ status'[calls] = "skipped"
      /\ \A v \in Calls : v # calls => status'[v] = status[v]
  BY <1>2 DEF SkipTool, ExecTypeOK, Statuses
<1>4. WorkFits(status)' /\ WorksAlone'
  BY <1>1, <1>2, <1>3 DEF CallsGood, WorkFits, WorksAlone, AbortReason
<1>5. Orderly(status)'
  BY <1>1, <1>3 DEF CallsGood, Orderly
<1>6. Accounted(status)'
  <2> SUFFICES ASSUME NEW v \in Calls, exec[v] = attempt PROVE Account(status, v)'
    BY <1>1 DEF Accounted
  <2>1. Account(status, v)
    BY <1>1 DEF CallsGood, Accounted
  <2> QED
    BY <1>1, <1>2, <1>3, <2>1 DEF Account, Twice
<1>7. ExecTypeOK'
  BY <1>1, <1>3 DEF ExecTypeOK, Mains
<1>8. Arrived(status)'
  BY <1>1, <1>2, <1>3 DEF Arrived, Calls
<1>9. LoopsGood' /\ Places'
  BY <1>1, <1>2, <1>3 DEF LoopsGood, Passed, Places, ExecTypeOK
<1> QED
  BY <1>4, <1>5, <1>6, <1>7, <1>8, <1>9 DEF CallsGood

LEMMA MessageInv ==
    ASSUME IInv, NEW k \in Kinds, MessageArrives(k)
    PROVE  IInv'
<1> USE DEF IInv
<1> DEFINE c == calls + 1
<1>1. /\ UNCHANGED <<attempt, status, work, answers, progress, hasErrored, abort, loops,
                     mainLoop, pos, delivered>>
      /\ main = "streaming" /\ main' = "showing" /\ calls' = c
  BY DEF MessageArrives
<1>2. /\ c \in Calls /\ calls < c /\ c # 0 /\ c \in 0..MaxCalls
      /\ \A v \in Calls : v > calls <=> (v = c \/ v > c)
      /\ \A v \in Calls : v <= c => v = c \/ v <= calls
  BY DEF MessageArrives, ExecTypeOK, Calls
<1>3. status[c] = "none" /\ answers[c] = 0 /\ delivered[c] = 0 /\ work[c] = "none"
  BY <1>2 DEF Arrived, CallsGood, WorkFits
<1>4. /\ exec' \in [Calls -> Nat] /\ exec'[c] = attempt
      /\ \A v \in Calls : v # c => exec'[v] = exec[v]
  BY <1>2 DEF MessageArrives, ExecTypeOK
<1>5. /\ kind' \in [Calls -> Kinds] /\ \A v \in Calls : v # c => kind'[v] = kind[v]
  BY <1>2 DEF MessageArrives, ExecTypeOK
<1> HIDE DEF c
<1>6. WorkFits(status)' /\ WorksAlone'
  BY <1>1, <1>3, <1>4, <1>5 DEF CallsGood, WorkFits, WorksAlone, AbortReason
<1>7. Orderly(status)'
  BY <1>1, <1>3, <1>4, <1>5 DEF CallsGood, Orderly
<1>8. Accounted(status)'
  <2> SUFFICES ASSUME NEW v \in Calls, exec'[v] = attempt PROVE Account(status, v)'
    BY <1>1 DEF Accounted
  <2>1. CASE v = c
    BY <1>1, <1>3, <2>1 DEF Account
  <2>2. CASE v # c
    BY <1>1, <1>4, <2>2 DEF CallsGood, Accounted, Account, Twice
  <2> QED
    BY <2>1, <2>2
<1>9. ExecTypeOK'
  BY <1>1, <1>2, <1>4, <1>5 DEF ExecTypeOK, Mains
<1>10. Arrived(status)'
  <2>1. attempt <= attempt
    BY DEF ExecTypeOK
  <2> QED
    BY <1>1, <1>2, <1>3, <1>4, <2>1 DEF Arrived
<1>11. LoopsGood' /\ Places'
  BY <1>1, <1>2, <1>3, <1>4 DEF LoopsGood, Passed, Places, ExecTypeOK
<1> QED
  BY <1>6, <1>7, <1>8, <1>9, <1>10, <1>11 DEF CallsGood

LEMMA FallbackInv ==
    ASSUME IInv, StreamingFallback \/ ModelFallback
    PROVE  IInv'
<1> USE DEF IInv
<1>1. /\ UNCHANGED <<calls, exec, kind, status, work, answers, progress, abort, loops, main,
                     mainLoop, pos>>
      /\ main = "streaming" /\ attempt' = attempt + 1 /\ hasErrored' = FALSE
  BY DEF StreamingFallback, ModelFallback, NewExecutor
<1>2. /\ delivered' \in [Calls -> Nat]
      /\ \A v \in Calls : v > calls => delivered'[v] = delivered[v]
  <2>1. delivered' = delivered \/ AnswerAll
    BY DEF StreamingFallback, ModelFallback
  <2>2. \A v \in Calls : delivered[v] \in Nat /\ delivered[v] + 1 \in Nat
    BY DEF ExecTypeOK
  <2>3. \A v \in Calls : v > calls <=> ~(v <= calls)
    BY DEF ExecTypeOK, Calls
  <2>4. CASE AnswerAll
    BY <2>2, <2>3, <2>4 DEF AnswerAll
  <2> QED
    BY <2>1, <2>4 DEF ExecTypeOK
<1>3. \A v \in Calls : exec[v] < attempt' /\ exec[v] <= attempt' /\ exec[v] # attempt'
  BY <1>1 DEF Arrived, ExecTypeOK
<1>4. WorkFits(status)' /\ WorksAlone'
  BY <1>1, <1>3 DEF CallsGood, WorkFits, WorksAlone, AbortReason
<1>5. Orderly(status)'
  BY <1>1 DEF CallsGood, Orderly
<1>6. Accounted(status)'
  BY <1>1, <1>3 DEF Accounted
<1>7. ExecTypeOK'
  <2>1. attempt + 1 \in Nat
    BY DEF ExecTypeOK
  <2>2. FALSE \in BOOLEAN
    OBVIOUS
  <2> QED
    BY <1>1, <1>2, <2>1, <2>2 DEF ExecTypeOK
<1>8. Arrived(status)'
  BY <1>1, <1>2, <1>3 DEF Arrived
<1>9. LoopsGood' /\ Places'
  BY <1>1 DEF LoopsGood, Passed, Places
<1> QED
  BY <1>4, <1>5, <1>6, <1>7, <1>8, <1>9 DEF CallsGood

\* The steps of the query loop that touch no call.
LEMMA MainInv ==
    ASSUME IInv, OtherMessage \/ StreamEnds \/ Wakes \/ ModelFails
    PROVE  IInv'
<1> USE DEF IInv
<1>1. /\ UNCHANGED <<Unread, status, answers, progress, pos>>
      /\ main \in {"streaming", "racing"} /\ main' \in {"polls", "looping", "failed"}
      /\ main' # "failed" => delivered' = delivered
  BY DEF OtherMessage, StreamEnds, Wakes, ModelFails
<1>2. /\ delivered' \in [Calls -> Nat]
      /\ \A v \in Calls : v > calls => delivered'[v] = delivered[v]
  <2>1. delivered' = delivered \/ AnswerAll
    BY DEF OtherMessage, StreamEnds, Wakes, ModelFails
  <2>2. \A v \in Calls : delivered[v] \in Nat /\ delivered[v] + 1 \in Nat
    BY DEF ExecTypeOK
  <2>3. \A v \in Calls : v > calls <=> ~(v <= calls)
    BY DEF ExecTypeOK, Calls
  <2>4. CASE AnswerAll
    BY <2>2, <2>3, <2>4 DEF AnswerAll
  <2> QED
    BY <2>1, <2>4 DEF ExecTypeOK
<1>3. CallsGood(status)'
  BY <1>1 DEF Unread, CallsGood, WorkFits, WorksAlone, AbortReason, Orderly, Accounted, Account,
     Twice
<1>4. ExecTypeOK' /\ Arrived(status)' /\ LoopsGood' /\ Places'
  BY <1>1, <1>2 DEF Unread, ExecTypeOK, Mains, Arrived, LoopsGood, Passed, Places
<1> QED
  BY <1>3, <1>4

LEMMA AbortInv ==
    ASSUME IInv, NEW reason \in {"user", "interrupt"}, UserAborts(reason)
    PROVE  IInv'
<1> USE DEF IInv
<1>1. /\ UNCHANGED <<calls, attempt, exec, kind, status, work, answers, progress, hasErrored,
                     loops, main, mainLoop, pos, delivered>>
      /\ abort = "none" /\ abort' # "none"
  BY DEF UserAborts
<1>2. WorkFits(status)' /\ WorksAlone' /\ Orderly(status)'
  BY <1>1 DEF CallsGood, WorkFits, WorksAlone, AbortReason, Orderly
<1>3. Accounted(status)'
  BY <1>1 DEF CallsGood, Accounted, Account, Twice
<1>4. ExecTypeOK' /\ Arrived(status)' /\ LoopsGood' /\ Places'
  BY <1>1 DEF ExecTypeOK, Arrived, LoopsGood, Passed, Places
<1> QED
  BY <1>2, <1>3, <1>4 DEF CallsGood

LEMMA StepInv == IInv /\ [Next]_vars => IInv'
<1> SUFFICES ASSUME IInv, [Next]_vars PROVE IInv'
  OBVIOUS
<1>1. CASE UNCHANGED vars
  BY <1>1 DEF vars, IInv, ExecTypeOK, CallsGood, WorkFits, AbortReason, Orderly, Accounted,
     Account, Twice, WorksAlone, Arrived, LoopsGood, Passed, Places
<1>2. CASE Poll
  BY <1>2, ResultsInv
<1>3. CASE main \notin {"polls", "done", "failed"} /\ ToolSteps
  <2>1. PICK t \in Calls : \/ LoopGoesOn(t) \/ Finally(t)
                           \/ Progress(t) \/ Result(t) \/ BreakLate(t)
                           \/ GeneratorEnds(t) \/ WorkEnds(t)
    BY <1>3 DEF ToolSteps
  <2> QED
    BY <1>3, <2>1, LoopsInv, ToolInv, WorkEndsInv
<1>4. CASE QuerySteps
  BY <1>4, AddToolInv, SkipToolInv, MainLoopInv, ResultsInv, MainInv DEF QuerySteps
<1>5. CASE Events
  BY <1>5, MessageInv, MainInv, FallbackInv, AbortInv DEF Events
<1> QED
  BY <1>1, <1>2, <1>3, <1>4, <1>5 DEF Next

LEMMA Invariant == Spec => []IInv
BY InitInv, StepInv, PTL DEF Spec

----------------------------------------------------------------------------
(* What holds of every turn.                                               *)

\* Every value stays of its kind.
THEOREM ToolsTypeCorrect == Spec => []ExecTypeOK
<1>1. IInv => ExecTypeOK
  BY DEF IInv
<1> QED
  BY <1>1, Invariant, PTL

\* canExecuteTool: an unsafe call works alone, though calls before it were
\* broken off and work on unheard.
THEOREM UnsafeWorksAlone == Spec => []WorksAlone
<1>1. IInv => WorksAlone
  BY DEF IInv, CallsGood
<1> QED
  BY <1>1, Invariant, PTL

\* processQueue: no call overtakes a queued one.
THEOREM CallsStartInOrder == Spec => []StartOrder
<1>1. IInv => StartOrder
  BY DEF IInv, CallsGood, Orderly, StartOrder
<1> QED
  BY <1>1, Invariant, PTL

\* getRemainingResults: at its end every call is answered, once but for an
\* abort or a failed sibling.
THEOREM EveryCallAnswered == Spec => []AnsweredOnce
<1>1. IInv => AnsweredOnce
  <2> SUFFICES ASSUME IInv, main = "done", NEW t \in 1..calls, exec[t] = attempt
               PROVE  \/ delivered[t] = 1
                      \/ delivered[t] = 0 /\ status[t] = "skipped" /\ abort # "none"
                      \/ delivered[t] = 2 /\ (hasErrored \/ abort = "user")
    BY DEF AnsweredOnce
  <2>1. t \in Calls /\ t <= calls
    BY DEF IInv, ExecTypeOK, Calls
  <2>2. status[t] \in {"skipped", "yielded"}
    BY <2>1 DEF IInv, ExecTypeOK, Statuses, Arrived, Places
  <2>3. Account(status, t)
    BY <2>1 DEF IInv, CallsGood, Accounted
  <2> QED
    BY <2>2, <2>3 DEF Account, Twice
<1> QED
  BY <1>1, Invariant, PTL

\* discard(): a call of an executor that was given up reaches nobody, and
\* does not start to work.
THEOREM DiscardedIsSilent == Spec => DiscardedStaySilent
<1> DEFINE Silent == \A t \in Calls :
                       exec[t] < attempt =>
                           /\ delivered'[t] = delivered[t]
                           /\ work[t] = "none" => work'[t] = "none"
<1>1. IInv /\ [Next]_vars => Silent
  <2> SUFFICES ASSUME IInv, [Next]_vars, NEW t \in Calls, exec[t] < attempt
               PROVE  /\ delivered'[t] = delivered[t]
                      /\ work[t] = "none" => work'[t] = "none"
    OBVIOUS
  <2>1. exec[t] # attempt /\ AbortReason(exec[t])
    BY DEF IInv, ExecTypeOK, AbortReason
  <2>2. delivered'[t] = delivered[t]
    <3>1. CASE Poll \/ YieldResults
      BY <2>1, <3>1 DEF Poll, YieldResults, GetCompletedResults, Stops, IInv, ExecTypeOK
    <3>2. CASE ModelFallback \/ ModelFails
      BY <2>1, <3>2 DEF ModelFallback, ModelFails, AnswerAll
    <3>3. CASE UNCHANGED delivered
      BY <3>3
    <3> QED
      BY <3>1, <3>2, <3>3 DEF Next, ToolSteps, QuerySteps, Events, vars, LoopGoesOn, Finally,
         Progress, Result, BreakLate, GeneratorEnds, WorkEnds, AddTool, SkipTool, LoopBegins,
         MainLoopGoesOn, Wakes, MessageArrives, OtherMessage, StreamEnds, StreamingFallback, UserAborts
  <2>3. ASSUME work[t] = "none" PROVE work'[t] = "none"
    <3>1. CASE \E st, u : ExecuteTool(st, u)
      BY <2>1, <2>3, <3>1 DEF ExecuteTool
    <3>2. CASE \E v \in Calls : Result(v) \/ BreakLate(v) \/ GeneratorEnds(v) \/ WorkEnds(v)
      BY <2>3, <3>2 DEF Result, BreakLate, GeneratorEnds, WorkEnds, IInv, ExecTypeOK
    <3>3. CASE UNCHANGED work
      BY <2>3, <3>3
    <3> QED
      BY <3>1, <3>2, <3>3 DEF Next, ToolSteps, QuerySteps, Events, vars, LoopGoesOn, Finally,
         Progress, AddTool, SkipTool, LoopBegins, MainLoopGoesOn, YieldResults, Poll, Wakes,
         MessageArrives, OtherMessage, StreamEnds, StreamingFallback, ModelFallback, NewExecutor, ModelFails,
         UserAborts, Unread
  <2> QED
    BY <2>2, <2>3
<1>2. Spec => [][Silent]_vars
  BY <1>1, Invariant, PTL DEF Spec
<1> QED
  BY <1>2 DEF DiscardedStaySilent
=============================================================================
