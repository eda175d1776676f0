----------------------- MODULE StreamingToolExecutor -----------------------
(***************************************************************************)
(* The tool calls of one turn: StreamingToolExecutor                       *)
(* (services/tools/StreamingToolExecutor.ts) as the query loop drives it   *)
(* (queryLoop in query.ts).                                                *)
(*                                                                         *)
(* A step is the code between two awaits, or between two yields to the     *)
(* consumer of the turn.  Calls are numbered in the order the model        *)
(* streams them, one to a message.  After a fallback the query loop        *)
(* discards its executor and takes a new one; an executor is named by its  *)
(* attempt.  No tool of the repository defines interruptBehavior, so an    *)
(* abort for `interrupt' cancels no call, and any other abort all of them. *)
(***************************************************************************)
EXTENDS Naturals, FiniteSets

CONSTANTS
    MaxCalls,       \* bound on the tool_use blocks of the turn
    MaxAttempts,    \* bound on its executors: one more than the fallbacks
    Streams,        \* bound: the kinds of the calls, one after the other
    Talkers         \* bound: the calls that report progress

Calls    == 1..MaxCalls
Attempts == 1..MaxAttempts
Kinds    == {"safe", "unsafe", "unknown"}

ASSUME ExecutorAssumption ==
    /\ MaxCalls \in Nat /\ MaxAttempts \in Nat \ {0}
    /\ Streams \subseteq [Calls -> Kinds]

VARIABLES
    calls,          \* number of tool_use blocks streamed so far
    attempt,        \* the executor in use; those before it are discarded
    exec,           \* the executor a call belongs to
    kind,           \* isConcurrencySafe, or no such tool
    status,         \* the TrackedTool's status
    work,           \* what the tool itself does
    answers,        \* tool_result blocks among its results, until they are yielded
    progress,       \* pendingProgress is not empty
    hasErrored,     \* a Bash call of the executor in use has failed
    abort,          \* the turn's abort signal
    loops,          \* calls whose start a processQueue awaits
    finals,         \* ended calls whose finally has not run
    main,           \* position of the query loop
    mainLoop,       \* the start that getRemainingResults' own processQueue awaits
    pos,            \* where getCompletedResults goes on
    delivered       \* tool_result blocks the consumer got for a call

vars == <<calls, attempt, exec, kind, status, work, answers, progress, hasErrored,
          abort, loops, finals, main, mainLoop, pos, delivered>>

Statuses == {"none", "skipped", "queued", "executing", "completed", "yielded"}
Works    == {"none", "working", "answered", "failed"}
Mains    == {"streaming", "showing", "polls", "polling", "looping",
             "processing", "draining", "racing", "done", "failed"}

TypeOK ==
    /\ calls \in 0..MaxCalls /\ attempt \in Attempts
    /\ exec \in [Calls -> Attempts] /\ kind \in [Calls -> Kinds]
    /\ status \in [Calls -> Statuses] /\ work \in [Calls -> Works]
    /\ answers \in [Calls -> 0..2] /\ progress \in [Calls -> BOOLEAN]
    /\ hasErrored \in BOOLEAN
    /\ abort \in {"none", "user", "interrupt"}
    /\ loops \subseteq Calls /\ finals \subseteq Calls
    /\ main \in Mains /\ mainLoop \in 0..MaxCalls
    /\ pos \in 1..(MaxCalls + 1) /\ delivered \in [Calls -> 0..3]

Init ==
    /\ calls = 0 /\ attempt = 1
    /\ exec = [t \in Calls |-> 1] /\ kind = [t \in Calls |-> "safe"]
    /\ status = [t \in Calls |-> "none"] /\ work = [t \in Calls |-> "none"]
    /\ answers = [t \in Calls |-> 0]
    /\ progress = [t \in Calls |-> FALSE] /\ hasErrored = FALSE
    /\ abort = "none" /\ loops = {} /\ finals = {}
    /\ main = "streaming" /\ mainLoop = 0 /\ pos = 1
    /\ delivered = [t \in Calls |-> 0]

With(st, e, s) == {t \in Calls : exec[t] = e /\ st[t] = s}
Executing(e)   == With(status, e, "executing")

\* Fault: a discarded executor cancels nothing.
AbortReasonLive(e) == hasErrored \/ abort = "user"

\* getAbortReason, for a call of executor e.
AbortReason(e) == e < attempt \/ hasErrored \/ abort = "user"

---------------------------------------------------------------------------
(* Starting calls.                                                         *)

\* Fault: a safe call looks at no other.
CanExecuteIfSafe(st, t) ==
    kind[t] = "safe" \/ With(st, exec[t], "executing") = {}

CanExecute(st, t) ==
    \A u \in With(st, exec[t], "executing") :
        kind[t] = "safe" /\ kind[u] = "safe"

\* Fault: the loop passes over unsafe calls as well.
StartablePassing(st, e, p) ==
    {t \in With(st, e, "queued") : t >= p /\ CanExecute(st, t)}

\* processQueue from call p on: the call it starts next, or 0 if it ends.
\* It passes over safe calls that cannot start, and stops at an unsafe one.
Startable(st, e, p) ==
    {t \in With(st, e, "queued") :
        /\ t >= p /\ CanExecute(st, t)
        /\ \A u \in With(st, e, "queued") :
              p <= u /\ u < t => kind[u] = "safe" /\ ~CanExecute(st, u)}

NextCall(st, e, p) ==
    IF Startable(st, e, p) = {} THEN {0} ELSE Startable(st, e, p)

\* executeTool up to its first await; t = 0 starts nothing.
ExecuteTool(st, t) ==
    LET refused == t # 0 /\ AbortReason(exec[t])
        begun   == IF t = 0 \/ refused THEN {} ELSE {t}
    IN  /\ status' = [u \in Calls |-> IF u # t THEN st[u]
                                      ELSE IF refused THEN "completed"
                                      ELSE "executing"]
        /\ answers' = IF refused THEN [answers EXCEPT ![t] = 1] ELSE answers
        /\ work' = [u \in Calls |-> IF u \in begun THEN "working" ELSE work[u]]

Ended(t) == IF t # 0 /\ AbortReason(exec[t]) THEN {t} ELSE {}

\* A processQueue that nobody awaits goes on after the start of t.
LoopGoesOn(t) ==
    /\ t \in loops
    /\ \E u \in NextCall(status, exec[t], t + 1) :
          /\ ExecuteTool(status, u)
          /\ loops' = (loops \ {t}) \cup ({u} \ {0})
          /\ finals' = finals \cup Ended(u)
    /\ UNCHANGED <<calls, attempt, exec, kind, progress, hasErrored,
                   abort, main, mainLoop, pos, delivered>>

\* The finally of t's promise runs processQueue again.
Finally(t) ==
    /\ t \in finals
    /\ \E u \in NextCall(status, exec[t], 1) :
          /\ ExecuteTool(status, u)
          /\ loops' = loops \cup ({u} \ {0})
          /\ finals' = (finals \ {t}) \cup Ended(u)
    /\ UNCHANGED <<calls, attempt, exec, kind, progress, hasErrored,
                   abort, main, mainLoop, pos, delivered>>

---------------------------------------------------------------------------
(* collectResults: the updates of a call that was started.                 *)

\* The synthetic error for a call that is broken off; it does not break off
\* what the tool is doing.
Break(t) ==
    /\ status' = [status EXCEPT ![t] = "completed"]
    /\ answers' = [answers EXCEPT ![t] = @ + 1]
    /\ finals' = finals \cup {t}

Progress(t) ==
    /\ status[t] = "executing" /\ work[t] = "working"
    /\ IF AbortReason(exec[t])
       THEN Break(t) /\ UNCHANGED progress
       ELSE /\ t \in Talkers
            /\ progress' = [progress EXCEPT ![t] = TRUE]
            /\ UNCHANGED <<status, answers, finals>>
    /\ UNCHANGED <<calls, attempt, exec, kind, work, hasErrored, abort,
                   loops, main, mainLoop, pos, delivered>>

\* The tool's own tool_result; a Bash call's error is the siblings' as well.
Result(t) ==
    /\ status[t] = "executing" /\ work[t] = "working"
    /\ IF AbortReason(exec[t])
       THEN /\ Break(t) /\ work' = [work EXCEPT ![t] = "none"]
            /\ UNCHANGED hasErrored
       ELSE /\ \/ /\ work' = [work EXCEPT ![t] = "answered"]
                  /\ UNCHANGED hasErrored
               \/ /\ work' = [work EXCEPT ![t] = "failed"]
                  /\ hasErrored' \in {hasErrored, TRUE}
            /\ answers' = [answers EXCEPT ![t] = @ + 1]
            /\ UNCHANGED <<status, finals>>
    /\ UNCHANGED <<calls, attempt, exec, kind, progress, abort, loops, main,
                   mainLoop, pos, delivered>>

\* A message after the result, such as a hook's: the abort is looked at again,
\* except by a call that failed itself (thisToolErrored).
BreakLate(t) ==
    /\ status[t] = "executing" /\ work[t] = "answered"
    /\ AbortReason(exec[t])
    /\ Break(t) /\ work' = [work EXCEPT ![t] = "none"]
    /\ UNCHANGED <<calls, attempt, exec, kind, progress, hasErrored,
                   abort, loops, main, mainLoop, pos, delivered>>

GeneratorEnds(t) ==
    /\ status[t] = "executing" /\ work[t] \in {"answered", "failed"}
    /\ status' = [status EXCEPT ![t] = "completed"]
    /\ work' = [work EXCEPT ![t] = "none"]
    /\ finals' = finals \cup {t}
    /\ UNCHANGED <<calls, attempt, exec, kind, answers, progress,
                   hasErrored, abort, loops, main, mainLoop, pos, delivered>>

\* What a tool goes on doing after its call was broken off ends too.
WorkEnds(t) ==
    /\ status[t] \in {"completed", "yielded"} /\ work[t] = "working"
    /\ work' = [work EXCEPT ![t] = "none"]
    /\ UNCHANGED <<calls, attempt, exec, kind, status, answers,
                   progress, hasErrored, abort, loops, finals, main, mainLoop,
                   pos, delivered>>

---------------------------------------------------------------------------
(* getCompletedResults, a generator, and its two callers.                  *)

Stops(p) ==
    {t \in Calls :
        /\ t >= p /\ exec[t] = attempt
        /\ \/ progress[t] \/ status[t] = "completed"
           \/ status[t] = "executing" /\ kind[t] = "unsafe"}

\* From call p to its next yield, or to its end.
GetCompletedResults(p, yielding, ended) ==
    \/ \E t \in Stops(p) :
          /\ \A u \in Stops(p) : t <= u
          /\ main' = yielding
          /\ \/ /\ progress[t]
                /\ progress' = [progress EXCEPT ![t] = FALSE]
                /\ pos' = t /\ UNCHANGED <<status, answers, delivered>>
             \/ /\ ~progress[t] /\ status[t] = "completed"
                /\ status' = [status EXCEPT ![t] = "yielded"]
                /\ delivered' = [delivered EXCEPT ![t] = @ + answers[t]]
                /\ answers' = [answers EXCEPT ![t] = 0]
                /\ pos' = t + 1 /\ UNCHANGED progress
    \/ /\ \A t \in Stops(p) :
             \E u \in Stops(p) :
                u <= t /\ ~progress[u] /\ status[u] = "executing"
       /\ main' = ended /\ pos' = 1
       /\ UNCHANGED <<status, answers, progress, delivered>>

Unread == <<calls, attempt, exec, kind, work, hasErrored, abort, loops, finals,
            mainLoop>>

\* A message with a tool_use block arrives and is yielded.
MessageArrives(k) ==
    /\ main = "streaming" /\ calls < MaxCalls
    /\ \E s \in Streams : /\ s[calls + 1] = k
                          /\ \A t \in 1..calls : s[t] = kind[t]
    /\ calls' = calls + 1
    /\ exec' = [exec EXCEPT ![calls + 1] = attempt]
    /\ kind' = [kind EXCEPT ![calls + 1] = k]
    /\ main' = "showing"
    /\ UNCHANGED <<attempt, status, work, answers, progress, hasErrored,
                   abort, loops, finals, mainLoop, pos, delivered>>

\* The query loop goes on after the yield: addTool, unless aborted by now.
AddTool ==
    /\ main = "showing" /\ abort = "none" /\ main' = "polls"
    /\ IF kind[calls] = "unknown"
       THEN /\ status' = [status EXCEPT ![calls] = "completed"]
            /\ answers' = [answers EXCEPT ![calls] = 1]
            /\ UNCHANGED <<work, loops, finals>>
       ELSE LET st == [status EXCEPT ![calls] = "queued"]
            IN  \E u \in NextCall(st, attempt, 1) :
                   /\ ExecuteTool(st, u)
                   /\ loops' = loops \cup ({u} \ {0})
                   /\ finals' = finals \cup Ended(u)
    /\ UNCHANGED <<calls, attempt, exec, kind, progress, hasErrored,
                   abort, mainLoop, pos, delivered>>

SkipTool ==
    /\ main = "showing" /\ abort # "none" /\ main' = "streaming"
    /\ status' = [status EXCEPT ![calls] = "skipped"]
    /\ UNCHANGED <<calls, attempt, exec, kind, work, answers, progress,
                   hasErrored, abort, loops, finals, mainLoop, pos, delivered>>

\* A message without a tool call: the query loop polls after it as well.
OtherMessage ==
    /\ main = "streaming" /\ abort = "none" /\ main' = "polls"
    /\ UNCHANGED <<Unread, status, answers, progress, pos, delivered>>

Poll ==
    /\ \/ main = "polls" /\ GetCompletedResults(1, "polling", "streaming")
       \/ main = "polling" /\ GetCompletedResults(pos, "polling", "streaming")
    /\ UNCHANGED Unread

StreamEnds ==
    /\ main = "streaming" /\ main' = "looping"
    /\ UNCHANGED <<Unread, status, answers, progress, pos, delivered>>

\* Fault: the loop ends though calls still run.
LoopBeginsUnlessRunning ==
    /\ main = "looping"
    /\ IF \E t \in Calls : exec[t] = attempt /\ status[t] \in {"queued", "completed"}
       THEN \E u \in NextCall(status, attempt, 1) :
               /\ ExecuteTool(status, u)
               /\ main' = "processing" /\ mainLoop' = u
               /\ finals' = finals \cup Ended(u)
       ELSE /\ main' = "done"
            /\ UNCHANGED <<status, work, answers, mainLoop, finals>>
    /\ UNCHANGED <<calls, attempt, exec, kind, progress, hasErrored,
                   abort, loops, pos, delivered>>

\* The loop of getRemainingResults: it runs processQueue and awaits it.
LoopBegins ==
    /\ main = "looping"
    /\ IF \E t \in Calls : /\ exec[t] = attempt
                           /\ status[t] \in {"queued", "executing", "completed"}
       THEN \E u \in NextCall(status, attempt, 1) :
               /\ ExecuteTool(status, u)
               /\ main' = "processing" /\ mainLoop' = u
               /\ finals' = finals \cup Ended(u)
       ELSE /\ main' = "done"
            /\ UNCHANGED <<status, work, answers, mainLoop, finals>>
    /\ UNCHANGED <<calls, attempt, exec, kind, progress, hasErrored,
                   abort, loops, pos, delivered>>

MainLoopGoesOn ==
    /\ main = "processing" /\ mainLoop # 0
    /\ \E u \in NextCall(status, attempt, mainLoop + 1) :
          /\ ExecuteTool(status, u)
          /\ mainLoop' = u /\ finals' = finals \cup Ended(u)
    /\ UNCHANGED <<calls, attempt, exec, kind, progress, hasErrored,
                   abort, loops, main, pos, delivered>>

\* Something ran and nothing can be yielded: wait, else go round at once.
MustWait ==
    /\ Executing(attempt) # {}
    /\ With(status, attempt, "completed") = {}
    /\ \A t \in Calls : exec[t] = attempt => ~progress[t]

AfterResults == IF MustWait THEN "racing" ELSE "looping"

YieldResults ==
    /\ \/ /\ main = "processing" /\ mainLoop = 0
          /\ GetCompletedResults(1, "draining", AfterResults)
       \/ main = "draining" /\ GetCompletedResults(pos, "draining", AfterResults)
    /\ UNCHANGED Unread

\* Fault: only progress ends the race.
WakesOnProgress ==
    /\ main = "racing" /\ main' = "looping"
    /\ \E t \in Calls : exec[t] = attempt /\ progress[t]
    /\ UNCHANGED <<Unread, status, answers, progress, pos, delivered>>

\* The race: a call has ended, or has made progress.
Wakes ==
    /\ main = "racing" /\ ~MustWait /\ main' = "looping"
    /\ UNCHANGED <<Unread, status, answers, progress, pos, delivered>>

---------------------------------------------------------------------------
(* Failures of the model's stream, and the user.                           *)

\* yieldMissingToolResultBlocks answers every call of the attempt.
AnswerAll ==
    delivered' = [t \in Calls |-> IF t <= calls /\ exec[t] = attempt
                                  THEN delivered[t] + 1 ELSE delivered[t]]

\* discard(), and a fresh executor.
NewExecutor ==
    /\ attempt' = attempt + 1 /\ hasErrored' = FALSE
    /\ UNCHANGED <<calls, exec, kind, status, work, answers, progress, abort,
                   loops, finals, main, mainLoop, pos>>

\* The streaming request failed and is repeated without streaming: the
\* messages of the attempt are taken back.
StreamingFallback ==
    /\ main = "streaming" /\ attempt < MaxAttempts
    /\ NewExecutor /\ UNCHANGED delivered

\* FallbackTriggeredError: another model takes over.
ModelFallback ==
    /\ main = "streaming" /\ attempt < MaxAttempts
    /\ NewExecutor /\ AnswerAll

ModelFails ==
    /\ main = "streaming" /\ main' = "failed"
    /\ AnswerAll
    /\ UNCHANGED <<Unread, status, answers, progress, pos>>

UserAborts(reason) ==
    /\ abort = "none" /\ main \notin {"done", "failed"}
    /\ abort' = reason
    /\ UNCHANGED <<calls, attempt, exec, kind, status, work, answers,
                   progress, hasErrored, loops, finals, main, mainLoop, pos,
                   delivered>>

---------------------------------------------------------------------------
ToolSteps ==
    \E t \in Calls : \/ LoopGoesOn(t) \/ Finally(t)
                     \/ Progress(t) \/ Result(t) \/ BreakLate(t)
                     \/ GeneratorEnds(t) \/ WorkEnds(t)

QuerySteps ==
    \/ AddTool \/ SkipTool
    \/ LoopBegins \/ MainLoopGoesOn \/ YieldResults \/ Wakes

\* What comes from outside, when the event loop turns: not while the query
\* loop goes from promise to promise, and after all reactions of promises.
Turns   == main \notin {"polls", "looping", "processing", "done", "failed"}
Settled == Turns /\ loops = {} /\ finals = {}

Events ==
    \/ \E k \in Kinds : MessageArrives(k)
    \/ OtherMessage \/ StreamEnds
    \/ StreamingFallback \/ ModelFallback \/ ModelFails
    \/ \E reason \in {"user", "interrupt"} : UserAborts(reason)

\* Nothing comes between a message's handling and the poll that follows it.  A tool's
\* updates may come in the turn of another's, whatever made both of them.
\* The model ends with the turn.
Next ==
    \/ Poll
    \/ main \notin {"polls", "done", "failed"} /\ (ToolSteps \/ QuerySteps)
    \/ Settled /\ Events

Spec == Init /\ [][Next]_vars

\* Promises go on, and a tool comes to its result if the event loop turns
\* again and again.  Nothing is promised of the stream and the user.
Fairness ==
    /\ WF_vars(Poll) /\ WF_vars(AddTool \/ SkipTool)
    /\ WF_vars(LoopBegins) /\ WF_vars(MainLoopGoesOn)
    /\ WF_vars(YieldResults) /\ WF_vars(Wakes)
    /\ \A t \in Calls :
          /\ WF_vars(LoopGoesOn(t)) /\ WF_vars(Finally(t))
          /\ WF_vars(GeneratorEnds(t))
          /\ SF_vars(Turns /\ Result(t))

FairSpec == Spec /\ Fairness

---------------------------------------------------------------------------
\* While a call that is not safe for concurrency works, no other call of its
\* executor does, even after one was broken off and works on unheard
\* (canExecuteTool, and the abort reasons, which never go away).
WorksAlone ==
    \A t, u \in Calls :
        /\ work[t] = "working" /\ kind[t] = "unsafe"
        /\ u # t /\ exec[u] = exec[t]
        => work[u] # "working"

\* Calls start in the order they were streamed, however many processQueue
\* loops run at once: nothing overtakes a queued call.
StartOrder ==
    \A t, u \in Calls :
        /\ t < u /\ exec[t] = exec[u] /\ kind[u] # "unknown"
        /\ status[t] = "queued"
        => status[u] \in {"none", "skipped", "queued"}

\* At the end of a turn every call of the last attempt has been answered, and
\* once (query.ts:1023).  Only an abort leaves calls without an answer, and
\* only an abort or a failed sibling gives one two.
AnsweredOnce ==
    main = "done" =>
        \A t \in 1..calls :
            exec[t] = attempt =>
                \/ delivered[t] = 1
                \/ delivered[t] = 0 /\ status[t] = "skipped" /\ abort # "none"
                \/ delivered[t] = 2 /\ (hasErrored \/ abort = "user")

\* After a fallback nothing of the discarded executor reaches the consumer,
\* and none of its queued calls starts to work (discard()).
DiscardedStaySilent ==
    [][\A t \in Calls :
          exec[t] < attempt =>
              /\ delivered'[t] = delivered[t]
              /\ work[t] = "none" => work'[t] = "none"]_vars

\* A result that is ready behind a running call which holds it back.
HeldBack ==
    \E t, u \in Calls :
        /\ t < u /\ exec[t] = attempt /\ exec[u] = attempt
        /\ status[t] = "executing" /\ kind[t] = "unsafe"
        /\ status[u] = "completed"

\* getRemainingResults comes to its end, unless it goes round and round over
\* a result that is held back, and keeps the call that holds it from ending.
RemainingReturns == (main = "looping") ~> (main = "done" \/ HeldBack)

\* It comes to its end (StreamingToolExecutor.ts:449).
RemainingAlwaysReturns == (main = "looping") ~> (main = "done")

=============================================================================
