---------------------------- MODULE QueryGuard ----------------------------
(***************************************************************************)
(* How the interactive program turns inputs into queries: the guard        *)
(* (utils/QueryGuard.ts), the queue of commands                            *)
(* (utils/messageQueueManager.ts) and the processor that empties it        *)
(* between queries, executeUserInput (utils/handlePromptSubmit.ts),        *)
(* onQuery and onCancel (screens/REPL.tsx), and the query loop's look at   *)
(* the queue (query.ts).                                                   *)
(*                                                                         *)
(* A turn is a call of executeUserInput, or of onQuery for a prompt from a *)
(* teammate.  It awaits processUserInput, and then its query.  Behind the  *)
(* query are only promises that are settled, and React renders in a task   *)
(* of its own (ink/reconciler.ts schedules no microtasks), so the end of a *)
(* query and the finally blocks are one step.                              *)
(*                                                                         *)
(* An input is of a kind, which says how it comes and is queued:           *)
(*   prompt   typed by the user, for the model                             *)
(*   local    a slash command that yields no message                       *)
(*   notice   a task's notification, after all user input                  *)
(*   meta     a cron job's hidden prompt, after all user input             *)
(*   mail     a teammate's prompt, which is never queued                   *)
(* A dialog that a slash command shows keeps the queue shut                *)
(* (hasActiveLocalJsxUI); it is left out, as if it were closed at once.    *)
(***************************************************************************)
EXTENDS Naturals, Sequences, FiniteSets

CONSTANTS
    Inputs,         \* the inputs of the session
    Kindings,       \* bound: the kinds they may have together
    MaxTurns,       \* bound on the turns that are under way at once
    MaxCancels      \* bound on how often the user presses Esc

Turns == 1..MaxTurns
Kinds == {"prompt", "local", "notice", "meta", "mail"}

ASSUME GuardAssumption ==
    /\ MaxTurns \in Nat /\ MaxCancels \in Nat
    /\ Kindings \subseteq [Inputs -> Kinds]

VARIABLES
    status,         \* QueryGuard._status
    generation,     \* QueryGuard._generation
    queue,          \* commandQueue
    kind,           \* a notice that is queued again becomes a prompt
    phase,          \* where each turn is
    cargo,          \* the inputs it was made for
    gen,            \* the generation its query was started in
    drain,          \* inputs its query attaches and has still to dequeue
    direct,         \* the turns without executeUserInput
    aborted,        \* the turns whose controller was aborted
    controller,     \* the turn whose controller Esc aborts, or 0
    cancels,        \* how often Esc was pressed
    arrived,        \* inputs that have come
    taken,          \* how often an input was given to the model
    ended,          \* inputs that needed no model, or were taken back
    dropped         \* history: inputs of a call that threw, or cleared away

vars == <<status, generation, queue, kind, phase, cargo, gen, drain, direct,
          aborted, controller, cancels, arrived, taken, ended, dropped>>

TypeOK ==
    /\ status \in {"idle", "dispatching", "running"} /\ generation \in Nat
    /\ queue \in Seq(Inputs) /\ kind \in [Inputs -> Kinds]
    /\ phase \in [Turns -> {"free", "processing", "querying"}]
    /\ cargo \in [Turns -> Seq(Inputs)] /\ gen \in [Turns -> Nat]
    /\ drain \in [Turns -> SUBSET Inputs]
    /\ direct \subseteq Turns /\ aborted \subseteq Turns
    /\ controller \in 0..MaxTurns /\ cancels \in 0..MaxCancels
    /\ arrived \subseteq Inputs /\ taken \in [Inputs -> Nat]
    /\ ended \subseteq arrived /\ dropped \subseteq arrived

Init ==
    /\ status = "idle" /\ generation = 0 /\ queue = <<>>
    /\ kind \in Kindings
    /\ phase = [t \in Turns |-> "free"] /\ cargo = [t \in Turns |-> <<>>]
    /\ gen = [t \in Turns |-> 0] /\ drain = [t \in Turns |-> {}]
    /\ direct = {} /\ aborted = {} /\ controller = 0 /\ cancels = 0
    /\ arrived = {} /\ taken = [i \in Inputs |-> 0] /\ ended = {} /\ dropped = {}

In(p)      == {t \in Turns : phase[t] = p}
Members(s) == {s[n] : n \in DOMAIN s}
TakenBy(S) == [i \in Inputs |-> IF i \in S THEN taken[i] + 1 ELSE taken[i]]
Untaken(S) == {i \in S : taken[i] = 0}

---------------------------------------------------------------------------
(* QueryGuard.                                                             *)

Reserved(st)  == IF st = "idle" THEN "dispatching" ELSE st
Cancelled(st) == IF st = "dispatching" THEN "idle" ELSE st

\* end(): only the query that is still current frees the guard.
Current(t) == status = "running" /\ gen[t] = generation
Ended(t)   == IF Current(t) THEN "idle" ELSE status

---------------------------------------------------------------------------
(* The queue.                                                              *)

Later(i) == kind[i] \in {"notice", "meta"}
Mode(i)  == IF kind[i] = "notice" THEN "task-notification" ELSE "prompt"

\* peek: the earliest command of the highest priority.
First(n) ==
    \A m \in DOMAIN queue \ {n} :
        IF Later(queue[m]) = Later(queue[n]) THEN n < m ELSE Later(queue[m])

\* Filtering: those of S, in their order.
Only(s, S) ==
    LET only[n \in 0..Len(s)] ==
            IF n = 0 THEN <<>>
            ELSE IF s[n] \in S THEN Append(only[n - 1], s[n]) ELSE only[n - 1]
    IN  only[Len(s)]

\* A slash command goes alone, anything else with all of its mode.
Batch(n) ==
    IF kind[queue[n]] = "local" THEN <<queue[n]>>
    ELSE Only(queue, {i \in Inputs : kind[i] # "local" /\ Mode(i) = Mode(queue[n])})

\* Commands are dequeued by reference: a query that has attached one finds it
\* no longer.
Dequeue(S) ==
    /\ queue' = Only(queue, Inputs \ S)
    /\ drain' = [t \in Turns |-> drain[t] \ S]

---------------------------------------------------------------------------
(* Turns.                                                                  *)

NewTurn(t) == phase[t] = "free" /\ \A u \in Turns : u < t => phase[u] # "free"

\* executeUserInput up to its await of processUserInput.
ExecuteUserInput(t, inputs) ==
    /\ NewTurn(t)
    /\ status' = Reserved(status)
    /\ phase' = [phase EXCEPT ![t] = "processing"]
    /\ cargo' = [cargo EXCEPT ![t] = inputs]
    /\ controller' = t /\ aborted' = aborted \ {t} /\ direct' = direct \ {t}
    /\ UNCHANGED <<generation, kind, gen, cancels, taken, ended, dropped>>

\* Fault: the guard is not asked.
SubmitAlways(t, i) ==
    /\ i \notin arrived /\ kind[i] \in {"prompt", "local"}
    /\ arrived' = arrived \cup {i}
    /\ ExecuteUserInput(t, <<i>>) /\ UNCHANGED <<queue, drain>>

\* handlePromptSubmit of what the user has typed.
Submit(t, i) ==
    /\ i \notin arrived /\ kind[i] \in {"prompt", "local"}
    /\ arrived' = arrived \cup {i}
    /\ IF status = "idle"
       THEN ExecuteUserInput(t, <<i>>) /\ UNCHANGED <<queue, drain>>
       ELSE /\ queue' = Append(queue, i)
            /\ UNCHANGED <<status, generation, kind, phase, cargo, gen, drain,
                           direct, aborted, controller, cancels, taken, ended,
                           dropped>>

\* enqueuePendingNotification.
Notify(i) ==
    /\ i \notin arrived /\ Later(i)
    /\ arrived' = arrived \cup {i} /\ queue' = Append(queue, i)
    /\ UNCHANGED <<status, generation, kind, phase, cargo, gen, drain, direct,
                   aborted, controller, cancels, taken, ended, dropped>>

\* useQueueProcessor's effect.
ProcessQueue(t) ==
    /\ status = "idle"
    /\ \E n \in DOMAIN queue :
          /\ First(n)
          /\ ExecuteUserInput(t, Batch(n))
          /\ Dequeue(Members(Batch(n)))
    /\ UNCHANGED arrived

\* handleIncomingPrompt: at once, or not at all.
IncomingPrompt(t, i) ==
    /\ i \notin arrived /\ kind[i] = "mail"
    /\ status = "idle" /\ \A j \in Members(queue) : Mode(j) # "prompt"
    /\ NewTurn(t)
    /\ status' = "running" /\ generation' = generation + 1
    /\ phase' = [phase EXCEPT ![t] = "querying"]
    /\ cargo' = [cargo EXCEPT ![t] = <<i>>]
    /\ gen' = [gen EXCEPT ![t] = generation + 1]
    /\ controller' = t /\ aborted' = aborted \ {t}
    /\ direct' = direct \cup {t}
    /\ arrived' = arrived \cup {i} /\ taken' = TakenBy({i})
    /\ UNCHANGED <<queue, kind, drain, cancels, ended, dropped>>

\* processUserInput returned no message: the reservation is cancelled, twice.
LocalReturns(t) ==
    /\ phase[t] = "processing"
    /\ \A i \in Members(cargo[t]) : kind[i] = "local"
    /\ status' = Cancelled(status) /\ controller' = 0
    /\ phase' = [phase EXCEPT ![t] = "free"]
    /\ ended' = ended \cup Members(cargo[t])
    /\ UNCHANGED <<generation, queue, kind, cargo, gen, drain, direct, aborted,
                   cancels, arrived, taken, dropped>>

\* Fault: no finally.
ProcessingThrowsHolding(t) ==
    /\ phase[t] = "processing"
    /\ phase' = [phase EXCEPT ![t] = "free"]
    /\ dropped' = dropped \cup Members(cargo[t])
    /\ UNCHANGED <<status, generation, queue, kind, cargo, gen, drain, direct,
                   aborted, controller, cancels, arrived, taken, ended>>

\* It throws: the finally frees the guard, and nobody has the inputs any more.
ProcessingThrows(t) ==
    /\ phase[t] = "processing"
    /\ status' = Cancelled(status)
    /\ phase' = [phase EXCEPT ![t] = "free"]
    /\ dropped' = dropped \cup Members(cargo[t])
    /\ UNCHANGED <<generation, queue, kind, cargo, gen, drain, direct, aborted,
                   controller, cancels, arrived, taken, ended>>

\* It returned messages: onQuery, with a guard that is free to start ...
StartQuery(t) ==
    /\ phase[t] = "processing" /\ status # "running"
    /\ \E i \in Members(cargo[t]) : kind[i] # "local"
    /\ status' = "running" /\ generation' = generation + 1
    /\ gen' = [gen EXCEPT ![t] = generation + 1]
    /\ phase' = [phase EXCEPT ![t] = "querying"]
    /\ taken' = TakenBy(Members(cargo[t]))
    /\ UNCHANGED <<queue, kind, cargo, drain, direct, aborted, controller,
                   cancels, arrived, ended, dropped>>

\* Fault: only the first text is queued again.
RequeueFirst(t) ==
    /\ phase[t] = "processing" /\ status = "running"
    /\ \E i \in Members(cargo[t]) : kind[i] # "local"
    /\ phase' = [phase EXCEPT ![t] = "free"]
    /\ queue' = queue \o SubSeq(cargo[t], 1, 1)
    /\ UNCHANGED <<status, generation, kind, cargo, gen, drain, direct, aborted,
                   controller, cancels, arrived, taken, ended, dropped>>

\* ... or with another query running: the texts are queued again, but for
\* hidden ones.
Requeue(t) ==
    /\ phase[t] = "processing" /\ status = "running"
    /\ \E i \in Members(cargo[t]) : kind[i] # "local"
    /\ phase' = [phase EXCEPT ![t] = "free"]
    /\ LET texts == Only(cargo[t], {i \in Inputs : kind[i] # "meta"})
       IN  /\ queue' = queue \o texts
           /\ kind' = [i \in Inputs |-> IF i \in Members(texts) THEN "prompt"
                                        ELSE kind[i]]
    /\ UNCHANGED <<status, generation, cargo, gen, drain, direct, aborted,
                   controller, cancels, arrived, taken, ended, dropped>>

\* Between two requests the query loop attaches what the queue holds, without
\* slash commands, with or without what may come later; awaits; and dequeues.
\* An error on the way to an attachment is swallowed, and the model gets none.
Attach(t) ==
    /\ phase[t] = "querying" /\ t \notin aborted /\ drain[t] = {}
    /\ \E later \in BOOLEAN :
          LET all == {i \in Members(queue) : kind[i] # "local" /\ (later \/ ~Later(i))}
          IN  /\ all # {}
              /\ drain' = [drain EXCEPT ![t] = all]
              /\ taken' \in {TakenBy(all), taken}
    /\ UNCHANGED <<status, generation, queue, kind, phase, cargo, gen, direct,
                   aborted, controller, cancels, arrived, ended, dropped>>

\* Fault: what was attached stays in the queue.
AttachedKept(t) ==
    /\ phase[t] = "querying" /\ drain[t] # {}
    /\ drain' = [drain EXCEPT ![t] = {}]
    /\ UNCHANGED <<status, generation, queue, kind, phase, cargo, gen, direct,
                   aborted, controller, cancels, arrived, taken, ended,
                   dropped>>

Attached(t) ==
    /\ phase[t] = "querying" /\ drain[t] # {}
    /\ Dequeue(drain[t])
    /\ dropped' = dropped \cup Untaken(drain[t])
    /\ UNCHANGED <<status, generation, kind, phase, cargo, gen, direct, aborted,
                   controller, cancels, arrived, taken, ended>>

\* onQuery's finally, and that of executeUserInput.
QueryEnds(t) ==
    /\ phase[t] = "querying" /\ drain[t] = {}
    /\ status' = IF t \in direct THEN Ended(t) ELSE Cancelled(Ended(t))
    /\ controller' = IF Current(t) THEN 0 ELSE controller
    /\ phase' = [phase EXCEPT ![t] = "free"]
    /\ UNCHANGED <<generation, queue, kind, cargo, gen, drain, direct, aborted,
                   cancels, arrived, taken, ended, dropped>>

---------------------------------------------------------------------------
(* The user's hand on it.                                                  *)

\* Esc, while there is a controller that was not aborted: onCancel, forceEnd.
Cancel ==
    /\ controller # 0 /\ controller \notin aborted /\ cancels < MaxCancels
    /\ cancels' = cancels + 1
    /\ status' = "idle"
    /\ generation' = IF status = "idle" THEN generation ELSE generation + 1
    /\ aborted' = aborted \cup {controller} /\ controller' = 0
    /\ UNCHANGED <<queue, kind, phase, cargo, gen, drain, direct, arrived, taken,
                   ended, dropped>>

\* popAllEditable: the user takes back what he has queued.
PopAllEditable ==
    LET editable == {i \in Members(queue) : ~Later(i)}
    IN  /\ editable # {}
        /\ Dequeue(editable) /\ ended' = ended \cup editable
        /\ UNCHANGED <<status, generation, kind, phase, cargo, gen, direct,
                       aborted, controller, cancels, arrived, taken, dropped>>

\* The second press of chat:killAgents while agents run in the background:
\* clearCommandQueue, and then one notice of all the agents killed.
KillAgents(i) ==
    /\ i \notin arrived /\ kind[i] = "notice"
    /\ dropped' = dropped \cup Untaken(Members(queue))
    /\ arrived' = arrived \cup {i} /\ queue' = <<i>>
    /\ drain' = [t \in Turns |-> {}]
    /\ UNCHANGED <<status, generation, kind, phase, cargo, gen, direct, aborted,
                   controller, cancels, taken, ended>>

---------------------------------------------------------------------------
TurnSteps(t) ==
    \/ LocalReturns(t) \/ ProcessingThrows(t) \/ StartQuery(t) \/ Requeue(t)
    \/ Attach(t) \/ Attached(t) \/ QueryEnds(t)

Next ==
    \/ \E t \in Turns :
          \/ ProcessQueue(t) \/ TurnSteps(t)
          \/ \E i \in Inputs : Submit(t, i) \/ IncomingPrompt(t, i)
    \/ \E i \in Inputs : Notify(i) \/ KillAgents(i)
    \/ Cancel \/ PopAllEditable

Spec == Init /\ [][Next]_vars

\* The effect runs, input is processed, and queries end, by themselves or
\* because they are aborted.  Nothing is promised of the user, but that a
\* dialog of a slash command does not stay open (see above).
Fairness ==
    \A t \in Turns :
        /\ WF_vars(ProcessQueue(t))
        /\ WF_vars(LocalReturns(t) \/ StartQuery(t) \/ Requeue(t))
        /\ WF_vars(Attached(t)) /\ SF_vars(QueryEnds(t))

FairSpec == Spec /\ Fairness

---------------------------------------------------------------------------
\* The guard is never held by nobody, which would keep the queue shut for
\* ever; a query that is current holds it, whatever the finally blocks of
\* cancelled ones do after it has begun (end, forceEnd); and as long as nobody
\* presses Esc there is one turn at a time, which holds it throughout.
GuardHeld ==
    /\ status = "dispatching" => In("processing") # {}
    /\ status = "running" <=> \E t \in In("querying") : gen[t] = generation
    /\ cancels = 0 =>
          /\ \A t, u \in Turns : phase[t] # "free" /\ phase[u] # "free" => t = u
          /\ In("processing") # {} => status = "dispatching"
          /\ In("querying") # {} => status = "running"

\* No input vanishes between queue, turns and the queue again, and there are
\* four ways in which the code drops one.  `dropped` names three of them:
\* processUserInput threw, with the whole batch of its turn (executeUserInput
\* has no catch); an error while it was attached was swallowed, and it was
\* dequeued all the same; the user killed the agents, which clears the queue
\* of prompts, too.  The fourth is a hidden prompt that met another turn after
\* an Esc (onQuery's concurrent guard).
NothingLost ==
    \A i \in arrived :
        \/ i \in Members(queue) \/ i \in ended \/ taken[i] > 0
        \/ \E t \in In("processing") : i \in Members(cargo[t])
        \/ i \in dropped
        \/ kind[i] = "meta" /\ cancels > 0

\* As long as nobody presses Esc no input reaches the model twice, though a
\* query attaches commands some time before it dequeues them.
TakenOnce == cancels = 0 => \A i \in Inputs : taken[i] <= 1

\* What is queued is taken out of the queue.
Served == \A i \in Inputs : i \in Members(queue) ~> i \notin Members(queue)

=============================================================================
