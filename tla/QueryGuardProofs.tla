-------------------------- MODULE QueryGuardProofs --------------------------
(***************************************************************************)
(* Proofs about QueryGuard, for any inputs of any kinds, any number of     *)
(* turns and of cancellations: that the guard is held when and only when   *)
(* somebody is there to give it back, and that without an Esc one turn at  *)
(* a time holds it throughout; that an input is lost between the queue and *)
(* the turns in four ways and no other; and that without an Esc none is    *)
(* given to the model twice.                                               *)
(*                                                                         *)
(* The last two rest on what a filter leaves of a sequence, which is shown *)
(* by the least number principle: no least prefix has a wrong filter.      *)
(***************************************************************************)
EXTENDS QueryGuard, TLAPS, WellFoundedInduction

\* The types of what the guard is about.
GuardTypeOK ==
    /\ status \in {"idle", "dispatching", "running"} /\ generation \in Nat
    /\ phase \in [Turns -> {"free", "processing", "querying"}]
    /\ gen \in [Turns -> Nat] /\ cancels \in 0..MaxCancels

\* Queries are numbered as they start, each by a number of its own.
QueriesNumbered ==
    /\ \A t \in In("querying") : gen[t] <= generation
    /\ \A t, u \in In("querying") : gen[t] = gen[u] => t = u

\* What only a cancellation can change: one turn at a time.
OneTurnHolds ==
    cancels = 0 =>
        /\ \A t, u \in Turns : phase[t] # "free" /\ phase[u] # "free" => t = u
        /\ In("processing") # {} => status = "dispatching"
        /\ In("querying") # {} => status = "running"

DispatchedBySome == status = "dispatching" => In("processing") # {}
RunningIsCurrent ==
    status = "running" <=> \E t \in In("querying") : gen[t] = generation

IInv == GuardTypeOK /\ QueriesNumbered /\ DispatchedBySome /\ RunningIsCurrent
                    /\ OneTurnHolds

USE GuardAssumption

----------------------------------------------------------------------------
LEMMA InitInv == Init => IInv
BY DEF Init, IInv, GuardTypeOK, QueriesNumbered, DispatchedBySome,
       RunningIsCurrent, OneTurnHolds, In

\* The steps that leave the guard and the turns alone.
LEMMA GuardUnchanged ==
    ASSUME IInv, UNCHANGED <<status, generation, phase, gen, cancels>>
    PROVE  IInv'
BY DEF IInv, GuardTypeOK, QueriesNumbered, DispatchedBySome, RunningIsCurrent,
       OneTurnHolds, In

\* A turn begins by reserving the guard that it has found idle.
LEMMA ExecuteInv ==
    ASSUME IInv, NEW t \in Turns, NEW inputs, status = "idle",
           ExecuteUserInput(t, inputs)
    PROVE  IInv'
BY DEF IInv, GuardTypeOK, QueriesNumbered, DispatchedBySome, RunningIsCurrent,
       OneTurnHolds, In, ExecuteUserInput, NewTurn, Reserved

\* A query starts: tryStart, on a guard that no query holds.
LEMMA StartInv ==
    ASSUME IInv, NEW t \in Turns, status # "running", phase[t] # "querying",
           phase[t] = "processing" \/ status = "idle",
           status' = "running", generation' = generation + 1,
           gen' = [gen EXCEPT ![t] = generation + 1],
           phase' = [phase EXCEPT ![t] = "querying"], cancels' = cancels
    PROVE  IInv'
<1> USE DEF IInv, In
<1>1. GuardTypeOK'
  BY DEF GuardTypeOK
<1>2. QueriesNumbered'
  BY DEF GuardTypeOK, QueriesNumbered
<1>3. DispatchedBySome' /\ RunningIsCurrent'
  BY DEF GuardTypeOK, DispatchedBySome, RunningIsCurrent
<1>4. OneTurnHolds'
  BY DEF GuardTypeOK, OneTurnHolds
<1> QED
  BY <1>1, <1>2, <1>3, <1>4

\* A turn that only processed input leaves, with no reservation behind it.
LEMMA LeaveInv ==
    ASSUME IInv, NEW t \in Turns, phase[t] = "processing",
           \/ status' = Cancelled(status)
           \/ status' = status /\ status = "running",
           phase' = [phase EXCEPT ![t] = "free"],
           UNCHANGED <<generation, gen, cancels>>
    PROVE  IInv'
<1> USE DEF IInv, In, Cancelled
<1>1. GuardTypeOK' /\ QueriesNumbered'
  BY DEF GuardTypeOK, QueriesNumbered
<1>2. DispatchedBySome' /\ RunningIsCurrent'
  BY DEF GuardTypeOK, DispatchedBySome, RunningIsCurrent
<1>3. OneTurnHolds'
  BY DEF GuardTypeOK, OneTurnHolds
<1> QED
  BY <1>1, <1>2, <1>3

\* end() and the finally blocks: only the query that is current takes the
\* guard from `running'.
LEMMA QueryEndsInv ==
    ASSUME IInv, NEW t \in Turns, QueryEnds(t)
    PROVE  IInv'
<1> USE DEF IInv, In, QueryEnds, Ended, Cancelled, Current
<1>1. GuardTypeOK' /\ QueriesNumbered'
  BY DEF GuardTypeOK, QueriesNumbered
<1>2. DispatchedBySome'
  BY DEF GuardTypeOK, DispatchedBySome
<1>3. RunningIsCurrent'
  <2>1. CASE Current(t)
    BY <2>1 DEF GuardTypeOK, QueriesNumbered, RunningIsCurrent
  <2>2. CASE ~Current(t)
    BY <2>2 DEF GuardTypeOK, RunningIsCurrent
  <2> QED
    BY <2>1, <2>2
<1>4. OneTurnHolds'
  BY DEF GuardTypeOK, OneTurnHolds
<1> QED
  BY <1>1, <1>2, <1>3, <1>4

\* forceEnd makes every query that runs a past one.
LEMMA CancelInv ==
    ASSUME IInv, Cancel
    PROVE  IInv'
<1> USE DEF IInv, In, Cancel
<1>1. GuardTypeOK' /\ OneTurnHolds'
  BY DEF GuardTypeOK, OneTurnHolds
<1>2. QueriesNumbered' /\ DispatchedBySome'
  BY DEF GuardTypeOK, QueriesNumbered, DispatchedBySome
<1>3. RunningIsCurrent'
  BY DEF GuardTypeOK, QueriesNumbered, RunningIsCurrent
<1> QED
  BY <1>1, <1>2, <1>3

LEMMA StepInv == IInv /\ [Next]_vars => IInv'
<1> SUFFICES ASSUME IInv, [Next]_vars PROVE IInv'
  OBVIOUS
<1>1. ASSUME NEW t \in Turns, ProcessQueue(t) PROVE IInv'
  BY <1>1, ExecuteInv DEF ProcessQueue
<1>2. ASSUME NEW t \in Turns, LocalReturns(t) \/ ProcessingThrows(t) PROVE IInv'
  BY <1>2, LeaveInv DEF LocalReturns, ProcessingThrows
<1>3. ASSUME NEW t \in Turns, StartQuery(t) PROVE IInv'
  BY <1>3, StartInv DEF StartQuery
<1>4. ASSUME NEW t \in Turns, Requeue(t) PROVE IInv'
  BY <1>4, LeaveInv DEF Requeue
<1>5. ASSUME NEW t \in Turns, Attach(t) \/ Attached(t) PROVE IInv'
  BY <1>5, GuardUnchanged DEF Attach, Attached
<1>6. ASSUME NEW t \in Turns, QueryEnds(t) PROVE IInv'
  BY <1>6, QueryEndsInv
<1>7. ASSUME NEW t \in Turns, NEW i \in Inputs, Submit(t, i) PROVE IInv'
  BY <1>7, ExecuteInv, GuardUnchanged DEF Submit
<1>8. ASSUME NEW t \in Turns, NEW i \in Inputs, IncomingPrompt(t, i) PROVE IInv'
  BY <1>8, StartInv DEF IncomingPrompt, NewTurn
<1>9. ASSUME NEW i \in Inputs, Notify(i) \/ KillAgents(i) PROVE IInv'
  BY <1>9, GuardUnchanged DEF Notify, KillAgents
<1>10. CASE Cancel
  BY <1>10, CancelInv
<1>11. CASE PopAllEditable
  BY <1>11, GuardUnchanged DEF PopAllEditable
<1>12. CASE UNCHANGED vars
  BY <1>12, GuardUnchanged DEF vars
<1> QED
  BY <1>1, <1>2, <1>3, <1>4, <1>5, <1>6, <1>7, <1>8, <1>9, <1>10, <1>11, <1>12
     DEF Next, TurnSteps

(* The guard is never held by nobody, a query that is current holds it, and*)
(* without an Esc one turn at a time holds it throughout: for any number of*)
(* turns that are cancelled and of finally blocks that come late.          *)
THEOREM GuardIsHeld == Spec => []GuardHeld
<1>1. Spec => []IInv
  BY InitInv, StepInv, PTL DEF Spec
<1>2. IInv => GuardHeld
  BY DEF IInv, GuardHeld, DispatchedBySome, RunningIsCurrent, OneTurnHolds
<1> QED
  BY <1>1, <1>2, PTL

----------------------------------------------------------------------------
(* Sequences: their members, and the filter.                               *)

\* The least number principle.
LEMMA LeastOf ==
    ASSUME NEW S \in SUBSET Nat, S # {}
    PROVE  \E m \in S : \A n \in S : m <= n
<1>1. IsWellFoundedOn(OpToRel(<, Nat), Nat)
  BY NatLessThanWellFounded
<1>2. PICK m \in S : \A n \in S : <<n, m>> \notin OpToRel(<, Nat)
  BY <1>1, WFMin
<1>3. \A n \in S : ~(n < m)
  BY <1>2 DEF OpToRel
<1> QED
  BY <1>3

\* What the filter is of the first elements of a sequence.
Filters(f, s, S, k) ==
    /\ f \in [0..k -> Seq(Inputs)]
    /\ \A n \in 0..k :
          f[n] = IF n = 0 THEN <<>>
                 ELSE IF s[n] \in S THEN Append(f[n - 1], s[n]) ELSE f[n - 1]

\* The filter is defined: its recursion has a solution.
LEMMA OnlyDefined ==
    ASSUME NEW s \in Seq(Inputs), NEW S
    PROVE  \E f : Filters(f, s, S, Len(s))
<1> DEFINE Solved(k) == \E f : Filters(f, s, S, k)
           Missing == {k \in 0..Len(s) : ~Solved(k)}
<1>0. Solved(0)
  <2> DEFINE f == [n \in 0..0 |-> <<>>]
  <2>1. Filters(f, s, S, 0)
    BY DEF Filters
  <2> QED
    BY <2>1
<1>1. ASSUME NEW k \in 1..Len(s), Solved(k - 1) PROVE Solved(k)
  <2>1. PICK f : Filters(f, s, S, k - 1)
    BY <1>1
  <2>2. /\ f \in [0..(k - 1) -> Seq(Inputs)]
        /\ \A n \in 0..(k - 1) :
              f[n] = IF n = 0 THEN <<>>
                     ELSE IF s[n] \in S THEN Append(f[n - 1], s[n]) ELSE f[n - 1]
    BY <2>1 DEF Filters
  <2> DEFINE v == IF s[k] \in S THEN Append(f[k - 1], s[k]) ELSE f[k - 1]
             g == [n \in 0..k |-> IF n = k THEN v ELSE f[n]]
  <2>3. v \in Seq(Inputs)
    <3>1. k - 1 \in 0..(k - 1) /\ s[k] \in Inputs
      OBVIOUS
    <3> QED
      BY <2>2, <3>1
  <2>4. \A n \in 0..k : n = k \/ n \in 0..(k - 1)
    OBVIOUS
  <2>5. g \in [0..k -> Seq(Inputs)]
    BY <2>2, <2>3, <2>4
  <2>6. ASSUME NEW n \in 0..k
        PROVE  g[n] = IF n = 0 THEN <<>>
                      ELSE IF s[n] \in S THEN Append(g[n - 1], s[n]) ELSE g[n - 1]
    <3>1. n # 0 => n - 1 \in 0..(k - 1) /\ g[n - 1] = f[n - 1]
      OBVIOUS
    <3>2. CASE n = k
      BY <3>1, <3>2
    <3>3. CASE n # k
      <4>1. g[n] = f[n] /\ n \in 0..(k - 1)
        BY <2>4, <3>3
      <4> HIDE DEF g
      <4> QED
        BY <2>2, <3>1, <4>1
    <3> QED
      BY <3>2, <3>3
  <2> QED
    BY <2>5, <2>6 DEF Filters
<1>2. SUFFICES ASSUME Missing # {} PROVE FALSE
  <2>1. Len(s) \in 0..Len(s)
    OBVIOUS
  <2> QED
    BY <2>1
<1> HIDE DEF Solved
<1>3. PICK m \in Missing : \A n \in Missing : m <= n
  <2>1. Missing \in SUBSET Nat
    OBVIOUS
  <2> HIDE DEF Missing
  <2> QED
    BY <1>2, <2>1, LeastOf
<1>4. m # 0 /\ m - 1 \in 0..Len(s)
  BY <1>0
<1>5. Solved(m - 1)
  BY <1>3, <1>4
<1> QED
  BY <1>1, <1>4, <1>5

LEMMA OnlyRecursive ==
    ASSUME NEW s \in Seq(Inputs), NEW S
    PROVE  \E f : Filters(f, s, S, Len(s)) /\ Only(s, S) = f[Len(s)]
<1>1. PICK f : Filters(f, s, S, Len(s))
  BY OnlyDefined
<1>2. f = [n \in 0..Len(s) |->
              IF n = 0 THEN <<>>
              ELSE IF s[n] \in S THEN Append(f[n - 1], s[n]) ELSE f[n - 1]]
  BY <1>1 DEF Filters
<1> DEFINE only[n \in 0..Len(s)] ==
             IF n = 0 THEN <<>>
             ELSE IF s[n] \in S THEN Append(only[n - 1], s[n]) ELSE only[n - 1]
<1>3. only = [n \in 0..Len(s) |->
              IF n = 0 THEN <<>>
              ELSE IF s[n] \in S THEN Append(only[n - 1], s[n]) ELSE only[n - 1]]
  BY <1>2
<1>4. Only(s, S) = only[Len(s)]
  BY DEF Only
<1> HIDE DEF only
<1>5. \A n \in 0..Len(s) :
         only[n] = IF n = 0 THEN <<>>
                   ELSE IF s[n] \in S THEN Append(only[n - 1], s[n]) ELSE only[n - 1]
  BY <1>3
<1> DEFINE Same(n) == only[n] = f[n]
           Odd == {n \in 0..Len(s) : ~Same(n)}
<1>6. Len(s) \notin Odd
  <2>1. SUFFICES ASSUME Odd # {} PROVE FALSE
    OBVIOUS
  <2>2. PICK m \in Odd : \A n \in Odd : m <= n
    <3>1. Odd \in SUBSET Nat
      OBVIOUS
    <3> HIDE DEF Odd
    <3> QED
      BY <2>1, <3>1, LeastOf
  <2>3. m # 0
    BY <1>1, <1>5 DEF Filters
  <2>4. m - 1 \in 0..Len(s) /\ Same(m - 1)
    BY <2>2, <2>3
  <2> QED
    BY <1>1, <1>5, <2>3, <2>4 DEF Filters
<1> QED
  BY <1>1, <1>4, <1>6

LEMMA MembersAppend ==
    ASSUME NEW s \in Seq(Inputs), NEW i \in Inputs
    PROVE  Members(Append(s, i)) = Members(s) \cup {i}
<1> DEFINE t == Append(s, i)
<1>1. /\ DOMAIN s = 1..Len(s) /\ DOMAIN t = 1..(Len(s) + 1)
      /\ t[Len(s) + 1] = i /\ \A n \in 1..Len(s) : t[n] = s[n]
  OBVIOUS
<1>2. Len(s) \in Nat
  OBVIOUS
<1> HIDE DEF t
<1>3. Members(t) = Members(s) \cup {i}
  BY <1>1, <1>2 DEF Members
<1> QED
  BY <1>3 DEF t

\* What it leaves: of the members of s, those in S.
LEMMA OnlyMembers ==
    ASSUME NEW s \in Seq(Inputs), NEW S
    PROVE  Only(s, S) \in Seq(Inputs) /\ Members(Only(s, S)) = Members(s) \cap S
<1>1. PICK f : Filters(f, s, S, Len(s)) /\ Only(s, S) = f[Len(s)]
  BY OnlyRecursive
<1> DEFINE Right(k) == Members(f[k]) = {s[n] : n \in 1..k} \cap S
           Wrong == {k \in 0..Len(s) : ~Right(k)}
<1>2. Right(0)
  BY <1>1 DEF Filters, Members
<1>3. ASSUME NEW k \in 1..Len(s), Right(k - 1) PROVE Right(k)
  <2>1. f[k - 1] \in Seq(Inputs) /\ s[k] \in Inputs
    <3>1. k - 1 \in 0..Len(s) /\ s[k] \in Inputs
      OBVIOUS
    <3> QED
      BY <1>1, <3>1 DEF Filters
  <2>2. {s[n] : n \in 1..k} = {s[n] : n \in 1..(k - 1)} \cup {s[k]}
    OBVIOUS
  <2>3. CASE s[k] \in S
    <3>1. f[k] = Append(f[k - 1], s[k])
      BY <1>1, <2>3 DEF Filters
    <3>2. Members(f[k]) = Members(f[k - 1]) \cup {s[k]}
      BY <2>1, <3>1, MembersAppend
    <3> QED
      BY <1>3, <2>2, <2>3, <3>2
  <2>4. CASE s[k] \notin S
    <3>1. f[k] = f[k - 1]
      BY <1>1, <2>4 DEF Filters
    <3> QED
      BY <1>3, <2>2, <2>4, <3>1
  <2> QED
    BY <2>3, <2>4
<1>4. Right(Len(s))
  <2>1. SUFFICES ASSUME Wrong # {} PROVE FALSE
    <3>1. Len(s) \in 0..Len(s)
      OBVIOUS
    <3> QED
      BY <3>1
  <2> HIDE DEF Right
  <2>2. PICK m \in Wrong : \A n \in Wrong : m <= n
    <3>1. Wrong \in SUBSET Nat
      OBVIOUS
    <3> HIDE DEF Wrong
    <3> QED
      BY <2>1, <3>1, LeastOf
  <2>3. m # 0 /\ m - 1 \in 0..Len(s)
    BY <1>2
  <2>4. Right(m - 1)
    BY <2>2, <2>3
  <2> QED
    BY <1>3, <2>3, <2>4
<1>5. {s[n] : n \in 1..Len(s)} = Members(s)
  BY DEF Members
<1>6. Only(s, S) \in Seq(Inputs)
  BY <1>1 DEF Filters
<1> QED
  BY <1>1, <1>4, <1>5, <1>6

LEMMA MembersConcat ==
    ASSUME NEW s \in Seq(Inputs), NEW r \in Seq(Inputs)
    PROVE  s \o r \in Seq(Inputs) /\ Members(s \o r) = Members(s) \cup Members(r)
<1> DEFINE t == s \o r
           L == Len(s)
           R == Len(r)
<1>1. /\ DOMAIN s = 1..L /\ DOMAIN r = 1..R /\ DOMAIN t = 1..(L + R)
      /\ \A n \in 1..L : t[n] = s[n]
      /\ \A n \in 1..R : t[L + n] = r[n]
  OBVIOUS
<1>2. L \in Nat /\ R \in Nat /\ t \in Seq(Inputs)
  OBVIOUS
<1> HIDE DEF t, L, R
<1>3. /\ \A n \in 1..L : n \in 1..(L + R)
      /\ \A n \in 1..R : L + n \in 1..(L + R)
      /\ \A n \in 1..(L + R) : n \in 1..L \/ \E m \in 1..R : n = L + m
  <2>1. ASSUME NEW n \in 1..(L + R), n \notin 1..L PROVE \E m \in 1..R : n = L + m
    <3>1. n - L \in 1..R /\ n = L + (n - L)
      BY <1>2, <2>1
    <3> QED
      BY <3>1
  <2> QED
    BY <1>2, <2>1
<1>4. Members(s) \cup Members(r) \subseteq Members(t)
  BY <1>1, <1>3 DEF Members
<1>5. Members(t) \subseteq Members(s) \cup Members(r)
  BY <1>1, <1>3 DEF Members
<1> QED
  BY <1>2, <1>4, <1>5 DEF t

LEMMA MembersOne == \A i \in Inputs : <<i>> \in Seq(Inputs) /\ Members(<<i>>) = {i}
<1> SUFFICES ASSUME NEW i \in Inputs PROVE <<i>> \in Seq(Inputs) /\ Members(<<i>>) = {i}
  OBVIOUS
<1>1. DOMAIN <<i>> = {1} /\ <<i>>[1] = i
  OBVIOUS
<1> QED
  BY <1>1 DEF Members

\* What a sequence of inputs has for members.
LEMMA MembersAre ==
    ASSUME NEW s \in Seq(Inputs)
    PROVE  /\ Members(s) \subseteq Inputs
           /\ \A n \in DOMAIN s : s[n] \in Members(s)
BY DEF Members

----------------------------------------------------------------------------
(* The inputs.                                                             *)

\* The types of what the inputs are in.
InputsTypeOK ==
    /\ queue \in Seq(Inputs) /\ cargo \in [Turns -> Seq(Inputs)]
    /\ kind \in [Inputs -> Kinds] /\ drain \in [Turns -> SUBSET Inputs]
    /\ arrived \subseteq Inputs /\ taken \in [Inputs -> Nat]

\* What is queued, processed or taken has come.
InputsKnown ==
    /\ Members(queue) \subseteq arrived
    /\ \A t \in In("processing") : Members(cargo[t]) \subseteq arrived
    /\ \A i \in Inputs : taken[i] > 0 => i \in arrived

\* Only queries attach.
DrainsKnown == \A t \in Turns : drain[t] # {} => phase[t] = "querying"

\* Without an Esc, what is processed is nowhere else, and what is queued and
\* was taken is attached.
OnePlace ==
    cancels = 0 =>
        /\ \A t \in In("processing") : \A i \in Members(cargo[t]) :
              taken[i] = 0 /\ i \notin Members(queue)
        /\ \A i \in Members(queue) : taken[i] > 0 => \E t \in Turns : i \in drain[t]

QueueInv == InputsTypeOK /\ InputsKnown /\ DrainsKnown /\ OnePlace /\ NothingLost /\ TakenOnce

LEMMA InitQueue == Init => QueueInv
<1> SUFFICES ASSUME Init PROVE QueueInv
  OBVIOUS
<1> USE DEF Init
<1>1. InputsTypeOK
  BY DEF InputsTypeOK
<1>2. Members(queue) = {}
  BY DEF Members
<1> QED
  BY <1>1, <1>2 DEF QueueInv, InputsKnown, DrainsKnown, OnePlace, NothingLost, TakenOnce, In

\* Taking commands out of the queue.
LEMMA Dequeued ==
    ASSUME InputsTypeOK, NEW S, Dequeue(S)
    PROVE  /\ queue' \in Seq(Inputs) /\ Members(queue)' = Members(queue) \ S
           /\ drain' \in [Turns -> SUBSET Inputs]
           /\ \A t \in Turns : drain'[t] = drain[t] \ S
<1>1. queue' \in Seq(Inputs) /\ Members(queue') = Members(queue) \cap (Inputs \ S)
  BY OnlyMembers DEF Dequeue, InputsTypeOK
<1>2. Members(queue) \subseteq Inputs
  BY MembersAre DEF InputsTypeOK
<1>3. drain' \in [Turns -> SUBSET Inputs] /\ \A t \in Turns : drain'[t] = drain[t] \ S
  BY DEF Dequeue, InputsTypeOK
<1> QED
  BY <1>1, <1>2, <1>3

LEMMA Enqueued ==
    ASSUME InputsTypeOK, NEW i \in Inputs, queue' = Append(queue, i)
    PROVE  queue' \in Seq(Inputs) /\ Members(queue)' = Members(queue) \cup {i}
<1>1. queue' \in Seq(Inputs)
  BY DEF InputsTypeOK
<1> QED
  BY <1>1, MembersAppend DEF InputsTypeOK

\* An input comes and is queued.
LEMMA EnqueueQueue ==
    ASSUME IInv, QueueInv, NEW i \in Inputs, i \notin arrived,
           arrived' = arrived \cup {i}, queue' = Append(queue, i),
           UNCHANGED <<kind, phase, cargo, drain, cancels, taken, ended, dropped>>
    PROVE  QueueInv'
<1> USE DEF QueueInv
<1>1. queue' \in Seq(Inputs) /\ Members(queue)' = Members(queue) \cup {i}
  BY Enqueued
<1>2. InputsTypeOK'
  BY <1>1 DEF InputsTypeOK
<1>3. taken[i] = 0
  BY DEF InputsKnown, InputsTypeOK
<1>4. InputsKnown' /\ DrainsKnown' /\ TakenOnce'
  BY <1>1 DEF InputsKnown, DrainsKnown, TakenOnce, In
<1>5. OnePlace'
  BY <1>1, <1>3 DEF OnePlace, InputsKnown, In
<1>6. NothingLost'
  BY <1>1 DEF NothingLost, In
<1> QED
  BY <1>2, <1>4, <1>5, <1>6

\* The agents are killed: nothing is queued any more but the notice of it.
LEMMA KillQueue ==
    ASSUME IInv, QueueInv, NEW i \in Inputs, KillAgents(i)
    PROVE  QueueInv'
<1> USE DEF QueueInv
<1>1. /\ i \notin arrived /\ arrived' = arrived \cup {i} /\ queue' = <<i>>
      /\ drain' = [t \in Turns |-> {}]
      /\ dropped' = dropped \cup Untaken(Members(queue))
      /\ UNCHANGED <<kind, phase, cargo, cancels, taken, ended>>
  BY DEF KillAgents
<1>2. queue' \in Seq(Inputs) /\ Members(queue)' = {i}
  BY <1>1, MembersOne
<1>3. InputsTypeOK'
  BY <1>1, <1>2 DEF InputsTypeOK
<1>4. taken[i] = 0
  BY <1>1 DEF InputsKnown, InputsTypeOK
<1>5. InputsKnown' /\ DrainsKnown' /\ TakenOnce'
  BY <1>1, <1>2 DEF InputsKnown, DrainsKnown, TakenOnce, In
<1>6. OnePlace'
  BY <1>1, <1>2, <1>4 DEF OnePlace, InputsKnown, In
<1>7. NothingLost'
  <2>1. \A j \in Members(queue) : taken[j] > 0 \/ j \in dropped'
    BY <1>1, MembersAre DEF InputsTypeOK, Untaken
  <2> QED
    BY <1>1, <1>2, <2>1 DEF NothingLost, In
<1> QED
  BY <1>3, <1>5, <1>6, <1>7

\* A turn begins: with what was typed, or with commands of the queue.
LEMMA SubmitQueue ==
    ASSUME IInv, QueueInv, NEW t \in Turns, NEW i \in Inputs, i \notin arrived,
           arrived' = arrived \cup {i},
           ExecuteUserInput(t, <<i>>), UNCHANGED <<queue, drain>>
    PROVE  QueueInv'
<1> USE DEF QueueInv, ExecuteUserInput
<1>1. <<i>> \in Seq(Inputs) /\ Members(<<i>>) = {i}
  BY MembersOne
<1>2. InputsTypeOK'
  BY <1>1 DEF InputsTypeOK
<1>3. taken[i] = 0
  BY DEF InputsKnown, InputsTypeOK
<1>4. /\ phase[t] = "free" /\ phase'[t] = "processing" /\ cargo'[t] = <<i>>
      /\ \A u \in Turns \ {t} : phase'[u] = phase[u] /\ cargo'[u] = cargo[u]
  BY DEF IInv, GuardTypeOK, InputsTypeOK, NewTurn
<1>5. InputsKnown'
  BY <1>1, <1>4 DEF InputsKnown, In
<1>6. DrainsKnown' /\ TakenOnce'
  BY <1>4 DEF DrainsKnown, TakenOnce
<1>7. OnePlace'
  BY <1>1, <1>3, <1>4 DEF OnePlace, InputsKnown, In
<1>8. NothingLost'
  BY <1>1, <1>4 DEF NothingLost, In
<1> QED
  BY <1>2, <1>5, <1>6, <1>7, <1>8

LEMMA ProcessQueueQueue ==
    ASSUME IInv, QueueInv, NEW t \in Turns, ProcessQueue(t)
    PROVE  QueueInv'
<1> USE DEF QueueInv
<1>1. PICK n \in DOMAIN queue :
          ExecuteUserInput(t, Batch(n)) /\ Dequeue(Members(Batch(n)))
  BY DEF ProcessQueue
<1> DEFINE b == Batch(n)
<1>2. b \in Seq(Inputs) /\ Members(b) \subseteq Members(queue)
  <2>1. queue[n] \in Inputs /\ queue[n] \in Members(queue)
    BY MembersAre DEF InputsTypeOK
  <2>2. CASE kind[queue[n]] = "local"
    BY <2>1, <2>2, MembersOne DEF Batch
  <2>3. CASE kind[queue[n]] # "local"
    BY <2>3, OnlyMembers DEF Batch, InputsTypeOK
  <2> QED
    BY <2>2, <2>3
<1> HIDE DEF b
<1>3. /\ queue' \in Seq(Inputs) /\ Members(queue)' = Members(queue) \ Members(b)
      /\ drain' \in [Turns -> SUBSET Inputs]
      /\ \A u \in Turns : drain'[u] = drain[u] \ Members(b)
  BY <1>1, Dequeued DEF b
<1>4. /\ UNCHANGED <<kind, arrived, cancels, taken, ended, dropped>>
      /\ cargo' = [cargo EXCEPT ![t] = b]
  BY <1>1 DEF ExecuteUserInput, ProcessQueue, b
<1>5. /\ phase[t] = "free" /\ phase'[t] = "processing" /\ cargo'[t] = b
      /\ \A u \in Turns \ {t} : phase'[u] = phase[u] /\ cargo'[u] = cargo[u]
  BY <1>1, <1>4 DEF ExecuteUserInput, IInv, GuardTypeOK, InputsTypeOK, NewTurn
<1>6. InputsTypeOK'
  BY <1>2, <1>3, <1>4 DEF InputsTypeOK
<1>7. InputsKnown'
  BY <1>2, <1>3, <1>4, <1>5 DEF InputsKnown, In
<1>8. DrainsKnown' /\ TakenOnce'
  BY <1>3, <1>4, <1>5 DEF DrainsKnown, TakenOnce
<1>9. OnePlace'
  <2>1. SUFFICES ASSUME cancels = 0
                 PROVE  /\ \A u \in In("processing")' : \A i \in Members(cargo'[u]) :
                              taken[i] = 0 /\ i \notin Members(queue)'
                        /\ \A i \in Members(queue)' :
                              taken[i] > 0 => \E u \in Turns : i \in drain'[u]
    BY <1>4 DEF OnePlace
  <2>2. In("querying") = {} /\ In("processing") = {}
    BY <2>1 DEF ProcessQueue, IInv, OneTurnHolds
  <2>3. \A i \in Members(queue) : ~(taken[i] > 0)
    BY <2>1, <2>2 DEF OnePlace, DrainsKnown, In
  <2>4. \A i \in Members(queue) : taken[i] \in Nat
    BY MembersAre DEF InputsTypeOK
  <2> QED
    BY <1>2, <1>3, <1>5, <2>2, <2>3, <2>4 DEF In
<1>10. NothingLost'
  BY <1>3, <1>4, <1>5 DEF NothingLost, In
<1> QED
  BY <1>6, <1>7, <1>8, <1>9, <1>10

\* Its processing ends without a query: the inputs are done with, or dropped.
LEMMA ProcessedQueue ==
    ASSUME IInv, QueueInv, NEW t \in Turns, phase[t] = "processing",
           phase' = [phase EXCEPT ![t] = "free"],
           ended \subseteq ended', dropped \subseteq dropped',
           Members(cargo[t]) \subseteq ended' \cup dropped',
           UNCHANGED <<queue, kind, cargo, drain, cancels, arrived, taken>>
    PROVE  QueueInv'
<1> USE DEF QueueInv
<1>1. \A u \in Turns : phase'[u] = IF u = t THEN "free" ELSE phase[u]
  BY DEF IInv, GuardTypeOK
<1>2. InputsTypeOK'
  BY DEF InputsTypeOK
<1>3. InputsKnown' /\ TakenOnce' /\ DrainsKnown'
  BY <1>1 DEF InputsKnown, TakenOnce, DrainsKnown, In
<1>4. OnePlace'
  BY <1>1 DEF OnePlace, In
<1>5. NothingLost'
  BY <1>1 DEF NothingLost, In
<1> QED
  BY <1>2, <1>3, <1>4, <1>5

\* The model gets some inputs.
LEMMA TakenMore ==
    ASSUME InputsTypeOK, NEW S, taken' = TakenBy(S)
    PROVE  /\ taken' \in [Inputs -> Nat]
           /\ \A i \in Inputs : /\ i \in S => taken'[i] > 0
                                /\ i \in S /\ taken[i] = 0 => taken'[i] <= 1
                                /\ i \notin S => taken'[i] = taken[i]
                                /\ taken[i] > 0 => taken'[i] > 0
<1>1. \A i \in Inputs : /\ taken[i] \in Nat
                        /\ taken'[i] = IF i \in S THEN taken[i] + 1 ELSE taken[i]
  BY DEF InputsTypeOK, TakenBy
<1>2. taken' \in [Inputs -> Nat]
  BY <1>1 DEF TakenBy
<1>3. ASSUME NEW i \in Inputs
      PROVE  /\ i \in S => taken'[i] > 0
             /\ i \in S /\ taken[i] = 0 => taken'[i] <= 1
             /\ i \notin S => taken'[i] = taken[i]
             /\ taken[i] > 0 => taken'[i] > 0
  <2>1. CASE i \in S
    BY <1>1, <2>1
  <2>2. CASE i \notin S
    BY <1>1, <2>2
  <2> QED
    BY <2>1, <2>2
<1> QED
  BY <1>2, <1>3

LEMMA StartQueue ==
    ASSUME IInv, QueueInv, NEW t \in Turns, StartQuery(t)
    PROVE  QueueInv'
<1> USE DEF QueueInv, StartQuery
<1> DEFINE c == Members(cargo[t])
<1>1. \A u \in Turns : phase'[u] = IF u = t THEN "querying" ELSE phase[u]
  BY DEF IInv, GuardTypeOK
<1>2. /\ taken' \in [Inputs -> Nat]
      /\ \A i \in Inputs : /\ i \in c => taken'[i] > 0
                           /\ i \in c /\ taken[i] = 0 => taken'[i] <= 1
                           /\ i \notin c => taken'[i] = taken[i]
                           /\ taken[i] > 0 => taken'[i] > 0
  BY TakenMore
<1>3. InputsTypeOK'
  BY <1>2 DEF InputsTypeOK
<1>4. c \subseteq arrived /\ c \subseteq Inputs
  BY DEF InputsKnown, InputsTypeOK, In
<1> HIDE DEF c
<1>5. InputsKnown'
  BY <1>1, <1>2, <1>4 DEF InputsKnown, In
<1>6. DrainsKnown'
  BY <1>1, <1>2 DEF DrainsKnown, InputsTypeOK
<1>7. cancels = 0 => \A i \in c : taken[i] = 0 /\ i \notin Members(queue)
  BY DEF OnePlace, In, c
<1>8. TakenOnce'
  BY <1>2, <1>7 DEF TakenOnce
<1>9. OnePlace'
  <2>1. SUFFICES ASSUME cancels = 0
                 PROVE  /\ \A u \in In("processing")' : \A i \in Members(cargo[u]) :
                              taken'[i] = 0 /\ i \notin Members(queue)
                        /\ \A i \in Members(queue) :
                              taken'[i] > 0 => \E u \in Turns : i \in drain[u]
    BY DEF OnePlace
  <2>2. In("processing")' = {}
    BY <1>1, <2>1 DEF IInv, OneTurnHolds, In
  <2>3. Members(queue) \subseteq Inputs
    BY MembersAre DEF InputsTypeOK
  <2> QED
    BY <1>2, <1>7, <2>1, <2>2, <2>3 DEF OnePlace
<1>10. NothingLost'
  <2>1. SUFFICES ASSUME NEW i \in arrived
                 PROVE  \/ i \in Members(queue) \/ i \in ended \/ taken'[i] > 0
                        \/ \E u \in In("processing")' : i \in Members(cargo[u])
                        \/ i \in dropped
                        \/ kind[i] = "meta" /\ cancels > 0
    BY DEF NothingLost
  <2>2. i \in Inputs
    BY DEF InputsTypeOK
  <2>3. CASE i \in c
    BY <1>2, <2>2, <2>3
  <2>4. CASE i \notin c
    <3>1. taken'[i] = taken[i]
      BY <1>2, <2>2, <2>4
    <3> QED
      BY <1>1, <2>4, <3>1 DEF NothingLost, In, c
  <2> QED
    BY <2>3, <2>4
<1> QED
  BY <1>3, <1>5, <1>6, <1>8, <1>9, <1>10

\* A teammate's prompt comes and is taken at once.
LEMMA IncomingQueue ==
    ASSUME IInv, QueueInv, NEW t \in Turns, NEW i \in Inputs, IncomingPrompt(t, i)
    PROVE  QueueInv'
<1> USE DEF QueueInv, IncomingPrompt
<1>1. \A u \in Turns : /\ phase'[u] = IF u = t THEN "querying" ELSE phase[u]
                       /\ u # t => cargo'[u] = cargo[u]
  BY DEF IInv, GuardTypeOK, InputsTypeOK
<1>2. /\ taken' \in [Inputs -> Nat]
      /\ \A j \in Inputs : /\ j = i => taken'[j] > 0
                           /\ j = i /\ taken[j] = 0 => taken'[j] <= 1
                           /\ j # i => taken'[j] = taken[j]
                           /\ taken[j] > 0 => taken'[j] > 0
  <2>1. \A j \in Inputs : j = i <=> j \in {i}
    OBVIOUS
  <2>2. taken' = TakenBy({i})
    OBVIOUS
  <2> QED
    BY <2>1, <2>2, TakenMore
<1>3. InputsTypeOK'
  BY <1>2, MembersOne DEF InputsTypeOK
<1>4. taken[i] = 0 /\ i \notin Members(queue) /\ phase[t] = "free"
  BY DEF InputsKnown, InputsTypeOK, NewTurn
<1>5. InputsKnown'
  <2>1. \A u \in In("processing")' : u \in In("processing") /\ cargo'[u] = cargo[u]
    BY <1>1 DEF In
  <2>2. arrived' = arrived \cup {i} /\ queue' = queue
    OBVIOUS
  <2>3. \A j \in Inputs : taken'[j] > 0 => j \in arrived'
    BY <1>2, <2>2 DEF InputsKnown
  <2> QED
    BY <2>1, <2>2, <2>3 DEF InputsKnown
<1>6. DrainsKnown'
  BY <1>1, <1>2 DEF DrainsKnown, InputsTypeOK
<1>7. TakenOnce'
  BY <1>2, <1>4 DEF TakenOnce
<1>8. OnePlace'
  <2>1. \A u \in In("processing")' : u \in In("processing") /\ cargo'[u] = cargo[u]
    BY <1>1 DEF In
  <2>2. \A u \in In("processing")' : i \notin Members(cargo'[u])
    BY <2>1 DEF InputsKnown
  <2>3. \A u \in Turns : cargo[u] \in Seq(Inputs)
    BY DEF InputsTypeOK
  <2>4. Members(queue) \subseteq Inputs /\ \A u \in Turns : Members(cargo[u]) \subseteq Inputs
    BY <2>3, MembersAre DEF InputsTypeOK
  <2> QED
    BY <1>2, <1>4, <2>1, <2>2, <2>4 DEF OnePlace, In
<1>9. NothingLost'
  <2>1. taken'[i] > 0
    BY <1>2
  <2>2. \A j \in arrived : taken'[j] = taken[j]
    BY <1>2 DEF InputsTypeOK
  <2>3. \A u \in In("processing") : u \in In("processing")' /\ cargo'[u] = cargo[u]
    BY <1>1, <1>4 DEF In
  <2> QED
    BY <2>1, <2>2, <2>3 DEF NothingLost
<1> QED
  BY <1>3, <1>5, <1>6, <1>7, <1>8, <1>9

\* A turn that meets another query queues its texts again.
LEMMA RequeueQueue ==
    ASSUME IInv, QueueInv, NEW t \in Turns, Requeue(t)
    PROVE  QueueInv'
<1> USE DEF QueueInv
<1> DEFINE texts == Only(cargo[t], {i \in Inputs : kind[i] # "meta"})
<1>1. /\ phase[t] = "processing" /\ status = "running"
      /\ phase' = [phase EXCEPT ![t] = "free"] /\ queue' = queue \o texts
      /\ kind' = [i \in Inputs |-> IF i \in Members(texts) THEN "prompt" ELSE kind[i]]
      /\ UNCHANGED <<cargo, drain, cancels, arrived, taken, ended, dropped>>
  BY DEF Requeue
<1>2. /\ cargo[t] \in Seq(Inputs) /\ texts \in Seq(Inputs)
      /\ Members(cargo[t]) \subseteq Inputs
      /\ Members(texts) = Members(cargo[t]) \cap {i \in Inputs : kind[i] # "meta"}
  BY OnlyMembers, MembersAre DEF InputsTypeOK
<1> HIDE DEF texts
<1>3. queue' \in Seq(Inputs) /\ Members(queue)' = Members(queue) \cup Members(texts)
  BY <1>1, <1>2, MembersConcat DEF InputsTypeOK
<1>4. \A u \in Turns : phase'[u] = IF u = t THEN "free" ELSE phase[u]
  BY <1>1 DEF IInv, GuardTypeOK
<1>5. InputsTypeOK'
  BY <1>1, <1>3 DEF InputsTypeOK, Kinds
<1>6. InputsKnown' /\ DrainsKnown' /\ TakenOnce'
  BY <1>1, <1>2, <1>3, <1>4 DEF InputsKnown, DrainsKnown, TakenOnce, In
<1>7. cancels # 0 /\ cancels \in Nat
  BY <1>1 DEF IInv, GuardTypeOK, OneTurnHolds, In
<1>8. OnePlace'
  BY <1>1, <1>7 DEF OnePlace
<1>9. NothingLost'
  <2>1. SUFFICES ASSUME NEW i \in arrived
                 PROVE  \/ i \in Members(queue)' \/ i \in ended \/ taken[i] > 0
                        \/ \E u \in In("processing")' : i \in Members(cargo[u])
                        \/ i \in dropped
                        \/ kind'[i] = "meta" /\ cancels > 0
    BY <1>1 DEF NothingLost
  <2>2. i \in Inputs
    BY DEF InputsTypeOK
  <2>3. CASE kind[i] = "meta"
    BY <1>1, <1>2, <1>7, <2>2, <2>3
  <2>4. CASE i \in Members(cargo[t]) /\ kind[i] # "meta"
    BY <1>2, <1>3, <2>2, <2>4
  <2>5. CASE i \notin Members(cargo[t]) /\ kind[i] # "meta"
    BY <1>3, <1>4, <2>5 DEF NothingLost, In
  <2> QED
    BY <2>3, <2>4, <2>5
<1> QED
  BY <1>5, <1>6, <1>8, <1>9

\* A query attaches what is queued ...
LEMMA AttachQueue ==
    ASSUME IInv, QueueInv, NEW t \in Turns, Attach(t)
    PROVE  QueueInv'
<1> USE DEF QueueInv
<1>q. Members(queue) \subseteq Inputs
  BY MembersAre DEF InputsTypeOK
<1>1. PICK all \in SUBSET Members(queue) :
          drain' = [drain EXCEPT ![t] = all] /\ taken' \in {TakenBy(all), taken}
  BY DEF Attach
<1>2. /\ phase[t] = "querying" /\ drain[t] = {}
      /\ UNCHANGED <<queue, kind, phase, cargo, cancels, arrived, ended, dropped>>
  BY DEF Attach
<1>3. /\ taken' \in [Inputs -> Nat]
      /\ \A i \in Inputs : /\ i \in all /\ taken[i] = 0 => taken'[i] <= 1
                           /\ i \notin all => taken'[i] = taken[i]
                           /\ taken[i] > 0 => taken'[i] > 0
  <2>1. CASE taken' = TakenBy(all)
    BY <2>1, TakenMore
  <2>2. CASE taken' = taken
    BY <2>2 DEF InputsTypeOK
  <2> QED
    BY <1>1, <2>1, <2>2
<1>4. \A u \in Turns : drain'[u] = IF u = t THEN all ELSE drain[u]
  BY <1>1 DEF InputsTypeOK
<1>5. InputsTypeOK'
  BY <1>q, <1>1, <1>2, <1>3 DEF InputsTypeOK
<1>6. InputsKnown'
  BY <1>q, <1>2, <1>3 DEF InputsKnown, In
<1>7. DrainsKnown'
  BY <1>q, <1>2, <1>3, <1>4 DEF DrainsKnown, InputsTypeOK
<1>8. cancels = 0 => \A i \in all : taken[i] = 0
  <2>1. SUFFICES ASSUME cancels = 0, NEW i \in all, taken[i] > 0 PROVE FALSE
    BY <1>q DEF InputsTypeOK
  <2>2. PICK u \in Turns : i \in drain[u]
    BY <2>1 DEF OnePlace
  <2>3. phase[u] = "querying"
    BY <2>2 DEF DrainsKnown
  <2> QED
    BY <1>2, <2>1, <2>2, <2>3 DEF IInv, OneTurnHolds
<1>9. TakenOnce'
  BY <1>2, <1>3, <1>8 DEF TakenOnce
<1>10. OnePlace'
  <2>1. SUFFICES ASSUME cancels = 0
                 PROVE  /\ \A u \in In("processing") : \A i \in Members(cargo[u]) :
                              taken'[i] = 0 /\ i \notin Members(queue)
                        /\ \A i \in Members(queue) :
                              taken'[i] > 0 => \E u \in Turns : i \in drain'[u]
    BY <1>2 DEF OnePlace, In
  <2>2. In("processing") = {}
    BY <1>2, <2>1 DEF IInv, OneTurnHolds, In
  <2>3. ASSUME NEW i \in Members(queue), taken'[i] > 0
        PROVE  \E u \in Turns : i \in drain'[u]
    <3>1. CASE i \in all
      BY <1>4, <3>1
    <3>2. CASE i \notin all
      <4>1. PICK u \in Turns : i \in drain[u]
        BY <1>q, <1>3, <2>1, <2>3, <3>2 DEF OnePlace
      <4> QED
        BY <1>2, <1>4, <4>1
    <3> QED
      BY <3>1, <3>2
  <2> QED
    BY <2>2, <2>3
<1>11. NothingLost'
  <2>1. \A i \in arrived : taken[i] > 0 => taken'[i] > 0
    BY <1>3 DEF InputsTypeOK
  <2> QED
    BY <1>2, <2>1 DEF NothingLost, In
<1> QED
  BY <1>5, <1>6, <1>7, <1>9, <1>10, <1>11

\* ... and takes it out of the queue some time later.
LEMMA AttachedQueue ==
    ASSUME IInv, QueueInv, NEW t \in Turns, Attached(t)
    PROVE  QueueInv'
<1> USE DEF QueueInv
<1>1. /\ phase[t] = "querying" /\ dropped' = dropped \cup Untaken(drain[t])
      /\ UNCHANGED <<kind, phase, cargo, cancels, arrived, taken, ended>>
  BY DEF Attached
<1>2. /\ queue' \in Seq(Inputs) /\ Members(queue)' = Members(queue) \ drain[t]
      /\ drain' \in [Turns -> SUBSET Inputs]
      /\ \A u \in Turns : drain'[u] = drain[u] \ drain[t]
  BY Dequeued DEF Attached
<1>3. InputsTypeOK'
  BY <1>1, <1>2 DEF InputsTypeOK
<1>4. InputsKnown' /\ DrainsKnown' /\ TakenOnce'
  BY <1>1, <1>2 DEF InputsKnown, DrainsKnown, TakenOnce, In
<1>5. OnePlace'
  BY <1>1, <1>2 DEF OnePlace, In
<1>6. NothingLost'
  <2>1. \A i \in drain[t] : taken[i] > 0 \/ i \in dropped'
    BY <1>1 DEF InputsTypeOK, Untaken
  <2> QED
    BY <1>1, <1>2, <2>1 DEF NothingLost, In
<1> QED
  BY <1>3, <1>4, <1>5, <1>6

\* The user takes back what he has queued.
LEMMA PopQueue ==
    ASSUME IInv, QueueInv, PopAllEditable
    PROVE  QueueInv'
<1> USE DEF QueueInv
<1> DEFINE editable == {i \in Members(queue) : ~Later(i)}
<1>1. /\ Dequeue(editable) /\ ended' = ended \cup editable
      /\ UNCHANGED <<kind, phase, cargo, cancels, arrived, taken, dropped>>
  BY DEF PopAllEditable
<1> HIDE DEF editable
<1>2. /\ queue' \in Seq(Inputs) /\ Members(queue)' = Members(queue) \ editable
      /\ drain' \in [Turns -> SUBSET Inputs]
      /\ \A u \in Turns : drain'[u] = drain[u] \ editable
  BY <1>1, Dequeued
<1>3. InputsTypeOK'
  BY <1>1, <1>2 DEF InputsTypeOK
<1>4. InputsKnown' /\ DrainsKnown' /\ TakenOnce'
  BY <1>1, <1>2 DEF InputsKnown, DrainsKnown, TakenOnce, In
<1>5. OnePlace'
  BY <1>1, <1>2 DEF OnePlace, In
<1>6. NothingLost'
  BY <1>1, <1>2 DEF NothingLost, In
<1> QED
  BY <1>3, <1>4, <1>5, <1>6

\* The end of a query and an Esc leave the inputs where they are.
LEMMA QueueUnchanged ==
    ASSUME IInv, QueueInv, IInv', cancels' >= cancels,
           In("processing")' = In("processing"),
           \A t \in Turns : drain[t] # {} => phase'[t] = phase[t],
           UNCHANGED <<queue, kind, cargo, drain, arrived, taken, ended, dropped>>
    PROVE  QueueInv'
<1> USE DEF QueueInv
<1>0. cancels \in Nat /\ cancels' \in Nat
  BY DEF IInv, GuardTypeOK
<1>1. InputsTypeOK' /\ InputsKnown' /\ DrainsKnown'
  BY DEF InputsTypeOK, InputsKnown, DrainsKnown
<1>2. OnePlace' /\ TakenOnce'
  BY <1>0 DEF OnePlace, TakenOnce
<1>3. NothingLost'
  BY <1>0 DEF NothingLost
<1> QED
  BY <1>1, <1>2, <1>3

LEMMA StepQueue == IInv /\ QueueInv /\ [Next]_vars => QueueInv'
<1> SUFFICES ASSUME IInv, QueueInv, [Next]_vars PROVE QueueInv'
  OBVIOUS
<1>i. IInv'
  BY StepInv
<1>1. ASSUME NEW t \in Turns, ProcessQueue(t) PROVE QueueInv'
  BY <1>1, ProcessQueueQueue
<1>2. ASSUME NEW t \in Turns, LocalReturns(t) \/ ProcessingThrows(t) PROVE QueueInv'
  BY <1>2, ProcessedQueue DEF LocalReturns, ProcessingThrows
<1>3. ASSUME NEW t \in Turns, StartQuery(t) \/ Requeue(t) PROVE QueueInv'
  BY <1>3, StartQueue, RequeueQueue
<1>4. ASSUME NEW t \in Turns, Attach(t) \/ Attached(t) PROVE QueueInv'
  BY <1>4, AttachQueue, AttachedQueue
<1>5. ASSUME NEW t \in Turns, QueryEnds(t) PROVE QueueInv'
  <2>1. \A u \in Turns : phase'[u] = IF u = t THEN "free" ELSE phase[u]
    BY <1>5 DEF QueryEnds, IInv, GuardTypeOK
  <2>2. phase[t] = "querying" /\ drain[t] = {}
    BY <1>5 DEF QueryEnds
  <2>3. In("processing")' = In("processing")
    BY <2>1, <2>2 DEF In
  <2>4. cancels' >= cancels
    BY <1>5 DEF QueryEnds, IInv, GuardTypeOK
  <2> QED
    BY <1>5, <1>i, <2>1, <2>2, <2>3, <2>4, QueueUnchanged DEF QueryEnds
<1>6. ASSUME NEW t \in Turns, NEW i \in Inputs, Submit(t, i) PROVE QueueInv'
  BY <1>6, SubmitQueue, EnqueueQueue DEF Submit
<1>7. ASSUME NEW t \in Turns, NEW i \in Inputs, IncomingPrompt(t, i) PROVE QueueInv'
  BY <1>7, IncomingQueue
<1>8. ASSUME NEW i \in Inputs, Notify(i) \/ KillAgents(i) PROVE QueueInv'
  BY <1>8, EnqueueQueue, KillQueue DEF Notify
<1>9. CASE Cancel
  <2>1. cancels' >= cancels /\ phase' = phase
    BY <1>9 DEF Cancel, IInv, GuardTypeOK
  <2> QED
    BY <1>9, <1>i, <2>1, QueueUnchanged DEF Cancel, In
<1>10. CASE PopAllEditable
  BY <1>10, PopQueue
<1>11. CASE UNCHANGED vars
  <2>1. cancels' >= cancels
    BY <1>11 DEF vars, IInv, GuardTypeOK
  <2> QED
    BY <1>11, <1>i, <2>1, QueueUnchanged DEF vars, In
<1> QED
  BY <1>1, <1>2, <1>3, <1>4, <1>5, <1>6, <1>7, <1>8, <1>9, <1>10, <1>11 DEF Next, TurnSteps

LEMMA QueueInvariant == Spec => [](IInv /\ QueueInv)
<1>1. Init => IInv /\ QueueInv
  BY InitInv, InitQueue
<1>2. IInv /\ QueueInv /\ [Next]_vars => (IInv /\ QueueInv)'
  BY StepInv, StepQueue
<1> QED
  BY <1>1, <1>2, PTL DEF Spec

(* No input vanishes between the queue, the turns that process it and the   *)
(* queue again, however turns are cancelled and queries attach commands that*)
(* others dequeue, but in the four ways that NothingLost names.             *)
THEOREM NoInputLost == Spec => []NothingLost
<1>1. QueueInv => NothingLost
  BY DEF QueueInv
<1> QED
  BY <1>1, QueueInvariant, PTL

(* Without an Esc no input reaches the model twice, though it is attached   *)
(* some time before it leaves the queue.                                    *)
THEOREM InputsTakenOnce == Spec => []TakenOnce
<1>1. QueueInv => TakenOnce
  BY DEF QueueInv
<1> QED
  BY <1>1, QueueInvariant, PTL
=============================================================================
