-------------------------- MODULE StatsQueueProofs --------------------------
(* Proofs about StatsQueue, for any number of visits and workers and any    *)
(* size of the channel.                                                     *)
EXTENDS StatsQueue, FiniteSetTheorems, TLAPS

\* Where the events are; the counter of the dropped ones is proved beside it.
Places ==
  /\ Len(queue) <= QueueSize
  /\ \A i \in 1..Len(queue) : stage[queue[i]] = "queued"
  /\ \A v \in Visit : stage[v] = "queued" => \E i \in 1..Len(queue) : queue[i] = v
  /\ \A i, j \in 1..Len(queue) : queue[i] = queue[j] => i = j
  /\ \A w \in Worker : job[w] # None => w \in running /\ stage[job[w]] = "taken"
  /\ \A w, u \in Worker : job[w] = job[u] /\ job[w] # None => w = u
  /\ \A v \in Visit : stage[v] = "taken" => \E w \in Worker : job[w] = v

DroppedSet == {v \in Visit : stage[v] = "dropped"}
Counted == dropped = Cardinality(DroppedSet)

\* What the channel's two operations do to its elements.
LEMMA AppendFact ==
  ASSUME NEW s \in Seq(Visit), NEW v \in Visit
  PROVE  /\ Append(s, v) \in Seq(Visit)
         /\ Len(Append(s, v)) = Len(s) + 1
         /\ \A i \in 1..Len(s) : Append(s, v)[i] = s[i]
         /\ Append(s, v)[Len(s) + 1] = v
OBVIOUS

LEMMA TailFact ==
  ASSUME NEW s \in Seq(Visit), s # <<>>
  PROVE  /\ Tail(s) \in Seq(Visit) /\ Head(s) \in Visit /\ Head(s) = s[1]
         /\ Len(s) \in Nat /\ Len(s) >= 1 /\ Len(Tail(s)) = Len(s) - 1
         /\ \A i \in 1..Len(s) - 1 : Tail(s)[i] = s[i + 1]
OBVIOUS

LEMMA Placing == Spec => [](TypeOK /\ Places)
<1> USE QueueAssumption
<1>1. Init => TypeOK /\ Places
  <2> SUFFICES ASSUME Init PROVE TypeOK /\ Places
    OBVIOUS
  <2>1. queue \in Seq(Visit) /\ Len(queue) = 0 /\ 1..Len(queue) = {}
    BY DEF Init
  <2>2. TypeOK
    BY <2>1 DEF Init, TypeOK, Stage
  <2>3. Places
    <3>1. \A i \in 1..Len(queue) : FALSE
      BY <2>1
    <3>2. /\ \A v \in Visit : stage[v] = "new"
          /\ \A w \in Worker : job[w] = None
      BY DEF Init
    <3> QED BY <2>1, <3>1, <3>2 DEF Places
  <2> QED BY <2>2, <2>3
<1>2. TypeOK /\ Places /\ [Next]_queueVars => TypeOK' /\ Places'
  <2> SUFFICES ASSUME TypeOK, Places, [Next]_queueVars PROVE TypeOK' /\ Places'
    OBVIOUS
  <2>1. ASSUME NEW v \in Visit, Serve(v) PROVE TypeOK' /\ Places'
    BY <2>1 DEF Serve, VisitStep, TypeOK, Places, Stage
  <2>2. ASSUME NEW v \in Visit, Enqueue(v) PROVE TypeOK' /\ Places'
    <3>1. /\ queue' \in Seq(Visit) /\ Len(queue') = Len(queue) + 1 /\ Len(queue) \in Nat
          /\ \A i \in 1..Len(queue) : queue'[i] = queue[i]
          /\ queue'[Len(queue) + 1] = v
      BY <2>2, AppendFact DEF Enqueue, TypeOK
    <3>2. /\ stage[v] = "served" /\ stage' = [stage EXCEPT ![v] = "queued"]
          /\ UNCHANGED <<job, running, dropped, cancelled>>
          /\ Len(queue) < QueueSize
      BY <2>2 DEF Enqueue, VisitStep
    <3>3. \A i \in 1..Len(queue') : i \in 1..Len(queue) \/ i = Len(queue) + 1
      BY <3>1
    <3>4. \A i \in 1..Len(queue) : queue[i] \in Visit /\ queue[i] # v
      BY <3>2 DEF TypeOK, Places
    <3>5. TypeOK'
      BY <3>1, <3>2 DEF TypeOK, Stage
    <3>6. Places'
      <4>1. Len(queue') <= QueueSize
        BY <3>1, <3>2
      <4>2. \A i \in 1..Len(queue') : stage'[queue'[i]] = "queued"
        BY <3>1, <3>2, <3>3, <3>4 DEF Places, TypeOK
      <4>3. \A u \in Visit : stage'[u] = "queued" => \E i \in 1..Len(queue') : queue'[i] = u
        BY <3>1, <3>2 DEF Places, TypeOK
      <4>4. \A i, j \in 1..Len(queue') : queue'[i] = queue'[j] => i = j
        BY <3>1, <3>3, <3>4 DEF Places
      <4>5. \A w \in Worker : job'[w] # None => w \in running' /\ stage'[job'[w]] = "taken"
        BY <3>2 DEF Places, TypeOK
      <4>6. /\ \A w, u \in Worker : job'[w] = job'[u] /\ job'[w] # None => w = u
            /\ \A u \in Visit : stage'[u] = "taken" => \E w \in Worker : job'[w] = u
        BY <3>2 DEF Places, TypeOK
      <4> QED BY <4>1, <4>2, <4>3, <4>4, <4>5, <4>6 DEF Places
    <3> QED BY <3>5, <3>6
  <2>3. ASSUME NEW v \in Visit, Drop(v) PROVE TypeOK' /\ Places'
    BY <2>3 DEF Drop, VisitStep, TypeOK, Places, Stage
  <2>4. ASSUME NEW w \in Worker, Take(w) PROVE TypeOK' /\ Places'
    <3> DEFINE h == Head(queue)
    <3>1. /\ queue' \in Seq(Visit) /\ h \in Visit /\ h = queue[1]
          /\ Len(queue) \in Nat /\ Len(queue) >= 1 /\ Len(queue') = Len(queue) - 1
          /\ \A i \in 1..Len(queue') : queue'[i] = queue[i + 1]
      BY <2>4, TailFact DEF Take, TypeOK
    <3>2. /\ w \in running /\ job[w] = None
          /\ stage[h] = "queued" /\ stage' = [stage EXCEPT ![h] = "taken"]
          /\ job' = [job EXCEPT ![w] = h]
          /\ UNCHANGED <<running, dropped, cancelled>>
      BY <2>4 DEF Take, VisitStep
    <3> HIDE DEF h
    <3>3. \A i \in 1..Len(queue') : /\ i + 1 \in 1..Len(queue) /\ i + 1 # 1
                                    /\ queue'[i] \in Visit /\ queue'[i] # h
      BY <3>1 DEF Places, TypeOK
    <3>4. TypeOK'
      BY <3>1, <3>2 DEF TypeOK, Stage
    <3>5. Places'
      <4>1. Len(queue') <= QueueSize
        BY <3>1 DEF Places
      <4>2. \A i \in 1..Len(queue') : stage'[queue'[i]] = "queued"
        BY <3>1, <3>2, <3>3 DEF Places, TypeOK
      <4>3. ASSUME NEW u \in Visit, stage'[u] = "queued"
            PROVE  \E i \in 1..Len(queue') : queue'[i] = u
        <5>1. u # h /\ stage[u] = "queued"
          BY <3>1, <3>2, <4>3 DEF TypeOK
        <5>2. PICK j \in 1..Len(queue) : queue[j] = u
          BY <5>1 DEF Places
        <5>3. j # 1 /\ j - 1 \in 1..Len(queue') /\ (j - 1) + 1 = j
          BY <3>1, <5>1, <5>2
        <5> QED BY <3>1, <5>2, <5>3
      <4>4. \A i, j \in 1..Len(queue') : queue'[i] = queue'[j] => i = j
        <5>1. \A i, j \in 1..Len(queue') : i + 1 = j + 1 => i = j
          OBVIOUS
        <5> QED BY <3>1, <3>3, <5>1 DEF Places
      <4>5. \A x \in Worker : job'[x] # None => x \in running' /\ stage'[job'[x]] = "taken"
        BY <3>1, <3>2 DEF Places, TypeOK
      <4>6. /\ \A x, u \in Worker : job'[x] = job'[u] /\ job'[x] # None => x = u
            /\ \A u \in Visit : stage'[u] = "taken" => \E x \in Worker : job'[x] = u
        BY <3>1, <3>2 DEF Places, TypeOK
      <4> QED BY <4>1, <4>2, <4>3, <4>4, <4>5, <4>6 DEF Places
    <3> QED BY <3>4, <3>5
  <2>5. ASSUME NEW w \in Worker, Finish(w) PROVE TypeOK' /\ Places'
    <3>1. /\ job[w] \in Visit /\ stage[job[w]] = "taken"
          /\ stage' = [stage EXCEPT ![job[w]] = "done"]
          /\ job' = [job EXCEPT ![w] = None]
          /\ UNCHANGED <<queue, running, dropped, cancelled>>
      BY <2>5 DEF Finish, VisitStep, TypeOK
    <3>2. TypeOK'
      BY <3>1 DEF TypeOK, Stage
    <3>3. Places'
      BY <3>1 DEF TypeOK, Places
    <3> QED BY <3>2, <3>3
  <2>6. ASSUME NEW w \in Worker, Stop(w) PROVE TypeOK' /\ Places'
    BY <2>6 DEF Stop, TypeOK, Places
  <2>7. CASE Cancel
    BY <2>7 DEF Cancel, TypeOK, Places
  <2>8. CASE UNCHANGED queueVars
    BY <2>8 DEF queueVars, TypeOK, Places
  <2> QED BY <2>1, <2>2, <2>3, <2>4, <2>5, <2>6, <2>7, <2>8 DEF Next, Offer
<1> QED BY <1>1, <1>2, PTL DEF Spec

\* Every variable keeps its type (worker.go).
THEOREM TypeCorrect == Spec => []TypeOK
<1> QED BY Placing, PTL

-----------------------------------------------------------------------------

LEMMA Counting == Spec => [](TypeOK /\ Counted)
<1> USE QueueAssumption
<1>1. Init => Counted
  <2>1. Init => DroppedSet = {}
    BY DEF Init, DroppedSet
  <2> QED BY <2>1, FS_EmptySet DEF Counted, Init
<1>2. TypeOK /\ TypeOK' /\ Counted /\ [Next]_queueVars => Counted'
  <2> SUFFICES ASSUME TypeOK, TypeOK', Counted, [Next]_queueVars PROVE Counted'
    OBVIOUS
  <2> DEFINE same == DroppedSet' = DroppedSet /\ dropped' = dropped
  <2>1. ASSUME NEW v \in Visit, Drop(v) PROVE Counted'
    <3>1. DroppedSet' = DroppedSet \cup {v} /\ v \notin DroppedSet /\ dropped' = dropped + 1
      BY <2>1 DEF Drop, VisitStep, DroppedSet, TypeOK
    <3>2. IsFiniteSet(DroppedSet)
      BY FS_Subset DEF DroppedSet
    <3> QED BY <3>1, <3>2, FS_AddElement DEF Counted
  <2>2. ASSUME NEW v \in Visit, Serve(v) \/ Enqueue(v) PROVE same
    BY <2>2 DEF Serve, Enqueue, VisitStep, DroppedSet, TypeOK
  <2>3. ASSUME NEW w \in Worker, Take(w) \/ Finish(w) PROVE same
    BY <2>3 DEF Take, Finish, VisitStep, DroppedSet, TypeOK
  <2>4. ASSUME NEW w \in Worker, Stop(w) PROVE same
    BY <2>4 DEF Stop, DroppedSet
  <2>5. ASSUME Cancel \/ UNCHANGED queueVars PROVE same
    BY <2>5 DEF Cancel, queueVars, DroppedSet
  <2>6. ASSUME same PROVE Counted'
    BY <2>6 DEF Counted
  <2> HIDE DEF same
  <2> QED BY <2>1, <2>2, <2>3, <2>4, <2>5, <2>6 DEF Next, Offer
<1> QED BY <1>1, <1>2, TypeCorrect, PTL DEF Spec

\* Every served visit is queued once, recorded by one worker, counted as dropped or
\* done: nothing is recorded twice or lost silently while the workers run.
THEOREM AccountedAlways == Spec => []Accounted
<1>1. TypeOK /\ Places /\ Counted => Accounted
  BY DEF TypeOK, Places, Counted, DroppedSet, Accounted, Queued
<1> QED BY <1>1, Placing, Counting, PTL
=============================================================================
