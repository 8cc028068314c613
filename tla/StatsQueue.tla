----------------------------- MODULE StatsQueue -----------------------------
(***************************************************************************)
(* The queue between the requests and the statistics workers               *)
(* (stats/worker.go): a bounded channel that drops what does not fit, and  *)
(* workers that take one event after the other until the context is done.  *)
(* When both are possible a worker's select picks either: it may take an   *)
(* event after the cancellation, and it leaves the rest in the channel.    *)
(* What a worker does with an event is left to StatsStore.                 *)
(***************************************************************************)
EXTENDS Naturals, Sequences, FiniteSets

CONSTANTS
  Visit,      \* tracked requests answered with 200, one event each
  Worker,
  QueueSize,  \* stats_queue_size
  None        \* no visit

ASSUME QueueAssumption ==
  QueueSize \in Nat \ {0} /\ None \notin Visit /\ IsFiniteSet(Visit)

VARIABLES
  queue,     \* the channel
  stage,     \* stage[v]: where the visit v stands
  job,       \* job[w]: the event worker w records, None between two
  running,   \* the workers that have not returned
  dropped,   \* the counter of the events that did not fit
  cancelled  \* the context is done

queueVars == <<queue, stage, job, running, dropped, cancelled>>

\* A visit is served, then its event is queued or dropped; a worker takes a
\* queued event and is done with it, recorded or not.
Stage == {"new", "served", "queued", "dropped", "taken", "done"}

Init ==
  /\ queue = <<>>
  /\ stage = [v \in Visit |-> "new"]
  /\ job = [w \in Worker |-> None]
  /\ running = Worker
  /\ dropped = 0
  /\ cancelled = FALSE

VisitStep(v, from, to) == stage[v] = from /\ stage' = [stage EXCEPT ![v] = to]

-----------------------------------------------------------------------------
(* A request *)

\* The handlers behind the middleware returned, with status 200.
Serve(v) ==
  /\ VisitStep(v, "new", "served")
  /\ UNCHANGED <<queue, job, running, dropped, cancelled>>

Enqueue(v) ==
  /\ Len(queue) < QueueSize
  /\ VisitStep(v, "served", "queued")
  /\ queue' = Append(queue, v)
  /\ UNCHANGED <<job, running, dropped, cancelled>>

\* Mutant: the request waits until its event fits.
DropBlocked(v) ==
  /\ Len(queue) > QueueSize
  /\ VisitStep(v, "served", "dropped")
  /\ dropped' = dropped + 1
  /\ UNCHANGED <<queue, job, running, cancelled>>

\* Mutant: the counter goes the wrong way.
DropUncounted(v) ==
  /\ Len(queue) >= QueueSize
  /\ VisitStep(v, "served", "dropped")
  /\ dropped' = dropped - 1
  /\ UNCHANGED <<queue, job, running, cancelled>>

Drop(v) ==
  /\ Len(queue) >= QueueSize
  /\ VisitStep(v, "served", "dropped")
  /\ dropped' = dropped + 1
  /\ UNCHANGED <<queue, job, running, cancelled>>

Offer(v) == Enqueue(v) \/ Drop(v)

-----------------------------------------------------------------------------
(* A worker *)

\* Mutant: the event is looked at, and stays in the channel.
TakePeek(w) ==
  /\ w \in running /\ job[w] = None /\ queue # <<>>
  /\ VisitStep(Head(queue), "queued", "taken")
  /\ job' = [job EXCEPT ![w] = Head(queue)]
  /\ UNCHANGED <<queue, running, dropped, cancelled>>

Take(w) ==
  /\ w \in running /\ job[w] = None /\ queue # <<>>
  /\ VisitStep(Head(queue), "queued", "taken")
  /\ job' = [job EXCEPT ![w] = Head(queue)]
  /\ queue' = Tail(queue)
  /\ UNCHANGED <<running, dropped, cancelled>>

\* Mutant: no loop, a worker returns after its first event.
FinishAndReturn(w) ==
  /\ job[w] # None
  /\ VisitStep(job[w], "taken", "done")
  /\ job' = [job EXCEPT ![w] = None]
  /\ running' = running \ {w}
  /\ UNCHANGED <<queue, dropped, cancelled>>

\* record returned, whether it wrote everything, a part or nothing.
Finish(w) ==
  /\ job[w] # None
  /\ VisitStep(job[w], "taken", "done")
  /\ job' = [job EXCEPT ![w] = None]
  /\ UNCHANGED <<queue, running, dropped, cancelled>>

\* Mutant: the context is looked at only when an event comes.
StopOnEvent(w) ==
  /\ w \in running /\ job[w] = None /\ cancelled /\ queue # <<>>
  /\ running' = running \ {w}
  /\ UNCHANGED <<queue, stage, job, dropped, cancelled>>

Stop(w) ==
  /\ w \in running /\ job[w] = None /\ cancelled
  /\ running' = running \ {w}
  /\ UNCHANGED <<queue, stage, job, dropped, cancelled>>

Cancel ==
  /\ ~cancelled
  /\ cancelled' = TRUE
  /\ UNCHANGED <<queue, stage, job, running, dropped>>

Next ==
  \/ \E v \in Visit : Serve(v) \/ Offer(v)
  \/ \E w \in Worker : Take(w) \/ Finish(w) \/ Stop(w)
  \/ Cancel

Spec == Init /\ [][Next]_queueVars

\* A request that was served goes on; nothing is asked of the workers.
RequestFairSpec == Spec /\ \A v \in Visit : WF_queueVars(Offer(v))

\* record ends within stats_write_timeout, and a worker that can go on does.
WorkerFairness == \A w \in Worker : WF_queueVars(Finish(w)) /\ WF_queueVars(Take(w) \/ Stop(w))

-----------------------------------------------------------------------------
(* Properties *)

TypeOK ==
  /\ queue \in Seq(Visit)
  /\ stage \in [Visit -> Stage]
  /\ job \in [Worker -> Visit \cup {None}]
  /\ running \subseteq Worker
  /\ dropped \in Nat
  /\ cancelled \in BOOLEAN

Queued == {queue[i] : i \in 1..Len(queue)}

\* Every served visit is accounted for once: it waits in one place of the channel,
\* is in the hands of one worker, was counted as dropped, or is done.  None is
\* recorded twice, and none is lost but by the drop counter, until the workers
\* stop; then what the channel holds is lost without a trace (enqueue, runWorker).
Accounted ==
  /\ Len(queue) <= QueueSize
  /\ Queued = {v \in Visit : stage[v] = "queued"}
  /\ \A i, j \in 1..Len(queue) : queue[i] = queue[j] => i = j
  /\ \A w \in Worker : job[w] # None => w \in running /\ stage[job[w]] = "taken"
  /\ \A w, u \in Worker : job[w] = job[u] /\ job[w] # None => w = u
  /\ \A v \in Visit : stage[v] = "taken" => \E w \in Worker : job[w] = v
  /\ dropped = Cardinality({v \in Visit : stage[v] = "dropped"})

\* A full channel, slow workers or no workers at all never keep a request waiting
\* (config.example.yaml: a full queue drops events and does not block requests).
NeverBlocks == \A v \in Visit : stage[v] = "served" ~> stage[v] \in {"queued", "dropped"}

\* While the service runs, every queued event gets to a worker, if workers go on.
QueuedIsTaken ==
  WorkerFairness => \A v \in Visit : stage[v] = "queued" ~> (stage[v] \in {"taken", "done"} \/ cancelled)

\* The workers return after the cancellation, however much is queued by then and
\* after it (runWorker).
WorkersReturn == WorkerFairness => (cancelled ~> running = {})
=============================================================================
