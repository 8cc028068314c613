----------------------------- MODULE StatsStore -----------------------------
(***************************************************************************)
(* What the statistics workers write to Redis (record in stats/worker.go), *)
(* over StatsQueue, while the cleaner (stats/cleaner.go) trims and deletes *)
(* the same keys and Redis lets them expire.  The visits are those of one  *)
(* client to one path; StatsKeys has the keys.                             *)
(*                                                                         *)
(* The commands of a pipeline run one by one, those of others in between.  *)
(* A connection may fail: the rest of the pipeline is lost, and the Redis  *)
(* client may send it all again.  A worker may time out while Redis goes   *)
(* on with what it got.                                                    *)
(***************************************************************************)
EXTENDS StatsKeys, Sequences

CONSTANTS
  Visit, Worker, QueueSize,   \* as in StatsQueue
  MinCount,    \* stats_clean_min_count
  Inactive,    \* stats_clean_inactive_time
  Interval,    \* stats_clean_interval_hours, in units of time
  ReadsFail,   \* whether the cleaner's read of the buckets may fail
  MaxClock,    \* bound on the clock
  MaxBreaks    \* bound on the failures of connections

ASSUME StoreAssumption ==
  /\ IsFiniteSet(Visit) /\ QueueSize \in Nat \ {0}
  /\ None \notin Visit /\ None \notin Nat
  /\ Window \in Nat \ {0} /\ HourLen \in Nat \ {0} /\ Interval \in Nat \ {0}
  /\ MinCount \in Nat /\ Inactive \in Nat
  /\ ReadsFail \in BOOLEAN /\ MaxClock \in Nat /\ MaxBreaks \in Nat

VARIABLES
  queue, stage, job, running, dropped, cancelled,  \* as in StatsQueue
  clock,    \* the time
  at,       \* at[v]: the time event v was stamped with, None before
  keys,     \* the keys in Redis
  pipe,     \* pipe[v]: the next command of v's pipeline, 0 before it is sent
  breaks,   \* the number of failures so far
  due,      \* the cleaner's ticker has fired
  cleaner,  \* where the cleaner stands
  hits,     \* history: how many increments of v's hour bucket count
  bare      \* history: visits whose last increment no EXPIRE followed yet

queueVars == <<queue, stage, job, running, dropped, cancelled>>
historyVars == <<hits, bare>>
vars == <<queueVars, clock, at, keys, pipe, breaks, due, cleaner, historyVars>>

Queue == INSTANCE StatsQueue

\* Mutant: the keys get their TTL before the client is added.
CommandEarlyExpire == <<"count", "hour", "stale", "expireCount", "expireSeen", "expireHours", "seen", "trim">>

Command == <<"count", "hour", "stale", "seen", "expireCount", "expireSeen", "expireHours", "trim">>
End == Len(Command) + 1

\* A pass of the cleaner gets the keys from SCAN in any order, here in batches of
\* one key: todo are those to come.  A job keeps the time it read (now), the buckets it will remove (stale)
\* and, as history, the visits that were fully counted when it began (settled).
NoPass == [step |-> "idle", todo |-> {}, now |-> 0, stale |-> {}, settled |-> {}]

Init ==
  /\ Queue!Init
  /\ clock = 0
  /\ at = [v \in Visit |-> None]
  /\ keys = NoKeys
  /\ pipe = [v \in Visit |-> 0]
  /\ breaks = 0
  /\ due = TRUE
  /\ cleaner = NoPass
  /\ hits = [v \in Visit |-> 0]
  /\ bare = {}

\* A failure the bound still allows.
Break == breaks < MaxBreaks /\ breaks' = breaks + 1

-----------------------------------------------------------------------------
(* The middleware *)

\* Mutant: the event is stamped with the end of its hour.
ServeAhead(v) ==
  /\ Queue!Serve(v)
  /\ at' = [at EXCEPT ![v] = (Hour(clock) + 1) * HourLen]
  /\ UNCHANGED <<clock, keys, pipe, breaks, due, cleaner, historyVars>>

\* The event is stamped before it is offered to the queue.
Serve(v) ==
  /\ Queue!Serve(v)
  /\ at' = [at EXCEPT ![v] = clock]
  /\ UNCHANGED <<clock, keys, pipe, breaks, due, cleaner, historyVars>>

Offer(v) ==
  /\ Queue!Offer(v)
  /\ UNCHANGED <<clock, at, keys, pipe, breaks, due, cleaner, historyVars>>

-----------------------------------------------------------------------------
(* record *)

Send(w) ==
  /\ Queue!Take(w)
  /\ pipe' = [pipe EXCEPT ![Head(queue)] = 1]
  /\ UNCHANGED <<clock, at, keys, breaks, due, cleaner, historyVars>>

\* Mutant: the field is one hour too young.
StaleFieldEarly(t) == {h \in DOMAIN keys.hours : h + Window = Hour(t) + 1}

\* The one bucket that a write of hour h removes: h - windowHours.
StaleField(t) == {h \in DOMAIN keys.hours : h + Window = Hour(t)}

\* What Redis does on a command of an event stamped t.
Effect(c, t) ==
  CASE c = "count" -> IncrCount(keys)
    [] c = "hour"  -> IncrHour(keys, Hour(t))
    [] c = "stale" -> DropHours(keys, StaleField(t))
    [] c = "seen"  -> SetSeen(keys, t)
    [] c = "expireCount" -> Expire(keys, "count", clock)
    [] c = "expireSeen"  -> Expire(keys, "seen", clock)
    [] c = "expireHours" -> Expire(keys, "hours", clock)
    [] c = "trim"  -> TrimSeen(keys, t)

Sent(v) == pipe[v] \in 1..Len(Command)

Execute(v) ==
  /\ Sent(v)
  /\ keys' = Effect(Command[pipe[v]], at[v])
  /\ pipe' = [pipe EXCEPT ![v] = @ + 1]
  /\ hits' = [hits EXCEPT ![v] = @ + IF Command[pipe[v]] = "hour" THEN 1 ELSE 0]
  /\ bare' = CASE Command[pipe[v]] = "hour" -> bare \cup {v}
               [] Command[pipe[v]] = "expireHours" -> bare \ {v}
               [] OTHER -> bare
  /\ UNCHANGED <<queueVars, clock, at, breaks, due, cleaner>>

\* The connection fails, the rest of the pipeline is lost.
Cut(v) ==
  /\ Sent(v) /\ Break
  /\ pipe' = [pipe EXCEPT ![v] = End]
  /\ UNCHANGED <<queueVars, clock, at, keys, due, cleaner, historyVars>>

\* The connection fails, or only the reply is lost, and the client sends the
\* pipeline once more.
Resend(v) ==
  /\ stage[v] = "taken" /\ pipe[v] > 1 /\ Break
  /\ pipe' = [pipe EXCEPT ![v] = 1]
  /\ UNCHANGED <<queueVars, clock, at, keys, due, cleaner, historyVars>>

Return(w) ==
  /\ Queue!Finish(w)
  /\ pipe[job[w]] = End /\ UNCHANGED breaks
  /\ UNCHANGED <<clock, at, keys, pipe, due, cleaner, historyVars>>

\* The context's deadline: Redis may still run what it was sent.
TimeOut(w) ==
  /\ Queue!Finish(w)
  /\ Sent(job[w]) /\ Break
  /\ UNCHANGED <<clock, at, keys, pipe, due, cleaner, historyVars>>

-----------------------------------------------------------------------------
(* The cleaner *)

CleanerStep(from) ==
  cleaner.step = from /\ UNCHANGED <<queueVars, clock, at, pipe, breaks>>

Begin ==
  /\ CleanerStep("idle") /\ due
  /\ due' = FALSE
  /\ cleaner' = [NoPass EXCEPT !.step = "scan", !.todo = KeyName]
  /\ UNCHANGED <<keys, historyVars>>

\* The type of the key says what to do with it.
FirstStep(k) == CASE k = "seen" -> "trim" [] k = "hours" -> "read" [] k = "count" -> "count"

Pick(k) ==
  /\ CleanerStep("scan")
  /\ k \in cleaner.todo /\ Exists(keys, k)
  /\ cleaner' = [cleaner EXCEPT !.step = FirstStep(k), !.todo = @ \ {k}, !.now = clock]
  /\ UNCHANGED <<keys, due, historyVars>>

\* The pass ends, having seen all keys or some: SCAN may miss one that is new, and
\* gives up on an error.
EndPass ==
  /\ CleanerStep("scan")
  /\ cleaner' = NoPass
  /\ UNCHANGED <<keys, due, historyVars>>

BackToScan(c) == [NoPass EXCEPT !.step = "scan", !.todo = c.todo]

\* A command fails, and with it the job on this key.
GiveUpKey ==
  /\ cleaner.step \notin {"idle", "scan"} /\ CleanerStep(cleaner.step)
  /\ cleaner' = BackToScan(cleaner)
  /\ UNCHANGED <<keys, due, historyVars>>

TrimWindow ==
  /\ CleanerStep("trim")
  /\ keys' = TrimSeen(keys, cleaner.now)
  /\ cleaner' = BackToScan(cleaner)
  /\ UNCHANGED <<due, historyVars>>

ReadStale ==
  /\ CleanerStep("read")
  /\ cleaner' = [cleaner EXCEPT !.step = "prune", !.stale = StaleHours(keys, Hour(cleaner.now))]
  /\ UNCHANGED <<keys, due, historyVars>>

Prune ==
  /\ CleanerStep("prune")
  /\ keys' = DropHours(keys, cleaner.stale)
  /\ cleaner' = BackToScan(cleaner)
  /\ UNCHANGED <<due, historyVars>>

ReadCount ==
  /\ CleanerStep("count")
  /\ cleaner' =
       IF keys.count \in 1..(MinCount - 1)
         THEN [cleaner EXCEPT !.step = "hours", !.settled = {v \in Visit \ bare : hits[v] > 0}]
         ELSE BackToScan(cleaner)
  /\ UNCHANGED <<keys, due, historyVars>>

\* The buckets cannot be read, there are none, or the last is too old.
LongInactive(readable) ==
  ~readable \/ keys.hours = NoHours \/ clock > LastHour(keys) * HourLen + Inactive

Inspect ==
  /\ CleanerStep("hours")
  /\ \E readable \in {TRUE, ~ReadsFail} :
       cleaner' = IF LongInactive(readable) THEN [cleaner EXCEPT !.step = "delCount", !.now = clock]
                                            ELSE BackToScan(cleaner)
  /\ UNCHANGED <<keys, due, historyVars>>

DeleteCount ==
  /\ CleanerStep("delCount")
  /\ keys' = Delete(keys, {"count"})
  /\ cleaner' = [cleaner EXCEPT !.step = "delSeen"]
  /\ UNCHANGED <<due, historyVars>>

DeleteSeen ==
  /\ CleanerStep("delSeen")
  /\ keys' = Delete(keys, {"seen"})
  /\ cleaner' = [cleaner EXCEPT !.step = "delHours"]
  /\ UNCHANGED <<due, historyVars>>

DeleteHours ==
  /\ CleanerStep("delHours")
  /\ keys' = Delete(keys, {"hours"})
  /\ cleaner' = BackToScan(cleaner)
  /\ hits' = [v \in Visit |-> 0]
  /\ bare' = {}
  /\ UNCHANGED due

\* Time goes on: keys expire, the cleaner's ticker fires.  An increment that no
\* EXPIRE followed goes with a bucket that expires.
Tick ==
  /\ clock < MaxClock
  /\ clock' = clock + 1
  /\ LET gone == Expired(keys, clock + 1) IN
       /\ keys' = Delete(keys, gone)
       /\ hits' = [v \in Visit |-> IF v \in bare /\ "hours" \in gone THEN 0 ELSE hits[v]]
       /\ bare' = IF "hours" \in gone THEN {} ELSE bare
  /\ due' = (due \/ (clock + 1) % Interval = 0)
  /\ UNCHANGED <<queueVars, at, pipe, breaks, cleaner>>

Clean ==
  \/ Begin \/ (\E k \in KeyName : Pick(k)) \/ EndPass \/ GiveUpKey
  \/ TrimWindow \/ ReadStale \/ Prune
  \/ ReadCount \/ Inspect \/ DeleteCount \/ DeleteSeen \/ DeleteHours

-----------------------------------------------------------------------------
(* The panel *)

\* pathStats and tokenStats take the hour once, before they read any bucket: that of
\* the last key may be read when the hour is over.
PanelSum(nowHour) == SummarizeHours(keys, nowHour)

Next ==
  \/ \E v \in Visit : Serve(v) \/ Offer(v) \/ Execute(v) \/ Cut(v) \/ Resend(v)
  \/ \E w \in Worker : Send(w) \/ Return(w) \/ TimeOut(w)
  \/ Clean \/ Tick

Spec == Init /\ [][Next]_vars
-----------------------------------------------------------------------------
(* Properties *)

CleanerSteps == {"idle", "scan", "trim", "read", "prune", "count", "hours",
                 "delCount", "delSeen", "delHours"}

TypeOK ==
  /\ Queue!TypeOK
  /\ clock \in 0..MaxClock
  /\ \A v \in Visit : at[v] \in 0..clock \cup {None} /\ (at[v] = None <=> stage[v] = "new")
  /\ keys.count \in Nat /\ keys.seen \in 0..clock \cup {None}
  /\ \A h \in DOMAIN keys.hours : h \in 0..Hour(clock) /\ keys.hours[h] \in Nat \ {0}
  /\ keys.expires \in [KeyName -> (clock + 1)..(clock + TTL) \cup {None}]
  /\ \A k \in KeyName : keys.expires[k] # None => Exists(keys, k)
  /\ pipe \in [Visit -> 0..End]
  /\ breaks \in 0..MaxBreaks
  /\ due \in BOOLEAN
  /\ cleaner \in [step : CleanerSteps, todo : SUBSET KeyName, now : 0..clock,
                  stale : SUBSET (0..Hour(clock)), settled : SUBSET Visit]
  /\ hits \in [Visit -> 0..(1 + MaxBreaks)]
  /\ bare \subseteq Visit

\* The increments that count for the hours H.
Recorded(H) == Total(hits, {v \in Visit : at[v] # None /\ Hour(at[v]) \in H})

\* What the panel shows for the last hours is what was recorded in them: late
\* events, stale fields, the cleaner's pruning and the expiry of the key remove
\* no increment that is still in the window, and bring none back.  Exceptions are
\* the ones hits has: a deletion by the cleaner, and an increment on a key that
\* expires before the EXPIRE behind it (record, pruneHourBuckets, summarizeHours).
WindowExact ==
  SummarizeHours(keys, Hour(clock)) = Recorded({h \in 0..Hour(clock) : InWindow(h, Hour(clock))})

\* A panel that took its hour just before it ended shows what was recorded in the
\* window of that hour, nothing of the new one, and misses at most the oldest hour,
\* which has left the window meanwhile (pathStats, tokenStats).
PanelWindow ==
  LET hour == Hour(clock) - 1 IN
    Hour(clock) > 0 =>
      PanelSum(hour) \in Recorded({h \in 0..hour : h + Window > hour + 1})
                         ..Recorded({h \in 0..hour : h + Window > hour})

\* As long as no connection fails, a key without a TTL is one whose EXPIRE is still
\* to come in a pipeline on its way: whatever the cleaner deletes in between, no
\* key stays for ever (record).
KeysExpire ==
  LET position(c) == CHOOSE i \in 1..Len(Command) : Command[i] = c
      comes(from, to) == \E v \in Visit : pipe[v] \in (position(from) + 1)..position(to) IN
    breaks = 0 =>
      /\ Exists(keys, "count") /\ keys.expires["count"] = None => comes("count", "expireCount")
      /\ Exists(keys, "hours") /\ keys.expires["hours"] = None => comes("hour", "expireHours")
      /\ Exists(keys, "seen") /\ keys.expires["seen"] = None => comes("seen", "expireSeen")

Deleting == cleaner.step \in {"delCount", "delSeen", "delHours"}

\* A path the cleaner deletes was, but for visits recorded while it looked, not
\* visited for the inactive time, or less than an hour short of it, unless the hour
\* of the visit has left the window meanwhile (checkAndCleanKey).
SparesButAnHour ==
  Deleting => \A v \in cleaner.settled :
    \/ cleaner.now + HourLen > at[v] + Inactive + 1
    \/ Hour(at[v]) + Window <= Hour(cleaner.now)

\* A path the cleaner deletes was not visited for the inactive time
\* (config.example.yaml: only a path long without a visit may be deleted).
SparesSettled ==
  Deleting => \A v \in cleaner.settled : cleaner.now > at[v] + Inactive

\* The score of a client is the time of its last visit (README.md).
ScoreIsLast ==
  \A v \in Visit :
    pipe[v] = End /\ keys.seen # None => keys.seen >= at[v]
=============================================================================
