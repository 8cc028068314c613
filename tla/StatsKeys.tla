----------------------------- MODULE StatsKeys -----------------------------
(***************************************************************************)
(* The Redis keys in which the visits one client makes to one path are     *)
(* counted, and what the commands of stats/worker.go, summarize.go and     *)
(* cleaner.go do to them.  The keys of a token have the same form and get  *)
(* the same commands, and so has the set of user agents (::uas).           *)
(*                                                                         *)
(*   count    the field "count" of stats::<path>; 0: no such key           *)
(*   hours    stats::<path>::hours, a function from hour buckets           *)
(*   seen     stats::<path>::ips, the client's score; None: no such key    *)
(*   expires  when each key expires, None when it has no TTL               *)
(*                                                                         *)
(* One clock serves the program and Redis.                                 *)
(***************************************************************************)
EXTENDS Naturals, FiniteSets, FiniteSetsExt

CONSTANTS
  Window,   \* windowHours
  HourLen,  \* units of time in an hour
  None      \* no score, no expiry, no time

TTL == Window * HourLen
KeyName == {"count", "hours", "seen"}

Hour(t) == t \div HourLen

NoHours == [h \in {} |-> 0]
NoKeys == [count |-> 0, hours |-> NoHours, seen |-> None,
           expires |-> [k \in KeyName |-> None]]

Exists(keys, k) ==
  CASE k = "count" -> keys.count > 0
    [] k = "hours" -> keys.hours # NoHours
    [] k = "seen"  -> keys.seen # None

\* A key Redis removed, because it is empty or was deleted, loses its expiry.
Tidy(keys) ==
  [keys EXCEPT !.expires = [k \in KeyName |-> IF Exists(keys, k) THEN @[k] ELSE None]]

IncrCount(keys) == [keys EXCEPT !.count = @ + 1]

IncrHour(keys, h) ==
  LET old(x) == IF x \in DOMAIN keys.hours THEN keys.hours[x] ELSE 0 IN
    [keys EXCEPT !.hours = [x \in DOMAIN @ \cup {h} |-> old(x) + IF x = h THEN 1 ELSE 0]]

DropHours(keys, H) == Tidy([keys EXCEPT !.hours = [x \in DOMAIN @ \ H |-> @[x]]])

SetSeen(keys, t) == [keys EXCEPT !.seen = t]

\* ZREMRANGEBYSCORE from 0 to t - TTL.
TrimSeen(keys, t) ==
  Tidy([keys EXCEPT !.seen = IF @ # None /\ @ + TTL <= t THEN None ELSE @])

\* EXPIRE does nothing to a key that is not there.
Expire(keys, k, now) == Tidy([keys EXCEPT !.expires[k] = now + TTL])

Delete(keys, K) ==
  Tidy([keys EXCEPT !.count = IF "count" \in K THEN 0 ELSE @,
                    !.hours = IF "hours" \in K THEN NoHours ELSE @,
                    !.seen = IF "seen" \in K THEN None ELSE @])

\* The keys whose time has come at now.
Expired(keys, now) == {k \in KeyName : keys.expires[k] # None /\ keys.expires[k] <= now}

-----------------------------------------------------------------------------
(* Reading the buckets *)

InWindow(h, nowHour) == h + Window > nowHour /\ h <= nowHour

\* The sum of f over S, counted unit by unit: x stands for f[x] of them.
Units(f, S) == UNION {{x} \X (1..f[x]) : x \in S}
Total(f, S) == Cardinality(Units(f, S))

\* Mutant: hours after nowHour are summed up too.
SummarizeLaterHours(keys, nowHour) ==
  Total(keys.hours, {h \in DOMAIN keys.hours : h + Window > nowHour})

SummarizeHours(keys, nowHour) ==
  Total(keys.hours, {h \in DOMAIN keys.hours : InWindow(h, nowHour)})

\* Mutant: sinceHour is one too late.
StaleHoursEarly(keys, nowHour) == {h \in DOMAIN keys.hours : h + Window <= nowHour + 1}

StaleHours(keys, nowHour) == {h \in DOMAIN keys.hours : h + Window <= nowHour}

\* Mutant: the comparison the wrong way round.
LastHourFirst(keys) == Min(DOMAIN keys.hours)

LastHour(keys) == Max(DOMAIN keys.hours)
=============================================================================
