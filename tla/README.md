# banana-mw in TLA+

banana-mw is a Go middleware that stands between the clients of a
configuration-distribution service and its upstream. It guards requests,
checks one-time tokens in Redis, caches replies in memory, counts visits in
Redis and serves an admin panel. This directory holds TLA+ modules for the
parts of it whose correctness rests on interleaving, time and partial failure,
the TLC configurations that check them and proofs for TLAPS.

    tlc -config ProxyCache.cfg MCProxyCache     # model-check
    tlapm ProxyCacheProofs.tla                  # check proofs

## 1. Inventory

| component | state | operations | talks to |
|---|---|---|---|
| response caches (`internal/cache`) | two maps under RW mutexes, tickers | lookup, store, clean-up | proxy, clock |
| secure middleware (`internal/secure/middleware.go`, `redis.go`) | none of its own; sessions live in Redis | look up, admit, refuse, schedule a deletion | Redis, delayed deletion |
| delayed token deletion (`internal/secure/delay_delete.go`) | map token -> timer under a mutex, context | schedule, timer callback, delete, stop all | Redis, shutdown |
| statistics queue and workers (`internal/stats/worker.go`) | bounded channel, drop counter | enqueue or drop, take, record, stop | Redis, shutdown |
| statistics window (`paths.go`, `summarize.go`) | hour buckets and sorted sets in Redis | count, trim, sum | workers, cleaner, API |
| statistics cleaner (`cleaner.go`, `cleaner_key.go`) | scan cursor | prune windows, delete inactive paths | Redis |
| statistics API (`handlers.go`) | none | read and summarise | Redis |
| guards and trace (`internal/middleware`) | per-request trace | test method, agent, prefix, token | log |
| panic recovery and response writers (`recovery.go`, `requtil`, `BodyCaptureWriter`) | captured status and body of one request | write header, write, recover | the stack of handlers |
| server start and shutdown (`internal/server`) | listeners, error channel, deadline | start, stop, drain | everything above |
| configuration (`internal/config`) | one struct | load, default, validate | start |
| admin panel and authentication (`internal/admin`, `adminauth`) | none | serve pages and JSON | statistics API |
| Redis client (`internal/redisstore`) | the shared client | connect, ping | Redis |

A proxied request passes Recovery, RequestTrace, the guards, the secure
middleware, the statistics middleware, the 4xx cache and the 200 cache, in
that order, and then the upstream. Every request has a goroutine of its own;
two clean-up goroutines, one goroutine per fired timer, the statistics workers
and the cleaner run beside them.

### What is hard here

* **Caches.** A lookup reads the map under the read lock, the clock without a
  lock, and comes back under the write lock to remove what it found expired. A
  store stamps the expiry before it takes the lock. What must hold: an entry is
  under the right key, came from a reply that may be stored, is not served
  after its time nor removed before it; a remembered refusal stops everybody
  who comes while it lasts; the maps do not grow for ever.
* **Delayed deletion.** `Timer.Stop` may come too late, the callback then
  removes whatever entry the token has by now; the map has a limit; shutdown
  makes it nil while uses still arrive. What must hold: the map names live
  timers only and keeps its limit, nothing is written to the nil map, no use is
  forgotten.
* **Secure middleware.** Redis changes between the read, the decision, the
  schedule and the deletion. What must hold: nobody passes without a session
  Redis held during the check, and only a matched session costs a token its
  registration.
* **Statistics.** A full queue, workers that finish out of order, a Redis
  pipeline that is no transaction, a cleaner that reads, decides and deletes in
  three calls while visits are recorded, rounding to hours, loss at shutdown.
* **The chain of handlers.** Four writers around one response keep a status each, by
  four rules; an informational response, a body that breaks off and a panic reach
  them at any point; a request body is read by whoever asks for a token first. What
  must hold: what the client reads, what is stored, counted and logged agree, or
  differ for a known reason.
* **Shutdown.** Background goroutines stop before the servers have drained; the
  servers share one deadline.
* **Start and configuration.** Values that pass validation and break a goroutine
  later; goroutines and handlers that use what must be there before them.

`PROJECT.json` lists every hazard at its line with the properties that cover it.

## 2. Modules

| module | models | state and actions against the code |
|---|---|---|
| `CachedOrigin` | what the caches promise a client | abstract: one exchange with the upstream explains every answer |
| `ProxyCache` | `memory.go`, `middleware.go` of the caches | `data[c]` is `Memory.data` or `Memory4xx.data`; `GetRead`, `GetHit`, `GetExpired`, `GetDrop` are the pieces of `Get` between locks; `StampEntry`/`Set` are `storeResponse` and `Set`; `CleanupExpired` and `Tick` the ticker's goroutine |
| `ProxyCacheProofs` | | theorems about `ProxyCache`, and that it implements `CachedOrigin` |
| `DelayDelete` | `delay_delete.go` | `pending` is the map, `use[r]` the life of the timer that request `r` armed; the three `Schedule...` actions are the three ways out of `schedule`; `Clear`, `CheckContext`, `DeleteDone` are the callback, split at the unlock and at the DEL |
| `DelayDeleteProofs` | | theorems about `DelayDelete` |
| `SecureGate` | `secure/middleware.go`, `redis.go` over `DelayDelete` | `gate[r]` is where `Middleware` stands; `session` is Redis, `failOpen` the failure mode; `Register` and `Withdraw` are the panel and the TTL |
| `SecureGateProofs` | | theorems about `SecureGate` |
| `StatsQueue` | the channel and the workers of `stats/worker.go` | `queue` is the channel, `job[w]` what `runWorker` holds, `stage[v]` how far a visit's event came; `Offer` is `enqueue`, `Finish` the return of `record` |
| `StatsQueueProofs` | | theorems about `StatsQueue` |
| `StatsKeys` | the keys of one path in Redis | operators: the Redis commands the code uses, the hour buckets, their sum, the stale ones |
| `StatsStore` | `record` and `cleaner.go` over `StatsQueue` | `pipe[v]` is the next command of the pipeline of visit `v`; `cleaner.step` stands between two calls of `cleanWindows`, `pruneHourBuckets`, `checkAndCleanKey` or `deletePathKeys`; `Tick` lets keys expire and the cleaner's ticker fire |
| `StatsStoreProofs` | | theorems about `StatsStore`, and those of `StatsQueue` carried over to it |
| `ServerShutdown` | `runHTTPServers` of `server/http.go` | `listener[s]` is where the goroutine of a server stands, `errCh` the channel, `main`, `turn` and `runErr` the main goroutine; `Tell`, `Drained`, `GiveUp` are the start and the two ends of one `Shutdown`; `Return` is the end of the process |
| `ServerShutdownProofs` | | theorems about `ServerShutdown` |
| `ProxyChain` | `router.go`, `guards.go`, `trace.go`, `recovery.go`, `requtil/http.go`, the writers in `cache` and `stats` | one request: `at` is the handler it has come to, `w` the stack of writers and the wire, `trace` is `requestTrace`, `body` the request body; `...Header` and `...Write` are the writers' methods, each calling the next one out; the actions are the handlers, down to the proxy and back |
| `ProxyChainProofs` | | theorems about `ProxyChain` |
| `Startup` | `config.go`, `Run`, the start of every goroutine | `raw` is the file, `conf` what `Load` makes of it, `main` the place in `Run`; `RunGC` and `RunCleaner` are the first step of their goroutines |
| `StartupProofs` | | theorems about `Startup` |
| `MC...` | | symmetry and constant values for TLC, where a run needs them |

The two caches are one algorithm on two maps, so one operator per step takes
the cache as a parameter. Requests are one-shot, so a request also names the
exchange, the entry or the timer it makes; `held` then is the pointer a
goroutine carries from one lock to the next. Bodies, headers and keys are
abstracted to what decides a branch: a reply is a status and whether its body
was empty, whole or past the limit. An aborted copy stores nothing
(`ForwardAborted`). A lookup compares the entry's expiry with the clock
(`memory.go:38`) and answers from it in one step (`GetHit`), so a TTL is judged at
that comparison and not when the client has read the answer.

Time is a clock of whole ticks in `ProxyCache` (so that `After`, used by lookups,
and `Before`, used by clean-up, differ at one instant) and a countdown per timer
in `DelayDelete`. A timer that is due fires at any later moment, and a callback
may be overtaken by a use between any two of its pieces.

In `StatsStore` an hour has `HourLen` units and the window `Window` hours; an
event keeps the time it was stamped with, the program and Redis read one clock.
The keys of a token and the user agents get the same commands as the keys of a
path and the addresses, and one client is enough to tell what a score says.
The cleaner's batches are one key long; a longer one only reads the time earlier.
A retry of the Redis client after a lost connection starts the pipeline again
(`Resend`), and a worker may return while Redis still runs what it got (`TimeOut`).
The shutdown is in `StatsQueue` only. `pathStats` and `tokenStats` sum up with an hour
they looked up earlier (`PanelSum`).

`ProxyChain` follows one request, because nothing of it is shared but the caches, Redis
and the queue, which the other modules model: here each may say anything. What Redis will
say of the token and its session, if it is asked, is chosen at the start (`redis`), in both
failure modes (`conf.open`), and so is whether `NormalizePath` finds a path to track
(`req.tracked`): the statistics pass another request on unwrapped. A body is a
number of bytes, an informational response goes before the final one at most once,
a request body is nothing, a form of declared length, a form in chunks or something
else. What `net/http` and its reverse proxy do is external; a form that was read before
it is sent fails when its length was declared and is empty when it was not.

In `Startup` a number has few bits, so that three times a TTL and an interval in hours
overflow as an `int64` does. A configuration file says what it says at all paths, only one
of them counts. `MaxChan` stands for the largest channel of events the runtime makes;
`make` panics above it. Running out of memory below it, or with too many workers, is not
modelled. Durations that are parsed alike and looked at by nobody else share the
field `duration`; a duration that does not parse is `Bad`.

Variables marked *history* (`source`, `shield`, `taker` of `DelayDelete`, `seen` of
`SecureGate`, which also notes a failed read, `said`, `hits`, `bare`, and `settled` of the
cleaner) are read by properties only.

## 3. Runs

| run | question | bounds |
|---|---|---|
| `caches` | what the caches may hold, when they let go of it, and the refinement of `CachedOrigin` | 3 requests on one key: one holds a stale pointer while a second stores and a third looks up; TTLs of 1, clock to 5, so that each ticker fires and entries expire and are replaced; replies 200, 404 and 502 (which others are stored is in `chain`) |
| `deleter` | the map, its limit, shutdown; who took the entry of a timer the map has lost; every use ends in a deletion | 4 uses, 2 tokens, limit 1: a late callback, the timer it displaces, a further use and a use of another token |
| `deleter_bound` | *violation*: the waiting deletes are not bounded by the limit | as `deleter` |
| `gate` | admission and deletion against a changing Redis | 2 requests, 2 tokens, 2 sessions, one registration by the panel, both failure modes |
| `queue` | where every event is; requests never wait; workers take and return | 4 visits, 2 workers, a channel of 2: it fills while a worker is busy or none is left |
| `store` | the sum over the buckets, and the one the panel shows, against the visits recorded | 2 visits, a window of 2 hours, clock to 2, one failure of any kind: a pipeline that outlives its worker runs beside the next, stale fields, pruning, the end of a TTL; the deletion of paths is off (`MinCount` 0) |
| `store_clean` | keys without a TTL, and whom the cleaner spares | 2 visits, 2 workers, one pass at any time, hours of 2 units, a window of 1 hour, clock to 3 |
| `store_read` | *violation*: the cleaner deletes what was visited just now | 1 visit |
| `store_score` | *violation*: a score goes back | 2 visits, 2 workers |
| `shutdown` | the service ends, for a reason, and never with success over a request it cut off | 2 servers (the proxy and the admin panel are all there are), 3 requests, so that one server drains while the other accepts and has one active |
| `chain` | what the client, the caches, the statistics and the log make of one response | every request, switch and answer of Redis, fail-open and fail-closed, paths that are tracked and others; statuses on both sides of each boundary of `storeResponse`; bodies of up to 3 bytes in pieces of 1 or 2 against a limit of 2: below, at and past it, in one piece or across two |
| `startup` | which accepted configurations start, and that nobody runs before what it uses | 4 paths; each field, or pair of fields that belong together, takes a value on each side of every test, with every choice of the three switches; queue sizes -1, 0, 3, the largest channel (5), and above it; 4-bit numbers |

`CHECK_DEADLOCK FALSE` is set throughout: requests are one-shot and the clock
stops at its bound, so every run of the models ends.

**Fairness.** Goroutines that can run do run. In `caches` this is weak fairness on the
clean-up and on time alone: no request has to go on. In `deleter` it is on timers and
their callbacks (Go's mutex is starvation-free), on `deleteNow` (it has a one-second
timeout), on `stopAll` once the context is done, and on time; no use has to come. In `startup` the main goroutine and the clean-up
goroutines run; `Run` waits for nothing but a ping with a timeout. Nothing requires the
panel to act or the service to stop.

The specification of the run `queue` asks nothing of the workers, so `NeverBlocks`
shows that requests do not depend on them; `QueuedIsTaken` and `WorkersReturn`
assume that they take and return as long as they can, since `record` ends with
`stats_write_timeout`.

In `shutdown` the goroutines of the servers and the main goroutine go on and the deadline
passes; no request has to be answered, and no signal has to come.

**Findings.**

* `deleter_bound`: the comment on `StartDelayDeleter` speaks of *bounded* delayed
  deletes. The limit is compared with `len(pending)`, but the callback of a timer
  that `Stop` came too late for removes the entry of the timer that took its
  place; that timer runs on outside the map, and the next use arms one more.
  `LostTimersExplained` shows that a timer is lost in no other way: its entry was taken
  while it ran, by the callback of one timer that was stopped too late or had been lost
  itself, and no callback loses two running timers; neither `schedule` nor `stopAll` loses
  any.
* `store_read`: `config.example.yaml` says that a path is deleted only when it had few
  visits and none for long. A failed read of the buckets counts as no visit, and
  the path is deleted. What does hold (`SparesButAnHour`): when reads do not fail,
  visits recorded before the cleaner looked are spared, but up to an hour less
  than the inactive time is enough, because only the hour of the last visit is
  known; and a visit whose hour has left the window is not seen any more, so an
  inactive time longer than the window is cut to it.
  A visit that comes between the reads and the deletion goes with the path.
* `store_score`: the README calls the score of a client its last visit. Workers write
  out of order, and ZADD overwrites a later time with an earlier one.

**Observations.** These are in no document of the repository, so they are stated as
properties that hold, and name every way in which the obvious property fails.

* `AnswerExplained`: a panic before anything was written ends in an empty 200. Recovery
  writes a 500 only if `Status()` is 0, which it never is.
* `AnswerExplained`, `LogTellsWire`, `CountedIsServed`: when the upstream sends an
  informational response first, `StatusCaptureWriter` takes it for the status and drops
  the final one. The client reads 200; the cache and the trace go by the real status, and
  the visit is not counted.
* `LogTellsWire`: an admission on a Redis error is logged as `redis_error_open`, never as a
  pass; when the handlers have read a form, the log looks for the token in what they left.
* `AnswerExplained`: `forwardToUpstream` keeps back the panic that would cut the
  connection, so a chunked body that broke off ends like a complete one. `StoredIsServed`:
  nothing of it is stored.
* `CrashExplained`: a TTL of zero or less, or one whose triple overflows, and an interval
  in hours that overflows, are accepted and end the process from a goroutine; a queue size
  larger than a channel can be is accepted and ends it in `Run`.
* The two servers are shut down one after the other on one deadline, so the second
  accepts requests until the first has drained. `CutIsReported` says that what is then
  cut off is at least reported.

## 4. Proofs

All proofs are for any set of requests, keys, tokens, sessions and statuses and for any
TTLs, delay and limits that satisfy the named assumptions.

* `ProxyCacheProofs`: the invariant is `TypeOK`, `PlaceInv` (what a goroutine holds
  at each of its steps) and `BelongInv` (an entry in a map, or in the hands of a
  lookup, is the one its source stored there). `EntriesBelong` follows; alone it
  is not inductive, since a lookup's pointer may outlive the map's entry.
  `NegativeCacheShields` needs beside it that the map still holds an entry no
  older than the shield while a shielded request waits to read. The refinement
  maps `until` to the expiry a published exchange was stamped with.
* `DelayDeleteProofs`: `Places` joins the types, that `stopAll` runs after the
  cancellation, `TrackedTimersLive` and `NilMapUntouched`; `PendingBounded` adds
  the arithmetic of `Cardinality`. `LostTimersExplained` is not inductive alone: `Takers`
  says that a noted taker has been through the map, that no two running timers have the
  same one, and that every running timer the map does not name has one.
* `SecureGateProofs`: `MatchedFirst` ties the deleter's view of a request to the
  gate's; two frame lemmas say what a step of the deleter may change, so the gate
  is proved without opening it.
* `StatsQueueProofs`: `Accounted` is inductive together with the types, but that the
  channel holds no event twice has to be carried through `Append` and `Tail` index
  by index, and that the drop counter is a cardinality through the finiteness of the
  set of visits.
* `ServerShutdownProofs`: `CutIsReported` needs that the servers before the turn take
  no request any more and that a request still active on one of them was given up
  with an error (`TurnInv`). `EndsForAReason` is inductive with the types.
* `ProxyChainProofs`: one lemma for each entry of the stack of writers says what a header or a
  piece of the body does to the whole stack. The invariant `ChainInv` is the types,
  `StoredIsServed`, and one part for each thing the handlers must agree on: `StatusInv` (without
  an informational response every writer has the status that was asked for; after one the first
  writer and that of the statistics are stuck with it), `CopyInv` (what was copied is on the
  wire, and captured unless it was too much), `TraceInv` (with what the secure
  check marked) and `CountInv`. No property is inductive alone: most are about the end of the request,
  and the parts say how it comes to that at every handler.
* `StartupProofs`: `StartInv` is the types, what `Load` guarantees of a configuration
  it returns (`Loaded`), and what is there when the main goroutine has come to a place
  (`Placed`). `CrashExplained` then is arithmetic on the two's complement wrap of three times
  a TTL, and the comparison that `StartWorkers` makes. The candidate files, the configurations and the width of an integer are
  arbitrary; what is missing (`None`) or does not parse (`Bad`) is assumed not to be a number.

* `StatsStoreProofs`: a sum is the cardinality of its units (`Total` in `StatsKeys`), so that
  facts about finite sets do what an induction over the buckets would. Lemmas about the
  commands (`DropFact`, `DeleteFact`, `ExpireFact`, ...) say field by field what each does to
  any keys. `TypeCorrect` rests on `VisitInv` (a visit is in Redis only after it was stamped,
  and is counted once for each time its pipeline was sent), `KeyInv` and `CleanerInv`.
  `KeysExpire` is `ExpireInv`, with the positions in the pipeline as numbers. `KeepInv` is the
  centre: the bucket of a recorded visit is there until its hour has left the window; once an
  EXPIRE has followed the increment, the key outlives the window of that visit (`HourTTL` is the
  arithmetic, the TTL is as long as the window); what the cleaner took for stale stays
  stale, and what was settled when it began to look at a path stays kept. `SparesButAnHour`
  follows from it at `Inspect`, for `~ReadsFail` only: with reads that fail it is false, as
  `store_read` shows. `WindowExact` and `PanelWindow` are two instances of `SumInv`: for any set
  of hours the buckets show at most what was recorded in them, and exactly that when all of them
  are in the window. `SumInv` is not inductive without `KeepInv`, which says that a key that
  expires takes no live increment with it.
  The module is `StatsQueue` with the pipelines added, step by step, so a lemma
  (`ImplementsQueue`) is enough for `StoreAccounts` to carry `Accounted` over to it.
  Assumed are a finite set of visits, a window, an hour and an interval that are not zero, and
  that `None` is neither a visit nor a time. Nothing is assumed of the inactive time and
  `MinCount` but that they are naturals.

Only model-checked: the liveness properties (`ExpiredReclaimed`, `UsedTokenDeleted`,
`NeverBlocks`, `QueuedIsTaken`, `WorkersReturn`, `ServiceEnds`,
`StartSettles`), which are out of the prover's reach. Every safety property and every action
property of a passing run is a theorem.

## 5. Not modelled yet, and the plan

In this order:

1. `ServerShutdown` over `StatsQueue`: events of requests that finish in the drain.
2. The statistics API on half-written keys (a path without its main key is not shown).

## Not modelled

The admin pages and the authentication (stateless functions of one request, and a static
page), the connection of the Redis client (its commands are modelled where they are used),
`ActiveHandler`, `setToken` and `secure_time`, which no route and no code path uses, the
timeouts of `newHTTPServer`, which only `net/http` reads, `ClientIP`, the
path that `NormalizePath` makes (whether it makes one is in `ProxyChain`) and the text of a
cache key, which are functions of strings. A DEL that Redis executes after
the client has timed out is taken as either of the two outcomes at the time of the timeout.
