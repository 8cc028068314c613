------------------------------- MODULE Startup -------------------------------
(***************************************************************************)
(* From the first configuration file to the running servers: LoadDefault   *)
(* and Load (internal/config), then Run (internal/server), which starts    *)
(* the goroutines one after the other and hands over to the servers.  The  *)
(* goroutines of the clean-ups make their tickers themselves, after Run    *)
(* has gone on; a period that is not positive makes NewTicker panic there, *)
(* and with the goroutine the process ends.  So it does when the channel of*)
(* the statistics is too large to be made.  What comes after is in         *)
(* ServerShutdown.                                                         *)
(*                                                                         *)
(* Numbers have the range -Half..Half-1, the int64 of the program made     *)
(* small: the product of a TTL and 3, or of an interval and an hour, wraps.*)
(***************************************************************************)
EXTENDS Integers

CONSTANTS
  Paths,      \* the number of candidate files
  Raw,        \* what a file may say
  Half,       \* 2^63
  HourLen,    \* time.Hour
  MaxChan,    \* the largest channel that can be made
  None,       \* a value that is not given: the empty string
  Bad         \* a text that does not parse

Number == -Half..(Half - 1)
Text(S) == S \cup {None, Bad}

\* A configuration before the defaults.  duration stands for the durations that are
\* used by nothing below, size for the queue and the body limit.
RawConfig ==
  [upstream : {None, "placeholder", "unparsable", "good"},
   ttl200 : Text(Number), ttl4xx : Text(Number), duration : Text(Number),
   port : {None, "8080", "8081"}, adminPort : {None, "8080", "8081"},
   logLevel : Text({"debug", "info"}), failMode : Text({"open", "closed"}),
   secure : BOOLEAN, stats : BOOLEAN, admin : BOOLEAN,
   prefix : {None, "given"}, size : Number, workers : Number, hours : Number]

ASSUME StartupAssumption ==
  /\ Paths \in Nat /\ Half \in Nat /\ 6 < Half /\ HourLen \in 1..(Half - 1)
  /\ MaxChan \in 4..(Half - 1)
  /\ Bad \notin Number /\ None \notin Number \cup {Bad} /\ None \notin RawConfig
  /\ Raw \subseteq RawConfig

Default == [ttl200 |-> 1, ttl4xx |-> 2, size |-> 4, workers |-> 2]

VARIABLES
  file,     \* file[p]: what is at the p-th candidate path
  raw,      \* what the first configuration among the files says
  path,     \* the path LoadDefault tries
  conf,     \* the configuration, None before it is loaded
  main,     \* where the main goroutine stands
  gc,       \* gc[c]: the clean-up goroutine of cache c
  cleaner,  \* the goroutine of the statistics cleaner
  client,   \* the Redis client is there
  deleter,  \* the delayed deleter is there
  queue,    \* the capacity of the statistics channel, 0 when it is nil
  workers   \* the workers that were started

config == <<file, raw, path, conf>>
parts == <<gc, cleaner, client, deleter, queue, workers>>
vars == <<config, main, parts>>

Cache == {"200", "4xx"}

Init ==
  /\ file \in [1..Paths -> {"missing", "broken", "config"}]
  /\ raw \in Raw
  /\ path = 1 /\ conf = None /\ main = "loading"
  /\ gc = [c \in Cache |-> "off"] /\ cleaner = "off"
  /\ client = FALSE /\ deleter = FALSE /\ queue = 0 /\ workers = 0

-----------------------------------------------------------------------------
(* Load *)

Given(text, default) == IF text = None THEN default ELSE text
Positive(n, default) == IF n <= 0 THEN default ELSE n

Port(r) == Given(r.port, "8080")

\* What Load refuses.
Refused(r) ==
  \/ r.upstream \in {None, "placeholder"}
  \/ Bad \in {r.ttl200, r.ttl4xx, r.duration, r.logLevel, r.failMode}
  \/ r.admin /\ Given(r.adminPort, "8081") = Port(r)
  \/ r.stats /\ r.prefix = None

\* Mutant: a size that is given is taken as it is.
AcceptedAnySize(r) ==
  [r EXCEPT !.ttl200 = Given(@, Default.ttl200), !.ttl4xx = Given(@, Default.ttl4xx),
            !.port = Port(r), !.adminPort = Given(@, "8081"),
            !.logLevel = Given(@, "info"), !.failMode = Given(@, "closed"),
            !.size = IF @ = 0 THEN Default.size ELSE @,
            !.workers = Positive(@, Default.workers), !.duration = Given(@, 1)]

\* What Load makes of a configuration it accepts.
Accepted(r) ==
  [r EXCEPT !.ttl200 = Given(@, Default.ttl200), !.ttl4xx = Given(@, Default.ttl4xx),
            !.port = Port(r), !.adminPort = Given(@, "8081"),
            !.logLevel = Given(@, "info"), !.failMode = Given(@, "closed"),
            !.size = Positive(@, Default.size), !.workers = Positive(@, Default.workers),
            !.duration = Given(@, 1)]

Main(from, to) == main = from /\ main' = to

\* Only a file that does not exist makes LoadDefault go on to the next path.
NextPath ==
  /\ main = "loading" /\ path <= Paths /\ file[path] = "missing"
  /\ path' = path + 1
  /\ UNCHANGED <<file, raw, conf, main, parts>>

NoFile == path > Paths /\ Main("loading", "exited") /\ UNCHANGED <<config, parts>>

\* It cannot be read or parsed.
LoadFails ==
  /\ path <= Paths /\ file[path] = "broken"
  /\ Main("loading", "exited")
  /\ UNCHANGED <<config, parts>>

Load ==
  /\ path <= Paths /\ file[path] = "config"
  /\ \/ Refused(raw) /\ Main("loading", "exited") /\ UNCHANGED conf
     \/ ~Refused(raw) /\ Main("loading", "loaded") /\ conf' = Accepted(raw)
  /\ UNCHANGED <<file, raw, path, parts>>

-----------------------------------------------------------------------------
(* Run *)

\* url.Parse may still refuse the upstream.
ParseUpstream ==
  /\ Main("loaded", IF conf.upstream = "unparsable" THEN "exited" ELSE "gc200")
  /\ UNCHANGED <<config, parts>>

StartGC(c, from, to) ==
  /\ Main(from, to)
  /\ gc' = [gc EXCEPT ![c] = "started"]
  /\ UNCHANGED <<config, cleaner, client, deleter, queue, workers>>

\* Mutant: the panel alone gets no client.
InitRedisForRequests ==
  /\ Main("redis", "secure")
  /\ client' = (conf.secure \/ conf.stats)
  /\ UNCHANGED <<config, gc, cleaner, deleter, queue, workers>>

InitRedis ==
  /\ Main("redis", "secure")
  /\ client' = (conf.secure \/ conf.stats \/ conf.admin)
  /\ UNCHANGED <<config, gc, cleaner, deleter, queue, workers>>

\* The ping that follows only warns.
StartDelayDeleter ==
  /\ Main("secure", "workers")
  /\ deleter' = conf.secure
  /\ UNCHANGED <<config, gc, cleaner, client, queue, workers>>

\* make panics when the channel is too large, whatever Load accepted.
StartWorkers ==
  /\ main = "workers"
  /\ \/ conf.stats /\ conf.size > MaxChan
        /\ main' = "crashed" /\ UNCHANGED <<queue, workers>>
     \/ conf.stats /\ conf.size <= MaxChan
        /\ main' = "cleaner" /\ queue' = conf.size /\ workers' = conf.workers
     \/ ~conf.stats
        /\ main' = "cleaner" /\ queue' = 0 /\ workers' = 0
  /\ UNCHANGED <<config, gc, cleaner, client, deleter>>

\* Mutant: the loop of the cleaner runs in the main goroutine.
StartCleanerInline ==
  /\ main = "cleaner"
  /\ cleaner' = IF conf.stats \/ conf.admin THEN "running" ELSE "off"
  /\ main' = IF conf.stats \/ conf.admin THEN main ELSE "serving"
  /\ UNCHANGED <<config, gc, client, deleter, queue, workers>>

StartCleaner ==
  /\ Main("cleaner", "serving")
  /\ cleaner' = IF conf.stats \/ conf.admin THEN "started" ELSE "off"
  /\ UNCHANGED <<config, gc, client, deleter, queue, workers>>

-----------------------------------------------------------------------------
(* The goroutines *)

Wrap(n) == ((n + Half) % (2 * Half)) - Half

\* Mutant: the TTL is tripled twice.
GCPeriodTwice(c) == Wrap(9 * (IF c = "200" THEN conf.ttl200 ELSE conf.ttl4xx))

GCPeriod(c) == Wrap(3 * (IF c = "200" THEN conf.ttl200 ELSE conf.ttl4xx))
CleanerPeriod == Wrap(Positive(conf.hours, 1) * HourLen)

Alive == main \notin {"exited", "crashed"}

\* NewTicker: the process does not survive a period that is not positive.
MakeTicker(period) == IF period > 0 THEN UNCHANGED main ELSE main' = "crashed"

RunGC(c) ==
  /\ Alive /\ gc[c] = "started"
  /\ gc' = [gc EXCEPT ![c] = "running"]
  /\ MakeTicker(GCPeriod(c))
  /\ UNCHANGED <<config, cleaner, client, deleter, queue, workers>>

RunCleaner ==
  /\ Alive /\ cleaner = "started"
  /\ cleaner' = "running"
  /\ MakeTicker(CleanerPeriod)
  /\ UNCHANGED <<config, gc, client, deleter, queue, workers>>

LoadDefault == NextPath \/ NoFile \/ LoadFails \/ Load

Run ==
  \/ LoadDefault \/ ParseUpstream
  \/ StartGC("200", "gc200", "gc4xx") \/ StartGC("4xx", "gc4xx", "redis")
  \/ InitRedis \/ StartDelayDeleter \/ StartWorkers \/ StartCleaner

Next == Run \/ RunCleaner \/ \E c \in Cache : RunGC(c)

\* The goroutines run.
Spec == Init /\ [][Next]_vars /\ WF_vars(Run) /\ WF_vars(RunCleaner)
             /\ \A c \in Cache : WF_vars(RunGC(c))

-----------------------------------------------------------------------------
(* Properties *)

TypeOK ==
  /\ file \in [1..Paths -> {"missing", "broken", "config"}]
  /\ raw \in RawConfig
  /\ path \in 1..(Paths + 1)
  /\ conf = None \/ conf \in RawConfig
  /\ main \in {"loading", "loaded", "gc200", "gc4xx", "redis", "secure", "workers",
               "cleaner", "serving", "exited", "crashed"}
  /\ gc \in [Cache -> {"off", "started", "running"}]
  /\ cleaner \in {"off", "started", "running"}
  /\ client \in BOOLEAN /\ deleter \in BOOLEAN
  /\ queue \in 0..(Half - 1) /\ workers \in 0..(Half - 1)

\* A goroutine that runs, and every handler once the servers do, finds what it uses
\* without waiting for it: the Redis client, the deleter, a channel somebody empties
\* (Run's order; every user reads these variables without a lock).
UsersFindTheirParts ==
  /\ workers > 0 => client /\ queue > 0
  /\ cleaner # "off" => client
  /\ main = "serving" =>
       /\ conf.secure \/ conf.admin => client
       /\ conf.secure => deleter
       /\ conf.stats => client /\ queue > 0 /\ workers > 0
       /\ conf.admin => conf.adminPort # conf.port

\* The periods of the tickers, as numbers that do not wrap, and the channel.
InRange ==
  /\ \A t \in {conf.ttl200, conf.ttl4xx} : t > 0 /\ 3 * t < Half
  /\ conf.stats \/ conf.admin => conf.hours * HourLen < Half
  /\ conf.stats => conf.size <= MaxChan

\* A configuration that Load accepted ends the process during the start only when a TTL
\* is not positive, three times a TTL or the interval of the cleaner is more than a
\* duration holds, or the queue of the statistics is larger than a channel can be: the
\* defaults are in range, and the signs of the interval and of the size are looked
\* after (StartGC, StartCleaner, StartWorkers).
CrashExplained == main = "crashed" => ~InRange

\* The start comes to an end, and with the servers if the upstream parses and the
\* periods and the queue are in range: the main goroutine waits for nobody (Run).
StartSettles ==
  /\ <>(main \in {"exited", "crashed", "serving"})
  /\ (main = "loaded" /\ conf.upstream = "good" /\ InRange) ~> main = "serving"
=============================================================================
