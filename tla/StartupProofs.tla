--------------------------- MODULE StartupProofs ---------------------------
(* Proofs about Startup, for every number of candidate files, every set of   *)
(* configurations, and integers and hours of any size.                       *)
EXTENDS Startup, TLAPS

\* What Load guarantees of a configuration it returns.
Loaded ==
  conf # None =>
    /\ conf.ttl200 \in Number /\ conf.ttl4xx \in Number
    /\ conf.size > 0 /\ conf.workers > 0
    /\ conf.admin => conf.adminPort # conf.port

\* What is there when the main goroutine has come to a place.
Placed ==
  /\ main = "loading" => conf = None
  /\ main \notin {"loading", "exited"} => conf # None
  /\ conf = None => cleaner = "off" /\ \A c \in Cache : gc[c] = "off"
  /\ main \in {"loading", "loaded", "gc200", "gc4xx", "redis", "secure", "workers"} =>
       workers = 0 /\ cleaner = "off"
  /\ main \in {"secure", "workers", "cleaner", "serving"} =>
       client = (conf.secure \/ conf.stats \/ conf.admin)
  /\ main \in {"workers", "cleaner", "serving"} => deleter = conf.secure
  /\ main \in {"cleaner", "serving"} /\ conf.stats =>
       queue = conf.size /\ workers = conf.workers
  /\ cleaner # "off" => conf.stats \/ conf.admin

StartInv == TypeOK /\ Loaded /\ Placed /\ UsersFindTheirParts

LEMMA AcceptedLoaded ==
  ASSUME NEW r \in RawConfig, ~Refused(r)
  PROVE  LET a == Accepted(r) IN
           /\ a \in RawConfig
           /\ a.ttl200 \in Number /\ a.ttl4xx \in Number
           /\ a.size > 0 /\ a.workers > 0
           /\ a.admin => a.adminPort # a.port
<1> USE StartupAssumption DEF RawConfig, Number, Text
<1>1. Accepted(r) \in RawConfig
  <2>1. /\ Given(r.ttl200, Default.ttl200) \in Text(Number)
        /\ Given(r.ttl4xx, Default.ttl4xx) \in Text(Number)
        /\ Given(r.duration, 1) \in Text(Number)
    BY DEF Given, Default
  <2>2. Positive(r.size, Default.size) \in Number /\ Positive(r.workers, Default.workers) \in Number
    BY DEF Positive, Default
  <2>3. /\ Port(r) \in {None, "8080", "8081"}
        /\ Given(r.adminPort, "8081") \in {None, "8080", "8081"}
        /\ Given(r.logLevel, "info") \in Text({"debug", "info"})
        /\ Given(r.failMode, "closed") \in Text({"open", "closed"})
    BY DEF Given, Port
  <2> HIDE DEF Number, Text
  <2> QED BY <2>1, <2>2, <2>3 DEF Accepted
<1>2. Accepted(r).ttl200 \in Number /\ Accepted(r).ttl4xx \in Number
  BY DEF Accepted, Given, Refused, Default
<1>3. Accepted(r).size > 0 /\ Accepted(r).workers > 0
  BY DEF Accepted, Positive, Default
<1>4. Accepted(r).admin => Accepted(r).adminPort # Accepted(r).port
  BY DEF Accepted, Given, Refused, Port
<1> QED BY <1>1, <1>2, <1>3, <1>4

LEMMA StartInvariant == Spec => []StartInv
<1> USE StartupAssumption DEF config, parts, Main, Cache
<1>1. Init => StartInv
  <2> SUFFICES ASSUME Init PROVE StartInv
    OBVIOUS
  <2>1. raw \in RawConfig
    BY DEF Init
  <2>2. TypeOK
    <3>1. path \in 1..(Paths + 1) /\ queue \in 0..(Half - 1) /\ workers \in 0..(Half - 1)
      BY DEF Init
    <3>2. gc \in [Cache -> {"off", "started", "running"}]
      BY DEF Init
    <3>3. client \in BOOLEAN /\ deleter \in BOOLEAN
      BY DEF Init
    <3> QED BY <2>1, <3>1, <3>2, <3>3 DEF Init, TypeOK
  <2>3. Loaded /\ Placed /\ UsersFindTheirParts
    BY DEF Init, Loaded, Placed, UsersFindTheirParts
  <2> QED BY <2>2, <2>3 DEF StartInv
<1>2. StartInv /\ [Next]_vars => StartInv'
  <2> SUFFICES ASSUME StartInv, [Next]_vars PROVE StartInv'
    OBVIOUS
  <2> USE DEF StartInv, Placed, UsersFindTheirParts
  <2>0. TypeOK /\ Loaded
    OBVIOUS
  <2>1. CASE NextPath
    BY <2>0, <2>1 DEF NextPath, TypeOK, Loaded
  <2>2. CASE NoFile
    BY <2>0, <2>2 DEF NoFile, TypeOK, Loaded
  <2>3. CASE LoadFails
    BY <2>0, <2>3 DEF LoadFails, TypeOK, Loaded
  <2>4. CASE Load
    <3>1. CASE Refused(raw) /\ main' = "exited" /\ UNCHANGED conf
      BY <2>0, <2>4, <3>1 DEF Load, TypeOK, Loaded
    <3>2. CASE ~Refused(raw) /\ main' = "loaded" /\ conf' = Accepted(raw)
      <4>1. TypeOK' /\ Loaded' /\ conf' \in RawConfig
        BY <2>0, <2>4, <3>2, AcceptedLoaded DEF Load, TypeOK, Loaded
      <4>2. conf' # None
        BY <4>1 DEF RawConfig
      <4> QED BY <2>0, <2>4, <3>2, <4>1, <4>2 DEF Load, TypeOK
    <3> QED BY <2>4, <3>1, <3>2 DEF Load
  <2>5. CASE ParseUpstream
    BY <2>0, <2>5 DEF ParseUpstream, TypeOK, Loaded
  <2>6. CASE StartGC("200", "gc200", "gc4xx")
    BY <2>0, <2>6 DEF StartGC, TypeOK, Loaded
  <2>7. CASE StartGC("4xx", "gc4xx", "redis")
    BY <2>0, <2>7 DEF StartGC, TypeOK, Loaded
  <2>8. CASE InitRedis
    BY <2>0, <2>8 DEF InitRedis, TypeOK, Loaded, RawConfig
  <2>9. CASE StartDelayDeleter
    BY <2>0, <2>9 DEF StartDelayDeleter, TypeOK, Loaded, RawConfig
  <2>10. CASE StartWorkers
    <3>1. conf \in RawConfig /\ conf.size > 0 /\ conf.workers > 0
      BY <2>10 DEF StartWorkers, Loaded, TypeOK
    <3>2. conf.size \in 0..(Half - 1) /\ conf.workers \in 0..(Half - 1)
      BY <3>1 DEF RawConfig, Number
    <3>3. CASE conf.stats /\ conf.size > MaxChan
      <4>1. conf.size \in Int /\ MaxChan \in Int
        BY <3>2
      <4>2. /\ main = "workers" /\ main' = "crashed"
            /\ UNCHANGED <<config, gc, cleaner, client, deleter, queue, workers>>
        BY <2>10, <3>3, <4>1 DEF StartWorkers
      <4>3. TypeOK' /\ Loaded'
        BY <2>0, <4>2 DEF TypeOK, Loaded
      <4> QED BY <2>0, <4>2, <4>3
    <3>4. CASE ~(conf.stats /\ conf.size > MaxChan)
      <4>1. ~conf.stats \/ conf.size <= MaxChan
        BY <3>2, <3>4
      <4> QED BY <2>0, <2>10, <3>1, <3>2, <4>1 DEF StartWorkers, TypeOK, Loaded
    <3> QED BY <3>3, <3>4
  <2>11. CASE StartCleaner
    BY <2>0, <2>11 DEF StartCleaner, TypeOK, Loaded
  <2>12. CASE RunCleaner
    BY <2>0, <2>12 DEF RunCleaner, MakeTicker, Alive, TypeOK, Loaded
  <2>13. ASSUME NEW c \in Cache, RunGC(c) PROVE StartInv'
    BY <2>0, <2>13 DEF RunGC, MakeTicker, Alive, TypeOK, Loaded
  <2>14. CASE UNCHANGED vars
    BY <2>0, <2>14 DEF vars, TypeOK, Loaded
  <2> QED
    BY <2>1, <2>2, <2>3, <2>4, <2>5, <2>6, <2>7, <2>8, <2>9, <2>10, <2>11, <2>12,
       <2>13, <2>14 DEF Next, Run, LoadDefault
<1> QED BY <1>1, <1>2, PTL DEF Spec

\* The variables of the start keep their types (Load, Run).
THEOREM TypeCorrect == Spec => []TypeOK
<1> QED BY StartInvariant, PTL DEF StartInv

\* Nobody runs before what it uses (Run's order).
THEOREM UsersFindTheirPartsAlways == Spec => []UsersFindTheirParts
<1> QED BY StartInvariant, PTL DEF StartInv

-----------------------------------------------------------------------------

LEMMA InRangeKept ==
  ASSUME NEW n \in Number
  PROVE  Wrap(n) = n
<1> USE StartupAssumption DEF Number
<1>1. /\ n + Half \in Int /\ 0 <= n + Half /\ n + Half < 2 * Half
      /\ 2 * Half \in Nat /\ 2 * Half > 0
  OBVIOUS
<1>2. \A a \in Int, b \in Nat : 0 <= a /\ a < b => a % b = a
  OBVIOUS
<1>3. (n + Half) % (2 * Half) = n + Half
  BY <1>1, <1>2
<1> QED BY <1>3 DEF Wrap

LEMMA NaturalsAreNumbers == \A n \in Nat : n < Half => n \in Number
<1> QED BY StartupAssumption DEF Number

LEMMA PeriodsPositive ==
  ASSUME TypeOK, Loaded, conf # None, InRange
  PROVE  /\ \A c \in Cache : GCPeriod(c) > 0
         /\ conf.stats \/ conf.admin => CleanerPeriod > 0
<1>1. ASSUME NEW c \in Cache PROVE GCPeriod(c) > 0
  <2> DEFINE ttl == IF c = "200" THEN conf.ttl200 ELSE conf.ttl4xx
  <2>1. ttl > 0 /\ ttl \in Number /\ 3 * ttl < Half
    BY DEF InRange, Loaded
  <2>2. GCPeriod(c) = Wrap(3 * ttl)
    BY DEF GCPeriod
  <2> HIDE DEF ttl
  <2>3. ttl \in Nat
    BY <2>1, StartupAssumption DEF Number
  <2>4. 3 * ttl \in Nat /\ 3 * ttl > 0
    BY <2>1, <2>3
  <2>5. 3 * ttl \in Number
    BY <2>1, <2>4, NaturalsAreNumbers
  <2>6. Wrap(3 * ttl) = 3 * ttl
    BY <2>5, InRangeKept
  <2> QED BY <2>2, <2>4, <2>6
<1>2. ASSUME conf.stats \/ conf.admin PROVE CleanerPeriod > 0
  <2> DEFINE hours == Positive(conf.hours, 1)
  <2>0. HourLen \in Nat /\ HourLen >= 1 /\ HourLen < Half /\ Half \in Nat
    BY StartupAssumption
  <2>1. conf.hours \in Int
    BY StartupAssumption DEF TypeOK, RawConfig, Number
  <2>2. conf.hours * HourLen < Half
    BY <1>2 DEF InRange
  <2>3. hours \in Nat /\ hours >= 1 /\ hours * HourLen < Half
    <3>1. CASE conf.hours <= 0
      <4>1. hours = 1 /\ 1 * HourLen = HourLen
        BY <2>0, <2>1, <3>1 DEF Positive
      <4> QED BY <2>0, <4>1
    <3>2. CASE ~(conf.hours <= 0)
      <4>1. hours = conf.hours
        BY <3>2 DEF Positive
      <4>2. conf.hours \in Nat /\ conf.hours >= 1
        BY <2>1, <3>2
      <4> QED BY <2>2, <4>1, <4>2
    <3> QED BY <3>1, <3>2
  <2>4. CleanerPeriod = Wrap(hours * HourLen)
    BY DEF CleanerPeriod
  <2> HIDE DEF hours
  <2>5. \A a, b \in Nat : a >= 1 /\ b >= 1 => a * b \in Nat /\ a * b >= 1
    OBVIOUS
  <2>6. hours * HourLen \in Nat /\ hours * HourLen >= 1
    BY <2>0, <2>3, <2>5
  <2>7. hours * HourLen \in Number
    BY <2>3, <2>6, NaturalsAreNumbers
  <2>8. Wrap(hours * HourLen) = hours * HourLen
    BY <2>7, InRangeKept
  <2> QED BY <2>4, <2>6, <2>8
<1> QED BY <1>1, <1>2

\* An accepted configuration ends the process only when a TTL is not positive, a period
\* is out of range or the queue is too large (StartGC, StartCleaner, StartWorkers).
THEOREM CrashExplainedAlways == Spec => []CrashExplained
<1> USE StartupAssumption DEF config, parts, Main
<1>1. Init => CrashExplained
  BY DEF Init, CrashExplained
<1>2. StartInv /\ CrashExplained /\ [Next]_vars => CrashExplained'
  <2> SUFFICES ASSUME StartInv, CrashExplained, [Next]_vars, main' = "crashed"
               PROVE  ~InRange'
    BY DEF CrashExplained
  <2>1. CASE main = "crashed"
    <3>1. conf' = conf
      BY <2>1 DEF Next, Run, LoadDefault, NextPath, NoFile, LoadFails, Load,
           ParseUpstream, StartGC, InitRedis, StartDelayDeleter, StartWorkers,
           StartCleaner, RunGC, RunCleaner, Alive, vars
    <3> QED BY <2>1, <3>1 DEF CrashExplained, InRange
  <2>2. CASE main # "crashed"
    <3>1. conf' = conf /\ (StartWorkers \/ RunCleaner \/ \E c \in Cache : RunGC(c))
      BY <2>2 DEF Next, Run, LoadDefault, NextPath, NoFile, LoadFails, Load,
           ParseUpstream, StartGC, InitRedis, StartDelayDeleter, StartWorkers,
           StartCleaner, RunGC, RunCleaner, vars
    <3>5. ASSUME StartWorkers PROVE ~InRange
      <4>1. conf.stats /\ conf.size > MaxChan
        BY <3>5 DEF StartWorkers
      <4>2. conf.size \in Int /\ MaxChan \in Int
        BY <4>1, <3>5 DEF StartInv, TypeOK, Placed, StartWorkers, RawConfig, Number
      <4> QED BY <4>1, <4>2 DEF InRange
    <3>2. TypeOK /\ Loaded
      BY DEF StartInv
    <3>3. ASSUME RunCleaner PROVE ~InRange
      <4>1. ~(CleanerPeriod > 0) /\ cleaner = "started"
        BY <2>2, <3>3 DEF RunCleaner, MakeTicker
      <4>2. conf # None /\ (conf.stats \/ conf.admin)
        BY <4>1 DEF StartInv, Placed
      <4> QED BY <3>2, <4>1, <4>2, PeriodsPositive
    <3>4. ASSUME NEW c \in Cache, RunGC(c) PROVE ~InRange
      <4>1. ~(GCPeriod(c) > 0) /\ gc[c] = "started"
        BY <2>2, <3>4 DEF RunGC, MakeTicker
      <4>2. conf # None
        BY <4>1 DEF StartInv, Placed
      <4> QED BY <3>2, <4>1, <4>2, PeriodsPositive
    <3> QED BY <3>1, <3>3, <3>4, <3>5 DEF InRange
  <2> QED BY <2>1, <2>2
<1> QED BY <1>1, <1>2, StartInvariant, PTL DEF Spec
=============================================================================
