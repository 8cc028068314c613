-------------------------- MODULE StatsStoreProofs --------------------------
(* Proofs about StatsStore, for any number of visits and workers, any       *)
(* window, hour, inactive time and interval.                                *)
EXTENDS StatsStore, FiniteSetTheorems, TLAPS

-----------------------------------------------------------------------------
(* Hours *)

LEMMA HourFact ==
  ASSUME NEW t \in Nat
  PROVE  Hour(t) \in Nat /\ Hour(t) * HourLen <= t /\ t < Hour(t) * HourLen + HourLen
BY StoreAssumption DEF Hour

LEMMA TTLFact == TTL \in Nat /\ TTL = Window * HourLen /\ TTL >= 1
<1>1. Window \in Nat \ {0} /\ HourLen \in Nat \ {0}
  BY StoreAssumption
<1>2. Window * HourLen \in Nat /\ Window * HourLen # 0
  BY <1>1
<1> QED BY <1>2 DEF TTL

LEMMA Product ==
  ASSUME NEW a \in Nat, NEW b \in Nat, NEW n \in Nat, a <= b
  PROVE  a * n <= b * n
OBVIOUS

LEMMA HourMono ==
  ASSUME NEW s \in Nat, NEW t \in Nat, s <= t
  PROVE  Hour(s) <= Hour(t)
<1> DEFINE a == Hour(s)  b == Hour(t)
<1>1. /\ a \in Nat /\ b \in Nat /\ HourLen \in Nat \ {0}
      /\ a * HourLen <= s /\ t < b * HourLen + HourLen
  BY HourFact, StoreAssumption
<1> HIDE DEF a, b
<1>2. SUFFICES ASSUME b + 1 <= a PROVE FALSE
  BY <1>1 DEF a, b
<1>3. (b + 1) * HourLen <= a * HourLen
  BY <1>1, <1>2, Product
<1>4. (b + 1) * HourLen = b * HourLen + HourLen /\ b * HourLen \in Nat /\ a * HourLen \in Nat
  BY <1>1
<1> QED BY <1>1, <1>3, <1>4

\* The hour of a stamp has left the window when the TTL is over.
LEMMA HourTTL ==
  ASSUME NEW s \in Nat, NEW t \in Nat, s + TTL <= t
  PROVE  Hour(s) + Window <= Hour(t)
<1> DEFINE a == Hour(s)  b == Hour(t)
<1>1. /\ a \in Nat /\ b \in Nat /\ HourLen \in Nat \ {0} /\ Window \in Nat
      /\ a * HourLen <= s /\ t < b * HourLen + HourLen
      /\ TTL = Window * HourLen /\ TTL \in Nat
  BY HourFact, TTLFact, StoreAssumption
<1> HIDE DEF a, b
<1>2. SUFFICES ASSUME b + 1 <= a + Window PROVE FALSE
  BY <1>1 DEF a, b
<1>3. (b + 1) * HourLen <= (a + Window) * HourLen
  BY <1>1, <1>2, Product
<1>4. /\ (b + 1) * HourLen = b * HourLen + HourLen
      /\ (a + Window) * HourLen = a * HourLen + Window * HourLen
      /\ b * HourLen \in Nat /\ a * HourLen \in Nat
  BY <1>1
<1> QED BY <1>1, <1>3, <1>4

-----------------------------------------------------------------------------
(* Totals: a sum is the number of its units, and facts about finite sets do *)
(* what an induction would.                                                 *)

LEMMA InUnits ==
  ASSUME NEW f, NEW S, NEW p
  PROVE  p \in Units(f, S) <=> \E x \in S : \E i \in 1..f[x] : p = <<x, i>>
BY DEF Units

LEMMA UnitsFinite ==
  ASSUME NEW f, NEW S, IsFiniteSet(S), \A x \in S : f[x] \in Nat
  PROVE  IsFiniteSet(Units(f, S)) /\ Total(f, S) \in Nat
<1> DEFINE T == {{x} \X (1..f[x]) : x \in S}
           g == [x \in S |-> {x} \X (1..f[x])]
<1>1. g \in Surjection(S, T)
  BY DEF Surjection
<1>2. IsFiniteSet(T)
  BY <1>1, FS_Surjection
<1>3. ASSUME NEW P \in T PROVE IsFiniteSet(P)
  <2>1. PICK x \in S : P = {x} \X (1..f[x])
    OBVIOUS
  <2>2. IsFiniteSet({x}) /\ IsFiniteSet(1..f[x])
    <3>1. 1 \in Int /\ f[x] \in Int
      OBVIOUS
    <3>2. IsFiniteSet(1..f[x])
      BY <3>1, FS_Interval
    <3> QED BY <3>2, FS_Singleton
  <2> QED BY <2>1, <2>2, FS_Product
<1>4. IsFiniteSet(UNION T)
  BY <1>2, <1>3, FS_UNION
<1>5. IsFiniteSet(Units(f, S))
  BY <1>4 DEF Units
<1> QED BY <1>5, FS_CardinalityType DEF Total

\* Members that count for nothing may be left out, and equal functions have equal sums.
LEMMA UnitsSame ==
  ASSUME NEW f, NEW g, NEW S, NEW T,
         \A x \in S : (x \in T /\ g[x] = f[x]) \/ f[x] = 0,
         \A x \in T : (x \in S /\ g[x] = f[x]) \/ g[x] = 0
  PROVE  Total(f, S) = Total(g, T)
<1>1. ASSUME NEW p PROVE p \in Units(f, S) <=> p \in Units(g, T)
  BY InUnits
<1>2. Units(f, S) = Units(g, T)
  BY <1>1
<1> QED BY <1>2 DEF Total

LEMMA TotalMono ==
  ASSUME NEW f, NEW g, NEW S, NEW T, IsFiniteSet(T), \A x \in T : g[x] \in Nat,
         S \subseteq T, \A x \in S : f[x] = g[x]
  PROVE  Total(f, S) <= Total(g, T)
<1>1. ASSUME NEW p \in Units(f, S) PROVE p \in Units(g, T)
  BY InUnits
<1>2. Units(f, S) \in SUBSET Units(g, T)
  BY <1>1
<1>3. IsFiniteSet(Units(g, T))
  BY UnitsFinite
<1> QED BY <1>2, <1>3, FS_Subset DEF Total

LEMMA TotalZero ==
  ASSUME NEW f, NEW S, \A x \in S : f[x] = 0
  PROVE  Total(f, S) = 0
<1>1. ASSUME NEW p PROVE p \notin Units(f, S)
  BY InUnits
<1>2. Units(f, S) = {}
  BY <1>1
<1> QED BY <1>2, FS_EmptySet DEF Total

\* One more unit of x, which may be new.
LEMMA TotalAdd ==
  ASSUME NEW f, NEW g, NEW S, IsFiniteSet(S), \A y \in S : f[y] \in Nat,
         NEW x, NEW n \in Nat, x \in S => f[x] = n, x \notin S => n = 0,
         g[x] = n + 1, \A y \in S : y # x => g[y] = f[y]
  PROVE  Total(g, S \cup {x}) = Total(f, S) + 1
<1> DEFINE u == <<x, n + 1>>
<1>1. ASSUME NEW p PROVE p \in Units(g, S \cup {x}) <=> p \in Units(f, S) \/ p = u
  <2>1. \A i : i \in 1..(n + 1) <=> i \in 1..n \/ i = n + 1
    OBVIOUS
  <2>2. ASSUME p \in Units(g, S \cup {x}) PROVE p \in Units(f, S) \/ p = u
    <3>1. PICK y \in S \cup {x} : \E j \in 1..g[y] : p = <<y, j>>
      BY <2>2, InUnits
    <3>5. PICK i \in 1..g[y] : p = <<y, i>>
      BY <3>1
    <3>2. CASE y # x
      BY <3>5, <3>2, InUnits
    <3>3. CASE y = x /\ i = n + 1
      BY <3>5, <3>3
    <3>4. CASE y = x /\ i \in 1..n
      <4>1. x \in S /\ i \in 1..f[x]
        BY <3>4
      <4> QED BY <3>5, <3>4, <4>1, InUnits
    <3> QED BY <2>1, <3>5, <3>2, <3>3, <3>4
  <2>3. ASSUME p \in Units(f, S) PROVE p \in Units(g, S \cup {x})
    <3>1. PICK y \in S : \E j \in 1..f[y] : p = <<y, j>>
      BY <2>3, InUnits
    <3>2. PICK i \in 1..f[y] : p = <<y, i>>
      BY <3>1
    <3>3. i \in 1..g[y]
      BY <2>1, <3>2
    <3> QED BY <3>2, <3>3, InUnits
  <2>4. u \in Units(g, S \cup {x})
    <3>1. x \in S \cup {x} /\ n + 1 \in 1..g[x]
      OBVIOUS
    <3> QED BY <3>1, InUnits
  <2> QED BY <2>2, <2>3, <2>4
<1>2. Units(g, S \cup {x}) = Units(f, S) \cup {u}
  BY <1>1
<1>3. u \notin Units(f, S)
  <2>1. ASSUME NEW y \in S PROVE \A i \in 1..f[y] : u # <<y, i>>
    OBVIOUS
  <2> QED BY <2>1, InUnits
<1>4. IsFiniteSet(Units(f, S))
  BY UnitsFinite
<1> QED BY <1>2, <1>3, <1>4, FS_AddElement DEF Total

-----------------------------------------------------------------------------
(* The keys: what each command does, field by field. *)

Buckets == UNION {[D -> Nat \ {0}] : D \in SUBSET Nat}
Stored == [count : Nat, hours : Buckets, seen : Nat \cup {None},
           expires : [KeyName -> Nat \cup {None}]]

\* The commands that only take away.
Shrunk(k, r) ==
  /\ r \in Stored
  /\ r.count \in {k.count, 0}
  /\ DOMAIN r.hours \subseteq DOMAIN k.hours
  /\ \A h \in DOMAIN r.hours : r.hours[h] = k.hours[h]
  /\ r.seen \in {k.seen, None}
  /\ \A n \in KeyName : r.expires[n] = IF Exists(r, n) THEN k.expires[n] ELSE None

LEMMA BucketFact ==
  ASSUME NEW b \in Buckets
  PROVE  /\ DOMAIN b \subseteq Nat /\ b \in [DOMAIN b -> Nat \ {0}]
         /\ b = NoHours <=> DOMAIN b = {}
<1>1. PICK D \in SUBSET Nat : b \in [D -> Nat \ {0}]
  BY DEF Buckets
<1> QED BY <1>1 DEF NoHours

LEMMA NoBuckets == NoHours \in Buckets /\ DOMAIN NoHours = {}
<1>1. NoHours \in [{} -> Nat \ {0}] /\ {} \in SUBSET Nat
  BY DEF NoHours
<1> QED BY <1>1 DEF Buckets

LEMMA ExistsFact ==
  ASSUME NEW k \in Stored
  PROVE  /\ Exists(k, "count") <=> k.count > 0
         /\ Exists(k, "hours") <=> DOMAIN k.hours # {}
         /\ Exists(k, "seen") <=> k.seen # None
         /\ KeyName = {"count", "hours", "seen"}
BY BucketFact DEF Exists, KeyName, Stored

\* Tidy leaves everything but the expiry of what is not there.
LEMMA TidyFact ==
  ASSUME NEW k \in Stored
  PROVE  LET r == Tidy(k) IN
           /\ r \in Stored
           /\ r.count = k.count /\ r.hours = k.hours /\ r.seen = k.seen
           /\ \A n \in KeyName : Exists(r, n) <=> Exists(k, n)
           /\ \A n \in KeyName : r.expires[n] = IF Exists(r, n) THEN k.expires[n] ELSE None
<1> DEFINE e == [n \in KeyName |-> IF Exists(k, n) THEN k.expires[n] ELSE None]
           r == Tidy(k)
<1>1. r = [k EXCEPT !.expires = e]
  BY DEF Tidy
<1>2. e \in [KeyName -> Nat \cup {None}]
  BY DEF Stored
<1>3. \A n \in KeyName : e[n] = IF Exists(k, n) THEN k.expires[n] ELSE None
  OBVIOUS
<1> HIDE DEF e, r
<1>4. /\ r \in Stored /\ r.expires = e
      /\ r.count = k.count /\ r.hours = k.hours /\ r.seen = k.seen
  BY <1>1, <1>2 DEF Stored
<1>5. \A n \in KeyName : Exists(r, n) <=> Exists(k, n)
  BY <1>4 DEF Exists, KeyName
<1>6. \A n \in KeyName : r.expires[n] = IF Exists(r, n) THEN k.expires[n] ELSE None
  BY <1>3, <1>4, <1>5
<1> QED BY <1>4, <1>5, <1>6 DEF r

LEMMA DropFact ==
  ASSUME NEW k \in Stored, NEW H
  PROVE  LET r == DropHours(k, H) IN
           Shrunk(k, r) /\ DOMAIN r.hours = DOMAIN k.hours \ H /\ r.count = k.count
<1> DEFINE b == [x \in DOMAIN k.hours \ H |-> k.hours[x]]
           m == [k EXCEPT !.hours = b]
           r == DropHours(k, H)
<1>1. k.hours \in Buckets
  BY DEF Stored
<1>2. b \in [DOMAIN k.hours \ H -> Nat \ {0}] /\ DOMAIN k.hours \ H \in SUBSET Nat
  BY <1>1, BucketFact
<1>3. b \in Buckets /\ DOMAIN b = DOMAIN k.hours \ H /\ \A x \in DOMAIN b : b[x] = k.hours[x]
  BY <1>2 DEF Buckets
<1>4. r = Tidy(m)
  BY DEF DropHours
<1> HIDE DEF b
<1>5. /\ m \in Stored /\ m.hours = b
      /\ m.count = k.count /\ m.seen = k.seen /\ m.expires = k.expires
  BY <1>3 DEF Stored
<1> HIDE DEF m, r
<1>6. /\ r \in Stored
      /\ r.count = m.count /\ r.hours = m.hours /\ r.seen = m.seen
      /\ \A n \in KeyName : r.expires[n] = IF Exists(r, n) THEN m.expires[n] ELSE None
  BY <1>4, <1>5, TidyFact
<1>7. Shrunk(k, r) /\ DOMAIN r.hours = DOMAIN k.hours \ H /\ r.count = k.count
  BY <1>3, <1>5, <1>6 DEF Shrunk
<1> QED BY <1>7 DEF r

LEMMA TrimFact ==
  ASSUME NEW k \in Stored, NEW t \in Nat
  PROVE  LET r == TrimSeen(k, t) IN
           Shrunk(k, r) /\ r.hours = k.hours /\ r.count = k.count
<1> DEFINE s == IF k.seen # None /\ k.seen + TTL <= t THEN None ELSE k.seen
           m == [k EXCEPT !.seen = s]
           r == TrimSeen(k, t)
<1>1. s \in {k.seen, None}
  OBVIOUS
<1>2. r = Tidy(m)
  BY DEF TrimSeen
<1> HIDE DEF s
<1>3. /\ m \in Stored /\ m.seen = s
      /\ m.count = k.count /\ m.hours = k.hours /\ m.expires = k.expires
  BY <1>1 DEF Stored
<1> HIDE DEF m, r
<1>4. /\ r \in Stored
      /\ r.count = m.count /\ r.hours = m.hours /\ r.seen = m.seen
      /\ \A n \in KeyName : r.expires[n] = IF Exists(r, n) THEN m.expires[n] ELSE None
  BY <1>2, <1>3, TidyFact
<1>5. Shrunk(k, r) /\ r.hours = k.hours /\ r.count = k.count
  BY <1>1, <1>3, <1>4 DEF Shrunk
<1> QED BY <1>5 DEF r

LEMMA DeleteFact ==
  ASSUME NEW k \in Stored, NEW K
  PROVE  LET r == Delete(k, K) IN
           /\ Shrunk(k, r)
           /\ r.count = IF "count" \in K THEN 0 ELSE k.count
           /\ r.hours = IF "hours" \in K THEN NoHours ELSE k.hours
           /\ r.seen = IF "seen" \in K THEN None ELSE k.seen
<1> DEFINE c == IF "count" \in K THEN 0 ELSE k.count
           b == IF "hours" \in K THEN NoHours ELSE k.hours
           s == IF "seen" \in K THEN None ELSE k.seen
           m == [[[k EXCEPT !.count = c] EXCEPT !.hours = b] EXCEPT !.seen = s]
           r == Delete(k, K)
<1>1. c \in Nat /\ c \in {k.count, 0} /\ s \in Nat \cup {None} /\ s \in {k.seen, None}
  BY DEF Stored
<1>2. /\ b \in Buckets /\ DOMAIN b \subseteq DOMAIN k.hours
      /\ \A h \in DOMAIN b : b[h] = k.hours[h]
  BY NoBuckets DEF Stored
<1>3. r = Tidy(m)
  BY DEF Delete
<1> HIDE DEF c, b, s
<1>4. /\ m \in Stored /\ m.count = c /\ m.hours = b /\ m.seen = s
      /\ m.expires = k.expires
  BY <1>1, <1>2 DEF Stored
<1> HIDE DEF m, r
<1>5. /\ r \in Stored
      /\ r.count = m.count /\ r.hours = m.hours /\ r.seen = m.seen
      /\ \A n \in KeyName : r.expires[n] = IF Exists(r, n) THEN m.expires[n] ELSE None
  BY <1>3, <1>4, TidyFact
<1>6. r.count = c /\ r.hours = b /\ r.seen = s /\ Shrunk(k, r)
  BY <1>1, <1>2, <1>4, <1>5 DEF Shrunk
<1> QED BY <1>6 DEF r, c, b, s

\* The commands that add to a key.
LEMMA CountFact ==
  ASSUME NEW k \in Stored
  PROVE  LET r == IncrCount(k) IN
           /\ r \in Stored /\ r.count = k.count + 1
           /\ r.hours = k.hours /\ r.seen = k.seen /\ r.expires = k.expires
BY DEF IncrCount, Stored

LEMMA SeenFact ==
  ASSUME NEW k \in Stored, NEW t \in Nat
  PROVE  LET r == SetSeen(k, t) IN
           /\ r \in Stored /\ r.seen = t
           /\ r.count = k.count /\ r.hours = k.hours /\ r.expires = k.expires
BY DEF SetSeen, Stored

LEMMA IncrHourFact ==
  ASSUME NEW k \in Stored, NEW h \in Nat
  PROVE  LET r == IncrHour(k, h)
             n == IF h \in DOMAIN k.hours THEN k.hours[h] ELSE 0 IN
           /\ r \in Stored
           /\ DOMAIN r.hours = DOMAIN k.hours \cup {h}
           /\ n \in Nat /\ r.hours[h] = n + 1
           /\ \A x \in DOMAIN k.hours : x # h => r.hours[x] = k.hours[x]
           /\ r.count = k.count /\ r.seen = k.seen /\ r.expires = k.expires
<1> DEFINE D == DOMAIN k.hours
           n == IF h \in D THEN k.hours[h] ELSE 0
           b == [x \in D \cup {h} |->
                  (IF x \in D THEN k.hours[x] ELSE 0) + IF x = h THEN 1 ELSE 0]
           r == IncrHour(k, h)
<1>1. D \subseteq Nat /\ k.hours \in [D -> Nat \ {0}]
  BY BucketFact DEF Stored
<1>2. r = [k EXCEPT !.hours = b]
  BY DEF IncrHour
<1>3. n \in Nat /\ b[h] = n + 1
  BY <1>1
<1>4. \A x \in D : x # h => b[x] = k.hours[x]
  BY <1>1
<1>5. b \in [D \cup {h} -> Nat \ {0}]
  <2>1. ASSUME NEW x \in D \cup {h} PROVE b[x] \in Nat \ {0}
    <3>1. CASE x = h
      BY <1>3, <3>1
    <3>2. CASE x # h
      BY <1>1, <1>4, <3>2
    <3> QED BY <3>1, <3>2
  <2> QED BY <2>1
<1>6. b \in Buckets /\ DOMAIN b = D \cup {h}
  BY <1>1, <1>5 DEF Buckets
<1> HIDE DEF b, n
<1>7. /\ r \in Stored /\ r.hours = b
      /\ r.count = k.count /\ r.seen = k.seen /\ r.expires = k.expires
  BY <1>2, <1>6 DEF Stored
<1> HIDE DEF r
<1>8. /\ DOMAIN r.hours = D \cup {h} /\ n \in Nat /\ r.hours[h] = n + 1
      /\ \A x \in D : x # h => r.hours[x] = k.hours[x]
  BY <1>3, <1>4, <1>6, <1>7
<1> QED BY <1>7, <1>8 DEF r, n

\* EXPIRE changes no key, and the expiry of those that are there.
LEMMA ExpireFact ==
  ASSUME NEW k \in Stored, NEW n \in KeyName, NEW t \in Nat
  PROVE  LET r == Expire(k, n, t) IN
           /\ r \in Stored
           /\ r.count = k.count /\ r.hours = k.hours /\ r.seen = k.seen
           /\ \A x \in KeyName : Exists(r, x) <=> Exists(k, x)
           /\ \A x \in KeyName :
                r.expires[x] = IF ~Exists(k, x) THEN None
                               ELSE IF x = n THEN t + TTL ELSE k.expires[x]
<1> DEFINE e == [k.expires EXCEPT ![n] = t + TTL]
           m == [k EXCEPT !.expires = e]
           r == Expire(k, n, t)
<1>1. t + TTL \in Nat /\ k.expires \in [KeyName -> Nat \cup {None}]
  BY TTLFact DEF Stored
<1>2. /\ e \in [KeyName -> Nat \cup {None}]
      /\ \A x \in KeyName : e[x] = IF x = n THEN t + TTL ELSE k.expires[x]
  BY <1>1
<1>3. r = Tidy(m)
  BY DEF Expire
<1> HIDE DEF e
<1>4. /\ m \in Stored /\ m.expires = e
      /\ m.count = k.count /\ m.hours = k.hours /\ m.seen = k.seen
  BY <1>2 DEF Stored
<1>5. \A x \in KeyName : Exists(m, x) <=> Exists(k, x)
  BY <1>4 DEF Exists, KeyName
<1> HIDE DEF m, r
<1>6. /\ r \in Stored
      /\ r.count = m.count /\ r.hours = m.hours /\ r.seen = m.seen
      /\ \A x \in KeyName : Exists(r, x) <=> Exists(m, x)
      /\ \A x \in KeyName : r.expires[x] = IF Exists(r, x) THEN m.expires[x] ELSE None
  BY <1>3, <1>4, TidyFact
<1>7. \A x \in KeyName :
        r.expires[x] = IF ~Exists(k, x) THEN None
                       ELSE IF x = n THEN t + TTL ELSE k.expires[x]
  BY <1>2, <1>4, <1>5, <1>6
<1> QED BY <1>4, <1>5, <1>6, <1>7 DEF r

-----------------------------------------------------------------------------
(* The keys at a time *)

KeysAt(k, t) ==
  /\ k \in Stored
  /\ k.seen \in 0..t \cup {None}
  /\ DOMAIN k.hours \subseteq 0..Hour(t)
  /\ \A n \in KeyName : k.expires[n] \in (t + 1)..(t + TTL) \cup {None}
  /\ \A n \in KeyName : k.expires[n] # None => Exists(k, n)

LEMMA ShrunkAt ==
  ASSUME NEW t \in Nat, NEW k, NEW r, KeysAt(k, t), Shrunk(k, r)
  PROVE  KeysAt(r, t)
BY DEF KeysAt, Shrunk

LEMMA CountAt ==
  ASSUME NEW t \in Nat, NEW k, KeysAt(k, t)
  PROVE  KeysAt(IncrCount(k), t)
<1> DEFINE r == IncrCount(k)
<1>1. k \in Stored
  BY DEF KeysAt
<1>2. /\ r \in Stored /\ r.count = k.count + 1 /\ k.count \in Nat
      /\ r.hours = k.hours /\ r.seen = k.seen /\ r.expires = k.expires
  BY <1>1, CountFact DEF Stored
<1> HIDE DEF r
<1>3. \A n \in KeyName : Exists(k, n) => Exists(r, n)
  <2>1. k.count > 0 => r.count > 0
    BY <1>2
  <2> QED BY <1>1, <1>2, <2>1, ExistsFact
<1>4. KeysAt(r, t)
  BY <1>2, <1>3 DEF KeysAt
<1> QED BY <1>4 DEF r

LEMMA SeenAt ==
  ASSUME NEW t \in Nat, NEW s \in 0..t, NEW k, KeysAt(k, t)
  PROVE  KeysAt(SetSeen(k, s), t)
<1> DEFINE r == SetSeen(k, s)
<1>1. k \in Stored /\ s \in Nat /\ s # None
  BY StoreAssumption DEF KeysAt
<1>2. /\ r \in Stored /\ r.seen = s
      /\ r.count = k.count /\ r.hours = k.hours /\ r.expires = k.expires
  BY <1>1, SeenFact
<1> HIDE DEF r
<1>3. \A n \in KeyName : Exists(k, n) => Exists(r, n)
  BY <1>1, <1>2 DEF Exists, KeyName
<1>4. KeysAt(r, t)
  BY <1>2, <1>3 DEF KeysAt
<1> QED BY <1>4 DEF r

LEMMA IncrHourAt ==
  ASSUME NEW t \in Nat, NEW h \in 0..Hour(t), NEW k, KeysAt(k, t)
  PROVE  KeysAt(IncrHour(k, h), t)
<1> DEFINE r == IncrHour(k, h)
<1>1. k \in Stored /\ h \in Nat
  BY DEF KeysAt
<1>2. /\ r \in Stored /\ DOMAIN r.hours = DOMAIN k.hours \cup {h}
      /\ r.count = k.count /\ r.seen = k.seen /\ r.expires = k.expires
  BY <1>1, IncrHourFact
<1> HIDE DEF r
<1>3. Exists(r, "hours")
  BY <1>2, ExistsFact
<1>4. \A n \in KeyName : Exists(k, n) => Exists(r, n)
  BY <1>2, <1>3 DEF Exists, KeyName
<1>5. DOMAIN r.hours \subseteq 0..Hour(t)
  BY <1>2 DEF KeysAt
<1>6. KeysAt(r, t)
  BY <1>2, <1>4, <1>5 DEF KeysAt
<1> QED BY <1>6 DEF r

LEMMA ExpireAt ==
  ASSUME NEW t \in Nat, NEW n \in KeyName, NEW k, KeysAt(k, t)
  PROVE  KeysAt(Expire(k, n, t), t)
<1> DEFINE r == Expire(k, n, t)
<1>1. k \in Stored /\ t + TTL \in (t + 1)..(t + TTL)
  BY TTLFact DEF KeysAt
<1>2. /\ r \in Stored
      /\ r.count = k.count /\ r.hours = k.hours /\ r.seen = k.seen
      /\ \A x \in KeyName : Exists(r, x) <=> Exists(k, x)
      /\ \A x \in KeyName :
           r.expires[x] = IF ~Exists(k, x) THEN None
                          ELSE IF x = n THEN t + TTL ELSE k.expires[x]
  BY <1>1, ExpireFact
<1> HIDE DEF r
<1>3. KeysAt(r, t)
  BY <1>1, <1>2 DEF KeysAt
<1> QED BY <1>3 DEF r

\* One unit of time later, without what has expired by then.
LEMMA TickAt ==
  ASSUME NEW t \in Nat, NEW k, KeysAt(k, t)
  PROVE  KeysAt(Delete(k, Expired(k, t + 1)), t + 1)
<1> DEFINE g == Expired(k, t + 1)
           r == Delete(k, g)
<1>1. k \in Stored
  BY DEF KeysAt
<1>2. /\ Shrunk(k, r)
      /\ r.count = IF "count" \in g THEN 0 ELSE k.count
      /\ r.hours = IF "hours" \in g THEN NoHours ELSE k.hours
      /\ r.seen = IF "seen" \in g THEN None ELSE k.seen
  BY <1>1, DeleteFact
<1>3. g = {n \in KeyName : k.expires[n] # None /\ k.expires[n] <= t + 1}
  BY DEF Expired
<1> HIDE DEF r, g
<1>4. \A n \in KeyName : n \in g => ~Exists(r, n)
  <2>1. r \in Stored
    BY <1>2 DEF Shrunk
  <2>2. "count" \in g => ~(r.count > 0)
    BY <1>2
  <2>3. "hours" \in g => DOMAIN r.hours = {}
    BY <1>2, NoBuckets
  <2>4. "seen" \in g => r.seen = None
    BY <1>2
  <2> QED BY <2>1, <2>2, <2>3, <2>4, ExistsFact
<1>5. KeysAt(r, t)
  BY <1>2, ShrunkAt
<1>6. ASSUME NEW n \in KeyName, r.expires[n] # None
      PROVE  r.expires[n] \in ((t + 1) + 1)..((t + 1) + TTL)
  <2>1. Exists(r, n) /\ n \notin g
    BY <1>4, <1>5, <1>6 DEF KeysAt
  <2>2. r.expires[n] = k.expires[n] /\ ~(k.expires[n] <= t + 1)
    BY <1>2, <1>3, <1>6, <2>1 DEF Shrunk
  <2>3. r.expires[n] \in (t + 1)..(t + TTL)
    BY <1>5, <1>6 DEF KeysAt
  <2> QED BY <2>2, <2>3, TTLFact
<1>7. Hour(t) <= Hour(t + 1) /\ Hour(t) \in Nat /\ Hour(t + 1) \in Nat
  BY HourMono, HourFact
<1>8. KeysAt(r, t + 1)
  <2>1. r.seen \in 0..(t + 1) \cup {None}
    BY <1>5 DEF KeysAt
  <2>2. DOMAIN r.hours \subseteq 0..Hour(t + 1)
    BY <1>5, <1>7 DEF KeysAt
  <2> QED BY <1>5, <1>6, <2>1, <2>2 DEF KeysAt
<1> QED BY <1>8 DEF r, g

-----------------------------------------------------------------------------
(* What is left of a visit stamped s *)

GoneBy(s, t) == Hour(s) + Window <= Hour(t)

\* Its bucket is there until its hour has left the window ...
Held(k, s, t) == GoneBy(s, t) \/ Hour(s) \in DOMAIN k.hours

\* ... and its key does not expire before.
Kept(k, s, t) ==
  \/ GoneBy(s, t)
  \/ /\ Hour(s) \in DOMAIN k.hours
     /\ k.expires["hours"] # None /\ k.expires["hours"] >= s + TTL

\* A command that removes stale buckets only, and expires no key early.
Sparing(k, r, t) ==
  /\ \A h \in DOMAIN k.hours : h \in DOMAIN r.hours \/ h + Window <= Hour(t)
  /\ DOMAIN r.hours # {} => r.expires["hours"] \in {k.expires["hours"], t + TTL}

LEMMA SparingKeeps ==
  ASSUME NEW t \in Nat, NEW s \in 0..t, NEW k, NEW r, Sparing(k, r, t)
  PROVE  (Held(k, s, t) => Held(r, s, t)) /\ (Kept(k, s, t) => Kept(r, s, t))
<1>1. t + TTL >= s + TTL /\ t + TTL # None
  BY TTLFact, StoreAssumption
<1> QED BY <1>1 DEF Sparing, Held, Kept, GoneBy

LEMMA KeptHeld ==
  ASSUME NEW t, NEW s, NEW k, Kept(k, s, t)
  PROVE  Held(k, s, t)
BY DEF Kept, Held

\* After an EXPIRE of the buckets what was held is kept.
LEMMA ExpireKeeps ==
  ASSUME NEW t \in Nat, NEW s \in 0..t, NEW k, KeysAt(k, t), Held(k, s, t)
  PROVE  Kept(Expire(k, "hours", t), s, t)
<1> DEFINE r == Expire(k, "hours", t)
<1>1. k \in Stored /\ "hours" \in KeyName
  BY DEF KeysAt, KeyName
<1>2. /\ r.hours = k.hours
      /\ r.expires["hours"] = IF ~Exists(k, "hours") THEN None ELSE t + TTL
  BY <1>1, ExpireFact
<1>3. Hour(s) \in DOMAIN k.hours => Exists(k, "hours")
  BY <1>1, ExistsFact
<1>4. t + TTL >= s + TTL /\ t + TTL # None
  BY TTLFact, StoreAssumption
<1> HIDE DEF r
<1>5. Kept(r, s, t)
  BY <1>2, <1>3, <1>4 DEF Held, Kept
<1> QED BY <1>5 DEF r

\* A kept visit stays kept as time goes on, and leaves the window before its key expires.
LEMMA TickKeeps ==
  ASSUME NEW t \in Nat, NEW s \in 0..t, NEW k, KeysAt(k, t)
  PROVE  LET g == Expired(k, t + 1)
             r == Delete(k, g) IN
           /\ Kept(k, s, t) => Kept(r, s, t + 1)
           /\ Kept(k, s, t) /\ "hours" \in g => GoneBy(s, t + 1)
           /\ Held(k, s, t) /\ "hours" \notin g => Held(r, s, t + 1)
<1> DEFINE g == Expired(k, t + 1)
           r == Delete(k, g)
<1>1. k \in Stored /\ "hours" \in KeyName /\ s \in Nat /\ t + 1 \in Nat
  BY DEF KeysAt, KeyName
<1>2. /\ Shrunk(k, r)
      /\ r.hours = IF "hours" \in g THEN NoHours ELSE k.hours
  BY <1>1, DeleteFact
<1>3. "hours" \in g <=> k.expires["hours"] # None /\ k.expires["hours"] <= t + 1
  BY <1>1 DEF Expired
<1> HIDE DEF r, g
<1>4. GoneBy(s, t) => GoneBy(s, t + 1)
  <2>1. Hour(t) <= Hour(t + 1) /\ Hour(t) \in Nat /\ Hour(t + 1) \in Nat /\ Hour(s) \in Nat
    BY <1>1, HourMono, HourFact
  <2> QED BY <2>1, StoreAssumption DEF GoneBy
<1>5. Kept(k, s, t) /\ "hours" \in g => GoneBy(s, t + 1)
  <2>1. SUFFICES ASSUME ~GoneBy(s, t), Kept(k, s, t), "hours" \in g PROVE GoneBy(s, t + 1)
    BY <1>4
  <2>2. k.expires["hours"] >= s + TTL /\ k.expires["hours"] <= t + 1 /\ k.expires["hours"] # None
    BY <1>3, <2>1 DEF Kept
  <2>3. k.expires["hours"] \in Nat
    BY <1>1, <2>2 DEF Stored
  <2>4. s + TTL <= t + 1
    BY <1>1, <2>2, <2>3, TTLFact
  <2> QED BY <1>1, <2>4, HourTTL DEF GoneBy
<1>6. "hours" \notin g => r.hours = k.hours
  BY <1>2
<1>7. Held(k, s, t) /\ "hours" \notin g => Held(r, s, t + 1)
  BY <1>4, <1>6 DEF Held
<1>8. Kept(k, s, t) /\ "hours" \notin g => Kept(r, s, t + 1)
  <2>1. SUFFICES ASSUME ~GoneBy(s, t), Kept(k, s, t), "hours" \notin g PROVE Kept(r, s, t + 1)
    BY <1>4 DEF Kept
  <2>2. Hour(s) \in DOMAIN r.hours /\ r \in Stored
    BY <1>2, <1>6, <2>1 DEF Kept, Shrunk
  <2>3. Exists(r, "hours")
    BY <2>2, ExistsFact
  <2>4. r.expires["hours"] = k.expires["hours"]
    BY <1>1, <1>2, <2>3 DEF Shrunk
  <2> QED BY <2>1, <2>2, <2>4 DEF Kept
<1>9. Kept(k, s, t) => Kept(r, s, t + 1)
  BY <1>5, <1>8 DEF Kept
<1> QED BY <1>5, <1>7, <1>9 DEF r, g

-----------------------------------------------------------------------------
(* The queue below: every step is one of its steps or leaves it alone, so its *)
(* theorems hold here.                                                      *)

QueueProofs == INSTANCE StatsQueueProofs

LEMMA QueueSteps == [Next]_vars => [Queue!Next]_(Queue!queueVars)
<1> SUFFICES ASSUME [Next]_vars PROVE Queue!Next \/ UNCHANGED queueVars
  BY DEF queueVars, Queue!queueVars
<1>1. ASSUME NEW v \in Visit, Serve(v) \/ Offer(v)
      PROVE  Queue!Next
  BY <1>1 DEF Serve, Offer, Queue!Next
<1>2. ASSUME NEW v \in Visit, Execute(v) \/ Cut(v) \/ Resend(v)
      PROVE  UNCHANGED queueVars
  BY <1>2 DEF Execute, Cut, Resend
<1>3. ASSUME NEW w \in Worker, Send(w) \/ Return(w) \/ TimeOut(w)
      PROVE  Queue!Next
  BY <1>3 DEF Send, Return, TimeOut, Queue!Next
<1>4. ASSUME Clean PROVE UNCHANGED queueVars
  BY <1>4 DEF Clean, CleanerStep, Begin, Pick, EndPass, GiveUpKey, TrimWindow, ReadStale,
              Prune, ReadCount, Inspect, DeleteCount, DeleteSeen, DeleteHours
<1>5. ASSUME Tick PROVE UNCHANGED queueVars
  BY <1>5 DEF Tick
<1>6. ASSUME UNCHANGED vars PROVE UNCHANGED queueVars
  BY <1>6 DEF vars
<1> QED BY <1>1, <1>2, <1>3, <1>4, <1>5, <1>6 DEF Next

\* The statistics that write to Redis are a queue as StatsQueue has it: what record
\* and the cleaner do in Redis takes nothing from the channel and gives nothing to
\* the workers (runWorker, record).
LEMMA ImplementsQueue == Spec => Queue!Spec
<1>1. Init => Queue!Init
  BY DEF Init
<1> QED BY <1>1, QueueSteps, PTL DEF Spec, Queue!Spec

LEMMA SameSets ==
  /\ QueueProofs!IsFiniteSet(Visit) <=> IsFiniteSet(Visit)
  /\ \A S : QueueProofs!Cardinality(S) = Queue!Cardinality(S)
BY DEF QueueProofs!IsFiniteSet, IsFiniteSet, Queue!IsFiniteSet,
       QueueProofs!Cardinality, Queue!Cardinality

\* Every visit whose statistics are kept is in one place of the channel, in the hands
\* of one worker, counted as dropped, or done, whatever Redis does (enqueue, record).
THEOREM StoreAccounts == Spec => [](Queue!TypeOK /\ Queue!Accounted)
<1>1. QueueProofs!QueueAssumption
  BY StoreAssumption, SameSets DEF QueueProofs!QueueAssumption
<1>2. Queue!Spec => QueueProofs!Spec
  <2>1. Queue!Init => QueueProofs!Init
    BY DEF Queue!Init, QueueProofs!Init
  <2>2. [Queue!Next]_(Queue!queueVars) => [QueueProofs!Next]_(QueueProofs!queueVars)
    BY DEF Queue!Next, Queue!Serve, Queue!Offer, Queue!Enqueue, Queue!Drop, Queue!Take,
           Queue!Finish, Queue!Stop, Queue!Cancel, Queue!VisitStep, Queue!queueVars,
           QueueProofs!Next, QueueProofs!Serve, QueueProofs!Offer, QueueProofs!Enqueue,
           QueueProofs!Drop, QueueProofs!Take, QueueProofs!Finish, QueueProofs!Stop,
           QueueProofs!Cancel, QueueProofs!VisitStep, QueueProofs!queueVars
  <2> QED BY <2>1, <2>2, PTL DEF Queue!Spec, QueueProofs!Spec
<1>3. QueueProofs!Spec => []QueueProofs!Accounted
  BY <1>1, QueueProofs!AccountedAlways
<1>4. QueueProofs!Spec => []QueueProofs!TypeOK
  BY <1>1, QueueProofs!TypeCorrect
<1>5. QueueProofs!Accounted => Queue!Accounted
  BY SameSets DEF QueueProofs!Accounted, Queue!Accounted, QueueProofs!Queued, Queue!Queued
<1>6. QueueProofs!TypeOK => Queue!TypeOK
  BY DEF QueueProofs!TypeOK, Queue!TypeOK, QueueProofs!Stage, Queue!Stage
<1> QED BY <1>2, <1>3, <1>4, <1>5, <1>6, ImplementsQueue, PTL

-----------------------------------------------------------------------------
(* What the steps do beside the queue *)

Unsent == {"new", "served", "queued", "dropped"}

Moves(v, from, to) == stage[v] = from /\ stage' = [stage EXCEPT ![v] = to]

LEMMA CommandFact ==
  /\ End = 9 /\ Len(Command) = 8
  /\ Command[1] = "count" /\ Command[2] = "hour" /\ Command[3] = "stale"
  /\ Command[4] = "seen" /\ Command[5] = "expireCount" /\ Command[6] = "expireSeen"
  /\ Command[7] = "expireHours" /\ Command[8] = "trim"
BY DEF Command, End

LEMMA ServeFact ==
  ASSUME NEW v \in Visit, Serve(v)
  PROVE  Moves(v, "new", "served")
BY DEF Serve, Queue!Serve, Queue!VisitStep, Moves

LEMMA OfferFact ==
  ASSUME NEW v \in Visit, Offer(v)
  PROVE  \E to \in {"queued", "dropped"} : Moves(v, "served", to)
BY DEF Offer, Queue!Offer, Queue!Enqueue, Queue!Drop, Queue!VisitStep, Moves

LEMMA SendFact ==
  ASSUME NEW w \in Worker, Queue!TypeOK, Send(w)
  PROVE  \E v \in Visit : Moves(v, "queued", "taken") /\ pipe' = [pipe EXCEPT ![v] = 1]
<1>1. queue \in Seq(Visit) /\ queue # <<>>
  BY DEF Queue!TypeOK, Send, Queue!Take
<1>2. Head(queue) \in Visit
  BY <1>1
<1> QED BY <1>2 DEF Send, Queue!Take, Queue!VisitStep, Moves

LEMMA FinishFact ==
  ASSUME NEW w \in Worker, Queue!TypeOK, Return(w) \/ TimeOut(w)
  PROVE  /\ \E v \in Visit : Moves(v, "taken", "done") /\ pipe[v] # 0
         /\ breaks' = breaks \/ Break
         /\ UNCHANGED <<clock, at, keys, pipe, due, cleaner, historyVars>>
<1>1. job[w] \in Visit
  BY DEF Queue!TypeOK, Return, TimeOut, Queue!Finish
<1>2. pipe[job[w]] # 0
  BY CommandFact DEF Return, TimeOut, Sent
<1> QED BY <1>1, <1>2 DEF Return, TimeOut, Queue!Finish, Queue!VisitStep, Moves

\* The eight commands.
LEMMA ExecuteFact ==
  ASSUME NEW v \in Visit, Execute(v), pipe[v] \in Nat, hits \in [Visit -> Nat]
  PROVE  /\ pipe' = [pipe EXCEPT ![v] = @ + 1]
         /\ UNCHANGED <<queueVars, clock, at, breaks, due, cleaner>>
         /\ \/ pipe[v] = 1 /\ keys' = IncrCount(keys) /\ UNCHANGED historyVars
            \/ /\ pipe[v] = 2 /\ keys' = IncrHour(keys, Hour(at[v]))
               /\ hits' = [hits EXCEPT ![v] = @ + 1] /\ bare' = bare \cup {v}
            \/ pipe[v] = 3 /\ keys' = DropHours(keys, StaleField(at[v])) /\ UNCHANGED historyVars
            \/ pipe[v] = 4 /\ keys' = SetSeen(keys, at[v]) /\ UNCHANGED historyVars
            \/ pipe[v] = 5 /\ keys' = Expire(keys, "count", clock) /\ UNCHANGED historyVars
            \/ pipe[v] = 6 /\ keys' = Expire(keys, "seen", clock) /\ UNCHANGED historyVars
            \/ /\ pipe[v] = 7 /\ keys' = Expire(keys, "hours", clock)
               /\ UNCHANGED hits /\ bare' = bare \ {v}
            \/ pipe[v] = 8 /\ keys' = TrimSeen(keys, at[v]) /\ UNCHANGED historyVars
<1> DEFINE c == Command[pipe[v]]
<1>1. /\ keys' = Effect(c, at[v])
      /\ hits' = [hits EXCEPT ![v] = @ + IF c = "hour" THEN 1 ELSE 0]
      /\ bare' = CASE c = "hour" -> bare \cup {v} [] c = "expireHours" -> bare \ {v} [] OTHER -> bare
      /\ pipe' = [pipe EXCEPT ![v] = @ + 1]
      /\ UNCHANGED <<queueVars, clock, at, breaks, due, cleaner>>
  BY DEF Execute
<1>2. pipe[v] \in 1..8
  BY CommandFact DEF Execute, Sent
<1>3. pipe[v] \in {1, 2, 3, 4, 5, 6, 7, 8}
  BY <1>2
<1>4. c = "hour" => hits' = [hits EXCEPT ![v] = @ + 1] /\ bare' = bare \cup {v}
  BY <1>1
<1>5. c # "hour" => hits' = hits
  BY <1>1
<1>6. c = "expireHours" => bare' = bare \ {v}
  BY <1>1
<1>7. c \notin {"hour", "expireHours"} => bare' = bare
  BY <1>1
<1> HIDE DEF c
<1>8. CASE pipe[v] = 1
  <2>1. c = "count" BY <1>8, CommandFact DEF c
  <2> QED BY <1>1, <1>5, <1>7, <1>8, <2>1 DEF Effect, historyVars
<1>9. CASE pipe[v] = 2
  <2>1. c = "hour" BY <1>9, CommandFact DEF c
  <2> QED BY <1>1, <1>4, <1>9, <2>1 DEF Effect
<1>10. CASE pipe[v] = 3
  <2>1. c = "stale" BY <1>10, CommandFact DEF c
  <2> QED BY <1>1, <1>5, <1>7, <1>10, <2>1 DEF Effect, historyVars
<1>11. CASE pipe[v] = 4
  <2>1. c = "seen" BY <1>11, CommandFact DEF c
  <2> QED BY <1>1, <1>5, <1>7, <1>11, <2>1 DEF Effect, historyVars
<1>12. CASE pipe[v] = 5
  <2>1. c = "expireCount" BY <1>12, CommandFact DEF c
  <2> QED BY <1>1, <1>5, <1>7, <1>12, <2>1 DEF Effect, historyVars
<1>13. CASE pipe[v] = 6
  <2>1. c = "expireSeen" BY <1>13, CommandFact DEF c
  <2> QED BY <1>1, <1>5, <1>7, <1>13, <2>1 DEF Effect, historyVars
<1>14. CASE pipe[v] = 7
  <2>1. c = "expireHours" BY <1>14, CommandFact DEF c
  <2> QED BY <1>1, <1>5, <1>6, <1>14, <2>1 DEF Effect
<1>15. CASE pipe[v] = 8
  <2>1. c = "trim" BY <1>15, CommandFact DEF c
  <2> QED BY <1>1, <1>5, <1>7, <1>15, <2>1 DEF Effect, historyVars
<1> QED BY <1>3, <1>8, <1>9, <1>10, <1>11, <1>12, <1>13, <1>14, <1>15

LEMMA CleanFact ==
  ASSUME Clean
  PROVE  /\ UNCHANGED <<queueVars, clock, at, pipe, breaks>>
         /\ UNCHANGED historyVars \/ (hits' = [v \in Visit |-> 0] /\ bare' = {})
<1>1. ASSUME Begin \/ (\E k \in KeyName : Pick(k)) \/ EndPass \/ GiveUpKey \/ TrimWindow \/ ReadStale
      PROVE  UNCHANGED <<queueVars, clock, at, pipe, breaks, historyVars>>
  BY <1>1 DEF CleanerStep, Begin, Pick, EndPass, GiveUpKey, TrimWindow, ReadStale
<1>2. ASSUME Prune \/ ReadCount \/ Inspect \/ DeleteCount \/ DeleteSeen
      PROVE  UNCHANGED <<queueVars, clock, at, pipe, breaks, historyVars>>
  BY <1>2 DEF CleanerStep, Prune, ReadCount, Inspect, DeleteCount, DeleteSeen
<1>3. ASSUME DeleteHours
      PROVE  /\ UNCHANGED <<queueVars, clock, at, pipe, breaks>>
             /\ hits' = [v \in Visit |-> 0] /\ bare' = {}
  BY <1>3 DEF CleanerStep, DeleteHours
<1> QED BY <1>1, <1>2, <1>3 DEF Clean

-----------------------------------------------------------------------------
(* Types: the visits *)

VisitInv ==
  /\ clock \in 0..MaxClock
  /\ at \in [Visit -> Nat \cup {None}]
  /\ \A v \in Visit : at[v] \in 0..clock \cup {None}
  /\ \A v \in Visit : at[v] = None <=> stage[v] = "new"
  /\ pipe \in [Visit -> 0..End]
  /\ \A v \in Visit : pipe[v] = 0 <=> stage[v] \in Unsent
  /\ breaks \in 0..MaxBreaks
  /\ hits \in [Visit -> Nat]
  /\ \A v \in Visit : pipe[v] = 0 => hits[v] = 0
  /\ \A v \in Visit : hits[v] <= breaks + IF pipe[v] > 2 THEN 1 ELSE 0
  /\ bare \subseteq Visit

\* A command is run for a visit that has been stamped.
LEMMA SentStamped ==
  ASSUME VisitInv, NEW v \in Visit, pipe[v] # 0
  PROVE  at[v] \in 0..clock /\ at[v] # None /\ at[v] \in Nat
<1>1. at[v] # None
  BY DEF VisitInv, Unsent
<1> QED BY <1>1 DEF VisitInv

LEMMA VisitInit == Init => VisitInv
BY StoreAssumption, CommandFact DEF Init, VisitInv, Queue!Init, Unsent

LEMMA VisitSteps ==
  ASSUME Queue!TypeOK, VisitInv, [Next]_vars
  PROVE  VisitInv'
<1>1. /\ stage \in [Visit -> Queue!Stage]
      /\ None \notin Nat /\ MaxBreaks \in Nat /\ MaxClock \in Nat /\ End = 9
  BY StoreAssumption, CommandFact DEF Queue!TypeOK
<1>2. ASSUME NEW v \in Visit, Serve(v) PROVE VisitInv'
  <2>1. Moves(v, "new", "served")
    BY <1>2, ServeFact
  <2>2. at' = [at EXCEPT ![v] = clock] /\ UNCHANGED <<clock, pipe, breaks, hits, bare>>
    BY <1>2 DEF Serve, historyVars
  <2>3. clock \in Nat /\ clock # None
    BY <1>1 DEF VisitInv
  <2>4. at' \in [Visit -> Nat \cup {None}] /\ \A u \in Visit : at'[u] \in 0..clock' \cup {None}
    BY <2>2, <2>3 DEF VisitInv
  <2>5. \A u \in Visit : at'[u] = None <=> stage'[u] = "new"
    BY <1>1, <2>1, <2>2, <2>3 DEF VisitInv, Moves
  <2>6. \A u \in Visit : pipe'[u] = 0 <=> stage'[u] \in Unsent
    BY <1>1, <2>1, <2>2 DEF VisitInv, Moves, Unsent
  <2> QED BY <2>2, <2>4, <2>5, <2>6 DEF VisitInv
<1>3. ASSUME NEW v \in Visit, Offer(v) PROVE VisitInv'
  <2>1. PICK to \in {"queued", "dropped"} : Moves(v, "served", to)
    BY <1>3, OfferFact
  <2>2. UNCHANGED <<clock, at, pipe, breaks, hits, bare>>
    BY <1>3 DEF Offer, historyVars
  <2>3. \A u \in Visit : at'[u] = None <=> stage'[u] = "new"
    BY <1>1, <2>1, <2>2 DEF VisitInv, Moves
  <2>4. \A u \in Visit : pipe'[u] = 0 <=> stage'[u] \in Unsent
    BY <1>1, <2>1, <2>2 DEF VisitInv, Moves, Unsent
  <2> QED BY <2>2, <2>3, <2>4 DEF VisitInv
<1>4. ASSUME NEW w \in Worker, Send(w) PROVE VisitInv'
  <2>1. PICK v \in Visit : Moves(v, "queued", "taken") /\ pipe' = [pipe EXCEPT ![v] = 1]
    BY <1>4, SendFact
  <2>2. UNCHANGED <<clock, at, breaks, hits, bare>>
    BY <1>4 DEF Send, historyVars
  <2>3. pipe[v] = 0 /\ hits[v] = 0
    BY <2>1 DEF VisitInv, Moves, Unsent
  <2>4. \A u \in Visit : at'[u] = None <=> stage'[u] = "new"
    BY <1>1, <2>1, <2>2 DEF VisitInv, Moves
  <2>5. pipe' \in [Visit -> 0..End] /\ \A u \in Visit : pipe'[u] = IF u = v THEN 1 ELSE pipe[u]
    BY <1>1, <2>1 DEF VisitInv
  <2>6. \A u \in Visit : pipe'[u] = 0 <=> stage'[u] \in Unsent
    BY <1>1, <2>1, <2>5 DEF VisitInv, Moves, Unsent
  <2>7. \A u \in Visit : /\ pipe'[u] = 0 => hits'[u] = 0
                         /\ hits'[u] <= breaks' + IF pipe'[u] > 2 THEN 1 ELSE 0
    BY <2>2, <2>3, <2>5 DEF VisitInv
  <2> QED BY <2>2, <2>4, <2>5, <2>6, <2>7 DEF VisitInv
<1>5. ASSUME NEW w \in Worker, Return(w) \/ TimeOut(w) PROVE VisitInv'
  <2>1. PICK v \in Visit : Moves(v, "taken", "done") /\ pipe[v] # 0
    BY <1>5, FinishFact
  <2>2. UNCHANGED <<clock, at, pipe, hits, bare>>
    BY <1>5, FinishFact DEF historyVars
  <2>3. breaks' \in 0..MaxBreaks /\ breaks' >= breaks /\ breaks \in Nat
    BY <1>1, <1>5, FinishFact DEF Break, VisitInv
  <2>4. \A u \in Visit : at'[u] = None <=> stage'[u] = "new"
    BY <1>1, <2>1, <2>2 DEF VisitInv, Moves
  <2>5. \A u \in Visit : pipe'[u] = 0 <=> stage'[u] \in Unsent
    BY <1>1, <2>1, <2>2 DEF VisitInv, Moves, Unsent
  <2>6. \A u \in Visit : hits'[u] <= breaks' + IF pipe'[u] > 2 THEN 1 ELSE 0
    BY <2>2, <2>3 DEF VisitInv
  <2> QED BY <2>2, <2>3, <2>4, <2>5, <2>6 DEF VisitInv
<1>6. ASSUME NEW v \in Visit, Execute(v) PROVE VisitInv'
  <2>1. pipe[v] \in Nat /\ pipe[v] # 0 /\ pipe[v] <= 8 /\ hits \in [Visit -> Nat]
    BY <1>6, CommandFact DEF VisitInv, Execute, Sent
  <2>2. /\ pipe' = [pipe EXCEPT ![v] = @ + 1]
        /\ UNCHANGED <<stage, clock, at, breaks>>
        /\ \/ hits' = hits
           \/ pipe[v] = 2 /\ hits' = [hits EXCEPT ![v] = @ + 1]
        /\ bare' \subseteq Visit
    <3>1. bare \subseteq Visit
      BY DEF VisitInv
    <3> QED BY <1>6, <2>1, <3>1, ExecuteFact DEF queueVars, historyVars
  <2>3. pipe' \in [Visit -> 0..End] /\ \A u \in Visit : pipe'[u] = IF u = v THEN pipe[v] + 1 ELSE pipe[u]
    BY <1>1, <2>1, <2>2 DEF VisitInv
  <2>4. \A u \in Visit : pipe'[u] = 0 <=> stage'[u] \in Unsent
    BY <2>1, <2>2, <2>3 DEF VisitInv
  <2>5. hits' \in [Visit -> Nat] /\ \A u \in Visit : pipe'[u] = 0 => hits'[u] = 0
    BY <2>1, <2>2, <2>3 DEF VisitInv
  <2>6. ASSUME NEW u \in Visit PROVE hits'[u] <= breaks' + IF pipe'[u] > 2 THEN 1 ELSE 0
    <3>1. /\ pipe[u] \in Nat /\ hits[u] \in Nat /\ breaks \in Nat /\ breaks' = breaks
          /\ hits[u] <= breaks + IF pipe[u] > 2 THEN 1 ELSE 0
      BY <2>2 DEF VisitInv
    <3>2. CASE hits' = hits
      BY <2>3, <3>1, <3>2
    <3>3. CASE pipe[v] = 2 /\ hits' = [hits EXCEPT ![v] = @ + 1]
      <4>1. hits'[u] = IF u = v THEN hits[v] + 1 ELSE hits[u]
        BY <2>1, <3>3
      <4> QED BY <2>3, <3>1, <3>3, <4>1
    <3> QED BY <2>2, <3>2, <3>3
  <2> QED BY <2>2, <2>3, <2>4, <2>5, <2>6 DEF VisitInv
<1>7. ASSUME NEW v \in Visit, Cut(v) \/ Resend(v) PROVE VisitInv'
  <2>1. /\ pipe[v] # 0 /\ UNCHANGED <<stage, clock, at, hits, bare>>
        /\ breaks < MaxBreaks /\ breaks' = breaks + 1
    BY <1>7, CommandFact DEF Cut, Resend, Sent, Break, queueVars, historyVars
  <2>2. PICK p \in {1, 9} : pipe' = [pipe EXCEPT ![v] = p]
    BY <1>1, <1>7 DEF Cut, Resend
  <2>3. pipe' \in [Visit -> 0..End] /\ \A u \in Visit : pipe'[u] = IF u = v THEN p ELSE pipe[u]
    BY <1>1, <2>2 DEF VisitInv
  <2>4. breaks' \in 0..MaxBreaks /\ breaks \in Nat
    BY <1>1, <2>1 DEF VisitInv
  <2>5. \A u \in Visit : pipe'[u] = 0 <=> stage'[u] \in Unsent
    BY <2>1, <2>3 DEF VisitInv
  <2>6. \A u \in Visit : /\ pipe'[u] = 0 => hits'[u] = 0
                         /\ hits'[u] <= breaks' + IF pipe'[u] > 2 THEN 1 ELSE 0
    BY <2>1, <2>3, <2>4 DEF VisitInv
  <2> QED BY <2>1, <2>3, <2>4, <2>5, <2>6 DEF VisitInv
<1>8. ASSUME Clean PROVE VisitInv'
  <2>1. UNCHANGED <<stage, clock, at, pipe, breaks>>
    BY <1>8, CleanFact DEF queueVars
  <2>2. hits' \in [Visit -> Nat] /\ bare' \subseteq Visit /\ \A u \in Visit : hits'[u] \in {0, hits[u]}
    BY <1>8, CleanFact DEF historyVars, VisitInv
  <2>3. \A u \in Visit : /\ pipe'[u] = 0 => hits'[u] = 0
                         /\ hits'[u] <= breaks' + IF pipe'[u] > 2 THEN 1 ELSE 0
    BY <2>1, <2>2 DEF VisitInv
  <2> QED BY <2>1, <2>2, <2>3 DEF VisitInv
<1>9. ASSUME Tick PROVE VisitInv'
  <2>1. /\ UNCHANGED <<stage, at, pipe, breaks>>
        /\ clock < MaxClock /\ clock' = clock + 1
    BY <1>9 DEF Tick, queueVars
  <2>2. hits' \in [Visit -> Nat] /\ bare' \subseteq Visit /\ \A u \in Visit : hits'[u] \in {0, hits[u]}
    BY <1>9 DEF Tick, VisitInv
  <2>3. \A u \in Visit : /\ pipe'[u] = 0 => hits'[u] = 0
                         /\ hits'[u] <= breaks' + IF pipe'[u] > 2 THEN 1 ELSE 0
    BY <2>1, <2>2 DEF VisitInv
  <2>4. clock' \in 0..MaxClock /\ \A u \in Visit : at'[u] \in 0..clock' \cup {None}
    BY <1>1, <2>1 DEF VisitInv
  <2> QED BY <2>1, <2>2, <2>3, <2>4 DEF VisitInv
<1>10. ASSUME UNCHANGED vars PROVE VisitInv'
  BY <1>10 DEF vars, queueVars, historyVars, VisitInv
<1> QED BY <1>2, <1>3, <1>4, <1>5, <1>6, <1>7, <1>8, <1>9, <1>10 DEF Next

-----------------------------------------------------------------------------
(* Types: the keys *)

KeyInv == KeysAt(keys, clock)

CleanerSet(t) == [step : CleanerSteps, todo : SUBSET KeyName, now : 0..t,
                  stale : SUBSET (0..Hour(t)), settled : SUBSET Visit]
CleanerInv == cleaner \in CleanerSet(clock) /\ due \in BOOLEAN

\* The cleaner only takes away.
LEMMA CleanShrinks ==
  ASSUME VisitInv, KeyInv, CleanerInv, Clean
  PROVE  keys' = keys \/ Shrunk(keys, keys')
<1>1. keys \in Stored /\ cleaner.now \in Nat
  BY DEF KeyInv, KeysAt, CleanerInv, CleanerSet
<1>2. ASSUME Begin \/ (\E k \in KeyName : Pick(k)) \/ EndPass \/ GiveUpKey \/ ReadStale
             \/ ReadCount \/ Inspect
      PROVE  keys' = keys
  BY <1>2 DEF Begin, Pick, EndPass, GiveUpKey, ReadStale, ReadCount, Inspect
<1>3. ASSUME TrimWindow PROVE Shrunk(keys, keys')
  BY <1>1, <1>3, TrimFact DEF TrimWindow
<1>4. ASSUME Prune PROVE Shrunk(keys, keys')
  BY <1>1, <1>4, DropFact DEF Prune
<1>5. ASSUME DeleteCount \/ DeleteSeen \/ DeleteHours PROVE Shrunk(keys, keys')
  BY <1>1, <1>5, DeleteFact DEF DeleteCount, DeleteSeen, DeleteHours
<1> QED BY <1>2, <1>3, <1>4, <1>5 DEF Clean

LEMMA KeySteps ==
  ASSUME VisitInv, KeyInv, CleanerInv, [Next]_vars
  PROVE  KeyInv'
<1>1. clock \in Nat /\ KeysAt(keys, clock) /\ hits \in [Visit -> Nat]
  BY DEF VisitInv, KeyInv
<1>2. SUFFICES KeysAt(keys', clock')
  BY DEF KeyInv
<1>3. ASSUME NEW v \in Visit, Execute(v) PROVE KeysAt(keys', clock')
  <2>1. pipe[v] \in Nat /\ pipe[v] # 0
    BY <1>3, CommandFact DEF VisitInv, Execute, Sent
  <2>2. at[v] \in 0..clock /\ at[v] \in Nat
    BY <2>1, SentStamped
  <2>3. Hour(at[v]) \in 0..Hour(clock)
    BY <1>1, <2>2, HourMono, HourFact
  <2>4. keys \in Stored /\ {"count", "seen", "hours"} \subseteq KeyName /\ clock' = clock
    BY <1>1, <1>3 DEF KeysAt, KeyName, Execute
  <2>5. CASE keys' = IncrCount(keys)
    BY <1>1, <2>4, <2>5, CountAt
  <2>6. CASE keys' = IncrHour(keys, Hour(at[v]))
    BY <1>1, <2>3, <2>4, <2>6, IncrHourAt
  <2>7. CASE keys' = DropHours(keys, StaleField(at[v]))
    <3>1. Shrunk(keys, keys')
      BY <2>4, <2>7, DropFact
    <3> QED BY <1>1, <2>4, <3>1, ShrunkAt
  <2>8. CASE keys' = SetSeen(keys, at[v])
    BY <1>1, <2>2, <2>4, <2>8, SeenAt
  <2>9. CASE \E n \in KeyName : keys' = Expire(keys, n, clock)
    BY <1>1, <2>4, <2>9, ExpireAt
  <2>10. CASE keys' = TrimSeen(keys, at[v])
    <3>1. Shrunk(keys, keys')
      BY <2>2, <2>4, <2>10, TrimFact
    <3> QED BY <1>1, <2>4, <3>1, ShrunkAt
  <2>11. \/ keys' = IncrCount(keys) \/ keys' = IncrHour(keys, Hour(at[v]))
         \/ keys' = DropHours(keys, StaleField(at[v])) \/ keys' = SetSeen(keys, at[v])
         \/ (\E n \in KeyName : keys' = Expire(keys, n, clock)) \/ keys' = TrimSeen(keys, at[v])
    BY <1>1, <1>3, <2>1, <2>4, ExecuteFact
  <2> QED BY <2>5, <2>6, <2>7, <2>8, <2>9, <2>10, <2>11
<1>4. ASSUME Clean PROVE KeysAt(keys', clock')
  <2>1. clock' = clock
    BY <1>4, CleanFact
  <2>2. keys' = keys \/ Shrunk(keys, keys')
    BY <1>4, CleanShrinks
  <2> QED BY <1>1, <2>1, <2>2, ShrunkAt
<1>5. ASSUME Tick PROVE KeysAt(keys', clock')
  <2>1. keys' = Delete(keys, Expired(keys, clock + 1)) /\ clock' = clock + 1
    BY <1>5 DEF Tick
  <2> QED BY <1>1, <2>1, TickAt
<1>6. ASSUME NEW v \in Visit, Serve(v) \/ Offer(v) \/ Cut(v) \/ Resend(v)
      PROVE  UNCHANGED <<keys, clock>>
  BY <1>6 DEF Serve, Offer, Cut, Resend
<1>7. ASSUME NEW w \in Worker, Send(w) \/ Return(w) \/ TimeOut(w)
      PROVE  UNCHANGED <<keys, clock>>
  BY <1>7 DEF Send, Return, TimeOut
<1>8. ASSUME UNCHANGED vars PROVE UNCHANGED <<keys, clock>>
  BY <1>8 DEF vars
<1> QED BY <1>1, <1>3, <1>4, <1>5, <1>6, <1>7, <1>8 DEF Next

-----------------------------------------------------------------------------
(* Types: the cleaner *)

LEMMA CleanerLater ==
  ASSUME NEW t \in Nat, NEW c \in CleanerSet(t)
  PROVE  c \in CleanerSet(t + 1)
<1>1. Hour(t) <= Hour(t + 1) /\ Hour(t) \in Nat /\ Hour(t + 1) \in Nat
  BY HourMono, HourFact
<1> QED BY <1>1 DEF CleanerSet

LEMMA CleanerRests ==
  ASSUME NEW t \in Nat
  PROVE  /\ NoPass \in CleanerSet(t)
         /\ \A c \in CleanerSet(t) : BackToScan(c) \in CleanerSet(t)
         /\ [NoPass EXCEPT !.step = "scan", !.todo = KeyName] \in CleanerSet(t)
<1>1. /\ NoPass.step = "idle" /\ NoPass.todo = {} /\ NoPass.now = 0
      /\ NoPass.stale = {} /\ NoPass.settled = {} /\ NoPass \in CleanerSet(t)
  BY DEF CleanerSet, NoPass, CleanerSteps
<1>2. "scan" \in CleanerSteps
  BY DEF CleanerSteps
<1>3. \A K \in SUBSET KeyName : [NoPass EXCEPT !.step = "scan", !.todo = K] \in CleanerSet(t)
  BY <1>1, <1>2 DEF CleanerSet
<1>4. \A c \in CleanerSet(t) : BackToScan(c) \in CleanerSet(t)
  BY <1>3 DEF BackToScan, CleanerSet
<1> QED BY <1>1, <1>3, <1>4

LEMMA CleanerMoves ==
  ASSUME NEW t \in Nat, NEW c \in CleanerSet(t), NEW s \in CleanerSteps, NEW K
  PROVE  /\ [c EXCEPT !.step = s] \in CleanerSet(t)
         /\ [c EXCEPT !.step = s, !.now = t] \in CleanerSet(t)
         /\ [c EXCEPT !.step = s, !.todo = @ \ K, !.now = t] \in CleanerSet(t)
<1>1. \A d \in CleanerSet(t) : [d EXCEPT !.step = s] \in CleanerSet(t)
  BY DEF CleanerSet
<1>2. \A d \in CleanerSet(t) : [d EXCEPT !.now = t] \in CleanerSet(t)
  <2>1. t \in 0..t
    OBVIOUS
  <2> QED BY <2>1 DEF CleanerSet
<1>3. [c EXCEPT !.todo = @ \ K] \in CleanerSet(t)
  BY DEF CleanerSet
<1>4. [c EXCEPT !.step = s, !.now = t] = [[c EXCEPT !.step = s] EXCEPT !.now = t]
  OBVIOUS
<1>5. [c EXCEPT !.step = s, !.todo = @ \ K, !.now = t] =
        [[[c EXCEPT !.todo = @ \ K] EXCEPT !.step = s] EXCEPT !.now = t]
  BY DEF CleanerSet
<1> QED BY <1>1, <1>2, <1>3, <1>4, <1>5

LEMMA CleanerKeeps ==
  ASSUME VisitInv, KeyInv, CleanerInv, [Next]_vars
  PROVE  CleanerInv'
<1>1. clock \in Nat /\ cleaner \in CleanerSet(clock) /\ due \in BOOLEAN
  BY DEF VisitInv, CleanerInv
<1>2. SUFFICES cleaner' \in CleanerSet(clock') /\ due' \in BOOLEAN
  BY DEF CleanerInv
<1>3. ASSUME Clean PROVE cleaner' \in CleanerSet(clock') /\ due' \in BOOLEAN
  <2>1. clock' = clock
    BY <1>3, CleanFact
  <2>2. due' \in {due, FALSE}
    BY <1>3 DEF Clean, Begin, Pick, EndPass, GiveUpKey, TrimWindow, ReadStale,
                Prune, ReadCount, Inspect, DeleteCount, DeleteSeen, DeleteHours
  <2>3. SUFFICES cleaner' \in CleanerSet(clock)
    BY <1>1, <2>1, <2>2
  <2>4. ASSUME Begin PROVE cleaner' \in CleanerSet(clock)
    BY <1>1, <2>4, CleanerRests DEF Begin
  <2>5. ASSUME NEW k \in KeyName, Pick(k) PROVE cleaner' \in CleanerSet(clock)
    <3>1. cleaner' = [cleaner EXCEPT !.step = FirstStep(k), !.todo = @ \ {k}, !.now = clock]
      BY <2>5 DEF Pick
    <3>2. FirstStep(k) \in CleanerSteps
      BY DEF KeyName, FirstStep, CleanerSteps
    <3> QED BY <1>1, <3>1, <3>2, CleanerMoves
  <2>6. ASSUME EndPass \/ GiveUpKey \/ TrimWindow \/ Prune \/ DeleteHours
        PROVE  cleaner' \in CleanerSet(clock)
    <3>1. cleaner' \in {NoPass, BackToScan(cleaner)}
      BY <2>6 DEF EndPass, GiveUpKey, TrimWindow, Prune, DeleteHours
    <3> QED BY <1>1, <3>1, CleanerRests
  <2>7. ASSUME ReadStale PROVE cleaner' \in CleanerSet(clock)
    <3>1. cleaner' = [cleaner EXCEPT !.step = "prune", !.stale = StaleHours(keys, Hour(cleaner.now))]
      BY <2>7 DEF ReadStale
    <3>2. StaleHours(keys, Hour(cleaner.now)) \in SUBSET (0..Hour(clock))
      BY DEF StaleHours, KeyInv, KeysAt
    <3>3. "prune" \in CleanerSteps
      BY DEF CleanerSteps
    <3> DEFINE H == StaleHours(keys, Hour(cleaner.now))
    <3> HIDE DEF H
    <3>4. cleaner' = [[cleaner EXCEPT !.step = "prune"] EXCEPT !.stale = H] /\ H \in SUBSET (0..Hour(clock))
      BY <3>1, <3>2 DEF H
    <3> QED BY <1>1, <3>3, <3>4 DEF CleanerSet
  <2>8. ASSUME ReadCount PROVE cleaner' \in CleanerSet(clock)
    <3>1. \/ cleaner' = BackToScan(cleaner)
          \/ cleaner' = [cleaner EXCEPT !.step = "hours", !.settled = {v \in Visit \ bare : hits[v] > 0}]
      BY <2>8 DEF ReadCount
    <3>2. {v \in Visit \ bare : hits[v] > 0} \in SUBSET Visit /\ "hours" \in CleanerSteps
      BY DEF CleanerSteps
    <3> DEFINE S == {v \in Visit \ bare : hits[v] > 0}
    <3> HIDE DEF S
    <3>3. CASE cleaner' = [[cleaner EXCEPT !.step = "hours"] EXCEPT !.settled = S]
      <4>1. S \in SUBSET Visit
        BY <3>2 DEF S
      <4> QED BY <1>1, <3>2, <3>3, <4>1 DEF CleanerSet
    <3>4. CASE cleaner' = BackToScan(cleaner)
      BY <1>1, <3>4, CleanerRests
    <3> QED BY <3>1, <3>3, <3>4 DEF S
  <2>9. ASSUME Inspect PROVE cleaner' \in CleanerSet(clock)
    <3>1. \/ cleaner' = BackToScan(cleaner)
          \/ cleaner' = [cleaner EXCEPT !.step = "delCount", !.now = clock]
      BY <2>9 DEF Inspect
    <3>2. "delCount" \in CleanerSteps
      BY DEF CleanerSteps
    <3>3. CASE cleaner' = [cleaner EXCEPT !.step = "delCount", !.now = clock]
      BY <1>1, <3>2, <3>3, CleanerMoves
    <3>4. CASE cleaner' = BackToScan(cleaner)
      BY <1>1, <3>4, CleanerRests
    <3> QED BY <3>1, <3>3, <3>4
  <2>10. ASSUME DeleteCount \/ DeleteSeen PROVE cleaner' \in CleanerSet(clock)
    <3>1. PICK s \in {"delSeen", "delHours"} : cleaner' = [cleaner EXCEPT !.step = s]
      BY <2>10 DEF DeleteCount, DeleteSeen
    <3>2. s \in CleanerSteps
      BY DEF CleanerSteps
    <3> QED BY <1>1, <3>1, <3>2 DEF CleanerSet
  <2> QED BY <1>3, <2>4, <2>5, <2>6, <2>7, <2>8, <2>9, <2>10 DEF Clean
<1>4. ASSUME Tick PROVE cleaner' \in CleanerSet(clock') /\ due' \in BOOLEAN
  <2>1. cleaner' = cleaner /\ clock' = clock + 1 /\ due' \in BOOLEAN
    BY <1>4 DEF Tick
  <2> QED BY <1>1, <2>1, CleanerLater
<1>5. ASSUME NEW v \in Visit, Serve(v) \/ Offer(v) \/ Execute(v) \/ Cut(v) \/ Resend(v)
      PROVE  UNCHANGED <<cleaner, due, clock>>
  BY <1>5 DEF Serve, Offer, Execute, Cut, Resend
<1>6. ASSUME NEW w \in Worker, Send(w) \/ Return(w) \/ TimeOut(w)
      PROVE  UNCHANGED <<cleaner, due, clock>>
  BY <1>6 DEF Send, Return, TimeOut
<1>7. ASSUME UNCHANGED vars PROVE UNCHANGED <<cleaner, due, clock>>
  BY <1>7 DEF vars
<1> QED BY <1>1, <1>3, <1>4, <1>5, <1>6, <1>7 DEF Next

TypeInv == VisitInv /\ KeyInv /\ CleanerInv

LEMMA NoKeysFact == NoKeys \in Stored
BY NoBuckets DEF NoKeys, Stored

LEMMA KeyInit == Init => KeyInv /\ CleanerInv
<1> SUFFICES ASSUME Init PROVE KeyInv /\ CleanerInv
  OBVIOUS
<1>1. keys = NoKeys /\ clock = 0 /\ cleaner = NoPass /\ due = TRUE
  BY DEF Init
<1>2. KeysAt(NoKeys, 0)
  BY NoKeysFact, NoBuckets DEF NoKeys, KeysAt
<1> QED BY <1>1, <1>2, CleanerRests DEF KeyInv, CleanerInv

LEMMA Typing == Spec => [](Queue!TypeOK /\ TypeInv)
<1>1. Init => TypeInv
  BY VisitInit, KeyInit DEF TypeInv
<1>2. Queue!TypeOK /\ TypeInv /\ [Next]_vars => TypeInv'
  BY VisitSteps, KeySteps, CleanerKeeps DEF TypeInv
<1>3. Spec => []Queue!TypeOK
  BY StoreAccounts, PTL
<1> QED BY <1>1, <1>2, <1>3, PTL DEF Spec

\* Every step of record, of the cleaner and of the clock keeps the types; that no visit
\* is counted more than once for each time its pipeline may be sent is the part that
\* takes an invariant (record).
THEOREM TypeCorrect == Spec => []TypeOK
<1>1. Queue!TypeOK /\ TypeInv => TypeOK
  <2> SUFFICES ASSUME Queue!TypeOK, VisitInv, KeyInv, CleanerInv PROVE TypeOK
    BY DEF TypeInv
  <2>1. hits \in [Visit -> 0..(1 + MaxBreaks)]
    <3>1. ASSUME NEW v \in Visit PROVE hits[v] \in 0..(1 + MaxBreaks)
      <4>1. /\ hits[v] \in Nat /\ breaks \in 0..MaxBreaks
            /\ hits[v] <= breaks + IF pipe[v] > 2 THEN 1 ELSE 0
        BY DEF VisitInv
      <4> QED BY <4>1, StoreAssumption
    <3> QED BY <3>1 DEF VisitInv
  <2>2. /\ clock \in 0..MaxClock /\ pipe \in [Visit -> 0..End]
        /\ breaks \in 0..MaxBreaks /\ bare \subseteq Visit
        /\ \A v \in Visit : at[v] \in 0..clock \cup {None} /\ (at[v] = None <=> stage[v] = "new")
    BY DEF VisitInv
  <2>3. keys.hours \in Buckets /\ keys.count \in Nat /\ keys.expires \in [KeyName -> Nat \cup {None}]
    BY DEF KeyInv, KeysAt, Stored
  <2>4. \A h \in DOMAIN keys.hours : h \in 0..Hour(clock) /\ keys.hours[h] \in Nat \ {0}
    BY <2>3, BucketFact DEF KeyInv, KeysAt
  <2>5. /\ keys.expires \in [KeyName -> (clock + 1)..(clock + TTL) \cup {None}]
        /\ keys.seen \in 0..clock \cup {None}
        /\ \A k \in KeyName : keys.expires[k] # None => Exists(keys, k)
    BY <2>3 DEF KeyInv, KeysAt
  <2>6. /\ due \in BOOLEAN
        /\ cleaner \in [step : CleanerSteps, todo : SUBSET KeyName, now : 0..clock,
                        stale : SUBSET (0..Hour(clock)), settled : SUBSET Visit]
    BY DEF CleanerInv, CleanerSet
  <2> QED BY <2>1, <2>2, <2>3, <2>4, <2>5, <2>6 DEF TypeOK
<1> QED BY <1>1, Typing, PTL

-----------------------------------------------------------------------------
(* Every key gets its TTL *)

\* Where a pipeline stands between the write of a key and its EXPIRE.
After == [count |-> 2, hours |-> 3, seen |-> 5]
UpTo == [count |-> 5, hours |-> 7, seen |-> 6]
Awaited(n) == \E v \in Visit : pipe[v] \in After[n]..UpTo[n]

Lasting(k, n) == Exists(k, n) /\ k.expires[n] = None
ExpireInv == breaks = 0 => \A n \in KeyName : Lasting(keys, n) => Awaited(n)

LEMMA AwaitedFact ==
  \A n \in KeyName : After[n] \in Nat /\ UpTo[n] \in Nat /\ After[n] <= UpTo[n] /\ After[n] > 1
BY DEF KeyName, After, UpTo

LEMMA ShrunkLasts ==
  ASSUME NEW k \in Stored, NEW r, Shrunk(k, r), NEW n \in KeyName, Lasting(r, n)
  PROVE  Lasting(k, n)
<1>1. r \in Stored /\ Exists(r, n) /\ r.expires[n] = k.expires[n] /\ r.expires[n] = None
  BY DEF Shrunk, Lasting
<1>2. /\ r.count > 0 => k.count > 0
      /\ DOMAIN r.hours # {} => DOMAIN k.hours # {}
      /\ r.seen # None => k.seen # None
  BY DEF Shrunk
<1>3. Exists(k, n)
  BY <1>1, <1>2, ExistsFact
<1> QED BY <1>1, <1>3 DEF Lasting

LEMMA ExpireLasts ==
  ASSUME NEW k \in Stored, NEW m \in KeyName, NEW n \in KeyName, NEW t \in Nat,
         Lasting(Expire(k, m, t), n)
  PROVE  Lasting(k, n) /\ n # m
<1> DEFINE r == Expire(k, m, t)
<1>1. /\ Exists(r, n) <=> Exists(k, n)
      /\ r.expires[n] = IF ~Exists(k, n) THEN None
                        ELSE IF n = m THEN t + TTL ELSE k.expires[n]
  BY ExpireFact
<1>2. Exists(r, n) /\ r.expires[n] = None
  BY DEF Lasting
<1>3. t + TTL # None
  BY TTLFact, StoreAssumption
<1> HIDE DEF r
<1> QED BY <1>1, <1>2, <1>3 DEF Lasting

\* A key that lasts after a command lasted before it, or was just written.
LEMMA ExecuteLasts ==
  ASSUME VisitInv, KeyInv, NEW v \in Visit, Execute(v), NEW n \in KeyName, Lasting(keys', n)
  PROVE  (Lasting(keys, n) /\ pipe[v] # UpTo[n]) \/ pipe[v] + 1 = After[n]
<1>1. pipe[v] \in Nat /\ pipe[v] # 0 /\ hits \in [Visit -> Nat] /\ clock \in Nat /\ keys \in Stored
  BY CommandFact DEF VisitInv, KeyInv, KeysAt, Execute, Sent
<1>2. at[v] \in Nat
  BY <1>1, SentStamped
<1>3. Hour(at[v]) \in Nat
  BY <1>2, HourFact
<1>4. n \in {"count", "hours", "seen"} /\ {"count", "hours", "seen"} = KeyName
  BY DEF KeyName
<1>5. /\ After["count"] = 2 /\ After["hours"] = 3 /\ After["seen"] = 5
      /\ UpTo["count"] = 5 /\ UpTo["hours"] = 7 /\ UpTo["seen"] = 6
  BY DEF After, UpTo
<1>6. CASE pipe[v] = 1 /\ keys' = IncrCount(keys)
  <2>1. keys'.hours = keys.hours /\ keys'.seen = keys.seen /\ keys'.expires = keys.expires
    BY <1>1, <1>6, CountFact
  <2>2. n # "count" => Lasting(keys, n)
    BY <1>4, <2>1 DEF Lasting, Exists
  <2> QED BY <1>4, <1>5, <1>6, <2>2
<1>7. CASE pipe[v] = 2 /\ keys' = IncrHour(keys, Hour(at[v]))
  <2>1. keys'.count = keys.count /\ keys'.seen = keys.seen /\ keys'.expires = keys.expires
    BY <1>1, <1>3, <1>7, IncrHourFact
  <2>2. n # "hours" => Lasting(keys, n)
    BY <1>4, <2>1 DEF Lasting, Exists
  <2> QED BY <1>4, <1>5, <1>7, <2>2
<1>8. CASE pipe[v] \in {3, 8} /\ Shrunk(keys, keys')
  <2>1. Lasting(keys, n)
    BY <1>1, <1>8, ShrunkLasts
  <2> QED BY <1>4, <1>5, <1>8, <2>1
<1>9. CASE pipe[v] = 4 /\ keys' = SetSeen(keys, at[v])
  <2>1. keys'.count = keys.count /\ keys'.hours = keys.hours /\ keys'.expires = keys.expires
    BY <1>1, <1>2, <1>9, SeenFact
  <2>2. n # "seen" => Lasting(keys, n)
    BY <1>4, <2>1 DEF Lasting, Exists
  <2> QED BY <1>4, <1>5, <1>9, <2>2
<1>10. ASSUME NEW m \in KeyName, keys' = Expire(keys, m, clock)
       PROVE  Lasting(keys, n) /\ n # m
  BY <1>1, <1>10, ExpireLasts
<1>11. CASE pipe[v] = 5 /\ keys' = Expire(keys, "count", clock)
  BY <1>4, <1>5, <1>10, <1>11
<1>12. CASE pipe[v] = 6 /\ keys' = Expire(keys, "seen", clock)
  BY <1>4, <1>5, <1>10, <1>12
<1>13. CASE pipe[v] = 7 /\ keys' = Expire(keys, "hours", clock)
  BY <1>4, <1>5, <1>10, <1>13
<1>14. \/ pipe[v] = 1 /\ keys' = IncrCount(keys)
       \/ pipe[v] = 2 /\ keys' = IncrHour(keys, Hour(at[v]))
       \/ pipe[v] \in {3, 8} /\ Shrunk(keys, keys')
       \/ pipe[v] = 4 /\ keys' = SetSeen(keys, at[v])
       \/ pipe[v] = 5 /\ keys' = Expire(keys, "count", clock)
       \/ pipe[v] = 6 /\ keys' = Expire(keys, "seen", clock)
       \/ pipe[v] = 7 /\ keys' = Expire(keys, "hours", clock)
  <2>1. Shrunk(keys, DropHours(keys, StaleField(at[v]))) /\ Shrunk(keys, TrimSeen(keys, at[v]))
    BY <1>1, <1>2, DropFact, TrimFact
  <2> QED BY <1>1, <2>1, ExecuteFact
<1> QED BY <1>6, <1>7, <1>8, <1>9, <1>11, <1>12, <1>13, <1>14

LEMMA ExpireSteps ==
  ASSUME Queue!TypeOK, TypeInv, ExpireInv, [Next]_vars
  PROVE  ExpireInv'
<1>1. SUFFICES ASSUME breaks' = 0, NEW n \in KeyName, Lasting(keys', n)
               PROVE  \E v \in Visit : pipe'[v] \in After[n]..UpTo[n]
  BY DEF ExpireInv, Awaited, Lasting
<1>2. /\ VisitInv /\ KeyInv /\ CleanerInv
      /\ After[n] \in Nat /\ UpTo[n] \in Nat /\ After[n] <= UpTo[n] /\ After[n] > 1
  BY AwaitedFact DEF TypeInv
<1>3. pipe \in [Visit -> 0..End] /\ breaks \in Nat /\ keys \in Stored /\ End = 9
  BY <1>2, CommandFact DEF VisitInv, KeyInv, KeysAt
<1>4. ~Break
  BY <1>1, <1>3 DEF Break
<1>5. Lasting(keys, n) /\ breaks = 0 => \E v \in Visit : pipe[v] \in After[n]..UpTo[n]
  BY DEF ExpireInv, Awaited
<1>6. ASSUME Lasting(keys, n), UNCHANGED <<pipe, breaks>>
      PROVE  \E v \in Visit : pipe'[v] \in After[n]..UpTo[n]
  BY <1>1, <1>5, <1>6
<1>7. ASSUME NEW v \in Visit, Execute(v)
      PROVE  \E u \in Visit : pipe'[u] \in After[n]..UpTo[n]
  <2>1. pipe' = [pipe EXCEPT ![v] = @ + 1] /\ breaks' = breaks
    BY <1>7 DEF Execute
  <2>2. \A u \in Visit : pipe[u] \in Nat /\ pipe'[u] = IF u = v THEN pipe[v] + 1 ELSE pipe[u]
    BY <1>3, <2>1
  <2>3. CASE pipe[v] + 1 = After[n]
    BY <1>2, <2>2, <2>3
  <2>4. CASE Lasting(keys, n) /\ pipe[v] # UpTo[n]
    <3>1. PICK u \in Visit : pipe[u] \in After[n]..UpTo[n]
      BY <1>1, <1>5, <2>1, <2>4
    <3>2. pipe'[u] \in After[n]..UpTo[n]
      BY <1>2, <2>2, <2>4, <3>1
    <3> QED BY <3>2
  <2> QED BY <1>1, <1>2, <1>7, <2>3, <2>4, ExecuteLasts
<1>8. ASSUME NEW w \in Worker, Send(w)
      PROVE  \E u \in Visit : pipe'[u] \in After[n]..UpTo[n]
  <2>1. PICK v \in Visit : Moves(v, "queued", "taken") /\ pipe' = [pipe EXCEPT ![v] = 1]
    BY <1>8, SendFact
  <2>2. pipe[v] = 0
    BY <1>2, <2>1 DEF VisitInv, Moves, Unsent
  <2>3. keys' = keys /\ breaks' = breaks
    BY <1>8 DEF Send
  <2>4. PICK u \in Visit : pipe[u] \in After[n]..UpTo[n]
    BY <1>1, <1>5, <2>3
  <2>5. u # v /\ pipe'[u] = pipe[u]
    BY <1>2, <1>3, <2>1, <2>2, <2>4
  <2> QED BY <2>4, <2>5
<1>9. ASSUME NEW w \in Worker, Return(w) \/ TimeOut(w)
      PROVE  UNCHANGED <<keys, pipe, breaks>>
  BY <1>4, <1>9 DEF Return, TimeOut
<1>10. ASSUME NEW v \in Visit, Cut(v) \/ Resend(v) PROVE FALSE
  BY <1>4, <1>10 DEF Cut, Resend
<1>11. ASSUME NEW v \in Visit, Serve(v) \/ Offer(v)
       PROVE  UNCHANGED <<keys, pipe, breaks>>
  BY <1>11 DEF Serve, Offer
<1>12. ASSUME Clean PROVE Lasting(keys, n) /\ UNCHANGED <<pipe, breaks>>
  <2>1. UNCHANGED <<pipe, breaks>>
    BY <1>12, CleanFact
  <2>2. keys' = keys \/ Shrunk(keys, keys')
    BY <1>2, <1>12, CleanShrinks
  <2> QED BY <1>1, <1>3, <2>1, <2>2, ShrunkLasts
<1>13. ASSUME Tick PROVE Lasting(keys, n) /\ UNCHANGED <<pipe, breaks>>
  <2>1. keys' = Delete(keys, Expired(keys, clock + 1)) /\ UNCHANGED <<pipe, breaks>>
    BY <1>13 DEF Tick
  <2>2. Shrunk(keys, keys')
    BY <1>3, <2>1, DeleteFact
  <2> QED BY <1>1, <1>3, <2>1, <2>2, ShrunkLasts
<1>14. ASSUME UNCHANGED vars PROVE UNCHANGED <<keys, pipe, breaks>>
  BY <1>14 DEF vars
<1>15. ASSUME UNCHANGED <<keys, pipe, breaks>>
       PROVE  \E v \in Visit : pipe'[v] \in After[n]..UpTo[n]
  BY <1>1, <1>6, <1>15
<1> QED BY <1>6, <1>7, <1>8, <1>9, <1>10, <1>11, <1>12, <1>13, <1>14, <1>15 DEF Next

\* As long as no connection fails, whatever the order of the pipelines of any number
\* of workers and of the cleaner's deletions, no key is left without a TTL: an EXPIRE
\* for it is still on its way (record).
THEOREM KeysExpireAlways == Spec => []KeysExpire
<1>1. Init => ExpireInv
  <2> SUFFICES ASSUME Init PROVE ExpireInv
    OBVIOUS
  <2>1. keys = NoKeys
    BY DEF Init
  <2>2. \A n \in KeyName : ~Exists(NoKeys, n)
    <3>1. NoKeys.count = 0 /\ DOMAIN NoKeys.hours = {} /\ NoKeys.seen = None
      BY NoBuckets DEF NoKeys
    <3> QED BY <3>1, NoKeysFact, ExistsFact
  <2> QED BY <2>1, <2>2 DEF ExpireInv, Lasting
<1>2. Queue!TypeOK /\ TypeInv /\ ExpireInv /\ [Next]_vars => ExpireInv'
  BY ExpireSteps
<1>3. ExpireInv => KeysExpire
  <2> SUFFICES ASSUME ExpireInv PROVE KeysExpire
    OBVIOUS
  <2> DEFINE position(c) == CHOOSE i \in 1..Len(Command) : Command[i] = c
  <2>1. /\ position("count") = 1 /\ position("hour") = 2 /\ position("seen") = 4
        /\ position("expireCount") = 5 /\ position("expireSeen") = 6
        /\ position("expireHours") = 7
    <3>1. \A i \in 1..Len(Command) :
             /\ Command[i] = "count" <=> i = 1
             /\ Command[i] = "hour" <=> i = 2
             /\ Command[i] = "seen" <=> i = 4
             /\ Command[i] = "expireCount" <=> i = 5
             /\ Command[i] = "expireSeen" <=> i = 6
             /\ Command[i] = "expireHours" <=> i = 7
      <4>1. \A i \in 1..8 : i = 1 \/ i = 2 \/ i = 3 \/ i = 4 \/ i = 5 \/ i = 6 \/ i = 7 \/ i = 8
        OBVIOUS
      <4> QED BY <4>1, CommandFact
    <3>2. {1, 2, 4, 5, 6, 7} \subseteq 1..Len(Command)
      BY CommandFact
    <3> QED BY <3>1, <3>2
  <2> HIDE DEF position
  <2>2. \A n \in KeyName : Exists(keys, n) /\ keys.expires[n] = None /\ breaks = 0 =>
           \E v \in Visit : pipe[v] \in After[n]..UpTo[n]
    BY DEF ExpireInv, Awaited, Lasting
  <2>3. /\ "count" \in KeyName /\ "hours" \in KeyName /\ "seen" \in KeyName
        /\ After["count"] = 1 + 1 /\ After["hours"] = 2 + 1 /\ After["seen"] = 4 + 1
        /\ UpTo["count"] = 5 /\ UpTo["hours"] = 7 /\ UpTo["seen"] = 6
    BY DEF KeyName, After, UpTo
  <2>4. breaks = 0 =>
          /\ Exists(keys, "count") /\ keys.expires["count"] = None =>
               \E v \in Visit : pipe[v] \in (position("count") + 1)..position("expireCount")
          /\ Exists(keys, "hours") /\ keys.expires["hours"] = None =>
               \E v \in Visit : pipe[v] \in (position("hour") + 1)..position("expireHours")
          /\ Exists(keys, "seen") /\ keys.expires["seen"] = None =>
               \E v \in Visit : pipe[v] \in (position("seen") + 1)..position("expireSeen")
    BY <2>1, <2>2, <2>3
  <2> QED BY <2>4 DEF KeysExpire, position
<1> QED BY <1>1, <1>2, <1>3, Typing, PTL DEF Spec

-----------------------------------------------------------------------------
(* What the window still needs is not removed                              *)

LEMMA MaxFact ==
  ASSUME NEW n \in Nat, NEW S \in SUBSET (0..n), NEW h \in S
  PROVE  Max(S) \in S /\ h <= Max(S)
<1> DEFINE B == {b \in Nat : \A y \in S : y <= b}
           R == OpToRel(<, Nat)
<1>1. \A b \in Nat : \A c \in Nat : <<b, c>> \in R <=> b < c
  BY DEF OpToRel
<1>2. n \in B /\ B \subseteq Nat
  OBVIOUS
<1>3. IsWellFoundedOn(R, Nat)
  BY NatLessThanWellFounded, Zenon
<1> HIDE DEF R
<1>4. PICK m \in B : \A b \in B : ~(<<b, m>> \in R)
  <2> HIDE DEF B
  <2> QED BY <1>2, <1>3, WFMin
<1>5. m \in S
  <2>1. SUFFICES ASSUME m \notin S PROVE FALSE
    OBVIOUS
  <2>2. m \in Nat /\ h \in Nat /\ h < m
    BY <2>1
  <2>3. m - 1 \in B
    <3>1. ASSUME NEW y \in S PROVE y <= m - 1
      BY <2>1, <2>2
    <3> QED BY <2>2, <3>1
  <2>4. m - 1 \in Nat /\ m - 1 < m
    BY <2>2
  <2> QED BY <1>1, <1>4, <2>2, <2>3, <2>4
<1>6. \A y \in S : m >= y
  OBVIOUS
<1>7. Max(S) \in S /\ \A y \in S : Max(S) >= y
  BY <1>5, <1>6 DEF Max
<1> QED BY <1>7

\* What the inactive time says of a visit whose bucket is kept.
LEMMA SpareFact ==
  ASSUME NEW t \in Nat, NEW s \in 0..t, NEW k, KeysAt(k, t), Kept(k, s, t),
         k.hours = NoHours \/ t > LastHour(k) * HourLen + Inactive
  PROVE  t + HourLen > s + Inactive + 1 \/ GoneBy(s, t)
<1>1. SUFFICES ASSUME ~GoneBy(s, t) PROVE t + HourLen > s + Inactive + 1
  OBVIOUS
<1>2. Hour(s) \in DOMAIN k.hours /\ DOMAIN k.hours \in SUBSET (0..Hour(t)) /\ Hour(t) \in Nat
  BY <1>1, HourFact DEF Kept, KeysAt
<1>3. k.hours # NoHours
  BY <1>2, NoBuckets
<1> DEFINE last == LastHour(k)
<1>4. last \in 0..Hour(t) /\ Hour(s) <= last
  BY <1>2, MaxFact DEF LastHour
<1>5. t > last * HourLen + Inactive
  BY <1>3
<1> HIDE DEF last
<1>6. s \in Nat /\ HourLen \in Nat \ {0} /\ Inactive \in Nat /\ last \in Nat /\ Hour(s) \in Nat
  BY <1>4, StoreAssumption, HourFact
<1>7. Hour(s) * HourLen <= last * HourLen
  BY <1>4, <1>6, Product
<1>8. s < Hour(s) * HourLen + HourLen
  BY <1>6, HourFact
<1>9. Hour(s) * HourLen \in Nat /\ last * HourLen \in Nat
  BY <1>6
<1> QED BY <1>5, <1>6, <1>7, <1>8, <1>9

KeepInv ==
  /\ \A v \in Visit : hits[v] > 0 => Held(keys, at[v], clock)
  /\ \A v \in Visit \ bare : hits[v] > 0 => Kept(keys, at[v], clock)
  /\ cleaner.step = "hours" =>
       \A v \in cleaner.settled : at[v] # None /\ Kept(keys, at[v], clock)
  /\ cleaner.step = "prune" => \A h \in cleaner.stale : h + Window <= Hour(clock)

LEMMA ShrunkSpares ==
  ASSUME NEW t, NEW k \in Stored, NEW r, Shrunk(k, r),
         \A h \in DOMAIN k.hours \ DOMAIN r.hours : h + Window <= Hour(t)
  PROVE  Sparing(k, r, t)
<1>1. r \in Stored /\ "hours" \in KeyName
  BY DEF Shrunk, KeyName
<1>2. DOMAIN r.hours # {} => Exists(r, "hours")
  BY <1>1, ExistsFact
<1>3. DOMAIN r.hours # {} => r.expires["hours"] = k.expires["hours"]
  BY <1>1, <1>2 DEF Shrunk
<1> QED BY <1>3 DEF Sparing

\* Only the cleaner's deletion and the expiry of the key remove a bucket in the window.
LEMMA ExecuteSpares ==
  ASSUME VisitInv, KeyInv, NEW v \in Visit, Execute(v)
  PROVE  Sparing(keys, keys', clock)
<1>1. pipe[v] \in Nat /\ pipe[v] # 0 /\ hits \in [Visit -> Nat] /\ clock \in Nat /\ keys \in Stored
  BY CommandFact DEF VisitInv, KeyInv, KeysAt, Execute, Sent
<1>2. at[v] \in 0..clock /\ at[v] \in Nat
  BY <1>1, SentStamped
<1>3. Hour(at[v]) \in Nat /\ Hour(clock) \in Nat /\ Hour(at[v]) <= Hour(clock)
  BY <1>1, <1>2, HourFact, HourMono
<1>4. ASSUME NEW r \in Stored, r.hours = keys.hours,
             r.expires = keys.expires \/ Shrunk(keys, r)
      PROVE  Sparing(keys, r, clock)
  <2>1. CASE r.expires = keys.expires
    BY <1>4, <2>1 DEF Sparing
  <2>2. CASE Shrunk(keys, r)
    BY <1>1, <1>4, <2>2, ShrunkSpares
  <2> QED BY <1>4, <2>1, <2>2
<1>5. CASE keys' = IncrCount(keys)
  <2>1. keys' \in Stored /\ keys'.hours = keys.hours /\ keys'.expires = keys.expires
    BY <1>1, <1>5, CountFact
  <2> QED BY <1>4, <2>1
<1>6. CASE keys' = IncrHour(keys, Hour(at[v]))
  <2>1. DOMAIN keys'.hours = DOMAIN keys.hours \cup {Hour(at[v])} /\ keys'.expires = keys.expires
    BY <1>1, <1>3, <1>6, IncrHourFact
  <2> QED BY <2>1 DEF Sparing
<1>7. CASE keys' = DropHours(keys, StaleField(at[v]))
  <2>1. Shrunk(keys, keys') /\ DOMAIN keys'.hours = DOMAIN keys.hours \ StaleField(at[v])
    BY <1>1, <1>7, DropFact
  <2>2. \A h \in DOMAIN keys.hours \ DOMAIN keys'.hours : h + Window <= Hour(clock)
    BY <1>3, <2>1 DEF StaleField
  <2> QED BY <1>1, <2>1, <2>2, ShrunkSpares
<1>8. CASE keys' = SetSeen(keys, at[v])
  <2>1. keys' \in Stored /\ keys'.hours = keys.hours /\ keys'.expires = keys.expires
    BY <1>1, <1>2, <1>8, SeenFact
  <2> QED BY <1>4, <2>1
<1>9. CASE keys' = TrimSeen(keys, at[v])
  <2>1. Shrunk(keys, keys') /\ keys'.hours = keys.hours /\ keys' \in Stored
    BY <1>1, <1>2, <1>9, TrimFact DEF Shrunk
  <2> QED BY <1>4, <2>1
<1>10. ASSUME NEW n \in KeyName, keys' = Expire(keys, n, clock)
       PROVE  Sparing(keys, keys', clock)
  <2>1. /\ keys'.hours = keys.hours
        /\ \A x \in KeyName :
             keys'.expires[x] = IF ~Exists(keys, x) THEN None
                                ELSE IF x = n THEN clock + TTL ELSE keys.expires[x]
    BY <1>1, <1>10, ExpireFact
  <2>3. "hours" \in KeyName
    BY DEF KeyName
  <2>2. DOMAIN keys.hours # {} => Exists(keys, "hours")
    BY <1>1, ExistsFact
  <2> QED BY <2>1, <2>2, <2>3 DEF Sparing
<1>11. {"count", "seen", "hours"} \subseteq KeyName
  BY DEF KeyName
<1>12. \/ keys' = IncrCount(keys) \/ keys' = IncrHour(keys, Hour(at[v]))
       \/ keys' = DropHours(keys, StaleField(at[v])) \/ keys' = SetSeen(keys, at[v])
       \/ (\E n \in KeyName : keys' = Expire(keys, n, clock)) \/ keys' = TrimSeen(keys, at[v])
  BY <1>1, <1>11, ExecuteFact
<1> QED BY <1>5, <1>6, <1>7, <1>8, <1>9, <1>10, <1>12

LEMMA CleanSpares ==
  ASSUME VisitInv, KeyInv, CleanerInv, KeepInv, Clean
  PROVE  DeleteHours \/ Sparing(keys, keys', clock)
<1>1. keys \in Stored /\ cleaner.now \in Nat
  BY DEF KeyInv, KeysAt, CleanerInv, CleanerSet
<1>2. ASSUME Begin \/ (\E k \in KeyName : Pick(k)) \/ EndPass \/ GiveUpKey \/ ReadStale
             \/ ReadCount \/ Inspect
      PROVE  keys' = keys
  BY <1>2 DEF Begin, Pick, EndPass, GiveUpKey, ReadStale, ReadCount, Inspect
<1>3. keys' = keys => Sparing(keys, keys', clock)
  BY DEF Sparing
<1>4. ASSUME TrimWindow PROVE Sparing(keys, keys', clock)
  <2>1. Shrunk(keys, keys') /\ keys'.hours = keys.hours
    BY <1>1, <1>4, TrimFact DEF TrimWindow
  <2> QED BY <1>1, <2>1, ShrunkSpares
<1>5. ASSUME Prune PROVE Sparing(keys, keys', clock)
  <2>1. cleaner.step = "prune"
    BY <1>5 DEF Prune, CleanerStep
  <2>2. Shrunk(keys, keys') /\ DOMAIN keys'.hours = DOMAIN keys.hours \ cleaner.stale
    BY <1>1, <1>5, DropFact DEF Prune
  <2> QED BY <1>1, <2>1, <2>2, ShrunkSpares DEF KeepInv
<1>6. ASSUME DeleteCount \/ DeleteSeen PROVE Sparing(keys, keys', clock)
  <2>1. keys' = Delete(keys, {"count"}) \/ keys' = Delete(keys, {"seen"})
    BY <1>6 DEF DeleteCount, DeleteSeen
  <2>2. Shrunk(keys, keys') /\ keys'.hours = keys.hours
    BY <1>1, <2>1, DeleteFact
  <2> QED BY <1>1, <2>2, ShrunkSpares
<1> QED BY <1>2, <1>3, <1>4, <1>5, <1>6 DEF Clean

LEMMA KeepSteps ==
  ASSUME Queue!TypeOK, TypeInv, KeepInv, [Next]_vars
  PROVE  KeepInv'
<1>1. /\ VisitInv /\ KeyInv /\ CleanerInv /\ clock \in Nat /\ keys \in Stored
      /\ KeysAt(keys, clock) /\ hits \in [Visit -> Nat] /\ bare \subseteq Visit
  BY DEF TypeInv, VisitInv, KeyInv, KeysAt
<1>2. ASSUME NEW v \in Visit, at[v] # None PROVE at[v] \in 0..clock
  BY <1>1, <1>2 DEF VisitInv
<1>3. ASSUME NEW v \in Visit, hits[v] > 0 PROVE at[v] # None
  BY <1>1, <1>3, SentStamped DEF VisitInv
<1>4. /\ \A v \in Visit : hits[v] > 0 => Held(keys, at[v], clock)
      /\ \A v \in Visit \ bare : hits[v] > 0 => Kept(keys, at[v], clock)
      /\ cleaner.step = "hours" =>
           \A v \in cleaner.settled : at[v] # None /\ Kept(keys, at[v], clock)
      /\ cleaner.step = "prune" => \A h \in cleaner.stale : h + Window <= Hour(clock)
      /\ cleaner.settled \subseteq Visit
  BY <1>1 DEF KeepInv, CleanerInv, CleanerSet
\* What is held and kept stays so unless the visit or the cleaner changes.
<1>5. ASSUME Sparing(keys, keys', clock), clock' = clock,
             \A v \in Visit : at[v] # None => at'[v] = at[v]
      PROVE  /\ \A v \in Visit : hits[v] > 0 => Held(keys', at'[v], clock')
             /\ \A v \in Visit \ bare : hits[v] > 0 => Kept(keys', at'[v], clock')
             /\ \A v \in cleaner.settled :
                  at[v] # None /\ Kept(keys, at[v], clock) =>
                    at'[v] # None /\ Kept(keys', at'[v], clock')
  <2>1. ASSUME NEW v \in Visit, at[v] # None
        PROVE  /\ Held(keys, at[v], clock) => Held(keys', at'[v], clock')
               /\ Kept(keys, at[v], clock) => Kept(keys', at'[v], clock')
               /\ at'[v] # None
    <3>1. at[v] \in 0..clock /\ at'[v] = at[v]
      BY <1>2, <1>5, <2>1
    <3> QED BY <1>1, <1>5, <2>1, <3>1, SparingKeeps
  <2> QED BY <1>3, <1>4, <2>1
<1>6. ASSUME Sparing(keys, keys', clock), UNCHANGED <<clock, hits, bare, cleaner>>,
             \A v \in Visit : at[v] # None => at'[v] = at[v]
      PROVE  KeepInv'
  BY <1>4, <1>5, <1>6 DEF KeepInv
<1>7. keys' = keys => Sparing(keys, keys', clock)
  BY DEF Sparing
<1>8. ASSUME NEW v \in Visit, Serve(v) PROVE KeepInv'
  <2>1. /\ stage[v] = "new" /\ at' = [at EXCEPT ![v] = clock]
        /\ UNCHANGED <<clock, keys, cleaner, hits, bare>>
    BY <1>8, ServeFact DEF Serve, Moves, historyVars
  <2>2. \A u \in Visit : at[u] # None => at'[u] = at[u]
    BY <1>1, <2>1 DEF VisitInv
  <2> QED BY <1>6, <1>7, <2>1, <2>2
<1>9. ASSUME NEW v \in Visit, Offer(v) \/ Cut(v) \/ Resend(v) PROVE KeepInv'
  <2>1. UNCHANGED <<clock, at, keys, cleaner, hits, bare>>
    BY <1>9 DEF Offer, Cut, Resend, historyVars
  <2> QED BY <1>6, <1>7, <2>1
<1>10. ASSUME NEW w \in Worker, Send(w) \/ Return(w) \/ TimeOut(w) PROVE KeepInv'
  <2>1. UNCHANGED <<clock, at, keys, cleaner, hits, bare>>
    BY <1>10 DEF Send, Return, TimeOut, historyVars
  <2> QED BY <1>6, <1>7, <2>1
<1>11. ASSUME NEW v \in Visit, Execute(v) PROVE KeepInv'
  <2>1. pipe[v] \in Nat /\ pipe[v] # 0
    BY <1>1, <1>11, CommandFact DEF VisitInv, Execute, Sent
  <2>2. at[v] \in 0..clock /\ at[v] \in Nat /\ at[v] # None
    BY <1>1, <2>1, SentStamped
  <2>3. Sparing(keys, keys', clock) /\ UNCHANGED <<clock, at, cleaner>>
    BY <1>1, <1>11, ExecuteSpares DEF Execute
  <2>4. CASE UNCHANGED historyVars
    BY <1>6, <2>3, <2>4 DEF historyVars
  <2>5. CASE /\ keys' = IncrHour(keys, Hour(at[v]))
             /\ hits' = [hits EXCEPT ![v] = @ + 1] /\ bare' = bare \cup {v}
    <3>1. Hour(at[v]) \in Nat
      BY <2>2, HourFact
    <3>2. Held(keys', at'[v], clock')
      BY <1>1, <2>3, <2>5, <3>1, IncrHourFact DEF Held
    <3>3. \A u \in Visit : u # v => hits'[u] = hits[u]
      BY <1>1, <2>5
    <3> QED BY <1>4, <1>5, <2>3, <2>5, <3>2, <3>3 DEF KeepInv
  <2>6. CASE keys' = Expire(keys, "hours", clock) /\ UNCHANGED hits /\ bare' = bare \ {v}
    <3>1. hits[v] > 0 => Kept(keys', at[v], clock)
      BY <1>1, <1>4, <2>2, <2>6, ExpireKeeps
    <3> QED BY <1>4, <1>5, <2>3, <2>6, <3>1 DEF KeepInv
  <2> QED BY <1>1, <1>11, <2>1, <2>4, <2>5, <2>6, ExecuteFact
<1>12. ASSUME Clean PROVE KeepInv'
  <2>1. UNCHANGED <<clock, at>>
    BY <1>12, CleanFact
  <2>2. ASSUME DeleteHours PROVE KeepInv'
    <3>1. cleaner' = BackToScan(cleaner) /\ hits' = [v \in Visit |-> 0]
      BY <2>2 DEF DeleteHours
    <3>2. cleaner'.step = "scan"
      BY <3>1 DEF BackToScan, NoPass
    <3>3. \A v \in Visit : ~(hits'[v] > 0)
      BY <3>1
    <3> QED BY <3>2, <3>3 DEF KeepInv
  <2>3. ASSUME ~DeleteHours PROVE Sparing(keys, keys', clock)
    BY <1>1, <1>12, <2>3, CleanSpares
  <2>4. ASSUME ~DeleteHours, UNCHANGED historyVars, cleaner'.step \notin {"hours", "prune"}
        PROVE  KeepInv'
    BY <1>5, <2>1, <2>3, <2>4 DEF KeepInv, historyVars
  <2>5. ASSUME Begin \/ (\E k \in KeyName : Pick(k)) \/ EndPass \/ GiveUpKey
        PROVE  UNCHANGED historyVars /\ cleaner'.step \notin {"hours", "prune"}
    <3>1. UNCHANGED historyVars
      BY <2>5 DEF Begin, Pick, EndPass, GiveUpKey
    <3>2. ASSUME Begin PROVE cleaner'.step = "scan"
      BY <3>2 DEF Begin, NoPass
    <3>4. ASSUME EndPass PROVE cleaner'.step = "idle"
      BY <3>4 DEF EndPass, NoPass
    <3>5. ASSUME GiveUpKey PROVE cleaner'.step = "scan"
      BY <3>5 DEF GiveUpKey, BackToScan, NoPass
    <3>3. ASSUME NEW k \in KeyName, Pick(k) PROVE cleaner'.step \in {"trim", "read", "count"}
      <4>1. FirstStep(k) \in {"trim", "read", "count"}
        BY DEF FirstStep, KeyName
      <4>2. cleaner'.step = FirstStep(k)
        BY <1>1, <3>3 DEF Pick, CleanerInv, CleanerSet
      <4> QED BY <4>1, <4>2
    <3> QED BY <2>5, <3>1, <3>2, <3>3, <3>4, <3>5
  <2>6. ASSUME TrimWindow \/ Prune \/ Inspect \/ DeleteCount \/ DeleteSeen
        PROVE  UNCHANGED historyVars /\ cleaner'.step \notin {"hours", "prune"}
    <3>1. UNCHANGED historyVars
      BY <2>6 DEF TrimWindow, Prune, Inspect, DeleteCount, DeleteSeen
    <3>2. ASSUME TrimWindow \/ Prune PROVE cleaner'.step = "scan"
      BY <3>2 DEF TrimWindow, Prune, BackToScan, NoPass
    <3>3. ASSUME Inspect PROVE cleaner'.step \in {"scan", "delCount"}
      <4>1. cleaner' = BackToScan(cleaner) \/ cleaner' = [cleaner EXCEPT !.step = "delCount", !.now = clock]
        BY <3>3 DEF Inspect
      <4> QED BY <1>1, <4>1 DEF BackToScan, NoPass, CleanerInv, CleanerSet
    <3>4. ASSUME DeleteCount \/ DeleteSeen PROVE cleaner'.step \in {"delSeen", "delHours"}
      BY <1>1, <3>4 DEF DeleteCount, DeleteSeen, CleanerInv, CleanerSet
    <3> QED BY <2>6, <3>1, <3>2, <3>3, <3>4
  <2>7. ASSUME ReadStale, ~DeleteHours PROVE KeepInv'
    <3>1. /\ cleaner' = [cleaner EXCEPT !.step = "prune", !.stale = StaleHours(keys, Hour(cleaner.now))]
          /\ UNCHANGED historyVars
      BY <2>7 DEF ReadStale
    <3>2. cleaner'.step = "prune" /\ cleaner'.stale = StaleHours(keys, Hour(cleaner.now))
      BY <1>1, <3>1 DEF CleanerInv, CleanerSet
    <3>3. cleaner.now \in 0..clock
      BY <1>1 DEF CleanerInv, CleanerSet
    <3>4. Hour(cleaner.now) \in Nat /\ Hour(clock) \in Nat /\ Hour(cleaner.now) <= Hour(clock)
      BY <1>1, <3>3, HourFact, HourMono
    <3>5. DOMAIN keys.hours \subseteq 0..Hour(clock)
      BY <1>1 DEF KeysAt
    <3>6. \A h \in cleaner'.stale : h + Window <= Hour(clock')
      BY <2>1, <3>2, <3>4, <3>5, StoreAssumption DEF StaleHours
    <3> QED BY <1>5, <2>1, <2>3, <2>7, <3>1, <3>2, <3>6 DEF KeepInv, historyVars
  <2>8. ASSUME ReadCount, ~DeleteHours PROVE KeepInv'
    <3>1. UNCHANGED historyVars
      BY <2>8 DEF ReadCount
    <3>2. CASE cleaner' = BackToScan(cleaner)
      <4>1. cleaner'.step = "scan"
        BY <3>2 DEF BackToScan, NoPass
      <4> QED BY <2>4, <2>8, <3>1, <4>1
    <3>3. CASE cleaner' = [cleaner EXCEPT !.step = "hours", !.settled = {v \in Visit \ bare : hits[v] > 0}]
      <4>1. cleaner'.step = "hours" /\ cleaner'.settled = {v \in Visit \ bare : hits[v] > 0}
        BY <1>1, <3>3 DEF CleanerInv, CleanerSet
      <4>2. \A v \in cleaner'.settled : at'[v] # None /\ Kept(keys', at'[v], clock')
        BY <1>3, <1>5, <2>1, <2>3, <2>8, <4>1
      <4> QED BY <1>5, <2>1, <2>3, <2>8, <3>1, <4>1, <4>2 DEF KeepInv, historyVars
    <3> QED BY <2>8, <3>2, <3>3 DEF ReadCount
  <2> QED BY <1>12, <2>2, <2>4, <2>5, <2>6, <2>7, <2>8 DEF Clean
<1>13. ASSUME Tick PROVE KeepInv'
  <2> DEFINE gone == Expired(keys, clock + 1)
  <2>1. /\ keys' = Delete(keys, gone) /\ clock' = clock + 1 /\ UNCHANGED <<at, cleaner>>
        /\ hits' = [v \in Visit |-> IF v \in bare /\ "hours" \in gone THEN 0 ELSE hits[v]]
        /\ bare' = IF "hours" \in gone THEN {} ELSE bare
    BY <1>13 DEF Tick
  <2>2. ASSUME NEW v \in Visit, at[v] # None
        PROVE  /\ Kept(keys, at[v], clock) => Kept(keys', at'[v], clock')
               /\ Held(keys, at[v], clock) /\ "hours" \notin gone => Held(keys', at'[v], clock')
    BY <1>1, <1>2, <2>1, <2>2, TickKeeps
  <2> HIDE DEF gone
  <2>3. ASSUME NEW v \in Visit, hits'[v] > 0
        PROVE  Held(keys', at'[v], clock') /\ (v \notin bare' => Kept(keys', at'[v], clock'))
    <3>1. hits[v] > 0 /\ ~(v \in bare /\ "hours" \in gone) /\ at[v] # None
      BY <1>3, <2>1, <2>3
    <3>2. CASE v \notin bare
      BY <1>4, <2>2, <3>1, <3>2, KeptHeld
    <3>3. CASE v \in bare
      BY <1>4, <2>1, <2>2, <3>1, <3>3
    <3> QED BY <3>2, <3>3
  <2>4. cleaner'.step = "hours" =>
          \A v \in cleaner'.settled : at'[v] # None /\ Kept(keys', at'[v], clock')
    BY <1>4, <2>1, <2>2
  <2>5. cleaner'.step = "prune" => \A h \in cleaner'.stale : h + Window <= Hour(clock')
    <3>1. Hour(clock) <= Hour(clock') /\ Hour(clock) \in Nat /\ Hour(clock') \in Nat
      BY <1>1, <2>1, HourFact, HourMono
    <3>2. cleaner.stale \subseteq Nat
      BY <1>1, <3>1 DEF CleanerInv, CleanerSet
    <3> QED BY <1>4, <2>1, <3>1, <3>2, StoreAssumption
  <2> QED BY <2>3, <2>4, <2>5 DEF KeepInv
<1>14. ASSUME UNCHANGED vars PROVE KeepInv'
  <2>1. UNCHANGED <<clock, at, keys, cleaner, hits, bare>>
    BY <1>14 DEF vars, historyVars
  <2> QED BY <1>6, <1>7, <2>1
<1> QED BY <1>8, <1>9, <1>10, <1>11, <1>12, <1>13, <1>14 DEF Next

LEMMA Keeping == Spec => [](Queue!TypeOK /\ TypeInv /\ KeepInv)
<1>1. Init => KeepInv
  <2> SUFFICES ASSUME Init PROVE KeepInv
    OBVIOUS
  <2>1. hits = [v \in Visit |-> 0] /\ cleaner = NoPass
    BY DEF Init
  <2>2. cleaner.step = "idle" /\ \A v \in Visit : ~(hits[v] > 0)
    BY <2>1 DEF NoPass
  <2> QED BY <2>2 DEF KeepInv
<1>2. Queue!TypeOK /\ TypeInv /\ KeepInv /\ [Next]_vars => KeepInv'
  BY KeepSteps
<1> QED BY <1>1, <1>2, Typing, PTL DEF Spec

-----------------------------------------------------------------------------
(* What the cleaner spares                                                 *)

Spared(s, now) == now + HourLen > s + Inactive + 1 \/ Hour(s) + Window <= Hour(now)

SpareInv ==
  Deleting => \A v \in cleaner.settled : at[v] # None /\ Spared(at[v], cleaner.now)

LEMMA SpareSteps ==
  ASSUME ~ReadsFail, Queue!TypeOK, TypeInv, KeepInv, SpareInv, [Next]_vars
  PROVE  SpareInv'
<1>1. /\ VisitInv /\ KeyInv /\ CleanerInv /\ clock \in Nat
      /\ KeysAt(keys, clock) /\ cleaner \in CleanerSet(clock)
  BY DEF TypeInv, VisitInv, KeyInv, CleanerInv
<1>2. cleaner.settled \subseteq Visit
  BY <1>1 DEF CleanerSet
<1>3. SUFFICES ASSUME Deleting', NEW v \in cleaner'.settled
               PROVE  at'[v] # None /\ Spared(at'[v], cleaner'.now)
  BY DEF SpareInv
<1>4. cleaner'.step \in {"delCount", "delSeen", "delHours"}
  BY <1>3 DEF Deleting
<1>5. ASSUME cleaner' = cleaner, at[v] # None => at'[v] = at[v]
      PROVE  at'[v] # None /\ Spared(at'[v], cleaner'.now)
  BY <1>3, <1>5 DEF SpareInv, Deleting
<1>6. ASSUME NEW u \in Visit, Serve(u) PROVE cleaner' = cleaner /\ (at[v] # None => at'[v] = at[v])
  <2>1. stage[u] = "new" /\ at' = [at EXCEPT ![u] = clock] /\ cleaner' = cleaner
    BY <1>6, ServeFact DEF Serve, Moves
  <2> QED BY <1>1, <2>1 DEF VisitInv
<1>7. ASSUME NEW u \in Visit, Offer(u) \/ Execute(u) \/ Cut(u) \/ Resend(u)
      PROVE  cleaner' = cleaner /\ at' = at
  BY <1>7 DEF Offer, Execute, Cut, Resend
<1>8. ASSUME NEW w \in Worker, Send(w) \/ Return(w) \/ TimeOut(w)
      PROVE  cleaner' = cleaner /\ at' = at
  BY <1>8 DEF Send, Return, TimeOut
<1>9. ASSUME Tick PROVE cleaner' = cleaner /\ at' = at
  BY <1>9 DEF Tick
<1>10. ASSUME UNCHANGED vars PROVE cleaner' = cleaner /\ at' = at
  BY <1>10 DEF vars
<1>11. ASSUME Inspect PROVE at'[v] # None /\ Spared(at'[v], cleaner'.now)
  <2>1. \/ cleaner' = BackToScan(cleaner)
        \/ LongInactive(TRUE) /\ cleaner' = [cleaner EXCEPT !.step = "delCount", !.now = clock]
    BY <1>11 DEF Inspect
  <2>2. cleaner' # BackToScan(cleaner)
    BY <1>4 DEF BackToScan, NoPass
  <2>3. /\ keys.hours = NoHours \/ clock > LastHour(keys) * HourLen + Inactive
        /\ cleaner'.now = clock /\ cleaner'.settled = cleaner.settled
    BY <1>1, <2>1, <2>2 DEF LongInactive, CleanerSet
  <2>4. cleaner.step = "hours" /\ at' = at
    BY <1>11 DEF Inspect, CleanerStep
  <2>5. at[v] # None /\ Kept(keys, at[v], clock) /\ v \in Visit
    BY <1>2, <1>3, <2>3, <2>4 DEF KeepInv
  <2>6. at[v] \in 0..clock
    BY <1>1, <2>5 DEF VisitInv
  <2>7. clock + HourLen > at[v] + Inactive + 1 \/ GoneBy(at[v], clock)
    BY <1>1, <2>3, <2>5, <2>6, SpareFact
  <2> QED BY <2>3, <2>4, <2>5, <2>7 DEF Spared, GoneBy
<1>12. ASSUME DeleteCount \/ DeleteSeen PROVE at'[v] # None /\ Spared(at'[v], cleaner'.now)
  <2>1. /\ cleaner.step \in {"delCount", "delSeen"} /\ at' = at
        /\ cleaner' = [cleaner EXCEPT !.step = "delSeen"] \/ cleaner' = [cleaner EXCEPT !.step = "delHours"]
    BY <1>12 DEF DeleteCount, DeleteSeen, CleanerStep
  <2>2. cleaner'.now = cleaner.now /\ cleaner'.settled = cleaner.settled
    BY <1>1, <2>1 DEF CleanerSet
  <2> QED BY <1>3, <2>1, <2>2 DEF SpareInv, Deleting
<1>13. ASSUME Begin \/ EndPass PROVE FALSE
  <2>1. ASSUME Begin PROVE cleaner'.step = "scan"
    BY <2>1 DEF Begin, NoPass
  <2>2. ASSUME EndPass PROVE cleaner'.step = "idle"
    BY <2>2 DEF EndPass, NoPass
  <2> QED BY <1>4, <1>13, <2>1, <2>2
<1>14. ASSUME GiveUpKey \/ TrimWindow \/ Prune \/ DeleteHours PROVE FALSE
  <2>1. cleaner' = BackToScan(cleaner)
    BY <1>14 DEF GiveUpKey, TrimWindow, Prune, DeleteHours
  <2> QED BY <1>4, <2>1 DEF BackToScan, NoPass
<1>15. ASSUME NEW k \in KeyName, Pick(k) PROVE FALSE
  <2>1. FirstStep(k) \in {"trim", "read", "count"}
    BY DEF FirstStep, KeyName
  <2>2. cleaner'.step = FirstStep(k)
    BY <1>1, <1>15 DEF Pick, CleanerSet
  <2> QED BY <1>4, <2>1, <2>2
<1>16. ASSUME ReadStale PROVE FALSE
  BY <1>1, <1>4, <1>16 DEF ReadStale, CleanerSet
<1>17. ASSUME ReadCount PROVE FALSE
  <2>1. CASE cleaner' = BackToScan(cleaner)
    BY <1>4, <2>1 DEF BackToScan, NoPass
  <2>2. CASE cleaner' = [cleaner EXCEPT !.step = "hours", !.settled = {u \in Visit \ bare : hits[u] > 0}]
    BY <1>1, <1>4, <2>2 DEF CleanerSet
  <2> QED BY <1>17, <2>1, <2>2 DEF ReadCount
<1> QED BY <1>5, <1>6, <1>7, <1>8, <1>9, <1>10, <1>11, <1>12, <1>13, <1>14, <1>15, <1>16, <1>17
        DEF Next, Clean

\* Whatever visits are recorded, resent or lost while the cleaner looks at the keys of a
\* path, it deletes them only when the visits recorded before are an inactive time old,
\* but for an hour, or have left the window; provided that it could read the buckets:
\* when it cannot, it deletes the path of a visit just made (checkAndCleanKey).
THEOREM SparesWhenRead ==
  ASSUME ~ReadsFail
  PROVE  Spec => []SparesButAnHour
<1>1. Init => SpareInv
  <2> SUFFICES ASSUME Init PROVE SpareInv
    OBVIOUS
  <2>1. cleaner = NoPass
    BY DEF Init
  <2> QED BY <2>1 DEF SpareInv, Deleting, NoPass
<1>2. Queue!TypeOK /\ TypeInv /\ KeepInv /\ SpareInv /\ [Next]_vars => SpareInv'
  BY SpareSteps
<1>3. SpareInv => SparesButAnHour
  BY DEF SpareInv, Spared, SparesButAnHour
<1> QED BY <1>1, <1>2, <1>3, Keeping, PTL DEF Spec

-----------------------------------------------------------------------------
(* The sums                                                                *)

\* What the buckets of the hours H show, what hits h of visits stamped a amount to,
\* and hours that are in the window at t or will be.
Shown(k, H) == Total(k.hours, DOMAIN k.hours \cap H)
Hit(h, a, H) == Total(h, {v \in Visit : a[v] # None /\ Hour(a[v]) \in H})
Live(H, t) == \A h \in H : h + Window > Hour(t)

Agree(k, h, a, t) ==
  \A H \in SUBSET Nat :
    /\ Shown(k, H) <= Hit(h, a, H)
    /\ Live(H, t) => Shown(k, H) = Hit(h, a, H)

SumInv == Agree(keys, hits, at, clock)

LEMMA ShownFinite ==
  ASSUME NEW t \in Nat, NEW k, KeysAt(k, t), NEW H
  PROVE  /\ IsFiniteSet(DOMAIN k.hours \cap H) /\ Shown(k, H) \in Nat
         /\ \A h \in DOMAIN k.hours : h \in Nat /\ k.hours[h] \in Nat
<1>1. k.hours \in Buckets /\ DOMAIN k.hours \subseteq 0..Hour(t)
  BY DEF KeysAt, Stored
<1>2. \A h \in DOMAIN k.hours : h \in Nat /\ k.hours[h] \in Nat
  BY <1>1, BucketFact
<1>3. 0 \in Int /\ Hour(t) \in Int
  BY HourFact
<1>4. IsFiniteSet(0..Hour(t))
  BY <1>3, FS_Interval
<1>5. DOMAIN k.hours \cap H \in SUBSET (0..Hour(t))
  BY <1>1
<1>6. IsFiniteSet(DOMAIN k.hours \cap H)
  BY <1>4, <1>5, FS_Subset
<1> QED BY <1>2, <1>6, UnitsFinite DEF Shown

LEMMA HitFinite ==
  ASSUME NEW h \in [Visit -> Nat], NEW a, NEW H
  PROVE  /\ IsFiniteSet({v \in Visit : a[v] # None /\ Hour(a[v]) \in H})
         /\ Hit(h, a, H) \in Nat
<1> DEFINE S == {v \in Visit : a[v] # None /\ Hour(a[v]) \in H}
<1>1. S \in SUBSET Visit /\ IsFiniteSet(Visit)
  BY StoreAssumption
<1>2. IsFiniteSet(S)
  BY <1>1, FS_Subset
<1>3. \A v \in S : h[v] \in Nat
  OBVIOUS
<1> QED BY <1>2, <1>3, UnitsFinite DEF Hit

\* What takes away only stale buckets shows no more, and no less of the live hours.
LEMMA ShownSpares ==
  ASSUME NEW t \in Nat, NEW k, KeysAt(k, t), NEW r, Shrunk(k, r), Sparing(k, r, t),
         NEW H \in SUBSET Nat
  PROVE  Shown(r, H) <= Shown(k, H) /\ (Live(H, t) => Shown(r, H) = Shown(k, H))
<1> DEFINE D == DOMAIN k.hours \cap H
           E == DOMAIN r.hours \cap H
<1>1. /\ E \subseteq D /\ \A h \in E : r.hours[h] = k.hours[h]
      /\ \A h \in D : h \in E \/ h + Window <= Hour(t)
  BY DEF Shrunk, Sparing
<1>2. IsFiniteSet(D) /\ \A h \in D : h \in Nat /\ k.hours[h] \in Nat
  BY ShownFinite
<1>3. Hour(t) \in Nat /\ Window \in Nat
  BY HourFact, StoreAssumption
<1>4. Live(H, t) => \A h \in D : h \in E
  BY <1>1, <1>2, <1>3 DEF Live
<1> HIDE DEF D, E
<1>5. Total(r.hours, E) <= Total(k.hours, D)
  BY <1>1, <1>2, TotalMono
<1>6. Live(H, t) => Total(r.hours, E) = Total(k.hours, D)
  BY <1>1, <1>4, UnitsSame
<1> QED BY <1>5, <1>6 DEF Shown, D, E

\* A visit that no bucket counts yet may be stamped.
LEMMA HitSame ==
  ASSUME NEW h \in [Visit -> Nat], NEW a, NEW b,
         \A v \in Visit : a[v] = b[v] \/ h[v] = 0, NEW H
  PROVE  Hit(h, a, H) = Hit(h, b, H)
<1> DEFINE S == {v \in Visit : a[v] # None /\ Hour(a[v]) \in H}
           T == {v \in Visit : b[v] # None /\ Hour(b[v]) \in H}
<1>1. \A v \in S : v \in T \/ h[v] = 0
  OBVIOUS
<1>2. \A v \in T : v \in S \/ h[v] = 0
  OBVIOUS
<1> HIDE DEF S, T
<1>3. Total(h, S) = Total(h, T)
  BY <1>1, <1>2, UnitsSame
<1> QED BY <1>3 DEF Hit, S, T

LEMMA SameAgree ==
  ASSUME NEW k, NEW r, NEW h \in [Visit -> Nat], NEW a, NEW b, NEW t, Agree(k, h, a, t),
         r.hours = k.hours, \A v \in Visit : a[v] = b[v] \/ h[v] = 0
  PROVE  Agree(r, h, b, t)
<1>1. \A H : Shown(r, H) = Shown(k, H)
  BY DEF Shown
<1>2. \A H : Hit(h, b, H) = Hit(h, a, H)
  BY HitSame
<1> QED BY <1>1, <1>2 DEF Agree

LEMMA SpareAgree ==
  ASSUME NEW t \in Nat, NEW k, KeysAt(k, t), NEW r, Shrunk(k, r), Sparing(k, r, t),
         NEW h \in [Visit -> Nat], NEW a, Agree(k, h, a, t)
  PROVE  Agree(r, h, a, t)
<1>1. SUFFICES ASSUME NEW H \in SUBSET Nat
               PROVE  /\ Shown(r, H) <= Hit(h, a, H)
                      /\ Live(H, t) => Shown(r, H) = Hit(h, a, H)
  BY DEF Agree
<1>2. Shown(k, H) <= Hit(h, a, H) /\ (Live(H, t) => Shown(k, H) = Hit(h, a, H))
  BY DEF Agree
<1>3. Shown(r, H) <= Shown(k, H) /\ (Live(H, t) => Shown(r, H) = Shown(k, H))
  BY ShownSpares
<1>4. KeysAt(r, t)
  BY ShrunkAt
<1>5. Shown(r, H) \in Nat /\ Shown(k, H) \in Nat /\ Hit(h, a, H) \in Nat
  BY <1>4, ShownFinite, HitFinite
<1> QED BY <1>2, <1>3, <1>5

\* An increment adds one on both sides.
LEMMA IncrAgree ==
  ASSUME NEW t \in Nat, NEW k, KeysAt(k, t), NEW h \in [Visit -> Nat], NEW a,
         Agree(k, h, a, t), NEW v \in Visit, a[v] \in Nat
  PROVE  Agree(IncrHour(k, Hour(a[v])), [h EXCEPT ![v] = @ + 1], a, t)
<1> DEFINE x == Hour(a[v])
           r == IncrHour(k, x)
           g == [h EXCEPT ![v] = @ + 1]
           n == IF x \in DOMAIN k.hours THEN k.hours[x] ELSE 0
<1>1. x \in Nat /\ k \in Stored /\ a[v] # None
  BY HourFact, StoreAssumption DEF KeysAt
<1>2. /\ DOMAIN r.hours = DOMAIN k.hours \cup {x}
      /\ n \in Nat /\ r.hours[x] = n + 1
      /\ \A y \in DOMAIN k.hours : y # x => r.hours[y] = k.hours[y]
  BY <1>1, IncrHourFact
<1>3. h[v] \in Nat /\ g[v] = h[v] + 1 /\ \A u \in Visit : u # v => g[u] = h[u]
  OBVIOUS
<1>4. x \in DOMAIN k.hours => k.hours[x] = n
  OBVIOUS
<1>5. x \notin DOMAIN k.hours => n = 0
  OBVIOUS
<1> HIDE DEF r, g, n
<1>6. ASSUME NEW H \in SUBSET Nat
      PROVE  /\ Shown(r, H) <= Hit(g, a, H)
             /\ Live(H, t) => Shown(r, H) = Hit(g, a, H)
  <2> DEFINE D == DOMAIN k.hours \cap H
             S == {u \in Visit : a[u] # None /\ Hour(a[u]) \in H}
  <2>1. Shown(k, H) <= Hit(h, a, H) /\ (Live(H, t) => Shown(k, H) = Hit(h, a, H))
    BY DEF Agree
  <2>2. /\ IsFiniteSet(D) /\ \A y \in D : k.hours[y] \in Nat
        /\ IsFiniteSet(S) /\ \A u \in S : h[u] \in Nat
        /\ Shown(k, H) \in Nat /\ Hit(h, a, H) \in Nat
    BY ShownFinite, HitFinite
  <2>3. CASE x \in H
    <3>1. DOMAIN r.hours \cap H = D \cup {x}
      BY <1>2, <2>3
    <3>2. S \cup {v} = S /\ v \in S
      BY <1>1, <2>3
    <3>3. /\ x \in D => k.hours[x] = n
          /\ x \notin D => n = 0
      BY <1>4, <1>5, <2>3
    <3>4. /\ \A y \in D : y # x => r.hours[y] = k.hours[y]
          /\ \A u \in S : u # v => g[u] = h[u]
      BY <1>2, <1>3
    <3>5. Shown(k, H) = Total(k.hours, D) /\ Shown(r, H) = Total(r.hours, D \cup {x})
      BY <3>1 DEF Shown
    <3>6. Hit(h, a, H) = Total(h, S) /\ Hit(g, a, H) = Total(g, S \cup {v})
      BY <3>2 DEF Hit
    <3> HIDE DEF D, S, x
    <3>7. Shown(r, H) = Shown(k, H) + 1
      BY <1>2, <2>2, <3>3, <3>4, <3>5, TotalAdd
    <3>8. Hit(g, a, H) = Hit(h, a, H) + 1
      <4> DEFINE m == h[v]
      <4>1. m \in Nat /\ g[v] = m + 1 /\ (v \in S => h[v] = m) /\ (v \notin S => m = 0)
        BY <1>3, <3>2
      <4> HIDE DEF m
      <4>2. Total(g, S \cup {v}) = Total(h, S) + 1
        BY <2>2, <3>4, <4>1, TotalAdd
      <4> QED BY <3>6, <4>2
    <3> QED BY <2>1, <2>2, <3>7, <3>8
  <2>4. CASE x \notin H
    <3>1. DOMAIN r.hours \cap H = D /\ \A y \in D : r.hours[y] = k.hours[y]
      BY <1>2, <2>4
    <3>2. \A u \in S : g[u] = h[u]
      BY <1>3, <2>4
    <3>3. Shown(k, H) = Total(k.hours, D) /\ Shown(r, H) = Total(r.hours, D)
      BY <3>1 DEF Shown
    <3>4. Hit(h, a, H) = Total(h, S) /\ Hit(g, a, H) = Total(g, S)
      BY DEF Hit
    <3> HIDE DEF D, S, x
    <3>5. Total(k.hours, D) = Total(r.hours, D) /\ Total(h, S) = Total(g, S)
      BY <3>1, <3>2, UnitsSame
    <3> QED BY <2>1, <3>3, <3>4, <3>5
  <2> QED BY <2>3, <2>4
<1>7. Agree(r, g, a, t)
  BY <1>6 DEF Agree
<1> QED BY <1>7 DEF r, g

\* Without buckets, none that is live may have been hit.
LEMMA NoneAgree ==
  ASSUME NEW k, DOMAIN k.hours = {}, NEW h \in [Visit -> Nat], NEW a, NEW t,
         \A v \in Visit : a[v] # None /\ h[v] > 0 => GoneBy(a[v], t),
         \A v \in Visit : a[v] # None => a[v] \in Nat, t \in Nat
  PROVE  Agree(k, h, a, t)
<1>1. SUFFICES ASSUME NEW H \in SUBSET Nat
               PROVE  /\ Shown(k, H) <= Hit(h, a, H)
                      /\ Live(H, t) => Shown(k, H) = Hit(h, a, H)
  BY DEF Agree
<1>2. Shown(k, H) = 0
  BY TotalZero DEF Shown
<1>3. Hit(h, a, H) \in Nat
  BY HitFinite
<1>4. ASSUME Live(H, t) PROVE Hit(h, a, H) = 0
  <2> DEFINE S == {v \in Visit : a[v] # None /\ Hour(a[v]) \in H}
  <2>1. ASSUME NEW v \in S PROVE h[v] = 0
    <3>1. Hour(a[v]) + Window > Hour(t)
      BY <1>4 DEF Live
    <3>2. Hour(a[v]) \in Nat /\ Hour(t) \in Nat /\ Window \in Nat
      BY HourFact, StoreAssumption
    <3>3. ~GoneBy(a[v], t)
      BY <3>1, <3>2 DEF GoneBy
    <3> QED BY <3>3
  <2> HIDE DEF S
  <2>2. Total(h, S) = 0
    BY <2>1, TotalZero
  <2> QED BY <2>2 DEF Hit, S
<1> QED BY <1>2, <1>3, <1>4

\* The later, the fewer hours are live.
LEMMA LaterAgree ==
  ASSUME NEW t \in Nat, NEW k, NEW h, NEW a, Agree(k, h, a, t)
  PROVE  Agree(k, h, a, t + 1)
<1>1. Hour(t) <= Hour(t + 1) /\ Hour(t) \in Nat /\ Hour(t + 1) \in Nat /\ Window \in Nat
  BY HourMono, HourFact, StoreAssumption
<1>2. \A H \in SUBSET Nat : Live(H, t + 1) => Live(H, t)
  BY <1>1 DEF Live
<1> QED BY <1>2 DEF Agree

LEMMA SumSteps ==
  ASSUME Queue!TypeOK, TypeInv, KeepInv, SumInv, [Next]_vars
  PROVE  SumInv'
<1>1. /\ VisitInv /\ KeyInv /\ CleanerInv /\ clock \in Nat /\ keys \in Stored
      /\ KeysAt(keys, clock) /\ hits \in [Visit -> Nat] /\ Agree(keys, hits, at, clock)
  BY DEF TypeInv, VisitInv, KeyInv, KeysAt, SumInv
<1>2. SUFFICES Agree(keys', hits', at', clock')
  BY DEF SumInv
<1>3. ASSUME keys'.hours = keys.hours, UNCHANGED <<hits, clock>>,
             \A v \in Visit : at'[v] = at[v] \/ hits[v] = 0
      PROVE  Agree(keys', hits', at', clock')
  BY <1>1, <1>3, SameAgree
<1>4. ASSUME Shrunk(keys, keys'), Sparing(keys, keys', clock), UNCHANGED <<hits, clock, at>>
      PROVE  Agree(keys', hits', at', clock')
  BY <1>1, <1>4, SpareAgree
<1>5. ASSUME NEW v \in Visit, Serve(v) PROVE Agree(keys', hits', at', clock')
  <2>1. /\ stage[v] = "new" /\ at' = [at EXCEPT ![v] = clock]
        /\ UNCHANGED <<clock, keys, hits>>
    BY <1>5, ServeFact DEF Serve, Moves, historyVars
  <2>2. hits[v] = 0
    BY <1>1, <2>1 DEF VisitInv, Unsent
  <2>3. \A u \in Visit : u # v => at'[u] = at[u]
    BY <1>1, <2>1 DEF VisitInv
  <2> QED BY <1>3, <2>1, <2>2, <2>3
<1>6. ASSUME NEW v \in Visit, Offer(v) \/ Cut(v) \/ Resend(v)
      PROVE  Agree(keys', hits', at', clock')
  <2>1. UNCHANGED <<clock, at, keys, hits>>
    BY <1>6 DEF Offer, Cut, Resend, historyVars
  <2> QED BY <1>3, <2>1
<1>7. ASSUME NEW w \in Worker, Send(w) \/ Return(w) \/ TimeOut(w)
      PROVE  Agree(keys', hits', at', clock')
  <2>1. UNCHANGED <<clock, at, keys, hits>>
    BY <1>7 DEF Send, Return, TimeOut, historyVars
  <2> QED BY <1>3, <2>1
<1>8. ASSUME NEW v \in Visit, Execute(v) PROVE Agree(keys', hits', at', clock')
  <2>1. pipe[v] \in Nat /\ pipe[v] # 0
    BY <1>1, <1>8, CommandFact DEF VisitInv, Execute, Sent
  <2>2. at[v] \in Nat
    BY <1>1, <2>1, SentStamped
  <2>3. Sparing(keys, keys', clock) /\ UNCHANGED <<clock, at>>
    BY <1>1, <1>8, ExecuteSpares DEF Execute
  <2>4. CASE /\ keys' = IncrHour(keys, Hour(at[v])) /\ hits' = [hits EXCEPT ![v] = @ + 1]
    BY <1>1, <2>2, <2>3, <2>4, IncrAgree
  <2>5. CASE /\ \/ keys' = DropHours(keys, StaleField(at[v])) \/ keys' = TrimSeen(keys, at[v])
             /\ UNCHANGED hits
    <3>1. Shrunk(keys, keys')
      BY <1>1, <2>2, <2>5, DropFact, TrimFact
    <3> QED BY <1>4, <2>3, <2>5, <3>1
  <2>6. CASE /\ \/ keys' = IncrCount(keys) \/ keys' = SetSeen(keys, at[v])
                \/ (\E n \in KeyName : keys' = Expire(keys, n, clock))
             /\ UNCHANGED hits
    <3>2. ASSUME keys' = IncrCount(keys) PROVE keys'.hours = keys.hours
      BY <1>1, <3>2, CountFact
    <3>3. ASSUME keys' = SetSeen(keys, at[v]) PROVE keys'.hours = keys.hours
      BY <1>1, <2>2, <3>3, SeenFact
    <3>4. ASSUME NEW n \in KeyName, keys' = Expire(keys, n, clock)
          PROVE  keys'.hours = keys.hours
      BY <1>1, <3>4, ExpireFact
    <3>1. keys'.hours = keys.hours
      BY <2>6, <3>2, <3>3, <3>4
    <3> QED BY <1>3, <2>3, <2>6, <3>1
  <2>7. {"count", "seen", "hours"} \subseteq KeyName
    BY DEF KeyName
  <2> QED BY <1>1, <1>8, <2>1, <2>4, <2>5, <2>6, <2>7, ExecuteFact DEF historyVars
<1>9. ASSUME Clean PROVE Agree(keys', hits', at', clock')
  <2>1. UNCHANGED <<clock, at>>
    BY <1>9, CleanFact
  <2>2. ASSUME DeleteHours PROVE Agree(keys', hits', at', clock')
    <3>1. keys' = Delete(keys, {"hours"}) /\ hits' = [v \in Visit |-> 0]
      BY <2>2 DEF DeleteHours
    <3>2. DOMAIN keys'.hours = {}
      BY <1>1, <3>1, DeleteFact, NoBuckets
    <3>3. hits' \in [Visit -> Nat] /\ \A v \in Visit : ~(hits'[v] > 0)
      BY <3>1
    <3>4. \A v \in Visit : at[v] # None => at[v] \in Nat
      BY <1>1 DEF VisitInv
    <3> QED BY <1>1, <2>1, <3>2, <3>3, <3>4, NoneAgree
  <2>3. ASSUME ~DeleteHours PROVE Agree(keys', hits', at', clock')
    <3>1. UNCHANGED historyVars
      BY <1>9, <2>3 DEF Clean, Begin, Pick, EndPass, GiveUpKey, TrimWindow, ReadStale,
                        Prune, ReadCount, Inspect, DeleteCount, DeleteSeen
    <3>2. keys' = keys \/ Shrunk(keys, keys')
      BY <1>1, <1>9, CleanShrinks
    <3>3. Sparing(keys, keys', clock)
      BY <1>1, <1>9, <2>3, CleanSpares
    <3> QED BY <1>3, <1>4, <2>1, <3>1, <3>2, <3>3 DEF historyVars
  <2> QED BY <2>2, <2>3
<1>10. ASSUME Tick PROVE Agree(keys', hits', at', clock')
  <2> DEFINE gone == Expired(keys, clock + 1)
  <2>1. /\ keys' = Delete(keys, gone) /\ clock' = clock + 1 /\ at' = at
        /\ hits' = [v \in Visit |-> IF v \in bare /\ "hours" \in gone THEN 0 ELSE hits[v]]
    BY <1>10 DEF Tick
  <2>2. keys'.hours = IF "hours" \in gone THEN NoHours ELSE keys.hours
    BY <1>1, <2>1, DeleteFact
  <2>3. ASSUME NEW v \in Visit, at[v] # None, hits[v] > 0, v \notin bare, "hours" \in gone
        PROVE  GoneBy(at[v], clock')
    <3>1. Kept(keys, at[v], clock) /\ at[v] \in 0..clock
      BY <1>1, <2>3 DEF KeepInv, VisitInv
    <3> QED BY <1>1, <2>1, <2>3, <3>1, TickKeeps
  <2> HIDE DEF gone
  <2>4. CASE "hours" \in gone
    <3>1. DOMAIN keys'.hours = {}
      BY <2>2, <2>4, NoBuckets
    <3>2. hits' \in [Visit -> Nat] /\ clock' \in Nat
      BY <1>1, <2>1
    <3>3. \A v \in Visit : at'[v] # None /\ hits'[v] > 0 => GoneBy(at'[v], clock')
      BY <2>1, <2>3, <2>4
    <3>4. \A v \in Visit : at'[v] # None => at'[v] \in Nat
      BY <1>1, <2>1 DEF VisitInv
    <3> QED BY <3>1, <3>2, <3>3, <3>4, NoneAgree
  <2>5. CASE "hours" \notin gone
    <3>1. hits' = hits
      BY <1>1, <2>1, <2>5
    <3>2. Agree(keys, hits, at, clock')
      BY <1>1, <2>1, LaterAgree
    <3> QED BY <1>1, <2>1, <2>2, <2>5, <3>1, <3>2, SameAgree
  <2> QED BY <2>4, <2>5
<1>11. ASSUME UNCHANGED vars PROVE Agree(keys', hits', at', clock')
  <2>1. UNCHANGED <<clock, at, keys, hits>>
    BY <1>11 DEF vars, historyVars
  <2> QED BY <1>3, <2>1
<1> QED BY <1>5, <1>6, <1>7, <1>8, <1>9, <1>10, <1>11 DEF Next

LEMMA Summing == Spec => [](TypeInv /\ SumInv)
<1>1. Init => SumInv
  <2> SUFFICES ASSUME Init PROVE SumInv
    OBVIOUS
  <2>1. keys = NoKeys /\ hits = [v \in Visit |-> 0] /\ at = [v \in Visit |-> None] /\ clock = 0
    BY DEF Init
  <2>2. DOMAIN keys.hours = {}
    BY <2>1, NoBuckets DEF NoKeys
  <2>3. hits \in [Visit -> Nat] /\ clock \in Nat /\ \A v \in Visit : at[v] = None
    BY <2>1
  <2> QED BY <2>2, <2>3, NoneAgree DEF SumInv
<1>2. Queue!TypeOK /\ TypeInv /\ KeepInv /\ SumInv /\ [Next]_vars => SumInv'
  BY SumSteps
<1> QED BY <1>1, <1>2, Keeping, PTL DEF Spec

\* The panel shows of the last hours exactly what was recorded in them, for any number
\* of visits, however late they are written and in whatever order with the removal
\* of stale fields, the cleaner's pruning and the expiry of the keys
\* (record, pruneHourBuckets, summarizeHours).
THEOREM WindowAlways == Spec => []WindowExact
<1>1. TypeInv /\ SumInv => WindowExact
  <2> SUFFICES ASSUME TypeInv, SumInv PROVE WindowExact
    OBVIOUS
  <2>1. clock \in Nat /\ KeysAt(keys, clock) /\ Agree(keys, hits, at, clock)
    BY DEF TypeInv, VisitInv, KeyInv, SumInv
  <2> DEFINE now == Hour(clock)
             H == {h \in 0..now : InWindow(h, now)}
  <2>2. now \in Nat
    BY <2>1, HourFact
  <2>3. H \in SUBSET Nat /\ Live(H, clock)
    BY <2>2 DEF Live, InWindow
  <2>4. {h \in DOMAIN keys.hours : InWindow(h, now)} = DOMAIN keys.hours \cap H
    BY <2>1 DEF KeysAt
  <2> HIDE DEF now, H
  <2>5. Shown(keys, H) = Hit(hits, at, H)
    BY <2>1, <2>3 DEF Agree
  <2>6. SummarizeHours(keys, now) = Recorded(H)
    BY <2>4, <2>5 DEF SummarizeHours, Recorded, Shown, Hit
  <2> QED BY <2>6 DEF WindowExact, now, H
<1> QED BY <1>1, Summing, PTL

\* A panel that took its hour just before it ended shows all that was recorded in
\* the part of its window that is still one, and nothing that was not recorded in its
\* window (pathStats, tokenStats).
THEOREM PanelAlways == Spec => []PanelWindow
<1>1. TypeInv /\ SumInv => PanelWindow
  <2> SUFFICES ASSUME TypeInv, SumInv, Hour(clock) > 0
               PROVE  PanelSum(Hour(clock) - 1) \in
                        Recorded({h \in 0..(Hour(clock) - 1) : h + Window > (Hour(clock) - 1) + 1})
                        ..Recorded({h \in 0..(Hour(clock) - 1) : h + Window > Hour(clock) - 1})
    BY DEF PanelWindow
  <2>1. /\ clock \in Nat /\ KeysAt(keys, clock) /\ hits \in [Visit -> Nat]
        /\ Agree(keys, hits, at, clock)
    BY DEF TypeInv, VisitInv, KeyInv, SumInv
  <2> DEFINE hour == Hour(clock) - 1
             W == {h \in 0..hour : h + Window > hour}
             L == {h \in 0..hour : h + Window > hour + 1}
  <2>2. hour \in Nat /\ Hour(clock) = hour + 1 /\ Hour(clock) \in Nat /\ Window \in Nat
    BY <2>1, HourFact, StoreAssumption
  <2>3. W \in SUBSET Nat /\ L \in SUBSET Nat /\ L \subseteq W /\ Live(L, clock)
    BY <2>2 DEF Live
  <2>4. {h \in DOMAIN keys.hours : InWindow(h, hour)} = DOMAIN keys.hours \cap W
    BY <2>1, <2>2 DEF KeysAt, InWindow
  <2> HIDE DEF hour, W, L
  <2>5. Shown(keys, W) <= Hit(hits, at, W) /\ Shown(keys, L) = Hit(hits, at, L)
    BY <2>1, <2>3 DEF Agree
  <2>6. Shown(keys, L) <= Shown(keys, W)
    <3> DEFINE D == DOMAIN keys.hours \cap L
               E == DOMAIN keys.hours \cap W
    <3>1. IsFiniteSet(E) /\ D \subseteq E /\ \A h \in E : keys.hours[h] \in Nat
      BY <2>1, <2>3, ShownFinite
    <3> HIDE DEF D, E
    <3>2. Total(keys.hours, D) <= Total(keys.hours, E)
      BY <3>1, TotalMono
    <3> QED BY <3>2 DEF Shown, D, E
  <2>7. Shown(keys, W) \in Nat /\ Hit(hits, at, W) \in Nat /\ Hit(hits, at, L) \in Nat
    BY <2>1, ShownFinite, HitFinite
  <2>8. PanelSum(hour) = Shown(keys, W)
    BY <2>4 DEF PanelSum, SummarizeHours, Shown
  <2>9. Recorded(W) = Hit(hits, at, W) /\ Recorded(L) = Hit(hits, at, L)
    BY DEF Recorded, Hit
  <2>10. PanelSum(hour) \in Recorded(L)..Recorded(W)
    BY <2>5, <2>6, <2>7, <2>8, <2>9
  <2> QED BY <2>10 DEF hour, W, L
<1> QED BY <1>1, Summing, PTL
=============================================================================
