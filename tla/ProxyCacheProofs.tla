-------------------------- MODULE ProxyCacheProofs --------------------------
(* Proofs about ProxyCache, for every set of requests, keys and replies and *)
(* every TTL.                                                               *)
EXTENDS ProxyCache, TLAPS

\* What a goroutine holds at each of its steps.
PlaceInv ==
  \A r \in Request :
    /\ pc[r] \in {"idle", "get4xx", "check4xx", "drop4xx", "get200", "check200",
                  "drop200", "upstream"} => reply[r] = None /\ answer[r] = "none"
    /\ pc[r] \in {"check4xx", "drop4xx", "check200", "drop200"} => held[r] \in Entry
    /\ pc[r] \in {"stamp", "set"} =>
         reply[r] # None /\ StoreTarget(reply[r]) \in Cache
    /\ pc[r] = "set" => held[r] \in Entry /\ held[r].src = r
    /\ (pc[r] = "done" /\ reply[r] # None /\ StoreTarget(reply[r]) # None) =>
         held[r] \in Entry /\ held[r].src = r
    /\ reply[r] # None => answer[r] # "none"

\* Entry e, met under key k of cache c, is the one its source stored there.
Belongs(e, c, k) ==
  /\ held[e.src] = e
  /\ pc[e.src] = "done"
  /\ key[e.src] = k
  /\ reply[e.src] # None
  /\ StoreTarget(reply[e.src]) = c

\* So is every entry in a cache and every entry a lookup is working on.
BelongInv ==
  /\ \A c \in Cache, k \in Key : data[c][k] # None => Belongs(data[c][k], c, k)
  /\ \A c \in Cache, r \in Request :
       pc[r] \in {Check[c], Drop[c]} => Belongs(held[r], c, key[r])

\* As long as r is in its 4xx lookup, something keeps it from passing before
\* shield[r]: the entry in the map, the entry r holds, or nothing any more.
ShieldInv ==
  \A r \in Request : shield[r] # None =>
    /\ pc[r] = "get4xx" =>
         \/ clock >= shield[r]
         \/ /\ data["4xx"][key[r]] # None
            /\ data["4xx"][key[r]].expiresAt >= shield[r]
    /\ pc[r] = "check4xx" =>
         clock >= shield[r] \/ held[r].expiresAt >= shield[r]
    /\ pc[r] \in {"drop4xx", "get200", "check200", "drop200", "upstream",
                  "stamp", "set"} => clock >= shield[r]

-----------------------------------------------------------------------------

\* storeResponse's switch yields one of the caches or none.
LEMMA StoreTargetRange ==
  ASSUME NEW rep
  PROVE  StoreTarget(rep) \in Cache \cup {None}
  BY DEF StoreTarget, Cache

\* Every reachable state is well typed, and a goroutine holds what its step needs.
LEMMA Typing == Spec => [](TypeOK /\ PlaceInv)
<1> USE CacheAssumption DEF Cache, Entry
<1>1. Init => TypeOK /\ PlaceInv
  BY DEF Init, TypeOK, PlaceInv
<1>2. TypeOK /\ PlaceInv /\ [Next]_vars => TypeOK' /\ PlaceInv'
  <2> SUFFICES ASSUME TypeOK, PlaceInv, [Next]_vars PROVE TypeOK' /\ PlaceInv'
    OBVIOUS
  <2>1. ASSUME NEW r \in Request, Arrive(r) PROVE TypeOK' /\ PlaceInv'
    <3>1. TypeOK'
      BY <2>1 DEF TypeOK, PlaceInv, Arrive, Goto, Get, Live, Expired
    <3>2. PlaceInv'
      BY <2>1, StoreTargetRange DEF TypeOK, PlaceInv, Arrive, Goto, Get
    <3> QED BY <3>1, <3>2
  <2>2. ASSUME NEW r \in Request, NEW c \in Cache, GetRead(r, c) PROVE TypeOK' /\ PlaceInv'
    <3>1. TypeOK'
      BY <2>2 DEF TypeOK, PlaceInv, GetRead, Goto, Check, OnMiss
    <3>2. PlaceInv'
      BY <2>2, StoreTargetRange DEF TypeOK, PlaceInv, GetRead, Goto, Get, Check, OnMiss
    <3> QED BY <3>1, <3>2
  <2>3. ASSUME NEW r \in Request, NEW c \in Cache, GetHit(r, c) PROVE TypeOK' /\ PlaceInv'
    <3>1. TypeOK'
      BY <2>3 DEF TypeOK, PlaceInv, GetHit, Goto, Respond, OnHit, Check
    <3>2. PlaceInv'
      BY <2>3, StoreTargetRange DEF TypeOK, PlaceInv, GetHit, Goto, Respond, Check
    <3> QED BY <3>1, <3>2
  <2>4. ASSUME NEW r \in Request, NEW c \in Cache, GetExpired(r, c) PROVE TypeOK' /\ PlaceInv'
    <3>1. TypeOK'
      BY <2>4 DEF TypeOK, PlaceInv, GetExpired, Goto, Drop
    <3>2. PlaceInv'
      BY <2>4, StoreTargetRange DEF TypeOK, PlaceInv, GetExpired, Goto, Check, Drop
    <3> QED BY <3>1, <3>2
  <2>5. ASSUME NEW r \in Request, NEW c \in Cache, GetDrop(r, c) PROVE TypeOK' /\ PlaceInv'
    <3>1. TypeOK'
      BY <2>5 DEF TypeOK, PlaceInv, GetDrop, Goto, OnMiss
    <3>2. PlaceInv'
      BY <2>5, StoreTargetRange DEF TypeOK, PlaceInv, GetDrop, Goto, Drop, OnMiss
    <3> QED BY <3>1, <3>2
  <2>6. ASSUME NEW r \in Request, ForwardToUpstream(r) PROVE TypeOK' /\ PlaceInv'
    <3>1. TypeOK'
      BY <2>6 DEF TypeOK, PlaceInv, ForwardToUpstream, Goto, Respond
    <3>2. PlaceInv'
      BY <2>6, StoreTargetRange DEF TypeOK, PlaceInv, ForwardToUpstream, Goto, Respond
    <3> QED BY <3>1, <3>2
  <2>7. ASSUME NEW r \in Request, ForwardAborted(r) PROVE TypeOK' /\ PlaceInv'
    <3>1. TypeOK'
      BY <2>7 DEF TypeOK, PlaceInv, ForwardAborted, Goto, Respond
    <3>2. PlaceInv'
      BY <2>7, StoreTargetRange DEF TypeOK, PlaceInv, ForwardAborted, Goto, Respond
    <3> QED BY <3>1, <3>2
  <2>8. ASSUME NEW r \in Request, StampEntry(r) PROVE TypeOK' /\ PlaceInv'
    <3>1. TypeOK'
      BY <2>8 DEF TypeOK, PlaceInv, StampEntry, Goto, TTL
    <3>2. PlaceInv'
      BY <2>8, StoreTargetRange DEF TypeOK, PlaceInv, StampEntry, Goto, TTL
    <3> QED BY <3>1, <3>2
  <2>9. ASSUME NEW r \in Request, Set(r) PROVE TypeOK' /\ PlaceInv'
    <3>1. TypeOK'
      BY <2>9 DEF TypeOK, PlaceInv, Set, Goto, NarrowShield
    <3>2. PlaceInv'
      BY <2>9, StoreTargetRange DEF TypeOK, PlaceInv, Set, Goto
    <3> QED BY <3>1, <3>2
  <2>10. ASSUME NEW c \in Cache, CleanupExpired(c) PROVE TypeOK' /\ PlaceInv'
    <3>1. TypeOK'
      BY <2>10 DEF TypeOK, PlaceInv, CleanupExpired
    <3>2. PlaceInv'
      BY <2>10, StoreTargetRange DEF TypeOK, PlaceInv, CleanupExpired
    <3> QED BY <3>1, <3>2
  <2>11. CASE Tick
    BY <2>11 DEF TypeOK, PlaceInv, Tick
  <2>12. CASE UNCHANGED vars
    BY <2>12 DEF TypeOK, PlaceInv, vars
  <2> QED
    BY <2>1, <2>2, <2>3, <2>4, <2>5, <2>6, <2>7, <2>8, <2>9, <2>10, <2>11, <2>12
       DEF Next, Serve, Memory4xxGet, MemoryGet, Lookup
<1> QED BY <1>1, <1>2, PTL DEF Spec

\* Every reachable state is well typed.
THEOREM TypeCorrect == Spec => []TypeOK
  BY Typing, PTL

\* Every entry in a cache, and every entry a lookup works on, is the one its
\* source stored under that key in that cache.
LEMMA Belonging == Spec => []BelongInv
<1> USE DEF Cache, Entry
<1>1. Init => BelongInv
  BY DEF Init, BelongInv, Check, Drop
<1>2. TypeOK /\ PlaceInv /\ BelongInv /\ [Next]_vars => BelongInv'
  <2> SUFFICES ASSUME TypeOK, PlaceInv, BelongInv, [Next]_vars PROVE BelongInv'
    OBVIOUS
  \* An entry stays where it belongs while its source stays done.
  <2> USE DEF Belongs
  <2>k. ASSUME NEW e \in Entry, NEW d \in Cache, NEW k \in Key, Belongs(e, d, k),
               UNCHANGED <<key, reply>>,
               \A q \in Request : pc[q] = "done" => pc'[q] = "done" /\ held'[q] = held[q]
        PROVE  Belongs(e, d, k)'
    BY <2>k
  <2>d. \A d \in Cache, k \in Key : data[d][k] # None =>
          data[d][k] \in Entry /\ Belongs(data[d][k], d, k)
    BY DEF TypeOK, BelongInv
  <2>h. \A d \in Cache, q \in Request : pc[q] \in {Check[d], Drop[d]} =>
          held[q] \in Entry /\ Belongs(held[q], d, key[q]) /\ key[q] \in Key
    BY DEF TypeOK, PlaceInv, BelongInv, Check, Drop
  <2>1. ASSUME NEW r \in Request, Arrive(r) PROVE BelongInv'
    BY <2>1 DEF Arrive, Goto, Get, TypeOK, PlaceInv, BelongInv, Check, Drop
  <2>2. ASSUME NEW r \in Request, NEW c \in Cache, GetRead(r, c) PROVE BelongInv'
    <3>1. /\ UNCHANGED <<data, key, reply>> /\ key[r] \in Key
          /\ \A q \in Request : q # r => pc'[q] = pc[q] /\ held'[q] = held[q]
          /\ held'[r] = data[c][key[r]] /\ pc[r] # "done"
          /\ pc'[r] = IF data[c][key[r]] = None THEN OnMiss[c] ELSE Check[c]
      BY <2>2 DEF GetRead, Goto, Get, TypeOK
    <3>2. \A d \in Cache, k \in Key : data[d][k] # None => Belongs(data[d][k], d, k)'
      BY <2>k, <2>d, <3>1
    <3>3. ASSUME NEW d \in Cache, NEW q \in Request, pc'[q] \in {Check[d], Drop[d]}
          PROVE  Belongs(held[q], d, key[q])'
      <4>1. CASE q = r
        <5>1. d = c /\ data[c][key[r]] # None
          BY <3>1, <3>3, <4>1 DEF OnMiss, Check, Drop
        <5> QED BY <3>1, <3>2, <4>1, <5>1
      <4>2. CASE q # r
        BY <2>h, <2>k, <3>1, <3>3, <4>2
      <4> QED BY <4>1, <4>2
    <3> QED BY <3>1, <3>2, <3>3 DEF BelongInv
  <2>3. ASSUME NEW r \in Request, NEW c \in Cache, GetHit(r, c) PROVE BelongInv'
    BY <2>3 DEF GetHit, Goto, Respond, TypeOK, PlaceInv, BelongInv, Check, Drop
  <2>4. ASSUME NEW r \in Request, NEW c \in Cache, GetExpired(r, c) PROVE BelongInv'
    BY <2>4 DEF GetExpired, Goto, TypeOK, PlaceInv, BelongInv, Check, Drop
  <2>5. ASSUME NEW r \in Request, NEW c \in Cache, GetDrop(r, c) PROVE BelongInv'
    <3>1. /\ UNCHANGED <<held, key, reply>> /\ key[r] \in Key
          /\ \A q \in Request : q # r => pc'[q] = pc[q]
          /\ pc[r] # "done" /\ pc'[r] = OnMiss[c]
      BY <2>5 DEF GetDrop, Goto, Drop, TypeOK
    <3>2. \A d \in Cache, k \in Key : data'[d][k] # None => data'[d][k] = data[d][k]
      BY <2>5 DEF GetDrop, TypeOK
    <3>3. \A d \in Cache, k \in Key : data'[d][k] # None => Belongs(data[d][k], d, k)'
      BY <2>k, <2>d, <3>1, <3>2
    <3>4. \A d \in Cache : OnMiss[c] \notin {Check[d], Drop[d]}
      BY DEF OnMiss, Check, Drop
    <3>5. ASSUME NEW d \in Cache, NEW q \in Request, pc'[q] \in {Check[d], Drop[d]}
          PROVE  Belongs(held[q], d, key[q])'
      BY <2>h, <2>k, <3>1, <3>4, <3>5
    <3> QED BY <3>1, <3>3, <3>5 DEF BelongInv
  <2>6. ASSUME NEW r \in Request, ForwardToUpstream(r) PROVE BelongInv'
    BY <2>6, StoreTargetRange
       DEF ForwardToUpstream, Goto, Respond, TypeOK, PlaceInv, BelongInv, Check, Drop
  <2>7. ASSUME NEW r \in Request, ForwardAborted(r) PROVE BelongInv'
    BY <2>7, StoreTargetRange
       DEF ForwardAborted, Goto, Respond, TypeOK, PlaceInv, BelongInv, Check, Drop
  <2>8. ASSUME NEW r \in Request, StampEntry(r) PROVE BelongInv'
    BY <2>8 DEF StampEntry, Goto, TypeOK, PlaceInv, BelongInv, Check, Drop
  <2>9. ASSUME NEW r \in Request, Set(r) PROVE BelongInv'
    <3> DEFINE c == StoreTarget(reply[r])
    <3>1. /\ UNCHANGED <<held, key, reply>> /\ key[r] \in Key /\ c \in Cache
          /\ \A q \in Request : q # r => pc'[q] = pc[q]
          /\ pc[r] = "set" /\ pc'[r] = "done" /\ reply[r] # None
          /\ held[r] \in Entry /\ held[r].src = r
          /\ data' = [data EXCEPT ![c][key[r]] = held[r]]
      BY <2>9 DEF Set, Goto, TypeOK, PlaceInv
    <3>2. Belongs(held[r], c, key[r])' /\ c' = c
      BY <3>1
    <3> HIDE DEF c
    <3>3. \A d \in Cache, k \in Key :
            data'[d][k] = IF d = c /\ k = key[r] THEN held[r] ELSE data[d][k]
      BY <3>1 DEF TypeOK
    <3>4. ASSUME NEW d \in Cache, NEW k \in Key, data'[d][k] # None
          PROVE  Belongs(data[d][k], d, k)'
      <4>1. CASE d = c /\ k = key[r]
        <5>1. data'[d][k] = held'[r] /\ k = key'[r]
          BY <3>1, <3>3, <4>1
        <5> QED BY <3>2, <4>1, <5>1
      <4>2. CASE ~(d = c /\ k = key[r])
        BY <2>k, <2>d, <3>1, <3>3, <3>4, <4>2
      <4> QED BY <4>1, <4>2
    <3>5. ASSUME NEW d \in Cache, NEW q \in Request, pc'[q] \in {Check[d], Drop[d]}
          PROVE  Belongs(held[q], d, key[q])'
      <4>1. q # r
        BY <3>1, <3>5 DEF Check, Drop
      <4> QED BY <2>h, <2>k, <3>1, <3>5, <4>1
    <3> QED BY <3>1, <3>4, <3>5 DEF BelongInv
  <2>10. ASSUME NEW c \in Cache, CleanupExpired(c) PROVE BelongInv'
    <3>1. UNCHANGED <<held, key, reply, pc>>
      BY <2>10 DEF CleanupExpired
    <3>2. \A d \in Cache, k \in Key : data'[d][k] # None => data'[d][k] = data[d][k]
      BY <2>10 DEF CleanupExpired, TypeOK
    <3> QED BY <3>1, <3>2 DEF BelongInv
  <2>11. CASE Tick
    BY <2>11 DEF Tick, TypeOK, PlaceInv, BelongInv, Check, Drop
  <2>12. CASE UNCHANGED vars
    BY <2>12 DEF vars, TypeOK, PlaceInv, BelongInv, Check, Drop
  <2> QED
    BY <2>1, <2>2, <2>3, <2>4, <2>5, <2>6, <2>7, <2>8, <2>9, <2>10, <2>11, <2>12
       DEF Next, Serve, Memory4xxGet, MemoryGet, Lookup
<1> QED BY <1>1, <1>2, Typing, PTL DEF Spec

\* Aborted, empty, oversized and non-200 responses never reach the 200 cache,
\* nor anything but a 4xx the 4xx cache, and never under another key.
THEOREM EntriesBelongAlways == Spec => []EntriesBelong
<1>1. ASSUME TypeOK, BelongInv PROVE EntriesBelong
  <2>1. ASSUME NEW c \in Cache, NEW k \in Key, data[c][k] # None
        PROVE  LET s == data[c][k].src IN
                 /\ key[s] = k
                 /\ pc[s] = "done"
                 /\ reply[s] # None
                 /\ IF c = "200" THEN reply[s].status = 200 /\ reply[s].body = "whole"
                    ELSE reply[s].status \in 400..499
    <3> DEFINE s == data[c][k].src
    <3>1. s \in Request /\ reply[s] \in Replies \cup {None}
      BY <1>1, <2>1 DEF TypeOK, Entry
    <3>2. /\ key[s] = k /\ pc[s] = "done" /\ reply[s] # None
          /\ StoreTarget(reply[s]) = c
      BY <1>1, <2>1 DEF BelongInv, Belongs
    <3>3. reply[s].status \in Nat
      BY <3>1, <3>2, CacheAssumption
    <3>4. c = "200" \/ c = "4xx"
      BY DEF Cache
    <3>5. IF c = "200" THEN reply[s].status = 200 /\ reply[s].body = "whole"
          ELSE reply[s].status \in 400..499
      <4> HIDE DEF s
      <4>1. None # "200" /\ None # "4xx"
        BY CacheAssumption
      <4>2. CASE c = "200"
        BY <3>2, <4>1, <4>2 DEF StoreTarget
      <4>3. CASE c = "4xx"
        BY <3>2, <3>3, <4>1, <4>3 DEF StoreTarget
      <4> QED BY <3>4, <4>2, <4>3
    <3> QED BY <3>2, <3>5
  <2> QED BY <2>1 DEF EntriesBelong
<1> QED BY <1>1, Typing, Belonging, PTL

\* A refusal in force stops every later request for its key.
THEOREM NegativeCacheShieldsAlways == Spec => []NegativeCacheShields
<1> USE CacheAssumption DEF Cache, Entry
<1>1. Init => ShieldInv
  BY DEF Init, ShieldInv
<1>2. TypeOK /\ PlaceInv /\ ShieldInv /\ [Next]_vars => ShieldInv'
  <2> SUFFICES ASSUME TypeOK, PlaceInv, ShieldInv, [Next]_vars PROVE ShieldInv'
    OBVIOUS
  <2> USE DEF TypeOK, PlaceInv, ShieldInv
  <2>1. ASSUME NEW r \in Request, Arrive(r) PROVE ShieldInv'
    BY <2>1 DEF Arrive, Goto, Get, Live, Expired
  <2>2. ASSUME NEW r \in Request, NEW c \in Cache, GetRead(r, c) PROVE ShieldInv'
    BY <2>2 DEF GetRead, Goto, Get, Check, OnMiss
  <2>3. ASSUME NEW r \in Request, NEW c \in Cache, GetHit(r, c) PROVE ShieldInv'
    BY <2>3 DEF GetHit, Goto, Respond
  <2>4. ASSUME NEW r \in Request, NEW c \in Cache, GetExpired(r, c) PROVE ShieldInv'
    BY <2>4 DEF GetExpired, Goto, Check, Drop, Expired
  <2>5. ASSUME NEW r \in Request, NEW c \in Cache, GetDrop(r, c) PROVE ShieldInv'
    BY <2>5 DEF GetDrop, Goto, Drop, OnMiss, Expired
  <2>6. ASSUME NEW r \in Request, ForwardToUpstream(r) PROVE ShieldInv'
    BY <2>6 DEF ForwardToUpstream, Goto, Respond
  <2>7. ASSUME NEW r \in Request, ForwardAborted(r) PROVE ShieldInv'
    BY <2>7 DEF ForwardAborted, Goto, Respond
  <2>8. ASSUME NEW r \in Request, StampEntry(r) PROVE ShieldInv'
    BY <2>8 DEF StampEntry, Goto
  <2>9. ASSUME NEW r \in Request, Set(r) PROVE ShieldInv'
    BY <2>9 DEF Set, Goto, NarrowShield
  <2>10. ASSUME NEW c \in Cache, CleanupExpired(c) PROVE ShieldInv'
    BY <2>10 DEF CleanupExpired
  <2>11. CASE Tick
    BY <2>11 DEF Tick
  <2>12. CASE UNCHANGED vars
    BY <2>12 DEF vars
  <2> QED
    BY <2>1, <2>2, <2>3, <2>4, <2>5, <2>6, <2>7, <2>8, <2>9, <2>10, <2>11, <2>12
       DEF Next, Serve, Memory4xxGet, MemoryGet, Lookup
<1>3. ShieldInv => NegativeCacheShields
  BY DEF ShieldInv, NegativeCacheShields
<1> QED BY <1>1, <1>2, <1>3, Typing, PTL DEF Spec

\* No entry leaves a cache before its time.
THEOREM EvictOnlyExpiredAlways == Spec => EvictOnlyExpired
<1> DEFINE Kept == \A c \in Cache, k \in Key :
       (data[c][k] # None /\ data'[c][k] = None) => clock >= data[c][k].expiresAt
<1> USE CacheAssumption DEF Cache, Entry
<1>1. TypeOK /\ PlaceInv /\ [Next]_vars => [Kept]_vars
  <2> SUFFICES ASSUME TypeOK, PlaceInv, [Next]_vars PROVE [Kept]_vars
    OBVIOUS
  <2> USE DEF TypeOK, PlaceInv
  <2>1. ASSUME NEW r \in Request, Arrive(r) PROVE Kept
    BY <2>1 DEF Arrive, Goto, Get, Live, Expired
  <2>2. ASSUME NEW r \in Request, NEW c \in Cache, GetRead(r, c) PROVE Kept
    BY <2>2 DEF GetRead, Goto, Get, Check, OnMiss
  <2>3. ASSUME NEW r \in Request, NEW c \in Cache, GetHit(r, c) PROVE Kept
    BY <2>3 DEF GetHit, Goto, Respond
  <2>4. ASSUME NEW r \in Request, NEW c \in Cache, GetExpired(r, c) PROVE Kept
    BY <2>4 DEF GetExpired, Goto, Check, Drop, Expired
  <2>5. ASSUME NEW r \in Request, NEW c \in Cache, GetDrop(r, c) PROVE Kept
    BY <2>5 DEF GetDrop, Goto, Drop, OnMiss, Expired
  <2>6. ASSUME NEW r \in Request, ForwardToUpstream(r) PROVE Kept
    BY <2>6 DEF ForwardToUpstream, Goto, Respond
  <2>7. ASSUME NEW r \in Request, ForwardAborted(r) PROVE Kept
    BY <2>7 DEF ForwardAborted, Goto, Respond
  <2>8. ASSUME NEW r \in Request, StampEntry(r) PROVE Kept
    BY <2>8 DEF StampEntry, Goto
  <2>9. ASSUME NEW r \in Request, Set(r) PROVE Kept
    BY <2>9 DEF Set, Goto, NarrowShield
  <2>10. ASSUME NEW c \in Cache, CleanupExpired(c) PROVE Kept
    BY <2>10 DEF CleanupExpired
  <2>11. CASE Tick
    BY <2>11 DEF Tick
  <2>12. CASE UNCHANGED vars
    BY <2>12 DEF vars
  <2> QED
    BY <2>1, <2>2, <2>3, <2>4, <2>5, <2>6, <2>7, <2>8, <2>9, <2>10, <2>11, <2>12
       DEF Next, Serve, Memory4xxGet, MemoryGet, Lookup
<1> QED BY <1>1, Typing, PTL DEF Spec, EvictOnlyExpired

-----------------------------------------------------------------------------

\* The refinement mapping: until when the exchange of r may be shared.
Until(r) == IF Published(r) THEN held[r].expiresAt ELSE None

\* Every step of the caches is a step CachedOrigin allows, or a stutter.
LEMMA OriginStep ==
  ASSUME TypeOK, PlaceInv, BelongInv, [Next]_vars
  PROVE  [Origin!Next]_(Origin!originVars)
<1> USE CacheAssumption
<1> DEFINE until == [r \in Request |-> Until(r)]
           same(r) == Until(r)' = Until(r)
           frame == UNCHANGED <<clock, key, reply, answer, source>>
           step == Origin!Next
           stutter == UNCHANGED Origin!originVars
<1>1. ASSUME frame, \A r \in Request : same(r)
      PROVE  UNCHANGED Origin!originVars
  BY <1>1 DEF Origin!originVars, Until, Published
<1>2. ASSUME NEW r \in Request, Arrive(r) PROVE stutter
  BY <1>1, <1>2 DEF Arrive, Goto, Get, Until, Published, TypeOK, Cache
<1>3. ASSUME NEW r \in Request, NEW c \in Cache, GetRead(r, c)
      PROVE  stutter
  BY <1>1, <1>3 DEF GetRead, Goto, Get, Check, OnMiss, Until, Published, TypeOK, Cache
<1>4. ASSUME NEW r \in Request, NEW c \in Cache, GetHit(r, c)
      PROVE  step
  <2> DEFINE s == held[r].src
  <2>1. /\ s \in Request /\ held[s] = held[r] /\ pc[s] = "done"
        /\ key[s] = key[r] /\ reply[s] \in Replies /\ StoreTarget(reply[s]) = c
        /\ held[r] \in Entry /\ answer[r] = "none"
    BY <1>4 DEF GetHit, TypeOK, PlaceInv, BelongInv, Belongs, Check, Cache, Entry
  <2>2. /\ until[s] = held[r].expiresAt /\ until[s] # None
        /\ clock <= until[s]
    BY <1>4, <2>1 DEF GetHit, Expired, Until, Published, TypeOK, Cache, Entry
  <2>3. until' = until
    BY <1>4, <2>1 DEF GetHit, Goto, Until, Published, PlaceInv, TypeOK, Cache, Check
  <2>4. Origin!Usable(r, s)
    BY <2>1, <2>2 DEF Origin!Usable, Until
  <2>5. Origin!Answer(r, OnHit[c], s)
    BY <1>4, <2>1 DEF GetHit, Respond, Origin!Answer
  <2>6. CASE c = "4xx"
    <3>1. Origin!Refusal(reply[s])
      BY <2>1, <2>6 DEF StoreTarget, Origin!Refusal
    <3>2. Origin!Refuse(r, s)
      BY <1>4, <2>3, <2>4, <2>5, <2>6, <3>1
         DEF GetHit, Origin!Refuse, OnHit, Cache, Until
    <3> QED BY <2>1, <3>2 DEF Origin!Next
  <2>7. CASE c = "200"
    <3>1. Origin!Replayable(reply[s])
      BY <2>1, <2>7 DEF StoreTarget, Origin!Replayable
    <3>2. Origin!Replay(r, s)
      BY <1>4, <2>3, <2>4, <2>5, <2>7, <3>1
         DEF GetHit, Origin!Replay, OnHit, Cache, Until
    <3> QED BY <2>1, <3>2 DEF Origin!Next
  <2> QED BY <2>6, <2>7 DEF Cache
<1>5. ASSUME NEW r \in Request, NEW c \in Cache, GetExpired(r, c)
      PROVE  stutter
  BY <1>1, <1>5 DEF GetExpired, Goto, Check, Drop, Until, Published, TypeOK, Cache
<1>6. ASSUME NEW r \in Request, NEW c \in Cache, GetDrop(r, c)
      PROVE  stutter
  BY <1>1, <1>6 DEF GetDrop, Goto, Drop, OnMiss, Until, Published, TypeOK, Cache
<1>7. ASSUME NEW r \in Request, ForwardToUpstream(r) PROVE step
  <2>1. PICK rep \in Replies :
          /\ reply' = [reply EXCEPT ![r] = rep]
          /\ Goto(r, IF StoreTarget(rep) = None THEN "done" ELSE "stamp")
    BY <1>7 DEF ForwardToUpstream
  <2>2. until' = until
    BY <1>7, <2>1 DEF ForwardToUpstream, Goto, Until, Published, TypeOK
  <2>3. Origin!Relay(r, rep)
    BY <1>7, <2>1, <2>2
       DEF ForwardToUpstream, Respond, PlaceInv, Origin!Relay, Origin!Answer, Until
  <2> QED BY <2>3 DEF Origin!Next
<1>8. ASSUME NEW r \in Request, ForwardAborted(r) PROVE step
  <2>1. until' = until
    BY <1>8 DEF ForwardAborted, Goto, Until, Published, PlaceInv, TypeOK
  <2>2. Origin!Abort(r)
    BY <1>8, <2>1
       DEF ForwardAborted, Respond, PlaceInv, Origin!Abort, Origin!Answer, Until
  <2> QED BY <2>2 DEF Origin!Next
<1>9. ASSUME NEW r \in Request, StampEntry(r) PROVE step
  <2>1. reply[r] \in Replies /\ StoreTarget(reply[r]) \in Cache
    BY <1>9 DEF StampEntry, PlaceInv, TypeOK
  <2>2. until[r] = None
    BY <1>9 DEF StampEntry, Until, Published
  <2>3. until' = [until EXCEPT ![r] = clock + TTL[StoreTarget(reply[r])]]
    <3>1. /\ held \in [Request -> Entry \cup {None}] /\ reply' = reply
          /\ held' = [held EXCEPT ![r] =
                [src |-> r, expiresAt |-> clock + TTL[StoreTarget(reply[r])]]]
          /\ \A q \in Request : q # r => pc'[q] = pc[q]
          /\ pc'[r] = "set"
      BY <1>9 DEF StampEntry, Goto, TypeOK
    <3>2. ASSUME NEW q \in Request, q # r PROVE same(q)
      BY <3>1, <3>2 DEF Until, Published
    <3>3. reply[r] # None /\ StoreTarget(reply[r]) # None
      BY <2>1 DEF Cache
    <3>4. Until(r)' = clock + TTL[StoreTarget(reply[r])]
      BY <3>1, <3>3 DEF Until, Published
    <3> QED BY <3>2, <3>4
  <2>4. \/ Origin!Replayable(reply[r]) /\ TTL[StoreTarget(reply[r])] = TTL200
        \/ Origin!Refusal(reply[r]) /\ TTL[StoreTarget(reply[r])] = TTL4xx
    BY <2>1 DEF StoreTarget, TTL, Cache, Origin!Replayable, Origin!Refusal
  <2>5. Origin!Publish(r)
    BY <1>9, <2>1, <2>2, <2>3, <2>4 DEF StampEntry, Origin!Publish, Until
  <2> QED BY <2>5 DEF Origin!Next
<1>10. ASSUME NEW r \in Request, Set(r) PROVE stutter
  BY <1>1, <1>10 DEF Set, Goto, Until, Published, TypeOK
<1>11. ASSUME NEW c \in Cache, CleanupExpired(c)
       PROVE  stutter
  BY <1>1, <1>11 DEF CleanupExpired, Until, Published
<1>12. ASSUME Tick PROVE step
  <2>1. until' = until
    BY <1>12 DEF Tick, Until, Published
  <2>2. Origin!Tick
    BY <1>12, <2>1 DEF Tick, Origin!Tick, Until
  <2> QED BY <2>2 DEF Origin!Next
<1>13. ASSUME UNCHANGED vars PROVE stutter
  BY <1>1, <1>13 DEF vars, Until, Published
<1> HIDE DEF until, same, frame, step, stutter
<1>14. ASSUME NEW r \in Request, NEW c \in Cache, Lookup(r, c) PROVE step \/ stutter
  BY <1>3, <1>4, <1>5, <1>6, <1>14 DEF Lookup
<1>15. step \/ stutter
  <2>1. CASE Next
    BY <1>2, <1>7, <1>8, <1>9, <1>10, <1>11, <1>12, <1>14, <2>1
       DEF Next, Serve, Memory4xxGet, MemoryGet, Cache
  <2> QED BY <1>13, <2>1
<1> QED BY <1>15 DEF step, stutter

\* The caches keep the promise of CachedOrigin: every answer is the request's
\* own exchange, or one it may share, used within its TTL.
THEOREM CachesImplementOrigin == Spec => ImplementsOrigin
<1>1. Init => Origin!Init
  BY DEF Init, Origin!Init, Published
<1> QED
  BY <1>1, OriginStep, Typing, Belonging, PTL DEF Spec, ImplementsOrigin, Origin!Spec
=============================================================================
