----------------------------- MODULE ProxyCache -----------------------------
(***************************************************************************)
(* The two response caches (internal/cache) and the two middlewares that   *)
(* use them.  Every request runs in a goroutine of its own: it looks its   *)
(* key up in the 4xx cache, then in the 200 cache, and on two misses goes  *)
(* to the upstream and stores what came back.  A lookup is not atomic: the *)
(* map is read under the read lock, the clock is read after the lock was   *)
(* released, and an expired entry is removed under the write lock, where   *)
(* the map and the clock are read again.  A store reads the clock before   *)
(* it takes the lock.  Two clean-up goroutines run beside the requests.    *)
(*                                                                         *)
(* Memory and Memory4xx are the same algorithm on two maps: one operator   *)
(* per step takes the cache as a parameter.  An entry records the request  *)
(* whose exchange it came from (its body, for a 200); a request is         *)
(* one-shot, so r also names the exchange r makes.                         *)
(***************************************************************************)
EXTENDS Naturals

CONSTANTS
  Request,   \* the requests that pass the guards
  Key,       \* cache keys
  Replies,   \* what the upstream may answer: [status, body]
  TTL200, TTL4xx,
  MaxClock,  \* bound: the clock stops here
  None       \* nil

ASSUME CacheAssumption ==
  /\ TTL200 \in Nat \ {0} /\ TTL4xx \in Nat \ {0} /\ MaxClock \in Nat
  /\ Replies \subseteq [status : Nat, body : {"empty", "whole", "exceeded"}]
  /\ None \notin Nat \cup Replies \cup Request \cup {"4xx", "200"}
  /\ None \notin [src : Request, expiresAt : Nat]

VARIABLES
  clock,   \* time.Now()
  data,    \* data[c][k]: the entry of cache c under key k, None when absent
  tick,    \* tick[c]: the buffered tick of the clean-up goroutine's ticker
  key,     \* key[r]: the key generateCacheKey gives r
  pc,      \* pc[r]: where the goroutine of r stands
  held,    \* held[r]: the entry pointer r read, or the entry it is to store
  reply,   \* reply[r]: what the upstream answered r
  answer,  \* answer[r]: how r was answered
  source,  \* source[r]: the request whose exchange answered r (history)
  shield   \* shield[r]: the earliest expiry of the 4xx entries that r's key
           \* held from r's arrival on, None when it arrived unshielded (history)

vars == <<clock, data, tick, key, pc, held, reply, answer, source, shield>>

Cache == {"4xx", "200"}
TTL == [c \in Cache |-> IF c = "200" THEN TTL200 ELSE TTL4xx]
\* StartGC is called with three times the TTL.
Period(c) == 3 * TTL[c]

Entry == [src : Request, expiresAt : Nat]

Get    == [c \in Cache |-> IF c = "4xx" THEN "get4xx" ELSE "get200"]
Check  == [c \in Cache |-> IF c = "4xx" THEN "check4xx" ELSE "check200"]
Drop   == [c \in Cache |-> IF c = "4xx" THEN "drop4xx" ELSE "drop200"]
OnMiss == [c \in Cache |-> IF c = "4xx" THEN "get200" ELSE "upstream"]
OnHit  == [c \in Cache |-> IF c = "4xx" THEN "forbidden" ELSE "replay"]

\* Mutant: every error of the upstream is remembered as a client error.
StoreTargetAnyError(rep) ==
  IF rep.status = 200 /\ rep.body = "whole" THEN "200"
  ELSE IF rep.status >= 400 THEN "4xx"
  ELSE None

\* storeResponse's switch: the cache a reply goes to, None when it goes to none.
StoreTarget(rep) ==
  IF rep.status = 200 /\ rep.body = "whole" THEN "200"
  ELSE IF rep.status >= 400 /\ rep.status < 500 THEN "4xx"
  ELSE None

\* now.After(ExpiresAt), used by lookups; clean-up keeps only now.Before.
Expired(e) == clock > e.expiresAt
Live(e) == e # None /\ ~Expired(e)

Init ==
  /\ clock = 0
  /\ data = [c \in Cache |-> [k \in Key |-> None]]
  /\ tick = [c \in Cache |-> FALSE]
  /\ key \in [Request -> Key]
  /\ pc = [r \in Request |-> "idle"]
  /\ held = [r \in Request |-> None]
  /\ reply = [r \in Request |-> None]
  /\ answer = [r \in Request |-> "none"]
  /\ source = [r \in Request |-> None]
  /\ shield = [r \in Request |-> None]

-----------------------------------------------------------------------------
(* A request *)

Goto(r, l) == pc' = [pc EXCEPT ![r] = l]
Respond(r, how, s) ==
  answer' = [answer EXCEPT ![r] = how] /\ source' = [source EXCEPT ![r] = s]

\* The request passed the guards and enters Middleware4xx.
Arrive(r) ==
  /\ pc[r] = "idle"
  /\ Goto(r, Get["4xx"])
  /\ LET e == data["4xx"][key[r]] IN
       shield' = [shield EXCEPT ![r] = IF Live(e) THEN e.expiresAt ELSE None]
  /\ UNCHANGED <<clock, data, tick, key, held, reply, answer, source>>

\* The read under RLock.
GetRead(r, c) ==
  /\ pc[r] = Get[c]
  /\ held' = [held EXCEPT ![r] = data[c][key[r]]]
  /\ Goto(r, IF data[c][key[r]] = None THEN OnMiss[c] ELSE Check[c])
  /\ UNCHANGED <<clock, data, tick, key, reply, answer, source, shield>>

\* Mutant: whatever the map holds is a hit.
GetHitStale(r, c) ==
  /\ pc[r] = Check[c]
  /\ Respond(r, OnHit[c], held[r].src)
  /\ Goto(r, "done")
  /\ UNCHANGED <<clock, data, tick, key, held, reply, shield>>

\* The entry read is not expired: the middleware answers from it.
GetHit(r, c) ==
  /\ pc[r] = Check[c] /\ ~Expired(held[r])
  /\ Respond(r, OnHit[c], held[r].src)
  /\ Goto(r, "done")
  /\ UNCHANGED <<clock, data, tick, key, held, reply, shield>>

GetExpired(r, c) ==
  /\ pc[r] = Check[c] /\ Expired(held[r])
  /\ Goto(r, Drop[c])
  /\ UNCHANGED <<clock, data, tick, key, held, reply, answer, source, shield>>

\* Mutant: the entry found expired is removed without a second look.
GetDropUnchecked(r, c) ==
  /\ pc[r] = Drop[c]
  /\ data' = [data EXCEPT ![c][key[r]] = None]
  /\ Goto(r, OnMiss[c])
  /\ UNCHANGED <<clock, tick, key, held, reply, answer, source, shield>>

\* Under the write lock the entry may be another one by now, or be gone.
GetDrop(r, c) ==
  /\ pc[r] = Drop[c]
  /\ LET e == data[c][key[r]] IN
       data' = IF e # None /\ Expired(e) THEN [data EXCEPT ![c][key[r]] = None]
               ELSE data
  /\ Goto(r, OnMiss[c])
  /\ UNCHANGED <<clock, tick, key, held, reply, answer, source, shield>>

Lookup(r, c) == GetRead(r, c) \/ GetHit(r, c) \/ GetExpired(r, c) \/ GetDrop(r, c)
Memory4xxGet(r) == Lookup(r, "4xx")
MemoryGet(r) == Lookup(r, "200")

\* The proxy relayed a whole upstream response to the client.
ForwardToUpstream(r) ==
  /\ pc[r] = "upstream"
  /\ \E rep \in Replies :
       /\ reply' = [reply EXCEPT ![r] = rep]
       /\ Goto(r, IF StoreTarget(rep) = None THEN "done" ELSE "stamp")
  /\ Respond(r, "relay", r)
  /\ UNCHANGED <<clock, data, tick, key, held, shield>>

\* The proxy handler panicked in the middle of the copy: nothing is stored.
ForwardAborted(r) ==
  /\ pc[r] = "upstream"
  /\ Respond(r, "aborted", None)
  /\ Goto(r, "done")
  /\ UNCHANGED <<clock, data, tick, key, held, reply, shield>>

\* Mutant: the TTL is subtracted.
StampEntryBackwards(r) ==
  /\ pc[r] = "stamp"
  /\ held' = [held EXCEPT ![r] =
       [src |-> r, expiresAt |-> clock - TTL[StoreTarget(reply[r])]]]
  /\ Goto(r, "set")
  /\ UNCHANGED <<clock, data, tick, key, reply, answer, source, shield>>

\* storeResponse builds the entry: time.Now().Add(ttl), before the lock.
StampEntry(r) ==
  /\ pc[r] = "stamp"
  /\ held' = [held EXCEPT ![r] =
       [src |-> r, expiresAt |-> clock + TTL[StoreTarget(reply[r])]]]
  /\ Goto(r, "set")
  /\ UNCHANGED <<clock, data, tick, key, reply, answer, source, shield>>

\* The history of the 4xx entries a waiting lookup of this key is shielded by.
NarrowShield(c, k, e) ==
  [q \in Request |->
     IF c = "4xx" /\ key[q] = k /\ pc[q] = "get4xx" /\ shield[q] # None
        /\ e.expiresAt < shield[q]
     THEN e.expiresAt ELSE shield[q]]

Set(r) ==
  /\ pc[r] = "set"
  /\ LET c == StoreTarget(reply[r]) IN
       /\ data' = [data EXCEPT ![c][key[r]] = held[r]]
       /\ shield' = NarrowShield(c, key[r], held[r])
  /\ Goto(r, "done")
  /\ UNCHANGED <<clock, tick, key, held, reply, answer, source>>

Serve(r) ==
  \/ Memory4xxGet(r) \/ MemoryGet(r)
  \/ StampEntry(r) \/ Set(r)

-----------------------------------------------------------------------------
(* The clean-up goroutines and time *)

\* Mutant: Before and After swapped.
CleanupLive(c) ==
  /\ tick[c]
  /\ tick' = [tick EXCEPT ![c] = FALSE]
  /\ data' = [data EXCEPT ![c] =
       [k \in Key |-> IF data[c][k] # None /\ clock > data[c][k].expiresAt
                      THEN data[c][k] ELSE None]]
  /\ UNCHANGED <<clock, key, pc, held, reply, answer, source, shield>>

\* Mutant: the new map is built, and not put in the old one's place.
CleanupNothing(c) ==
  /\ tick[c]
  /\ tick' = [tick EXCEPT ![c] = FALSE]
  /\ UNCHANGED <<clock, data, key, pc, held, reply, answer, source, shield>>

CleanupExpired(c) ==
  /\ tick[c]
  /\ tick' = [tick EXCEPT ![c] = FALSE]
  /\ data' = [data EXCEPT ![c] =
       [k \in Key |-> IF data[c][k] # None /\ clock < data[c][k].expiresAt
                      THEN data[c][k] ELSE None]]
  /\ UNCHANGED <<clock, key, pc, held, reply, answer, source, shield>>

\* The ticker's channel holds one tick: a tick nobody took yet is not doubled.
Tick ==
  /\ clock < MaxClock
  /\ clock' = clock + 1
  /\ tick' = [c \in Cache |-> tick[c] \/ clock' % Period(c) = 0]
  /\ UNCHANGED <<data, key, pc, held, reply, answer, source, shield>>

Next ==
  \/ \E r \in Request :
       Arrive(r) \/ Serve(r) \/ ForwardToUpstream(r) \/ ForwardAborted(r)
  \/ \E c \in Cache : CleanupExpired(c)
  \/ Tick

Spec == Init /\ [][Next]_vars

\* The clean-up goroutines run and time passes.  Nothing is asked of the requests: what
\* they leave behind is reclaimed though each of them may stop anywhere.
Fairness ==
  /\ \A c \in Cache : WF_vars(CleanupExpired(c))
  /\ WF_vars(Tick)

FairSpec == Spec /\ Fairness

-----------------------------------------------------------------------------
(* Properties *)

TypeOK ==
  /\ clock \in Nat
  /\ data \in [Cache -> [Key -> Entry \cup {None}]]
  /\ tick \in [Cache -> BOOLEAN]
  /\ key \in [Request -> Key]
  /\ pc \in [Request -> {"idle", "get4xx", "check4xx", "drop4xx", "get200",
                         "check200", "drop200", "upstream", "stamp", "set", "done"}]
  /\ held \in [Request -> Entry \cup {None}]
  /\ reply \in [Request -> Replies \cup {None}]
  /\ answer \in [Request -> {"none", "relay", "aborted", "forbidden", "replay"}]
  /\ source \in [Request -> Request \cup {None}]
  /\ shield \in [Request -> Nat \cup {None}]

\* An entry a lookup can reach was fetched under the same key by a request
\* whose reply belongs in that cache: an aborted, empty, oversized or non-200
\* response is never there, however lookups, stores and clean-ups interleave
\* (storeResponse, memory.go).
EntriesBelong ==
  \A c \in Cache, k \in Key : data[c][k] # None =>
    LET s == data[c][k].src IN
      /\ key[s] = k
      /\ pc[s] = "done"
      /\ reply[s] # None
      /\ IF c = "200" THEN reply[s].status = 200 /\ reply[s].body = "whole"
         ELSE reply[s].status \in 400..499

\* A refusal in force stops every later request for its key: one that enters
\* Middleware4xx while a 4xx entry is live gets past it only when the entry (or
\* one that replaced it in the meantime) has run out.  Lookups that race a
\* removal, a replacement or a clean-up do not break it (Memory4xx.Get).
NegativeCacheShields ==
  \A r \in Request :
    (shield[r] # None
     /\ pc[r] \in {"get200", "check200", "drop200", "upstream", "stamp", "set"})
      => clock >= shield[r]

\* No step removes an entry before its time: the removal in Get looks again
\* under the write lock, so it cannot take away an entry another request stored
\* after the first read, and clean-up keeps what has not run out.
EvictOnlyExpired ==
  [][\A c \in Cache, k \in Key :
       (data[c][k] # None /\ data'[c][k] = None) => clock >= data[c][k].expiresAt]_vars

\* Clean-up bounds the maps: an entry that ran out, under a key nobody asks for
\* again, is gone (or replaced by one that has not run out) once the ticker has
\* gone round, as long as the clock gets that far (StartGC).
ExpiredReclaimed ==
  \A c \in Cache, k \in Key :
    (data[c][k] # None /\ Expired(data[c][k]) /\ clock + Period(c) <= MaxClock)
      ~> (data[c][k] = None \/ ~Expired(data[c][k]))

\* The caches implement CachedOrigin: an exchange may be shared from the moment
\* its entry is stamped until that entry's expiry.
Published(r) ==
  /\ pc[r] \in {"set", "done"}
  /\ reply[r] # None /\ StoreTarget(reply[r]) # None

Origin == INSTANCE CachedOrigin WITH
  until <- [r \in Request |-> IF Published(r) THEN held[r].expiresAt ELSE None]

\* Every answer a client gets is its own exchange, or a replay or a refusal that
\* CachedOrigin allows: right key, right kind of reply, within the TTL.
ImplementsOrigin == Origin!Spec
=============================================================================
