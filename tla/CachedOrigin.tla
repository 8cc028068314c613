---------------------------- MODULE CachedOrigin ----------------------------
(***************************************************************************)
(* What the response caches promise a client, whatever the stores, locks   *)
(* and clean-ups behind them do: every answer is explained by one exchange *)
(* with the upstream.  A request is relayed its own exchange, or it gets a *)
(* replay of a complete 200 another request for the same cache key fetched,*)
(* or it is refused on account of a 4xx another request for the same key   *)
(* received; replays and refusals stop when the TTL of the exchange ends.  *)
(*                                                                         *)
(* Requests are one-shot: request r makes at most one exchange, so r also  *)
(* names that exchange.                                                    *)
(***************************************************************************)
EXTENDS Naturals

CONSTANTS Request, Key, Replies, TTL200, TTL4xx, None

VARIABLES
  clock,    \* the wall clock
  key,      \* key[r]: the cache key of request r
  reply,    \* reply[r]: what the upstream answered r, None before it did
  until,    \* until[r]: last instant r's exchange may be used for another
            \* request, None when it may not
  answer,   \* answer[r]: how r was answered, "none" before it was
  source    \* source[r]: the request whose exchange answered r, or None

originVars == <<clock, key, reply, until, answer, source>>

\* A 200 that was captured whole and is not empty.
Replayable(rep) == rep.status = 200 /\ rep.body = "whole"

\* Any client error of the upstream.
Refusal(rep) == rep.status \in 400..499

Init ==
  /\ clock = 0
  /\ key \in [Request -> Key]
  /\ reply = [r \in Request |-> None]
  /\ until = [r \in Request |-> None]
  /\ answer = [r \in Request |-> "none"]
  /\ source = [r \in Request |-> None]

Answer(r, how, s) ==
  /\ answer[r] = "none"
  /\ answer' = [answer EXCEPT ![r] = how]
  /\ source' = [source EXCEPT ![r] = s]

Relay(r, rep) ==
  /\ reply[r] = None
  /\ reply' = [reply EXCEPT ![r] = rep]
  /\ Answer(r, "relay", r)
  /\ UNCHANGED <<clock, key, until>>

Abort(r) ==
  /\ reply[r] = None
  /\ Answer(r, "aborted", None)
  /\ UNCHANGED <<clock, key, reply, until>>

\* Only an exchange that may be shared is published, once, for its TTL.
Publish(r) ==
  /\ reply[r] # None /\ until[r] = None
  /\ \/ Replayable(reply[r]) /\ until' = [until EXCEPT ![r] = clock + TTL200]
     \/ Refusal(reply[r]) /\ until' = [until EXCEPT ![r] = clock + TTL4xx]
  /\ UNCHANGED <<clock, key, reply, answer, source>>

Usable(r, s) == key[s] = key[r] /\ until[s] # None /\ clock <= until[s]

Replay(r, s) ==
  /\ Usable(r, s) /\ Replayable(reply[s])
  /\ Answer(r, "replay", s)
  /\ UNCHANGED <<clock, key, reply, until>>

Refuse(r, s) ==
  /\ Usable(r, s) /\ Refusal(reply[s])
  /\ Answer(r, "forbidden", s)
  /\ UNCHANGED <<clock, key, reply, until>>

Tick ==
  /\ clock' = clock + 1
  /\ UNCHANGED <<key, reply, until, answer, source>>

Next ==
  \/ \E r \in Request :
       \/ \E rep \in Replies : Relay(r, rep)
       \/ Abort(r) \/ Publish(r)
       \/ \E s \in Request : Replay(r, s) \/ Refuse(r, s)
  \/ Tick

Spec == Init /\ [][Next]_originVars
=============================================================================
