----------------------------- MODULE SecureGate -----------------------------
(***************************************************************************)
(* The secure middleware (secure/middleware.go, secure/redis.go) in front  *)
(* of DelayDelete, with the Redis sessions both work on.  A request reads  *)
(* the session of its token; on a match it schedules the token's deletion  *)
(* and passes.  Between the read and the schedule, and between the schedule*)
(* and the deletion, the panel may register the token anew or withdraw it, *)
(* and its TTL may end: the panel writes to Redis itself, so Register and  *)
(* Withdraw are steps of the environment.                                  *)
(***************************************************************************)
EXTENDS Naturals, FiniteSets

CONSTANTS
  Request, Token, MaxPending, Delay, None,
  Session,    \* one-time session values
  MaxRegister \* bound: registrations by the panel

\* Redis value "" or "1": the token passes with any session, as often as it likes.
Open == "open"

\* What a request saw of Redis when its read failed.
Failed == "failed"

ASSUME GateAssumption ==
  /\ MaxRegister \in Nat
  /\ MaxPending \in Nat \ {0} /\ Delay \in Nat
  /\ None \notin Request /\ IsFiniteSet(Token)
  /\ Session \cap {Open, Failed} = {} /\ None \notin Session \cup {Open, Failed}

VARIABLES
  cancelled, stopped, token, pending, use, left, mu, taker,  \* of DelayDelete
  failOpen,  \* secure_fail_mode is "open"; the configuration does not change
  session,   \* session[t]: what Redis holds for t, None when nothing
  offered,   \* offered[r]: the s parameter of r, None when there is none
  gate,      \* gate[r]: where the middleware stands with r
  registers, \* registrations so far
  seen       \* seen[r]: what Redis held for r's token since r came, and whether
             \* its read failed (history)

gateVars == <<failOpen, session, offered, gate, registers, seen>>

deleterVars == <<cancelled, stopped, token, pending, use, left, mu, taker>>
vars == <<deleterVars, gateVars>>

Deleter == INSTANCE DelayDelete

Init ==
  /\ Deleter!Init
  /\ failOpen \in BOOLEAN
  /\ session \in [Token -> Session \cup {Open, None}]
  /\ offered \in [Request -> Session \cup {None}]
  /\ gate = [r \in Request |-> "idle"]
  /\ registers = 0
  /\ seen = [r \in Request |-> {}]

-----------------------------------------------------------------------------
(* The middleware *)

GateStep(r, from, to) == gate[r] = from /\ gate' = [gate EXCEPT ![r] = to]
GateOnly == UNCHANGED <<deleterVars, failOpen, session, offered, registers>>

\* The token is missing or has a form no token has.
RejectToken(r) ==
  /\ GateStep(r, "idle", "forbidden")
  /\ GateOnly /\ UNCHANGED seen

BeginLookup(r) ==
  /\ GateStep(r, "idle", "reading")
  /\ seen' = [seen EXCEPT ![r] = {session[token[r]]}]
  /\ GateOnly

\* Redis cannot be reached, or does not answer in time.
ReadError(r) ==
  /\ GateStep(r, "reading", IF failOpen THEN "admitted" ELSE "unauthorized")
  /\ seen' = [seen EXCEPT ![r] = @ \cup {Failed}]
  /\ GateOnly

ReadMiss(r) ==
  /\ session[token[r]] = None
  /\ GateStep(r, "reading", "unauthorized")
  /\ GateOnly /\ UNCHANGED seen

ReadOpen(r) ==
  /\ session[token[r]] = Open
  /\ GateStep(r, "reading", "admitted")
  /\ GateOnly /\ UNCHANGED seen

\* Mutant: a request without a session passes for one with the right session.
ReadAnySession(r) ==
  /\ session[token[r]] \in Session
  /\ LET match == offered[r] \in {None, session[token[r]]} IN
       GateStep(r, "reading", IF match THEN "matched" ELSE "unauthorized")
  /\ GateOnly /\ UNCHANGED seen

ReadSession(r) ==
  /\ session[token[r]] \in Session
  /\ LET match == offered[r] = session[token[r]] IN
       GateStep(r, "reading", IF match THEN "matched" ELSE "unauthorized")
  /\ GateOnly /\ UNCHANGED seen

Lookup(r) == ReadError(r) \/ ReadMiss(r) \/ ReadOpen(r) \/ ReadSession(r)

\* Mutant: every admitted request schedules the deletion of its token.
ScheduleAlways(r) ==
  /\ gate[r] \in {"matched", "admitted"} /\ Deleter!Schedule(r)
  /\ UNCHANGED gateVars

ScheduleUse(r) ==
  /\ gate[r] = "matched" /\ Deleter!Schedule(r)
  /\ UNCHANGED gateVars

\* schedule returned: at once, or after the deletion it made itself.
Proceed(r) ==
  /\ use[r] \notin {"idle", "spilling"}
  /\ GateStep(r, "matched", "admitted")
  /\ GateOnly /\ UNCHANGED seen

-----------------------------------------------------------------------------
(* Redis *)

\* The session of t becomes v; a request in the middle of its check could see it.
Put(t, v) ==
  /\ session' = [session EXCEPT ![t] = v]
  /\ seen' = [r \in Request |->
                IF token[r] = t /\ gate[r] = "reading" THEN seen[r] \cup {v} ELSE seen[r]]

\* Mutant: the token is emptied, not deleted.
DeleteTokenToEmpty(r) ==
  /\ Deleter!SpillDone(r) \/ Deleter!DeleteDone(r)
  /\ Put(token[r], "")
  /\ UNCHANGED <<failOpen, offered, gate, registers>>

\* The DEL of a callback or of a spilling use; when it fails this is only logged.
DeleteToken(r) ==
  /\ Deleter!SpillDone(r) \/ Deleter!DeleteDone(r)
  /\ \/ Put(token[r], None)
     \/ UNCHANGED <<session, seen>>
  /\ UNCHANGED <<failOpen, offered, gate, registers>>

Register(t, v) ==
  /\ registers < MaxRegister
  /\ registers' = registers + 1
  /\ Put(t, v)
  /\ UNCHANGED <<deleterVars, failOpen, offered, gate>>

Withdraw(t) ==
  /\ session[t] # None
  /\ Put(t, None)
  /\ UNCHANGED <<deleterVars, failOpen, offered, gate, registers>>

Background ==
  \/ \E r \in Request : Deleter!Callback(r)
  \/ Deleter!Cancel \/ Deleter!StopAll \/ Deleter!Tick

Next ==
  \/ \E r \in Request :
       \/ RejectToken(r) \/ BeginLookup(r) \/ Lookup(r)
       \/ ScheduleUse(r) \/ Proceed(r) \/ DeleteToken(r)
  \/ \E t \in Token :
       (\E v \in Session \cup {Open} : Register(t, v)) \/ Withdraw(t)
  \/ Background /\ UNCHANGED gateVars

Spec == Init /\ [][Next]_vars

-----------------------------------------------------------------------------
(* Properties *)

TypeOK ==
  /\ failOpen \in BOOLEAN
  /\ session \in [Token -> Session \cup {Open, None}]
  /\ offered \in [Request -> Session \cup {None}]
  /\ gate \in [Request -> {"idle", "forbidden", "reading", "matched",
                           "unauthorized", "admitted"}]
  /\ registers \in 0..MaxRegister
  /\ seen \in [Request -> SUBSET (Session \cup {Open, None, Failed})]

\* A request passes only when, at some moment of its check, Redis held for its
\* token the session it offers or one that is open to all; a token deleted before
\* the request came and not registered since is refused, whatever deletions,
\* registrations and expiries race the check (README: "Redis 中没有登记的 token 返回
\* 401").  The fail-open mode adds one case and no more: its own read failed, so
\* there too a request that Redis answers needs its session.
AdmissionJustified ==
  \A r \in Request :
    gate[r] \in {"matched", "admitted"} =>
      \/ seen[r] \cap ({Open, offered[r]} \ {None}) # {}
      \/ failOpen /\ Failed \in seen[r] /\ gate[r] = "admitted"

\* A deletion is scheduled only by a request that offered a one-time session Redis
\* held during its check: neither a token open to all nor an admission on a Redis
\* failure costs a token its registration (Middleware).
DeletionEarned ==
  \A r \in Request :
    use[r] # "idle" => offered[r] \in Session /\ offered[r] \in seen[r]
=============================================================================
