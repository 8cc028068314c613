-------------------------- MODULE SecureGateProofs --------------------------
(* Proofs about SecureGate, for every set of requests, tokens and sessions  *)
(* and both failure modes.                                                  *)
EXTENDS SecureGate, TLAPS

\* A request the deleter knows of had its session matched.
MatchedFirst ==
  \A r \in Request :
    /\ gate[r] = "matched" => offered[r] \in Session /\ offered[r] \in seen[r]
    /\ use[r] # "idle" => gate[r] \in {"matched", "admitted"}
    /\ gate[r] = "reading" => session[token[r]] \in seen[r]

\* The types the deleter's variables have in as far as the gate reads them.
UseType == use \in [Request -> Deleter!Stage] /\ token \in [Request -> Token]

GateInv == TypeOK /\ UseType /\ MatchedFirst /\ AdmissionJustified /\ DeletionEarned

\* What a step of the deleter may do to the gate's view of it: only Schedule takes
\* a use out of "idle".
LEMMA DeleterFrame ==
  ASSUME UseType, NEW r \in Request,
         \/ Deleter!SpillDone(r) \/ Deleter!DeleteDone(r) \/ Deleter!Callback(r)
         \/ Deleter!Cancel \/ Deleter!StopAll \/ Deleter!Tick
  PROVE  /\ UseType' /\ token' = token
         /\ \A q \in Request : use[q] = "idle" => use'[q] = "idle"
BY DEF UseType, Deleter!Stage, Deleter!SpillDone, Deleter!DeleteDone,
       Deleter!Callback, Deleter!Fire, Deleter!Clear, Deleter!TakeOut,
       Deleter!CheckContext,
       Deleter!Cancel, Deleter!StopAll, Deleter!Tick

LEMMA ScheduleFrame ==
  ASSUME UseType, NEW r \in Request, Deleter!Schedule(r)
  PROVE  /\ UseType' /\ token' = token
         /\ \A q \in Request \ {r} : use[q] = "idle" => use'[q] = "idle"
BY DEF UseType, Deleter!Stage, Deleter!Schedule, Deleter!ScheduleRefused,
       Deleter!ScheduleSpill, Deleter!ScheduleArm, Deleter!Stopping

LEMMA Gating == Spec => []GateInv
<1> USE GateAssumption DEF Open, Failed
<1>1. Init => GateInv
  BY DEF Init, Deleter!Init, GateInv, TypeOK, UseType, Deleter!Stage, MatchedFirst,
         AdmissionJustified, DeletionEarned
<1>2. GateInv /\ [Next]_vars => GateInv'
  <2> SUFFICES ASSUME GateInv, [Next]_vars PROVE GateInv'
    OBVIOUS
  <2> USE DEF GateInv, TypeOK, MatchedFirst, AdmissionJustified, DeletionEarned
  <2>1. ASSUME NEW r \in Request, RejectToken(r) PROVE GateInv'
    BY <2>1 DEF RejectToken, GateStep, GateOnly, UseType, deleterVars
  <2>2. ASSUME NEW r \in Request, BeginLookup(r) PROVE GateInv'
    BY <2>2 DEF BeginLookup, GateStep, GateOnly, UseType, deleterVars
  <2>3. ASSUME NEW r \in Request, Lookup(r) PROVE GateInv'
    BY <2>3 DEF Lookup, ReadError, ReadMiss, ReadOpen, ReadSession, GateStep,
                GateOnly, UseType, deleterVars
  <2>4. ASSUME NEW r \in Request, ScheduleUse(r) PROVE GateInv'
    BY <2>4, ScheduleFrame DEF ScheduleUse, gateVars
  <2>5. ASSUME NEW r \in Request, Proceed(r) PROVE GateInv'
    BY <2>5 DEF Proceed, GateStep, GateOnly, UseType, deleterVars
  <2>6. ASSUME NEW r \in Request, DeleteToken(r) PROVE GateInv'
    <3>1. /\ UseType' /\ token' = token
          /\ \A q \in Request : use[q] = "idle" => use'[q] = "idle"
      BY <2>6, DeleterFrame DEF DeleteToken
    <3>2. CASE Put(token[r], None)
      BY <2>6, <3>1, <3>2 DEF DeleteToken, Put, UseType
    <3>3. CASE UNCHANGED <<session, seen>>
      BY <2>6, <3>1, <3>3 DEF DeleteToken
    <3> QED BY <2>6, <3>2, <3>3 DEF DeleteToken
  <2>7. ASSUME NEW t \in Token, NEW v \in Session \cup {Open}, Register(t, v)
        PROVE  GateInv'
    BY <2>7 DEF Register, Put, UseType, deleterVars
  <2>8. ASSUME NEW t \in Token, Withdraw(t) PROVE GateInv'
    BY <2>8 DEF Withdraw, Put, UseType, deleterVars
  <2>9. CASE Background /\ UNCHANGED gateVars
    <3>1. CASE \E r \in Request : Deleter!Callback(r)
      BY <2>9, <3>1, DeleterFrame DEF gateVars
    <3>2. CASE Deleter!Cancel \/ Deleter!StopAll \/ Deleter!Tick
      BY <2>9, <3>2, DeleterFrame DEF gateVars, Deleter!Cancel, Deleter!StopAll,
         Deleter!Tick, UseType, Deleter!Stage
    <3> QED BY <2>9, <3>1, <3>2 DEF Background
  <2>10. CASE UNCHANGED vars
    BY <2>10 DEF vars, deleterVars, gateVars, UseType
  <2> QED
    BY <2>1, <2>2, <2>3, <2>4, <2>5, <2>6, <2>7, <2>8, <2>9, <2>10 DEF Next
<1> QED BY <1>1, <1>2, PTL DEF Spec

\* Only a registered session, an open token or, in the fail-open mode, a failure of
\* the request's own read lets a request pass (Middleware).
THEOREM AdmissionJustifiedAlways == Spec => []AdmissionJustified
<1> QED BY Gating, PTL DEF GateInv

\* Only a match costs a token its registration (Middleware, scheduleTokenDelete).
THEOREM DeletionEarnedAlways == Spec => []DeletionEarned
<1> QED BY Gating, PTL DEF GateInv

-----------------------------------------------------------------------------

\* The variables of the middleware and of Redis keep their types (Middleware).
THEOREM TypeCorrect == Spec => []TypeOK
<1> QED BY Gating, PTL DEF GateInv
=============================================================================
