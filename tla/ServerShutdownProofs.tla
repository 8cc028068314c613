----------------------- MODULE ServerShutdownProofs -----------------------
(***************************************************************************)
(* Theorems about ServerShutdown, for any number of servers and any        *)
(* requests.                                                               *)
(***************************************************************************)
EXTENDS ServerShutdown, TLAPS

\* The types, and what two actions share.
LEMMA ListenerTypes ==
  ASSUME TypeOK, NEW s \in Server,
         NEW from \in {"starting", "open", "failed"}, NEW to \in {"open", "failed", "closed"},
         SetListener(s, from, to), errCh' \in Seq(Server), Len(errCh') <= Count
  PROVE  TypeOK'
BY DEF TypeOK, SetListener, mainVars

LEMMA InitTyped == Init => TypeOK
<1> SUFFICES ASSUME Init PROVE TypeOK
  OBVIOUS
<1>1. errCh \in Seq(Server) /\ Len(errCh) <= Count
  BY CountAssumption DEF Init
<1>2. turn \in 1..(Count + 1)
  BY CountAssumption DEF Init
<1>3. request \in [Request -> {"new", "active", "answered", "cut"}]
  BY DEF Init
<1>4. listener \in [Server -> {"starting", "open", "failed", "closed"}]
  BY DEF Init
<1> QED BY <1>1, <1>2, <1>3, <1>4 DEF Init, TypeOK

\* Each step keeps the types.
LEMMA NextTyped == TypeOK /\ [Next]_vars => TypeOK'
<1> SUFFICES ASSUME TypeOK, [Next]_vars PROVE TypeOK'
  OBVIOUS
<1> USE CountAssumption
<1>1. ASSUME NEW s \in Server, Listen(s) PROVE TypeOK'
  BY <1>1, ListenerTypes DEF Listen, TypeOK
<1>2. ASSUME NEW s \in Server, Fail(s) PROVE TypeOK'
  BY <1>2, ListenerTypes DEF Fail, TypeOK
<1>3. ASSUME NEW s \in Server, Report(s) PROVE TypeOK'
  <2>1. errCh' \in Seq(Server) /\ Len(errCh') <= Count
    BY <1>3 DEF Report, TypeOK
  <2> QED BY <1>3, <2>1, ListenerTypes DEF Report
<1>4. ASSUME NEW s \in Server, Close(s) PROVE TypeOK'
  BY <1>4, ListenerTypes DEF Close, TypeOK
<1>5. ASSUME NEW r \in Request, Accept(r) \/ Answer(r) PROVE TypeOK'
  BY <1>5 DEF Accept, Answer, TypeOK, listenVars, mainVars
<1>6. CASE Signal
  BY <1>6 DEF Signal, TypeOK, mainVars
<1>7. CASE TakeError
  BY <1>7 DEF TakeError, TypeOK
<1>8. CASE TakeSignal \/ Expire
  BY <1>8 DEF TakeSignal, Expire, TypeOK, listenVars
<1>9. CASE Tell \/ Drained \/ GiveUp
  <2>1. turn \in Server
    BY <1>9 DEF Tell, Drained, GiveUp, TypeOK
  <2>2. turn + 1 \in 1..(Count + 1) /\ turn \in 1..(Count + 1)
    BY <2>1 DEF Server
  <2>3. CASE Tell
    BY <2>3, <2>1, <2>2 DEF Tell, TypeOK, listenVars
  <2>4. CASE Drained
    BY <2>4, <2>2 DEF Drained, TypeOK, listenVars
  <2>5. CASE GiveUp
    <3>1. runErr' \in {None} \cup {"failed", "shutdown"} \X Server
      BY <2>5, <2>1 DEF GiveUp, TypeOK
    <3> QED BY <2>5, <2>2, <3>1 DEF GiveUp, TypeOK, listenVars
  <2> QED BY <1>9, <2>3, <2>4, <2>5
<1>10. CASE Return
  BY <1>10 DEF Return, TypeOK, listenVars
<1>11. CASE UNCHANGED vars
  BY <1>11 DEF vars, listenVars, mainVars, TypeOK
<1> QED BY <1>1, <1>2, <1>3, <1>4, <1>5, <1>6, <1>7, <1>8, <1>9, <1>10, <1>11
        DEF Next, ServerStep, MainStep

\* The variables keep their types.
THEOREM TypeCorrect == Spec => []TypeOK
<1> QED BY InitTyped, NextTyped, PTL DEF Spec

-----------------------------------------------------------------------------
(* Requests cut off *)

\* The servers before the turn are closed to new requests; one that is still active
\* on them was given up, with an error; requests are cut off by the return alone.
TurnInv ==
  /\ \A s \in Server : s < turn => s \in told
  /\ \A r \in Request : request[r] = "active" /\ target[r] < turn => expired /\ runErr # None
  /\ main = "waiting" => runErr = None
  /\ CutIsReported

LEMMA NextTurn == TypeOK /\ TurnInv /\ [Next]_vars => TurnInv'
<1> SUFFICES ASSUME TypeOK, TurnInv, [Next]_vars PROVE TurnInv'
  OBVIOUS
<1> USE CountAssumption DEF Server
<1>1. ASSUME NEW s \in Server, ServerStep(s) PROVE TurnInv'
  BY <1>1 DEF ServerStep, Listen, Fail, Report, Close, SetListener, mainVars, TurnInv,
              CutIsReported
<1>2. ASSUME NEW r \in Request, Accept(r) PROVE TurnInv'
  <2>1. target[r] \in Server /\ ~(target[r] < turn)
    BY <1>2 DEF Accept, TurnInv, TypeOK
  <2> QED BY <1>2, <2>1 DEF Accept, TurnInv, CutIsReported, TypeOK, listenVars, mainVars
<1>3. ASSUME NEW r \in Request, Answer(r) PROVE TurnInv'
  BY <1>3 DEF Answer, TurnInv, CutIsReported, TypeOK, listenVars, mainVars
<1>4. CASE Signal
  BY <1>4 DEF Signal, TurnInv, CutIsReported, mainVars
<1>5. CASE TakeError
  <2>1. runErr' # None
    BY <1>5 DEF TakeError, TypeOK
  <2> QED BY <1>5, <2>1 DEF TakeError, TurnInv, CutIsReported
<1>6. CASE TakeSignal \/ Expire
  BY <1>6 DEF TakeSignal, Expire, TurnInv, CutIsReported, listenVars
<1>7. CASE Tell \/ Drained
  <2>1. \A r \in Request : request[r] = "active" /\ target[r] < turn' => target[r] < turn
    BY <1>7 DEF Tell, Drained, Active, TypeOK
  <2>2. \A s \in Server : s < turn' => s \in told'
    BY <1>7 DEF Tell, Drained, TurnInv, TypeOK
  <2> QED BY <1>7, <2>1, <2>2 DEF Tell, Drained, TurnInv, CutIsReported, listenVars
<1>8. CASE GiveUp
  <2>1. runErr' # None /\ expired
    BY <1>8 DEF GiveUp, TypeOK
  <2>2. \A s \in Server : s < turn' => s \in told'
    BY <1>8 DEF GiveUp, TurnInv, TypeOK
  <2> QED BY <1>8, <2>1, <2>2 DEF GiveUp, TurnInv, CutIsReported, listenVars
<1>9. CASE Return
  <2>1. \A r \in Request : request[r] = "active" => expired /\ runErr # None
    BY <1>9 DEF Return, TurnInv, TypeOK
  <2> QED BY <1>9, <2>1 DEF Return, TurnInv, CutIsReported, TypeOK, listenVars
<1>10. CASE UNCHANGED vars
  BY <1>10 DEF vars, listenVars, mainVars, TurnInv, CutIsReported
<1> QED BY <1>1, <1>2, <1>3, <1>4, <1>5, <1>6, <1>7, <1>8, <1>9, <1>10 DEF Next, MainStep

\* No request is cut off unless the deadline had passed and an error is returned.
THEOREM CutIsReportedAlways == Spec => []CutIsReported
<1>1. Init => TurnInv
  BY CountAssumption DEF Init, TurnInv, CutIsReported, Server
<1>2. TurnInv => CutIsReported
  BY DEF TurnInv
<1> QED BY <1>1, <1>2, NextTurn, TypeCorrect, PTL DEF Spec

-----------------------------------------------------------------------------
(* The result *)

LEMMA NextReason == TypeOK /\ EndsForAReason /\ [Next]_vars => EndsForAReason'
<1> SUFFICES ASSUME TypeOK, EndsForAReason, [Next]_vars PROVE EndsForAReason'
  OBVIOUS
<1> USE CountAssumption DEF Server
<1>1. CASE TakeError
  BY <1>1 DEF TakeError, EndsForAReason, TypeOK
<1>2. CASE GiveUp
  BY <1>2 DEF GiveUp, EndsForAReason, TypeOK, listenVars
<1>3. CASE TakeSignal \/ Tell \/ Drained \/ Return \/ Expire \/ Signal
  BY <1>3 DEF TakeSignal, Tell, Drained, Return, Expire, Signal, EndsForAReason, listenVars, mainVars
<1>4. ASSUME NEW s \in Server, ServerStep(s) PROVE EndsForAReason'
  BY <1>4 DEF ServerStep, Listen, Fail, Report, Close, SetListener, EndsForAReason, mainVars
<1>5. ASSUME NEW r \in Request, Accept(r) \/ Answer(r) PROVE EndsForAReason'
  BY <1>5 DEF Accept, Answer, EndsForAReason, listenVars, mainVars
<1>6. CASE UNCHANGED vars
  BY <1>6 DEF vars, listenVars, mainVars, EndsForAReason
<1> QED BY <1>1, <1>2, <1>3, <1>4, <1>5, <1>6 DEF Next, MainStep

\* Without a signal the service ends only with the error of a server that failed.
THEOREM EndsForAReasonAlways == Spec => []EndsForAReason
<1>1. Init => EndsForAReason
  BY DEF Init, EndsForAReason
<1> QED BY <1>1, NextReason, TypeCorrect, PTL DEF Spec
=============================================================================
