--------------------------- MODULE ServerShutdown ---------------------------
(***************************************************************************)
(* runHTTPServers (server/http.go): one goroutine listens for each server, *)
(* the main goroutine waits for a signal or a failure and then shuts the   *)
(* servers down, one after the other, on one deadline.  When it returns    *)
(* the process ends, and with it every request not answered yet.           *)
(*                                                                         *)
(* net/http is modelled from its use: Shutdown closes the listener, waits  *)
(* until no request is active, and gives up when the deadline has passed.  *)
(***************************************************************************)
EXTENDS Naturals, Sequences

CONSTANTS
  Count,    \* the number of servers: the proxy, and the admin panel if enabled
  Request,
  None      \* no error

ASSUME CountAssumption == Count \in Nat \ {0} /\ None \notin {"failed", "shutdown"} \X (1..Count)

Server == 1..Count

VARIABLES
  target,     \* target[r]: the server request r goes to
  request,    \* request[r]: new, active, answered or cut off
  listener,   \* listener[s]: where ListenAndServe stands
  errCh,      \* the servers whose failure nobody has read yet
  cancelled,  \* the signal has come
  main,       \* where the main goroutine stands
  turn,       \* the server it shuts down, those before are done
  told,       \* the servers whose Shutdown has begun
  expired,    \* the deadline of the shutdown has passed
  runErr      \* the error to return

listenVars == <<target, listener, errCh, cancelled>>
mainVars == <<main, turn, told, expired, runErr>>
vars == <<request, listenVars, mainVars>>

Init ==
  /\ target \in [Request -> Server]
  /\ request = [r \in Request |-> "new"]
  /\ listener = [s \in Server |-> "starting"]
  /\ errCh = <<>>
  /\ cancelled = FALSE
  /\ main = "waiting" /\ turn = 1 /\ told = {} /\ expired = FALSE /\ runErr = None

Running == main # "returned"
Active(s) == {r \in Request : target[r] = s /\ request[r] = "active"}

-----------------------------------------------------------------------------
(* The goroutines of the servers *)

SetListener(s, from, to) ==
  /\ Running /\ listener[s] = from
  /\ listener' = [listener EXCEPT ![s] = to]
  /\ UNCHANGED <<target, cancelled, request, mainVars>>

Listen(s) == s \notin told /\ SetListener(s, "starting", "open") /\ UNCHANGED errCh

\* The port is taken, or Accept fails for good.
Fail(s) ==
  /\ s \notin told
  /\ SetListener(s, "starting", "failed") \/ SetListener(s, "open", "failed")
  /\ UNCHANGED errCh

\* Mutant: the goroutine listens again after a failure, and reports each.
ReportAndRetry(s) ==
  /\ SetListener(s, "failed", "starting")
  /\ errCh' = Append(errCh, s)

\* The buffer has room for every server.
Report(s) ==
  /\ Len(errCh) < Count
  /\ SetListener(s, "failed", "closed")
  /\ errCh' = Append(errCh, s)

\* ListenAndServe returns ErrServerClosed, which is no failure.
Close(s) ==
  /\ s \in told
  /\ SetListener(s, "starting", "closed") \/ SetListener(s, "open", "closed")
  /\ UNCHANGED errCh

Accept(r) ==
  /\ Running /\ request[r] = "new"
  /\ listener[target[r]] = "open" /\ target[r] \notin told
  /\ request' = [request EXCEPT ![r] = "active"]
  /\ UNCHANGED <<listenVars, mainVars>>

Answer(r) ==
  /\ Running /\ request[r] = "active"
  /\ request' = [request EXCEPT ![r] = "answered"]
  /\ UNCHANGED <<listenVars, mainVars>>

-----------------------------------------------------------------------------
(* The main goroutine *)

Signal ==
  /\ Running /\ ~cancelled
  /\ cancelled' = TRUE
  /\ UNCHANGED <<target, listener, errCh, request, mainVars>>

TakeError ==
  /\ main = "waiting" /\ errCh # <<>>
  /\ errCh' = Tail(errCh)
  /\ runErr' = <<"failed", Head(errCh)>>
  /\ main' = "draining"
  /\ UNCHANGED <<target, listener, cancelled, request, turn, told, expired>>

TakeSignal ==
  /\ main = "waiting" /\ cancelled
  /\ main' = "draining"
  /\ UNCHANGED <<listenVars, request, turn, told, expired, runErr>>

\* Shutdown of the next server begins; an idle server is done at once.
Tell ==
  /\ main = "draining" /\ turn \in Server \ told
  /\ told' = told \cup {turn}
  /\ turn' = IF Active(turn) = {} THEN turn + 1 ELSE turn
  /\ UNCHANGED <<listenVars, request, main, expired, runErr>>

Drained ==
  /\ main = "draining" /\ turn \in told /\ Active(turn) = {}
  /\ turn' = turn + 1
  /\ UNCHANGED <<listenVars, request, main, told, expired, runErr>>

\* Mutant: only a request that is done ends the wait.
GiveUpIdle ==
  /\ main = "draining" /\ turn \in told /\ expired /\ Active(turn) = {}
  /\ runErr' = IF runErr = None THEN <<"shutdown", turn>> ELSE runErr
  /\ turn' = turn + 1
  /\ UNCHANGED <<listenVars, request, main, told, expired>>

\* Mutant: only the first server's error counts.
GiveUpQuietly ==
  /\ main = "draining" /\ turn \in told /\ expired
  /\ runErr' = IF runErr = None /\ turn = 1 THEN <<"shutdown", turn>> ELSE runErr
  /\ turn' = turn + 1
  /\ UNCHANGED <<listenVars, request, main, told, expired>>

\* Mutant: the last error counts.
GiveUpLast ==
  /\ main = "draining" /\ turn \in told /\ expired
  /\ runErr' = <<"shutdown", turn>>
  /\ turn' = turn + 1
  /\ UNCHANGED <<listenVars, request, main, told, expired>>

\* The deadline ends the wait, even if the last request was answered meanwhile.
GiveUp ==
  /\ main = "draining" /\ turn \in told /\ expired
  /\ runErr' = IF runErr = None THEN <<"shutdown", turn>> ELSE runErr
  /\ turn' = turn + 1
  /\ UNCHANGED <<listenVars, request, main, told, expired>>

Expire ==
  /\ main = "draining" /\ ~expired
  /\ expired' = TRUE
  /\ UNCHANGED <<listenVars, request, main, turn, told, runErr>>

\* The process ends.
Return ==
  /\ main = "draining" /\ turn > Count
  /\ main' = "returned"
  /\ request' = [r \in Request |-> IF request[r] = "active" THEN "cut" ELSE request[r]]
  /\ UNCHANGED <<listenVars, turn, told, expired, runErr>>

ServerStep(s) == Listen(s) \/ Fail(s) \/ Report(s) \/ Close(s)
MainStep == TakeError \/ TakeSignal \/ Tell \/ Drained \/ GiveUp \/ Return

Next ==
  \/ \E s \in Server : ServerStep(s)
  \/ \E r \in Request : Accept(r) \/ Answer(r)
  \/ Signal \/ MainStep \/ Expire

Spec == Init /\ [][Next]_vars

\* The goroutines run and time passes; requests need not come, nor be answered.
FairSpec ==
  /\ Spec
  /\ \A s \in Server : WF_vars(Report(s))
  /\ WF_vars(MainStep) /\ WF_vars(Expire)

-----------------------------------------------------------------------------
(* Properties *)

TypeOK ==
  /\ target \in [Request -> Server]
  /\ request \in [Request -> {"new", "active", "answered", "cut"}]
  /\ listener \in [Server -> {"starting", "open", "failed", "closed"}]
  /\ errCh \in Seq(Server) /\ Len(errCh) <= Count
  /\ cancelled \in BOOLEAN /\ expired \in BOOLEAN
  /\ main \in {"waiting", "draining", "returned"}
  /\ turn \in 1..(Count + 1)
  /\ told \subseteq Server
  /\ runErr \in {None} \cup {"failed", "shutdown"} \X Server

\* The end of the process cuts a request off only when the deadline had passed, and
\* then the result is an error: main does not leave with success over a request
\* that got no answer, on whichever server (runHTTPServers).
CutIsReported == \A r \in Request : request[r] = "cut" => expired /\ runErr # None

\* Without a signal the service ends only with the error of a server that failed,
\* whatever goes wrong in the shutdown that follows (runHTTPServers).
EndsForAReason ==
  main # "waiting" /\ ~cancelled => \E s \in Server : runErr = <<"failed", s>>

\* A signal, or a failure of any server, ends the service, though requests may never
\* be answered (runHTTPServers: drains all within shutdown_timeout).
ServiceEnds ==
  /\ cancelled ~> main = "returned"
  /\ \A s \in Server : listener[s] = "failed" ~> main = "returned"
=============================================================================
