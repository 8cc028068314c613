----------------------------- MODULE ProxyChain -----------------------------
(***************************************************************************)
(* One request on its way through the proxy's handlers: Recovery, the      *)
(* trace, the guards, the secure middleware, the statistics middleware,    *)
(* the two caches and the reverse proxy (ProxyRouter).  What the handlers  *)
(* keep apart is here together: four of them wrap the ResponseWriter they  *)
(* were given and keep a status of their own, each by another rule, and    *)
(* the answer goes through all of them.  The upstream may send an          *)
(* informational response first, break off in the middle of its body or    *)
(* not answer at all, and every handler may panic.                         *)
(*                                                                         *)
(* What Redis and the caches say is left open here: SecureGate and         *)
(* ProxyCache model it.                                                    *)
(***************************************************************************)
EXTENDS Naturals

CONSTANTS
  Status,    \* final statuses of the upstream
  MaxBody,   \* cache_max_body_bytes
  MaxTotal,  \* bound: the longest body of the upstream
  MaxWrite   \* bound: the longest piece of it written at once

ASSUME ChainAssumption ==
  /\ Status \subseteq 200..599
  /\ MaxBody \in Nat \ {0} /\ MaxTotal \in Nat /\ MaxWrite \in Nat

VARIABLES
  conf,     \* which optional handlers are there, and whether the log level is debug
  req,      \* the request
  redis,    \* what Redis will say of its token and session; asked or not
  at,       \* the handler it has come to
  body,     \* its body: unread, or read by PostFormValue
  w,        \* the stack of writers and what went over the wire
  trace,    \* requestTrace, but for its status; without debug nobody reads it
  up,       \* the exchange with the upstream
  stored,   \* the cache the response was stored in
  counted,  \* a visit was handed to the statistics queue
  logged,   \* what the trace logged
  panic,    \* who caught a panic of a handler
  said      \* the status the answering handler asked for (history)

fixed == <<conf, req, redis>>
exchange == <<up, stored>>
verdict == <<counted, logged, panic>>
vars == <<fixed, at, body, w, trace, exchange, verdict, said>>

Token == {"none", "valid", "bad"}
Form == {"form", "stream"}  \* a form of declared length, and one sent in chunks

\* prefix, tracked: its path has an allowed prefix, and the one of the statistics.
Request ==
  {q \in [method : {"GET", "POST", "PUT"}, agent : BOOLEAN, prefix : BOOLEAN,
          tracked : BOOLEAN, query : Token, form : Token, link : Token,
          body : {"none", "other"} \cup Form] :
     /\ q.body # "none" => q.method = "POST"
     /\ q.form # "none" => q.body \in Form}

\* cfg: secure, secure_fail_mode is open, stats_enabled, log_level is debug.
Conf == {c \in [secure : BOOLEAN, open : BOOLEAN, stats : BOOLEAN, debug : BOOLEAN] :
           c.open => c.secure}

\* "pass" is an open token, or the session the request offers.
Answer == {"error", "miss", "mismatch", "pass"}

NoReply == [status |-> 0, total |-> 0, declared |-> TRUE, sent |-> 0]

\* out, info, bytes: the final status, whether a 1xx went before it, and the length
\* of the body on the wire.  The writers: that of Recovery, the status of the trace,
\* that of the statistics, and BodyCaptureWriter with what it has captured.
Init ==
  /\ conf \in Conf
  /\ req \in Request /\ (req.tracked => conf.stats)
  /\ redis \in Answer /\ (redis # "pass" => conf.secure)
  /\ at = "method" /\ body = "unread"
  /\ w = [out |-> 0, info |-> FALSE, bytes |-> 0, end |-> "open",
          recovery |-> 0, trace |-> 0, stats |-> 0,
          capture |-> 0, size |-> 0, exceeded |-> FALSE]
  /\ trace = [secure |-> IF conf.secure THEN "pending" ELSE "disabled",
              blockedBy |-> "", source |-> ""]
  /\ up = NoReply /\ stored = "none"
  /\ counted = FALSE /\ logged = [status |-> 0] /\ panic = {} /\ said = 0

Goto(l) == at' = l

-----------------------------------------------------------------------------
(* The token of a request *)

\* RequestToken, where the form holds what PostFormValue finds.
RequestToken(form) ==
  IF req.query # "none" THEN req.query ELSE IF form # "none" THEN form ELSE req.link

\* It reads a form body, unless the query has a token.
ReadsForm == req.query = "none" /\ req.body \in Form

-----------------------------------------------------------------------------
(* The writers, from net/http inwards: v is the stack, c a status, n a length *)

\* StatusCaptureWriter.Status; a Write without a header gives the same status.
Shown(s) == IF s = 0 THEN 200 ELSE s

\* net/http sends every 1xx, and the first final status.
NetHeader(v, c) ==
  CASE v.out # 0 -> v
    [] v.out = 0 /\ c < 200 -> [v EXCEPT !.info = TRUE]
    [] v.out = 0 /\ c >= 200 -> [v EXCEPT !.out = c]

\* Recovery's writer passes the first status on, whichever it is.
RecoveryHeader(v, c) ==
  IF v.recovery # 0 THEN v ELSE NetHeader([v EXCEPT !.recovery = c], c)

\* The trace notes the first status and passes every one on.
TraceHeader(v, c) ==
  RecoveryHeader(
    IF conf.debug /\ v.trace = 0 THEN [v EXCEPT !.trace = c] ELSE v, c)

\* The statistics pass a request on as it is unless they count its path.
Tracked == conf.stats /\ req.tracked

\* Mutant: the status is noted, and not passed on.
StatsHeaderKept(v, c) ==
  IF Tracked THEN [v EXCEPT !.stats = c] ELSE TraceHeader(v, c)

StatsHeader(v, c) ==
  CASE ~Tracked -> TraceHeader(v, c)
    [] Tracked /\ v.stats = 0 -> TraceHeader([v EXCEPT !.stats = c], c)
    [] Tracked /\ v.stats # 0 -> v

\* BodyCaptureWriter keeps the last status.
BodyHeader(v, c) == StatsHeader([v EXCEPT !.capture = c], c)

StatsWrite(v, n) ==
  [v EXCEPT !.bytes = @ + n, !.out = Shown(@), !.recovery = Shown(@),
            !.trace = IF conf.debug THEN Shown(@) ELSE @,
            !.stats = IF Tracked THEN Shown(@) ELSE @]

\* Mutant: everything is captured.
CaptureAll(v, n) == [v EXCEPT !.size = @ + n]

\* What does not fit any more is cut off, and remembered as too much.
Capture(v, n) ==
  CASE v.exceeded -> v
    [] ~v.exceeded /\ n <= MaxBody - v.size -> [v EXCEPT !.size = @ + n]
    [] ~v.exceeded /\ n > MaxBody - v.size ->
         [v EXCEPT !.size = MaxBody, !.exceeded = TRUE]

BodyWrite(v, n) == StatsWrite(Capture([v EXCEPT !.capture = Shown(@)], n), n)

-----------------------------------------------------------------------------
(* Before the caches *)

\* MarkBlocked sets the status of the trace, so the writer's note comes second.
Marked(c) == IF conf.debug THEN [w EXCEPT !.trace = c] ELSE w

Block(by, c) ==
  /\ trace' = [trace EXCEPT !.blockedBy = by, !.source = "blocked"]
  /\ w' = TraceHeader(Marked(c), c)
  /\ said' = c
  /\ Goto("log")

Guard(l, ok, by, c, next) ==
  /\ at = l
  /\ \/ ok /\ Goto(next) /\ UNCHANGED <<trace, w, said>>
     \/ ~ok /\ Block(by, c)
  /\ UNCHANGED <<fixed, exchange, verdict>>

MethodGuard ==
  Guard("method", req.method \in {"GET", "POST"}, "method", 405, "agent") /\ UNCHANGED body
UserAgentGuard == Guard("agent", req.agent, "user_agent", 403, "prefix") /\ UNCHANGED body
PathPrefixGuard == Guard("prefix", req.prefix, "path_prefix", 403, "token") /\ UNCHANGED body

\* Asking for the token reads a form body, whatever comes of it.
TokenGuard ==
  /\ Guard("token", "valid" \in {RequestToken(req.form), req.link}, "token", 403, "secure")
  /\ body' = IF ReadsForm THEN "read" ELSE body

\* What the secure middleware marks: the token is no token (one in the path does not
\* help it), or what Redis says of it.
SecureMark ==
  CASE RequestToken(req.form) # "valid" -> "forbidden_token"
    [] RequestToken(req.form) = "valid" /\ redis = "error" ->
         IF conf.open THEN "redis_error_open" ELSE "redis_error"
    [] RequestToken(req.form) = "valid" /\ redis = "miss" -> "not_found"
    [] RequestToken(req.form) = "valid" /\ redis = "mismatch" -> "session_mismatch"
    [] RequestToken(req.form) = "valid" /\ redis = "pass" -> "pass"

LetThrough == {"pass", "redis_error_open"}

Admit ==
  /\ at = "secure"
  /\ conf.secure => SecureMark \in LetThrough
  /\ trace' = [trace EXCEPT !.secure = IF conf.secure THEN SecureMark ELSE @]
  /\ Goto("cache4xx")
  /\ UNCHANGED <<fixed, body, w, exchange, verdict, said>>

Refuse ==
  /\ at = "secure" /\ conf.secure /\ SecureMark \notin LetThrough
  /\ LET c == IF SecureMark = "forbidden_token" THEN 403 ELSE 401 IN
       w' = TraceHeader(Marked(c), c) /\ said' = c
  /\ trace' = [secure |-> SecureMark, blockedBy |-> "secure", source |-> "blocked"]
  /\ Goto("log")
  /\ UNCHANGED <<fixed, body, exchange, verdict>>

-----------------------------------------------------------------------------
(* The caches and the upstream *)

Miss ==
  /\ \/ at = "cache4xx" /\ Goto("cache200")
     \/ at = "cache200" /\ Goto("upstream")
  /\ UNCHANGED <<fixed, body, w, trace, exchange, verdict, said>>

Hit4xx ==
  /\ at = "cache4xx"
  /\ trace' = [trace EXCEPT !.blockedBy = "cache_4xx", !.source = "cache_4xx"]
  /\ w' = StatsWrite(StatsHeader(Marked(403), 403), 1)
  /\ said' = 403
  /\ Goto("stats")
  /\ UNCHANGED <<fixed, body, exchange, verdict>>

Hit200 ==
  /\ at = "cache200"
  /\ trace' = [trace EXCEPT !.source = "cache_200"]
  /\ w' = StatsWrite(StatsHeader(Marked(200), 200), 1)
  /\ said' = 200
  /\ Goto("stats")
  /\ UNCHANGED <<fixed, body, exchange, verdict>>

\* An informational response is passed on before the final one.
Inform ==
  /\ at = "upstream" /\ ~w.info
  /\ w' = BodyHeader(w, 103)
  /\ UNCHANGED <<fixed, at, body, trace, exchange, verdict, said>>

\* A body that was declared and then read by somebody else cannot be sent.
Starved == body = "read" /\ req.body = "form"

Respond(s, total, declared) ==
  /\ at = "upstream" /\ ~Starved
  /\ up' = [status |-> s, total |-> total, declared |-> declared, sent |-> 0]
  /\ w' = BodyHeader(w, s)
  /\ said' = s
  /\ Goto("copy")
  /\ UNCHANGED <<fixed, body, trace, stored, verdict>>

\* ErrorHandler.
Fail ==
  /\ at = "upstream"
  /\ w' = BodyHeader(w, 502)
  /\ said' = 502
  /\ Goto("store")
  /\ UNCHANGED <<fixed, body, trace, exchange, verdict>>

Copy(n) ==
  /\ at = "copy" /\ up.sent + n <= up.total
  /\ up' = [up EXCEPT !.sent = @ + n]
  /\ w' = BodyWrite(w, n)
  /\ UNCHANGED <<fixed, at, body, trace, stored, verdict, said>>

Copied ==
  /\ at = "copy" /\ up.sent = up.total
  /\ Goto("store")
  /\ UNCHANGED <<fixed, body, w, trace, exchange, verdict, said>>

\* Mutant: what forwardToUpstream says of a panic is not asked.
AbortAndStore ==
  /\ at \in {"upstream", "copy"}
  /\ panic' = {"swallowed"}
  /\ Goto("store")
  /\ UNCHANGED <<fixed, body, w, trace, exchange, counted, logged, said>>

\* The proxy panics, in the middle of a copy because the body broke off
\* (ErrAbortHandler); forwardToUpstream keeps the panic to itself.
Abort ==
  /\ at \in {"upstream", "copy"}
  /\ panic' = {"swallowed"}
  /\ trace' = [trace EXCEPT !.source = "upstream_aborted"]
  /\ Goto("stats")
  /\ UNCHANGED <<fixed, body, w, exchange, counted, logged, said>>

Cacheable == ~w.exceeded /\ w.size > 0

StoreResponse ==
  /\ at = "store"
  /\ trace' = [trace EXCEPT !.source = "upstream"]
  /\ w' = Marked(Shown(w.capture))
  /\ stored' = CASE w.capture = 200 /\ Cacheable -> "200"
                 [] w.capture \in 400..499 -> "4xx"
                 [] OTHER -> "none"
  /\ Goto("stats")
  /\ UNCHANGED <<fixed, body, up, verdict, said>>

-----------------------------------------------------------------------------
(* The way back *)

\* Mutant: the visit is counted before its outcome is known.
CountAny ==
  /\ at = "stats"
  /\ counted' = Tracked
  /\ Goto("log")
  /\ UNCHANGED <<fixed, body, w, trace, exchange, logged, panic, said>>

Count ==
  /\ at = "stats"
  /\ counted' = (Tracked /\ Shown(w.stats) = 200)
  /\ Goto("log")
  /\ UNCHANGED <<fixed, body, w, trace, exchange, logged, panic, said>>

\* Mutant: pending means passed.
SecureShownPassed == IF trace.secure = "pending" THEN "pass" ELSE trace.secure

SecureShown ==
  CASE trace.secure # "pending" -> trace.secure
    [] trace.secure = "pending" /\ trace.blockedBy # "" -> "not_reached"
    [] trace.secure = "pending" /\ trace.blockedBy = "" -> "pass"

\* The trace asks the request it was given, not the copy the handlers worked on:
\* the form it finds is what they have left of it.
LogRequestTrace ==
  /\ at = "log"
  /\ logged' = IF ~conf.debug THEN logged
       ELSE [status |-> Shown(w.trace), secure |-> SecureShown, source |-> trace.source,
             token |-> RequestToken(IF body = "read" THEN "none" ELSE req.form)]
  /\ Goto("end")
  /\ UNCHANGED <<fixed, body, w, trace, exchange, counted, panic, said>>

\* A handler panics, and none but Recovery catches it.
Panic ==
  /\ at \notin {"upstream", "copy", "end", "done"}
  /\ panic' = panic \cup {"recovered"}
  /\ w' = IF Shown(w.recovery) = 0 THEN RecoveryHeader(w, 500) ELSE w
  /\ Goto("end")
  /\ UNCHANGED <<fixed, body, trace, exchange, counted, logged, said>>

\* net/http ends the response, and the connection when a declared body fell short.
End ==
  /\ at = "end"
  /\ w' = [w EXCEPT !.out = Shown(@),
                    !.end = IF up.declared /\ w.bytes < up.total THEN "cut" ELSE "clean"]
  /\ Goto("done")
  /\ UNCHANGED <<fixed, body, trace, exchange, verdict, said>>

Upstream ==
  \/ Inform \/ Fail \/ Copied \/ Abort
  \/ \E s \in Status, t \in 0..MaxTotal, d \in BOOLEAN : Respond(s, t, d)
  \/ \E n \in 1..MaxWrite : Copy(n)

Next ==
  \/ MethodGuard \/ UserAgentGuard \/ PathPrefixGuard \/ TokenGuard \/ Admit \/ Refuse
  \/ Miss \/ Hit4xx \/ Hit200 \/ Upstream \/ StoreResponse
  \/ Count \/ LogRequestTrace \/ Panic \/ End

Spec == Init /\ [][Next]_vars

-----------------------------------------------------------------------------
(* Properties *)

Final == 200..599
Noted == Final \cup {0, 103}

Writers ==
  [out : Final \cup {0}, info : BOOLEAN, bytes : Nat, end : {"open", "clean", "cut"},
   recovery : Noted, trace : Noted, stats : Noted,
   capture : Noted, size : 0..MaxBody, exceeded : BOOLEAN]

Blocker == {"", "method", "user_agent", "path_prefix", "token", "secure", "cache_4xx"}
Source == {"", "blocked", "cache_4xx", "cache_200", "upstream", "upstream_aborted"}

Trace ==
  [secure : {"disabled", "pending", "forbidden_token", "not_found", "session_mismatch",
             "redis_error"} \cup LetThrough,
   blockedBy : Blocker, source : Source]

Reply == [status : Status \cup {0}, total : Nat, declared : BOOLEAN, sent : Nat]

TypeOK ==
  /\ conf \in Conf /\ req \in Request /\ redis \in Answer
  /\ at \in {"method", "agent", "prefix", "token", "secure", "cache4xx", "cache200",
             "upstream", "copy", "store", "stats", "log", "end", "done"}
  /\ body \in {"unread", "read"}
  /\ w \in Writers /\ trace \in Trace
  /\ up \in Reply /\ up.sent <= up.total
  /\ stored \in {"none", "4xx", "200"}
  /\ counted \in BOOLEAN /\ panic \subseteq {"swallowed", "recovered"}
  /\ said \in {0} \cup Final

\* What is stored was served: a 200 went out whole, as long as the captured copy and
\* not longer than the limit, however the upstream cut it up; and a whole 200 of that
\* length is stored unless a handler panicked (BodyCaptureWriter, Middleware200).
StoredIsServed ==
  /\ stored = "200" =>
       up.status = 200 /\ w.size = up.total /\ w.bytes = up.total /\ up.sent = up.total
  /\ stored = "4xx" => up.status \in 400..499 /\ w.bytes = up.total
  /\ (at = "done" /\ panic = {} /\ up.status = 200 /\ up.total \in 1..MaxBody)
       => stored = "200"

StatusExplained ==
  (at = "done" /\ w.out # said) => w.out = 200 /\ (w.info \/ panic # {})

TruncationExplained ==
  (w.end = "clean" /\ w.bytes < up.total) => "swallowed" \in panic /\ ~up.declared

\* The client reads the status the handler that answered asked for, through all the
\* writers; it reads a 200 instead only when an informational response went before
\* it, or a panic came before it (StatusCaptureWriter, Recovery).  A client that takes
\* a response to be complete has all of the upstream's body, unless the upstream broke
\* off a body whose length it had not declared: the panic that would have cut the
\* connection is swallowed (forwardToUpstream).
AnswerExplained == StatusExplained /\ TruncationExplained

\* The trace agrees with the wire and with the secure check: its status is what the
\* client reads, unless an informational response went before; it shows a request as
\* let through by the check when it was and only then, and as let through on a Redis
\* error when Redis failed in the fail-open mode; and its token is the one the guards
\* judged, unless that came in a form, which the handlers have read by then
\* (logRequestTrace).
LogTellsWire ==
  (at = "done" /\ logged.status # 0) =>
    /\ logged.status = w.out \/ w.info
    /\ logged.secure \in LetThrough <=> conf.secure /\ trace.source # "blocked"
    /\ logged.secure = "pass" => redis = "pass"
    /\ logged.secure = "redis_error_open" => redis = "error" /\ conf.open
    /\ logged.token = RequestToken(req.form) \/ (body = "read" /\ req.form # "none")

\* Of the requests that come back from the handlers, those the client reads a 200 on
\* are counted when the statistics count their path, and no others; but one that got an
\* informational response first is never counted (stats.Middleware).
CountedIsServed ==
  (at = "done" /\ "recovered" \notin panic) =>
    (counted <=> Tracked /\ w.out = 200 /\ ~w.info)
=============================================================================
