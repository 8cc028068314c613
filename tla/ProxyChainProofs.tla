-------------------------- MODULE ProxyChainProofs --------------------------
(* Proofs about ProxyChain, for every set of final statuses, body limit, and  *)
(* length of bodies and of their pieces.                                      *)
EXTENDS ProxyChain, TLAPS

\* u is v but for the statuses.
SameBody(u, v) ==
  u.bytes = v.bytes /\ u.end = v.end /\ u.size = v.size /\ u.exceeded = v.exceeded

\* u is v after the header c has come to Recovery's writer.
Passed(u, v, c) ==
  /\ SameBody(u, v)
  /\ u.recovery = IF v.recovery = 0 THEN c ELSE v.recovery
  /\ u.out = IF v.recovery = 0 /\ v.out = 0 /\ c # 103 THEN c ELSE v.out
  /\ u.info <=> (v.info \/ (v.recovery = 0 /\ v.out = 0 /\ c = 103))

Traced(u, v, c) == u.trace = IF conf.debug /\ v.trace = 0 THEN c ELSE v.trace

-----------------------------------------------------------------------------
(* The writers, one lemma for each entry of the stack *)

LEMMA NetEffect ==
  ASSUME NEW v \in Writers, NEW c \in Final \cup {103}
  PROVE  LET u == NetHeader(v, c) IN
           /\ u \in Writers /\ SameBody(u, v)
           /\ u.recovery = v.recovery /\ u.trace = v.trace /\ u.stats = v.stats
           /\ u.capture = v.capture
           /\ u.out = IF v.out = 0 /\ c # 103 THEN c ELSE v.out
           /\ u.info <=> (v.info \/ (v.out = 0 /\ c = 103))
<1>1. CASE v.out # 0
  BY <1>1 DEF NetHeader, SameBody, Writers
<1>2. CASE v.out = 0 /\ c = 103
  <2> DEFINE u == [v EXCEPT !.info = TRUE]
  <2>1. NetHeader(v, c) = u
    BY <1>2 DEF NetHeader
  <2>2. u \in Writers
    BY DEF Writers
  <2>3. /\ SameBody(u, v) /\ u.recovery = v.recovery /\ u.trace = v.trace
        /\ u.stats = v.stats /\ u.capture = v.capture /\ u.out = v.out
    BY DEF SameBody, Writers
  <2>4. u.info = TRUE
    BY DEF Writers
  <2> HIDE DEF u
  <2> QED BY <1>2, <2>1, <2>2, <2>3, <2>4
<1>3. CASE v.out = 0 /\ c \in Final
  <2>1. NetHeader(v, c) = [v EXCEPT !.out = c]
    BY <1>3 DEF NetHeader, Final
  <2>2. c # 103
    BY <1>3 DEF Final
  <2> QED BY <1>3, <2>1, <2>2 DEF SameBody, Writers
<1> QED BY <1>1, <1>2, <1>3

LEMMA RecoveryEffect ==
  ASSUME NEW v \in Writers, NEW c \in Final \cup {103}
  PROVE  LET u == RecoveryHeader(v, c) IN
           /\ u \in Writers /\ Passed(u, v, c)
           /\ u.trace = v.trace /\ u.stats = v.stats /\ u.capture = v.capture
<1>1. CASE v.recovery # 0
  BY <1>1 DEF RecoveryHeader, Passed, SameBody, Writers
<1>2. CASE v.recovery = 0
  <2> DEFINE noted == [v EXCEPT !.recovery = c]
  <2>1. /\ noted \in Writers /\ SameBody(noted, v)
        /\ noted.recovery = c /\ noted.out = v.out /\ noted.info = v.info
        /\ noted.trace = v.trace /\ noted.stats = v.stats /\ noted.capture = v.capture
    BY DEF Writers, Noted, SameBody
  <2>2. RecoveryHeader(v, c) = NetHeader(noted, c)
    BY <1>2 DEF RecoveryHeader
  <2> HIDE DEF noted
  <2> QED BY <1>2, <2>1, <2>2, NetEffect DEF Passed, SameBody
<1> QED BY <1>1, <1>2

LEMMA TraceEffect ==
  ASSUME NEW v \in Writers, NEW c \in Final \cup {103}
  PROVE  LET u == TraceHeader(v, c) IN
           /\ u \in Writers /\ Passed(u, v, c) /\ Traced(u, v, c)
           /\ u.stats = v.stats /\ u.capture = v.capture
<1> DEFINE noted == IF conf.debug /\ v.trace = 0 THEN [v EXCEPT !.trace = c] ELSE v
<1>1. /\ noted \in Writers /\ SameBody(noted, v) /\ Traced(noted, v, c)
      /\ noted.recovery = v.recovery /\ noted.out = v.out /\ noted.info = v.info
      /\ noted.stats = v.stats /\ noted.capture = v.capture
  BY DEF Writers, Noted, SameBody, Traced
<1>2. TraceHeader(v, c) = RecoveryHeader(noted, c)
  BY DEF TraceHeader
<1> HIDE DEF noted
<1> QED BY <1>1, <1>2, RecoveryEffect DEF Passed, SameBody, Traced

LEMMA StatsEffect ==
  ASSUME NEW v \in Writers, NEW c \in Final \cup {103}
  PROVE  LET u == StatsHeader(v, c) IN
           /\ u \in Writers /\ u.capture = v.capture
           /\ IF Tracked /\ v.stats # 0 THEN u = v
              ELSE /\ Passed(u, v, c) /\ Traced(u, v, c)
                   /\ u.stats = IF Tracked THEN c ELSE v.stats
<1>1. CASE ~Tracked
  <2>1. StatsHeader(v, c) = TraceHeader(v, c)
    BY <1>1 DEF StatsHeader
  <2> QED BY <1>1, <2>1, TraceEffect
<1>2. CASE Tracked /\ v.stats # 0
  <2>1. StatsHeader(v, c) = v
    BY <1>2 DEF StatsHeader
  <2> QED BY <1>2, <2>1
<1>3. CASE Tracked /\ v.stats = 0
  <2> DEFINE noted == [v EXCEPT !.stats = c]
  <2>1. /\ noted \in Writers /\ SameBody(noted, v)
        /\ noted.recovery = v.recovery /\ noted.out = v.out /\ noted.info = v.info
        /\ noted.stats = c /\ noted.trace = v.trace /\ noted.capture = v.capture
    BY DEF Writers, Noted, SameBody
  <2>2. StatsHeader(v, c) = TraceHeader(noted, c)
    BY <1>3 DEF StatsHeader
  <2> HIDE DEF noted
  <2> QED BY <1>3, <2>1, <2>2, TraceEffect DEF Passed, SameBody, Traced
<1> QED BY <1>1, <1>2, <1>3

LEMMA BodyEffect ==
  ASSUME NEW v \in Writers, NEW c \in Final \cup {103}
  PROVE  LET u == BodyHeader(v, c) IN
           /\ u \in Writers /\ u.capture = c
           /\ IF Tracked /\ v.stats # 0
              THEN /\ SameBody(u, v) /\ u.stats = v.stats /\ u.trace = v.trace
                   /\ u.recovery = v.recovery /\ u.out = v.out /\ u.info = v.info
              ELSE /\ Passed(u, v, c) /\ Traced(u, v, c)
                   /\ u.stats = IF Tracked THEN c ELSE v.stats
<1> DEFINE noted == [v EXCEPT !.capture = c]
<1>1. /\ noted \in Writers /\ SameBody(noted, v) /\ noted.capture = c
      /\ noted.recovery = v.recovery /\ noted.out = v.out /\ noted.info = v.info
      /\ noted.stats = v.stats /\ noted.trace = v.trace
  BY DEF Writers, Noted, SameBody
<1>2. BodyHeader(v, c) = StatsHeader(noted, c)
  BY DEF BodyHeader
<1> HIDE DEF noted
<1> QED BY <1>1, <1>2, StatsEffect DEF Passed, SameBody, Traced

LEMMA WriteEffect ==
  ASSUME NEW v \in Writers, NEW n \in Nat
  PROVE  LET u == StatsWrite(v, n) IN
           /\ u \in Writers /\ u.bytes = v.bytes + n
           /\ u.out = Shown(v.out) /\ u.recovery = Shown(v.recovery)
           /\ u.trace = IF conf.debug THEN Shown(v.trace) ELSE v.trace
           /\ u.stats = IF Tracked THEN Shown(v.stats) ELSE v.stats
           /\ u.info = v.info /\ u.end = v.end /\ u.capture = v.capture
           /\ u.size = v.size /\ u.exceeded = v.exceeded
<1>1. /\ Shown(v.out) \in Final \cup {0}
      /\ \A s \in {v.recovery, v.trace, v.stats} : Shown(s) \in Noted
  BY DEF Shown, Writers, Noted, Final
<1>2. v.bytes + n \in Nat
  BY DEF Writers
<1> QED BY <1>1, <1>2 DEF StatsWrite, Writers

LEMMA MoreWritten == \A x \in Writers : [x EXCEPT !.exceeded = TRUE] \in Writers
<1> QED BY DEF Writers

LEMMA CaptureEffect ==
  ASSUME NEW v \in Writers, NEW n \in Nat
  PROVE  LET u == Capture(v, n) IN
           /\ u \in Writers
           /\ u.exceeded <=> (v.exceeded \/ n > MaxBody - v.size)
           /\ ~u.exceeded => u.size = v.size + n
           /\ u.bytes = v.bytes /\ u.end = v.end /\ u.capture = v.capture
           /\ u.out = v.out /\ u.info = v.info /\ u.recovery = v.recovery
           /\ u.trace = v.trace /\ u.stats = v.stats
<1> USE ChainAssumption DEF Writers
<1>1. CASE v.exceeded
  BY <1>1 DEF Capture
<1>2. CASE ~v.exceeded /\ n <= MaxBody - v.size
  <2>1. Capture(v, n) = [v EXCEPT !.size = v.size + n]
    BY <1>2 DEF Capture
  <2>2. v.size + n \in 0..MaxBody
    BY <1>2
  <2> QED BY <1>2, <2>1, <2>2
<1>3. CASE ~v.exceeded /\ n > MaxBody - v.size
  <2> DEFINE u == [v EXCEPT !.size = MaxBody, !.exceeded = TRUE]
  <2>1. Capture(v, n) = u
    BY <1>3 DEF Capture
  <2>2. u \in Writers
    <3>1. MaxBody \in 0..MaxBody
      OBVIOUS
    <3>2. [v EXCEPT !.size = MaxBody] \in Writers
      BY <3>1 DEF Writers
    <3>3. \A x \in Writers : [x EXCEPT !.exceeded = TRUE] \in Writers
      BY MoreWritten
    <3>4. u = [[v EXCEPT !.size = MaxBody] EXCEPT !.exceeded = TRUE]
      BY DEF Writers
    <3> HIDE DEF u, Writers
    <3> QED BY <3>2, <3>3, <3>4
  <2>3. /\ u.bytes = v.bytes /\ u.end = v.end /\ u.capture = v.capture
        /\ u.out = v.out /\ u.info = v.info /\ u.recovery = v.recovery
        /\ u.trace = v.trace /\ u.stats = v.stats
    OBVIOUS
  <2>4. u.exceeded = TRUE
    OBVIOUS
  <2> HIDE DEF u
  <2> QED BY <1>3, <2>1, <2>2, <2>3, <2>4
<1> QED BY <1>1, <1>2, <1>3

LEMMA BodyWriteEffect ==
  ASSUME NEW v \in Writers, NEW n \in Nat
  PROVE  LET u == BodyWrite(v, n) IN
           /\ u \in Writers /\ u.bytes = v.bytes + n
           /\ u.exceeded <=> (v.exceeded \/ n > MaxBody - v.size)
           /\ ~u.exceeded => u.size = v.size + n
           /\ u.out = Shown(v.out) /\ u.recovery = Shown(v.recovery)
           /\ u.trace = IF conf.debug THEN Shown(v.trace) ELSE v.trace
           /\ u.stats = IF Tracked THEN Shown(v.stats) ELSE v.stats
           /\ u.capture = Shown(v.capture) /\ u.info = v.info /\ u.end = v.end
<1> DEFINE noted == [v EXCEPT !.capture = Shown(v.capture)]
<1>0. Shown(v.capture) \in Noted
  BY DEF Writers, Noted, Final, Shown
<1>1. /\ noted \in Writers /\ SameBody(noted, v) /\ noted.capture = Shown(v.capture)
      /\ noted.recovery = v.recovery /\ noted.out = v.out /\ noted.info = v.info
      /\ noted.stats = v.stats /\ noted.trace = v.trace
  BY <1>0 DEF Writers, SameBody
<1>2. BodyWrite(v, n) = StatsWrite(Capture(noted, n), n)
  BY DEF BodyWrite
<1> HIDE DEF noted
<1> DEFINE cap == Capture(noted, n)
<1>3. /\ cap \in Writers
      /\ cap.exceeded <=> (v.exceeded \/ n > MaxBody - v.size)
      /\ ~cap.exceeded => cap.size = v.size + n
      /\ cap.bytes = v.bytes /\ cap.end = v.end /\ cap.capture = Shown(v.capture)
      /\ cap.out = v.out /\ cap.info = v.info /\ cap.recovery = v.recovery
      /\ cap.trace = v.trace /\ cap.stats = v.stats
  BY <1>1, CaptureEffect DEF SameBody
<1>4. BodyWrite(v, n) = StatsWrite(cap, n)
  BY <1>2
<1> HIDE DEF cap
<1> QED BY <1>3, <1>4, WriteEffect

-----------------------------------------------------------------------------
(* What holds of the stack, the copy, the request, the trace and the count *)

ToSecure == {"method", "agent", "prefix", "token", "secure"}
ToUpstream == ToSecure \cup {"cache4xx", "cache200", "upstream"}
Returned == {"stats", "log", "end", "done"}

\* Without a 1xx every writer has the status that was asked for, and with one the first
\* writer and that of the statistics have the 1xx.
StatusInv ==
  /\ ~w.info =>
       /\ w.recovery = said /\ w.stats \in {0, said}
       /\ w.out = IF at = "done" THEN Shown(said) ELSE said
       /\ conf.debug => w.trace = said
       /\ Tracked /\ at \in {"copy", "store", "stats"} => w.stats = said
  /\ w.info =>
       /\ at \notin ToSecure \cup {"cache4xx", "cache200"}
       /\ w.recovery = 103 /\ w.out \in {0, 200} /\ (at = "done" => w.out = 200)
       /\ Tracked => w.stats = 103
  /\ at \in ToUpstream => said = 0
  /\ at \in {"copy", "store"} => said # 0 /\ w.capture = said
  /\ at \in Returned /\ panic = {} => said # 0

\* What was copied is on the wire, and captured unless it was too much.
CopyInv ==
  /\ at \in ToUpstream =>
       /\ up = NoReply /\ w.bytes = 0 /\ w.size = 0 /\ ~w.exceeded
  /\ at \in {"copy", "store"} =>
       /\ said = IF up.status = 0 THEN 502 ELSE up.status
       /\ w.bytes = up.sent
       /\ w.exceeded <=> up.sent > MaxBody
       /\ ~w.exceeded => w.size = up.sent
  /\ at = "copy" => up.status # 0
  /\ at = "store" => up.sent = up.total
  /\ at \notin Returned => stored = "none"
  /\ at \in Returned /\ w.bytes < up.total => "swallowed" \in panic
  /\ at \in Returned /\ panic = {} /\ up.status = 200 /\ up.total \in 1..MaxBody =>
       stored = "200"
  /\ at # "done" => w.end = "open"
  /\ w.end = "clean" => ~(up.declared /\ w.bytes < up.total)

\* s is what the secure check came to.
Shows(s) ==
  /\ s \in LetThrough <=> conf.secure /\ trace.source # "blocked"
  /\ s = "pass" => redis = "pass"
  /\ s = "redis_error_open" => redis = "error" /\ conf.open

\* The trace knows of the secure check what has happened.
TraceInv ==
  /\ at \in ToSecure =>
       /\ trace.secure = IF conf.secure THEN "pending" ELSE "disabled"
       /\ trace.source = "" /\ trace.blockedBy = ""
  /\ at \in {"cache4xx", "cache200", "upstream", "copy", "store", "stats"} =>
       Shows(trace.secure) /\ trace.secure # "pending" /\ trace.source # "blocked"
  /\ at = "log" => Shows(SecureShown)
  /\ at \notin {"end", "done"} => logged.status = 0
  /\ logged.status # 0 =>
       /\ logged.status = Shown(said) \/ w.info
       /\ Shows(logged.secure)
       /\ logged.token = RequestToken(req.form) \/ (body = "read" /\ req.form # "none")

CountInv ==
  /\ at \notin {"log", "end", "done"} => ~counted
  /\ at \in {"log", "end", "done"} /\ "recovered" \notin panic =>
       (counted <=> Tracked /\ ~w.info /\ Shown(said) = 200)

ChainInv ==
  TypeOK /\ StatusInv /\ CopyInv /\ StoredIsServed /\ TraceInv /\ CountInv

\* What the actions do to the stack.
LEMMA MarkedEffect ==
  ASSUME TypeOK, NEW c \in Final
  PROVE  LET u == Marked(c) IN
           /\ u \in Writers /\ SameBody(u, w)
           /\ u.recovery = w.recovery /\ u.out = w.out /\ u.info = w.info
           /\ u.stats = w.stats /\ u.capture = w.capture
           /\ u.trace = IF conf.debug THEN c ELSE w.trace
<1>1. w \in Writers
  BY DEF TypeOK
<1> QED BY <1>1 DEF Marked, SameBody, Writers, Noted, Final

LEMMA BlockEffect ==
  ASSUME TypeOK, NEW c \in Final
  PROVE  LET u == TraceHeader(Marked(c), c) IN
           /\ u \in Writers /\ Passed(u, w, c)
           /\ conf.debug => u.trace = c
           /\ u.stats = w.stats /\ u.capture = w.capture
<1> DEFINE v == Marked(c)
<1>1. /\ v \in Writers /\ SameBody(v, w)
      /\ v.recovery = w.recovery /\ v.out = w.out /\ v.info = w.info
      /\ v.stats = w.stats /\ v.capture = w.capture
      /\ v.trace = IF conf.debug THEN c ELSE w.trace
  BY MarkedEffect
<1> HIDE DEF v
<1>2. c # 0
  BY DEF Final
<1>3. LET u == TraceHeader(v, c) IN
        /\ u \in Writers /\ Passed(u, v, c) /\ Traced(u, v, c)
        /\ u.stats = v.stats /\ u.capture = v.capture
  BY <1>1, TraceEffect
<1>4. LET u == TraceHeader(v, c) IN
        /\ u \in Writers /\ Passed(u, w, c) /\ (conf.debug => u.trace = c)
        /\ u.stats = w.stats /\ u.capture = w.capture
  BY <1>1, <1>2, <1>3 DEF Passed, Traced, SameBody
<1> QED BY <1>4 DEF v

LEMMA HitEffect ==
  ASSUME TypeOK, NEW c \in Final
  PROVE  LET u == StatsWrite(StatsHeader(Marked(c), c), 1) IN
           /\ u \in Writers
           /\ ~w.info /\ w.recovery = 0 /\ w.out = 0 /\ w.stats = 0 =>
                /\ u.recovery = c /\ u.out = c /\ ~u.info
                /\ Tracked => u.stats = c
                /\ ~Tracked => u.stats = 0
                /\ conf.debug => u.trace = c
                /\ u.bytes = w.bytes + 1 /\ u.end = w.end
<1> DEFINE v == Marked(c)
           h == StatsHeader(v, c)
           u == StatsWrite(h, 1)
<1>0. c # 0 /\ c # 103 /\ Shown(c) = c
  BY DEF Final, Shown
<1>1. /\ v \in Writers /\ SameBody(v, w)
      /\ v.recovery = w.recovery /\ v.out = w.out /\ v.info = w.info
      /\ v.stats = w.stats /\ v.capture = w.capture
      /\ v.trace = IF conf.debug THEN c ELSE w.trace
  BY MarkedEffect
<1> HIDE DEF v
<1>2. /\ h \in Writers
      /\ IF Tracked /\ v.stats # 0 THEN h = v
         ELSE /\ Passed(h, v, c) /\ Traced(h, v, c)
              /\ h.stats = IF Tracked THEN c ELSE v.stats
  BY <1>1, StatsEffect
<1> HIDE DEF h
<1>3. /\ u \in Writers /\ u.bytes = h.bytes + 1
      /\ u.out = Shown(h.out) /\ u.recovery = Shown(h.recovery)
      /\ u.trace = IF conf.debug THEN Shown(h.trace) ELSE h.trace
      /\ u.stats = IF Tracked THEN Shown(h.stats) ELSE h.stats
      /\ u.info = h.info /\ u.end = h.end
  BY <1>2, WriteEffect
<1> HIDE DEF u
<1>4. ASSUME ~w.info, w.recovery = 0, w.out = 0, w.stats = 0
      PROVE  /\ u.recovery = c /\ u.out = c /\ ~u.info
             /\ Tracked => u.stats = c
             /\ ~Tracked => u.stats = 0
             /\ conf.debug => u.trace = c
             /\ u.bytes = w.bytes + 1 /\ u.end = w.end
  <2>1. /\ h.recovery = c /\ h.out = c /\ ~h.info
        /\ h.stats = IF Tracked THEN c ELSE 0
        /\ conf.debug => h.trace = c
        /\ SameBody(h, w)
    BY <1>0, <1>1, <1>2, <1>4 DEF Passed, Traced, SameBody
  <2> QED BY <1>0, <1>3, <2>1 DEF SameBody
<1>5. u \in Writers
  BY <1>3
<1> QED BY <1>4, <1>5 DEF u, h, v

\* What the secure middleware marks tells what Redis said.
LEMMA MarkTold ==
  ASSUME redis \in Answer
  PROVE  /\ SecureMark \in {"forbidden_token", "not_found", "session_mismatch",
                            "redis_error", "pass", "redis_error_open"}
         /\ SecureMark = "pass" => redis = "pass"
         /\ SecureMark = "redis_error_open" => redis = "error" /\ conf.open
<1>1. CASE RequestToken(req.form) # "valid"
  BY <1>1 DEF SecureMark
<1>2. CASE RequestToken(req.form) = "valid" /\ redis = "error"
  BY <1>2 DEF SecureMark
<1>3. CASE RequestToken(req.form) = "valid" /\ redis = "miss"
  BY <1>3 DEF SecureMark
<1>4. CASE RequestToken(req.form) = "valid" /\ redis = "mismatch"
  BY <1>4 DEF SecureMark
<1>5. CASE RequestToken(req.form) = "valid" /\ redis = "pass"
  BY <1>5 DEF SecureMark
<1> QED BY <1>1, <1>2, <1>3, <1>4, <1>5 DEF Answer

LEMMA TypeStep == TypeOK /\ [Next]_vars => TypeOK'
<1> SUFFICES ASSUME TypeOK, [Next]_vars PROVE TypeOK'
  OBVIOUS
<1> USE ChainAssumption DEF Goto, fixed, exchange, verdict
<1> UNCHANGED <<Writers, Final, Conf, Request, Answer, Trace, Reply>>
  BY DEF Writers, Noted, Final, Conf, Request, Token, Form, Answer, Trace, LetThrough,
         Blocker, Source, Reply
<1>0. w \in Writers
  BY DEF TypeOK
<1>1. ASSUME NEW c \in Final
      PROVE  /\ c \in {0} \cup Final
             /\ Marked(c) \in Writers /\ TraceHeader(Marked(c), c) \in Writers
             /\ StatsWrite(StatsHeader(Marked(c), c), 1) \in Writers
             /\ BodyHeader(w, c) \in Writers
  BY <1>0, <1>1, MarkedEffect, BlockEffect, HitEffect, BodyEffect
<1>2. 200 \in Final /\ 401 \in Final /\ 403 \in Final /\ 405 \in Final /\ 502 \in Final
  BY DEF Final
<1>t. /\ [trace EXCEPT !.secure = SecureMark] \in Trace
      /\ \A b \in {"method", "user_agent", "path_prefix", "token"} :
           [trace EXCEPT !.blockedBy = b, !.source = "blocked"] \in Trace
      /\ [secure |-> SecureMark, blockedBy |-> "secure", source |-> "blocked"] \in Trace
      /\ [trace EXCEPT !.blockedBy = "cache_4xx", !.source = "cache_4xx"] \in Trace
      /\ \A s \in {"cache_200", "upstream", "upstream_aborted"} :
           [trace EXCEPT !.source = s] \in Trace
  <2>0. trace \in Trace
    BY DEF TypeOK
  <2>1. ASSUME NEW t \in Trace, NEW s \in Source PROVE [t EXCEPT !.source = s] \in Trace
    BY DEF Trace
  <2>2. ASSUME NEW t \in Trace, NEW b \in Blocker PROVE [t EXCEPT !.blockedBy = b] \in Trace
    BY DEF Trace
  <2>3. ASSUME NEW b \in Blocker, NEW s \in Source
        PROVE  [trace EXCEPT !.blockedBy = b, !.source = s] \in Trace
    <3>1. [trace EXCEPT !.blockedBy = b, !.source = s]
            = [[trace EXCEPT !.blockedBy = b] EXCEPT !.source = s]
      BY <2>0 DEF Trace
    <3> QED BY <2>0, <2>1, <2>2, <3>1
  <2>m. SecureMark \in {"forbidden_token", "not_found", "session_mismatch",
                        "redis_error"} \cup LetThrough
    BY MarkTold DEF TypeOK, LetThrough
  <2>4. [trace EXCEPT !.secure = SecureMark] \in Trace
    <3> DEFINE m == SecureMark
    <3>1. m \in {"disabled", "pending", "forbidden_token", "not_found",
                 "session_mismatch", "redis_error"} \cup LetThrough
      BY <2>m
    <3> HIDE DEF m
    <3>2. [trace EXCEPT !.secure = m] \in Trace
      BY <2>0, <3>1 DEF Trace
    <3> QED BY <3>2 DEF m
  <2>5. /\ \A s \in {"cache_200", "upstream", "upstream_aborted", "blocked", "cache_4xx"} :
             s \in Source
        /\ \A b \in {"method", "user_agent", "path_prefix", "token", "secure", "cache_4xx"} :
             b \in Blocker
    BY DEF Source, Blocker
  <2>6. [secure |-> SecureMark, blockedBy |-> "secure", source |-> "blocked"] \in Trace
    BY <2>5, <2>m DEF Trace
  <2>7. [trace EXCEPT !.blockedBy = "cache_4xx", !.source = "cache_4xx"] \in Trace
    BY <2>3, <2>5
  <2>8. ASSUME NEW b \in {"method", "user_agent", "path_prefix", "token"}
        PROVE  [trace EXCEPT !.blockedBy = b, !.source = "blocked"] \in Trace
    <3>1. b \in Blocker /\ "blocked" \in Source
      BY <2>5
    <3> QED BY <2>3, <3>1
  <2>9. ASSUME NEW s \in {"cache_200", "upstream", "upstream_aborted"}
        PROVE  [trace EXCEPT !.source = s] \in Trace
    <3>1. s \in Source
      BY <2>5
    <3> QED BY <2>0, <2>1, <3>1
  <2> QED BY <2>4, <2>6, <2>7, <2>8, <2>9
<1>3. CASE MethodGuard
  BY <1>1, <1>2, <1>t, <1>3 DEF TypeOK, MethodGuard, Guard, Block
<1>4. CASE UserAgentGuard
  BY <1>1, <1>2, <1>t, <1>4 DEF TypeOK, UserAgentGuard, Guard, Block
<1>5. CASE PathPrefixGuard
  BY <1>1, <1>2, <1>t, <1>5 DEF TypeOK, PathPrefixGuard, Guard, Block
<1>6. CASE TokenGuard
  BY <1>1, <1>2, <1>t, <1>6 DEF TypeOK, TokenGuard, Guard, Block
<1>7. CASE Admit
  <2>1. trace' \in Trace
    <3>1. [trace EXCEPT !.secure = trace.secure] = trace
      BY DEF TypeOK, Trace
    <3> QED BY <1>7, <1>t, <3>1 DEF Admit, TypeOK
  <2> QED BY <1>7, <2>1 DEF TypeOK, Admit
<1>8. CASE Refuse
  BY <1>1, <1>2, <1>t, <1>8 DEF TypeOK, Refuse
<1>9. CASE Miss
  BY <1>9 DEF TypeOK, Miss
<1>10. CASE Hit4xx
  BY <1>1, <1>2, <1>t, <1>10 DEF TypeOK, Hit4xx
<1>11. CASE Hit200
  BY <1>1, <1>2, <1>t, <1>11 DEF TypeOK, Hit200
<1>12. CASE Inform
  <2>1. BodyHeader(w, 103) \in Writers
    BY <1>0, BodyEffect
  <2> QED BY <1>12, <2>1 DEF TypeOK, Inform
<1>13. ASSUME NEW s \in Status, NEW t \in 0..MaxTotal, NEW d \in BOOLEAN, Respond(s, t, d)
       PROVE  TypeOK'
  <2>1. s \in Final
    BY DEF Final
  <2>2. up' \in Reply /\ up'.sent <= up'.total
    BY <1>13 DEF Respond, Reply
  <2> QED BY <1>1, <1>13, <2>1, <2>2 DEF TypeOK, Respond
<1>14. CASE Fail
  BY <1>1, <1>2, <1>14 DEF TypeOK, Fail
<1>15. ASSUME NEW n \in 1..MaxWrite, Copy(n) PROVE TypeOK'
  <2>1. BodyWrite(w, n) \in Writers
    BY <1>0, BodyWriteEffect
  <2>2. up' \in Reply /\ up'.sent <= up'.total
    BY <1>15 DEF TypeOK, Copy, Reply
  <2> QED BY <1>15, <2>1, <2>2 DEF TypeOK, Copy
<1>16. CASE Copied
  BY <1>16 DEF TypeOK, Copied
<1>17. CASE Abort
  BY <1>t, <1>17 DEF TypeOK, Abort
<1>18. CASE StoreResponse
  <2>1. w' \in Writers
    <3>1. CASE w.capture = 103
      <4>1. Shown(w.capture) = 103
        BY <3>1 DEF Shown
      <4> QED BY <1>0, <1>18, <4>1 DEF StoreResponse, Marked, Writers, Noted
    <3>2. CASE w.capture # 103
      <4>1. Shown(w.capture) \in Final
        BY <1>0, <3>2 DEF Shown, Writers, Noted, Final
      <4> QED BY <1>1, <1>18, <4>1 DEF StoreResponse
    <3> QED BY <3>1, <3>2
  <2>2. stored' \in {"none", "4xx", "200"}
    BY <1>18 DEF StoreResponse
  <2> QED BY <1>t, <1>18, <2>1, <2>2 DEF TypeOK, StoreResponse
<1>19. CASE Count
  <2>1. counted' \in BOOLEAN
    BY <1>19 DEF Count
  <2> QED BY <1>19, <2>1 DEF TypeOK, Count
<1>20. CASE LogRequestTrace
  BY <1>20 DEF TypeOK, LogRequestTrace
<1>21. CASE Panic
  <2>1. Shown(w.recovery) # 0
    BY DEF Shown
  <2> QED BY <1>21, <2>1 DEF TypeOK, Panic
<1>22. CASE End
  <2>1. Shown(w.out) \in Final \cup {0}
    BY <1>0 DEF Shown, Final, Writers
  <2>2. w' \in Writers
    <3> DEFINE o == Shown(w.out)
               e == IF up.declared /\ w.bytes < up.total THEN "cut" ELSE "clean"
    <3>1. o \in Final \cup {0} /\ e \in {"open", "clean", "cut"}
      BY <2>1
    <3>2. w' = [w EXCEPT !.out = o, !.end = e]
      BY <1>22 DEF End
    <3> HIDE DEF o, e
    <3>3. [w EXCEPT !.out = o] \in Writers
      BY <1>0, <3>1 DEF Writers
    <3>4. \A x \in Writers : [x EXCEPT !.end = e] \in Writers
      BY <3>1 DEF Writers
    <3>5. [w EXCEPT !.out = o, !.end = e] = [[w EXCEPT !.out = o] EXCEPT !.end = e]
      BY <1>0 DEF Writers
    <3> QED BY <3>2, <3>3, <3>4, <3>5
  <2> QED BY <1>22, <2>2 DEF TypeOK, End
<1>23. CASE UNCHANGED vars
  BY <1>23 DEF TypeOK, vars
<1> QED
  BY <1>3, <1>4, <1>5, <1>6, <1>7, <1>8, <1>9, <1>10, <1>11, <1>12, <1>13, <1>14, <1>15,
     <1>16, <1>17, <1>18, <1>19, <1>20, <1>21, <1>22, <1>23 DEF Next, Upstream

LEMMA CountStep == TypeOK /\ StatusInv /\ CountInv /\ [Next]_vars => CountInv'
<1> SUFFICES ASSUME TypeOK, StatusInv, CountInv, [Next]_vars PROVE CountInv'
  OBVIOUS
<1> USE DEF Goto, fixed, exchange, verdict, CountInv
<1>0. /\ w \in Writers /\ conf' = conf /\ req' = req
      /\ \A c \in {401, 403, 405} : c \in Final /\ Shown(c) # 200
  BY DEF TypeOK, Next, Upstream, MethodGuard, UserAgentGuard, PathPrefixGuard, TokenGuard,
         Guard, Admit, Refuse, Miss, Hit4xx, Hit200, Inform, Fail, Respond, Copy, Copied,
         Abort, StoreResponse, Count, LogRequestTrace, Panic, End, vars, Final, Shown
<1>t. Tracked' = Tracked
  BY <1>0 DEF Tracked
<1>1. CASE MethodGuard \/ UserAgentGuard \/ PathPrefixGuard \/ TokenGuard
  BY <1>0, <1>t, <1>1 DEF MethodGuard, UserAgentGuard, PathPrefixGuard, TokenGuard, Guard, Block
<1>2. CASE Refuse
  BY <1>0, <1>t, <1>2 DEF Refuse
<1>3. CASE Admit \/ Miss \/ Hit4xx \/ Hit200
  BY <1>0, <1>t, <1>3 DEF Admit, Miss, Hit4xx, Hit200
<1>4. CASE Inform \/ Fail \/ Copied \/ Abort \/ StoreResponse
  BY <1>0, <1>t, <1>4 DEF Inform, Fail, Copied, Abort, StoreResponse
<1>5. ASSUME NEW s \in Status, NEW t \in 0..MaxTotal, NEW d \in BOOLEAN, Respond(s, t, d)
      PROVE  CountInv'
  BY <1>0, <1>t, <1>5 DEF Respond
<1>6. ASSUME NEW n \in 1..MaxWrite, Copy(n) PROVE CountInv'
  BY <1>0, <1>t, <1>6 DEF Copy
<1>7. CASE Count
  <2>1. counted' <=> Tracked /\ Shown(w.stats) = 200
    BY <1>7 DEF Count
  <2>2. Tracked => w.stats = IF w.info THEN 103 ELSE said
    BY <1>0, <1>7 DEF Count, StatusInv
  <2>3. counted' <=> Tracked /\ ~w.info /\ Shown(said) = 200
    BY <2>1, <2>2 DEF Shown
  <2> QED BY <1>0, <1>t, <1>7, <2>3 DEF Count
<1>8. CASE LogRequestTrace
  BY <1>0, <1>t, <1>8 DEF LogRequestTrace
<1>9. CASE Panic
  BY <1>0, <1>t, <1>9 DEF Panic
<1>10. CASE End
  <2>1. w'.info = w.info
    BY <1>0, <1>t, <1>10 DEF End, Writers
  <2> QED BY <1>0, <1>t, <1>10, <2>1 DEF End
<1>11. CASE UNCHANGED vars
  BY <1>0, <1>t, <1>11 DEF vars
<1> QED
  BY <1>1, <1>2, <1>3, <1>4, <1>5, <1>6, <1>7, <1>8, <1>9, <1>10, <1>11 DEF Next, Upstream

LEMMA TraceStep == TypeOK /\ StatusInv /\ TraceInv /\ [Next]_vars => TraceInv'
<1> SUFFICES ASSUME TypeOK, StatusInv, TraceInv, [Next]_vars PROVE TraceInv'
  OBVIOUS
<1> USE DEF Goto, fixed, exchange, verdict, ToSecure
<1>0. /\ trace \in Trace /\ w \in Writers
      /\ conf' = conf /\ req' = req /\ redis' = redis /\ redis \in Answer
  BY DEF TypeOK, Next, Upstream, MethodGuard, UserAgentGuard, PathPrefixGuard, TokenGuard,
         Guard, Admit, Refuse, Miss, Hit4xx, Hit200, Inform, Fail, Respond, Copy, Copied,
         Abort, StoreResponse, Count, LogRequestTrace, Panic, End, vars
\* A request that is blocked is not logged yet, and shown as not having passed.
<1>1. ASSUME NEW b, b # "", NEW c \in Final, at \in ToSecure, Block(b, c),
             logged' = logged
      PROVE  TraceInv'
  <2>1. /\ trace'.blockedBy = b /\ trace'.source = "blocked" /\ trace'.secure = trace.secure
        /\ at' = "log"
    BY <1>0, <1>1 DEF Block, Trace
  <2>2. Shows(SecureShown)' /\ logged'.status = 0
    <3>1. SecureShown' \in {"not_reached", "disabled"} /\ logged'.status = 0
      BY <1>1, <2>1 DEF TraceInv, SecureShown
    <3> QED BY <2>1, <3>1 DEF Shows, LetThrough
  <2> QED BY <2>1, <2>2 DEF TraceInv
<1>2. 403 \in Final /\ 405 \in Final
  BY DEF Final
<1>p. ASSUME UNCHANGED <<trace, logged>>,
             \/ at \in ToSecure /\ at' \in ToSecure
             \/ at \in {"upstream", "copy"} /\ at' \in {"upstream", "copy", "store"}
      PROVE  TraceInv'
  <2>1. logged'.status = 0
    BY <1>p DEF TraceInv
  <2> QED BY <1>0, <1>p, <2>1 DEF TraceInv, Shows
<1>3. CASE MethodGuard
  BY <1>1, <1>2, <1>p, <1>3 DEF MethodGuard, Guard
<1>4. CASE UserAgentGuard
  BY <1>1, <1>2, <1>p, <1>4 DEF UserAgentGuard, Guard
<1>5. CASE PathPrefixGuard
  BY <1>1, <1>2, <1>p, <1>5 DEF PathPrefixGuard, Guard
<1>6. CASE TokenGuard
  BY <1>1, <1>2, <1>p, <1>6 DEF TokenGuard, Guard
<1>7. CASE Admit
  <2> DEFINE m == SecureMark
  <2>1. /\ m # "pending"
        /\ m = "pass" => redis = "pass"
        /\ m = "redis_error_open" => redis = "error" /\ conf.open
    BY <1>0, MarkTold
  <2>2. /\ trace' = [trace EXCEPT !.secure = IF conf.secure THEN m ELSE trace.secure]
        /\ conf.secure => m \in LetThrough
        /\ at = "secure" /\ at' = "cache4xx" /\ logged' = logged
    BY <1>7 DEF Admit
  <2> HIDE DEF m
  <2>3. /\ trace'.secure = IF conf.secure THEN m ELSE "disabled"
        /\ trace'.source = "" /\ logged'.status = 0
    BY <1>0, <2>2 DEF TraceInv, Trace
  <2>4. Shows(trace.secure)' /\ trace'.secure # "pending" /\ trace'.source # "blocked"
    <3>1. CASE conf.secure
      <4>1. trace'.secure = m /\ m \in {"pass", "redis_error_open"} /\ conf'.secure
        BY <1>0, <2>2, <2>3, <3>1 DEF LetThrough
      <4> QED BY <1>0, <2>1, <2>3, <4>1 DEF Shows, LetThrough
    <3>2. CASE ~conf.secure
      <4>1. trace'.secure = "disabled" /\ ~conf'.secure
        BY <1>0, <2>3, <3>2
      <4> QED BY <2>3, <4>1 DEF Shows, LetThrough
    <3> QED BY <3>1, <3>2
  <2> QED BY <2>2, <2>3, <2>4 DEF TraceInv
<1>8. CASE Refuse
  <2> DEFINE m == SecureMark
  <2>1. m # "pending" /\ m \notin LetThrough
    BY <1>0, <1>8, MarkTold DEF Refuse
  <2>2. /\ trace'.secure = m /\ trace'.source = "blocked"
        /\ at = "secure" /\ at' = "log" /\ logged' = logged
    BY <1>8 DEF Refuse
  <2> HIDE DEF m
  <2>3. SecureShown' = m
    BY <2>1, <2>2 DEF SecureShown
  <2>4. Shows(SecureShown)'
    BY <2>1, <2>2, <2>3 DEF Shows, LetThrough
  <2>5. logged'.status = 0
    BY <2>2 DEF TraceInv
  <2> QED BY <2>2, <2>4, <2>5 DEF TraceInv
<1>9. CASE Miss
  BY <1>0, <1>9 DEF Miss, TraceInv, Shows
<1>10. CASE Hit4xx \/ Hit200 \/ Abort \/ StoreResponse
  <2>1. trace'.secure = trace.secure /\ trace'.source # "blocked"
    <3>1. ASSUME NEW s, s # "blocked", trace' = [trace EXCEPT !.source = s]
          PROVE  trace'.secure = trace.secure /\ trace'.source # "blocked"
      BY <1>0, <3>1 DEF Trace
    <3>2. CASE Hit4xx
      BY <1>0, <3>2 DEF Hit4xx, Trace
    <3> QED BY <1>10, <3>1, <3>2 DEF Hit200, Abort, StoreResponse
  <2>2. /\ at \in {"cache4xx", "cache200", "upstream", "copy", "store"} /\ at' = "stats"
        /\ logged' = logged
    BY <1>10 DEF Hit4xx, Hit200, Abort, StoreResponse
  <2>3. logged.status = 0
    BY <2>2 DEF TraceInv
  <2> QED BY <1>0, <2>1, <2>2, <2>3 DEF TraceInv, Shows
<1>11. CASE Inform \/ Fail \/ Copied
  BY <1>p, <1>11 DEF Inform, Fail, Copied
<1>12. ASSUME NEW s \in Status, NEW t \in 0..MaxTotal, NEW d \in BOOLEAN, Respond(s, t, d)
       PROVE  TraceInv'
  BY <1>p, <1>12 DEF Respond
<1>13. ASSUME NEW n \in 1..MaxWrite, Copy(n) PROVE TraceInv'
  BY <1>p, <1>13 DEF Copy
<1>14. CASE Count
  <2>1. Shows(trace.secure) /\ SecureShown' = trace.secure
    BY <1>14 DEF Count, SecureShown, TraceInv
  <2>2. Shows(SecureShown)'
    BY <1>0, <1>14, <2>1 DEF Count, Shows
  <2> QED BY <1>0, <1>14, <2>2 DEF Count, TraceInv
<1>15. CASE LogRequestTrace
  <2>1. CASE ~conf.debug
    BY <1>0, <1>15, <2>1 DEF LogRequestTrace, TraceInv, Shows
  <2>2. CASE conf.debug
    <3>1. /\ logged'.status = Shown(w.trace) /\ logged'.secure = SecureShown
          /\ logged'.token = RequestToken(IF body = "read" THEN "none" ELSE req.form)
      BY <1>15, <2>2 DEF LogRequestTrace
    <3>2. logged'.status = Shown(said) \/ w.info
      BY <2>2, <3>1 DEF StatusInv
    <3>3. logged'.token = RequestToken(req.form) \/ (body = "read" /\ req.form # "none")
      BY <3>1
    <3>4. Shows(logged'.secure)
      BY <1>15, <3>1 DEF LogRequestTrace, TraceInv
    <3>5. UNCHANGED <<w, trace, said, body>> /\ at' = "end"
      BY <1>15 DEF LogRequestTrace
    <3>6. Shows(logged.secure)'
      BY <1>0, <3>4, <3>5 DEF Shows
    <3> QED BY <1>0, <3>2, <3>3, <3>5, <3>6 DEF TraceInv, RequestToken, Shown
  <2> QED BY <2>1, <2>2
<1>16. CASE Panic
  BY <1>0, <1>16 DEF Panic, TraceInv, Shows
<1>17. CASE End
  <2>1. w'.info = w.info
    BY <1>0, <1>17 DEF End, Writers
  <2> QED BY <1>0, <1>17, <2>1 DEF End, TraceInv, Shows, RequestToken, Shown
<1>18. CASE UNCHANGED vars
  BY <1>0, <1>18 DEF vars, TraceInv, Shows, SecureShown, RequestToken, Shown
<1> QED
  BY <1>3, <1>4, <1>5, <1>6, <1>7, <1>8, <1>9, <1>10, <1>11, <1>12, <1>13, <1>14, <1>15,
     <1>16, <1>17, <1>18 DEF Next, Upstream

LEMMA StatusStep == TypeOK /\ StatusInv /\ CopyInv /\ [Next]_vars => StatusInv'
<1> SUFFICES ASSUME TypeOK, StatusInv, CopyInv, [Next]_vars PROVE StatusInv'
  OBVIOUS
<1> USE DEF Goto, fixed, exchange, verdict, ToSecure, ToUpstream, Returned
<1>0. /\ w \in Writers /\ conf' = conf /\ Tracked' = Tracked
      /\ \A c \in {200, 401, 403, 405, 502} : c \in Final
      /\ \A c \in Final : c # 0 /\ c # 103
  BY DEF TypeOK, Next, Upstream, MethodGuard, UserAgentGuard, PathPrefixGuard, TokenGuard,
         Guard, Admit, Refuse, Miss, Hit4xx, Hit200, Inform, Fail, Respond, Copy, Copied,
         Abort, StoreResponse, Count, LogRequestTrace, Panic, End, vars, Final,
         Tracked
\* Nothing was written before the upstream is asked.
<1>1. at \in ToSecure \cup {"cache4xx", "cache200"} =>
        ~w.info /\ said = 0 /\ w.recovery = 0 /\ w.out = 0 /\ w.stats = 0
        /\ (conf.debug => w.trace = 0)
  BY DEF StatusInv
<1>2. ASSUME NEW c \in Final, at \in ToSecure, at' = "log", said' = c,
             w' = TraceHeader(Marked(c), c)
      PROVE  StatusInv'
  <2>1. /\ w'.recovery = c /\ w'.out = c /\ ~w'.info /\ w'.stats = 0
        /\ conf.debug => w'.trace = c
    BY <1>0, <1>1, <1>2, BlockEffect DEF Passed
  <2> QED BY <1>0, <1>2, <2>1 DEF StatusInv
<1>3. ASSUME UNCHANGED <<w, said>>, at \in ToSecure,
             at' \in {"agent", "prefix", "token", "secure", "cache4xx"}
      PROVE  StatusInv'
  BY <1>0, <1>1, <1>3 DEF StatusInv
<1>4. CASE MethodGuard
  BY <1>0, <1>2, <1>3, <1>4 DEF MethodGuard, Guard, Block
<1>5. CASE UserAgentGuard
  BY <1>0, <1>2, <1>3, <1>5 DEF UserAgentGuard, Guard, Block
<1>6. CASE PathPrefixGuard
  BY <1>0, <1>2, <1>3, <1>6 DEF PathPrefixGuard, Guard, Block
<1>7. CASE TokenGuard
  BY <1>0, <1>2, <1>3, <1>7 DEF TokenGuard, Guard, Block
<1>8. CASE Admit
  BY <1>3, <1>8 DEF Admit
<1>9. CASE Refuse
  BY <1>0, <1>2, <1>9 DEF Refuse
<1>10. CASE Miss
  BY <1>0, <1>1, <1>10 DEF Miss, StatusInv
<1>11. ASSUME NEW c \in Final, at \in {"cache4xx", "cache200"}, at' = "stats", said' = c,
              w' = StatsWrite(StatsHeader(Marked(c), c), 1)
       PROVE  StatusInv'
  <2>1. /\ w'.recovery = c /\ w'.out = c /\ ~w'.info
        /\ Tracked => w'.stats = c
        /\ ~Tracked => w'.stats = 0
        /\ conf.debug => w'.trace = c
    BY <1>1, <1>11, HitEffect
  <2> QED BY <1>0, <1>11, <2>1 DEF StatusInv
<1>12. CASE Hit4xx \/ Hit200
  BY <1>0, <1>11, <1>12 DEF Hit4xx, Hit200
\* What a header through all the writers does.
<1>h. ASSUME NEW c \in Final \cup {103}, w' = BodyHeader(w, c)
      PROVE  /\ w'.capture = c
             /\ IF Tracked /\ w.stats # 0
                THEN /\ w'.stats = w.stats /\ w'.trace = w.trace
                     /\ w'.recovery = w.recovery /\ w'.out = w.out /\ (w'.info <=> w.info)
                ELSE /\ Passed(w', w, c) /\ Traced(w', w, c)
                     /\ w'.stats = IF Tracked THEN c ELSE w.stats
  <2> DEFINE u == BodyHeader(w, c)
  <2>1. w \in Writers
    BY <1>0
  <2>2. /\ u.capture = c
        /\ IF Tracked /\ w.stats # 0
           THEN /\ u.stats = w.stats /\ u.trace = w.trace
                /\ u.recovery = w.recovery /\ u.out = w.out /\ (u.info <=> w.info)
           ELSE /\ Passed(u, w, c) /\ Traced(u, w, c)
                /\ u.stats = IF Tracked THEN c ELSE w.stats
    BY <2>1, BodyEffect
  <2>3. w' = u
    BY <1>h
  <2> HIDE DEF u
  <2> QED BY <2>2, <2>3
<1>13. CASE Inform
  <2>1. ~w.info /\ said = 0 /\ w.recovery = 0 /\ w.out = 0 /\ w.stats = 0
    BY <1>13 DEF Inform, StatusInv
  <2>2. /\ w'.recovery = 103 /\ w'.out = 0 /\ w'.info /\ (Tracked => w'.stats = 103)
    <3>1. 103 \in Final \cup {103} /\ w' = BodyHeader(w, 103)
      BY <1>13 DEF Inform
    <3> QED BY <1>0, <1>h, <2>1, <3>1 DEF Passed
  <2> QED BY <1>0, <1>13, <2>1, <2>2 DEF Inform, StatusInv
<1>14. ASSUME NEW c \in Final, at = "upstream", at' \in {"copy", "store"}, said' = c,
              w' = BodyHeader(w, c)
       PROVE  StatusInv'
  <2>0. c \in Final \cup {103}
    OBVIOUS
  <2>1. w'.capture = c
    BY <1>h, <1>14, <2>0
  <2>2. CASE ~w.info
    <3>1. said = 0 /\ w.recovery = 0 /\ w.out = 0 /\ w.stats = 0 /\ (conf.debug => w.trace = 0)
      BY <1>14, <2>2 DEF StatusInv
    <3>2. /\ w'.recovery = c /\ w'.out = c /\ ~w'.info
          /\ w'.stats = IF Tracked THEN c ELSE 0
          /\ conf.debug => w'.trace = c
      BY <1>0, <1>h, <1>14, <2>0, <2>2, <3>1 DEF Passed, Traced
    <3> QED BY <1>0, <1>14, <2>1, <3>2 DEF StatusInv
  <2>3. CASE w.info
    <3>1. w.recovery = 103 /\ w.out \in {0, 200} /\ (Tracked => w.stats = 103)
      BY <2>3 DEF StatusInv
    <3>2. /\ w'.recovery = 103 /\ w'.out = w.out /\ w'.info
          /\ (Tracked => w'.stats = 103)
      <4>1. CASE Tracked
        BY <1>h, <1>14, <2>0, <2>3, <3>1, <4>1
      <4>2. CASE ~Tracked
        BY <1>h, <1>14, <2>0, <2>3, <3>1, <4>2 DEF Passed
      <4> QED BY <4>1, <4>2
    <3> QED BY <1>0, <1>14, <2>1, <3>1, <3>2 DEF StatusInv
  <2> QED BY <2>2, <2>3
<1>15. ASSUME NEW s \in Status, NEW t \in 0..MaxTotal, NEW d \in BOOLEAN, Respond(s, t, d)
       PROVE  StatusInv'
  <2>1. s \in Final
    BY ChainAssumption DEF Final
  <2> QED BY <1>14, <1>15, <2>1 DEF Respond
<1>16. CASE Fail
  BY <1>0, <1>14, <1>16 DEF Fail
<1>17. ASSUME NEW n \in 1..MaxWrite, Copy(n) PROVE StatusInv'
  <2>0. n \in Nat /\ at = "copy" /\ UNCHANGED <<at, said, panic>> /\ said # 0
        /\ w.capture = said
    BY <1>17, ChainAssumption DEF Copy, StatusInv
  <2>1. /\ w'.out = Shown(w.out) /\ w'.recovery = Shown(w.recovery)
        /\ w'.trace = IF conf.debug THEN Shown(w.trace) ELSE w.trace
        /\ w'.stats = IF Tracked THEN Shown(w.stats) ELSE w.stats
        /\ w'.capture = Shown(w.capture) /\ w'.info = w.info
    BY <1>0, <1>17, <2>0, BodyWriteEffect DEF Copy
  <2>2. CASE ~w.info
    <3>1. /\ w.recovery = said /\ w.stats \in {0, said} /\ w.out = said
          /\ conf.debug => w.trace = said
          /\ Tracked => w.stats = said
      BY <2>0, <2>2 DEF StatusInv
    <3>2. /\ w'.recovery = said /\ w'.stats \in {0, said} /\ w'.out = said
          /\ conf.debug => w'.trace = said
          /\ Tracked => w'.stats = said
          /\ ~w'.info /\ w'.capture = said
      BY <2>0, <2>1, <2>2, <3>1 DEF Shown
    <3> QED BY <1>0, <2>0, <3>2 DEF StatusInv
  <2>3. CASE w.info
    <3>1. w.recovery = 103 /\ w.out \in {0, 200} /\ (Tracked => w.stats = 103)
      BY <2>3 DEF StatusInv
    <3>2. /\ w'.recovery = 103 /\ w'.out = 200 /\ (Tracked => w'.stats = 103)
          /\ w'.info /\ w'.capture = said
      BY <2>0, <2>1, <2>3, <3>1 DEF Shown
    <3> QED BY <1>0, <2>0, <3>2 DEF StatusInv
  <2> QED BY <2>2, <2>3
<1>18. CASE Copied
  BY <1>0, <1>18 DEF Copied, StatusInv
<1>19. CASE Abort
  BY <1>0, <1>19 DEF Abort, StatusInv
<1>20. CASE StoreResponse
  <2>0. at = "store" /\ at' = "stats" /\ UNCHANGED <<said, panic>>
    BY <1>20 DEF StoreResponse
  <2>1. said \in Final /\ Shown(w.capture) = said
    BY <2>0 DEF StatusInv, TypeOK, Shown
  <2>2. /\ w'.recovery = w.recovery /\ w'.out = w.out /\ w'.info = w.info
        /\ w'.stats = w.stats
        /\ w'.trace = IF conf.debug THEN said ELSE w.trace
    BY <1>20, <2>1, MarkedEffect DEF StoreResponse
  <2> QED BY <1>0, <2>0, <2>1, <2>2 DEF StatusInv
<1>21. CASE Count \/ LogRequestTrace
  BY <1>0, <1>21 DEF Count, LogRequestTrace, StatusInv
<1>22. CASE Panic
  <2>1. w' = w /\ said' = said /\ at' = "end" /\ panic' # {} /\ at # "done"
    BY <1>22 DEF Panic, Shown
  <2> QED BY <1>0, <2>1 DEF StatusInv
<1>23. CASE End
  <2>1. /\ w'.out = Shown(w.out) /\ w'.info = w.info /\ w'.recovery = w.recovery
        /\ w'.stats = w.stats /\ w'.trace = w.trace
        /\ at = "end" /\ at' = "done" /\ UNCHANGED <<said, panic>>
    BY <1>0, <1>23 DEF End, Writers
  <2>2. CASE ~w.info
    BY <1>0, <2>1, <2>2 DEF StatusInv
  <2>3. CASE w.info
    BY <1>0, <2>1, <2>3 DEF StatusInv, Shown
  <2> QED BY <2>2, <2>3
<1>24. CASE UNCHANGED vars
  BY <1>0, <1>24 DEF vars, StatusInv, Shown
<1> QED
  BY <1>4, <1>5, <1>6, <1>7, <1>8, <1>9, <1>10, <1>12, <1>13, <1>15, <1>16, <1>17, <1>18,
     <1>19, <1>20, <1>21, <1>22, <1>23, <1>24 DEF Next, Upstream

LEMMA CopyStep ==
  TypeOK /\ StatusInv /\ CopyInv /\ StoredIsServed /\ [Next]_vars
    => CopyInv' /\ StoredIsServed'
<1> SUFFICES ASSUME TypeOK, StatusInv, CopyInv, StoredIsServed, [Next]_vars
             PROVE  CopyInv' /\ StoredIsServed'
  OBVIOUS
<1> USE DEF Goto, fixed, exchange, verdict, ToSecure, ToUpstream, Returned
<1>0. /\ w \in Writers /\ up \in Reply /\ MaxBody \in Nat \ {0}
      /\ \A c \in {200, 403, 405, 502} : c \in Final
  BY ChainAssumption DEF TypeOK, Final
<1>1. NoReply.total = 0 /\ NoReply.status = 0
  BY DEF NoReply
\* An answer of the proxy's own, before the upstream was asked.
<1>2. ASSUME NEW c \in Final, at \in ToSecure, at' = "log", UNCHANGED exchange,
             w' = TraceHeader(Marked(c), c)
      PROVE  CopyInv' /\ StoredIsServed'
  <2>1. w'.bytes = 0 /\ w'.end = "open"
    BY <1>2, BlockEffect DEF Passed, SameBody, CopyInv
  <2> QED BY <1>1, <1>2, <2>1 DEF CopyInv, StoredIsServed
<1>3. ASSUME UNCHANGED <<w, exchange>>, at \in ToUpstream, at' \in ToUpstream
      PROVE  CopyInv' /\ StoredIsServed'
  BY <1>1, <1>3 DEF CopyInv, StoredIsServed
<1>4. CASE MethodGuard
  BY <1>0, <1>2, <1>3, <1>4 DEF MethodGuard, Guard, Block
<1>5. CASE UserAgentGuard
  BY <1>0, <1>2, <1>3, <1>5 DEF UserAgentGuard, Guard, Block
<1>6. CASE PathPrefixGuard
  BY <1>0, <1>2, <1>3, <1>6 DEF PathPrefixGuard, Guard, Block
<1>7. CASE TokenGuard
  BY <1>0, <1>2, <1>3, <1>7 DEF TokenGuard, Guard, Block
<1>8. CASE Admit \/ Miss
  BY <1>3, <1>8 DEF Admit, Miss
<1>9. CASE Refuse
  <2>1. 401 \in Final
    BY DEF Final
  <2> QED BY <1>0, <1>2, <1>9, <2>1 DEF Refuse
<1>10. ASSUME NEW c \in Final, at \in {"cache4xx", "cache200"}, at' = "stats",
              UNCHANGED exchange, w' = StatsWrite(StatsHeader(Marked(c), c), 1)
       PROVE  CopyInv' /\ StoredIsServed'
  <2>1. ~w.info /\ w.recovery = 0 /\ w.out = 0 /\ w.stats = 0
    BY <1>10 DEF StatusInv
  <2>2. w.bytes = 0 /\ w.end = "open" /\ up = NoReply /\ stored = "none"
    BY <1>10 DEF CopyInv
  <2>3. w'.bytes = 1 /\ w'.end = "open"
    BY <1>10, <2>1, <2>2, HitEffect
  <2> QED BY <1>1, <1>10, <2>2, <2>3 DEF CopyInv, StoredIsServed
<1>11. CASE Hit4xx \/ Hit200
  BY <1>0, <1>10, <1>11 DEF Hit4xx, Hit200
<1>12. ASSUME NEW c \in Final \cup {103}, w' = BodyHeader(w, c)
       PROVE  SameBody(w', w)
  <2> DEFINE u == BodyHeader(w, c)
  <2>1. SameBody(u, w)
    <3>1. w \in Writers
      BY <1>0
    <3>2. IF Tracked /\ w.stats # 0 THEN SameBody(u, w) ELSE Passed(u, w, c)
      BY <3>1, BodyEffect
    <3> QED BY <3>2 DEF Passed
  <2>2. w' = u
    BY <1>12
  <2> QED BY <2>1, <2>2
<1>13. CASE Inform
  <2>1. 103 \in Final \cup {103} /\ w' = BodyHeader(w, 103)
    BY <1>13 DEF Inform
  <2>2. SameBody(w', w)
    BY <1>12, <2>1
  <2> QED BY <1>1, <1>13, <2>2 DEF Inform, CopyInv, StoredIsServed, SameBody
<1>14. ASSUME NEW s \in Status, NEW t \in 0..MaxTotal, NEW d \in BOOLEAN, Respond(s, t, d)
       PROVE  CopyInv' /\ StoredIsServed'
  <2>1. s \in Final \cup {103} /\ s # 0
    BY ChainAssumption DEF Final
  <2>2. SameBody(w', w)
    BY <1>12, <1>14, <2>1 DEF Respond
  <2>3. /\ up'.status = s /\ up'.total = t /\ up'.sent = 0 /\ said' = s
        /\ at = "upstream" /\ at' = "copy" /\ stored' = stored
    BY <1>14 DEF Respond
  <2>4. w.bytes = 0 /\ w.size = 0 /\ ~w.exceeded /\ w.end = "open" /\ stored = "none"
    BY <2>3 DEF CopyInv
  <2>5. w'.bytes = 0 /\ w'.size = 0 /\ ~w'.exceeded /\ w'.end = "open"
    BY <2>2, <2>4 DEF SameBody
  <2> QED BY <1>0, <2>1, <2>3, <2>4, <2>5 DEF CopyInv, StoredIsServed
<1>15. CASE Fail
  <2>1. 502 \in Final \cup {103}
    BY DEF Final
  <2>2. SameBody(w', w)
    BY <1>12, <1>15, <2>1 DEF Fail
  <2>3. /\ up' = NoReply /\ said' = 502 /\ at' = "store" /\ stored' = "none"
        /\ w.bytes = 0 /\ w.size = 0 /\ ~w.exceeded /\ w.end = "open"
    BY <1>15 DEF Fail, CopyInv
  <2>4. w'.bytes = 0 /\ w'.size = 0 /\ ~w'.exceeded /\ w'.end = "open"
    BY <2>2, <2>3 DEF SameBody
  <2>5. NoReply.sent = 0
    BY DEF NoReply
  <2> QED BY <1>0, <1>1, <2>3, <2>4, <2>5 DEF CopyInv, StoredIsServed
<1>16. ASSUME NEW n \in 1..MaxWrite, Copy(n) PROVE CopyInv' /\ StoredIsServed'
  <2>0. n \in Nat /\ n > 0 /\ w' = BodyWrite(w, n)
    BY <1>16, ChainAssumption DEF Copy
  <2>1. /\ w'.bytes = w.bytes + n
        /\ w'.exceeded <=> (w.exceeded \/ n > MaxBody - w.size)
        /\ ~w'.exceeded => w'.size = w.size + n
        /\ w'.end = w.end
    <3> DEFINE u == BodyWrite(w, n)
    <3>1. w \in Writers /\ w' = u
      BY <1>0, <2>0
    <3>2. /\ u.bytes = w.bytes + n
          /\ u.exceeded <=> (w.exceeded \/ n > MaxBody - w.size)
          /\ ~u.exceeded => u.size = w.size + n
          /\ u.end = w.end
      BY <2>0, <3>1, BodyWriteEffect
    <3> HIDE DEF u
    <3> QED BY <3>1, <3>2
  <2>2. /\ up'.status = up.status /\ up'.total = up.total /\ up'.sent = up.sent + n
        /\ up'.declared = up.declared
        /\ at = "copy" /\ UNCHANGED <<at, said, stored, panic>>
    BY <1>0, <1>16 DEF Copy, Reply
  <2>3. /\ said = IF up.status = 0 THEN 502 ELSE up.status
        /\ w.bytes = up.sent
        /\ w.exceeded <=> up.sent > MaxBody
        /\ ~w.exceeded => w.size = up.sent
        /\ up.status # 0 /\ stored = "none" /\ w.end = "open"
    BY <2>2 DEF CopyInv
  <2>4. up.sent \in Nat /\ w.size \in Nat
    BY <1>0 DEF Reply, Writers
  <2>5. w'.exceeded <=> up'.sent > MaxBody
    <3>1. CASE w.exceeded
      BY <1>0, <2>0, <2>1, <2>2, <2>3, <2>4, <3>1
    <3>2. CASE ~w.exceeded
      BY <1>0, <2>0, <2>1, <2>2, <2>3, <2>4, <3>2
    <3> QED BY <3>1, <3>2
  <2>6. ~w'.exceeded => w'.size = up'.sent
    BY <2>1, <2>2, <2>3
  <2>7. w'.bytes = up'.sent /\ w'.end = "open"
    BY <2>1, <2>2, <2>3
  <2> QED BY <2>2, <2>3, <2>5, <2>6, <2>7 DEF CopyInv, StoredIsServed
<1>17. CASE Copied
  BY <1>17 DEF Copied, CopyInv, StoredIsServed
<1>18. CASE Abort
  <2>1. panic' # {} /\ "swallowed" \in panic'
    BY <1>18 DEF Abort
  <2> QED BY <1>18, <2>1 DEF Abort, CopyInv, StoredIsServed
<1>19. CASE StoreResponse
  <2>1. /\ w.capture = said /\ w.bytes = up.sent /\ up.sent = up.total
        /\ said = IF up.status = 0 THEN 502 ELSE up.status
        /\ w.exceeded <=> up.sent > MaxBody
        /\ ~w.exceeded => w.size = up.sent
        /\ w.end = "open" /\ said \in Final
    BY <1>19 DEF StoreResponse, CopyInv, StatusInv, TypeOK
  <2>2. SameBody(w', w)
    <3>1. Shown(w.capture) \in Final
      BY <2>1 DEF Shown, Final
    <3> QED BY <1>19, <3>1, MarkedEffect DEF StoreResponse
  <2>3. stored' = "200" => said = 200 /\ ~w.exceeded /\ w.size > 0
    BY <1>19, <2>1 DEF StoreResponse, Cacheable
  <2>4. stored' = "4xx" => said \in 400..499
    BY <1>19, <2>1 DEF StoreResponse
  <2>5. up.status = 200 /\ up.total \in 1..MaxBody => stored' = "200"
    BY <1>0, <1>19, <2>1 DEF StoreResponse, Cacheable, Reply
  <2>6. up' = up /\ at' = "stats" /\ panic' = panic
    BY <1>19 DEF StoreResponse
  <2>7. ~(w'.bytes < up'.total)
    BY <1>0, <2>1, <2>2, <2>6 DEF SameBody, Writers
  <2>8. CopyInv'
    BY <2>1, <2>2, <2>5, <2>6, <2>7 DEF CopyInv, SameBody
  <2>9. StoredIsServed'
    BY <2>1, <2>2, <2>3, <2>4, <2>6 DEF StoredIsServed, SameBody
  <2> QED BY <2>8, <2>9
<1>20. CASE Count \/ LogRequestTrace
  BY <1>20 DEF Count, LogRequestTrace, CopyInv, StoredIsServed
<1>21. CASE Panic
  <2>1. /\ w' = w /\ at' = "end" /\ UNCHANGED exchange
        /\ at \notin {"upstream", "copy", "end", "done"}
        /\ panic' # {} /\ panic \subseteq panic'
    BY <1>21 DEF Panic, Shown
  <2>2. w.bytes < up.total => "swallowed" \in panic
    <3>1. CASE at \in ToUpstream
      BY <1>1, <3>1 DEF CopyInv
    <3>2. CASE at = "store"
      BY <1>0, <3>2 DEF CopyInv, Reply
    <3>3. CASE at \in Returned
      BY <3>3 DEF CopyInv
    <3> QED BY <2>1, <3>1, <3>2, <3>3 DEF TypeOK
  <2> QED BY <2>1, <2>2 DEF CopyInv, StoredIsServed
<1>22. CASE End
  <2>1. /\ w'.bytes = w.bytes /\ w'.size = w.size
        /\ w'.end = IF up.declared /\ w.bytes < up.total THEN "cut" ELSE "clean"
        /\ at = "end" /\ at' = "done" /\ UNCHANGED <<exchange, panic>>
    BY <1>0, <1>22 DEF End, Writers
  <2>2. CopyInv'
    BY <2>1 DEF CopyInv
  <2>3. StoredIsServed'
    BY <2>1 DEF CopyInv, StoredIsServed
  <2> QED BY <2>2, <2>3
<1>23. CASE UNCHANGED vars
  BY <1>23 DEF vars, CopyInv, StoredIsServed
<1> QED
  BY <1>4, <1>5, <1>6, <1>7, <1>8, <1>9, <1>11, <1>13, <1>14, <1>15, <1>16, <1>17, <1>18,
     <1>19, <1>20, <1>21, <1>22, <1>23 DEF Next, Upstream

LEMMA ChainInvariant == Spec => []ChainInv
<1>1. Init => ChainInv
  <2> SUFFICES ASSUME Init PROVE ChainInv
    OBVIOUS
  <2>1. w \in Writers /\ trace \in Trace /\ up \in Reply
    <3>1. w \in Writers
      <4>1. 0 \in Noted /\ 0 \in Final \cup {0} /\ 0 \in 0..MaxBody
        BY ChainAssumption DEF Noted
      <4> QED BY <4>1 DEF Init, Writers
    <3>2. trace \in Trace
      <4>1. (IF conf.secure THEN "pending" ELSE "disabled") \in {"pending", "disabled"}
        OBVIOUS
      <4>2. "" \in Blocker /\ "" \in Source
        BY DEF Blocker, Source
      <4> QED BY <4>1, <4>2 DEF Init, Trace
    <3>3. up \in Reply
      BY DEF Init, NoReply, Reply
    <3> QED BY <3>1, <3>2, <3>3
  <2>2. TypeOK
    <3>1. up.sent = 0 /\ up.total = 0
      BY DEF Init, NoReply
    <3>2. /\ conf \in Conf /\ req \in Request /\ redis \in Answer /\ at = "method" /\ body = "unread"
          /\ stored = "none" /\ panic = {} /\ said = 0
      BY DEF Init
    <3>3. counted \in BOOLEAN
      BY DEF Init
    <3>4. up.sent <= up.total
      BY <3>1
    <3> QED BY <2>1, <3>2, <3>3, <3>4 DEF TypeOK
  <2>3. StatusInv
    BY DEF Init, StatusInv, ToSecure, ToUpstream, Returned
  <2>4. CopyInv /\ StoredIsServed
    BY DEF Init, CopyInv, StoredIsServed, ToSecure, ToUpstream, Returned
  <2>5. TraceInv /\ CountInv
    BY DEF Init, TraceInv, CountInv, ToSecure, SecureShown
  <2> QED BY <2>2, <2>3, <2>4, <2>5 DEF ChainInv
<1>2. ChainInv /\ [Next]_vars => ChainInv'
  BY TypeStep, StatusStep, CopyStep, TraceStep, CountStep DEF ChainInv
<1> QED BY <1>1, <1>2, PTL DEF Spec

-----------------------------------------------------------------------------
(* The properties *)

\* The writers, the trace and the exchange keep their types (ProxyRouter).
THEOREM TypeCorrect == Spec => []TypeOK
<1> QED BY ChainInvariant, PTL DEF ChainInv

\* A response in a cache is one the client got whole, however the upstream cut it up,
\* and a 200 that fits is stored (BodyCaptureWriter).
THEOREM StoredIsServedAlways == Spec => []StoredIsServed
<1> QED BY ChainInvariant, PTL DEF ChainInv

\* The client reads the status of the handler that answered, unless a 1xx or a panic
\* came first; and takes a body that broke off for a complete one only when its length
\* was not declared and the panic was swallowed (Recovery, forwardToUpstream).
THEOREM AnswerExplainedAlways == Spec => []AnswerExplained
<1>1. ChainInv => AnswerExplained
  <2> SUFFICES ASSUME ChainInv PROVE AnswerExplained
    OBVIOUS
  <2>1. StatusExplained
    <3> SUFFICES ASSUME at = "done", w.out # said PROVE w.out = 200 /\ (w.info \/ panic # {})
      BY DEF StatusExplained
    <3>1. CASE w.info
      BY <3>1 DEF ChainInv, StatusInv
    <3>2. CASE ~w.info
      <4>1. w.out = Shown(said)
        BY <3>2 DEF ChainInv, StatusInv
      <4>2. said = 0
        BY <4>1 DEF Shown
      <4>3. panic # {}
        BY <4>2 DEF ChainInv, StatusInv, Returned
      <4> QED BY <4>1, <4>2, <4>3 DEF Shown
    <3> QED BY <3>1, <3>2
  <2>2. TruncationExplained
    <3> SUFFICES ASSUME w.end = "clean", w.bytes < up.total
                 PROVE  "swallowed" \in panic /\ ~up.declared
      BY DEF TruncationExplained
    <3>1. at = "done" /\ ~up.declared
      BY DEF ChainInv, CopyInv
    <3> QED BY <3>1 DEF ChainInv, CopyInv, Returned
  <2> QED BY <2>1, <2>2 DEF AnswerExplained
<1> QED BY <1>1, ChainInvariant, PTL

\* What the trace logs agrees with the wire, with the secure check and with what Redis
\* said to it: passed, or let through on an error in the fail-open mode
\* (logRequestTrace, MarkSecure).
THEOREM LogTellsWireAlways == Spec => []LogTellsWire
<1>1. ChainInv => LogTellsWire
  <2> SUFFICES ASSUME ChainInv, at = "done", logged.status # 0
               PROVE  /\ logged.status = w.out \/ w.info
                      /\ Shows(logged.secure)
                      /\ logged.token = RequestToken(req.form)
                         \/ (body = "read" /\ req.form # "none")
    BY DEF LogTellsWire, Shows
  <2>1. ~w.info => w.out = Shown(said)
    BY DEF ChainInv, StatusInv
  <2>2. /\ logged.status = Shown(said) \/ w.info
        /\ Shows(logged.secure)
        /\ logged.token = RequestToken(req.form) \/ (body = "read" /\ req.form # "none")
    BY DEF ChainInv, TraceInv
  <2> QED BY <2>1, <2>2
<1> QED BY <1>1, ChainInvariant, PTL

\* A visit is counted if and only if the statistics count its path and the client
\* reads a 200 that no 1xx went before (stats.Middleware).
THEOREM CountedIsServedAlways == Spec => []CountedIsServed
<1>1. ChainInv => CountedIsServed
  <2> SUFFICES ASSUME ChainInv, at = "done", "recovered" \notin panic
               PROVE  counted <=> Tracked /\ w.out = 200 /\ ~w.info
    BY DEF CountedIsServed
  <2>1. ~w.info => w.out = Shown(said)
    BY DEF ChainInv, StatusInv
  <2>2. counted <=> Tracked /\ ~w.info /\ Shown(said) = 200
    BY DEF ChainInv, CountInv
  <2> QED BY <2>1, <2>2
<1> QED BY <1>1, ChainInvariant, PTL
=============================================================================
