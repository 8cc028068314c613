------------------------------ MODULE MCStartup ------------------------------
(* An instance of Startup for TLC: files that leave most fields to the defaults. *)
EXTENDS Startup

Base ==
  [upstream |-> "good", ttl200 |-> None, ttl4xx |-> None, duration |-> None,
   port |-> None, adminPort |-> None, logLevel |-> None, failMode |-> None,
   secure |-> FALSE, stats |-> FALSE, admin |-> FALSE, prefix |-> "given",
   size |-> 0, workers |-> 0, hours |-> 0]

Parts == {[Base EXCEPT !.secure = s, !.stats = t, !.admin = a] : s, t, a \in BOOLEAN}

\* Every choice of the parts, and with it any value of one field or of a pair that
\* belongs together.
MCRaw ==
  UNION
    {{[b EXCEPT !.upstream = u, !.prefix = p] :
         u \in {None, "placeholder", "unparsable", "good"}, p \in {None, "given"}}
     \cup {[b EXCEPT !.ttl200 = t] : t \in Text(Number)}
     \cup {[b EXCEPT !.ttl4xx = t] : t \in {-1, 0, 2, 3, 6}}
     \cup {[b EXCEPT !.hours = h] : h \in {-1, 1, 3, 4, 7}}
     \cup {[b EXCEPT !.port = p, !.adminPort = q] :
             p, q \in {None, "8080", "8081"}}
     \cup {[b EXCEPT !.duration = t] : t \in {Bad, 0}}
     \cup {[b EXCEPT !.logLevel = l] : l \in {Bad, "debug"}}
     \cup {[b EXCEPT !.failMode = f] : f \in {Bad, "open"}}
     \cup {[b EXCEPT !.size = n, !.workers = m] : n \in {-1, 0, 3, 5, 6, 7}, m \in {-1, 0, 3}}
     : b \in Parts}
=============================================================================
