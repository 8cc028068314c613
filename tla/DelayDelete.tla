---------------------------- MODULE DelayDelete ----------------------------
(***************************************************************************)
(* The delayed deletion of a used secure token (secure/delay_delete.go).   *)
(* A use of a token arms a timer and notes it in the map pending; a later  *)
(* use of the same token stops the timer it finds there and arms another.  *)
(* When a timer goes off, its callback runs in a goroutine of its own: it  *)
(* takes the mutex, removes the token's entry, lets the mutex go, looks at *)
(* the context and deletes the token.  With MaxPending tokens in the map a *)
(* use deletes its token at once, and keeps the mutex while it does.       *)
(*                                                                         *)
(* A request uses one token once, so r names the use, and the timer it     *)
(* armed.  What the deletion does to Redis is left to SecureGate: deleteNow*)
(* gives nothing back, and a failed DEL is only logged.                    *)
(***************************************************************************)
EXTENDS Naturals, FiniteSets

CONSTANTS
  Request,     \* the requests that use a token
  Token,
  MaxPending,  \* limit of the map
  Delay,       \* ticks from a use to the deletion
  None         \* no timer, nobody

ASSUME DeleterAssumption ==
  /\ MaxPending \in Nat \ {0} /\ Delay \in Nat
  /\ None \notin Request /\ IsFiniteSet(Token)

VARIABLES
  cancelled,  \* the context is done
  stopped,    \* stopAll has run and left the map nil
  token,      \* token[r]: the token of r
  pending,    \* pending[t]: the timer the map holds for t, or None
  use,        \* use[r]: where the use r, then its timer and callback, stand
  left,       \* left[r]: ticks until the timer of r goes off
  mu,         \* the request that keeps the mutex over a deletion, or None
  taker       \* taker[r]: whose callback took the entry of the armed r, or None
              \* (history)

deleterVars == <<cancelled, stopped, token, pending, use, left, mu, taker>>

\* The steps of a use: its timer is armed, fired (the callback has started) or
\* stopped; the callback has cleared the entry, then abandons the deletion, is
\* deleting, or has deleted.  A spilling use deletes at once, a refused one came
\* after the cancellation.
Stage == {"idle", "refused", "spilling", "spilled", "armed", "stopped",
          "fired", "cleared", "abandoned", "deleting", "deleted"}

Tracked(map) == {t \in Token : map[t] # None}

Init ==
  /\ cancelled = FALSE /\ stopped = FALSE
  /\ token \in [Request -> Token]
  /\ pending = [t \in Token |-> None]
  /\ use = [r \in Request |-> "idle"]
  /\ left = [r \in Request |-> 0]
  /\ mu = None
  /\ taker = [r \in Request |-> None]

\* Mutant: the timer found in the map is not stopped.
NotStopping(S, r, s) == use' = [use EXCEPT ![r] = s]

\* The timers of the set S stopped before they went off, r moved on to stage s.
\* Stop does nothing to a timer whose callback has started.
Stopping(S, r, s) ==
  use' = [q \in Request |->
            IF q = r THEN s
            ELSE IF q \in S /\ use[q] = "armed" THEN "stopped" ELSE use[q]]

-----------------------------------------------------------------------------
(* schedule: the mutex is free, and taken for the whole call *)

Dropped(t) == [pending EXCEPT ![t] = None]

ScheduleRefused(r) ==
  /\ use[r] = "idle" /\ mu = None
  /\ cancelled
  /\ use' = [use EXCEPT ![r] = "refused"]
  /\ UNCHANGED <<cancelled, stopped, token, pending, left, mu, taker>>

\* The map is full without the token: deleteNow runs under the mutex.
ScheduleSpill(r) ==
  /\ use[r] = "idle" /\ mu = None
  /\ ~cancelled
  /\ Cardinality(Tracked(Dropped(token[r]))) >= MaxPending
  /\ pending' = Dropped(token[r])
  /\ Stopping({pending[token[r]]}, r, "spilling")
  /\ mu' = r
  /\ UNCHANGED <<cancelled, stopped, token, left, taker>>

\* Mutant: the delay of the timer it replaces is added.
ScheduleArmLonger(r) ==
  /\ use[r] = "idle" /\ mu = None
  /\ ~cancelled
  /\ Cardinality(Tracked(Dropped(token[r]))) < MaxPending
  /\ pending' = [pending EXCEPT ![token[r]] = r]
  /\ Stopping({pending[token[r]]}, r, "armed")
  /\ left' = [left EXCEPT ![r] = Delay + IF pending[token[r]] = None THEN 0
                                         ELSE left[pending[token[r]]]]
  /\ UNCHANGED <<cancelled, stopped, token, mu, taker>>

\* Mutant: one too many.
ScheduleArmOneMore(r) ==
  /\ use[r] = "idle" /\ mu = None
  /\ ~cancelled
  /\ Cardinality(Tracked(Dropped(token[r]))) <= MaxPending
  /\ pending' = [pending EXCEPT ![token[r]] = r]
  /\ Stopping({pending[token[r]]}, r, "armed")
  /\ left' = [left EXCEPT ![r] = Delay]
  /\ UNCHANGED <<cancelled, stopped, token, mu, taker>>

\* Mutant: the context is not looked at.
ScheduleArmAnyway(r) ==
  /\ use[r] = "idle" /\ mu = None
  /\ Cardinality(Tracked(Dropped(token[r]))) < MaxPending
  /\ pending' = [pending EXCEPT ![token[r]] = r]
  /\ Stopping({pending[token[r]]}, r, "armed")
  /\ left' = [left EXCEPT ![r] = Delay]
  /\ UNCHANGED <<cancelled, stopped, token, mu, taker>>

ScheduleArm(r) ==
  /\ use[r] = "idle" /\ mu = None
  /\ ~cancelled
  /\ Cardinality(Tracked(Dropped(token[r]))) < MaxPending
  /\ pending' = [pending EXCEPT ![token[r]] = r]
  /\ Stopping({pending[token[r]]}, r, "armed")
  /\ left' = [left EXCEPT ![r] = Delay]
  /\ UNCHANGED <<cancelled, stopped, token, mu, taker>>

Schedule(r) == ScheduleRefused(r) \/ ScheduleSpill(r) \/ ScheduleArm(r)

SpillDone(r) ==
  /\ use[r] = "spilling"
  /\ use' = [use EXCEPT ![r] = "spilled"]
  /\ mu' = None
  /\ UNCHANGED <<cancelled, stopped, token, pending, left, taker>>

-----------------------------------------------------------------------------
(* The timer's callback *)

Fire(r) ==
  /\ use[r] = "armed" /\ left[r] = 0
  /\ use' = [use EXCEPT ![r] = "fired"]
  /\ taker' = [taker EXCEPT ![r] = None]
  /\ UNCHANGED <<cancelled, stopped, token, pending, left, mu>>

\* The token's entry goes, whichever timer it names by now.
TakeOut(r) ==
  /\ pending' = Dropped(token[r])
  /\ taker' = [q \in Request |->
                IF q = pending[token[r]] /\ use[q] = "armed" THEN r ELSE taker[q]]

\* Mutant: the callback leaves the entry in the map.
ClearNothing(r) ==
  /\ use[r] = "fired" /\ mu = None
  /\ use' = [use EXCEPT ![r] = "cleared"]
  /\ UNCHANGED <<cancelled, stopped, token, pending, left, mu, taker>>

\* Mutant: TryLock, and give up when somebody has the mutex.
ClearTry(r) ==
  /\ use[r] = "fired"
  /\ IF mu = None
     THEN /\ TakeOut(r)
          /\ use' = [use EXCEPT ![r] = "cleared"]
     ELSE use' = [use EXCEPT ![r] = "abandoned"] /\ UNCHANGED <<pending, taker>>
  /\ UNCHANGED <<cancelled, stopped, token, left, mu>>

Clear(r) ==
  /\ use[r] = "fired" /\ mu = None
  /\ TakeOut(r)
  /\ use' = [use EXCEPT ![r] = "cleared"]
  /\ UNCHANGED <<cancelled, stopped, token, left, mu>>

CheckContext(r) ==
  /\ use[r] = "cleared"
  /\ use' = [use EXCEPT ![r] = IF cancelled THEN "abandoned" ELSE "deleting"]
  /\ UNCHANGED <<cancelled, stopped, token, pending, left, mu, taker>>

DeleteDone(r) ==
  /\ use[r] = "deleting"
  /\ use' = [use EXCEPT ![r] = "deleted"]
  /\ UNCHANGED <<cancelled, stopped, token, pending, left, mu, taker>>

Callback(r) == Fire(r) \/ Clear(r) \/ CheckContext(r)

-----------------------------------------------------------------------------
(* Shutdown and time *)

Cancel ==
  /\ ~cancelled
  /\ cancelled' = TRUE
  /\ UNCHANGED <<stopped, token, pending, use, left, mu, taker>>

StopAll ==
  /\ cancelled /\ ~stopped /\ mu = None
  /\ stopped' = TRUE
  /\ pending' = [t \in Token |-> None]
  /\ use' = [q \in Request |->
               IF use[q] = "armed" /\ pending[token[q]] = q THEN "stopped" ELSE use[q]]
  /\ UNCHANGED <<cancelled, token, left, mu, taker>>

\* One tick nearer for every armed timer; due callbacks may be late.
Tick ==
  /\ \E r \in Request : use[r] = "armed" /\ left[r] > 0
  /\ left' = [r \in Request |->
                IF use[r] = "armed" /\ left[r] > 0 THEN left[r] - 1 ELSE left[r]]
  /\ UNCHANGED <<cancelled, stopped, token, pending, use, mu, taker>>

Next ==
  \/ \E r \in Request :
       Schedule(r) \/ SpillDone(r) \/ Callback(r) \/ DeleteDone(r)
  \/ Cancel \/ StopAll \/ Tick

Spec == Init /\ [][Next]_deleterVars

\* deleteNow ends within its one-second timeout, callbacks get the mutex and the
\* processor, time passes.  Requests need not come, and nobody need cancel.
Fairness ==
  /\ \A r \in Request : WF_deleterVars(SpillDone(r) \/ DeleteDone(r))
  /\ \A r \in Request : WF_deleterVars(Callback(r))
  /\ WF_deleterVars(StopAll) /\ WF_deleterVars(Tick)

FairSpec == Spec /\ Fairness

-----------------------------------------------------------------------------
(* Properties *)

TypeOK ==
  /\ cancelled \in BOOLEAN /\ stopped \in BOOLEAN
  /\ token \in [Request -> Token]
  /\ pending \in [Token -> Request \cup {None}]
  /\ use \in [Request -> Stage]
  /\ left \in [Request -> 0..Delay]
  /\ mu \in Request \cup {None}
  /\ taker \in [Request -> Request \cup {None}]

\* The map never names a timer of another token, nor one that was stopped or
\* whose callback has been through the map: the uses that race a callback cannot
\* leave a dead entry that would count against the limit (schedule's Stop and
\* delete, the callback's delete).
TrackedTimersLive ==
  \A t \in Token : pending[t] # None =>
    token[pending[t]] = t /\ use[pending[t]] \in {"armed", "fired"}

\* The map keeps to its limit (the len check of schedule), the entry a use
\* replaces counted out.
PendingBounded == Cardinality(Tracked(pending)) <= MaxPending

\* Nothing is put into the map once stopAll made it nil: a use that found the
\* context alive is through with the map before stopAll can take the mutex.
NilMapUntouched == stopped => Tracked(pending) = {}

\* A timer that runs without the map knowing of it was lost in one way only: the
\* callback of another timer of the token, one stopped too late or itself lost before,
\* took its entry away while it ran, on its one way through the map (the callback's
\* delete does not look whose entry it is); and no callback does so to two running
\* timers.  So every other running timer can still be found by the next use and by
\* stopAll, and there are never more that cannot than callbacks that have been through
\* the map.
LostTimersExplained ==
  \A r \in Request : use[r] = "armed" /\ pending[token[r]] # r =>
    /\ \E q \in Request \ {r} :
         /\ taker[r] = q /\ token[q] = token[r]
         /\ use[q] \in {"cleared", "deleting", "deleted", "abandoned"}
    /\ \A p \in Request \ {r} : taker[p] # taker[r]

\* What the comment on StartDelayDeleter promises: the delayed deletes waiting
\* for their timer are bounded.
DelayedDeletesBounded ==
  Cardinality({r \in Request : use[r] = "armed"}) <= MaxPending

\* A use is not forgotten: a token with a timer on its way is deleted sooner or
\* later, by that use or by a later one that took its place, unless the service
\* is shut down first (StartDelayDeleter).
UsedTokenDeleted ==
  \A t \in Token :
    (\E r \in Request : token[r] = t /\ use[r] = "armed")
      ~> (cancelled \/ \E r \in Request :
                         token[r] = t /\ use[r] \in {"spilling", "deleting"})
=============================================================================
