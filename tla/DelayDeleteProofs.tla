------------------------- MODULE DelayDeleteProofs -------------------------
(* Proofs about DelayDelete, for every set of requests and tokens, every    *)
(* limit of the map and every delay.                                        *)
EXTENDS DelayDelete, FiniteSetTheorems, TLAPS

\* stopAll waits for the cancellation.
ShutdownOrder == stopped => cancelled

Places == TypeOK /\ ShutdownOrder /\ TrackedTimersLive /\ NilMapUntouched

\* The deleter's variables keep their types, the map names live timers only, and
\* stays empty once it is nil.
LEMMA Placing == Spec => []Places
<1> USE DeleterAssumption
<1>1. Init => Places
  <2> SUFFICES ASSUME Init PROVE Places
    OBVIOUS
  <2>1. TypeOK
    <3>1. 0 \in 0..Delay
      OBVIOUS
    <3> QED BY <3>1 DEF Init, TypeOK, Stage
  <2>2. ShutdownOrder /\ TrackedTimersLive /\ NilMapUntouched
    BY DEF Init, ShutdownOrder, TrackedTimersLive, NilMapUntouched
  <2> QED BY <2>1, <2>2 DEF Places
<1>2. Places /\ [Next]_deleterVars => Places'
  <2> SUFFICES ASSUME Places, [Next]_deleterVars PROVE Places'
    OBVIOUS
  <2> USE DEF Places, TypeOK, Stage, ShutdownOrder, TrackedTimersLive,
              NilMapUntouched, Tracked
  <2>1. ASSUME NEW r \in Request, ScheduleRefused(r) PROVE Places'
    BY <2>1 DEF ScheduleRefused
  <2>2. ASSUME NEW r \in Request, ScheduleSpill(r) PROVE Places'
    BY <2>2 DEF ScheduleSpill, Stopping, Dropped
  <2>3. ASSUME NEW r \in Request, ScheduleArm(r) PROVE Places'
    BY <2>3 DEF ScheduleArm, Stopping
  <2>4. ASSUME NEW r \in Request, SpillDone(r) PROVE Places'
    BY <2>4 DEF SpillDone
  <2>5. ASSUME NEW r \in Request, Fire(r) PROVE Places'
    BY <2>5 DEF Fire
  <2>6. ASSUME NEW r \in Request, Clear(r) PROVE Places'
    BY <2>6 DEF Clear, TakeOut, Dropped
  <2>7. ASSUME NEW r \in Request, CheckContext(r) PROVE Places'
    BY <2>7 DEF CheckContext
  <2>8. ASSUME NEW r \in Request, DeleteDone(r) PROVE Places'
    BY <2>8 DEF DeleteDone
  <2>9. CASE Cancel
    BY <2>9 DEF Cancel
  <2>10. CASE StopAll
    BY <2>10 DEF StopAll
  <2>11. CASE Tick
    BY <2>11 DEF Tick
  <2>12. CASE UNCHANGED deleterVars
    BY <2>12 DEF deleterVars
  <2> QED
    BY <2>1, <2>2, <2>3, <2>4, <2>5, <2>6, <2>7, <2>8, <2>9, <2>10, <2>11, <2>12
       DEF Next, Schedule, Callback
<1> QED BY <1>1, <1>2, PTL DEF Spec

\* Every variable keeps its type (delay_delete.go).
THEOREM TypeCorrect == Spec => []TypeOK
<1> QED BY Placing, PTL DEF Places

\* The map names live timers of the right token only (schedule, the callback).
THEOREM TrackedTimersLiveAlways == Spec => []TrackedTimersLive
<1> QED BY Placing, PTL DEF Places

\* No use writes to the map after stopAll made it nil.
THEOREM NilMapUntouchedAlways == Spec => []NilMapUntouched
<1> QED BY Placing, PTL DEF Places

-----------------------------------------------------------------------------

\* A map that names no token more than pending keeps to a limit pending keeps to.
LEMMA FewerTracked ==
  ASSUME NEW m, NEW n, NEW limit \in Nat,
         Tracked(n) \subseteq Tracked(m), Cardinality(Tracked(m)) <= limit
  PROVE  Cardinality(Tracked(n)) <= limit
<1>1. IsFiniteSet(Tracked(m))
  BY DeleterAssumption, FS_Subset DEF Tracked
<1>2. /\ Cardinality(Tracked(n)) \in Nat /\ Cardinality(Tracked(m)) \in Nat
      /\ Cardinality(Tracked(n)) <= Cardinality(Tracked(m))
  BY <1>1, FS_Subset, FS_CardinalityType
<1> QED BY <1>2

\* The limit of the map holds in every run, whatever races (schedule).
THEOREM PendingBoundedAlways == Spec => []PendingBounded
<1> USE DeleterAssumption
<1>1. Init => PendingBounded
  <2>1. Init => Tracked(pending) = {}
    BY DEF Init, Tracked
  <2> QED BY <2>1, FS_EmptySet DEF PendingBounded
<1>2. Places /\ PendingBounded /\ [Next]_deleterVars => PendingBounded'
  <2> SUFFICES ASSUME Places, PendingBounded, [Next]_deleterVars
               PROVE  PendingBounded'
    OBVIOUS
  <2> DEFINE shrinks == Tracked(pending') \subseteq Tracked(pending)
  <2>1. ASSUME shrinks PROVE PendingBounded'
    BY <2>1, FewerTracked DEF PendingBounded, Tracked
  <2>2. ASSUME NEW r \in Request, ScheduleArm(r) PROVE PendingBounded'
    <3> DEFINE rest == Tracked(Dropped(token[r]))
    <3>1. token[r] \in Token /\ token[r] \notin rest /\ IsFiniteSet(rest)
      BY FS_Subset DEF Places, TypeOK, Tracked, Dropped
    <3>2. Tracked(pending') = rest \cup {token[r]}
      BY <2>2, <3>1 DEF ScheduleArm, Tracked, Dropped, Places, TypeOK
    <3>3. Cardinality(rest \cup {token[r]}) = Cardinality(rest) + 1
      BY <3>1, FS_AddElement
    <3>4. Cardinality(rest) \in Nat /\ Cardinality(rest) < MaxPending
      BY <2>2, <3>1, FS_CardinalityType DEF ScheduleArm
    <3>5. Cardinality(Tracked(pending')) <= MaxPending
      BY <3>2, <3>3, <3>4
    <3> QED BY <3>5 DEF PendingBounded, Tracked
  <2>3. ASSUME NEW r \in Request, ScheduleSpill(r) \/ Clear(r) PROVE shrinks
    BY <2>3 DEF ScheduleSpill, Clear, TakeOut, Dropped, Tracked, Places, TypeOK
  <2>4. ASSUME NEW r \in Request, \/ ScheduleRefused(r) \/ SpillDone(r) \/ Fire(r)
                                  \/ CheckContext(r) \/ DeleteDone(r)
        PROVE  shrinks
    BY <2>4 DEF ScheduleRefused, SpillDone, Fire, CheckContext, DeleteDone
  <2>5. ASSUME Cancel \/ StopAll \/ Tick \/ UNCHANGED deleterVars PROVE shrinks
    BY <2>5 DEF Cancel, StopAll, Tick, deleterVars, Tracked
  <2> HIDE DEF shrinks
  <2> QED
    BY <2>1, <2>2, <2>3, <2>4, <2>5 DEF Next, Schedule, Callback
<1> QED BY <1>1, <1>2, Placing, PTL DEF Spec

-----------------------------------------------------------------------------

Lost(r) == use[r] = "armed" /\ pending[token[r]] # r
Through == {"cleared", "deleting", "deleted", "abandoned"}

\* A noted taker is another timer of the token that has been through the map, no
\* two running timers have the same one, and a lost timer has one.
Takers ==
  /\ \A r \in Request : taker[r] # None =>
       taker[r] # r /\ token[taker[r]] = token[r] /\ use[taker[r]] \in Through
  /\ \A p, r \in Request : p # r /\ taker[r] # None => taker[p] # taker[r]
  /\ \A r \in Request : Lost(r) => taker[r] # None

LEMMA Taking == Spec => []Takers
<1> USE DeleterAssumption
<1>1. Init => Takers
  BY DEF Init, Takers, Lost
<1>2. Places /\ Takers /\ [Next]_deleterVars => Takers'
  <2> SUFFICES ASSUME Places, Takers, [Next]_deleterVars PROVE Takers'
    OBVIOUS
  <2> USE DEF Places, TypeOK
  <2> DEFINE goesOn == /\ token' = token
                       /\ \A q \in Request : taker'[q] \in {taker[q], None}
                       /\ \A q \in Request : use[q] \in Through => use'[q] \in Through
                       /\ \A q \in Request : Lost(q)' => Lost(q) /\ taker'[q] = taker[q]
  <2>1. ASSUME goesOn PROVE Takers'
    BY <2>1 DEF Takers
  <2>2. ASSUME NEW r \in Request, ScheduleArm(r) \/ ScheduleSpill(r) PROVE goesOn
    BY <2>2 DEF ScheduleArm, ScheduleSpill, Stopping, Dropped, Lost, Through
  <2>3. ASSUME NEW r \in Request, Clear(r) PROVE Takers'
    <3>1. /\ token' = token /\ use[r] = "fired"
          /\ use' = [use EXCEPT ![r] = "cleared"]
          /\ pending' = [pending EXCEPT ![token[r]] = None]
          /\ taker' = [q \in Request |->
               IF q = pending[token[r]] /\ use[q] = "armed" THEN r ELSE taker[q]]
      BY <2>3 DEF Clear, TakeOut, Dropped
    <3>2. \A q \in Request : taker[q] # r
      BY <3>1 DEF Takers, Through
    <3>3. \A q \in Request : use[q] \in Through => use'[q] \in Through
      BY <3>1 DEF Through
    <3>4. ASSUME NEW p \in Request, taker'[p] # None
          PROVE  taker'[p] # p /\ token[taker'[p]] = token[p]
                 /\ use'[taker'[p]] \in Through
      <4>1. CASE p = pending[token[r]] /\ use[p] = "armed"
        <5>1. taker'[p] = r /\ p # r /\ use'[r] \in Through
          BY <3>1, <4>1 DEF Through
        <5>2. token[p] = token[r]
          BY <4>1 DEF TrackedTimersLive
        <5> QED BY <5>1, <5>2
      <4>2. CASE ~(p = pending[token[r]] /\ use[p] = "armed")
        <5>1. taker'[p] = taker[p]
          BY <3>1, <4>2
        <5>2. taker[p] # p /\ token[taker[p]] = token[p] /\ use[taker[p]] \in Through
          BY <3>4, <5>1 DEF Takers
        <5> QED BY <3>3, <3>4, <5>1, <5>2
      <4> QED BY <4>1, <4>2
    <3>5. \A p, q \in Request : p # q /\ taker'[q] # None => taker'[p] # taker'[q]
      BY <3>1, <3>2 DEF Takers
    <3>6. ASSUME NEW q \in Request, Lost(q)' PROVE taker'[q] # None
      <4>1. use[q] = "armed" /\ pending'[token[q]] # q
        BY <3>1, <3>6 DEF Lost
      <4>2. CASE pending[token[q]] # q
        BY <3>1, <4>1, <4>2 DEF Takers, Lost
      <4>3. CASE pending[token[q]] = q
        <5>1. token[q] = token[r]
          BY <3>1, <4>1, <4>3
        <5>2. taker'[q] = r
          BY <3>1, <4>1, <4>3, <5>1
        <5> QED BY <5>2
      <4> QED BY <4>2, <4>3
    <3> QED BY <3>1, <3>4, <3>5, <3>6 DEF Takers
  <2>4. ASSUME NEW r \in Request, \/ ScheduleRefused(r) \/ SpillDone(r) \/ Fire(r)
                                  \/ CheckContext(r) \/ DeleteDone(r)
        PROVE  goesOn
    BY <2>4 DEF ScheduleRefused, SpillDone, Fire, CheckContext, DeleteDone, Lost, Through
  <2>5. ASSUME Cancel \/ StopAll \/ Tick \/ UNCHANGED deleterVars PROVE goesOn
    BY <2>5 DEF Cancel, StopAll, Tick, deleterVars, Lost, Through
  <2> HIDE DEF goesOn
  <2> QED
    BY <2>1, <2>2, <2>3, <2>4, <2>5 DEF Next, Schedule, Callback
<1> QED BY <1>1, <1>2, Placing, PTL DEF Spec

\* A timer the map has lost was taken out by the callback of another timer of its
\* token, and every callback takes out one running timer at most (the callback's
\* delete, which does not look whose entry it removes): neither schedule nor stopAll
\* leaves a running timer behind.
THEOREM LostTimersExplainedAlways == Spec => []LostTimersExplained
<1>1. Places /\ Takers => LostTimersExplained
  <2> SUFFICES ASSUME Places, Takers, NEW r \in Request, Lost(r)
               PROVE  /\ \E q \in Request \ {r} :
                           /\ taker[r] = q /\ token[q] = token[r]
                           /\ use[q] \in Through
                      /\ \A p \in Request \ {r} : taker[p] # taker[r]
    BY DEF LostTimersExplained, Lost, Through
  <2>1. taker[r] # None /\ taker[r] \in Request
    BY DEF Takers, Places, TypeOK
  <2> QED BY <2>1 DEF Takers
<1> QED BY <1>1, Placing, Taking, PTL
=============================================================================
