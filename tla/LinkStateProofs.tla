-------------------------- MODULE LinkStateProofs --------------------------
(***************************************************************************)
(* Proofs about LinkState, about the two loops of AgentLink that feed it   *)
(* and about the lock-free Snapshot, for every threshold, strategy, set of *)
(* readers, interval, backoff and clock bound.                             *)
(***************************************************************************)
EXTENDS MCAgentLink, TLAPS

\* The stale timer runs only while both proofs have been stale throughout.
StaleTimerSound ==
  ~IsZero(bothStaleSince) =>
    /\ ~watchUp
    /\ bothStaleSince <= now
    /\ watchDownAt <= bothStaleSince
    /\ HBExpiry <= bothStaleSince

\* A published snapshot copies the fields it was computed from.
SnapshotCurrent ==
  snap # NilSnapshot =>
    /\ snap.lastHB = lastHB
    /\ snap.watchUp = watchUp
    /\ snap.rejecting = (unreachable /\ FailClosed)
    /\ (snap.state = "unreachable") = unreachable

LinkInv ==
  /\ TypeOK
  /\ lastHB <= now
  /\ watchDownAt <= now
  /\ StaleTimerSound
  /\ SnapshotCurrent

-----------------------------------------------------------------------------
\* Whatever proofs it starts from, a recompute leaves well-typed timers and
\* publishes a snapshot of exactly those proofs.
LEMMA RecomputeTyped ==
  ASSUME TypeOK, NEW hb \in Nat, NEW wu \in BOOLEAN, Recompute(hb, wu)
  PROVE  /\ bothStaleSince' \in Nat
         /\ recoverSince' \in Nat
         /\ unreachable' \in BOOLEAN
         /\ snap' = SnapshotOf(unreachable', hb, wu)
         /\ snap' \in Snapshots
<1>1. bothStaleSince' \in Nat /\ recoverSince' \in Nat
  <2>1. CASE RecomputeStale
    BY <2>1 DEF TypeOK, RecomputeStale, FirstSeen, IsZero, Zero
  <2>2. CASE RecomputeRecovering(hb, wu)
    BY <2>2 DEF TypeOK, RecomputeRecovering, FirstSeen, IsZero, Zero
  <2> QED
    BY <2>1, <2>2 DEF Recompute
<1>2. unreachable' \in BOOLEAN
  <2>1. CASE RecomputeStale
    BY <2>1, Zenon DEF TypeOK, RecomputeStale
  <2>2. CASE RecomputeRecovering(hb, wu)
    BY <2>2, Zenon DEF TypeOK, RecomputeRecovering
  <2> QED
    BY <2>1, <2>2 DEF Recompute
<1>3. snap' = SnapshotOf(unreachable', hb, wu)
  BY DEF Recompute
<1>4. SnapshotOf(unreachable', hb, wu) \in Snapshots
  BY <1>2, StrategyAssumption
     DEF SnapshotOf, Snapshots, ObservableState, States
<1> QED
  BY <1>1, <1>3, <1>4, <1>2

\* The published snapshot of a recompute reports the verdict and its proofs.
LEMMA RecomputePublishes ==
  ASSUME TypeOK, NEW hb \in Nat, NEW wu \in BOOLEAN, Recompute(hb, wu)
  PROVE  /\ snap'.lastHB = hb
         /\ snap'.watchUp = wu
         /\ snap'.rejecting = (unreachable' /\ FailClosed)
         /\ (snap'.state = "unreachable") = unreachable'
<1>1. unreachable' \in BOOLEAN /\ snap' = SnapshotOf(unreachable', hb, wu)
  BY RecomputeTyped
<1> QED
  BY <1>1 DEF SnapshotOf, ObservableState

\* A heartbeat just received is fresh.
LEMMA BeatIsFresh == ASSUME TypeOK PROVE ~HBStale(now, now)
  BY ThresholdsAssumption DEF TypeOK, HBStale, IsZero

\* NewLinkState starts from well-typed fields.
LEMMA InitTypeOK == Init => TypeOK
<1> SUFFICES ASSUME Init PROVE TypeOK
  OBVIOUS
<1>1. watchUp \in BOOLEAN /\ unreachable \in BOOLEAN
  BY Zenon DEF Init
<1>2. /\ snap \in Snapshots \cup {NilSnapshot}
      /\ reading \in [Readers -> Snapshots \cup {NilSnapshot}]
      /\ answer \in [Readers -> Snapshots \cup {NilSnapshot}]
  BY DEF Init
<1>3. /\ now \in Nat \ {0} /\ lastHB \in Nat /\ bothStaleSince \in Nat
      /\ recoverSince \in Nat /\ watchDownAt \in Nat \ {0}
  BY DEF Init, Zero
<1> QED
  BY <1>1, <1>2, <1>3 DEF TypeOK

\* Every mutator, read and tick keeps the fields well typed.
LEMMA NextTypeOK == TypeOK /\ [Next]_vars => TypeOK'
<1> SUFFICES ASSUME TypeOK, [Next]_vars PROVE TypeOK'
  OBVIOUS
<1>1. CASE Tick
  BY <1>1 DEF Tick, TypeOK
<1>2. CASE TouchHeartbeat
  <2>1. Recompute(now, watchUp)
    BY <1>2 DEF TouchHeartbeat
  <2> QED
    BY <1>2, <2>1, RecomputeTyped DEF TouchHeartbeat, TypeOK
<1>3. CASE MarkWatchUp
  <2>1. Recompute(lastHB, TRUE)
    BY <1>3 DEF MarkWatchUp
  <2> QED
    BY <1>3, <2>1, RecomputeTyped DEF MarkWatchUp, TypeOK
<1>4. CASE MarkWatchDown
  <2>1. Recompute(lastHB, FALSE)
    BY <1>4 DEF MarkWatchDown
  <2> QED
    BY <1>4, <2>1, RecomputeTyped DEF MarkWatchDown, TypeOK
<1>5. ASSUME NEW r \in Readers, SnapshotLoad(r) PROVE TypeOK'
  BY <1>5 DEF SnapshotLoad, TypeOK
<1>6. ASSUME NEW r \in Readers, SnapshotFast(r) PROVE TypeOK'
  BY <1>6 DEF SnapshotFast, TypeOK
<1>7. ASSUME NEW r \in Readers, SnapshotLocked(r) PROVE TypeOK'
  <2>1. Recompute(lastHB, watchUp)
    BY <1>7 DEF SnapshotLocked
  <2> QED
    BY <1>7, <2>1, RecomputeTyped DEF SnapshotLocked, TypeOK
<1>8. CASE UNCHANGED vars
  BY <1>8 DEF vars, TypeOK
<1> QED
  BY <1>1, <1>2, <1>3, <1>4, <1>5, <1>6, <1>7, <1>8 DEF Next

\* Type correctness: the tracker's fields and every published, loaded or
\* returned snapshot keep their types, for every threshold.
THEOREM TypeCorrect == Spec => []TypeOK
  BY InitTypeOK, NextTypeOK, PTL DEF Spec


-----------------------------------------------------------------------------
(***************************************************************************)
(* The inductive invariant: LinkInv adds to the types what the two timers  *)
(* and the published snapshot are worth.                                   *)
(***************************************************************************)

\* The timer part: a recompute from proofs hb and wu, made when downAt is the
\* time the watch was lost, leaves a timer that started after both were stale.
LEMMA RecomputeTimer ==
  ASSUME LinkInv, NEW hb \in Nat, NEW wu \in BOOLEAN, Recompute(hb, wu),
         hb <= now, UNCHANGED now, lastHB' = hb, watchUp' = wu,
         hb = lastHB \/ ~HBStale(hb, now),
         \/ UNCHANGED watchDownAt
         \/ watchUp /\ watchDownAt' = now
  PROVE  StaleTimerSound'
<1> USE ThresholdsAssumption
<1>1. CASE HBStale(hb, now) /\ ~wu
  <2>1. bothStaleSince' = FirstSeen(bothStaleSince) /\ lastHB' = lastHB
    BY <1>1 DEF Recompute, RecomputeStale
  <2>2. HBExpiry' = HBExpiry
    BY <2>1 DEF HBExpiry
  <2>3. HBExpiry \in Nat /\ HBExpiry <= now
    BY <1>1, <2>1 DEF HBExpiry, HBStale, IsZero, LinkInv, TypeOK
  <2>4. CASE IsZero(bothStaleSince)
    <3>1. bothStaleSince' = now
      BY <2>1, <2>4 DEF FirstSeen
    <3> QED
      BY <1>1, <3>1, <2>2, <2>3 DEF StaleTimerSound, LinkInv, TypeOK
  <2>5. CASE ~IsZero(bothStaleSince)
    <3>1. bothStaleSince' = bothStaleSince
      BY <2>1, <2>5 DEF FirstSeen
    <3>2. ~watchUp /\ UNCHANGED watchDownAt
      BY <2>5 DEF LinkInv, StaleTimerSound
    <3> QED
      BY <1>1, <3>1, <3>2, <2>2, <2>5 DEF StaleTimerSound, LinkInv
  <2> QED
    BY <2>4, <2>5
<1>2. CASE ~(HBStale(hb, now) /\ ~wu)
  <2>1. bothStaleSince' = Zero
    BY <1>2 DEF Recompute, RecomputeRecovering
  <2> QED
    BY <2>1 DEF StaleTimerSound, IsZero, Zero
<1> QED
  BY <1>1, <1>2

\* The snapshot part.
LEMMA RecomputeCurrent ==
  ASSUME LinkInv, NEW hb \in Nat, NEW wu \in BOOLEAN, Recompute(hb, wu),
         lastHB' = hb, watchUp' = wu
  PROVE  SnapshotCurrent'
  BY RecomputePublishes DEF LinkInv, SnapshotCurrent

\* A new tracker has no timer running and nothing published.
LEMMA InitLinkInv == Init => LinkInv
<1> SUFFICES ASSUME Init PROVE LinkInv
  OBVIOUS
<1>1. TypeOK
  BY InitTypeOK
<1>2. lastHB <= now /\ watchDownAt <= now
  BY DEF Init, Zero
<1>3. StaleTimerSound
  BY DEF Init, StaleTimerSound, IsZero, Zero
<1>4. SnapshotCurrent
  BY DEF Init, SnapshotCurrent
<1> QED
  BY <1>1, <1>2, <1>3, <1>4 DEF LinkInv

\* Every step keeps the timers honest and the published snapshot current.
LEMMA NextLinkInv == LinkInv /\ [Next]_vars => LinkInv'
<1> SUFFICES ASSUME LinkInv, [Next]_vars PROVE LinkInv'
  OBVIOUS
<1> USE ThresholdsAssumption
<1>0. TypeOK /\ TypeOK'
  BY NextTypeOK DEF LinkInv
<1>1. CASE Tick
  <2>1. HBExpiry' = HBExpiry
    BY <1>1 DEF Tick, HBExpiry
  <2>2. StaleTimerSound'
    BY <1>1, <1>0, <2>1 DEF Tick, LinkInv, StaleTimerSound, TypeOK
  <2>3. SnapshotCurrent'
    BY <1>1 DEF Tick, LinkInv, SnapshotCurrent
  <2> QED
    BY <1>0, <1>1, <2>2, <2>3 DEF LinkInv, Tick, TypeOK
<1>2. CASE TouchHeartbeat
  <2>1. Recompute(now, watchUp) /\ lastHB' = now /\ UNCHANGED <<now, watchUp, watchDownAt>>
    BY <1>2 DEF TouchHeartbeat
  <2>2. now \in Nat /\ watchUp \in BOOLEAN /\ now <= now /\ ~HBStale(now, now)
    BY <1>0, BeatIsFresh DEF TypeOK
  <2>3. StaleTimerSound'
    BY <2>1, <2>2, RecomputeTimer
  <2>4. SnapshotCurrent'
    BY <2>1, <2>2, RecomputeCurrent
  <2> QED
    BY <1>0, <2>1, <2>2, <2>3, <2>4 DEF LinkInv
<1>3. CASE MarkWatchUp
  <2>1. Recompute(lastHB, TRUE) /\ watchUp' = TRUE /\ UNCHANGED <<now, lastHB, watchDownAt>>
    BY <1>3 DEF MarkWatchUp
  <2>2. lastHB \in Nat /\ lastHB <= now
    BY DEF LinkInv, TypeOK
  <2>3. StaleTimerSound'
    BY <2>1, <2>2, RecomputeTimer
  <2>4. SnapshotCurrent'
    BY <2>1, <2>2, RecomputeCurrent
  <2> QED
    BY <1>0, <2>1, <2>3, <2>4 DEF LinkInv
<1>4. CASE MarkWatchDown
  <2>1. Recompute(lastHB, FALSE) /\ watchUp' = FALSE /\ UNCHANGED <<now, lastHB>>
    BY <1>4 DEF MarkWatchDown
  <2>2. lastHB \in Nat /\ lastHB <= now
    BY DEF LinkInv, TypeOK
  <2>3. UNCHANGED watchDownAt \/ (watchUp /\ watchDownAt' = now)
    BY <1>4 DEF MarkWatchDown
  <2>4. StaleTimerSound'
    BY <2>1, <2>2, <2>3, RecomputeTimer
  <2>5. SnapshotCurrent'
    BY <2>1, <2>2, RecomputeCurrent
  <2> QED
    BY <1>0, <2>1, <2>3, <2>4, <2>5 DEF LinkInv, TypeOK
<1>5. ASSUME NEW r \in Readers, SnapshotLoad(r) \/ SnapshotFast(r) PROVE LinkInv'
  <2>1. UNCHANGED <<now, lastHB, watchUp, bothStaleSince, unreachable, snap, watchDownAt>>
    BY <1>5 DEF SnapshotLoad, SnapshotFast
  <2> QED
    BY <1>0, <2>1 DEF LinkInv, StaleTimerSound, SnapshotCurrent, HBExpiry
<1>6. ASSUME NEW r \in Readers, SnapshotLocked(r) PROVE LinkInv'
  <2>1. Recompute(lastHB, watchUp) /\ UNCHANGED <<now, lastHB, watchUp, watchDownAt>>
    BY <1>6 DEF SnapshotLocked
  <2>2. lastHB \in Nat /\ watchUp \in BOOLEAN /\ lastHB <= now
    BY DEF LinkInv, TypeOK
  <2>3. StaleTimerSound'
    BY <2>1, <2>2, RecomputeTimer
  <2>4. SnapshotCurrent'
    BY <2>1, <2>2, RecomputeCurrent
  <2> QED
    BY <1>0, <2>1, <2>3, <2>4 DEF LinkInv
<1>7. CASE UNCHANGED vars
  BY <1>0, <1>7 DEF LinkInv, vars, StaleTimerSound, SnapshotCurrent, HBExpiry
<1> QED
  BY <1>1, <1>2, <1>3, <1>4, <1>5, <1>6, <1>7 DEF Next

\* Consequence of the invariant: the lock-free path never shows a verdict that
\* a recompute at that instant would change.
LEMMA LinkInvFastPath == LinkInv => FastPathSound
<1> SUFFICES ASSUME LinkInv, snap # NilSnapshot, ~TimeMayAdvance(snap)
             PROVE  /\ WouldBeUnreachable = unreachable
                    /\ snap.rejecting = (unreachable /\ FailClosed)
                    /\ (snap.state = "unreachable") = unreachable
  BY DEF FastPathSound
<1>1. /\ snap.lastHB = lastHB
      /\ snap.watchUp = watchUp
      /\ snap.rejecting = (unreachable /\ FailClosed)
      /\ (snap.state = "unreachable") = unreachable
      /\ unreachable \in BOOLEAN
  BY DEF LinkInv, SnapshotCurrent, TypeOK
<1>2. CASE unreachable
  <2>1. HBStale(lastHB, now) /\ ~watchUp
    BY <1>1, <1>2 DEF TimeMayAdvance
  <2> QED
    BY <1>1, <1>2, <2>1 DEF WouldBeUnreachable
<1>3. CASE ~unreachable
  <2>1. ~(HBStale(lastHB, now) /\ ~watchUp)
    BY <1>1, <1>3 DEF TimeMayAdvance
  <2> QED
    BY <1>1, <1>3, <2>1 DEF WouldBeUnreachable
<1> QED
  BY <1>2, <1>3

\* A recompute turns the verdict to unreachable only on a timer that has run
\* for the threshold, and back only on two fresh proofs.
LEMMA RecomputeVerdict ==
  ASSUME LinkInv, NEW hb \in Nat, NEW wu \in BOOLEAN, Recompute(hb, wu),
         hb = lastHB \/ ~HBStale(hb, now)
  PROVE  /\ ~unreachable /\ unreachable' => SilentFor(UnreachableThreshold)
         /\ unreachable /\ ~unreachable' => wu /\ ~HBStale(hb, now)
<1> USE ThresholdsAssumption
<1>1. CASE HBStale(hb, now) /\ ~wu
  <2>1. RecomputeStale
    BY <1>1 DEF Recompute
  <2>2. unreachable => unreachable'
    BY <2>1 DEF RecomputeStale
  <2>3. ASSUME ~unreachable, unreachable' PROVE SilentFor(UnreachableThreshold)
    <3>1. now - FirstSeen(bothStaleSince) >= UnreachableThreshold
      BY <2>1, <2>3 DEF RecomputeStale
    <3>2. ~IsZero(bothStaleSince)
      BY <3>1 DEF FirstSeen, LinkInv, TypeOK
    <3>3. now - bothStaleSince >= UnreachableThreshold
      BY <3>1, <3>2 DEF FirstSeen
    <3>4. /\ ~watchUp
          /\ watchDownAt <= bothStaleSince
          /\ HBExpiry <= bothStaleSince
      BY <3>2 DEF LinkInv, StaleTimerSound
    <3>5. HBExpiry \in Nat
      BY DEF HBExpiry, LinkInv, TypeOK
    <3> QED
      BY <3>3, <3>4, <3>5 DEF SilentFor, LinkInv, TypeOK
  <2> QED
    BY <2>2, <2>3
<1>2. CASE ~(HBStale(hb, now) /\ ~wu)
  <2>1. RecomputeRecovering(hb, wu)
    BY <1>2 DEF Recompute
  <2> QED
    BY <2>1 DEF RecomputeRecovering
<1> QED
  BY <1>1, <1>2

\* Every step that moves the verdict is a recompute from the proofs it leaves.
LEMMA VerdictStep ==
  ASSUME LinkInv, [Next]_vars
  PROVE  /\ ~unreachable /\ unreachable' => SilentFor(UnreachableThreshold)
         /\ unreachable /\ ~unreachable' => watchUp' /\ ~HBStale(lastHB', now')
<1>0. lastHB \in Nat /\ watchUp \in BOOLEAN /\ now \in Nat /\ TypeOK
  BY DEF LinkInv, TypeOK
<1>1. CASE Tick
  BY <1>1 DEF Tick
<1>2. CASE TouchHeartbeat
  <2>1. /\ Recompute(now, watchUp)
        /\ lastHB' = now /\ UNCHANGED <<now, watchUp>>
    BY <1>2 DEF TouchHeartbeat
  <2> QED
    BY <1>0, <2>1, BeatIsFresh, RecomputeVerdict
<1>3. CASE MarkWatchUp
  <2>1. Recompute(lastHB, TRUE) /\ watchUp' = TRUE /\ UNCHANGED <<now, lastHB>>
    BY <1>3 DEF MarkWatchUp
  <2> QED
    BY <1>0, <2>1, RecomputeVerdict
<1>4. CASE MarkWatchDown
  <2>1. Recompute(lastHB, FALSE) /\ watchUp' = FALSE /\ UNCHANGED <<now, lastHB>>
    BY <1>4 DEF MarkWatchDown
  <2> QED
    BY <1>0, <2>1, RecomputeVerdict
<1>5. ASSUME NEW r \in Readers, SnapshotLoad(r) \/ SnapshotFast(r)
      PROVE  UNCHANGED unreachable
  BY <1>5 DEF SnapshotLoad, SnapshotFast
<1>6. CASE \E r \in Readers : SnapshotLocked(r)
  <2>1. Recompute(lastHB, watchUp) /\ UNCHANGED <<now, lastHB, watchUp>>
    BY <1>6 DEF SnapshotLocked
  <2> QED
    BY <1>0, <2>1, RecomputeVerdict
<1>7. CASE UNCHANGED vars
  BY <1>7 DEF vars
<1> QED
  BY <1>1, <1>2, <1>3, <1>4, <1>5, <1>6, <1>7 DEF Next

\* The inductive invariant: a running timer started after what it measures, and
\* the published snapshot is that of the fields (linkstate.go:145-194).
THEOREM LinkInvariant == Spec => []LinkInv
  BY InitLinkInv, NextLinkInv, PTL DEF Spec

\* linkstate.go:94-124: the lock-free Snapshot path is sound, for every
\* threshold, strategy and number of readers.
THEOREM FastPath == Spec => []FastPathSound
  BY LinkInvariant, LinkInvFastPath, PTL

\* linkstate.go:145-157: a data plane never declares its control plane
\* unreachable before both proofs have been missing for the full threshold.
THEOREM NoEarlyVerdict == Spec => NoFalseUnreachable
<1>1. LinkInv /\ [Next]_vars =>
        [~unreachable /\ unreachable' => SilentFor(UnreachableThreshold)]_vars
  BY VerdictStep
<1> QED
  BY <1>1, LinkInvariant, PTL DEF Spec, NoFalseUnreachable

\* LinkState implements the abstract link: its proofs move as CPLink's do and
\* its verdict moves only when CPLink allows it.
THEOREM Refinement == Spec => ImplementsCPLink
<1>1. Init => Promise!AbsInit
  BY DEF Init, Zero, Promise!AbsInit
<1>2. LinkInv /\ [Next]_vars => [Promise!AbsNext]_(Promise!absVars)
  <2> SUFFICES ASSUME LinkInv, [Next]_vars
               PROVE  [Promise!AbsNext]_(Promise!absVars)
    OBVIOUS
  <2>0. SilentFor(UnreachableThreshold) => Promise!Silence(UnreachableThreshold)
    BY DEF SilentFor, HBExpiry, IsZero, Promise!Silence, LinkInv, TypeOK
  <2>1. UNCHANGED now => Promise!Verdict
    <3>1. HBStale(lastHB', now') <=> Promise!HeartbeatStale'
      BY DEF HBStale, IsZero, Promise!HeartbeatStale
    <3>2. unreachable \in BOOLEAN /\ unreachable' \in BOOLEAN
      BY NextTypeOK DEF LinkInv, TypeOK
    <3> QED
      BY <2>0, <3>1, <3>2, VerdictStep DEF Promise!Verdict
  <2>2. CASE Tick
    BY <2>2 DEF Tick, Promise!AbsNext, Promise!Pass
  <2>3. CASE TouchHeartbeat
    BY <2>1, <2>3
       DEF TouchHeartbeat, Promise!AbsNext, Promise!Evaluate, Promise!Beat
  <2>4. CASE MarkWatchUp
    BY <2>1, <2>4
       DEF MarkWatchUp, Promise!AbsNext, Promise!Evaluate, Promise!StreamUp
  <2>5. CASE MarkWatchDown
    BY <2>1, <2>5
       DEF MarkWatchDown, Promise!AbsNext, Promise!Evaluate, Promise!StreamEnd
  <2>6. CASE \E r \in Readers : SnapshotLoad(r) \/ SnapshotFast(r)
    BY <2>6 DEF SnapshotLoad, SnapshotFast, Promise!absVars
  <2>7. CASE \E r \in Readers : SnapshotLocked(r)
    BY <2>1, <2>7 DEF SnapshotLocked, Promise!AbsNext, Promise!Evaluate
  <2>8. CASE UNCHANGED vars
    BY <2>8 DEF vars, Promise!absVars
  <2> QED
    BY <2>2, <2>3, <2>4, <2>5, <2>6, <2>7, <2>8 DEF Next
<1> QED
  BY <1>1, <1>2, LinkInvariant, PTL DEF Spec, ImplementsCPLink, Promise!AbsSpec

-----------------------------------------------------------------------------
(***************************************************************************)
(* The loops.  Each of their deadlines is an instant the clock cannot      *)
(* pass, and the invariants say how far from cpSince the next one is.      *)
(***************************************************************************)
LoopsTyped ==
  /\ LinkInv
  /\ recoverSince <= now
  /\ cp \in {"up", "erring", "down"}
  /\ tokenValid \in BOOLEAN
  /\ running \in BOOLEAN
  /\ watch \in {"connecting", "open", "backoff"}
  /\ hbDue \in Nat
  /\ watchDue \in Nat
  /\ backoff \in Nat /\ backoff <= MaxBackoff
  /\ cpSince \in Nat /\ cpSince <= now

\* What the live loops' own deadlines are worth.
LoopsTimed ==
  running =>
    /\ watchUp <=> (watch = "open")
    /\ now <= hbDue
    /\ hbDue <= now + HeartbeatInterval
    /\ lastHB + HeartbeatInterval <= hbDue
    /\ watch = "backoff" => now <= watchDue /\ watchDue <= now + MaxBackoff

\* During an outage no heartbeat succeeds, and either the stale timer is
\* running or the next reconnect, which starts it, is not far.
OutageTimed ==
  running /\ cp = "down" =>
    /\ lastHB <= cpSince
    /\ \/ /\ bothStaleSince # 0
          /\ bothStaleSince <= cpSince + UnreachableThreshold + MaxBackoff
       \/ watch = "open" /\ now = cpSince
       \/ /\ watch = "backoff"
          /\ watchDue <= cpSince + UnreachableThreshold + MaxBackoff
       \/ /\ watch = "connecting"
          /\ now <= cpSince + UnreachableThreshold + MaxBackoff

\* The latest tick of the heartbeat ticker succeeded.
Beating == lastHB # 0 /\ hbDue = lastHB + HeartbeatInterval

\* Both proofs are being renewed.
BothFresh == running /\ watch = "open" /\ Beating

\* After an outage each loop renews its proof at its next deadline, and an
\* unreachable link with both proofs has its recovery timer running.
RecoveryTimed ==
  /\ BothFresh /\ unreachable => recoverSince # 0
  /\ running /\ tokenValid /\ cp = "up" =>
       /\ \/ watch = "open"
          \/ watch = "backoff" /\ watchDue <= cpSince + MaxBackoff
          \/ watch = "connecting" /\ now <= cpSince + MaxBackoff
       /\ Beating \/ hbDue <= cpSince + HeartbeatInterval
       /\ BothFresh /\ unreachable =>
            recoverSince <= cpSince + MaxBackoff + HeartbeatInterval

\* What a recompute from proofs hb and wu does to the timers and the verdict.
LEMMA RecomputeTimers ==
  ASSUME TypeOK, NEW hb \in Nat, NEW wu \in BOOLEAN, Recompute(hb, wu)
  PROVE  /\ HBStale(hb, now) /\ ~wu => bothStaleSince' = FirstSeen(bothStaleSince)
         /\ recoverSince' \in {0, recoverSince, now}
         /\ wu /\ ~HBStale(hb, now) /\ unreachable' =>
              unreachable /\ recoverSince' = FirstSeen(recoverSince)
<1>1. CASE HBStale(hb, now) /\ ~wu
  BY <1>1 DEF Recompute, RecomputeStale, Zero
<1>2. CASE ~(HBStale(hb, now) /\ ~wu)
  <2>1. RecomputeRecovering(hb, wu)
    BY <1>2 DEF Recompute
  <2> QED
    BY <1>2, <2>1 DEF RecomputeRecovering, FirstSeen, Zero
<1> QED
  BY <1>1, <1>2

\* Every step of the loops is a step of the tracker or leaves it alone.
LEMMA LoopStep == LoopNext => [Next]_vars
<1> SUFFICES ASSUME LoopNext PROVE [Next]_vars
  OBVIOUS
<1>1. CASE HeartbeatTick
  BY <1>1 DEF HeartbeatTick, Next
<1>2. CASE WatchConnect
  BY <1>2 DEF WatchConnect, Sleep, Next
<1>3. CASE WatchEnd
  BY <1>3 DEF WatchEnd, Sleep, Next
<1>4. CASE SleepBackoff \/ CPChange \/ Revoke
  BY <1>4 DEF SleepBackoff, CPChange, Revoke
<1>5. CASE LoopTick \/ Read
  BY <1>5 DEF LoopTick, Read, Next
<1> QED
  BY <1>1, <1>2, <1>3, <1>4, <1>5 DEF LoopNext

\* Both loops start with their first deadline ahead of them.
LEMMA InitLoops == LoopInit => LoopsTyped /\ LoopsTimed
<1> SUFFICES ASSUME LoopInit PROVE LoopsTyped /\ LoopsTimed
  OBVIOUS
<1> USE LoopAssumption
<1>1. LinkInv /\ now = 1 /\ lastHB = 0 /\ watchUp = FALSE /\ recoverSince = 0
  BY InitLinkInv DEF LoopInit, Init, Zero
<1>2. tokenValid \in BOOLEAN /\ running \in BOOLEAN
  BY Zenon DEF LoopInit
<1>3. LoopsTyped
  BY <1>1, <1>2 DEF LoopInit, LoopsTyped, Zero
<1> QED
  BY <1>1, <1>3 DEF LoopInit, LoopsTimed

\* A mutator or a locked read never sets the recovery timer in the future.
LEMMA RecoveryInPast ==
  ASSUME LinkInv, recoverSince <= now, [Next]_vars
  PROVE  recoverSince' <= now'
<1>0. TypeOK /\ TypeOK'
  BY NextTypeOK DEF LinkInv
<1>1. ASSUME NEW hb \in Nat, NEW wu \in BOOLEAN, Recompute(hb, wu), UNCHANGED now
      PROVE  recoverSince' <= now'
  BY <1>0, <1>1, RecomputeTimers DEF TypeOK
<1>2. CASE Tick
  BY <1>0, <1>2 DEF Tick, TypeOK
<1>3. CASE TouchHeartbeat
  BY <1>0, <1>1, <1>3 DEF TouchHeartbeat, TypeOK
<1>4. CASE MarkWatchUp
  BY <1>0, <1>1, <1>4 DEF MarkWatchUp, TypeOK
<1>5. CASE MarkWatchDown
  BY <1>0, <1>1, <1>5 DEF MarkWatchDown, TypeOK
<1>6. CASE \E r \in Readers : SnapshotLoad(r) \/ SnapshotFast(r)
  BY <1>6 DEF SnapshotLoad, SnapshotFast
<1>7. CASE \E r \in Readers : SnapshotLocked(r)
  BY <1>0, <1>1, <1>7 DEF SnapshotLocked, TypeOK
<1>8. CASE UNCHANGED vars
  BY <1>8 DEF vars
<1> QED
  BY <1>2, <1>3, <1>4, <1>5, <1>6, <1>7, <1>8 DEF Next

\* No step takes the loops' own fields out of their types.
LEMMA NextLoopsTyped == LoopsTyped /\ [LoopNext]_allVars => LoopsTyped'
<1> SUFFICES ASSUME LoopsTyped, [LoopNext]_allVars PROVE LoopsTyped'
  OBVIOUS
<1> USE LoopAssumption
<1>0. [Next]_vars
  BY LoopStep DEF allVars, vars
<1>1. LinkInv' /\ recoverSince' <= now'
  BY <1>0, NextLinkInv, RecoveryInPast DEF LoopsTyped
<1>2. now \in Nat /\ now' \in Nat
  BY <1>1 DEF LoopsTyped, LinkInv, TypeOK
<1>3. CASE HeartbeatTick
  <2>1. UNCHANGED now /\ running' \in BOOLEAN
    BY <1>3, Zenon DEF HeartbeatTick, TouchHeartbeat, LoopsTyped, vars
  <2> QED
    BY <1>1, <1>2, <1>3, <2>1 DEF HeartbeatTick, LoopsTyped
<1>4. CASE WatchConnect
  <2>1. UNCHANGED now /\ running' \in BOOLEAN
    BY <1>4, Zenon DEF WatchConnect, Sleep, MarkWatchUp, MarkWatchDown, LoopsTyped
  <2>2. /\ watch' \in {"connecting", "open", "backoff"}
        /\ watchDue' \in Nat
        /\ backoff' = backoff
    <3>1. CASE UNCHANGED <<watchDue, backoff>> /\ watch' \in {watch, "open"}
      BY <3>1 DEF LoopsTyped
    <3>2. CASE Sleep(backoff)
      BY <1>2, <3>2 DEF Sleep, LoopsTyped
    <3> QED
      BY <1>4, <3>1, <3>2 DEF WatchConnect
  <2> QED
    BY <1>1, <1>4, <2>1, <2>2 DEF WatchConnect, LoopsTyped
<1>5. CASE WatchEnd
  BY <1>1, <1>2, <1>5 DEF WatchEnd, Sleep, MarkWatchDown, LoopsTyped
<1>6. CASE SleepBackoff
  BY <1>1, <1>2, <1>6 DEF SleepBackoff, LoopsTyped, vars
<1>7. CASE CPChange
  BY <1>1, <1>2, <1>7 DEF CPChange, LoopsTyped, vars
<1>8. CASE Revoke
  <2>1. tokenValid' \in BOOLEAN /\ UNCHANGED now
    BY <1>8, Zenon DEF Revoke, vars
  <2> QED
    BY <1>1, <1>2, <1>8, <2>1 DEF Revoke, LoopsTyped
<1>9. CASE LoopTick
  BY <1>1, <1>2, <1>9 DEF LoopTick, Tick, LoopsTyped, loopVars
<1>10. CASE Read \/ UNCHANGED allVars
  <2>1. UNCHANGED <<now, loopVars>>
    BY <1>10 DEF Read, SnapshotLoad, SnapshotFast, SnapshotLocked, allVars, vars
  <2> QED
    BY <1>1, <1>2, <2>1 DEF LoopsTyped, loopVars
<1> QED
  BY <1>3, <1>4, <1>5, <1>6, <1>7, <1>8, <1>9, <1>10 DEF LoopNext

\* The tracker's watch flag follows the watch loop, and no deadline is missed.
LEMMA NextLoopsTimed ==
  LoopsTyped /\ LoopsTimed /\ [LoopNext]_allVars => LoopsTimed'
<1> SUFFICES ASSUME LoopsTyped, LoopsTimed, [LoopNext]_allVars, running'
             PROVE  LoopsTimed'
  BY DEF LoopsTimed
<1> USE LoopAssumption
<1>0. LoopsTyped' /\ [Next]_vars
  BY NextLoopsTyped, LoopStep DEF allVars, vars
<1>1. now \in Nat /\ now' \in Nat /\ lastHB \in Nat /\ lastHB <= now
  BY <1>0 DEF LoopsTyped, LinkInv, TypeOK
<1>2. running
  BY DEF LoopNext, HeartbeatTick, WatchConnect, WatchEnd, SleepBackoff,
         CPChange, Revoke, LoopTick, Read, allVars, loopVars
<1>3. /\ watchUp <=> (watch = "open")
      /\ now <= hbDue
      /\ hbDue <= now + HeartbeatInterval
      /\ lastHB + HeartbeatInterval <= hbDue
      /\ watch = "backoff" => now <= watchDue /\ watchDue <= now + MaxBackoff
  BY <1>2 DEF LoopsTimed
<1>4. CASE HeartbeatTick
  <2>1. /\ now' = now /\ watchUp' = watchUp
        /\ watch' = watch /\ watchDue' = watchDue
        /\ lastHB' = lastHB \/ lastHB' = now
    BY <1>4 DEF HeartbeatTick, TouchHeartbeat, vars
  <2>2. hbDue' = now + HeartbeatInterval
    BY <1>4 DEF HeartbeatTick
  <2>3. /\ now <= now + HeartbeatInterval
        /\ lastHB + HeartbeatInterval <= now + HeartbeatInterval
    BY <1>1
  <2> QED
    BY <1>1, <1>3, <2>1, <2>2, <2>3 DEF LoopsTimed
<1>5. CASE WatchConnect \/ WatchEnd
  <2>1. /\ UNCHANGED <<now, lastHB, hbDue>>
        /\ \/ watch' = "open" /\ watchUp' = TRUE
           \/ /\ watch' = "backoff" /\ watchUp' = FALSE
              /\ \/ watchDue' = now + backoff
                 \/ watchDue' = now + InitialBackoff
    BY <1>5 DEF WatchConnect, WatchEnd, Sleep, MarkWatchUp, MarkWatchDown
  <2> QED
    BY <1>1, <1>3, <2>1 DEF LoopsTimed, LoopsTyped
<1>6. CASE SleepBackoff
  BY <1>3, <1>6 DEF SleepBackoff, vars, LoopsTimed
<1>7. CASE CPChange \/ Revoke
  BY <1>3, <1>7 DEF CPChange, Revoke, vars, LoopsTimed
<1>8. CASE LoopTick
  BY <1>1, <1>2, <1>3, <1>8
     DEF LoopTick, NothingDue, Tick, loopVars, LoopsTimed, LoopsTyped
<1>9. CASE Read \/ UNCHANGED allVars
  <2>1. UNCHANGED <<now, lastHB, watchUp, loopVars>>
    BY <1>9 DEF Read, SnapshotLoad, SnapshotFast, SnapshotLocked, allVars, vars
  <2> QED
    BY <1>3, <2>1 DEF LoopsTimed, loopVars
<1> QED
  BY <1>4, <1>5, <1>6, <1>7, <1>8, <1>9 DEF LoopNext

-----------------------------------------------------------------------------
(***************************************************************************)
(* Detection.                                                              *)
(***************************************************************************)

\* A running stale timer survives every recompute from the same heartbeat
\* with the watch still down, and a recompute from two stale proofs starts it.
LEMMA StaleTimerKept ==
  ASSUME LinkInv, Recompute(lastHB, FALSE), ~watchUp
  PROVE  /\ bothStaleSince # 0 => bothStaleSince' = bothStaleSince
         /\ HBStale(lastHB, now) => bothStaleSince' = FirstSeen(bothStaleSince)
<1>1. TypeOK /\ lastHB \in Nat /\ FALSE \in BOOLEAN
  BY DEF LinkInv, TypeOK
<1>2. HBStale(lastHB, now) => bothStaleSince' = FirstSeen(bothStaleSince)
  BY <1>1, RecomputeTimers
<1>3. bothStaleSince # 0 => HBStale(lastHB, now)
  BY ThresholdsAssumption
     DEF LinkInv, TypeOK, StaleTimerSound, HBExpiry, HBStale, IsZero
<1> QED
  BY <1>2, <1>3 DEF FirstSeen, IsZero

\* A watch that goes to sleep while the control plane is down leaves the stale
\* timer running, or sleeps no longer than the heartbeat's age allows.
LEMMA SleepStarts ==
  ASSUME LoopsTyped, NEW d \in Nat, d <= MaxBackoff, Sleep(d),
         lastHB <= cpSince,
         now <= cpSince + UnreachableThreshold + MaxBackoff
  PROVE  \/ /\ bothStaleSince' # 0
            /\ bothStaleSince' <= cpSince + UnreachableThreshold + MaxBackoff
         \/ /\ watch' = "backoff"
            /\ watchDue' <= cpSince + UnreachableThreshold + MaxBackoff
<1> USE ThresholdsAssumption, LoopAssumption
<1>1. /\ Recompute(lastHB, FALSE)
      /\ watch' = "backoff"
      /\ watchDue' = now + d
  BY DEF Sleep, MarkWatchDown
<1>2. /\ LinkInv /\ TypeOK /\ lastHB \in Nat /\ now \in Nat \ {0} /\ cpSince \in Nat
      /\ bothStaleSince \in Nat /\ FALSE \in BOOLEAN
      /\ bothStaleSince # 0 => bothStaleSince <= now
  BY DEF LoopsTyped, LinkInv, TypeOK, StaleTimerSound, IsZero
<1>3. CASE HBStale(lastHB, now)
  <2>1. bothStaleSince' = FirstSeen(bothStaleSince)
    BY <1>1, <1>2, <1>3, RecomputeTimers
  <2>2. FirstSeen(bothStaleSince) \in Nat \ {0} /\ FirstSeen(bothStaleSince) <= now
    BY <1>2 DEF FirstSeen, IsZero
  <2>3. FirstSeen(bothStaleSince) <= cpSince + UnreachableThreshold + MaxBackoff
    BY <1>2, <2>2
  <2> QED
    BY <2>1, <2>2, <2>3
<1>4. CASE ~HBStale(lastHB, now)
  <2>1. now - lastHB <= UnreachableThreshold
    BY <1>2, <1>4 DEF HBStale
  <2>2. now + d <= cpSince + UnreachableThreshold + MaxBackoff
    BY <1>2, <2>1
  <2> QED
    BY <1>1, <2>2
<1> QED
  BY <1>3, <1>4

\* Throughout an outage the stale timer runs or is about to be started.
LEMMA NextOutageTimed ==
  LoopsTyped /\ LoopsTimed /\ OutageTimed /\ [LoopNext]_allVars => OutageTimed'
<1> SUFFICES ASSUME LoopsTyped, LoopsTimed, OutageTimed, [LoopNext]_allVars,
                    running', cp' = "down"
             PROVE  OutageTimed'
  BY DEF OutageTimed
<1> USE LoopAssumption, ThresholdsAssumption
<1> DEFINE Limit == cpSince + UnreachableThreshold + MaxBackoff
           Started == bothStaleSince # 0 /\ bothStaleSince <= Limit
<1>0. LinkInv /\ LinkInv'
  BY NextLoopsTyped DEF LoopsTyped
<1>1. /\ now \in Nat \ {0} /\ lastHB \in Nat /\ lastHB <= now /\ bothStaleSince \in Nat
      /\ cpSince \in Nat /\ cpSince <= now /\ watchDue \in Nat
      /\ backoff \in Nat /\ backoff <= MaxBackoff
      /\ bothStaleSince # 0 => bothStaleSince <= now /\ ~watchUp
  BY <1>0 DEF LoopsTyped, LinkInv, TypeOK, StaleTimerSound, IsZero
<1>2. running
  BY DEF LoopNext, HeartbeatTick, WatchConnect, WatchEnd, SleepBackoff,
         CPChange, Revoke, LoopTick, Read, allVars, loopVars
<1>3. /\ watchUp <=> (watch = "open")
      /\ watch = "backoff" => now <= watchDue /\ watchDue <= now + MaxBackoff
  BY <1>2 DEF LoopsTimed
<1>4. ASSUME cp = "down"
      PROVE  /\ lastHB <= cpSince
             /\ \/ Started
                \/ watch = "open" /\ now = cpSince
                \/ watch = "backoff" /\ watchDue <= Limit
                \/ watch = "connecting" /\ now <= Limit
  BY <1>2, <1>4 DEF OutageTimed
<1>5. CASE HeartbeatTick
  <2>1. cp = "down" /\ UNCHANGED <<vars, cp, watch, watchDue, cpSince>>
    BY <1>5 DEF HeartbeatTick, HeartbeatRejected
  <2> QED
    BY <1>4, <2>1 DEF OutageTimed, vars
<1>6. CASE WatchConnect \/ WatchEnd
  <2>1. cp = "down" /\ UNCHANGED <<now, lastHB, cpSince, cp>>
    BY <1>6 DEF WatchConnect, WatchEnd, Sleep, MarkWatchDown, MarkWatchUp
  <2>2. \/ watch = "connecting" /\ Sleep(backoff)
        \/ watch = "open" /\ Sleep(InitialBackoff)
    BY <1>6, <2>1 DEF WatchConnect, WatchEnd, HeartbeatRejected
  <2>3. CASE Started
    <3>1. Recompute(lastHB, FALSE) /\ ~watchUp
      BY <1>1, <2>2, <2>3 DEF Sleep, MarkWatchDown
    <3>2. bothStaleSince' = bothStaleSince
      BY <1>0, <2>3, <3>1, StaleTimerKept
    <3> QED
      BY <1>4, <2>1, <2>3, <3>2 DEF OutageTimed
  <2>4. CASE now <= Limit
    <3>1. \/ bothStaleSince' # 0 /\ bothStaleSince' <= Limit
          \/ watch' = "backoff" /\ watchDue' <= Limit
      BY <1>1, <1>4, <2>1, <2>2, <2>4, SleepStarts
    <3> QED
      BY <1>4, <2>1, <3>1 DEF OutageTimed
  <2>5. cpSince <= Limit
    BY <1>1
  <2> QED
    BY <1>4, <2>1, <2>2, <2>3, <2>4, <2>5
<1>7. CASE SleepBackoff
  <2>1. /\ cp = "down" /\ UNCHANGED <<vars, cp, watchDue, cpSince>>
        /\ watch = "backoff" /\ watch' = "connecting" /\ now >= watchDue
    BY <1>7 DEF SleepBackoff
  <2>2. now <= watchDue
    BY <1>3, <2>1
  <2> QED
    BY <1>1, <1>4, <2>1, <2>2 DEF OutageTimed, vars
<1>8. CASE CPChange
  <2>1. UNCHANGED <<vars, watch, watchDue>> /\ cpSince' = now
    BY <1>8 DEF CPChange
  <2>2. /\ now <= now + UnreachableThreshold + MaxBackoff
        /\ watch = "backoff" => watchDue <= now + UnreachableThreshold + MaxBackoff
    BY <1>1, <1>3
  <2>3. watch \in {"connecting", "open", "backoff"}
    BY DEF LoopsTyped
  <2> QED
    BY <1>1, <2>1, <2>2, <2>3 DEF OutageTimed, vars
<1>9. CASE Revoke \/ UNCHANGED allVars
  <2>1. UNCHANGED <<vars, cp, watch, watchDue, cpSince>>
    BY <1>9 DEF Revoke, allVars, loopVars
  <2> QED
    BY <1>4, <2>1 DEF OutageTimed, vars
<1>10. CASE LoopTick
  <2>1. /\ UNCHANGED <<lastHB, bothStaleSince, cp, watch, watchDue, cpSince>>
        /\ watch # "connecting" /\ watch # "open"
    BY <1>2, <1>10 DEF LoopTick, NothingDue, Tick, loopVars
  <2> QED
    BY <1>4, <2>1 DEF OutageTimed
<1>11. CASE Read
  <2>1. UNCHANGED <<now, lastHB, watchUp, cp, watch, watchDue, cpSince>>
    BY <1>11 DEF Read, SnapshotLoad, SnapshotFast, SnapshotLocked, loopVars
  <2>2. Started => bothStaleSince' = bothStaleSince
    <3> SUFFICES ASSUME Started PROVE bothStaleSince' = bothStaleSince
      OBVIOUS
    <3>1. CASE \E r \in Readers : SnapshotLocked(r)
      <4>1. Recompute(lastHB, watchUp) /\ watchUp = FALSE
        BY <1>0, <1>1, <3>1 DEF SnapshotLocked, LinkInv, TypeOK
      <4> QED
        BY <1>0, <4>1, StaleTimerKept
    <3>2. CASE \E r \in Readers : SnapshotLoad(r) \/ SnapshotFast(r)
      BY <3>2 DEF SnapshotLoad, SnapshotFast
    <3> QED
      BY <1>11, <3>1, <3>2 DEF Read
  <2> QED
    BY <1>4, <2>1, <2>2 DEF OutageTimed
<1> QED
  BY <1>5, <1>6, <1>7, <1>8, <1>9, <1>10, <1>11 DEF LoopNext

\* linkstate.go:145-157, watch.go:91-105: for every threshold and backoff, a
\* control plane that has been down for two thresholds and a reconnect delay is
\* seen to be down by the next Snapshot, whatever the traffic.
THEOREM OutagesAreDetected == LoopSpec => []OutageDetected
<1> USE LoopAssumption, ThresholdsAssumption
<1>1. LoopInit => OutageTimed
  BY DEF LoopInit, OutageTimed
<1>2. LoopsTyped /\ LoopsTimed /\ OutageTimed => OutageDetected
  <2> SUFFICES ASSUME LoopsTyped, LoopsTimed, OutageTimed, running, cp = "down",
                      now - cpSince > 2 * UnreachableThreshold + MaxBackoff
               PROVE  WouldBeUnreachable
    BY DEF OutageDetected
  <2>1. now \in Nat /\ cpSince \in Nat /\ watchDue \in Nat /\ lastHB \in Nat
    BY DEF LoopsTyped, LinkInv, TypeOK
  <2>2. watch = "backoff" => now <= watchDue
    BY DEF LoopsTimed
  <2>3. /\ bothStaleSince # 0
        /\ bothStaleSince <= cpSince + UnreachableThreshold + MaxBackoff
    BY <2>1, <2>2 DEF OutageTimed
  <2>4. bothStaleSince \in Nat /\ ~watchUp /\ HBExpiry <= now
    BY <2>3 DEF LoopsTyped, LinkInv, StaleTimerSound, IsZero, TypeOK, HBExpiry
  <2>5. HBStale(lastHB, now)
    BY <2>1, <2>4 DEF HBExpiry, HBStale, IsZero
  <2>6. now - FirstSeen(bothStaleSince) >= UnreachableThreshold
    BY <2>1, <2>3, <2>4 DEF FirstSeen, IsZero
  <2> QED
    BY <2>4, <2>5, <2>6 DEF WouldBeUnreachable
<1> QED
  BY <1>1, <1>2, InitLoops, NextLoopsTyped, NextLoopsTimed, NextOutageTimed, PTL
     DEF LoopSpec

-----------------------------------------------------------------------------
(***************************************************************************)
(* Recovery.  Heartbeats that come further apart than the threshold leave  *)
(* the heartbeat proof stale between any two of them, and a read made then *)
(* restarts the recovery timer: the configuration must not be like that.   *)
(***************************************************************************)
BeatsInTime == HeartbeatInterval <= UnreachableThreshold

\* A ticker whose latest tick succeeded keeps the heartbeat proof fresh.
LEMMA BeatingIsFresh ==
  ASSUME BeatsInTime, LoopsTyped, LoopsTimed, running, Beating
  PROVE  ~HBStale(lastHB, now)
  BY LoopAssumption, ThresholdsAssumption
     DEF BeatsInTime, LoopsTyped, LinkInv, TypeOK, LoopsTimed, Beating, HBStale, IsZero

\* A recompute from two fresh proofs leaves the verdict good or the recovery
\* timer running, from the instant it was already running or from now.
LEMMA RecoveryStarts ==
  ASSUME LoopsTyped, NEW hb \in Nat, Recompute(hb, TRUE), ~HBStale(hb, now), unreachable'
  PROVE  /\ unreachable
         /\ recoverSince' \in Nat \ {0} /\ recoverSince' <= now
         /\ recoverSince # 0 => recoverSince' = recoverSince
<1>1. TypeOK /\ TRUE \in BOOLEAN /\ recoverSince <= now
  BY DEF LoopsTyped, LinkInv
<1>2. unreachable /\ recoverSince' = FirstSeen(recoverSince)
  BY <1>1, RecomputeTimers
<1> QED
  BY <1>1, <1>2 DEF FirstSeen, IsZero, TypeOK

\* After an outage both loops make their deadlines, and the recovery timer is
\* started by the later of the two proofs.
LEMMA NextRecoveryTimed ==
  ASSUME BeatsInTime
  PROVE  LoopsTyped /\ LoopsTimed /\ RecoveryTimed /\ [LoopNext]_allVars
           => RecoveryTimed'
<1> SUFFICES ASSUME LoopsTyped, LoopsTimed, RecoveryTimed, [LoopNext]_allVars, running'
             PROVE  RecoveryTimed'
  BY DEF RecoveryTimed, BothFresh
<1> USE LoopAssumption, ThresholdsAssumption
<1> DEFINE Limit == cpSince + MaxBackoff + HeartbeatInterval
<1>0. LoopsTyped' /\ LoopsTimed'
  BY NextLoopsTyped, NextLoopsTimed
<1>1. /\ now \in Nat \ {0} /\ lastHB \in Nat /\ lastHB <= now
      /\ recoverSince \in Nat /\ recoverSince <= now
      /\ cpSince \in Nat /\ cpSince <= now
      /\ hbDue \in Nat /\ watchDue \in Nat
      /\ watch \in {"connecting", "open", "backoff"}
  BY DEF LoopsTyped, LinkInv, TypeOK
<1>2. running
  BY DEF LoopNext, HeartbeatTick, WatchConnect, WatchEnd, SleepBackoff,
         CPChange, Revoke, LoopTick, Read, allVars, loopVars
<1>3. /\ watchUp <=> (watch = "open")
      /\ now <= hbDue /\ hbDue <= now + HeartbeatInterval
      /\ lastHB + HeartbeatInterval <= hbDue
      /\ watch = "backoff" => now <= watchDue /\ watchDue <= now + MaxBackoff
  BY <1>2 DEF LoopsTimed
<1>4. BothFresh /\ unreachable => recoverSince # 0
  BY DEF RecoveryTimed
<1>5. ASSUME cp = "up", tokenValid
      PROVE  /\ \/ watch = "open"
                \/ watch = "backoff" /\ watchDue <= cpSince + MaxBackoff
                \/ watch = "connecting" /\ now <= cpSince + MaxBackoff
             /\ Beating \/ hbDue <= cpSince + HeartbeatInterval
             /\ BothFresh /\ unreachable => recoverSince <= Limit
  BY <1>2, <1>5 DEF RecoveryTimed
<1>6. CASE HeartbeatTick /\ TouchHeartbeat
  <2>1. /\ now = hbDue /\ hbDue' = now + HeartbeatInterval /\ lastHB' = now
        /\ UNCHANGED <<now, watchUp, cp, tokenValid, watch, watchDue, cpSince>>
        /\ Recompute(now, watchUp)
    BY <1>1, <1>3, <1>6 DEF HeartbeatTick, TouchHeartbeat
  <2>2. Beating'
    BY <1>1, <2>1 DEF Beating
  <2>3. ASSUME BothFresh', unreachable'
        PROVE  /\ unreachable /\ recoverSince' \in Nat \ {0} /\ recoverSince' <= now
               /\ recoverSince # 0 => recoverSince' = recoverSince
    <3>1. watchUp = TRUE
      BY <1>3, <2>1, <2>3 DEF BothFresh, LoopsTyped, LinkInv, TypeOK
    <3>2. Recompute(now, TRUE) /\ ~HBStale(now, now)
      BY <2>1, <3>1, BeatIsFresh DEF LoopsTyped, LinkInv
    <3> QED
      BY <1>1, <2>3, <3>2, RecoveryStarts
  <2>4. BothFresh' /\ unreachable' => recoverSince' # 0
    BY <2>3
  <2>5. ASSUME cp = "up", tokenValid, BothFresh', unreachable' PROVE recoverSince' <= Limit
    <3>1. /\ unreachable /\ recoverSince' \in Nat \ {0} /\ recoverSince' <= now
          /\ recoverSince # 0 => recoverSince' = recoverSince
      BY <2>3, <2>5
    <3>2. CASE Beating
      <4>1. BothFresh
        BY <1>2, <2>1, <2>5, <3>2 DEF BothFresh
      <4>2. recoverSince # 0 /\ recoverSince <= Limit
        BY <1>4, <1>5, <2>5, <3>1, <4>1
      <4> QED
        BY <3>1, <4>2
    <3>3. CASE ~Beating
      <4>1. now <= Limit
        BY <1>1, <1>5, <2>1, <2>5, <3>3
      <4> QED
        BY <1>1, <3>1, <4>1
    <3> QED
      BY <3>2, <3>3
  <2> QED
    BY <1>5, <2>1, <2>2, <2>4, <2>5 DEF RecoveryTimed
<1>7. CASE HeartbeatTick /\ ~TouchHeartbeat
  <2>1. cp = "down" /\ cp' = "down" /\ hbDue' = now + HeartbeatInterval
    BY <1>7 DEF HeartbeatTick, HeartbeatRejected
  <2>2. now = hbDue /\ lastHB' = lastHB
    BY <1>1, <1>3, <1>7 DEF HeartbeatTick, HeartbeatRejected, vars
  <2>3. ~Beating'
    BY <1>1, <1>3, <2>1, <2>2 DEF Beating
  <2> QED
    BY <2>1, <2>3 DEF RecoveryTimed, BothFresh
<1>8. CASE WatchConnect /\ MarkWatchUp
  <2>1. /\ cp = "up" /\ tokenValid /\ watch = "connecting" /\ watch' = "open"
        /\ UNCHANGED <<now, lastHB, hbDue, cp, tokenValid, cpSince>>
        /\ Recompute(lastHB, TRUE)
    <3>1. cp = "up" /\ tokenValid /\ watch' = "open" /\ MarkWatchUp
      BY <1>8 DEF WatchConnect, Sleep, MarkWatchUp, MarkWatchDown
    <3> QED
      BY <1>8, <3>1 DEF WatchConnect, MarkWatchUp
  <2>2. Beating' <=> Beating
    BY <2>1 DEF Beating
  <2>3. ASSUME BothFresh', unreachable'
        PROVE  recoverSince' \in Nat \ {0} /\ recoverSince' <= now
    <3>1. ~HBStale(lastHB, now)
      BY <1>2, <2>2, <2>3, BeatingIsFresh DEF BothFresh
    <3> QED
      BY <1>1, <2>1, <2>3, <3>1, RecoveryStarts
  <2>4. BothFresh' /\ unreachable' => recoverSince' # 0
    BY <2>3
  <2>5. now <= Limit
    BY <1>1, <1>5, <2>1
  <2>6. BothFresh' /\ unreachable' => recoverSince' <= Limit
    BY <1>1, <2>3, <2>5
  <2> QED
    BY <1>5, <2>1, <2>2, <2>4, <2>6 DEF RecoveryTimed
<1>9. CASE (WatchConnect /\ ~MarkWatchUp) \/ WatchEnd
  <2>1. watch' = "backoff" /\ cp' # "up"
    BY <1>9 DEF WatchConnect, WatchEnd, Sleep, HeartbeatRejected
  <2> QED
    BY <2>1 DEF RecoveryTimed, BothFresh
<1>10. CASE SleepBackoff
  <2>1. /\ UNCHANGED <<vars, cp, tokenValid, hbDue, cpSince>>
        /\ watch = "backoff" /\ watch' = "connecting" /\ now >= watchDue
    BY <1>10 DEF SleepBackoff
  <2>2. cp = "up" /\ tokenValid => now <= cpSince + MaxBackoff
    BY <1>1, <1>3, <1>5, <2>1
  <2>3. Beating' <=> Beating
    BY <2>1 DEF Beating, vars
  <2> QED
    BY <1>5, <2>1, <2>2, <2>3 DEF RecoveryTimed, BothFresh, vars
<1>11. CASE CPChange
  <2>1. UNCHANGED <<vars, watch, watchDue, hbDue>> /\ cpSince' = now /\ running' = running
    BY <1>11 DEF CPChange
  <2>2. /\ watch = "backoff" => watchDue <= now + MaxBackoff
        /\ now <= now + MaxBackoff
        /\ hbDue <= now + HeartbeatInterval
        /\ recoverSince <= now + MaxBackoff + HeartbeatInterval
    BY <1>1, <1>3
  <2>3. (Beating' <=> Beating) /\ (BothFresh' <=> BothFresh)
    BY <2>1 DEF BothFresh, Beating, vars
  <2> QED
    BY <1>1, <1>4, <2>1, <2>2, <2>3 DEF RecoveryTimed, vars
<1>12. CASE Revoke \/ UNCHANGED allVars
  <2>1. /\ UNCHANGED <<vars, cp, watch, watchDue, hbDue, cpSince, running>>
        /\ tokenValid' = tokenValid \/ ~tokenValid'
    BY <1>12, Zenon DEF Revoke, allVars, loopVars
  <2>2. (Beating' <=> Beating) /\ (BothFresh' <=> BothFresh)
    BY <2>1 DEF BothFresh, Beating, vars
  <2> QED
    BY <1>4, <1>5, <2>1, <2>2 DEF RecoveryTimed, vars
<1>13. CASE LoopTick
  <2>1. /\ UNCHANGED <<lastHB, recoverSince, unreachable, cp, tokenValid>>
        /\ UNCHANGED <<watch, watchDue, hbDue, cpSince, running>>
        /\ watch # "connecting"
    BY <1>2, <1>13 DEF LoopTick, NothingDue, Tick, loopVars
  <2>2. (Beating' <=> Beating) /\ (BothFresh' <=> BothFresh)
    BY <2>1 DEF BothFresh, Beating
  <2> QED
    BY <1>4, <1>5, <2>1, <2>2 DEF RecoveryTimed
<1>14. CASE Read
  <2>1. /\ UNCHANGED <<now, lastHB, watchUp, cp, tokenValid>>
        /\ UNCHANGED <<watch, watchDue, hbDue, cpSince, running>>
    BY <1>14 DEF Read, SnapshotLoad, SnapshotFast, SnapshotLocked, loopVars
  <2>2. (Beating' <=> Beating) /\ (BothFresh' <=> BothFresh)
    BY <2>1 DEF BothFresh, Beating
  <2>3. BothFresh /\ unreachable' => unreachable /\ recoverSince' = recoverSince
    <3> SUFFICES ASSUME BothFresh, unreachable'
                 PROVE  unreachable /\ recoverSince' = recoverSince
      OBVIOUS
    <3>1. CASE \E r \in Readers : SnapshotLocked(r)
      <4>1. watchUp = TRUE
        BY <1>3 DEF BothFresh, LoopsTyped, LinkInv, TypeOK
      <4>2. Recompute(lastHB, TRUE)
        BY <3>1, <4>1 DEF SnapshotLocked
      <4>3. ~HBStale(lastHB, now)
        BY BeatingIsFresh DEF BothFresh
      <4> QED
        BY <1>1, <1>4, <4>2, <4>3, RecoveryStarts
    <3>2. CASE \E r \in Readers : SnapshotLoad(r) \/ SnapshotFast(r)
      BY <3>2 DEF SnapshotLoad, SnapshotFast
    <3> QED
      BY <1>14, <3>1, <3>2 DEF Read
  <2> QED
    BY <1>4, <1>5, <2>1, <2>2, <2>3 DEF RecoveryTimed
<1> QED
  BY <1>6, <1>7, <1>8, <1>9, <1>10, <1>11, <1>12, <1>13, <1>14 DEF LoopNext

\* linkstate.go:159-178, heartbeat.go, watch.go: whenever heartbeats come at
\* least once per threshold, a control plane that has been back for a reconnect
\* delay, a heartbeat and the recover threshold is no longer held unreachable.
THEOREM OutagesHeal ==
  ASSUME BeatsInTime
  PROVE  LoopSpec => []OutageHealed
<1> USE LoopAssumption, ThresholdsAssumption
<1>1. LoopInit => RecoveryTimed
  BY DEF LoopInit, Init, RecoveryTimed, BothFresh, Beating, Zero
<1>2. LoopsTyped /\ LoopsTimed /\ RecoveryTimed => OutageHealed
  <2> SUFFICES ASSUME LoopsTyped, LoopsTimed, RecoveryTimed,
                      running, tokenValid, cp = "up",
                      now - cpSince > MaxBackoff + HeartbeatInterval + RecoverThreshold
               PROVE  ~WouldBeUnreachable
    BY DEF OutageHealed
  <2>1. /\ now \in Nat /\ cpSince \in Nat /\ watchDue \in Nat /\ hbDue \in Nat
        /\ recoverSince \in Nat
    BY DEF LoopsTyped, LinkInv, TypeOK
  <2>2. now <= hbDue /\ (watch = "backoff" => now <= watchDue)
    BY DEF LoopsTimed
  <2>3. watch = "open" /\ Beating
    BY <2>1, <2>2 DEF RecoveryTimed
  <2>4. watchUp /\ ~HBStale(lastHB, now)
    BY <2>3, BeatingIsFresh DEF LoopsTimed
  <2>5. unreachable => now - FirstSeen(recoverSince) >= RecoverThreshold
    <3> SUFFICES ASSUME unreachable
                 PROVE  now - FirstSeen(recoverSince) >= RecoverThreshold
      OBVIOUS
    <3>1. /\ recoverSince # 0
          /\ recoverSince <= cpSince + MaxBackoff + HeartbeatInterval
      BY <2>3 DEF RecoveryTimed, BothFresh
    <3> QED
      BY <2>1, <3>1 DEF FirstSeen, IsZero
  <2> QED
    BY <2>4, <2>5 DEF WouldBeUnreachable
<1> QED
  BY <1>1, <1>2, InitLoops, NextLoopsTyped, NextLoopsTimed, NextRecoveryTimed, PTL
     DEF LoopSpec

-----------------------------------------------------------------------------
(***************************************************************************)
(* The lock-free Snapshot.  A reader holds a pointer that may be overtaken *)
(* by any number of steps before it decides.                               *)
(***************************************************************************)

\* The verdict of a snapshot in a reader's hands was true when it was loaded,
\* or the reader will not return it: its proofs send it to the locked path now
\* and at any later time.
HeldSound(r) ==
  reading[r] # NilSnapshot =>
    \/ /\ reading[r].state = "unreachable"
       /\ TRUE \in during[r] \/ reading[r].watchUp
    \/ /\ reading[r].state # "unreachable"
       /\ \/ FALSE \in during[r]
          \/ HBStale(reading[r].lastHB, now) /\ ~reading[r].watchUp

ReadInv ==
  /\ LinkInv
  /\ during \in [Readers -> SUBSET BOOLEAN]
  /\ \A r \in Readers : HeldSound(r)

\* The verdict a recompute would give is a verdict.
LEMMA VerdictTyped == TypeOK => WouldBeUnreachable \in BOOLEAN
  BY Zenon DEF TypeOK, WouldBeUnreachable

\* A recompute from the tracker's own proofs gives the verdict it announces.
LEMMA RecomputeIsVerdict ==
  ASSUME TypeOK, Recompute(lastHB, watchUp)
  PROVE  unreachable' <=> WouldBeUnreachable
<1>1. CASE HBStale(lastHB, now) /\ ~watchUp
  BY <1>1 DEF Recompute, RecomputeStale, WouldBeUnreachable
<1>2. CASE ~(HBStale(lastHB, now) /\ ~watchUp)
  BY <1>2 DEF Recompute, RecomputeRecovering, WouldBeUnreachable
<1> QED
  BY <1>1, <1>2

\* What a reader learns from the pointer at the instant it loads it.
LEMMA LoadedVerdict ==
  ASSUME LinkInv, snap # NilSnapshot
  PROVE  /\ snap.state = "unreachable" => WouldBeUnreachable \/ snap.watchUp
         /\ snap.state # "unreachable" =>
              ~WouldBeUnreachable \/ (HBStale(snap.lastHB, now) /\ ~snap.watchUp)
<1>1. /\ snap.lastHB = lastHB
      /\ snap.watchUp = watchUp
      /\ (snap.state = "unreachable") <=> unreachable
  BY DEF LinkInv, SnapshotCurrent
<1>2. unreachable /\ ~watchUp => WouldBeUnreachable
  BY DEF WouldBeUnreachable
<1>3. ~unreachable /\ ~(HBStale(lastHB, now) /\ ~watchUp) => ~WouldBeUnreachable
  BY DEF WouldBeUnreachable
<1> QED
  BY <1>1, <1>2, <1>3

\* A reader's pointer changes only by its own load and its own return, and
\* time only passes.
LEMMA ReadingStep ==
  ASSUME TypeOK, [Next]_vars, NEW r \in Readers
  PROVE  /\ reading'[r] # NilSnapshot =>
              \/ reading'[r] = reading[r]
              \/ reading[r] = NilSnapshot /\ snap # NilSnapshot /\ reading'[r] = snap
         /\ reading[r] # NilSnapshot /\ reading'[r] = NilSnapshot =>
              SnapshotFast(r) \/ SnapshotLocked(r)
         /\ now' = now \/ now' = now + 1
<1>1. CASE Tick \/ TouchHeartbeat \/ MarkWatchUp \/ MarkWatchDown \/ UNCHANGED vars
  <2>1. UNCHANGED reading /\ (now' = now \/ now' = now + 1)
    BY <1>1 DEF Tick, TouchHeartbeat, MarkWatchUp, MarkWatchDown, vars
  <2> QED
    BY <2>1
<1>2. ASSUME NEW q \in Readers, SnapshotLoad(q) \/ SnapshotFast(q) \/ SnapshotLocked(q)
      PROVE  /\ now' = now
             /\ q # r => reading'[r] = reading[r]
             /\ \/ /\ reading'[q] = snap /\ snap # NilSnapshot
                   /\ reading[q] = NilSnapshot
                \/ reading'[q] = NilSnapshot /\ (SnapshotFast(q) \/ SnapshotLocked(q))
  BY <1>2 DEF SnapshotLoad, SnapshotFast, SnapshotLocked, TypeOK
<1> QED
  BY <1>1, <1>2 DEF Next

\* No reader has loaded anything yet.
LEMMA InitReadInv == MCInit => ReadInv
<1> SUFFICES ASSUME MCInit PROVE ReadInv
  OBVIOUS
<1>1. LinkInv /\ reading = [r \in Readers |-> NilSnapshot]
  BY InitLinkInv DEF MCInit, LoopInit, Init
<1>2. during \in [Readers -> SUBSET BOOLEAN]
  BY DEF MCInit
<1> QED
  BY <1>1, <1>2 DEF ReadInv, HeldSound

\* While a reader hesitates the verdicts of the meantime pile up, and proofs
\* that were stale when it loaded them stay stale.
LEMMA NextReadInv == ReadInv /\ [MCNext]_mcVars => ReadInv'
<1> SUFFICES ASSUME ReadInv, [MCNext]_mcVars PROVE ReadInv'
  OBVIOUS
<1>1. CASE UNCHANGED mcVars
  <2>1. UNCHANGED vars /\ UNCHANGED during
    BY <1>1 DEF mcVars, allVars
  <2>2. LinkInv'
    BY <2>1, NextLinkInv DEF ReadInv
  <2> QED
    BY <2>1, <2>2 DEF ReadInv, HeldSound, HBStale, IsZero, vars
<1>2. CASE MCNext
  <2>1. [Next]_vars
    BY <1>2, LoopStep DEF MCNext
  <2>2. LinkInv /\ TypeOK /\ LinkInv' /\ TypeOK'
    BY <2>1, NextLinkInv DEF ReadInv, LinkInv
  <2>3. WouldBeUnreachable \in BOOLEAN /\ WouldBeUnreachable' \in BOOLEAN
    BY <2>2, Zenon DEF TypeOK, WouldBeUnreachable
  <2>4. \A r \in Readers : Verdicts(r) \subseteq BOOLEAN
    BY DEF ReadInv, Verdicts
  <2>5. during' \in [Readers -> SUBSET BOOLEAN]
    BY <1>2, <2>3, <2>4, Zenon DEF MCNext
  <2>6. ASSUME NEW r \in Readers, reading'[r] # NilSnapshot PROVE HeldSound(r)'
    <3>1. during'[r] = Verdicts(r) \cup {WouldBeUnreachable, WouldBeUnreachable'}
      BY <1>2, <2>6, Zenon DEF MCNext
    <3>2. CASE reading[r] # NilSnapshot /\ reading'[r] = reading[r]
      <4>1. during[r] \subseteq during'[r]
        BY <3>1, <3>2 DEF Verdicts
      <4>2. HBStale(reading[r].lastHB, now) => HBStale(reading[r].lastHB, now')
        <5>1. reading[r].lastHB \in Nat /\ now \in Nat
          BY <2>2, <3>2 DEF TypeOK, Snapshots
        <5>2. now' = now \/ now' = now + 1
          BY <2>1, <2>2, ReadingStep
        <5> QED
          BY <5>1, <5>2, ThresholdsAssumption DEF HBStale
      <4>3. HeldSound(r)
        BY DEF ReadInv
      <4> QED
        BY <3>2, <4>1, <4>2, <4>3 DEF HeldSound
    <3>3. CASE reading[r] = NilSnapshot /\ snap # NilSnapshot /\ reading'[r] = snap
      <4>1. now' = now
        BY <1>2, <2>6, <3>3, <2>2
           DEF MCNext, LoopNext, HeartbeatTick, TouchHeartbeat, WatchConnect, Sleep, WatchEnd,
               MarkWatchUp, MarkWatchDown, SleepBackoff, CPChange, Revoke, LoopTick, Tick,
               Read, SnapshotLoad, SnapshotFast, SnapshotLocked, vars
      <4>2. /\ WouldBeUnreachable => TRUE \in during'[r]
            /\ ~WouldBeUnreachable => FALSE \in during'[r]
        BY <2>3, <3>1, Zenon
      <4> QED
        BY <2>2, <3>3, <4>1, <4>2, LoadedVerdict DEF HeldSound
    <3> QED
      BY <2>1, <2>2, <2>6, <3>2, <3>3, ReadingStep
  <2> QED
    BY <2>2, <2>5, <2>6 DEF ReadInv, HeldSound
<1> QED
  BY <1>1, <1>2

\* linkstate.go:94-105: Snapshot is linearizable.  Whatever mutators, reads and
\* ticks come between its atomic load and its return, the verdict it returns
\* was the true verdict at some instant of the call.
THEOREM SnapshotsLinearize == MCSpec => SnapshotLinearizable
<1>1. ASSUME ReadInv, MCNext, NEW r \in Readers,
             reading[r] # NilSnapshot, reading'[r] = NilSnapshot
      PROVE  (answer'[r].state = "unreachable")
                \in during[r] \cup {WouldBeUnreachable, WouldBeUnreachable'}
  <2>1. [Next]_vars /\ TypeOK /\ HeldSound(r)
    BY <1>1, LoopStep DEF MCNext, ReadInv, LinkInv
  <2>2. SnapshotFast(r) \/ SnapshotLocked(r)
    BY <1>1, <2>1, ReadingStep
  <2>3. CASE SnapshotFast(r)
    <3>1. answer'[r] = reading[r] /\ ~TimeMayAdvance(reading[r])
      BY <2>1, <2>3 DEF SnapshotFast, TypeOK
    <3>2. CASE reading[r].state = "unreachable"
      <4>1. TRUE \in during[r]
        BY <1>1, <2>1, <3>1, <3>2 DEF HeldSound, TimeMayAdvance
      <4>2. (answer'[r].state = "unreachable") = TRUE
        BY <3>1, <3>2
      <4> QED
        BY <4>1, <4>2, Zenon
    <3>3. CASE reading[r].state # "unreachable"
      <4>1. FALSE \in during[r]
        BY <1>1, <2>1, <3>1, <3>3 DEF HeldSound, TimeMayAdvance
      <4>2. (answer'[r].state = "unreachable") = FALSE
        BY <3>1, <3>3
      <4> QED
        BY <4>1, <4>2, Zenon
    <3> QED
      BY <3>2, <3>3
  <2>4. CASE SnapshotLocked(r)
    <3>1. answer'[r] = snap' /\ Recompute(lastHB, watchUp)
      BY <2>1, <2>4 DEF SnapshotLocked, TypeOK
    <3>2. (snap'.state = "unreachable") = unreachable' /\ unreachable' \in BOOLEAN
      BY <2>1, <3>1, RecomputePublishes, RecomputeTyped DEF TypeOK
    <3>3. unreachable' <=> WouldBeUnreachable
      BY <2>1, <3>1, RecomputeIsVerdict
    <3>4. WouldBeUnreachable \in BOOLEAN
      BY <2>1, VerdictTyped
    <3>5. (answer'[r].state = "unreachable") = WouldBeUnreachable
      BY <3>1, <3>2, <3>3, <3>4
    <3> QED
      BY <3>5, Zenon
  <2> QED
    BY <2>2, <2>3, <2>4
<1>2. ReadInv /\ [MCNext]_mcVars =>
        [\A r \in Readers :
           reading[r] # NilSnapshot /\ reading'[r] = NilSnapshot =>
             (answer'[r].state = "unreachable")
                \in during[r] \cup {WouldBeUnreachable, WouldBeUnreachable'}]_mcVars
  BY <1>1, Zenon
<1> QED
  BY <1>2, InitReadInv, NextReadInv, PTL DEF MCSpec, SnapshotLinearizable
=============================================================================
