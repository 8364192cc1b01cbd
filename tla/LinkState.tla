----------------------------- MODULE LinkState -----------------------------
(***************************************************************************)
(* The data plane's view of its link to the control plane                  *)
(* (internal/application/dataplane/agenthost/linkstate.go).                *)
(*                                                                         *)
(* Two proofs of life feed it: the time of the last successful heartbeat   *)
(* and whether the Watch stream is up.  The link becomes unreachable when  *)
(* both proofs have been stale for the unreachable threshold, and leaves   *)
(* that state when both have been fresh for the recover threshold.  Under  *)
(* the fail_closed strategy an unreachable link makes the HTTP handler     *)
(* answer 503.                                                             *)
(*                                                                         *)
(* Mutators run under the mutex and are one action each.  Snapshot is two: *)
(* it loads the published pointer without the lock, then decides from the  *)
(* clock whether to return it or to recompute.  Time is a clock that       *)
(* starts at 1, so that 0 is Go's zero time.Time.                          *)
(***************************************************************************)
EXTENDS Integers

CONSTANTS
  UnreachableThreshold,   \* [dataplane] cp_unreachable_threshold, in clock ticks
  RecoverThreshold,       \* [dataplane] cp_recover_threshold, in clock ticks
  FailClosed,             \* TRUE iff the strategy is fail_closed
  Readers,                \* goroutines that call Snapshot: requests and probes
  MaxTime                 \* bound of the clock

ASSUME ThresholdsAssumption ==
  /\ UnreachableThreshold \in Nat \ {0}   \* NewLinkState clamps to 30s
  /\ RecoverThreshold \in Nat
ASSUME StrategyAssumption == FailClosed \in BOOLEAN
ASSUME MaxTimeAssumption == MaxTime \in Nat

VARIABLES
  now,              \* the wall clock
  lastHB,           \* time of the last successful heartbeat, or zero
  watchUp,          \* the watch stream is open and resynced
  bothStaleSince,   \* when both proofs were first seen stale, or zero
  recoverSince,     \* when both proofs were first seen fresh again, or zero
  unreachable,      \* the latched verdict
  snap,             \* the atomically published snapshot
  reading,          \* snapshot pointer each reader has loaded, if any
  answer,           \* last snapshot each reader returned
  watchDownAt       \* history: when the watch proof was last lost

vars == <<now, lastHB, watchUp, bothStaleSince, recoverSince, unreachable,
          snap, reading, answer, watchDownAt>>

IsZero(t) == t = 0
Zero == 0

States == {"connected", "degraded", "unreachable"}

Snapshots == [state : States, rejecting : BOOLEAN,
              lastHB : Nat, watchUp : BOOLEAN]

\* A nil pointer: nothing published yet, or nothing loaded.
NilSnapshot == [state |-> "nil", rejecting |-> FALSE,
                lastHB |-> 0, watchUp |-> FALSE]

HBStale(hb, t) == IsZero(hb) \/ t - hb > UnreachableThreshold

(***************************************************************************)
(* recomputeLocked followed by publishLocked, from heartbeat time hb and   *)
(* watch flag wu.                                                          *)
(***************************************************************************)
ObservableState(unr, hb, wu) ==
  IF unr THEN "unreachable"
  ELSE IF HBStale(hb, now) \/ ~wu THEN "degraded" ELSE "connected"

SnapshotOf(unr, hb, wu) ==
  [state     |-> ObservableState(unr, hb, wu),
   rejecting |-> unr /\ FailClosed,
   lastHB    |-> hb,
   watchUp   |-> wu]

\* Mutant: the timer is backdated by one threshold.
FirstSeenBackdated(since) ==
  IF IsZero(since) THEN now - UnreachableThreshold ELSE since

FirstSeen(since) == IF IsZero(since) THEN now ELSE since

RecomputeStale ==
  LET since == FirstSeen(bothStaleSince) IN
  /\ bothStaleSince' = since
  /\ recoverSince' = Zero
  /\ unreachable' = (unreachable \/ now - since >= UnreachableThreshold)

\* Mutant: the stale timer survives a fresh proof.
RecomputeKeepsStaleTimer(hb, wu) ==
  /\ UNCHANGED bothStaleSince
  /\ \/ ~unreachable /\ UNCHANGED <<recoverSince, unreachable>>
     \/ unreachable /\ (HBStale(hb, now) \/ ~wu)
        /\ recoverSince' = Zero /\ UNCHANGED unreachable
     \/ unreachable /\ ~HBStale(hb, now) /\ wu
        /\ unreachable' = FALSE /\ recoverSince' = Zero

\* Mutant: any one fresh proof starts the recovery.
RecomputeOnOneProof(hb, wu) ==
  /\ bothStaleSince' = Zero
  /\ recoverSince' = Zero
  /\ unreachable' = FALSE

RecomputeRecovering(hb, wu) ==
  LET since == FirstSeen(recoverSince) IN
  /\ bothStaleSince' = Zero
  /\ \/ /\ ~unreachable
        /\ UNCHANGED <<recoverSince, unreachable>>
     \/ /\ unreachable
        /\ HBStale(hb, now) \/ ~wu
        /\ recoverSince' = Zero
        /\ UNCHANGED unreachable
     \/ /\ unreachable
        /\ ~HBStale(hb, now) /\ wu
        /\ IF now - since >= RecoverThreshold
           THEN unreachable' = FALSE /\ recoverSince' = Zero
           ELSE UNCHANGED unreachable /\ recoverSince' = since

Recompute(hb, wu) ==
  /\ IF HBStale(hb, now) /\ ~wu THEN RecomputeStale
                                ELSE RecomputeRecovering(hb, wu)
  /\ snap' = SnapshotOf(unreachable', hb, wu)

(***************************************************************************)
(* Mutators.                                                               *)
(***************************************************************************)
Init ==
  /\ now = 1
  /\ lastHB = Zero
  /\ watchUp = FALSE
  /\ bothStaleSince = Zero
  /\ recoverSince = Zero
  /\ unreachable = FALSE
  /\ snap = NilSnapshot
  /\ reading = [r \in Readers |-> NilSnapshot]
  /\ answer = [r \in Readers |-> NilSnapshot]
  /\ watchDownAt = 1

Tick ==
  /\ now < MaxTime
  /\ now' = now + 1
  /\ UNCHANGED <<lastHB, watchUp, bothStaleSince, recoverSince, unreachable,
                 snap, reading, answer, watchDownAt>>

TouchHeartbeat ==
  /\ lastHB' = now
  /\ Recompute(now, watchUp)
  /\ UNCHANGED <<now, watchUp, reading, answer, watchDownAt>>

MarkWatchUp ==
  /\ watchUp' = TRUE
  /\ Recompute(lastHB, TRUE)
  /\ UNCHANGED <<now, lastHB, reading, answer, watchDownAt>>

MarkWatchDown ==
  /\ watchUp' = FALSE
  /\ watchDownAt' = IF watchUp THEN now ELSE watchDownAt
  /\ Recompute(lastHB, FALSE)
  /\ UNCHANGED <<now, lastHB, reading, answer>>

(***************************************************************************)
(* Snapshot.                                                               *)
(***************************************************************************)
\* Mutant: the lock-free path is taken until the link is unreachable.
TimeMayAdvanceLate(s) ==
  s.state = "unreachable" /\ ~(HBStale(s.lastHB, now) /\ ~s.watchUp)

\* Mutant: a latched snapshot is never re-examined.
TimeMayAdvanceLatched(s) ==
  s.state # "unreachable" /\ HBStale(s.lastHB, now) /\ ~s.watchUp

TimeMayAdvance(s) ==
  LET bothStale == HBStale(s.lastHB, now) /\ ~s.watchUp IN
  IF s.state = "unreachable" THEN ~bothStale ELSE bothStale

\* snap.Load(): a nil pointer goes straight to the locked path.
SnapshotLoad(r) ==
  /\ reading[r] = NilSnapshot
  /\ snap # NilSnapshot
  /\ reading' = [reading EXCEPT ![r] = snap]
  /\ UNCHANGED <<now, lastHB, watchUp, bothStaleSince, recoverSince,
                 unreachable, snap, answer, watchDownAt>>

SnapshotFast(r) ==
  /\ reading[r] # NilSnapshot
  /\ ~TimeMayAdvance(reading[r])
  /\ answer' = [answer EXCEPT ![r] = reading[r]]
  /\ reading' = [reading EXCEPT ![r] = NilSnapshot]
  /\ UNCHANGED <<now, lastHB, watchUp, bothStaleSince, recoverSince,
                 unreachable, snap, watchDownAt>>

SnapshotLocked(r) ==
  /\ \/ reading[r] # NilSnapshot /\ TimeMayAdvance(reading[r])
     \/ reading[r] = NilSnapshot /\ snap = NilSnapshot
  /\ Recompute(lastHB, watchUp)
  /\ answer' = [answer EXCEPT ![r] = snap']
  /\ reading' = [reading EXCEPT ![r] = NilSnapshot]
  /\ UNCHANGED <<now, lastHB, watchUp, watchDownAt>>

Next ==
  \/ Tick
  \/ TouchHeartbeat
  \/ MarkWatchUp
  \/ MarkWatchDown
  \/ \E r \in Readers : SnapshotLoad(r) \/ SnapshotFast(r) \/ SnapshotLocked(r)

Spec == Init /\ [][Next]_vars

-----------------------------------------------------------------------------
(***************************************************************************)
(* Properties.                                                             *)
(***************************************************************************)

\* The tracker's fields and every snapshot published or held by a reader have
\* their types; a timer is never set before the clock started.
TypeOK ==
  /\ now \in Nat \ {0}
  /\ lastHB \in Nat
  /\ watchUp \in BOOLEAN
  /\ bothStaleSince \in Nat
  /\ recoverSince \in Nat
  /\ unreachable \in BOOLEAN
  /\ snap \in Snapshots \cup {NilSnapshot}
  /\ reading \in [Readers -> Snapshots \cup {NilSnapshot}]
  /\ answer \in [Readers -> Snapshots \cup {NilSnapshot}]
  /\ watchDownAt \in Nat \ {0}

\* The first instant at which the heartbeat proof is stale.
HBExpiry == IF IsZero(lastHB) THEN 1 ELSE lastHB + UnreachableThreshold + 1

\* The link has really had no proof of life for d ticks: the watch has been
\* down, and the last heartbeat expired, at least that long ago.
SilentFor(d) == ~watchUp /\ now - watchDownAt >= d /\ now - HBExpiry >= d

\* What recomputeLocked would now leave in s.unreachable.
WouldBeUnreachable ==
  IF HBStale(lastHB, now) /\ ~watchUp
  THEN unreachable \/ now - FirstSeen(bothStaleSince) >= UnreachableThreshold
  ELSE unreachable /\ ~(/\ watchUp
                       /\ ~HBStale(lastHB, now)
                       /\ now - FirstSeen(recoverSince) >= RecoverThreshold)

\* linkstate.go:145-157: the verdict turns to unreachable only after both
\* proofs have been stale, without a break, for the whole threshold: no late
\* read, reconnect or lazily started timer can make it turn early.
NoFalseUnreachable ==
  [][~unreachable /\ unreachable' => SilentFor(UnreachableThreshold)]_vars

\* linkstate.go:94-124: whenever the lock-free path is taken on the published
\* snapshot, recomputing under the mutex would give the same verdict and the
\* same answer to the HTTP handler.
FastPathSound ==
  snap # NilSnapshot /\ ~TimeMayAdvance(snap) =>
    /\ WouldBeUnreachable = unreachable
    /\ snap.rejecting = (unreachable /\ FailClosed)
    /\ (snap.state = "unreachable") = unreachable

\* LinkState keeps the promise of a link tracker: its timers, its published
\* snapshot and its lock-free reads change nothing of what CPLink allows.
Promise == INSTANCE CPLink WITH Threshold <- UnreachableThreshold
ImplementsCPLink == Promise!AbsSpec
=============================================================================
