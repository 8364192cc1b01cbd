------------------------------- MODULE CPLink -------------------------------
(***************************************************************************)
(* What a control-plane link tracker promises, whatever timers it keeps:   *)
(* heartbeats and watch transitions are recorded as they happen, and the   *)
(* verdict moves only for cause.  It may turn to unreachable only after    *)
(* both proofs of life have been missing for the threshold, and turn back  *)
(* only when both are fresh.  When, within these limits, the verdict moves *)
(* is left open.  LinkState implements this specification.                 *)
(***************************************************************************)
EXTENDS Integers

CONSTANT Threshold

VARIABLES now, lastHB, watchUp, watchDownAt, unreachable

absVars == <<now, lastHB, watchUp, watchDownAt, unreachable>>

HeartbeatStale == lastHB = 0 \/ now - lastHB > Threshold

\* Both proofs have been missing for d ticks.
Silence(d) ==
  /\ ~watchUp
  /\ now - watchDownAt >= d
  /\ lastHB # 0 => now - (lastHB + Threshold + 1) >= d
  /\ lastHB = 0 => now - 1 >= d

AbsInit ==
  /\ now = 1 /\ watchDownAt = 1
  /\ lastHB = 0
  /\ ~watchUp
  /\ ~unreachable

Pass ==
  /\ now' = now + 1
  /\ UNCHANGED <<lastHB, watchUp, watchDownAt, unreachable>>

\* Proofs as they may change in one instant.
Beat      == lastHB' = now /\ UNCHANGED <<watchUp, watchDownAt>>
StreamUp  == watchUp' = TRUE /\ UNCHANGED <<lastHB, watchDownAt>>
StreamEnd ==
  /\ watchUp' = FALSE
  /\ watchDownAt' = IF watchUp THEN now ELSE watchDownAt
  /\ UNCHANGED lastHB

\* The verdict as it may change with the proofs.
Verdict ==
  \/ UNCHANGED unreachable
  \/ ~unreachable /\ unreachable' /\ Silence(Threshold)
  \/ unreachable /\ ~unreachable' /\ watchUp' /\ ~HeartbeatStale'

Evaluate ==
  /\ Beat \/ StreamUp \/ StreamEnd \/ UNCHANGED <<lastHB, watchUp, watchDownAt>>
  /\ UNCHANGED now
  /\ Verdict

AbsNext == Pass \/ Evaluate

AbsSpec == AbsInit /\ [][AbsNext]_absVars
=============================================================================
