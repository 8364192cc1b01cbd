----------------------------- MODULE AgentLink -----------------------------
(***************************************************************************)
(* The two loops that feed LinkState in pgway-dp: RunHeartbeat and         *)
(* RunWatch (agenthost/heartbeat.go, watch.go), against a control plane    *)
(* that goes down, comes back, answers heartbeats while Resync fails, and  *)
(* may revoke the agent's token.                                           *)
(*                                                                         *)
(* RPCs take no model time: a call made while the control plane is down    *)
(* fails in the same tick.  Timers are urgent: the clock does not pass a   *)
(* deadline whose handler has not run.                                     *)
(***************************************************************************)
EXTENDS LinkState

CONSTANTS
  HeartbeatInterval,   \* [agent] heartbeat_interval
  InitialBackoff,      \* WatchOptions.InitialBackoff
  MaxBackoff,          \* WatchOptions.MaxBackoff
  MaxCPChanges         \* bound on the control plane's changes of mode

ASSUME LoopAssumption ==
  /\ HeartbeatInterval \in Nat \ {0}
  /\ InitialBackoff \in Nat \ {0}
  /\ MaxBackoff \in Nat \ {0}
  /\ InitialBackoff <= MaxBackoff
  /\ MaxCPChanges \in Nat

VARIABLES
  cp,         \* "up", "erring" (Resync fails) or "down"
  tokenValid, \* the agent token is accepted
  hbDue,      \* next tick of the heartbeat ticker
  watch,      \* "connecting", "open" or "backoff"
  watchDue,   \* end of the backoff sleep
  backoff,    \* current reconnect delay
  running,    \* no loop has returned a fatal error
  cpSince,    \* history: when cp last changed
  cpChanges   \* history: how often cp has changed

loopVars == <<cp, tokenValid, hbDue, watch, watchDue, backoff, running, cpSince, cpChanges>>
allVars == <<vars, loopVars>>

LoopInit ==
  /\ Init
  /\ cp = "up" /\ tokenValid = TRUE
  /\ hbDue = 1 + HeartbeatInterval
  /\ watch = "connecting" /\ watchDue = Zero
  /\ backoff = InitialBackoff
  /\ running = TRUE
  /\ cpSince = 1 /\ cpChanges = 0

-----------------------------------------------------------------------------
(***************************************************************************)
(* RunHeartbeat, one tick of the ticker.                                   *)
(***************************************************************************)
HeartbeatRejected == cp # "down" /\ ~tokenValid

\* Mutant: a failed heartbeat is recorded as proof of life.
HeartbeatTickTouchesOnError ==
  /\ running
  /\ now >= hbDue
  /\ hbDue' = now + HeartbeatInterval
  /\ TouchHeartbeat
  /\ UNCHANGED <<cp, tokenValid, watch, watchDue, backoff, running, cpSince, cpChanges>>

\* Mutant: the loop gives up at the first failed heartbeat.
HeartbeatTickGivesUp ==
  /\ running
  /\ now >= hbDue
  /\ \/ /\ cp # "down" /\ tokenValid /\ TouchHeartbeat /\ UNCHANGED running
        /\ hbDue' = now + HeartbeatInterval
     \/ /\ cp = "down" /\ UNCHANGED <<vars, running>>
        /\ hbDue' = MaxTime + 1
     \/ /\ HeartbeatRejected /\ running' = FALSE /\ UNCHANGED vars
        /\ hbDue' = now + HeartbeatInterval
  /\ UNCHANGED <<cp, tokenValid, watch, watchDue, backoff, cpSince, cpChanges>>

HeartbeatTick ==
  /\ running
  /\ now >= hbDue
  /\ hbDue' = now + HeartbeatInterval
  /\ \/ cp # "down" /\ tokenValid /\ TouchHeartbeat /\ UNCHANGED running
     \/ cp = "down" /\ UNCHANGED <<vars, running>>
     \/ HeartbeatRejected /\ running' = FALSE /\ UNCHANGED vars
  /\ UNCHANGED <<cp, tokenValid, watch, watchDue, backoff, cpSince, cpChanges>>

(***************************************************************************)
(* RunWatch.  A session that reached OnConnected resets the backoff; the   *)
(* delay doubles when a sleep ends.                                        *)
(***************************************************************************)

Sleep(delay) ==
  /\ MarkWatchDown
  /\ watch' = "backoff"
  /\ watchDue' = now + delay
  /\ backoff' = delay

WatchConnect ==
  /\ running
  /\ watch = "connecting"
  /\ \/ /\ cp = "up" /\ tokenValid
        /\ MarkWatchUp
        /\ watch' = "open"
        /\ UNCHANGED <<watchDue, backoff, running>>
     \/ /\ cp = "down" \/ (cp = "erring" /\ tokenValid)
        /\ Sleep(backoff)
        /\ UNCHANGED running
     \/ /\ HeartbeatRejected
        /\ MarkWatchDown
        /\ running' = FALSE
        /\ UNCHANGED <<watch, watchDue, backoff>>
  /\ UNCHANGED <<cp, tokenValid, hbDue, cpSince, cpChanges>>

\* The stream breaks with the control plane; sessionOK resets the backoff.
WatchEnd ==
  /\ running
  /\ watch = "open" /\ cp = "down"
  /\ Sleep(InitialBackoff)
  /\ UNCHANGED <<cp, tokenValid, hbDue, running, cpSince, cpChanges>>

SleepBackoff ==
  /\ running
  /\ watch = "backoff" /\ now >= watchDue
  /\ watch' = "connecting"
  /\ backoff' = IF 2 * backoff > MaxBackoff THEN MaxBackoff ELSE 2 * backoff
  /\ UNCHANGED <<vars, cp, tokenValid, hbDue, watchDue, running, cpSince, cpChanges>>

-----------------------------------------------------------------------------
(***************************************************************************)
(* Environment.                                                            *)
(***************************************************************************)
CPChange ==
  /\ cpChanges < MaxCPChanges
  /\ cpChanges' = cpChanges + 1
  /\ cp' \in {"up", "erring", "down"} \ {cp}
  /\ cpSince' = now
  /\ UNCHANGED <<vars, tokenValid, hbDue, watch, watchDue, backoff, running>>

Revoke ==
  /\ tokenValid
  /\ tokenValid' = FALSE
  /\ UNCHANGED <<vars, cp, hbDue, watch, watchDue, backoff, running, cpSince, cpChanges>>

NothingDue ==
  running =>
    /\ now < hbDue
    /\ watch # "connecting"
    /\ watch = "backoff" => now < watchDue
    /\ watch = "open" => cp # "down"

LoopTick == NothingDue /\ Tick /\ UNCHANGED loopVars

Read ==
  /\ \E r \in Readers : SnapshotLoad(r) \/ SnapshotFast(r) \/ SnapshotLocked(r)
  /\ UNCHANGED loopVars

LoopNext ==
  \/ HeartbeatTick
  \/ WatchConnect
  \/ WatchEnd
  \/ SleepBackoff
  \/ CPChange
  \/ Revoke
  \/ LoopTick
  \/ Read

LoopSpec == LoopInit /\ [][LoopNext]_allVars

-----------------------------------------------------------------------------
(***************************************************************************)
(* Properties.                                                             *)
(***************************************************************************)

\* After the control plane dies, a request is told so once the heartbeat has
\* aged out, one reconnect delay has started the stale timer and the timer has
\* run: whatever the traffic, a Snapshot taken later than that says
\* unreachable (linkstate.go:145-157, watch.go:91-105).
OutageDetected ==
  running /\ cp = "down" /\ now - cpSince > 2 * UnreachableThreshold + MaxBackoff
    => WouldBeUnreachable

\* After the control plane is back, both loops have produced their proof within
\* one reconnect delay and one heartbeat, and the verdict recovers the recover
\* threshold after that.
OutageHealed ==
  running /\ tokenValid /\ cp = "up"
    /\ now - cpSince > MaxBackoff + HeartbeatInterval + RecoverThreshold
    => ~WouldBeUnreachable
=============================================================================
