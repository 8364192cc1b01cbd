---------------------------- MODULE MCAgentLink ----------------------------
(***************************************************************************)
(* AgentLink for TLC, with a history variable: the verdicts a recompute    *)
(* would have given while a reader was inside Snapshot.                    *)
(***************************************************************************)
EXTENDS AgentLink

VARIABLE
  during   \* verdicts true at some instant of each reader's Snapshot call

mcVars == <<allVars, during>>

Verdicts(r) == IF reading[r] = NilSnapshot THEN {} ELSE during[r]

MCInit ==
  /\ LoopInit
  /\ during = [r \in Readers |-> {}]

MCNext ==
  /\ LoopNext
  /\ during' = [r \in Readers |->
                  IF reading'[r] = NilSnapshot THEN {}
                  ELSE Verdicts(r) \cup {WouldBeUnreachable, WouldBeUnreachable'}]

MCSpec == MCInit /\ [][MCNext]_mcVars

\* linkstate.go:94-105: whichever path Snapshot takes, and whatever happens
\* between its atomic load and its return, the verdict it returns was the true
\* verdict at some instant of the call.
SnapshotLinearizable ==
  [][\A r \in Readers :
       reading[r] # NilSnapshot /\ reading'[r] = NilSnapshot =>
         (answer'[r].state = "unreachable")
            \in during[r] \cup {WouldBeUnreachable, WouldBeUnreachable'}]_mcVars
=============================================================================
