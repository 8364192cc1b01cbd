--------------------------- MODULE AgentRegistry ---------------------------
(***************************************************************************)
(* The control plane's agent lifecycle: registration tokens, the agent     *)
(* registry and per-agent bearer tokens (controlplane/agent/service.go,    *)
(* controlplane/auth/agent_credentials.go, authenticator.go).              *)
(*                                                                         *)
(* Every repository operation is one Badger transaction, so a handler is a *)
(* sequence of atomic store steps that interleaves with other handlers,    *)
(* can fail at any of them, and dies with the process on a crash; the      *)
(* store survives.  A handler is a call record whose "step" is the store   *)
(* operation it performs next.                                             *)
(***************************************************************************)
EXTENDS Integers, FiniteSets

CONSTANTS
  Call,          \* handler invocations; each runs at most once
  Name,          \* agent names
  RegToken,      \* registration tokens, each minted at most once
  MaxInFlight    \* bound on concurrently running handlers

ASSUME MaxInFlightAssumption == MaxInFlight \in Nat \ {0}

VARIABLES
  regTokens,   \* registration tokens in the store
  agents,      \* [Name -> "absent" | "passive" | "active"], by LastHeartbeat
  tokens,      \* bearer tokens in the store: [id, agent]
  calls,       \* [Call -> handler state]
  minted,      \* history: registration tokens ever minted
  burnedBy,    \* history: calls whose Consume succeeded, per registration token
  owner,       \* history: the Register call that created each record
  revoked,     \* history: tokens removed by a DeleteAgent
  deleted,     \* history: Register calls whose record a DeleteAgent removed
  overlapped   \* history: two handlers have been in flight at once

vars == <<regTokens, agents, tokens, calls, minted, burnedBy, owner, revoked,
          deleted, overlapped>>

\* A bearer token is named by the Register call that issues it.
Token == [id : Call, agent : Name]

Idle == [step |-> "idle"]

Handler ==
  [kind : {"register"}, step : {"consume", "create", "issue", "ok", "failed"},
   name : Name, reg : RegToken]
  \cup
  [kind : {"heartbeat", "deregister"}, tok : Token,
   step : {"findToken", "findAgent", "dropToken", "save", "extFind", "extSave",
           "ok", "failed"}]
  \cup
  [kind : {"delete"}, name : Name,
   step : {"find", "revoke", "remove", "ok", "failed"}]

Ended(c) == calls[c].step \in {"idle", "ok", "failed"}
InFlight == {c \in Call : ~Ended(c)}

At(c, kind, step) == calls[c].step = step /\ calls[c].kind = kind
Goto(c, step) == calls' = [calls EXCEPT ![c].step = step]

hist == <<minted, burnedBy, owner, revoked, deleted, overlapped>>

Init ==
  /\ regTokens = {}
  /\ agents = [n \in Name |-> "absent"]
  /\ tokens = {}
  /\ calls = [c \in Call |-> Idle]
  /\ minted = {}
  /\ burnedBy = [t \in RegToken |-> {}]
  /\ owner = [n \in Name |-> {}]
  /\ revoked = {}
  /\ deleted = {}
  /\ overlapped = FALSE

-----------------------------------------------------------------------------
(***************************************************************************)
(* Admission of a handler.  The bearer of an agent call may present any    *)
(* token ever issued.                                                      *)
(***************************************************************************)
Issued == {t \in Token : calls[t.id].step = "ok" /\ calls[t.id].kind = "register"
                         /\ calls[t.id].name = t.agent}

Start(c, h) ==
  /\ calls[c] = Idle
  /\ Cardinality(InFlight) < MaxInFlight
  /\ calls' = [calls EXCEPT ![c] = h]
  /\ overlapped' = (overlapped \/ InFlight # {})
  /\ UNCHANGED <<regTokens, agents, tokens, minted, burnedBy, owner, revoked,
                 deleted>>

StartRegister(c) == \E n \in Name, t \in RegToken :
  Start(c, [kind |-> "register", step |-> "consume", name |-> n, reg |-> t])

StartAgentCall(c) == \E k \in {"heartbeat", "deregister"}, t \in Issued :
  Start(c, [kind |-> k, step |-> "findToken", tok |-> t])

StartDelete(c) == \E n \in Name :
  Start(c, [kind |-> "delete", step |-> "find", name |-> n])

CreateRegistrationToken(t) ==
  /\ t \notin minted
  /\ minted' = minted \cup {t}
  /\ regTokens' = regTokens \cup {t}
  /\ UNCHANGED <<agents, tokens, calls, burnedBy, owner, revoked, deleted, overlapped>>

-----------------------------------------------------------------------------
(***************************************************************************)
(* Register: consume, create, issue.                                       *)
(***************************************************************************)

\* Mutant: Consume as a read and a later delete, not one transaction.
ConsumeUnfenced(c) ==
  LET t == calls[c].reg IN
  /\ At(c, "register", "consume")
  /\ IF t \in minted
     THEN Goto(c, "create") /\ burnedBy' = [burnedBy EXCEPT ![t] = @ \cup {c}]
     ELSE Goto(c, "failed") /\ UNCHANGED burnedBy
  /\ regTokens' = regTokens \ {t}
  /\ UNCHANGED <<agents, tokens, minted, owner, revoked, deleted, overlapped>>

\* Consume burns the token even when it turns out to be expired.
ConsumeRegistrationToken(c) ==
  LET t == calls[c].reg IN
  /\ At(c, "register", "consume")
  /\ \/ /\ t \in regTokens
        /\ Goto(c, "create")
        /\ burnedBy' = [burnedBy EXCEPT ![t] = @ \cup {c}]
     \/ Goto(c, "failed") /\ UNCHANGED burnedBy
  /\ regTokens' = regTokens \ {t}
  /\ UNCHANGED <<agents, tokens, minted, owner, revoked, deleted, overlapped>>

\* Mutant: the record is upserted instead of created.
CreateAgentUpsert(c) ==
  LET n == calls[c].name IN
  /\ At(c, "register", "create")
  /\ agents' = [agents EXCEPT ![n] = "passive"]
  /\ owner' = [owner EXCEPT ![n] = {c}]
  /\ Goto(c, "issue")
  /\ UNCHANGED <<regTokens, tokens, minted, burnedBy, revoked, deleted, overlapped>>

CreateAgent(c) ==
  LET n == calls[c].name IN
  /\ At(c, "register", "create")
  /\ IF agents[n] = "absent"
     THEN /\ agents' = [agents EXCEPT ![n] = "passive"]
          /\ owner' = [owner EXCEPT ![n] = {c}]
          /\ Goto(c, "issue")
     ELSE Goto(c, "failed") /\ UNCHANGED <<agents, owner>>
  /\ UNCHANGED <<regTokens, tokens, minted, burnedBy, revoked, deleted, overlapped>>

IssueAgentToken(c) ==
  /\ At(c, "register", "issue")
  /\ tokens' = tokens \cup {[id |-> c, agent |-> calls[c].name]}
  /\ Goto(c, "ok")
  /\ UNCHANGED <<regTokens, agents, hist>>

-----------------------------------------------------------------------------
(***************************************************************************)
(* Authenticate, then Heartbeat or Deregister.  The principal is a copy of *)
(* the record read by Authenticate; Save is an upsert.                     *)
(***************************************************************************)
AgentCall(c, step) == At(c, "heartbeat", step) \/ At(c, "deregister", step)

AuthenticateToken(c) ==
  /\ AgentCall(c, "findToken")
  /\ Goto(c, IF calls[c].tok \in tokens THEN "findAgent" ELSE "failed")
  /\ UNCHANGED <<regTokens, agents, tokens, hist>>

\* Any error of agents.Find, a failed read included, counts as a missing record.
AuthenticateAgent(c) ==
  /\ AgentCall(c, "findAgent")
  /\ \/ agents[calls[c].tok.agent] # "absent" /\ Goto(c, "save")
     \/ Goto(c, "dropToken")
  /\ UNCHANGED <<regTokens, agents, tokens, hist>>

\* "agent deleted while token still stored": the token is deleted on sight.
DropToken(c) ==
  /\ AgentCall(c, "dropToken")
  /\ tokens' = tokens \ {calls[c].tok}
  /\ Goto(c, "failed")
  /\ UNCHANGED <<regTokens, agents, hist>>

SaveAgent(c) ==
  /\ AgentCall(c, "save")
  /\ agents' = [agents EXCEPT ![calls[c].tok.agent] =
                  IF calls[c].kind = "heartbeat" THEN "active" ELSE "passive"]
  /\ Goto(c, IF calls[c].kind = "heartbeat" THEN "extFind" ELSE "ok")
  /\ UNCHANGED <<regTokens, tokens, hist>>

ExtendFind(c) ==
  /\ AgentCall(c, "extFind")
  /\ Goto(c, IF calls[c].tok \in tokens THEN "extSave" ELSE "failed")
  /\ UNCHANGED <<regTokens, agents, tokens, hist>>

ExtendSave(c) ==
  /\ AgentCall(c, "extSave")
  /\ tokens' = tokens \cup {calls[c].tok}
  /\ Goto(c, "ok")
  /\ UNCHANGED <<regTokens, agents, hist>>

-----------------------------------------------------------------------------
(***************************************************************************)
(* DeleteAgent: find, revoke every token, remove the record.               *)
(***************************************************************************)
\* Mutant: the record goes first and the revocation is left to a retry.
DeleteFindRemoveFirst(c) ==
  /\ At(c, "delete", "find")
  /\ Goto(c, IF agents[calls[c].name] # "absent" THEN "remove" ELSE "failed")
  /\ UNCHANGED <<regTokens, agents, tokens, hist>>

DeleteFind(c) ==
  /\ At(c, "delete", "find")
  /\ Goto(c, IF agents[calls[c].name] # "absent" THEN "revoke" ELSE "failed")
  /\ UNCHANGED <<regTokens, agents, tokens, hist>>

TokensOf(n) == {t \in tokens : t.agent = n}

RevokeAgentTokens(c) ==
  /\ At(c, "delete", "revoke")
  /\ tokens' = tokens \ TokensOf(calls[c].name)
  /\ revoked' = revoked \cup TokensOf(calls[c].name)
  /\ Goto(c, "remove")
  /\ UNCHANGED <<regTokens, agents, minted, burnedBy, owner, deleted, overlapped>>

RemoveAgent(c) ==
  LET n == calls[c].name IN
  /\ At(c, "delete", "remove")
  /\ Goto(c, IF agents[n] # "absent" THEN "ok" ELSE "failed")
  /\ deleted' = deleted \cup owner[n]
  /\ agents' = [agents EXCEPT ![n] = "absent"]
  /\ owner' = [owner EXCEPT ![n] = {}]
  /\ UNCHANGED <<regTokens, tokens, minted, burnedBy, revoked, overlapped>>

-----------------------------------------------------------------------------
(***************************************************************************)
(* Failures.  A store error ends one handler before its next store step; a *)
(* crash ends all of them.                                                 *)
(***************************************************************************)
StoreError(c) ==
  /\ ~Ended(c)
  /\ Goto(c, "failed")
  /\ UNCHANGED <<regTokens, agents, tokens, hist>>

Crash ==
  /\ InFlight # {}
  /\ calls' = [c \in Call |-> IF Ended(c) THEN calls[c]
                              ELSE [calls[c] EXCEPT !.step = "failed"]]
  /\ UNCHANGED <<regTokens, agents, tokens, hist>>

\* The stores drop expired entries (entry TTL, lazy deletion).
Expire ==
  /\ \/ \E t \in regTokens : regTokens' = regTokens \ {t} /\ UNCHANGED tokens
     \/ \E t \in tokens : tokens' = tokens \ {t} /\ UNCHANGED regTokens
  /\ UNCHANGED <<agents, calls, hist>>

Step(c) ==
  \/ ConsumeRegistrationToken(c) \/ CreateAgent(c) \/ IssueAgentToken(c)
  \/ AuthenticateToken(c) \/ AuthenticateAgent(c) \/ DropToken(c)
  \/ SaveAgent(c) \/ ExtendFind(c) \/ ExtendSave(c)
  \/ DeleteFind(c) \/ RevokeAgentTokens(c) \/ RemoveAgent(c)

Next ==
  \/ \E t \in RegToken : CreateRegistrationToken(t)
  \/ \E c \in Call : StartRegister(c) \/ StartAgentCall(c) \/ StartDelete(c)
  \/ \E c \in Call : Step(c)
  \/ \E c \in Call : StoreError(c)
  \/ Crash
  \/ Expire

Spec == Init /\ [][Next]_vars

-----------------------------------------------------------------------------
(***************************************************************************)
(* Properties.                                                             *)
(***************************************************************************)
\* The stores and the handlers hold well-formed values; in particular every
\* bearer token names a real agent.
TypeOK ==
  /\ regTokens \subseteq RegToken
  /\ agents \in [Name -> {"absent", "passive", "active"}]
  /\ tokens \subseteq Token
  /\ calls \in [Call -> Handler \cup {Idle}]
  /\ minted \subseteq RegToken
  /\ burnedBy \in [RegToken -> SUBSET Call]
  /\ owner \in [Name -> SUBSET Call]
  /\ revoked \subseteq Token
  /\ deleted \subseteq Call
  /\ overlapped \in BOOLEAN

\* ports/auth.go:48-50: "exactly one concurrent caller succeeds for a given
\* token": a registration token lets at most one Register past its first step,
\* under any interleaving, crash or failure.
SingleUse == \A t \in RegToken : \A c, d \in burnedBy[t] : c = d

\* service.go Register with agents.Create: of two registrations of one name whose
\* tokens are both in the store, one had its own record removed by a DeleteAgent:
\* nobody takes over a registered name, an earlier deletion of it notwithstanding.
NoNameTakeover ==
  \A t, u \in tokens :
    t.agent = u.agent /\ t # u => t.id \in deleted \/ u.id \in deleted

\* service.go:121-137 and agent_credentials.go:101-128: when handlers do not
\* overlap, no failure or crash, whichever step it hits, leaves a token that
\* outlives its record or brings a revoked one back.
TokensFollowRecords ==
  ~overlapped => \A t \in tokens : agents[t.agent] # "absent" /\ t \notin revoked
=============================================================================
