------------------------ MODULE AgentRegistryProofs ------------------------
(***************************************************************************)
(* Proofs about AgentRegistry for any calls, names and tokens, any bound   *)
(* on concurrency, and any interleaving, failure and crash.                *)
(***************************************************************************)
EXTENDS AgentRegistry, TLAPS

Steps(kind) ==
  CASE kind = "register" -> {"consume", "create", "issue", "ok", "failed"}
    [] kind \in {"heartbeat", "deregister"} ->
         {"findToken", "findAgent", "dropToken", "save", "extFind", "extSave",
          "ok", "failed"}
    [] kind = "delete" -> {"find", "revoke", "remove", "ok", "failed"}

Registering(c, steps) == calls[c].step \in steps /\ calls[c].kind = "register"
Bearing(c, steps) ==
  calls[c].step \in steps /\ calls[c].kind \in {"heartbeat", "deregister"}

\* A registration token in the store has not let anyone in, and one that was
\* never minted cannot.
Fenced ==
  \A t \in RegToken :
    /\ t \in regTokens => t \in minted
    /\ t \in regTokens \/ t \notin minted => burnedBy[t] = {}

\* A registration that got past the creation of its record owns it until a
\* DeleteAgent removes that record.
Owned ==
  \A c \in Call :
    Registering(c, {"issue", "ok"}) /\ c \notin deleted =>
      owner[calls[c].name] = {c} /\ agents[calls[c].name] # "absent"

\* Every bearer token, stored, revoked or presented, comes of a registration
\* that has succeeded.
Bearers ==
  /\ tokens \cup revoked \subseteq Issued
  /\ \A c \in Call : calls[c] # Idle /\ calls[c].kind \in {"heartbeat", "deregister"} =>
       calls[c].tok \in Issued

RegInv == TypeOK /\ Fenced /\ SingleUse /\ Owned /\ Bearers

\* What a handler that runs alone knows at each of its steps.
Knows(c) ==
  /\ Registering(c, {"issue"}) => agents[calls[c].name] # "absent"
  /\ Bearing(c, {"findAgent", "save", "extFind", "extSave"}) => calls[c].tok \notin revoked
  /\ Bearing(c, {"save", "extFind", "extSave"}) => agents[calls[c].tok.agent] # "absent"
  /\ At(c, "delete", "remove") => TokensOf(calls[c].name) = {}

\* Tokens in the store have a record and were not revoked.
Follow == \A t \in tokens : agents[t.agent] # "absent" /\ t \notin revoked

\* A lifecycle whose handlers never overlapped.
Alone ==
  ~overlapped => /\ \A c, d \in InFlight : c = d
                 /\ \A c \in Call : Knows(c)
                 /\ Follow

AloneInv == RegInv /\ Alone

-----------------------------------------------------------------------------
(***************************************************************************)
(* Types.                                                                  *)
(***************************************************************************)

\* A handler that goes on to a step of its kind is still a handler, and the
\* others are where they were.
LEMMA GotoTyped ==
  ASSUME TypeOK, NEW c \in Call, ~(calls[c] = Idle),
         NEW s \in Steps(calls[c].kind), Goto(c, s)
  PROVE  /\ calls' \in [Call -> Handler \cup {Idle}]
         /\ calls'[c] = [calls[c] EXCEPT !.step = s]
         /\ \A d \in Call \ {c} : calls'[d] = calls[d]
<1>1. calls[c] \in Handler
  BY DEF TypeOK
<1>2. [calls[c] EXCEPT !.step = s] \in Handler
  BY <1>1 DEF Handler, Steps
<1> QED
  BY <1>2 DEF Goto, TypeOK

\* A running handler has a kind, and its step is one of that kind.
LEMMA HandlerSteps ==
  ASSUME TypeOK, NEW c \in Call, calls[c] # Idle
  PROVE  /\ calls[c].kind \in {"register", "heartbeat", "deregister", "delete"}
         /\ calls[c].step \in Steps(calls[c].kind)
         /\ calls[c].kind = "register" => calls[c].name \in Name /\ calls[c].reg \in RegToken
         /\ calls[c].kind = "delete" => calls[c].name \in Name
         /\ calls[c].kind \in {"heartbeat", "deregister"} => calls[c].tok \in Token
  BY DEF TypeOK, Handler, Steps

\* The empty registry is well-formed.
LEMMA InitTypeOK == Init => TypeOK
  BY DEF Init, TypeOK

\* Every store step, failure, crash and expiry keeps the registry well-formed.
LEMMA NextTypeOK == TypeOK /\ [Next]_vars => TypeOK'
<1> SUFFICES ASSUME TypeOK, [Next]_vars PROVE TypeOK'
  OBVIOUS
<1>1. ASSUME NEW t \in RegToken, CreateRegistrationToken(t) PROVE TypeOK'
  BY <1>1 DEF CreateRegistrationToken, TypeOK
<1>2. ASSUME NEW c \in Call, NEW h \in Handler, Start(c, h) PROVE TypeOK'
  BY <1>2 DEF Start, TypeOK
<1>3. ASSUME NEW c \in Call, StartRegister(c) \/ StartAgentCall(c) \/ StartDelete(c)
      PROVE  TypeOK'
  BY <1>2, <1>3 DEF StartRegister, StartAgentCall, StartDelete, Handler, Issued
<1>4. ASSUME NEW c \in Call, Step(c) PROVE TypeOK'
  <2>0. calls[c] # Idle
    BY <1>4 DEF Step, Idle, ConsumeRegistrationToken, CreateAgent, IssueAgentToken,
       AuthenticateToken, AuthenticateAgent, DropToken, SaveAgent, ExtendFind,
       ExtendSave, DeleteFind, RevokeAgentTokens, RemoveAgent, AgentCall, At
  <2> USE <2>0, HandlerSteps, GotoTyped DEF At, AgentCall, Steps
  <2>1. CASE ConsumeRegistrationToken(c)
    <3>1. calls[c].kind = "register" /\ calls[c].reg \in RegToken
      BY <2>1 DEF ConsumeRegistrationToken
    <3>2. calls' \in [Call -> Handler \cup {Idle}]
      BY <2>1, <3>1 DEF ConsumeRegistrationToken
    <3> QED
      BY <2>1, <3>1, <3>2 DEF ConsumeRegistrationToken, TypeOK
  <2>2. CASE CreateAgent(c)
    <3>1. calls[c].kind = "register" /\ calls[c].name \in Name
      BY <2>2 DEF CreateAgent
    <3>2. calls' \in [Call -> Handler \cup {Idle}]
      BY <2>2, <3>1 DEF CreateAgent
    <3> QED
      BY <2>2, <3>1, <3>2 DEF CreateAgent, TypeOK
  <2>3. CASE IssueAgentToken(c)
    <3>1. calls[c].kind = "register" /\ calls[c].name \in Name
      BY <2>3 DEF IssueAgentToken
    <3>2. calls' \in [Call -> Handler \cup {Idle}]
      BY <2>3, <3>1 DEF IssueAgentToken
    <3> QED
      BY <2>3, <3>1, <3>2 DEF IssueAgentToken, TypeOK, Token, hist
  <2>4. CASE AuthenticateToken(c)
    BY <2>4 DEF AuthenticateToken, TypeOK, hist
  <2>5. CASE AuthenticateAgent(c)
    BY <2>5 DEF AuthenticateAgent, TypeOK, hist
  <2>6. CASE DropToken(c)
    BY <2>6 DEF DropToken, TypeOK, hist
  <2>7. CASE SaveAgent(c)
    BY <2>7 DEF SaveAgent, TypeOK, hist, Token
  <2>8. CASE ExtendFind(c)
    BY <2>8 DEF ExtendFind, TypeOK, hist
  <2>9. CASE ExtendSave(c)
    BY <2>9 DEF ExtendSave, TypeOK, hist
  <2>10. CASE DeleteFind(c)
    BY <2>10 DEF DeleteFind, TypeOK, hist
  <2>11. CASE RevokeAgentTokens(c)
    BY <2>11 DEF RevokeAgentTokens, TokensOf, TypeOK
  <2>12. CASE RemoveAgent(c)
    <3>1. calls[c].kind = "delete" /\ calls[c].name \in Name
      BY <2>12 DEF RemoveAgent
    <3>2. calls' \in [Call -> Handler \cup {Idle}]
      BY <2>12, <3>1 DEF RemoveAgent
    <3> QED
      BY <2>12, <3>1, <3>2 DEF RemoveAgent, TypeOK
  <2> QED
    BY <1>4, <2>1, <2>2, <2>3, <2>4, <2>5, <2>6, <2>7, <2>8, <2>9, <2>10, <2>11, <2>12
       DEF Step
<1>5. ASSUME NEW c \in Call, StoreError(c) PROVE TypeOK'
  <2>1. calls[c] # Idle
    BY <1>5 DEF StoreError, Ended, Idle
  <2>2. "failed" \in Steps(calls[c].kind)
    BY <2>1, HandlerSteps DEF Steps
  <2> QED
    BY <1>5, <2>1, <2>2, GotoTyped DEF StoreError, TypeOK, hist
<1>6. CASE Crash
  <2>1. ASSUME NEW c \in Call, ~Ended(c) PROVE [calls[c] EXCEPT !.step = "failed"] \in Handler
    BY <2>1 DEF Ended, TypeOK, Handler, Idle
  <2> QED
    BY <1>6, <2>1 DEF Crash, TypeOK, hist
<1>7. CASE Expire
  BY <1>7 DEF Expire, TypeOK, hist
<1>8. CASE UNCHANGED vars
  BY <1>8 DEF vars, TypeOK
<1> QED
  BY <1>1, <1>3, <1>4, <1>5, <1>6, <1>7, <1>8 DEF Next

\* The stores and the handlers of service.go and agent_credentials.go hold
\* well-formed values under any interleaving, failure or crash.
THEOREM RegistryTypeOK == Spec => []TypeOK
  BY InitTypeOK, NextTypeOK, PTL DEF Spec

-----------------------------------------------------------------------------
(***************************************************************************)
(* How handlers move.                                                      *)
(***************************************************************************)

\* What a step may do to a handler d that has started.
Moves(d) ==
  calls[d] # Idle =>
    /\ calls'[d] # Idle
    /\ calls'[d].kind = calls[d].kind
    /\ calls[d].kind \in {"register", "delete"} => calls'[d].name = calls[d].name
    /\ calls[d].kind = "register" => calls'[d].reg = calls[d].reg
    /\ calls[d].kind \in {"heartbeat", "deregister"} => calls'[d].tok = calls[d].tok
    /\ calls[d].step \in {"ok", "failed"} => calls'[d] = calls[d]

\* A handler that goes on keeps its kind and its arguments.
LEMMA GotoMoves ==
  ASSUME TypeOK, NEW c \in Call, ~Ended(c), NEW s \in Steps(calls[c].kind), Goto(c, s)
  PROVE  /\ \A d \in Call : Moves(d)
         /\ calls'[c].step = s
         /\ \A d \in Call \ {c} : calls'[d] = calls[d]
         /\ ~(calls[c] = Idle)
<1>1. ~(calls[c] = Idle)
  BY DEF Ended, Idle
<1>2. /\ calls'[c] = [calls[c] EXCEPT !.step = s]
      /\ \A d \in Call \ {c} : calls'[d] = calls[d]
  BY <1>1, GotoTyped
<1>3. calls[c] \in Handler
  BY <1>1 DEF TypeOK
<1>4. Moves(c) /\ calls'[c].step = s
  <2> DEFINE h == calls[c]
             g == [h EXCEPT !.step = s]
  <2>1. /\ g.step = s /\ g.kind = h.kind
        /\ h.kind \in {"register", "delete"} => g.name = h.name
        /\ h.kind = "register" => g.reg = h.reg
        /\ h.kind \in {"heartbeat", "deregister"} => g.tok = h.tok
    BY <1>3 DEF Handler
  <2>2. s # "idle"
    BY <1>1, HandlerSteps DEF Steps
  <2> QED
    BY <1>2, <2>1, <2>2 DEF Moves, Idle, Ended
<1> QED
  BY <1>1, <1>2, <1>4 DEF Moves

\* Every store step, failed or not, takes a running handler to a step of its kind.
LEMMA StepIsGoto ==
  ASSUME TypeOK, NEW c \in Call, Step(c) \/ StoreError(c)
  PROVE  ~Ended(c) /\ \E s \in Steps(calls[c].kind) : Goto(c, s)
<1>1. ASSUME ~Ended(c)
      PROVE  calls[c].kind \in {"register", "heartbeat", "deregister", "delete"}
  <2>1. calls[c] # Idle
    BY <1>1 DEF Ended, Idle
  <2> QED
    BY <2>1, HandlerSteps
<1>2. CASE StoreError(c)
  BY <1>1, <1>2 DEF StoreError, Steps
<1> USE DEF At, AgentCall, Ended, Steps
<1>3. CASE ConsumeRegistrationToken(c)
  BY <1>3 DEF ConsumeRegistrationToken
<1>4. CASE CreateAgent(c)
  BY <1>4 DEF CreateAgent
<1>5. CASE IssueAgentToken(c)
  BY <1>5 DEF IssueAgentToken
<1>6. CASE AuthenticateToken(c) \/ AuthenticateAgent(c) \/ DropToken(c)
  BY <1>6 DEF AuthenticateToken, AuthenticateAgent, DropToken
<1>7. CASE SaveAgent(c)
  BY <1>7 DEF SaveAgent
<1>8. CASE ExtendFind(c) \/ ExtendSave(c)
  BY <1>8 DEF ExtendFind, ExtendSave
<1>9. CASE DeleteFind(c) \/ RevokeAgentTokens(c) \/ RemoveAgent(c)
  BY <1>9 DEF DeleteFind, RevokeAgentTokens, RemoveAgent
<1> QED
  BY <1>2, <1>3, <1>4, <1>5, <1>6, <1>7, <1>8, <1>9 DEF Step

\* A crash fails the running handlers and leaves the finished ones.
LEMMA CrashMoves ==
  ASSUME TypeOK, Crash
  PROVE  \A d \in Call : /\ Moves(d)
                         /\ Ended(d) => calls'[d] = calls[d]
                         /\ ~Ended(d) => calls'[d].step = "failed"
<1> SUFFICES ASSUME NEW d \in Call
             PROVE  /\ Moves(d)
                    /\ Ended(d) => calls'[d] = calls[d]
                    /\ ~Ended(d) => calls'[d].step = "failed"
  OBVIOUS
<1>1. calls'[d] = IF Ended(d) THEN calls[d] ELSE [calls[d] EXCEPT !.step = "failed"]
  BY DEF Crash
<1>2. CASE Ended(d)
  BY <1>1, <1>2 DEF Moves
<1>3. CASE ~Ended(d)
  <2> DEFINE h == calls[d]
             g == [h EXCEPT !.step = "failed"]
  <2>1. h \in Handler
    BY <1>3 DEF TypeOK, Ended, Idle
  <2>2. /\ g.step = "failed" /\ g.kind = h.kind
        /\ h.kind \in {"register", "delete"} => g.name = h.name
        /\ h.kind = "register" => g.reg = h.reg
        /\ h.kind \in {"heartbeat", "deregister"} => g.tok = h.tok
    BY <2>1 DEF Handler
  <2> QED
    BY <1>1, <1>3, <2>2 DEF Moves, Idle, Ended
<1> QED
  BY <1>2, <1>3

\* A start puts one idle call into flight; the others stay.
LEMMA StartMoves ==
  ASSUME TypeOK, NEW c \in Call, NEW h, Start(c, h)
  PROVE  /\ \A d \in Call : Moves(d)
         /\ calls[c] = Idle
         /\ calls'[c] = h
         /\ \A d \in Call \ {c} : calls'[d] = calls[d]
  BY DEF Start, Moves, TypeOK

\* A handler starts at its first step, an agent's with a token that was issued.
LEMMA StartsFirst ==
  ASSUME TypeOK, NEW c \in Call, StartRegister(c) \/ StartAgentCall(c) \/ StartDelete(c)
  PROVE  /\ calls[c] = Idle
         /\ calls'[c].step \in {"consume", "findToken", "find"}
         /\ calls'[c].kind \in {"heartbeat", "deregister"} => calls'[c].tok \in Issued
         /\ \A d \in Call \ {c} : calls'[d] = calls[d]
         /\ overlapped' = (overlapped \/ InFlight # {})
         /\ UNCHANGED <<regTokens, agents, tokens, minted, burnedBy, owner, revoked,
                        deleted>>
<1>1. CASE StartRegister(c)
  <2>1. PICK n \in Name, t \in RegToken :
          Start(c, [kind |-> "register", step |-> "consume", name |-> n, reg |-> t])
    BY <1>1 DEF StartRegister
  <2> QED
    BY <2>1 DEF Start, TypeOK
<1>2. CASE StartAgentCall(c)
  <2>1. PICK k \in {"heartbeat", "deregister"}, t \in Issued :
          Start(c, [kind |-> k, step |-> "findToken", tok |-> t])
    BY <1>2 DEF StartAgentCall
  <2> QED
    BY <2>1 DEF Start, TypeOK
<1>3. CASE StartDelete(c)
  <2>1. PICK n \in Name : Start(c, [kind |-> "delete", step |-> "find", name |-> n])
    BY <1>3 DEF StartDelete
  <2> QED
    BY <2>1 DEF Start, TypeOK
<1> QED
  BY <1>1, <1>2, <1>3

\* A bearer token once issued stays issued, whatever happens next.
LEMMA IssuedGrows ==
  ASSUME TypeOK, \A d \in Call : Moves(d)
  PROVE  Issued \subseteq Issued'
  BY DEF Issued, Moves, Token, Idle

\* No step makes a started handler another one.
LEMMA NextMoves ==
  ASSUME TypeOK, [Next]_vars
  PROVE  \A d \in Call : Moves(d)
<1>1. ASSUME NEW c \in Call, Step(c) \/ StoreError(c) PROVE \A d \in Call : Moves(d)
  BY <1>1, StepIsGoto, GotoMoves
<1>2. ASSUME NEW c \in Call, StartRegister(c) \/ StartAgentCall(c) \/ StartDelete(c)
      PROVE  \A d \in Call : Moves(d)
  BY <1>2, StartMoves DEF StartRegister, StartAgentCall, StartDelete
<1>3. ASSUME UNCHANGED calls PROVE \A d \in Call : Moves(d)
  BY <1>3 DEF Moves
<1> QED
  BY <1>1, <1>2, <1>3, CrashMoves DEF Next, vars, CreateRegistrationToken, Expire

-----------------------------------------------------------------------------
(***************************************************************************)
(* The inductive invariant.                                                *)
(***************************************************************************)

\* The registry starts with nobody in it.
LEMMA InitRegInv == Init => RegInv
<1> SUFFICES ASSUME Init PROVE RegInv
  OBVIOUS
<1>1. \A c \in Call : calls[c] = Idle
  BY DEF Init
<1>2. Owned
  BY <1>1 DEF Owned, Registering, Idle
<1>3. Bearers
  BY <1>1 DEF Bearers, Init
<1> QED
  BY InitTypeOK, <1>2, <1>3 DEF RegInv, Init, Fenced, SingleUse

\* The transaction of Consume reads and deletes at once, so what it lets in
\* once it never lets in again.
LEMMA FencedStep == RegInv /\ [Next]_vars => Fenced' /\ SingleUse'
<1> SUFFICES ASSUME RegInv, [Next]_vars PROVE Fenced' /\ SingleUse'
  OBVIOUS
<1> USE DEF RegInv, Fenced, SingleUse
<1>1. ASSUME UNCHANGED <<regTokens, minted, burnedBy>> PROVE Fenced' /\ SingleUse'
  BY <1>1
<1>2. ASSUME NEW t \in RegToken, CreateRegistrationToken(t) PROVE Fenced' /\ SingleUse'
  BY <1>2 DEF CreateRegistrationToken
<1>3. ASSUME NEW c \in Call, ConsumeRegistrationToken(c) PROVE Fenced' /\ SingleUse'
  <2>1. calls[c].reg \in RegToken
    BY <1>3, HandlerSteps DEF ConsumeRegistrationToken, At, Idle
  <2> DEFINE t == calls[c].reg
  <2>2. \/ t \in regTokens /\ burnedBy' = [burnedBy EXCEPT ![t] = @ \cup {c}]
        \/ burnedBy' = burnedBy
    BY <1>3 DEF ConsumeRegistrationToken
  <2>3. regTokens' = regTokens \ {t} /\ minted' = minted
    BY <1>3 DEF ConsumeRegistrationToken
  <2>4. burnedBy \in [RegToken -> SUBSET Call]
    BY DEF TypeOK
  <2> HIDE DEF t
  <2> QED
    BY <2>1, <2>2, <2>3, <2>4
<1>4. CASE Expire
  BY <1>4 DEF Expire, hist
<1>5. ASSUME NEW c \in Call, StartRegister(c) \/ StartAgentCall(c) \/ StartDelete(c)
      PROVE  UNCHANGED <<regTokens, minted, burnedBy>>
  BY <1>5 DEF StartRegister, StartAgentCall, StartDelete, Start
<1>6. ASSUME NEW c \in Call, Step(c), ~ConsumeRegistrationToken(c)
      PROVE  UNCHANGED <<regTokens, minted, burnedBy>>
  BY <1>6 DEF Step, CreateAgent, IssueAgentToken, AuthenticateToken, AuthenticateAgent,
     DropToken, SaveAgent, ExtendFind, ExtendSave, DeleteFind, RevokeAgentTokens,
     RemoveAgent, hist
<1> QED
  BY <1>1, <1>2, <1>3, <1>4, <1>5, <1>6 DEF Next, StoreError, Crash, vars, hist

\* Create refuses a taken name, so a record stays with the registration that
\* created it until a DeleteAgent removes it.
LEMMA OwnedStep == RegInv /\ [Next]_vars => Owned'
<1> SUFFICES ASSUME RegInv, [Next]_vars,
                    NEW d \in Call, Registering(d, {"issue", "ok"})',
                    (d \notin deleted)'
             PROVE  (owner[calls[d].name] = {d} /\ agents[calls[d].name] # "absent")'
  BY DEF Owned
<1> DEFINE n == calls[d].name
<1>0. TypeOK /\ Moves(d) /\ TypeOK'
  BY NextMoves, NextTypeOK DEF RegInv
<1>1. ASSUME Registering(d, {"issue", "ok"}), deleted \subseteq deleted'
      PROVE  /\ n' = n /\ n \in Name
             /\ owner[n] = {d} /\ agents[n] # "absent"
  BY <1>0, <1>1, HandlerSteps DEF RegInv, Owned, Registering, Moves, Idle
<1>2. ASSUME UNCHANGED <<owner, agents, deleted>>, Registering(d, {"issue", "ok"})
      PROVE  (owner[n] = {d} /\ agents[n] # "absent")'
  BY <1>1, <1>2
<1>3. ASSUME NEW c \in Call, CreateAgent(c)
      PROVE  (owner[n] = {d} /\ agents[n] # "absent")'
  <2>1. /\ calls[c].name \in Name /\ calls[c] # Idle /\ calls[c].kind = "register"
        /\ ~Ended(c) /\ ~Registering(c, {"issue", "ok"})
    BY <1>0, <1>3, HandlerSteps DEF CreateAgent, At, Idle, Ended, Registering
  <2>2. /\ \A e \in Call : Moves(e)
        /\ \A e \in Call \ {c} : calls'[e] = calls[e]
        /\ calls'[c].step = IF agents[calls[c].name] = "absent" THEN "issue" ELSE "failed"
    BY <1>0, <1>3, <2>1, GotoMoves DEF CreateAgent, Steps
  <2>3. CASE d = c
    BY <1>0, <1>3, <2>1, <2>2, <2>3 DEF CreateAgent, Registering, Moves, TypeOK
  <2>4. CASE d # c
    BY <1>0, <1>1, <1>3, <2>1, <2>2, <2>4 DEF CreateAgent, Registering, TypeOK
  <2> QED
    BY <2>3, <2>4
<1>4. ASSUME NEW c \in Call, IssueAgentToken(c)
      PROVE  (owner[n] = {d} /\ agents[n] # "absent")'
  <2>1. Registering(c, {"issue", "ok"}) /\ calls[c] # Idle /\ ~Ended(c)
    BY <1>4 DEF IssueAgentToken, At, Idle, Ended, Registering
  <2>2. \A e \in Call \ {c} : calls'[e] = calls[e]
    BY <1>0, <1>4, <2>1, GotoMoves DEF IssueAgentToken, Steps, Registering
  <2>3. Registering(d, {"issue", "ok"})
    BY <2>1, <2>2 DEF Registering
  <2> QED
    BY <1>2, <1>4, <2>3 DEF IssueAgentToken, hist
<1>5. ASSUME NEW c \in Call, RemoveAgent(c)
      PROVE  (owner[n] = {d} /\ agents[n] # "absent")'
  <2>1. calls[c].name \in Name /\ calls[c].kind = "delete" /\ ~Ended(c)
    BY <1>0, <1>5, HandlerSteps DEF RemoveAgent, At, Idle, Ended
  <2>2. \A e \in Call \ {c} : calls'[e] = calls[e]
    BY <1>0, <1>5, <2>1, GotoMoves DEF RemoveAgent, Steps
  <2>3. calls'[c].kind = "delete"
    BY <1>0, <1>5, <2>1, GotoMoves DEF RemoveAgent, Steps, Moves
  <2>4. Registering(d, {"issue", "ok"})
    BY <2>2, <2>3 DEF Registering
  <2> QED
    BY <1>0, <1>1, <1>5, <2>1, <2>4 DEF RemoveAgent, TypeOK
<1>6. ASSUME NEW c \in Call, Step(c) \/ StoreError(c), ~CreateAgent(c), ~IssueAgentToken(c)
      PROVE  Registering(d, {"issue", "ok"})
  <2>1. PICK s \in Steps(calls[c].kind) : Goto(c, s)
    BY <1>0, <1>6, StepIsGoto
  <2>2. ~Ended(c)
    BY <1>0, <1>6, StepIsGoto
  <2>3. /\ calls'[c].step = s /\ \A e \in Call \ {c} : calls'[e] = calls[e]
        /\ \A e \in Call : Moves(e) /\ calls[c] # Idle
    BY <1>0, <2>1, <2>2, GotoMoves
  <2>4. calls[c].kind = "register" => calls'[c].step \in {"create", "failed"}
    <3>1. CASE ConsumeRegistrationToken(c)
      BY <1>0, <1>6, <2>2, <3>1, GotoMoves DEF ConsumeRegistrationToken, At, Steps
    <3>2. CASE StoreError(c)
      BY <1>0, <1>6, <2>2, <3>2, GotoMoves DEF StoreError, Steps
    <3>3. CASE Step(c) /\ ~ConsumeRegistrationToken(c)
      BY <1>6, <3>3 DEF Step, AuthenticateToken, AuthenticateAgent, DropToken, SaveAgent,
         ExtendFind, ExtendSave, DeleteFind, RevokeAgentTokens, RemoveAgent, AgentCall, At
    <3> QED
      BY <1>6, <3>1, <3>2, <3>3
  <2> QED
    BY <2>3, <2>4 DEF Registering, Moves
<1>7. ASSUME NEW c \in Call, SaveAgent(c)
      PROVE  (owner[n] = {d} /\ agents[n] # "absent")'
  <2>1. Registering(d, {"issue", "ok"})
    BY <1>6, <1>7 DEF Step, SaveAgent, CreateAgent, IssueAgentToken, AgentCall, At
  <2>2. calls[c].tok.agent \in Name
    BY <1>0, <1>7, HandlerSteps DEF SaveAgent, AgentCall, At, Idle, Token
  <2> QED
    BY <1>0, <1>1, <1>7, <2>1, <2>2 DEF SaveAgent, TypeOK, hist
<1>8. ASSUME NEW c \in Call, Step(c) \/ StoreError(c), ~CreateAgent(c), ~IssueAgentToken(c),
             ~RemoveAgent(c), ~SaveAgent(c)
      PROVE  (owner[n] = {d} /\ agents[n] # "absent")'
  <2>1. UNCHANGED <<owner, agents, deleted>>
    BY <1>8 DEF Step, StoreError, ConsumeRegistrationToken, AuthenticateToken,
       AuthenticateAgent, DropToken, ExtendFind, ExtendSave, DeleteFind,
       RevokeAgentTokens, hist
  <2> QED
    BY <1>2, <1>6, <1>8, <2>1
<1>9. ASSUME NEW c \in Call, StartRegister(c) \/ StartAgentCall(c) \/ StartDelete(c)
      PROVE  (owner[n] = {d} /\ agents[n] # "absent")'
  <2>1. /\ calls'[c].step \in {"consume", "findToken", "find"}
        /\ \A e \in Call \ {c} : calls'[e] = calls[e]
    BY <1>0, <1>9, StartsFirst
  <2>2. Registering(d, {"issue", "ok"})
    BY <2>1 DEF Registering
  <2>3. UNCHANGED <<owner, agents, deleted>>
    BY <1>9 DEF StartRegister, StartAgentCall, StartDelete, Start
  <2> QED
    BY <1>2, <2>2, <2>3
<1>10. CASE Crash
  <2>1. Registering(d, {"issue", "ok"})
    BY <1>0, <1>10, CrashMoves DEF Registering
  <2> QED
    BY <1>2, <1>10, <2>1 DEF Crash, hist
<1>11. ASSUME UNCHANGED <<calls, owner, agents, deleted>>
       PROVE  (owner[n] = {d} /\ agents[n] # "absent")'
  BY <1>2, <1>11 DEF Registering
<1> QED
  BY <1>3, <1>4, <1>5, <1>7, <1>8, <1>9, <1>10, <1>11
     DEF Next, CreateRegistrationToken, Expire, vars, hist

\* Only a registration that succeeds issues a token, only issued tokens are
\* presented, and an issued token stays issued.
LEMMA BearersStep == RegInv /\ [Next]_vars => Bearers'
<1> SUFFICES ASSUME RegInv, [Next]_vars PROVE Bearers'
  OBVIOUS
<1>0. /\ TypeOK /\ TypeOK' /\ Bearers
      /\ \A d \in Call : Moves(d)
      /\ Issued \subseteq Issued'
  BY NextMoves, NextTypeOK, IssuedGrows DEF RegInv
<1>1. \A d \in Call : calls'[d] # Idle /\ calls'[d].kind \in {"heartbeat", "deregister"}
                      => calls'[d].tok \in Issued'
  <2> SUFFICES ASSUME NEW d \in Call, calls'[d] # Idle,
                      calls'[d].kind \in {"heartbeat", "deregister"}
               PROVE  calls'[d].tok \in Issued'
    OBVIOUS
  <2>1. CASE calls[d] # Idle
    BY <1>0, <2>1 DEF Moves, Bearers
  <2>2. ASSUME NEW c \in Call, StartRegister(c) \/ StartAgentCall(c) \/ StartDelete(c)
        PROVE  calls'[d].tok \in Issued'
    BY <1>0, <2>1, <2>2, StartsFirst
  <2>3. ASSUME NEW c \in Call, Step(c) \/ StoreError(c) PROVE calls[d] # Idle
    BY <1>0, <2>3, StepIsGoto, GotoMoves
  <2>4. CASE Crash
    BY <1>0, <2>1, <2>4, CrashMoves DEF Ended, Idle
  <2> QED
    BY <2>1, <2>2, <2>3, <2>4 DEF Next, CreateRegistrationToken, Expire, vars
<1>2. (tokens \cup revoked)' \subseteq Issued'
  <2>1. ASSUME NEW c \in Call, IssueAgentToken(c) PROVE (tokens \cup revoked)' \subseteq Issued'
    <3>1. /\ calls[c].name \in Name /\ calls[c] # Idle /\ calls[c].kind = "register"
          /\ ~Ended(c)
      BY <1>0, <2>1, HandlerSteps DEF IssueAgentToken, At, Idle, Ended
    <3>2. calls'[c].step = "ok" /\ calls'[c].kind = "register" /\ calls'[c].name = calls[c].name
      BY <1>0, <2>1, <3>1, GotoMoves DEF IssueAgentToken, Steps, Moves
    <3>3. [id |-> c, agent |-> calls[c].name] \in Issued'
      BY <3>1, <3>2 DEF Issued, Token
    <3> QED
      BY <1>0, <2>1, <3>3 DEF IssueAgentToken, Bearers, hist
  <2>2. ASSUME NEW c \in Call, ExtendSave(c) PROVE (tokens \cup revoked)' \subseteq Issued'
    <3>1. calls[c].tok \in Issued
      BY <1>0, <2>2 DEF ExtendSave, Bearers, AgentCall, At, Idle
    <3> QED
      BY <1>0, <2>2, <3>1 DEF ExtendSave, Bearers, hist
  <2>3. ASSUME NEW c \in Call, Step(c) \/ StoreError(c), ~IssueAgentToken(c), ~ExtendSave(c)
        PROVE  (tokens \cup revoked)' \subseteq tokens \cup revoked
    BY <2>3 DEF Step, StoreError, ConsumeRegistrationToken, CreateAgent, AuthenticateToken,
       AuthenticateAgent, DropToken, SaveAgent, ExtendFind, DeleteFind, RevokeAgentTokens,
       RemoveAgent, TokensOf, hist
  <2>4. ASSUME NEW c \in Call, StartRegister(c) \/ StartAgentCall(c) \/ StartDelete(c)
        PROVE  (tokens \cup revoked)' \subseteq tokens \cup revoked
    BY <1>0, <2>4, StartsFirst
  <2>5. CASE Crash \/ Expire \/ UNCHANGED vars \/ \E t \in RegToken : CreateRegistrationToken(t)
    BY <1>0, <2>5 DEF Crash, Expire, vars, hist, CreateRegistrationToken, Bearers
  <2> QED
    BY <1>0, <2>1, <2>2, <2>3, <2>4, <2>5 DEF Next, Bearers
<1> QED
  BY <1>1, <1>2 DEF Bearers

\* RegInv is inductive: it holds in every reachable state.
LEMMA RegInvHolds == Spec => []RegInv
<1>1. RegInv /\ [Next]_vars => RegInv'
  BY NextTypeOK, FencedStep, OwnedStep, BearersStep DEF RegInv
<1> QED
  BY InitRegInv, <1>1, PTL DEF Spec

\* ports/auth.go:48-50, agent_credentials.go Consume: a registration token lets
\* at most one Register past its first step, for any number of concurrent calls.
THEOREM RegistrationTokenSingleUse == Spec => []SingleUse
<1>1. RegInv => SingleUse
  BY DEF RegInv
<1> QED
  BY RegInvHolds, <1>1, PTL

\* service.go Register with agents.Create: two registrations of one name both
\* hold tokens only if a DeleteAgent removed the record of one of them.
THEOREM NobodyTakesAName == Spec => []NoNameTakeover
<1>1. RegInv => NoNameTakeover
  <2> SUFFICES ASSUME RegInv, NEW t \in tokens, NEW u \in tokens,
                      t.agent = u.agent, t.id \notin deleted, u.id \notin deleted
               PROVE  t = u
    BY DEF NoNameTakeover
  <2>1. t \in Issued /\ u \in Issued
    BY DEF RegInv, Bearers
  <2>2. owner[t.agent] = {t.id} /\ owner[u.agent] = {u.id}
    BY <2>1 DEF RegInv, Owned, Registering, Issued, Token
  <2> QED
    BY <2>1, <2>2 DEF Issued, Token
<1> QED
  BY RegInvHolds, <1>1, PTL

-----------------------------------------------------------------------------
(***************************************************************************)
(* A lifecycle whose handlers never overlap: tokens follow their records.  *)
(***************************************************************************)

\* A handler that is not running knows nothing.
LEMMA EndedKnows ==
  ASSUME NEW c \in Call, Ended(c)
  PROVE  Knows(c)
  BY DEF Ended, Knows, Registering, Bearing, At

\* A store step of the only running handler keeps tokens with their records.
LEMMA SoloStep ==
  ASSUME RegInv, NEW c \in Call, Step(c) \/ StoreError(c), Knows(c), Follow
  PROVE  Knows(c)' /\ Follow'
<1>0. /\ TypeOK /\ Bearers /\ ~Ended(c) /\ calls[c] # Idle
      /\ \A d \in Call : Moves(d)
  BY StepIsGoto, GotoMoves DEF RegInv
<1>1. /\ calls[c].kind \in {"register", "heartbeat", "deregister", "delete"}
      /\ calls'[c].kind = calls[c].kind
      /\ calls[c].kind \in {"register", "delete"} =>
           calls'[c].name = calls[c].name /\ calls[c].name \in Name
      /\ calls[c].kind \in {"heartbeat", "deregister"} =>
           calls'[c].tok = calls[c].tok /\ calls[c].tok \in Issued /\ calls[c].tok.agent \in Name
  BY <1>0, HandlerSteps DEF Moves, Bearers, Token
<1>2. \A s \in Steps(calls[c].kind) : Goto(c, s) => calls'[c].step = s
  BY <1>0, GotoMoves
<1>3. ASSUME calls'[c].step = "failed" PROVE Knows(c)'
  BY <1>3 DEF Knows, Registering, Bearing, At
<1> USE DEF Knows, Follow, Registering, Bearing, At, AgentCall, Steps, TokensOf
<1>4. CASE StoreError(c)
  BY <1>0, <1>1, <1>2, <1>3, <1>4 DEF StoreError, hist
<1>5. CASE ConsumeRegistrationToken(c)
  <2>1. calls[c].kind = "register" /\ calls'[c].step \in {"create", "failed"}
    BY <1>2, <1>5 DEF ConsumeRegistrationToken
  <2> QED
    BY <1>1, <1>5, <2>1 DEF ConsumeRegistrationToken
<1>6. CASE CreateAgent(c)
  <2>1. calls[c].kind = "register" /\ calls'[c].step \in {"issue", "failed"}
    BY <1>2, <1>6 DEF CreateAgent
  <2>2. agents' = agents \/ agents' = [agents EXCEPT ![calls[c].name] = "passive"]
    BY <1>6 DEF CreateAgent
  <2>3. \A n \in Name : agents[n] # "absent" => agents'[n] # "absent"
    BY <1>0, <2>2 DEF TypeOK
  <2>4. \A t \in tokens : t.agent \in Name
    BY <1>0 DEF TypeOK, Token
  <2>5. calls'[c].step = "issue" => agents'[calls[c].name] # "absent"
    BY <1>0, <1>1, <1>2, <1>6, <2>1 DEF CreateAgent, TypeOK
  <2>6. Follow'
    BY <1>6, <2>3, <2>4 DEF CreateAgent
  <2> QED
    BY <1>1, <1>3, <2>1, <2>5, <2>6
<1>7. CASE IssueAgentToken(c)
  <2>1. calls[c].kind = "register" /\ calls[c].step = "issue" /\ calls'[c].step = "ok"
    BY <1>2, <1>7 DEF IssueAgentToken
  <2>2. [id |-> c, agent |-> calls[c].name] \notin revoked
    BY <1>0, <2>1 DEF Bearers, Issued
  <2>3. agents[calls[c].name] # "absent"
    BY <2>1
  <2> QED
    BY <1>1, <1>7, <2>1, <2>2, <2>3 DEF IssueAgentToken, hist
<1>8. CASE AuthenticateToken(c)
  <2>1. calls[c].kind \in {"heartbeat", "deregister"}
    BY <1>8 DEF AuthenticateToken
  <2>2. calls'[c].step = IF calls[c].tok \in tokens THEN "findAgent" ELSE "failed"
    BY <1>2, <1>8, <2>1 DEF AuthenticateToken
  <2> QED
    BY <1>1, <1>8, <2>1, <2>2 DEF AuthenticateToken, hist
<1>9. CASE AuthenticateAgent(c)
  <2>1. calls[c].kind \in {"heartbeat", "deregister"} /\ calls[c].step = "findAgent"
    BY <1>9 DEF AuthenticateAgent
  <2>2. \/ agents[calls[c].tok.agent] # "absent" /\ calls'[c].step = "save"
        \/ calls'[c].step = "dropToken"
    BY <1>2, <1>9, <2>1 DEF AuthenticateAgent
  <2> QED
    BY <1>1, <1>9, <2>1, <2>2 DEF AuthenticateAgent, hist
<1>10. CASE DropToken(c)
  <2>1. calls'[c].step = "failed"
    BY <1>2, <1>10 DEF DropToken
  <2> QED
    BY <1>3, <1>10, <2>1 DEF DropToken, hist
<1>11. CASE SaveAgent(c)
  <2>1. calls[c].kind \in {"heartbeat", "deregister"} /\ calls[c].step = "save"
    BY <1>11 DEF SaveAgent
  <2>2. calls'[c].step \in {"extFind", "ok"}
    BY <1>2, <1>11, <2>1 DEF SaveAgent
  <2>3. /\ \A n \in Name : agents[n] # "absent" => agents'[n] # "absent"
        /\ agents'[calls[c].tok.agent] # "absent"
    BY <1>0, <1>1, <1>11, <2>1 DEF SaveAgent, TypeOK
  <2>4. \A t \in tokens : t.agent \in Name
    BY <1>0 DEF TypeOK, Token
  <2>5. Follow'
    BY <1>11, <2>3, <2>4 DEF SaveAgent, hist
  <2>6. revoked' = revoked
    BY <1>11 DEF SaveAgent, hist
  <2> QED
    BY <1>1, <2>1, <2>2, <2>3, <2>5, <2>6
<1>12. CASE ExtendFind(c)
  <2>1. calls[c].kind \in {"heartbeat", "deregister"} /\ calls[c].step = "extFind"
    BY <1>12 DEF ExtendFind
  <2>2. calls'[c].step \in {"extSave", "failed"}
    BY <1>2, <1>12, <2>1 DEF ExtendFind
  <2> QED
    BY <1>1, <1>12, <2>1, <2>2 DEF ExtendFind, hist
<1>13. CASE ExtendSave(c)
  <2>1. calls[c].kind \in {"heartbeat", "deregister"} /\ calls[c].step = "extSave"
    BY <1>13 DEF ExtendSave
  <2>2. calls'[c].step = "ok"
    BY <1>2, <1>13, <2>1 DEF ExtendSave
  <2>3. agents[calls[c].tok.agent] # "absent" /\ calls[c].tok \notin revoked
    BY <2>1
  <2> QED
    BY <1>1, <1>13, <2>1, <2>2, <2>3 DEF ExtendSave, hist
<1>14. CASE DeleteFind(c)
  <2>1. calls[c].kind = "delete" /\ calls'[c].step \in {"revoke", "failed"}
    BY <1>2, <1>14 DEF DeleteFind
  <2> QED
    BY <1>1, <1>14, <2>1 DEF DeleteFind, hist
<1>15. CASE RevokeAgentTokens(c)
  <2>1. calls[c].kind = "delete" /\ calls'[c].step = "remove"
    BY <1>2, <1>15 DEF RevokeAgentTokens
  <2>2. Follow'
    BY <1>15 DEF RevokeAgentTokens
  <2>3. (TokensOf(calls[c].name) = {})'
    BY <1>1, <1>15, <2>1 DEF RevokeAgentTokens
  <2> QED
    BY <1>1, <2>1, <2>2, <2>3
<1>16. CASE RemoveAgent(c)
  <2>1. /\ calls[c].kind = "delete" /\ calls[c].step = "remove"
        /\ calls'[c].step \in {"ok", "failed"}
    BY <1>2, <1>16 DEF RemoveAgent
  <2>2. \A t \in tokens : t.agent # calls[c].name /\ t.agent \in Name
    BY <1>0, <2>1 DEF TypeOK, Token
  <2>3. Follow'
    BY <1>0, <1>16, <2>2 DEF RemoveAgent, TypeOK
  <2> QED
    BY <1>1, <2>1, <2>3
<1> QED
  BY <1>4, <1>5, <1>6, <1>7, <1>8, <1>9, <1>10, <1>11, <1>12, <1>13, <1>14, <1>15, <1>16
     DEF Step

\* While handlers never overlap, every step leaves what the next one needs.
LEMMA AloneStep == AloneInv /\ [Next]_vars => Alone'
<1> SUFFICES ASSUME AloneInv, [Next]_vars, ~overlapped'
             PROVE  /\ \A c, d \in InFlight' : c = d
                    /\ \A c \in Call : Knows(c)'
                    /\ Follow'
  BY DEF Alone
<1>0. RegInv /\ TypeOK /\ Alone
  BY DEF AloneInv, RegInv
<1>1. ASSUME NEW c \in Call, Step(c) \/ StoreError(c)
      PROVE  /\ \A e, d \in InFlight' : e = d
             /\ \A d \in Call : Knows(d)'
             /\ Follow'
  <2>1. ~overlapped
    BY <1>1 DEF Step, StoreError, ConsumeRegistrationToken, CreateAgent, IssueAgentToken,
       AuthenticateToken, AuthenticateAgent, DropToken, SaveAgent, ExtendFind, ExtendSave,
       DeleteFind, RevokeAgentTokens, RemoveAgent, hist
  <2>2. c \in InFlight /\ \A d \in Call \ {c} : calls'[d] = calls[d]
    BY <1>0, <1>1, StepIsGoto, GotoMoves DEF InFlight
  <2>3. \A d \in Call \ {c} : Ended(d)
    BY <1>0, <2>1, <2>2 DEF Alone, InFlight
  <2>4. \A d \in Call \ {c} : Ended(d)'
    BY <2>2, <2>3 DEF Ended
  <2>5. \A d \in Call \ {c} : Knows(d)'
    BY <2>4 DEF Ended, Knows, Registering, Bearing, At
  <2>6. Knows(c)' /\ Follow'
    BY <1>0, <1>1, <2>1, SoloStep DEF Alone
  <2> QED
    BY <2>4, <2>5, <2>6 DEF InFlight
<1>2. ASSUME NEW c \in Call, StartRegister(c) \/ StartAgentCall(c) \/ StartDelete(c)
      PROVE  /\ \A e, d \in InFlight' : e = d
             /\ \A d \in Call : Knows(d)'
             /\ Follow'
  <2>1. ~overlapped /\ InFlight = {}
    BY <1>0, <1>2, StartsFirst
  <2>2. /\ calls'[c].step \in {"consume", "findToken", "find"}
        /\ \A d \in Call \ {c} : calls'[d] = calls[d]
        /\ UNCHANGED <<agents, tokens, revoked>>
    BY <1>0, <1>2, StartsFirst
  <2>3. \A d \in Call \ {c} : Ended(d)'
    BY <2>1, <2>2 DEF InFlight, Ended
  <2>4. \A d \in Call : Knows(d)'
    BY <2>2, <2>3 DEF Ended, Knows, Registering, Bearing, At
  <2>5. Follow'
    BY <1>0, <2>1, <2>2 DEF Alone, Follow
  <2> QED
    BY <2>3, <2>4, <2>5 DEF InFlight
<1>3. CASE Crash
  <2>1. \A d \in Call : calls'[d].step \in {"idle", "ok", "failed"}
    BY <1>0, <1>3, CrashMoves DEF Ended
  <2>2. \A d \in Call : Knows(d)' /\ Ended(d)'
    BY <2>1 DEF Ended, Knows, Registering, Bearing, At
  <2>3. Follow'
    BY <1>0, <1>3 DEF Crash, hist, Alone, Follow
  <2> QED
    BY <2>2, <2>3 DEF InFlight
<1>4. CASE Expire
  <2>1. UNCHANGED <<calls, agents, revoked, overlapped>> /\ tokens' \subseteq tokens
    BY <1>4 DEF Expire, hist
  <2> QED
    BY <1>0, <2>1 DEF Alone, Follow, InFlight, Ended, Knows, Registering, Bearing, At, TokensOf
<1>5. ASSUME UNCHANGED <<calls, agents, tokens, revoked, overlapped>>
      PROVE  /\ \A e, d \in InFlight' : e = d
             /\ \A d \in Call : Knows(d)'
             /\ Follow'
  BY <1>0, <1>5 DEF Alone, Follow, InFlight, Ended, Knows, Registering, Bearing, At, TokensOf
<1> QED
  BY <1>1, <1>2, <1>3, <1>4, <1>5 DEF Next, CreateRegistrationToken, vars

\* service.go DeleteAgent and agent_credentials.go ExtendAgentToken: unless
\* handlers overlap, no failure or crash, whichever step it hits, leaves a token
\* without its record or brings a revoked one back.
THEOREM TokensFollowTheirRecords == Spec => []TokensFollowRecords
<1>1. Init => AloneInv
  <2> SUFFICES ASSUME Init PROVE Alone
    BY InitRegInv DEF AloneInv
  <2>1. \A c \in Call : Ended(c)
    BY DEF Init, Ended, Idle
  <2> QED
    BY <2>1, EndedKnows DEF Init, Alone, InFlight, Follow
<1>2. AloneInv /\ [Next]_vars => AloneInv'
  BY AloneStep, NextTypeOK, FencedStep, OwnedStep, BearersStep DEF AloneInv, RegInv
<1>3. AloneInv => TokensFollowRecords
  BY DEF AloneInv, Alone, Follow, TokensFollowRecords
<1> QED
  BY <1>1, <1>2, <1>3, PTL DEF Spec
=============================================================================
