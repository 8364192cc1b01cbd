--------------------------- MODULE UserAuthProofs ---------------------------
(***************************************************************************)
(* Proofs about UserAuth for any users, passwords and number of calls, and *)
(* any interleaving, failure and restart.                                  *)
(***************************************************************************)
EXTENDS UserAuth, FiniteSetTheorems, TLAPS

Authenticating == {"token", "principal", "reject"}

\* The steps a call of each operation can be at.
Steps(op) ==
  CASE op = "none" -> {"idle", "done"}
    [] op = "init" -> {"lock", "create", "issue", "keep"}
    [] op = "login" -> {"compare", "issue", "keep"}
    [] op = "dashboard login" -> {"compare", "issue", "keep"} \cup Authenticating
    [] op = "logout" -> {"drop", "forget"} \cup Authenticating
    [] op = "create" -> {"create"} \cup Authenticating
    [] op = "delete" -> {"find", "admins", "remove", "revoke"} \cup Authenticating
    [] op \in {"change", "reset"} -> {"find", "save", "revoke"} \cup Authenticating

AnyStep == UNION {Steps(op) : op \in Op \cup {"none"}}

\* What a call carries at each of its steps.
Call ==
  [step : AnyStep,
   op : Op \cup {"none"}, user : User \cup {None}, bearer : Session \cup {None},
   old : Password \cup {None},
   arg : [role : Role \cup {"none"}, pw : Password \cup {None}, by : Calls \cup {None}],
   held : Account \cup {Absent}]

WellFormed(c) ==
  /\ call[c].step \in Steps(call[c].op)
  /\ Running(c) => call[c].user \in User
  /\ call[c].step \in {"drop", "keep", "forget"} \cup Authenticating => call[c].bearer \in Session
  /\ call[c].op \in {"change", "reset"} => call[c].arg.pw \in Password
  /\ call[c].op \in {"init", "create"} => call[c].arg \in Account
  /\ call[c].op = "init" => call[c].arg.role = "admin"
  /\ call[c].step \in {"issue", "save"} => call[c].held \in Account

CallsTyped == call \in [Calls -> Call] /\ \A c \in Calls : WellFormed(c)

MuTyped == mu # None => mu \in Calls /\ call[mu].op = "init"

Typed == TypeOK /\ CallsTyped /\ MuTyped

\* The sessions anyone has seen.
Seen == tokens \cup kept \cup left \cup {call[c].bearer : c \in {d \in Calls : Running(d)}}

\* Call c may still issue a token.
Unissued(c) ==
  \/ call[c].step \in {"idle", "lock", "compare", "issue"}
  \/ At(c, "create") /\ call[c].op = "init"

\* A logged-out session is gone, and the token of a call that has not issued
\* one yet is new.
LeftInv ==
  /\ \A c \in Calls : Unissued(c) => \A t \in Seen \cap Session : t.id # c
  /\ \A c \in Calls : At(c, "forget") => call[c].bearer \notin tokens
  /\ LogoutEndsSession

\* Without users nothing but InitAdmin is past its checks, and InitAdmin
\* creates under the mutex and with the bootstrap token pending.
BootInv ==
  /\ bootstrap => /\ \A u \in User : ~Exists(u)
                  /\ \A c \in Calls : ~At(c, "save")
                  /\ \A c \in Calls : At(c, "create") => call[c].op = "init"
  /\ \A c \in Calls : At(c, "create") /\ call[c].op = "init" => mu = c /\ bootstrap

\* Deletions in flight together, or with a password change, are on record.
Recorded ==
  \A c, d \in Calls : c # d /\ OnServer(c) =>
    /\ Undercuts(d, call[c].op, call[c].user) => deletesRaced
    /\ OnServer(d) /\ call[d].user = call[c].user => call[c].user \in raced

\* Unless one spoiled another, the copies calls go by are current.
AdminInv ==
  ~deletesRaced =>
    /\ ~bootstrap \/ inits # {} => Admins # {}
    /\ \A c \in Calls : At(c, "remove") => Admins \ {call[c].user} # {}
    /\ \A c \in Calls : At(c, "save") => users[call[c].user].role = call[c].held.role
    /\ SingleInit

Current(t) ==
  /\ Exists(t.user)
  /\ t.seen.by = users[t.user].by /\ t.seen.pw = users[t.user].pw

SessionInv ==
  /\ \A t \in tokens : Current(t) \/ Excused(t.user)
  /\ \A c \in Calls : At(c, "issue") /\ call[c].user \notin raced =>
       users[call[c].user] = call[c].held

AuthInv == Typed /\ LeftInv /\ BootInv /\ Recorded /\ AdminInv /\ SessionInv

-----------------------------------------------------------------------------
(***************************************************************************)
(* Types.                                                                  *)
(***************************************************************************)

\* A call that has ended or not begun carries nothing.
LEMMA BlankTyped ==
  /\ Absent \notin Account
  /\ \A s \in {"idle", "done"} :
       /\ NoCall(s) \in Call
       /\ NoCall(s).step = s /\ NoCall(s).op = "none" /\ NoCall(s).bearer = None
<1>1. Absent \notin Account
  BY DEF Absent, Account, Role
<1>2. Absent \in [role : Role \cup {"none"}, pw : Password \cup {None}, by : Calls \cup {None}]
  BY DEF Absent
<1>3. Steps("none") = {"idle", "done"}
  BY DEF Steps
<1>4. "idle" \in AnyStep /\ "done" \in AnyStep
  BY <1>3 DEF AnyStep
<1> QED
  BY <1>1, <1>2, <1>4 DEF NoCall, Call

\* What a step of a running call leaves of it, and of the others.
Advances(c) ==
  /\ Running(c)
  /\ \A d \in Calls \ {c} : call'[d] = call[d]
  /\ \/ call'[c] = NoCall("done")
     \/ /\ OnServer(c) /\ Running(c)'
        /\ call'[c].op = call[c].op /\ call'[c].user = call[c].user
        /\ call'[c].arg = call[c].arg

\* A call that returns is blank, and the other calls are as they were.
LEMMA ReturnTyped ==
  ASSUME CallsTyped, NEW c \in Calls, Running(c), Return(c)
  PROVE  CallsTyped' /\ Advances(c) /\ call'[c] = NoCall("done")
<1>1. call'[c] = NoCall("done") /\ \A d \in Calls \ {c} : call'[d] = call[d]
  BY DEF Return, CallsTyped
<1>2. call' \in [Calls -> Call]
  BY <1>1, BlankTyped DEF Return, CallsTyped
<1>3. WellFormed(c)'
  BY <1>1, BlankTyped DEF WellFormed, Steps, Running, Authenticating
<1>4. \A d \in Calls \ {c} : WellFormed(d)'
  BY <1>1 DEF CallsTyped, WellFormed, Running
<1> QED
  BY <1>1, <1>2, <1>3, <1>4 DEF CallsTyped, Advances

\* A call that goes on to a step of its operation, with the session that step
\* needs, stays well formed.
LEMMA GotoTyped ==
  ASSUME CallsTyped, NEW c \in Calls, OnServer(c), NEW s \in Steps(call[c].op),
         s \notin {"idle", "done", "issue", "save"},
         s \in {"drop", "keep", "forget"} \cup Authenticating => call[c].bearer \in Session,
         Goto(c, s)
  PROVE  /\ CallsTyped' /\ Advances(c)
         /\ call'[c].step = s /\ call'[c].bearer = call[c].bearer
<1>1. call[c] \in Call
  BY DEF CallsTyped
<1>2. /\ call'[c] = [call[c] EXCEPT !.step = s]
      /\ \A d \in Calls \ {c} : call'[d] = call[d]
      /\ DOMAIN call' = Calls
  BY DEF Goto, CallsTyped
<1>3. /\ call'[c].op = call[c].op /\ call'[c].user = call[c].user /\ call'[c].step = s
      /\ call'[c].arg = call[c].arg /\ call'[c].bearer = call[c].bearer
  BY <1>1, <1>2 DEF Call
<1>4. s \in AnyStep
  BY <1>1 DEF Call, AnyStep
<1>5. call'[c] \in Call
  BY <1>1, <1>2, <1>4 DEF Call
<1>6. call' \in [Calls -> Call]
  BY <1>2, <1>5 DEF Goto, CallsTyped
<1>7. WellFormed(c)'
  BY <1>3 DEF CallsTyped, WellFormed, Running, OnServer
<1>8. \A d \in Calls \ {c} : WellFormed(d)'
  BY <1>2 DEF CallsTyped, WellFormed, Running
<1> QED
  BY <1>2, <1>3, <1>6, <1>7, <1>8 DEF CallsTyped, Advances, OnServer, Running

\* So does one that takes a copy of its account on the way.
LEMMA HoldTyped ==
  ASSUME CallsTyped, NEW c \in Calls, OnServer(c), NEW s \in Steps(call[c].op),
         s \notin {"idle", "done", "drop", "keep", "forget"} \cup Authenticating,
         users[call[c].user] \in Account, Hold(c, s)
  PROVE  /\ CallsTyped' /\ Advances(c)
         /\ call'[c].step = s /\ call'[c].bearer = call[c].bearer
         /\ call'[c].held = users[call[c].user]
<1> DEFINE h == users[call[c].user]
<1>1. call[c] \in Call
  BY DEF CallsTyped
<1>2. /\ call'[c] = [call[c] EXCEPT !.step = s, !.held = h]
      /\ \A d \in Calls \ {c} : call'[d] = call[d]
      /\ DOMAIN call' = Calls
  BY DEF Hold, CallsTyped
<1> HIDE DEF h
<1>3. /\ call'[c].op = call[c].op /\ call'[c].user = call[c].user /\ call'[c].step = s
      /\ call'[c].arg = call[c].arg /\ call'[c].bearer = call[c].bearer
      /\ call'[c].held = h
  BY <1>1, <1>2 DEF Call
<1>4. s \in AnyStep /\ h \in Account
  BY <1>1 DEF Call, AnyStep, h
<1>5. call'[c] \in Call
  BY <1>1, <1>2, <1>4 DEF Call
<1>6. call' \in [Calls -> Call]
  BY <1>2, <1>5 DEF Hold, CallsTyped
<1>7. WellFormed(c)'
  BY <1>3, <1>4 DEF CallsTyped, WellFormed, Running, OnServer
<1>8. \A d \in Calls \ {c} : WellFormed(d)'
  BY <1>2 DEF CallsTyped, WellFormed, Running
<1> QED
  BY <1>2, <1>3, <1>6, <1>7, <1>8 DEF CallsTyped, Advances, OnServer, Running, h

\* What a call carries when it arrives.
Proper(op, u, t, old, a, s) ==
  /\ op \in Op /\ u \in User /\ t \in Session \cup {None} /\ old \in Password \cup {None}
  /\ a \in [role : Role \cup {"none"}, pw : Password \cup {None}, by : Calls \cup {None}]
  /\ s \in Steps(op) /\ s \in {"lock", "compare", "token"}
  /\ s = "token" => t \in Session
  /\ op \in {"change", "reset"} => a.pw \in Password
  /\ op \in {"init", "create"} => a \in Account
  /\ op = "init" => a.role = "admin"

\* A call that arrives is well formed.
LEMMA StartTyped ==
  ASSUME Typed, NEW c \in Calls, NEW op, NEW u, NEW t, NEW old, NEW a, NEW s,
         Proper(op, u, t, old, a, s), Start(c, op, u, t, old, a, s)
  PROVE  /\ Typed'
         /\ call'[c].op = op /\ call'[c].user = u /\ call'[c].step = s /\ call'[c].bearer = t
         /\ \A d \in Calls \ {c} : call'[d] = call[d]
<1> DEFINE n == [step |-> s, op |-> op, user |-> u, bearer |-> t, old |-> old, arg |-> a,
                 held |-> Absent]
<1>1. n \in Call
  <2>1. s \in AnyStep
    BY DEF AnyStep, Proper
  <2> QED
    BY <2>1 DEF Call, Proper
<1>2. /\ call' \in [Calls -> Call] /\ call'[c] = n
      /\ \A d \in Calls \ {c} : call'[d] = call[d]
  BY <1>1 DEF Start, Typed, CallsTyped
<1>3. /\ call'[c].op = op /\ call'[c].user = u /\ call'[c].step = s /\ call'[c].bearer = t
      /\ call'[c].arg = a
  BY <1>2
<1> HIDE DEF n
<1>4. WellFormed(c)'
  BY <1>3 DEF WellFormed, Running, Authenticating, Proper
<1>5. \A d \in Calls \ {c} : WellFormed(d)'
  BY <1>2 DEF Typed, CallsTyped, WellFormed, Running
<1>6. mu # c /\ mu' = mu
  BY UserAuthAssumption DEF Start, Typed, TypeOK, At
<1>7. raced' \subseteq User /\ deletesRaced' \in BOOLEAN
  BY DEF Start, Typed, TypeOK, Proper
<1>8. TypeOK' /\ MuTyped'
  BY <1>2, <1>6, <1>7 DEF Start, Typed, TypeOK, MuTyped, At, hist, clients, Exists
<1> QED
  BY <1>2, <1>3, <1>4, <1>5, <1>8 DEF Typed, CallsTyped

Begin(c) ==
  \/ StartInitAdmin(c) \/ StartLogin(c) \/ StartDashboardLogin(c) \/ StartLogout(c)
  \/ StartCreateUser(c) \/ StartDeleteUser(c)
  \/ StartChangePassword(c) \/ StartResetPassword(c) \/ StartDashboardReset(c)

\* A call arrives with what its operation needs, and unless it is a login with
\* a session some client has kept.
LEMMA BeginTyped ==
  ASSUME Typed, NEW c \in Calls, Begin(c)
  PROVE  /\ Typed'
         /\ \E op, u, t, old, a, s : Start(c, op, u, t, old, a, s)
         /\ call'[c].step \in {"lock", "compare", "token"}
         /\ call'[c].bearer \in kept \cup {None}
         /\ \A d \in Calls \ {c} : call'[d] = call[d]
<1>1. /\ kept \subseteq Session /\ \A t \in Session : t.user \in User
      /\ "lock" \in Steps("init")
      /\ \A op \in {"login", "dashboard login"} : "compare" \in Steps(op)
      /\ \A op \in {"logout", "create", "delete", "change", "reset"} : "token" \in Steps(op)
  BY DEF Typed, TypeOK, Session, Steps, Authenticating
<1> DEFINE Arg == [role : Role \cup {"none"}, pw : Password \cup {None}, by : Calls \cup {None}]
<1>2. /\ Absent \in Arg /\ \A p \in Password : Plain(p) \in Arg /\ Plain(p).pw = p
      /\ \A r \in Role, p \in Password : Fresh(c, r, p) \in Arg /\ Fresh(c, r, p) \in Account
                                        /\ Fresh(c, r, p).role = r
  BY DEF Absent, Plain, Fresh, Account
<1>3. ASSUME NEW op, NEW u, NEW t \in kept \cup {None}, NEW old, NEW a, NEW s,
             Proper(op, u, t, old, a, s), Start(c, op, u, t, old, a, s)
      PROVE  /\ Typed'
             /\ \E op1, u1, t1, old1, a1, s1 : Start(c, op1, u1, t1, old1, a1, s1)
             /\ call'[c].step \in {"lock", "compare", "token"}
             /\ call'[c].bearer \in kept \cup {None}
             /\ \A d \in Calls \ {c} : call'[d] = call[d]
  <2>1. s \in {"lock", "compare", "token"}
    BY <1>3 DEF Proper
  <2> QED
    BY <1>3, <2>1, StartTyped
<1>4. CASE StartInitAdmin(c)
  <2>1. PICK u \in User, p \in Password : Start(c, "init", u, None, None, Fresh(c, "admin", p), "lock")
    BY <1>4 DEF StartInitAdmin
  <2>2. Proper("init", u, None, None, Fresh(c, "admin", p), "lock")
    BY <1>1, <1>2 DEF Proper, Op, Role
  <2> QED
    BY <1>3, <2>1, <2>2
<1>5. CASE StartLogin(c)
  <2>1. PICK u \in User, p \in Password : Start(c, "login", u, None, None, Plain(p), "compare")
    BY <1>5 DEF StartLogin
  <2>2. Proper("login", u, None, None, Plain(p), "compare")
    BY <1>1, <1>2 DEF Proper, Op
  <2> QED
    BY <1>3, <2>1, <2>2
<1>6. CASE StartDashboardLogin(c)
  <2>1. PICK u \in User, p \in Password :
          Start(c, "dashboard login", u, None, None, Plain(p), "compare")
    BY <1>6 DEF StartDashboardLogin
  <2>2. Proper("dashboard login", u, None, None, Plain(p), "compare")
    BY <1>1, <1>2 DEF Proper, Op
  <2> QED
    BY <1>3, <2>1, <2>2
<1>7. CASE StartLogout(c)
  <2>1. PICK t \in kept : Start(c, "logout", t.user, t, None, Absent, "token")
    BY <1>7 DEF StartLogout
  <2>2. Proper("logout", t.user, t, None, Absent, "token")
    BY <1>1, <1>2 DEF Proper, Op
  <2> QED
    BY <1>3, <2>1, <2>2
<1>8. CASE StartCreateUser(c)
  <2>1. PICK t \in kept, u \in User, r \in Role, p \in Password :
          Start(c, "create", u, t, None, Fresh(c, r, p), "token")
    BY <1>8 DEF StartCreateUser
  <2>2. Proper("create", u, t, None, Fresh(c, r, p), "token")
    BY <1>1, <1>2 DEF Proper, Op
  <2> QED
    BY <1>3, <2>1, <2>2
<1>9. CASE StartDeleteUser(c)
  <2>1. PICK t \in kept, u \in User : Start(c, "delete", u, t, None, Absent, "token")
    BY <1>9 DEF StartDeleteUser
  <2>2. Proper("delete", u, t, None, Absent, "token")
    BY <1>1, <1>2 DEF Proper, Op
  <2> QED
    BY <1>3, <2>1, <2>2
<1>10. CASE StartChangePassword(c)
  <2>1. PICK t \in kept, old \in Password, new \in Password :
          Start(c, "change", t.user, t, old, Plain(new), "token")
    BY <1>10 DEF StartChangePassword
  <2>2. Plain(new) \in Arg /\ Plain(new).pw \in Password
    BY <1>2
  <2>3. Proper("change", t.user, t, old, Plain(new), "token")
    BY <1>1, <2>2 DEF Proper, Op
  <2> QED
    BY <1>3, <2>1, <2>3
<1>11. CASE StartResetPassword(c) \/ StartDashboardReset(c)
  <2>1. PICK t \in kept, new \in Password, u \in User :
          Start(c, "reset", u, t, None, Plain(new), "token")
    BY <1>11 DEF StartResetPassword, StartDashboardReset
  <2>2. Plain(new) \in Arg /\ Plain(new).pw \in Password
    BY <1>2
  <2>3. Proper("reset", u, t, None, Plain(new), "token")
    BY <1>1, <2>2 DEF Proper, Op
  <2> QED
    BY <1>3, <2>1, <2>3
<1> QED
  BY <1>4, <1>5, <1>6, <1>7, <1>8, <1>9, <1>10, <1>11 DEF Begin

\* A step of a call that does not hold the mutex leaves it alone.
LEMMA MuStays ==
  ASSUME Typed, NEW c \in Calls, Advances(c), UNCHANGED mu,
         ~At(c, "create"), ~At(c, "issue")
  PROVE  MuTyped' /\ (mu # None => At(mu, "create") \/ At(mu, "issue"))'
<1>1. mu # None =>
        mu \in Calls \ {c} /\ call[mu].op = "init" /\ call[mu].step \in {"create", "issue"}
  BY DEF Typed, TypeOK, MuTyped, At
<1>2. \A d \in Calls \ {c} : call'[d] = call[d]
  BY DEF Advances
<1> QED
  BY <1>1, <1>2 DEF MuTyped, At

\* A call that lets go of the mutex leaves it free, or with another call.
LEMMA MuFreed ==
  ASSUME Typed, NEW c \in Calls, \A d \in Calls \ {c} : call'[d] = call[d],
         mu' = IF mu = c THEN None ELSE mu
  PROVE  MuTyped' /\ (mu # None => At(mu, "create") \/ At(mu, "issue"))'
<1>1. mu # None =>
        mu \in Calls /\ call[mu].op = "init" /\ call[mu].step \in {"create", "issue"}
  BY DEF Typed, TypeOK, MuTyped, At
<1> QED
  BY <1>1 DEF MuTyped, At

\* The operations of an authenticated call.
LEMMA OperationSteps ==
  ASSUME NEW op \in Op, NEW s \in Authenticating, s \in Steps(op)
  PROVE  /\ Operation(op) \in Steps(op)
         /\ Operation(op) \in {"drop", "create", "keep", "find"}
         /\ "principal" \in Steps(op) /\ "reject" \in Steps(op)
         /\ Operation(op) = "create" => op = "create"
BY DEF Operation, Steps, Authenticating, Op

Resolve(c) ==
  \/ AuthenticateToken(c) \/ AuthenticateUser(c) \/ RejectToken(c) \/ Logout(c)
  \/ LoginCompare(c) \/ KeepToken(c) \/ ForgetToken(c) \/ RevokeTokens(c)
  \/ FindUser(c) \/ CountAdmins(c)

\* The steps that change no account.
LEMMA ResolveTyped ==
  ASSUME Typed, NEW c \in Calls, Resolve(c)
  PROVE  Typed' /\ Advances(c)
<1>1. call[c] \in Call /\ WellFormed(c) /\ CallsTyped /\ call[c].op \in Op \cup {"none"}
  BY DEF Typed, CallsTyped, Call
<1>2. call[c].step \in Steps(call[c].op)
  BY <1>1 DEF WellFormed
<1>3. CASE AuthenticateToken(c)
  <2>1. OnServer(c) /\ call[c].op \in Op /\ call[c].bearer \in Session
    BY <1>1, <1>2, <1>3 DEF AuthenticateToken, OnServer, Running, At, WellFormed, Steps, Authenticating
  <2>2. "principal" \in Steps(call[c].op)
    BY <1>2, <1>3, <2>1, OperationSteps DEF AuthenticateToken, At, Authenticating
  <2>3. CallsTyped' /\ Advances(c)
    BY <1>1, <1>3, <2>1, <2>2, GotoTyped, ReturnTyped DEF AuthenticateToken, OnServer
  <2> QED
    BY <1>3, <2>3, MuStays DEF AuthenticateToken, At, Typed, TypeOK, hist, clients
<1>4. CASE AuthenticateUser(c)
  <2>1. OnServer(c) /\ call[c].op \in Op /\ call[c].bearer \in Session
    BY <1>1, <1>2, <1>4 DEF AuthenticateUser, OnServer, Running, At, WellFormed, Steps, Authenticating
  <2>2. /\ "reject" \in Steps(call[c].op)
        /\ Operation(call[c].op) \in Steps(call[c].op)
        /\ Operation(call[c].op) \in {"drop", "create", "keep", "find"}
    BY <1>2, <1>4, <2>1, OperationSteps DEF AuthenticateUser, At, Authenticating
  <2>3. Goto(c, "reject") \/ Goto(c, Operation(call[c].op)) \/ Return(c)
    BY <1>4 DEF AuthenticateUser
  <2>4. CallsTyped' /\ Advances(c)
    BY <1>1, <2>1, <2>2, <2>3, GotoTyped, ReturnTyped DEF OnServer
  <2> QED
    BY <1>4, <2>4, MuStays DEF AuthenticateUser, At, Typed, TypeOK, hist, clients
<1>5. CASE RejectToken(c)
  <2>1. CallsTyped' /\ Advances(c)
    BY <1>1, <1>5, ReturnTyped DEF RejectToken, Running, At
  <2> QED
    BY <1>5, <2>1, MuStays DEF RejectToken, At, Typed, TypeOK, hist, clients
<1>6. CASE Logout(c)
  <2>1. OnServer(c) /\ call[c].op = "logout" /\ call[c].bearer \in Session
    BY <1>1, <1>2, <1>6 DEF Logout, OnServer, Running, At, WellFormed, Steps, Authenticating, Op
  <2>2. "forget" \in Steps(call[c].op)
    BY <2>1 DEF Steps
  <2>3. CallsTyped' /\ Advances(c)
    BY <1>1, <1>6, <2>1, <2>2, GotoTyped, ReturnTyped DEF Logout, OnServer
  <2> QED
    BY <1>6, <2>3, MuStays DEF Logout, At, Typed, TypeOK, hist, clients
<1>7. CASE LoginCompare(c)
  <2>1. OnServer(c) /\ call[c].op \in {"login", "dashboard login"} /\ call[c].user \in User
    BY <1>1, <1>2, <1>7 DEF LoginCompare, OnServer, Running, At, WellFormed, Steps, Authenticating, Op
  <2>2. "issue" \in Steps(call[c].op) /\ "issue" \notin Authenticating
    BY <2>1 DEF Steps, Authenticating
  <2>3. Exists(call[c].user) => users[call[c].user] \in Account
    BY <2>1 DEF Typed, TypeOK, Exists
  <2>4. CallsTyped' /\ Advances(c)
    BY <1>1, <1>7, <2>1, <2>2, <2>3, HoldTyped, ReturnTyped DEF LoginCompare, OnServer
  <2> QED
    BY <1>7, <2>4, MuStays DEF LoginCompare, At, Typed, TypeOK, hist, clients
<1>8. CASE KeepToken(c) \/ ForgetToken(c)
  <2>1. CallsTyped' /\ Advances(c)
    BY <1>1, <1>8, ReturnTyped DEF KeepToken, ForgetToken, Running, At
  <2>2. call[c].bearer \in Session /\ ~At(c, "create") /\ ~At(c, "issue")
    BY <1>1, <1>8 DEF KeepToken, ForgetToken, WellFormed, At
  <2> QED
    BY <1>8, <2>1, <2>2, MuStays DEF KeepToken, ForgetToken, Typed, TypeOK, hist, clients
<1>9. CASE RevokeTokens(c)
  <2>1. CallsTyped' /\ Advances(c)
    BY <1>1, <1>9, ReturnTyped DEF RevokeTokens, Running, At
  <2> QED
    BY <1>9, <2>1, MuStays DEF RevokeTokens, At, Typed, TypeOK, hist, clients
<1>10. CASE FindUser(c)
  <2>1. OnServer(c) /\ call[c].op \in {"delete", "change", "reset"} /\ call[c].user \in User
    BY <1>1, <1>2, <1>10 DEF FindUser, OnServer, Running, At, WellFormed, Steps, Authenticating, Op
  <2>2. /\ call[c].op = "delete" => "admins" \in Steps(call[c].op) /\ "remove" \in Steps(call[c].op)
        /\ call[c].op # "delete" => "save" \in Steps(call[c].op)
        /\ {"admins", "remove", "save"} \cap Authenticating = {}
    BY <2>1 DEF Steps, Authenticating
  <2>3. Exists(call[c].user) => users[call[c].user] \in Account
    BY <2>1 DEF Typed, TypeOK, Exists
  <2>4. \/ Return(c)
        \/ /\ Exists(call[c].user)
           /\ \/ call[c].op # "delete" /\ Hold(c, "save")
              \/ call[c].op = "delete" /\ Hold(c, "admins")
              \/ call[c].op = "delete" /\ Hold(c, "remove")
    BY <1>10 DEF FindUser
  <2>5. CallsTyped' /\ Advances(c)
    BY <1>1, <2>1, <2>2, <2>3, <2>4, HoldTyped, ReturnTyped DEF OnServer
  <2> QED
    BY <1>10, <2>5, MuStays DEF FindUser, At, Typed, TypeOK, hist, clients
<1>11. CASE CountAdmins(c)
  <2>1. OnServer(c) /\ call[c].op = "delete"
    BY <1>1, <1>2, <1>11 DEF CountAdmins, OnServer, Running, At, WellFormed, Steps, Authenticating, Op
  <2>2. "remove" \in Steps(call[c].op) /\ "remove" \notin Authenticating
    BY <2>1 DEF Steps, Authenticating
  <2>3. CallsTyped' /\ Advances(c)
    BY <1>1, <1>11, <2>1, <2>2, GotoTyped, ReturnTyped DEF CountAdmins, OnServer
  <2> QED
    BY <1>11, <2>3, MuStays DEF CountAdmins, At, Typed, TypeOK, hist, clients
<1> QED
  BY <1>3, <1>4, <1>5, <1>6, <1>7, <1>8, <1>9, <1>10, <1>11 DEF Resolve

Change(c) ==
  \/ IssueToken(c) \/ InitAdminCount(c) \/ CreateUser(c)
  \/ RemoveUser(c) \/ SavePassword(c) \/ StoreError(c)

\* The steps that issue a token, change an account or fail.
LEMMA ChangeTyped ==
  ASSUME Typed, NEW c \in Calls, Change(c)
  PROVE  Typed' /\ Advances(c)
<1>1. call[c] \in Call /\ WellFormed(c) /\ CallsTyped /\ call[c].op \in Op \cup {"none"}
  BY DEF Typed, CallsTyped, Call
<1>2. call[c].step \in Steps(call[c].op)
  BY <1>1 DEF WellFormed
<1>3. CASE IssueToken(c)
  <2>1. /\ OnServer(c) /\ call[c].op \in {"init", "login", "dashboard login"}
        /\ call[c].user \in User /\ call[c].held \in Account
    BY <1>1, <1>2, <1>3 DEF IssueToken, OnServer, Running, At, WellFormed, Steps, Authenticating, Op
  <2>2. PICK t \in Session, s \in {"token", "keep"} :
          /\ t = [id |-> c, user |-> call[c].user, seen |-> call[c].held]
          /\ s = IF call[c].op = "dashboard login" THEN "token" ELSE "keep"
    BY <2>1 DEF Session
  <2>3. call' = [call EXCEPT ![c].bearer = t, ![c].step = s] /\ tokens' = tokens \cup {t}
    BY <1>3, <2>2 DEF IssueToken
  <2>4. s \in Steps(call[c].op)
    BY <2>1, <2>2 DEF Steps, Authenticating
  <2>5. s \in AnyStep
    BY <1>1, <2>4 DEF AnyStep
  <2>6. /\ call'[c] = [call[c] EXCEPT !.bearer = t, !.step = s]
        /\ \A d \in Calls \ {c} : call'[d] = call[d]
    BY <1>1, <2>3 DEF CallsTyped
  <2>7. call'[c] \in Call /\ call' \in [Calls -> Call]
    <3>1. call'[c] \in Call
      BY <1>1, <2>5, <2>6 DEF Call
    <3> QED
      BY <1>1, <2>3, <2>6, <3>1 DEF CallsTyped
  <2>8. /\ call'[c].op = call[c].op /\ call'[c].user = call[c].user /\ call'[c].step = s
        /\ call'[c].arg = call[c].arg /\ call'[c].bearer = t
    BY <1>1, <2>6 DEF Call
  <2>9. WellFormed(c)'
    BY <1>1, <2>1, <2>4, <2>8 DEF WellFormed, Running, OnServer
  <2>10. \A d \in Calls \ {c} : WellFormed(d)'
    BY <1>1, <2>6 DEF CallsTyped, WellFormed, Running
  <2>11. CallsTyped' /\ Advances(c)
    BY <2>1, <2>6, <2>7, <2>8, <2>9, <2>10 DEF CallsTyped, Advances, OnServer, Running
  <2> QED
    BY <1>3, <2>3, <2>6, <2>11, MuFreed DEF IssueToken, Typed, TypeOK, hist, clients
<1>4. CASE InitAdminCount(c)
  <2>1. OnServer(c) /\ call[c].op = "init"
    BY <1>1, <1>2, <1>4 DEF InitAdminCount, OnServer, Running, At, WellFormed, Steps, Authenticating, Op
  <2>2. "create" \in Steps(call[c].op) /\ "create" \notin Authenticating
    BY <2>1 DEF Steps, Authenticating
  <2>3. CASE Goto(c, "create") /\ mu' = c
    <3>1. CallsTyped' /\ Advances(c) /\ call'[c].step = "create"
      BY <1>1, <2>1, <2>2, <2>3, GotoTyped
    <3>2. call'[c].op = "init"
      BY <2>1, <3>1, BlankTyped DEF Advances
    <3>3. MuTyped' /\ (mu # None => At(mu, "create") \/ At(mu, "issue"))'
      BY <2>3, <3>1, <3>2 DEF MuTyped, At
    <3> QED
      BY <1>4, <3>1, <3>3 DEF InitAdminCount, Typed, TypeOK, hist, clients
  <2>4. CASE Return(c) /\ UNCHANGED mu
    <3>1. CallsTyped' /\ Advances(c)
      BY <1>1, <2>1, <2>4, ReturnTyped DEF OnServer
    <3> QED
      BY <1>4, <2>4, <3>1, MuStays DEF InitAdminCount, At, Typed, TypeOK, hist, clients
  <2> QED
    BY <1>4, <2>3, <2>4 DEF InitAdminCount
<1>5. CASE CreateUser(c)
  <2>1. /\ OnServer(c) /\ call[c].op \in {"init", "create"}
        /\ call[c].user \in User /\ call[c].arg \in Account
    BY <1>1, <1>2, <1>5 DEF CreateUser, OnServer, Running, At, WellFormed, Steps, Authenticating, Op
  <2>2. mu = c => call[c].op = "init"
    BY UserAuthAssumption DEF Typed, MuTyped
  <2>3. CASE Return(c)
    <3>1. CallsTyped' /\ Advances(c) /\ \A d \in Calls \ {c} : call'[d] = call[d]
      BY <1>1, <2>1, <2>3, ReturnTyped DEF OnServer, Advances
    <3>2. call'[c].step = "done"
      BY <1>1, <2>1, <2>3, ReturnTyped, BlankTyped DEF OnServer
    <3>3. mu' = None \/ (mu' = mu /\ call[c].op # "init")
      <4>1. CASE Exists(call[c].user)
        BY <1>5, <4>1 DEF CreateUser
      <4>2. CASE ~Exists(call[c].user) /\ call[c].op = "init"
        <5>1. call' = [call EXCEPT ![c].step = "issue", ![c].held = call[c].arg]
          BY <1>5, <4>2 DEF CreateUser
        <5> QED
          BY <1>1, <3>2, <5>1 DEF CallsTyped, Call
      <4>3. CASE ~Exists(call[c].user) /\ call[c].op # "init"
        BY <1>5, <4>3 DEF CreateUser
      <4> QED
        BY <4>1, <4>2, <4>3
    <3>4. MuTyped' /\ (mu # None => At(mu, "create") \/ At(mu, "issue"))'
      BY <2>2, <3>1, <3>3 DEF Typed, TypeOK, MuTyped, At
    <3>5. users' \in [User -> Account \cup {Absent}] /\ inits' \subseteq Calls /\ bootstrap' \in BOOLEAN
      BY <1>5, <2>1 DEF CreateUser, Typed, TypeOK
    <3> QED
      BY <1>5, <3>1, <3>4, <3>5 DEF CreateUser, Typed, TypeOK, clients
  <2>4. CASE ~Return(c)
    <3>1. /\ call[c].op = "init" /\ UNCHANGED mu
          /\ call' = [call EXCEPT ![c].step = "issue", ![c].held = call[c].arg]
      BY <1>5, <2>4 DEF CreateUser
    <3>2. /\ call'[c] = [call[c] EXCEPT !.step = "issue", !.held = call[c].arg]
          /\ \A d \in Calls \ {c} : call'[d] = call[d]
      BY <1>1, <3>1 DEF CallsTyped
    <3>3. "issue" \in Steps(call[c].op) /\ "issue" \notin Authenticating
      BY <3>1 DEF Steps, Authenticating
    <3>4. "issue" \in Steps(call[c].op) /\ "issue" \in AnyStep /\ "issue" \notin Authenticating
      BY <1>1, <3>3 DEF AnyStep
    <3>5. call'[c] \in Call /\ call' \in [Calls -> Call]
      <4>1. call[c] \in Call /\ call[c].arg \in Account
        BY <1>1, <2>1 DEF CallsTyped
      <4>2. call'[c] \in Call
        BY <3>2, <3>4, <4>1 DEF Call
      <4> QED
        BY <1>1, <3>1, <3>2, <4>2 DEF CallsTyped
    <3>6. /\ call'[c].op = call[c].op /\ call'[c].user = call[c].user
          /\ call'[c].step = "issue" /\ call'[c].arg = call[c].arg
          /\ call'[c].held = call[c].arg
      BY <1>1, <3>2 DEF Call
    <3>7. WellFormed(c)'
      BY <1>1, <2>1, <3>4, <3>6 DEF WellFormed, Running, OnServer
    <3>8. \A d \in Calls \ {c} : WellFormed(d)'
      BY <1>1, <3>2 DEF CallsTyped, WellFormed, Running
    <3>9. CallsTyped' /\ Advances(c)
      BY <2>1, <3>2, <3>5, <3>6, <3>7, <3>8 DEF CallsTyped, Advances, OnServer, Running
    <3>10. MuTyped' /\ (mu # None => At(mu, "create") \/ At(mu, "issue"))'
      <4>1. call'[c].step = "issue" /\ \A d \in Calls \ {c} : call'[d].step = call[d].step
        BY <3>2, <3>6
      <4>2. mu' = mu /\ \A d \in Calls : call'[d].op = call[d].op
        BY <3>1, <3>2, <3>6
      <4>3. MuTyped'
        BY <4>2 DEF Typed, MuTyped
      <4> QED
        BY <4>1, <4>2, <4>3 DEF Typed, TypeOK, MuTyped, At
    <3>11. users' \in [User -> Account \cup {Absent}] /\ inits' \subseteq Calls /\ bootstrap' \in BOOLEAN
      BY <1>5, <2>1 DEF CreateUser, Typed, TypeOK
    <3> QED
      BY <1>5, <3>9, <3>10, <3>11 DEF CreateUser, Typed, TypeOK, clients
  <2> QED
    BY <2>3, <2>4
<1>6. CASE RemoveUser(c)
  <2>1. OnServer(c) /\ call[c].op = "delete" /\ call[c].user \in User
    BY <1>1, <1>2, <1>6 DEF RemoveUser, OnServer, Running, At, WellFormed, Steps, Authenticating, Op
  <2>2. "revoke" \in Steps(call[c].op) /\ "revoke" \notin Authenticating
    BY <2>1 DEF Steps, Authenticating
  <2>3. CallsTyped' /\ Advances(c)
    BY <1>1, <1>6, <2>1, <2>2, GotoTyped, ReturnTyped DEF RemoveUser, OnServer
  <2>4. users' \in [User -> Account \cup {Absent}]
    BY <1>6, <2>1 DEF RemoveUser, Typed, TypeOK
  <2> QED
    BY <1>6, <2>3, <2>4, MuStays DEF RemoveUser, At, Typed, TypeOK, hist, clients
<1>7. CASE SavePassword(c)
  <2>1. /\ OnServer(c) /\ call[c].op \in {"change", "reset"} /\ call[c].user \in User
        /\ call[c].held \in Account /\ call[c].arg.pw \in Password
    BY <1>1, <1>2, <1>7 DEF SavePassword, OnServer, Running, At, WellFormed, Steps, Authenticating, Op
  <2>2. "revoke" \in Steps(call[c].op) /\ "revoke" \notin Authenticating
    BY <2>1 DEF Steps, Authenticating
  <2>3. CallsTyped' /\ Advances(c)
    BY <1>1, <1>7, <2>1, <2>2, GotoTyped DEF SavePassword
  <2>4. [call[c].held EXCEPT !.pw = call[c].arg.pw] \in Account
    BY <2>1 DEF Account
  <2>5. users' \in [User -> Account \cup {Absent}]
    BY <1>7, <2>1, <2>4 DEF SavePassword, Typed, TypeOK
  <2> QED
    BY <1>7, <2>3, <2>5, MuStays DEF SavePassword, At, Typed, TypeOK, hist, clients
<1>8. CASE StoreError(c)
  <2>1. CallsTyped' /\ Advances(c) /\ \A d \in Calls \ {c} : call'[d] = call[d]
    <3>1. CASE At(c, "principal")
      <4>1. OnServer(c) /\ call[c].op \in Op /\ call[c].bearer \in Session
        BY <1>1, <1>2, <3>1 DEF OnServer, Running, At, WellFormed, Steps, Authenticating
      <4>2. "reject" \in Steps(call[c].op)
        BY <1>2, <3>1, <4>1, OperationSteps DEF At, Authenticating
      <4> QED
        BY <1>1, <1>8, <3>1, <4>1, <4>2, GotoTyped DEF StoreError, Advances
    <3>2. CASE ~At(c, "principal")
      BY <1>1, <1>8, <3>2, ReturnTyped DEF StoreError, Advances
    <3> QED
      BY <3>1, <3>2
  <2>2. unrevoked' \subseteq User
    BY <1>1, <1>8 DEF StoreError, Unrevoked, At, WellFormed, Running, Typed, TypeOK
  <2> QED
    BY <1>8, <2>1, <2>2, MuFreed DEF StoreError, Typed, TypeOK, clients
<1> QED
  BY <1>3, <1>4, <1>5, <1>6, <1>7, <1>8 DEF Change

\* A restart ends the calls on the server.
LEMMA RestartTyped ==
  ASSUME Typed, Restart
  PROVE  /\ Typed'
         /\ \A c \in Calls : ~OnServer(c)' /\ (call'[c] = NoCall("done") \/ call'[c] = call[c])
<1>1. \A c \in Calls : call'[c] = IF OnServer(c) THEN NoCall("done") ELSE call[c]
  BY DEF Restart
<1>2. call' \in [Calls -> Call]
  BY <1>1, BlankTyped DEF Restart, Typed, CallsTyped
<1>3. ASSUME NEW c \in Calls PROVE WellFormed(c)' /\ ~OnServer(c)'
  <2>1. CASE OnServer(c)
    <3>1. /\ call'[c].step = "done" /\ call'[c].op = "none" /\ call'[c].bearer = None
      BY <1>1, <2>1, BlankTyped
    <3> QED
      BY <3>1 DEF WellFormed, Steps, Authenticating, OnServer, Running
  <2>2. CASE ~OnServer(c)
    <3>1. call'[c] = call[c] /\ WellFormed(c)
      BY <1>1, <2>2 DEF Typed, CallsTyped
    <3>2. WellFormed(c)'
      BY <3>1 DEF WellFormed, Running
    <3>3. ~OnServer(c)'
      BY <2>2, <3>1 DEF OnServer, Running, At
    <3> QED
      BY <3>2, <3>3
  <2> QED
    BY <2>1, <2>2
<1>4. unrevoked' \subseteq User
  BY DEF Restart, Unrevoked, At, Typed, CallsTyped, WellFormed, Running, TypeOK
<1>5. TypeOK' /\ MuTyped'
  BY <1>4 DEF Restart, Typed, TypeOK, MuTyped, clients
<1> QED
  BY <1>1, <1>2, <1>3, <1>5 DEF Typed, CallsTyped

\* The state an earlier process left is well formed.
LEMMA InitTyped == Init => Typed
<1> SUFFICES ASSUME Init PROVE Typed
  OBVIOUS
<1>1. call \in [Calls -> Call] /\ \A c \in Calls : call[c] = NoCall("idle")
  BY BlankTyped DEF Init
<1>2. \A c \in Calls : WellFormed(c)
  BY <1>1, BlankTyped DEF WellFormed, Steps, Running, Authenticating
<1>3. users \in [User -> Account \cup {Absent}]
  BY DEF Init, Account
<1>4. tokens \subseteq Session
  BY <1>3 DEF Init, Session, Exists
<1> QED
  BY <1>1, <1>2, <1>3, <1>4 DEF Init, Typed, TypeOK, CallsTyped, MuTyped

\* An expiry leaves everything but the sessions.
LEMMA ExpireTyped ==
  ASSUME Typed, NEW t \in tokens, Expire(t)
  PROVE  Typed' /\ UNCHANGED <<call, users>>
BY DEF Expire, Typed, TypeOK, CallsTyped, MuTyped, WellFormed, Running, At, hist, clients

-----------------------------------------------------------------------------
(***************************************************************************)
(* A client that logged out has no session left.                           *)
(***************************************************************************)

\* A step that issues no token: nobody sees a new session, and one is given up
\* only after it is gone from the store.
LEMMA QuietLeft ==
  ASSUME Typed, LeftInv, NEW c \in Calls, Advances(c),
         tokens' \subseteq tokens, kept' \subseteq kept \cup {call[c].bearer},
         left' = left \/ (At(c, "forget") /\ left' = left \cup {call[c].bearer}),
         Running(c)' => /\ call'[c].bearer = call[c].bearer
                        /\ Unissued(c)' => Unissued(c)
                        /\ At(c, "forget")' => call[c].bearer \notin tokens'
  PROVE  LeftInv'
<1>1. /\ \A d \in Calls \ {c} : call'[d] = call[d]
      /\ Running(c) /\ (call'[c].step = "done" \/ Running(c)')
  BY BlankTyped DEF Advances
<1>2. Seen' \subseteq Seen
  BY <1>1 DEF Seen, Running
<1>3. \A d \in Calls : Unissued(d)' => Unissued(d)
  BY <1>1 DEF Unissued, At, Running
<1>4. \A d \in Calls : At(d, "forget")' => call'[d].bearer \notin tokens'
  BY <1>1 DEF LeftInv, At, Running
<1>5. (left \cap tokens = {})'
  BY DEF LeftInv, LogoutEndsSession
<1> QED
  BY <1>2, <1>3, <1>4, <1>5 DEF LeftInv, LogoutEndsSession

\* A token that is issued is new: nobody has seen it, so nobody gave it up.
LEMMA IssueLeft ==
  ASSUME Typed, LeftInv, NEW c \in Calls, IssueToken(c), Advances(c)
  PROVE  LeftInv'
<1>1. PICK t : t = [id |-> c, user |-> call[c].user, seen |-> call[c].held]
  OBVIOUS
<1>2. /\ tokens' = tokens \cup {t} /\ UNCHANGED <<kept, left>> /\ t.id = c
      /\ call'[c].bearer = t /\ call'[c].step \in {"token", "keep"}
      /\ \A d \in Calls \ {c} : call'[d] = call[d]
  <2>1. tokens' = tokens \cup {t} /\ UNCHANGED <<kept, left>> /\ t.id = c
    BY <1>1 DEF IssueToken, clients
  <2>2. call'[c].bearer = t /\ call'[c].step \in {"token", "keep"}
    BY <1>1 DEF IssueToken, Typed, CallsTyped, Call
  <2> QED
    BY <2>1, <2>2 DEF Advances
<1>3. Unissued(c) /\ Running(c) /\ call[c].step = "issue"
  BY DEF IssueToken, Unissued, At, Running
<1>4. Seen' \subseteq Seen \cup {t}
  BY <1>2, <1>3 DEF Seen, Running
<1>5. \A d \in Calls : Unissued(d)' => Unissued(d) /\ d # c
  BY <1>2 DEF Unissued, At
<1>6. \A d \in Calls : Unissued(d)' => \A x \in Seen' \cap Session : x.id # d
  BY <1>2, <1>4, <1>5 DEF LeftInv
<1>7. t \in Session
  BY <1>1, <1>3 DEF Typed, CallsTyped, WellFormed, Session
<1>8. \A x \in left : x # t
  BY <1>2, <1>3, <1>7 DEF LeftInv, Seen, Typed, TypeOK
<1>9. \A d \in Calls : At(d, "forget")' => call'[d].bearer \notin tokens'
  <2> SUFFICES ASSUME NEW d \in Calls, At(d, "forget")' PROVE call'[d].bearer \notin tokens'
    OBVIOUS
  <2>1. d # c /\ call'[d] = call[d] /\ At(d, "forget")
    BY <1>2 DEF At
  <2>2. call[d].bearer \notin tokens /\ call[d].bearer \in Seen /\ call[d].bearer \in Session
    BY <2>1 DEF LeftInv, Seen, At, Running, Typed, CallsTyped, WellFormed
  <2>3. call[d].bearer # t
    BY <1>2, <1>3, <1>7, <2>2 DEF LeftInv
  <2> QED
    BY <1>2, <2>1, <2>2, <2>3
<1> QED
  BY <1>2, <1>6, <1>8, <1>9 DEF LeftInv, LogoutEndsSession

\* Every step keeps the invariant of logouts.
LEMMA NextLeft ==
  ASSUME Typed, LeftInv, Next PROVE LeftInv'
<1>1. CASE Restart
  <2>1. /\ UNCHANGED <<tokens, kept, left>>
        /\ \A c \in Calls : call'[c] = NoCall("done") \/ call'[c] = call[c]
    BY <1>1, RestartTyped DEF Restart, clients
  <2>2. Seen' \subseteq Seen
    BY <2>1, BlankTyped DEF Seen, Running
  <2>3. \A c \in Calls : (Unissued(c)' => Unissued(c)) /\ (At(c, "forget")' => call'[c] = call[c])
    BY <2>1, BlankTyped DEF Unissued, At
  <2> QED
    BY <2>1, <2>2, <2>3 DEF LeftInv, LogoutEndsSession, At
<1>2. ASSUME NEW t \in tokens, Expire(t) PROVE LeftInv'
  BY <1>2 DEF Expire, LeftInv, LogoutEndsSession, Seen, Unissued, At, Running, clients
<1>3. ASSUME NEW c \in Calls, Begin(c) PROVE LeftInv'
  <2>1. /\ UNCHANGED <<tokens, kept, left>> /\ At(c, "idle")
        /\ call'[c].step \in {"lock", "compare", "token"} /\ call'[c].bearer \in kept \cup {None}
        /\ \A d \in Calls \ {c} : call'[d] = call[d]
    BY <1>3, BeginTyped DEF Start, clients
  <2>2. Seen' \subseteq Seen \cup {None}
    BY <2>1 DEF Seen, Running
  <2>3. \A d \in Calls : (Unissued(d)' => Unissued(d)) /\ (At(d, "forget")' => call'[d] = call[d])
    BY <2>1 DEF Unissued, At
  <2>4. ASSUME NEW d \in Calls, Unissued(d)', NEW t \in Seen' \cap Session PROVE t.id # d
    <3>1. CASE t \in Seen
      BY <2>3, <2>4, <3>1 DEF LeftInv
    <3>2. CASE t = None
      BY <3>2, <2>4, UserAuthAssumption
    <3> QED
      BY <2>2, <3>1, <3>2
  <2> QED
    BY <2>1, <2>3, <2>4 DEF LeftInv, LogoutEndsSession, At
<1>4. ASSUME NEW c \in Calls, Resolve(c) PROVE LeftInv'
  <2>1. Advances(c) /\ call[c] \in Call /\ CallsTyped
    BY <1>4, ResolveTyped DEF Typed, CallsTyped
  <2>2. /\ tokens' \subseteq tokens /\ kept' \subseteq kept \cup {call[c].bearer}
        /\ left' = left \/ (At(c, "forget") /\ left' = left \cup {call[c].bearer})
    BY <1>4 DEF Resolve, AuthenticateToken, AuthenticateUser, RejectToken, Logout, LoginCompare,
                KeepToken, ForgetToken, RevokeTokens, FindUser, CountAdmins, clients
  <2>3. CASE ~Running(c)'
    BY <2>1, <2>2, <2>3, QuietLeft
  <2>4. CASE Running(c)'
    <3>1. ~Return(c)
      BY <2>1, <2>4, BlankTyped DEF Return, CallsTyped, Running
    <3>2. call'[c].bearer = call[c].bearer
      BY <1>4, <2>1, <3>1 DEF Resolve, AuthenticateToken, AuthenticateUser, RejectToken, Logout,
           LoginCompare, KeepToken, ForgetToken, RevokeTokens, FindUser, CountAdmins, Goto, Hold,
           CallsTyped, Call
    <3>3. /\ At(c, "forget")' => call[c].bearer \notin tokens'
          /\ Unissued(c)' => Unissued(c)
      <4>1. CASE AuthenticateUser(c)
        <5>1. call[c].op \in Op /\ call[c].step \in Steps(call[c].op)
          BY <2>1, <4>1 DEF AuthenticateUser, CallsTyped, WellFormed, Steps, Call, At
        <5>2. /\ Operation(call[c].op) \in {"drop", "create", "keep", "find"}
              /\ Operation(call[c].op) = "create" => call[c].op = "create"
          BY <4>1, <5>1, OperationSteps DEF AuthenticateUser, At, Authenticating
        <5>3. /\ call'[c].step \in {"reject", Operation(call[c].op)}
              /\ call'[c].op = call[c].op
          BY <2>1, <3>1, <4>1 DEF AuthenticateUser, Goto, CallsTyped, Call
        <5> QED
          BY <5>2, <5>3 DEF At, Unissued
      <4>2. CASE ~AuthenticateUser(c)
        BY <1>4, <2>1, <3>1, <4>2
           DEF Resolve, AuthenticateToken, RejectToken, Logout, LoginCompare, KeepToken,
               ForgetToken, RevokeTokens, FindUser, CountAdmins, Goto, Hold, CallsTyped, Call,
               At, Unissued
      <4> QED
        BY <4>1, <4>2
    <3> QED
      BY <2>1, <2>2, <3>2, <3>3, QuietLeft
  <2> QED
    BY <2>3, <2>4
<1>5. ASSUME NEW c \in Calls, Change(c) PROVE LeftInv'
  <2>1. Advances(c) /\ call[c] \in Call /\ CallsTyped
    BY <1>5, ChangeTyped DEF Typed, CallsTyped
  <2>2. CASE IssueToken(c)
    BY <2>1, <2>2, IssueLeft
  <2>3. CASE ~IssueToken(c)
    <3>1. UNCHANGED <<tokens, kept, left>>
      BY <1>5, <2>3 DEF Change, InitAdminCount, CreateUser, RemoveUser, SavePassword, StoreError,
                        clients
    <3>2. CASE ~Running(c)'
      BY <2>1, <3>1, <3>2, QuietLeft
    <3>3. CASE Running(c)'
      <4>1. ~Return(c)
        BY <2>1, <3>3, BlankTyped DEF Return, CallsTyped, Running
      <4>2. /\ call'[c].bearer = call[c].bearer /\ ~At(c, "forget")'
            /\ Unissued(c)' => Unissued(c)
        BY <1>5, <2>1, <2>3, <4>1 DEF Change, InitAdminCount, CreateUser, RemoveUser, SavePassword,
             StoreError, Goto, CallsTyped, Call, At, Unissued
      <4> QED
        BY <2>1, <3>1, <4>2, QuietLeft
    <3> QED
      BY <3>2, <3>3
  <2> QED
    BY <2>2, <2>3
<1> QED
  BY <1>1, <1>2, <1>3, <1>4, <1>5 DEF Next, Begin, Resolve, Change

-----------------------------------------------------------------------------
(***************************************************************************)
(* What the steps of a call do to the control plane.                       *)
(***************************************************************************)

\* The steps that change no account: which ones go on to which.
LEMMA ResolveEffect ==
  ASSUME Typed, NEW c \in Calls, Resolve(c)
  PROVE  /\ Typed' /\ Advances(c) /\ UNCHANGED <<users, bootstrap, mu, hist, raced, deletesRaced>>
         /\ tokens' \subseteq tokens
         /\ At(c, "save")' => FindUser(c)
         /\ At(c, "remove")' => FindUser(c) \/ CountAdmins(c)
         /\ At(c, "issue")' => LoginCompare(c)
         /\ At(c, "revoke") => RevokeTokens(c)
         /\ At(c, "create")' => call[c].op = "create" /\ \E u \in User : Exists(u)
         /\ ~At(c, "revoke")'
<1>1. Typed' /\ Advances(c) /\ call[c] \in Call /\ CallsTyped
  BY ResolveTyped DEF Typed, CallsTyped
<1>2. /\ UNCHANGED <<users, bootstrap, mu, hist, raced, deletesRaced>> /\ tokens' \subseteq tokens
      /\ At(c, "revoke") => RevokeTokens(c)
  BY DEF Resolve, AuthenticateToken, AuthenticateUser, RejectToken, Logout, LoginCompare,
         KeepToken, ForgetToken, RevokeTokens, FindUser, CountAdmins, At
<1>3. CASE call'[c].step = "done"
  BY <1>1, <1>2, <1>3 DEF At
<1>4. CASE call'[c].step # "done"
  <2>1. ~Return(c)
    BY <1>1, <1>4, BlankTyped DEF Return, CallsTyped
  <2>2. CASE AuthenticateUser(c)
    <3>1. /\ call[c].op \in Op /\ call[c].step \in Steps(call[c].op)
          /\ call[c].bearer.user \in User
      BY <1>1, <2>2
         DEF AuthenticateUser, CallsTyped, WellFormed, Steps, Call, At, Authenticating, Session
    <3>2. /\ Operation(call[c].op) \in {"drop", "create", "keep", "find"}
          /\ Operation(call[c].op) = "create" => call[c].op = "create"
      BY <2>2, <3>1, OperationSteps DEF AuthenticateUser, At, Authenticating
    <3>3. \/ call'[c].step = "reject"
          \/ call'[c].step = Operation(call[c].op) /\ Exists(call[c].bearer.user)
      BY <1>1, <2>1, <2>2 DEF AuthenticateUser, Goto, CallsTyped, Call
    <3> QED
      BY <1>1, <1>2, <3>1, <3>2, <3>3 DEF At
  <2>3. CASE ~AuthenticateUser(c)
    <3>1. /\ At(c, "save")' => FindUser(c)
          /\ At(c, "remove")' => FindUser(c) \/ CountAdmins(c)
          /\ At(c, "issue")' => LoginCompare(c)
          /\ ~At(c, "create")' /\ ~At(c, "revoke")'
      BY <1>1, <2>1, <2>3
         DEF Resolve, AuthenticateToken, RejectToken, Logout, LoginCompare, KeepToken,
             ForgetToken, RevokeTokens, FindUser, CountAdmins, Goto, Hold, CallsTyped, Call, At
    <3> QED
      BY <1>1, <1>2, <3>1
  <2> QED
    BY <2>2, <2>3
<1> QED
  BY <1>3, <1>4

\* The account a FindUser goes on with.
LEMMA FindEffect ==
  ASSUME Typed, NEW c \in Calls, FindUser(c), call'[c].step # "done"
  PROVE  /\ call[c].user \in User /\ Exists(call[c].user)
         /\ call'[c].held = users[call[c].user]
         /\ At(c, "remove")' => users[call[c].user].role # "admin" /\ call[c].op = "delete"
         /\ At(c, "save")' => call[c].op \in {"change", "reset"}
<1>1. call[c] \in Call /\ CallsTyped /\ WellFormed(c)
  BY DEF Typed, CallsTyped
<1>2. ~Return(c)
  BY <1>1, BlankTyped DEF Return, CallsTyped
<1>3. call[c].user \in User /\ call[c].op \in {"delete", "change", "reset"}
  BY <1>1 DEF FindUser, Running, At, WellFormed, Steps, Authenticating, Op, Call
<1> QED
  BY <1>1, <1>2, <1>3 DEF FindUser, Hold, CallsTyped, Call, At

\* The steps that issue a token, change an account or fail: where they go.
LEMMA ChangeEffect ==
  ASSUME Typed, NEW c \in Calls, Change(c)
  PROVE  /\ Typed' /\ Advances(c) /\ UNCHANGED <<raced, deletesRaced>>
         /\ call'[c].step \notin {"save", "remove"}
         /\ At(c, "create")' => InitAdminCount(c)
         /\ At(c, "issue")' => CreateUser(c)
         /\ At(c, "revoke") => StoreError(c)
         /\ At(c, "revoke")' => RemoveUser(c) \/ SavePassword(c)
<1>1. Typed' /\ Advances(c) /\ call[c] \in Call /\ CallsTyped
  BY ChangeTyped DEF Typed, CallsTyped
<1>2. UNCHANGED <<raced, deletesRaced>> /\ (At(c, "revoke") => StoreError(c))
  BY DEF Change, IssueToken, InitAdminCount, CreateUser, RemoveUser, SavePassword, StoreError, At
<1>3. CASE call'[c].step = "done"
  BY <1>1, <1>2, <1>3 DEF At
<1>4. CASE call'[c].step # "done"
  <2>1. ~Return(c)
    BY <1>1, <1>4, BlankTyped DEF Return, CallsTyped
  <2>2. CASE IssueToken(c)
    BY <1>1, <1>2, <2>2 DEF IssueToken, At, CallsTyped, Call
  <2>3. CASE InitAdminCount(c)
    BY <1>1, <1>2, <2>1, <2>3 DEF InitAdminCount, Goto, At, CallsTyped, Call
  <2>4. CASE CreateUser(c)
    <3>1. call'[c].step = "issue"
      BY <1>1, <2>1, <2>4 DEF CreateUser, CallsTyped, Call
    <3> QED
      BY <1>1, <1>2, <2>4, <3>1 DEF At
  <2>5. CASE RemoveUser(c)
    BY <1>1, <1>2, <2>1, <2>5 DEF RemoveUser, Goto, At, CallsTyped, Call
  <2>6. CASE SavePassword(c)
    BY <1>1, <1>2, <2>6 DEF SavePassword, Goto, At, CallsTyped, Call
  <2>7. CASE StoreError(c)
    BY <1>1, <1>2, <2>1, <2>7 DEF StoreError, Goto, At, CallsTyped, Call
  <2> QED
    BY <2>2, <2>3, <2>4, <2>5, <2>6, <2>7 DEF Change
<1> QED
  BY <1>3, <1>4

\* The overlaps of the calls in flight stay on record.
LEMMA NextRecorded ==
  ASSUME Typed, Recorded, Next PROVE Recorded'
<1>1. CASE Restart
  BY <1>1, RestartTyped DEF Recorded
<1>2. ASSUME NEW t \in tokens, Expire(t) PROVE Recorded'
  BY <1>2 DEF Expire, Recorded, OnServer, Running, At, Undercuts
<1>3. ASSUME NEW c \in Calls, Begin(c) PROVE Recorded'
  <2>1. PICK op, u, x, old, a, s : Start(c, op, u, x, old, a, s)
    BY <1>3, BeginTyped
  <2>2. /\ call'[c].op = op /\ call'[c].user = u /\ ~OnServer(c)
        /\ \A d \in Calls \ {c} : call'[d] = call[d]
    BY <2>1 DEF Start, Typed, CallsTyped, OnServer, Running, At
  <2>3. /\ raced' = raced \cup {y \in {u} : \E d \in Calls : OnServer(d) /\ call[d].user = y}
        /\ deletesRaced' = (deletesRaced \/ \E d \in Calls : Undercuts(d, op, u))
    BY <2>1 DEF Start
  <2> SUFFICES ASSUME NEW d \in Calls, NEW e \in Calls, d # e, OnServer(d)'
               PROVE  /\ Undercuts(e, call[d].op, call[d].user)' => deletesRaced'
                      /\ OnServer(e)' /\ call'[e].user = call'[d].user => call'[d].user \in raced'
    BY DEF Recorded
  <2>4. CASE d # c /\ e # c
    BY <2>2, <2>3, <2>4 DEF Recorded, OnServer, Running, At, Undercuts
  <2>5. CASE d = c
    BY <2>2, <2>3, <2>5 DEF OnServer, Running, At, Undercuts
  <2>6. CASE e = c
    BY <2>2, <2>3, <2>6 DEF OnServer, Running, At, Undercuts
  <2> QED
    BY <2>4, <2>5, <2>6
<1>4. ASSUME NEW c \in Calls, Resolve(c) \/ Change(c) PROVE Recorded'
  <2>1. Advances(c) /\ UNCHANGED <<raced, deletesRaced>>
    BY <1>4, ResolveEffect, ChangeEffect
  <2>2. \A d \in Calls : OnServer(d)' =>
          OnServer(d) /\ call'[d].op = call[d].op /\ call'[d].user = call[d].user
    BY <2>1, BlankTyped DEF Advances, OnServer, Running, At
  <2> QED
    BY <2>1, <2>2 DEF Recorded, Undercuts
<1> QED
  BY <1>1, <1>2, <1>3, <1>4 DEF Next, Begin, Resolve, Change

-----------------------------------------------------------------------------
(***************************************************************************)
(* The bootstrap token and the administrators.                             *)
(***************************************************************************)

\* A step that changes no account and starts no save or creation.
LEMMA QuietBoot ==
  ASSUME Typed, BootInv, NEW c \in Calls, Advances(c), UNCHANGED <<users, bootstrap>>,
         mu' = mu \/ (mu = c /\ mu' = None),
         At(c, "save")' => ~bootstrap,
         At(c, "create")' => ~bootstrap /\ call[c].op # "init"
  PROVE  BootInv'
<1>1. \A d \in Calls \ {c} : call'[d] = call[d]
  BY DEF Advances
<1>2. At(c, "create")' => call'[c].op # "init"
  BY BlankTyped DEF Advances, At
<1> QED
  BY <1>1, <1>2 DEF BootInv, At, Exists

\* Every step keeps the invariant of the bootstrap token.
LEMMA NextBoot ==
  ASSUME Typed, BootInv, Next PROVE BootInv'
<1>1. CASE Restart
  <2>1. \A c \in Calls : ~At(c, "save")' /\ ~At(c, "create")'
    BY <1>1, RestartTyped DEF OnServer, Running, At
  <2> QED
    BY <1>1, <2>1 DEF Restart, BootInv, Exists
<1>2. ASSUME NEW t \in tokens, Expire(t) PROVE BootInv'
  BY <1>2 DEF Expire, BootInv, At, Exists
<1>3. ASSUME NEW c \in Calls, Begin(c) PROVE BootInv'
  <2>1. /\ UNCHANGED <<users, bootstrap, mu>> /\ call'[c].step \in {"lock", "compare", "token"}
        /\ \A d \in Calls \ {c} : call'[d] = call[d]
    BY <1>3, BeginTyped DEF Start
  <2> QED
    BY <2>1 DEF BootInv, At, Exists
<1>4. ASSUME NEW c \in Calls, Resolve(c) PROVE BootInv'
  <2>1. At(c, "save")' => ~bootstrap
    BY <1>4, ResolveEffect, FindEffect DEF BootInv, At
  <2>2. At(c, "create")' => ~bootstrap /\ call[c].op # "init"
    BY <1>4, ResolveEffect DEF BootInv
  <2> QED
    BY <1>4, <2>1, <2>2, ResolveEffect, QuietBoot
<1>5. ASSUME NEW c \in Calls, Change(c) PROVE BootInv'
  <2>1. /\ Advances(c) /\ call'[c].step # "save"
        /\ At(c, "create")' => InitAdminCount(c)
    BY <1>5, ChangeEffect
  <2>2. CASE IssueToken(c) \/ StoreError(c)
    <3>1. UNCHANGED <<users, bootstrap>> /\ (mu' = mu \/ (mu = c /\ mu' = None)) /\ ~At(c, "create")'
      <4>1. CASE IssueToken(c)
        <5>1. call'[c].step \in {"token", "keep"}
          BY <4>1 DEF IssueToken, Typed, CallsTyped, Call
        <5> QED
          BY <4>1, <5>1 DEF IssueToken, At
      <4>2. CASE StoreError(c)
        <5>1. call'[c].step \in {"reject", "done"}
          BY <4>2, BlankTyped DEF StoreError, Goto, Return, Typed, CallsTyped, Call
        <5> QED
          BY <4>2, <5>1 DEF StoreError, At
      <4> QED
        BY <2>2, <4>1, <4>2
    <3> QED
      BY <2>1, <3>1, QuietBoot DEF At
  <2>3. CASE InitAdminCount(c)
    <3>1. CASE Return(c)
      <4>1. UNCHANGED <<users, bootstrap, mu>> /\ ~At(c, "create")'
        BY <2>1, <2>3, <3>1, ReturnTyped, BlankTyped
           DEF InitAdminCount, Advances, At, Goto, Typed, CallsTyped, Call
      <4> QED
        BY <2>1, <4>1, QuietBoot DEF At
    <3>2. CASE ~Return(c)
      <4>1. mu = None /\ mu' = c /\ bootstrap /\ UNCHANGED <<users, bootstrap>>
        BY <2>3, <3>2 DEF InitAdminCount
      <4>2. \A d \in Calls \ {c} : call'[d] = call[d]
        BY <2>1 DEF Advances
      <4>3. \A d \in Calls : ~(At(d, "create") /\ call[d].op = "init")
        BY <4>1, UserAuthAssumption DEF BootInv
      <4>4. call[c].op = "init" /\ call'[c].op = "init" /\ call'[c].step = "create"
        <5>1. Goto(c, "create") /\ call[c].step = "lock" /\ Running(c)
          BY <2>3, <3>2 DEF InitAdminCount, At, Running
        <5>2. call[c].op = "init"
          BY <5>1 DEF Typed, CallsTyped, Call, WellFormed, Steps, Authenticating, Op
        <5> QED
          BY <5>1, <5>2 DEF Goto, Typed, CallsTyped, Call
      <4> QED
        BY <2>1, <4>1, <4>2, <4>3, <4>4 DEF BootInv, At, Exists
    <3> QED
      BY <3>1, <3>2
  <2>4. CASE CreateUser(c)
    <3>1. ~At(c, "create")' /\ \A d \in Calls \ {c} : call'[d] = call[d]
      BY <2>1, <2>4 DEF Advances, InitAdminCount, CreateUser, At
    <3>2. CASE call[c].op = "init"
      <4>1. bootstrap /\ mu = c /\ ~Exists(call[c].user)
        BY <2>4, <3>2 DEF CreateUser, BootInv, Typed, CallsTyped, WellFormed, Running, At
      <4>2. bootstrap' = FALSE
        BY <2>4, <3>2, <4>1 DEF CreateUser
      <4>3. \A d \in Calls \ {c} : ~(At(d, "create") /\ call[d].op = "init")
        BY <4>1 DEF BootInv
      <4> QED
        BY <3>1, <4>2, <4>3 DEF BootInv, At
    <3>3. CASE call[c].op # "init"
      <4>1. ~bootstrap /\ UNCHANGED <<bootstrap, mu>>
        BY <2>4, <3>3 DEF CreateUser, BootInv
      <4> QED
        BY <3>1, <4>1 DEF BootInv, At
    <3> QED
      BY <3>2, <3>3
  <2>5. CASE RemoveUser(c)
    <3>1. ~At(c, "create")' /\ \A d \in Calls \ {c} : call'[d] = call[d]
      BY <2>1, <2>5 DEF Advances, InitAdminCount, RemoveUser, At
    <3>2. \A u \in User : Exists(u)' => Exists(u)
      BY <2>5 DEF RemoveUser, Exists, Typed, TypeOK
    <3> QED
      BY <2>1, <2>5, <3>1, <3>2 DEF RemoveUser, BootInv, At
  <2>6. CASE SavePassword(c)
    <3>1. ~At(c, "create")' /\ \A d \in Calls \ {c} : call'[d] = call[d]
      BY <2>1, <2>6 DEF Advances, InitAdminCount, SavePassword, At
    <3>2. ~bootstrap /\ UNCHANGED <<bootstrap, mu>>
      BY <2>6 DEF SavePassword, BootInv
    <3> QED
      BY <2>1, <3>1, <3>2 DEF BootInv, At
  <2> QED
    BY <1>5, <2>2, <2>3, <2>4, <2>5, <2>6 DEF Change
<1> QED
  BY <1>1, <1>2, <1>3, <1>4, <1>5 DEF Next, Begin, Resolve, Change

\* Whoever is the administrator of a state in which roles stay.
LEMMA AdminsKept ==
  ASSUME \A u \in User : users'[u].role = users[u].role
  PROVE  Admins' = Admins
BY DEF Admins

\* A step that changes no account and starts no save or removal.
LEMMA QuietAdmin ==
  ASSUME Typed, AdminInv, NEW c \in Calls, \A d \in Calls \ {c} : call'[d] = call[d],
         UNCHANGED <<users, bootstrap, inits>>, deletesRaced => deletesRaced',
         ~deletesRaced /\ At(c, "remove")' => Admins \ {call'[c].user} # {},
         ~deletesRaced /\ At(c, "save")' => users[call'[c].user].role = call'[c].held.role
  PROVE  AdminInv'
<1>1. Admins' = Admins
  BY DEF Admins
<1> QED
  BY <1>1 DEF AdminInv, SingleInit, At

\* Two administrators are more than the one to be deleted.
LEMMA TwoAdmins ==
  ASSUME IsFiniteSet(User), ~(Cardinality(Admins) <= 1), NEW u
  PROVE  Admins \ {u} # {}
<1> SUFFICES ASSUME Admins \ {u} = {} PROVE FALSE
  OBVIOUS
<1>1. Admins \subseteq {u}
  OBVIOUS
<1>2. IsFiniteSet({u}) /\ Cardinality({u}) = 1
  BY FS_Singleton
<1>3. Cardinality(Admins) <= 1
  BY <1>1, <1>2, FS_Subset
<1> QED
  BY <1>3

\* Every step keeps the invariant of the administrators.
LEMMA NextAdmin ==
  ASSUME Typed, BootInv, Recorded, AdminInv, Next PROVE AdminInv'
<1>1. CASE Restart
  <2>1. \A c \in Calls : ~At(c, "save")' /\ ~At(c, "remove")'
    BY <1>1, RestartTyped DEF OnServer, Running, At
  <2>2. UNCHANGED <<users, inits, deletesRaced>> /\ bootstrap' = \A u \in User : ~Exists(u)
    BY <1>1 DEF Restart
  <2>3. Admins' = Admins
    BY <2>2 DEF Admins
  <2>4. ~bootstrap' /\ bootstrap => FALSE
    BY <2>2 DEF BootInv
  <2> QED
    BY <2>1, <2>2, <2>3, <2>4 DEF AdminInv, SingleInit
<1>2. ASSUME NEW t \in tokens, Expire(t) PROVE AdminInv'
  BY <1>2 DEF Expire, AdminInv, SingleInit, Admins, At, hist
<1>3. ASSUME NEW c \in Calls, Begin(c) PROVE AdminInv'
  <2>1. /\ UNCHANGED <<users, bootstrap, inits>> /\ call'[c].step \in {"lock", "compare", "token"}
        /\ deletesRaced => deletesRaced'
        /\ \A d \in Calls \ {c} : call'[d] = call[d]
    BY <1>3, BeginTyped DEF Start, hist
  <2> QED
    BY <2>1, QuietAdmin DEF At
<1>4. ASSUME NEW c \in Calls, Resolve(c) PROVE AdminInv'
  <2>1. /\ Typed' /\ Advances(c) /\ UNCHANGED <<users, bootstrap, mu, hist, raced, deletesRaced>>
        /\ At(c, "save")' => FindUser(c)
        /\ At(c, "remove")' => FindUser(c) \/ CountAdmins(c)
    BY <1>4, ResolveEffect
  <2>2. ASSUME ~deletesRaced, At(c, "remove")' PROVE Admins \ {call'[c].user} # {}
    <3>1. call'[c].user = call[c].user
      BY <2>1, <2>2, BlankTyped DEF Advances, At
    <3>2. CASE FindUser(c)
      <4>1. Exists(call[c].user) /\ call[c].user \in User /\ users[call[c].user].role # "admin"
        BY <2>2, <3>2, FindEffect DEF At
      <4>2. Admins # {}
        BY <2>2, <4>1 DEF BootInv, AdminInv
      <4> QED
        BY <3>1, <4>1, <4>2 DEF Admins
    <3>3. CASE CountAdmins(c)
      <4>1. ~Return(c)
        BY <2>2, BlankTyped DEF Return, At, Typed, CallsTyped
      <4> QED
        BY <3>1, <3>3, <4>1, TwoAdmins, UserAuthAssumption DEF CountAdmins
    <3> QED
      BY <2>1, <2>2, <3>2, <3>3
  <2>3. ASSUME At(c, "save")' PROVE users[call'[c].user].role = call'[c].held.role
    <3>1. call'[c].user = call[c].user
      BY <2>1, <2>3, BlankTyped DEF Advances, At
    <3> QED
      BY <2>1, <2>3, <3>1, FindEffect DEF At
  <2> QED
    BY <2>1, <2>2, <2>3, QuietAdmin DEF Advances, hist
<1>5. ASSUME NEW c \in Calls, Change(c) PROVE AdminInv'
  <2>1. /\ Typed' /\ Advances(c) /\ UNCHANGED deletesRaced
        /\ call'[c].step \notin {"save", "remove"}
        /\ \A d \in Calls \ {c} : call'[d] = call[d]
    BY <1>5, ChangeEffect DEF Advances
  <2> SUFFICES ASSUME ~deletesRaced PROVE AdminInv'
    BY <2>1 DEF AdminInv
  <2>2. WellFormed(c) /\ call[c] \in Call
    BY DEF Typed, CallsTyped
  <2>3. CASE IssueToken(c) \/ StoreError(c) \/ InitAdminCount(c)
    <3>1. UNCHANGED <<users, bootstrap, inits>>
      BY <2>3 DEF IssueToken, StoreError, InitAdminCount, hist
    <3> QED
      BY <2>1, <3>1, QuietAdmin DEF At
  <2>4. CASE CreateUser(c) /\ Exists(call[c].user)
    <3>1. UNCHANGED <<users, bootstrap, inits>>
      BY <2>4 DEF CreateUser
    <3> QED
      BY <2>1, <3>1, QuietAdmin DEF At
  <2>5. CASE CreateUser(c) /\ ~Exists(call[c].user)
    <3>1. /\ call[c].user \in User /\ call[c].op \in {"init", "create"} /\ call[c].arg \in Account
          /\ call[c].op = "init" => call[c].arg.role = "admin"
      BY <2>2, <2>5 DEF CreateUser, At, WellFormed, Steps, Authenticating, Op, Running, Call
    <3>2. /\ users'[call[c].user] = call[c].arg
          /\ \A u \in User \ {call[c].user} : users'[u] = users[u]
      BY <2>5, <3>1 DEF CreateUser, Typed, TypeOK
    <3>3. users[call[c].user].role = "none"
      BY <2>5 DEF Exists, Absent
    <3>4. Admins \subseteq Admins'
      BY <3>2, <3>3 DEF Admins
    <3>5. CASE call[c].op = "init"
      <4>1. bootstrap /\ \A u \in User : ~Exists(u)
        BY <2>5, <3>5 DEF BootInv, CreateUser
      <4>2. Admins = {}
        BY <4>1 DEF Admins, Exists, Absent
      <4>3. inits = {} /\ \A d \in Calls : ~At(d, "remove") /\ ~At(d, "save")
        BY <4>1, <4>2 DEF AdminInv, BootInv
      <4>4. inits' = {c}
        BY <2>5, <3>5, <4>3 DEF CreateUser
      <4>5. Cardinality({c}) = 1
        BY FS_Singleton
      <4>6. SingleInit'
        BY <4>4, <4>5 DEF SingleInit
      <4>7. call[c].user \in Admins'
        BY <3>1, <3>2, <3>5 DEF Admins
      <4> QED
        BY <2>1, <4>3, <4>6, <4>7 DEF AdminInv, At
    <3>6. CASE call[c].op = "create"
      <4>1. UNCHANGED <<bootstrap, inits>>
        BY <2>5, <3>6 DEF CreateUser
      <4>2. ASSUME NEW d \in Calls, At(d, "save")'
            PROVE  users'[call'[d].user].role = call'[d].held.role
        <5>1. d # c /\ call'[d] = call[d] /\ At(d, "save")
          BY <2>1, <4>2 DEF At
        <5>2. call[d].held \in Account /\ call[d].user \in User
          BY <5>1 DEF Typed, CallsTyped, WellFormed, At, Running
        <5>3. users[call[d].user].role = call[d].held.role
          BY <5>1 DEF AdminInv
        <5>4. call[d].user # call[c].user
          BY <3>3, <5>2, <5>3 DEF Account, Role
        <5> QED
          BY <3>2, <5>1, <5>2, <5>3, <5>4
      <4>3. ASSUME NEW d \in Calls, At(d, "remove")' PROVE Admins' \ {call'[d].user} # {}
        BY <2>1, <3>4, <4>3 DEF AdminInv, At
      <4>4. SingleInit'
        BY <2>1, <4>1 DEF AdminInv, SingleInit
      <4> QED
        BY <3>4, <4>1, <4>2, <4>3, <4>4 DEF AdminInv
    <3> QED
      BY <3>1, <3>5, <3>6
  <2>6. CASE RemoveUser(c)
    <3>1. call[c].op = "delete" /\ call[c].user \in User /\ OnServer(c)
      BY <2>2, <2>6 DEF RemoveUser, At, WellFormed, Steps, Authenticating, Op, Running, Call, OnServer
    <3>2. /\ users'[call[c].user] = Absent /\ UNCHANGED <<bootstrap, inits>>
          /\ \A u \in User \ {call[c].user} : users'[u] = users[u]
      BY <2>6, <3>1 DEF RemoveUser, Typed, TypeOK, hist
    <3>3. Admins' = Admins \ {call[c].user}
      BY <3>2 DEF Admins, Absent
    <3>4. Admins' # {}
      BY <2>6, <3>3 DEF RemoveUser, AdminInv
    <3>5. ASSUME NEW d \in Calls PROVE ~At(d, "remove")'
      <4>1. CASE d # c /\ At(d, "remove")
        <5>1. call[d].op = "delete" /\ OnServer(d)
          BY <4>1 DEF Typed, CallsTyped, At, WellFormed, Steps, Authenticating, Op, Running, Call, OnServer
        <5> QED
          BY <3>1, <4>1, <5>1 DEF Recorded, Undercuts
      <4> QED
        BY <2>1, <4>1 DEF At
    <3>6. ASSUME NEW d \in Calls, At(d, "save")'
          PROVE  users'[call'[d].user].role = call'[d].held.role
      <4>1. d # c /\ call'[d] = call[d] /\ At(d, "save")
        BY <2>1, <3>6 DEF At
      <4>2. call[d].op \in {"change", "reset"} /\ OnServer(d) /\ call[d].user \in User
        BY <4>1 DEF Typed, CallsTyped, At, WellFormed, Steps, Authenticating, Op, Running, Call, OnServer
      <4>3. call[d].user # call[c].user
        BY <3>1, <4>1, <4>2 DEF Recorded, Undercuts
      <4> QED
        BY <3>2, <4>1, <4>2, <4>3 DEF AdminInv
    <3>7. SingleInit'
      BY <2>1, <3>2 DEF AdminInv, SingleInit
    <3> QED
      BY <3>4, <3>5, <3>6, <3>7 DEF AdminInv
  <2>7. CASE SavePassword(c)
    <3>1. call[c].user \in User /\ call[c].held \in Account
      BY <2>2, <2>7 DEF SavePassword, At, WellFormed, Running
    <3>2. /\ users'[call[c].user].role = call[c].held.role /\ UNCHANGED <<bootstrap, inits>>
          /\ \A u \in User \ {call[c].user} : users'[u] = users[u]
      BY <2>7, <3>1 DEF SavePassword, Typed, TypeOK, Account, hist
    <3>3. \A u \in User : users'[u].role = users[u].role
      BY <2>7, <3>2 DEF SavePassword, AdminInv
    <3>4. Admins' = Admins
      BY <3>3, AdminsKept
    <3>5. \A d \in Calls : At(d, "save")' => users'[call'[d].user].role = call'[d].held.role
      BY <2>1, <3>3 DEF AdminInv, At, Typed, CallsTyped, WellFormed, Running
    <3>6. \A d \in Calls : At(d, "remove")' => Admins' \ {call'[d].user} # {}
      BY <2>1, <3>4 DEF AdminInv, At
    <3> QED
      BY <2>1, <3>2, <3>4, <3>5, <3>6 DEF AdminInv, SingleInit
  <2> QED
    BY <1>5, <2>3, <2>4, <2>5, <2>6, <2>7 DEF Change
<1> QED
  BY <1>1, <1>2, <1>3, <1>4, <1>5 DEF Next, Begin, Resolve, Change

-----------------------------------------------------------------------------
(***************************************************************************)
(* Sessions follow their account.                                          *)
(***************************************************************************)

\* An excuse stands while its revocation does not end.
LEMMA ExcuseStays ==
  ASSUME NEW c \in Calls, \A d \in Calls \ {c} : call'[d] = call[d], ~At(c, "revoke"),
         raced \subseteq raced', UNCHANGED unrevoked, NEW u, Excused(u)
  PROVE  Excused(u)'
BY DEF Excused, At

\* A step that changes no account, issues no token and does not end a revocation.
LEMMA QuietSession ==
  ASSUME Typed, SessionInv, NEW c \in Calls, \A d \in Calls \ {c} : call'[d] = call[d],
         UNCHANGED <<users, unrevoked>>, tokens' \subseteq tokens, raced \subseteq raced',
         ~At(c, "revoke"), ~At(c, "issue")'
  PROVE  SessionInv'
<1>1. ASSUME NEW t \in tokens' PROVE Current(t)' \/ Excused(t.user)'
  <2>1. Current(t) \/ Excused(t.user)
    BY DEF SessionInv
  <2> QED
    BY <2>1 DEF Current, Exists, Excused, At
<1> QED
  BY <1>1 DEF SessionInv, At

\* No call changes the account another one read unless their overlap is on record.
LEMMA NotRaced ==
  ASSUME Typed, Recorded, NEW c \in Calls, NEW d \in Calls, c # d, OnServer(c),
         At(d, "issue"), call[d].user \notin raced
  PROVE  call[d].user # call[c].user
BY DEF Recorded, OnServer, Running, At

\* A step that changes the account of its own user, and leaves the user excused.
LEMMA WriteSession ==
  ASSUME Typed, Recorded, SessionInv, NEW c \in Calls, NEW v, v = call[c].user, OnServer(c),
         \A d \in Calls \ {c} : call'[d] = call[d], ~At(c, "revoke"),
         \A u \in User \ {v} : users'[u] = users[u],
         tokens' = tokens, UNCHANGED <<unrevoked, raced>>,
         Excused(v)' \/ \A t \in tokens : t.user # v,
         At(c, "issue")' => users'[call'[c].user] = call'[c].held
  PROVE  SessionInv'
<1>1. ASSUME NEW t \in tokens' PROVE Current(t)' \/ Excused(t.user)'
  <2>1. Current(t) \/ Excused(t.user)
    BY DEF SessionInv
  <2>2. t.user \in User
    BY DEF Typed, TypeOK, Session
  <2>3. Excused(t.user) => Excused(t.user)'
    BY ExcuseStays
  <2>4. CASE t.user = v
    BY <2>4
  <2>5. CASE t.user # v
    BY <2>1, <2>2, <2>3, <2>5 DEF Current, Exists
  <2> QED
    BY <2>4, <2>5
<1>2. ASSUME NEW d \in Calls, At(d, "issue")', call'[d].user \notin raced'
      PROVE  users'[call'[d].user] = call'[d].held
  <2>1. CASE d = c
    BY <1>2, <2>1
  <2>2. CASE d # c
    <3>1. call'[d] = call[d] /\ At(d, "issue") /\ call[d].user \notin raced
      BY <1>2, <2>2 DEF At
    <3>2. call[d].user # call[c].user /\ call[d].user \in User
      BY <2>2, <3>1, NotRaced DEF Typed, CallsTyped, WellFormed, Running, At
    <3> QED
      BY <3>1, <3>2 DEF SessionInv
  <2> QED
    BY <2>1, <2>2
<1> QED
  BY <1>1, <1>2 DEF SessionInv

\* Every step keeps the invariant of the sessions.
LEMMA NextSession ==
  ASSUME Typed, Recorded, SessionInv, Next PROVE SessionInv'
<1>1. CASE Restart
  <2>1. \A c \in Calls : ~At(c, "issue")'
    BY <1>1, RestartTyped DEF OnServer, Running, At
  <2>2. UNCHANGED <<users, tokens, raced>> /\ unrevoked' = unrevoked \cup Unrevoked(Calls)
    BY <1>1 DEF Restart
  <2>3. ASSUME NEW u, Excused(u) PROVE Excused(u)'
    BY <2>2, <2>3 DEF Excused, Unrevoked
  <2> QED
    BY <2>1, <2>2, <2>3 DEF SessionInv, Current, Exists
<1>2. ASSUME NEW t \in tokens, Expire(t) PROVE SessionInv'
  BY <1>2 DEF Expire, SessionInv, Current, Exists, Excused, At, hist
<1>3. ASSUME NEW c \in Calls, Begin(c) PROVE SessionInv'
  <2>1. /\ UNCHANGED <<users, tokens, unrevoked>> /\ call'[c].step \in {"lock", "compare", "token"}
        /\ raced \subseteq raced' /\ At(c, "idle")
        /\ \A d \in Calls \ {c} : call'[d] = call[d]
    BY <1>3, BeginTyped DEF Start, hist
  <2> QED
    BY <2>1, QuietSession DEF At
<1>4. ASSUME NEW c \in Calls, Resolve(c) PROVE SessionInv'
  <2>1. /\ Advances(c) /\ UNCHANGED <<users, unrevoked, raced>> /\ tokens' \subseteq tokens
        /\ At(c, "issue")' => LoginCompare(c)
        /\ At(c, "revoke") => RevokeTokens(c)
        /\ \A d \in Calls \ {c} : call'[d] = call[d]
    BY <1>4, ResolveEffect DEF Advances, hist
  <2>2. CASE RevokeTokens(c)
    <3>1. /\ tokens' = tokens \ TokensOf(call[c].user) /\ call'[c].step = "done"
      BY <2>2, BlankTyped DEF RevokeTokens, Return, Typed, CallsTyped
    <3>2. ASSUME NEW t \in tokens' PROVE Current(t)' \/ Excused(t.user)'
      <4>1. t.user # call[c].user /\ (Current(t) \/ Excused(t.user))
        BY <3>1 DEF SessionInv, TokensOf
      <4> QED
        BY <2>1, <4>1 DEF Current, Exists, Excused, At
    <3> QED
      BY <2>1, <3>1, <3>2 DEF SessionInv, At
  <2>3. CASE LoginCompare(c) /\ At(c, "issue")'
    <3>1. call'[c].held = users[call[c].user] /\ call'[c].user = call[c].user /\ tokens' = tokens
      BY <2>3, BlankTyped DEF LoginCompare, Hold, Return, At, Typed, CallsTyped, Call
    <3>2. OnServer(c) /\ ~At(c, "revoke")
      BY <2>3 DEF LoginCompare, OnServer, Running, At
    <3>3. ASSUME NEW t \in tokens PROVE Current(t)' \/ Excused(t.user)'
      BY <2>1, <3>2 DEF SessionInv, Current, Exists, Excused, At
    <3> QED
      BY <2>1, <3>1, <3>3 DEF SessionInv, At
  <2>4. CASE ~RevokeTokens(c) /\ ~At(c, "issue")'
    BY <2>1, <2>4, QuietSession
  <2> QED
    BY <2>1, <2>2, <2>3, <2>4
<1>5. ASSUME NEW c \in Calls, Change(c) PROVE SessionInv'
  <2>1. /\ Advances(c) /\ UNCHANGED raced
        /\ At(c, "issue")' => CreateUser(c)
        /\ At(c, "revoke") => StoreError(c)
        /\ \A d \in Calls \ {c} : call'[d] = call[d]
    BY <1>5, ChangeEffect DEF Advances
  <2>2. CASE StoreError(c)
    <3>1. /\ UNCHANGED <<users, tokens>> /\ unrevoked' = unrevoked \cup Unrevoked({c})
          /\ call'[c].step \in {"reject", "done"}
      BY <2>2, BlankTyped DEF StoreError, Goto, Return, Typed, CallsTyped, Call
    <3>2. ASSUME NEW u, Excused(u) PROVE Excused(u)'
      BY <2>1, <3>1, <3>2 DEF Excused, Unrevoked, At
    <3> QED
      BY <2>1, <3>1, <3>2 DEF SessionInv, Current, Exists, At
  <2>3. CASE IssueToken(c)
    <3>1. PICK t : t = [id |-> c, user |-> call[c].user, seen |-> call[c].held]
      OBVIOUS
    <3>2. /\ tokens' = tokens \cup {t} /\ UNCHANGED <<users, unrevoked>>
          /\ call'[c].step \in {"token", "keep"}
      BY <2>3, <3>1 DEF IssueToken, Typed, CallsTyped, Call, hist
    <3>3. call[c].held \in Account /\ At(c, "issue")
      BY <2>3 DEF IssueToken, Typed, CallsTyped, WellFormed, At
    <3>4. Current(t) \/ Excused(t.user)
      <4>1. CASE call[c].user \in raced
        BY <3>1, <4>1 DEF Excused
      <4>2. CASE call[c].user \notin raced
        <5>1. users[call[c].user] = call[c].held
          BY <3>3, <4>2 DEF SessionInv
        <5>2. call[c].held # Absent
          BY <3>3, BlankTyped
        <5> QED
          BY <3>1, <5>1, <5>2 DEF Current, Exists
      <4> QED
        BY <4>1, <4>2
    <3>5. ASSUME NEW x \in tokens' PROVE Current(x)' \/ Excused(x.user)'
      <4>1. Current(x) \/ Excused(x.user)
        BY <3>2, <3>4 DEF SessionInv
      <4> QED
        BY <2>1, <3>2, <3>3, <4>1 DEF Current, Exists, Excused, At
    <3> QED
      BY <2>1, <3>2, <3>5 DEF SessionInv, At
  <2>4. CASE InitAdminCount(c)
    <3>1. UNCHANGED <<users, tokens, unrevoked>> /\ ~At(c, "revoke") /\ ~At(c, "issue")'
      BY <2>1, <2>4 DEF InitAdminCount, CreateUser, At, hist
    <3> QED
      BY <2>1, <3>1, QuietSession
  <2>5. PICK v : v = call[c].user
    OBVIOUS
  <2>6. CASE CreateUser(c)
    <3>1. CASE Exists(call[c].user)
      <4>1. UNCHANGED <<users, tokens, unrevoked>> /\ ~At(c, "revoke") /\ ~At(c, "issue")'
        BY <2>1, <2>6, <3>1, BlankTyped DEF CreateUser, At, Return, Typed, CallsTyped
      <4> QED
        BY <2>1, <4>1, QuietSession
    <3>2. CASE ~Exists(call[c].user)
      <4>1. /\ OnServer(c) /\ ~At(c, "revoke") /\ call[c].user \in User
        BY <2>6 DEF CreateUser, OnServer, Running, At, Typed, CallsTyped, WellFormed
      <4>2. /\ UNCHANGED <<tokens, unrevoked>> /\ users'[call[c].user] = call[c].arg
            /\ \A u \in User \ {call[c].user} : users'[u] = users[u]
        BY <2>6, <3>2, <4>1 DEF CreateUser, Typed, TypeOK
      <4>3. At(c, "issue")' => users'[call'[c].user] = call'[c].held
        BY <2>6, <3>2, <4>2, BlankTyped DEF CreateUser, At, Return, Typed, CallsTyped, Call
      <4>4. Excused(v)' \/ \A t \in tokens : t.user # v
        <5>1. Excused(v) => Excused(v)'
          BY <2>1, <4>1, <4>2, ExcuseStays
        <5> QED
          BY <2>5, <3>2, <5>1 DEF SessionInv, Current
      <4> QED
        BY <2>1, <4>1, <4>2, <4>3, <4>4, <2>5, WriteSession
    <3> QED
      BY <3>1, <3>2
  <2>7. CASE RemoveUser(c)
    <3>1. /\ OnServer(c) /\ ~At(c, "revoke") /\ call[c].user \in User
      BY <2>7 DEF RemoveUser, OnServer, Running, At, Typed, CallsTyped, WellFormed
    <3>2. /\ UNCHANGED <<tokens, unrevoked>> /\ users'[call[c].user] = Absent
          /\ \A u \in User \ {call[c].user} : users'[u] = users[u]
      BY <2>7, <3>1 DEF RemoveUser, Typed, TypeOK, hist
    <3>3. Excused(v)' \/ \A t \in tokens : t.user # v
      <4>1. CASE Exists(call[c].user)
        <5>1. call'[c].step = "revoke" /\ call'[c].user = call[c].user
          BY <2>7, <4>1 DEF RemoveUser, Goto, Typed, CallsTyped, Call
        <5> QED
          BY <2>5, <5>1 DEF Excused, At
      <4>2. CASE ~Exists(call[c].user)
        <5>1. Excused(v) => Excused(v)'
          BY <2>1, <3>1, <3>2, ExcuseStays
        <5> QED
          BY <2>5, <4>2, <5>1 DEF SessionInv, Current
      <4> QED
        BY <4>1, <4>2
    <3>4. ~At(c, "issue")'
      BY <2>1, <2>7 DEF RemoveUser, CreateUser, At
    <3> QED
      BY <2>1, <3>1, <3>2, <3>3, <3>4, <2>5, WriteSession
  <2>8. CASE SavePassword(c)
    <3>1. /\ OnServer(c) /\ ~At(c, "revoke") /\ call[c].user \in User
      BY <2>8 DEF SavePassword, OnServer, Running, At, Typed, CallsTyped, WellFormed
    <3>2. /\ UNCHANGED <<tokens, unrevoked>>
          /\ \A u \in User \ {call[c].user} : users'[u] = users[u]
          /\ call'[c].step = "revoke" /\ call'[c].user = call[c].user
      BY <2>8, <3>1 DEF SavePassword, Goto, Typed, TypeOK, CallsTyped, Call, hist
    <3>3. Excused(v)'
      BY <2>5, <3>2 DEF Excused, At
    <3> QED
      BY <2>1, <3>1, <3>2, <3>3, <2>5, WriteSession DEF At
  <2> QED
    BY <1>5, <2>2, <2>3, <2>4, <2>6, <2>7, <2>8 DEF Change
<1> QED
  BY <1>1, <1>2, <1>3, <1>4, <1>5 DEF Next, Begin, Resolve, Change

-----------------------------------------------------------------------------
(***************************************************************************)
(* The theorems.                                                           *)
(***************************************************************************)

\* The database an earlier process left, with no call in flight.
LEMMA InitAuthInv == Init => AuthInv
<1> SUFFICES ASSUME Init PROVE AuthInv
  OBVIOUS
<1>1. Typed
  BY InitTyped
<1>2. \A c \in Calls : call[c].step = "idle" /\ ~OnServer(c) /\ ~Running(c)
  BY BlankTyped DEF Init, OnServer, Running
<1>3. Seen = tokens /\ \A t \in tokens : t.id = None
  BY <1>2 DEF Init, Seen
<1>4. LeftInv
  BY <1>2, <1>3, UserAuthAssumption DEF Init, LeftInv, LogoutEndsSession, At
<1>5. BootInv /\ Recorded
  BY <1>2 DEF Init, BootInv, Recorded, At
<1>6. Cardinality({}) = 0
  BY FS_EmptySet
<1>7. AdminInv
  BY <1>2, <1>6 DEF Init, AdminInv, SingleInit, At
<1>8. SessionInv
  BY <1>2 DEF Init, SessionInv, Current, Exists, At
<1> QED
  BY <1>1, <1>4, <1>5, <1>7, <1>8 DEF AuthInv

\* Every step keeps the inductive invariant.
LEMMA NextAuthInv == AuthInv /\ [Next]_vars => AuthInv'
<1> SUFFICES ASSUME AuthInv, [Next]_vars PROVE AuthInv'
  OBVIOUS
<1>1. CASE UNCHANGED vars
  <2>1. UNCHANGED <<users, tokens, kept, left, bootstrap, mu, call, inits, raced, deletesRaced, unrevoked>>
    BY <1>1 DEF vars, clients
  <2>2. Typed' /\ BootInv' /\ Recorded'
    BY <2>1 DEF AuthInv, Typed, TypeOK, CallsTyped, MuTyped, WellFormed, BootInv, Recorded,
                Undercuts, Running, OnServer, At, Exists
  <2>3. LeftInv'
    BY <2>1 DEF AuthInv, LeftInv, LogoutEndsSession, Seen, Unissued, Running, At
  <2>4. AdminInv' /\ SessionInv'
    BY <2>1 DEF AuthInv, AdminInv, SingleInit, Admins, SessionInv, Current, Excused, Exists, At
  <2> QED
    BY <2>2, <2>3, <2>4 DEF AuthInv
<1>2. CASE Next
  <2>1. Typed'
    <3>1. ASSUME NEW t \in tokens, Expire(t) PROVE Typed'
      BY <3>1, ExpireTyped DEF AuthInv
    <3>2. ASSUME NEW c \in Calls, Begin(c) \/ Resolve(c) \/ Change(c) PROVE Typed'
      BY <3>2, BeginTyped, ResolveTyped, ChangeTyped DEF AuthInv
    <3> QED
      BY <1>2, <3>1, <3>2, RestartTyped DEF AuthInv, Next, Begin, Resolve, Change
  <2> QED
    BY <1>2, <2>1, NextLeft, NextBoot, NextRecorded, NextAdmin, NextSession DEF AuthInv
<1> QED
  BY <1>1, <1>2

\* Accounts, sessions and the mutex of InitAdmin are well formed, for every instance.
THEOREM UserAuthTypeOK == Spec => []TypeOK
<1>1. AuthInv => TypeOK
  BY DEF AuthInv, Typed
<1> QED
  BY <1>1, InitAuthInv, NextAuthInv, PTL DEF Spec

\* service.go:89-112, "bootstrap token is single-use": one administrator comes of
\* it, for any number of InitAdmin calls and any crash between their steps.
THEOREM BootstrapTokenSingleUse == Spec => []SingleInit
<1>1. AuthInv => SingleInit
  BY DEF AuthInv, AdminInv, SingleInit
<1> QED
  BY <1>1, InitAuthInv, NextAuthInv, PTL DEF Spec

\* service.go:188-196: however many calls run, the control plane has an
\* administrator or a way to make one, unless a deletion was undercut.
THEOREM NeverLockedOut == Spec => []NoLockout
<1>1. AuthInv => NoLockout
  BY DEF AuthInv, AdminInv, NoLockout
<1> QED
  BY <1>1, InitAuthInv, NextAuthInv, PTL DEF Spec

\* service.go:198-204 and 246: no session outlives its password or its account,
\* outside the overlaps and cut-off revocations.
THEOREM SessionsEndWithTheirAccount == Spec => []SessionsFollowAccount
<1>1. AuthInv => SessionsFollowAccount
  BY DEF AuthInv, SessionInv, SessionsFollowAccount, Current
<1> QED
  BY <1>1, InitAuthInv, NextAuthInv, PTL DEF Spec

\* login.go:72 and handler_auth.go:83-90: a client that gave its token up has no
\* session left, whatever failed or raced with the logout.
THEOREM LogoutIsFinal == Spec => []LogoutEndsSession
<1>1. AuthInv => LogoutEndsSession
  BY DEF AuthInv, LeftInv
<1> QED
  BY <1>1, InitAuthInv, NextAuthInv, PTL DEF Spec
=============================================================================
