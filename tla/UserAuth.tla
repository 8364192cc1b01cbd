------------------------------ MODULE UserAuth ------------------------------
(***************************************************************************)
(* User accounts and sessions of the control plane (auth/service.go), the  *)
(* authentication every authenticated call passes first                    *)
(* (auth/authenticator.go), the gRPC and dashboard handlers above them and *)
(* what their clients keep: pgctl's token file and the browser's cookie.   *)
(*                                                                         *)
(* As in AgentRegistry, a call is a sequence of Badger transactions that   *)
(* interleaves with others, may fail at each and dies with the process.    *)
(* Only InitAdmin holds a mutex; every other check-then-act is unprotected.*)
(* What the code promises about two calls on one account is therefore      *)
(* stated for accounts whose calls did not overlap (raced) and whose       *)
(* revocation was not cut short (unrevoked).                               *)
(***************************************************************************)
EXTENDS FiniteSets, Integers

CONSTANTS
  User,          \* usernames
  Password,
  Calls,         \* API calls; each is made at most once
  MaxInFlight,   \* bound on concurrently running calls
  None

ASSUME MaxInFlightAssumption == MaxInFlight \in Nat \ {0}

VARIABLES
  users,       \* stored accounts, Absent where there is none
  tokens,      \* stored sessions
  kept,        \* sessions some client has in its token file or cookie
  left,        \* history: sessions a client gave up by logging out
  bootstrap,   \* is a bootstrap token pending in memory?
  mu,          \* the InitAdmin call that holds the mutex, or None
  call,        \* where each call stands
  inits,       \* history: InitAdmin calls that created an account
  raced,       \* history: accounts two calls were in flight for at once
  deletesRaced,\* history: a DeleteUser overlapped another, or a password change of its account
  unrevoked    \* history: accounts whose revocation failed or was lost

clients == <<kept, left>>
vars == <<users, tokens, clients, bootstrap, mu, call, inits, raced, deletesRaced, unrevoked>>
hist == <<inits, unrevoked>>

Role == {"admin", "member"}
Absent == [role |-> "none", pw |-> None, by |-> None]

\* An account remembers the call that created it, and a session the account
\* and the password its login saw: neither is stored by the code.
Account == [role : Role, pw : Password, by : Calls \cup {None}]
Session == [id : Calls \cup {None}, user : User, seen : Account]

ASSUME UserAuthAssumption == None \notin Calls \cup Session /\ IsFiniteSet(User)

Op == {"init", "login", "dashboard login", "logout", "create", "delete", "change", "reset"}
AdminOp == {"create", "delete", "reset"}

NoCall(step) == [step |-> step, op |-> "none", user |-> None, bearer |-> None,
                 old |-> None, arg |-> Absent, held |-> Absent]
Running(c) == call[c].step \notin {"idle", "done"}
At(c, step) == call[c].step = step
\* The last step of a login or logout is the client's.
OnServer(c) == Running(c) /\ ~At(c, "keep") /\ ~At(c, "forget")
Exists(u) == users[u] # Absent
Admins == {u \in User : users[u].role = "admin"}

Goto(c, step) == call' = [call EXCEPT ![c].step = step]
\* The call returns, with or without an error.
Return(c) == call' = [call EXCEPT ![c] = NoCall("done")]
Hold(c, step) == call' = [call EXCEPT ![c].step = step, ![c].held = users[call[c].user]]

\* Bootstrap: a token is printed when the database has no users.
Init ==
  /\ users \in [User -> {Absent} \cup [role : Role, pw : Password, by : {None}]]
  /\ (\E u \in User : Exists(u)) => Admins # {}
  /\ \E S \in SUBSET {u \in User : Exists(u)} :
       tokens = {[id |-> None, user |-> u, seen |-> users[u]] : u \in S}
  /\ kept = tokens /\ left = {}
  /\ bootstrap = (\A u \in User : ~Exists(u))
  /\ mu = None
  /\ call = [c \in Calls |-> NoCall("idle")]
  /\ inits = {} /\ raced = {} /\ deletesRaced = FALSE /\ unrevoked = {}

-----------------------------------------------------------------------------
(***************************************************************************)
(* A call arrives, from pgctl or the dashboard.  All but init and login    *)
(* carry a token the client kept, of a session that may be gone.           *)
(***************************************************************************)
\* Call d spoils what a DeleteUser has read: another deletion counted the same
\* administrators, and a password change writes back the account it read.
Undercuts(d, op, u) ==
  /\ OnServer(d)
  /\ \/ op = "delete" /\ call[d].op = "delete"
     \/ op = "delete" /\ call[d].op \in {"change", "reset"} /\ call[d].user = u
     \/ op \in {"change", "reset"} /\ call[d].op = "delete" /\ call[d].user = u

Start(c, op, u, t, old, a, step) ==
  /\ At(c, "idle")
  /\ Cardinality({d \in Calls : Running(d)}) < MaxInFlight
  /\ call' = [call EXCEPT ![c] = [step |-> step, op |-> op, user |-> u, bearer |-> t,
                                  old |-> old, arg |-> a, held |-> Absent]]
  /\ raced' = raced \cup {x \in {u} : \E d \in Calls : OnServer(d) /\ call[d].user = x}
  /\ deletesRaced' = (deletesRaced \/ \E d \in Calls : Undercuts(d, op, u))
  /\ UNCHANGED <<users, tokens, clients, bootstrap, mu, hist>>

Plain(p) == [Absent EXCEPT !.pw = p]
Fresh(c, r, p) == [role |-> r, pw |-> p, by |-> c]

StartInitAdmin(c) == \E u \in User, p \in Password :
  Start(c, "init", u, None, None, Fresh(c, "admin", p), "lock")
StartLogin(c) == \E u \in User, p \in Password :
  Start(c, "login", u, None, None, Plain(p), "compare")
StartDashboardLogin(c) == \E u \in User, p \in Password :
  Start(c, "dashboard login", u, None, None, Plain(p), "compare")
StartLogout(c) == \E t \in kept :
  Start(c, "logout", t.user, t, None, Absent, "token")
StartCreateUser(c) == \E t \in kept, u \in User, r \in Role, p \in Password :
  Start(c, "create", u, t, None, Fresh(c, r, p), "token")
StartDeleteUser(c) == \E t \in kept, u \in User :
  Start(c, "delete", u, t, None, Absent, "token")

\* One's own password needs the old one; another's is an admin's to reset, and
\* by the dashboard also an admin's own.
StartChangePassword(c) == \E t \in kept, old, new \in Password :
  Start(c, "change", t.user, t, old, Plain(new), "token")
StartResetPassword(c) == \E t \in kept, new \in Password : \E u \in User \ {t.user} :
  Start(c, "reset", u, t, None, Plain(new), "token")
StartDashboardReset(c) == \E t \in kept, new \in Password, u \in User :
  Start(c, "reset", u, t, None, Plain(new), "token")

-----------------------------------------------------------------------------
(***************************************************************************)
(* Authenticate, then the role check of the handler.                       *)
(***************************************************************************)
AuthenticateToken(c) ==
  /\ At(c, "token")
  /\ IF call[c].bearer \in tokens THEN Goto(c, "principal") ELSE Return(c)
  /\ UNCHANGED <<users, tokens, clients, bootstrap, mu, hist, raced, deletesRaced>>

Operation(op) ==
  CASE op = "logout" -> "drop" [] op = "create" -> "create" [] op = "dashboard login" -> "keep"
    [] op \in {"delete", "change", "reset"} -> "find"

AuthenticateUser(c) ==
  LET me == call[c].bearer.user IN
  /\ At(c, "principal")
  /\ \/ ~Exists(me) /\ Goto(c, "reject")
     \/ Exists(me) /\ IF call[c].op \in AdminOp /\ users[me].role # "admin"
                      THEN Return(c) ELSE Goto(c, Operation(call[c].op))
  /\ UNCHANGED <<users, tokens, clients, bootstrap, mu, hist, raced, deletesRaced>>

\* A session without an account is deleted on sight, and the call rejected.
RejectToken(c) ==
  /\ At(c, "reject")
  /\ tokens' = tokens \ {call[c].bearer}
  /\ Return(c)
  /\ UNCHANGED <<users, clients, bootstrap, mu, hist, raced, deletesRaced>>

\* Mutant: the client takes a failed call for a logout.
LogoutIgnoresError(c) ==
  /\ At(c, "drop")
  /\ \E gone \in BOOLEAN : tokens' = IF gone THEN tokens \ {call[c].bearer} ELSE tokens
  /\ Goto(c, "forget")
  /\ UNCHANGED <<users, clients, bootstrap, mu, hist, raced, deletesRaced>>

\* An error when the session is gone already: the client keeps its copy.
Logout(c) ==
  /\ At(c, "drop")
  /\ tokens' = tokens \ {call[c].bearer}
  /\ IF call[c].bearer \in tokens THEN Goto(c, "forget") ELSE Return(c)
  /\ UNCHANGED <<users, clients, bootstrap, mu, hist, raced, deletesRaced>>

-----------------------------------------------------------------------------
(***************************************************************************)
(* Sessions.                                                               *)
(***************************************************************************)
LoginCompare(c) ==
  LET u == call[c].user IN
  /\ At(c, "compare")
  /\ IF Exists(u) /\ users[u].pw = call[c].arg.pw THEN Hold(c, "issue") ELSE Return(c)
  /\ UNCHANGED <<users, tokens, clients, bootstrap, mu, hist, raced, deletesRaced>>

\* The mutex of InitAdmin is released when the call returns.  The dashboard's
\* login handler authenticates its own token before it answers.
IssueToken(c) ==
  LET t == [id |-> c, user |-> call[c].user, seen |-> call[c].held] IN
  /\ At(c, "issue")
  /\ tokens' = tokens \cup {t}
  /\ call' = [call EXCEPT ![c].bearer = t,
                          ![c].step = IF call[c].op = "dashboard login" THEN "token" ELSE "keep"]
  /\ mu' = IF mu = c THEN None ELSE mu
  /\ UNCHANGED <<users, clients, bootstrap, hist, raced, deletesRaced>>

\* writeTokenFile or Set-Cookie: what the client had before is overwritten.
KeepToken(c) ==
  /\ At(c, "keep")
  /\ \E old \in {{}} \cup {{t} : t \in kept} : kept' = (kept \ old) \cup {call[c].bearer}
  /\ Return(c)
  /\ UNCHANGED <<users, tokens, left, bootstrap, mu, hist, raced, deletesRaced>>

\* removeTokenFile, or the answer clears the cookie.
ForgetToken(c) ==
  /\ At(c, "forget")
  /\ kept' = kept \ {call[c].bearer} /\ left' = left \cup {call[c].bearer}
  /\ Return(c)
  /\ UNCHANGED <<users, tokens, bootstrap, mu, hist, raced, deletesRaced>>

TokensOf(u) == {t \in tokens : t.user = u}

RevokeTokens(c) ==
  /\ At(c, "revoke")
  /\ tokens' = tokens \ TokensOf(call[c].user)
  /\ Return(c)
  /\ UNCHANGED <<users, clients, bootstrap, mu, hist, raced, deletesRaced>>

\* Badger evicts a session at its TTL.
Expire(t) ==
  /\ tokens' = tokens \ {t}
  /\ UNCHANGED <<users, clients, bootstrap, mu, call, hist, raced, deletesRaced>>

-----------------------------------------------------------------------------
(***************************************************************************)
(* Accounts.                                                               *)
(***************************************************************************)

\* Mutant: InitAdmin without the mutex.
InitAdminCountUnlocked(c) ==
  /\ At(c, "lock")
  /\ IF (\A u \in User : ~Exists(u)) /\ bootstrap THEN Goto(c, "create") ELSE Return(c)
  /\ UNCHANGED <<users, tokens, clients, bootstrap, mu, hist, raced, deletesRaced>>

InitAdminCount(c) ==
  /\ At(c, "lock") /\ mu = None
  /\ IF (\A u \in User : ~Exists(u)) /\ bootstrap
     THEN Goto(c, "create") /\ mu' = c
     ELSE Return(c) /\ UNCHANGED mu
  /\ UNCHANGED <<users, tokens, clients, bootstrap, hist, raced, deletesRaced>>

\* createUser: InitAdmin goes on to burn the bootstrap token and log in.
CreateUser(c) ==
  LET u == call[c].user
      initial == call[c].op = "init" IN
  /\ At(c, "create")
  /\ IF Exists(u)
     THEN /\ Return(c)
          /\ mu' = IF initial THEN None ELSE mu
          /\ UNCHANGED <<users, bootstrap, inits>>
     ELSE /\ users' = [users EXCEPT ![u] = call[c].arg]
          /\ IF initial
             THEN /\ call' = [call EXCEPT ![c].step = "issue", ![c].held = call[c].arg]
                  /\ bootstrap' = FALSE
                  /\ inits' = inits \cup {c}
             ELSE Return(c) /\ UNCHANGED <<bootstrap, inits>>
          /\ UNCHANGED mu
  /\ UNCHANGED <<tokens, clients, unrevoked, raced, deletesRaced>>

\* The account is read; what follows works on this copy.
FindUser(c) ==
  LET u == call[c].user IN
  /\ At(c, "find")
  /\ IF ~Exists(u) \/ (call[c].op = "change" /\ users[u].pw # call[c].old)
     THEN Return(c)
     ELSE Hold(c, IF call[c].op # "delete" THEN "save"
                  ELSE IF users[u].role = "admin" THEN "admins" ELSE "remove")
  /\ UNCHANGED <<users, tokens, clients, bootstrap, mu, hist, raced, deletesRaced>>

\* Mutant: off by one.
CountAdminsOffByOne(c) ==
  /\ At(c, "admins")
  /\ IF Cardinality(Admins) < 1 THEN Return(c) ELSE Goto(c, "remove")
  /\ UNCHANGED <<users, tokens, clients, bootstrap, mu, hist, raced, deletesRaced>>

CountAdmins(c) ==
  /\ At(c, "admins")
  /\ IF Cardinality(Admins) <= 1 THEN Return(c) ELSE Goto(c, "remove")
  /\ UNCHANGED <<users, tokens, clients, bootstrap, mu, hist, raced, deletesRaced>>

\* Mutant: the sessions are left to Authenticate.
RemoveUserOnly(c) ==
  /\ At(c, "remove")
  /\ users' = [users EXCEPT ![call[c].user] = Absent]
  /\ Return(c)
  /\ UNCHANGED <<tokens, clients, bootstrap, mu, hist, raced, deletesRaced>>

RemoveUser(c) ==
  LET u == call[c].user IN
  /\ At(c, "remove")
  /\ users' = [users EXCEPT ![u] = Absent]
  /\ IF Exists(u) THEN Goto(c, "revoke") ELSE Return(c)
  /\ UNCHANGED <<tokens, clients, bootstrap, mu, hist, raced, deletesRaced>>

\* Save writes the copy back, present or not.
SavePassword(c) ==
  /\ At(c, "save")
  /\ users' = [users EXCEPT ![call[c].user] =
                 [call[c].held EXCEPT !.pw = call[c].arg.pw]]
  /\ Goto(c, "revoke")
  /\ UNCHANGED <<tokens, clients, bootstrap, mu, hist, raced, deletesRaced>>

-----------------------------------------------------------------------------
(***************************************************************************)
(* Failures.                                                               *)
(***************************************************************************)
Unrevoked(S) == {call[c].user : c \in {d \in S : At(d, "revoke")}}

\* A transaction or the client's write fails and the call returns its error.  Authenticate takes
\* any error of its account lookup for a deleted account.
StoreError(c) ==
  /\ Running(c)
  /\ IF At(c, "principal") THEN Goto(c, "reject") ELSE Return(c)
  /\ mu' = IF mu = c THEN None ELSE mu
  /\ unrevoked' = unrevoked \cup Unrevoked({c})
  /\ UNCHANGED <<users, tokens, clients, bootstrap, inits, raced, deletesRaced>>

\* The process dies and starts again: Bootstrap looks at the users it finds.
Restart ==
  /\ \E c \in Calls : OnServer(c)
  /\ call' = [c \in Calls |-> IF OnServer(c) THEN NoCall("done") ELSE call[c]]
  /\ mu' = None
  /\ bootstrap' = (\A u \in User : ~Exists(u))
  /\ unrevoked' = unrevoked \cup Unrevoked(Calls)
  /\ UNCHANGED <<users, tokens, clients, inits, raced, deletesRaced>>

Next ==
  \/ Restart
  \/ \E t \in tokens : Expire(t)
  \/ \E c \in Calls :
       \/ StartInitAdmin(c) \/ StartLogin(c) \/ StartDashboardLogin(c) \/ StartLogout(c)
       \/ StartCreateUser(c) \/ StartDeleteUser(c)
       \/ StartChangePassword(c) \/ StartResetPassword(c) \/ StartDashboardReset(c)
       \/ AuthenticateToken(c) \/ AuthenticateUser(c) \/ RejectToken(c) \/ Logout(c)
       \/ LoginCompare(c) \/ IssueToken(c) \/ KeepToken(c) \/ ForgetToken(c) \/ RevokeTokens(c)
       \/ InitAdminCount(c) \/ CreateUser(c) \/ FindUser(c)
       \/ CountAdmins(c) \/ RemoveUser(c) \/ SavePassword(c) \/ StoreError(c)

Spec == Init /\ [][Next]_vars

-----------------------------------------------------------------------------
\* Accounts, sessions and calls are well formed; the mutex is held by a
\* running InitAdmin.
TypeOK ==
  /\ users \in [User -> Account \cup {Absent}]
  /\ tokens \cup kept \cup left \subseteq Session
  /\ bootstrap \in BOOLEAN /\ deletesRaced \in BOOLEAN
  /\ raced \subseteq User /\ unrevoked \subseteq User /\ inits \subseteq Calls
  /\ mu # None => At(mu, "create") \/ At(mu, "issue")

\* service.go:89-112, "bootstrap token is single-use": however many InitAdmin
\* calls present the token, and whatever fails or crashes between the count
\* and the create, one administrator comes of it.
SingleInit == Cardinality(inits) <= 1 \/ deletesRaced

\* service.go:188-196 and 54-79: the control plane is never without both an
\* administrator and a way to make one, unless a DeleteUser overlaps another or
\* a password change of its account, which writes a stale role back (:242).
NoLockout == bootstrap \/ Admins # {} \/ deletesRaced

Excused(u) ==
  \/ u \in raced \cup unrevoked
  \/ \E c \in Calls : At(c, "revoke") /\ call[c].user = u

\* service.go:246, "a password change invalidates every session of the user", and
\* service.go:198-204: no session outlives the password it was opened with, and
\* none of a deleted account serves a later account of the same name, unless
\* another call on the account overlapped or the revocation failed.
SessionsFollowAccount ==
  \A t \in tokens : LET u == t.user IN
    Exists(u) /\ (t.seen.by # users[u].by \/ t.seen.pw # users[u].pw) => Excused(u)

\* pgctl's "Revoke the current token and remove stored credentials" (login.go:66)
\* and handler_auth.go:83-90: a client that gave its token up has no session
\* left on the server, whatever failed or raced with the logout.
LogoutEndsSession == left \cap tokens = {}
=============================================================================
