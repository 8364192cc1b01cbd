----------------------------- MODULE AgentHost -----------------------------
(***************************************************************************)
(* The life of pgway-dp processes that share one state path, from the lock *)
(* to the exit: cmd/pgway-dp/main.go over agenthost/bootstrap.go, retry.go *)
(* and agentstate.  An orchestrator may start a second process while the   *)
(* first one runs, and any process may be killed between any two steps.    *)
(*                                                                         *)
(* The control plane handles a request in one step (AgentRegistry has the  *)
(* transactions inside) but a Register may fail half-way.  A connection    *)
(* may break while a request is under way: the caller gets Unavailable,    *)
(* and the request, now an orphan, is still handled later, or never.       *)
(***************************************************************************)
EXTENDS Integers, FiniteSets

CONSTANTS
  Procs,       \* processes that may be started
  RegTokens,   \* registration tokens an administrator has minted
  MaxStarts,   \* bound on process starts
  MaxFaults,   \* bound on broken connections and failed steps
  MaxDeletes,  \* bound on DeleteAgent
  None

ASSUME AgentHostAssumption ==
  None \notin Procs \cup {"active"} /\ None # 0 /\ IsFiniteSet(RegTokens)

VARIABLES
  \* on the host
  proc,     \* [p -> process], see Process
  lock,     \* holder of agent.lock, or None
  file,     \* the state file: None, Partial or an agent token
  tmp,      \* the temporary file, likewise
  \* in the control plane
  spent,    \* registration tokens consumed
  record,   \* the agent's record: None, "passive" or "active"
  valid,    \* agent tokens that authenticate
  issued,   \* agent tokens issued so far
  \* between them
  wire,     \* requests under way: [to, op, arg]; to is None for an orphan
  gone,     \* history: the last agent has deregistered, no heartbeat being under way
  starts, faults, deletes

vars == <<proc, lock, file, tmp, spent, record, valid, issued, wire, gone, starts, faults, deletes>>
cpVars == <<spent, record, valid, issued>>
diskVars == <<file, tmp>>
bounds == <<starts, deletes>>

AgentToken == 1..Cardinality(RegTokens)
Partial == 0   \* half of a state file
Ops == {"register", "snapshot", "heartbeat", "deregister"}

Starting == {"load", "registering", "save", "rename", "snapshot", "snapshotting"}
Stopping == {"stopping", "deregistering", "draining"}

Process ==
  [pc : {"off", "starting", "serving"} \cup Starting \cup Stopping,
   cfg : RegTokens \cup {None},         \* PGWAY_AGENT_REGISTRATION_TOKEN
   token : AgentToken \cup {None},      \* the client's bearer
   bootstrapped : BOOLEAN, shuttingDown : BOOLEAN,   \* the ready gate's latches
   beating : BOOLEAN,                   \* the heartbeat loop runs
   registered : BOOLEAN,                \* history: Register has succeeded in this life
   fatal : BOOLEAN]                     \* it ended in a permanent error

NewProcess(t) ==
  [pc |-> "load", cfg |-> t, token |-> None, bootstrapped |-> FALSE,
   shuttingDown |-> FALSE, beating |-> FALSE, registered |-> FALSE, fatal |-> FALSE]

Off(fatal) == [NewProcess(None) EXCEPT !.pc = "off", !.fatal = fatal]

Init ==
  /\ proc = [p \in Procs |-> Off(FALSE)]
  /\ lock = None /\ file = None /\ tmp = None
  /\ spent = {} /\ record = None /\ valid = {} /\ issued = 0
  /\ wire = {} /\ gone = FALSE
  /\ starts = 0 /\ faults = 0 /\ deletes = 0

-----------------------------------------------------------------------------
(***************************************************************************)
(* Errors.  Only the client's agent and watch calls turn Unauthenticated   *)
(* into ErrAgentUnauthenticated; the resource calls of the snapshot return *)
(* the plain status.                                                       *)
(***************************************************************************)
MapAgentAuth(op, code) ==
  IF code = "Unauthenticated" /\ op \in {"register", "heartbeat", "deregister"}
  THEN "ErrAgentUnauthenticated" ELSE code

\* Mutant: a rejected credential is retried.
IsAuthRejectedNever(err) == FALSE

IsAuthRejected(err) == err = "ErrAgentUnauthenticated"

\* Mutant: whatever Register answers ends the process.
IsPermanentAlways(err) == err # "OK"

\* Mutant: a failed Save is retried like a failed call.
IsPermanentButState(err) ==
  err \in {"ErrBootstrapConfig", "AlreadyExists"} \/ IsAuthRejected(err)

IsPermanentBootstrapError(err) ==
  err \in {"ErrBootstrapConfig", "ErrBootstrapState", "AlreadyExists"} \/ IsAuthRejected(err)

\* ReadyGate.Check, for the checks a binary asks for.
Check(shuttingDown, requireBootstrap, bootstrapped, storageDown, requireGRPC, grpcServing, rejecting) ==
  IF shuttingDown THEN "shutting_down"
  ELSE IF requireBootstrap /\ ~bootstrapped THEN "bootstrap_pending"
  ELSE IF storageDown THEN "storage_unavailable"
  ELSE IF requireGRPC /\ ~grpcServing THEN "grpc_not_serving"
  ELSE IF rejecting THEN "cp_unreachable" ELSE "ok"

\* What /readyz of an agent answers while its link does not reject (LinkState).
Readyz(p) ==
  IF proc[p].pc = "off" THEN "no answer"
  ELSE Check(proc[p].shuttingDown, TRUE, proc[p].bootstrapped, FALSE, FALSE, FALSE, FALSE)

-----------------------------------------------------------------------------
(***************************************************************************)
(* Process steps.                                                          *)
(***************************************************************************)
To(p, pc) == [proc EXCEPT ![p].pc = pc]
Send(p, op, arg) == wire' = wire \cup {[to |-> p, op |-> op, arg |-> arg]}

\* The requests of p among S lose their caller; one that only reads is dropped.
Orphaned(S, p) ==
  {q \in S : q.to # p} \cup
  {[q EXCEPT !.to = None] : q \in {r \in S : r.to = p /\ r.op # "snapshot"}}

\* The process ends: the kernel drops the flock, what is left of its requests
\* loses its caller.
Exit(p, fatal, rest) ==
  /\ proc' = [proc EXCEPT ![p] = Off(fatal)]
  /\ lock' = IF lock = p THEN None ELSE lock
  /\ wire' = Orphaned(rest, p)

\* RetryTransient around a failed step: start it over, or log.Fatal.
RetryOrExit(p, err, again) ==
  IF IsPermanentBootstrapError(err) THEN Exit(p, TRUE, wire)
  ELSE proc' = To(p, again) /\ UNCHANGED <<lock, wire>>

\* Mutant: the lock does not exclude.
AcquireShared(p) == TRUE

Acquire(p) == lock = None

Start(p, t) ==
  /\ proc[p].pc = "off" /\ starts < MaxStarts /\ starts' = starts + 1
  /\ IF Acquire(p)
     THEN lock' = p /\ proc' = [proc EXCEPT ![p] = NewProcess(t)] /\ gone' = FALSE
     ELSE proc' = [proc EXCEPT ![p] = Off(FALSE)] /\ UNCHANGED <<lock, gone>>
  /\ UNCHANGED <<diskVars, cpVars, wire, faults, deletes>>

\* store.Load of the state file, when it can be read.
Load ==
  CASE file = None -> "ErrNotExist"
    [] file = Partial -> "ErrBootstrapState"
    [] OTHER -> "OK"

\* Load, then Register unless there is a state file.
BootstrapCredentials(p) ==
  /\ proc[p].pc = "load"
  /\ CASE Load = "OK" ->
            /\ proc' = [proc EXCEPT ![p].pc = "snapshot", ![p].token = file]
            /\ UNCHANGED <<lock, wire>>
       [] Load = "ErrBootstrapState" -> RetryOrExit(p, Load, "load")
       [] Load = "ErrNotExist" /\ proc[p].cfg = None ->
            RetryOrExit(p, "ErrBootstrapConfig", "load")
       [] Load = "ErrNotExist" /\ proc[p].cfg # None ->
            /\ proc' = To(p, "registering") /\ Send(p, "register", proc[p].cfg)
            /\ UNCHANGED lock
  /\ UNCHANGED <<diskVars, cpVars, gone, faults, bounds>>

\* The state file is there or not, but reading it fails: os.ReadFile's error is
\* taken for an unusable state file.
LoadFails(p) ==
  /\ proc[p].pc = "load" /\ faults < MaxFaults /\ faults' = faults + 1
  /\ RetryOrExit(p, "ErrBootstrapState", "load")
  /\ UNCHANGED <<diskVars, cpVars, gone, bounds>>

\* Mutant: the credentials are used without being saved.
AfterRegisterUnsaved == "snapshot"

AfterRegister == "save"

\* store.Save: the temporary file, then the rename.
SaveStep(p) ==
  /\ \/ /\ proc[p].pc = "save"
        /\ tmp' = proc[p].token /\ proc' = To(p, "rename") /\ UNCHANGED file
     \/ /\ proc[p].pc = "rename"
        /\ file' = tmp /\ tmp' = None /\ proc' = To(p, "snapshot")
  /\ UNCHANGED <<lock, wire, cpVars, gone, faults, bounds>>

\* Write or rename fails; a failed rename removes the temporary file.
SaveFails(p) ==
  /\ proc[p].pc \in {"save", "rename"} /\ faults < MaxFaults /\ faults' = faults + 1
  /\ tmp' \in IF proc[p].pc = "save" THEN {tmp, Partial} ELSE {None}
  /\ RetryOrExit(p, "ErrBootstrapState", "load")
  /\ UNCHANGED <<file, cpVars, gone, bounds>>

\* The initial snapshot, retried until it succeeds or IsAuthRejected.
SendSnapshot(p) ==
  /\ proc[p].pc = "snapshot"
  /\ proc' = To(p, "snapshotting") /\ Send(p, "snapshot", proc[p].token)
  /\ UNCHANGED <<lock, diskVars, cpVars, gone, faults, bounds>>

\* Adapters, consumer and loops; the gate is past its latch already.
Serve(p) ==
  /\ proc[p].pc = "starting"
  /\ proc' = [proc EXCEPT ![p].pc = "serving", ![p].beating = TRUE]
  /\ UNCHANGED <<lock, diskVars, cpVars, wire, gone, faults, bounds>>

BeatUnderWay(p) == \E q \in wire : q.to = p /\ q.op = "heartbeat"

Heartbeat(p) ==
  /\ proc[p].beating /\ ~BeatUnderWay(p)
  /\ Send(p, "heartbeat", proc[p].token)
  /\ UNCHANGED <<proc, lock, diskVars, cpVars, gone, faults, bounds>>

\* Mutant: the loops are not stopped.
StoppedLoops(s) == [s EXCEPT !.pc = "stopping", !.shuttingDown = TRUE]

\* stop cancels the loops' context, then the gate is marked.
Stopped(s) == [s EXCEPT !.pc = "stopping", !.shuttingDown = TRUE, !.beating = FALSE]

\* A signal, or a listener or loop that failed.
Stop(p) ==
  /\ proc[p].pc = "serving"
  /\ proc' = [proc EXCEPT ![p] = Stopped(@)]
  /\ wire' = Orphaned(wire, p)
  /\ UNCHANGED <<lock, diskVars, cpVars, gone, faults, bounds>>

Deregister(p) ==
  /\ proc[p].pc = "stopping"
  /\ proc' = To(p, "deregistering") /\ Send(p, "deregister", proc[p].token)
  /\ UNCHANGED <<lock, diskVars, cpVars, gone, faults, bounds>>

\* Probes and listeners are shut down, the deferred closes run.
Drain(p) ==
  /\ proc[p].pc = "draining"
  /\ Exit(p, FALSE, wire)
  /\ UNCHANGED <<diskVars, cpVars, gone, faults, bounds>>

Crash(p) ==
  /\ proc[p].pc # "off"
  /\ Exit(p, FALSE, wire)
  /\ tmp' \in IF proc[p].pc = "save" THEN {tmp, Partial} ELSE {tmp}
  /\ UNCHANGED <<file, cpVars, gone, faults, bounds>>

-----------------------------------------------------------------------------
(***************************************************************************)
(* The control plane handles a request and, unless it is an orphan, its    *)
(* caller goes on with the answer.                                         *)
(***************************************************************************)

\* consume, create, issue; failing makes it stop before the given one.
RegisterAtCP(t, failing) ==
  LET consumed == t \notin spent /\ failing # "consume"
      created == consumed /\ record = None /\ failing # "create"
      done == created /\ failing # "issue"
  IN
  /\ spent' = IF consumed THEN spent \cup {t} ELSE spent
  /\ record' = IF created THEN "passive" ELSE record
  /\ issued' = IF done THEN issued + 1 ELSE issued
  /\ valid' = IF done THEN valid \cup {issued + 1} ELSE valid

\* Whatever goes wrong in Consume is ErrInvalidRegistrationToken.
RegisterCode(t, failing) ==
  CASE t \in spent \/ failing = "consume" -> "Unauthenticated"
    [] t \notin spent /\ failing \notin {"consume", "create"} /\ record # None -> "AlreadyExists"
    [] OTHER -> IF failing = "" THEN "OK" ELSE "Internal"

\* What the caller makes of the answer to its request.
Answered(q, code) ==
  LET p == q.to
      err == MapAgentAuth(q.op, code)
      goOn(s) == proc' = [proc EXCEPT ![p] = s] /\ wire' = wire \ {q} /\ UNCHANGED lock
      me == proc[p]
  IN
  CASE p = None -> wire' = wire \ {q} /\ UNCHANGED <<proc, lock>>
    [] p # None /\ q.op = "register" ->
         IF code = "OK"
         THEN goOn([me EXCEPT !.pc = AfterRegister, !.token = issued', !.registered = TRUE])
         ELSE IF IsPermanentBootstrapError(err) THEN Exit(p, TRUE, wire \ {q})
         ELSE goOn([me EXCEPT !.pc = "load"])
    [] p # None /\ q.op = "snapshot" ->
         IF code = "OK" THEN goOn([me EXCEPT !.pc = "starting", !.bootstrapped = TRUE])
         ELSE IF IsAuthRejected(err) THEN Exit(p, TRUE, wire \ {q})
         ELSE goOn([me EXCEPT !.pc = "snapshot"])
    [] p # None /\ q.op = "heartbeat" ->
         goOn(IF IsAuthRejected(err) THEN Stopped(me) ELSE me)
    [] p # None /\ q.op = "deregister" ->
         goOn([me EXCEPT !.pc = "draining"])

HandleRegister(q, failing) ==
  /\ q.op = "register"
  /\ failing = "" \/ faults < MaxFaults
  /\ faults' = IF failing = "" THEN faults ELSE faults + 1
  /\ RegisterAtCP(q.arg, failing)
  /\ Answered(q, RegisterCode(q.arg, failing))
  /\ UNCHANGED <<diskVars, gone, bounds>>

\* Authenticated calls; a heartbeat sets LastHeartbeat, a Deregister clears it.
\* A failing lookup of the token is taken for a token that is not there.
HandleCall(q, failing) ==
  LET ok == q.arg \in valid /\ failing = "" IN
  /\ q.op # "register"
  /\ failing = "" \/ faults < MaxFaults
  /\ faults' = IF failing = "" THEN faults ELSE faults + 1
  /\ record' = CASE ok /\ q.op = "heartbeat" -> "active"
                 [] ok /\ q.op = "deregister" -> "passive"
                 [] OTHER -> record
  /\ gone' = \/ gone
             \/ /\ ok /\ q.op = "deregister"
                /\ lock = None \/ proc[lock].pc \in Stopping
                /\ \A r \in wire : r.op # "heartbeat"
  /\ Answered(q, IF ok THEN "OK" ELSE "Unauthenticated")
  /\ UNCHANGED <<diskVars, spent, valid, issued, bounds>>

\* The connection breaks, or Deregister's 5 s run out: the caller gets an error.
Break(q) ==
  LET p == q.to
      after == CASE q.op = "register" -> "load" [] q.op = "snapshot" -> "snapshot"
                 [] q.op = "deregister" -> "draining" [] OTHER -> proc[p].pc
  IN
  /\ p # None /\ faults < MaxFaults /\ faults' = faults + 1
  /\ IF q.op = "register" /\ IsPermanentBootstrapError("Unavailable")
     THEN Exit(p, TRUE, wire)
     ELSE /\ proc' = To(p, after) /\ UNCHANGED lock
          /\ wire' = (wire \ {q}) \cup Orphaned({q}, p)
  /\ UNCHANGED <<diskVars, cpVars, gone, bounds>>

DropOrphan(q) ==
  /\ q.to = None
  /\ wire' = wire \ {q}
  /\ UNCHANGED <<proc, lock, diskVars, cpVars, gone, faults, bounds>>

-----------------------------------------------------------------------------
(***************************************************************************)
(* Administrators: DeleteAgent, and the state file removed as the error of *)
(* a rejected agent asks.                                                  *)
(***************************************************************************)
DeleteAgent ==
  /\ record # None /\ deletes < MaxDeletes
  /\ deletes' = deletes + 1 /\ record' = None /\ valid' = {}
  /\ UNCHANGED <<proc, lock, diskVars, spent, issued, wire, gone, faults, starts>>

RemoveState ==
  /\ lock = None /\ file # None /\ file \notin valid
  /\ file' = None
  /\ UNCHANGED <<proc, lock, tmp, cpVars, wire, gone, faults, bounds>>

ProcessStep(p) ==
  \/ BootstrapCredentials(p) \/ SaveStep(p) \/ SendSnapshot(p) \/ Serve(p)
  \/ Deregister(p) \/ Drain(p)

Handle(q) == HandleCall(q, "") \/ HandleRegister(q, "")

Next ==
  \/ \E p \in Procs : \E t \in RegTokens \cup {None} : Start(p, t)
  \/ \E p \in Procs : ProcessStep(p) \/ LoadFails(p) \/ SaveFails(p) \/ Heartbeat(p) \/ Stop(p) \/ Crash(p)
  \/ \E q \in wire : Handle(q) \/ Break(q) \/ DropOrphan(q)
  \/ \E q \in wire, f \in {"consume", "create", "issue"} : HandleRegister(q, f)
  \/ \E q \in wire : HandleCall(q, "authenticate")
  \/ DeleteAgent \/ RemoveState

Spec == Init /\ [][Next]_vars

\* The process keeps running and the control plane answers what reaches it.
Fairness ==
  /\ \A p \in Procs : WF_vars(ProcessStep(p))
  /\ \A p \in Procs, op \in Ops :
       WF_vars(\E q \in wire : q.to = p /\ q.op = op /\ Handle(q))

FairSpec == Spec /\ Fairness

-----------------------------------------------------------------------------
(***************************************************************************)
(* Properties.                                                             *)
(***************************************************************************)
\* Processes, files and requests are well formed; the control plane issues at
\* most one agent token per registration token it consumed.
TypeOK ==
  /\ proc \in [Procs -> Process] /\ lock \in Procs \cup {None}
  /\ {file, tmp} \subseteq AgentToken \cup {None, Partial}
  /\ spent \subseteq RegTokens /\ record \in {None, "passive", "active"}
  /\ issued <= Cardinality(spent) /\ valid \subseteq 1..issued
  /\ wire \subseteq [to : Procs \cup {None}, op : Ops, arg : RegTokens \cup AgentToken]

\* store.go:63-70, lock.go: once credentials are in the state file no process
\* replaces, truncates or loses them, however processes overlap, crash and fail;
\* only the operator removes them, with no process running.
CredentialsKept == [][file # None /\ file' # file => lock = None]_vars

\* A store error that p takes for a verdict: store.go:23-26 with bootstrap.go:49-51
\* on the host, agent_credentials.go:52-54 in the control plane.
TakenForVerdict(p) ==
  LoadFails(p) \/ \E q \in wire : q.to = p /\ HandleRegister(q, "consume")

\* bootstrap.go:20-28: a start that ends in a permanent error could not have
\* been helped by retrying: started again as it is configured, with nobody
\* stepping in, the process would fail again.  Not so when a failing read of the
\* state file or a failing Consume is taken for a verdict.
FatalIsHopeless ==
  [][\A p \in Procs :
       proc[p].pc # "off" /\ proc'[p].fatal /\ ~TakenForVerdict(p) =>
         IF file' = None THEN proc[p].cfg \in spent' \cup {None} ELSE file' \notin valid']_vars

\* bootstrap.go:69-71: "retrying Register cannot recover and must not burn another
\* attempt": a process whose registration has succeeded never registers again.
NoSecondRegister ==
  \A q \in wire : q.op = "register" /\ q.to # None => ~proc[q.to].registered

\* ready.go, main.go:179: an agent that reports ready has the configuration, and
\* the credentials it runs with will be found by its next start.
ReadyIsDurable == \A p \in Procs : Readyz(p) = "ok" => file = proc[p].token

\* main.go:246-262: an agent that has deregistered shows as passive while nobody
\* starts it again, unless a heartbeat was still under way when the Deregister
\* was handled.
DeregisteredIsPassive == gone => record # "active"

\* retry.go, main.go:168-278: an agent that is starting gets to serve or ends,
\* and one that is stopping ends, once faults stop.  Not so when the snapshot is
\* refused for good: see RejectedAgentExits.
Settles ==
  \A p \in Procs :
    proc[p].pc \in Starting \cup Stopping \cup {"starting"} ~>
      \/ proc[p].pc \in {"off", "serving"}
      \/ proc[p].pc \in {"snapshot", "snapshotting"} /\ proc[p].token \notin valid

\* heartbeat.go:62-63: an agent-auth rejection is "never retryable", and main.go:171
\* passes IsAuthRejected to the retry of the snapshot: an agent that starts with a
\* token that was revoked ends.
RejectedAgentExits ==
  \A p \in Procs :
    proc[p].pc = "snapshot" /\ proc[p].token \notin valid ~> proc[p].pc = "off"
=============================================================================
