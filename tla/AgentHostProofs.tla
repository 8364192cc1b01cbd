-------------------------- MODULE AgentHostProofs --------------------------
(***************************************************************************)
(* Proofs about AgentHost for any number of processes, registration        *)
(* tokens, starts, faults and deletions.                                   *)
(***************************************************************************)
EXTENDS AgentHost, FiniteSetTheorems, TLAPS

\* Where a process has credentials that are in the state file.
Using == {"snapshot", "snapshotting", "starting", "serving"} \cup Stopping

\* A process that is not off holds the lock, and the state file is what its
\* step says: none until it saves, then its own token.
Sane(p) ==
  /\ proc[p].pc # "off" <=> lock = p
  /\ proc[p].pc # "off" => ~proc[p].fatal
  /\ proc[p].pc \in {"registering", "save", "rename"} => file = None
  /\ proc[p].pc = "rename" => tmp = proc[p].token
  /\ proc[p].pc \in Using => file = proc[p].token
  /\ proc[p].pc \in {"save", "rename"} \cup Using => proc[p].token \in AgentToken
  /\ proc[p].registered => proc[p].pc \in {"save", "rename"} \cup Using
  /\ proc[p].pc \in {"save", "rename"} => proc[p].cfg \in spent
  /\ proc[p].bootstrapped => proc[p].pc \in {"starting", "serving"} \cup Stopping
  /\ proc[p].beating => proc[p].pc = "serving"

\* A request that has a caller is the one its caller waits for.
Fits(q) ==
  /\ q.op = "register" => proc[q.to].pc = "registering" /\ q.arg = proc[q.to].cfg
  /\ q.op = "snapshot" => proc[q.to].pc = "snapshotting" /\ q.arg = proc[q.to].token
  /\ q.op = "heartbeat" => proc[q.to].pc = "serving" /\ q.arg = proc[q.to].token
  /\ q.op = "deregister" => proc[q.to].pc = "deregistering" /\ q.arg = proc[q.to].token

Requests == \A q \in wire : q.to # None => Fits(q)

\* With or without a caller, a Register carries a registration token.
Args == \A q \in wire : q.op = "register" => q.arg \in RegTokens

\* After the last agent has deregistered nothing can make it active.
Quiet ==
  gone => /\ record # "active"
          /\ \A q \in wire : q.op # "heartbeat"
          /\ lock # None => proc[lock].pc \in Stopping

HostInv ==
  /\ TypeOK /\ issued \in Nat /\ file # Partial
  /\ \A p \in Procs : Sane(p)
  /\ Requests /\ Args /\ Quiet

-----------------------------------------------------------------------------
\* Ended and new processes are well typed.
LEMMA BlankTyped ==
  /\ \A t \in RegTokens \cup {None} : NewProcess(t) \in Process
  /\ \A f \in BOOLEAN : Off(f) \in Process /\ Off(f).pc = "off" /\ Off(f).fatal = f
  /\ \A f \in BOOLEAN : ~Off(f).registered /\ ~Off(f).bootstrapped /\ ~Off(f).beating
BY DEF NewProcess, Off, Process, Starting, Stopping

\* A request with a caller is the only one to the process that holds the lock.
LEMMA OneCaller ==
  ASSUME HostInv, NEW q \in wire, q.to # None
  PROVE  /\ q.to \in Procs /\ lock = q.to /\ q.op \in Ops
         /\ \A r \in wire : r.to = q.to => r = q
<1>1. /\ q \in [to : Procs \cup {None}, op : Ops, arg : RegTokens \cup AgentToken]
      /\ Fits(q) /\ q.to \in Procs
  BY DEF HostInv, TypeOK, Requests
<1>2. proc[q.to].pc \in {"registering", "snapshotting", "serving", "deregistering"}
  BY <1>1 DEF Fits, Ops
<1>3. lock = q.to
  BY <1>1, <1>2 DEF HostInv, Sane
<1>4. ASSUME NEW r \in wire, r.to = q.to PROVE r = q
  <2>1. /\ r \in [to : Procs \cup {None}, op : Ops, arg : RegTokens \cup AgentToken]
        /\ Fits(r)
    BY <1>4 DEF HostInv, TypeOK, Requests
  <2>2. r.op = q.op /\ r.arg = q.arg
    BY <1>1, <1>4, <2>1 DEF Fits, Ops
  <2> QED
    BY <1>1, <1>4, <2>1, <2>2
<1> QED
  BY <1>1, <1>3, <1>4

\* A step of the process that holds the lock does not concern the others.
LEMMA HolderMoves ==
  ASSUME HostInv, NEW p \in Procs, lock = p, UNCHANGED lock,
         \A o \in Procs \ {p} : proc'[o] = proc[o], Sane(p)'
  PROVE  \A o \in Procs : Sane(o)'
<1>1. \A o \in Procs \ {p} : Sane(o) /\ proc[o].pc = "off"
  BY DEF HostInv, Sane
<1> QED
  BY <1>1 DEF Sane, Using, Stopping

\* A process that ends leaves nobody running and no caller.
LEMMA ExitStep ==
  ASSUME HostInv, NEW p \in Procs, lock = p, NEW f \in BOOLEAN, NEW rest \in SUBSET wire,
         Exit(p, f, rest)
  PROVE  /\ proc' \in [Procs -> Process] /\ lock' = None /\ \A o \in Procs : Sane(o)'
         /\ wire' \subseteq [to : Procs \cup {None}, op : Ops, arg : RegTokens \cup AgentToken]
         /\ Requests' /\ Args' /\ \A q \in wire' : \E r \in wire : q.op = r.op
         /\ proc'[p] = Off(f) /\ \A o \in Procs \ {p} : proc'[o] = proc[o]
<1>1. /\ proc'[p] = Off(f) /\ \A o \in Procs \ {p} : proc'[o] = proc[o]
      /\ lock' = None /\ wire' = Orphaned(rest, p)
  BY DEF Exit, HostInv, TypeOK
<1>2. proc' \in [Procs -> Process]
  BY BlankTyped DEF Exit, HostInv, TypeOK
<1>3. \A o \in Procs \ {p} : Sane(o) /\ proc[o].pc = "off"
  BY DEF HostInv, Sane
<1>4. \A o \in Procs : Sane(o)'
  BY <1>1, <1>3, BlankTyped, AgentHostAssumption DEF Sane, Using, Stopping
<1>5. \A q \in rest : /\ q \in [to : Procs \cup {None}, op : Ops, arg : RegTokens \cup AgentToken]
                      /\ q.to # None => q.to = p
  BY OneCaller DEF HostInv, TypeOK
<1>6. ASSUME NEW q \in wire'
      PROVE  /\ q \in [to : Procs \cup {None}, op : Ops, arg : RegTokens \cup AgentToken]
             /\ q.to = None /\ \E r \in wire : q.op = r.op /\ q.arg = r.arg
  <2>1. CASE q \in rest /\ q.to # p
    BY <1>5, <2>1
  <2>2. ASSUME NEW r \in rest, q = [r EXCEPT !.to = None]
        PROVE  /\ q \in [to : Procs \cup {None}, op : Ops, arg : RegTokens \cup AgentToken]
               /\ q.to = None /\ \E x \in wire : q.op = x.op /\ q.arg = x.arg
    <3>1. r \in [to : Procs \cup {None}, op : Ops, arg : RegTokens \cup AgentToken] /\ r \in wire
      BY <1>5
    <3>2. q.op = r.op /\ q.to = None /\ q.arg = r.arg
      BY <2>2, <3>1
    <3> QED
      BY <2>2, <3>1, <3>2
  <2> QED
    BY <1>1, <2>1, <2>2 DEF Orphaned
<1> QED
  BY <1>1, <1>2, <1>4, <1>6 DEF Requests, Args, HostInv

\* A running process that goes to another step.
LEMMA Goes ==
  ASSUME HostInv, NEW p \in Procs, NEW pc \in {"off", "starting", "serving"} \cup Starting \cup Stopping,
         proc' = To(p, pc)
  PROVE  /\ proc' \in [Procs -> Process] /\ \A o \in Procs \ {p} : proc'[o] = proc[o]
         /\ proc'[p].pc = pc /\ proc'[p].cfg = proc[p].cfg /\ proc'[p].token = proc[p].token
         /\ proc'[p].bootstrapped = proc[p].bootstrapped /\ proc'[p].beating = proc[p].beating
         /\ proc'[p].registered = proc[p].registered /\ proc'[p].fatal = proc[p].fatal
<1>1. proc[p] \in Process
  BY DEF HostInv, TypeOK
<1>2. /\ proc'[p] = [proc[p] EXCEPT !.pc = pc] /\ \A o \in Procs \ {p} : proc'[o] = proc[o]
  BY DEF To, HostInv, TypeOK
<1>3. proc'[p] \in Process
  BY <1>1, <1>2 DEF Process
<1>4. proc' \in [Procs -> Process]
  BY <1>2, <1>3 DEF To, HostInv, TypeOK
<1> QED
  BY <1>1, <1>2, <1>4 DEF Process

\* A process that is not off holds the lock.
LEMMA HoldsLock ==
  ASSUME HostInv, NEW p \in Procs, proc[p].pc # "off"
  PROVE  lock = p /\ Sane(p) /\ p # None
BY AgentHostAssumption DEF HostInv, Sane

\* A request a process sends is the one it waits for.
LEMMA SendStep ==
  ASSUME HostInv, NEW p \in Procs, lock = p, \A q \in wire : q.to # p,
         \A o \in Procs \ {p} : proc'[o] = proc[o],
         NEW op \in Ops, NEW arg \in RegTokens \cup AgentToken, Send(p, op, arg),
         op = "register" => arg \in RegTokens,
         op = "register" => proc'[p].pc = "registering" /\ arg = proc'[p].cfg,
         op = "snapshot" => proc'[p].pc = "snapshotting" /\ arg = proc'[p].token,
         op = "heartbeat" => proc'[p].pc = "serving" /\ arg = proc'[p].token,
         op = "deregister" => proc'[p].pc = "deregistering" /\ arg = proc'[p].token
  PROVE  /\ wire' \subseteq [to : Procs \cup {None}, op : Ops, arg : RegTokens \cup AgentToken]
         /\ Requests' /\ Args'
<1>1. PICK n : n = [to |-> p, op |-> op, arg |-> arg]
  OBVIOUS
<1>2. /\ wire' = wire \cup {n} /\ n.to = p /\ n.op = op /\ n.arg = arg
      /\ n \in [to : Procs \cup {None}, op : Ops, arg : RegTokens \cup AgentToken]
  BY <1>1 DEF Send
<1>3. Fits(n)'
  BY <1>2 DEF Fits
<1>4. \A q \in wire : q.to = None
  BY OneCaller
<1> QED
  BY <1>2, <1>3, <1>4 DEF Requests, Args, HostInv, TypeOK

\* Requests of a process that is about to send one.
LEMMA NoCaller ==
  ASSUME HostInv, NEW p \in Procs, lock = p,
         proc[p].pc \notin {"registering", "snapshotting", "serving", "deregistering"}
  PROVE  \A q \in wire : q.to = None
<1> SUFFICES ASSUME NEW q \in wire, q.to # None PROVE FALSE
  OBVIOUS
<1>1. q.to = p /\ q.op \in Ops /\ Fits(q)
  BY OneCaller DEF HostInv, Requests
<1> QED
  BY <1>1 DEF Fits, Ops

\* The rest of the control plane stays as it is.
Rest == UNCHANGED <<spent, record, valid, issued>>

\* A process is started.
LEMMA StartStep ==
  ASSUME HostInv, NEW p \in Procs, NEW t \in RegTokens \cup {None}, Start(p, t)
  PROVE  HostInv'
<1>1. CASE lock = None
  <2>1. /\ lock' = p /\ proc' = [proc EXCEPT ![p] = NewProcess(t)] /\ gone' = FALSE
        /\ Rest /\ UNCHANGED <<file, tmp, wire>>
    BY <1>1 DEF Start, Acquire, Rest, cpVars, diskVars
  <2>2. /\ proc' \in [Procs -> Process] /\ proc'[p] = NewProcess(t)
        /\ \A o \in Procs \ {p} : proc'[o] = proc[o]
    BY <2>1, BlankTyped DEF HostInv, TypeOK
  <2>3. \A q \in wire : q.to = None
    BY <1>1, OneCaller, AgentHostAssumption
  <2>4. \A o \in Procs : proc[o].pc = "off" /\ Sane(o)
    BY <1>1, AgentHostAssumption DEF HostInv, Sane
  <2>5. \A o \in Procs : Sane(o)'
    BY <1>1, <2>1, <2>2, <2>4, AgentHostAssumption DEF Sane, NewProcess, Using, Stopping
  <2> QED
    BY <2>1, <2>2, <2>3, <2>5 DEF HostInv, TypeOK, Requests, Args, Quiet, Rest
<1>2. CASE lock # None
  <2>1. /\ proc' = [proc EXCEPT ![p] = Off(FALSE)] /\ Rest
        /\ UNCHANGED <<file, tmp, wire, lock, gone>> /\ proc[p].pc = "off"
    BY <1>2 DEF Start, Acquire, Rest, cpVars, diskVars
  <2>2. /\ proc' \in [Procs -> Process] /\ proc'[p] = Off(FALSE)
        /\ \A o \in Procs \ {p} : proc'[o] = proc[o]
    BY <2>1, BlankTyped DEF HostInv, TypeOK
  <2>3. lock # p /\ (lock # None => lock \in Procs \ {p})
    BY <2>1 DEF HostInv, Sane, TypeOK
  <2>4. \A o \in Procs : Sane(o)'
    <3>1. Sane(p)'
      BY <2>1, <2>2, <2>3, BlankTyped DEF Sane, Using, Stopping
    <3>2. \A o \in Procs \ {p} : Sane(o)'
      BY <2>1, <2>2 DEF HostInv, Sane, Rest
    <3> QED
      BY <3>1, <3>2
  <2>5. \A q \in wire : q.to # p
    BY <2>3, OneCaller, AgentHostAssumption
  <2>6. Requests'
    <3> SUFFICES ASSUME NEW q \in wire, q.to # None PROVE Fits(q)'
      BY <2>1 DEF Requests
    <3>1. q.to \in Procs \ {p} /\ Fits(q)
      BY <2>5, OneCaller DEF HostInv, Requests
    <3> QED
      BY <2>2, <3>1 DEF Fits
  <2>7. Quiet'
    <3>1. proc'[lock'] = proc[lock] /\ lock' = lock
      BY <1>2, <2>1, <2>2, <2>3
    <3> QED
      BY <2>1, <3>1 DEF HostInv, Quiet, Rest
  <2> QED
    BY <2>1, <2>2, <2>4, <2>6, <2>7 DEF HostInv, TypeOK, Rest, Args
<1> QED
  BY <1>1, <1>2

\* A process ends in a way that concerns only the temporary file.
LEMMA EndStep ==
  ASSUME HostInv, NEW p \in Procs, lock = p, NEW f \in BOOLEAN, NEW rest \in SUBSET wire,
         Exit(p, f, rest), UNCHANGED <<file, gone>>,
         tmp' \in AgentToken \cup {None, Partial},
         spent' \subseteq RegTokens, record' \in {None, "passive", "active"},
         issued' <= Cardinality(spent'), valid' \subseteq 1..issued', issued' \in Nat,
         record' # "active" \/ record' = record
  PROVE  HostInv'
<1>1. /\ proc' \in [Procs -> Process] /\ lock' = None /\ \A o \in Procs : Sane(o)'
      /\ wire' \subseteq [to : Procs \cup {None}, op : Ops, arg : RegTokens \cup AgentToken]
      /\ Requests' /\ Args' /\ \A q \in wire' : \E r \in wire : q.op = r.op
  BY ExitStep
<1>2. Quiet'
  BY <1>1 DEF HostInv, Quiet
<1> QED
  BY <1>1, <1>2 DEF HostInv, TypeOK

\* What the errors of a start do.
LEMMA Errors ==
  /\ IsPermanentBootstrapError("ErrBootstrapState") /\ IsPermanentBootstrapError("ErrBootstrapConfig")
  /\ ~IsPermanentBootstrapError("Unavailable") /\ ~IsPermanentBootstrapError("Internal")
BY DEF IsPermanentBootstrapError, IsAuthRejected

\* There is either no state file or a whole one.
LEMMA Loaded ==
  ASSUME HostInv
  PROVE  Load = IF file = None THEN "ErrNotExist" ELSE "OK"
<1>1. file # Partial
  BY DEF HostInv
<1> QED
  BY <1>1 DEF Load

\* Load, and the request to register.
LEMMA BootstrapStep ==
  ASSUME HostInv, NEW p \in Procs, BootstrapCredentials(p)
  PROVE  HostInv'
<1>1. proc[p].pc = "load" /\ lock = p /\ Sane(p) /\ Rest /\ UNCHANGED <<file, tmp, gone>>
  BY HoldsLock DEF BootstrapCredentials, Rest, cpVars, diskVars
<1>2. /\ \A q \in wire : q.to = None
      /\ ~gone /\ proc[p] \in Process /\ p # None
  BY <1>1, NoCaller, AgentHostAssumption DEF HostInv, Quiet, Stopping, TypeOK
<1>3. CASE file = None /\ proc[p].cfg = None
  <2>1. Exit(p, TRUE, wire)
    BY <1>1, <1>3, Loaded, Errors DEF BootstrapCredentials, RetryOrExit
  <2> QED
    BY <1>1, <2>1, EndStep DEF HostInv, TypeOK, Rest
<1>4. CASE file = None /\ proc[p].cfg # None
  <2>1. proc' = To(p, "registering") /\ Send(p, "register", proc[p].cfg) /\ UNCHANGED lock
    BY <1>1, <1>4, Loaded DEF BootstrapCredentials
  <2>2. /\ proc' \in [Procs -> Process] /\ \A o \in Procs \ {p} : proc'[o] = proc[o]
        /\ proc'[p].pc = "registering" /\ proc'[p].cfg = proc[p].cfg
        /\ proc'[p].bootstrapped = proc[p].bootstrapped /\ proc'[p].beating = proc[p].beating
        /\ proc'[p].registered = proc[p].registered /\ proc'[p].fatal = proc[p].fatal
    BY <2>1, Goes DEF Starting
  <2>3. proc[p].cfg \in RegTokens
    BY <1>2, <1>4 DEF Process
  <2>4. /\ wire' \subseteq [to : Procs \cup {None}, op : Ops, arg : RegTokens \cup AgentToken]
        /\ Requests' /\ Args'
    BY <1>1, <1>2, <2>1, <2>2, <2>3, SendStep DEF Ops
  <2>5. Sane(p)'
    BY <1>1, <1>4, <2>1, <2>2 DEF Sane, Using, Stopping
  <2>6. \A o \in Procs : Sane(o)'
    BY <1>1, <2>1, <2>2, <2>5, HolderMoves
  <2> QED
    BY <1>1, <1>2, <2>1, <2>2, <2>4, <2>6 DEF HostInv, TypeOK, Rest, Quiet
<1>5. CASE file # None
  <2>1. /\ proc' = [proc EXCEPT ![p].pc = "snapshot", ![p].token = file]
        /\ UNCHANGED <<lock, wire>> /\ file \in AgentToken
    BY <1>1, <1>5, Loaded DEF BootstrapCredentials, HostInv, TypeOK
  <2>2. /\ proc'[p] = [proc[p] EXCEPT !.pc = "snapshot", !.token = file]
        /\ \A o \in Procs \ {p} : proc'[o] = proc[o]
    BY <2>1 DEF HostInv, TypeOK
  <2>3. proc' \in [Procs -> Process]
    BY <1>2, <2>1, <2>2 DEF HostInv, TypeOK, Process, Starting
  <2>4. /\ proc'[p].pc = "snapshot" /\ proc'[p].token = file
        /\ proc'[p].bootstrapped = proc[p].bootstrapped /\ proc'[p].beating = proc[p].beating
        /\ proc'[p].fatal = proc[p].fatal
    BY <1>2, <2>2 DEF Process
  <2>5. Sane(p)'
    BY <1>1, <2>1, <2>4 DEF Sane, Using, Stopping
  <2>6. \A o \in Procs : Sane(o)'
    BY <1>1, <2>1, <2>2, <2>5, HolderMoves
  <2> QED
    BY <1>1, <1>2, <2>1, <2>3, <2>6 DEF HostInv, TypeOK, Rest, Quiet, Requests, Args
<1> QED
  BY <1>3, <1>4, <1>5

\* A state file that cannot be read ends the process.
LEMMA LoadFailsKeeps ==
  ASSUME HostInv, NEW p \in Procs, LoadFails(p)
  PROVE  HostInv'
<1>1. /\ proc[p].pc = "load" /\ Rest /\ UNCHANGED <<file, tmp, gone>> /\ Exit(p, TRUE, wire)
  BY Errors DEF LoadFails, Rest, cpVars, diskVars, RetryOrExit
<1>2. lock = p
  BY <1>1, HoldsLock
<1> QED
  BY <1>1, <1>2, EndStep DEF HostInv, TypeOK, Rest

\* The process that holds the lock goes on.
LEMMA Moves ==
  ASSUME HostInv, NEW p \in Procs, lock = p, UNCHANGED lock, Rest, UNCHANGED gone,
         proc' \in [Procs -> Process], \A o \in Procs \ {p} : proc'[o] = proc[o], Sane(p)',
         wire' \subseteq [to : Procs \cup {None}, op : Ops, arg : RegTokens \cup AgentToken],
         Requests', Args',
         {file', tmp'} \subseteq AgentToken \cup {None, Partial}, file' # Partial,
         gone => proc'[p].pc \in Stopping,
         gone => \A q \in wire' : q.op # "heartbeat"
  PROVE  HostInv'
<1>1. \A o \in Procs : Sane(o)'
  BY HolderMoves
<1>2. Quiet'
  BY DEF Quiet, HostInv, Rest
<1> QED
  BY <1>1, <1>2 DEF HostInv, TypeOK, Rest

\* A process before it serves shows that nobody has deregistered.
LEMMA NotGone ==
  ASSUME HostInv, NEW p \in Procs, lock = p, proc[p].pc \notin Stopping
  PROVE  ~gone
BY AgentHostAssumption DEF HostInv, Quiet

\* The temporary file is written and renamed.
LEMMA SaveStepKeeps ==
  ASSUME HostInv, NEW p \in Procs, SaveStep(p)
  PROVE  HostInv'
<1>1. /\ proc[p].pc \in {"save", "rename"} /\ lock = p /\ Sane(p) /\ Rest
      /\ UNCHANGED <<lock, wire, gone>>
  BY HoldsLock DEF SaveStep, Rest, cpVars
<1>2. ~gone
  BY <1>1, NotGone DEF Stopping
<1>3. \A q \in wire : q.to = None
  BY <1>1, NoCaller
<1>4. proc[p].token \in AgentToken /\ file = None
  BY <1>1 DEF Sane
<1>5. Requests' /\ Args'
  BY <1>1, <1>3 DEF HostInv, Requests, Args
<1>6. CASE proc[p].pc = "save"
  <2>1. tmp' = proc[p].token /\ proc' = To(p, "rename") /\ UNCHANGED file
    BY <1>6 DEF SaveStep
  <2>2. /\ proc' \in [Procs -> Process] /\ \A o \in Procs \ {p} : proc'[o] = proc[o]
        /\ proc'[p].pc = "rename" /\ proc'[p].cfg = proc[p].cfg /\ proc'[p].token = proc[p].token
        /\ proc'[p].bootstrapped = proc[p].bootstrapped /\ proc'[p].beating = proc[p].beating
        /\ proc'[p].registered = proc[p].registered /\ proc'[p].fatal = proc[p].fatal
    BY <2>1, Goes DEF Starting
  <2>3. Sane(p)'
    BY <1>1, <1>4, <1>6, <2>1, <2>2 DEF Sane, Using, Stopping, Rest
  <2>4. {file', tmp'} \subseteq AgentToken \cup {None, Partial} /\ file' # Partial
    BY <1>4, <2>1 DEF HostInv, TypeOK
  <2> QED
    BY <1>1, <1>2, <1>5, <2>2, <2>3, <2>4, Moves DEF HostInv, TypeOK
<1>7. CASE proc[p].pc = "rename"
  <2>1. file' = tmp /\ tmp' = None /\ proc' = To(p, "snapshot") /\ tmp = proc[p].token
    BY <1>1, <1>7 DEF SaveStep, Sane
  <2>2. /\ proc' \in [Procs -> Process] /\ \A o \in Procs \ {p} : proc'[o] = proc[o]
        /\ proc'[p].pc = "snapshot" /\ proc'[p].cfg = proc[p].cfg /\ proc'[p].token = proc[p].token
        /\ proc'[p].bootstrapped = proc[p].bootstrapped /\ proc'[p].beating = proc[p].beating
        /\ proc'[p].registered = proc[p].registered /\ proc'[p].fatal = proc[p].fatal
    BY <2>1, Goes DEF Starting
  <2>3. Sane(p)'
    BY <1>1, <1>4, <1>7, <2>1, <2>2 DEF Sane, Using, Stopping, Rest
  <2>4. {file', tmp'} \subseteq AgentToken \cup {None, Partial} /\ file' # Partial
    <3>1. file' \in AgentToken /\ Partial \notin AgentToken
      BY <1>4, <2>1 DEF AgentToken, Partial
    <3> QED
      BY <2>1, <3>1
  <2> QED
    BY <1>1, <1>2, <1>5, <2>2, <2>3, <2>4, Moves DEF HostInv, TypeOK
<1> QED
  BY <1>1, <1>6, <1>7

\* A failed Save ends the process.
LEMMA SaveFailsKeeps ==
  ASSUME HostInv, NEW p \in Procs, SaveFails(p)
  PROVE  HostInv'
<1>1. /\ proc[p].pc \in {"save", "rename"} /\ Rest /\ UNCHANGED <<file, gone>>
      /\ tmp' \in {tmp, Partial, None} /\ Exit(p, TRUE, wire)
  BY Errors DEF SaveFails, Rest, cpVars, RetryOrExit
<1>2. lock = p
  BY <1>1, HoldsLock
<1> QED
  BY <1>1, <1>2, EndStep DEF HostInv, TypeOK, Rest

\* The snapshot is asked for.
LEMMA SendSnapshotKeeps ==
  ASSUME HostInv, NEW p \in Procs, SendSnapshot(p)
  PROVE  HostInv'
<1>1. /\ proc[p].pc = "snapshot" /\ lock = p /\ Sane(p) /\ Rest /\ p # None
      /\ UNCHANGED <<lock, file, tmp, gone>>
      /\ proc' = To(p, "snapshotting") /\ Send(p, "snapshot", proc[p].token)
  BY HoldsLock DEF SendSnapshot, Rest, cpVars, diskVars
<1>2. ~gone /\ \A q \in wire : q.to = None
  BY <1>1, NotGone, NoCaller DEF Stopping
<1>3. /\ proc' \in [Procs -> Process] /\ \A o \in Procs \ {p} : proc'[o] = proc[o]
      /\ proc'[p].pc = "snapshotting" /\ proc'[p].cfg = proc[p].cfg /\ proc'[p].token = proc[p].token
      /\ proc'[p].bootstrapped = proc[p].bootstrapped /\ proc'[p].beating = proc[p].beating
      /\ proc'[p].registered = proc[p].registered /\ proc'[p].fatal = proc[p].fatal
  BY <1>1, Goes DEF Starting
<1>4. Sane(p)' /\ proc[p].token \in AgentToken
  BY <1>1, <1>3 DEF Sane, Using, Stopping, Rest
<1>5. /\ wire' \subseteq [to : Procs \cup {None}, op : Ops, arg : RegTokens \cup AgentToken]
      /\ Requests' /\ Args'
  BY <1>1, <1>2, <1>3, <1>4, SendStep DEF Ops
<1> QED
  BY <1>1, <1>2, <1>3, <1>4, <1>5, Moves DEF HostInv, TypeOK

\* The agent starts to serve.
LEMMA ServeKeeps ==
  ASSUME HostInv, NEW p \in Procs, Serve(p)
  PROVE  HostInv'
<1>1. /\ proc[p].pc = "starting" /\ lock = p /\ Sane(p) /\ Rest /\ proc[p] \in Process
      /\ UNCHANGED <<lock, file, tmp, wire, gone>>
      /\ proc' = [proc EXCEPT ![p].pc = "serving", ![p].beating = TRUE]
  BY HoldsLock DEF Serve, Rest, cpVars, diskVars, HostInv, TypeOK
<1>2. ~gone /\ \A q \in wire : q.to = None
  BY <1>1, NotGone, NoCaller DEF Stopping
<1>3. /\ proc'[p] = [proc[p] EXCEPT !.pc = "serving", !.beating = TRUE]
      /\ \A o \in Procs \ {p} : proc'[o] = proc[o]
  BY <1>1 DEF HostInv, TypeOK
<1>4. /\ proc'[p].pc = "serving" /\ proc'[p].token = proc[p].token
      /\ proc'[p].fatal = proc[p].fatal
  <2>1. proc[p] \in Process
    BY <1>1
  <2> QED
    BY <1>3, <2>1 DEF Process
<1>5. proc' \in [Procs -> Process]
  <2>1. [proc[p] EXCEPT !.pc = "serving", !.beating = TRUE] \in Process
    BY <1>1 DEF Process
  <2> QED
    BY <1>1, <1>3, <2>1 DEF HostInv, TypeOK
<1>6. Sane(p)'
  BY <1>1, <1>4 DEF Sane, Using, Stopping
<1>7. Requests' /\ Args'
  BY <1>1, <1>2 DEF HostInv, Requests, Args
<1> QED
  BY <1>1, <1>2, <1>3, <1>5, <1>6, <1>7, Moves DEF HostInv, TypeOK

\* A heartbeat is sent.
LEMMA HeartbeatKeeps ==
  ASSUME HostInv, NEW p \in Procs, Heartbeat(p)
  PROVE  HostInv'
<1>1. /\ proc[p].beating /\ ~BeatUnderWay(p) /\ Rest /\ UNCHANGED <<proc, lock, file, tmp, gone>>
      /\ Send(p, "heartbeat", proc[p].token)
  BY DEF Heartbeat, Rest, cpVars, diskVars
<1>2. proc[p].pc = "serving" /\ lock = p /\ Sane(p) /\ p # None
  BY <1>1, HoldsLock DEF HostInv, Sane
<1>3. ~gone
  BY <1>2, NotGone DEF Stopping
<1>4. \A q \in wire : q.to # p
  <2> SUFFICES ASSUME NEW q \in wire, q.to = p PROVE FALSE
    OBVIOUS
  <2>1. q.op \in Ops /\ Fits(q)
    BY <1>2, OneCaller DEF HostInv, Requests
  <2> QED
    BY <1>1, <1>2, <2>1 DEF Fits, Ops, BeatUnderWay
<1>5. proc[p].token \in AgentToken /\ Sane(p)'
  BY <1>1, <1>2 DEF Sane, Using, Rest
<1>6. /\ wire' \subseteq [to : Procs \cup {None}, op : Ops, arg : RegTokens \cup AgentToken]
      /\ Requests' /\ Args'
  BY <1>1, <1>2, <1>4, <1>5, SendStep DEF Ops
<1> QED
  BY <1>1, <1>2, <1>3, <1>5, <1>6, Moves DEF HostInv, TypeOK

\* What becomes of a request whose caller does not wait for it any more.
LEMMA OrphanedTyped ==
  ASSUME HostInv, NEW p \in Procs, lock = p, NEW S \in SUBSET wire
  PROVE  \A q \in Orphaned(S, p) :
           /\ q \in [to : Procs \cup {None}, op : Ops, arg : RegTokens \cup AgentToken]
           /\ q.to = None
           /\ \E r \in S : q.op = r.op /\ q.arg = r.arg
<1>1. \A r \in S : /\ r \in [to : Procs \cup {None}, op : Ops, arg : RegTokens \cup AgentToken]
                   /\ r.to # None => r.to = p
  BY OneCaller DEF HostInv, TypeOK
<1> SUFFICES ASSUME NEW q \in Orphaned(S, p)
             PROVE  /\ q \in [to : Procs \cup {None}, op : Ops, arg : RegTokens \cup AgentToken]
                    /\ q.to = None
                    /\ \E r \in S : q.op = r.op /\ q.arg = r.arg
  OBVIOUS
<1>2. CASE q \in S /\ q.to # p
  BY <1>1, <1>2
<1>3. ASSUME NEW r \in S, q = [r EXCEPT !.to = None]
      PROVE  /\ q \in [to : Procs \cup {None}, op : Ops, arg : RegTokens \cup AgentToken]
             /\ q.to = None /\ q.op = r.op /\ q.arg = r.arg
  BY <1>1, <1>3
<1> QED
  BY <1>2, <1>3 DEF Orphaned

\* A request that loses its caller asks for nothing new.
LEMMA NobodyWaits ==
  ASSUME HostInv,
         \A q \in wire' : q \in [to : Procs \cup {None}, op : Ops, arg : RegTokens \cup AgentToken],
         \A q \in wire' : q.to = None,
         \A q \in wire' : \E r \in wire : q.op = r.op /\ q.arg = r.arg
  PROVE  /\ wire' \subseteq [to : Procs \cup {None}, op : Ops, arg : RegTokens \cup AgentToken]
         /\ Requests' /\ Args' /\ (gone => \A q \in wire' : q.op # "heartbeat")
BY DEF HostInv, Requests, Args, Quiet

\* What Stop makes of a process.
LEMMA StoppedTyped ==
  ASSUME NEW s \in Process
  PROVE  /\ Stopped(s) \in Process /\ Stopped(s).pc = "stopping" /\ ~Stopped(s).beating
         /\ Stopped(s).token = s.token /\ Stopped(s).fatal = s.fatal
<1>1. Stopped(s) = [s EXCEPT !.pc = "stopping", !.shuttingDown = TRUE, !.beating = FALSE]
  BY DEF Stopped
<1>2. [s EXCEPT !.pc = "stopping", !.shuttingDown = TRUE, !.beating = FALSE] \in Process
  BY DEF Process, Stopping
<1> QED
  BY <1>1, <1>2 DEF Process

\* The loops are stopped.
LEMMA StopKeeps ==
  ASSUME HostInv, NEW p \in Procs, Stop(p)
  PROVE  HostInv'
<1>1. /\ proc[p].pc = "serving" /\ lock = p /\ Sane(p) /\ Rest /\ proc[p] \in Process
      /\ UNCHANGED <<lock, file, tmp, gone>>
      /\ proc' = [proc EXCEPT ![p] = Stopped(@)] /\ wire' = Orphaned(wire, p)
  BY HoldsLock DEF Stop, Rest, cpVars, diskVars, HostInv, TypeOK
<1>2. /\ proc'[p] = Stopped(proc[p]) /\ \A o \in Procs \ {p} : proc'[o] = proc[o]
  BY <1>1 DEF HostInv, TypeOK
<1>3. proc' \in [Procs -> Process]
  BY <1>1, StoppedTyped DEF HostInv, TypeOK
<1>4. Sane(p)' /\ proc'[p].pc \in Stopping
  BY <1>1, <1>2, StoppedTyped DEF Sane, Using, Stopping
<1>5. /\ wire' \subseteq [to : Procs \cup {None}, op : Ops, arg : RegTokens \cup AgentToken]
      /\ Requests' /\ Args' /\ (gone => \A q \in wire' : q.op # "heartbeat")
  BY <1>1, OrphanedTyped, NobodyWaits
<1> QED
  BY <1>1, <1>2, <1>3, <1>4, <1>5, Moves DEF HostInv, TypeOK

\* Deregister is sent.
LEMMA DeregisterKeeps ==
  ASSUME HostInv, NEW p \in Procs, Deregister(p)
  PROVE  HostInv'
<1>1. /\ proc[p].pc = "stopping" /\ lock = p /\ Sane(p) /\ Rest /\ p # None
      /\ UNCHANGED <<lock, file, tmp, gone>>
      /\ proc' = To(p, "deregistering") /\ Send(p, "deregister", proc[p].token)
  BY HoldsLock DEF Deregister, Rest, cpVars, diskVars
<1>2. \A q \in wire : q.to = None
  BY <1>1, NoCaller
<1>3. /\ proc' \in [Procs -> Process] /\ \A o \in Procs \ {p} : proc'[o] = proc[o]
      /\ proc'[p].pc = "deregistering" /\ proc'[p].cfg = proc[p].cfg /\ proc'[p].token = proc[p].token
      /\ proc'[p].bootstrapped = proc[p].bootstrapped /\ proc'[p].beating = proc[p].beating
      /\ proc'[p].registered = proc[p].registered /\ proc'[p].fatal = proc[p].fatal
  BY <1>1, Goes DEF Stopping
<1>4. Sane(p)' /\ proc[p].token \in AgentToken /\ proc'[p].pc \in Stopping
  BY <1>1, <1>3 DEF Sane, Using, Stopping, Rest
<1>5. /\ wire' \subseteq [to : Procs \cup {None}, op : Ops, arg : RegTokens \cup AgentToken]
      /\ Requests' /\ Args'
  BY <1>1, <1>2, <1>3, <1>4, SendStep DEF Ops
<1>6. gone => \A q \in wire' : q.op # "heartbeat"
  BY <1>1 DEF Send, HostInv, Quiet
<1> QED
  BY <1>1, <1>3, <1>4, <1>5, <1>6, Moves DEF HostInv, TypeOK

\* Draining and a crash end the process.
LEMMA DrainCrashKeeps ==
  ASSUME HostInv, NEW p \in Procs, Drain(p) \/ Crash(p)
  PROVE  HostInv'
<1>1. /\ proc[p].pc # "off" /\ Rest /\ UNCHANGED <<file, gone>>
      /\ tmp' \in {tmp, Partial} /\ Exit(p, FALSE, wire)
  BY DEF Drain, Crash, Rest, cpVars, diskVars
<1>2. lock = p
  BY <1>1, HoldsLock
<1> QED
  BY <1>1, <1>2, EndStep DEF HostInv, TypeOK, Rest

-----------------------------------------------------------------------------
\* The control plane's side of a Register: a token is consumed at most once, and
\* whoever is refused for good, or succeeds, has its token consumed, unless it
\* was Consume that failed.
LEMMA RegisterTyped ==
  ASSUME HostInv, NEW t \in RegTokens, NEW f,
         RegisterAtCP(t, f)
  PROVE  /\ spent' \subseteq RegTokens /\ spent \subseteq spent'
         /\ record' \in {None, "passive", "active"} /\ (record' = record \/ record' = "passive")
         /\ issued' \in Nat /\ issued' <= Cardinality(spent') /\ valid' \subseteq 1..issued'
         /\ RegisterCode(t, f) \in {"OK", "Internal", "Unauthenticated", "AlreadyExists"}
         /\ RegisterCode(t, f) # "Internal" /\ f # "consume" => t \in spent'
         /\ RegisterCode(t, f) = "OK" => issued' \in AgentToken
<1> DEFINE consumed == t \notin spent /\ f # "consume"
           created == consumed /\ record = None /\ f # "create"
           done == created /\ f # "issue"
<1>1. /\ spent' = IF consumed THEN spent \cup {t} ELSE spent
      /\ record' = IF created THEN "passive" ELSE record
      /\ issued' = IF done THEN issued + 1 ELSE issued
      /\ valid' = IF done THEN valid \cup {issued + 1} ELSE valid
  BY DEF RegisterAtCP
<1>2. /\ spent \subseteq RegTokens /\ record \in {None, "passive", "active"} /\ issued \in Nat
      /\ issued <= Cardinality(spent) /\ valid \subseteq 1..issued
  BY DEF HostInv, TypeOK
<1>3. spent' \subseteq RegTokens /\ spent \subseteq spent'
  BY <1>1, <1>2
<1>4. /\ IsFiniteSet(spent) /\ IsFiniteSet(spent') /\ Cardinality(spent') <= Cardinality(RegTokens)
      /\ Cardinality(spent) \in Nat /\ Cardinality(spent') \in Nat /\ Cardinality(RegTokens) \in Nat
      /\ Cardinality(spent) <= Cardinality(spent')
  BY <1>2, <1>3, AgentHostAssumption, FS_Subset, FS_CardinalityType
<1>5. consumed => Cardinality(spent') = Cardinality(spent) + 1
  BY <1>1, <1>4, FS_AddElement
<1> DEFINE c == Cardinality(spent)
           d == Cardinality(spent')
           r == Cardinality(RegTokens)
<1>6. /\ issued' \in Nat /\ issued' <= d /\ valid' \subseteq 1..issued'
      /\ done => issued' \in 1..r
  <2>1. /\ c \in Nat /\ d \in Nat /\ r \in Nat /\ c <= d /\ d <= r
        /\ issued \in Nat /\ issued <= c /\ valid \subseteq 1..issued
    BY <1>2, <1>4
  <2>2. CASE done
    <3>1. issued' = issued + 1 /\ valid' = valid \cup {issued + 1}
      BY <1>1, <2>2
    <3>2. d = c + 1
      BY <1>5, <2>2
    <3> HIDE DEF done, c, d, r
    <3>3. issued' \in Nat /\ issued' <= d /\ issued' \in 1..r
      BY <2>1, <3>1, <3>2
    <3>4. valid' \subseteq 1..issued'
      BY <2>1, <3>1
    <3> QED
      BY <3>3, <3>4
  <2>3. CASE ~done
    <3>1. issued' = issued /\ valid' = valid
      BY <1>1, <2>3
    <3> HIDE DEF done, c, d, r
    <3> QED
      BY <2>1, <2>3, <3>1
  <2> QED
    BY <2>2, <2>3
<1>7. /\ RegisterCode(t, f) \in {"OK", "Internal", "Unauthenticated", "AlreadyExists"}
      /\ RegisterCode(t, f) # "Internal" /\ f # "consume" => t \in spent'
  BY <1>1 DEF RegisterCode
<1>8. RegisterCode(t, f) = "OK" => done
  BY DEF RegisterCode
<1>9. RegisterCode(t, f) = "OK" => issued' \in AgentToken
  BY <1>6, <1>8 DEF AgentToken
<1> QED
  BY <1>1, <1>2, <1>3, <1>6, <1>7, <1>9

\* A request that was answered is gone, and with it the only caller.
LEMMA Settled ==
  ASSUME HostInv, NEW q \in wire, wire' = wire \ {q}, q.to # None
  PROVE  /\ wire' \subseteq [to : Procs \cup {None}, op : Ops, arg : RegTokens \cup AgentToken]
         /\ Requests' /\ Args' /\ (gone => \A r \in wire' : r.op # "heartbeat")
<1>1. \A r \in wire' : r.to = None
  BY OneCaller
<1> QED
  BY <1>1, NobodyWaits DEF HostInv, TypeOK

\* A Register that was answered, whatever the control plane made of it.
LEMMA RegisterAnswered ==
  ASSUME HostInv, NEW q \in wire, q.op = "register", q.to # None,
         NEW code \in {"OK", "Internal", "Unauthenticated", "AlreadyExists"}, Answered(q, code),
         spent' \subseteq RegTokens, spent \subseteq spent',
         record' \in {None, "passive", "active"}, record' = record \/ record' = "passive",
         issued' \in Nat, issued' <= Cardinality(spent'), valid' \subseteq 1..issued',
         code = "OK" => q.arg \in spent' /\ issued' \in AgentToken,
         UNCHANGED <<file, tmp, gone>>
  PROVE  HostInv'
<1>1. PICK p \in Procs : p = q.to
  BY OneCaller
<1>2. /\ lock = p /\ p # None /\ proc[p].pc = "registering" /\ proc[p].cfg = q.arg
      /\ Sane(p) /\ proc[p] \in Process
  BY <1>1, OneCaller DEF HostInv, Requests, Fits, TypeOK
<1>3. ~gone
  BY <1>2, NotGone DEF Stopping
<1>4. CASE code = "OK"
  <2>1. /\ proc' = [proc EXCEPT ![p] = [proc[p] EXCEPT !.pc = AfterRegister, !.token = issued', !.registered = TRUE]]
        /\ wire' = wire \ {q} /\ UNCHANGED lock
    BY <1>1, <1>2, <1>4 DEF Answered
  <2>2. PICK s : s = [proc[p] EXCEPT !.pc = AfterRegister, !.token = issued', !.registered = TRUE]
    OBVIOUS
  <2>3. /\ s \in Process /\ s.pc = "save" /\ s.token = issued' /\ s.cfg = proc[p].cfg
        /\ s.fatal = proc[p].fatal /\ s.bootstrapped = proc[p].bootstrapped
        /\ s.beating = proc[p].beating
    BY <1>2, <1>4, <2>2 DEF Process, AfterRegister, Starting
  <2>4. /\ proc'[p] = s /\ (\A o \in Procs \ {p} : proc'[o] = proc[o])
        /\ proc' \in [Procs -> Process]
    BY <2>1, <2>2, <2>3 DEF HostInv, TypeOK
  <2>5. Sane(p)'
    BY <1>2, <1>4, <2>1, <2>3, <2>4 DEF Sane, Using, Stopping
  <2>6. \A o \in Procs : Sane(o)'
    BY <1>2, <2>1, <2>4, <2>5, HolderMoves
  <2>7. /\ wire' \subseteq [to : Procs \cup {None}, op : Ops, arg : RegTokens \cup AgentToken]
        /\ Requests' /\ Args'
    BY <2>1, Settled
  <2> QED
    BY <1>3, <2>1, <2>4, <2>6, <2>7 DEF HostInv, TypeOK, Quiet
<1>5. CASE code \in {"Unauthenticated", "AlreadyExists"}
  <2>1. Exit(p, TRUE, wire \ {q})
    BY <1>1, <1>2, <1>5 DEF Answered, MapAgentAuth, IsPermanentBootstrapError, IsAuthRejected
  <2> QED
    BY <1>2, <2>1, EndStep DEF HostInv, TypeOK
<1>6. CASE code = "Internal"
  <2>1. /\ proc' = [proc EXCEPT ![p] = [proc[p] EXCEPT !.pc = "load"]]
        /\ wire' = wire \ {q} /\ UNCHANGED lock
    BY <1>1, <1>2, <1>6 DEF Answered, MapAgentAuth, IsPermanentBootstrapError, IsAuthRejected
  <2>2. proc' = To(p, "load")
    BY <2>1 DEF To, HostInv, TypeOK
  <2>3. /\ proc' \in [Procs -> Process] /\ \A o \in Procs \ {p} : proc'[o] = proc[o]
        /\ proc'[p].pc = "load" /\ proc'[p].cfg = proc[p].cfg /\ proc'[p].token = proc[p].token
        /\ proc'[p].bootstrapped = proc[p].bootstrapped /\ proc'[p].beating = proc[p].beating
        /\ proc'[p].registered = proc[p].registered /\ proc'[p].fatal = proc[p].fatal
    BY <2>2, Goes DEF Starting
  <2>4. Sane(p)'
    BY <1>2, <2>1, <2>3 DEF Sane, Using, Stopping
  <2>5. \A o \in Procs : Sane(o)'
    BY <1>2, <2>1, <2>3, <2>4, HolderMoves
  <2>6. /\ wire' \subseteq [to : Procs \cup {None}, op : Ops, arg : RegTokens \cup AgentToken]
        /\ Requests' /\ Args'
    BY <2>1, Settled
  <2> QED
    BY <1>3, <2>1, <2>3, <2>5, <2>6 DEF HostInv, TypeOK, Quiet
<1> QED
  BY <1>4, <1>5, <1>6

\* A Register in which Consume fails does not succeed.
LEMMA UnconsumedFails == \A t : RegisterCode(t, "consume") # "OK"
BY DEF RegisterCode

\* A Register is handled, or fails half-way.
LEMMA HandleRegisterKeeps ==
  ASSUME HostInv, NEW q \in wire, NEW f, HandleRegister(q, f)
  PROVE  HostInv'
<1>1. /\ q.op = "register" /\ RegisterAtCP(q.arg, f) /\ Answered(q, RegisterCode(q.arg, f))
      /\ UNCHANGED <<file, tmp, gone>> /\ q.arg \in RegTokens
  BY DEF HandleRegister, diskVars, HostInv, Args
<1>2. PICK code : code = RegisterCode(q.arg, f)
  OBVIOUS
<1>3. /\ spent' \subseteq RegTokens /\ spent \subseteq spent'
      /\ record' \in {None, "passive", "active"} /\ (record' = record \/ record' = "passive")
      /\ issued' \in Nat /\ issued' <= Cardinality(spent') /\ valid' \subseteq 1..issued'
      /\ code \in {"OK", "Internal", "Unauthenticated", "AlreadyExists"}
      /\ code = "OK" => q.arg \in spent' /\ issued' \in AgentToken
  BY <1>1, <1>2, RegisterTyped, UnconsumedFails
<1>4. CASE q.to # None
  BY <1>1, <1>2, <1>3, <1>4, RegisterAnswered
<1>5. CASE q.to = None
  <2>1. wire' = wire \ {q} /\ UNCHANGED <<proc, lock>>
    BY <1>1, <1>5 DEF Answered
  <2>2. \A o \in Procs : Sane(o)'
    BY <1>1, <1>3, <2>1 DEF HostInv, Sane
  <2>3. Requests' /\ Args' /\ Quiet'
    BY <1>1, <1>3, <2>1 DEF HostInv, Requests, Fits, Args, Quiet
  <2> QED
    BY <1>1, <1>3, <2>1, <2>2, <2>3 DEF HostInv, TypeOK
<1> QED
  BY <1>4, <1>5

\* What the caller of an authenticated call makes of the answer.
LEMMA CallAnswered ==
  ASSUME HostInv, NEW q \in wire, q.op # "register", q.to # None,
         NEW code \in {"OK", "Unauthenticated"}, Answered(q, code)
  PROVE  /\ wire' = wire \ {q} /\ UNCHANGED lock /\ lock = q.to
         /\ proc' \in [Procs -> Process] /\ (\A o \in Procs \ {q.to} : proc'[o] = proc[o])
         /\ q.op # "deregister" => proc[q.to].pc \notin Stopping
         /\ q.op = "deregister" => proc'[q.to].pc = "draining"
         /\ ~proc'[q.to].fatal
         /\ UNCHANGED <<file, tmp, spent>> => Sane(q.to)'
<1>1. PICK p \in Procs : p = q.to
  BY OneCaller
<1>2. /\ lock = p /\ p # None /\ Sane(p) /\ proc[p] \in Process /\ Fits(q) /\ q.op \in Ops
  BY <1>1, OneCaller DEF HostInv, Requests, TypeOK
<1>3. CASE q.op = "snapshot"
  <2>1. PICK s : /\ s = IF code = "OK" THEN [proc[p] EXCEPT !.pc = "starting", !.bootstrapped = TRUE]
                                      ELSE [proc[p] EXCEPT !.pc = "snapshot"]
                 /\ proc' = [proc EXCEPT ![p] = s] /\ wire' = wire \ {q} /\ UNCHANGED lock
    BY <1>1, <1>2, <1>3 DEF Answered, MapAgentAuth, IsAuthRejected
  <2>2. proc[p].pc = "snapshotting"
    BY <1>1, <1>2, <1>3 DEF Fits
  <2>3. /\ s \in Process /\ s.pc \in {"starting", "snapshot"} /\ s.token = proc[p].token
        /\ s.fatal = proc[p].fatal /\ s.beating = proc[p].beating
        /\ s.bootstrapped => s.pc = "starting" \/ proc[p].bootstrapped
    BY <1>2, <2>1 DEF Process, Starting
  <2>4. /\ proc'[p] = s /\ (\A o \in Procs \ {p} : proc'[o] = proc[o])
        /\ proc' \in [Procs -> Process]
    BY <2>1, <2>3 DEF HostInv, TypeOK
  <2>5. ~s.fatal /\ (UNCHANGED <<file, tmp, spent>> => Sane(p)')
    BY <1>2, <2>1, <2>2, <2>3, <2>4 DEF Sane, Using, Stopping
  <2> QED
    BY <1>1, <1>2, <1>3, <2>1, <2>2, <2>4, <2>5 DEF Stopping
<1>4. CASE q.op = "heartbeat"
  <2>1. PICK s : /\ s = IF code = "OK" THEN proc[p] ELSE Stopped(proc[p])
                 /\ proc' = [proc EXCEPT ![p] = s] /\ wire' = wire \ {q} /\ UNCHANGED lock
    BY <1>1, <1>2, <1>4 DEF Answered, MapAgentAuth, IsAuthRejected
  <2>2. proc[p].pc = "serving"
    BY <1>1, <1>2, <1>4 DEF Fits
  <2>3. /\ s \in Process /\ s.pc \in {"serving", "stopping"} /\ s.token = proc[p].token
        /\ s.fatal = proc[p].fatal /\ (s.beating => s.pc = "serving")
    BY <1>2, <2>1, <2>2, StoppedTyped
  <2>4. /\ proc'[p] = s /\ (\A o \in Procs \ {p} : proc'[o] = proc[o])
        /\ proc' \in [Procs -> Process]
    BY <2>1, <2>3 DEF HostInv, TypeOK
  <2>5. ~s.fatal /\ (UNCHANGED <<file, tmp, spent>> => Sane(p)')
    BY <1>2, <2>1, <2>2, <2>3, <2>4 DEF Sane, Using, Stopping
  <2> QED
    BY <1>1, <1>2, <1>4, <2>1, <2>2, <2>4, <2>5 DEF Stopping
<1>5. CASE q.op = "deregister"
  <2>1. /\ proc' = [proc EXCEPT ![p] = [proc[p] EXCEPT !.pc = "draining"]]
        /\ wire' = wire \ {q} /\ UNCHANGED lock
    BY <1>1, <1>2, <1>5 DEF Answered
  <2>2. proc' = To(p, "draining") /\ proc[p].pc = "deregistering"
    BY <1>1, <1>2, <1>5, <2>1 DEF To, HostInv, TypeOK, Fits
  <2>3. /\ proc' \in [Procs -> Process] /\ \A o \in Procs \ {p} : proc'[o] = proc[o]
        /\ proc'[p].pc = "draining" /\ proc'[p].cfg = proc[p].cfg /\ proc'[p].token = proc[p].token
        /\ proc'[p].bootstrapped = proc[p].bootstrapped /\ proc'[p].beating = proc[p].beating
        /\ proc'[p].registered = proc[p].registered /\ proc'[p].fatal = proc[p].fatal
    BY <2>2, Goes DEF Stopping
  <2>4. ~proc'[p].fatal /\ (UNCHANGED <<file, tmp, spent>> => Sane(p)')
    BY <1>2, <2>1, <2>2, <2>3 DEF Sane, Using, Stopping
  <2> QED
    BY <1>1, <1>2, <1>5, <2>1, <2>3, <2>4
<1> QED
  BY <1>2, <1>3, <1>4, <1>5 DEF Ops

\* An authenticated call is handled.
LEMMA HandleCallKeeps ==
  ASSUME HostInv, NEW q \in wire, NEW f, HandleCall(q, f)
  PROVE  HostInv'
<1> DEFINE ok == q.arg \in valid /\ f = ""
<1>1. /\ q.op # "register"
      /\ record' = CASE ok /\ q.op = "heartbeat" -> "active"
                     [] ok /\ q.op = "deregister" -> "passive"
                     [] OTHER -> record
      /\ gone' = \/ gone
                 \/ /\ ok /\ q.op = "deregister"
                    /\ lock = None \/ proc[lock].pc \in Stopping
                    /\ \A r \in wire : r.op # "heartbeat"
      /\ Answered(q, IF ok THEN "OK" ELSE "Unauthenticated")
      /\ UNCHANGED <<file, tmp, spent, valid, issued>>
  BY DEF HandleCall, diskVars
<1>2. PICK code \in {"OK", "Unauthenticated"} : code = IF ok THEN "OK" ELSE "Unauthenticated"
  OBVIOUS
<1>3. Answered(q, code)
  BY <1>1, <1>2
<1>4. /\ record' \in {None, "passive", "active"}
      /\ q.op # "heartbeat" => record' \in {record, "passive"}
      /\ q.op # "deregister" => (gone' <=> gone)
      /\ gone' /\ ~gone => /\ record' = "passive" /\ (lock = None \/ proc[lock].pc \in Stopping)
                           /\ \A r \in wire : r.op # "heartbeat"
  <2>1. record \in {None, "passive", "active"}
    BY DEF HostInv, TypeOK
  <2>2. /\ record' \in {None, "passive", "active"}
        /\ q.op # "heartbeat" => record' \in {record, "passive"}
        /\ ok /\ q.op = "deregister" => record' = "passive"
    BY <1>1, <2>1
  <2>3. /\ q.op # "deregister" => (gone' <=> gone)
        /\ gone' /\ ~gone => /\ ok /\ q.op = "deregister"
                             /\ lock = None \/ proc[lock].pc \in Stopping
                             /\ \A r \in wire : r.op # "heartbeat"
    BY <1>1
  <2> QED
    BY <2>2, <2>3
<1>5. CASE q.to = None
  <2>1. wire' = wire \ {q} /\ UNCHANGED <<proc, lock>>
    BY <1>3, <1>5 DEF Answered
  <2>2. \A o \in Procs : Sane(o)'
    BY <1>1, <2>1 DEF HostInv, Sane
  <2>3. Requests' /\ Args'
    BY <2>1 DEF HostInv, Requests, Fits, Args
  <2>4. Quiet'
    BY <1>4, <2>1 DEF HostInv, Quiet
  <2> QED
    BY <1>1, <1>4, <2>1, <2>2, <2>3, <2>4 DEF HostInv, TypeOK
<1>6. CASE q.to # None
  <2>1. PICK p \in Procs : p = q.to
    BY <1>6, OneCaller
  <2>2. /\ wire' = wire \ {q} /\ UNCHANGED lock /\ lock = p /\ p # None
        /\ proc' \in [Procs -> Process] /\ (\A o \in Procs \ {p} : proc'[o] = proc[o])
        /\ q.op # "deregister" => proc[p].pc \notin Stopping
        /\ q.op = "deregister" => proc'[p].pc = "draining"
        /\ Sane(p)'
    BY <1>1, <1>3, <1>6, <2>1, CallAnswered
  <2>3. \A o \in Procs : Sane(o)'
    BY <2>2, HolderMoves
  <2>4. /\ wire' \subseteq [to : Procs \cup {None}, op : Ops, arg : RegTokens \cup AgentToken]
        /\ Requests' /\ Args'
    BY <1>6, <2>2, Settled
  <2>5. Quiet'
    BY <1>4, <2>2 DEF HostInv, Quiet, Stopping
  <2> QED
    BY <1>1, <1>4, <2>2, <2>3, <2>4, <2>5 DEF HostInv, TypeOK
<1> QED
  BY <1>5, <1>6

\* A connection breaks: the caller starts its step over, the request stays.
LEMMA BreakKeeps ==
  ASSUME HostInv, NEW q \in wire, Break(q)
  PROVE  HostInv' /\ \A p \in Procs : proc'[p].fatal = proc[p].fatal
<1>1. PICK p \in Procs : p = q.to /\ p # None
  BY OneCaller DEF Break
<1>2. /\ lock = p /\ Sane(p) /\ proc[p] \in Process /\ Fits(q) /\ q.op \in Ops
  BY <1>1, OneCaller DEF HostInv, Requests, TypeOK
<1>3. PICK after : after = CASE q.op = "register" -> "load" [] q.op = "snapshot" -> "snapshot"
                             [] q.op = "deregister" -> "draining" [] OTHER -> proc[p].pc
  OBVIOUS
<1>4. /\ proc' = To(p, after) /\ UNCHANGED lock /\ wire' = (wire \ {q}) \cup Orphaned({q}, p)
      /\ Rest /\ UNCHANGED <<file, tmp, gone>>
  BY <1>1, <1>3, Errors DEF Break, Rest, cpVars, diskVars
<1>5. \/ q.op = "register" /\ after = "load" /\ proc[p].pc = "registering"
      \/ q.op = "snapshot" /\ after = "snapshot" /\ proc[p].pc = "snapshotting"
      \/ q.op = "deregister" /\ after = "draining" /\ proc[p].pc = "deregistering"
      \/ q.op = "heartbeat" /\ after = "serving" /\ proc[p].pc = "serving"
  BY <1>1, <1>2, <1>3 DEF Fits, Ops
<1>6. after \in {"off", "starting", "serving"} \cup Starting \cup Stopping
  BY <1>5 DEF Starting, Stopping
<1>7. /\ proc' \in [Procs -> Process] /\ \A o \in Procs \ {p} : proc'[o] = proc[o]
      /\ proc'[p].pc = after /\ proc'[p].cfg = proc[p].cfg /\ proc'[p].token = proc[p].token
      /\ proc'[p].bootstrapped = proc[p].bootstrapped /\ proc'[p].beating = proc[p].beating
      /\ proc'[p].registered = proc[p].registered /\ proc'[p].fatal = proc[p].fatal
  BY <1>4, <1>6, Goes
<1>8. Sane(p)'
  BY <1>2, <1>4, <1>5, <1>7 DEF Sane, Using, Stopping, Rest
<1>9. /\ wire' \subseteq [to : Procs \cup {None}, op : Ops, arg : RegTokens \cup AgentToken]
      /\ Requests' /\ Args' /\ (gone => \A r \in wire' : r.op # "heartbeat")
  <2>1. \A r \in wire \ {q} : r.to = None
    BY <1>1, OneCaller
  <2>2. \A r \in Orphaned({q}, p) :
           /\ r \in [to : Procs \cup {None}, op : Ops, arg : RegTokens \cup AgentToken]
           /\ r.to = None
           /\ \E x \in {q} : r.op = x.op /\ r.arg = x.arg
    BY <1>2, OrphanedTyped
  <2> QED
    BY <1>4, <2>1, <2>2, NobodyWaits DEF HostInv, TypeOK
<1>10. gone => proc'[p].pc \in Stopping
  BY <1>2, <1>5, <1>7, NotGone DEF Stopping
<1>11. HostInv'
  BY <1>2, <1>4, <1>7, <1>8, <1>9, <1>10, Moves DEF HostInv, TypeOK
<1> QED
  BY <1>7, <1>11

\* A request nobody waits for is lost.
LEMMA DropOrphanKeeps ==
  ASSUME HostInv, NEW q \in wire, DropOrphan(q)
  PROVE  HostInv'
<1>1. wire' = wire \ {q} /\ UNCHANGED <<proc, lock, file, tmp, spent, record, valid, issued, gone>>
  BY DEF DropOrphan, cpVars, diskVars
<1> QED
  BY <1>1 DEF HostInv, TypeOK, Sane, Requests, Fits, Args, Quiet

\* An administrator deletes the agent.
LEMMA DeleteAgentKeeps ==
  ASSUME HostInv, DeleteAgent
  PROVE  HostInv'
<1>1. record' = None /\ valid' = {} /\ UNCHANGED <<proc, lock, file, tmp, spent, issued, wire, gone>>
  BY DEF DeleteAgent, diskVars
<1>2. None # "active"
  BY AgentHostAssumption
<1> QED
  BY <1>1, <1>2 DEF HostInv, TypeOK, Sane, Requests, Fits, Args, Quiet

\* The operator removes the state file of an agent that does not run.
LEMMA RemoveStateKeeps ==
  ASSUME HostInv, RemoveState
  PROVE  HostInv'
<1>1. /\ file' = None /\ lock = None
      /\ UNCHANGED <<proc, lock, tmp, spent, record, valid, issued, wire, gone>>
  BY DEF RemoveState, cpVars
<1>2. None # Partial
  BY AgentHostAssumption DEF Partial
<1>3. \A o \in Procs : Sane(o)'
  <2>1. \A o \in Procs : Sane(o) /\ proc[o].pc = "off"
    BY <1>1, AgentHostAssumption DEF HostInv, Sane
  <2> QED
    BY <1>1, <2>1 DEF Sane, Using, Stopping
<1>4. Requests' /\ Args' /\ Quiet'
  BY <1>1 DEF HostInv, Requests, Fits, Args, Quiet
<1> QED
  BY <1>1, <1>2, <1>3, <1>4 DEF HostInv, TypeOK

-----------------------------------------------------------------------------
\* Before any process has started.
LEMMA InitHolds == Init => HostInv
<1> SUFFICES ASSUME Init PROVE HostInv
  OBVIOUS
<1>1. /\ proc = [p \in Procs |-> Off(FALSE)] /\ lock = None /\ file = None /\ tmp = None
      /\ spent = {} /\ record = None /\ valid = {} /\ issued = 0 /\ wire = {} /\ gone = FALSE
  BY DEF Init
<1>2. \A p \in Procs : Sane(p)
  BY <1>1, BlankTyped, AgentHostAssumption DEF Sane, Using, Stopping
<1>3. TypeOK
  <2>1. proc \in [Procs -> Process]
    BY <1>1, BlankTyped
  <2>2. Cardinality(spent) = 0
    BY <1>1, FS_EmptySet
  <2>3. issued <= Cardinality(spent) /\ valid \subseteq 1..issued
    BY <1>1, <2>2
  <2> QED
    BY <1>1, <2>1, <2>3 DEF TypeOK
<1>4. file # Partial
  BY <1>1, AgentHostAssumption DEF Partial
<1> QED
  BY <1>1, <1>2, <1>3, <1>4 DEF HostInv, Requests, Args, Quiet

\* Every step of the host and of the control plane keeps the invariant.
LEMMA NextHolds == HostInv /\ [Next]_vars => HostInv'
<1> SUFFICES ASSUME HostInv, [Next]_vars PROVE HostInv'
  OBVIOUS
<1>1. CASE UNCHANGED vars
  BY <1>1 DEF vars, HostInv, TypeOK, Sane, Requests, Fits, Args, Quiet
<1>2. CASE \E p \in Procs : \E t \in RegTokens \cup {None} : Start(p, t)
  BY <1>2, StartStep
<1>3. ASSUME NEW p \in Procs, ProcessStep(p) \/ LoadFails(p) \/ SaveFails(p) \/ Heartbeat(p) \/ Stop(p) \/ Crash(p)
      PROVE  HostInv'
  BY <1>3, BootstrapStep, SaveStepKeeps, SendSnapshotKeeps, ServeKeeps, DeregisterKeeps,
     DrainCrashKeeps, LoadFailsKeeps, SaveFailsKeeps, HeartbeatKeeps, StopKeeps DEF ProcessStep
<1>4. ASSUME NEW q \in wire, Handle(q) \/ Break(q) \/ DropOrphan(q)
      PROVE  HostInv'
  BY <1>4, HandleCallKeeps, HandleRegisterKeeps, BreakKeeps, DropOrphanKeeps DEF Handle
<1>5. ASSUME NEW q \in wire, NEW f \in {"consume", "create", "issue"}, HandleRegister(q, f)
      PROVE  HostInv'
  BY <1>5, HandleRegisterKeeps
<1>6. ASSUME NEW q \in wire, HandleCall(q, "authenticate")
      PROVE  HostInv'
  BY <1>6, HandleCallKeeps
<1>7. CASE DeleteAgent \/ RemoveState
  BY <1>7, DeleteAgentKeeps, RemoveStateKeeps
<1> QED
  BY <1>1, <1>2, <1>3, <1>4, <1>5, <1>6, <1>7 DEF Next

\* The invariant holds always.
LEMMA HostInvAlways == Spec => []HostInv
BY InitHolds, NextHolds, PTL DEF Spec

\* The state file changes hands only while nobody runs.
LEMMA FileStep ==
  ASSUME HostInv, Next, file # None, file' # file
  PROVE  lock = None
<1>1. ASSUME NEW p \in Procs, ProcessStep(p) \/ LoadFails(p) \/ SaveFails(p) \/ Heartbeat(p) \/ Stop(p) \/ Crash(p)
      PROVE  FALSE
  <2>1. CASE SaveStep(p)
    <3>1. proc[p].pc = "rename"
      BY <2>1 DEF SaveStep
    <3> QED
      BY <3>1 DEF HostInv, Sane
  <2> QED
    BY <1>1, <2>1 DEF ProcessStep, BootstrapCredentials, SendSnapshot, Serve, Deregister, Drain,
         LoadFails, SaveFails, Heartbeat, Stop, Crash, diskVars
<1>2. ASSUME NEW q \in wire, Handle(q) \/ Break(q) \/ DropOrphan(q) PROVE FALSE
  BY <1>2 DEF Handle, HandleCall, HandleRegister, Break, DropOrphan, diskVars
<1>3. CASE RemoveState
  BY <1>3 DEF RemoveState
<1> QED
  BY <1>1, <1>2, <1>3 DEF Next, Start, HandleCall, HandleRegister, DeleteAgent, diskVars

\* A process that ends in a permanent error, other than a store error taken for
\* a verdict, has no credentials and a token that is of no use to it.
LEMMA FatalStep ==
  ASSUME HostInv, Next, NEW p \in Procs, proc[p].pc # "off", proc'[p].fatal, ~TakenForVerdict(p)
  PROVE  file' = None /\ proc[p].cfg \in spent' \cup {None}
<1>1. /\ lock = p /\ p # None /\ Sane(p) /\ ~proc[p].fatal /\ proc[p] \in Process
      /\ \A x \in Procs : proc[x].pc # "off" => x = p
  BY HoldsLock DEF Sane, HostInv, TypeOK
<1>2. ASSUME NEW x \in Procs, NEW t \in RegTokens \cup {None}, Start(x, t) PROVE FALSE
  <2>1. x # p
    BY <1>2 DEF Start
  <2>2. proc'[p] = proc[p]
    BY <1>2, <2>1 DEF Start, HostInv, TypeOK
  <2> QED
    BY <1>1, <2>2
<1>3. ASSUME NEW x \in Procs, BootstrapCredentials(x)
      PROVE  file' = None /\ proc[p].cfg \in spent' \cup {None}
  <2>1. x = p /\ UNCHANGED file
    BY <1>1, <1>3 DEF BootstrapCredentials, diskVars
  <2>2. CASE file # None
    <3>1. proc' = [proc EXCEPT ![p].pc = "snapshot", ![p].token = file]
      BY <1>3, <2>1, <2>2, Loaded DEF BootstrapCredentials
    <3>2. proc'[p] = [proc[p] EXCEPT !.pc = "snapshot", !.token = file]
      BY <3>1 DEF HostInv, TypeOK
    <3>3. proc'[p].fatal = proc[p].fatal
      <4>1. proc[p] \in Process
        BY <1>1
      <4> QED
        BY <3>2, <4>1 DEF Process
    <3> QED
      BY <1>1, <3>3
  <2>3. CASE file = None /\ proc[p].cfg # None
    <3>1. proc' = To(p, "registering")
      BY <1>3, <2>1, <2>3, Loaded DEF BootstrapCredentials
    <3>2. proc'[p].fatal = proc[p].fatal
      BY <3>1, Goes DEF Starting
    <3> QED
      BY <1>1, <3>2
  <2> QED
    BY <2>1, <2>2, <2>3
<1>4. ASSUME NEW x \in Procs, SaveStep(x) PROVE FALSE
  <2>1. x = p /\ \E pc \in {"rename", "snapshot"} : proc' = To(p, pc)
    BY <1>1, <1>4 DEF SaveStep
  <2> QED
    BY <1>1, <2>1, Goes DEF Starting
<1>5. ASSUME NEW x \in Procs, SendSnapshot(x) \/ Deregister(x) PROVE FALSE
  <2>1. x = p /\ \E pc \in {"snapshotting", "deregistering"} : proc' = To(p, pc)
    BY <1>1, <1>5 DEF SendSnapshot, Deregister
  <2> QED
    BY <1>1, <2>1, Goes DEF Starting, Stopping
<1>6. ASSUME NEW x \in Procs, Serve(x) PROVE FALSE
  <2>1. x = p /\ proc' = [proc EXCEPT ![p].pc = "serving", ![p].beating = TRUE]
    BY <1>1, <1>6 DEF Serve
  <2>2. proc'[p] = [proc[p] EXCEPT !.pc = "serving", !.beating = TRUE]
    BY <2>1 DEF HostInv, TypeOK
  <2>3. proc[p] \in Process
    BY <1>1
  <2>4. proc'[p].fatal = proc[p].fatal
    BY <2>2, <2>3 DEF Process
  <2> QED
    BY <1>1, <2>4
<1>7. ASSUME NEW x \in Procs, Drain(x) \/ Crash(x) PROVE FALSE
  <2>1. x = p /\ proc' = [proc EXCEPT ![p] = Off(FALSE)]
    BY <1>1, <1>7 DEF Drain, Crash, Exit
  <2> QED
    BY <2>1, BlankTyped DEF HostInv, TypeOK
<1>8. ASSUME NEW x \in Procs, SaveFails(x)
      PROVE  file' = None /\ proc[p].cfg \in spent' \cup {None}
  <2>1. x = p /\ proc[p].pc \in {"save", "rename"} /\ UNCHANGED <<file, spent>>
    BY <1>1, <1>8 DEF SaveFails, cpVars
  <2> QED
    BY <1>1, <2>1 DEF Sane
<1>9. ASSUME NEW x \in Procs, LoadFails(x) PROVE FALSE
  BY <1>1, <1>9 DEF LoadFails, TakenForVerdict
<1>10. ASSUME NEW x \in Procs, Stop(x) PROVE FALSE
  <2>1. x = p /\ proc' = [proc EXCEPT ![p] = Stopped(proc[p])]
    BY <1>1, <1>10 DEF Stop
  <2> QED
    BY <1>1, <2>1, StoppedTyped DEF HostInv, TypeOK
<1>11. ASSUME NEW q \in wire, NEW f, HandleRegister(q, f)
       PROVE  file' = None /\ proc[p].cfg \in spent' \cup {None}
  <2>1. PICK code : code = RegisterCode(q.arg, f)
    OBVIOUS
  <2>2. q.op = "register" /\ Answered(q, code) /\ UNCHANGED file /\ q.arg \in RegTokens
    BY <1>11, <2>1 DEF HandleRegister, diskVars, HostInv, Args
  <2>3. /\ code \in {"OK", "Internal", "Unauthenticated", "AlreadyExists"}
        /\ code # "Internal" /\ f # "consume" => q.arg \in spent'
    BY <1>11, <2>1, <2>2, RegisterTyped DEF HandleRegister
  <2>4. q.to # None
    BY <1>1, <2>2 DEF Answered
  <2>5. f # "consume"
    BY <1>1, <1>11, <2>4, OneCaller DEF TakenForVerdict
  <2>6. q.to = p /\ proc[p].pc = "registering" /\ proc[p].cfg = q.arg /\ file = None
    BY <1>1, <2>2, <2>4, OneCaller DEF HostInv, Requests, Fits, Sane
  <2>7. CASE code = "Internal"
    <3>1. proc' = [proc EXCEPT ![p] = [proc[p] EXCEPT !.pc = "load"]]
      BY <2>2, <2>4, <2>6, <2>7 DEF Answered, MapAgentAuth, IsPermanentBootstrapError, IsAuthRejected
    <3>2. proc' = To(p, "load")
      BY <3>1 DEF To, HostInv, TypeOK
    <3> QED
      BY <1>1, <3>2, Goes DEF Starting
  <2> QED
    BY <2>2, <2>3, <2>5, <2>6, <2>7
<1>12. ASSUME NEW q \in wire, NEW f, HandleCall(q, f) PROVE FALSE
  <2>1. PICK code \in {"OK", "Unauthenticated"} : Answered(q, code)
    BY <1>12 DEF HandleCall
  <2>2. q.op # "register"
    BY <1>12 DEF HandleCall
  <2>3. q.to # None
    BY <1>1, <2>1 DEF Answered
  <2>4. q.to = p
    BY <1>1, <2>3, OneCaller
  <2> QED
    BY <2>1, <2>2, <2>3, <2>4, CallAnswered
<1>13. ASSUME NEW q \in wire, Break(q) PROVE FALSE
  BY <1>1, <1>13, BreakKeeps
<1>14. ASSUME UNCHANGED proc PROVE FALSE
  BY <1>1, <1>14
<1> QED
  BY <1>2, <1>3, <1>4, <1>5, <1>6, <1>7, <1>8, <1>9, <1>10, <1>11, <1>12, <1>13, <1>14
     DEF Next, ProcessStep, Handle, Heartbeat, DropOrphan, DeleteAgent, RemoveState

-----------------------------------------------------------------------------
\* Processes, files and requests stay well formed, and the control plane issues
\* no more agent tokens than it consumed registration tokens (agent.go Register).
THEOREM HostTypeOK == Spec => []TypeOK
<1>1. HostInv => TypeOK
  BY DEF HostInv
<1> QED
  BY <1>1, HostInvAlways, PTL

\* bootstrap.go:69-71: a process whose registration succeeded never sends another
\* Register, whatever fails afterwards.
THEOREM RegistersOnce == Spec => []NoSecondRegister
<1>1. HostInv => NoSecondRegister
  <2> SUFFICES ASSUME HostInv, NEW q \in wire, q.op = "register", q.to # None
               PROVE  ~proc[q.to].registered
    BY DEF NoSecondRegister
  <2>1. q.to \in Procs /\ proc[q.to].pc = "registering"
    BY OneCaller DEF HostInv, Requests, Fits
  <2> QED
    BY <2>1 DEF HostInv, Sane, Using, Stopping
<1> QED
  BY <1>1, HostInvAlways, PTL

\* ready.go, main.go:179: an agent that reports ready runs with the credentials
\* its next start will find.
THEOREM ReadyMeansSaved == Spec => []ReadyIsDurable
<1>1. HostInv => ReadyIsDurable
  <2> SUFFICES ASSUME HostInv, NEW p \in Procs, Readyz(p) = "ok" PROVE file = proc[p].token
    BY DEF ReadyIsDurable
  <2>1. proc[p].bootstrapped
    BY DEF Readyz, Check
  <2> QED
    BY <2>1 DEF HostInv, Sane, Using
<1> QED
  BY <1>1, HostInvAlways, PTL

\* main.go:246-262: an agent whose Deregister was handled with no heartbeat under
\* way shows as passive until somebody starts it again.
THEOREM DeregisteredStaysPassive == Spec => []DeregisteredIsPassive
<1>1. HostInv => DeregisteredIsPassive
  BY DEF HostInv, Quiet, DeregisteredIsPassive
<1> QED
  BY <1>1, HostInvAlways, PTL

\* store.go:63-70, lock.go: however processes overlap, crash and fail, no process
\* replaces credentials that are in the state file.
THEOREM CredentialsAreKept == Spec => CredentialsKept
<1>1. HostInv /\ [Next]_vars => [file # None /\ file' # file => lock = None]_vars
  BY FileStep DEF vars
<1> QED
  BY <1>1, HostInvAlways, PTL DEF Spec, CredentialsKept

\* bootstrap.go:20-28: a process that ends in a permanent error could not have
\* been helped by a retry, unless a failing read of the state file or a failing
\* Consume of its registration token was taken for a verdict (store.go:23-26,
\* agent_credentials.go:52-54).
THEOREM FatalOnlyWhenHopeless == Spec => FatalIsHopeless
<1>1. HostInv /\ [Next]_vars =>
        [\A p \in Procs :
           proc[p].pc # "off" /\ proc'[p].fatal /\ ~TakenForVerdict(p) =>
             IF file' = None THEN proc[p].cfg \in spent' \cup {None} ELSE file' \notin valid']_vars
  BY FatalStep DEF vars
<1> QED
  BY <1>1, HostInvAlways, PTL DEF Spec, FatalIsHopeless
=============================================================================
