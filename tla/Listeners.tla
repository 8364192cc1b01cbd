----------------------------- MODULE Listeners -----------------------------
(***************************************************************************)
(* The HTTP adapter's entrypoint listeners (internal/adapters/http/        *)
(* adapter.go): one http.Server per entrypoint, started and stopped by     *)
(* ReconcileListeners as the application cache changes.                    *)
(*                                                                         *)
(* ReconcileListeners reads the cache, swaps the server map under the      *)
(* mutex, spawns a goroutine per new server and only then shuts the old    *)
(* ones down, so binding and closing race.  Several reconciles may overlap *)
(* (event dispatch, Watch resync, periodic resync).                        *)
(***************************************************************************)
EXTENDS Integers, FiniteSets, Functions

CONSTANTS
  Entrypoint,
  Port,          \* bind addresses
  PortsOf,       \* [Entrypoint -> SUBSET Port]: addresses its spec may name
  Server,        \* http.Server instances, each used at most once
  Loader,        \* goroutines that may run ResourceCache.Reload
  Reconciler,    \* goroutines that may run ReconcileListeners
  MaxReloads,    \* bound on reloads of the cache
  None           \* no address, no server

ASSUME PortsAssumption ==
  /\ PortsOf \in [Entrypoint -> SUBSET Port]
  /\ None \notin Port \cup Server
ASSUME MaxReloadsAssumption == MaxReloads \in Nat
\* There are at least the servers NewHttpAdapter needs.
ASSUME ServersAssumption ==
  /\ IsFiniteSet(Entrypoint) /\ IsFiniteSet(Server)
  /\ Cardinality(Entrypoint) <= Cardinality(Server)
ASSUME ReconcilerAssumption == "main" \notin Reconciler

VARIABLES
  cache,     \* [Entrypoint -> Port or None]: ListenAddr of the cached entrypoints
  filling,   \* [Loader -> [Entrypoint -> Port or None]]: what it has yet to store
  servers,   \* Adapter.servers: [Entrypoint -> Server or None]
  srv,       \* [Server -> [port, st]]
  job,       \* [Reconciler \cup {"main"} -> what it is doing]
  overlapped, \* history: two reconciles have been running at once
  dirty,     \* history: no reconcile has read the latest cache yet
  reloads    \* reloads so far

feed == <<cache, filling>>
vars == <<cache, filling, servers, srv, job, overlapped, dirty, reloads>>

\* "new": built, ListenAndServe not yet called.  "starting": its goroutine is
\* spawned.  "failed": the bind error was logged.  "closed": Shutdown ran.
ServerStates == {"unused", "new", "starting", "listening", "failed", "closed"}

Nothing == [e \in Entrypoint |-> None]

IdleJob == [step |-> "idle", want |-> Nothing, stop |-> {}]

Fresh == {s \in Server : srv[s].st = "unused"}
Addr(e) == IF servers[e] = None THEN None ELSE srv[servers[e]].port
Listening(p) == \E s \in Server : srv[s] = [port |-> p, st |-> "listening"]

\* The entrypoint sets an operator may configure: no two entrypoints of one
\* configuration name the same address.
Configurations ==
  {f \in [Entrypoint -> Port \cup {None}] :
     /\ \A e \in Entrypoint : f[e] \in PortsOf[e] \cup {None}
     /\ \A e, d \in Entrypoint : f[e] = f[d] /\ e # d => f[e] = None}

\* newServer for every entrypoint in es; which unused instance each one gets
\* does not matter.
NewServers(es, free) == CHOOSE own \in [es -> free] : IsInjective(own)

\* NewHttpAdapter builds a server for every cached entrypoint.
Init ==
  /\ cache \in Configurations /\ filling = [l \in Loader |-> Nothing]
  /\ LET own == NewServers({e \in Entrypoint : cache[e] # None}, Server) IN
       /\ servers = [e \in Entrypoint |-> IF cache[e] = None THEN None ELSE own[e]]
       /\ srv = [s \in Server |->
                   IF s \in Range(own)
                   THEN [port |-> cache[CHOOSE e \in DOMAIN own : own[e] = s],
                         st |-> "new"]
                   ELSE [port |-> None, st |-> "unused"]]
  /\ job = [r \in Reconciler \cup {"main"} |-> IdleJob]
  /\ overlapped = FALSE /\ dirty = FALSE
  /\ reloads = 0

\* ResourceCache.Reload: the entrypoint map is cleared, then filled one entry
\* at a time; neither readers nor another Reload are kept out.  What was listed
\* may be new, unchanged (periodic Resync) or older than what another one stores.
ReloadClear(l) ==
  /\ filling[l] = Nothing
  /\ reloads < MaxReloads /\ reloads' = reloads + 1
  /\ \E listed \in Configurations : filling' = [filling EXCEPT ![l] = listed]
  /\ cache' = Nothing
  /\ dirty' = TRUE
  /\ UNCHANGED <<servers, srv, job, overlapped>>

ReloadSet(l, e) ==
  /\ filling[l][e] # None
  /\ cache' = [cache EXCEPT ![e] = filling[l][e]]
  /\ filling' = [filling EXCEPT ![l] = [@ EXCEPT ![e] = None]]
  /\ dirty' = TRUE
  /\ UNCHANGED <<servers, srv, job, overlapped, reloads>>

\* Run spawns the accept loop of every server in the map.
Run ==
  /\ job["main"] = IdleJob
  /\ job' = [job EXCEPT !["main"].step = "running"]
  /\ srv' = [s \in Server |->
               IF s \in Range(servers) /\ srv[s].st \in {"new", "failed"}
               THEN [srv[s] EXCEPT !.st = "starting"] ELSE srv[s]]
  /\ UNCHANGED <<feed, servers, dirty, overlapped, reloads>>

-----------------------------------------------------------------------------
\* api.EntryPoints: the desired state is read before the mutex is taken.
ReconcileRead(r) ==
  /\ job[r].step = "idle"
  /\ job' = [job EXCEPT ![r] = [step |-> "read", want |-> cache, stop |-> {}]]
  /\ dirty' = FALSE
  /\ overlapped' = (overlapped \/ \E q \in Reconciler : job[q].step # "idle")
  /\ UNCHANGED <<feed, servers, srv, reloads>>

\* Removals and address changes.
ToStop(want) == {e \in Entrypoint : servers[e] # None /\ Addr(e) # want[e]}

\* Mutant: every desired entrypoint gets a new server, running or not.
ToStartAll(want) == {e \in Entrypoint : want[e] # None}

\* Additions and replacements: desired entrypoints the map no longer holds.
ToStart(want) ==
  {e \in Entrypoint : want[e] # None /\ (servers[e] = None \/ e \in ToStop(want))}

\* Mutant: a moved entrypoint's old server is dropped from the map, not stopped.
StopListForgets(want) == {servers[e] : e \in ToStop(want) \ ToStart(want)}

\* The servers this reconcile will shut down.
StopList(want) == {servers[e] : e \in ToStop(want)}

\* Mutant: a removed entrypoint's server is stopped but stays in the map.
SwapMapKeepsRemoved(want, own) ==
  [e \in Entrypoint |-> IF e \in ToStart(want) THEN own[e] ELSE servers[e]]

\* Adapter.servers after the swap.
SwapMap(want, own) ==
  [e \in Entrypoint |-> IF e \in ToStart(want) THEN own[e]
                        ELSE IF e \in ToStop(want) THEN None ELSE servers[e]]

\* Under the mutex: drop removed and moved servers, add the missing ones; then
\* start the additions.
ReconcileSwap(r) ==
  LET want == job[r].want
      own  == NewServers(ToStart(want), Fresh)
  IN
  /\ job[r].step = "read"
  /\ Cardinality(ToStart(want)) <= Cardinality(Fresh)
  /\ servers' = SwapMap(want, own)
  /\ srv' = [s \in Server |->
               IF s \in Range(own)
               THEN [port |-> want[CHOOSE e \in DOMAIN own : own[e] = s],
                     st |-> "starting"]
               ELSE srv[s]]
  /\ job' = [job EXCEPT ![r] = [step |-> "stop", want |-> Nothing, stop |-> StopList(want)]]
  /\ UNCHANGED <<feed, dirty, overlapped, reloads>>

\* ListenAndServe in the server's own goroutine: a bind conflict is logged and
\* the goroutine ends.
Listen(s) ==
  /\ srv[s].st = "starting"
  /\ srv' = [srv EXCEPT ![s].st =
               IF Listening(srv[s].port) THEN "failed" ELSE "listening"]
  /\ UNCHANGED <<feed, servers, job, overlapped, dirty, reloads>>

\* Server.Shutdown closes the listener; a server not yet bound will never bind.
StopOne(r, s) ==
  /\ job[r].step = "stop" /\ s \in job[r].stop
  /\ srv' = [srv EXCEPT ![s].st = "closed"]
  /\ job' = [job EXCEPT ![r].stop = @ \ {s}]
  /\ UNCHANGED <<feed, servers, dirty, overlapped, reloads>>

ReconcileDone(r) ==
  /\ r # "main"
  /\ job[r].step = "stop" /\ job[r].stop = {}
  /\ job' = [job EXCEPT ![r] = IdleJob]
  /\ UNCHANGED <<feed, servers, srv, dirty, overlapped, reloads>>

\* Adapter.Shutdown: stop whatever the map holds now.
Shutdown ==
  /\ job["main"].step = "running"
  /\ job' = [job EXCEPT !["main"].step = "stop",
                        !["main"].stop = Range(servers) \ {None}]
  /\ UNCHANGED <<feed, servers, srv, dirty, overlapped, reloads>>

Next ==
  \/ \E l \in Loader : ReloadClear(l) \/ \E e \in Entrypoint : ReloadSet(l, e)
  \/ Run
  \/ Shutdown
  \/ \E r \in Reconciler : ReconcileRead(r) \/ ReconcileSwap(r) \/ ReconcileDone(r)
  \/ \E r \in Reconciler \cup {"main"}, s \in Server : StopOne(r, s)
  \/ \E s \in Server : Listen(s)

Spec == Init /\ [][Next]_vars

-----------------------------------------------------------------------------
\* State is well formed, and a server in use has an address: newServer is only
\* called for desired entrypoints.
TypeOK ==
  /\ cache \in [Entrypoint -> Port \cup {None}]
  /\ filling \in [Loader -> [Entrypoint -> Port \cup {None}]]
  /\ servers \in [Entrypoint -> Server \cup {None}]
  /\ srv \in [Server -> [port : Port \cup {None}, st : ServerStates]]
  /\ job \in [Reconciler \cup {"main"} ->
                [step : {"idle", "read", "stop", "running"},
                 want : [Entrypoint -> Port \cup {None}], stop : SUBSET Server]]
  /\ \A s \in Server : (srv[s].port = None) <=> (srv[s].st = "unused")
  /\ overlapped \in BOOLEAN /\ dirty \in BOOLEAN
  /\ reloads \in 0..MaxReloads

\* Whatever reconciles overlap, a server that is or will be listening is still
\* in the map or about to be shut down: no port stays bound with nobody left to
\* close it.
NoOrphanListener ==
  \A s \in Server :
    srv[s].st \in {"new", "starting", "listening"} =>
      \/ \E e \in Entrypoint : servers[e] = s
      \/ \E r \in Reconciler \cup {"main"} : s \in job[r].stop

\* adapter.go:46-47, "ReconcileListeners brings running entrypoint servers in
\* line with the application cache": while reconciles do not overlap, once one
\* that read the cache after its last change has finished, the map is what the
\* cache says, even if earlier ones read a cache that was being refilled.
ListenersFollowCache ==
  ~overlapped /\ ~dirty /\ (\A r \in Reconciler : job[r].step = "idle") =>
    \A e \in Entrypoint : Addr(e) = cache[e]

\* Servers that could not bind their address.
Failed == {e \in Entrypoint : servers[e] # None /\ srv[servers[e]].st = "failed"}

\* While reconciles do not overlap and no entrypoint takes an address another
\* one may have held, every server of the map gets its address.
OwnAddressBinds ==
  ~overlapped => \A e \in Failed : \E d \in Entrypoint \ {e} :
                   Addr(e) \in PortsOf[d]

\* adapter.go:47-48, "Bind-address changes start the new listener before
\* draining the old one (ports differ, so there is no bind conflict)": no server
\* of the map failed to bind.
NoBindConflict == Failed = {}
=============================================================================
