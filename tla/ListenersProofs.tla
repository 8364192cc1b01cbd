-------------------------- MODULE ListenersProofs --------------------------
(***************************************************************************)
(* Proofs about Listeners for any finite number of entrypoints and         *)
(* servers, any number of reconciling goroutines and of reloads.           *)
(***************************************************************************)
EXTENDS Listeners, FunctionTheorems, FiniteSetTheorems, TLAPS

Live(s) == srv[s].st \in {"new", "starting", "listening"}

\* An entrypoint has an address its specification may name, or none.
Named(f) == \A e \in Entrypoint : f[e] \in PortsOf[e] \cup {None}

\* The cache, what is about to be stored in it and what was read from it.
Configured ==
  /\ Named(cache)
  /\ \A l \in Loader : Named(filling[l])
  /\ \A r \in Reconciler \cup {"main"} : Named(job[r].want)

\* A server in the map, or about to be stopped, was built; one in the map has an
\* address of its entrypoint.
InUse ==
  /\ \A e \in Entrypoint :
       servers[e] # None => srv[servers[e]].st # "unused" /\ srv[servers[e]].port \in PortsOf[e]
  /\ \A r \in Reconciler \cup {"main"} : \A s \in job[r].stop : srv[s].st # "unused"

\* Only a goroutine that is stopping servers has some to stop.
Steps ==
  \A r \in Reconciler \cup {"main"} : job[r].step # "stop" => job[r].stop = {}

\* A server that is or will be listening is in the map or some reconcile stops it;
\* that Shutdown has it in its list too is not needed.
Owned ==
  \A s \in Server : Live(s) =>
    \/ \E e \in Entrypoint : servers[e] = s
    \/ \E r \in Reconciler : s \in job[r].stop

\* While reconciles do not overlap, at most one is running.
Alone ==
  ~overlapped =>
    \A q, r \in Reconciler : job[q].step # "idle" /\ job[r].step # "idle" => q = r

\* The reconcile under way, if any, read the present cache; once it has swapped
\* the map, the map says the same.
Follows ==
  ~overlapped /\ ~dirty =>
    /\ \A r \in Reconciler : job[r].step = "read" => job[r].want = cache
    /\ (\A r \in Reconciler : job[r].step # "read") => \A e \in Entrypoint : Addr(e) = cache[e]

\* A server to be stopped that has the address of a server in the map belonged
\* to another entrypoint.
Displaced ==
  ~overlapped =>
    \A r \in Reconciler : \A s \in job[r].stop : \A e \in Entrypoint :
      servers[e] # None /\ Addr(e) = srv[s].port =>
        \E d \in Entrypoint \ {e} : Addr(e) \in PortsOf[d]

ListInv ==
  /\ TypeOK /\ Configured /\ InUse /\ Steps /\ Owned /\ Alone /\ Follows /\ Displaced
  /\ OwnAddressBinds

-----------------------------------------------------------------------------
\* As long as there are servers enough, every entrypoint gets one of its own.
LEMMA EachItsOwn ==
  ASSUME NEW es, NEW free, IsFiniteSet(es), IsFiniteSet(free), Cardinality(es) <= Cardinality(free)
  PROVE  /\ NewServers(es, free) \in [es -> free]
         /\ \A a, b \in es : NewServers(es, free)[a] = NewServers(es, free)[b] => a = b
<1> DEFINE m == Cardinality(es)
           n == Cardinality(free)
<1>1. m \in Nat /\ n \in Nat /\ ExistsBijection(es, 1..m) /\ ExistsBijection(1..n, free)
  BY FS_CardinalityType, Fun_ExistsBijSymmetric
<1>2. PICK f : f \in Bijection(es, 1..m)
  BY <1>1, Fun_ExistsBij
<1>3. PICK g : g \in Bijection(1..n, free)
  BY <1>1, Fun_ExistsBij
<1>4. f \in [es -> 1..m] /\ \A a, b \in es : f[a] = f[b] => a = b
  BY <1>2, Fun_BijectionProperties
<1>5. g \in [1..n -> free] /\ \A a, b \in 1..n : g[a] = g[b] => a = b
  BY <1>3, Fun_BijectionProperties
<1>6. 1..m \subseteq 1..n
  <2> HIDE DEF m, n
  <2>1. m <= n
    BY DEF m, n
  <2> QED
    BY <1>1, <2>1
<1> HIDE DEF m, n
<1>7. PICK own : own = [a \in es |-> g[f[a]]]
  OBVIOUS
<1>8. own \in [es -> free] /\ \A a, b \in es : own[a] = own[b] => a = b
  BY <1>4, <1>5, <1>6, <1>7
<1>9. own \in [es -> free] /\ IsInjective(own)
  BY <1>8 DEF IsInjective
<1>10. NewServers(es, free) \in [es -> free] /\ IsInjective(NewServers(es, free))
  BY <1>9 DEF NewServers
<1> QED
  BY <1>10 DEF IsInjective

\* What the swap does to the map and to the servers.
LEMMA Swapped ==
  ASSUME ListInv, NEW r \in Reconciler, ReconcileSwap(r), NEW want, want = job[r].want
  PROVE  /\ servers' \in [Entrypoint -> Server \cup {None}]
         /\ \A s \in Server : srv[s].st # "unused" => srv'[s] = srv[s]
         /\ \A s \in Server : srv'[s] # srv[s] => \E e \in ToStart(want) : servers'[e] = s
         /\ \A e \in ToStart(want) :
              /\ servers'[e] \in Server
              /\ srv'[servers'[e]] = [port |-> want[e], st |-> "starting"]
         /\ \A e \in Entrypoint \ ToStart(want) :
              servers'[e] = IF e \in ToStop(want) THEN None ELSE servers[e]
         /\ DOMAIN srv' = Server
<1>1. PICK own : own = NewServers(ToStart(want), Fresh)
  OBVIOUS
<1>2. /\ Cardinality(ToStart(want)) <= Cardinality(Fresh)
      /\ servers' = SwapMap(want, own)
      /\ srv' = [s \in Server |->
                   IF s \in Range(own)
                   THEN [port |-> want[CHOOSE e \in DOMAIN own : own[e] = s], st |-> "starting"]
                   ELSE srv[s]]
  BY <1>1 DEF ReconcileSwap
<1>3. IsFiniteSet(ToStart(want)) /\ IsFiniteSet(Fresh)
  BY ServersAssumption, FS_Subset DEF ToStart, Fresh
<1>4. own \in [ToStart(want) -> Fresh] /\ \A a, b \in ToStart(want) : own[a] = own[b] => a = b
  BY <1>1, <1>2, <1>3, EachItsOwn
<1>5. ToStart(want) \subseteq Entrypoint /\ Fresh \subseteq Server
  BY DEF ToStart, Fresh
<1>6. \A e \in ToStart(want) : servers'[e] = own[e] /\ own[e] \in Fresh /\ own[e] \in Range(own)
  BY <1>2, <1>4, <1>5 DEF SwapMap, Range
<1>7. \A e \in Entrypoint \ ToStart(want) :
        servers'[e] = IF e \in ToStop(want) THEN None ELSE servers[e]
  BY <1>2 DEF SwapMap
<1>8. servers' \in [Entrypoint -> Server \cup {None}]
  <2>1. \A e \in Entrypoint : servers'[e] \in Server \cup {None}
    BY <1>5, <1>6, <1>7 DEF ListInv, TypeOK
  <2> QED
    BY <1>2, <2>1 DEF SwapMap
<1>9. \A s \in Range(own) : s \in Fresh /\ \E e \in ToStart(want) : own[e] = s
  BY <1>4 DEF Range
<1>10. \A s \in Server : srv[s].st # "unused" => srv'[s] = srv[s]
  BY <1>2, <1>9 DEF Fresh
<1>11. \A s \in Server : srv'[s] # srv[s] => \E e \in ToStart(want) : servers'[e] = s
  BY <1>2, <1>6, <1>9
<1>12. ASSUME NEW e \in ToStart(want)
       PROVE  servers'[e] \in Server /\ srv'[servers'[e]] = [port |-> want[e], st |-> "starting"]
  <2>1. (CHOOSE d \in DOMAIN own : own[d] = own[e]) = e
    BY <1>4
  <2>2. own[e] \in Server /\ own[e] \in Range(own) /\ servers'[e] = own[e]
    BY <1>5, <1>6
  <2> QED
    BY <1>2, <2>1, <2>2
<1> QED
  BY <1>2, <1>7, <1>8, <1>10, <1>11, <1>12

\* After the swap the map has the addresses the reconcile wants.
LEMMA SwapAddr ==
  ASSUME ListInv, NEW r \in Reconciler, ReconcileSwap(r), NEW want, want = job[r].want,
         NEW e \in Entrypoint
  PROVE  Addr(e)' = want[e]
<1>1. /\ servers[e] \in Server \cup {None}
      /\ servers[e] # None => srv[servers[e]].st # "unused"
  BY DEF ListInv, TypeOK, InUse
<1>2. CASE e \in ToStart(want)
  <2>1. servers'[e] \in Server /\ srv'[servers'[e]] = [port |-> want[e], st |-> "starting"]
    BY <1>2, Swapped
  <2> QED
    BY <2>1, PortsAssumption DEF Addr
<1>3. CASE e \notin ToStart(want) /\ e \in ToStop(want)
  <2>1. servers'[e] = None
    BY <1>3, Swapped
  <2>2. want[e] = None
    BY <1>3 DEF ToStart
  <2> QED
    BY <2>1, <2>2 DEF Addr
<1>4. CASE e \notin ToStart(want) /\ e \notin ToStop(want)
  <2>1. servers'[e] = servers[e]
    BY <1>4, Swapped
  <2>2. servers[e] = None => want[e] = None
    BY <1>4 DEF ToStart
  <2>3. servers[e] # None => Addr(e) = want[e] /\ srv'[servers[e]] = srv[servers[e]]
    BY <1>1, <1>4, Swapped DEF ToStop
  <2> QED
    BY <2>1, <2>2, <2>3 DEF Addr
<1> QED
  BY <1>2, <1>3, <1>4

\* Who may reconcile.
Workers == Reconciler \cup {"main"}

Jobs ==
  [step : {"idle", "read", "stop", "running"}, want : [Entrypoint -> Port \cup {None}],
   stop : SUBSET Server]

\* Addresses do not change while the map and the ports stay.
LEMMA SameAddr ==
  ASSUME ListInv, UNCHANGED servers, \A s \in Server : srv'[s].port = srv[s].port
  PROVE  \A e \in Entrypoint : Addr(e)' = Addr(e)
BY DEF ListInv, TypeOK, Addr

\* A reload clears the cache, or stores the next entry it listed.
LEMMA ReloadKeeps ==
  ASSUME ListInv, NEW l \in Loader, ReloadClear(l) \/ \E e \in Entrypoint : ReloadSet(l, e)
  PROVE  ListInv'
<1> DEFINE Addresses == [Entrypoint -> Port \cup {None}]
<1>1. /\ UNCHANGED <<servers, srv, job, overlapped>> /\ dirty' = TRUE
  BY DEF ReloadClear, ReloadSet
<1>2. /\ cache' \in Addresses /\ Named(cache)' /\ reloads' \in 0..MaxReloads
      /\ filling' \in [Loader -> Addresses] /\ \A k \in Loader : Named(filling[k])'
  <2>1. /\ cache \in Addresses /\ Named(cache) /\ reloads \in 0..MaxReloads
        /\ filling \in [Loader -> Addresses] /\ \A k \in Loader : Named(filling[k])
        /\ MaxReloads \in Nat
    BY MaxReloadsAssumption DEF ListInv, TypeOK, Configured
  <2>2. CASE ReloadClear(l)
    <3>1. PICK listed \in Configurations : filling' = [filling EXCEPT ![l] = listed]
      BY <2>2 DEF ReloadClear
    <3>2. listed \in Addresses /\ Named(listed)
      BY DEF Configurations, Named
    <3>3. cache' \in Addresses /\ Named(cache)'
      BY <2>2 DEF ReloadClear, Nothing, Named
    <3>4. reloads' \in 0..MaxReloads
      BY <2>1, <2>2 DEF ReloadClear
    <3>5. filling' \in [Loader -> Addresses] /\ \A k \in Loader : Named(filling'[k])
      BY <2>1, <3>1, <3>2
    <3> QED
      BY <3>3, <3>4, <3>5 DEF Named
  <2>3. ASSUME NEW e \in Entrypoint, ReloadSet(l, e)
        PROVE  /\ cache' \in Addresses /\ Named(cache)' /\ reloads' \in 0..MaxReloads
               /\ filling' \in [Loader -> Addresses] /\ \A k \in Loader : Named(filling[k])'
    <3>1. /\ cache' = [cache EXCEPT ![e] = filling[l][e]] /\ UNCHANGED reloads
          /\ filling' = [filling EXCEPT ![l] = [filling[l] EXCEPT ![e] = None]]
      BY <2>3 DEF ReloadSet
    <3>2. /\ filling[l] \in Addresses /\ Named(filling[l])
          /\ filling[l][e] \in Port \cup {None} /\ filling[l][e] \in PortsOf[e] \cup {None}
      BY <2>1 DEF Named
    <3>3. cache' \in Addresses /\ Named(cache)'
      BY <2>1, <3>1, <3>2 DEF Named
    <3>4. PICK rest : rest = [filling[l] EXCEPT ![e] = None]
      OBVIOUS
    <3>5. rest \in Addresses /\ Named(rest)
      BY <3>2, <3>4 DEF Named
    <3>6. filling' \in [Loader -> Addresses] /\ \A k \in Loader : Named(filling'[k])
      BY <2>1, <3>1, <3>4, <3>5
    <3> QED
      BY <2>1, <3>1, <3>3, <3>6 DEF Named
  <2> QED
    BY <2>2, <2>3
<1>3. TypeOK'
  BY <1>1, <1>2 DEF ListInv, TypeOK
<1>4. Configured' /\ InUse' /\ Steps' /\ Owned' /\ Alone'
  BY <1>1, <1>2 DEF ListInv, Configured, Named, InUse, Steps, Owned, Live, Alone
<1>5. Follows'
  BY <1>1 DEF Follows
<1>6. Displaced' /\ OwnAddressBinds'
  BY <1>1 DEF ListInv, Displaced, OwnAddressBinds, Failed, Addr
<1> QED
  BY <1>3, <1>4, <1>5, <1>6 DEF ListInv

\* A reconcile reads the cache.
LEMMA ReadKeeps ==
  ASSUME ListInv, NEW r \in Reconciler, ReconcileRead(r)
  PROVE  ListInv'
<1>1. PICK j : j = [step |-> "read", want |-> cache, stop |-> {}]
  OBVIOUS
<1>2. /\ job[r].step = "idle" /\ job' = [job EXCEPT ![r] = j] /\ dirty' = FALSE
      /\ overlapped' = (overlapped \/ \E q \in Reconciler : job[q].step # "idle")
      /\ UNCHANGED <<cache, filling, servers, srv, reloads>>
  BY <1>1 DEF ReconcileRead, feed
<1>3. /\ j \in Jobs /\ j.step = "read" /\ j.want = cache /\ j.stop = {}
  BY <1>1 DEF Jobs, ListInv, TypeOK
<1>4. /\ job'[r] = j /\ (\A q \in Workers \ {r} : job'[q] = job[q]) /\ job[r].stop = {}
      /\ job' \in [Workers -> Jobs]
  BY <1>2, <1>3 DEF ListInv, TypeOK, Workers, Jobs, Steps
<1>5. TypeOK'
  BY <1>2, <1>4 DEF ListInv, TypeOK, Workers, Jobs
<1>6. Configured' /\ InUse' /\ Steps'
  BY <1>2, <1>3, <1>4 DEF ListInv, Configured, Named, InUse, Steps, Workers
<1>7. Owned'
  BY <1>2, <1>4 DEF ListInv, Owned, Live, Workers
<1>8. Alone' /\ (~overlapped' => ~overlapped /\ \A q \in Reconciler : job[q].step = "idle")
  BY <1>2, <1>4 DEF ListInv, Alone, Workers
<1>9. Follows'
  BY <1>2, <1>3, <1>4, <1>8 DEF Follows, Workers
<1>10. Displaced' /\ OwnAddressBinds'
  BY <1>2, <1>3, <1>4, <1>8 DEF ListInv, Displaced, OwnAddressBinds, Failed, Addr, Workers
<1> QED
  BY <1>5, <1>6, <1>7, <1>8, <1>9, <1>10 DEF ListInv

\* A reconcile has stopped everything it had to.
LEMMA DoneKeeps ==
  ASSUME ListInv, NEW r \in Reconciler, ReconcileDone(r)
  PROVE  ListInv'
<1>1. /\ job[r].step = "stop" /\ job[r].stop = {} /\ job' = [job EXCEPT ![r] = IdleJob]
      /\ UNCHANGED <<cache, filling, servers, srv, dirty, overlapped, reloads>>
  BY DEF ReconcileDone, feed
<1>2. IdleJob \in Jobs /\ IdleJob.step = "idle" /\ IdleJob.stop = {} /\ Named(IdleJob.want)
  BY DEF IdleJob, Nothing, Jobs, Named
<1>3. /\ job'[r] = IdleJob /\ (\A q \in Workers \ {r} : job'[q] = job[q]) /\ job' \in [Workers -> Jobs]
  BY <1>1, <1>2 DEF ListInv, TypeOK, Workers, Jobs
<1>4. TypeOK'
  BY <1>1, <1>3 DEF ListInv, TypeOK, Workers, Jobs
<1>5. Configured' /\ InUse' /\ Steps'
  BY <1>1, <1>2, <1>3 DEF ListInv, Configured, Named, InUse, Steps, Workers
<1>6. Owned' /\ Alone'
  BY <1>1, <1>2, <1>3 DEF ListInv, Owned, Live, Alone, Workers
<1>7. Follows'
  BY <1>1, <1>2, <1>3 DEF ListInv, Follows, Addr, Workers
<1>8. Displaced' /\ OwnAddressBinds'
  BY <1>1, <1>2, <1>3 DEF ListInv, Displaced, OwnAddressBinds, Failed, Addr, Workers
<1> QED
  BY <1>4, <1>5, <1>6, <1>7, <1>8 DEF ListInv

\* Adapter.Shutdown begins.
LEMMA ShutdownKeeps ==
  ASSUME ListInv, Shutdown
  PROVE  ListInv'
<1>1. /\ job["main"].step = "running"
      /\ job' = [job EXCEPT !["main"].step = "stop", !["main"].stop = Range(servers) \ {None}]
      /\ UNCHANGED <<cache, filling, servers, srv, dirty, overlapped, reloads>>
  BY DEF Shutdown, feed
<1>2. PICK j : j = [job["main"] EXCEPT !.step = "stop", !.stop = Range(servers) \ {None}]
  OBVIOUS
<1>3. /\ job["main"] \in Jobs /\ Range(servers) \ {None} \subseteq Server
      /\ \A s \in Range(servers) \ {None} : srv[s].st # "unused"
  BY DEF ListInv, TypeOK, Jobs, InUse, Range
<1>4. j \in Jobs /\ j.step = "stop" /\ j.want = job["main"].want /\ j.stop = Range(servers) \ {None}
  BY <1>2, <1>3 DEF Jobs
<1>5. /\ job'["main"] = j /\ (\A q \in Reconciler : job'[q] = job[q]) /\ job' \in [Workers -> Jobs]
  BY <1>1, <1>2, <1>4, ReconcilerAssumption DEF ListInv, TypeOK, Workers, Jobs
<1>6. TypeOK'
  BY <1>1, <1>5 DEF ListInv, TypeOK, Workers, Jobs
<1>7. Configured' /\ InUse' /\ Steps'
  <2>1. Configured'
    <3>1. cache' = cache /\ filling' = filling /\ \A q \in Reconciler \cup {"main"} : job'[q].want = job[q].want
      BY <1>1, <1>4, <1>5
    <3> QED
      BY <3>1 DEF ListInv, Configured, Named
  <2>2. InUse'
    BY <1>1, <1>3, <1>4, <1>5 DEF ListInv, InUse
  <2>3. Steps'
    BY <1>4, <1>5 DEF ListInv, Steps
  <2> QED
    BY <2>1, <2>2, <2>3
<1>8. Owned' /\ Alone' /\ Follows'
  <2>1. Owned'
    BY <1>1, <1>5 DEF ListInv, Owned, Live
  <2>2. Alone'
    BY <1>1, <1>5 DEF ListInv, Alone
  <2>3. Follows'
    BY <1>1, <1>5 DEF ListInv, Follows, Addr
  <2> QED
    BY <2>1, <2>2, <2>3
<1>9. \A e \in Entrypoint : Addr(e)' = Addr(e)
  BY <1>1, SameAddr
<1>10. Displaced'
  <2> SUFFICES ASSUME ~overlapped, NEW q \in Reconciler, NEW s \in job'[q].stop,
                      NEW e \in Entrypoint, servers[e] # None, Addr(e) = srv'[s].port
               PROVE  \E d \in Entrypoint \ {e} : Addr(e) \in PortsOf[d]
    BY <1>1, <1>9 DEF Displaced
  <2>1. s \in job[q].stop /\ Addr(e) = srv[s].port
    BY <1>1, <1>5
  <2> QED
    BY <2>1 DEF ListInv, Displaced
<1>11. OwnAddressBinds'
  BY <1>1, <1>9 DEF ListInv, OwnAddressBinds, Failed
<1> QED
  BY <1>6, <1>7, <1>8, <1>10, <1>11 DEF ListInv

\* A state of servers that keep their addresses, nothing unused coming into use
\* and nothing in use becoming unused.
LEMMA StatesKeep ==
  ASSUME ListInv, UNCHANGED <<cache, filling, servers, dirty, overlapped, reloads>>,
         DOMAIN srv' = Server,
         srv' \in [Server -> [port : Port \cup {None}, st : ServerStates]],
         \A s \in Server : srv'[s].port = srv[s].port,
         \A s \in Server : (srv'[s].st = "unused") <=> (srv[s].st = "unused"),
         job' \in [Workers -> Jobs],
         \A q \in Workers : /\ job'[q].want = job[q].want /\ job'[q].stop \subseteq job[q].stop
                            /\ job'[q].step # "stop" => job'[q].stop = {},
         \A q \in Reconciler : job'[q].step = job[q].step
  PROVE  /\ TypeOK' /\ Configured' /\ InUse' /\ Steps' /\ Alone' /\ Follows' /\ Displaced'
         /\ \A e \in Entrypoint : Addr(e)' = Addr(e)
<1>1. \A e \in Entrypoint : Addr(e)' = Addr(e)
  BY SameAddr
<1>2. (\A s \in Server : (srv[s].port = None) <=> (srv[s].st = "unused"))'
  BY DEF ListInv, TypeOK
<1>3. TypeOK'
  BY <1>2 DEF ListInv, TypeOK, Workers, Jobs
<1>4. Configured'
  BY DEF ListInv, Configured, Named, Workers
<1>5. InUse'
  <2>1. ASSUME NEW e \in Entrypoint, servers'[e] # None
        PROVE  srv'[servers'[e]].st # "unused" /\ srv'[servers'[e]].port \in PortsOf[e]
    <3>1. servers'[e] = servers[e] /\ servers[e] \in Server
      BY <2>1 DEF ListInv, TypeOK
    <3> QED
      BY <2>1, <3>1 DEF ListInv, InUse
  <2>2. ASSUME NEW q \in Workers, NEW s \in job'[q].stop PROVE srv'[s].st # "unused"
    <3>1. s \in job[q].stop /\ s \in Server
      BY DEF ListInv, TypeOK, Workers
    <3> QED
      BY <3>1 DEF ListInv, InUse, Workers
  <2> QED
    BY <2>1, <2>2 DEF InUse, Workers
<1>6. Steps' /\ Alone'
  BY DEF ListInv, Steps, Alone, Workers
<1>7. Follows'
  BY <1>1 DEF ListInv, Follows, Workers
<1>8. Displaced'
  <2> SUFFICES ASSUME ~overlapped, NEW q \in Reconciler, NEW s \in job'[q].stop,
                      NEW e \in Entrypoint, servers[e] # None, Addr(e) = srv'[s].port
               PROVE  \E d \in Entrypoint \ {e} : Addr(e) \in PortsOf[d]
    BY <1>1 DEF Displaced
  <2>1. s \in job[q].stop /\ s \in Server
    BY DEF ListInv, TypeOK, Workers
  <2>2. Addr(e) = srv[s].port
    BY <2>1
  <2> QED
    BY <2>1, <2>2 DEF ListInv, Displaced
<1> QED
  BY <1>1, <1>3, <1>4, <1>5, <1>6, <1>7, <1>8

\* Run starts the servers of the map.
LEMMA RunKeeps ==
  ASSUME ListInv, Run
  PROVE  ListInv'
<1>1. /\ job["main"] = IdleJob /\ job' = [job EXCEPT !["main"].step = "running"]
      /\ srv' = [s \in Server |->
                   IF s \in Range(servers) /\ srv[s].st \in {"new", "failed"}
                   THEN [srv[s] EXCEPT !.st = "starting"] ELSE srv[s]]
      /\ UNCHANGED <<cache, filling, servers, dirty, overlapped, reloads>>
  BY DEF Run, feed
<1>2. PICK j : j = [job["main"] EXCEPT !.step = "running"]
  OBVIOUS
<1>3. job["main"] \in Jobs /\ job["main"].stop = {}
  BY <1>1 DEF ListInv, TypeOK, Jobs, IdleJob
<1>4. j \in Jobs /\ j.step = "running" /\ j.want = job["main"].want /\ j.stop = {}
  BY <1>2, <1>3 DEF Jobs
<1>5. /\ job'["main"] = j /\ (\A q \in Reconciler : job'[q] = job[q]) /\ job' \in [Workers -> Jobs]
  BY <1>1, <1>2, <1>4, ReconcilerAssumption DEF ListInv, TypeOK, Workers, Jobs
<1>6. ASSUME NEW s \in Server
      PROVE  /\ srv'[s] \in [port : Port \cup {None}, st : ServerStates]
             /\ srv'[s].port = srv[s].port
             /\ (srv'[s].st = "unused") <=> (srv[s].st = "unused")
             /\ srv'[s].st = "failed" => srv[s].st = "failed"
             /\ Live(s)' /\ ~Live(s) => s \in Range(servers)
  <2>1. srv[s] \in [port : Port \cup {None}, st : ServerStates]
    BY DEF ListInv, TypeOK
  <2>2. CASE s \in Range(servers) /\ srv[s].st \in {"new", "failed"}
    <3>1. srv'[s] = [srv[s] EXCEPT !.st = "starting"]
      BY <1>1, <2>2
    <3> QED
      BY <2>1, <2>2, <3>1 DEF ServerStates
  <2>3. CASE ~(s \in Range(servers) /\ srv[s].st \in {"new", "failed"})
    <3>1. srv'[s] = srv[s]
      BY <1>1, <2>3
    <3> QED
      BY <2>1, <3>1 DEF Live
  <2> QED
    BY <2>2, <2>3
<1>7. DOMAIN srv' = Server /\ srv' \in [Server -> [port : Port \cup {None}, st : ServerStates]]
  BY <1>1, <1>6
<1>8. \A q \in Workers : /\ job'[q].want = job[q].want /\ job'[q].stop \subseteq job[q].stop
                         /\ job'[q].step # "stop" => job'[q].stop = {}
  BY <1>4, <1>5 DEF ListInv, Steps, Workers
<1>9. /\ TypeOK' /\ Configured' /\ InUse' /\ Steps' /\ Alone' /\ Follows' /\ Displaced'
      /\ \A e \in Entrypoint : Addr(e)' = Addr(e)
  BY <1>1, <1>5, <1>6, <1>7, <1>8, StatesKeep
<1>10. Owned'
  <2> SUFFICES ASSUME NEW s \in Server, Live(s)'
               PROVE  (\E e \in Entrypoint : servers[e] = s) \/ \E q \in Reconciler : s \in job[q].stop
    BY <1>1, <1>5 DEF Owned
  <2>1. CASE Live(s)
    BY <2>1 DEF ListInv, Owned
  <2>2. CASE ~Live(s)
    <3>1. s \in Range(servers)
      BY <1>6, <2>2
    <3> QED
      BY <3>1 DEF Range, ListInv, TypeOK
  <2> QED
    BY <2>1, <2>2
<1>11. OwnAddressBinds'
  <2>1. \A e \in Failed' : e \in Failed
    BY <1>1, <1>6 DEF Failed, ListInv, TypeOK
  <2> QED
    BY <1>1, <1>9, <2>1 DEF ListInv, OwnAddressBinds, Failed
<1> QED
  BY <1>9, <1>10, <1>11 DEF ListInv

\* A server is shut down.
LEMMA StopOneKeeps ==
  ASSUME ListInv, NEW r \in Workers, NEW x \in Server, StopOne(r, x)
  PROVE  ListInv'
<1>1. /\ job[r].step = "stop" /\ x \in job[r].stop
      /\ srv' = [srv EXCEPT ![x].st = "closed"] /\ job' = [job EXCEPT ![r].stop = @ \ {x}]
      /\ UNCHANGED <<cache, filling, servers, dirty, overlapped, reloads>>
  BY DEF StopOne, feed
<1>2. PICK j : j = [job[r] EXCEPT !.stop = job[r].stop \ {x}]
  OBVIOUS
<1>3. job[r] \in Jobs /\ srv[x].st # "unused"
  BY <1>1 DEF ListInv, TypeOK, Jobs, Workers, InUse
<1>4. j \in Jobs /\ j.step = "stop" /\ j.want = job[r].want /\ j.stop = job[r].stop \ {x}
  BY <1>1, <1>2, <1>3 DEF Jobs
<1>5. /\ job'[r] = j /\ (\A q \in Workers \ {r} : job'[q] = job[q]) /\ job' \in [Workers -> Jobs]
  BY <1>1, <1>2, <1>4 DEF ListInv, TypeOK, Workers, Jobs
<1>6. /\ srv[x] \in [port : Port \cup {None}, st : ServerStates]
      /\ srv'[x] = [srv[x] EXCEPT !.st = "closed"] /\ \A s \in Server \ {x} : srv'[s] = srv[s]
      /\ DOMAIN srv' = Server
  BY <1>1 DEF ListInv, TypeOK
<1>7. srv'[x].st = "closed" /\ srv'[x].port = srv[x].port
  BY <1>6
<1>8. srv' \in [Server -> [port : Port \cup {None}, st : ServerStates]]
  BY <1>1 DEF ListInv, TypeOK, ServerStates
<1>9. \A q \in Workers : /\ job'[q].want = job[q].want /\ job'[q].stop \subseteq job[q].stop
                         /\ job'[q].step # "stop" => job'[q].stop = {}
  BY <1>4, <1>5 DEF ListInv, Steps, Workers
<1>10. /\ TypeOK' /\ Configured' /\ InUse' /\ Steps' /\ Alone' /\ Follows' /\ Displaced'
       /\ \A e \in Entrypoint : Addr(e)' = Addr(e)
  <2>1. \A q \in Reconciler : job'[q].step = job[q].step
    BY <1>1, <1>4, <1>5 DEF Workers
  <2>2. \A s \in Server : /\ srv'[s].port = srv[s].port
                          /\ (srv'[s].st = "unused") <=> (srv[s].st = "unused")
    BY <1>3, <1>6, <1>7
  <2> QED
    BY <1>1, <1>5, <1>6, <1>8, <1>9, <2>1, <2>2, StatesKeep
<1>11. Owned'
  <2> SUFFICES ASSUME NEW s \in Server, Live(s)'
               PROVE  (\E e \in Entrypoint : servers[e] = s) \/ \E q \in Reconciler : s \in job'[q].stop
    BY <1>1 DEF Owned
  <2>1. s # x /\ srv'[s] = srv[s]
    BY <1>6, <1>7 DEF Live
  <2>2. (\E e \in Entrypoint : servers[e] = s) \/ \E q \in Reconciler : s \in job[q].stop
    BY <2>1 DEF ListInv, Owned, Live
  <2> QED
    BY <1>4, <1>5, <2>1, <2>2 DEF Workers
<1>12. OwnAddressBinds'
  <2>1. \A e \in Failed' : e \in Failed
    BY <1>1, <1>6, <1>7 DEF Failed, ListInv, TypeOK
  <2> QED
    BY <1>1, <1>10, <2>1 DEF ListInv, OwnAddressBinds, Failed
<1> QED
  BY <1>10, <1>11, <1>12 DEF ListInv

\* A server that cannot bind has a listening one at its address: of another
\* entrypoint, or displaced by one.
LEMMA ListenKeeps ==
  ASSUME ListInv, NEW x \in Server, Listen(x)
  PROVE  ListInv'
<1>1. PICK st : st = IF Listening(srv[x].port) THEN "failed" ELSE "listening"
  OBVIOUS
<1>2. /\ srv[x].st = "starting" /\ srv' = [srv EXCEPT ![x].st = st]
      /\ UNCHANGED <<cache, filling, servers, job, overlapped, dirty, reloads>>
  BY <1>1 DEF Listen, feed
<1>3. /\ srv[x] \in [port : Port \cup {None}, st : ServerStates]
      /\ srv'[x] = [srv[x] EXCEPT !.st = st] /\ \A s \in Server \ {x} : srv'[s] = srv[s]
      /\ DOMAIN srv' = Server
  BY <1>2 DEF ListInv, TypeOK
<1>4. srv'[x].st = st /\ srv'[x].port = srv[x].port /\ st \in {"failed", "listening"}
  BY <1>1, <1>3
<1>5. srv' \in [Server -> [port : Port \cup {None}, st : ServerStates]]
  BY <1>2, <1>4 DEF ListInv, TypeOK, ServerStates
<1>6. job \in [Workers -> Jobs] /\ \A q \in Workers : job[q].step # "stop" => job[q].stop = {}
  BY DEF ListInv, TypeOK, Workers, Jobs, Steps
<1>7. /\ TypeOK' /\ Configured' /\ InUse' /\ Steps' /\ Alone' /\ Follows' /\ Displaced'
      /\ \A e \in Entrypoint : Addr(e)' = Addr(e)
  <2>1. \A s \in Server : /\ srv'[s].port = srv[s].port
                          /\ (srv'[s].st = "unused") <=> (srv[s].st = "unused")
    BY <1>2, <1>3, <1>4
  <2> QED
    BY <1>2, <1>3, <1>5, <1>6, <2>1, StatesKeep
<1>8. Owned'
  <2> SUFFICES ASSUME NEW s \in Server, Live(s)'
               PROVE  (\E e \in Entrypoint : servers[e] = s) \/ \E q \in Reconciler : s \in job[q].stop
    BY <1>2 DEF Owned
  <2>1. Live(s)
    BY <1>2, <1>3 DEF Live
  <2> QED
    BY <2>1 DEF ListInv, Owned
<1>9. OwnAddressBinds'
  <2> SUFFICES ASSUME ~overlapped, NEW e \in Entrypoint, servers[e] # None, srv'[servers[e]].st = "failed"
               PROVE  \E d \in Entrypoint \ {e} : Addr(e) \in PortsOf[d]
    BY <1>2, <1>7 DEF OwnAddressBinds, Failed
  <2>1. servers[e] \in Server /\ Addr(e) = srv[servers[e]].port
    BY DEF ListInv, TypeOK, Addr
  <2>2. CASE servers[e] # x
    BY <1>3, <2>1, <2>2 DEF ListInv, OwnAddressBinds, Failed
  <2>3. CASE servers[e] = x
    <3>1. Listening(srv[x].port)
      BY <1>1, <1>4, <2>3
    <3>2. PICK y \in Server : srv[y] = [port |-> srv[x].port, st |-> "listening"]
      BY <3>1 DEF Listening
    <3>3. y # x /\ Live(y) /\ srv[y].port = Addr(e)
      BY <1>2, <2>1, <2>3, <3>2 DEF Live
    <3>4. CASE \E q \in Reconciler : y \in job[q].stop
      BY <3>3, <3>4 DEF ListInv, Displaced
    <3>5. ASSUME NEW d \in Entrypoint, servers[d] = y
          PROVE  d # e /\ Addr(e) \in PortsOf[d]
      <4>1. d # e /\ servers[d] # None
        BY <2>3, <3>3, <3>5, PortsAssumption
      <4> QED
        BY <3>3, <3>5, <4>1 DEF ListInv, InUse
    <3> QED
      BY <3>3, <3>4, <3>5 DEF ListInv, Owned
  <2> QED
    BY <2>2, <2>3
<1> QED
  BY <1>7, <1>8, <1>9 DEF ListInv

\* The swap.
LEMMA SwapKeeps ==
  ASSUME ListInv, NEW r \in Reconciler, ReconcileSwap(r)
  PROVE  ListInv'
<1>1. PICK want : want = job[r].want
  OBVIOUS
<1>2. /\ job[r].step = "read"
      /\ job' = [job EXCEPT ![r] = [step |-> "stop", want |-> Nothing, stop |-> StopList(want)]]
      /\ UNCHANGED <<cache, filling, dirty, overlapped, reloads>>
  BY <1>1 DEF ReconcileSwap, feed
<1>3. /\ servers' \in [Entrypoint -> Server \cup {None}]
      /\ \A s \in Server : srv[s].st # "unused" => srv'[s] = srv[s]
  BY <1>1, Swapped
<1>4. \A s \in Server : srv'[s] # srv[s] => \E e \in ToStart(want) : servers'[e] = s
  BY <1>1, Swapped
<1>5. /\ \A e \in ToStart(want) : /\ servers'[e] \in Server
                                  /\ srv'[servers'[e]] = [port |-> want[e], st |-> "starting"]
  BY <1>1, Swapped
<1>6. /\ \A e \in Entrypoint \ ToStart(want) :
           servers'[e] = IF e \in ToStop(want) THEN None ELSE servers[e]
  BY <1>1, Swapped
<1>7. /\ job[r] \in Jobs /\ job[r].stop = {} /\ want \in [Entrypoint -> Port \cup {None}] /\ Named(want)
      /\ ToStart(want) \subseteq Entrypoint /\ ToStop(want) \subseteq Entrypoint
      /\ \A e \in ToStart(want) : want[e] # None
      /\ \A e \in ToStop(want) : servers[e] # None /\ Addr(e) # want[e]
  BY <1>1, <1>2 DEF ListInv, TypeOK, Jobs, Steps, Configured, ToStart, ToStop
<1>8. \A e \in Entrypoint : servers[e] # None =>
        /\ servers[e] \in Server /\ srv[servers[e]].st # "unused" /\ srv[servers[e]].port \in PortsOf[e]
        /\ srv'[servers[e]] = srv[servers[e]] /\ Addr(e) = srv[servers[e]].port
  BY <1>3 DEF ListInv, TypeOK, InUse, Addr
<1>9. StopList(want) \subseteq Server /\ \A s \in StopList(want) : \E e \in ToStop(want) : s = servers[e]
  BY <1>7, <1>8 DEF StopList
<1>10. PICK j : j = [step |-> "stop", want |-> Nothing, stop |-> StopList(want)]
  OBVIOUS
<1>11. j \in Jobs /\ j.step = "stop" /\ Named(j.want) /\ j.stop = StopList(want)
  BY <1>9, <1>10 DEF Jobs, Nothing, Named
<1>12. /\ job'[r] = j /\ (\A q \in Workers \ {r} : job'[q] = job[q]) /\ job' \in [Workers -> Jobs]
  BY <1>2, <1>10, <1>11 DEF ListInv, TypeOK, Workers, Jobs
<1>13. \A e \in Entrypoint : Addr(e)' = want[e]
  BY <1>1, SwapAddr
<1>14. /\ srv' \in [Server -> [port : Port \cup {None}, st : ServerStates]]
       /\ \A s \in Server : (srv'[s].port = None) <=> (srv'[s].st = "unused")
  <2>1. ASSUME NEW s \in Server
        PROVE  /\ srv'[s] \in [port : Port \cup {None}, st : ServerStates]
               /\ (srv'[s].port = None) <=> (srv'[s].st = "unused")
    <3>1. CASE srv'[s] = srv[s]
      BY <3>1 DEF ListInv, TypeOK
    <3>2. CASE srv'[s] # srv[s]
      <4>1. PICK e \in ToStart(want) : srv'[s] = [port |-> want[e], st |-> "starting"]
        BY <1>4, <1>5, <3>2
      <4>2. want[e] \in Port /\ want[e] # None
        BY <1>7
      <4> QED
        BY <4>1, <4>2 DEF ServerStates
    <3> QED
      BY <3>1, <3>2
  <2>2. DOMAIN srv' = Server /\ srv' = [s \in Server |-> srv'[s]]
    BY DEF ReconcileSwap
  <2> QED
    BY <2>1, <2>2
<1>15. TypeOK'
  BY <1>2, <1>3, <1>12, <1>14 DEF ListInv, TypeOK, Workers, Jobs
<1>16. Configured' /\ Steps' /\ Alone'
  BY <1>2, <1>7, <1>11, <1>12 DEF ListInv, Configured, Named, Steps, Alone, Workers
<1>17. InUse'
  <2>1. ASSUME NEW e \in Entrypoint, servers'[e] # None
        PROVE  srv'[servers'[e]].st # "unused" /\ srv'[servers'[e]].port \in PortsOf[e]
    <3>1. CASE e \in ToStart(want)
      <4>1. srv'[servers'[e]] = [port |-> want[e], st |-> "starting"]
        BY <1>5, <3>1
      <4>2. want[e] \in PortsOf[e]
        BY <1>7, <3>1 DEF Named
      <4> QED
        BY <4>1, <4>2
    <3>2. CASE e \notin ToStart(want)
      BY <1>6, <1>8, <2>1, <3>2
    <3> QED
      BY <3>1, <3>2
  <2>2. ASSUME NEW q \in Workers, NEW s \in job'[q].stop PROVE srv'[s].st # "unused"
    <3>1. CASE q = r
      BY <1>7, <1>8, <1>9, <1>11, <1>12, <3>1
    <3>2. CASE q # r
      <4>1. s \in job[q].stop /\ s \in Server /\ srv[s].st # "unused"
        BY <1>12, <3>2 DEF ListInv, TypeOK, InUse, Workers
      <4> QED
        BY <1>3, <4>1
    <3> QED
      BY <3>1, <3>2
  <2> QED
    BY <2>1, <2>2 DEF InUse, Workers
<1>18. Owned'
  <2> SUFFICES ASSUME NEW s \in Server, Live(s)'
               PROVE  (\E e \in Entrypoint : servers'[e] = s) \/ \E q \in Reconciler : s \in job'[q].stop
    BY DEF Owned
  <2>1. CASE srv'[s] # srv[s]
    BY <1>4, <1>7, <2>1
  <2>2. CASE srv'[s] = srv[s]
    <3>1. (\E e \in Entrypoint : servers[e] = s) \/ \E q \in Reconciler : s \in job[q].stop
      BY <2>2 DEF ListInv, Owned, Live
    <3>2. ASSUME NEW e \in Entrypoint, servers[e] = s
          PROVE  (\E d \in Entrypoint : servers'[d] = s) \/ \E q \in Reconciler : s \in job'[q].stop
      <4>1. s # None
        BY PortsAssumption
      <4>2. CASE e \in ToStop(want)
        BY <1>11, <1>12, <3>2, <4>2 DEF StopList
      <4>3. CASE e \notin ToStop(want)
        BY <1>6, <3>2, <4>1, <4>3 DEF ToStart
      <4> QED
        BY <4>2, <4>3
    <3>3. ASSUME NEW q \in Reconciler, s \in job[q].stop PROVE s \in job'[q].stop
      BY <1>7, <1>12, <3>3 DEF Workers
    <3> QED
      BY <3>1, <3>2, <3>3
  <2> QED
    BY <2>1, <2>2
<1>19. ~overlapped => \A q \in Reconciler \ {r} : job[q].step = "idle" /\ job[q].stop = {}
  BY <1>2 DEF ListInv, Alone, Steps
<1>20. Follows'
  <2> SUFFICES ASSUME ~overlapped, ~dirty
               PROVE  /\ \A q \in Reconciler : job'[q].step # "read"
                      /\ \A e \in Entrypoint : Addr(e)' = cache[e]
    BY <1>2 DEF Follows
  <2>1. want = cache
    BY <1>1, <1>2 DEF ListInv, Follows
  <2> QED
    BY <1>11, <1>12, <1>13, <1>19, <2>1 DEF Workers
<1>21. Displaced'
  <2> SUFFICES ASSUME ~overlapped, NEW q \in Reconciler, NEW s \in job'[q].stop,
                      NEW e \in Entrypoint, servers'[e] # None, want[e] = srv'[s].port
               PROVE  \E d \in Entrypoint \ {e} : want[e] \in PortsOf[d]
    BY <1>2, <1>13 DEF Displaced
  <2>1. q = r /\ s \in StopList(want)
    BY <1>11, <1>12, <1>19 DEF Workers
  <2>2. PICK d \in ToStop(want) : s = servers[d]
    BY <1>9, <2>1
  <2>3. want[e] \in PortsOf[d] /\ want[e] = Addr(d)
    BY <1>7, <1>8, <2>2
  <2>4. d # e
    BY <1>7, <2>3
  <2> QED
    BY <1>7, <2>3, <2>4
<1>22. OwnAddressBinds'
  <2> SUFFICES ASSUME ~overlapped, NEW e \in Entrypoint, servers'[e] # None, srv'[servers'[e]].st = "failed"
               PROVE  \E d \in Entrypoint \ {e} : want[e] \in PortsOf[d]
    BY <1>2, <1>13 DEF OwnAddressBinds, Failed
  <2>1. e \notin ToStart(want)
    <3> SUFFICES ASSUME e \in ToStart(want) PROVE FALSE
      OBVIOUS
    <3>1. srv'[servers'[e]] = [port |-> want[e], st |-> "starting"]
      BY <1>5
    <3> QED
      BY <3>1
  <2>2. servers'[e] = servers[e] /\ e \notin ToStop(want)
    BY <1>6, <2>1
  <2>3. e \in Failed /\ Addr(e) = want[e]
    BY <1>8, <2>2 DEF Failed, ToStop
  <2> QED
    BY <2>3 DEF ListInv, OwnAddressBinds
<1> QED
  BY <1>15, <1>16, <1>17, <1>18, <1>20, <1>21, <1>22 DEF ListInv

-----------------------------------------------------------------------------
\* NewHttpAdapter builds what the cache says.
LEMMA ListInit == Init => ListInv
<1> SUFFICES ASSUME Init PROVE ListInv
  OBVIOUS
<1>1. PICK es : es = {e \in Entrypoint : cache[e] # None}
  OBVIOUS
<1>2. PICK own : own = NewServers(es, Server)
  OBVIOUS
<1>3. /\ cache \in Configurations /\ filling = [l \in Loader |-> Nothing]
      /\ servers = [e \in Entrypoint |-> IF cache[e] = None THEN None ELSE own[e]]
      /\ srv = [s \in Server |->
                  IF s \in Range(own)
                  THEN [port |-> cache[CHOOSE e \in DOMAIN own : own[e] = s], st |-> "new"]
                  ELSE [port |-> None, st |-> "unused"]]
      /\ job = [r \in Reconciler \cup {"main"} |-> IdleJob]
      /\ overlapped = FALSE /\ dirty = FALSE /\ reloads = 0
  BY <1>1, <1>2 DEF Init
<1>4. /\ IsFiniteSet(es) /\ Cardinality(es) <= Cardinality(Server)
  <2>1. IsFiniteSet(es) /\ Cardinality(es) <= Cardinality(Entrypoint)
    BY <1>1, ServersAssumption, FS_Subset
  <2>2. Cardinality(es) \in Nat /\ Cardinality(Entrypoint) \in Nat /\ Cardinality(Server) \in Nat
    BY <2>1, ServersAssumption, FS_CardinalityType
  <2> QED
    BY <2>1, <2>2, ServersAssumption
<1>5. own \in [es -> Server] /\ \A a, b \in es : own[a] = own[b] => a = b
  BY <1>2, <1>4, ServersAssumption, EachItsOwn
<1>6. /\ cache \in [Entrypoint -> Port \cup {None}] /\ Named(cache)
      /\ Nothing \in [Entrypoint -> Port \cup {None}] /\ Named(Nothing)
      /\ \A l \in Loader : filling[l] = Nothing
  BY <1>3 DEF Configurations, Named, Nothing
<1>7. ASSUME NEW e \in es
      PROVE  /\ e \in Entrypoint /\ servers[e] = own[e] /\ own[e] \in Server /\ servers[e] # None
             /\ cache[e] \in PortsOf[e] /\ cache[e] \in Port /\ cache[e] # None
             /\ srv[own[e]] = [port |-> cache[e], st |-> "new"]
  <2>1. e \in Entrypoint /\ cache[e] # None /\ own[e] \in Server /\ own[e] \in Range(own)
    BY <1>1, <1>5 DEF Range
  <2>2. (CHOOSE d \in DOMAIN own : own[d] = own[e]) = e
    BY <1>5
  <2> QED
    BY <1>3, <1>6, <2>1, <2>2, PortsAssumption DEF Named
<1>8. ASSUME NEW e \in Entrypoint, e \notin es PROVE servers[e] = None /\ cache[e] = None
  BY <1>1, <1>3, <1>8
<1>9. ASSUME NEW s \in Server, \A e \in es : s # own[e] PROVE srv[s] = [port |-> None, st |-> "unused"]
  <2>1. s \notin Range(own)
    BY <1>5, <1>9 DEF Range
  <2> QED
    BY <1>3, <2>1
<1>10. /\ srv \in [Server -> [port : Port \cup {None}, st : ServerStates]]
       /\ \A s \in Server : (srv[s].port = None) <=> (srv[s].st = "unused")
  <2>1. ASSUME NEW s \in Server
        PROVE  /\ srv[s] \in [port : Port \cup {None}, st : ServerStates]
               /\ (srv[s].port = None) <=> (srv[s].st = "unused")
    <3>1. CASE \E e \in es : s = own[e]
      <4>1. PICK e \in es : s = own[e]
        BY <3>1
      <4>2. srv[s] = [port |-> cache[e], st |-> "new"] /\ cache[e] \in Port /\ cache[e] # None
        BY <1>7, <4>1
      <4> QED
        BY <4>2 DEF ServerStates
    <3>2. CASE \A e \in es : s # own[e]
      <4>1. srv[s] = [port |-> None, st |-> "unused"]
        BY <1>9, <3>2
      <4> QED
        BY <4>1 DEF ServerStates
    <3> QED
      BY <3>1, <3>2
  <2>2. srv = [s \in Server |-> srv[s]]
    BY <1>3
  <2> QED
    BY <2>1, <2>2
<1>11. servers \in [Entrypoint -> Server \cup {None}]
  BY <1>3, <1>7, <1>8
<1>12. /\ \A r \in Reconciler \cup {"main"} : job[r] = IdleJob
       /\ IdleJob \in Jobs /\ IdleJob.step = "idle" /\ IdleJob.stop = {} /\ Named(IdleJob.want)
  BY <1>3 DEF IdleJob, Nothing, Jobs, Named
<1>13. TypeOK
  <2>1. job \in [Reconciler \cup {"main"} -> Jobs] /\ 0 \in 0..MaxReloads
    BY <1>3, <1>12, MaxReloadsAssumption
  <2> QED
    BY <1>3, <1>6, <1>10, <1>11, <2>1 DEF TypeOK, Jobs
<1>14. Configured /\ Steps
  BY <1>3, <1>6, <1>12 DEF Configured, Steps, Named
<1>15. InUse
  <2>1. ASSUME NEW e \in Entrypoint, servers[e] # None
        PROVE  srv[servers[e]].st # "unused" /\ srv[servers[e]].port \in PortsOf[e]
    <3>1. e \in es
      BY <1>8, <2>1
    <3>2. srv[servers[e]] = [port |-> cache[e], st |-> "new"] /\ cache[e] \in PortsOf[e]
      BY <1>7, <3>1
    <3> QED
      BY <3>2
  <2> QED
    BY <1>12, <2>1 DEF InUse
<1>16. Owned
  <2> SUFFICES ASSUME NEW s \in Server, Live(s) PROVE \E e \in Entrypoint : servers[e] = s
    BY DEF Owned
  <2>1. srv[s] # [port |-> None, st |-> "unused"]
    BY DEF Live
  <2>2. PICK e \in es : s = own[e]
    BY <1>9, <2>1
  <2> QED
    BY <1>7, <2>2
<1>17. Alone /\ Displaced
  BY <1>12 DEF Alone, Displaced
<1>18. Follows
  <2>1. ASSUME NEW e \in Entrypoint PROVE Addr(e) = cache[e]
    <3>1. CASE e \in es
      <4>1. servers[e] # None /\ srv[servers[e]] = [port |-> cache[e], st |-> "new"]
        BY <1>7, <3>1
      <4> QED
        BY <4>1 DEF Addr
    <3>2. CASE e \notin es
      BY <1>8, <3>2 DEF Addr
    <3> QED
      BY <3>1, <3>2
  <2> QED
    BY <1>12, <2>1 DEF Follows
<1>19. OwnAddressBinds
  <2> SUFFICES ASSUME NEW e \in Entrypoint, servers[e] # None, srv[servers[e]].st = "failed" PROVE FALSE
    BY DEF OwnAddressBinds, Failed
  <2>1. e \in es
    BY <1>8
  <2>2. srv[servers[e]] = [port |-> cache[e], st |-> "new"]
    BY <1>7, <2>1
  <2> QED
    BY <2>2
<1> QED
  BY <1>13, <1>14, <1>15, <1>16, <1>17, <1>18, <1>19 DEF ListInv

\* Every step keeps the invariant.
LEMMA ListNext == ListInv /\ [Next]_vars => ListInv'
<1> SUFFICES ASSUME ListInv, [Next]_vars PROVE ListInv'
  OBVIOUS
<1>1. CASE UNCHANGED vars
  <2>1. UNCHANGED <<cache, filling, servers, srv, job, overlapped, dirty, reloads>>
    BY <1>1 DEF vars
  <2>2. TypeOK' /\ Configured' /\ InUse' /\ Steps' /\ Owned' /\ Alone'
    BY <2>1 DEF ListInv, TypeOK, Configured, Named, InUse, Steps, Owned, Live, Alone
  <2>3. Follows' /\ Displaced' /\ OwnAddressBinds'
    BY <2>1 DEF ListInv, Follows, Displaced, OwnAddressBinds, Failed, Addr
  <2> QED
    BY <2>2, <2>3 DEF ListInv
<1>2. CASE Next
  <2>1. ASSUME NEW r \in Reconciler, ReconcileRead(r) \/ ReconcileSwap(r) \/ ReconcileDone(r)
        PROVE  ListInv'
    BY <2>1, ReadKeeps, SwapKeeps, DoneKeeps
  <2>2. ASSUME NEW r \in Reconciler \cup {"main"}, NEW s \in Server, StopOne(r, s) PROVE ListInv'
    BY <2>2, StopOneKeeps DEF Workers
  <2>3. ASSUME NEW s \in Server, Listen(s) PROVE ListInv'
    BY <2>3, ListenKeeps
  <2>4. CASE \E l \in Loader : ReloadClear(l) \/ \E e \in Entrypoint : ReloadSet(l, e)
    BY <2>4, ReloadKeeps
  <2>5. CASE Run \/ Shutdown
    BY <2>5, RunKeeps, ShutdownKeeps
  <2> QED
    BY <1>2, <2>1, <2>2, <2>3, <2>4, <2>5 DEF Next
<1> QED
  BY <1>1, <1>2

\* The invariant holds always.
LEMMA ListInvAlways == Spec => []ListInv
BY ListInit, ListNext, PTL DEF Spec

\* State stays well formed, and a server in use has an address.
THEOREM ListenersTypeOK == Spec => []TypeOK
<1>1. ListInv => TypeOK
  BY DEF ListInv
<1> QED
  BY <1>1, ListInvAlways, PTL

\* adapter.go ReconcileListeners: however reconciles overlap, no server is left
\* listening that is neither in the map nor about to be shut down.
THEOREM NobodyListensUnowned == Spec => []NoOrphanListener
<1>1. ListInv => NoOrphanListener
  BY DEF ListInv, Owned, Live, NoOrphanListener
<1> QED
  BY <1>1, ListInvAlways, PTL

\* adapter.go:46-47: a reconcile that read the latest cache and met no other
\* brings the map in line with it.
THEOREM ReconcileFollowsCache == Spec => []ListenersFollowCache
<1>1. ListInv => ListenersFollowCache
  BY DEF ListInv, Follows, ListenersFollowCache
<1> QED
  BY <1>1, ListInvAlways, PTL

\* adapter.go:47-48: without overlapping reconciles a bind fails only on an
\* address that another entrypoint may have held.
THEOREM OnlyTakenAddressesFail == Spec => []OwnAddressBinds
<1>1. ListInv => OwnAddressBinds
  BY DEF ListInv
<1> QED
  BY <1>1, ListInvAlways, PTL
=============================================================================
