----------------------------- MODULE Resources -----------------------------
(***************************************************************************)
(* The control plane's resource API (controlplane/api): Apply and Delete   *)
(* of proxies, pools, balancers, routers, flows and entrypoints over the   *)
(* Badger repositories.                                                    *)
(*                                                                         *)
(* Resources name each other, and the service keeps those references whole *)
(* by looking before it writes: Apply requires every target, Delete lists  *)
(* the resources that name its victim.  Each look and each write is a      *)
(* Badger transaction of its own and no lock spans them, so calls          *)
(* interleave between any two; a call can fail at each of them, and the    *)
(* process can crash.  The event a write publishes is ChangeFeed's.        *)
(***************************************************************************)
CONSTANTS
  Proxy, Pool, Balancer, Router, Flow, Entrypoint,   \* names, per kind
  Auth,      \* proxy credentials
  Times,     \* instants a CreatedAt may hold
  Past,      \* the one among them before this process started
  Calls,     \* API calls; each is made at most once
  None

Resource == Proxy \cup Pool \cup Balancer \cup Router \cup Flow \cup Entrypoint

ASSUME KindsAssumption ==
  /\ Proxy \cap (Pool \cup Balancer \cup Router \cup Flow \cup Entrypoint) = {}
  /\ Pool \cap (Balancer \cup Router \cup Flow \cup Entrypoint) = {}
  /\ Balancer \cap (Router \cup Flow \cup Entrypoint) = {}
  /\ Router \cap (Flow \cup Entrypoint) = {}
  /\ Flow \cap Entrypoint = {}

ASSUME NoneAssumption == None \notin Resource \cup Auth \cup Times \cup {"omitted"}

ASSUME PastAssumption == Past \in Times

VARIABLES
  store,   \* what the repositories hold: a resource's content, or Absent
  call     \* where each call stands

vars == <<store, call>>

\* A resource, as far as the service's checks look at it.  "round-robin" is
\* every balancer type but weighted; "omitted" is a manifest without auth.
Content == [refs : SUBSET Resource,
            type : {"static", "dynamic", "weighted", "round-robin", "plain"},
            auth : Auth \cup {"omitted", None},
            created : Times \cup {None}]

\* What a repository holds has its auth resolved.
Held == {x \in Content : x.auth # "omitted"}

With(refs, type, auth) ==
  [refs |-> refs, type |-> type, auth |-> auth, created |-> None]

Absent == With({}, "plain", None)
Stored(r) == store[r].created # None

\* The manifests that pass spec and domain validation, per kind.
ProxySpecs == {With({}, "plain", a) : a \in Auth \cup {"omitted", None}}
PoolSpecs == {With(m, "static", None) : m \in SUBSET Proxy \ {{}}}
             \cup {With({}, "dynamic", None)}
BalancerSpecs == {With({p}, t, None) : p \in Pool, t \in {"weighted", "round-robin"}}
RouterSpecs == {With(b, "plain", None) : b \in SUBSET Balancer \ {{}}}
FlowSpecs == {With({r}, "plain", None) : r \in Router}
             \cup {With({b}, "plain", None) : b \in Balancer}
             \cup {With({r, b}, "plain", None) : r \in Router, b \in Balancer}
EntrypointSpecs == {With({f}, "plain", None) : f \in Flow}

\* What an earlier run may have left in the repository of a kind.
Forms(specs) ==
  {Absent} \cup {[s EXCEPT !.created = Past] : s \in {x \in specs : x.auth # "omitted"}}

\* Stored resources of kind R that name t (a List with a filter).
Referencing(R, t) == {r \in R : Stored(r) /\ t \in store[r].refs}

\* The resources that may name t.
Referencers(t) ==
  CASE t \in Proxy      -> Pool
    [] t \in Pool       -> Balancer
    [] t \in Balancer   -> Flow \cup Router
    [] t \in Router     -> Flow
    [] t \in Flow       -> Entrypoint
    [] t \in Entrypoint -> {}

Call == [op : {"idle", "apply", "delete", "done"},
         step : {"refs", "type", "find", "save"},
         name : Resource \cup {None},
         want : Content,     \* the manifest
         found : Held,       \* the stored resource, as an apply read it
         todo : SUBSET Resource,
         deps : SUBSET Resource]   \* the dependents a delete found

NoCall(op) == [op |-> op, step |-> "refs", name |-> None, want |-> Absent,
               found |-> Absent, todo |-> {}, deps |-> {}]

Applying(c) == call[c].op = "apply"
Deleting(c) == call[c].op = "delete"
Done(c) == call' = [call EXCEPT ![c] = NoCall("done")]

\* The process opens a database an earlier run left behind: whole, if that
\* run's calls did not race.
Init ==
  /\ \E x \in [Proxy -> Forms(ProxySpecs)], p \in [Pool -> Forms(PoolSpecs)],
        b \in [Balancer -> Forms(BalancerSpecs)], r \in [Router -> Forms(RouterSpecs)],
        f \in [Flow -> Forms(FlowSpecs)], e \in [Entrypoint -> Forms(EntrypointSpecs)] :
       store = [n \in Resource |-> CASE n \in Proxy      -> x[n]
                                     [] n \in Pool       -> p[n]
                                     [] n \in Balancer   -> b[n]
                                     [] n \in Router     -> r[n]
                                     [] n \in Flow       -> f[n]
                                     [] n \in Entrypoint -> e[n]]
  /\ \A n \in Resource : \A t \in store[n].refs :
       Stored(t) /\ (store[n].type = "weighted" => store[t].type = "static")
  /\ call = [c \in Calls |-> NoCall("idle")]

-----------------------------------------------------------------------------
(***************************************************************************)
(* Apply.                                                                  *)
(***************************************************************************)

\* Only a weighted balancer and a non-static pool have a type to check.
HasTypeCheck(s) == s.type \in {"weighted", "dynamic"}

StepAfterRefs(s) == IF HasTypeCheck(s) THEN "type" ELSE "find"

StartApply(c, r, s) ==
  /\ call[c].op = "idle"
  /\ call' = [call EXCEPT ![c] =
       [NoCall("apply") EXCEPT !.name = r, !.want = s, !.todo = s.refs,
        !.step = IF s.refs = {} THEN StepAfterRefs(s) ELSE "refs"]]
  /\ UNCHANGED store

ApplyProxyV1(c)      == \E r \in Proxy, s \in ProxySpecs : StartApply(c, r, s)
ApplyPoolV1(c)       == \E r \in Pool, s \in PoolSpecs : StartApply(c, r, s)
ApplyBalancerV1(c)   == \E r \in Balancer, s \in BalancerSpecs : StartApply(c, r, s)
ApplyRouterV1(c)     == \E r \in Router, s \in RouterSpecs : StartApply(c, r, s)
ApplyFlowV1(c)       == \E r \in Flow, s \in FlowSpecs : StartApply(c, r, s)
ApplyEntrypointV1(c) == \E r \in Entrypoint, s \in EntrypointSpecs : StartApply(c, r, s)

\* One target looked up; a missing one ends the call.
Require(c, T) == \E t \in call[c].todo \cap T :
  LET left == call[c].todo \ {t} IN
  /\ Applying(c)
  /\ IF Stored(t)
     THEN call' = [call EXCEPT
            ![c].todo = left,
            ![c].step = IF left = {} THEN StepAfterRefs(call[c].want) ELSE @]
     ELSE Done(c)
  /\ UNCHANGED store

RequireProxy(c)    == Require(c, Proxy)
RequirePool(c)     == Require(c, Pool)
RequireRouter(c)   == Require(c, Router)
RequireBalancer(c) == call[c].todo \cap Router = {} /\ Require(c, Balancer)
RequireFlow(c)     == Require(c, Flow)

\* Mutant: the pool's balancers are not consulted when it turns dynamic.
CheckTypeBalancerOnly(c) ==
  /\ Applying(c) /\ call[c].step = "type"
  /\ IF \A p \in call[c].want.refs : Stored(p) /\ store[p].type = "static"
     THEN call' = [call EXCEPT ![c].step = "find"]
     ELSE Done(c)
  /\ UNCHANGED store

\* A weighted balancer wants a static pool under it; a pool that turns
\* non-static wants no weighted balancer over it.
CheckType(c) ==
  LET s == call[c].want IN
  /\ Applying(c) /\ call[c].step = "type"
  /\ IF /\ s.type = "weighted" =>
             \A p \in s.refs : Stored(p) /\ store[p].type = "static"
        /\ s.type = "dynamic" =>
             \A b \in Referencing(Balancer, call[c].name) : store[b].type # "weighted"
     THEN call' = [call EXCEPT ![c].step = "find"]
     ELSE Done(c)
  /\ UNCHANGED store

\* The resource this call is about to replace is read.
FindExisting(c) ==
  /\ Applying(c) /\ call[c].step = "find"
  /\ call' = [call EXCEPT ![c].found = store[call[c].name], ![c].step = "save"]
  /\ UNCHANGED store

\* Mutant: the manifest replaces the stored credentials.
ResolveAuthReplace(s, found) == IF s.auth = "omitted" THEN None ELSE s.auth

\* Auth of the saved proxy: a manifest that omits it keeps the one read.
ResolveAuth(s, found) == IF s.auth = "omitted" THEN found.auth ELSE s.auth

\* Mutant: an update is stamped like a create.
ResolveCreatedAtNow(found) == Times \ {Past}

\* CreatedAt of the saved resource: the one read, or now.
ResolveCreatedAt(found) == IF found.created # None THEN {found.created} ELSE Times \ {Past}

Save(c) ==
  LET s == call[c].want IN
  /\ Applying(c) /\ call[c].step = "save"
  /\ \E t \in ResolveCreatedAt(call[c].found) :
       store' = [store EXCEPT ![call[c].name] =
                   [s EXCEPT !.created = t, !.auth = ResolveAuth(s, call[c].found)]]
  /\ Done(c)

-----------------------------------------------------------------------------
(***************************************************************************)
(* Delete.                                                                 *)
(***************************************************************************)

StartDelete(c, t) ==
  /\ call[c].op = "idle"
  /\ call' = [call EXCEPT ![c] =
       [NoCall("delete") EXCEPT !.name = t, !.todo = Referencers(t)]]
  /\ UNCHANGED store

DeleteProxy(c)      == \E t \in Proxy : StartDelete(c, t)
DeletePool(c)       == \E t \in Pool : StartDelete(c, t)
DeleteBalancer(c)   == \E t \in Balancer : StartDelete(c, t)
DeleteRouter(c)     == \E t \in Router : StartDelete(c, t)
DeleteFlow(c)       == \E t \in Flow : StartDelete(c, t)
DeleteEntrypoint(c) == \E t \in Entrypoint : StartDelete(c, t)

\* The resources of kind R are listed for the name of a resource of kind K.
\* The call is rejected once every kind was listed and one did name it.
ListDependents(c, K, R) ==
  LET t     == call[c].name
      left  == call[c].todo \ R
      deps  == call[c].deps \cup Referencing(R, t)
  IN
  /\ Deleting(c) /\ t \in K /\ call[c].todo \cap R # {}
  /\ IF left = {} /\ deps # {}
     THEN Done(c)
     ELSE call' = [call EXCEPT ![c].todo = left, ![c].deps = deps]
  /\ UNCHANGED store

RejectIfPoolsReferenceProxy(c)    == ListDependents(c, Proxy, Pool)
RejectIfBalancersReferencePool(c) == ListDependents(c, Pool, Balancer)
RejectIfFlowsReferenceRouter(c)   == ListDependents(c, Router, Flow)
RejectIfEntrypointsReferenceFlow(c) == ListDependents(c, Flow, Entrypoint)

\* Mutant: only the flows are listed.
RejectIfFlowsReferenceBalancer(c) ==
  /\ Deleting(c) /\ call[c].name \in Balancer /\ call[c].todo # {}
  /\ IF Referencing(Flow, call[c].name) # {}
     THEN Done(c)
     ELSE call' = [call EXCEPT ![c].todo = {}]
  /\ UNCHANGED store

\* Flows first, then routers.
RejectIfFlowsOrRoutersReferenceBalancer(c) ==
  \/ ListDependents(c, Balancer, Flow)
  \/ call[c].todo \cap Flow = {} /\ ListDependents(c, Balancer, Router)

\* A name that is not stored is a not-found error: nothing changes.
Remove(c) ==
  /\ Deleting(c) /\ call[c].todo = {} /\ call[c].deps = {}
  /\ store' = [store EXCEPT ![call[c].name] = Absent]
  /\ Done(c)

-----------------------------------------------------------------------------
\* Any transaction of a call can fail; the call returns the error.
StoreError(c) == (Applying(c) \/ Deleting(c)) /\ Done(c) /\ UNCHANGED store

\* The process dies with every call it was serving; the store stays.
Crash ==
  /\ \E c \in Calls : Applying(c) \/ Deleting(c)
  /\ call' = [c \in Calls |->
       IF Applying(c) \/ Deleting(c) THEN NoCall("done") ELSE call[c]]
  /\ UNCHANGED store

Begin(c) ==
  \/ ApplyProxyV1(c) \/ ApplyPoolV1(c) \/ ApplyBalancerV1(c)
  \/ ApplyRouterV1(c) \/ ApplyFlowV1(c) \/ ApplyEntrypointV1(c)
  \/ DeleteProxy(c) \/ DeletePool(c) \/ DeleteBalancer(c)
  \/ DeleteRouter(c) \/ DeleteFlow(c) \/ DeleteEntrypoint(c)

Look(c) ==
  \/ RequireProxy(c) \/ RequirePool(c) \/ RequireRouter(c)
  \/ RequireBalancer(c) \/ RequireFlow(c)
  \/ CheckType(c) \/ FindExisting(c)
  \/ RejectIfPoolsReferenceProxy(c) \/ RejectIfBalancersReferencePool(c)
  \/ RejectIfFlowsOrRoutersReferenceBalancer(c)
  \/ RejectIfFlowsReferenceRouter(c) \/ RejectIfEntrypointsReferenceFlow(c)

Next == Crash \/ \E c \in Calls :
          Begin(c) \/ Look(c) \/ Save(c) \/ Remove(c) \/ StoreError(c)

Spec == Init /\ [][Next]_vars

\* The repositories hold well-formed resources and every call is at a known
\* step.
TypeOK ==
  /\ store \in [Resource -> Held]
  /\ call \in [Calls -> Call]
=============================================================================
