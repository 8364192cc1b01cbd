----------------------------- MODULE ConfigApi -----------------------------
(***************************************************************************)
(* The control plane's resource calls as functions of the store, for one   *)
(* caller at a time: repository/badger under controlplane/api.  Resources  *)
(* has the same calls step by step, racing each other; here the contents   *)
(* are whole.                                                              *)
(***************************************************************************)
EXTENDS Manifests

CONSTANT GeneratedName   \* the name a ULID stands for

ASSUME NameAssumption == GeneratedName \in STRING \ {""}

Kinds == <<"Proxy", "Pool", "LoadBalancer", "Router", "Flow", "Entrypoint">>
Kind == Range(Kinds)

EmptyStore == [k \in Kind |-> <<>>]

-----------------------------------------------------------------------------
(***************************************************************************)
(* The repositories (repository/badger).  An object is saved as JSON:      *)
(* compiled regexes are not.                                               *)
(***************************************************************************)
Find(st, k, n) == IF n \in DOMAIN st[k] THEN st[k][n] ELSE None
With(f, n, x) == [m \in DOMAIN f \cup {n} |-> IF m = n THEN x ELSE f[m]]
Put(st, k, o) == [st EXCEPT ![k] = With(@, o.id, o)]
Drop(st, k, n) == [st EXCEPT ![k] = [m \in DOMAIN @ \ {n} |-> @[m]]]

SaveProxy(st, p) == Put(st, "Proxy", p)
SavePool(st, p) == Put(st, "Pool", p)
SaveBalancer(st, b) == Put(st, "LoadBalancer", b)
SaveRouter(st, r) == Put(st, "Router", RouterFromSpecV1([name |-> r.id], r))
SaveFlow(st, f) == Put(st, "Flow", f)
SaveEntrypoint(st, e) == Put(st, "Entrypoint", e)

\* A read of several objects: an error, "" for none, and the objects.
Found(objs) == [err |-> "", objs |-> objs]
Failed(err) == [err |-> err, objs |-> {}]

\* GetByIds, in the order asked; an error when one of them is missing.
GetByIds(st, ids) ==
  IF Range(ids) \subseteq DOMAIN st["Proxy"]
  THEN Found([i \in DOMAIN ids |-> st["Proxy"][ids[i]]]) ELSE Failed("not_found")

FindByLabels(st, allow) == {p \in Range(st["Proxy"]) : MatchesLabels(p.labels, allow)}

-----------------------------------------------------------------------------
(***************************************************************************)
(* controlplane/api.  A call returns the store it leaves, an error ("" for *)
(* none) and the object.                                                   *)
(***************************************************************************)
Refused(st, err) == [st |-> st, err |-> err, obj |-> None]
Accepted(st, o) == [st |-> st, err |-> "", obj |-> o]

Missing(st, k, names) == ~(names \subseteq DOMAIN st[k])

\* A manifest without a name gets a fresh one.
Named(meta) == IF meta.name = "" THEN [meta EXCEPT !.name = GeneratedName] ELSE meta

\* Mutant: a manual apply without auth clears the stored credentials.
KeepAuthNever(old, s, p) == p

KeepAuth(old, s, p) ==
  IF old # None /\ s.url = None /\ s.auth = None THEN [p EXCEPT !.auth = old.auth] ELSE p

ApplyProxyV1(st, meta, s) ==
  LET p == ProxyFromSpecV1(Named(meta), s)
      o == KeepAuth(Find(st, "Proxy", p.id), s, p)
  IN
  IF ~ProxySpecValidate(s) THEN Refused(st, "spec")
  ELSE IF p = None THEN Refused(st, "conversion")
  ELSE IF ~ProxyValidate(p) THEN Refused(st, "invalid")
  ELSE Accepted(SaveProxy(st, o), o)

MemberIds(p) == [i \in DOMAIN p.members |-> p.members[i].proxy_id]

WeightedOver(st, pool) ==
  {b \in Range(st["LoadBalancer"]) : b.pool_id = pool /\ b.type = "weighted"}

ApplyPoolV1(st, meta, s) ==
  LET p == PoolFromSpecV1(Named(meta), s) IN
  IF ~PoolSpecValidate(s) THEN Refused(st, "spec")
  ELSE IF ~PoolValidate(p) THEN Refused(st, "invalid")
  ELSE IF Missing(st, "Proxy", Range(MemberIds(p))) THEN Refused(st, "missing_ref")
  ELSE IF p.type # "static" /\ WeightedOver(st, p.id) # {} THEN Refused(st, "weighted")
  ELSE Accepted(SavePool(st, p), p)

ApplyBalancerV1(st, meta, s) ==
  LET b == BalancerFromSpecV1(Named(meta), s) IN
  IF ~BalancerSpecValidate(s) THEN Refused(st, "spec")
  ELSE IF Missing(st, "Pool", {b.pool_id}) THEN Refused(st, "missing_ref")
  ELSE IF b.type = "weighted" /\ st["Pool"][b.pool_id].type # "static"
       THEN Refused(st, "requires static pool")
  ELSE Accepted(SaveBalancer(st, b), b)

\* Mutant: regexes are not compiled when a router is applied.
ApplyRouterUncompiled(st, meta, s) ==
  LET r == RouterFromSpecV1(Named(meta), s)
      targets == {r.rules[i].target : i \in DOMAIN r.rules}
  IN
  IF ~RouterSpecValidate(s) THEN Refused(st, "spec")
  ELSE IF \E i \in DOMAIN r.rules : ~ValidateRule(r.rules[i]) THEN Refused(st, "invalid")
  ELSE IF Missing(st, "LoadBalancer", targets) THEN Refused(st, "missing_ref")
  ELSE Accepted(SaveRouter(st, r), r)

ApplyRouterV1(st, meta, s) ==
  LET r == RouterFromSpecV1(Named(meta), s)
      targets == {r.rules[i].target : i \in DOMAIN r.rules}
  IN
  IF ~RouterSpecValidate(s) THEN Refused(st, "spec")
  ELSE IF ~RouterValidate(r) THEN Refused(st, "invalid")
  ELSE IF Missing(st, "LoadBalancer", targets) THEN Refused(st, "missing_ref")
  ELSE Accepted(SaveRouter(st, Compile(r)), Compile(r))

ApplyFlowV1(st, meta, s) ==
  LET f == FlowFromSpecV1(Named(meta), s) IN
  IF ~FlowSpecValidate(s) THEN Refused(st, "spec")
  ELSE IF \/ Missing(st, "Router", {f.router_id} \ {""})
          \/ Missing(st, "LoadBalancer", {f.balancer_id} \ {""})
       THEN Refused(st, "missing_ref")
  ELSE Accepted(SaveFlow(st, f), f)

ApplyEntrypointV1(st, meta, s) ==
  LET e == EntrypointFromSpecV1(Named(meta), s) IN
  IF ~EntrypointSpecValidate(s) THEN Refused(st, "spec")
  ELSE IF ~EntrypointValidate(e) THEN Refused(st, "invalid")
  ELSE IF Missing(st, "Flow", {e.flow_id}) THEN Refused(st, "missing_ref")
  ELSE Accepted(SaveEntrypoint(st, e), e)

\* The stored objects that name (k, n), which a delete lists first.
Dependents(st, k, n) ==
  CASE k = "Proxy" -> {p \in Range(st["Pool"]) : n \in Range(MemberIds(p))}
    [] k = "Pool" -> {b \in Range(st["LoadBalancer"]) : b.pool_id = n}
    [] k = "LoadBalancer" ->
         {f \in Range(st["Flow"]) : f.balancer_id = n}
           \cup {r \in Range(st["Router"]) : \E i \in DOMAIN r.rules : r.rules[i].target = n}
    [] k = "Router" -> {f \in Range(st["Flow"]) : f.router_id = n}
    [] k = "Flow" -> {e \in Range(st["Entrypoint"]) : e.flow_id = n}
    [] k = "Entrypoint" -> {}

Delete(st, k, n) ==
  IF n = "" THEN Refused(st, "name")
  ELSE IF Dependents(st, k, n) # {} THEN Refused(st, "in_use")
  ELSE IF n \notin DOMAIN st[k] THEN Refused(st, "not_found")
  ELSE Accepted(Drop(st, k, n), None)
=============================================================================
