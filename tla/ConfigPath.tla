----------------------------- MODULE ConfigPath -----------------------------
(***************************************************************************)
(* The way of a manifest from its author to the data plane.                *)
(*                                                                         *)
(*   pgctl -> gRPC client -> gRPC server -> controlplane/api -> Badger     *)
(*   dashboard handlers -----------------> controlplane/api -> Badger      *)
(*   Badger -> api -> gRPC server -> gRPC client -> agent                  *)
(*                                                                         *)
(* Writes are actions, one call at a time (Resources has the races between *)
(* calls, UserAuth who may make them).  Reads change nothing: they are     *)
(* operators over the store, and the properties say what they return.      *)
(***************************************************************************)
EXTENDS ConfigApi, Wire, Routing

CONSTANTS
  Documents,   \* set of [kind, version, meta, spec] an author may submit
  Files,       \* set of sequences of documents: what pgctl apply -f may read
  Requests,    \* requests the routers are tried on
  MaxWrites,   \* bound on accepted writes outside pgctl apply -f
  MaxFiles     \* bound on runs of pgctl apply -f

\* A decoded document of a known kind has the fields of that kind.
SpecV1 ==
  [Proxy |-> ProxySpecV1, Pool |-> PoolSpecV1, LoadBalancer |-> BalancerSpecV1,
   Router |-> RouterSpecV1, Flow |-> FlowSpecV1, Entrypoint |-> EntrypointSpecV1]

WellFormed(d) == d.kind \in Kind => d.meta \in Metadata /\ d.spec \in SpecV1[d.kind]

ASSUME ConfigAssumption ==
  /\ \A d \in Documents : d.kind \in Kind /\ WellFormed(d)
  /\ \A docs \in Files : DOMAIN docs = 1..Len(docs) /\ \A i \in DOMAIN docs : WellFormed(docs[i])

VARIABLES
  store,    \* what the repositories hold: [kind -> [name -> object]]
  given,    \* history: the last manifest accepted under each name
  apply,    \* the last pgctl apply -f
  writes    \* accepted writes so far

configVars == <<store, given, apply, writes>>

-----------------------------------------------------------------------------
(***************************************************************************)
(* The gRPC server (grpc/server).  A request names an op and carries a     *)
(* message; the reply is a code and the messages of the objects.  A list   *)
(* is the unfiltered one without pages, which pgctl get and the agents'    *)
(* warm-up ask for; Paging has the others.                                 *)
(***************************************************************************)
Rq(op, meta, spec) == [op |-> op, meta |-> meta, spec |-> spec]

\* mapResourceError, and InvalidArgument for a request without a name.
GrpcCode(err) ==
  CASE err = "" -> "OK"
    [] err \in {"in_use", "missing_ref"} -> "FailedPrecondition"
    [] err = "name" -> "InvalidArgument"
    [] OTHER -> "Internal"

\* Any error of a Get is NotFound.
GetCode(st, k, n) == IF n = "" THEN "InvalidArgument" ELSE IF n \in DOMAIN st[k] THEN "OK" ELSE "NotFound"

Serve(st, k, rq, Applied(_, _), ToProto(_)) ==
  LET r == IF rq.op = "apply" THEN Applied(MetaFromProto(rq.meta), rq.spec)
           ELSE Delete(st, k, rq.meta.name)
      reply(after, code, objs) == [st |-> after, code |-> code, msgs |-> {ToProto(o) : o \in objs}]
  IN
  CASE rq.op = "list" -> reply(st, "OK", Range(st[k]))
    [] rq.op = "get" ->
         reply(st, GetCode(st, k, rq.meta.name), {Find(st, k, rq.meta.name)} \ {None})
    [] OTHER -> reply(r.st, GrpcCode(r.err), {r.obj} \ {None})

ServeProxies(st, rq) == Serve(st, "Proxy", rq,
  LAMBDA meta, pb : ApplyProxyV1(st, meta, ProxySpecFromProto(pb)), ProxyToProto)
ServePools(st, rq) == Serve(st, "Pool", rq,
  LAMBDA meta, pb : ApplyPoolV1(st, meta, PoolSpecFromProto(pb)), PoolToProto)
ServeBalancers(st, rq) == Serve(st, "LoadBalancer", rq,
  LAMBDA meta, pb : ApplyBalancerV1(st, meta, BalancerSpecFromProto(pb)), BalancerToProto)
ServeRouters(st, rq) == Serve(st, "Router", rq,
  LAMBDA meta, pb : ApplyRouterV1(st, meta, RouterSpecFromProto(pb)), RouterToProto)
ServeFlows(st, rq) == Serve(st, "Flow", rq,
  LAMBDA meta, pb : ApplyFlowV1(st, meta, FlowSpecFromProto(pb)), FlowToProto)
ServeEntrypoints(st, rq) == Serve(st, "Entrypoint", rq,
  LAMBDA meta, pb : ApplyEntrypointV1(st, meta, EntrypointSpecFromProto(pb)), EntrypointToProto)

\* GetProxiesByIds and FindProxiesByLabels, which only agents call.
ServeProxiesByIds(st, ids) ==
  LET found == GetByIds(st, ids) IN
  IF ids = <<>> THEN Failed("ids")
  ELSE IF found.err # "" THEN found
  ELSE Found([i \in DOMAIN found.objs |-> ProxyToProto(found.objs[i])])

ServeProxiesByLabels(st, labels) ==
  IF labels = {} THEN Failed("labels")
  ELSE Found({ProxyToProto(p) : p \in FindByLabels(st, labels)})

-----------------------------------------------------------------------------
(***************************************************************************)
(* The gRPC client (grpc/client), which pgctl and the agents use.          *)
(***************************************************************************)
Call(rq, Server(_), SpecToProto(_), FromProto(_)) ==
  LET r == Server(Rq(rq.op, MetaToProto(rq.meta),
                     IF rq.op = "apply" THEN SpecToProto(rq.spec) ELSE None))
  IN  [st |-> r.st, code |-> r.code, objs |-> {FromProto(pb) : pb \in r.msgs}]

CallProxies(st, rq) ==
  Call(rq, LAMBDA sent : ServeProxies(st, sent), ProxySpecToProto, ProxyFromProto)
CallPools(st, rq) ==
  Call(rq, LAMBDA sent : ServePools(st, sent), PoolSpecToProto, PoolFromProto)
CallBalancers(st, rq) ==
  Call(rq, LAMBDA sent : ServeBalancers(st, sent), BalancerSpecToProto, BalancerFromProto)
CallRouters(st, rq) ==
  Call(rq, LAMBDA sent : ServeRouters(st, sent), RouterSpecToProto, RouterFromProto)
CallFlows(st, rq) ==
  Call(rq, LAMBDA sent : ServeFlows(st, sent), FlowSpecToProto, FlowFromProto)
CallEntrypoints(st, rq) ==
  Call(rq, LAMBDA sent : ServeEntrypoints(st, sent), EntrypointSpecToProto, EntrypointFromProto)

CallProxiesByIds(st, ids) ==
  LET pbs == ServeProxiesByIds(st, ids) IN
  IF pbs.err # "" THEN pbs ELSE Found([i \in DOMAIN pbs.objs |-> ProxyFromProto(pbs.objs[i])])

CallProxiesByLabels(st, labels) ==
  LET pbs == ServeProxiesByLabels(st, labels) IN
  IF pbs.err # "" THEN pbs ELSE Found({ProxyFromProto(pb) : pb \in pbs.objs})

\* The client's methods, by kind (Dispatcher.Apply, the get and delete
\* commands of pgctl, the agent's fetches).
Client(st, k, rq) ==
  CASE k = "Proxy" -> CallProxies(st, rq)
    [] k = "Pool" -> CallPools(st, rq)
    [] k = "LoadBalancer" -> CallBalancers(st, rq)
    [] k = "Router" -> CallRouters(st, rq)
    [] k = "Flow" -> CallFlows(st, rq)
    [] k = "Entrypoint" -> CallEntrypoints(st, rq)

Name(n) == [name |-> n, labels |-> {}]

\* pgctl get: one object, or all of a kind when no name is given.
PgctlGet(st, k, n) == Client(st, k, Rq(IF n = "" THEN "list" ELSE "get", Name(n), None)).objs

-----------------------------------------------------------------------------
(***************************************************************************)
(* The dashboard's handlers (adapters/dashboard).                          *)
(***************************************************************************)

\* writeCPError, and what the handlers check before the call.
HttpStatus(err) ==
  CASE err = "" -> "200"
    [] err = "in_use" -> "409"
    [] err \in {"missing_ref", "requires static pool", "name", "spec"} -> "400"
    [] err = "not_found" -> "404"
    [] OTHER -> "500"

Handle(st, k, rq, Applied(_, _), View(_)) ==
  LET r == IF rq.meta.name = "" THEN Refused(st, "name")
           ELSE IF rq.op = "apply" THEN Applied(rq.meta, rq.spec)
           ELSE Delete(st, k, rq.meta.name)
      answer(after, code, objs) == [st |-> after, code |-> code, json |-> {View(o) : o \in objs}]
  IN
  CASE rq.op = "list" -> answer(st, "200", Range(st[k]))
    [] rq.op = "get" ->
         answer(st, IF rq.meta.name \in DOMAIN st[k] THEN "200" ELSE "404",
                {Find(st, k, rq.meta.name)} \ {None})
    [] OTHER ->
         answer(r.st, IF r.err = "" /\ rq.op = "delete" THEN "204" ELSE HttpStatus(r.err),
                {r.obj} \ {None})

RedactProxy(p) == IF p.auth = None THEN p ELSE [p EXCEPT !.auth.pass = ""]

\* mapBalancer: the interval as text, "1m" rather than "1m0s", and only for
\* the type that has one.
MapBalancer(b) ==
  [b EXCEPT !.reset_interval =
     CASE b.type # "least-bytes" \/ @ = 0 -> ""
       [] b.type = "least-bytes" /\ DurationString[@] = "1m0s" -> "1m"
       [] OTHER -> DurationString[@]]

AsIs(o) == o

HandleProxies(st, rq) == Handle(st, "Proxy", rq, LAMBDA m, s : ApplyProxyV1(st, m, s), RedactProxy)
HandlePools(st, rq) == Handle(st, "Pool", rq, LAMBDA m, s : ApplyPoolV1(st, m, s), AsIs)
HandleBalancers(st, rq) ==
  Handle(st, "LoadBalancer", rq, LAMBDA m, s : ApplyBalancerV1(st, m, s), MapBalancer)
HandleRouters(st, rq) == Handle(st, "Router", rq, LAMBDA m, s : ApplyRouterV1(st, m, s), AsIs)
HandleFlows(st, rq) == Handle(st, "Flow", rq, LAMBDA m, s : ApplyFlowV1(st, m, s), AsIs)
HandleEntrypoints(st, rq) ==
  Handle(st, "Entrypoint", rq, LAMBDA m, s : ApplyEntrypointV1(st, m, s), AsIs)

Dashboard(st, k, rq) ==
  CASE k = "Proxy" -> HandleProxies(st, rq)
    [] k = "Pool" -> HandlePools(st, rq)
    [] k = "LoadBalancer" -> HandleBalancers(st, rq)
    [] k = "Router" -> HandleRouters(st, rq)
    [] k = "Flow" -> HandleFlows(st, rq)
    [] k = "Entrypoint" -> HandleEntrypoints(st, rq)

Show(st, k, n) == CHOOSE v \in Dashboard(st, k, Rq("get", Name(n), None)).json : TRUE

-----------------------------------------------------------------------------
(***************************************************************************)
(* The writes.                                                             *)
(***************************************************************************)
NoApply == [verdict |-> "none", docs |-> <<>>, todo |-> {}, before |-> EmptyStore,
            alone |-> TRUE, runs |-> 0]

Running == apply.verdict = "running"

\* History: what the author of d said, and the credentials that holds for.
Remember(d) ==
  LET k == d.kind
      n == Named(d.meta).name
      old == IF n \in DOMAIN given[k] THEN given[k][n].auth ELSE None
      auth == IF k # "Proxy" THEN None
              ELSE IF d.spec.url # None THEN d.spec.url.user
              ELSE IF d.spec.auth # None THEN d.spec.auth ELSE old
  IN [given EXCEPT ![k] = With(@, n, [spec |-> d.spec, labels |-> d.meta.labels, auth |-> auth])]

Forget(k, n) == Drop(given, k, n)

\* A write outside the running pgctl apply -f; r is what it came to.
Write(r, history) ==
  /\ IF r.st = store
     THEN UNCHANGED <<writes, apply>>
     ELSE writes < MaxWrites /\ writes' = writes + 1
          /\ apply' = [apply EXCEPT !.alone = @ /\ ~Running]
  /\ store' = r.st
  /\ given' = IF r.code \in {"OK", "200", "204"} THEN history ELSE given

DashboardApply(d) ==
  Write(Dashboard(store, d.kind, Rq("apply", d.meta, d.spec)), Remember(d))

DashboardDelete(k, n) ==
  Write(Dashboard(store, k, Rq("delete", Name(n), None)), Forget(k, n))

PgctlDelete(k, n) == Write(Client(store, k, Rq("delete", Name(n), None)), Forget(k, n))

\* Mutant: the documents are applied in the order of the file.
SortByApplyOrderNot(docs, left) == CHOOSE i \in left : \A j \in left : i <= j

\* By kind, unknown ones last.
ApplyKindRank(k) ==
  IF k \in Kind THEN CHOOSE i \in DOMAIN Kinds : Kinds[i] = k ELSE Len(Kinds) + 1

\* The next of the documents that are left, in the order of their kinds; the sort
\* is stable.
SortByApplyOrder(docs, left) ==
  LET rank(i) == ApplyKindRank(docs[i].kind) IN
  CHOOSE i \in left : \A j \in left : rank(i) < rank(j) \/ (rank(i) = rank(j) /\ i <= j)

\* One document without its kind or version fails the file.
ParseYAML(docs) == \A i \in DOMAIN docs : docs[i].kind # "" /\ docs[i].version # ""

\* pgctl apply -f.
ApplyFile(docs) ==
  /\ ~Running /\ apply.runs < MaxFiles
  /\ apply' = IF ~ParseYAML(docs)
              THEN [apply EXCEPT !.verdict = "unparsed", !.runs = @ + 1]
              ELSE [verdict |-> "running", docs |-> docs, todo |-> DOMAIN docs,
                    before |-> store, alone |-> TRUE, runs |-> apply.runs + 1]
  /\ UNCHANGED <<store, given, writes>>

\* Dispatcher.ApplyAll, one document; the first error ends it.
ApplyNext ==
  LET i == SortByApplyOrder(apply.docs, apply.todo)
      d == apply.docs[i]
      known == d.kind \in Kind /\ d.version = "v1"
      r == Client(store, d.kind, Rq("apply", d.meta, d.spec))
      ok == known /\ r.code = "OK"
  IN
  /\ Running
  /\ IF apply.todo = {}
     THEN apply' = [apply EXCEPT !.verdict = "applied"] /\ UNCHANGED <<store, given>>
     ELSE /\ store' = IF known THEN r.st ELSE store
          /\ given' = IF ok THEN Remember(d) ELSE given
          /\ apply' = IF ok THEN [apply EXCEPT !.todo = @ \ {i}]
                      ELSE [apply EXCEPT !.verdict = "failed"]
  /\ UNCHANGED writes

ConfigInit ==
  /\ store = EmptyStore /\ given = EmptyStore
  /\ apply = NoApply /\ writes = 0

ConfigNext ==
  \/ \E d \in Documents : DashboardApply(d)
  \/ \E k \in Kind : \E n \in DOMAIN store[k] \cup {""} : DashboardDelete(k, n) \/ PgctlDelete(k, n)
  \/ \E docs \in Files : ApplyFile(docs)
  \/ ApplyNext

ConfigSpec == ConfigInit /\ [][ConfigNext]_configVars

-----------------------------------------------------------------------------
(***************************************************************************)
(* The data plane's side (dataplane/api/application.go, cache.go).         *)
(***************************************************************************)

\* What an agent lists (warmupCache), the whole store through the wire.
AgentStore ==
  LET listed(k) == Client(store, k, Rq("list", Name(""), None)).objs IN
  [k \in Kind |-> [n \in {o.id : o \in listed(k)} |-> CHOOSE o \in listed(k) : o.id = n]]

\* resolveProxies, which asks the control plane; a static pool's in the order of
\* its members.
ResolveProxies(st, p) ==
  IF p.type = "static" THEN CallProxiesByIds(st, MemberIds(p))
  ELSE CallProxiesByLabels(st, p.selector)

\* SetRouter compiles what it can.  Compile stops at the first pattern that is
\* not one; which patterns it got to by then no accepted router tells.
SetRouter(r) == IF Compilable(r) THEN Compile(r) ELSE r

\* Application.Bootstrap on a fetched configuration: validateAll, then one
\* instance per balancer; one failure fails it all.
BootstrapSucceeds(st) ==
  /\ \A e \in Range(st["Entrypoint"]) : EntrypointValidate(e)
  /\ \A r \in Range(st["Router"]) : RouterValidate(SetRouter(r))
  /\ \A b \in Range(st["LoadBalancer"]) :
       /\ b.pool_id \in DOMAIN st["Pool"]
       /\ LET p == st["Pool"][b.pool_id] IN
          /\ ResolveProxies(store, p).err = ""
          /\ b.type = "weighted" =>
               p.type = "static" /\ \A m \in Range(p.members) : m.weight >= 1
  /\ \A b \in Range(st["LoadBalancer"]) : b.type \in BalancerTypes

-----------------------------------------------------------------------------
(***************************************************************************)
(* Properties.                                                             *)
(***************************************************************************)

\* The weights of a pool survive the wire.
FitInt32(p) ==
  \A i \in DOMAIN p.members : p.members[i].weight # None => p.members[i].weight \in -(MaxInt32 + 1)..MaxInt32

Meaning(k, n, g) ==
  LET s == g.spec IN
  CASE k = "Proxy" ->
         [id |-> n, labels |-> g.labels, auth |-> g.auth,
          protocol |-> IF s.url = None THEN s.protocol
                       ELSE IF s.url.scheme = "" THEN "http" ELSE s.url.scheme,
          host |-> IF s.url = None THEN s.host ELSE s.url.host,
          port |-> IF s.url = None THEN s.port ELSE s.url.port]
    [] k = "Pool" ->
         [id |-> n, labels |-> g.labels, type |-> s.type, selector |-> s.selector,
          members |-> [i \in DOMAIN s.members |->
                         [proxy_id |-> s.members[i].proxy_id,
                          weight |-> IF s.members[i].weight \in {None, 0} THEN 1
                                     ELSE s.members[i].weight]]]
    [] k = "LoadBalancer" ->
         [id |-> n, type |-> s.type, pool_id |-> s.pool_id,
          reset_interval |-> IF s.type # "least-bytes" THEN 0
                             ELSE IF s.reset_interval = "" THEN 60
                             ELSE ParseDuration[s.reset_interval]]
    [] k = "Flow" -> [id |-> n, router_id |-> s.router_id, balancer_id |-> s.balancer_id]
    [] k = "Entrypoint" ->
         [id |-> n, protocol |-> s.protocol, host |-> s.host, port |-> s.port,
          flow_id |-> s.flow_id]

\* What a rule says about a request, from its manifest alone.
Says(m, req) ==
  LET regex(v) == IF v \in DOMAIN Regexes THEN v ELSE None
      holds(c) == EvaluateCondition([type |-> c.type, value |-> c.value, re |-> regex(c.value)], req)
      must == IF m.type \in MatchTypes THEN {m} ELSE Range(m.all)
      some == IF must = {} THEN Range(m.any) ELSE must
  IN
  /\ m.nott # None => ~holds(m.nott)
  /\ \A c \in must : holds(c)
  /\ \E c \in some : holds(c)

\* What a selector asks of a proxy: each of its labels, or, for one with an empty
\* value, no label of that key.
Labelled(q, selector) ==
  \A l \in selector : l \in q.labels \/ (l.value = "" /\ \A m \in q.labels : m.key # l.key)

\* Whatever channel a manifest came through and however often it was replaced,
\* the agent ends up with what its author wrote: defaults filled in, credentials
\* kept when left out, durations, ports and weights surviving two conversions,
\* the store and two more (grpc/server, grpc/client, controlplane/api); a pool
\* resolves to the proxies its author named, in order, or to all that its selector
\* asks for; and a router decides every request by the first rule that holds,
\* regexes compiled wherever they appear (cache.go:91-97, router.go:101-147), on an
\* agent and in the all-in-one process.  A weight of 0 gets here only over gRPC,
\* where it reads as absent (server/pool.go:105); one beyond int32 is cut there
\* (client/pool.go:74, server/pool.go:142).
ServedAsWritten ==
  LET means(k, n) == Meaning(k, n, given[k][n])
      target(n, req) ==
        LET rules == given["Router"][n].spec.rules
            i == SelectInSeq(rules, LAMBDA r : Says(r.match, req))
        IN  IF i = 0 THEN None ELSE rules[i].target
  IN
  /\ \A k \in Kind \ {"Router"} : \A n \in DOMAIN store[k] :
       (k = "Pool" => FitInt32(given[k][n].spec)) =>
         PgctlGet(store, k, n) = {means(k, n)} /\ AgentStore[k][n] = means(k, n)
  /\ \A n \in DOMAIN store["Pool"] :
       LET p == means("Pool", n) IN
       ResolveProxies(store, AgentStore["Pool"][n]).objs =
         IF p.type = "static"
         THEN [i \in DOMAIN p.members |-> means("Proxy", p.members[i].proxy_id)]
         ELSE {q \in {means("Proxy", x) : x \in DOMAIN store["Proxy"]} : Labelled(q, p.selector)}
  /\ \A n \in DOMAIN store["Router"], req \in Requests, st \in {AgentStore, store} :
       Resolve(SetRouter(st["Router"][n]), req) = target(n, req)

\* Nothing the control plane accepts keeps an agent from starting: one invalid
\* entrypoint, uncompilable router or unbuildable balancer would fail the whole
\* Bootstrap, and with it every other listener (application.go:40-58).  A weight
\* beyond int32, which the dashboard accepts, does: it arrives below 1.
AgentAcceptsStored ==
  (\A p \in Range(store["Pool"]) : FitInt32(p)) => BootstrapSucceeds(AgentStore)

\* A PUT of what a GET of the dashboard's API shows; of a proxy without the
\* credentials, whose password is not shown (ProxyFormDialog.vue does the same: "Omit
\* auth entirely to preserve existing credentials").  What the forms of the other
\* kinds make of an object is not modelled.
PutBack(k, v) ==
  CASE k = "Proxy" -> [url |-> None, protocol |-> v.protocol, host |-> v.host,
                       port |-> v.port, auth |-> None]
    [] OTHER -> v

\* proxy.go:43 and redact.go:5: no answer of the dashboard, to a read or to a
\* write, carries a proxy's password, and yet a resource that is put back as the
\* API shows it does not change: not the credentials that were redacted, not the interval shown
\* in another notation, not the defaults.
RedactionRoundTrip ==
  LET meta(k, n, v) == [name |-> n, labels |-> IF k \in {"Proxy", "Pool"} THEN v.labels ELSE {}]
      save(k, n) == LET v == Show(store, k, n) IN
                    Dashboard(store, k, Rq("apply", meta(k, n, v), PutBack(k, v)))
      shown(n) == {Show(store, "Proxy", n)} \cup save("Proxy", n).json
                    \cup HandleProxies(store, Rq("list", Name(""), None)).json
  IN
  /\ \A k \in Kind : \A n \in DOMAIN store[k] : save(k, n).st = store
  /\ \A n \in DOMAIN store["Proxy"] : \A v \in shown(n) : v.auth # None => v.auth.pass = ""

\* Both channels agree: a manifest accepted by one is accepted by the other and
\* leaves the same store, and a delete is a conflict for one exactly when it is a
\* failed precondition for the other (cp_error.go, resource_error.go).  Not so
\* for a manifest without a name, which only gRPC accepts, for a weight of 0,
\* which only the wire takes for absent, and for one that int32 does not hold.
ChannelsAgree ==
  /\ \A k \in Kind : \A n \in DOMAIN store[k] :
       LET rq == Rq("delete", Name(n), None) IN
       Dashboard(store, k, rq).code = "409" <=> Client(store, k, rq).code = "FailedPrecondition"
  /\ \A d \in Documents :
       \/ d.meta.name = ""
       \/ d.kind = "Pool" /\ (~FitInt32(d.spec) \/ \E m \in Range(d.spec.members) : m.weight = 0)
       \/ LET rq == Rq("apply", d.meta, d.spec)
              web == Dashboard(store, d.kind, rq)
              rpc == Client(store, d.kind, rq)
          IN  web.st = rpc.st /\ (web.code = "200" <=> rpc.code = "OK")

\* Every document of the file would be accepted by the store that the file, laid
\* down from the proxies up, makes of this one, and none makes a pool dynamic
\* under a balancer that was weighted before.
Complete(docs, st) ==
  LET known == \A i \in DOMAIN docs : docs[i].kind \in Kind /\ docs[i].version = "v1"
      put(s, d) == Client(s, d.kind, Rq("apply", d.meta, d.spec)).st
      layer(s, k) == FoldLeft(put, s, SelectSeq(docs, LAMBDA d : d.kind = k))
      all == FoldLeft(layer, st, Kinds)
  IN
  /\ known
  /\ \A i \in DOMAIN docs :
       Client(all, docs[i].kind, Rq("apply", docs[i].meta, docs[i].spec)).code = "OK"
  /\ \A i \in DOMAIN docs :
       docs[i].kind = "Pool" /\ docs[i].spec.type = "dynamic" =>
         WeightedOver(st, docs[i].meta.name) = {}

\* schema/apply_order.go: a file that holds everything its documents refer to is
\* applied whatever the order of its documents, unless somebody else writes
\* meanwhile.
CompleteFileApplies ==
  apply.verdict = "failed" /\ apply.alone => ~Complete(apply.docs, apply.before)
=============================================================================
