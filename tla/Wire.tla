-------------------------------- MODULE Wire --------------------------------
(***************************************************************************)
(* The gRPC conversions.  pgctl and the agents turn specs into messages    *)
(* and messages into domain objects (grpc/client); the server does the     *)
(* reverse (grpc/server).  A message has no optional integers: an absent   *)
(* weight or port is 0 and an absent text is "".  Compiled regexes and     *)
(* timestamps do not travel.                                               *)
(***************************************************************************)
EXTENDS Manifests

Uint16(n) == n % 65536

\* A pool's weights are int and travel as int32.
Int32(n) == ((n + MaxInt32 + 1) % (2 * (MaxInt32 + 1))) - MaxInt32 - 1

MetaToProto(meta) == [name |-> meta.name, labels |-> meta.labels]
MetaFromProto(pb) == [name |-> pb.name, labels |-> pb.labels]

AuthToProto(a) == IF a = None THEN None ELSE [user |-> a.user, pass |-> a.pass]

\* client/proxy.go
ProxySpecToProto(s) ==
  [url |-> s.url, protocol |-> s.protocol, host |-> s.host, port |-> s.port,
   auth |-> AuthToProto(s.auth)]

\* Mutant: the agent's copy of a proxy has no credentials.
ProxyFromProtoNoAuth(pb) ==
  [id |-> pb.id, protocol |-> pb.protocol, host |-> pb.host, port |-> Uint16(pb.port),
   auth |-> None, labels |-> pb.labels]

ProxyFromProto(pb) ==
  [id |-> pb.id, protocol |-> pb.protocol, host |-> pb.host, port |-> Uint16(pb.port),
   auth |-> AuthToProto(pb.auth), labels |-> pb.labels]

\* server/proxy.go
ProxySpecFromProto(pb) ==
  [url |-> pb.url, protocol |-> pb.protocol, host |-> pb.host, port |-> Uint16(pb.port),
   auth |-> AuthToProto(pb.auth)]

ProxyToProto(p) ==
  [id |-> p.id, protocol |-> p.protocol, host |-> p.host, port |-> p.port,
   auth |-> AuthToProto(p.auth), labels |-> p.labels]

\* client/pool.go
PoolSpecToProto(s) ==
  [type |-> s.type, selector |-> s.selector,
   members |-> [i \in DOMAIN s.members |->
                  [proxy_id |-> s.members[i].proxy_id,
                   weight |-> IF s.members[i].weight = None THEN 0 ELSE Int32(s.members[i].weight)]]]

PoolFromProto(pb) ==
  [id |-> pb.id, type |-> pb.type, labels |-> pb.labels, selector |-> pb.selector,
   members |-> [i \in DOMAIN pb.members |->
                  [proxy_id |-> pb.members[i].proxy_id,
                   weight |-> IF pb.members[i].weight = 0 THEN 1 ELSE pb.members[i].weight]]]

\* server/pool.go
PoolSpecFromProto(pb) ==
  [type |-> pb.type, selector |-> pb.selector,
   members |-> [i \in DOMAIN pb.members |->
                  [proxy_id |-> pb.members[i].proxy_id,
                   weight |-> IF pb.members[i].weight = 0 THEN None ELSE pb.members[i].weight]]]

PoolToProto(p) ==
  [id |-> p.id, type |-> p.type, labels |-> p.labels, selector |-> p.selector,
   members |-> [i \in DOMAIN p.members |->
                  [proxy_id |-> p.members[i].proxy_id, weight |-> Int32(p.members[i].weight)]]]

\* client/balancer.go; the spec is copied into the request by ApplyBalancerV1.
BalancerSpecToProto(s) ==
  [type |-> s.type, pool_id |-> s.pool_id, reset_interval |-> s.reset_interval]

BalancerFromProto(pb) ==
  [id |-> pb.id, type |-> pb.type, pool_id |-> pb.pool_id,
   reset_interval |-> IF pb.reset_interval \in DOMAIN ParseDuration
                      THEN ParseDuration[pb.reset_interval] ELSE 0]

\* Mutant: the interval is not copied.
BalancerSpecFromProtoNoInterval(pb) ==
  [type |-> pb.type, pool_id |-> pb.pool_id, reset_interval |-> ""]

\* server/balancer.go
BalancerSpecFromProto(pb) ==
  [type |-> pb.type, pool_id |-> pb.pool_id, reset_interval |-> pb.reset_interval]

BalancerToProto(b) ==
  [id |-> b.id, type |-> b.type, pool_id |-> b.pool_id,
   reset_interval |-> IF b.reset_interval > 0 THEN DurationString[b.reset_interval] ELSE ""]

\* client/router.go
ConditionToProto(c) == [type |-> c.type, value |-> c.value]

MatchSpecToProto(m) ==
  [type |-> m.type, value |-> m.value,
   all |-> [i \in DOMAIN m.all |-> ConditionToProto(m.all[i])],
   any |-> [i \in DOMAIN m.any |-> ConditionToProto(m.any[i])],
   nott |-> IF m.nott = None THEN None ELSE ConditionToProto(m.nott)]

RouterSpecToProto(s) ==
  [rules |-> [i \in DOMAIN s.rules |->
                [id |-> s.rules[i].id, match |-> MatchSpecToProto(s.rules[i].match),
                 target |-> s.rules[i].target]]]

RouterFromProto(pb) ==
  [id |-> pb.id,
   rules |-> [i \in DOMAIN pb.rules |->
                [id |-> pb.rules[i].id, match |-> MatchFromSpec(pb.rules[i].match),
                 target |-> pb.rules[i].target]]]

\* server/router.go
RouterSpecFromProto(pb) ==
  [rules |-> [i \in DOMAIN pb.rules |->
                [id |-> pb.rules[i].id, match |-> MatchSpecToProto(pb.rules[i].match),
                 target |-> pb.rules[i].target]]]

RouterToProto(r) ==
  [id |-> r.id,
   rules |-> [i \in DOMAIN r.rules |->
                [id |-> r.rules[i].id, match |-> MatchSpecToProto(r.rules[i].match),
                 target |-> r.rules[i].target]]]

\* client/flow.go, server/flow.go
FlowSpecToProto(s) == [router_id |-> s.router_id, balancer_id |-> s.balancer_id]
FlowFromProto(pb) ==
  [id |-> pb.id, router_id |-> pb.router_id, balancer_id |-> pb.balancer_id]
FlowSpecFromProto(pb) == [router_id |-> pb.router_id, balancer_id |-> pb.balancer_id]
FlowToProto(f) == [id |-> f.id, router_id |-> f.router_id, balancer_id |-> f.balancer_id]

\* client/entrypoint.go, server/entrypoint.go
EntrypointSpecToProto(s) ==
  [protocol |-> s.protocol, host |-> s.host, port |-> s.port, flow_id |-> s.flow_id]
EntrypointFromProto(pb) ==
  [id |-> pb.id, protocol |-> pb.protocol, host |-> pb.host, port |-> Uint16(pb.port),
   flow_id |-> pb.flow_id]
EntrypointSpecFromProto(pb) ==
  [protocol |-> pb.protocol, host |-> pb.host, port |-> Uint16(pb.port),
   flow_id |-> pb.flow_id]
EntrypointToProto(e) ==
  [id |-> e.id, protocol |-> e.protocol, host |-> e.host, port |-> e.port,
   flow_id |-> e.flow_id]
=============================================================================
