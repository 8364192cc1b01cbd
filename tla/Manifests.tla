----------------------------- MODULE Manifests -----------------------------
(***************************************************************************)
(* What a manifest says and what the control plane makes of it: the spec   *)
(* types and their Validate (internal/schema), the domain types and theirs *)
(* (core/domain), and the conversions of controlplane/api between them.    *)
(*                                                                         *)
(* Titles and descriptions are display text and left out, as are the       *)
(* timestamps (Resources has them).  "" is the empty string, and None is    *)
(* Go's nil.                                                               *)
(***************************************************************************)
EXTENDS Values, Sequences, Functions

CONSTANT None

Protocols == {"http", "https", "socks5"}
DefaultProtocol == "http"

\* time.ParseDuration and Duration.String on the texts the manifests use, in
\* seconds; a text outside the domain does not parse.
ParseDuration == [t \in {"0s", "90s", "1m30s", "1m", "1m0s"} |->
                    CASE t = "0s" -> 0
                      [] t \in {"90s", "1m30s"} -> 90
                      [] t \in {"1m", "1m0s"} -> 60]
DurationString == [d \in {60, 90} |-> IF d = 60 THEN "1m0s" ELSE "1m30s"]

-----------------------------------------------------------------------------
(***************************************************************************)
(* The spec types and the domain types.  A text that is taken apart is the *)
(* sequence of its tokens.                                                 *)
(***************************************************************************)
Optional(S) == {None} \cup S
Port == 0..65535
Metadata == [name : STRING, labels : LabelMaps]

AuthSpec == [user : STRING, pass : STRING]
ProxyURL == [scheme : STRING, host : STRING, port : Optional(Int), user : Optional(AuthSpec)]
ProxySpecV1 == [url : Optional(ProxyURL), protocol : STRING, host : STRING, port : Port,
                auth : Optional(AuthSpec)]
Upstreams == [protocol : STRING, host : STRING, port : Port, auth : Optional(AuthSpec)]
Proxies == [id : STRING, protocol : STRING, host : STRING, port : Port,
            auth : Optional(AuthSpec), labels : LabelMaps]

PoolSpecV1 == [type : STRING, members : Seq([proxy_id : STRING, weight : Optional(Int)]),
               selector : Optional(LabelMaps)]
Pools == [id : STRING, type : STRING, labels : LabelMaps,
          members : Seq([proxy_id : STRING, weight : Int]), selector : Optional(LabelMaps)]

BalancerSpecV1 == [type : STRING, pool_id : STRING, reset_interval : STRING]
Balancers == [id : STRING, type : STRING, pool_id : STRING, reset_interval : Nat]

ConditionSpec == [type : STRING, value : Seq(STRING)]
MatchSpec == [type : STRING, value : Seq(STRING), all : Seq(ConditionSpec), any : Seq(ConditionSpec),
              nott : Optional(ConditionSpec)]
RouterSpecV1 == [rules : Seq([id : STRING, match : MatchSpec, target : STRING])]
RouterCondition == [type : STRING, value : Seq(STRING), re : Optional(Seq(STRING))]
RouterMatch == [type : STRING, value : Seq(STRING), re : Optional(Seq(STRING)),
                all : Seq(RouterCondition), any : Seq(RouterCondition), nott : Optional(RouterCondition)]
Routers == [id : STRING, rules : Seq([id : STRING, match : RouterMatch, target : STRING])]

FlowSpecV1 == [router_id : STRING, balancer_id : STRING]
Flows == [id : STRING, router_id : STRING, balancer_id : STRING]
EntrypointSpecV1 == [protocol : STRING, host : STRING, port : Port, flow_id : STRING]
Entrypoints == [id : STRING, protocol : STRING, host : STRING, port : Port, flow_id : STRING]

\* nil is no object, no number and no pattern.
ASSUME NilAssumption ==
  /\ None \notin Int /\ None \notin Seq(STRING)
  /\ None \notin Upstreams \cup Proxies \cup Pools \cup Balancers \cup Routers \cup Flows \cup Entrypoints
  /\ None \notin AuthSpec \cup ConditionSpec \cup RouterCondition

\* A literal is a text, which the prover has to be told.
ASSUME TextAssumption == DefaultProtocol \in STRING

-----------------------------------------------------------------------------
(***************************************************************************)
(* Proxies.  A URL is its parts: scheme "" is the bare host:port or        *)
(* host:port:user:pass form, port None a missing one.                      *)
(***************************************************************************)
ProxySpecValidate(s) ==
  s.url # None \/ (s.protocol # "" /\ s.host # "" /\ s.port # 0)

\* None is the error: no port, or one that does not fit 16 bits.
NewProxyFromURL(u) ==
  IF u.port = None \/ u.port \notin Port THEN None
  ELSE [protocol |-> IF u.scheme = "" THEN DefaultProtocol ELSE u.scheme,
        host |-> u.host, port |-> u.port, auth |-> u.user]

ProxyFromSpecV1(meta, s) ==
  LET p == IF s.url # None THEN NewProxyFromURL(s.url)
           ELSE [protocol |-> s.protocol, host |-> s.host, port |-> s.port, auth |-> s.auth]
  IN  IF p = None THEN None
      ELSE [id |-> meta.name, protocol |-> p.protocol, host |-> p.host,
            port |-> p.port, auth |-> p.auth, labels |-> meta.labels]

ProxyValidate(p) == p.protocol \in Protocols /\ p.host # "" /\ p.port # 0

-----------------------------------------------------------------------------
(***************************************************************************)
(* Pools and balancers.                                                    *)
(***************************************************************************)
NoDuplicates(members) == IsInjective([i \in DOMAIN members |-> members[i].proxy_id])

PoolSpecValidate(s) ==
  \/ /\ s.type = "static"
     /\ s.members # <<>> /\ s.selector = None
     /\ \A m \in Range(s.members) :
          m.proxy_id # "" /\ (m.weight # None => m.weight >= 1)
     /\ NoDuplicates(s.members)
  \/ /\ s.type = "dynamic"
     /\ s.selector \notin {None, {}} /\ s.members = <<>>

ResolvedWeight(m) == IF m.weight = None THEN 1 ELSE m.weight

PoolFromSpecV1(meta, s) ==
  [id |-> meta.name, type |-> s.type, labels |-> meta.labels,
   members |-> IF s.type # "static" THEN <<>>
               ELSE [i \in DOMAIN s.members |->
                       [proxy_id |-> s.members[i].proxy_id,
                        weight |-> ResolvedWeight(s.members[i])]],
   selector |-> IF s.type = "dynamic" THEN s.selector ELSE None]

PoolValidate(p) ==
  \/ /\ p.type = "static"
     /\ p.members # <<>> /\ p.selector = None
     /\ \A m \in Range(p.members) : m.proxy_id # "" /\ m.weight >= 1
     /\ NoDuplicates(p.members)
  \/ /\ p.type = "dynamic"
     /\ p.selector \notin {None, {}} /\ p.members = <<>>

BalancerTypes == {"round-robin", "weighted", "least-bytes"}
DefaultLeastBytesResetInterval == 60

BalancerSpecValidate(s) ==
  /\ s.type \in BalancerTypes
  /\ s.pool_id # ""
  /\ s.reset_interval # "" =>
       /\ s.type = "least-bytes"
       /\ s.reset_interval \in DOMAIN ParseDuration
       /\ ParseDuration[s.reset_interval] > 0

ResolvedResetInterval(s) ==
  IF s.reset_interval \in DOMAIN ParseDuration /\ ParseDuration[s.reset_interval] > 0
  THEN ParseDuration[s.reset_interval]
  ELSE DefaultLeastBytesResetInterval

BalancerFromSpecV1(meta, s) ==
  [id |-> meta.name, type |-> s.type, pool_id |-> s.pool_id,
   reset_interval |-> IF s.type = "least-bytes" THEN ResolvedResetInterval(s) ELSE 0]

-----------------------------------------------------------------------------
(***************************************************************************)
(* Routers.  A text is the sequence of its tokens; regexp.Compile succeeds *)
(* on the patterns Regexes knows, and re is the compiled one or None.      *)
(***************************************************************************)
CONSTANT Regexes   \* [pattern -> set of paths it matches]

MatchTypes == {"host", "host_suffix", "path_prefix", "path_regex", "method",
               "header", "catch_all"}

RuleSpecValidate(r) ==
  LET m == r.match IN
  /\ r.id # "" /\ r.target # ""
  /\ m.type # "" \/ m.all # <<>> \/ m.any # <<>>
  /\ m.type \notin {"", "catch_all"} => m.value # <<>>

RouterSpecValidate(s) == s.rules # <<>> /\ \A r \in Range(s.rules) : RuleSpecValidate(r)

Uncompiled(c) == [type |-> c.type, value |-> c.value, re |-> None]

MatchFromSpec(m) ==
  [type |-> m.type, value |-> m.value, re |-> None,
   all |-> [i \in DOMAIN m.all |-> Uncompiled(m.all[i])],
   any |-> [i \in DOMAIN m.any |-> Uncompiled(m.any[i])],
   nott |-> IF m.nott = None THEN None ELSE Uncompiled(m.nott)]

RouterFromSpecV1(meta, s) ==
  [id |-> meta.name,
   rules |-> [i \in DOMAIN s.rules |->
                [id |-> s.rules[i].id, match |-> MatchFromSpec(s.rules[i].match),
                 target |-> s.rules[i].target]]]

\* Every condition a match holds, its shorthand included.
Conditions(m) ==
  {m} \cup Range(m.all) \cup Range(m.any) \cup (IF m.nott = None THEN {} ELSE {m.nott})

Compilable(r) ==
  \A i \in DOMAIN r.rules : \A c \in Conditions(r.rules[i].match) :
    c.type = "path_regex" => c.value \in DOMAIN Regexes

CompileCondition(c) == IF c.type = "path_regex" THEN [c EXCEPT !.re = c.value] ELSE c

CompileMatch(m) ==
  LET cs(s) == [i \in DOMAIN s |-> CompileCondition(s[i])] IN
  [type |-> m.type, value |-> m.value, re |-> CompileCondition(m).re,
   all |-> cs(m.all), any |-> cs(m.any),
   nott |-> IF m.nott = None THEN None ELSE CompileCondition(m.nott)]

\* Of a compilable router.
Compile(r) ==
  [id |-> r.id,
   rules |-> [i \in DOMAIN r.rules |->
                [id |-> r.rules[i].id, match |-> CompileMatch(r.rules[i].match),
                 target |-> r.rules[i].target]]]

ValidateRule(r) ==
  LET m == r.match
      hasType == m.type \in MatchTypes
  IN
  /\ hasType \/ m.all # <<>> \/ m.any # <<>>
  /\ hasType /\ m.type # "catch_all" => m.value # <<>>
  /\ \A c \in Conditions(m) \ {m} : c.type \in MatchTypes
  /\ r.target # ""

RouterValidate(r) == (\A i \in DOMAIN r.rules : ValidateRule(r.rules[i])) /\ Compilable(r)

-----------------------------------------------------------------------------
(***************************************************************************)
(* Flows and entrypoints.                                                  *)
(***************************************************************************)
FlowSpecValidate(s) == s.router_id # "" \/ s.balancer_id # ""

FlowFromSpecV1(meta, s) ==
  [id |-> meta.name, router_id |-> s.router_id, balancer_id |-> s.balancer_id]

EntrypointSpecValidate(s) ==
  s.protocol # "" /\ s.host # "" /\ s.port # 0 /\ s.flow_id # ""

EntrypointFromSpecV1(meta, s) ==
  [id |-> meta.name, protocol |-> s.protocol, host |-> s.host, port |-> s.port,
   flow_id |-> s.flow_id]

EntrypointValidate(e) == e.protocol \in Protocols /\ e.host # "" /\ e.port # 0
=============================================================================
