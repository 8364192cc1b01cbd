---------------------------- MODULE MCConfigPath ----------------------------
(***************************************************************************)
(* ConfigPath for TLC: one or two manifests of each kind that differ in    *)
(* what the conversions treat differently, and files in awkward orders.    *)
(* A behaviour is either one of ConfigPath, or, over a store that is not   *)
(* looked at, one of Paging.                                               *)
(***************************************************************************)
EXTENDS ConfigPath, Paging

Doc(kind, name, spec) ==
  [kind |-> kind, version |-> "v1", meta |-> [name |-> name, labels |-> {}], spec |-> spec]
Tagged(d, labels) == [d EXCEPT !.meta.labels = labels]

EU == [key |-> "region", value |-> "eu"]
Nowhere == [key |-> "region", value |-> ""]

Cred(u, p) == [user |-> u, pass |-> p]
Manual(port, auth) ==
  [url |-> None, protocol |-> "socks5", host |-> "h", port |-> port, auth |-> auth]
Url(scheme, port, user) ==
  [url |-> [scheme |-> scheme, host |-> "h", port |-> port, user |-> user],
   protocol |-> "", host |-> "", port |-> 0, auth |-> None]

ProxyDocs ==
  { Tagged(Doc("Proxy", "p", Manual(65535, Cred("u", "secret"))), {EU}),
    Doc("Proxy", "p", Manual(1080, None)),
    Doc("Proxy", "p", Url("", 8080, Cred("u", "other"))),
    Doc("Proxy", "p", Url("http", 65536, None)),
    Doc("Proxy", "", Url("https", 8443, None)),
    Doc("Proxy", "p", [Manual(1080, None) EXCEPT !.protocol = "ftp"]) }

Static(w) == [type |-> "static", members |-> <<[proxy_id |-> "p", weight |-> w]>>,
              selector |-> None]
Dynamic(l) == [type |-> "dynamic", members |-> <<>>, selector |-> {l}]

PoolDocs ==
  { Tagged(Doc("Pool", "pool", Static(None)), {Nowhere}), Doc("Pool", "pool", Static(0)),
    Doc("Pool", "pool", Static(2)), Doc("Pool", "pool", Static(4)),
    Doc("Pool", "pool", Dynamic(EU)), Doc("Pool", "pool", Dynamic(Nowhere)) }

Balance(type, interval) == [type |-> type, pool_id |-> "pool", reset_interval |-> interval]

BalancerDocs ==
  { Doc("LoadBalancer", "lb", Balance("weighted", "")),
    Doc("LoadBalancer", "lb", Balance("least-bytes", "")),
    Doc("LoadBalancer", "lb", Balance("least-bytes", "90s")),
    Doc("LoadBalancer", "lb2", Balance("round-robin", "")),
    Doc("LoadBalancer", "lb", Balance("round-robin", "1m")) }

Cond(type, value) == [type |-> type, value |-> value]
Match(type, value, all, any, nott) ==
  [type |-> type, value |-> value, all |-> all, any |-> any, nott |-> nott]
Rule(id, match, target) == [id |-> id, match |-> match, target |-> target]

Suffix == Match("host_suffix", <<"corp", ".", "com">>, <<>>, <<>>, Cond("path_regex", <<"^/v\\d">>))
Both == Match("", <<>>, <<Cond("path_regex", <<"^/v\\d">>), Cond("method", <<"get">>)>>,
              <<Cond("catch_all", <<>>)>>, None)
Either == Match("composite", <<"-">>, <<>>,
                <<Cond("header", <<"X-Region", ":", "de">>), Cond("host", <<"*", ".", "com">>)>>, None)
Prefix == Match("path_prefix", <<"/", "v1">>, <<Cond("method", <<"POST">>)>>, <<>>, None)

RouterDocs ==
  { Doc("Router", "r", [rules |-> <<Rule("1", Suffix, "lb"), Rule("2", Both, "lb2")>>]),
    Doc("Router", "r", [rules |-> <<Rule("1", Either, "lb2"), Rule("2", Prefix, "lb")>>]),
    Doc("Router", "r", [rules |-> <<Rule("1", Match("path_regex", <<"(">>, <<>>, <<>>, None), "lb")>>]),
    Doc("Router", "r", [rules |-> <<Rule("1", Match("", <<>>, <<>>, <<>>, Cond("catch_all", <<>>)), "lb")>>]) }

FlowDocs ==
  { Doc("Flow", "f", [router_id |-> "r", balancer_id |-> ""]),
    Doc("Flow", "f", [router_id |-> "", balancer_id |-> "lb2"]),
    Doc("Flow", "f", [router_id |-> "", balancer_id |-> ""]) }

Listen(port) == [protocol |-> "http", host |-> "0.0.0.0", port |-> port, flow_id |-> "f"]

EntrypointDocs ==
  { Doc("Entrypoint", "e", Listen(3128)), Doc("Entrypoint", "e", Listen(0)) }

MCDocuments ==
  ProxyDocs \cup PoolDocs \cup BalancerDocs \cup RouterDocs \cup FlowDocs \cup EntrypointDocs

Pick(S, Test(_)) == CHOOSE d \in S : Test(d)

Setup ==
  << Pick(EntrypointDocs, LAMBDA d : d.spec.port = 3128),
     Pick(FlowDocs, LAMBDA d : d.spec.router_id = "r"),
     Pick(RouterDocs, LAMBDA d : Len(d.spec.rules) = 2 /\ d.spec.rules[1].match = Suffix),
     Pick(BalancerDocs, LAMBDA d : d.meta.name = "lb2"),
     Pick(BalancerDocs, LAMBDA d : d.spec.type = "weighted"),
     Pick(PoolDocs, LAMBDA d : d.spec = Static(0)),
     Pick(ProxyDocs, LAMBDA d : d.meta.labels = {EU}) >>

\* The pool turns dynamic and its balancer round-robin, in one file.
Retype ==
  << Pick(PoolDocs, LAMBDA d : d.spec = Dynamic(EU)),
     Doc("LoadBalancer", "lb", Balance("round-robin", "")) >>

MCFiles ==
  { Setup, Reverse(Setup), Retype,
    <<Pick(EntrypointDocs, LAMBDA d : d.spec.port = 3128),
      Pick(FlowDocs, LAMBDA d : d.spec.balancer_id = "lb2")>>,
    Append(Setup, [Setup[1] EXCEPT !.kind = "Widget"]),
    Append(Setup, [Setup[1] EXCEPT !.version = ""]) }

MCRegexes == (<<"^/v\\d">> :> {<<"/", "v1">>, <<"/", "v1", "/x">>})

MCUpperCase ==
  (<<"get">> :> "GET") @@ (<<"GET">> :> "GET") @@ (<<"POST">> :> "POST")

MCCanonicalHeaderKey == (<<"X-Region">> :> "X-Region")

MCRequests ==
  [host : {<<"corp", ".", "com", ":", "80">>, <<"a", ".", "corp", ".", "com">>, <<"x", ".", "org">>},
   path : {<<"/", "v1">>, <<"/", "v2">>},
   method : {<<"GET">>, <<"POST">>},
   header : {<<>>, ("X-Region" :> <<"de">>)}]

-----------------------------------------------------------------------------
MCNames == <<"alpha", "beta", "delta">>

MCContainsFold ==
  {<<"alpha", "A">>, <<"beta", "A">>, <<"delta", "A">>, <<"x.Delta", "delta">>, <<"delta", "delta">>,
   <<"lb", "B">>, <<"beta", "B">>}

MCBodies ==
  [proxies |-> {[host |-> "x.Delta", protocol |-> "http", labels |-> {EU}],
                [host |-> "y", protocol |-> "https", labels |-> {}]},
   pools |-> {[title |-> "", type |-> "static", members |-> {"p"}],
              [title |-> "x.Delta", type |-> "dynamic", members |-> {}]},
   balancers |-> {[title |-> "", type |-> "weighted", pool_id |-> "delta"],
                  [title |-> "", type |-> "round-robin", pool_id |-> "q"]},
   routers |-> {[title |-> "", description |-> "",
                 rules |-> {[id |-> "1", target |-> "lb", type |-> "catch_all", value |-> ""]}],
                [title |-> "", description |-> "x.Delta", rules |-> {}]},
   flows |-> {[router_id |-> "delta", balancer_id |-> ""], [router_id |-> "", balancer_id |-> "lb"]},
   entrypoints |-> {[title |-> "", protocol |-> "http", host |-> "x.Delta", flow_id |-> "f"],
                    [title |-> "", protocol |-> "http", host |-> "y", flow_id |-> ""]},
   users |-> {[role |-> "admin"], [role |-> "member"]},
   agents |-> {[hostname |-> "x.Delta", labels |-> {EU}], [hostname |-> "y", labels |-> {}]}]

Special ==
  [proxies |-> {[protocol |-> "http"], [protocol |-> "ftp"], [labels |-> {EU}]},
   pools |-> {[type |-> "dynamic"], [proxy_id |-> "p"]},
   balancers |-> {[type |-> "weighted", search |-> "A"], [pool_id |-> "q"]},
   routers |-> {[target |-> "lb"], [has_catch_all |-> "0"], [search |-> "B", has_catch_all |-> "1"]},
   flows |-> {[mode |-> "direct"], [router_id |-> "delta", mode |-> "router"], [mode |-> "any"]},
   entrypoints |-> {[host |-> "delta"], [flow_id |-> "f", protocol |-> "http"]},
   users |-> {[role |-> "admin"], [role |-> "root"]},
   agents |-> {[labels |-> {EU}], [labels |-> {Nowhere}], [search |-> ""]}]

MCPageSizes == {Absent, -1, 0, 1, 3, MaxInt32 + 1}

MCQueries == [k \in ListKinds |-> Special[k] \cup {<<>>, [search |-> "delta"]}]

MCInit ==
  \/ ConfigInit /\ rows = Absent /\ walk = NoWalk /\ edits = 0
  \/ ConfigInit /\ PagingInit

MCNext ==
  \/ walk.phase = "none" /\ ConfigNext /\ UNCHANGED pagingVars
  \/ walk.phase # "none" /\ PagingNext /\ UNCHANGED configVars

MCSpec == MCInit /\ [][MCNext]_<<configVars, pagingVars>>
=============================================================================
