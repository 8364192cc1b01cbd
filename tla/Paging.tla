------------------------------- MODULE Paging -------------------------------
(***************************************************************************)
(* Listing in pages: repository/badger/pagination.go and the predicates of *)
(* its repositories, behind the list calls of the gRPC server and the      *)
(* dashboard.  A client walks through the pages of one kind while others   *)
(* write; each page is one read transaction.                               *)
(*                                                                         *)
(* Keys are taken by their place in byte order, which is a cursor too; 0   *)
(* is the empty cursor.  A query is a function from the parameters that    *)
(* are given to their values.                                              *)
(***************************************************************************)
EXTENDS Values, SequencesExt, FiniteSetsExt

CONSTANTS
  Names,               \* sequence of names, in byte order
  ContainsFold,        \* set of <<string, search term in it>>, case ignored
  Bodies,              \* [kind -> objects without their name]
  Queries,             \* [kind -> queries a client may send]
  PageSizes,           \* values of page_size a client may send; Absent is none
  DefaultListPageSize, \* 20 in the code
  MaxPageSize,         \* DefaultMaxPageSize, 100 in the code
  MaxEdits,            \* bound on writes
  Absent

ASSUME PagingAssumption ==
  /\ Names \in Seq(STRING) /\ PageSizes \ {Absent} \subseteq Int
  /\ {DefaultListPageSize, MaxPageSize} \subseteq Nat \ {0}

VARIABLES
  rows,   \* [kind, at]: the objects of one kind by key, Absent where there is none
  walk,   \* the client: [phase, channel, size, query, cursor, seen, since]
  edits   \* writes so far

pagingVars == <<rows, walk, edits>>

Keys == DOMAIN Names
ListKinds == {"proxies", "pools", "balancers", "routers", "flows", "entrypoints", "users", "agents"}

-----------------------------------------------------------------------------
(***************************************************************************)
(* What the repositories filter by.                                        *)
(***************************************************************************)
Given(q, f) == f \in DOMAIN q /\ q[f] # ""
Search(q, texts) == Given(q, "search") => \E s \in texts : <<s, q.search>> \in ContainsFold
Wanted(q, f, value) == Given(q, f) => q[f] = value
WithLabels(q, labels) == "labels" \in DOMAIN q => MatchesLabels(labels, q.labels)

BuildProxyPredicate(q, id, p) ==
  Search(q, {id, p.host}) /\ Wanted(q, "protocol", p.protocol) /\ WithLabels(q, p.labels)

BuildPoolPredicate(q, id, p) ==
  /\ Search(q, {id, p.title}) /\ Wanted(q, "type", p.type)
  /\ Given(q, "proxy_id") => q.proxy_id \in p.members

BuildBalancerPredicate(q, id, b) ==
  /\ Search(q, {id, b.title, b.type, b.pool_id})
  /\ Wanted(q, "type", b.type) /\ Wanted(q, "pool_id", b.pool_id)

RouterTexts(id, r) ==
  {id, r.title, r.description} \cup UNION {{x.id, x.target, x.type, x.value} : x \in r.rules}

RouterHasCatchAll(r) == \E x \in r.rules : x.type = "catch_all"

BuildRouterPredicate(q, id, r) ==
  /\ Search(q, RouterTexts(id, r))
  /\ Given(q, "target") => \E x \in r.rules : x.target = q.target
  /\ Given(q, "has_catch_all") =>
       (q.has_catch_all \in {"true", "1"}) = RouterHasCatchAll(r)

BuildFlowPredicate(q, id, f) ==
  /\ Search(q, {id, f.router_id, f.balancer_id})
  /\ Wanted(q, "router_id", f.router_id) /\ Wanted(q, "balancer_id", f.balancer_id)
  /\ Given(q, "mode") =>
       CASE q.mode = "router" -> f.router_id # ""
         [] q.mode = "direct" -> f.router_id = "" /\ f.balancer_id # ""
         [] OTHER -> TRUE

BuildEntrypointPredicate(q, id, e) ==
  /\ Search(q, {id, e.title}) /\ Wanted(q, "protocol", e.protocol)
  /\ Given(q, "host") => <<e.host, q.host>> \in ContainsFold
  /\ Wanted(q, "flow_id", e.flow_id)

BuildUserPredicate(q, id, u) == Search(q, {id}) /\ Wanted(q, "role", u.role)

BuildAgentPredicate(q, id, a) == Search(q, {id, a.hostname}) /\ WithLabels(q, a.labels)

Predicate(kind, q, id, o) ==
  CASE kind = "proxies" -> BuildProxyPredicate(q, id, o)
    [] kind = "pools" -> BuildPoolPredicate(q, id, o)
    [] kind = "balancers" -> BuildBalancerPredicate(q, id, o)
    [] kind = "routers" -> BuildRouterPredicate(q, id, o)
    [] kind = "flows" -> BuildFlowPredicate(q, id, o)
    [] kind = "entrypoints" -> BuildEntrypointPredicate(q, id, o)
    [] kind = "users" -> BuildUserPredicate(q, id, o)
    [] kind = "agents" -> BuildAgentPredicate(q, id, o)

\* No predicate at all when nothing is asked for.
Unfiltered(q) == \A f \in DOMAIN q : IF f = "labels" THEN q.labels = {} ELSE ~Given(q, f)

-----------------------------------------------------------------------------
(***************************************************************************)
(* listWithCursor: one pass over the keys of the prefix, in order.         *)
(***************************************************************************)
Present(r) == {i \in Keys : r.at[i] # Absent}
Matching(r, q) == {i \in Present(r) : Predicate(r.kind, q, Names[i], r.at[i])}

EmptyPage == [items |-> <<>>, next |-> 0, total |-> 0]

\* Mutant: the next page starts with the last item of this one.
UnfilteredStepInclusive(size, page, key) ==
  IF page.next # 0 THEN page
  ELSE IF size # 0 /\ Len(page.items) >= size
       THEN [page EXCEPT !.next = IF page.items = <<>> THEN key ELSE Last(page.items)]
       ELSE [page EXCEPT !.items = Append(@, key)]

\* One turn of the loop without a predicate, which ends with the page.
UnfilteredStep(size, page, key) ==
  IF page.next # 0 THEN page
  ELSE IF size # 0 /\ Len(page.items) >= size THEN [page EXCEPT !.next = key]
       ELSE [page EXCEPT !.items = Append(@, key)]

\* One turn of the loop with a predicate, on a key that matches: the pass goes on
\* past the page, for the total.
FilteredStep(size, cursor, page, key) ==
  LET counted == [page EXCEPT !.total = @ + 1] IN
  IF (cursor # 0 /\ key < cursor) \/ page.next # 0 THEN counted
  ELSE IF size # 0 /\ Len(page.items) >= size THEN [counted EXCEPT !.next = key]
  ELSE [counted EXCEPT !.items = Append(@, key)]

\* Without a predicate the iterator seeks the cursor; with one it starts at the
\* first key.
Turn(r, q, size, cursor, page, key) ==
  CASE Unfiltered(q) /\ key \in Present(r) /\ key >= cursor -> UnfilteredStep(size, page, key)
    [] ~Unfiltered(q) /\ key \in Matching(r, q) -> FilteredStep(size, cursor, page, key)
    [] OTHER -> page

\* The page after each key.
Pass(r, q, size, cursor) ==
  LET page[key \in {0} \cup Keys] ==
        IF key = 0 THEN EmptyPage ELSE Turn(r, q, size, cursor, page[key - 1], key)
  IN  page

\* Without a predicate all keys are counted in a pass of their own.
ListWithCursor(r, q, size, cursor) ==
  LET page == Pass(r, q, size, cursor)[Len(Names)] IN
  IF Unfiltered(q) THEN [page EXCEPT !.total = Cardinality(Present(r))] ELSE page

\* The List calls of the services.
Capped(size) == IF size > MaxPageSize THEN MaxPageSize ELSE size

-----------------------------------------------------------------------------
(***************************************************************************)
(* The two channels: the parameters each list call passes on, and what the *)
(* dashboard refuses.  The gRPC server passes the page size as it is.      *)
(***************************************************************************)
GrpcProxies == {"search", "protocol", "labels"}
GrpcPools == {"search", "type"}
GrpcBalancers == {"search", "type", "pool_id"}
GrpcRouters == {"search"}
GrpcFlows == {"search", "router_id", "balancer_id"}
GrpcEntrypoints == {"search", "protocol", "host"}
GrpcUsers == {"search", "role"}
GrpcAgents == {"search", "labels"}

GrpcParams(kind) ==
  CASE kind = "proxies" -> GrpcProxies [] kind = "pools" -> GrpcPools
    [] kind = "balancers" -> GrpcBalancers [] kind = "routers" -> GrpcRouters
    [] kind = "flows" -> GrpcFlows [] kind = "entrypoints" -> GrpcEntrypoints
    [] kind = "users" -> GrpcUsers [] kind = "agents" -> GrpcAgents

\* A handler's parameters, the one it checks and the values it admits for it.
Handler(params, checked, values) == [params |-> params, checked |-> checked, values |-> values]

ListProxiesHandler == Handler({"search", "protocol"}, "protocol", {"http", "https", "socks5"})
ListPoolsHandler == Handler({"search", "type"}, "type", {"static", "dynamic"})
ListBalancersHandler ==
  Handler({"search", "type", "pool_id"}, "type", {"round-robin", "weighted", "least-bytes"})
ListRoutersHandler ==
  Handler({"search", "target", "has_catch_all"}, "has_catch_all", {"true", "1", "false", "0"})
ListFlowsHandler ==
  Handler({"search", "router_id", "balancer_id", "mode"}, "mode", {"router", "direct"})
ListEntrypointsHandler == Handler({"search", "protocol", "host", "flow_id"}, "", {})
ListUsersHandler == Handler({"search", "role"}, "role", {"admin", "member"})
ListAgentsHandler == Handler({"search"}, "", {})

DashboardHandler(kind) ==
  CASE kind = "proxies" -> ListProxiesHandler [] kind = "pools" -> ListPoolsHandler
    [] kind = "balancers" -> ListBalancersHandler [] kind = "routers" -> ListRoutersHandler
    [] kind = "flows" -> ListFlowsHandler [] kind = "entrypoints" -> ListEntrypointsHandler
    [] kind = "users" -> ListUsersHandler [] kind = "agents" -> ListAgentsHandler

\* parsePageSize; Absent is an error.
ParsePageSize(raw) ==
  CASE raw = Absent -> DefaultListPageSize
    [] raw # Absent /\ (raw < 1 \/ raw > MaxInt32) -> Absent
    [] OTHER -> Capped(raw)

Passed(q, params) == [f \in DOMAIN q \cap params |-> q[f]]

\* The page size and query the repository gets; Absent when the call is refused.
Asked(channel, kind, raw, q) ==
  LET h == DashboardHandler(kind) IN
  IF channel = "grpc"
  THEN [size |-> Capped(IF raw = Absent THEN 0 ELSE raw), query |-> Passed(q, GrpcParams(kind))]
  ELSE IF ParsePageSize(raw) = Absent \/ (Given(q, h.checked) /\ q[h.checked] \notin h.values)
       THEN Absent
       ELSE [size |-> ParsePageSize(raw), query |-> Passed(q, h.params)]

-----------------------------------------------------------------------------
(***************************************************************************)
(* A walk through the pages.                                               *)
(***************************************************************************)
NoWalk == [phase |-> "none", size |-> 0, query |-> <<>>, cursor |-> 0, seen |-> <<>>,
           since |-> {}]

PagingInit ==
  /\ \E k \in ListKinds : rows \in [kind : {k}, at : [Keys -> Bodies[k] \cup {Absent}]]
  /\ walk = [NoWalk EXCEPT !.phase = "idle"]
  /\ edits = 0

\* A gRPC page size is an int32.
StartWalk(channel, raw, q) ==
  LET a == Asked(channel, rows.kind, raw, q) IN
  /\ walk.phase = "idle"
  /\ channel = "grpc" /\ raw # Absent => raw <= MaxInt32
  /\ walk' = IF a = Absent THEN [walk EXCEPT !.phase = "refused"]
             ELSE [phase |-> "walking", size |-> a.size, query |-> a.query, cursor |-> 0,
                   seen |-> <<>>, since |-> Matching(rows, a.query)]
  /\ UNCHANGED <<rows, edits>>

\* The client asks for the page at its cursor, while there is one.  A page size
\* below zero, which only gRPC lets through, gives an empty page whose cursor is
\* the first key: a client that goes on asking does not get any further.
NextPage ==
  LET page == ListWithCursor(rows, walk.query, walk.size, walk.cursor) IN
  /\ walk.phase = "walking"
  /\ walk' = [walk EXCEPT !.phase = IF page.next = 0 \/ walk.size < 0 THEN "done" ELSE @,
                          !.cursor = page.next, !.seen = @ \o page.items]
  /\ UNCHANGED <<rows, edits>>

\* Somebody saves or deletes an object.
Edit(i, body) ==
  /\ walk.phase = "walking" /\ edits < MaxEdits /\ edits' = edits + 1
  /\ rows.at[i] # body
  /\ rows' = [rows EXCEPT !.at[i] = body]
  /\ walk' = [walk EXCEPT !.since = @ \cap Matching(rows', walk.query)]

PagingNext ==
  \/ \E c \in {"grpc", "dashboard"}, raw \in PageSizes, q \in Queries[rows.kind] : StartWalk(c, raw, q)
  \/ NextPage
  \/ \E i \in Keys, b \in Bodies[rows.kind] \cup {Absent} : Edit(i, b)

PagingSpec == PagingInit /\ [][PagingNext]_pagingVars

-----------------------------------------------------------------------------
(***************************************************************************)
(* Properties.                                                             *)
(***************************************************************************)

\* pagination.go:13-128: whatever is written between two pages, a walk shows no
\* object twice and in key order, and when it ends it has shown every object that
\* was there and matched all the time.  Each page, of either loop, is what matches
\* from the cursor on, full unless it is the last one, with the first key that is
\* left over and the number of all matches, before the cursor too.
PagingExact ==
  /\ \A i, j \in DOMAIN walk.seen : i < j => walk.seen[i] < walk.seen[j]
  /\ walk.phase = "done" /\ walk.size >= 0 => walk.since \subseteq Range(walk.seen)
  /\ walk.phase = "idle" =>
       \A q \in Queries[rows.kind], size \in -1..MaxPageSize, cursor \in Keys \cup {0} :
         LET page == ListWithCursor(rows, q, size, cursor)
             matches == Matching(rows, q)
             ahead == {i \in matches : i >= cursor}
             rest == ahead \ Range(page.items)
         IN  /\ page.total = Cardinality(matches)
             /\ Range(page.items) \subseteq ahead
             /\ \A i \in Range(page.items), j \in rest : i < j
             /\ Len(page.items) =
                  IF size = 0 THEN Cardinality(ahead) ELSE Min({Max({size, 0}), Cardinality(ahead)})
             /\ page.next = IF rest = {} THEN 0 ELSE Min(rest)
=============================================================================
