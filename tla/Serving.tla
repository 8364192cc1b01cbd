------------------------------ MODULE Serving -------------------------------
(***************************************************************************)
(* ExecuteFlow against a cache that is being reloaded (dataplane/api).     *)
(* Entrypoints, flows and routers are three maps without a common lock:    *)
(* warmupCache lists each kind in a call of its own, and Reload empties a  *)
(* map and fills it again entry by entry.  The consumer's timers and the   *)
(* resync loop may run warmupCache at the same time, and then the maps may *)
(* be left with entries of both listings until the next reload.  A request *)
(* reads one map after the other in between.                               *)
(***************************************************************************)
EXTENDS Integers, SequencesExt

CONSTANTS
  Loaders,      \* goroutines that may run warmupCache
  Configs,      \* configurations the control plane may hold, see Map
  Classes,      \* requests, as far as routers tell them apart
  MaxChanges,   \* bound on configuration changes
  None

\* A configuration, and the cache: [entrypoints : id -> flow id,
\* flows : id -> [router, balancer], routers : id -> [class -> balancer or None]];
\* "" is no reference.
Map == {"entrypoints", "flows", "routers"}
NoEntries == [m \in Map |-> <<>>]

ASSUME ServingAssumption ==
  \A c \in Configs :
    /\ c = [m \in Map |-> c[m]]
    /\ \A m \in Map : /\ c[m] = [x \in DOMAIN c[m] |-> c[m][x]]
                      /\ IsFiniteSet(DOMAIN c[m])

VARIABLES
  conf,      \* the control plane's configuration
  cache,     \* the data plane's three maps
  load,      \* [loader -> [pc, lists, todo, steps, alone]]
  request,   \* the request: [pc, class, at, outcome, base]
  loaded,    \* history: the lists of the last reload, if no other overlapped it
  changes    \* configuration changes so far

servingVars == <<conf, cache, load, request, loaded, changes>>

IdleLoader == [pc |-> "idle", lists |-> NoEntries, todo |-> {}, steps |-> <<>>, alone |-> TRUE]
NoRequest == [pc |-> "none", class |-> None, at |-> "", outcome |-> "", base |-> None]

ServingInit ==
  /\ conf \in Configs /\ cache = conf /\ loaded = conf
  /\ load = [l \in Loaders |-> IdleLoader]
  /\ request = NoRequest /\ changes = 0

ChangeConfig ==
  /\ changes < MaxChanges /\ changes' = changes + 1
  /\ conf' \in Configs \ {conf}
  /\ UNCHANGED <<cache, load, request, loaded>>

-----------------------------------------------------------------------------
(***************************************************************************)
(* warmupCache and Reload.                                                 *)
(***************************************************************************)
Loading(l) == load[l].pc # "idle"

WarmupCache(l) ==
  /\ ~Loading(l)
  /\ load' = [k \in Loaders |->
                IF k = l
                THEN [IdleLoader EXCEPT !.pc = "list", !.todo = Map,
                                        !.alone = ~\E o \in Loaders : Loading(o)]
                ELSE [load[k] EXCEPT !.alone = FALSE]]
  /\ UNCHANGED <<conf, cache, request, loaded, changes>>

Refresh(lists, m) ==
  <<[op |-> "clear", map |-> m, id |-> ""]>> \o
  [i \in 1..Cardinality(DOMAIN lists[m]) |->
     [op |-> "set", map |-> m, id |-> SetToSeq(DOMAIN lists[m])[i]]]

\* Mutant: routers that are known are kept.
ReloadKeepsRouters(lists) == Refresh(lists, "entrypoints") \o Refresh(lists, "flows")

Reload(lists) ==
  Refresh(lists, "entrypoints") \o Refresh(lists, "flows") \o Refresh(lists, "routers")

\* One of the three concurrent list calls returns.
ListKind(l, m) ==
  LET lists == [load[l].lists EXCEPT ![m] = conf[m]]
      todo == load[l].todo \ {m}
  IN
  /\ load[l].pc = "list" /\ m \in load[l].todo
  /\ load' = [load EXCEPT ![l].lists = lists, ![l].todo = todo,
                          ![l].pc = IF todo = {} THEN "reload" ELSE "list",
                          ![l].steps = IF todo = {} THEN Reload(lists) ELSE <<>>]
  /\ UNCHANGED <<conf, cache, request, loaded, changes>>

ListFails(l) ==
  /\ load[l].pc = "list"
  /\ load' = [load EXCEPT ![l] = IdleLoader]
  /\ UNCHANGED <<conf, cache, request, loaded, changes>>

With(f, id, v) == [x \in DOMAIN f \cup {id} |-> IF x = id THEN v ELSE f[x]]

ReloadStep(l) ==
  LET s == Head(load[l].steps)
      last == Len(load[l].steps) = 1
  IN
  /\ load[l].pc = "reload"
  /\ cache' = [cache EXCEPT ![s.map] =
                 IF s.op = "clear" THEN <<>> ELSE With(@, s.id, load[l].lists[s.map][s.id])]
  /\ load' = [load EXCEPT ![l] = IF last THEN IdleLoader
                                        ELSE [load[l] EXCEPT !.steps = Tail(@)]]
  /\ loaded' = IF last /\ load[l].alone THEN load[l].lists ELSE None
  /\ request' = [request EXCEPT !.base = None]
  /\ UNCHANGED <<conf, changes>>

-----------------------------------------------------------------------------
(***************************************************************************)
(* ExecuteFlow.                                                            *)
(***************************************************************************)
Entrypoint == "ep"   \* the listener the request came in by

Receive(c) ==
  /\ request.pc \in {"none", "done"}
  /\ request' = [NoRequest EXCEPT !.pc = "entrypoint", !.class = c, !.base = loaded]
  /\ UNCHANGED <<conf, cache, load, loaded, changes>>

Finish(outcome) == request' = [request EXCEPT !.pc = "done", !.at = "", !.outcome = outcome]

GetEntrypoint ==
  /\ request.pc = "entrypoint"
  /\ IF Entrypoint \in DOMAIN cache.entrypoints
     THEN request' = [request EXCEPT !.pc = "flow", !.at = cache.entrypoints[Entrypoint]]
     ELSE Finish("entrypoint not found")
  /\ UNCHANGED <<conf, cache, load, loaded, changes>>

GetFlow ==
  /\ request.pc = "flow"
  /\ IF request.at \notin DOMAIN cache.flows THEN Finish("flow not found")
     ELSE LET f == cache.flows[request.at] IN
          CASE f.router # "" -> request' = [request EXCEPT !.pc = "router", !.at = f.router]
            [] f.router = "" /\ f.balancer # "" -> Finish(f.balancer)
            [] OTHER -> Finish("no router or balancer")
  /\ UNCHANGED <<conf, cache, load, loaded, changes>>

RouteRequest ==
  /\ request.pc = "router"
  /\ IF request.at \notin DOMAIN cache.routers THEN Finish("router not found")
     ELSE LET target == cache.routers[request.at][request.class] IN
          Finish(IF target = None THEN "no matching rule" ELSE target)
  /\ UNCHANGED <<conf, cache, load, loaded, changes>>

ServingNext ==
  \/ ChangeConfig
  \/ \E l \in Loaders : \/ WarmupCache(l) \/ ListFails(l) \/ ReloadStep(l)
                        \/ \E m \in Map : ListKind(l, m)
  \/ \E c \in Classes : Receive(c)
  \/ GetEntrypoint \/ GetFlow \/ RouteRequest

ServingSpec == ServingInit /\ [][ServingNext]_servingVars

-----------------------------------------------------------------------------
(***************************************************************************)
(* Properties.                                                             *)
(***************************************************************************)

\* What a configuration makes of a request.
Decision(c, class) ==
  IF Entrypoint \notin DOMAIN c.entrypoints THEN "entrypoint not found"
  ELSE LET f == c.entrypoints[Entrypoint] IN
       IF f \notin DOMAIN c.flows THEN "flow not found"
       ELSE LET fl == c.flows[f] IN
            IF fl.router = ""
            THEN IF fl.balancer = "" THEN "no router or balancer" ELSE fl.balancer
            ELSE IF fl.router \notin DOMAIN c.routers THEN "router not found"
            ELSE IF c.routers[fl.router][class] = None THEN "no matching rule"
            ELSE c.routers[fl.router][class]

\* cache.go:107-122, flow.go:17-46: after a reload that no other overlapped the
\* three maps are exactly what was listed, nothing left behind and nothing lost,
\* and a request that no reload disturbs is decided by that configuration as a
\* whole.
UndisturbedRequestFollowsLists ==
  /\ loaded # None => cache = loaded
  /\ request.pc = "done" /\ request.base # None =>
       request.outcome = Decision(request.base, request.class)
=============================================================================
