----------------------------- MODULE Balancing -----------------------------
(***************************************************************************)
(* A request's way through the data plane: the gates of the HTTP handler,  *)
(* ExecuteFlow, the balancer's Next, the upstream exchange and the Release *)
(* that follows it (http/handler.go, dataplane/api, dataplane/balancer).   *)
(*                                                                         *)
(* One registered balancer is modelled, of any of the three algorithms.    *)
(* Next and Release of an instance are atomic (an atomic add or a mutex);  *)
(* between them other requests pick and release, the least-bytes window    *)
(* elapses, and a Bootstrap replaces or drops the instance, so a request   *)
(* may release to an instance that never saw it.                           *)
(***************************************************************************)
EXTENDS Integers, FiniteSetsExt

CONSTANTS
  Request,       \* concurrent requests; each slot serves one after another
  MaxPool,       \* bound on the size of a pool
  MaxWeight,     \* bound on a member's weight
  CounterSize,   \* values of the round-robin counter: 2^32 in the code
  MaxTransfer,   \* bound on the bytes of one response
  MaxBytes       \* bound on a least-bytes counter

ASSUME BalancingAssumption ==
  IsFiniteSet(Request) /\ {MaxPool, MaxTransfer} \subseteq Nat /\ CounterSize \in Nat \ {0, 1}

VARIABLES
  lb,       \* the registered instance, or NotFound
  due,      \* has the least-bytes reset interval elapsed?
  req,      \* where each request stands, and the proxy it uses
  served,   \* history: picks of each proxy in the current round
  wrapped   \* history: the counter wrapped during the current round

vars == <<lb, due, req, served, wrapped>>

Proxy == 1..MaxPool
Type == {"round-robin", "weighted", "least-bytes"}
Zero == [i \in Proxy |-> 0]

\* pool is the number of resolved proxies; proxy i is the pool's i-th.
Instance == [type : Type, pool : 0..MaxPool, weight : [Proxy -> 0..MaxWeight],
             counter : 0..CounterSize - 1, current : [Proxy -> Int],
             bytes : [Proxy -> 0..MaxBytes]]
NotFound == [type |-> "none", pool |-> 0, weight |-> Zero, counter |-> 0,
             current |-> Zero, bytes |-> Zero]

SumOver(f, S) == MapThenSumSet(LAMBDA i : f[i], S)

Members(x) == 1..x.pool
Total(x) == SumOver(x.weight, Members(x))

\* Build: a weighted pool has the weights of its members, at least 1; the
\* others weigh alike.  An empty pool is built, except by NewWeighted, which
\* wants every member of its static pool resolved.
Build(t, n, w) ==
  [NotFound EXCEPT !.type = t, !.pool = n,
     !.weight = [i \in Proxy |->
                   IF i > n THEN 0 ELSE IF t = "weighted" THEN w[i] ELSE 1]]
Built == {Build(t, n, w) : t \in Type, n \in 0..MaxPool, w \in [Proxy -> 1..MaxWeight]}
           \ {Build("weighted", 0, w) : w \in [Proxy -> 1..MaxWeight]}

Idle == [step |-> "idle", proxy |-> 0, bytes |-> 0]

Init ==
  /\ lb \in Built \cup {NotFound}
  /\ due = FALSE
  /\ req = [r \in Request |-> Idle]
  /\ served = Zero
  /\ wrapped = FALSE

-----------------------------------------------------------------------------
(***************************************************************************)
(* The three algorithms: the proxy an instance picks and its next state.   *)
(***************************************************************************)
RoundRobinNext(x) ==
  [proxy |-> (x.counter % x.pool) + 1,
   next |-> [x EXCEPT !.counter = (x.counter + 1) % CounterSize]]

\* The first of the members whose value is largest.
FirstBest(f, S) ==
  CHOOSE i \in S : \A j \in S : f[j] < f[i] \/ (f[j] = f[i] /\ i <= j)

\* Mutant: plain weighted round-robin, each member in one burst.
WeightedNextBurst(x) ==
  LET n == (x.counter % Total(x)) + 1
      best == CHOOSE i \in Members(x) :
                SumOver(x.weight, 1..i) >= n /\ SumOver(x.weight, 1..(i - 1)) < n
  IN [proxy |-> best, next |-> [x EXCEPT !.counter = n % Total(x)]]

WeightedNext(x) ==
  LET bumped == [i \in Proxy |-> x.current[i] + x.weight[i]]
      best == FirstBest(bumped, Members(x))
  IN [proxy |-> best,
      next |-> [x EXCEPT !.current = [bumped EXCEPT ![best] = @ - Total(x)]]]

\* Mutant: the best value is not carried along the scan, so the last member
\* below the first one wins.
LeastBytesNextStaleBest(x) ==
  LET bytes == IF due THEN Zero ELSE x.bytes
      below == {i \in Members(x) : bytes[i] < bytes[1]}
  IN [proxy |-> IF below = {} THEN 1 ELSE Max(below),
      next |-> [x EXCEPT !.bytes = bytes]]

\* The counters are cleared first when the interval has elapsed.
LeastBytesNext(x) ==
  LET bytes == IF due THEN Zero ELSE x.bytes
  IN [proxy |-> FirstBest([i \in Proxy |-> -bytes[i]], Members(x)),
      next |-> [x EXCEPT !.bytes = bytes]]

NextProxy(x) ==
  CASE x.type = "round-robin" -> RoundRobinNext(x)
    [] x.type = "weighted"    -> WeightedNext(x)
    [] x.type = "least-bytes" -> LeastBytesNext(x)

-----------------------------------------------------------------------------
(***************************************************************************)
(* The request.                                                            *)
(***************************************************************************)

\* ServeHTTP's gates come before ExecuteFlow: a request turned away by the
\* link state or the size limit never reaches this step.
Admit(r) ==
  /\ req[r] = Idle
  /\ req' = [req EXCEPT ![r].step = "flow"]
  /\ UNCHANGED <<lb, due, served, wrapped>>

\* A round ends when it has as many picks as the weights add up to.
Picks == SumOver(served, Proxy)
RoundOver == Picks = Total(lb)

CountPick(i) ==
  /\ served' = [(IF RoundOver THEN Zero ELSE served) EXCEPT ![i] = @ + 1]
  /\ wrapped' = ((~RoundOver /\ wrapped) \/ lb'.counter < lb.counter)

\* ExecuteFlow ends without a proxy when the configuration lacks a link of
\* the chain, the balancer is not registered or its pool is empty.
ExecuteFlowFails(r) ==
  /\ req[r].step = "flow"
  /\ req' = [req EXCEPT ![r] = Idle]
  /\ UNCHANGED <<lb, due, served, wrapped>>

ExecuteFlow(r) ==
  /\ req[r].step = "flow" /\ lb.pool > 0
  /\ LET pick == NextProxy(lb) IN
       /\ lb' = pick.next
       /\ req' = [req EXCEPT ![r].step = "upstream", ![r].proxy = pick.proxy]
       /\ due' = (due /\ lb.type # "least-bytes")
       /\ CountPick(pick.proxy)

\* Dial or round trip, and the copy: an error leaves nothing transferred.
Upstream(r) ==
  /\ req[r].step = "upstream"
  /\ \E n \in 0..MaxTransfer :
       req' = [req EXCEPT ![r].step = "release", ![r].bytes = n]
  /\ UNCHANGED <<lb, due, served, wrapped>>

\* Deferred: the balancer registered now is charged, whichever picked.
Release(r) ==
  /\ req[r].step = "release"
  /\ lb.bytes[req[r].proxy] + req[r].bytes <= MaxBytes
  /\ lb' = IF lb.type = "least-bytes"
           THEN [lb EXCEPT !.bytes[req[r].proxy] = @ + req[r].bytes] ELSE lb
  /\ req' = [req EXCEPT ![r] = Idle]
  /\ UNCHANGED <<due, served, wrapped>>

-----------------------------------------------------------------------------
\* Bootstrap puts fresh instances in place of the old ones, or none.
Bootstrap ==
  /\ lb' \in Built \cup {NotFound}
  /\ due' = FALSE
  /\ served' = Zero /\ wrapped' = FALSE
  /\ UNCHANGED req

IntervalElapses ==
  /\ lb.type = "least-bytes" /\ ~due
  /\ due' = TRUE
  /\ UNCHANGED <<lb, req, served, wrapped>>

Next ==
  \/ Bootstrap \/ IntervalElapses
  \/ \E r \in Request : \/ Admit(r) \/ ExecuteFlow(r) \/ ExecuteFlowFails(r)
                        \/ Upstream(r) \/ Release(r)

Spec == Init /\ [][Next]_vars

-----------------------------------------------------------------------------
\* The instance and the requests are well formed.
TypeOK ==
  /\ lb \in Instance \cup {NotFound}
  /\ due \in BOOLEAN
  /\ req \in [Request -> [step : {"idle", "flow", "upstream", "release"},
                          proxy : 0..MaxPool, bytes : 0..MaxTransfer]]

\* Behind(n, t)[k] bounds what k of n members, t their weights' total, can be short
\* of their shares together, in t-ths of a request: of any k + 1 members a pick
\* takes the shortest.  For one member it is t times 1/2 + 1/3 + ... + 1/n, less
\* the rounding.
Behind(n, t) ==
  LET most[k \in 1..n] == IF k = n THEN 0 ELSE (k * (most[k + 1] + t)) \div (k + 1) IN most

\* roundrobin.go:41-48 and weighted.go:56-79: under any interleaving of
\* requests, each full round gives every proxy exactly its weight in picks
\* (one, for round-robin), unless the 32-bit counter wrapped in it; and, "smooth"
\* (weighted.go:9), at no point of a weighted round has a proxy a whole request
\* more than its share, or less by more than Behind: under one request with three
\* members, and growing with the logarithm of their number.
FairShare ==
  /\ lb.type \in {"round-robin", "weighted"} /\ RoundOver /\ ~wrapped
       => \A i \in Proxy : served[i] = lb.weight[i]
  /\ lb.type = "weighted" =>
       \A i \in Members(lb) :
         LET lag == Picks * lb.weight[i] - served[i] * Total(lb)
         IN -Total(lb) < lag /\ lag <= Behind(lb.pool, Total(lb))[1]

\* leastbytes.go:40-75: however requests overlap, and although a request may
\* release to an instance that did not pick for it, no member gets further
\* ahead of another than what the concurrent requests can carry.
LeastBytesSpread ==
  lb.type = "least-bytes" =>
    \A i, j \in Members(lb) :
      lb.bytes[i] - lb.bytes[j] <= Cardinality(Request) * MaxTransfer
=============================================================================
