----------------------------- MODULE ChangeFeed -----------------------------
(***************************************************************************)
(* How a configuration change reaches a running data plane.                *)
(*                                                                         *)
(*   CP handler: persist, then publish a hint on the bus (fireEvent)       *)
(*   bus -> subscriber channel, dropping when its buffer is full           *)
(*   distributed only: server Watch stream -> client Recv -> local bus     *)
(*   Consumer: coalesce per key, flush on a timer or at MaxBuffer          *)
(*   dispatch: fetch the whole resource class, replace the cache or the    *)
(*   balancer registry, and for entrypoints reconcile the listeners        *)
(*   Resync: the same for everything, after each Watch connect (pgway-dp)  *)
(*   or periodically (all-in-one pgway)                                    *)
(*                                                                         *)
(* A hint carries no data: what matters is which version of each resource  *)
(* class a dispatch reads and which version the data plane ends up with.   *)
(* Timers fire at any time.  Messages in flight on a Watch stream count as *)
(* still buffered at the server.                                           *)
(***************************************************************************)
EXTENDS Integers, Sequences, Functions

CONSTANTS
  Deployments,   \* which of TRUE (pgway-dp) and FALSE (all-in-one) to consider
  BufferSize,    \* channel capacity of a bus subscription (10 in the mains)
  MaxBuffer,     \* event_coalesce_max_buffer
  Timers,        \* goroutines available to run coalescing timers
  MaxChanges,    \* bound on configuration changes
  MaxFaults      \* bound on broken streams, CP restarts and failed fetches

ASSUME FeedAssumption ==
  /\ Deployments \subseteq BOOLEAN
  /\ BufferSize \in Nat \ {0} /\ MaxBuffer \in Nat \ {0}
  /\ MaxChanges \in Nat /\ MaxFaults \in Nat
  /\ {"consumer", "resync"} \cap Timers = {}

\* coalesceKeyFor: proxies, pools and balancers share one key, flows and
\* routers another.  The last two keys are served from the same cache.
Key == {"balancer", "topology", "entrypoint"}
Class == {"cache", "registry"}
ClassOf(k) == IF k = "balancer" THEN "registry" ELSE "cache"

Goroutine == Timers \cup {"consumer", "resync"}

VARIABLES
  distributed,  \* pgway-dp behind a Watch stream, or the all-in-one pgway
  cpVer,        \* version of each class in the control plane's store
  unpublished,  \* persisted changes whose hint is not published yet, per key
  stream,       \* "none", "pending", "subscribed" or "broken"
  serverBuf,    \* hints in the server-side subscription
  live,         \* the Watch session is past Resync and receiving
  localBuf,     \* hints in the consumer's subscription
  count,        \* Consumer.keys: buffered events per key, 0 = no keyState
  job,          \* what each goroutine is dispatching
  dpVer,        \* version of each class the data plane serves
  listeners,    \* version of the cache the listeners were reconciled to
  fetched,      \* history: newest version of each class ever fetched
  excused,      \* history: newest version whose hint was lost outside the consumer
  faults        \* history: faults so far

vars == <<cpVer, unpublished, stream, serverBuf, live, localBuf, count, job,
          dpVer, listeners, fetched, excused, faults>>

\* A dispatch: classes still to refresh, the version read, and whether the
\* listeners are reconciled at the end.
NoJob == [step |-> "idle", todo |-> <<>>, read |-> 0, reconcile |-> FALSE]
DispatchOf(k) == [step |-> "fetch", todo |-> <<ClassOf(k)>>, read |-> 0,
                  reconcile |-> k = "entrypoint"]
\* Mutant: Resync reloads the cache and forgets the balancers.
ResyncJobCacheOnly == [step |-> "fetch", todo |-> <<"cache">>, read |-> 0,
                       reconcile |-> TRUE]
ResyncJob == [step |-> "fetch", todo |-> <<"cache", "registry">>, read |-> 0,
              reconcile |-> TRUE]

Busy(g) == job[g].step # "idle"

Init ==
  /\ distributed \in Deployments
  /\ cpVer = [c \in Class |-> 0]
  /\ unpublished = [k \in Key |-> 0]
  /\ stream = "none" /\ serverBuf = <<>> /\ live = FALSE
  /\ localBuf = <<>>
  /\ count = [k \in Key |-> 0]
  /\ job = [g \in Goroutine |-> NoJob]
  /\ dpVer = [c \in Class |-> 0]       \* app.Bootstrap succeeded before start
  /\ listeners = 0
  /\ fetched = [c \in Class |-> 0]
  /\ excused = [c \in Class |-> 0]
  /\ faults = 0

dpState == <<job, dpVer, listeners, fetched>>
feed == <<stream, serverBuf, live>>

\* The hints for the classes in C will not reach the consumer.
Excuse(C) == excused' = [c \in Class |-> IF c \in C THEN cpVer[c] ELSE excused[c]]

-----------------------------------------------------------------------------
(***************************************************************************)
(* Control plane.                                                          *)
(***************************************************************************)
Persist(k) ==
  /\ cpVer["cache"] + cpVer["registry"] < MaxChanges
  /\ cpVer' = [cpVer EXCEPT ![ClassOf(k)] = @ + 1]
  /\ unpublished' = [unpublished EXCEPT ![k] = @ + 1]
  /\ UNCHANGED <<feed, localBuf, count, dpState, excused, faults>>

\* A non-blocking send to the subscriber's channel: a full one drops the event.
Publish(k) ==
  LET buf == IF distributed THEN serverBuf ELSE localBuf
      heard == Len(buf) < BufferSize /\ (distributed => stream = "subscribed")
  IN
  /\ unpublished[k] > 0
  /\ unpublished' = [unpublished EXCEPT ![k] = @ - 1]
  /\ serverBuf' = IF distributed /\ heard THEN Append(serverBuf, k) ELSE serverBuf
  /\ localBuf' = IF ~distributed /\ heard THEN Append(localBuf, k) ELSE localBuf
  /\ IF heard THEN UNCHANGED excused ELSE Excuse({ClassOf(k)})
  /\ UNCHANGED <<cpVer, stream, live, count, dpState, faults>>

-----------------------------------------------------------------------------
(***************************************************************************)
(* The Watch stream.  The client call returns before the server's handler  *)
(* has run: Subscribe happens at any later moment.                         *)
(***************************************************************************)
WatchOpen ==
  /\ distributed
  /\ stream = "none" /\ ~Busy("resync")
  /\ stream' = "pending"
  /\ job' = [job EXCEPT !["resync"] = ResyncJob]
  /\ UNCHANGED <<cpVer, unpublished, serverBuf, live, localBuf, count, dpVer,
                 listeners, fetched, excused, faults>>

ServerSubscribe ==
  /\ stream = "pending"
  /\ stream' = "subscribed"
  /\ UNCHANGED <<cpVer, unpublished, serverBuf, live, localBuf, count, dpState,
                 excused, faults>>

\* afterConnect succeeded: the client starts to receive.
WatchLive ==
  /\ stream # "none" /\ ~live /\ ~Busy("resync")
  /\ live' = TRUE
  /\ UNCHANGED <<cpVer, unpublished, stream, serverBuf, localBuf, count,
                 dpState, excused, faults>>

WatchRecv ==
  /\ live /\ serverBuf # <<>>
  /\ serverBuf' = Tail(serverBuf)
  /\ IF Len(localBuf) < BufferSize
     THEN localBuf' = Append(localBuf, Head(serverBuf)) /\ UNCHANGED excused
     ELSE Excuse({ClassOf(Head(serverBuf))}) /\ UNCHANGED localBuf
  /\ UNCHANGED <<cpVer, unpublished, stream, live, count, dpState, faults>>

\* The connection breaks, or the control plane restarts (its hints not yet
\* published die with it): the subscription and its buffer are gone.
StreamBreak ==
  /\ stream \in {"pending", "subscribed"}
  /\ faults < MaxFaults
  /\ stream' = "broken"
  /\ serverBuf' = <<>>
  /\ unpublished' \in {unpublished, [k \in Key |-> 0]}
  /\ Excuse(Class)
  /\ faults' = faults + 1
  /\ UNCHANGED <<cpVer, live, localBuf, count, dpState>>

\* Recv fails; RunWatch backs off and reconnects.
WatchEnd ==
  /\ live /\ stream = "broken"
  /\ live' = FALSE
  /\ stream' = "none"
  /\ UNCHANGED <<cpVer, unpublished, serverBuf, localBuf, count, dpState,
                 excused, faults>>

-----------------------------------------------------------------------------
(***************************************************************************)
(* The consumer.                                                           *)
(***************************************************************************)

\* offer: the consumer goroutine buffers the event; at MaxBuffer it goes on to
\* flush the key itself.
Offer ==
  LET k == Head(localBuf) IN
  /\ localBuf # <<>>
  /\ ~Busy("consumer")
  /\ localBuf' = Tail(localBuf)
  /\ count' = [count EXCEPT ![k] = @ + 1]
  /\ job' = IF count[k] + 1 >= MaxBuffer
            THEN [job EXCEPT !["consumer"] = [NoJob EXCEPT !.step = "flush", !.todo = <<k>>]]
            ELSE job
  /\ UNCHANGED <<cpVer, unpublished, feed, dpVer, listeners, fetched, excused,
                 faults>>

\* Mutant: a flush that finds its key below MaxBuffer drops it.
TakeKeyDrops(g, k) ==
  /\ job' = [job EXCEPT ![g] = IF count[k] >= MaxBuffer THEN DispatchOf(k) ELSE NoJob]
  /\ count' = [count EXCEPT ![k] = 0]

\* takeKeyEvents: empty the key and dispatch what it stood for, if anything.
TakeKey(g, k) ==
  /\ job' = [job EXCEPT ![g] = IF count[k] > 0 THEN DispatchOf(k) ELSE NoJob]
  /\ count' = [count EXCEPT ![k] = 0]

FlushNow ==
  /\ job["consumer"].step = "flush"
  /\ TakeKey("consumer", Head(job["consumer"].todo))
  /\ UNCHANGED <<cpVer, unpublished, feed, localBuf, dpVer, listeners, fetched,
                 excused, faults>>

TimerFires(g, k) ==
  /\ g \in Timers /\ ~Busy(g)
  /\ count[k] > 0
  /\ TakeKey(g, k)
  /\ UNCHANGED <<cpVer, unpublished, feed, localBuf, dpVer, listeners, fetched,
                 excused, faults>>

-----------------------------------------------------------------------------
(***************************************************************************)
(* Dispatch and Resync: fetch a class, replace it, go on.                  *)
(***************************************************************************)
PeriodicResync ==
  /\ ~distributed
  /\ ~Busy("resync")
  /\ job' = [job EXCEPT !["resync"] = ResyncJob]
  /\ UNCHANGED <<cpVer, unpublished, feed, localBuf, count, dpVer, listeners,
                 fetched, excused, faults>>

Fetch(g) ==
  LET c == Head(job[g].todo) IN
  /\ job[g].step = "fetch"
  /\ job' = [job EXCEPT ![g].step = "apply", ![g].read = cpVer[c]]
  /\ fetched' = [fetched EXCEPT ![c] = cpVer[c]]
  /\ UNCHANGED <<cpVer, unpublished, feed, localBuf, count, dpVer, listeners,
                 excused, faults>>

\* The step after a refresh, from the classes left to do.
AfterRefresh(j, todo) ==
  IF todo # <<>> THEN [j EXCEPT !.step = "fetch", !.todo = todo]
  ELSE IF j.reconcile THEN [j EXCEPT !.step = "reconcile", !.todo = todo]
  ELSE NoJob

Apply(g) ==
  LET c == Head(job[g].todo) IN
  /\ job[g].step = "apply"
  /\ dpVer' = [dpVer EXCEPT ![c] = job[g].read]
  /\ job' = [job EXCEPT ![g] = AfterRefresh(@, Tail(@.todo))]
  /\ UNCHANGED <<cpVer, unpublished, feed, localBuf, count, listeners, fetched,
                 excused, faults>>

Reconcile(g) ==
  /\ job[g].step = "reconcile"
  /\ listeners' = dpVer["cache"]
  /\ job' = [job EXCEPT ![g] = NoJob]
  /\ UNCHANGED <<cpVer, unpublished, feed, localBuf, count, dpVer, fetched,
                 excused, faults>>

\* A failed fetch is logged and swallowed by dispatch, whose remaining handler
\* still runs; it ends a Resync, and with it the Watch session (Client.Watch
\* returns without cancelling the stream: the server keeps a subscription that
\* nobody reads).
FetchFails(g) ==
  /\ job[g].step = "fetch"
  /\ faults < MaxFaults
  /\ faults' = faults + 1
  /\ Excuse(IF g = "resync" /\ distributed THEN Class ELSE Range(job[g].todo))
  /\ IF g = "resync"
     THEN /\ job' = [job EXCEPT ![g] = NoJob]
          /\ stream' = "none" /\ serverBuf' = <<>>
     ELSE /\ job' = [job EXCEPT ![g] = AfterRefresh(@, Tail(@.todo))]
          /\ UNCHANGED <<stream, serverBuf>>
  /\ UNCHANGED <<cpVer, unpublished, live, localBuf, count, dpVer, listeners,
                 fetched>>

-----------------------------------------------------------------------------
Deliver ==
  \/ WatchOpen \/ ServerSubscribe \/ WatchLive \/ WatchRecv \/ WatchEnd
  \/ Offer \/ FlushNow

Dispatch(g) == Fetch(g) \/ Apply(g) \/ Reconcile(g)

Step ==
  \/ \E k \in Key : Persist(k) \/ Publish(k)
  \/ Deliver
  \/ \E g \in Timers, k \in Key : TimerFires(g, k)
  \/ PeriodicResync
  \/ \E g \in Goroutine : Dispatch(g) \/ FetchFails(g)
  \/ StreamBreak

Next == Step /\ UNCHANGED distributed

\* Goroutines that can run do run, and timers and tickers fire.  Nothing is
\* assumed of the administrator or of faults.
Fairness ==
  /\ \A k \in Key : WF_vars(Publish(k))
  /\ WF_vars(Deliver)
  /\ \A k \in Key : WF_vars(\E g \in Timers : TimerFires(g, k))
  /\ WF_vars(PeriodicResync)
  /\ \A g \in Goroutine : WF_vars(Dispatch(g))

Spec == Init /\ [][Next]_<<distributed, vars>>
FairSpec == Spec /\ Fairness

-----------------------------------------------------------------------------
(***************************************************************************)
(* Properties.                                                             *)
(***************************************************************************)

\* Values are well formed and every queue respects its limit: the subscriptions
\* their channel capacity, a coalescing key MaxBuffer.
TypeOK ==
  /\ distributed \in Deployments
  /\ cpVer \in [Class -> 0..MaxChanges]
  /\ unpublished \in [Key -> 0..MaxChanges]
  /\ stream \in {"none", "pending", "subscribed", "broken"}
  /\ serverBuf \in Seq(Key) /\ Len(serverBuf) <= BufferSize
  /\ localBuf \in Seq(Key) /\ Len(localBuf) <= BufferSize
  /\ live \in BOOLEAN
  /\ count \in [Key -> 0..MaxBuffer]
  /\ \A g \in Goroutine :
       /\ job[g].step \in {"idle", "flush", "fetch", "apply", "reconcile"}
       /\ job[g].read \in 0..MaxChanges
  /\ dpVer \in [Class -> 0..MaxChanges] /\ fetched \in [Class -> 0..MaxChanges]
  /\ listeners \in 0..MaxChanges
  /\ excused \in [Class -> 0..MaxChanges]
  /\ faults \in 0..MaxFaults

\* Something is on its way that will make the data plane fetch class c.
Carrier(c) ==
  \/ \E k \in Key : ClassOf(k) = c /\ (unpublished[k] > 0 \/ count[k] > 0)
  \/ \E k \in Range(serverBuf) \cup Range(localBuf) : ClassOf(k) = c
  \/ \E g \in Goroutine : job[g].step = "fetch" /\ c \in Range(job[g].todo)

\* consumer.go:89-206: a hint the consumer accepted is never lost: until the
\* data plane has fetched the change it announced, something that will fetch it
\* is pending, through coalescing, early flushes, timers and shared keys.
HintNeverLost ==
  \A c \in Class :
    cpVer[c] > fetched[c] /\ cpVer[c] > excused[c] => Carrier(c)

\* main.go:229-244: in the all-in-one process the periodic Resync heals every
\* loss: whatever was dropped, failed or applied out of order, once changes stop
\* the data plane serves the stored configuration and its listeners match it.
EventuallyConverges ==
  ~distributed => <>[](dpVer = cpVer /\ listeners = cpVer["cache"])

Quiet ==
  /\ \A k \in Key : unpublished[k] = 0 /\ count[k] = 0
  /\ serverBuf = <<>> /\ localBuf = <<>>
  /\ \A g \in Goroutine : ~Busy(g)

\* watch.go:30-31, "Open the authenticated watch stream (server registers the
\* subscriber)", then a "full Bootstrap to close missed-event gaps": with no
\* fault and no full buffer, a session at rest has fetched everything.
ResyncClosesGaps ==
  live /\ stream = "subscribed" /\ Quiet /\ faults = 0 => fetched = cpVer
=============================================================================
