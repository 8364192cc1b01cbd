# TLA+ verification of pgway

pgway is a forward-proxy gateway. A **control plane** (CP) stores proxies,
pools, balancers, routers, flows and entrypoints in Badger and serves them over
gRPC and a dashboard; a **data plane** (DP, also "agent") listens on the
entrypoints, routes every request through a flow, picks an upstream proxy from a
balancer and tunnels or forwards. `pgway` runs both in one process, `pgway-cp`
and `pgway-dp` run them apart, `pgctl` is the command-line client.

This directory holds TLA+ models of the parts where interleavings, failures and
timing decide correctness, TLC configurations that check them, and TLAPS proofs.

## Inventory

| Component | State it keeps | Operations | Interacts with | What makes it correct |
|---|---|---|---|---|
| Link tracker `agenthost/linkstate.go` | last heartbeat, watch flag, stale and recovery timers, verdict, published snapshot | TouchHeartbeat, MarkWatchUp/Down, Snapshot | fed by the two loops, read by the HTTP handler and the readiness probe, lock-free | no early and no stale verdict; recovery needs both proofs |
| Agent loops `agenthost/heartbeat.go`, `watch.go` | ticker, backoff, session | tick, connect, resync, back off | gRPC client, LinkState | an outage is detected and healed in bounded time |
| Agent registry `controlplane/agent`, `controlplane/auth` | registration tokens, agent records, bearer tokens | CreateRegistrationToken, Register, Heartbeat, Deregister, DeleteAgent, Authenticate | one Badger transaction per step, concurrent gRPC handlers | a registration token works once; names are not taken over; no token outlives its agent |
| Change feed `pubsub/memory`, `grpc/*/change.go`, `consumer`, `resync.go` | subscriber channels, stream, coalescing keys | Persist, Publish, Watch, Offer, Flush, Dispatch, Resync | CP handlers to DP caches | a hint is not lost on the way; the DP converges |
| Listeners `adapters/http/adapter.go` | map of `http.Server`, cache of entrypoints | Run, ReconcileListeners, Shutdown | cache reloads, overlapping reconciles | no listener is lost; every configured address is served |
| CP resource API `controlplane/api` | six resource collections | Apply*, Delete*, Get, List | Badger, change feed | references never dangle |
| Configuration path `schema`, `grpc`, `dashboard`, `cli`, `repository/badger` | the manifest in its many forms | validate, convert, apply, show, list, export | the resource API and the agents | what was written is what is served, whichever way it came |
| Listing `badger/pagination.go` | a cursor | List in pages | concurrent writes | a walk sees everything that was there all along, once |
| Users and sessions `controlplane/auth/service.go` | users, session tokens; token files and cookies at the clients | InitAdmin, Login, Logout, CreateUser, DeleteUser, ChangePassword, ResetPassword | concurrent handlers of gRPC and dashboard | never without an administrator; a password change and a logout end sessions |
| Resource cache `dataplane/api` | entrypoints, flows, routers | warmupCache, Reload, ExecuteFlow | requests, overlapping reloads | a request follows the configuration |
| Balancers `dataplane/balancer` | registry, cursors, bytes per proxy | Bootstrap, Next, Release | HTTP handler | every proxy gets its share, whatever the overlap |
| Routing `domain/router.go` | compiled rules | Resolve, Evaluate | ExecuteFlow | the first rule that matches decides |
| HTTP handler `adapters/http/handler.go` | request, tunnel | ServeHTTP, CONNECT tunnel | balancer, transport | every picked proxy is released |
| Upstream transport `adapters/proxy/net` | transport cache, DNS cache | RoundTrip, Dial, LookupIP | HTTP handler | cached answers expire |
| Agent process `cmd/pgway-dp`, `agenthost/bootstrap.go`, `agentstate`, `probes` | lock, state file, readiness latches | lock, load, register, save, snapshot, serve, deregister | CP registry, orchestrator | credentials survive crashes; never registered twice; ready means it |

Hard behaviours: lazily evaluated timers, lock-free reads, store steps of
concurrent handlers, crashes between them, dropped hints, a Watch stream that
breaks, overlapping reloads and reconciles, binding an address that is still
held. They are listed with their source lines under `hazards` in `PROJECT.json`.

## Modules
Each module's header says which files it models; `PROJECT.json` maps every
definition to its lines. Definitions named after a bug (`…Uncapped`, `…Forgets`,
marked "Mutant") are wrong variants used to show that a property can fail.

**LinkState** (`linkstate.go`). Variables are the struct's fields plus the
clock; 0 is the zero `time.Time`. `Recompute` is `recomputeLocked` followed by
`publishLocked`. `Snapshot` is two steps, the atomic load and the decision, so a
reader can be overtaken between them. **CPLink** is the abstract link: proofs of
life and a verdict that may turn to unreachable only after a silence of a whole
threshold and back only with both proofs fresh.

**AgentLink** extends LinkState with `RunHeartbeat` and `RunWatch`: ticker,
reconnect backoff, fatal authentication errors, and a control plane that is up,
erring (heartbeats succeed, Resync fails) or down. RPCs take no model time.
**MCAgentLink** adds the history variable of `SnapshotLinearizable`.

**AgentRegistry** models `Register`, `Heartbeat`, `Deregister` and
`DeleteAgent` as sequences of Badger transactions that interleave, fail and die
with the process; `Authenticate`'s token clean-up is part of the agent calls.

**AgentHost** is the agent's process seen from outside: the advisory lock, the
state file and its temporary, `BootstrapCredentials`, the retried snapshot, the
readiness latches, SIGTERM and `Deregister`. Processes overlap, are killed
between any two steps and are started again; connections break with a request
under way, which the control plane may still handle later. The registry is
reduced to what the agent can see of it.

**ChangeFeed** follows one change from the CP's store to the DP's caches.
A hint carries no data, so the model keeps version numbers per resource class.
A behaviour is one of `pgway-dp` (Watch stream, resync per connection) or of the
all-in-one process (periodic resync).

**Listeners** models `ReconcileListeners`, `Run` and `Shutdown` against
`ResourceCache.Reload`, which clears the map and refills it entry by entry while
other reloads may do the same.

**Resources** models `Apply*` and `Delete*` of the six kinds. A resource is
reduced to what the service's checks read: the names it refers to, its type, its
credentials and `CreatedAt`. Each lookup, listing, read and write is one step,
as it is one Badger transaction. **ResourceRaces** adds a history variable, the
pairs of resources whose calls have been in flight together, and states what the
code guarantees outside of such a race; **MCResources** adds the symmetry.

The **configuration path** is eight modules, mostly of operators.
**Values** has label maps, how they are matched, and the largest int32;
**Manifests** has the spec types, the domain types, their `Validate` and the
conversions between them; **ConfigApi** the repositories and the resource calls
as functions of the store; **Wire** the conversions of gRPC client and server in
both directions (a weight is an `int` in manifest and store and an `int32` on the
wire); **Routing** the evaluation of rules. **ConfigPath** puts them in
line: pgctl (`apply -f` document by document, `delete`) and the dashboard write,
and what the agent, `pgctl get` and the dashboard read are operators over the
store. **Paging** has the page loop of `listWithCursor`, the filters of the eight
repositories and handlers of both channels, and a client that walks through the
pages while others write. **MCConfigPath** chooses the manifests; a behaviour is
one of ConfigPath or one of Paging.

**UserAuth** models `InitAdmin`, `Login`, `Logout`, `CreateUser`, `DeleteUser`,
`ChangePassword` and `ResetPassword` as store transactions, each preceded by the
two lookups of `Authenticate`, and followed by what the client does: pgctl's token
file or the browser's cookie is `kept`. Dashboard calls differ where the handlers
do: its login authenticates the new token, and an administrator may reset the own
password. Ghost fields remember which call created an account and which account
and password a session was opened with.

A **request** passes three modules. **Serving** is `ExecuteFlow` up to the
balancer's id, reading three maps that `warmupCache` and `Reload` rewrite entry by
entry, two reloads at a time. **Balancing** follows a request through the
balancer's `Next` and the upstream exchange to `Release`, while other requests
do the same and `Bootstrap` replaces the balancer under them. The 32-bit
round-robin cursor is `CounterSize` values wide; the run uses 8, which three
proxies do not divide, so that the wrap happens. **Transport** is the way to the
upstream: `LoadOrStore` of the transport of a proxy id, and `dialWithDNSCache`,
where an answer of the resolver is known by its time. **MCBalancing** checks the
three; a behaviour is one of one stage.

## Runs

| Run | Shows | Bounds |
|---|---|---|
| `link` | `TypeOK`, `FastPathSound`, `NoFalseUnreachable`, `SnapshotLinearizable`, refinement of CPLink; `OutageDetected`, `OutageHealed` | thresholds 2 and 1, backoff 1..2, one reader, 3 changes of the control plane; the clock, to 10, lets a full outage and its recovery fit |
| `registry` | `SingleUse`, `NoNameTakeover`; without overlap `TokensFollowRecords` | 4 calls, 3 in flight, 2 names, 2 registration tokens |
| `feed` | `HintNeverLost`, and `EventuallyConverges` (liveness) where the periodic resync runs | both deployments, 3 changes, 1 fault, 1 timer at a time, buffers of 2, which 3 changes overrun |
| `feed_gap` | violation: the resync can read before the server has subscribed the stream | 2 changes, no fault |
| `listeners` | `NoOrphanListener`; without overlap `ListenersFollowCache`, `OwnAddressBinds` | 2 entrypoints, 3 addresses, 3 servers, 2 reconcilers, 2 reloads that may overlap |
| `listeners_swap` | violation: an address handed from one entrypoint to another is not bound | one reconciler, two reloads |
| `resources` | `DanglingOnlyByRace`, `WeightedOverStatic`, `IdentitySurvivesUpdate`, `CredentialsSurviveUpdate` | every whole database over seven names, 2 calls |
| `config` | `ServedAsWritten`, `AgentAcceptsStored`, `RedactionRoundTrip`, `ChannelsAgree`, `CompleteFileApplies`; `PagingExact` | one or two manifests per kind that the conversions treat differently, weights up to and past a wire of 3, 2 single writes, 2 files; 2 writes during a walk, page sizes at and past every limit |
| `userauth` | `SingleInit`, `NoLockout`, `SessionsFollowAccount`, `LogoutEndsSession` | every database of 2 accounts with sessions, 2 passwords, 2 calls |
| `balancing` | `FairShare`, `LeastBytesSpread`; `UndisturbedRequestFollowsLists`; `AddressFresh` | 2 concurrent requests, pools of up to 3, weights up to 3; 2 reloads, 1 change between 2 configurations; 2 dials, TTL 2, clock to 4 |
| `agenthost` | `NoSecondRegister`, `ReadyIsDurable`, `DeregisteredIsPassive`, `CredentialsKept`, `FatalIsHopeless`, and `Settles` (liveness) | 2 processes, 3 starts, 2 registration tokens, 2 faults, 1 deletion |
| `agenthost_rejected` | violation: an agent whose token was revoked retries its snapshot for ever | no fault |

The bounds let every case happen at least twice over where repetition matters
(two reconcilers and repeated reloads in `listeners`, a third process start in
`agenthost`, twice the TTL in `balancing`); larger values add repetitions of the
same cases. `resources` and `userauth` start from every database the calls of an
earlier run can have left, so two calls, the most that any of their races needs,
stand for the last two of a long history. In `config` one write decides what is
stored under a name and the second what an update makes of it.

Only `link` has a type invariant among its properties; what the variables of the
other modules may hold is proved, as a theorem or as a part of the inductive
invariant.

Deadlock is not checked where the model may stop for good: the clock of the link
modules is bounded, and the calls, changes and faults of the others are used up.

### Where the code and its words disagree

Three runs expect a violation; each is a finding in `PROJECT.json`.

* `feed_gap`: the resync after connecting can be over before the server has
  subscribed the stream, so a change in between reaches nobody until the next
  change or reconnect.
* `listeners_swap`: an address moved from one entrypoint to another in a single
  change is bound before it is free, and the failed bind is not retried.
* `agenthost_rejected`: the initial snapshot is retried until an error that its
  list calls never return, so a revoked agent that restarts neither serves nor
  ends.

Other disagreements met on the way are kept as provisos of the properties that
hold, not as runs of their own:

* an outage can be noticed later than the "~2×" of `config/default.toml:103-104`:
  the stale timer starts only at the next recompute (`linkstate.go:151`), by a
  request, a probe or a reconnect attempt, and `OutageDetected` allows for one
  more backoff; and the recovery timer survives a lapse that no recompute saw
  (`linkstate.go:168`);
* a `DeleteAgent` that overlaps a heartbeat or a registration of the same agent
  can leave a record or a token behind (`agent/service.go:121-133`), hence
  "without overlap" in `TokensFollowRecords`;
* a `Register` that fails after creating the record leaves the name taken, where
  `agent/service.go:36-39` promises "registry clean";
* two dispatches of one resource class can finish in the wrong order
  (`consumer.go:120`), and a reconcile can act on a reading taken before an
  earlier one's (`http/adapter.go:51`) or on a half-filled cache
  (`cache.go:108`), which restarts listeners whose configuration did not change;
* an Apply beside a Delete of its target can leave a dangling reference
  (`api/deps.go:12`), and two deletions can remove the last two administrators
  (`auth/service.go:193`), as can a deletion beside a password change that writes a
  stale role back (`auth/service.go:242`);
* a session can outlive a password change or an account when the revocation
  fails after the write, and the caller's retry does not repeat it
  (`auth/service.go:202`, `247`); any error of the account lookup, not only a
  missing account, deletes the caller's token (`auth/authenticator.go:55`);
* `weighted.go:37` says an empty pool is allowed at bootstrap, and the count
  check on the next line refuses it;
* a weight of 0 is rejected by the dashboard and silently becomes 1 over gRPC
  (`schema/pool/v1/spec.go:7`), so `ChannelsAgree` leaves it out; the dashboard
  answers 500 where gRPC reports an invalid argument;
* a weight of 2^31 or more, which the dashboard accepts and stores, leaves for the
  agents negative (`grpc/server/pool.go:142`), and a weighted balancer over its pool
  then fails the agent's whole start (`weighted.go:44`,
  `application.go:46`), hence the condition of `AgentAcceptsStored`;
* a file that turns a pool dynamic and its weighted balancer round-robin fails in
  either order;
* over gRPC a page size of 0 returns everything and a negative one an empty page
  whose cursor is the first key;
* `Reload` (`cache.go:107`) leaves windows in which a request finds no flow or no
  router and is answered 502, and overlapping reloads can leave a mixture;
* plain requests keep the transport of the first record of a proxy id, and with it
  its address and credentials, while CONNECT follows the current one
  (`proxy/net/proxy.go:116`); the repository's `README.md:8` promises "one stable
  entry point while provider URLs and credentials change", so the hazard has no
  property: what the code does is not what it should do;
* store errors are taken for verdicts: a `Consume` that fails for any reason
  (`auth/agent_credentials.go:52-54`) is reported as a rejected registration token,
  and a failing read of a good state file (`agentstate/store.go:23-26`,
  `bootstrap.go:49-51`) as an unusable one; either ends the agent for good though a
  retry would help, and `FatalIsHopeless` excuses exactly these. A failing lookup of
  a valid agent token (`grpc/interceptor/auth.go:101-104`) ends its loops, against
  `heartbeat.go:62-63`;
* a heartbeat still on the wire when `Deregister` is handled, for which
  `cmd/pgway-dp/main.go:254-257` does not wait, shows the agent as active again;
  `DeregisteredIsPassive` excludes it;
* a selector or filter label with an empty value also matches what lacks the key
  (`badger/pagination.go:134-141`), where `PoolFormDialog.vue:39` says that all pairs
  must match; `ServedAsWritten` states what the code does;
* the dashboard's forms do not send every object back as it was shown:
  `RouterFormDialog.vue:94-123,210-229` drops the `not` of a shorthand rule, drops
  `any` or the shorthand beside an `all`, and leaves out conditions with an empty
  value; `FlowFormDialog.vue:92-101` drops the balancer of a flow that has a router.
  `RedactionRoundTrip` is about the API (`PutBack`: a PUT of what a GET
  shows), and about the proxy form, which does send that;
* `pgway-dp` reports ready before its listeners are up (`cmd/pgway-dp/main.go:179`),
  a SIGTERM before that kills it without `Deregister`, and a late `Deregister` of
  a previous process marks a running agent passive;
* `pgctl logout` with an expired or revoked token fails and leaves the token file.

**Fairness.** Two runs assume any. `feed`: a hint whose handler is running is
eventually published, goroutines that can run do run, timers and the periodic
ticker fire. `agenthost`: a process that can take a step takes it, and the control
plane answers the requests on a connection that holds (`Settles` says nothing of
an agent whose requests are lost for ever, since faults are bounded). Go's
scheduler and runtime timers give the first two, the gRPC server's goroutine per
request the last. Nothing is assumed of administrators, orchestrators or faults.
`OutageDetected` and `OutageHealed` are bounded-response properties over an
explicit clock whose timers are urgent, so they need no fairness.

## Proofs

Eight modules hold the proofs; each extends the modules it is about. The runs
check small instances; the theorems below hold for every value of the constants,
so for any number of concurrent calls, processes, readers and reloads, any buffer
size, threshold and interval, any pools, weights, manifests, files, names and
requests, and any length of run. Every inductive invariant
was checked by TLC on the instance of its run before it was proved.

| Module | Theorem | States |
|---|---|---|
| `LinkStateProofs` | `TypeCorrect` | `Spec => []TypeOK` |
| | `LinkInvariant` | the inductive invariant of the tracker |
| | `FastPath` | `Spec => []FastPathSound` |
| | `NoEarlyVerdict` | `Spec => NoFalseUnreachable` |
| | `Refinement` | `Spec => ImplementsCPLink` |
| | `OutagesAreDetected` | `LoopSpec => []OutageDetected` |
| | `OutagesHeal` | `LoopSpec => []OutageHealed`, if `HeartbeatInterval <= UnreachableThreshold` |
| | `SnapshotsLinearize` | `MCSpec => SnapshotLinearizable` |
| `AgentRegistryProofs` | `RegistryTypeOK`, `RegistrationTokenSingleUse`, `NobodyTakesAName`, `TokensFollowTheirRecords` | `TypeOK`, `SingleUse`, `NoNameTakeover`, `TokensFollowRecords` |
| `AgentHostProofs` | `HostTypeOK`, `RegistersOnce`, `ReadyMeansSaved`, `DeregisteredStaysPassive` | `TypeOK`, `NoSecondRegister`, `ReadyIsDurable`, `DeregisteredIsPassive` |
| | `CredentialsAreKept`, `FatalOnlyWhenHopeless` | the action properties `CredentialsKept`, `FatalIsHopeless` |
| `ConfigurationProofs` | `FeedTypeOK`, `NoHintIsLost` | `TypeOK` of ChangeFeed (every queue within its limit), `HintNeverLost` |
| | `PagesAreExact` | `PagingSpec => []PagingExact` |
| | `AgentsServeWhatWasWritten`, `EveryAgentStarts`, `ChannelsAlwaysAgree`, `SavingWhatIsShownChangesNothing` | `ConfigSpec => []P` for `ServedAsWritten`, `AgentAcceptsStored`, `ChannelsAgree`, `RedactionRoundTrip` |
| `ListenersProofs` | `ListenersTypeOK`, `NobodyListensUnowned`, `ReconcileFollowsCache`, `OnlyTakenAddressesFail` | `TypeOK`, `NoOrphanListener`, `ListenersFollowCache`, `OwnAddressBinds` |
| `ResourceProofs` | `ResourcesTypeOK`, `NoDanglingWithoutRace`, `WeightedNeedsStatic` | `TypeOK`, `DanglingOnlyByRace`, `WeightedOverStatic` |
| | `UpdatesKeepIdentity`, `UpdatesKeepCredentials` | the action properties `IdentitySurvivesUpdate`, `CredentialsSurviveUpdate` |
| `UserAuthProofs` | `UserAuthTypeOK`, `BootstrapTokenSingleUse`, `NeverLockedOut`, `SessionsEndWithTheirAccount`, `LogoutIsFinal` | `TypeOK`, `SingleInit`, `NoLockout`, `SessionsFollowAccount`, `LogoutEndsSession` |
| `RequestPathProofs` | `WeightsAreShared`, `LeastBytesStaysEven`, `UndisturbedRequestsAreDecided`, `CachedAddressIsFresh` | `FairShare`, `LeastBytesSpread`, `UndisturbedRequestFollowsLists`, `AddressFresh` |

**The arguments.** Hardly any property is inductive as it stands, because it
speaks of what is stored and not of what the calls under way have already read.

* *Link tracker* (`LinkInv`). `FastPathSound` needs that the published snapshot is
  that of the current fields, `NoFalseUnreachable` that a running stale timer
  started no earlier than the end of the watch and the expiry of the heartbeat.
  In the refinement a mutator maps to its abstract event, a locked read to an
  evaluation, a lock-free read to a stutter.
* *Loops* (`LoopsTyped`, `LoopsTimed`, and `OutageTimed` or `RecoveryTimed`). The
  clock cannot pass a deadline, so it suffices to say how far from the control
  plane's last change the next one lies: in an outage either the stale timer runs
  since at most a threshold and a backoff, or the reconnect that starts it comes
  before that; after one, the watch is open or about to be, the next heartbeat is
  near, and with both proofs the recovery timer runs.
* *Snapshot* (`ReadInv`). A pointer in a reader's hands was right when it was
  loaded, or its own proofs keep sending the reader to the locked path.
* *Registry* (`RegInv`). A token in the store has admitted nobody (`Fenced`), the
  record of a name never deleted belongs to one registration (`Owned`), every
  bearer token comes of a registration that succeeded (`Bearers`). For handlers
  that never overlap, `AloneInv` adds what each knows at each of its steps.
* *Agent process* (`HostInv`). The lock holder's step determines the state file
  (`Sane`), a request with a caller is the one its caller waits for (`Requests`),
  and after the last Deregister nothing on the wire can revive the agent (`Quiet`).
* *Change feed* (`FeedInv`). `Kept` is stronger than the property: a missing change
  has its own hint under way. A resync is not counted, since between its two
  classes nothing in the state shows that the second is still to come.
* *Listeners* (`ListInv`). A live server is in the map or on the list of a reconcile
  that stops it (`Owned`); the reconcile under way has read the present cache
  (`Follows`); a server being stopped shares an address with the map only if it was
  another entrypoint's (`Displaced`).
* *Resource API* (`RaceInv`, `UpdateInv`). An apply that has looked its target up
  still has it stored unless the pair has raced (`Checked`); a delete that has
  listed a kind has no referencer of it unless the pair has raced (`Listed`); a
  resource refers only to kinds whose deletion lists its own kind (`WellFormed`).
  `UpdateInv` adds the same for pool types and for the copy an update starts from.
* *Users and sessions* (`AuthInv`). While the bootstrap token is pending nothing but
  InitAdmin is past its checks (`BootInv`); a deletion about to remove leaves
  another administrator, and a change about to save holds the present role, unless
  the calls overlapped (`AdminInv`, `Recorded`); likewise for the copy a login
  compared (`SessionInv`).
* *Listing* (`PagingInv`). `Pass` is the page after each key. After any number of
  keys it is exact for the keys so far (`PassOK`): either it has every match ahead of
  the cursor, or it is full and its next key is the first one left over
  (`PageSoFar`). That is an induction over the keys, done on the set of the numbers
  for which it holds. A walk has then seen everything that was there all along up to
  its cursor (`WalkOK`), whatever was written in between.
* *Configuration path* (`ConfigInv`). `StoreOK`: what is stored under a name has that
  name, passed the validation of its kind, refers only to what is stored, and a
  weighted balancer stands over a static pool. It is what the checks of Apply and
  Delete keep between them, and without any part of it an agent could be handed
  something it refuses. `Fits`: every stored object is what its last accepted manifest
  means, kind by kind; for a pool whose weights do not fit the wire, all but its
  weights. `ApplyOK` says what an `apply -f` under way still holds. The rest are
  lemmas about the conversions: what `SpecTravels` over the wire arrives as it was
  sent, what is stored comes `Back` from it, an object that is put back as it
  was shown is the one that is stored (`SavedAgain`), a compiled router decides as the manifest says
  (`RouterDecides`), and an agent that has the store can start (`Bootstraps`).
* *Shares* (`FairInv`). A pick keeps two sums in bounds: a weighted cursor never falls
  to minus the total, and any k members together are owed at most `Behind` (`Smooth`,
  which is stronger than the bound for one member, and needs to be: the pick goes to
  the largest, so what bounds k members is what k + 1 could be owed). The cursors are the
  shares (`Evens`), so after a whole round, when they would have to be multiples of
  the total, they are zero. For round-robin `Taken` ties the counter to the picks.
* *Request path*. `Headroom` counts, on top of a member's bytes, all that the
  requests holding it may still release: a pick is of a member that leads nobody,
  so it keeps the bound. `LoadInv` says that a reload that runs alone has filled
  the maps exactly up to its next step, `RequestInv` that an undisturbed request has
  followed one configuration so far. `TransportInv` bounds an entry's expiry by a
  TTL after its answer.

**Assumptions.** The named `ASSUME`s of the modules say that model values are
apart (`None` is none of the tokens, ports or names), that kinds are disjoint, that
sets which are counted are finite, that intervals and limits are natural numbers
(positive where the constructor clamps or the ticker panics), that the round-robin
counter has at least two values and the wire's integers go to at least 1, that nil
(`None` in Manifests) is no value of the types beside which it may stand, that the
names, manifests and files are of the types the decoders give them (`WellFormed`;
what they say is not restricted), and that there are at least as many servers as
entrypoints. TLC evaluates them in every run. One theorem has a hypothesis of its own: recovery needs the heartbeat interval to be
at most the unreachable threshold.

**What the proofs found.**

* `NoLockout` as first stated held with two calls and fails with four: a password
  change that holds a member's record writes it back (`auth/service.go:242`) after
  that account was deleted and created again as an administrator, and after the
  other administrator was deleted. TLC confirmed it on an instance with four calls;
  the property now excuses a deletion that overlaps a change of the same account,
  as it excused two overlapping deletions.
* `OutageHealed` fails, as TLC confirms, where heartbeats come further apart than
  the unreachable threshold: the heartbeat proof lapses between any two of them and
  a request or probe in the gap clears the recovery timer (`linkstate.go:161-162`).
  The defaults are 10s and 30s, but `config.go:312` checks only the sign.
* `FairShare` as first stated, less than one request behind one's share, holds for
  three members and fails for five: with weights 1, 1, 1, 6 and 6 a member that is
  due waits for the others for a whole request. The property now says how far behind
  a member can fall, `Behind`: measured in requests, and up to rounding, it depends on
  the number of members only.
* A weight beyond `int32` (see above) came out of the first attempt at
  `AgentAcceptsStored` and `ServedAsWritten`: the lemma that a pool comes back from the
  wire as it was stored has no proof without that condition, and TLC shows why on an
  instance whose wire ends at 3.

**Only model-checked.** Liveness (`EventuallyConverges`, `Settles`), since fairness
is out of the prover's reach. `CompleteFileApplies`: it compares a run of the file
with the store that the file makes layer by layer, a fold of a fold over
subsequences of the documents. The library gives no fact about either operator, and
its induction theorems take operators as parameters, which the provers cannot
instantiate. Elsewhere induction over data is done on sets (`NatClosed`: a set that
contains 0 and successors contains the naturals; `FiniteInduction`, its like for
finite sets), which needs the function to be a set too, as in `Pass` and `Behind`.

## Plan

Modelled, in this order: link state and its loops, agent registry, change feed,
listeners, resource API, users and sessions, balancers; then the configuration
path with routing and wire formats, paging, the agent process, the cache under
reload, transport and DNS cache, and the clients of the user API. What is left is
listed below under "Not modelled".

All invariants of these modules but `CompleteFileApplies` are proved. It could be
proved from `ConfigInv` with the folds written as recursive functions and an
induction over the documents in the order of their kinds.

## Not modelled

* The per-client rate limiters are token buckets of a library behind a map that
  only grows; they decide nothing but whether a call is made at all.
* CORS, panic recovery, TLS, keepalive, static files, prompts and flags: no state,
  or the library's.
* Headers, byte copying, deadlines and status codes of the HTTP handler.
* `flushAll` at shutdown and the uncoalesced mode of the event consumer.
* Start-up of the control plane, which is sequential, and `pgctl agent`, one call
  per command.
* Configuration, logging, metrics and tracing change no behaviour. Badger is taken
  as atomic, serialisable transactions; its value-log GC is invisible to callers.
  bcrypt and token hashing are injective on the model's values. The frontend runs
  in a browser over the REST API, its forms included, and `gen/` is generated.
