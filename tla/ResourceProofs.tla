--------------------------- MODULE ResourceProofs ---------------------------
(***************************************************************************)
(* Proofs about the resource API for any number of resources, credentials  *)
(* and concurrent calls.                                                   *)
(***************************************************************************)
EXTENDS ResourceRaces, TLAPS

\* A manifest for resource r names only resources r may name and has a type
\* of r's kind.
Manifest(r, s) ==
  /\ r \in Resource /\ s \in Content
  /\ \A t \in s.refs : t \in Resource /\ r \in Referencers(t)
  /\ s.type = "weighted" => r \in Balancer
  /\ r \in Pool => s.type \in {"static", "dynamic"}

-----------------------------------------------------------------------------
\* The manifests of every kind are well-formed and name the right kinds.
LEMMA SpecsAreManifests ==
  /\ \A r \in Proxy, s \in ProxySpecs : Manifest(r, s)
  /\ \A r \in Pool, s \in PoolSpecs : Manifest(r, s)
  /\ \A r \in Balancer, s \in BalancerSpecs : Manifest(r, s)
  /\ \A r \in Router, s \in RouterSpecs : Manifest(r, s)
  /\ \A r \in Flow, s \in FlowSpecs : Manifest(r, s)
  /\ \A r \in Entrypoint, s \in EntrypointSpecs : Manifest(r, s)
<1> USE KindsAssumption DEF Manifest, Content, With, Resource
<1>1. \A t \in Proxy : Referencers(t) = Pool
  BY DEF Referencers
<1>2. \A t \in Pool : Referencers(t) = Balancer
  BY DEF Referencers
<1>3. \A t \in Balancer : Referencers(t) = Flow \cup Router
  BY DEF Referencers
<1>4. \A t \in Router : Referencers(t) = Flow
  BY DEF Referencers
<1>5. \A t \in Flow : Referencers(t) = Entrypoint
  BY DEF Referencers
<1>6. \A r \in Proxy, s \in ProxySpecs : Manifest(r, s)
  BY DEF ProxySpecs
<1>7. \A r \in Pool, s \in PoolSpecs : Manifest(r, s)
  BY <1>1 DEF PoolSpecs
<1>8. \A r \in Balancer, s \in BalancerSpecs : Manifest(r, s)
  BY <1>2 DEF BalancerSpecs
<1>9. \A r \in Router, s \in RouterSpecs : Manifest(r, s)
  BY <1>3 DEF RouterSpecs
<1>10. \A r \in Flow, s \in FlowSpecs : Manifest(r, s)
  BY <1>3, <1>4 DEF FlowSpecs
<1>11. \A r \in Entrypoint, s \in EntrypointSpecs : Manifest(r, s)
  BY <1>5 DEF EntrypointSpecs
<1> QED
  BY <1>6, <1>7, <1>8, <1>9, <1>10, <1>11

\* A step of the API is a step of one of ten shapes.
LEMMA NextShapes ==
  ASSUME Next
  PROVE  \/ Crash
         \/ \E c \in Calls :
              \/ \E r, s : Manifest(r, s) /\ StartApply(c, r, s)
              \/ \E T : Require(c, T)
              \/ CheckType(c) \/ FindExisting(c) \/ Save(c)
              \/ \E t \in Resource : StartDelete(c, t)
              \/ \E K, R \in SUBSET Resource : ListDependents(c, K, R)
              \/ Remove(c) \/ StoreError(c)
<1>0. CASE Crash
  BY <1>0
<1>1. ASSUME NEW c \in Calls, Begin(c)
      PROVE  \/ \E r, s : Manifest(r, s) /\ StartApply(c, r, s)
             \/ \E t \in Resource : StartDelete(c, t)
  BY <1>1, SpecsAreManifests, Zenon
     DEF Begin, ApplyProxyV1, ApplyPoolV1, ApplyBalancerV1, ApplyRouterV1,
         ApplyFlowV1, ApplyEntrypointV1, DeleteProxy, DeletePool, DeleteBalancer,
         DeleteRouter, DeleteFlow, DeleteEntrypoint, Resource
<1>2. /\ Proxy \in SUBSET Resource /\ Pool \in SUBSET Resource
      /\ Balancer \in SUBSET Resource /\ Router \in SUBSET Resource
      /\ Flow \in SUBSET Resource /\ Entrypoint \in SUBSET Resource
  BY DEF Resource
<1>3. ASSUME NEW c \in Calls, Look(c)
      PROVE  \/ \E T : Require(c, T)
             \/ CheckType(c) \/ FindExisting(c)
             \/ \E K, R \in SUBSET Resource : ListDependents(c, K, R)
  BY <1>2, <1>3, Zenon
     DEF Look, RequireProxy, RequirePool, RequireRouter, RequireBalancer,
         RequireFlow, RejectIfPoolsReferenceProxy, RejectIfBalancersReferencePool,
         RejectIfFlowsOrRoutersReferenceBalancer, RejectIfFlowsReferenceRouter,
         RejectIfEntrypointsReferenceFlow
<1> QED
  BY <1>0, <1>1, <1>3, Zenon DEF Next

\* An ended call and an absent resource are well typed.
LEMMA BlankTyped ==
  /\ Absent \in Held
  /\ \A op \in {"idle", "done", "apply", "delete"} : NoCall(op) \in Call
<1>1. Absent \in Held
  BY NoneAssumption DEF Absent, Held, Content, With
<1>2. Absent \in Content
  BY <1>1 DEF Held
<1> QED
  BY <1>1, <1>2 DEF NoCall, Call

\* The database an earlier run left is well typed.
LEMMA InitTypeOK == Init => TypeOK
<1> SUFFICES ASSUME Init PROVE TypeOK
  OBVIOUS
<1>1. call \in [Calls -> Call]
  BY BlankTyped DEF Init
<1>2. ASSUME NEW S \in SUBSET Content, NEW x \in Forms(S) PROVE x \in Held
  BY <1>2, BlankTyped, PastAssumption DEF Forms, Held, Content
<1>3. /\ ProxySpecs \subseteq Content /\ PoolSpecs \subseteq Content
      /\ BalancerSpecs \subseteq Content /\ RouterSpecs \subseteq Content
      /\ FlowSpecs \subseteq Content /\ EntrypointSpecs \subseteq Content
  BY DEF ProxySpecs, PoolSpecs, BalancerSpecs, RouterSpecs, FlowSpecs,
         EntrypointSpecs, Content, With, Resource
<1>4. store \in [Resource -> Held]
  <2>1. PICK x \in [Proxy -> Forms(ProxySpecs)], p \in [Pool -> Forms(PoolSpecs)],
             b \in [Balancer -> Forms(BalancerSpecs)],
             r \in [Router -> Forms(RouterSpecs)],
             f \in [Flow -> Forms(FlowSpecs)],
             e \in [Entrypoint -> Forms(EntrypointSpecs)] :
          store = [n \in Resource |-> CASE n \in Proxy      -> x[n]
                                        [] n \in Pool       -> p[n]
                                        [] n \in Balancer   -> b[n]
                                        [] n \in Router     -> r[n]
                                        [] n \in Flow       -> f[n]
                                        [] n \in Entrypoint -> e[n]]
    BY Zenon DEF Init
  <2>2. ASSUME NEW n \in Resource PROVE store[n] \in Held
    <3>1. CASE n \in Proxy
      BY <2>1, <3>1, <1>2, <1>3, KindsAssumption DEF Resource
    <3>2. CASE n \in Pool
      BY <2>1, <3>2, <1>2, <1>3, KindsAssumption DEF Resource
    <3>3. CASE n \in Balancer
      BY <2>1, <3>3, <1>2, <1>3, KindsAssumption DEF Resource
    <3>4. CASE n \in Router
      BY <2>1, <3>4, <1>2, <1>3, KindsAssumption DEF Resource
    <3>5. CASE n \in Flow
      BY <2>1, <3>5, <1>2, <1>3, KindsAssumption DEF Resource
    <3>6. CASE n \in Entrypoint
      BY <2>1, <3>6, <1>2, <1>3, KindsAssumption DEF Resource
    <3> QED
      BY <3>1, <3>2, <3>3, <3>4, <3>5, <3>6 DEF Resource
  <2> QED
    BY <2>1, <2>2
<1> QED
  BY <1>1, <1>4 DEF TypeOK

\* Every call in flight is about a resource.
Named == \A c \in Calls : Applying(c) \/ Deleting(c) => call[c].name \in Resource

\* Every step of every call keeps the store and the calls well typed.
LEMMA NextTypeOK == TypeOK /\ Named /\ [Next]_vars => TypeOK' /\ Named'
<1> SUFFICES ASSUME TypeOK, Named, [Next]_vars PROVE TypeOK' /\ Named'
  OBVIOUS
<1> USE DEF TypeOK, Named
<1>0. ASSUME NEW c \in Calls, Done(c), store' \in [Resource -> Held]
      PROVE  TypeOK' /\ Named'
  <2>1. NoCall("done") \in Call /\ NoCall("done").op = "done"
    BY BlankTyped DEF NoCall
  <2> QED
    BY <1>0, <2>1 DEF Done, Applying, Deleting
<1>1. CASE UNCHANGED vars
  BY <1>1 DEF vars, Applying, Deleting
<1>2. CASE Crash
  <2>1. NoCall("done") \in Call /\ NoCall("done").op = "done"
    BY BlankTyped DEF NoCall
  <2> QED
    BY <1>2, <2>1 DEF Crash, Applying, Deleting
<1>3. ASSUME NEW c \in Calls, NEW r, NEW s, Manifest(r, s), StartApply(c, r, s)
      PROVE  TypeOK' /\ Named'
  <2>1. NoCall("apply") \in Call
    BY BlankTyped
  <2>2. r \in Resource /\ s \in Content /\ s.refs \subseteq Resource
    BY <1>3 DEF Manifest
  <2>3. StepAfterRefs(s) \in {"refs", "type", "find", "save"}
    BY DEF StepAfterRefs
  <2>4. call'[c] = [NoCall("apply") EXCEPT !.name = r, !.want = s, !.todo = s.refs,
                     !.step = IF s.refs = {} THEN StepAfterRefs(s) ELSE "refs"]
    BY <1>3 DEF StartApply
  <2>5. call'[c] \in Call /\ call'[c].name \in Resource
    BY <2>1, <2>2, <2>3, <2>4 DEF Call
  <2> QED
    BY <1>3, <2>5 DEF StartApply, Applying, Deleting
<1>4. ASSUME NEW c \in Calls, NEW T, Require(c, T) PROVE TypeOK' /\ Named'
  <2>1. PICK t \in call[c].todo \cap T :
          /\ Applying(c)
          /\ IF Stored(t)
             THEN call' = [call EXCEPT
                    ![c].todo = call[c].todo \ {t},
                    ![c].step = IF call[c].todo \ {t} = {}
                                THEN StepAfterRefs(call[c].want) ELSE @]
             ELSE Done(c)
          /\ UNCHANGED store
    BY <1>4 DEF Require
  <2>2. CASE Done(c)
    BY <1>0, <2>1, <2>2
  <2>3. CASE ~Done(c)
    BY <2>1, <2>3 DEF Call, Applying, Deleting, StepAfterRefs
  <2> QED
    BY <2>2, <2>3
<1>5. ASSUME NEW c \in Calls, CheckType(c) PROVE TypeOK' /\ Named'
  <2>1. CASE Done(c)
    BY <1>0, <1>5, <2>1 DEF CheckType
  <2>2. CASE call' = [call EXCEPT ![c].step = "find"]
    BY <1>5, <2>2 DEF CheckType, Call, Applying, Deleting
  <2> QED
    BY <1>5, <2>1, <2>2 DEF CheckType
<1>6. ASSUME NEW c \in Calls, FindExisting(c) PROVE TypeOK' /\ Named'
  BY <1>6 DEF FindExisting, Call, Applying, Deleting
<1>7. ASSUME NEW c \in Calls, Save(c) PROVE TypeOK' /\ Named'
  <2> DEFINE s == call[c].want
  <2>1. PICK t \in ResolveCreatedAt(call[c].found) :
          store' = [store EXCEPT ![call[c].name] =
                     [s EXCEPT !.created = t, !.auth = ResolveAuth(s, call[c].found)]]
    BY <1>7 DEF Save
  <2>2. call[c].found \in Held /\ s \in Content
    BY DEF Call
  <2>3. t \in Times \cup {None}
    BY <2>2 DEF ResolveCreatedAt, Held, Content
  <2>4. /\ ResolveAuth(s, call[c].found) \in Auth \cup {"omitted", None}
        /\ ResolveAuth(s, call[c].found) # "omitted"
    BY <2>2 DEF ResolveAuth, Held, Content
  <2>5. [s EXCEPT !.created = t, !.auth = ResolveAuth(s, call[c].found)] \in Held
    BY <2>2, <2>3, <2>4 DEF Held, Content
  <2> QED
    BY <1>0, <1>7, <2>1, <2>5 DEF Save
<1>8. ASSUME NEW c \in Calls, NEW t \in Resource, StartDelete(c, t)
      PROVE  TypeOK' /\ Named'
  <2>1. Referencers(t) \subseteq Resource
    BY DEF Referencers, Resource
  <2>2. call'[c] \in Call /\ call'[c].name \in Resource
    BY <1>8, <2>1, BlankTyped DEF StartDelete, NoCall, Call
  <2> QED
    BY <1>8, <2>2 DEF StartDelete, Applying, Deleting
<1>9. ASSUME NEW c \in Calls, NEW K \in SUBSET Resource, NEW R \in SUBSET Resource, ListDependents(c, K, R)
      PROVE  TypeOK' /\ Named'
  <2> DEFINE deps == call[c].deps \cup Referencing(R, call[c].name)
  <2>1. CASE Done(c)
    BY <1>0, <1>9, <2>1 DEF ListDependents
  <2>2. CASE call' = [call EXCEPT ![c].todo = call[c].todo \ R, ![c].deps = deps]
    <3>1. deps \subseteq Resource
      BY <1>9 DEF ListDependents, Referencing, Call
    <3>2. UNCHANGED store
      BY <1>9 DEF ListDependents
    <3> HIDE DEF deps
    <3>3. call'[c] = [call[c] EXCEPT !.todo = call[c].todo \ R, !.deps = deps]
      BY <2>2
    <3>4. call'[c].op = call[c].op /\ call'[c].name = call[c].name
      BY <3>3 DEF Call
    <3>5. call[c] \in Call /\ call[c].todo \ R \subseteq Resource
      BY DEF Call
    <3>6. call'[c] \in Call
      BY <3>1, <3>3, <3>5 DEF Call
    <3> QED
      BY <2>2, <3>2, <3>4, <3>6 DEF Applying, Deleting
  <2> QED
    BY <1>9, <2>1, <2>2 DEF ListDependents
<1>10. ASSUME NEW c \in Calls, Remove(c) PROVE TypeOK' /\ Named'
  BY <1>0, <1>10, BlankTyped DEF Remove
<1>11. ASSUME NEW c \in Calls, StoreError(c) PROVE TypeOK' /\ Named'
  BY <1>0, <1>11 DEF StoreError
<1>12. CASE Next
  BY <1>2, <1>3, <1>4, <1>5, <1>6, <1>7, <1>8, <1>9, <1>10, <1>11, <1>12,
     NextShapes, Zenon
<1> QED
  BY <1>1, <1>12

\* No call is in flight when the process starts.
LEMMA InitNamed == Init => Named
<1>1. NoCall("idle").op = "idle"
  BY DEF NoCall
<1> QED
  BY <1>1 DEF Init, Named, Applying, Deleting

\* Type correctness of the resource API, for every instance.
THEOREM ResourcesTypeOK == RaceSpec => []TypeOK
<1>1. RaceInit => TypeOK /\ Named
  BY InitTypeOK, InitNamed DEF RaceInit
<1>2. TypeOK /\ Named /\ [RaceNext]_raceVars => TypeOK' /\ Named'
  BY NextTypeOK DEF RaceNext, raceVars
<1> QED
  BY <1>1, <1>2, PTL DEF RaceSpec

-----------------------------------------------------------------------------
(***************************************************************************)
(* No dangling reference without a race.  The invariant follows both       *)
(* protocols: what an apply has checked stays true until a delete of it    *)
(* comes by, and what a delete has listed stays empty until an apply does. *)
(***************************************************************************)

\* Stored resources and manifests name resources of the right kind, and an
\* apply leaves its first step with every target looked up.
WellFormed ==
  /\ \A r \in Resource : \A t \in store[r].refs : t \in Resource /\ r \in Referencers(t)
  /\ \A c \in Calls : Applying(c) =>
       /\ Manifest(call[c].name, call[c].want)
       /\ call[c].step # "refs" => call[c].todo = {}

\* A target an apply has looked up is still stored, or was raced for.
Checked ==
  \A c \in Calls : Applying(c) =>
    \A t \in call[c].want.refs \ call[c].todo :
      Stored(t) \/ <<call[c].name, t>> \in raced

\* A kind a delete has listed without a hit still has none, or raced.
Listed ==
  \A d \in Calls : Deleting(d) /\ call[d].deps = {} =>
    \A r \in Referencers(call[d].name) \ call[d].todo :
      Stored(r) /\ call[d].name \in store[r].refs => <<r, call[d].name>> \in raced

\* Calls in flight together are on record.
Recorded ==
  \A c, d \in Calls : Race(c, d) => <<call[c].name, call[d].name>> \in raced

RaceInv ==
  /\ TypeOK /\ Named /\ WellFormed /\ Recorded
  /\ Checked /\ Listed /\ DanglingOnlyByRace

\* Each step records the races of the state it leads to.
LEMMA StepRecords ==
  ASSUME RaceNext PROVE raced \subseteq raced' /\ Recorded'
<1>1. raced' = raced \cup Overlaps'
  BY DEF RaceNext
<1>2. ASSUME NEW c \in Calls, NEW d \in Calls, Race(c, d)'
      PROVE  <<call'[c].name, call'[d].name>> \in Overlaps'
  <2>1. <<c, d>> \in {q \in Calls \X Calls : Race(q[1], q[2])'}
    BY <1>2
  <2> QED
    BY <2>1 DEF Overlaps
<1> QED
  BY <1>1, <1>2 DEF Recorded

\* A call that only looks: it ends, or keeps what the invariant is about.
Keeps(c) ==
  \/ ~Applying(c)' /\ ~Deleting(c)'
  \/ /\ call'[c].op = call[c].op /\ call'[c].name = call[c].name
     /\ call'[c].want = call[c].want /\ call'[c].todo = call[c].todo
     /\ call'[c].deps = call[c].deps
     /\ call'[c].step # "refs" => call[c].todo = {} \/ call[c].step # "refs"

\* What the invariant says beyond types and records.
Core == WellFormed /\ Checked /\ Listed /\ DanglingOnlyByRace

\* A step in which every call keeps, and the store stays, keeps the invariant.
LEMMA QuietStep ==
  ASSUME RaceInv, UNCHANGED store, raced \subseteq raced', \A c \in Calls : Keeps(c)
  PROVE  Core'
<1> USE DEF RaceInv, Keeps, Applying, Deleting
<1>1. WellFormed'
  BY DEF WellFormed, Manifest
<1>2. Checked'
  BY DEF Checked, Stored
<1>3. Listed'
  BY DEF Listed, Stored
<1>4. DanglingOnlyByRace'
  BY DEF DanglingOnlyByRace, Stored
<1> QED
  BY <1>1, <1>2, <1>3, <1>4 DEF Core

\* A call that ends is out of flight and leaves the others alone.
LEMMA DoneKeeps ==
  ASSUME TypeOK, NEW c \in Calls, Done(c)
  PROVE  /\ ~Applying(c)' /\ ~Deleting(c)'
         /\ \A d \in Calls \ {c} : call'[d] = call[d]
         /\ \A d \in Calls : Keeps(d)
<1>1. NoCall("done").op = "done"
  BY DEF NoCall
<1> QED
  BY <1>1 DEF TypeOK, Done, Keeps, Applying, Deleting

\* Ended and looking calls: a store error, a crash, a type check, a read.
LEMMA LookKeeps ==
  ASSUME TypeOK,
         \/ Crash
         \/ \E c \in Calls : StoreError(c) \/ CheckType(c) \/ FindExisting(c)
  PROVE  UNCHANGED store /\ \A c \in Calls : Keeps(c)
<1>1. CASE Crash
  <2>1. NoCall("done").op = "done"
    BY DEF NoCall
  <2> QED
    BY <1>1, <2>1 DEF Crash, Keeps, Applying, Deleting
<1>2. ASSUME NEW c \in Calls, StoreError(c)
      PROVE  UNCHANGED store /\ \A d \in Calls : Keeps(d)
  BY <1>2, DoneKeeps DEF StoreError
<1>3. ASSUME NEW c \in Calls, CheckType(c)
      PROVE  UNCHANGED store /\ \A d \in Calls : Keeps(d)
  <2>1. CASE Done(c)
    BY <1>3, <2>1, DoneKeeps DEF CheckType
  <2>2. CASE call' = [call EXCEPT ![c].step = "find"]
    BY <1>3, <2>2 DEF CheckType, Keeps, TypeOK, Call
  <2> QED
    BY <1>3, <2>1, <2>2 DEF CheckType
<1>4. ASSUME NEW c \in Calls, FindExisting(c)
      PROVE  UNCHANGED store /\ \A d \in Calls : Keeps(d)
  BY <1>4 DEF FindExisting, Keeps, TypeOK, Call
<1> QED
  BY <1>1, <1>2, <1>3, <1>4

\* A new apply has looked nothing up.
LEMMA StartApplyStep ==
  ASSUME RaceInv, raced \subseteq raced',
         NEW c \in Calls, NEW r, NEW s, Manifest(r, s), StartApply(c, r, s)
  PROVE  Core'
<1> USE DEF RaceInv, Applying, Deleting
<1>1. /\ UNCHANGED store /\ \A d \in Calls \ {c} : call'[d] = call[d]
      /\ call'[c].op = "apply" /\ call'[c].name = r /\ call'[c].want = s
      /\ call'[c].todo = s.refs
      /\ call'[c].step # "refs" => s.refs = {}
  BY DEF StartApply, TypeOK, NoCall
<1>2. WellFormed'
  BY <1>1 DEF WellFormed, Manifest
<1>3. Checked'
  BY <1>1 DEF Checked, Stored
<1>4. Listed'
  BY <1>1 DEF Listed, Stored
<1>5. DanglingOnlyByRace'
  BY <1>1 DEF DanglingOnlyByRace, Stored
<1> QED
  BY <1>2, <1>3, <1>4, <1>5 DEF Core

\* A target is ticked off only when it is stored.
LEMMA RequireStep ==
  ASSUME RaceInv, raced \subseteq raced', NEW c \in Calls, NEW T, Require(c, T)
  PROVE  Core'
<1> USE DEF RaceInv
<1>1. PICK t \in call[c].todo \cap T :
        /\ Applying(c)
        /\ IF Stored(t)
           THEN call' = [call EXCEPT
                  ![c].todo = call[c].todo \ {t},
                  ![c].step = IF call[c].todo \ {t} = {}
                              THEN StepAfterRefs(call[c].want) ELSE @]
           ELSE Done(c)
        /\ UNCHANGED store
  BY DEF Require
<1>2. CASE Done(c)
  BY <1>1, <1>2, DoneKeeps, QuietStep
<1>3. CASE ~Done(c)
  <2>1. Stored(t)
    BY <1>1, <1>3
  <2>2. /\ UNCHANGED store /\ \A d \in Calls \ {c} : call'[d] = call[d]
        /\ call'[c].op = "apply" /\ call'[c].name = call[c].name
        /\ call'[c].want = call[c].want /\ call'[c].todo = call[c].todo \ {t}
        /\ call'[c].step # "refs" => call'[c].todo = {} \/ call[c].step # "refs"
    BY <1>1, <1>3 DEF TypeOK, Call, Applying
  <2>3. WellFormed'
    BY <1>1, <2>2 DEF WellFormed, Manifest, Applying
  <2>4. Checked'
    BY <1>1, <2>1, <2>2 DEF Checked, Stored, Applying
  <2>5. Listed'
    BY <2>2 DEF Listed, Stored, Deleting
  <2>6. DanglingOnlyByRace'
    BY <2>2 DEF DanglingOnlyByRace, Stored
  <2> QED
    BY <2>3, <2>4, <2>5, <2>6 DEF Core
<1> QED
  BY <1>2, <1>3

\* A saved resource names targets its call looked up; a delete that has
\* already listed its kind is on record with it.
LEMMA SaveStep ==
  ASSUME RaceInv, raced \subseteq raced', NEW c \in Calls, Save(c)
  PROVE  Core'
<1> USE DEF RaceInv
<1> DEFINE r == call[c].name
           s == call[c].want
<1>1. /\ Applying(c) /\ call[c].todo = {} /\ Manifest(r, s) /\ r \in Resource
  BY DEF Save, WellFormed, Manifest
<1>2. /\ \A n \in Resource \ {r} : store'[n] = store[n]
      /\ store'[r].refs = s.refs /\ store'[r].created # None
  <2>1. PICK t \in ResolveCreatedAt(call[c].found) :
          store' = [store EXCEPT ![r] =
                     [s EXCEPT !.created = t, !.auth = ResolveAuth(s, call[c].found)]]
    BY DEF Save
  <2>2. t # None
    BY NoneAssumption DEF ResolveCreatedAt
  <2>3. s \in Content
    BY DEF TypeOK, Call
  <2> QED
    BY <1>1, <2>1, <2>2, <2>3 DEF TypeOK, Content
<1>3. /\ ~Applying(c)' /\ ~Deleting(c)' /\ \A d \in Calls \ {c} : call'[d] = call[d]
  BY DoneKeeps DEF Save
<1>4. \A n \in Resource : Stored(n) => Stored(n)'
  BY <1>2 DEF Stored
<1>5. WellFormed'
  BY <1>1, <1>2, <1>3 DEF WellFormed, Manifest, Applying
<1>6. Checked'
  BY <1>3, <1>4 DEF Checked, WellFormed, Manifest, Applying
<1>7. Listed'
  <2> SUFFICES ASSUME NEW d \in Calls, Deleting(d)', call'[d].deps = {},
                      NEW n \in Referencers(call'[d].name) \ call'[d].todo,
                      Stored(n)', call'[d].name \in store'[n].refs
               PROVE  <<n, call'[d].name>> \in raced'
    BY DEF Listed
  <2>1. d # c /\ call'[d] = call[d] /\ Deleting(d)
    BY <1>3 DEF Deleting
  <2>2. n \in Resource
    BY <2>1 DEF Referencers, Resource, Named
  <2>3. CASE n = r
    <3>1. Race(c, d)
      BY <1>1, <1>2, <2>1, <2>3 DEF Race, OrphanRace
    <3> QED
      BY <2>1, <2>3, <3>1 DEF Recorded
  <2>4. CASE n # r
    BY <1>2, <2>1, <2>2, <2>4 DEF Listed, Stored
  <2> QED
    BY <2>3, <2>4
<1>8. DanglingOnlyByRace'
  BY <1>1, <1>2, <1>4 DEF DanglingOnlyByRace, Checked, Stored, Manifest, WellFormed
<1> QED
  BY <1>5, <1>6, <1>7, <1>8 DEF Core

\* A new delete has listed nothing.
LEMMA StartDeleteStep ==
  ASSUME RaceInv, raced \subseteq raced',
         NEW c \in Calls, NEW t \in Resource, StartDelete(c, t)
  PROVE  Core'
<1> USE DEF RaceInv, Applying, Deleting
<1>1. /\ UNCHANGED store /\ \A d \in Calls \ {c} : call'[d] = call[d]
      /\ call'[c].op = "delete" /\ call'[c].name = t
      /\ call'[c].todo = Referencers(t)
  BY DEF StartDelete, TypeOK, NoCall
<1>2. WellFormed'
  BY <1>1 DEF WellFormed, Manifest
<1>3. Checked'
  BY <1>1 DEF Checked, Stored
<1>4. Listed'
  BY <1>1 DEF Listed, Stored
<1>5. DanglingOnlyByRace'
  BY <1>1 DEF DanglingOnlyByRace, Stored
<1> QED
  BY <1>2, <1>3, <1>4, <1>5 DEF Core

\* A kind is ticked off without a hit only when none of it names the victim.
LEMMA ListDependentsStep ==
  ASSUME RaceInv, raced \subseteq raced', NEW c \in Calls,
         NEW K \in SUBSET Resource, NEW R \in SUBSET Resource,
         ListDependents(c, K, R)
  PROVE  Core'
<1> USE DEF RaceInv
<1> DEFINE deps == call[c].deps \cup Referencing(R, call[c].name)
<1>1. CASE Done(c)
  BY <1>1, DoneKeeps, QuietStep DEF ListDependents
<1>2. CASE call' = [call EXCEPT ![c].todo = call[c].todo \ R, ![c].deps = deps]
  <2>1. /\ UNCHANGED store /\ \A d \in Calls \ {c} : call'[d] = call[d]
        /\ call[c].op = "delete" /\ call'[c].op = "delete"
        /\ call'[c].name = call[c].name
        /\ call'[c].todo = call[c].todo \ R /\ call'[c].deps = deps
    BY <1>2 DEF ListDependents, TypeOK, Call, Deleting
  <2>2. WellFormed'
    BY <2>1 DEF WellFormed, Manifest, Applying
  <2>3. Checked'
    BY <2>1 DEF Checked, Stored, Applying
  <2>4. Listed'
    BY <2>1 DEF Listed, Referencing, Stored, Deleting
  <2>5. DanglingOnlyByRace'
    BY <2>1 DEF DanglingOnlyByRace, Stored
  <2> QED
    BY <2>2, <2>3, <2>4, <2>5 DEF Core
<1> QED
  BY <1>1, <1>2 DEF ListDependents

\* A removed resource was listed for in every kind that may name it, and an
\* apply that has looked it up is on record with it.
LEMMA RemoveStep ==
  ASSUME RaceInv, raced \subseteq raced', NEW c \in Calls, Remove(c)
  PROVE  Core'
<1> USE DEF RaceInv
<1> DEFINE t == call[c].name
<1>1. /\ Deleting(c) /\ call[c].todo = {} /\ call[c].deps = {} /\ t \in Resource
  BY DEF Remove, Named
<1>2. /\ \A n \in Resource \ {t} : store'[n] = store[n]
      /\ store'[t].refs = {} /\ store'[t].created = None
  BY <1>1 DEF Remove, TypeOK, Absent, With
<1>3. /\ ~Applying(c)' /\ ~Deleting(c)' /\ \A d \in Calls \ {c} : call'[d] = call[d]
  BY DoneKeeps DEF Remove
<1>4. \A n \in Resource : Stored(n)' => Stored(n) /\ store'[n] = store[n]
  BY <1>2 DEF Stored
<1>5. WellFormed'
  BY <1>2, <1>3 DEF WellFormed, Manifest, Applying
<1>6. Checked'
  <2> SUFFICES ASSUME NEW d \in Calls, Applying(d)',
                      NEW n \in call'[d].want.refs \ call'[d].todo, ~Stored(n)'
               PROVE  <<call'[d].name, n>> \in raced'
    BY DEF Checked
  <2>1. d # c /\ call'[d] = call[d] /\ Applying(d)
    BY <1>3 DEF Applying
  <2>2. n \in Resource
    BY <2>1 DEF WellFormed, Manifest
  <2>3. CASE n = t
    <3>1. Race(d, c)
      BY <1>1, <2>1, <2>3 DEF Race, OrphanRace
    <3> QED
      BY <2>1, <2>3, <3>1 DEF Recorded
  <2>4. CASE n # t
    BY <1>2, <2>1, <2>2, <2>4 DEF Checked, Stored
  <2> QED
    BY <2>3, <2>4
<1>7. Listed'
  <2> SUFFICES ASSUME NEW d \in Calls, Deleting(d)', call'[d].deps = {},
                      NEW n \in Referencers(call'[d].name) \ call'[d].todo,
                      Stored(n)', call'[d].name \in store'[n].refs
               PROVE  <<n, call'[d].name>> \in raced'
    BY DEF Listed
  <2>1. call'[d] = call[d] /\ Deleting(d)
    BY <1>3 DEF Deleting
  <2>2. n \in Resource
    BY <2>1 DEF Referencers, Resource, Named
  <2> QED
    BY <1>4, <2>1, <2>2 DEF Listed
<1>8. DanglingOnlyByRace'
  <2> SUFFICES ASSUME NEW n \in Resource, NEW x \in store'[n].refs,
                      Stored(n)', ~Stored(x)'
               PROVE  <<n, x>> \in raced'
    BY DEF DanglingOnlyByRace
  <2>1. Stored(n) /\ x \in store[n].refs
    BY <1>4
  <2>2. x \in Resource /\ n \in Referencers(x)
    BY <2>1 DEF WellFormed
  <2>3. CASE x = t
    BY <1>1, <2>1, <2>2, <2>3 DEF Listed
  <2>4. CASE x # t
    BY <1>2, <2>1, <2>2, <2>4 DEF DanglingOnlyByRace, Stored
  <2> QED
    BY <2>3, <2>4
<1> QED
  BY <1>5, <1>6, <1>7, <1>8 DEF Core

\* The database an earlier run left is whole, and no call is in flight.
LEMMA InitRaceInv == RaceInit => RaceInv
<1> SUFFICES ASSUME RaceInit PROVE RaceInv
  OBVIOUS
<1>1. TypeOK /\ Named
  BY InitTypeOK, InitNamed DEF RaceInit
<1>2. \A c \in Calls : ~Applying(c) /\ ~Deleting(c)
  <2>1. NoCall("idle").op = "idle"
    BY DEF NoCall
  <2> QED
    BY <2>1 DEF RaceInit, Init, Applying, Deleting
<1>3. DanglingOnlyByRace
  BY DEF RaceInit, Init, DanglingOnlyByRace
<1>4. ASSUME NEW n \in Resource, NEW t \in store[n].refs
      PROVE  t \in Resource /\ n \in Referencers(t)
  <2>1. PICK x \in [Proxy -> Forms(ProxySpecs)], p \in [Pool -> Forms(PoolSpecs)],
             b \in [Balancer -> Forms(BalancerSpecs)],
             r \in [Router -> Forms(RouterSpecs)],
             f \in [Flow -> Forms(FlowSpecs)],
             e \in [Entrypoint -> Forms(EntrypointSpecs)] :
          store = [m \in Resource |-> CASE m \in Proxy      -> x[m]
                                        [] m \in Pool       -> p[m]
                                        [] m \in Balancer   -> b[m]
                                        [] m \in Router     -> r[m]
                                        [] m \in Flow       -> f[m]
                                        [] m \in Entrypoint -> e[m]]
    BY Zenon DEF RaceInit, Init
  <2>2. ASSUME NEW S, NEW y \in Forms(S), \A s \in S : Manifest(n, s), t \in y.refs
        PROVE  t \in Resource /\ n \in Referencers(t)
    <3>1. y # Absent
      BY <2>2 DEF Absent, With
    <3>2. PICK s \in S : y = [s EXCEPT !.created = Past]
      BY <2>2, <3>1 DEF Forms
    <3>3. s \in Content
      BY <2>2 DEF Manifest
    <3>4. y.refs = s.refs
      BY <3>2, <3>3 DEF Content
    <3> QED
      BY <2>2, <3>4 DEF Manifest
  <2>3. CASE n \in Proxy
    BY <2>1, <2>2, <2>3, SpecsAreManifests, KindsAssumption DEF Resource
  <2>4. CASE n \in Pool
    BY <2>1, <2>2, <2>4, SpecsAreManifests, KindsAssumption DEF Resource
  <2>5. CASE n \in Balancer
    BY <2>1, <2>2, <2>5, SpecsAreManifests, KindsAssumption DEF Resource
  <2>6. CASE n \in Router
    BY <2>1, <2>2, <2>6, SpecsAreManifests, KindsAssumption DEF Resource
  <2>7. CASE n \in Flow
    BY <2>1, <2>2, <2>7, SpecsAreManifests, KindsAssumption DEF Resource
  <2>8. CASE n \in Entrypoint
    BY <2>1, <2>2, <2>8, SpecsAreManifests, KindsAssumption DEF Resource
  <2> QED
    BY <2>3, <2>4, <2>5, <2>6, <2>7, <2>8 DEF Resource
<1>5. WellFormed /\ Checked /\ Listed
  BY <1>2, <1>4 DEF WellFormed, Checked, Listed
<1>6. Recorded
  BY <1>2 DEF Recorded, Race, OrphanRace, TypeRace, WriteRace
<1> QED
  BY <1>1, <1>3, <1>5, <1>6 DEF RaceInv

\* Every step keeps the invariant.
LEMMA NextRaceInv == RaceInv /\ [RaceNext]_raceVars => RaceInv'
<1> SUFFICES ASSUME RaceInv, [RaceNext]_raceVars PROVE RaceInv'
  OBVIOUS
<1>1. CASE UNCHANGED raceVars
  <2>1. UNCHANGED <<store, call, raced>>
    BY <1>1 DEF raceVars, vars
  <2> QED
    BY <2>1 DEF RaceInv, TypeOK, Named, WellFormed, Recorded, Checked, Listed,
                DanglingOnlyByRace, Manifest, Stored, Applying, Deleting, Race,
                OrphanRace, TypeRace, WriteRace
<1>2. CASE RaceNext
  <2>1. TypeOK' /\ Named'
    BY <1>2, NextTypeOK DEF RaceNext, RaceInv
  <2>2. raced \subseteq raced' /\ Recorded'
    BY <1>2, StepRecords
  <2>3. Next
    BY <1>2 DEF RaceNext
  <2>4. ASSUME \/ Crash
               \/ \E c \in Calls : StoreError(c) \/ CheckType(c) \/ FindExisting(c)
        PROVE  Core'
    BY <2>2, <2>4, LookKeeps, QuietStep DEF RaceInv
  <2>5. Core'
    BY <2>2, <2>3, <2>4, NextShapes, StartApplyStep, RequireStep, SaveStep,
       StartDeleteStep, ListDependentsStep, RemoveStep, Zenon
  <2> QED
    BY <2>1, <2>2, <2>5 DEF RaceInv, Core
<1> QED
  BY <1>1, <1>2

\* For any set of resources and any number of concurrent calls, with failures
\* and crashes between any two of their transactions: a stored reference
\* dangles only if the apply that wrote it raced a delete of its target.
THEOREM NoDanglingWithoutRace == RaceSpec => []DanglingOnlyByRace
<1>1. RaceInv => DanglingOnlyByRace
  BY DEF RaceInv
<1> QED
  BY <1>1, InitRaceInv, NextRaceInv, PTL DEF RaceSpec

-----------------------------------------------------------------------------
(***************************************************************************)
(* Pool types, CreatedAt and credentials.  What an apply has read is what  *)
(* it overwrites, and what its type check saw still holds, unless another  *)
(* call on record came by.                                                 *)
(***************************************************************************)

\* An apply past its type check.
PastCheck(c) == Applying(c) /\ call[c].step \in {"find", "save"}

Weighted(r) == Stored(r) /\ store[r].type = "weighted"

\* Only balancers are weighted.
Kinded == \A r \in Resource : store[r].type = "weighted" => r \in Balancer

\* The pool of a weighted balancer past its check is static still, or raced.
PoolsChecked ==
  \A c \in Calls : PastCheck(c) /\ call[c].want.type = "weighted" =>
    \A p \in call[c].want.refs :
      Stored(p) /\ store[p].type # "static" => <<call[c].name, p>> \in raced

\* The balancers over a pool that is to turn dynamic are not weighted, or raced.
BalancersChecked ==
  \A c \in Calls : PastCheck(c) /\ call[c].want.type = "dynamic" =>
    \A b \in Resource :
      Weighted(b) /\ call[c].name \in store[b].refs => <<b, call[c].name>> \in raced

\* The copy an apply is to overwrite is current, or raced.
FreshCopy ==
  \A c \in Calls : Applying(c) /\ call[c].step = "save" =>
    \/ call[c].found = store[call[c].name]
    \/ <<call[c].name, call[c].name>> \in raced

UpdateCore == Kinded /\ PoolsChecked /\ BalancersChecked /\ FreshCopy /\ WeightedOverStatic

UpdateInv == RaceInv /\ UpdateCore

\* A call that has nothing new to answer for: it is not an apply, has not
\* passed its check, or keeps what the invariant is about.
Passes(c) ==
  \/ ~Applying(c)'
  \/ /\ call'[c].step # "save"
     /\ call'[c].want.type \in {"weighted", "dynamic"} => call'[c].step # "find"
  \/ /\ call'[c].op = call[c].op /\ call'[c].name = call[c].name
     /\ call'[c].want = call[c].want /\ call'[c].found = call[c].found
     /\ call'[c].step = call[c].step

\* A step in which every call passes, and the store stays, keeps the invariant.
LEMMA PassingStep ==
  ASSUME UpdateInv, UNCHANGED store, raced \subseteq raced', \A c \in Calls : Passes(c)
  PROVE  UpdateCore'
<1> USE DEF UpdateInv, UpdateCore, Passes, Applying
<1>1. Kinded'
  BY DEF Kinded
<1>2. PoolsChecked'
  BY DEF PoolsChecked, PastCheck, Stored
<1>3. BalancersChecked'
  BY DEF BalancersChecked, PastCheck, Weighted, Stored
<1>4. FreshCopy'
  BY DEF FreshCopy
<1>5. WeightedOverStatic'
  BY DEF WeightedOverStatic, Stored
<1> QED
  BY <1>1, <1>2, <1>3, <1>4, <1>5

\* Calls that begin, end, look up targets or list dependents pass.
LEMMA OtherStepsPass ==
  ASSUME UpdateInv,
         \/ Crash
         \/ \E c \in Calls :
              \/ \E r, s : StartApply(c, r, s)
              \/ \E T : Require(c, T)
              \/ \E t \in Resource : StartDelete(c, t)
              \/ \E K, R \in SUBSET Resource : ListDependents(c, K, R)
              \/ StoreError(c)
  PROVE  UNCHANGED store /\ \A c \in Calls : Passes(c)
<1> USE DEF UpdateInv, RaceInv
<1>0. ASSUME NEW c \in Calls, Done(c) PROVE \A d \in Calls : Passes(d)
  BY <1>0, DoneKeeps DEF Passes
<1>1. CASE Crash
  <2>1. NoCall("done").op = "done"
    BY DEF NoCall
  <2> QED
    BY <1>1, <2>1 DEF Crash, Passes, Applying
<1>2. ASSUME NEW c \in Calls, NEW r, NEW s, StartApply(c, r, s)
      PROVE  UNCHANGED store /\ \A d \in Calls : Passes(d)
  <2>1. /\ UNCHANGED store /\ \A d \in Calls \ {c} : call'[d] = call[d]
        /\ call'[c].want = s
        /\ call'[c].step = IF s.refs = {} THEN StepAfterRefs(s) ELSE "refs"
    BY <1>2 DEF StartApply, TypeOK, NoCall
  <2> QED
    BY <2>1 DEF Passes, StepAfterRefs, HasTypeCheck
<1>3. ASSUME NEW c \in Calls, NEW T, Require(c, T)
      PROVE  UNCHANGED store /\ \A d \in Calls : Passes(d)
  <2>1. PICK t \in call[c].todo \cap T :
          /\ Applying(c)
          /\ IF Stored(t)
             THEN call' = [call EXCEPT
                    ![c].todo = call[c].todo \ {t},
                    ![c].step = IF call[c].todo \ {t} = {}
                                THEN StepAfterRefs(call[c].want) ELSE @]
             ELSE Done(c)
          /\ UNCHANGED store
    BY <1>3 DEF Require
  <2>2. CASE Done(c)
    BY <1>0, <2>1, <2>2
  <2>3. CASE ~Done(c)
    <3>1. call[c].step = "refs"
      BY <2>1 DEF WellFormed
    <3>2. /\ \A d \in Calls \ {c} : call'[d] = call[d]
          /\ call'[c].want = call[c].want
          /\ call'[c].step \in {"refs", StepAfterRefs(call[c].want)}
      BY <2>1, <2>3, <3>1 DEF TypeOK, Call
    <3> QED
      BY <2>1, <3>2 DEF Passes, StepAfterRefs, HasTypeCheck
  <2> QED
    BY <2>2, <2>3
<1>4. ASSUME NEW c \in Calls, NEW t \in Resource, StartDelete(c, t)
      PROVE  UNCHANGED store /\ \A d \in Calls : Passes(d)
  BY <1>4 DEF StartDelete, TypeOK, NoCall, Passes, Applying
<1>5. ASSUME NEW c \in Calls, NEW K \in SUBSET Resource, NEW R \in SUBSET Resource,
             ListDependents(c, K, R)
      PROVE  UNCHANGED store /\ \A d \in Calls : Passes(d)
  <2>1. CASE Done(c)
    BY <1>0, <1>5, <2>1 DEF ListDependents
  <2>2. CASE ~Done(c)
    BY <1>5, <2>2 DEF ListDependents, TypeOK, Call, Passes, Applying, Deleting
  <2> QED
    BY <2>1, <2>2
<1>6. ASSUME NEW c \in Calls, StoreError(c)
      PROVE  UNCHANGED store /\ \A d \in Calls : Passes(d)
  BY <1>0, <1>6 DEF StoreError
<1> QED
  BY <1>1, <1>2, <1>3, <1>4, <1>5, <1>6

\* The check establishes what the apply relies on until it writes.
LEMMA CheckTypeStep ==
  ASSUME UpdateInv, raced \subseteq raced', NEW c \in Calls, CheckType(c)
  PROVE  UpdateCore'
<1> USE DEF UpdateInv, RaceInv
<1>1. CASE Done(c)
  BY <1>1, DoneKeeps, PassingStep DEF Passes, CheckType
<1>2. CASE ~Done(c)
  <2>1. /\ UNCHANGED store /\ \A d \in Calls \ {c} : call'[d] = call[d]
        /\ call'[c].want = call[c].want /\ call'[c].name = call[c].name
        /\ call'[c].step = "find"
    BY <1>2 DEF CheckType, TypeOK, Call
  <2>2. /\ call[c].want.type = "weighted" =>
             \A p \in call[c].want.refs : store[p].type = "static"
        /\ call[c].want.type = "dynamic" =>
             \A b \in Balancer : Stored(b) /\ call[c].name \in store[b].refs =>
               store[b].type # "weighted"
    BY <1>2 DEF CheckType, Referencing
  <2>3. Kinded' /\ WeightedOverStatic'
    BY <2>1 DEF UpdateCore, Kinded, WeightedOverStatic, Stored
  <2>4. PoolsChecked'
    BY <2>1, <2>2 DEF UpdateCore, PoolsChecked, PastCheck, Applying, Stored
  <2>5. BalancersChecked'
    BY <2>1, <2>2 DEF UpdateCore, BalancersChecked, PastCheck, Applying, Stored, Weighted, Kinded
  <2>6. FreshCopy'
    BY <2>1 DEF UpdateCore, FreshCopy, Applying
  <2> QED
    BY <2>3, <2>4, <2>5, <2>6 DEF UpdateCore
<1> QED
  BY <1>1, <1>2

\* The copy an apply reads is current.
LEMMA FindExistingStep ==
  ASSUME UpdateInv, raced \subseteq raced', NEW c \in Calls, FindExisting(c)
  PROVE  UpdateCore'
<1> USE DEF UpdateInv, RaceInv
<1>1. /\ UNCHANGED store /\ \A d \in Calls \ {c} : call'[d] = call[d]
      /\ call'[c].want = call[c].want /\ call'[c].name = call[c].name
      /\ call'[c].found = store[call[c].name] /\ PastCheck(c)
  BY DEF FindExisting, TypeOK, Call, PastCheck
<1>2. Kinded' /\ WeightedOverStatic'
  BY <1>1 DEF UpdateCore, Kinded, WeightedOverStatic, Stored
<1>3. PoolsChecked'
  BY <1>1 DEF UpdateCore, PoolsChecked, PastCheck, Applying, Stored
<1>4. BalancersChecked'
  BY <1>1 DEF UpdateCore, BalancersChecked, PastCheck, Applying, Stored, Weighted
<1>5. FreshCopy'
  BY <1>1 DEF UpdateCore, FreshCopy, Applying
<1> QED
  BY <1>2, <1>3, <1>4, <1>5 DEF UpdateCore

\* What a save puts in the store.
LEMMA SaveEffect ==
  ASSUME RaceInv, NEW c \in Calls, Save(c)
  PROVE  \E r \in Resource, s \in Content, h \in Held :
           /\ r = call[c].name /\ s = call[c].want /\ h = call[c].found
           /\ Manifest(r, s) /\ Applying(c) /\ call[c].step = "save"
           /\ \A n \in Resource \ {r} : store'[n] = store[n]
           /\ store'[r].refs = s.refs /\ store'[r].type = s.type
           /\ store'[r].created \in ResolveCreatedAt(h)
           /\ store'[r].auth = ResolveAuth(s, h)
           /\ ~Applying(c)' /\ \A d \in Calls \ {c} : call'[d] = call[d]
<1> USE DEF RaceInv
<1>1. PICK r, s, h : r = call[c].name /\ s = call[c].want /\ h = call[c].found
  OBVIOUS
<1>2. /\ Applying(c) /\ call[c].step = "save" /\ Manifest(r, s)
      /\ s \in Content /\ h \in Held /\ r \in Resource
  BY <1>1 DEF Save, WellFormed, Manifest, TypeOK, Call
<1>3. PICK t \in ResolveCreatedAt(h) :
        store' = [store EXCEPT ![r] = [s EXCEPT !.created = t, !.auth = ResolveAuth(s, h)]]
  BY <1>1 DEF Save
<1>4. /\ store'[r] = [s EXCEPT !.created = t, !.auth = ResolveAuth(s, h)]
      /\ \A n \in Resource \ {r} : store'[n] = store[n]
  BY <1>2, <1>3 DEF TypeOK
<1>5. /\ store'[r].refs = s.refs /\ store'[r].type = s.type
      /\ store'[r].created = t /\ store'[r].auth = ResolveAuth(s, h)
  BY <1>2, <1>4 DEF Content
<1>6. ~Applying(c)' /\ \A d \in Calls \ {c} : call'[d] = call[d]
  BY DoneKeeps DEF Save
<1> QED
  BY <1>1, <1>2, <1>4, <1>5, <1>6

\* Only balancers name pools.
LEMMA OnlyBalancersNamePools ==
  ASSUME NEW p \in Resource, NEW b \in Balancer, b \in Referencers(p)
  PROVE  p \in Pool
BY KindsAssumption DEF Referencers, Resource

\* A save: a weighted balancer lands over the pool it checked, a dynamic pool
\* under the balancers it checked, and whoever relied on what they replace is
\* on record with them.
LEMMA SaveUpdateStep ==
  ASSUME UpdateInv, raced \subseteq raced', NEW c \in Calls, Save(c)
  PROVE  UpdateCore'
<1> USE DEF UpdateInv, RaceInv
<1>1. PICK r \in Resource, s \in Content, h \in Held :
        /\ r = call[c].name /\ s = call[c].want /\ h = call[c].found
        /\ Manifest(r, s) /\ Applying(c) /\ call[c].step = "save"
        /\ \A n \in Resource \ {r} : store'[n] = store[n]
        /\ store'[r].refs = s.refs /\ store'[r].type = s.type
        /\ store'[r].created \in ResolveCreatedAt(h)
        /\ store'[r].auth = ResolveAuth(s, h)
        /\ ~Applying(c)' /\ \A d \in Calls \ {c} : call'[d] = call[d]
  BY SaveEffect
<1>2. PastCheck(c)
  BY <1>1 DEF PastCheck
<1>3. ASSUME NEW d \in Calls, Applying(d)' PROVE d # c /\ call'[d] = call[d] /\ Applying(d)
  BY <1>1, <1>3 DEF Applying
<1>4. Kinded'
  BY <1>1 DEF UpdateCore, Kinded, Manifest
<1>5. ASSUME NEW p \in Resource, NEW b \in Balancer, b \in Referencers(p), p = r,
             s.type # "static"
      PROVE  s.type = "dynamic" /\ p \in Pool
  BY <1>1, <1>5, OnlyBalancersNamePools DEF Manifest
<1>6. PoolsChecked'
  <2> SUFFICES ASSUME NEW d \in Calls, PastCheck(d)', call'[d].want.type = "weighted",
                      NEW p \in call'[d].want.refs, Stored(p)', store'[p].type # "static"
               PROVE  <<call'[d].name, p>> \in raced'
    BY DEF PoolsChecked
  <2>1. d # c /\ call'[d] = call[d] /\ PastCheck(d)
    BY <1>3 DEF PastCheck
  <2>2. /\ p \in Resource /\ call[d].name \in Referencers(p) /\ call[d].name \in Balancer
        /\ p \in call[d].want.refs
    BY <2>1 DEF WellFormed, Manifest, PastCheck
  <2>3. CASE p = r
    <3>1. s.type = "dynamic"
      BY <1>1, <1>5, <2>2, <2>3
    <3>2. Race(d, c)
      BY <1>1, <2>1, <2>2, <2>3, <3>1 DEF Race, TypeRace, PastCheck
    <3> QED
      BY <1>1, <2>1, <2>3, <3>2 DEF Recorded
  <2>4. CASE p # r
    <3>1. store'[p] = store[p]
      BY <1>1, <2>2, <2>4
    <3> QED
      BY <2>1, <2>2, <3>1 DEF UpdateCore, PoolsChecked, Stored
  <2> QED
    BY <2>3, <2>4
<1>7. BalancersChecked'
  <2> SUFFICES ASSUME NEW d \in Calls, PastCheck(d)', call'[d].want.type = "dynamic",
                      NEW b \in Resource, Weighted(b)', call'[d].name \in store'[b].refs
               PROVE  <<b, call'[d].name>> \in raced'
    BY DEF BalancersChecked
  <2>1. d # c /\ call'[d] = call[d] /\ PastCheck(d)
    BY <1>3 DEF PastCheck
  <2>2. CASE b = r
    <3>1. Race(c, d)
      BY <1>1, <2>1, <2>2 DEF Race, TypeRace, PastCheck, Weighted
    <3> QED
      BY <1>1, <2>1, <2>2, <3>1 DEF Recorded
  <2>3. CASE b # r
    <3>1. store'[b] = store[b]
      BY <1>1, <2>3
    <3> QED
      BY <2>1, <3>1 DEF UpdateCore, BalancersChecked, Weighted, Stored
  <2> QED
    BY <2>2, <2>3
<1>8. FreshCopy'
  <2> SUFFICES ASSUME NEW d \in Calls, Applying(d)', call'[d].step = "save",
                      <<call'[d].name, call'[d].name>> \notin raced'
               PROVE  call'[d].found = store'[call'[d].name]
    BY DEF FreshCopy
  <2>1. d # c /\ call'[d] = call[d] /\ Applying(d) /\ call[d].name \in Resource
    BY <1>3 DEF Named
  <2>2. call[d].name # r
    BY <1>1, <2>1 DEF Recorded, Race, WriteRace
  <2> QED
    BY <1>1, <2>1, <2>2 DEF UpdateCore, FreshCopy
<1>9. WeightedOverStatic'
  <2> SUFFICES ASSUME NEW b \in Resource, NEW p \in store'[b].refs, Stored(b)',
                      store'[b].type = "weighted", Stored(p)', store'[p].type # "static"
               PROVE  <<b, p>> \in raced'
    BY DEF WeightedOverStatic
  <2>1. b \in Balancer /\ p \in Resource /\ b \in Referencers(p)
    BY <1>1, <1>4 DEF Kinded, WellFormed, Manifest
  <2>2. p \in Pool /\ p # b
    BY <2>1, OnlyBalancersNamePools, KindsAssumption
  <2>3. CASE b = r
    <3>1. store'[p] = store[p]
      BY <1>1, <2>1, <2>2, <2>3
    <3> QED
      BY <1>1, <1>2, <2>3, <3>1 DEF UpdateCore, PoolsChecked, Stored
  <2>4. CASE p = r
    <3>1. s.type = "dynamic" /\ store'[b] = store[b]
      BY <1>1, <1>5, <2>1, <2>2, <2>4
    <3> QED
      BY <1>1, <1>2, <2>4, <3>1 DEF UpdateCore, BalancersChecked, Weighted, Stored
  <2>5. CASE b # r /\ p # r
    <3>1. store'[b] = store[b] /\ store'[p] = store[p]
      BY <1>1, <2>1, <2>5
    <3> QED
      BY <3>1 DEF UpdateCore, WeightedOverStatic, Stored
  <2> QED
    BY <2>3, <2>4, <2>5
<1> QED
  BY <1>4, <1>6, <1>7, <1>8, <1>9 DEF UpdateCore

\* A removal takes nothing anyone relies on, except from a writer of the same
\* resource, which is on record.
LEMMA RemoveUpdateStep ==
  ASSUME UpdateInv, raced \subseteq raced', NEW c \in Calls, Remove(c)
  PROVE  UpdateCore'
<1> USE DEF UpdateInv, RaceInv
<1>1. PICK t : t = call[c].name
  OBVIOUS
<1>2. /\ Deleting(c) /\ t \in Resource /\ ~Stored(t)' /\ store'[t].type = "plain"
      /\ \A n \in Resource \ {t} : store'[n] = store[n]
  BY <1>1 DEF Remove, Named, TypeOK, Absent, With, Stored
<1>3. ~Applying(c)' /\ \A d \in Calls \ {c} : call'[d] = call[d]
  BY DoneKeeps DEF Remove
<1>4. ASSUME NEW d \in Calls, Applying(d)' PROVE d # c /\ call'[d] = call[d] /\ Applying(d)
  BY <1>3, <1>4 DEF Applying
<1>5. \A n \in Resource : Stored(n)' => Stored(n) /\ store'[n] = store[n]
  BY <1>2 DEF Stored
<1>6. Kinded'
  BY <1>2 DEF UpdateCore, Kinded
<1>7. PoolsChecked'
  BY <1>4, <1>5 DEF UpdateCore, PoolsChecked, PastCheck, WellFormed, Manifest
<1>8. BalancersChecked'
  BY <1>4, <1>5 DEF UpdateCore, BalancersChecked, PastCheck, Weighted
<1>9. FreshCopy'
  <2> SUFFICES ASSUME NEW d \in Calls, Applying(d)', call'[d].step = "save",
                      <<call'[d].name, call'[d].name>> \notin raced'
               PROVE  call'[d].found = store'[call'[d].name]
    BY DEF FreshCopy
  <2>1. d # c /\ call'[d] = call[d] /\ Applying(d) /\ call[d].name \in Resource
    BY <1>4 DEF Named
  <2>2. call[d].name # t
    BY <1>1, <1>2, <2>1 DEF Recorded, Race, WriteRace
  <2> QED
    BY <1>2, <2>1, <2>2 DEF UpdateCore, FreshCopy
<1>10. WeightedOverStatic'
  <2> SUFFICES ASSUME NEW b \in Resource, NEW p \in store'[b].refs, Stored(b)',
                      store'[b].type = "weighted", Stored(p)', store'[p].type # "static"
               PROVE  <<b, p>> \in raced'
    BY DEF WeightedOverStatic
  <2>1. Stored(b) /\ store'[b] = store[b] /\ p \in Resource
    BY <1>5 DEF WellFormed
  <2> QED
    BY <1>5, <2>1 DEF UpdateCore, WeightedOverStatic
<1> QED
  BY <1>6, <1>7, <1>8, <1>9, <1>10 DEF UpdateCore

\* In the database an earlier run left, weighted balancers stand over static pools.
LEMMA InitUpdateInv == RaceInit => UpdateInv
<1> SUFFICES ASSUME RaceInit PROVE UpdateInv
  OBVIOUS
<1>1. RaceInv
  BY InitRaceInv
<1>2. \A c \in Calls : ~Applying(c)
  <2>1. NoCall("idle").op = "idle"
    BY DEF NoCall
  <2> QED
    BY <2>1 DEF RaceInit, Init, Applying
<1>3. WeightedOverStatic
  BY DEF RaceInit, Init, WeightedOverStatic
<1>4. Kinded
  <2> SUFFICES ASSUME NEW n \in Resource, store[n].type = "weighted" PROVE n \in Balancer
    BY DEF Kinded
  <2>1. PICK x \in [Proxy -> Forms(ProxySpecs)], p \in [Pool -> Forms(PoolSpecs)],
             b \in [Balancer -> Forms(BalancerSpecs)],
             r \in [Router -> Forms(RouterSpecs)],
             f \in [Flow -> Forms(FlowSpecs)],
             e \in [Entrypoint -> Forms(EntrypointSpecs)] :
          store = [m \in Resource |-> CASE m \in Proxy      -> x[m]
                                        [] m \in Pool       -> p[m]
                                        [] m \in Balancer   -> b[m]
                                        [] m \in Router     -> r[m]
                                        [] m \in Flow       -> f[m]
                                        [] m \in Entrypoint -> e[m]]
    BY Zenon DEF RaceInit, Init
  <2>2. ASSUME NEW S, NEW y \in Forms(S), \A s \in S : Manifest(n, s), y.type = "weighted"
        PROVE  n \in Balancer
    <3>1. y # Absent
      BY <2>2 DEF Absent, With
    <3>2. PICK s \in S : y = [s EXCEPT !.created = Past]
      BY <2>2, <3>1 DEF Forms
    <3>3. s \in Content
      BY <2>2 DEF Manifest
    <3>4. y.type = s.type
      BY <3>2, <3>3 DEF Content
    <3> QED
      BY <2>2, <3>4 DEF Manifest
  <2>3. CASE n \in Proxy
    BY <2>1, <2>2, <2>3, SpecsAreManifests, KindsAssumption DEF Resource
  <2>4. CASE n \in Pool
    BY <2>1, <2>2, <2>4, SpecsAreManifests, KindsAssumption DEF Resource
  <2>5. CASE n \in Router
    BY <2>1, <2>2, <2>5, SpecsAreManifests, KindsAssumption DEF Resource
  <2>6. CASE n \in Flow
    BY <2>1, <2>2, <2>6, SpecsAreManifests, KindsAssumption DEF Resource
  <2>7. CASE n \in Entrypoint
    BY <2>1, <2>2, <2>7, SpecsAreManifests, KindsAssumption DEF Resource
  <2> QED
    BY <2>3, <2>4, <2>5, <2>6, <2>7 DEF Resource
<1> QED
  BY <1>1, <1>2, <1>3, <1>4
     DEF UpdateInv, UpdateCore, PoolsChecked, BalancersChecked, FreshCopy, PastCheck

\* Every step keeps it.
LEMMA NextUpdateInv == UpdateInv /\ [RaceNext]_raceVars => UpdateInv'
<1> SUFFICES ASSUME UpdateInv, [RaceNext]_raceVars PROVE UpdateInv'
  OBVIOUS
<1>1. RaceInv'
  BY NextRaceInv DEF UpdateInv
<1>2. CASE UNCHANGED raceVars
  <2>1. UNCHANGED <<store, call, raced>>
    BY <1>2 DEF raceVars, vars
  <2> QED
    BY <1>1, <2>1, PassingStep DEF UpdateInv, Passes
<1>3. CASE RaceNext
  <2>1. Next /\ raced \subseteq raced'
    BY <1>3, StepRecords DEF RaceNext
  <2>2. ASSUME \/ Crash
               \/ \E c \in Calls :
                    \/ \E r, s : StartApply(c, r, s)
                    \/ \E T : Require(c, T)
                    \/ \E t \in Resource : StartDelete(c, t)
                    \/ \E K, R \in SUBSET Resource : ListDependents(c, K, R)
                    \/ StoreError(c)
        PROVE  UpdateCore'
    BY <2>1, <2>2, OtherStepsPass, PassingStep
  <2>3. UpdateCore'
    BY <2>1, <2>2, NextShapes, CheckTypeStep, FindExistingStep, SaveUpdateStep,
       RemoveUpdateStep, Zenon
  <2> QED
    BY <1>1, <2>3 DEF UpdateInv
<1> QED
  BY <1>2, <1>3

\* balancer.go:45-53 and pool.go:41-45: for any number of concurrent applies and
\* deletes, a weighted balancer stands over a dynamic pool only by a race on
\* that pair.
THEOREM WeightedNeedsStatic == RaceSpec => []WeightedOverStatic
<1>1. UpdateInv => WeightedOverStatic
  BY DEF UpdateInv, UpdateCore
<1> QED
  BY <1>1, InitUpdateInv, NextUpdateInv, PTL DEF RaceSpec

\* A step that changes a stored resource, and leaves it stored, is the save of
\* an apply that read it.
LEMMA UpdatesAreSaves ==
  ASSUME UpdateInv, RaceNext, NEW r \in Resource, Stored(r), Stored(r)',
         store'[r] # store[r], <<r, r>> \notin raced
  PROVE  \E c \in Calls :
           /\ Applying(c) /\ call[c].name = r
           /\ store'[r].created = store[r].created
           /\ store'[r].auth = ResolveAuth(call[c].want, store[r])
<1> USE DEF UpdateInv, RaceInv
<1>1. ~UNCHANGED store
  OBVIOUS
<1>2. ASSUME NEW c \in Calls, Remove(c) PROVE FALSE
  <2>1. PICK t : t = call[c].name
    OBVIOUS
  <2>2. /\ t \in Resource /\ ~Stored(t)' /\ \A n \in Resource \ {t} : store'[n] = store[n]
    BY <1>2, <2>1 DEF Remove, Named, TypeOK, Absent, With, Stored
  <2> QED
    BY <2>2
<1>3. \E c \in Calls : Save(c)
  <2>1. Next
    BY DEF RaceNext
  <2>2. ASSUME \/ Crash
               \/ \E c \in Calls :
                    \/ \E q, s : StartApply(c, q, s)
                    \/ \E T : Require(c, T)
                    \/ \E t \in Resource : StartDelete(c, t)
                    \/ \E K, R \in SUBSET Resource : ListDependents(c, K, R)
                    \/ StoreError(c)
        PROVE  FALSE
    BY <1>1, <2>2, OtherStepsPass
  <2>3. ASSUME NEW c \in Calls, CheckType(c) \/ FindExisting(c) PROVE FALSE
    BY <1>1, <2>3 DEF CheckType, FindExisting
  <2> QED
    BY <1>2, <2>1, <2>2, <2>3, NextShapes, Zenon
<1>4. PICK c \in Calls : Save(c)
  BY <1>3
<1>5. PICK q \in Resource, s \in Content, h \in Held :
        /\ q = call[c].name /\ s = call[c].want /\ h = call[c].found
        /\ Applying(c) /\ call[c].step = "save"
        /\ \A n \in Resource \ {q} : store'[n] = store[n]
        /\ store'[q].created \in ResolveCreatedAt(h)
        /\ store'[q].auth = ResolveAuth(s, h)
  BY <1>4, SaveEffect
<1>6. q = r
  BY <1>5
<1>7. h = store[r]
  BY <1>5, <1>6 DEF UpdateCore, FreshCopy
<1> QED
  BY <1>5, <1>6, <1>7 DEF ResolveCreatedAt, Stored

\* timestamps.go:10-11: an apply over a stored resource keeps its CreatedAt,
\* unless another writer of it was in flight.
THEOREM UpdatesKeepIdentity == RaceSpec => IdentitySurvivesUpdate
<1>1. UpdateInv /\ [RaceNext]_raceVars =>
        [\A r \in Resource :
           Stored(r) /\ Stored(r)' /\ <<r, r>> \notin raced
             => store'[r].created = store[r].created]_raceVars
  BY UpdatesAreSaves
<1> QED
  BY <1>1, InitUpdateInv, NextUpdateInv, PTL DEF RaceSpec, IdentitySurvivesUpdate

\* proxy.go:41-52: credentials change only to what an apply of that proxy asks
\* for, unless another writer of it was in flight.
THEOREM UpdatesKeepCredentials == RaceSpec => CredentialsSurviveUpdate
<1>1. ASSUME UpdateInv, RaceNext, NEW r \in Proxy, Stored(r), Stored(r)', <<r, r>> \notin raced,
             store'[r].auth # store[r].auth
      PROVE  \E c \in Calls : /\ Applying(c) /\ call[c].name = r
                              /\ call[c].want.auth = store'[r].auth
  <2>1. r \in Resource /\ store'[r] # store[r]
    BY <1>1 DEF Resource
  <2> QED
    BY <1>1, <2>1, UpdatesAreSaves DEF ResolveAuth
<1>2. UpdateInv /\ [RaceNext]_raceVars =>
        [\A r \in Proxy :
           Stored(r) /\ Stored(r)' /\ <<r, r>> \notin raced
           /\ store'[r].auth # store[r].auth
             => \E c \in Calls : /\ Applying(c) /\ call[c].name = r
                                 /\ call[c].want.auth = store'[r].auth]_raceVars
  BY <1>1
<1> QED
  BY <1>2, InitUpdateInv, NextUpdateInv, PTL DEF RaceSpec, CredentialsSurviveUpdate
=============================================================================
