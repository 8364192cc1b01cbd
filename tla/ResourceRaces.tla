--------------------------- MODULE ResourceRaces ---------------------------
(***************************************************************************)
(* What the resource API guarantees when calls do race.  Each guarantee    *)
(* is about a pair of resources and holds unless two calls on that very    *)
(* pair have been in flight at the same time; raced records those pairs.   *)
(***************************************************************************)
EXTENDS Resources

VARIABLE raced   \* history: pairs whose calls have overlapped

raceVars == <<vars, raced>>

\* An apply that names t, running beside a delete of t.
OrphanRace(c, d) ==
  Applying(c) /\ Deleting(d) /\ call[d].name \in call[c].want.refs

\* A weighted balancer applied beside an apply that makes its pool dynamic.
TypeRace(c, d) ==
  /\ Applying(c) /\ call[c].want.type = "weighted"
  /\ Applying(d) /\ call[d].want.type = "dynamic"
  /\ call[d].name \in call[c].want.refs

\* An apply beside another call that writes the same resource.
WriteRace(c, d) ==
  /\ c # d /\ Applying(c) /\ (Applying(d) \/ Deleting(d))
  /\ call[c].name = call[d].name

Race(c, d) == OrphanRace(c, d) \/ TypeRace(c, d) \/ WriteRace(c, d)

Overlaps == {<<call[p[1]].name, call[p[2]].name>> :
               p \in {q \in Calls \X Calls : Race(q[1], q[2])}}

RaceInit == Init /\ raced = {}
RaceNext == Next /\ raced' = raced \cup Overlaps'

RaceSpec == RaceInit /\ [][RaceNext]_raceVars

-----------------------------------------------------------------------------
\* errors.go:16, "ResourceInUseError is returned when Delete* would orphan
\* reverse references": whatever the order of calls, failures and crashes, a
\* stored reference points at nothing only if the call that wrote it and a
\* delete of its target were in flight together.
DanglingOnlyByRace ==
  \A r \in Resource : \A t \in store[r].refs :
    Stored(r) /\ ~Stored(t) => <<r, t>> \in raced

\* balancer.go:45-53 and pool.go:41-45: a weighted balancer stands over a
\* dynamic pool only if the two applies, or its apply and a delete of the
\* pool, were in flight together.
WeightedOverStatic ==
  \A b \in Resource : \A p \in store[b].refs :
    Stored(b) /\ store[b].type = "weighted" /\ Stored(p) /\ store[p].type # "static"
      => <<b, p>> \in raced

\* timestamps.go:10-11: an apply over a stored resource keeps its CreatedAt,
\* unless another writer of that resource was in flight with it.
IdentitySurvivesUpdate ==
  [][\A r \in Resource :
       Stored(r) /\ Stored(r)' /\ <<r, r>> \notin raced
         => store'[r].created = store[r].created]_raceVars

\* proxy.go:41-52, "preserve auth on update when manual apply omits auth": a
\* proxy that is applied again without auth keeps its credentials, unless
\* another writer of that proxy was in flight with it.
CredentialsSurviveUpdate ==
  [][\A r \in Proxy :
       Stored(r) /\ Stored(r)' /\ <<r, r>> \notin raced
       /\ store'[r].auth # store[r].auth
         => \E c \in Calls : /\ Applying(c) /\ call[c].name = r
                             /\ call[c].want.auth = store'[r].auth]_raceVars
=============================================================================
