------------------------- MODULE RequestPathProofs -------------------------
(***************************************************************************)
(* Proofs about the three stages of the request path: Serving for any      *)
(* loaders and configurations, Balancing for any pool, weights and         *)
(* requests, Transport for any proxies, senders, TTL and clock bound.      *)
(***************************************************************************)
EXTENDS Balancing, Serving, Transport, FiniteSetTheorems, SequenceTheorems, TLAPS

-----------------------------------------------------------------------------
(***************************************************************************)
(* Transport.                                                              *)
(***************************************************************************)

\* A request on its way upstream, by the step it is at.  A lookup starts before
\* it is answered, and an answer is given before it is stored.
SendOK(x) ==
  /\ x.pc = "transport" => x.rec \in Records
  /\ x.pc \in {"dial", "lookup", "store"} => x.host \in Hosts
  /\ x.pc = "lookup" => x.start <= now
  /\ x.pc = "store" => x.start <= x.answered /\ x.answered <= now
  /\ x.pc = "connect" /\ x.hit => x.start - x.answered < TTL

\* No cached answer outlives its time, counted from when it was given.
EntryOK(e) ==
  e # NoEntry => /\ e.answered \in Nat /\ e.expires \in Nat
                 /\ e.expires <= e.answered + TTL

SendRecord == [pc : {"idle", "transport", "dial", "lookup", "store", "connect"},
               rec : Records \cup {NoEntry}, host : Hosts \cup {""},
               start : Nat, answered : Nat, hit : BOOLEAN]

TransportInv ==
  /\ now \in Nat
  /\ transports \in [Ids -> Hosts \cup {NoEntry}]
  /\ dns = [h \in Hosts |-> dns[h]]
  /\ \A h \in Hosts : EntryOK(dns[h])
  /\ send \in [Sends -> SendRecord]
  /\ \A s \in Sends : SendOK(send[s])

\* Nothing is under way at first.
LEMMA TransportInitInv == TransportInit => TransportInv
<1> SUFFICES ASSUME TransportInit PROVE TransportInv
  OBVIOUS
<1>1. Unsent \in SendRecord /\ SendOK(Unsent)
  BY DEF Unsent, SendRecord, SendOK
<1>2. \A s \in Sends : SendOK(send[s])
  BY <1>1 DEF TransportInit
<1> QED
  BY <1>1, <1>2 DEF TransportInit, TransportInv, EntryOK

\* A record's id and host are known.
LEMMA RecordKnown == \A rec \in Records : rec.id \in Ids /\ rec.host \in Hosts /\ rec.host # NoEntry
  BY TransportAssumption DEF Ids, Hosts

\* A step that only moves one request keeps the invariant if it leaves the
\* request in order.
LEMMA OneSendMoves ==
  ASSUME TransportInv, NEW s \in Sends, NEW x \in SendRecord, SendOK(x),
         send' = [send EXCEPT ![s] = x], UNCHANGED <<now, transports, dns>>
  PROVE  TransportInv'
<1>1. send' \in [Sends -> SendRecord]
  BY DEF TransportInv
<1>2. \A r \in Sends : SendOK(send[r])'
  BY DEF TransportInv, SendOK
<1> QED
  BY <1>1, <1>2 DEF TransportInv, EntryOK

\* TransportInv is inductive.
LEMMA TransportStep == TransportInv /\ [TransportNext]_transportVars => TransportInv'
<1> SUFFICES ASSUME TransportInv, [TransportNext]_transportVars PROVE TransportInv'
  OBVIOUS
<1>0. /\ \A s \in Sends : send[s] \in SendRecord /\ SendOK(send[s])
      /\ now \in Nat /\ TTL \in Nat
  BY TransportAssumption DEF TransportInv
<1>1. CASE Tick
  <2>1. now' \in Nat /\ now <= now' /\ UNCHANGED <<transports, dns, send>>
    BY <1>0, <1>1 DEF Tick
  <2>2. \A s \in Sends : SendOK(send[s])'
    <3> SUFFICES ASSUME NEW s \in Sends PROVE SendOK(send[s])'
      OBVIOUS
    <3>1. /\ send'[s] = send[s] /\ SendOK(send[s])
          /\ send[s].start \in Nat /\ send[s].answered \in Nat
      BY <1>0, <2>1 DEF SendRecord
    <3> QED
      BY <1>0, <2>1, <3>1 DEF SendOK
  <2> QED
    BY <2>1, <2>2 DEF TransportInv, EntryOK
<1>2. ASSUME NEW s \in Sends, NEW rec \in Records, NEW connect \in BOOLEAN,
             Picked(s, rec, connect)
      PROVE  TransportInv'
  <2> DEFINE x == IF connect THEN [Unsent EXCEPT !.pc = "dial", !.host = rec.host]
                  ELSE [Unsent EXCEPT !.pc = "transport", !.rec = rec]
  <2>1. x \in SendRecord /\ SendOK(x)
    BY RecordKnown DEF Unsent, SendRecord, SendOK
  <2>2. send' = [send EXCEPT ![s] = x] /\ UNCHANGED <<now, transports, dns>>
    BY <1>2 DEF Picked
  <2> HIDE DEF x
  <2> QED
    BY <2>1, <2>2, OneSendMoves
<1>3. ASSUME NEW s \in Sends, RoundTrip(s) PROVE TransportInv'
  <2>1. PICK rec \in Records : rec = send[s].rec
    BY <1>0, <1>3 DEF RoundTrip, SendOK
  <2>2. PICK host \in Hosts :
          /\ host = IF transports[rec.id] = NoEntry THEN rec.host ELSE transports[rec.id]
          /\ host # NoEntry
    BY RecordKnown DEF TransportInv
  <2>3. /\ transports' = [transports EXCEPT ![rec.id] = host]
        /\ UNCHANGED <<now, dns>>
    BY <1>3, <2>1, <2>2 DEF RoundTrip, LoadOrStore
  <2>4. PICK idle \in BOOLEAN :
          send' = [send EXCEPT ![s] = IF idle THEN Unsent
                                      ELSE [Unsent EXCEPT !.pc = "dial", !.host = host]]
    BY <1>3, <2>1, <2>2 DEF RoundTrip, LoadOrStore
  <2>5. transports' \in [Ids -> Hosts \cup {NoEntry}]
    BY <2>2, <2>3 DEF TransportInv
  <2>6. Unsent \in SendRecord /\ [Unsent EXCEPT !.pc = "dial", !.host = host] \in SendRecord
    BY <2>2 DEF Unsent, SendRecord
  <2>7. SendOK(Unsent)' /\ SendOK([Unsent EXCEPT !.pc = "dial", !.host = host])'
    BY DEF Unsent, SendOK
  <2>8. send' \in [Sends -> SendRecord]
    BY <2>4, <2>6 DEF TransportInv
  <2>9. \A r \in Sends : SendOK(send[r])'
    BY <1>0, <2>3, <2>4, <2>7 DEF TransportInv, SendOK
  <2> QED
    BY <2>3, <2>5, <2>8, <2>9 DEF TransportInv, EntryOK
<1>4. ASSUME NEW s \in Sends, DialWithDNSCache(s) PROVE TransportInv'
  <2> DEFINE e == dns[send[s].host]
             literal == send[s].host \in Literals
             fresh == e # NoEntry /\ now < e.expires
             hit == [Unsent EXCEPT !.pc = "connect", !.start = now, !.answered = e.answered,
                                   !.hit = TRUE]
             miss == [send[s] EXCEPT !.pc = "lookup", !.start = now]
  <2>1. send[s].host \in Hosts /\ EntryOK(e)
    BY <1>0, <1>4 DEF DialWithDNSCache, SendOK, TransportInv
  <2>2. CASE literal
    <3>1. send' = [send EXCEPT ![s] = [Unsent EXCEPT !.pc = "connect"]]
      BY <1>4, <2>2 DEF DialWithDNSCache
    <3>2. [Unsent EXCEPT !.pc = "connect"] \in SendRecord /\ SendOK([Unsent EXCEPT !.pc = "connect"])
      BY DEF Unsent, SendRecord, SendOK
    <3> QED
      BY <1>4, <3>1, <3>2, OneSendMoves DEF DialWithDNSCache
  <2>3. CASE ~literal /\ fresh
    <3>1. send' = [send EXCEPT ![s] = hit]
      BY <1>4, <2>3 DEF DialWithDNSCache
    <3>2. hit \in SendRecord /\ SendOK(hit)
      <4>1. /\ e.answered \in Nat /\ now - e.answered < TTL
        BY <1>0, <2>1, <2>3 DEF EntryOK
      <4>2. hit \in SendRecord
        BY <1>0, <4>1 DEF Unsent, SendRecord
      <4>3. hit.pc = "connect" /\ hit.start = now /\ hit.answered = e.answered
        BY DEF Unsent
      <4> QED
        BY <4>1, <4>2, <4>3 DEF SendOK
    <3> QED
      BY <1>4, <3>1, <3>2, OneSendMoves DEF DialWithDNSCache
  <2>4. CASE ~literal /\ ~fresh
    <3>1. send' = [send EXCEPT ![s] = miss]
      BY <1>4, <2>4 DEF DialWithDNSCache
    <3>2. miss \in SendRecord /\ SendOK(miss)
      <4>1. miss \in SendRecord
        BY <1>0 DEF SendRecord
      <4>2. miss.pc = "lookup" /\ miss.start = now /\ miss.host = send[s].host
        BY <1>0 DEF SendRecord
      <4> QED
        BY <1>0, <2>1, <4>1, <4>2 DEF SendOK
    <3> QED
      BY <1>4, <3>1, <3>2, OneSendMoves DEF DialWithDNSCache
  <2> QED
    BY <2>2, <2>3, <2>4
<1>5. ASSUME NEW s \in Sends, LookupAnswered(s) PROVE TransportInv'
  <2> DEFINE x == [send[s] EXCEPT !.pc = "store", !.answered = now]
  <2>1. send' = [send EXCEPT ![s] = x]
    BY <1>0, <1>5 DEF LookupAnswered, TransportInv, SendRecord
  <2>2. x \in SendRecord /\ SendOK(x)
    <3>1. x \in SendRecord
      BY <1>0 DEF SendRecord
    <3>2. /\ x.pc = "store" /\ x.start = send[s].start /\ x.answered = now
          /\ x.host = send[s].host
      BY <1>0 DEF SendRecord
    <3>3. send[s].start <= now /\ send[s].host \in Hosts
      BY <1>0, <1>5 DEF LookupAnswered, SendOK
    <3> QED
      BY <1>0, <3>1, <3>2, <3>3 DEF SendOK
  <2> QED
    BY <1>5, <2>1, <2>2, OneSendMoves DEF LookupAnswered
<1>6. ASSUME NEW s \in Sends, LookupFails(s) \/ Connect(s) PROVE TransportInv'
  <2>1. Unsent \in SendRecord /\ SendOK(Unsent)
    BY DEF Unsent, SendRecord, SendOK
  <2> QED
    BY <1>6, <2>1, OneSendMoves DEF LookupFails, Connect
<1>7. ASSUME NEW s \in Sends, StoreAnswer(s) PROVE TransportInv'
  <2> DEFINE x == [Unsent EXCEPT !.pc = "connect"]
             e == [answered |-> send[s].answered, expires |-> ExpiresAt(send[s])]
  <2>1. send[s].host \in Hosts /\ EntryOK(e)
    <3>1. /\ send[s].start \in Nat /\ send[s].answered \in Nat
          /\ send[s].start <= send[s].answered /\ send[s].host \in Hosts
      BY <1>0, <1>7 DEF StoreAnswer, SendOK, SendRecord
    <3>2. e.answered = send[s].answered /\ e.expires = send[s].start + TTL
      BY DEF ExpiresAt
    <3> QED
      BY <1>0, <3>1, <3>2 DEF EntryOK
  <2>2. x \in SendRecord /\ SendOK(x)'
    BY DEF Unsent, SendRecord, SendOK
  <2>3. /\ dns' = [dns EXCEPT ![send[s].host] = e] /\ send' = [send EXCEPT ![s] = x]
        /\ UNCHANGED <<now, transports>>
    BY <1>7 DEF StoreAnswer
  <2> HIDE DEF x, e
  <2>4. dns' = [h \in Hosts |-> dns'[h]] /\ \A h \in Hosts : EntryOK(dns[h])'
    BY <2>1, <2>3 DEF TransportInv, EntryOK
  <2>5. send' \in [Sends -> SendRecord] /\ \A r \in Sends : SendOK(send[r])'
    BY <1>0, <2>2, <2>3 DEF TransportInv, SendOK
  <2> QED
    BY <2>3, <2>4, <2>5 DEF TransportInv
<1>8. CASE UNCHANGED transportVars
  BY <1>8 DEF transportVars, TransportInv, SendOK, EntryOK
<1> QED
  BY <1>1, <1>2, <1>3, <1>4, <1>5, <1>6, <1>7, <1>8 DEF TransportNext

\* TransportInv holds throughout.
LEMMA TransportInvHolds == TransportSpec => []TransportInv
  BY TransportInitInv, TransportStep, PTL DEF TransportSpec

\* dns_cache.go:45-69: whatever the TTL and however slow lookups are, an address
\* taken from the cache is the resolver's answer of less than a TTL ago.
THEOREM CachedAddressIsFresh == TransportSpec => []AddressFresh
<1>1. TransportInv => AddressFresh
  BY DEF TransportInv, AddressFresh, SendOK
<1> QED
  BY TransportInvHolds, <1>1, PTL

-----------------------------------------------------------------------------
(***************************************************************************)
(* Balancing: induction over numbers and finite sets, sums and the first of *)
(* the best members.                                                       *)
(***************************************************************************)

\* Induction, for a set of naturals.
LEMMA NatClosed ==
  ASSUME NEW A, 0 \in A, \A n \in Nat : n \in A => n + 1 \in A
  PROVE  Nat \subseteq A
<1> SUFFICES ASSUME NEW n \in Nat, n \notin A PROVE FALSE
  OBVIOUS
<1> DEFINE B == A \cap (0..n)
<1> DEFINE f == [x \in B |-> x + 1]
<1>1. IsFiniteSet(B) /\ Cardinality(B) \in Nat
  <2>1. IsFiniteSet(0..n) /\ B \in SUBSET (0..n)
    BY FS_Interval
  <2> QED
    BY <2>1, FS_Subset, FS_CardinalityType
<1>2. 0 \in B
  OBVIOUS
<1>3. IsFiniteSet(B \ {0}) /\ Cardinality(B \ {0}) = Cardinality(B) - 1
  BY <1>1, <1>2, FS_RemoveElement
<1>4. f \in Injection(B, B \ {0})
  BY DEF Injection, IsInjective
<1>5. Cardinality(B) <= Cardinality(B \ {0})
  <2> HIDE DEF B, f
  <2> QED
    BY <1>3, <1>4, FS_Injection
<1> QED
  BY <1>1, <1>3, <1>5

\* A sum over s, by a function g that knows the sums over smaller sets.
SumStep(f, g, s) ==
  IF s = {} THEN 0 ELSE f[CHOOSE x \in s : TRUE] + g[s \ {CHOOSE x \in s : TRUE}]
SumIter(f, S, g) == g = [s \in SUBSET S |-> SumStep(f, g, s)]

\* The library defines a sum by choosing a recursive function over the subsets.
LEMMA SumIs ==
  ASSUME NEW f, NEW S
  PROVE  SumOver(f, S) = (CHOOSE h : SumIter(f, S, h))[S]
BY DEF SumOver, MapThenSumSet, MapThenFoldSet, SumIter, SumStep

\* An element less.
LEMMA Shrinks ==
  ASSUME NEW s, IsFiniteSet(s), NEW x \in s
  PROVE  /\ IsFiniteSet(s \ {x}) /\ Cardinality(s \ {x}) = Cardinality(s) - 1
         /\ Cardinality(s) \in Nat /\ Cardinality(s) > 0
<1>1. IsFiniteSet(s \ {x}) /\ Cardinality(s \ {x}) = Cardinality(s) - 1
  BY FS_RemoveElement
<1>2. Cardinality(s) \in Nat /\ Cardinality(s \ {x}) \in Nat
  BY <1>1, FS_CardinalityType
<1> QED
  BY <1>1, <1>2

\* There is such a function, built up by the size of the subsets.
LEMMA SumIterExists ==
  ASSUME NEW f, NEW S, IsFiniteSet(S)
  PROVE  \E g : SumIter(f, S, g)
<1> DEFINE OK(g, n) == \A s \in SUBSET S : Cardinality(s) <= n => g[s] = SumStep(f, g, s)
<1> DEFINE A == {n \in Nat : \E g : OK(g, n)}
<1>1. \A s \in SUBSET S : IsFiniteSet(s) /\ Cardinality(s) \in Nat
  BY FS_Subset, FS_CardinalityType
<1>2. \A s \in SUBSET S : s # {} =>
        LET x == CHOOSE x \in s : TRUE IN
        x \in s /\ s \ {x} \in SUBSET S /\ Cardinality(s \ {x}) = Cardinality(s) - 1
  BY <1>1, Shrinks
<1>3. 0 \in A
  <2> DEFINE g == [s \in SUBSET S |-> 0]
  <2>1. ASSUME NEW s \in SUBSET S, Cardinality(s) <= 0 PROVE g[s] = SumStep(f, g, s)
    <3>1. s = {}
      BY <1>1, <2>1, FS_EmptySet
    <3> QED
      BY <3>1 DEF SumStep
  <2>2. OK(g, 0)
    BY <2>1
  <2> HIDE DEF g, OK
  <2> QED
    BY <2>2
<1>4. ASSUME NEW n \in Nat, n \in A PROVE n + 1 \in A
  <2>1. PICK g : OK(g, n)
    BY <1>4
  <2> DEFINE h == [s \in SUBSET S |-> SumStep(f, g, s)]
  <2>2. ASSUME NEW s \in SUBSET S, Cardinality(s) <= n + 1 PROVE h[s] = SumStep(f, h, s)
    <3>1. CASE s = {}
      BY <3>1 DEF SumStep
    <3>2. CASE s # {}
      <4> DEFINE x == CHOOSE x \in s : TRUE
      <4>1. s \ {x} \in SUBSET S /\ Cardinality(s \ {x}) <= n
        BY <1>1, <1>2, <2>2, <3>2
      <4>2. g[s \ {x}] = SumStep(f, g, s \ {x})
        BY <2>1, <4>1
      <4>3. h[s \ {x}] = g[s \ {x}]
        BY <4>1, <4>2
      <4>4. h[s] = SumStep(f, g, s)
        OBVIOUS
      <4> HIDE DEF h
      <4> QED
        BY <3>2, <4>3, <4>4 DEF SumStep
    <3> QED
      BY <3>1, <3>2
  <2>3. OK(h, n + 1)
    BY <2>2
  <2> HIDE DEF h, OK
  <2> QED
    BY <2>3
<1>5. Cardinality(S) \in A
  <2> HIDE DEF A
  <2> QED
    BY <1>1, <1>3, <1>4, NatClosed
<1>6. PICK g : OK(g, Cardinality(S))
  BY <1>5
<1>7. \A s \in SUBSET S : g[s] = SumStep(f, g, s)
  BY <1>6, FS_Subset
<1> DEFINE h == [s \in SUBSET S |-> g[s]]
<1>8. \A s \in SUBSET S : SumStep(f, g, s) = SumStep(f, h, s)
  BY DEF SumStep
<1>9. SumIter(f, S, h)
  BY <1>7, <1>8 DEF SumIter
<1> QED
  BY <1>9

\* Any two agree, whatever the sets they are defined over.
LEMMA SumIterUnique ==
  ASSUME NEW f, NEW S, IsFiniteSet(S), NEW T \in SUBSET S, NEW g, SumIter(f, S, g),
         NEW h, SumIter(f, T, h)
  PROVE  g[T] = h[T]
<1> DEFINE A == {n \in Nat : \A s \in SUBSET T : Cardinality(s) = n => g[s] = h[s]}
<1>1. \A s \in SUBSET T : IsFiniteSet(s) /\ Cardinality(s) \in Nat
  BY FS_Subset, FS_CardinalityType
<1>2. \A s \in SUBSET T : s # {} =>
        LET x == CHOOSE x \in s : TRUE IN
        x \in s /\ s \ {x} \in SUBSET T /\ Cardinality(s \ {x}) = Cardinality(s) - 1
  BY <1>1, Shrinks
<1>3. \A s \in SUBSET T : g[s] = SumStep(f, g, s) /\ h[s] = SumStep(f, h, s)
  BY DEF SumIter
<1>4. 0 \in A
  BY <1>1, <1>3, FS_EmptySet DEF SumStep
<1>5. ASSUME NEW n \in Nat, n \in A PROVE n + 1 \in A
  <2> SUFFICES ASSUME NEW s \in SUBSET T, Cardinality(s) = n + 1 PROVE g[s] = h[s]
    OBVIOUS
  <2>1. s # {}
    BY FS_EmptySet
  <2> DEFINE x == CHOOSE x \in s : TRUE
  <2>2. s \ {x} \in SUBSET T /\ Cardinality(s \ {x}) = n
    BY <1>2, <2>1
  <2>3. g[s \ {x}] = h[s \ {x}]
    BY <1>5, <2>2
  <2> QED
    BY <1>3, <2>1, <2>3 DEF SumStep
<1>6. Cardinality(T) \in A
  <2> HIDE DEF A
  <2> QED
    BY <1>1, <1>4, <1>5, NatClosed
<1> QED
  BY <1>6

\* A sum over nothing.
LEMMA SumEmpty ==
  ASSUME NEW f
  PROVE  SumOver(f, {}) = 0
<1>1. \E g : SumIter(f, {}, g)
  BY SumIterExists, FS_EmptySet
<1>2. SumIter(f, {}, CHOOSE h : SumIter(f, {}, h))
  BY <1>1
<1> QED
  BY <1>2, SumIs DEF SumIter, SumStep

\* The element the definition takes out of a set first.
LEMMA SumChosen ==
  ASSUME NEW f, NEW S, IsFiniteSet(S), S # {}
  PROVE  LET x == CHOOSE x \in S : TRUE IN SumOver(f, S) = f[x] + SumOver(f, S \ {x})
<1> DEFINE x == CHOOSE e \in S : TRUE
<1> DEFINE g == CHOOSE k : SumIter(f, S, k)
<1> DEFINE h == CHOOSE k : SumIter(f, S \ {x}, k)
<1>1. IsFiniteSet(S \ {x})
  BY Shrinks
<1>2. SumIter(f, S, g)
  BY SumIterExists
<1>3. SumIter(f, S \ {x}, h)
  BY <1>1, SumIterExists
<1>4. SumOver(f, S) = g[S] /\ SumOver(f, S \ {x}) = h[S \ {x}]
  BY SumIs
<1>5. g[S] = SumStep(f, g, S)
  <2> HIDE DEF g
  <2> QED
    BY <1>2 DEF SumIter
<1>6. g[S \ {x}] = h[S \ {x}]
  <2> HIDE DEF g, h, x
  <2> QED
    BY <1>2, <1>3, SumIterUnique
<1> HIDE DEF g, h
<1> QED
  BY <1>4, <1>5, <1>6 DEF SumStep

\* Induction over the subsets of a finite set.
LEMMA FiniteInduction ==
  ASSUME NEW S, IsFiniteSet(S), NEW Q, {} \in Q,
         \A T \in SUBSET S : \A x \in S \ T : T \in Q => T \cup {x} \in Q
  PROVE  S \in Q
<1> DEFINE A == {n \in Nat : \A T \in SUBSET S : Cardinality(T) = n => T \in Q}
<1>1. \A T \in SUBSET S : IsFiniteSet(T) /\ Cardinality(T) \in Nat
  BY FS_Subset, FS_CardinalityType
<1>2. 0 \in A
  BY <1>1, FS_EmptySet
<1>3. ASSUME NEW n \in Nat, n \in A PROVE n + 1 \in A
  <2> SUFFICES ASSUME NEW T \in SUBSET S, Cardinality(T) = n + 1 PROVE T \in Q
    OBVIOUS
  <2>1. PICK x : x \in T
    BY <1>1, FS_EmptySet
  <2>2. T \ {x} \in SUBSET S /\ Cardinality(T \ {x}) = n /\ x \in S \ (T \ {x})
    BY <1>1, <2>1, Shrinks
  <2>3. T \ {x} \in Q
    BY <1>3, <2>2
  <2>4. T = (T \ {x}) \cup {x}
    BY <2>1
  <2> QED
    BY <2>2, <2>3, <2>4
<1>4. Cardinality(S) \in A
  <2> HIDE DEF A
  <2> QED
    BY <1>1, <1>2, <1>3, NatClosed
<1> QED
  BY <1>4

\* A sum of integers is one.
LEMMA SumInt ==
  ASSUME NEW f, NEW S, IsFiniteSet(S), \A i \in S : f[i] \in Int
  PROVE  SumOver(f, S) \in Int
<1> DEFINE A == {n \in Nat : \A T \in SUBSET S : Cardinality(T) = n => SumOver(f, T) \in Int}
<1>1. \A T \in SUBSET S : IsFiniteSet(T) /\ Cardinality(T) \in Nat
  BY FS_Subset, FS_CardinalityType
<1>2. 0 \in A
  BY <1>1, FS_EmptySet, SumEmpty
<1>3. ASSUME NEW n \in Nat, n \in A PROVE n + 1 \in A
  <2> SUFFICES ASSUME NEW T \in SUBSET S, Cardinality(T) = n + 1 PROVE SumOver(f, T) \in Int
    OBVIOUS
  <2>1. T # {} /\ IsFiniteSet(T)
    BY <1>1, FS_EmptySet
  <2>2. PICK c \in T : SumOver(f, T) = f[c] + SumOver(f, T \ {c})
    BY <2>1, SumChosen
  <2>3. T \ {c} \in SUBSET S /\ Cardinality(T \ {c}) = n
    BY <2>1, Shrinks
  <2> QED
    BY <1>3, <2>2, <2>3
<1>4. Cardinality(S) \in A
  <2> HIDE DEF A
  <2> QED
    BY <1>1, <1>2, <1>3, NatClosed
<1> QED
  BY <1>4

\* Any element can be taken out of a sum first.
LEMMA SumRemove ==
  ASSUME NEW f, NEW S, IsFiniteSet(S), \A i \in S : f[i] \in Int
  PROVE  \A x \in S : SumOver(f, S) = f[x] + SumOver(f, S \ {x})
<1> DEFINE P(T) == \A x \in T : SumOver(f, T) = f[x] + SumOver(f, T \ {x})
<1> DEFINE A == {n \in Nat : \A T \in SUBSET S : Cardinality(T) = n => P(T)}
<1>1. \A T \in SUBSET S : IsFiniteSet(T) /\ Cardinality(T) \in Nat /\ SumOver(f, T) \in Int
  BY FS_Subset, FS_CardinalityType, SumInt
<1>2. 0 \in A
  BY <1>1, FS_EmptySet
<1>3. ASSUME NEW n \in Nat, n \in A PROVE n + 1 \in A
  <2> SUFFICES ASSUME NEW T \in SUBSET S, Cardinality(T) = n + 1, NEW x \in T
               PROVE  SumOver(f, T) = f[x] + SumOver(f, T \ {x})
    OBVIOUS
  <2>1. T # {} /\ IsFiniteSet(T)
    BY <1>1
  <2>2. \A y \in T : T \ {y} \in SUBSET S /\ Cardinality(T \ {y}) = n
    BY <2>1, Shrinks
  <2>3. \A y \in T : P(T \ {y})
    BY <1>3, <2>2
  <2>4. PICK c \in T : SumOver(f, T) = f[c] + SumOver(f, T \ {c})
    BY <2>1, SumChosen
  <2>5. CASE x = c
    BY <2>4, <2>5
  <2>6. CASE x # c
    <3>1. SumOver(f, T \ {c}) = f[x] + SumOver(f, (T \ {c}) \ {x})
      BY <2>3, <2>6
    <3>2. SumOver(f, T \ {x}) = f[c] + SumOver(f, (T \ {x}) \ {c})
      BY <2>3, <2>6
    <3>3. SumOver(f, (T \ {x}) \ {c}) = SumOver(f, (T \ {c}) \ {x})
      <4>1. (T \ {c}) \ {x} = (T \ {x}) \ {c}
        OBVIOUS
      <4> QED
        BY <4>1
    <3>4. SumOver(f, (T \ {c}) \ {x}) \in Int /\ f[x] \in Int /\ f[c] \in Int
      BY <1>1
    <3> QED
      BY <2>4, <3>1, <3>2, <3>3, <3>4
  <2> QED
    BY <2>5, <2>6
<1>4. Cardinality(S) \in A
  <2> HIDE DEF A
  <2> QED
    BY <1>1, <1>2, <1>3, NatClosed
<1> QED
  BY <1>4

\* An element more.
LEMMA SumExtend ==
  ASSUME NEW f, NEW S, IsFiniteSet(S), NEW x, x \notin S, \A i \in S \cup {x} : f[i] \in Int
  PROVE  SumOver(f, S \cup {x}) = f[x] + SumOver(f, S)
<1>1. IsFiniteSet(S \cup {x}) /\ (S \cup {x}) \ {x} = S
  BY FS_AddElement
<1> QED
  BY <1>1, SumRemove

\* Sums are monotone, and strictly so.
LEMMA SumOrder ==
  ASSUME NEW S, IsFiniteSet(S), NEW f, NEW g, \A i \in S : f[i] \in Int /\ g[i] \in Int /\ f[i] <= g[i]
  PROVE  /\ SumOver(f, S) <= SumOver(g, S)
         /\ SumOver(f, S) = SumOver(g, S) => \A i \in S : f[i] = g[i]
<1> DEFINE P(T) == /\ SumOver(f, T) <= SumOver(g, T)
                   /\ SumOver(f, T) = SumOver(g, T) => \A i \in T : f[i] = g[i]
<1> DEFINE Q == {T \in SUBSET S : P(T)}
<1>1. \A T \in SUBSET S : IsFiniteSet(T) /\ SumOver(f, T) \in Int /\ SumOver(g, T) \in Int
  BY FS_Subset, SumInt
<1>2. {} \in Q
  BY SumEmpty
<1>3. ASSUME NEW T \in SUBSET S, NEW x \in S \ T, T \in Q PROVE T \cup {x} \in Q
  <2>1. SumOver(f, T \cup {x}) = f[x] + SumOver(f, T) /\ SumOver(g, T \cup {x}) = g[x] + SumOver(g, T)
    BY <1>1, SumExtend
  <2> QED
    BY <1>1, <1>3, <2>1
<1>4. S \in Q
  <2> HIDE DEF Q
  <2> QED
    BY <1>2, <1>3, FiniteInduction
<1> QED
  BY <1>4

\* A sum depends on the values at its elements only.
LEMMA SumSame ==
  ASSUME NEW S, IsFiniteSet(S), NEW f, NEW g, \A i \in S : f[i] \in Int /\ f[i] = g[i]
  PROVE  SumOver(f, S) = SumOver(g, S)
<1>1. SumOver(f, S) <= SumOver(g, S) /\ SumOver(g, S) <= SumOver(f, S)
  <2>1. \A i \in S : f[i] \in Int /\ g[i] \in Int /\ f[i] <= g[i] /\ g[i] <= f[i]
    OBVIOUS
  <2> QED
    BY <2>1, SumOrder
<1>2. SumOver(f, S) \in Int /\ SumOver(g, S) \in Int
  BY SumInt
<1> QED
  BY <1>1, <1>2

\* One value changes.
LEMMA SumChange ==
  ASSUME NEW S, IsFiniteSet(S), NEW x \in S, NEW f, NEW g,
         \A i \in S : f[i] \in Int /\ g[i] \in Int /\ (i # x => f[i] = g[i])
  PROVE  SumOver(g, S) = SumOver(f, S) - f[x] + g[x]
<1>1. IsFiniteSet(S \ {x}) /\ SumOver(f, S \ {x}) = SumOver(g, S \ {x})
  BY FS_RemoveElement, SumSame
<1>2. SumOver(f, S) = f[x] + SumOver(f, S \ {x}) /\ SumOver(g, S) = g[x] + SumOver(g, S \ {x})
  BY SumRemove
<1>3. SumOver(f, S \ {x}) \in Int
  BY <1>1, SumInt
<1> QED
  BY <1>1, <1>2, <1>3

\* The sum of a sum of functions.
LEMMA SumOfSums ==
  ASSUME NEW S, IsFiniteSet(S), NEW f, NEW g, NEW h,
         \A i \in S : f[i] \in Int /\ g[i] \in Int /\ h[i] = f[i] + g[i]
  PROVE  SumOver(h, S) = SumOver(f, S) + SumOver(g, S)
<1> DEFINE Q == {T \in SUBSET S : SumOver(h, T) = SumOver(f, T) + SumOver(g, T)}
<1>1. \A T \in SUBSET S : IsFiniteSet(T) /\ SumOver(f, T) \in Int /\ SumOver(g, T) \in Int
  BY FS_Subset, SumInt
<1>2. {} \in Q
  BY SumEmpty
<1>3. ASSUME NEW T \in SUBSET S, NEW x \in S \ T, T \in Q PROVE T \cup {x} \in Q
  <2>1. /\ SumOver(f, T \cup {x}) = f[x] + SumOver(f, T) /\ SumOver(g, T \cup {x}) = g[x] + SumOver(g, T)
    BY <1>1, SumExtend
  <2>2. SumOver(h, T \cup {x}) = h[x] + SumOver(h, T)
    BY <1>1, SumExtend
  <2> QED
    BY <1>1, <1>3, <2>1, <2>2
<1>4. S \in Q
  <2> HIDE DEF Q
  <2> QED
    BY <1>2, <1>3, FiniteInduction
<1> QED
  BY <1>4

\* As many values, none above b.
LEMMA SumBound ==
  ASSUME NEW S, IsFiniteSet(S), NEW f, NEW b \in Int, \A i \in S : f[i] \in Int /\ f[i] <= b
  PROVE  SumOver(f, S) <= Cardinality(S) * b
<1> DEFINE Q == {T \in SUBSET S : SumOver(f, T) <= Cardinality(T) * b}
<1>1. \A T \in SUBSET S : IsFiniteSet(T) /\ SumOver(f, T) \in Int /\ Cardinality(T) \in Nat
  BY FS_Subset, SumInt, FS_CardinalityType
<1>2. {} \in Q
  BY SumEmpty, FS_EmptySet
<1>3. ASSUME NEW T \in SUBSET S, NEW x \in S \ T, T \in Q PROVE T \cup {x} \in Q
  <2>1. SumOver(f, T \cup {x}) = f[x] + SumOver(f, T)
    BY <1>1, SumExtend
  <2>2. Cardinality(T \cup {x}) = Cardinality(T) + 1
    BY <1>1, FS_AddElement
  <2>3. \A n \in Nat : (n + 1) * b = n * b + b /\ n * b \in Int
    OBVIOUS
  <2> QED
    BY <1>1, <1>3, <2>1, <2>2, <2>3
<1>4. S \in Q
  <2> HIDE DEF Q
  <2> QED
    BY <1>2, <1>3, FiniteInduction
<1> QED
  BY <1>4

\* Natural values: a part of the sum, and all of it when the rest is zero.
LEMMA SumSubset ==
  ASSUME NEW S, IsFiniteSet(S), NEW f, \A i \in S : f[i] \in Nat, NEW M \in SUBSET S
  PROVE  /\ SumOver(f, M) \in Nat /\ SumOver(f, S) \in Nat /\ SumOver(f, M) <= SumOver(f, S)
         /\ (\A i \in S \ M : f[i] = 0) => SumOver(f, M) = SumOver(f, S)
<1> DEFINE g == [i \in S |-> IF i \in M THEN f[i] ELSE 0]
<1> DEFINE P(T) == /\ SumOver(g, T) = SumOver(f, T \cap M)
                   /\ SumOver(f, T) \in Nat
<1> DEFINE Q == {T \in SUBSET S : P(T)}
<1>1. \A T \in SUBSET S : IsFiniteSet(T) /\ SumOver(f, T) \in Int
  BY FS_Subset, SumInt
<1>2. {} \in Q
  BY SumEmpty
<1>3. ASSUME NEW T \in SUBSET S, NEW x \in S \ T, T \in Q PROVE T \cup {x} \in Q
  <2>1. SumOver(f, T \cup {x}) = f[x] + SumOver(f, T)
    BY <1>1, SumExtend
  <2>2. SumOver(g, T \cup {x}) = g[x] + SumOver(g, T)
    BY <1>1, SumExtend
  <2>3. CASE x \in M
    <3>1. (T \cup {x}) \cap M = (T \cap M) \cup {x} /\ T \cap M \in SUBSET S
      BY <2>3
    <3>2. SumOver(f, (T \cap M) \cup {x}) = f[x] + SumOver(f, T \cap M)
      <4>1. IsFiniteSet(T \cap M) /\ x \notin T \cap M /\ \A i \in (T \cap M) \cup {x} : f[i] \in Int
        BY <1>1, <3>1
      <4> QED
        BY <4>1, SumExtend
    <3>3. SumOver(g, T \cup {x}) = SumOver(f, (T \cup {x}) \cap M)
      BY <1>3, <2>2, <2>3, <3>1, <3>2
    <3> QED
      BY <1>3, <2>1, <3>3
  <2>4. CASE x \notin M
    <3>1. (T \cup {x}) \cap M = T \cap M /\ g[x] = 0
      BY <2>4
    <3>2. SumOver(f, T \cap M) \in Int
      BY <1>1
    <3>3. SumOver(g, T) = SumOver(f, T \cap M)
      BY <1>3
    <3>4. SumOver(g, T \cup {x}) = SumOver(f, (T \cup {x}) \cap M)
      <4> HIDE DEF g
      <4>1. SumOver(f, (T \cup {x}) \cap M) = SumOver(f, T \cap M)
        BY <3>1
      <4> QED
        BY <2>2, <3>1, <3>2, <3>3, <4>1
    <3> QED
      BY <1>3, <2>1, <3>4
  <2> QED
    BY <2>3, <2>4
<1>4. S \in Q
  <2> HIDE DEF Q
  <2> QED
    BY <1>2, <1>3, FiniteInduction
<1>5. SumOver(g, S) = SumOver(f, M) /\ SumOver(f, S) \in Nat
  <2>1. S \cap M = M
    OBVIOUS
  <2> QED
    BY <1>4, <2>1
<1>6. \A i \in S : g[i] \in Int /\ f[i] \in Int /\ g[i] <= f[i]
  OBVIOUS
<1>7. (\A i \in S \ M : f[i] = 0) => \A i \in S : g[i] \in Int /\ g[i] = f[i]
  OBVIOUS
<1>8. SumOver(f, M) >= 0
  <2> DEFINE z == [i \in S |-> 0]
  <2>1. SumOver(z, M) = 0
    <3> DEFINE R == {T \in SUBSET M : SumOver(z, T) = 0}
    <3>1. {} \in R
      BY SumEmpty
    <3>2. ASSUME NEW T \in SUBSET M, NEW x \in M \ T, T \in R PROVE T \cup {x} \in R
      <4>1. SumOver(z, T \cup {x}) = z[x] + SumOver(z, T)
        BY <1>1, SumExtend
      <4> QED
        BY <3>2, <4>1
    <3> QED
      <4> HIDE DEF R
      <4>1. M \in R
        BY <1>1, <3>1, <3>2, FiniteInduction
      <4> QED
        BY <4>1 DEF R
  <2>2. \A i \in M : z[i] \in Int /\ f[i] \in Int /\ z[i] <= f[i]
    OBVIOUS
  <2> HIDE DEF z
  <2> QED
    BY <1>1, <2>1, <2>2, SumOrder
<1> HIDE DEF g
<1> QED
  BY <1>1, <1>5, <1>6, <1>7, <1>8, SumOrder, SumSame

\* One pick: the best of integers in a row.
LEMMA FirstBestExists ==
  ASSUME NEW n \in Nat \ {0}, NEW f, \A i \in 1..n : f[i] \in Int
  PROVE  /\ FirstBest(f, 1..n) \in 1..n
         /\ \A j \in 1..n : f[j] <= f[FirstBest(f, 1..n)]
<1> DEFINE Best(i, m) == \A j \in 1..m : f[j] < f[i] \/ (f[j] = f[i] /\ i <= j)
<1> DEFINE A == {m \in Nat : m \in 1..n => \E i \in 1..m : Best(i, m)}
<1>1. 0 \in A
  OBVIOUS
<1>2. ASSUME NEW m \in Nat, m \in A PROVE m + 1 \in A
  <2> SUFFICES ASSUME m + 1 \in 1..n PROVE \E i \in 1..(m + 1) : Best(i, m + 1)
    OBVIOUS
  <2>1. CASE m = 0
    BY <2>1
  <2>2. CASE m # 0
    <3>1. PICK i \in 1..m : Best(i, m)
      BY <1>2, <2>2
    <3>2. CASE f[m + 1] <= f[i]
      BY <3>1, <3>2
    <3>3. CASE f[m + 1] > f[i]
      <4>1. Best(m + 1, m + 1)
        BY <3>1, <3>3
      <4> QED
        BY <4>1
    <3> QED
      BY <3>2, <3>3
  <2> QED
    BY <2>1, <2>2
<1>3. n \in A
  <2> HIDE DEF A
  <2> QED
    BY <1>1, <1>2, NatClosed
<1>4. \E i \in 1..n : Best(i, n)
  BY <1>3
<1>5. FirstBest(f, 1..n) \in 1..n /\ Best(FirstBest(f, 1..n), n)
  BY <1>4 DEF FirstBest
<1> HIDE DEF FirstBest
<1> QED
  BY <1>5

-----------------------------------------------------------------------------
(***************************************************************************)
(* Balancing: the least-bytes balancer.                                    *)
(***************************************************************************)

\* Requests that were given proxy i and have not released it.
Busy(i) == {r \in Request : req[r].step \in {"upstream", "release"} /\ req[r].proxy = i}

LbShape(x) == x = [type |-> x.type, pool |-> x.pool, weight |-> x.weight,
                   counter |-> x.counter, current |-> x.current, bytes |-> x.bytes]
ReqShape(x) == DOMAIN x = {"step", "proxy", "bytes"}

BalanceTyped ==
  /\ LbShape(lb) /\ lb.pool \in 0..MaxPool /\ lb.bytes \in [Proxy -> Nat]
  /\ lb.pool > 0 => lb.type \in Type
  /\ DOMAIN req = Request /\ req = [r \in Request |-> req[r]]
  /\ \A r \in Request : ReqShape(req[r]) /\ req[r].bytes \in 0..MaxTransfer

\* A member leads no other by more than the requests can carry, even when all
\* that hold it release all they can: a pick is of a member that leads nobody.
Headroom ==
  lb.type = "least-bytes" =>
    \A i, j \in Members(lb) :
      lb.bytes[i] + MaxTransfer * Cardinality(Busy(i))
        <= lb.bytes[j] + MaxTransfer * Cardinality(Request)

BalanceInv == BalanceTyped /\ Headroom

\* Requests at a proxy are some of the requests.
LEMMA BusyBound ==
  ASSUME NEW B \in SUBSET Request
  PROVE  /\ IsFiniteSet(B) /\ Cardinality(B) \in Nat /\ Cardinality(Request) \in Nat
         /\ MaxTransfer * Cardinality(B) \in Nat
         /\ MaxTransfer * Cardinality(Request) \in Nat
         /\ MaxTransfer * Cardinality(B) <= MaxTransfer * Cardinality(Request)
<1>1. /\ IsFiniteSet(B) /\ Cardinality(B) \in Nat /\ Cardinality(Request) \in Nat
      /\ Cardinality(B) <= Cardinality(Request)
  BY FS_Subset, FS_CardinalityType, BalancingAssumption
<1>2. \A t, m, n \in Nat : m <= n => t * m \in Nat /\ t * n \in Nat /\ t * m <= t * n
  OBVIOUS
<1> QED
  BY <1>1, <1>2, BalancingAssumption

\* Fresh instances have transferred nothing, so any request may be anywhere.
LEMMA FreshHeadroom ==
  ASSUME lb \in Built \cup {NotFound}
  PROVE  /\ LbShape(lb) /\ lb.pool \in 0..MaxPool /\ lb.bytes \in [Proxy -> Nat]
         /\ lb.pool > 0 => lb.type \in Type
         /\ Headroom
<1>1. /\ LbShape(lb) /\ lb.pool \in 0..MaxPool /\ lb.bytes = Zero
      /\ lb.pool > 0 => lb.type \in Type
  <2>1. NotFound.bytes = Zero /\ NotFound.pool = 0 /\ LbShape(NotFound)
    BY DEF NotFound, LbShape
  <2>2. ASSUME NEW t \in Type, NEW n \in 0..MaxPool, NEW w \in [Proxy -> 1..MaxWeight]
        PROVE  /\ Build(t, n, w).bytes = Zero /\ Build(t, n, w).pool = n
               /\ Build(t, n, w).type = t /\ LbShape(Build(t, n, w))
    <3> DEFINE v == [i \in Proxy |->
                       IF i > n THEN 0 ELSE IF t = "weighted" THEN w[i] ELSE 1]
    <3>1. Build(t, n, w) = [NotFound EXCEPT !.type = t, !.pool = n, !.weight = v]
      BY DEF Build
    <3> HIDE DEF v
    <3> QED
      BY <3>1 DEF NotFound, LbShape
  <2>3. CASE lb \in Built
    <3>1. PICK t \in Type, n \in 0..MaxPool, w \in [Proxy -> 1..MaxWeight] : lb = Build(t, n, w)
      BY <2>3 DEF Built
    <3> QED
      BY <2>2, <3>1
  <2> QED
    BY <2>1, <2>3, BalancingAssumption
<1>2. lb.bytes \in [Proxy -> Nat] /\ \A i \in Proxy : lb.bytes[i] = 0
  BY <1>1 DEF Zero
<1>3. \A i \in Members(lb) : i \in Proxy
  BY <1>1, BalancingAssumption DEF Members, Proxy
<1>4. Headroom
  <2> SUFFICES ASSUME NEW i \in Members(lb), NEW j \in Members(lb)
               PROVE  lb.bytes[i] + MaxTransfer * Cardinality(Busy(i))
                        <= lb.bytes[j] + MaxTransfer * Cardinality(Request)
    BY DEF Headroom
  <2>1. /\ MaxTransfer * Cardinality(Busy(i)) <= MaxTransfer * Cardinality(Request)
        /\ MaxTransfer * Cardinality(Busy(i)) \in Nat /\ MaxTransfer * Cardinality(Request) \in Nat
    BY BusyBound DEF Busy
  <2>2. lb.bytes[i] = 0 /\ lb.bytes[j] = 0
    BY <1>2, <1>3
  <2> QED
    BY <2>1, <2>2
<1> QED
  BY <1>1, <1>2, <1>4

\* The least-bytes balancer picks a member that leads nobody.
LEMMA LeastBytesPick ==
  ASSUME BalanceTyped, lb.pool > 0
  PROVE  LET b == IF due THEN Zero ELSE lb.bytes IN
         /\ b \in [Proxy -> Nat]
         /\ LeastBytesNext(lb).next = [lb EXCEPT !.bytes = b]
         /\ LeastBytesNext(lb).proxy \in Members(lb)
         /\ \A j \in Members(lb) : b[LeastBytesNext(lb).proxy] <= b[j]
<1> DEFINE b == IF due THEN Zero ELSE lb.bytes
           f == [i \in Proxy |-> -b[i]]
<1>1. b \in [Proxy -> Nat]
  BY DEF BalanceTyped, Zero
<1>2. /\ LeastBytesNext(lb).next = [lb EXCEPT !.bytes = b]
      /\ LeastBytesNext(lb).proxy = FirstBest(f, Members(lb))
  BY DEF LeastBytesNext
<1>3. Members(lb) = 1..lb.pool /\ lb.pool \in Nat \ {0} /\ Members(lb) \subseteq Proxy
  BY BalancingAssumption DEF BalanceTyped, Members, Proxy
<1> HIDE DEF b
<1>4. \A i \in Members(lb) : b[i] \in Nat /\ f[i] = -b[i] /\ f[i] \in Int
  BY <1>1, <1>3
<1> HIDE DEF f
<1>5. FirstBest(f, Members(lb)) \in Members(lb) /\ \A j \in Members(lb) : f[j] <= f[FirstBest(f, Members(lb))]
  BY <1>3, <1>4, FirstBestExists
<1>6. PICK p \in Members(lb) : p = LeastBytesNext(lb).proxy /\ \A j \in Members(lb) : f[j] <= f[p]
  BY <1>2, <1>5
<1>7. \A j \in Members(lb) : b[p] <= b[j]
  BY <1>4, <1>6
<1> QED
  BY <1>1, <1>2, <1>6, <1>7 DEF b

\* BalanceInv is inductive.
LEMMA BalanceStep == BalanceInv /\ [Next]_vars => BalanceInv'
<1> SUFFICES ASSUME BalanceInv, [Next]_vars PROVE BalanceInv'
  OBVIOUS
<1>0. BalanceTyped /\ Headroom /\ MaxTransfer \in Nat /\ MaxPool \in Nat
  BY BalancingAssumption DEF BalanceInv
<1>1. \A i \in Members(lb) : i \in Proxy /\ lb.bytes[i] \in Nat
  BY <1>0 DEF Members, BalanceTyped, Proxy
<1>2. ASSUME NEW r \in Request, NEW x, req' = [req EXCEPT ![r] = x],
             ReqShape(x), x.bytes \in 0..MaxTransfer
      PROVE  /\ DOMAIN req' = Request /\ req' = [q \in Request |-> req'[q]]
             /\ \A q \in Request : ReqShape(req'[q]) /\ req'[q].bytes \in 0..MaxTransfer
             /\ req'[r] = x /\ \A q \in Request \ {r} : req'[q] = req[q]
  BY <1>0, <1>2 DEF BalanceTyped
<1>3. ASSUME UNCHANGED lb, \A i \in Members(lb) : Busy(i)' = Busy(i) \/ Busy(i)' = {}
      PROVE  Headroom'
  <2> SUFFICES ASSUME NEW i \in Members(lb), NEW j \in Members(lb), lb.type = "least-bytes"
               PROVE  lb.bytes[i] + MaxTransfer * Cardinality(Busy(i)')
                        <= lb.bytes[j] + MaxTransfer * Cardinality(Request)
    BY <1>3 DEF Headroom, Members
  <2>1. CASE Busy(i)' = Busy(i)
    BY <1>0, <2>1 DEF Headroom
  <2>2. CASE Busy(i)' = {}
    <3>1. /\ MaxTransfer * Cardinality(Busy(i)) \in Nat
          /\ MaxTransfer * Cardinality(Request) \in Nat
      BY BusyBound DEF Busy
    <3>2. MaxTransfer * Cardinality({}) = 0
      BY <1>0, FS_EmptySet
    <3>3. lb.bytes[i] + MaxTransfer * Cardinality(Busy(i))
                        <= lb.bytes[j] + MaxTransfer * Cardinality(Request)
      BY <1>0 DEF Headroom
    <3> QED
      BY <1>1, <2>2, <3>1, <3>2, <3>3
  <2> QED
    BY <1>3, <2>1, <2>2
<1>4. CASE Bootstrap
  <2>1. lb' \in Built \cup {NotFound} /\ UNCHANGED req
    BY <1>4 DEF Bootstrap
  <2>2. (/\ LbShape(lb) /\ lb.pool \in 0..MaxPool /\ lb.bytes \in [Proxy -> Nat]
         /\ lb.pool > 0 => lb.type \in Type
         /\ Headroom)'
    <3>1. (lb \in Built \cup {NotFound})'
      BY <2>1
    <3> QED
      BY <3>1, FreshHeadroom, PTL
  <2> QED
    BY <1>0, <2>1, <2>2 DEF BalanceInv, BalanceTyped
<1>5. CASE IntervalElapses \/ UNCHANGED vars
  <2>1. UNCHANGED <<lb, req>>
    BY <1>5 DEF IntervalElapses, vars
  <2>2. Headroom'
    BY <1>3, <2>1 DEF Busy
  <2> QED
    BY <1>0, <2>1, <2>2 DEF BalanceInv, BalanceTyped
<1>6. ASSUME NEW r \in Request, NEW x, req' = [req EXCEPT ![r] = x], ReqShape(x),
             x.bytes \in 0..MaxTransfer, x.step \in {"flow", "idle"},
             req[r].step \in {"flow", "idle"}, UNCHANGED lb
      PROVE  BalanceInv'
  <2>1. /\ DOMAIN req' = Request /\ req' = [q \in Request |-> req'[q]]
        /\ \A q \in Request : ReqShape(req'[q]) /\ req'[q].bytes \in 0..MaxTransfer
        /\ req'[r] = x /\ \A q \in Request \ {r} : req'[q] = req[q]
    BY <1>2, <1>6
  <2>2. \A i \in Members(lb) : Busy(i)' = Busy(i)
    BY <1>6, <2>1 DEF Busy
  <2>3. Headroom'
    BY <1>3, <1>6, <2>2
  <2> QED
    BY <1>0, <1>6, <2>1, <2>3 DEF BalanceInv, BalanceTyped
<1>7. ASSUME NEW r \in Request, Admit(r) PROVE BalanceInv'
  <2> DEFINE x == [Idle EXCEPT !.step = "flow"]
  <2>1. req' = [req EXCEPT ![r] = x] /\ req[r].step \in {"flow", "idle"} /\ UNCHANGED lb
    BY <1>0, <1>7 DEF Admit, BalanceTyped, Idle
  <2>2. ReqShape(x) /\ x.bytes \in 0..MaxTransfer /\ x.step \in {"flow", "idle"}
    BY <1>0 DEF Idle, ReqShape
  <2> HIDE DEF x
  <2> QED
    BY <1>6, <2>1, <2>2
<1>8. ASSUME NEW r \in Request, ExecuteFlowFails(r) PROVE BalanceInv'
  <2>1. ReqShape(Idle) /\ Idle.bytes \in 0..MaxTransfer /\ Idle.step \in {"flow", "idle"}
    BY <1>0 DEF Idle, ReqShape
  <2>2. req' = [req EXCEPT ![r] = Idle] /\ req[r].step \in {"flow", "idle"} /\ UNCHANGED lb
    BY <1>8 DEF ExecuteFlowFails
  <2> QED
    BY <1>6, <2>1, <2>2
<1>9. ASSUME NEW r \in Request, Upstream(r) PROVE BalanceInv'
  <2>1. PICK n \in 0..MaxTransfer :
          req' = [req EXCEPT ![r] = [req[r] EXCEPT !.step = "release", !.bytes = n]]
    <3>1. PICK n \in 0..MaxTransfer : req' = [req EXCEPT ![r].step = "release", ![r].bytes = n]
      BY <1>9 DEF Upstream
    <3>2. req' = [req EXCEPT ![r] = [req[r] EXCEPT !.step = "release", !.bytes = n]]
      BY <1>0, <3>1 DEF BalanceTyped
    <3> QED
      BY <3>2
  <2>2. req[r].step = "upstream" /\ UNCHANGED lb
    BY <1>9 DEF Upstream
  <2> DEFINE x == [req[r] EXCEPT !.step = "release", !.bytes = n]
  <2>3. /\ ReqShape(x) /\ x.bytes \in 0..MaxTransfer
        /\ x.step = "release" /\ x.proxy = req[r].proxy
    <3>1. DOMAIN req[r] = {"step", "proxy", "bytes"}
      BY <1>0 DEF BalanceTyped, ReqShape
    <3> QED
      BY <3>1 DEF ReqShape
  <2> HIDE DEF x
  <2>4. /\ DOMAIN req' = Request /\ req' = [q \in Request |-> req'[q]]
        /\ \A q \in Request : ReqShape(req'[q]) /\ req'[q].bytes \in 0..MaxTransfer
        /\ req'[r] = x /\ \A q \in Request \ {r} : req'[q] = req[q]
    BY <1>2, <2>1, <2>3 DEF x
  <2>5. \A i \in Members(lb) : Busy(i)' = Busy(i)
    BY <2>2, <2>3, <2>4 DEF Busy
  <2>6. Headroom'
    BY <1>3, <2>2, <2>5
  <2> QED
    BY <1>0, <2>2, <2>4, <2>6 DEF BalanceInv, BalanceTyped
<1>10. ASSUME NEW r \in Request, Release(r) PROVE BalanceInv'
  <2> DEFINE p == req[r].proxy
             n == req[r].bytes
  <2>1. /\ req' = [req EXCEPT ![r] = Idle] /\ req[r].step = "release" /\ n \in 0..MaxTransfer
        /\ lb' = IF lb.type = "least-bytes" THEN [lb EXCEPT !.bytes[p] = @ + n] ELSE lb
    BY <1>0, <1>10 DEF Release, BalanceTyped
  <2>2. ReqShape(Idle) /\ Idle.bytes \in 0..MaxTransfer /\ Idle.step = "idle"
    BY <1>0 DEF Idle, ReqShape
  <2>3. /\ DOMAIN req' = Request /\ req' = [q \in Request |-> req'[q]]
        /\ \A q \in Request : ReqShape(req'[q]) /\ req'[q].bytes \in 0..MaxTransfer
        /\ req'[r] = Idle /\ \A q \in Request \ {r} : req'[q] = req[q]
    BY <1>2, <2>1, <2>2
  <2>4. \A i : Busy(i)' = Busy(i) \ {r} /\ (i = p <=> r \in Busy(i))
    BY <2>1, <2>2, <2>3 DEF Busy
  <2>5. CASE lb.type # "least-bytes"
    BY <1>0, <2>1, <2>3, <2>5 DEF BalanceInv, BalanceTyped, Headroom
  <2>6. CASE lb.type = "least-bytes"
    <3>1. lb' = [lb EXCEPT !.bytes = [lb.bytes EXCEPT ![p] = @ + n]]
      BY <1>0, <2>1, <2>6 DEF BalanceTyped, LbShape
    <3> DEFINE b == [lb.bytes EXCEPT ![p] = @ + n]
    <3>2. b \in [Proxy -> Nat] /\ \A i \in Proxy : b[i] = IF i = p THEN lb.bytes[i] + n ELSE lb.bytes[i]
      <4>1. n \in Nat /\ lb.bytes \in [Proxy -> Nat]
        BY <1>0, <2>1 DEF BalanceTyped
      <4>2. ASSUME NEW g \in [Proxy -> Nat], NEW q, NEW m \in Nat
            PROVE  LET h == [g EXCEPT ![q] = @ + m] IN
                   /\ h \in [Proxy -> Nat]
                   /\ \A i \in Proxy : h[i] = IF i = q THEN g[i] + m ELSE g[i]
        <5>1. CASE q \in Proxy
          BY <5>1
        <5>2. CASE q \notin Proxy
          BY <5>2
        <5> QED
          BY <5>1, <5>2
      <4> QED
        BY <4>1, <4>2
    <3> HIDE DEF b
    <3>3. /\ LbShape(lb') /\ lb'.bytes = b /\ lb'.pool = lb.pool /\ lb'.type = lb.type
      BY <1>0, <3>1 DEF BalanceTyped, LbShape, b
    <3>4. BalanceTyped'
      BY <1>0, <2>3, <3>2, <3>3 DEF BalanceTyped
    <3>5. ASSUME NEW i \in Members(lb), NEW j \in Members(lb)
          PROVE  b[i] + MaxTransfer * Cardinality(Busy(i)')
                   <= b[j] + MaxTransfer * Cardinality(Request)
      <4> DEFINE k == Cardinality(Busy(i))
                 c == Cardinality(Request)
      <4>1. /\ k \in Nat /\ MaxTransfer * k \in Nat /\ MaxTransfer * c \in Nat
            /\ IsFiniteSet(Busy(i))
        BY BusyBound DEF Busy
      <4>2. Cardinality(Busy(i)') = IF i = p THEN k - 1 ELSE k
        BY <2>4, <4>1, FS_RemoveElement
      <4>3. MaxTransfer * (k - 1) = MaxTransfer * k - MaxTransfer
        BY <1>0, <4>1
      <4>4. lb.bytes[i] + MaxTransfer * k <= lb.bytes[j] + MaxTransfer * c
        BY <1>0, <2>6 DEF Headroom
      <4>5. /\ lb.bytes[i] \in Nat /\ lb.bytes[j] \in Nat /\ n \in Nat /\ n <= MaxTransfer
            /\ i \in Proxy /\ j \in Proxy
        BY <1>0, <1>1, <2>1
      <4>6. /\ b[i] = IF i = p THEN lb.bytes[i] + n ELSE lb.bytes[i]
            /\ b[j] >= lb.bytes[j] /\ b[j] \in Nat
        BY <3>2, <4>5
      <4>7. b[i] + MaxTransfer * Cardinality(Busy(i)') <= lb.bytes[i] + MaxTransfer * k
        <5>1. CASE i = p
          BY <1>0, <4>1, <4>2, <4>3, <4>5, <4>6, <5>1
        <5>2. CASE i # p
          BY <1>0, <4>1, <4>2, <4>5, <4>6, <5>2
        <5> QED
          BY <5>1, <5>2
      <4>8. MaxTransfer * Cardinality(Busy(i)') \in Int
        BY <1>0, <4>1, <4>2
      <4> HIDE DEF k, c, p, n
      <4> QED
        BY <4>1, <4>4, <4>5, <4>6, <4>7, <4>8 DEF c
    <3>6. Headroom'
      BY <3>3, <3>5 DEF Headroom, Members
    <3> QED
      BY <3>4, <3>6 DEF BalanceInv
  <2> QED
    BY <2>5, <2>6
<1>11. ASSUME NEW r \in Request, ExecuteFlow(r) PROVE BalanceInv'
  <2> DEFINE p == NextProxy(lb).proxy
             x == [req[r] EXCEPT !.step = "upstream", !.proxy = p]
  <2>1. /\ req[r].step = "flow" /\ lb.pool > 0 /\ lb' = NextProxy(lb).next
        /\ req' = [req EXCEPT ![r] = x]
    BY <1>0, <1>11 DEF ExecuteFlow, BalanceTyped
  <2>2. /\ ReqShape(x) /\ x.bytes \in 0..MaxTransfer
        /\ x.step = "upstream" /\ x.proxy = p
    <3>1. DOMAIN req[r] = {"step", "proxy", "bytes"} /\ req[r].bytes \in 0..MaxTransfer
      BY <1>0 DEF BalanceTyped, ReqShape
    <3> QED
      BY <3>1 DEF ReqShape
  <2> HIDE DEF x
  <2>3. /\ DOMAIN req' = Request /\ req' = [q \in Request |-> req'[q]]
        /\ \A q \in Request : ReqShape(req'[q]) /\ req'[q].bytes \in 0..MaxTransfer
        /\ req'[r] = x /\ \A q \in Request \ {r} : req'[q] = req[q]
    BY <1>2, <2>1, <2>2
  <2>4. CASE lb.type = "least-bytes"
    <3> DEFINE b == IF due THEN Zero ELSE lb.bytes
    <3>1. NextProxy(lb) = LeastBytesNext(lb)
      BY <2>4 DEF NextProxy
    <3>2. /\ b \in [Proxy -> Nat] /\ lb' = [lb EXCEPT !.bytes = b]
          /\ p \in Members(lb) /\ \A j \in Members(lb) : b[p] <= b[j]
      BY <1>0, <2>1, <3>1, LeastBytesPick
    <3> HIDE DEF p
    <3>3. LbShape(lb') /\ lb'.bytes = b /\ lb'.pool = lb.pool /\ lb'.type = lb.type
      BY <1>0, <3>2 DEF BalanceTyped, LbShape
    <3>4. BalanceTyped'
      BY <1>0, <2>3, <3>2, <3>3 DEF BalanceTyped
    <3>5. \A i \in Members(lb) : i # p => Busy(i)' = Busy(i)
      BY <2>1, <2>2, <2>3 DEF Busy
    <3>6. ASSUME NEW i \in Members(lb), NEW j \in Members(lb)
          PROVE  b[i] + MaxTransfer * Cardinality(Busy(i)')
                   <= b[j] + MaxTransfer * Cardinality(Request)
      <4>1. /\ MaxTransfer * Cardinality(Busy(i)') \in Nat
            /\ MaxTransfer * Cardinality(Request) \in Nat
            /\ MaxTransfer * Cardinality(Busy(i)') <= MaxTransfer * Cardinality(Request)
        <5>1. Busy(i)' \in SUBSET Request
          BY DEF Busy
        <5> QED
          BY <5>1, BusyBound
      <4>2. b[i] \in Nat /\ b[j] \in Nat /\ i \in Proxy /\ j \in Proxy
        BY <1>1, <3>2
      <4>3. CASE i = p \/ due
        <5>1. b[i] <= b[j]
          BY <3>2, <4>2, <4>3 DEF Zero
        <5> HIDE DEF b
        <5> QED
          BY <4>1, <4>2, <5>1
      <4>4. CASE i # p /\ ~due
        BY <1>0, <2>4, <3>5, <4>4 DEF Headroom
      <4> QED
        BY <4>3, <4>4
    <3>7. Headroom'
      BY <3>3, <3>6 DEF Headroom, Members
    <3> QED
      BY <3>4, <3>7 DEF BalanceInv
  <2>5. CASE lb.type # "least-bytes"
    <3>1. CASE lb.type \in {"round-robin", "weighted"}
      <4>1. /\ LbShape(lb') /\ lb'.bytes = lb.bytes /\ lb'.pool = lb.pool /\ lb'.type = lb.type
        BY <1>0, <2>1, <3>1 DEF NextProxy, RoundRobinNext, WeightedNext, BalanceTyped, LbShape
      <4> QED
        BY <1>0, <2>3, <2>5, <4>1 DEF BalanceInv, BalanceTyped, Headroom
    <3> QED
      BY <1>0, <2>1, <2>5, <3>1 DEF BalanceTyped, Type
  <2> QED
    BY <2>4, <2>5
<1> QED
  BY <1>4, <1>5, <1>9, <1>10, <1>7, <1>8, <1>11 DEF Next

\* leastbytes.go:40-75: for any pool, any number of requests and any sizes of
\* responses, no member is ahead of another by more than what the requests can
\* carry, whatever instance picked for them.
THEOREM LeastBytesStaysEven == Spec => []LeastBytesSpread
<1>1. Init => BalanceInv
  <2> SUFFICES ASSUME Init PROVE BalanceInv
    OBVIOUS
  <2>1. ReqShape(Idle) /\ Idle.bytes \in 0..MaxTransfer
    BY BalancingAssumption DEF Idle, ReqShape
  <2> QED
    BY <2>1, FreshHeadroom DEF Init, BalanceInv, BalanceTyped
<1>2. BalanceInv => LeastBytesSpread
  <2> SUFFICES ASSUME BalanceInv, lb.type = "least-bytes",
                      NEW i \in Members(lb), NEW j \in Members(lb)
               PROVE  lb.bytes[i] - lb.bytes[j] <= Cardinality(Request) * MaxTransfer
    BY DEF LeastBytesSpread
  <2>1. /\ MaxTransfer * Cardinality(Busy(i)) \in Nat /\ Cardinality(Request) \in Nat
        /\ MaxTransfer \in Nat
    BY BusyBound, BalancingAssumption DEF Busy
  <2>2. lb.bytes[i] \in Nat /\ lb.bytes[j] \in Nat
    BY BalancingAssumption DEF BalanceInv, BalanceTyped, Members, Proxy
  <2>3. lb.bytes[i] + MaxTransfer * Cardinality(Busy(i))
          <= lb.bytes[j] + MaxTransfer * Cardinality(Request)
    BY DEF BalanceInv, Headroom
  <2> QED
    BY <2>1, <2>2, <2>3
<1> QED
  BY <1>1, <1>2, BalanceStep, PTL DEF Spec

-----------------------------------------------------------------------------
(***************************************************************************)
(* Balancing: fair shares.  In a weighted round the current weights are what *)
(* each member is short of, in fractions of a request: they even out, and no *)
(* k members are further behind together than Behind(n, t)[k].             *)
(***************************************************************************)

\* The recursive function that Behind chooses exists,
LEMMA BehindExists ==
  ASSUME NEW n \in Nat, NEW t \in Nat
  PROVE  \E g : g = [k \in 1..n |-> IF k = n THEN 0 ELSE (k * (g[k + 1] + t)) \div (k + 1)]
<1> DEFINE Val(g, k) == IF k = n THEN 0 ELSE (k * (g[k + 1] + t)) \div (k + 1)
<1> DEFINE OK(g, m) == \A k \in 1..n : k + m >= n => g[k] = Val(g, k)
<1> DEFINE A == {m \in Nat : \E g : OK(g, m)}
<1>1. 0 \in A
  <2> DEFINE g == [k \in 1..n |-> 0]
  <2>1. OK(g, 0)
    OBVIOUS
  <2> HIDE DEF g, OK
  <2> QED
    BY <2>1
<1>2. ASSUME NEW m \in Nat, m \in A PROVE m + 1 \in A
  <2>1. PICK g : OK(g, m)
    BY <1>2
  <2> DEFINE h == [k \in 1..n |-> Val(g, k)]
  <2>2. ASSUME NEW k \in 1..n, k + (m + 1) >= n PROVE h[k] = Val(h, k)
    <3>1. CASE k = n
      BY <3>1
    <3>2. CASE k # n
      <4>1. k + 1 \in 1..n /\ (k + 1) + m >= n
        BY <2>2, <3>2
      <4>2. g[k + 1] = Val(g, k + 1)
        BY <2>1, <4>1
      <4>3. h[k + 1] = Val(g, k + 1) /\ h[k] = Val(g, k)
        BY <4>1
      <4> HIDE DEF h
      <4>4. h[k + 1] = g[k + 1]
        BY <4>2, <4>3
      <4> QED
        BY <4>3, <4>4
    <3> QED
      BY <3>1, <3>2
  <2>3. OK(h, m + 1)
    BY <2>2
  <2> HIDE DEF h, OK
  <2> QED
    BY <2>3
<1>3. n \in A
  <2> HIDE DEF A
  <2> QED
    BY <1>1, <1>2, NatClosed
<1>4. PICK g : OK(g, n)
  BY <1>3
<1> DEFINE h == [k \in 1..n |-> g[k]]
<1>5. ASSUME NEW k \in 1..n PROVE h[k] = Val(h, k)
  <2>1. g[k] = Val(g, k)
    BY <1>4
  <2> QED
    BY <2>1
<1>6. h = [k \in 1..n |-> Val(h, k)]
  BY <1>5
<1> HIDE DEF h
<1> QED
  BY <1>6

\* so Behind obeys its equation,
LEMMA BehindIs ==
  ASSUME NEW n \in Nat, NEW t \in Nat
  PROVE  \A k \in 1..n : Behind(n, t)[k] = IF k = n THEN 0 ELSE (k * (Behind(n, t)[k + 1] + t)) \div (k + 1)
<1> DEFINE R(g) == g = [k \in 1..n |-> IF k = n THEN 0 ELSE (k * (g[k + 1] + t)) \div (k + 1)]
<1>1. Behind(n, t) = CHOOSE g : R(g)
  BY DEF Behind
<1>2. R(CHOOSE g : R(g))
  <2>1. \E g : R(g)
    BY BehindExists
  <2> HIDE DEF R
  <2> QED
    BY <2>1
<1>3. R(Behind(n, t))
  <2> HIDE DEF R
  <2> QED
    BY <1>1, <1>2
<1> QED
  BY <1>3

\* and its values are naturals.
LEMMA BehindNat ==
  ASSUME NEW n \in Nat, NEW t \in Nat, NEW k \in 1..n
  PROVE  Behind(n, t)[k] \in Nat
<1> DEFINE b == Behind(n, t)
<1> DEFINE A == {m \in Nat : \A j \in 1..n : j + m = n => b[j] \in Nat}
<1>1. \A j \in 1..n : b[j] = IF j = n THEN 0 ELSE (j * (b[j + 1] + t)) \div (j + 1)
  BY BehindIs
<1> HIDE DEF b
<1>2. 0 \in A
  BY <1>1
<1>3. ASSUME NEW m \in Nat, m \in A PROVE m + 1 \in A
  <2> SUFFICES ASSUME NEW j \in 1..n, j + (m + 1) = n PROVE b[j] \in Nat
    OBVIOUS
  <2>1. j + 1 \in 1..n /\ j # n /\ b[j + 1] \in Nat
    BY <1>3
  <2>2. b[j] = (j * (b[j + 1] + t)) \div (j + 1)
    BY <1>1, <2>1
  <2>3. \A x \in Nat : x \div (j + 1) \in Nat
    OBVIOUS
  <2>4. j * (b[j + 1] + t) \in Nat
    BY <2>1
  <2> QED
    BY <2>2, <2>3, <2>4
<1>4. n - k \in A
  <2> HIDE DEF A
  <2> QED
    BY <1>2, <1>3, NatClosed
<1> QED
  BY <1>4 DEF b

\* The current weights between two picks: they even out, nobody is a whole request
\* ahead, and no k members are further behind together than Behind allows.
Smooth(n, w, c) ==
  /\ \A i \in 1..n : c[i] \in Int /\ -SumOver(w, 1..n) < c[i]
  /\ SumOver(c, 1..n) = 0
  /\ \A S \in SUBSET (1..n) : S # {} => SumOver(c, S) <= Behind(n, SumOver(w, 1..n))[Cardinality(S)]

\* The members of a pool, and some of them.
LEMMA MembersFinite ==
  ASSUME NEW n \in Nat, NEW S \in SUBSET (1..n)
  PROVE  /\ IsFiniteSet(S) /\ IsFiniteSet(1..n) /\ Cardinality(S) \in 0..n /\ Cardinality(1..n) = n
         /\ S # {} => Cardinality(S) \in 1..n
         /\ Cardinality(S) = n => S = 1..n
<1>1. IsFiniteSet(1..n) /\ Cardinality(1..n) = n
  BY FS_Interval
<1>2. IsFiniteSet(S) /\ Cardinality(S) <= n /\ (n = Cardinality(S) => 1..n = S)
  BY <1>1, FS_Subset
<1>3. Cardinality(S) \in Nat /\ (Cardinality(S) = 0 <=> S = {})
  BY <1>2, FS_CardinalityType, FS_EmptySet
<1>4. ASSUME S # {} PROVE Cardinality(S) \in 1..n
  <2>1. Cardinality(S) # 0
    BY <1>3, <1>4
  <2> QED
    BY <1>2, <1>3, <2>1
<1> QED
  BY <1>1, <1>2, <1>3, <1>4

\* (k + 1) x <= k y, in whole numbers.
LEMMA DivBound ==
  ASSUME NEW k \in Nat, NEW x \in Int, NEW y \in Nat, (k + 1) * x <= k * y
  PROVE  x <= (k * y) \div (k + 1)
<1>1. \A a \in Int, d \in Nat \ {0} : a < d * (a \div d) + d /\ a \div d \in Int
  OBVIOUS
<1>2. k * y \in Nat /\ k + 1 \in Nat \ {0}
  OBVIOUS
<1>3. PICK q \in Int : q = (k * y) \div (k + 1) /\ k * y < (k + 1) * q + (k + 1)
  BY <1>1, <1>2
<1>4. (k + 1) * x < (k + 1) * (q + 1)
  BY <1>3
<1>5. \A d \in Nat \ {0}, a, b \in Int : d * a < d * b => a < b
  OBVIOUS
<1>6. x < q + 1
  BY <1>4, <1>5
<1> QED
  BY <1>3, <1>6

\* One pick d of a pool: every weight is added, and the pick pays the total.
PickMoves(n, w, c, d, v) ==
  /\ \A i \in 1..n : w[i] \in Nat \ {0}
  /\ \E u : /\ \A i \in 1..n : u[i] = c[i] + w[i]
           /\ d = FirstBest(u, 1..n)
           /\ \A i \in 1..n : v[i] = IF i = d THEN u[i] - SumOver(w, 1..n) ELSE u[i]

\* The step of the smooth weighted order: a pick keeps the current weights smooth.
\* If the pick is among S, S only loses; if not, the pick has at least the average of
\* S and itself, and together they obey the bound for one member more.
LEMMA SmoothPick ==
  ASSUME NEW n \in Nat \ {0}, NEW w, NEW c, Smooth(n, w, c), NEW d, NEW v, PickMoves(n, w, c, d, v)
  PROVE  d \in 1..n /\ Smooth(n, w, v)
<1>1. PICK u : /\ \A i \in 1..n : u[i] = c[i] + w[i]
               /\ d = FirstBest(u, 1..n)
               /\ \A i \in 1..n : v[i] = IF i = d THEN u[i] - SumOver(w, 1..n) ELSE u[i]
  BY DEF PickMoves
<1> DEFINE M == 1..n
<1> DEFINE t == SumOver(w, M)
<1> DEFINE b == Behind(n, t)
<1>2. /\ \A S \in SUBSET M : /\ IsFiniteSet(S) /\ Cardinality(S) \in 0..n
                             /\ S # {} => Cardinality(S) \in 1..n
                             /\ Cardinality(S) = n => S = M
      /\ IsFiniteSet(M) /\ Cardinality(M) = n
  BY MembersFinite
<1>3. \A i \in M : w[i] \in Nat /\ w[i] \in Int /\ w[i] > 0 /\ c[i] \in Int /\ u[i] \in Int /\ -t < c[i]
  BY <1>1 DEF Smooth, PickMoves
<1>4. t \in Nat /\ \A S \in SUBSET M : SumOver(w, S) \in Nat /\ SumOver(w, S) <= t
  BY <1>2, <1>3, SumSubset
<1>5. d \in M /\ \A j \in M : u[j] <= u[d]
  BY <1>1, <1>3, FirstBestExists
<1>6. SumOver(c, M) = 0 /\ \A S \in SUBSET M : S # {} => SumOver(c, S) <= b[Cardinality(S)]
  BY DEF Smooth
<1>7. \A k \in 1..n : b[k] \in Nat /\ b[k] = IF k = n THEN 0 ELSE (k * (b[k + 1] + t)) \div (k + 1)
  BY <1>4, BehindIs, BehindNat
<1>8. \A i \in M : v[i] = IF i = d THEN u[i] - t ELSE u[i]
  BY <1>1
<1> HIDE DEF t, b, M
<1>9. \A i \in M : v[i] \in Int /\ u[i] \in Int /\ (i # d => u[i] = v[i])
  BY <1>3, <1>4, <1>8
<1>10. \A S \in SUBSET M : SumOver(u, S) = SumOver(c, S) + SumOver(w, S) /\ SumOver(c, S) \in Int /\ SumOver(u, S) \in Int
  BY <1>1, <1>2, <1>3, SumOfSums, SumInt, ZenonT(40) DEF M
<1>11. \A S \in SUBSET M : SumOver(v, S) = IF d \in S THEN SumOver(u, S) - t ELSE SumOver(u, S)
  <2> SUFFICES ASSUME NEW S \in SUBSET M PROVE SumOver(v, S) = IF d \in S THEN SumOver(u, S) - t ELSE SumOver(u, S)
    OBVIOUS
  <2>1. CASE d \in S
    <3>1. SumOver(v, S) = SumOver(u, S) - u[d] + v[d]
      <4>1. IsFiniteSet(S) /\ \A i \in S : u[i] \in Int /\ v[i] \in Int /\ (i # d => u[i] = v[i])
        BY <1>2, <1>9
      <4> QED
        BY <2>1, <4>1, SumChange
    <3>2. v[d] = u[d] - t /\ u[d] \in Int
      BY <1>3, <1>5, <1>8
    <3> QED
      BY <1>4, <1>10, <2>1, <3>1, <3>2
  <2>2. CASE d \notin S
    <3>1. \A i \in S : u[i] \in Int /\ u[i] = v[i]
      BY <1>9, <2>2
    <3>2. SumOver(u, S) = SumOver(v, S)
      BY <1>2, <3>1, SumSame
    <3> QED
      BY <2>2, <3>2
  <2> QED
    BY <2>1, <2>2
<1>12. SumOver(u, M) = t /\ SumOver(v, M) = 0
  <2>1. M \in SUBSET M
    OBVIOUS
  <2> QED
    BY <1>4, <1>5, <1>6, <1>10, <1>11, <2>1 DEF t
<1>13. u[d] > 0
  <2> SUFFICES ASSUME u[d] <= 0 PROVE FALSE
    BY <1>3, <1>5
  <2>1. SumOver(u, M) <= n * 0
    <3>1. \A i \in M : u[i] \in Int /\ u[i] <= 0
      BY <1>3, <1>5
    <3>2. ASSUME NEW z \in Int, z = 0 PROVE SumOver(u, M) <= n * z
      BY <1>2, <3>1, <3>2, SumBound
    <3> QED
      BY <3>2
  <2>2. t > 0
    <3>1. 1 \in M /\ M \ {1} \in SUBSET M
      BY DEF M
    <3>2. SumOver(w, M) = w[1] + SumOver(w, M \ {1})
      <4>1. \A i \in M : w[i] \in Int
        BY <1>3
      <4> QED
        BY <1>2, <3>1, <4>1, SumRemove
    <3> QED
      BY <1>3, <1>4, <3>1, <3>2 DEF t
  <2> QED
    BY <1>2, <1>4, <1>12, <2>1, <2>2
<1>14. \A i \in M : -t < v[i]
  <2> SUFFICES ASSUME NEW i \in M PROVE -t < v[i]
    OBVIOUS
  <2>1. CASE i = d
    BY <1>3, <1>4, <1>8, <1>13, <2>1
  <2>2. CASE i # d
    <3>1. u[i] = c[i] + w[i]
      BY <1>1 DEF M
    <3> QED
      BY <1>3, <1>4, <1>8, <2>2, <3>1
  <2> QED
    BY <2>1, <2>2
<1>15. ASSUME NEW S \in SUBSET M, S # {} PROVE SumOver(v, S) <= b[Cardinality(S)]
  <2> DEFINE k == Cardinality(S)
  <2>1. k \in 1..n /\ b[k] \in Nat
    BY <1>2, <1>7, <1>15
  <2>2. CASE d \in S
    <3>1. SumOver(v, S) <= SumOver(c, S)
      BY <1>4, <1>10, <1>11, <2>2
    <3>2. SumOver(c, S) <= b[k] /\ SumOver(v, S) \in Int
      BY <1>4, <1>6, <1>10, <1>11, <1>15
    <3> QED
      BY <1>10, <2>1, <3>1, <3>2
  <2>3. CASE d \notin S
    <3>1. IsFiniteSet(S) /\ S \cup {d} \in SUBSET M /\ S \cup {d} # {}
      BY <1>2, <1>5
    <3>2. Cardinality(S \cup {d}) = k + 1 /\ k + 1 \in 1..n
      <4>1. Cardinality(S \cup {d}) = k + 1
        BY <2>3, <3>1, FS_AddElement
      <4> QED
        BY <1>2, <3>1, <4>1
    <3>3. SumOver(u, S \cup {d}) = u[d] + SumOver(u, S)
      BY <1>3, <1>5, <2>3, <3>1, SumExtend
    <3>4. SumOver(u, S \cup {d}) <= b[k + 1] + t
      <4>1. SumOver(c, S \cup {d}) <= b[k + 1] /\ SumOver(w, S \cup {d}) <= t
        BY <1>4, <1>6, <3>1, <3>2
      <4>2. SumOver(u, S \cup {d}) = SumOver(c, S \cup {d}) + SumOver(w, S \cup {d})
        BY <1>10, <3>1
      <4>3. SumOver(c, S \cup {d}) \in Int /\ SumOver(w, S \cup {d}) \in Nat /\ b[k + 1] \in Nat
        BY <1>4, <1>7, <1>10, <3>1, <3>2
      <4> QED
        BY <1>4, <4>1, <4>2, <4>3
    <3>5. SumOver(u, S) <= k * u[d]
      BY <1>3, <1>5, <3>1, SumBound
    <3>6. (k + 1) * SumOver(u, S) <= k * (b[k + 1] + t)
      <4>1. PICK x \in Int : x = SumOver(u, S)
        BY <1>10
      <4>2. PICK y \in Int : y = u[d]
        BY <1>3, <1>5
      <4>3. PICK z \in Nat : z = b[k + 1] + t
        BY <1>4, <1>7, <3>2
      <4>4. x <= k * y /\ y + x <= z
        BY <3>3, <3>4, <3>5, <4>1, <4>2, <4>3
      <4>5. \A a \in Nat, p, q \in Int : p <= q => a * p <= a * q
        OBVIOUS
      <4>6. k * (y + x) <= k * z
        <5>1. k \in Nat /\ y + x \in Int /\ z \in Int
          BY <2>1
        <5> HIDE DEF k
        <5> QED
          BY <4>4, <4>5, <5>1
      <4>7. (k + 1) * x = k * x + x /\ k * (y + x) = k * y + k * x /\ k * x \in Int /\ k * y \in Int /\ k * z \in Int
        BY <2>1
      <4> HIDE DEF k
      <4>8. (k + 1) * x <= k * z
        BY <4>4, <4>6, <4>7
      <4> QED
        BY <4>1, <4>3, <4>8
    <3>7. SumOver(u, S) <= (k * (b[k + 1] + t)) \div (k + 1)
      <4>1. b[k + 1] + t \in Nat /\ k \in Nat /\ SumOver(u, S) \in Int
        BY <1>4, <1>7, <1>10, <2>1, <3>2
      <4> QED
        BY <3>6, <4>1, DivBound
    <3>8. b[k] = (k * (b[k + 1] + t)) \div (k + 1)
      BY <1>7, <2>1, <3>2
    <3> QED
      BY <1>11, <2>3, <3>7, <3>8
  <2> QED
    BY <2>2, <2>3
<1> QED
  BY <1>5, <1>9, <1>12, <1>14, <1>15 DEF Smooth, M, t, b

\* What has been picked in the round, at most what the weights add up to.
Counted(x, s) ==
  /\ LbShape(x) /\ x.pool \in 0..MaxPool /\ (x.pool > 0 => x.type \in Type)
  /\ x.weight \in [Proxy -> Nat] /\ x.counter \in 0..CounterSize - 1 /\ x.current \in [Proxy -> Int]
  /\ s \in [Proxy -> Nat]
  /\ \A i \in Members(x) : x.weight[i] > 0 /\ (x.type = "round-robin" => x.weight[i] = 1)
  /\ \A i \in Proxy \ Members(x) : s[i] = 0 /\ x.weight[i] = 0
  /\ SumOver(s, Proxy) <= Total(x)

\* A current weight is what its member is short of in the round.
Evens(x, s) ==
  x.type = "weighted" =>
    /\ Smooth(x.pool, x.weight, x.current)
    /\ \A i \in Members(x) : x.current[i] = SumOver(s, Proxy) * x.weight[i] - s[i] * Total(x)

\* A member is picked at most once, at one of the counter's latest values.
Taken(x, s, wr) ==
  x.type = "round-robin" /\ ~wr =>
    /\ SumOver(s, Proxy) <= x.counter
    /\ \A i \in Members(x) :
         /\ s[i] <= 1
         /\ s[i] = 1 => \E j \in x.counter - SumOver(s, Proxy)..x.counter - 1 : i = (j % x.pool) + 1

FairInv ==
  wrapped \in BOOLEAN /\ Counted(lb, served) /\ Evens(lb, served) /\ Taken(lb, served, wrapped)

\* The proxies and an instance's members.
LEMMA ProxyFinite ==
  ASSUME NEW x, x.pool \in 0..MaxPool
  PROVE  /\ IsFiniteSet(Proxy) /\ IsFiniteSet(Members(x))
         /\ Members(x) \in SUBSET Proxy /\ x.pool \in Nat /\ Members(x) = 1..x.pool
         /\ Cardinality(Members(x)) = x.pool
<1>1. MaxPool \in Nat /\ x.pool \in Nat /\ x.pool <= MaxPool
  BY BalancingAssumption
<1>2. Members(x) \in SUBSET Proxy
  BY <1>1 DEF Proxy, Members
<1>3. IsFiniteSet(Proxy) /\ IsFiniteSet(Members(x)) /\ Cardinality(Members(x)) = x.pool
  BY <1>1, MembersFinite DEF Proxy, Members
<1> QED
  BY <1>1, <1>2, <1>3 DEF Members

\* A sum of ones and a sum of zeros.
LEMMA SumConst ==
  ASSUME NEW S, IsFiniteSet(S), NEW f, NEW c \in {0, 1}, \A i \in S : f[i] = c
  PROVE  SumOver(f, S) = Cardinality(S) * c
<1> DEFINE Q == {T \in SUBSET S : SumOver(f, T) = Cardinality(T) * c}
<1>1. \A T \in SUBSET S : IsFiniteSet(T) /\ Cardinality(T) \in Nat
  BY FS_Subset, FS_CardinalityType
<1>2. {} \in Q
  BY SumEmpty, FS_EmptySet
<1>3. ASSUME NEW T \in SUBSET S, NEW x \in S \ T, T \in Q PROVE T \cup {x} \in Q
  <2>1. SumOver(f, T \cup {x}) = f[x] + SumOver(f, T)
    BY <1>1, SumExtend
  <2>2. Cardinality(T \cup {x}) = Cardinality(T) + 1
    BY <1>1, FS_AddElement
  <2> QED
    BY <1>1, <1>3, <2>1, <2>2
<1> HIDE DEF Q
<1>4. S \in Q
  BY <1>2, <1>3, FiniteInduction
<1> QED
  BY <1>4 DEF Q

\* Before the first pick of a round.
LEMMA ZeroSum ==
  ASSUME NEW S \in SUBSET Proxy
  PROVE  SumOver(Zero, S) = 0
<1>1. IsFiniteSet(S) /\ Cardinality(S) \in Nat
  BY MembersFinite, BalancingAssumption DEF Proxy
<1>2. \A i \in S : Zero[i] = 0
  BY DEF Zero
<1>3. ASSUME NEW z \in {0, 1}, z = 0 PROVE SumOver(Zero, S) = Cardinality(S) * z
  BY <1>1, <1>2, <1>3, SumConst
<1> QED
  BY <1>1, <1>3

\* The weights of the members add up to Total, over all proxies too; no empty
\* pool weighs anything and no other weighs nothing.
LEMMA TotalFacts ==
  ASSUME NEW x, x.pool \in 0..MaxPool, x.weight \in [Proxy -> Nat],
         \A i \in Members(x) : x.weight[i] > 0, \A i \in Proxy \ Members(x) : x.weight[i] = 0
  PROVE  /\ Total(x) \in Nat /\ SumOver(x.weight, Proxy) = Total(x)
         /\ x.pool > 0 => Total(x) > 0
         /\ (\A i \in Members(x) : x.weight[i] = 1) => Total(x) = x.pool
<1>1. /\ IsFiniteSet(Proxy) /\ IsFiniteSet(Members(x)) /\ x.pool \in Nat /\ Cardinality(Members(x)) = x.pool
      /\ Members(x) \in SUBSET Proxy /\ Members(x) = 1..x.pool
  BY ProxyFinite
<1>2. \A i \in Proxy : x.weight[i] \in Nat
  OBVIOUS
<1>3. Total(x) \in Nat /\ SumOver(x.weight, Proxy) = Total(x)
  <2>1. SumOver(x.weight, Members(x)) \in Nat /\ SumOver(x.weight, Members(x)) = SumOver(x.weight, Proxy)
    BY <1>1, <1>2, SumSubset
  <2> QED
    BY <2>1 DEF Total
<1>4. ASSUME x.pool > 0 PROVE Total(x) > 0
  <2>1. 1 \in Members(x) /\ {1} \in SUBSET Members(x) /\ x.weight[1] \in Nat /\ x.weight[1] > 0
    BY <1>1, <1>4
  <2>2. SumOver(x.weight, {1}) = x.weight[1] + SumOver(x.weight, {1} \ {1})
    <3>1. IsFiniteSet({1}) /\ \A i \in {1} : x.weight[i] \in Int
      BY <1>1, <2>1, FS_Subset
    <3> QED
      BY <3>1, SumRemove
  <2>3. SumOver(x.weight, {1} \ {1}) = 0
    <3>1. {1} \ {1} = {}
      OBVIOUS
    <3> QED
      BY <3>1, SumEmpty
  <2>4. SumOver(x.weight, {1}) <= SumOver(x.weight, Members(x))
    <3>1. \A i \in Members(x) : x.weight[i] \in Nat
      BY <1>1, <1>2
    <3> QED
      BY <1>1, <2>1, <3>1, SumSubset
  <2> QED
    BY <1>3, <2>1, <2>2, <2>3, <2>4 DEF Total
<1>5. ASSUME \A i \in Members(x) : x.weight[i] = 1 PROVE Total(x) = x.pool
  <2>1. ASSUME NEW z \in {0, 1}, z = 1 PROVE SumOver(x.weight, Members(x)) = Cardinality(Members(x)) * z
    BY <1>1, <1>5, <2>1, SumConst
  <2> QED
    BY <1>1, <2>1 DEF Total
<1> QED
  BY <1>3, <1>4, <1>5

\* Nothing is picked of a fresh instance.
LEMMA FreshFair ==
  ASSUME NEW x \in Built \cup {NotFound}
  PROVE  Counted(x, Zero) /\ Evens(x, Zero) /\ Taken(x, Zero, FALSE)
<1>0. MaxPool \in Nat /\ CounterSize \in Nat /\ CounterSize > 1
  BY BalancingAssumption
<1>1. /\ LbShape(x) /\ x.pool \in 0..MaxPool /\ x.current = Zero /\ x.counter = 0
      /\ x.pool > 0 => x.type \in Type
      /\ x.type = "weighted" => x.pool > 0
      /\ x.weight \in [Proxy -> Nat]
      /\ \A i \in Proxy : IF i <= x.pool
                            THEN x.weight[i] > 0 /\ (x.type = "round-robin" => x.weight[i] = 1)
                            ELSE x.weight[i] = 0
  <2>1. CASE x = NotFound
    <3>1. \A i \in Proxy : i > 0 /\ i \in Nat /\ Zero[i] = 0
      BY DEF Proxy, Zero
    <3>2. Zero \in [Proxy -> Nat]
      BY DEF Zero
    <3> QED
      BY <1>0, <2>1, <3>1, <3>2 DEF NotFound, LbShape
  <2>2. CASE x \in Built
    <3>1. PICK t \in Type, n \in 0..MaxPool, w \in [Proxy -> 1..MaxWeight] :
            x = Build(t, n, w) /\ (t = "weighted" => n # 0)
      <4>1. PICK t \in Type, n \in 0..MaxPool, w \in [Proxy -> 1..MaxWeight] : x = Build(t, n, w)
        BY <2>2 DEF Built
      <4>2. x \notin {Build("weighted", 0, ww) : ww \in [Proxy -> 1..MaxWeight]}
        BY <2>2 DEF Built
      <4> QED
        BY <4>1, <4>2
    <3> DEFINE v == [i \in Proxy |->
                       IF i > n THEN 0 ELSE IF t = "weighted" THEN w[i] ELSE 1]
    <3>2. x = [NotFound EXCEPT !.type = t, !.pool = n, !.weight = v]
      BY <3>1 DEF Build
    <3>3. \A i \in Proxy : i \in Nat /\ w[i] \in Nat /\ w[i] > 0
      BY DEF Proxy
    <3>4. /\ v \in [Proxy -> Nat]
          /\ \A i \in Proxy : IF i <= n THEN v[i] > 0 /\ (t = "round-robin" => v[i] = 1) ELSE v[i] = 0
      BY <1>0, <3>3
    <3> HIDE DEF v
    <3>5. /\ x.type = t /\ x.pool = n /\ x.weight = v /\ x.counter = 0 /\ x.current = Zero /\ LbShape(x)
      BY <3>2 DEF NotFound, LbShape
    <3>6. n > 0 <=> n # 0
      BY <1>0
    <3> QED
      BY <3>1, <3>4, <3>5, <3>6
  <2> QED
    BY <2>1, <2>2
<1>2. /\ Members(x) \in SUBSET Proxy /\ x.pool \in Nat /\ Members(x) = 1..x.pool
  BY <1>1, ProxyFinite
<1>3. /\ \A i \in Members(x) : x.weight[i] > 0 /\ (x.type = "round-robin" => x.weight[i] = 1)
      /\ \A i \in Proxy \ Members(x) : x.weight[i] = 0
  BY <1>1, <1>2 DEF Proxy
<1>4. Total(x) \in Nat /\ (x.pool > 0 => Total(x) > 0)
  BY <1>1, <1>3, TotalFacts
<1>5. SumOver(Zero, Proxy) = 0 /\ Zero \in [Proxy -> Nat] /\ Zero \in [Proxy -> Int] /\ \A i \in Proxy : Zero[i] = 0
  BY ZeroSum DEF Zero
<1>6. Counted(x, Zero)
  BY <1>0, <1>1, <1>2, <1>3, <1>4, <1>5 DEF Counted
<1>7. Evens(x, Zero)
  <2> SUFFICES ASSUME x.type = "weighted"
               PROVE  /\ Smooth(x.pool, x.weight, x.current)
                      /\ \A i \in Members(x) :
                           x.current[i] = SumOver(Zero, Proxy) * x.weight[i] - Zero[i] * Total(x)
    BY DEF Evens
  <2>1. \A i \in Members(x) : x.current[i] = SumOver(Zero, Proxy) * x.weight[i] - Zero[i] * Total(x)
    <3> SUFFICES ASSUME NEW i \in Members(x)
                 PROVE  x.current[i] = SumOver(Zero, Proxy) * x.weight[i] - Zero[i] * Total(x)
      OBVIOUS
    <3>1. x.current[i] = 0 /\ Zero[i] = 0 /\ x.weight[i] \in Nat
      BY <1>1, <1>2, <1>5
    <3> QED
      BY <1>4, <1>5, <3>1
  <2>2. Total(x) > 0 /\ Total(x) = SumOver(x.weight, 1..x.pool)
    BY <1>1, <1>2, <1>4 DEF Total
  <2>3. \A i \in 1..x.pool : x.current[i] = 0
    BY <1>1, <1>2, <1>5
  <2>4. \A S \in SUBSET (1..x.pool) : SumOver(x.current, S) = 0
    BY <1>1, <1>2, ZeroSum
  <2>5. ASSUME NEW S \in SUBSET (1..x.pool), S # {}
        PROVE  SumOver(x.current, S) <= Behind(x.pool, SumOver(x.weight, 1..x.pool))[Cardinality(S)]
    <3>1. Cardinality(S) \in 1..x.pool
      BY <1>2, <2>5, MembersFinite
    <3>2. Behind(x.pool, SumOver(x.weight, 1..x.pool))[Cardinality(S)] \in Nat
      BY <1>2, <1>4, <2>2, <3>1, BehindNat
    <3> QED
      BY <2>4, <3>2
  <2>6. \A i \in 1..x.pool : x.current[i] \in Int /\ -SumOver(x.weight, 1..x.pool) < x.current[i]
    BY <1>4, <2>2, <2>3
  <2>7. Smooth(x.pool, x.weight, x.current)
    BY <2>4, <2>5, <2>6 DEF Smooth
  <2> QED
    BY <2>1, <2>7
<1>8. Taken(x, Zero, FALSE)
  <2>1. \A i \in Members(x) : Zero[i] = 0
    BY <1>2, <1>5
  <2> QED
    BY <1>1, <1>5, <2>1 DEF Taken
<1> QED
  BY <1>6, <1>7, <1>8

\* A round that is over has given each member its weight.
LEMMA RoundExact ==
  ASSUME NEW x, NEW s, NEW wr \in BOOLEAN, Counted(x, s), Evens(x, s), Taken(x, s, wr),
         SumOver(s, Proxy) = Total(x), x.type = "weighted" \/ (x.type = "round-robin" /\ ~wr)
  PROVE  \A i \in Proxy : s[i] = x.weight[i]
<1> DEFINE t == Total(x)
<1>1. /\ IsFiniteSet(Proxy) /\ Members(x) \in SUBSET Proxy /\ Members(x) = 1..x.pool
      /\ t \in Nat /\ SumOver(x.weight, Proxy) = t /\ (x.pool > 0 => t > 0) /\ x.pool \in Nat
  BY ProxyFinite, TotalFacts DEF Counted
<1>2. /\ \A i \in Proxy : s[i] \in Nat /\ x.weight[i] \in Nat
      /\ \A i \in Proxy \ Members(x) : s[i] = 0 /\ x.weight[i] = 0
  BY DEF Counted
<1> HIDE DEF t
<1>3. ASSUME NEW i \in Members(x) PROVE s[i] <= x.weight[i]
  <2>1. CASE x.type = "weighted"
    <3>1. -t < x.current[i] /\ x.current[i] = t * x.weight[i] - s[i] * t
      <4>1. x.current[i] = t * x.weight[i] - s[i] * t
        BY <2>1 DEF Evens, t
      <4>2. -SumOver(x.weight, 1..x.pool) < x.current[i]
        BY <1>1, <2>1 DEF Evens, Smooth
      <4> QED
        BY <1>1, <4>1, <4>2 DEF t, Total
    <3>2. \A m \in Nat, a, b \in Nat : -m < m * a - b * m /\ m > 0 => b <= a
      <4> SUFFICES ASSUME NEW m \in Nat, NEW a \in Nat, NEW b \in Nat, -m < m * a - b * m, m > 0, b > a
                   PROVE  FALSE
        OBVIOUS
      <4>1. PICK k \in Nat : b = a + 1 + k
        <5>1. b - a - 1 \in Nat /\ b = a + 1 + (b - a - 1)
          OBVIOUS
        <5> QED
          BY <5>1
      <4>2. (a + 1 + k) * m = m * a + m + m * k /\ m * k \in Nat /\ m * a \in Nat
        OBVIOUS
      <4> QED
        BY <4>1, <4>2
    <3>3. t > 0 /\ x.weight[i] \in Nat /\ s[i] \in Nat
      BY <1>1, <1>2
    <3> QED
      BY <1>1, <3>1, <3>2, <3>3
  <2>2. CASE x.type = "round-robin" /\ ~wr
    BY <1>1, <1>2, <2>2 DEF Taken, Counted
  <2> QED
    BY <2>1, <2>2
<1>4. \A i \in Proxy : s[i] \in Int /\ x.weight[i] \in Int /\ s[i] <= x.weight[i]
  BY <1>2, <1>3
<1>5. SumOver(s, Proxy) = SumOver(x.weight, Proxy)
  BY <1>1 DEF t
<1> QED
  BY <1>1, <1>4, <1>5, SumOrder

\* The next round starts where the instance was at first, but for the counter.
LEMMA Restart ==
  ASSUME NEW x, NEW s, NEW wr \in BOOLEAN, Counted(x, s), Evens(x, s), Taken(x, s, wr),
         SumOver(s, Proxy) = Total(x)
  PROVE  Counted(x, Zero) /\ Evens(x, Zero) /\ Taken(x, Zero, FALSE)
<1>1. /\ Total(x) \in Nat /\ Members(x) \in SUBSET Proxy
      /\ SumOver(Zero, Proxy) = 0 /\ Zero \in [Proxy -> Nat] /\ \A i \in Proxy : Zero[i] = 0
  <2>1. Total(x) \in Nat /\ Members(x) \in SUBSET Proxy
    BY ProxyFinite, TotalFacts DEF Counted
  <2>2. SumOver(Zero, Proxy) = 0 /\ Zero \in [Proxy -> Nat] /\ \A i \in Proxy : Zero[i] = 0
    BY ZeroSum DEF Zero
  <2> QED
    BY <2>1, <2>2
<1>2. Counted(x, Zero)
  BY <1>1 DEF Counted
<1>3. Evens(x, Zero)
  <2> SUFFICES ASSUME x.type = "weighted", NEW i \in Members(x)
               PROVE  x.current[i] = SumOver(Zero, Proxy) * x.weight[i] - Zero[i] * Total(x)
    BY DEF Evens
  <2>1. x.current[i] = Total(x) * x.weight[i] - s[i] * Total(x)
    BY DEF Evens
  <2>2. s[i] = x.weight[i] /\ s[i] \in Nat /\ Zero[i] = 0
    BY <1>1, RoundExact DEF Counted
  <2>3. \A a, b \in Nat : a * b - b * a = 0 /\ 0 * b - 0 * a = 0
    OBVIOUS
  <2>4. x.current[i] = 0
    BY <1>1, <2>1, <2>2, <2>3
  <2>5. 0 * x.weight[i] - 0 * Total(x) = 0
    BY <1>1, <2>2, <2>3
  <2> QED
    BY <1>1, <2>2, <2>4, <2>5
<1>4. Taken(x, Zero, FALSE)
  <2>1. x.counter \in Nat /\ \A i \in Members(x) : Zero[i] = 0
    BY <1>1, BalancingAssumption DEF Counted
  <2> QED
    BY <1>1, <2>1 DEF Taken
<1> QED
  BY <1>2, <1>3, <1>4

\* d is picked once more.
Plus(s, d) == [s EXCEPT ![d] = @ + 1]

\* One more pick in a round that is not over.
LEMMA PickCounted ==
  ASSUME NEW x, NEW s, Counted(x, s), SumOver(s, Proxy) < Total(x),
         NEW y, LbShape(y), y.type = x.type, y.pool = x.pool, y.weight = x.weight,
         y.counter \in 0..CounterSize - 1, y.current \in [Proxy -> Int],
         NEW d \in Members(x)
  PROVE  /\ Counted(y, Plus(s, d)) /\ Members(y) = Members(x) /\ Total(y) = Total(x)
         /\ SumOver(Plus(s, d), Proxy) = SumOver(s, Proxy) + 1 /\ SumOver(s, Proxy) \in Nat /\ Total(x) \in Nat
         /\ Members(x) \in SUBSET Proxy /\ Members(x) = 1..x.pool /\ x.pool \in Nat
<1> DEFINE s2 == Plus(s, d)
<1>1. /\ IsFiniteSet(Proxy) /\ Members(x) \in SUBSET Proxy /\ Total(x) \in Nat
      /\ Members(x) = 1..x.pool /\ x.pool \in Nat
  BY ProxyFinite, TotalFacts DEF Counted
<1>2. Members(y) = Members(x) /\ Total(y) = Total(x)
  BY DEF Members, Total
<1>3. s2 \in [Proxy -> Nat] /\ s2[d] = s[d] + 1 /\ \A i \in Proxy : i # d => s2[i] = s[i]
  BY <1>1 DEF Counted, Plus
<1> HIDE DEF s2
<1>4. \A i \in Proxy : s[i] \in Nat /\ s2[i] \in Nat
  BY <1>3 DEF Counted
<1>5. SumOver(s2, Proxy) = SumOver(s, Proxy) - s[d] + s2[d]
  <2>1. d \in Proxy /\ \A i \in Proxy : s[i] \in Int /\ s2[i] \in Int /\ (i # d => s[i] = s2[i])
    BY <1>1, <1>3, <1>4
  <2> QED
    BY <1>1, <2>1, SumChange
<1>6. SumOver(s, Proxy) \in Nat
  <2>1. Proxy \in SUBSET Proxy
    OBVIOUS
  <2> QED
    BY <1>1, <1>4, <2>1, SumSubset
<1>7. SumOver(s2, Proxy) = SumOver(s, Proxy) + 1
  BY <1>1, <1>3, <1>4, <1>5, <1>6
<1>8. Counted(y, s2)
  <2>1. /\ y.pool \in 0..MaxPool /\ (y.pool > 0 => y.type \in Type)
        /\ y.weight \in [Proxy -> Nat]
    BY DEF Counted
  <2>2. \A i \in Members(y) : y.weight[i] > 0 /\ (y.type = "round-robin" => y.weight[i] = 1)
    BY <1>2 DEF Counted
  <2>3. \A i \in Proxy \ Members(y) : s2[i] = 0 /\ y.weight[i] = 0
    BY <1>2, <1>3 DEF Counted
  <2>4. SumOver(s2, Proxy) <= Total(y)
    BY <1>1, <1>2, <1>6, <1>7
  <2> QED
    BY <1>3, <2>1, <2>2, <2>3, <2>4, Zenon DEF Counted
<1> QED
  BY <1>1, <1>2, <1>6, <1>7, <1>8 DEF s2

\* Distinct numbers less than n apart differ modulo n.
LEMMA ModDistinct ==
  ASSUME NEW a \in Nat, NEW b \in Nat, NEW n \in Nat \ {0}, a < b, b - a < n
  PROVE  a % n # b % n
<1> SUFFICES ASSUME a % n = b % n PROVE FALSE
  OBVIOUS
<1>1. \A c \in Nat : \E p \in Nat : c = n * p + (c % n)
  <2> SUFFICES ASSUME NEW c \in Nat PROVE c = n * (c \div n) + (c % n) /\ c \div n \in Nat
    OBVIOUS
  <2> QED
    OBVIOUS
<1>2. PICK p \in Nat, q \in Nat, r \in Nat : a = n * p + r /\ b = n * q + r
  <2>1. PICK p \in Nat : a = n * p + (a % n)
    BY <1>1
  <2>2. PICK q \in Nat : b = n * q + (b % n)
    BY <1>1
  <2>3. a % n \in Nat
    OBVIOUS
  <2> QED
    BY <2>1, <2>2, <2>3
<1>3. n * p \in Nat /\ n * q \in Nat
  OBVIOUS
<1>4. n * p < n * q /\ n * q < n * p + n
  BY <1>2, <1>3
<1>5. \A m \in Nat \ {0}, c, d \in Nat : m * c < m * d => m * d >= m * c + m
  <2> SUFFICES ASSUME NEW m \in Nat \ {0}, NEW c \in Nat, NEW d \in Nat, m * c < m * d
               PROVE  m * d >= m * c + m
    OBVIOUS
  <2>1. c < d
    <3>1. \A e, f \in Nat : e >= f => m * e >= m * f
      OBVIOUS
    <3> QED
      BY <3>1
  <2>2. PICK k \in Nat : d = c + 1 + k
    <3>1. d - c - 1 \in Nat /\ d = c + 1 + (d - c - 1)
      BY <2>1
    <3> QED
      BY <3>1
  <2>3. m * (c + 1 + k) = m * c + m + m * k /\ m * k \in Nat /\ m * c \in Nat
    OBVIOUS
  <2> QED
    BY <2>2, <2>3
<1>6. n * q >= n * p + n
  BY <1>4, <1>5
<1> QED
  BY <1>3, <1>4, <1>6

\* One pick of the weighted balancer.
LEMMA WeightedPick ==
  ASSUME NEW x, NEW s, Counted(x, s), Evens(x, s), SumOver(s, Proxy) < Total(x), x.type = "weighted",
         NEW d, d = WeightedNext(x).proxy, NEW y, y = WeightedNext(x).next
  PROVE  /\ d \in Members(x) /\ y.counter = x.counter /\ y.type = x.type
         /\ Counted(y, Plus(s, d)) /\ Evens(y, Plus(s, d))
<1> DEFINE n == x.pool
           w == x.weight
           c == x.current
           t == Total(x)
           u == [i \in Proxy |-> c[i] + w[i]]
           v == [u EXCEPT ![d] = @ - t]
           s2 == Plus(s, d)
<1>1. d = FirstBest(u, Members(x)) /\ y = [x EXCEPT !.current = v]
  BY DEF WeightedNext
<1>2. /\ Members(x) \in SUBSET Proxy /\ Members(x) = 1..n /\ n \in Nat /\ t \in Nat /\ t = SumOver(w, 1..n)
      /\ w \in [Proxy -> Nat] /\ c \in [Proxy -> Int] /\ LbShape(x) /\ x.counter \in 0..CounterSize - 1
  BY ProxyFinite, TotalFacts DEF Counted, Total
<1>3. /\ LbShape(y) /\ y.type = x.type /\ y.pool = n /\ y.weight = w /\ y.counter = x.counter
      /\ y.current = v
  BY <1>1, <1>2 DEF LbShape
<1>4. u \in [Proxy -> Int] /\ v \in [Proxy -> Int]
      /\ \A i \in Proxy : u[i] = c[i] + w[i] /\ (v[i] = IF i = d THEN u[i] - t ELSE u[i])
  <2>1. t \in Int /\ \A i \in Proxy : w[i] \in Int /\ c[i] \in Int
    BY <1>2
  <2>2. u \in [Proxy -> Int] /\ \A i \in Proxy : u[i] = c[i] + w[i]
    BY <2>1
  <2> HIDE DEF u, t
  <2>3. DOMAIN v = Proxy /\ v = [i \in Proxy |-> v[i]]
    BY <2>2
  <2>4. \A i \in Proxy : v[i] = IF i = d THEN u[i] - t ELSE u[i]
    BY <2>2
  <2>5. \A i \in Proxy : u[i] \in Int /\ u[i] - t \in Int
    BY <2>1, <2>2
  <2> HIDE DEF v
  <2>6. v \in [Proxy -> Int]
    BY <2>3, <2>4, <2>5
  <2> QED
    BY <2>2, <2>4, <2>6
<1>5. n \in Nat \ {0} /\ \A i \in 1..n : w[i] \in Nat \ {0}
  <2>1. SumOver(s, Proxy) \in Nat
    <3>1. IsFiniteSet(Proxy) /\ Proxy \in SUBSET Proxy /\ \A i \in Proxy : s[i] \in Nat
      BY ProxyFinite DEF Counted
    <3> QED
      BY <3>1, SumSubset
  <2>2. n # 0
    <3>1. n = 0 => Members(x) = {}
      BY <1>2
    <3>2. Members(x) = {} => Total(x) = 0
      BY SumEmpty DEF Total
    <3> QED
      BY <1>2, <2>1, <3>1, <3>2
  <2> QED
    BY <1>2, <2>2 DEF Counted
<1>6. Smooth(n, w, c) /\ \A i \in 1..n : c[i] = SumOver(s, Proxy) * w[i] - s[i] * t
  BY <1>2 DEF Evens
<1>7. \A i \in Proxy : s2[i] = IF i = d THEN s[i] + 1 ELSE s[i]
  BY DEF Counted, Plus
<1> HIDE DEF u, v, t, n, w, c, s2
<1>8. d \in 1..n /\ Smooth(n, w, v)
  <2>1. PickMoves(n, w, c, d, v)
    <3>1. /\ \A i \in 1..n : u[i] = c[i] + w[i]
          /\ d = FirstBest(u, 1..n)
          /\ \A i \in 1..n : v[i] = IF i = d THEN u[i] - SumOver(w, 1..n) ELSE u[i]
      BY <1>1, <1>2, <1>4
    <3> QED
      BY <1>5, <3>1 DEF PickMoves
  <2> QED
    BY <1>5, <1>6, <2>1, SmoothPick
<1>9. /\ Counted(y, s2) /\ Members(y) = Members(x) /\ Total(y) = t
      /\ SumOver(s2, Proxy) = SumOver(s, Proxy) + 1 /\ SumOver(s, Proxy) \in Nat
  <2>1. d \in Members(x) /\ y.pool = x.pool /\ y.weight = x.weight /\ y.current \in [Proxy -> Int]
    BY <1>2, <1>3, <1>4, <1>8 DEF n, w
  <2> QED
    BY <1>2, <1>3, <2>1, PickCounted, ZenonT(40) DEF t, s2
<1>10. ASSUME NEW i \in Members(y) PROVE v[i] = SumOver(s2, Proxy) * w[i] - s2[i] * t
  <2>1. /\ i \in Proxy /\ i \in 1..n /\ w[i] \in Int /\ c[i] = SumOver(s, Proxy) * w[i] - s[i] * t
        /\ s[i] \in Int /\ SumOver(s, Proxy) \in Int /\ t \in Int
    BY <1>2, <1>6, <1>9 DEF Counted
  <2>2. \A p, a, b, m \in Int : /\ (p + 1) * a - b * m = p * a - b * m + a
                                /\ (p + 1) * a - (b + 1) * m = p * a - b * m + a - m
    <3>1. \A p, a \in Int : (p + 1) * a = p * a + a /\ p * a \in Int
      OBVIOUS
    <3> QED
      BY <3>1
  <2>3. PICK p \in Int, a \in Int, b \in Int : p = SumOver(s, Proxy) /\ a = w[i] /\ b = s[i]
    BY <2>1
  <2>4. CASE i = d
    <3>1. v[i] = c[i] + w[i] - t /\ s2[i] = s[i] + 1
      BY <1>4, <1>7, <2>1, <2>4
    <3>2. (SumOver(s, Proxy) + 1) * w[i] - (s[i] + 1) * t = SumOver(s, Proxy) * w[i] - s[i] * t + w[i] - t
      <4>1. (p + 1) * a - (b + 1) * t = p * a - b * t + a - t
        BY <2>1, <2>2
      <4> QED
        BY <2>3, <4>1
    <3> QED
      BY <1>9, <2>1, <3>1, <3>2
  <2>5. CASE i # d
    <3>1. v[i] = c[i] + w[i] /\ s2[i] = s[i]
      BY <1>4, <1>7, <2>1, <2>5
    <3>2. (SumOver(s, Proxy) + 1) * w[i] - s[i] * t = SumOver(s, Proxy) * w[i] - s[i] * t + w[i]
      <4>1. (p + 1) * a - b * t = p * a - b * t + a
        BY <2>1, <2>2
      <4> QED
        BY <2>3, <4>1
    <3> QED
      BY <1>9, <2>1, <3>1, <3>2
  <2> QED
    BY <2>4, <2>5
<1>11. Evens(y, s2)
  BY <1>3, <1>8, <1>9, <1>10 DEF Evens
<1> QED
  BY <1>2, <1>3, <1>8, <1>9, <1>11 DEF n, s2

\* One pick of the round-robin balancer.
LEMMA RoundRobinPick ==
  ASSUME NEW x, NEW s, NEW wr \in BOOLEAN, Counted(x, s), Taken(x, s, wr), SumOver(s, Proxy) < Total(x),
         x.type = "round-robin",
         NEW d, d = RoundRobinNext(x).proxy, NEW y, y = RoundRobinNext(x).next
  PROVE  /\ d \in Members(x) /\ y.type = x.type
         /\ Counted(y, Plus(s, d)) /\ Taken(y, Plus(s, d), wr \/ y.counter < x.counter)
<1> DEFINE n == x.pool
           c == x.counter
           p == SumOver(s, Proxy)
           s2 == Plus(s, d)
<1>1. /\ Members(x) \in SUBSET Proxy /\ Members(x) = 1..n /\ n \in Nat /\ Total(x) = n /\ p \in Nat
      /\ c \in 0..CounterSize - 1 /\ x.current \in [Proxy -> Int] /\ LbShape(x)
      /\ CounterSize \in Nat /\ CounterSize > 1
  <2>1. Members(x) \in SUBSET Proxy /\ Members(x) = 1..n /\ n \in Nat /\ Total(x) = n
    BY ProxyFinite, TotalFacts DEF Counted
  <2>2. IsFiniteSet(Proxy) /\ Proxy \in SUBSET Proxy /\ \A i \in Proxy : s[i] \in Nat
    BY ProxyFinite DEF Counted
  <2> QED
    BY <2>1, <2>2, SumSubset, BalancingAssumption DEF Counted
<1>2. d = (c % n) + 1 /\ y = [x EXCEPT !.counter = (c + 1) % CounterSize]
  BY DEF RoundRobinNext
<1>3. /\ LbShape(y) /\ y.type = x.type /\ y.pool = x.pool /\ y.weight = x.weight
      /\ y.current = x.current /\ y.counter = (c + 1) % CounterSize
  BY <1>1, <1>2 DEF LbShape
<1>4. p < n
  BY <1>1
<1>5. \A i \in Proxy : s2[i] = IF i = d THEN s[i] + 1 ELSE s[i]
  BY DEF Counted, Plus
<1> HIDE DEF p, s2
<1>6. IF c + 1 < CounterSize THEN (c + 1) % CounterSize = c + 1
                             ELSE (c + 1) % CounterSize = 0 /\ c > 0
  <2>1. \A a \in Nat, m \in Nat \ {0} : (a < m => a % m = a) /\ m % m = 0
    OBVIOUS
  <2>2. c \in Nat /\ (c + 1 < CounterSize \/ c + 1 = CounterSize) /\ CounterSize \in Nat \ {0}
    BY <1>1
  <2>3. c + 1 = CounterSize => c > 0
    BY <1>1, <2>2
  <2> HIDE DEF c
  <2> QED
    BY <2>1, <2>2, <2>3
<1>7. d \in Members(x) /\ y.counter \in 0..CounterSize - 1
  <2>1. c % n \in 0..(n - 1)
    BY <1>1, <1>4
  <2>2. y.counter \in 0..CounterSize - 1
    <3> HIDE DEF c
    <3> QED
      BY <1>1, <1>3, <1>6
  <2>3. d \in 1..n
    BY <1>1, <1>2, <2>1
  <2> QED
    BY <1>1, <2>2, <2>3
<1>8. Counted(y, s2) /\ Members(y) = Members(x) /\ SumOver(s2, Proxy) = p + 1
  BY <1>1, <1>3, <1>7, PickCounted DEF p, s2
<1>9. ASSUME ~wr, ~(y.counter < x.counter)
      PROVE  /\ SumOver(s2, Proxy) <= y.counter
             /\ \A i \in Members(y) :
                  /\ s2[i] <= 1
                  /\ s2[i] = 1 => \E j \in y.counter - SumOver(s2, Proxy)..y.counter - 1 : i = (j % y.pool) + 1
  <2>1. /\ p <= c
        /\ \A i \in Members(x) : /\ s[i] <= 1
                                 /\ s[i] = 1 => \E j \in c - p..c - 1 : i = (j % n) + 1
    BY <1>9 DEF Taken, p
  <2>2. y.counter = c + 1
    BY <1>1, <1>3, <1>6, <1>9
  <2>3. ASSUME NEW i \in Members(x)
        PROVE  /\ s2[i] <= 1
               /\ s2[i] = 1 => \E j \in c - p..c : i = (j % n) + 1
    <3>1. i \in Proxy /\ s[i] \in Nat
      BY <1>1 DEF Counted
    <3>2. CASE i # d
      <4>1. s2[i] = s[i] /\ s[i] <= 1
        BY <1>5, <2>1, <3>1, <3>2
      <4>2. ASSUME s[i] = 1 PROVE \E j \in c - p..c : i = (j % n) + 1
        <5>1. PICK j \in c - p..c - 1 : i = (j % n) + 1
          BY <2>1, <4>2
        <5>2. j \in c - p..c
          BY <1>1
        <5> QED
          BY <5>1, <5>2
      <4> QED
        BY <4>1, <4>2
    <3>3. CASE i = d
      <4>1. s[i] # 1
        <5> SUFFICES ASSUME s[i] = 1 PROVE FALSE
          OBVIOUS
        <5>1. PICK j \in c - p..c - 1 : i = (j % n) + 1
          BY <2>1
        <5>2. j \in Nat /\ c \in Nat /\ j < c /\ c - j < n /\ n \in Nat \ {0}
          BY <1>1, <1>4, <2>1
        <5>3. j % n # c % n /\ j % n \in Nat /\ c % n \in Nat
          <6> HIDE DEF c, n
          <6>1. j % n # c % n
            BY <5>2, ModDistinct
          <6>2. \A a \in Nat, m \in Nat \ {0} : a % m \in Nat
            OBVIOUS
          <6> QED
            BY <5>2, <6>1, <6>2
        <5> QED
          BY <1>2, <3>3, <5>1, <5>3
      <4>2. s[i] = 0 /\ s2[i] = 1
        BY <1>5, <2>1, <3>1, <3>3, <4>1
      <4>3. c \in c - p..c
        BY <1>1
      <4> QED
        BY <1>2, <3>3, <4>2, <4>3
    <3> QED
      BY <3>2, <3>3
  <2>4. y.counter - SumOver(s2, Proxy) = c - p /\ y.counter - 1 = c /\ SumOver(s2, Proxy) <= y.counter
    BY <1>1, <1>8, <2>1, <2>2
  <2> QED
    BY <1>3, <1>8, <2>3, <2>4
<1>10. Taken(y, s2, wr \/ y.counter < x.counter)
  BY <1>9 DEF Taken
<1> QED
  BY <1>3, <1>7, <1>8, <1>10 DEF s2

\* Whatever the algorithm, a pick in a round that is not over is counted right.
LEMMA PickFair ==
  ASSUME BalanceTyped, lb.pool > 0, NEW s, NEW wr \in BOOLEAN,
         Counted(lb, s), Evens(lb, s), Taken(lb, s, wr), SumOver(s, Proxy) < Total(lb),
         NEW d, d = NextProxy(lb).proxy, NEW y, y = NextProxy(lb).next
  PROVE  /\ Counted(y, Plus(s, d)) /\ Evens(y, Plus(s, d))
         /\ Taken(y, Plus(s, d), wr \/ y.counter < lb.counter)
<1>1. CASE lb.type = "round-robin"
  <2>1. d = RoundRobinNext(lb).proxy /\ y = RoundRobinNext(lb).next
    BY <1>1 DEF NextProxy
  <2>2. y.type = lb.type /\ Counted(y, Plus(s, d)) /\ Taken(y, Plus(s, d), wr \/ y.counter < lb.counter)
    BY <1>1, <2>1, RoundRobinPick
  <2> QED
    BY <1>1, <2>2 DEF Evens
<1>2. CASE lb.type = "weighted"
  <2>1. d = WeightedNext(lb).proxy /\ y = WeightedNext(lb).next
    BY <1>2 DEF NextProxy
  <2>2. y.type = lb.type /\ Counted(y, Plus(s, d)) /\ Evens(y, Plus(s, d))
    BY <1>2, <2>1, WeightedPick
  <2> QED
    BY <1>2, <2>2 DEF Taken
<1>3. CASE lb.type = "least-bytes"
  <2>1. d = LeastBytesNext(lb).proxy /\ y = LeastBytesNext(lb).next
    BY <1>3 DEF NextProxy
  <2> DEFINE b == IF due THEN Zero ELSE lb.bytes
  <2>2. d \in Members(lb) /\ y = [lb EXCEPT !.bytes = b]
    BY <2>1, LeastBytesPick
  <2> HIDE DEF b
  <2>3. /\ LbShape(y) /\ y.type = lb.type /\ y.pool = lb.pool /\ y.weight = lb.weight
        /\ y.counter = lb.counter /\ y.current = lb.current
    BY <2>2 DEF BalanceTyped, LbShape
  <2>4. y.counter \in 0..CounterSize - 1 /\ y.current \in [Proxy -> Int]
    BY <2>3 DEF Counted
  <2>5. Counted(y, Plus(s, d))
    BY <2>2, <2>3, <2>4, PickCounted
  <2> QED
    BY <1>3, <2>3, <2>5 DEF Evens, Taken
<1> QED
  BY <1>1, <1>2, <1>3 DEF BalanceTyped, Type

\* A pick made by ExecuteFlow, the first of a round or a later one.
LEMMA ExecuteFlowFair ==
  ASSUME BalanceTyped, FairInv, NEW r \in Request, ExecuteFlow(r)
  PROVE  FairInv'
<1> DEFINE d == NextProxy(lb).proxy
           y == NextProxy(lb).next
           s == IF RoundOver THEN Zero ELSE served
           wr == ~RoundOver /\ wrapped
<1>0. wrapped \in BOOLEAN /\ (lb'.counter < lb.counter) \in BOOLEAN
  BY DEF FairInv
<1>1. /\ lb.pool > 0 /\ lb' = y
      /\ served' = Plus(s, d) /\ wrapped' = (wr \/ lb'.counter < lb.counter)
  BY DEF ExecuteFlow, CountPick, Plus
<1>2. wr \in BOOLEAN /\ Counted(lb, s) /\ Evens(lb, s) /\ Taken(lb, s, wr) /\ SumOver(s, Proxy) < Total(lb)
  <2>1. Total(lb) \in Nat /\ Total(lb) > 0
    BY <1>1, TotalFacts DEF FairInv, Counted
  <2>2. CASE RoundOver
    <3>1. Counted(lb, Zero) /\ Evens(lb, Zero) /\ Taken(lb, Zero, FALSE)
      BY <2>2, Restart DEF FairInv, RoundOver, Picks
    <3>2. SumOver(Zero, Proxy) = 0
      BY ZeroSum
    <3> QED
      BY <2>1, <2>2, <3>1, <3>2
  <2>3. CASE ~RoundOver
    <3>1. SumOver(served, Proxy) \in Nat
      <4>1. IsFiniteSet(Proxy) /\ Proxy \in SUBSET Proxy /\ \A i \in Proxy : served[i] \in Nat
        BY ProxyFinite DEF FairInv, Counted
      <4> QED
        BY <4>1, SumSubset
    <3>2. SumOver(served, Proxy) < Total(lb)
      BY <2>1, <2>3, <3>1 DEF FairInv, Counted, RoundOver, Picks
    <3> QED
      BY <2>3, <3>2 DEF FairInv
  <2> QED
    BY <2>2, <2>3
<1> HIDE DEF s, wr, y, d
<1>3. /\ Counted(y, Plus(s, d)) /\ Evens(y, Plus(s, d))
      /\ Taken(y, Plus(s, d), wr \/ y.counter < lb.counter)
  BY <1>1, <1>2, PickFair DEF d, y
<1> QED
  BY <1>0, <1>1, <1>2, <1>3 DEF FairInv

\* FairInv is inductive, with the shape of the instance.
LEMMA FairStep == BalanceTyped /\ FairInv /\ [Next]_vars => FairInv'
<1> SUFFICES ASSUME BalanceTyped, FairInv, [Next]_vars PROVE FairInv'
  OBVIOUS
<1>1. ASSUME lb' = lb, served' = served, wrapped' = wrapped PROVE FairInv'
  BY <1>1 DEF FairInv
<1>2. CASE Bootstrap
  BY <1>2, FreshFair DEF Bootstrap, FairInv
<1>3. CASE IntervalElapses
  BY <1>1, <1>3 DEF IntervalElapses
<1>4. ASSUME NEW r \in Request, Admit(r) \/ ExecuteFlowFails(r) \/ Upstream(r)
      PROVE  FairInv'
  BY <1>1, <1>4 DEF Admit, ExecuteFlowFails, Upstream
<1>5. ASSUME NEW r \in Request, ExecuteFlow(r) PROVE FairInv'
  BY <1>5, ExecuteFlowFair
<1>6. ASSUME NEW r \in Request, Release(r) PROVE FairInv'
  <2>1. CASE lb.type # "least-bytes"
    BY <1>1, <1>6, <2>1 DEF Release
  <2>2. CASE lb.type = "least-bytes"
    <3>1. served' = served /\ wrapped' = wrapped
      BY <1>6 DEF Release
    <3>2. PICK b : lb' = [lb EXCEPT !.bytes = b]
      <4>1. lb' = [lb EXCEPT !.bytes = [lb.bytes EXCEPT ![req[r].proxy] = @ + req[r].bytes]]
        BY <1>6, <2>2 DEF Release, BalanceTyped, LbShape
      <4> QED
        BY <4>1
    <3>3. /\ LbShape(lb') /\ lb'.type = lb.type /\ lb'.pool = lb.pool /\ lb'.weight = lb.weight
          /\ lb'.counter = lb.counter /\ lb'.current = lb.current
      BY <3>2 DEF BalanceTyped, LbShape
    <3>4. Counted(lb', served)
      BY <3>3 DEF FairInv, Counted, Members, Total
    <3> QED
      BY <2>2, <3>1, <3>3, <3>4 DEF FairInv, Evens, Taken
  <2> QED
    BY <2>1, <2>2
<1>7. CASE UNCHANGED vars
  BY <1>1, <1>7 DEF vars
<1> QED
  BY <1>2, <1>3, <1>4, <1>5, <1>6, <1>7 DEF Next

\* roundrobin.go:41-48, weighted.go:56-79: for any pool, weights, requests and counter
\* width, every full round gives each member its weight in picks, unless the counter
\* wrapped in it, and at no point of a weighted round is a member a whole request ahead
\* of its share, or behind it by more than Behind.
THEOREM WeightsAreShared == Spec => []FairShare
<1>1. Init => BalanceInv /\ FairInv
  <2> SUFFICES ASSUME Init PROVE BalanceInv /\ FairInv
    OBVIOUS
  <2>1. ReqShape(Idle) /\ Idle.bytes \in 0..MaxTransfer
    BY BalancingAssumption DEF Idle, ReqShape
  <2> QED
    BY <2>1, FreshHeadroom, FreshFair DEF Init, BalanceInv, BalanceTyped, FairInv
<1>2. BalanceInv /\ FairInv /\ [Next]_vars
        => BalanceInv' /\ FairInv'
  BY BalanceStep, FairStep DEF BalanceInv
<1>3. FairInv => FairShare
  <2> SUFFICES ASSUME FairInv PROVE FairShare
    OBVIOUS
  <2>1. lb.type \in {"round-robin", "weighted"} /\ RoundOver /\ ~wrapped
          => \A i \in Proxy : served[i] = lb.weight[i]
    BY RoundExact DEF FairInv, RoundOver, Picks
  <2>2. ASSUME lb.type = "weighted", NEW i \in Members(lb)
        PROVE  LET lag == Picks * lb.weight[i] - served[i] * Total(lb)
               IN -Total(lb) < lag /\ lag <= Behind(lb.pool, Total(lb))[1]
    <3>1. /\ Smooth(lb.pool, lb.weight, lb.current)
          /\ lb.current[i] = Picks * lb.weight[i] - served[i] * Total(lb)
      BY <2>2 DEF FairInv, Evens, Picks
    <3>2. i \in 1..lb.pool /\ Total(lb) = SumOver(lb.weight, 1..lb.pool)
      BY <2>2 DEF Members, Total
    <3>3. lb.current[i] \in Int /\ -Total(lb) < lb.current[i]
      BY <3>1, <3>2 DEF Smooth
    <3>4. lb.current[i] <= Behind(lb.pool, Total(lb))[1]
      <4>1. SumOver(lb.current, {i}) = lb.current[i]
        <5>1. IsFiniteSet({}) /\ i \notin {} /\ {} \cup {i} = {i} /\ \A j \in {} \cup {i} : lb.current[j] \in Int
          BY <3>3, FS_EmptySet
        <5>2. SumOver(lb.current, {} \cup {i}) = lb.current[i] + SumOver(lb.current, {})
          BY <5>1, SumExtend
        <5> QED
          BY <3>3, <5>1, <5>2, SumEmpty
      <4>2. {i} \in SUBSET (1..lb.pool) /\ {i} # {} /\ Cardinality({i}) = 1
        BY <3>2, FS_Singleton
      <4> QED
        BY <3>1, <3>2, <4>1, <4>2 DEF Smooth
    <3> QED
      BY <3>1, <3>3, <3>4
  <2> QED
    BY <2>1, <2>2 DEF FairShare
<1> QED
  BY <1>1, <1>2, <1>3, PTL DEF Spec

-----------------------------------------------------------------------------
(***************************************************************************)
(* Serving: reloads and the requests between them.                         *)
(***************************************************************************)
Listing(m) == {<<>>} \cup {c[m] : c \in Configs}
Listed(lists) == lists = [m \in Map |-> lists[m]] /\ \A m \in Map : lists[m] \in Listing(m)

StepRec == [op : {"clear", "set"}, map : Map,
            id : {""} \cup UNION {UNION {DOMAIN c[m] : m \in Map} : c \in Configs}]
SetStep(m, x) == [op |-> "set", map |-> m, id |-> x]
Clears(R, m) == \E k \in 1..Len(R) : R[k].op = "clear" /\ R[k].map = m

\* The steps left of a reload: what is set was listed, and a map that is still
\* to be emptied is filled after that.
Ordered(lists, R) ==
  /\ R \in Seq(StepRec)
  /\ \A k \in 1..Len(R) : R[k].op = "set" => R[k].id \in DOMAIN lists[R[k].map]
  /\ \A k \in 1..Len(R) : R[k].op = "clear" =>
       \A x \in DOMAIN lists[R[k].map] : \E j \in (k + 1)..Len(R) : R[j] = SetStep(R[k].map, x)

\* A map that will not be emptied again lacks only what is still to be set.
Filled(maps, lists, R) ==
  \A m \in Map : ~Clears(R, m) =>
    /\ \A x \in DOMAIN maps[m] : x \in DOMAIN lists[m] /\ maps[m][x] = lists[m][x]
    /\ \A x \in DOMAIN lists[m] \ DOMAIN maps[m] : \E j \in 1..Len(R) : R[j] = SetStep(m, x)

IsFcn(f) == f = [x \in DOMAIN f |-> f[x]]

\* A map that was cleared is a function without entries.
LEMMA EmptyMap == DOMAIN <<>> = {} /\ IsFcn(<<>>)
  BY DEF IsFcn

\* A listing is a finite function.
LEMMA ListingFinite ==
  ASSUME NEW m \in Map, NEW f \in Listing(m)
  PROVE  /\ IsFcn(f) /\ IsFiniteSet(DOMAIN f)
         /\ \A x \in DOMAIN f : x \in UNION {UNION {DOMAIN c[k] : k \in Map} : c \in Configs}
<1>1. CASE f = <<>>
  <2>1. DOMAIN f = {} /\ IsFcn(f)
    BY <1>1 DEF IsFcn
  <2> QED
    BY <2>1, FS_EmptySet
<1>2. CASE f # <<>>
  <2>1. PICK c \in Configs : f = c[m]
    BY <1>2 DEF Listing
  <2> QED
    BY <2>1, ServingAssumption DEF IsFcn
<1> QED
  BY <1>1, <1>2

\* SetToSeq lists every element.
LEMMA SetToSeqCovers ==
  ASSUME NEW D, IsFiniteSet(D)
  PROVE  /\ Cardinality(D) \in Nat
         /\ SetToSeq(D) \in [1..Cardinality(D) -> D]
         /\ \A x \in D : \E i \in 1..Cardinality(D) : SetToSeq(D)[i] = x
<1> DEFINE n == Cardinality(D)
           f == SetToSeq(D)
<1>1. n \in Nat /\ ExistsBijection(1..n, D)
  BY FS_CardinalityType
<1>2. \E g \in [1..n -> D] : IsInjective(g)
  BY <1>1 DEF ExistsBijection, Bijection, Injection
<1>3. f \in [1..n -> D] /\ IsInjective(f)
  BY <1>2 DEF SetToSeq
<1> HIDE DEF f
<1>4. f \in Injection(1..n, D)
  BY <1>3 DEF Injection
<1>5. IsFiniteSet(1..n) /\ Cardinality(1..n) = n
  BY <1>1, FS_Interval
<1>6. f \in Surjection(1..n, D)
  BY <1>4, <1>5, FS_Injection
<1>7. \A x \in D : \E i \in 1..n : f[i] = x
  BY <1>6 DEF Surjection
<1> QED
  BY <1>1, <1>3, <1>7 DEF f

\* Refresh of one map empties it and then sets each of its entries.
LEMMA RefreshOrdered ==
  ASSUME NEW lists, Listed(lists), NEW m \in Map
  PROVE  Ordered(lists, Refresh(lists, m)) /\ Clears(Refresh(lists, m), m)
<1> DEFINE D == DOMAIN lists[m]
           n == Cardinality(D)
           f == SetToSeq(D)
           clear == [op |-> "clear", map |-> m, id |-> ""]
           sets == [i \in 1..n |-> [op |-> "set", map |-> m, id |-> f[i]]]
           R == <<clear>> \o sets
<1>1. R = Refresh(lists, m)
  BY DEF Refresh
<1>2. /\ IsFiniteSet(D)
      /\ \A x \in D : x \in UNION {UNION {DOMAIN c[k] : k \in Map} : c \in Configs}
  BY ListingFinite DEF Listed
<1>3. n \in Nat /\ f \in [1..n -> D] /\ \A x \in D : \E i \in 1..n : f[i] = x
  BY <1>2, SetToSeqCovers
<1> HIDE DEF D, n, f
<1>4. clear \in StepRec /\ \A i \in 1..n : sets[i] = SetStep(m, f[i]) /\ sets[i] \in StepRec
  BY <1>2, <1>3 DEF StepRec, SetStep
<1>5. /\ clear.op = "clear" /\ clear.map = m
      /\ \A x : SetStep(m, x).op = "set" /\ SetStep(m, x).map = m /\ SetStep(m, x).id = x
  BY DEF SetStep
<1>6. sets \in [1..n -> StepRec]
  BY <1>4
<1> HIDE DEF sets, clear
<1>7. sets \in Seq(StepRec) /\ Len(sets) = n
  <2>1. sets \in Seq(StepRec)
    BY <1>3, <1>6, SeqDef
  <2>2. DOMAIN sets = 1..n /\ DOMAIN sets = 1..Len(sets) /\ Len(sets) \in Nat
    BY <1>6, <2>1, LenProperties
  <2> QED
    BY <1>3, <2>1, <2>2
<1>8. <<clear>> \in Seq(StepRec) /\ Len(<<clear>>) = 1 /\ <<clear>>[1] = clear
  BY <1>4
<1>9. /\ R \in Seq(StepRec) /\ Len(R) = n + 1 /\ R[1] = clear
      /\ \A i \in 1..n : R[i + 1] = sets[i]
  BY <1>3, <1>7, <1>8
<1>10. \A k \in 2..Len(R) : k - 1 \in 1..n /\ R[k] = SetStep(m, f[k - 1])
  BY <1>3, <1>4, <1>9
<1>11. \A x \in D : \E j \in 2..Len(R) : R[j] = SetStep(m, x)
  <2> SUFFICES ASSUME NEW x \in D PROVE \E j \in 2..Len(R) : R[j] = SetStep(m, x)
    OBVIOUS
  <2>1. PICK i \in 1..n : f[i] = x
    BY <1>3
  <2>2. i + 1 \in 2..Len(R) /\ R[i + 1] = SetStep(m, x)
    BY <1>3, <1>4, <1>9, <2>1
  <2> QED
    BY <2>2
<1> HIDE DEF R
<1>12. ASSUME NEW k \in 1..Len(R), R[k].op = "set" PROVE R[k].id \in DOMAIN lists[R[k].map]
  <2>1. k \in 2..Len(R)
    BY <1>3, <1>9, <1>5, <1>12
  <2>2. R[k].id = f[k - 1] /\ R[k].map = m /\ k - 1 \in 1..n
    BY <1>10, <1>5, <2>1
  <2> QED
    BY <1>3, <2>2 DEF D
<1>13. ASSUME NEW k \in 1..Len(R), R[k].op = "clear"
       PROVE  \A x \in DOMAIN lists[R[k].map] :
                \E j \in (k + 1)..Len(R) : R[j] = SetStep(R[k].map, x)
  <2>1. k \notin 2..Len(R)
    BY <1>10, <1>5, <1>13
  <2>2. k = 1
    BY <1>3, <1>9, <2>1
  <2> QED
    BY <1>9, <1>11, <1>5, <2>2 DEF D
<1>14. Clears(R, m)
  BY <1>3, <1>9, <1>5 DEF Clears
<1> QED
  BY <1>1, <1>9, <1>12, <1>13, <1>14 DEF Ordered

\* One reload part after another keeps the order.
LEMMA CatOrdered ==
  ASSUME NEW lists, NEW R, NEW T, Ordered(lists, R), Ordered(lists, T)
  PROVE  /\ Ordered(lists, R \o T)
         /\ \A m \in Map : Clears(R, m) \/ Clears(T, m) => Clears(R \o T, m)
<1> DEFINE C == R \o T
<1>1. R \in Seq(StepRec) /\ T \in Seq(StepRec) /\ Len(R) \in Nat /\ Len(T) \in Nat
  BY LenProperties DEF Ordered
<1>2. /\ C \in Seq(StepRec) /\ Len(C) = Len(R) + Len(T)
      /\ \A k \in 1..Len(R) : C[k] = R[k]
      /\ \A k \in 1..Len(T) : C[k + Len(R)] = T[k]
      /\ \A k \in 1..Len(C) : k \notin 1..Len(R) => k - Len(R) \in 1..Len(T) /\ C[k] = T[k - Len(R)]
  BY <1>1, ConcatProperties
<1> HIDE DEF C
<1>3. ASSUME NEW k \in 1..Len(C), C[k].op = "set" PROVE C[k].id \in DOMAIN lists[C[k].map]
  <2>1. CASE k \in 1..Len(R)
    BY <1>2, <1>3, <2>1 DEF Ordered
  <2>2. CASE k \notin 1..Len(R)
    <3>1. k - Len(R) \in 1..Len(T) /\ C[k] = T[k - Len(R)]
      BY <1>2, <2>2
    <3> QED
      BY <1>3, <3>1 DEF Ordered
  <2> QED
    BY <2>1, <2>2
<1>4. ASSUME NEW k \in 1..Len(C), C[k].op = "clear", NEW x \in DOMAIN lists[C[k].map]
      PROVE  \E j \in (k + 1)..Len(C) : C[j] = SetStep(C[k].map, x)
  <2>1. CASE k \in 1..Len(R)
    <3>1. PICK j \in (k + 1)..Len(R) : R[j] = SetStep(R[k].map, x)
      BY <1>2, <1>4, <2>1 DEF Ordered
    <3>2. j \in (k + 1)..Len(C) /\ C[j] = R[j] /\ C[k] = R[k]
      BY <1>1, <1>2, <2>1
    <3> QED
      BY <3>1, <3>2
  <2>2. CASE k \notin 1..Len(R)
    <3> DEFINE i == k - Len(R)
    <3>1. i \in 1..Len(T) /\ C[k] = T[i]
      BY <1>2, <2>2
    <3>2. PICK j \in (i + 1)..Len(T) : T[j] = SetStep(T[i].map, x)
      BY <1>4, <3>1 DEF Ordered
    <3>3. j + Len(R) \in (k + 1)..Len(C) /\ C[j + Len(R)] = T[j]
      BY <1>1, <1>2, <3>1, <3>2
    <3> QED
      BY <3>1, <3>2, <3>3
  <2> QED
    BY <2>1, <2>2
<1>5. ASSUME NEW m \in Map, Clears(R, m) \/ Clears(T, m) PROVE Clears(C, m)
  <2>1. CASE Clears(R, m)
    BY <1>1, <1>2, <2>1 DEF Clears
  <2>2. CASE Clears(T, m)
    <3>1. PICK k \in 1..Len(T) : T[k].op = "clear" /\ T[k].map = m
      BY <2>2 DEF Clears
    <3>2. k + Len(R) \in 1..Len(C) /\ C[k + Len(R)] = T[k]
      BY <1>1, <1>2
    <3> QED
      BY <3>1, <3>2 DEF Clears
  <2> QED
    BY <1>5, <2>1, <2>2
<1> QED
  BY <1>2, <1>3, <1>4, <1>5 DEF Ordered, C

\* A whole reload is in order and empties every map.
LEMMA ReloadOrdered ==
  ASSUME NEW lists, Listed(lists)
  PROVE  /\ Ordered(lists, Reload(lists)) /\ Len(Reload(lists)) > 0
         /\ \A m \in Map : Clears(Reload(lists), m)
<1>1. \A m \in Map : Ordered(lists, Refresh(lists, m)) /\ Clears(Refresh(lists, m), m)
  BY RefreshOrdered
<1>2. Map = {"entrypoints", "flows", "routers"}
  BY DEF Map
<1> DEFINE E == Refresh(lists, "entrypoints")
           F == Refresh(lists, "flows")
           R == Refresh(lists, "routers")
<1>3. /\ Ordered(lists, E) /\ Ordered(lists, F) /\ Ordered(lists, R)
      /\ Clears(E, "entrypoints") /\ Clears(F, "flows") /\ Clears(R, "routers")
  BY <1>1, <1>2
<1> HIDE DEF E, F, R
<1>4. Ordered(lists, E \o F) /\ Clears(E \o F, "entrypoints") /\ Clears(E \o F, "flows")
  BY <1>2, <1>3, CatOrdered
<1>5. /\ Ordered(lists, (E \o F) \o R)
      /\ \A m \in Map : Clears((E \o F) \o R, m)
  BY <1>2, <1>3, <1>4, CatOrdered
<1>6. Reload(lists) = (E \o F) \o R
  BY DEF Reload, E, F, R
<1>7. Len(Reload(lists)) > 0
  <2>1. PICK k \in 1..Len((E \o F) \o R) : TRUE
    BY <1>2, <1>5 DEF Clears
  <2>2. Len((E \o F) \o R) \in Nat
    BY <1>5, LenProperties DEF Ordered
  <2> QED
    BY <1>6, <2>1, <2>2
<1> QED
  BY <1>5, <1>6, <1>7

\* The first step of a reload takes the cache on: once a map is emptied for the
\* last time, it lacks only what is still to be set.
LEMMA StepFills ==
  ASSUME NEW lists, NEW R, Ordered(lists, R), Len(R) > 0,
         DOMAIN cache = Map, \A m \in Map : IsFcn(cache[m]),
         cache' = [cache EXCEPT ![Head(R).map] =
                     IF Head(R).op = "clear" THEN <<>>
                     ELSE With(@, Head(R).id, lists[Head(R).map][Head(R).id])]
  PROVE  /\ DOMAIN cache' = Map /\ \A m \in Map : IsFcn(cache'[m])
         /\ Ordered(lists, Tail(R))
         /\ Filled(cache, lists, R) => Filled(cache', lists, Tail(R))
<1> DEFINE s == Head(R)
           T == Tail(R)
<1>1. /\ R \in Seq(StepRec) /\ R # <<>> /\ s \in StepRec /\ s = R[1]
      /\ T \in Seq(StepRec) /\ Len(T) \in Nat /\ Len(R) = Len(T) + 1
      /\ \A i \in 1..Len(T) : T[i] = R[i + 1]
  <2>1. R \in Seq(StepRec) /\ R # <<>>
    BY EmptySeq DEF Ordered
  <2> QED
    BY <2>1, HeadTailProperties, LenProperties
<1>2. \A k \in 1..Len(R) : k # 1 => k - 1 \in 1..Len(T) /\ T[k - 1] = R[k]
  BY <1>1
<1> HIDE DEF T
<1>3. Ordered(lists, T)
  <2>1. ASSUME NEW k \in 1..Len(T), T[k].op = "set" PROVE T[k].id \in DOMAIN lists[T[k].map]
    <3>1. k + 1 \in 1..Len(R) /\ T[k] = R[k + 1]
      BY <1>1
    <3> QED
      BY <2>1, <3>1 DEF Ordered
  <2>2. ASSUME NEW k \in 1..Len(T), T[k].op = "clear", NEW x \in DOMAIN lists[T[k].map]
        PROVE  \E j \in (k + 1)..Len(T) : T[j] = SetStep(T[k].map, x)
    <3>1. k + 1 \in 1..Len(R) /\ T[k] = R[k + 1]
      BY <1>1
    <3>2. PICK j \in ((k + 1) + 1)..Len(R) : R[j] = SetStep(R[k + 1].map, x)
      BY <2>2, <3>1 DEF Ordered
    <3>3. j - 1 \in (k + 1)..Len(T) /\ T[j - 1] = R[j]
      BY <1>1, <1>2
    <3> QED
      BY <3>1, <3>2, <3>3
  <2> QED
    BY <1>1, <2>1, <2>2 DEF Ordered
<1>4. s.map \in Map /\ s.op \in {"clear", "set"}
  BY <1>1 DEF StepRec
<1>5. CASE s.op = "clear"
  <2>1. /\ DOMAIN cache' = Map /\ cache'[s.map] = <<>>
        /\ \A m \in Map \ {s.map} : cache'[m] = cache[m]
    BY <1>4, <1>5
  <2>2. DOMAIN cache'[s.map] = {} /\ IsFcn(cache'[s.map])
    BY <2>1, EmptyMap
  <2>3. ASSUME NEW m \in Map, m # s.map, ~Clears(T, m) PROVE ~Clears(R, m)
    BY <1>1, <1>2, <2>3 DEF Clears
  <2>4. ASSUME Filled(cache, lists, R), NEW m \in Map, m # s.map, ~Clears(T, m),
               NEW x \in DOMAIN lists[m] \ DOMAIN cache[m]
        PROVE  \E j \in 1..Len(T) : T[j] = SetStep(m, x)
    <3>1. PICK j \in 1..Len(R) : R[j] = SetStep(m, x)
      BY <2>3, <2>4 DEF Filled
    <3>2. j # 1
      BY <1>1, <2>4, <3>1 DEF SetStep
    <3> QED
      BY <1>2, <3>1, <3>2
  <2>5. ASSUME NEW x \in DOMAIN lists[s.map]
        PROVE  \E j \in 1..Len(T) : T[j] = SetStep(s.map, x)
    <3>1. PICK j \in (1 + 1)..Len(R) : R[j] = SetStep(R[1].map, x)
      <4>1. 1 \in 1..Len(R) /\ R[1].op = "clear" /\ x \in DOMAIN lists[R[1].map]
        BY <1>1, <1>5
      <4> QED
        BY <4>1 DEF Ordered
    <3>2. j - 1 \in 1..Len(T) /\ T[j - 1] = R[j]
      BY <1>1, <1>2
    <3> QED
      BY <1>1, <3>1, <3>2
  <2>6. ASSUME Filled(cache, lists, R), NEW m \in Map, ~Clears(T, m)
        PROVE  /\ \A x \in DOMAIN cache'[m] :
                    x \in DOMAIN lists[m] /\ cache'[m][x] = lists[m][x]
               /\ \A x \in DOMAIN lists[m] \ DOMAIN cache'[m] :
                    \E j \in 1..Len(T) : T[j] = SetStep(m, x)
    <3> HIDE DEF T
    <3>1. CASE m = s.map
      BY <2>2, <2>5, <3>1
    <3>2. CASE m # s.map
      <4>1. cache'[m] = cache[m] /\ ~Clears(R, m)
        BY <2>1, <2>3, <2>6, <3>2
      <4>2. \A x \in DOMAIN lists[m] \ DOMAIN cache[m] :
              \E j \in 1..Len(T) : T[j] = SetStep(m, x)
        BY <2>4, <2>6, <3>2
      <4>3. \A x \in DOMAIN cache[m] : x \in DOMAIN lists[m] /\ cache[m][x] = lists[m][x]
        BY <2>6, <4>1 DEF Filled
      <4> QED
        BY <4>1, <4>2, <4>3
    <3> QED
      BY <3>1, <3>2
  <2>7. Filled(cache, lists, R) => Filled(cache', lists, T)
    BY <2>6 DEF Filled
  <2> QED
    BY <1>3, <2>1, <2>2, <2>7 DEF T
<1>6. CASE s.op = "set"
  <2> DEFINE f == cache[s.map]
             v == lists[s.map][s.id]
  <2>1. /\ DOMAIN cache' = Map /\ cache'[s.map] = With(f, s.id, v)
        /\ \A m \in Map \ {s.map} : cache'[m] = cache[m]
    BY <1>4, <1>6
  <2>2. /\ IsFcn(cache'[s.map])
        /\ DOMAIN cache'[s.map] = DOMAIN f \cup {s.id}
        /\ \A x \in DOMAIN f \cup {s.id} : cache'[s.map][x] = IF x = s.id THEN v ELSE f[x]
    <3> HIDE DEF f, v
    <3>2. /\ IsFcn(With(f, s.id, v))
          /\ DOMAIN With(f, s.id, v) = DOMAIN f \cup {s.id}
          /\ \A x \in DOMAIN f \cup {s.id} :
               With(f, s.id, v)[x] = IF x = s.id THEN v ELSE f[x]
      BY DEF With, IsFcn
    <3> QED
      BY <2>1, <3>2
  <2>3. s.id \in DOMAIN lists[s.map]
    BY <1>1, <1>6 DEF Ordered
  <2>4. ASSUME NEW m \in Map, ~Clears(T, m) PROVE ~Clears(R, m)
    BY <1>1, <1>2, <1>6, <2>4 DEF Clears
  <2>5. ASSUME Filled(cache, lists, R), NEW m \in Map, ~Clears(T, m),
               NEW x \in DOMAIN lists[m] \ DOMAIN cache'[m]
        PROVE  \E j \in 1..Len(T) : T[j] = SetStep(m, x)
    <3>1. x \notin DOMAIN cache[m]
      BY <2>1, <2>2, <2>5
    <3>2. PICK j \in 1..Len(R) : R[j] = SetStep(m, x)
      BY <2>4, <2>5, <3>1 DEF Filled
    <3>3. j # 1
      <4> SUFFICES ASSUME j = 1 PROVE FALSE
        OBVIOUS
      <4>1. m = s.map /\ x = s.id
        BY <1>1, <3>2 DEF SetStep
      <4> QED
        BY <2>2, <2>5, <4>1
    <3> QED
      BY <1>2, <3>2, <3>3
  <2>6. ASSUME Filled(cache, lists, R), NEW m \in Map, ~Clears(T, m), NEW x \in DOMAIN cache'[m]
        PROVE  x \in DOMAIN lists[m] /\ cache'[m][x] = lists[m][x]
    <3>1. CASE m = s.map /\ x = s.id
      BY <2>2, <2>3, <3>1
    <3>2. CASE ~(m = s.map /\ x = s.id)
      <4>1. x \in DOMAIN cache[m] /\ cache'[m][x] = cache[m][x]
        BY <2>1, <2>2, <2>6, <3>2
      <4> QED
        BY <2>4, <2>6, <4>1 DEF Filled
    <3> QED
      BY <3>1, <3>2
  <2>7. Filled(cache, lists, R) => Filled(cache', lists, T)
    BY <2>5, <2>6 DEF Filled
  <2> QED
    BY <1>3, <2>1, <2>2, <2>7 DEF T
<1> QED
  BY <1>4, <1>5, <1>6

LoaderOK(x) ==
  /\ DOMAIN x = {"pc", "lists", "todo", "steps", "alone"}
  /\ Listed(x.lists)
  /\ x.pc = "reload" => Ordered(x.lists, x.steps) /\ Len(x.steps) > 0

\* The lists of a reload that runs alone are what the cache is being filled with.
LoadInv ==
  /\ conf \in Configs
  /\ cache = [m \in Map |-> cache[m]] /\ \A m \in Map : IsFcn(cache[m])
  /\ load = [l \in Loaders |-> load[l]]
  /\ \A l \in Loaders : LoaderOK(load[l])
  /\ \A l \in Loaders : load[l].pc = "reload" /\ load[l].alone =>
       Filled(cache, load[l].lists, load[l].steps)
  /\ \A l, k \in Loaders : Loading(l) /\ load[l].alone /\ Loading(k) => k = l
  /\ loaded # None => cache = loaded

\* How far a request that no reload disturbed has followed the cache.
Followed(x) ==
  x.base # None =>
    /\ cache = x.base
    /\ x.pc \in {"flow", "router"} => Entrypoint \in DOMAIN cache.entrypoints
    /\ x.pc = "flow" => x.at = cache.entrypoints[Entrypoint]
    /\ x.pc = "router" => LET f == cache.entrypoints[Entrypoint] IN
         f \in DOMAIN cache.flows /\ cache.flows[f].router # "" /\ x.at = cache.flows[f].router
    /\ x.pc = "done" => x.outcome = Decision(cache, x.class)

RequestInv ==
  /\ DOMAIN request = {"pc", "class", "at", "outcome", "base"}
  /\ Followed(request)

\* A loader that starts to list has listed nothing.
LEMMA FreshLoader ==
  /\ LoaderOK(IdleLoader) /\ IdleLoader.pc = "idle"
  /\ \A todo, alone : LET x == [IdleLoader EXCEPT !.pc = "list", !.todo = todo, !.alone = alone] IN
       LoaderOK(x) /\ x.pc = "list" /\ x.alone = alone
<1>1. Listed(NoEntries)
  BY DEF Listed, NoEntries, Listing
<1> QED
  BY <1>1 DEF IdleLoader, LoaderOK

\* The last step of a reload that ran alone leaves the cache as it was listed.
LEMMA LastStepLists ==
  ASSUME NEW maps, NEW lists, Listed(lists), NEW R, R \in Seq(StepRec), Len(R) = 0,
         Filled(maps, lists, R), maps = [m \in Map |-> maps[m]], \A m \in Map : IsFcn(maps[m])
  PROVE  maps = lists
<1>1. ASSUME NEW m \in Map PROVE maps[m] = lists[m]
  <2>1. /\ \A x \in DOMAIN maps[m] : x \in DOMAIN lists[m] /\ maps[m][x] = lists[m][x]
        /\ \A x \in DOMAIN lists[m] : x \in DOMAIN maps[m]
    BY DEF Filled, Clears
  <2>2. IsFcn(lists[m]) /\ IsFcn(maps[m])
    BY ListingFinite DEF Listed
  <2>3. DOMAIN maps[m] = DOMAIN lists[m]
    BY <2>1
  <2> QED
    BY <2>1, <2>2, <2>3 DEF IsFcn
<1> QED
  BY <1>1 DEF Listed

\* LoadInv is inductive.
LEMMA LoadStep == LoadInv /\ [ServingNext]_servingVars => LoadInv'
<1> SUFFICES ASSUME LoadInv, [ServingNext]_servingVars PROVE LoadInv'
  OBVIOUS
<1>1. ASSUME UNCHANGED <<cache, load, loaded>>, conf' \in Configs PROVE LoadInv'
  BY <1>1 DEF LoadInv, Loading, Filled
<1>2. ASSUME NEW l \in Loaders, WarmupCache(l) PROVE LoadInv'
  <2> DEFINE free == ~\E o \in Loaders : Loading(o)
             x == [IdleLoader EXCEPT !.pc = "list", !.todo = Map, !.alone = free]
  <2>1. UNCHANGED <<conf, cache, loaded>>
    BY <1>2 DEF WarmupCache
  <2>2. /\ load' = [k \in Loaders |-> load'[k]] /\ load'[l] = x
        /\ \A k \in Loaders \ {l} : load'[k] = [load[k] EXCEPT !.alone = FALSE]
    BY <1>2 DEF WarmupCache
  <2>3. LoaderOK(x) /\ x.pc = "list" /\ x.alone = free
    BY FreshLoader
  <2> HIDE DEF x
  <2>4. ASSUME NEW k \in Loaders \ {l}
        PROVE  /\ LoaderOK(load'[k]) /\ load'[k].alone = FALSE /\ load'[k].pc = load[k].pc
    <3>1. LoaderOK(load[k])
      BY DEF LoadInv
    <3> QED
      BY <2>2, <3>1 DEF LoaderOK
  <2>5. \A i, k \in Loaders : Loading(i)' /\ load'[i].alone /\ Loading(k)' => k = i
    BY <2>2, <2>3, <2>4 DEF Loading
  <2>6. \A k \in Loaders : LoaderOK(load'[k])
    BY <2>2, <2>3, <2>4
  <2>7. \A k \in Loaders : ~(load'[k].pc = "reload" /\ load'[k].alone)
    BY <2>2, <2>3, <2>4
  <2> QED
    BY <2>1, <2>2, <2>5, <2>6, <2>7 DEF LoadInv
<1>3. ASSUME NEW l \in Loaders, NEW x, load' = [load EXCEPT ![l] = x], LoaderOK(x),
             x.pc = "idle" \/ (Loading(l) /\ x.alone = load[l].alone)
      PROVE  /\ load' = [k \in Loaders |-> load'[k]] /\ load'[l] = x
             /\ \A k \in Loaders \ {l} : load'[k] = load[k]
             /\ \A k \in Loaders : LoaderOK(load'[k])
             /\ \A i, k \in Loaders : Loading(i)' /\ load'[i].alone /\ Loading(k)' => k = i
  <2>1. /\ load' = [k \in Loaders |-> load'[k]] /\ load'[l] = x
        /\ \A k \in Loaders \ {l} : load'[k] = load[k]
    BY <1>3 DEF LoadInv
  <2>2. \A k \in Loaders : LoaderOK(load'[k])
    BY <1>3, <2>1 DEF LoadInv
  <2>3. \A i, k \in Loaders : Loading(i)' /\ load'[i].alone /\ Loading(k)' => k = i
    BY <1>3, <2>1 DEF LoadInv, Loading
  <2> QED
    BY <2>1, <2>2, <2>3
<1>4. ASSUME NEW l \in Loaders, ListFails(l) PROVE LoadInv'
  <2>1. load' = [load EXCEPT ![l] = IdleLoader] /\ UNCHANGED <<conf, cache, loaded>>
    BY <1>4 DEF ListFails
  <2>2. /\ load' = [k \in Loaders |-> load'[k]] /\ load'[l] = IdleLoader
        /\ \A k \in Loaders \ {l} : load'[k] = load[k]
        /\ \A k \in Loaders : LoaderOK(load'[k])
        /\ \A i, k \in Loaders : Loading(i)' /\ load'[i].alone /\ Loading(k)' => k = i
    BY <1>3, <2>1, FreshLoader
  <2>3. \A k \in Loaders : load'[k].pc = "reload" /\ load'[k].alone =>
          Filled(cache', load'[k].lists, load'[k].steps)
    <3>1. ASSUME NEW k \in Loaders \ {l}, load'[k].pc = "reload", load'[k].alone
          PROVE  Filled(cache', load'[k].lists, load'[k].steps)
      BY <2>1, <2>2, <3>1 DEF LoadInv
    <3> QED
      BY <2>2, <3>1, FreshLoader
  <2> QED
    BY <2>1, <2>2, <2>3 DEF LoadInv
<1>5. ASSUME NEW l \in Loaders, NEW m \in Map, ListKind(l, m) PROVE LoadInv'
  <2> DEFINE lists == [load[l].lists EXCEPT ![m] = conf[m]]
             todo == load[l].todo \ {m}
             steps == IF todo = {} THEN Reload(lists) ELSE <<>>
             pc == IF todo = {} THEN "reload" ELSE "list"
             x == [load[l] EXCEPT !.lists = lists, !.todo = todo, !.pc = pc, !.steps = steps]
  <2>1. /\ load[l].pc = "list" /\ UNCHANGED <<conf, cache, loaded>>
        /\ load' = [load EXCEPT ![l].lists = lists, ![l].todo = todo, ![l].pc = pc,
                                ![l].steps = steps]
    BY <1>5 DEF ListKind
  <2>2. LoaderOK(load[l]) /\ Loading(l)
    BY <2>1 DEF LoadInv, Loading
  <2>3. Listed(lists)
    <3>1. conf[m] \in Listing(m)
      BY DEF LoadInv, Listing
    <3> QED
      BY <2>2, <3>1 DEF Listed, LoaderOK
  <2>4. pc = "reload" => Ordered(lists, steps) /\ Len(steps) > 0 /\ \A k \in Map : Clears(steps, k)
    BY <2>3, ReloadOrdered
  <2> HIDE DEF lists, todo, steps, pc
  <2>5. load' = [load EXCEPT ![l] = x]
    BY <2>1 DEF LoadInv
  <2>6. /\ DOMAIN x = {"pc", "lists", "todo", "steps", "alone"}
        /\ x.lists = lists /\ x.pc = pc /\ x.steps = steps /\ x.alone = load[l].alone
    BY <2>2 DEF LoaderOK
  <2> HIDE DEF x
  <2>7. LoaderOK(x)
    BY <2>3, <2>4, <2>6 DEF LoaderOK
  <2>8. /\ load' = [k \in Loaders |-> load'[k]] /\ load'[l] = x
        /\ \A k \in Loaders \ {l} : load'[k] = load[k]
        /\ \A k \in Loaders : LoaderOK(load'[k])
        /\ \A i, k \in Loaders : Loading(i)' /\ load'[i].alone /\ Loading(k)' => k = i
    BY <1>3, <2>2, <2>5, <2>6, <2>7
  <2>9. \A k \in Loaders : load'[k].pc = "reload" /\ load'[k].alone =>
          Filled(cache', load'[k].lists, load'[k].steps)
    <3>1. load'[l].pc = "reload" => Filled(cache', load'[l].lists, load'[l].steps)
      BY <2>4, <2>6, <2>8 DEF Filled
    <3>2. ASSUME NEW k \in Loaders \ {l}, load'[k].pc = "reload", load'[k].alone
          PROVE  Filled(cache', load'[k].lists, load'[k].steps)
      <4>1. load'[k] = load[k]
        BY <2>8, <3>2
      <4> QED
        BY <2>1, <3>2, <4>1 DEF LoadInv, Filled
    <3> QED
      BY <3>1, <3>2
  <2> QED
    BY <2>1, <2>8, <2>9 DEF LoadInv
<1>6. ASSUME NEW l \in Loaders, ReloadStep(l) PROVE LoadInv'
  <2> DEFINE lists == load[l].lists
             R == load[l].steps
             last == Len(R) = 1
             x == IF last THEN IdleLoader ELSE [load[l] EXCEPT !.steps = Tail(@)]
  <2>1. /\ load[l].pc = "reload" /\ UNCHANGED conf /\ load' = [load EXCEPT ![l] = x]
        /\ cache' = [cache EXCEPT ![Head(R).map] =
                       IF Head(R).op = "clear" THEN <<>>
                       ELSE With(@, Head(R).id, lists[Head(R).map][Head(R).id])]
        /\ loaded' = IF last /\ load[l].alone THEN lists ELSE None
    <3>1. load' = [load EXCEPT ![l] = x]
      BY <1>6 DEF ReloadStep
    <3> HIDE DEF x
    <3> QED
      BY <1>6, <3>1 DEF ReloadStep
  <2>2. LoaderOK(load[l]) /\ Loading(l)
    BY <2>1 DEF LoadInv, Loading
  <2>3. /\ Listed(lists) /\ Ordered(lists, R) /\ Len(R) > 0
        /\ load[l].alone => Filled(cache, lists, R)
        /\ DOMAIN cache = Map /\ \A m \in Map : IsFcn(cache[m])
    BY <2>1, <2>2 DEF LoaderOK, LoadInv
  <2>4. PICK A, B : A = lists /\ B = R
    OBVIOUS
  <2>5. /\ DOMAIN cache' = Map /\ \A m \in Map : IsFcn(cache'[m])
        /\ Ordered(A, Tail(B)) /\ (Filled(cache, A, B) => Filled(cache', A, Tail(B)))
    BY <2>1, <2>3, <2>4, StepFills
  <2>6. cache' = [m \in Map |-> cache'[m]]
    BY <2>1, <2>5 DEF LoadInv
  <2>7. /\ B \in Seq(StepRec) /\ Tail(B) \in Seq(StepRec) /\ Len(B) \in Nat
        /\ Len(Tail(B)) = Len(B) - 1
    BY <2>3, <2>4, EmptySeq, LenProperties, HeadTailProperties DEF Ordered
  <2>8. /\ LoaderOK(x) /\ (x.pc = "idle" \/ x.alone = load[l].alone)
        /\ x.pc = "idle" \/ (x.pc = "reload" /\ x.lists = A /\ x.steps = Tail(B))
    <3>1. CASE last
      BY <3>1, FreshLoader
    <3>2. CASE ~last
      <4>1. /\ x = [load[l] EXCEPT !.steps = Tail(R)]
            /\ DOMAIN load[l] = {"pc", "lists", "todo", "steps", "alone"}
        BY <2>2, <3>2 DEF LoaderOK
      <4>2. /\ DOMAIN x = {"pc", "lists", "todo", "steps", "alone"}
            /\ x.lists = A /\ x.pc = "reload" /\ x.steps = Tail(B) /\ x.alone = load[l].alone
        BY <2>1, <2>4, <4>1
      <4>3. Len(Tail(B)) > 0
        <5>1. Len(B) > 0 /\ Len(B) # 1
          BY <2>3, <2>4, <3>2
        <5> QED
          BY <2>7, <5>1
      <4> HIDE DEF x
      <4> QED
        BY <2>3, <2>4, <2>5, <4>2, <4>3 DEF LoaderOK
    <3> QED
      BY <3>1, <3>2
  <2>9. last => x.pc = "idle"
    BY FreshLoader
  <2> HIDE DEF x
  <2>10. /\ load' = [k \in Loaders |-> load'[k]] /\ load'[l] = x
         /\ \A k \in Loaders \ {l} : load'[k] = load[k]
         /\ \A k \in Loaders : LoaderOK(load'[k])
         /\ \A i, k \in Loaders : Loading(i)' /\ load'[i].alone /\ Loading(k)' => k = i
    BY <1>3, <2>1, <2>2, <2>8
  <2>11. \A k \in Loaders : load'[k].pc = "reload" /\ load'[k].alone =>
          Filled(cache', load'[k].lists, load'[k].steps)
    <3>1. ASSUME load'[l].pc = "reload", load'[l].alone
          PROVE  Filled(cache', load'[l].lists, load'[l].steps)
      <4>1. load[l].alone /\ load'[l].lists = A /\ load'[l].steps = Tail(B)
        BY <2>8, <2>10, <3>1
      <4>2. Filled(cache', A, Tail(B))
        BY <2>3, <2>4, <2>5, <4>1
      <4> QED
        BY <4>1, <4>2 DEF Filled
    <3>2. ASSUME NEW k \in Loaders \ {l}, load'[k].pc = "reload", load'[k].alone PROVE FALSE
      BY <2>2, <2>10, <3>2 DEF LoadInv, Loading
    <3> QED
      BY <3>1, <3>2
  <2>12. loaded' # None => cache' = loaded'
    <3> SUFFICES ASSUME last, load[l].alone PROVE cache' = A
      BY <2>1, <2>4
    <3>1. Filled(cache', A, Tail(B)) /\ Len(Tail(B)) = 0
      BY <2>3, <2>4, <2>5, <2>7
    <3>2. PICK T : T = Tail(B)
      OBVIOUS
    <3>3. /\ Listed(A) /\ T \in Seq(StepRec) /\ Len(T) = 0
          /\ Filled(cache', A, T)
          /\ cache' = [m \in Map |-> cache'[m]] /\ \A m \in Map : IsFcn(cache'[m])
      BY <2>3, <2>4, <2>5, <2>6, <2>7, <3>1, <3>2
    <3> QED
      BY <3>3, LastStepLists
  <2> QED
    BY <2>1, <2>5, <2>6, <2>10, <2>11, <2>12 DEF LoadInv
<1> QED
  BY <1>1, <1>2, <1>4, <1>5, <1>6
     DEF ServingNext, ChangeConfig, Receive, GetEntrypoint, GetFlow, RouteRequest,
         servingVars, LoadInv

\* A request reads the maps one by one; as long as no reload step comes between,
\* it reads one configuration.
LEMMA RequestStep ==
  LoadInv /\ RequestInv /\ [ServingNext]_servingVars => RequestInv'
<1> SUFFICES ASSUME LoadInv, RequestInv, [ServingNext]_servingVars PROVE RequestInv'
  OBVIOUS
<1>0. DOMAIN request = {"pc", "class", "at", "outcome", "base"} /\ Followed(request)
  BY DEF RequestInv
<1>1. ASSUME UNCHANGED <<cache, request>> PROVE RequestInv'
  BY <1>1 DEF RequestInv, Followed, Decision
<1>2. ASSUME NEW l \in Loaders, ReloadStep(l) PROVE RequestInv'
  <2>1. request' = [request EXCEPT !.base = None]
    BY <1>2 DEF ReloadStep
  <2>2. DOMAIN request' = DOMAIN request /\ request'.base = None
    BY <1>0, <2>1
  <2> QED
    BY <1>0, <2>2 DEF RequestInv, Followed
<1>3. ASSUME NEW c \in Classes, Receive(c) PROVE RequestInv'
  <2>1. /\ DOMAIN request' = {"pc", "class", "at", "outcome", "base"}
        /\ request'.pc = "entrypoint" /\ request'.base = loaded /\ UNCHANGED cache
    BY <1>3 DEF Receive, NoRequest
  <2> QED
    BY <2>1 DEF RequestInv, Followed, LoadInv
<1>4. ASSUME NEW o, Finish(o), UNCHANGED cache,
             request.base # None => o = Decision(cache, request.class)
      PROVE  RequestInv'
  <2>1. /\ DOMAIN request' = {"pc", "class", "at", "outcome", "base"}
        /\ request'.pc = "done" /\ request'.outcome = o
        /\ request'.base = request.base /\ request'.class = request.class
    BY <1>0, <1>4 DEF Finish
  <2>2. Decision(cache', request'.class) = Decision(cache, request.class)
    BY <1>4, <2>1 DEF Decision
  <2> QED
    BY <1>0, <1>4, <2>1, <2>2 DEF RequestInv, Followed
<1>5. CASE GetEntrypoint
  <2>1. UNCHANGED cache /\ request.pc = "entrypoint"
    BY <1>5 DEF GetEntrypoint
  <2>2. CASE Entrypoint \in DOMAIN cache.entrypoints
    <3>1. request' = [request EXCEPT !.pc = "flow", !.at = cache.entrypoints[Entrypoint]]
      BY <1>5, <2>2 DEF GetEntrypoint
    <3>2. /\ DOMAIN request' = DOMAIN request
          /\ request'.pc = "flow" /\ request'.at = cache.entrypoints[Entrypoint]
          /\ request'.base = request.base
      BY <1>0, <3>1
    <3> QED
      BY <1>0, <2>1, <2>2, <3>2 DEF RequestInv, Followed
  <2>3. CASE Entrypoint \notin DOMAIN cache.entrypoints
    <3>1. Finish("entrypoint not found")
      BY <1>5, <2>3 DEF GetEntrypoint
    <3>2. Decision(cache, request.class) = "entrypoint not found"
      BY <2>3 DEF Decision
    <3> QED
      BY <1>4, <2>1, <3>1, <3>2
  <2> QED
    BY <2>2, <2>3
<1>6. CASE GetFlow
  <2> DEFINE f == request.at
             fl == cache.flows[f]
  <2>1. /\ UNCHANGED cache /\ request.pc = "flow"
        /\ request.base # None =>
             /\ Entrypoint \in DOMAIN cache.entrypoints /\ f = cache.entrypoints[Entrypoint]
             /\ cache = request.base
    BY <1>0, <1>6 DEF GetFlow, Followed
  <2>2. CASE f \notin DOMAIN cache.flows
    <3>1. Finish("flow not found")
      BY <1>6, <2>2 DEF GetFlow
    <3>2. request.base # None => Decision(cache, request.class) = "flow not found"
      BY <2>1, <2>2 DEF Decision
    <3> QED
      BY <1>4, <2>1, <3>1, <3>2
  <2>3. CASE f \in DOMAIN cache.flows /\ fl.router # ""
    <3>1. request' = [request EXCEPT !.pc = "router", !.at = fl.router]
      BY <1>6, <2>3 DEF GetFlow
    <3>2. /\ DOMAIN request' = DOMAIN request
          /\ request'.pc = "router" /\ request'.at = fl.router
          /\ request'.base = request.base
      BY <1>0, <3>1
    <3> QED
      BY <1>0, <2>1, <2>3, <3>2 DEF RequestInv, Followed
  <2>4. CASE f \in DOMAIN cache.flows /\ fl.router = "" /\ fl.balancer # ""
    <3>1. Finish(fl.balancer)
      BY <1>6, <2>4 DEF GetFlow
    <3>2. request.base # None => Decision(cache, request.class) = fl.balancer
      BY <2>1, <2>4 DEF Decision
    <3> QED
      BY <1>4, <2>1, <3>1, <3>2
  <2>5. CASE f \in DOMAIN cache.flows /\ fl.router = "" /\ fl.balancer = ""
    <3>1. Finish("no router or balancer")
      BY <1>6, <2>5 DEF GetFlow
    <3>2. request.base # None => Decision(cache, request.class) = "no router or balancer"
      BY <2>1, <2>5 DEF Decision
    <3> QED
      BY <1>4, <2>1, <3>1, <3>2
  <2> QED
    BY <2>2, <2>3, <2>4, <2>5
<1>7. CASE RouteRequest
  <2> DEFINE r == request.at
             t == cache.routers[r][request.class]
             e == cache.entrypoints[Entrypoint]
  <2>1. /\ UNCHANGED cache /\ request.pc = "router"
        /\ request.base # None =>
             /\ Entrypoint \in DOMAIN cache.entrypoints /\ e \in DOMAIN cache.flows
             /\ cache.flows[e].router # "" /\ r = cache.flows[e].router
    BY <1>0, <1>7 DEF RouteRequest, Followed
  <2>2. CASE r \notin DOMAIN cache.routers
    <3>1. Finish("router not found")
      BY <1>7, <2>2 DEF RouteRequest
    <3>2. request.base # None => Decision(cache, request.class) = "router not found"
      BY <2>1, <2>2 DEF Decision
    <3> QED
      BY <1>4, <2>1, <3>1, <3>2
  <2>3. CASE r \in DOMAIN cache.routers
    <3>1. Finish(IF t = None THEN "no matching rule" ELSE t)
      BY <1>7, <2>3 DEF RouteRequest
    <3>2. request.base # None =>
            Decision(cache, request.class) = IF t = None THEN "no matching rule" ELSE t
      BY <2>1, <2>3 DEF Decision
    <3> QED
      BY <1>4, <2>1, <3>1, <3>2
  <2> QED
    BY <2>2, <2>3
<1> QED
  BY <1>1, <1>2, <1>3, <1>5, <1>6, <1>7
     DEF ServingNext, ChangeConfig, WarmupCache, ListFails, ListKind, servingVars

\* cache.go:107-122, flow.go:17-46: for any configurations, loaders and requests,
\* a reload that no other overlapped leaves the three maps exactly as listed, and
\* a request that no reload disturbs is decided by that configuration as a whole.
THEOREM UndisturbedRequestsAreDecided == ServingSpec => []UndisturbedRequestFollowsLists
<1>1. ServingInit => LoadInv /\ RequestInv
  <2> SUFFICES ASSUME ServingInit PROVE LoadInv /\ RequestInv
    OBVIOUS
  <2>1. \A l \in Loaders : load[l] = IdleLoader
    BY DEF ServingInit
  <2>2. cache = [m \in Map |-> cache[m]] /\ \A m \in Map : IsFcn(cache[m])
    BY ServingAssumption DEF ServingInit, IsFcn
  <2>3. LoadInv
    BY <2>1, <2>2, FreshLoader DEF ServingInit, LoadInv, Loading
  <2>4. RequestInv
    BY DEF ServingInit, RequestInv, NoRequest, Followed
  <2> QED
    BY <2>3, <2>4
<1>2. LoadInv /\ RequestInv => UndisturbedRequestFollowsLists
  <2> SUFFICES ASSUME LoadInv, RequestInv PROVE UndisturbedRequestFollowsLists
    OBVIOUS
  <2>1. ASSUME request.pc = "done", request.base # None
        PROVE  request.outcome = Decision(request.base, request.class)
    BY <2>1 DEF RequestInv, Followed
  <2> QED
    BY <2>1 DEF LoadInv, UndisturbedRequestFollowsLists
<1> QED
  BY <1>1, <1>2, LoadStep, RequestStep, PTL DEF ServingSpec
=============================================================================
