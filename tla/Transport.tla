----------------------------- MODULE Transport ------------------------------
(***************************************************************************)
(* The way to an upstream proxy (adapters/proxy/net): one http.Transport   *)
(* per proxy id for plain requests, a dial of their own for tunnels, and   *)
(* under both the DNS cache.  Requests overlap anywhere.                   *)
(*                                                                         *)
(* An answer of the resolver is known by the time it was given at.         *)
(***************************************************************************)
EXTENDS Integers, FiniteSets

CONSTANTS
  Sends,       \* requests on their way upstream
  Records,     \* proxies as balancers may hand them out: [id, host]
  Literals,    \* hosts that are IP addresses
  TTL,         \* dns_cache.ttl
  MaxTime,     \* bound on the clock
  NoEntry

\* NoEntry is no host's name.
ASSUME TransportAssumption == TTL \in Nat /\ \A p \in Records : p.host # NoEntry

VARIABLES
  now,          \* the clock
  transports,   \* [proxy id -> host its transport leads to, or NoEntry]
  dns,          \* [host -> [answered, expires], or NoEntry]
  send          \* [request -> [pc, rec, host, start, answered, hit]]

transportVars == <<now, transports, dns, send>>

Ids == {p.id : p \in Records}
Hosts == {p.host : p \in Records}
Unsent == [pc |-> "idle", rec |-> NoEntry, host |-> "", start |-> 0, answered |-> 0, hit |-> FALSE]

TransportInit ==
  /\ now = 0
  /\ transports = [i \in Ids |-> NoEntry]
  /\ dns = [h \in Hosts |-> NoEntry]
  /\ send = [s \in Sends |-> Unsent]

Tick ==
  /\ now < MaxTime /\ now' = now + 1
  /\ UNCHANGED <<transports, dns, send>>

\* A balancer has picked: a plain request goes by its transport, CONNECT dials.
Picked(s, rec, connect) ==
  /\ send[s].pc = "idle"
  /\ send' = [send EXCEPT ![s] =
       IF connect THEN [Unsent EXCEPT !.pc = "dial", !.host = rec.host]
       ELSE [Unsent EXCEPT !.pc = "transport", !.rec = rec]]
  /\ UNCHANGED <<now, transports, dns>>

\* transports.LoadOrStore: the host the winning transport leads to, that of the
\* first record of this id for as long as the process lives.
LoadOrStore(rec) == IF transports[rec.id] = NoEntry THEN rec.host ELSE transports[rec.id]

RoundTrip(s) ==
  LET rec == send[s].rec
      host == LoadOrStore(rec)
  IN
  /\ send[s].pc = "transport"
  /\ transports' = [transports EXCEPT ![rec.id] = host]
  /\ \E idle \in BOOLEAN :   \* an idle connection of the transport is used again
       send' = [send EXCEPT ![s] = IF idle THEN Unsent
                                        ELSE [Unsent EXCEPT !.pc = "dial", !.host = host]]
  /\ UNCHANGED <<now, dns>>

\* dialWithDNSCache, up to the lookup: a literal needs none, a fresh entry is
\* used as it is.
DialWithDNSCache(s) ==
  LET e == dns[send[s].host]
      literal == send[s].host \in Literals
      fresh == e # NoEntry /\ now < e.expires
  IN
  /\ send[s].pc = "dial"
  /\ send' = [send EXCEPT ![s] =
       CASE literal -> [Unsent EXCEPT !.pc = "connect"]
         [] ~literal /\ fresh ->
              [Unsent EXCEPT !.pc = "connect", !.start = now, !.answered = e.answered, !.hit = TRUE]
         [] OTHER -> [@ EXCEPT !.pc = "lookup", !.start = now]]
  /\ UNCHANGED <<now, transports, dns>>

LookupAnswered(s) ==
  /\ send[s].pc = "lookup"
  /\ send' = [send EXCEPT ![s].pc = "store", ![s].answered = now]
  /\ UNCHANGED <<now, transports, dns>>

\* An error is returned and not stored.
LookupFails(s) ==
  /\ send[s].pc = "lookup"
  /\ send' = [send EXCEPT ![s] = Unsent]
  /\ UNCHANGED <<now, transports, dns>>

\* Mutant: the entry lives from when it is stored.
ExpiresFromStore(x) == now + TTL

\* now was read before the lookup.
ExpiresAt(x) == x.start + TTL

StoreAnswer(s) ==
  /\ send[s].pc = "store"
  /\ dns' = [dns EXCEPT ![send[s].host] =
               [answered |-> send[s].answered, expires |-> ExpiresAt(send[s])]]
  /\ send' = [send EXCEPT ![s] = [Unsent EXCEPT !.pc = "connect"]]
  /\ UNCHANGED <<now, transports>>

\* The addresses are tried in turn; all may fail.
Connect(s) ==
  /\ send[s].pc = "connect"
  /\ send' = [send EXCEPT ![s] = Unsent]
  /\ UNCHANGED <<now, transports, dns>>

TransportNext ==
  \/ Tick
  \/ \E s \in Sends :
       \/ \E rec \in Records, connect \in BOOLEAN : Picked(s, rec, connect)
       \/ RoundTrip(s) \/ DialWithDNSCache(s) \/ LookupAnswered(s) \/ LookupFails(s)
       \/ StoreAnswer(s) \/ Connect(s)

TransportSpec == TransportInit /\ [][TransportNext]_transportVars

-----------------------------------------------------------------------------
(***************************************************************************)
(* Properties.                                                             *)
(***************************************************************************)

\* dns_cache.go:45-69: an address taken from the cache was the resolver's answer
\* less than a TTL ago, however slow lookups are and in whatever order they store;
\* an older answer may replace a newer one but not outlive its own time.
AddressFresh ==
  \A s \in Sends : send[s].pc = "connect" /\ send[s].hit => send[s].start - send[s].answered < TTL
=============================================================================
