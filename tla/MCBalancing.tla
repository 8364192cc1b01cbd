---------------------------- MODULE MCBalancing -----------------------------
(***************************************************************************)
(* The request path for TLC.  A behaviour is one of its three stages:      *)
(* Serving up to the balancer's id, Balancing up to the proxy, Transport   *)
(* up to the upstream; the state of the others rests.                      *)
(***************************************************************************)
EXTENDS Balancing, Serving, Transport

VARIABLE stage

ServingRests == ServingInit /\ conf = (CHOOSE c \in Configs : TRUE)
BalancingRests == Init /\ lb = NotFound

MCInit ==
  \/ stage = "serving" /\ ServingInit /\ BalancingRests /\ TransportInit
  \/ stage = "balancing" /\ ServingRests /\ Init /\ TransportInit
  \/ stage = "transport" /\ ServingRests /\ BalancingRests /\ TransportInit

MCNext ==
  /\ UNCHANGED stage
  /\ \/ stage = "serving" /\ ServingNext /\ UNCHANGED <<vars, transportVars>>
     \/ stage = "balancing" /\ Next /\ UNCHANGED <<servingVars, transportVars>>
     \/ stage = "transport" /\ TransportNext /\ UNCHANGED <<servingVars, vars>>

MCSpec == MCInit /\ [][MCNext]_<<stage, vars, servingVars, transportVars>>

-----------------------------------------------------------------------------
ToFlow(f) == "ep" :> f
Direct(b) == [router |-> "", balancer |-> b]
Routed(r) == [router |-> r, balancer |-> ""]
Rules(get, post) == [c \in {"get", "post"} |-> IF c = "get" THEN get ELSE post]

MCConfigs ==
  { [entrypoints |-> ToFlow("f"), flows |-> "f" :> Routed("r"),
     routers |-> "r" :> Rules("lb1", None)],
    [entrypoints |-> ToFlow("g"), flows |-> ("f" :> Direct("") @@ "g" :> Direct("lb1")),
     routers |-> <<>>] }

MCRecords ==
  {[id |-> "p", host |-> "up.example"], [id |-> "p", host |-> "10.0.0.1"],
   [id |-> "q", host |-> "up.example"]}

=============================================================================
