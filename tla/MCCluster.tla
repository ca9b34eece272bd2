------------------------------ MODULE MCCluster -----------------------------
(***************************************************************************)
(* The cluster layer's parts, each on its own: one behaviour is about      *)
(* gossip, or name resolution, or a node's cluster runtime, or a backend's *)
(* leases, as chosen in the initial state.                                 *)
(***************************************************************************)
EXTENDS GossipMembership, NameResolution, ClusterRuntime, LeadershipLease, TLC

CONSTANTS n1, n2, n3, nx, ny, r1, r2,
          Parts     \* which parts to check

VARIABLE part

vars == <<part, gossipVars, namesVars, runtimeVars, leaseVars>>

Seeds == n1 :> <<n2>> @@ n2 :> <<n1, n3>> @@ n3 :> <<n1, n2>>

\* Both names live on n1, where ny is registered; nx is registered on n2.
Homes == nx :> n1 @@ ny :> n1
Registrars == nx :> {n2} @@ ny :> {n1}
MovingRegistrars == nx :> {n2, n3} @@ ny :> {n1}
Callers == r1 :> n2 @@ r2 :> n2

\* Outside the gossip part no node is up, so that its fairness asks nothing.
Init ==
    /\ part \in Parts
    /\ GossipInit /\ (up # {}) = (part = "gossip")
    /\ NamesInit /\ RuntimeInit /\ LeaseInit

Next ==
    /\ UNCHANGED part
    /\ \/ /\ part = "gossip" /\ GossipNext
          /\ UNCHANGED <<namesVars, runtimeVars, leaseVars>>
       \/ /\ part = "names" /\ NamesNext
          /\ UNCHANGED <<gossipVars, runtimeVars, leaseVars>>
       \/ /\ part = "runtime" /\ RuntimeNext
          /\ UNCHANGED <<gossipVars, namesVars, leaseVars>>
       \/ /\ part = "lease" /\ LeaseNext
          /\ UNCHANGED <<gossipVars, namesVars, runtimeVars>>

FairSpec == Init /\ [][Next]_vars /\ GossipFairness

NamesFairSpec == Init /\ [][Next]_vars /\ NamesFairness
=============================================================================
