----------------------------- MODULE MCNetwork -----------------------------
(***************************************************************************)
(* The connection pool and one of its connections.  They are checked apart *)
(* (the pool sees a connection as up or down, the connection sees one      *)
(* caller): a behaviour exercises the layer that Init chooses.  For the    *)
(* pool that is three senders, enough to fill the queue, around one        *)
(* connection, or two senders around two.                                  *)
(***************************************************************************)
EXTENDS ConnectionPool, FrameConnection

CONSTANTS f1, f2, f3, k1, k2, o1, o2, i1, i2, i3, Layers

VARIABLE layer

\* The peer's frames: two ordinary ones, then one that is too large.
PeerFrames == <<i1, i2, i3>>

netVars == <<layer, poolVars, connVars>>

Init == layer \in Layers /\ PoolInit /\ ConnInit

Next ==
    /\ UNCHANGED layer
    /\ \/ layer = "queue" /\ PoolNext /\ conn'[k2] = None /\ UNCHANGED connVars
       \/ layer = "pool" /\ PoolNext /\ sender'[f3] = "new" /\ UNCHANGED connVars
       \/ layer = "conn" /\ ConnNext /\ UNCHANGED poolVars

FairSpec == Init /\ [][Next]_netVars /\ PoolFairness /\ ConnFairness
=============================================================================
