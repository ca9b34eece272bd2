----------------------------- MODULE MCRequests -----------------------------
(***************************************************************************)
(* The three tables of outstanding requests.  They share no state, so a    *)
(* behaviour exercises the one that Init chooses.                          *)
(***************************************************************************)
EXTENDS AskRequests, RpcCalls, OutboundDelivery

CONSTANTS a1, c1, s1, s2, Tables

VARIABLE table_in_use

requestVars == <<table_in_use, askVars, rpcVars, outVars>>

Init == table_in_use \in Tables /\ AskInit /\ RpcInit /\ OutInit

Next ==
    /\ UNCHANGED table_in_use
    /\ \/ table_in_use = "ask" /\ AskNext /\ UNCHANGED <<rpcVars, outVars>>
       \/ table_in_use = "rpc" /\ RpcNext /\ UNCHANGED <<askVars, outVars>>
       \/ table_in_use = "out" /\ OutNext /\ UNCHANGED <<askVars, rpcVars>>

FairSpec == Init /\ [][Next]_requestVars /\ AskFairness /\ RpcFairness /\ OutFairness
=============================================================================
