----------------------------- MODULE MCDelivery -----------------------------
(***************************************************************************)
(* What carries an actor's messages and keeps them: the delivery pipeline, *)
(* a stream session, the state and delivery stores, and the start of the   *)
(* runtime that makes the actors.  They are checked apart: a behaviour     *)
(* exercises the part that Init chooses.                                   *)
(***************************************************************************)
EXTENDS DeliveryPipeline, StreamSession, DurableState, FileDeliveryStore, RuntimeStartup

CONSTANTS a1, a2, b, d, ka, kb, kd, Parts

VARIABLE part

\* A message and its retransmission, one that is malformed, one to a missing actor.
MCKey == [s \in Sends |-> CASE s \in {a1, a2} -> ka [] s = b -> kb [] OTHER -> kd]

\* With a window of two bytes the last chunk starts within it and ends beyond it; one is
\* empty.
MCSizeOf == <<1, 0, 2>>

\* One id begins with the other's digits.
MCIds == {<<1>>, <<1, 2>>}

\* One initial state of a part that does not move is enough.
Init ==
    /\ part \in Parts
    /\ DeliveryInit /\ StreamInit /\ DurableInit /\ OutboxInit /\ StartupInit
    /\ part # "stream" => is_local
    /\ part # "state" => store_type = CHOOSE k \in StoreKinds : TRUE

Next ==
    /\ UNCHANGED part
    /\ \/ part = "pipeline" /\ DeliveryNext
          /\ UNCHANGED <<streamVars, durableVars, outboxVars, startupVars>>
       \/ part = "stream" /\ StreamNext
          /\ UNCHANGED <<deliveryVars, durableVars, outboxVars, startupVars>>
       \/ part = "state" /\ DurableNext
          /\ UNCHANGED <<deliveryVars, streamVars, outboxVars, startupVars>>
       \/ part = "outbox" /\ OutboxNext
          /\ UNCHANGED <<deliveryVars, streamVars, durableVars, startupVars>>
       \/ part = "startup" /\ StartupNext
          /\ UNCHANGED <<deliveryVars, streamVars, durableVars, outboxVars>>

Spec ==
    /\ Init /\ [][Next]_<<part, deliveryVars, streamVars, durableVars, outboxVars, startupVars>>
    /\ StreamFairness

\* What survives an actor or a process: state snapshots with their events, and the outbox
\* and inbox of durable delivery (see DurableInv and OutboxInv).
StoresInv == DurableInv /\ OutboxInv
=============================================================================
