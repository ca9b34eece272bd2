-------------------------- MODULE DeliveryPipeline --------------------------
(***************************************************************************)
(* Local delivery to one actor with a quarantine policy: the stages of     *)
(* DeliveryPipeline::try_deliver (circuit gate, expiry, duplicate          *)
(* suppression, push, roll-back), the DedupCache and DeadLetterQueue they  *)
(* share, and the worker's side of the circuit breaker in EventBasedActor. *)
(*                                                                         *)
(* CircuitBreakerTracker is a plain struct that the senders' gate and the  *)
(* actor's worker both write: its accesses are separate steps.  A mailbox  *)
(* is a bounded queue here, MailboxAdmission is about its inside.          *)
(***************************************************************************)
EXTENDS Integers, Sequences, FiniteSets

CONSTANTS
    Sends, Keys,
    Key,             \* (source endpoint, source actor, message id) of a send
    Tracked,         \* sends in a tracked delivery mode: these are de-duplicated
    Missing,         \* sends to an actor that is not in the directory
    FastTag,         \* sends whose tag the actor registered as fast
    Perishable,      \* sends with a deadline, which may have passed
    Malformed,       \* sends whose payload the handler cannot deserialize
    MailboxCapacity,
    CacheMax,        \* DedupCache::Config::max_entries
    DlqCapacity,
    DlqPolicy,       \* DeadLetterConfig::overflow_policy
    DeadLetterFull,  \* whether the mailbox's overflow policy is DeadLetter
    MaxTrips,        \* QuarantinePolicy::max_circuit_trips
    PressureAt,      \* mailbox_pressure_threshold, as a depth
    MaxCommands      \* bound on the operator's commands

ASSUME PipelineAssumption ==
    /\ IsFiniteSet(Sends) /\ Key \in [Sends -> Keys]
    /\ Tracked \subseteq Sends /\ Missing \subseteq Sends /\ FastTag \subseteq Sends
    /\ Perishable \subseteq Sends /\ Malformed \subseteq Sends
    /\ MailboxCapacity \in Nat /\ CacheMax \in Nat \ {0} /\ DlqCapacity \in Nat \ {0}
    /\ DlqPolicy \in {"DropOldestRecord", "DropNewestRecord"}
    /\ DeadLetterFull \in BOOLEAN
    /\ MaxTrips \in Nat \ {0} /\ PressureAt \in Nat \ {0} /\ MaxCommands \in Nat

VARIABLES
    pc, result,             \* a send: its next stage, the EnqueueResultCode returned
    entries,                \* DedupCache::Impl::entries
    mbox,                   \* the actor's mailbox
    cb_state, cb_trips,     \* CircuitBreakerTracker::state, trip_count
    cb_probe, cooled,       \* half_open_probe_in_flight; now - opened_at >= cooldown
    lc,                     \* the actor's lifecycle state
    receiving, taken,            \* the worker's step in receive(), the message it received
    dlq, dlq_cap,           \* DeadLetterQueue::records_, config_.capacity
    dlq_popped, dlq_lost,   \* total_popped_, total_lost_
    entered, forgotten,     \* history: sends that entered the mailbox, keys evicted
    probes, wasted,         \* history: pending sends admitted as a probe; whether a
                            \* probe ended without a verdict
    dead, commands          \* history: number of dead letters, of operator commands

sends == <<pc, result>>
breaker == <<cb_state, cb_trips, cb_probe, cooled>>
actor == <<lc, receiving, taken>>
letters == <<dlq, dlq_cap, dlq_popped, dlq_lost, dead>>
deliveryHistory == <<forgotten, probes, wasted, commands>>
deliveryVars == <<sends, entries, mbox, breaker, actor, letters, entered, deliveryHistory>>

None == "none"
Stages == {"new", "half_open", "probe", "check", "push", "rollback", "done"}
Results == {"Accepted", "CircuitOpen", "Rejected", "ActorNotFound", None}

DeliveryInit ==
    /\ pc = [s \in Sends |-> "new"] /\ result = [s \in Sends |-> None]
    /\ entries = {} /\ mbox = << >>
    /\ cb_state = "Closed" /\ cb_trips = 0 /\ cb_probe = FALSE /\ cooled = TRUE
    /\ lc = "Active" /\ receiving = "idle" /\ taken = None
    /\ dlq = << >> /\ dlq_cap = DlqCapacity /\ dlq_popped = 0 /\ dlq_lost = 0 /\ dead = 0
    /\ entered = {} /\ forgotten = {} /\ probes = {} /\ wasted = FALSE /\ commands = 0
-----------------------------------------------------------------------------
(* DeadLetterQueue. *)

\* MetadataOnly drops the oldest record as DropOldestRecord does.
DeadLetter(s) ==
    /\ dead' = dead + 1
    /\ IF Len(dlq) < dlq_cap
         THEN dlq' = Append(dlq, s) /\ UNCHANGED dlq_lost
         ELSE /\ dlq' = IF DlqPolicy = "DropOldestRecord" THEN Append(Tail(dlq), s) ELSE dlq
              /\ dlq_lost' = dlq_lost + 1
    /\ UNCHANGED <<dlq_cap, dlq_popped>>

\* try_pop_at, with index 0 for try_pop.
DlqPop ==
    \E i \in 1 .. Len(dlq) :
        /\ dlq' = SubSeq(dlq, 1, i - 1) \o SubSeq(dlq, i + 1, Len(dlq))
        /\ dlq_popped' = dlq_popped + 1
        /\ UNCHANGED <<sends, entries, mbox, breaker, actor, dlq_cap, dlq_lost, dead, entered, deliveryHistory>>

DlqReconfigure ==
    /\ dlq_cap > 1 /\ dlq_cap' = 1
    /\ IF Len(dlq) > 1
         THEN dlq' = SubSeq(dlq, Len(dlq), Len(dlq)) /\ dlq_lost' = dlq_lost + Len(dlq) - 1
         ELSE UNCHANGED <<dlq, dlq_lost>>
    /\ UNCHANGED <<sends, entries, mbox, breaker, actor, dlq_popped, dead, entered, deliveryHistory>>
-----------------------------------------------------------------------------
(* DeliveryPipeline::try_deliver, one send per thread. *)

Step(s, to) == pc' = [pc EXCEPT ![s] = to]
Return(s, r) == Step(s, "done") /\ result' = [result EXCEPT ![s] = r]

\* A probe that ends in any way but the handler's verdict leaves the flag set.
Unprobed(s) == probes' = probes \ {s} /\ wasted' = (wasted \/ s \in probes)

RejectMissing(s) ==
    /\ pc[s] = "new" /\ s \in Missing
    /\ Return(s, "ActorNotFound") /\ DeadLetter(s)
    /\ UNCHANGED <<entries, mbox, breaker, actor, entered, deliveryHistory>>

\* push_circuit_open_dlq
RefuseOpen(s) == Return(s, "CircuitOpen") /\ DeadLetter(s)

\* check_circuit_breaker: what the gate reads decides; what it stores comes later.
GateClosed(s) ==
    /\ pc[s] = "new" /\ s \notin Missing /\ cb_state = "Closed"
    /\ Step(s, "check")
    /\ UNCHANGED <<result, entries, mbox, breaker, actor, letters, entered, deliveryHistory>>

GateOpen(s) ==
    /\ pc[s] = "new" /\ s \notin Missing /\ cb_state = "Open"
    /\ \/ cooled /\ Step(s, "half_open") /\ UNCHANGED <<result, letters>>
       \/ ~cooled /\ RefuseOpen(s)
    /\ UNCHANGED <<entries, mbox, breaker, actor, entered, deliveryHistory>>

GateHalfOpen(s) ==
    /\ pc[s] = "new" /\ s \notin Missing /\ cb_state = "HalfOpen"
    /\ \/ ~cb_probe /\ Step(s, "probe") /\ UNCHANGED <<result, letters>>
       \/ cb_probe /\ RefuseOpen(s)
    /\ UNCHANGED <<entries, mbox, breaker, actor, entered, deliveryHistory>>

StoreHalfOpen(s) ==
    /\ pc[s] = "half_open" /\ Step(s, "check")
    /\ cb_state' = "HalfOpen" /\ cb_probe' = TRUE /\ probes' = probes \cup {s}
    /\ UNCHANGED <<result, entries, mbox, cb_trips, cooled, actor, letters, entered, forgotten, wasted, commands>>

StoreProbe(s) ==
    /\ pc[s] = "probe" /\ Step(s, "check")
    /\ cb_probe' = TRUE /\ probes' = probes \cup {s}
    /\ UNCHANGED <<result, entries, mbox, cb_state, cb_trips, cooled, actor, letters, entered, forgotten, wasted, commands>>

CheckExpired(s) ==
    /\ pc[s] = "check" /\ s \in Perishable
    /\ Return(s, "Rejected") /\ DeadLetter(s) /\ Unprobed(s)
    /\ UNCHANGED <<entries, mbox, breaker, actor, entered, forgotten, commands>>

\* Mutant: a full cache takes no new entry.
InsertIfRoom(k) ==
    /\ entries' = IF Cardinality(entries) < CacheMax THEN entries \cup {k} ELSE entries
    /\ UNCHANGED forgotten

\* DedupCache::is_duplicate inserts; over capacity it erases from begin() of an
\* unordered map: any entries, the new one included.
Insert(k) ==
    LET all == entries \cup {k}
        surplus == IF CacheMax < 20 THEN 1 ELSE CacheMax \div 10
    IN  IF Cardinality(all) <= CacheMax
          THEN entries' = all /\ UNCHANGED forgotten
          ELSE \E E \in SUBSET all :
                  /\ Cardinality(E) = surplus
                  /\ entries' = all \ E /\ forgotten' = forgotten \cup E

CheckDuplicate(s) ==
    /\ pc[s] = "check"
    /\ \/ /\ s \notin Tracked
          /\ Step(s, "push") /\ UNCHANGED <<result, entries, forgotten, probes, wasted>>
       \/ /\ s \in Tracked /\ Key[s] \notin entries
          /\ Insert(Key[s])
          /\ Step(s, "push") /\ UNCHANGED <<result, probes, wasted>>
       \/ /\ s \in Tracked /\ Key[s] \in entries
          /\ Return(s, "Accepted") /\ Unprobed(s)
          /\ UNCHANGED <<entries, forgotten>>
    /\ UNCHANGED <<mbox, breaker, actor, letters, entered, commands>>

PushMessage(s) ==
    /\ pc[s] = "push"
    /\ IF Len(mbox) < MailboxCapacity
         THEN /\ mbox' = Append(mbox, s) /\ entered' = entered \cup {s}
              /\ Return(s, "Accepted")
         ELSE Step(s, "rollback") /\ UNCHANGED <<mbox, result, entered>>
    /\ UNCHANGED <<entries, breaker, actor, letters, deliveryHistory>>

\* A message the mailbox refused is a dead letter only under that overflow policy.
EmitRejectionObservability(s) == IF DeadLetterFull THEN DeadLetter(s) ELSE UNCHANGED letters

\* Mutant: the entry of a refused message stays in the cache.
RollbackForgotten(s) ==
    /\ pc[s] = "rollback" /\ Return(s, "Rejected") /\ Unprobed(s)
    /\ UNCHANGED <<entries, mbox, breaker, actor, letters, entered, forgotten, commands>>

\* Rejected: DedupCache::remove, then emit_rejection_observability.
Rollback(s) ==
    /\ pc[s] = "rollback" /\ Return(s, "Rejected") /\ Unprobed(s)
    /\ entries' = IF s \in Tracked THEN entries \ {Key[s]} ELSE entries
    /\ EmitRejectionObservability(s)
    /\ UNCHANGED <<mbox, breaker, actor, entered, forgotten, commands>>
-----------------------------------------------------------------------------
(* EventBasedActor::receive, on the actor's worker. *)

Receive ==
    /\ receiving = "idle" /\ mbox # << >>
    /\ taken' = Head(mbox) /\ mbox' = Tail(mbox) /\ receiving' = "receive"
    /\ UNCHANGED <<sends, entries, breaker, lc, letters, entered, deliveryHistory>>

\* apply_lifecycle_gate: dropped with a metric only, no dead letter.
Discard ==
    /\ receiving = "receive" /\ taken \notin FastTag /\ lc # "Active"
    /\ receiving' = "idle" /\ taken' = None /\ Unprobed(taken)
    /\ UNCHANGED <<sends, entries, mbox, breaker, lc, letters, entered, forgotten, commands>>

Dispatchable == receiving = "receive" /\ (taken \in FastTag \/ lc = "Active")
AfterDispatch == receiving' = IF taken \in FastTag THEN "idle" ELSE "pressure"

\* record_circuit_breaker_result(true)
DispatchSuccess ==
    /\ Dispatchable /\ taken \notin Malformed
    /\ probes' = probes \ {taken} /\ taken' = None /\ AfterDispatch
    /\ IF cb_state = "HalfOpen"
         THEN cb_state' = "Closed" /\ cb_trips' = 0 /\ cb_probe' = FALSE
         ELSE UNCHANGED <<cb_state, cb_trips, cb_probe>>
    /\ UNCHANGED <<sends, entries, mbox, cooled, lc, letters, entered, forgotten, wasted, commands>>

\* record_circuit_breaker_result(false): failure_ema is or is not above the
\* threshold; at or below it the function returns.
DispatchFailure ==
    /\ Dispatchable /\ taken \in Malformed /\ taken' = None
    /\ \/ AfterDispatch /\ Unprobed(taken)
       \/ receiving' = (IF taken \in FastTag THEN "failed_fast" ELSE "failed")
          /\ probes' = probes \ {taken} /\ UNCHANGED wasted
    /\ UNCHANGED <<sends, entries, mbox, breaker, lc, letters, entered, forgotten, commands>>

\* transition_to_quarantined from Active; its other sources fail the table.
Escalate(trips) ==
    lc' = IF trips >= MaxTrips /\ lc = "Active" THEN "Quarantined" ELSE lc

NextStep == [failed |-> "pressure", failed_fast |-> "idle", pressure |-> "idle",
             trip_failed |-> "pressure", trip_failed_fast |-> "idle", trip_pressure |-> "idle"]
Tripping == [failed |-> "trip_failed", failed_fast |-> "trip_failed_fast", pressure |-> "trip_pressure"]
Must == receiving \in {"failed", "failed_fast"} \/ (receiving = "pressure" /\ Len(mbox) >= PressureAt)

\* trip_circuit stores the state first ...
TripState ==
    /\ Must /\ cb_state # "Open"
    /\ cb_state' = "Open" /\ receiving' = Tripping[receiving]
    /\ UNCHANGED <<sends, entries, mbox, cb_trips, cb_probe, cooled, lc, taken, letters, entered, deliveryHistory>>

\* ... then opened_at, the probe flag and the count, and may quarantine the actor.
TripRest ==
    /\ receiving \in {"trip_failed", "trip_failed_fast", "trip_pressure"}
    /\ cooled' = FALSE /\ cb_probe' = FALSE /\ cb_trips' = cb_trips + 1
    /\ Escalate(cb_trips + 1) /\ receiving' = NextStep[receiving]
    /\ UNCHANGED <<sends, entries, mbox, cb_state, taken, letters, entered, deliveryHistory>>

AlreadyOpen ==
    /\ Must /\ cb_state = "Open"
    /\ Escalate(cb_trips) /\ receiving' = NextStep[receiving]
    /\ UNCHANGED <<sends, entries, mbox, breaker, taken, letters, entered, deliveryHistory>>

NoPressure ==
    /\ receiving = "pressure" /\ Len(mbox) < PressureAt
    /\ receiving' = "idle"
    /\ UNCHANGED <<sends, entries, mbox, breaker, lc, taken, letters, entered, deliveryHistory>>

\* A QuarantineRequest or KillRequest: system messages pass every gate.
OperatorCommand ==
    /\ receiving = "idle" /\ commands < MaxCommands /\ commands' = commands + 1
    /\ \/ lc = "Active" /\ lc' = "Quarantined" /\ UNCHANGED breaker
       \/ /\ lc = "Quarantined" /\ lc' = "Active"
          /\ cb_state' = "Closed" /\ cb_trips' = 0 /\ cb_probe' = FALSE
          /\ UNCHANGED cooled
       \/ lc # "Stopped" /\ lc' = "Stopped" /\ UNCHANGED breaker
    /\ UNCHANGED <<sends, entries, mbox, receiving, taken, letters, entered, forgotten, probes, wasted>>

\* The cool-down period passes.
Cooldown ==
    /\ ~cooled /\ cooled' = TRUE
    /\ UNCHANGED <<sends, entries, mbox, cb_state, cb_trips, cb_probe, actor, letters, entered, deliveryHistory>>

SendStep(s) ==
    \/ RejectMissing(s) \/ GateClosed(s) \/ GateOpen(s) \/ GateHalfOpen(s)
    \/ StoreHalfOpen(s) \/ StoreProbe(s) \/ CheckExpired(s) \/ CheckDuplicate(s)
    \/ PushMessage(s) \/ Rollback(s)
WorkerStep ==
    \/ Receive \/ Discard \/ DispatchSuccess \/ DispatchFailure
    \/ TripState \/ TripRest \/ AlreadyOpen \/ NoPressure
DeliveryNext ==
    \/ \E s \in Sends : SendStep(s)
    \/ WorkerStep \/ OperatorCommand \/ Cooldown \/ DlqPop \/ DlqReconfigure

DeliverySpec == DeliveryInit /\ [][DeliveryNext]_deliveryVars

-----------------------------------------------------------------------------
(* Properties. *)

\* The fields, stages and counters keep their types.
DeliveryTypeOK ==
    /\ pc \in [Sends -> Stages] /\ result \in [Sends -> Results]
    /\ entries \subseteq Keys /\ Cardinality(entries) <= CacheMax
    /\ cb_state \in {"Closed", "Open", "HalfOpen"} /\ cb_trips \in Nat
    /\ cb_probe \in BOOLEAN /\ cooled \in BOOLEAN
    /\ lc \in {"Active", "Quarantined", "Stopped"}
    /\ receiving \in {"idle", "receive"} \cup DOMAIN NextStep
    /\ taken \in Sends \cup {None}
    /\ Len(mbox) <= MailboxCapacity /\ Len(dlq) <= dlq_cap
    /\ entered \subseteq Sends /\ probes \subseteq Sends /\ forgotten \subseteq Keys

\* A key the cache holds while no delivery under it is between its insertion and
\* its roll-back is the key of a message that did enter the mailbox: a refused
\* message never suppresses its own retries (the MSG-006 roll-back in try_deliver).
RetriesNotSuppressed ==
    \A k \in entries :
        \/ \E s \in Tracked : Key[s] = k /\ pc[s] \in {"push", "rollback"}
        \/ \E s \in entered : Key[s] = k

\* Of the tracked sends under one key at most one enters the mailbox, unless the
\* cache evicted the key: concurrent retransmissions never both pass is_duplicate.
AtMostOnce ==
    \A k \in Keys \ forgotten :
        Cardinality({s \in entered \cap Tracked : Key[s] = k}) <= 1

\* While the half-open circuit refuses messages because a probe is in flight, one
\* is, or some earlier probe ended with no verdict of the handler (it was expired,
\* a duplicate, refused by the mailbox, dropped by the lifecycle gate, or failed
\* without crossing the failure threshold).
RefusalsHaveAProbe ==
    cb_state = "HalfOpen" /\ cb_probe =>
        probes # {} \/ wasted \/ receiving \in {"failed", "failed_fast"}

\* Every message given to the dead letter queue is in it, was popped by the
\* operator, or is counted in total_lost_: overflow and reconfigure() lose none
\* of them silently.
DeadLettersAccounted == dead = Len(dlq) + dlq_popped + dlq_lost

\* The pipeline's safety: one tracked send per key gets in, the circuit refuses only for
\* a probe's sake, and every dead letter is accounted for.
DeliveryInv == DeliveryTypeOK /\ AtMostOnce /\ RefusalsHaveAProbe /\ DeadLettersAccounted

\* Stated by the tracker's and the pipeline's comments: a duplicate is answered
\* Accepted because the receiver already has the message.
AcceptedWasQueued ==
    \A s \in Tracked :
        result[s] = "Accepted" =>
            \/ \E t \in entered : Key[t] = Key[s]
            \/ \E t \in Sends : Key[t] = Key[s] /\ pc[t] \in {"push", "rollback"}

\* Stated by CircuitBreakerTracker: half_open_probe_in_flight is true when a
\* half-open probe message is in flight.
ProbeFlagTruthful == cb_state = "HalfOpen" /\ cb_probe => probes # {}

\* Stated by CircuitBreakerTracker: the flag prevents more than one probe at a time.
OneProbeAtATime == Cardinality(probes) <= 1
=============================================================================
