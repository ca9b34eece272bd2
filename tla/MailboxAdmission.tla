-------------------------- MODULE MailboxAdmission --------------------------
(***************************************************************************)
(* Admission to an MPSCActorMailbox: the two-phase ReservationManager, the *)
(* protected system lane, the overflow policies, try_push_batch, the       *)
(* release of capacity by dequeue and by eviction, the overflow queue and  *)
(* the pressure state.                                                     *)
(*                                                                         *)
(* A lane is the set of its messages, in the order of arrivals: MpscMailbox *)
(* is the module about its inside, ActorActivation the one about wake-ups. *)
(* Compare-exchange loops are one step: a failed exchange only retries.    *)
(***************************************************************************)
EXTENDS Integers, Sequences, FiniteSets, FiniteSetsExt

CONSTANTS
    Producers,
    Consumer,            \* the worker that runs the actor
    Messages,
    SystemMessages,      \* messages with 0 < type_tag < TypeTag::User
    Priority,            \* meta.priority of each message, clamped to the lanes
    Size,                \* estimate_message_bytes of each message
    NumLanes,            \* num_user_lanes_
    MaxMessages,         \* config_.capacity.max_messages
    MaxBytes,            \* config_.capacity.max_bytes, 0 = unlimited
    Protected,           \* config_.protected_system_messages
    MaxOverflow,         \* config_.max_overflow_depth, 0 = unlimited
    Refusable,           \* messages a policy of the admission chain may refuse
    Low, High, Critical, \* watermarks, in percent
    Policies,            \* the values config_.overflow_policy may have
    CountWrap,           \* reserved_messages_ counts modulo this (2^32 in the code)
    Batches              \* bound: whether try_push_batch is called

ASSUME AdmissionAssumption ==
    /\ Consumer \notin Producers
    /\ IsFiniteSet(Messages) /\ SystemMessages \subseteq Messages /\ Refusable \subseteq Messages
    /\ Size \in [Messages -> Nat]
    /\ NumLanes \in Nat \ {0} /\ Priority \in [Messages -> 0 .. NumLanes - 1]
    /\ MaxMessages \in Nat \ {0} /\ MaxBytes \in Nat
    /\ Protected \in Nat /\ MaxOverflow \in Nat
    /\ CountWrap \in Nat /\ CountWrap > Cardinality(Messages) /\ CountWrap > MaxMessages
    /\ Batches \in BOOLEAN

VARIABLES
    policy,          \* config_.overflow_policy
    at, lane,        \* where each message is, and the user lane it is routed to
    arrivals,        \* the messages in lanes and overflow queue, oldest first
    reserved, bytes, \* ReservationManager::reserved_messages_, queued_bytes_
    sys_reserved, sys_bytes, \* system_lane_reserved_, system_lane_bytes_
    lock,            \* holder of the consumer spin-lock
    pressure,        \* PressureStateMachine::pressure_state_
    pc, goal,        \* a thread: its step, and the call it makes the step for
    hand, rest,      \* the message it enqueues, the others of its batch
    out,             \* the message it took from a lane and releases
    sampled,         \* the state next_state() returned to it
    batched,         \* history: messages of a batch enqueued without a unit of their own
    stale, last_hard \* history: the last store of pressure_state_ was of a value
                     \* out of date; it was made for a hard failure

capacity == <<reserved, bytes, sys_reserved, sys_bytes>>
queues == <<at, lane, arrivals>>
pressures == <<pressure, sampled, stale, last_hard>>
thread == <<pc, goal, hand, rest, out>>
vars == <<policy, queues, capacity, lock, pressures, thread, batched>>

Threads == Producers \cup {Consumer}
UserMessages == Messages \ SystemMessages
Nobody == "nobody"
None == "none"
UserLanes == 0 .. NumLanes - 1
Places == {"unsent", "sending", "lane", "overflow", "popped",
           "received", "dropped", "rejected", "dead_letter", "lost"}
Steps == {"idle", "admit", "count", "bytes", "rollback", "full", "handle", "refuse",
          "uncount", "unbyte", "enqueue", "sample", "store", "drain", "respill"}
Goals == {"send", "retry", "batch", "evict", "dequeue", "drain", "requeue"}
PressureStates == {"normal", "soft", "hard", "recovering"}

Init ==
    /\ policy \in Policies
    /\ at = [m \in Messages |-> "unsent"]
    /\ lane = Priority
    /\ arrivals = <<>>
    /\ reserved = 0 /\ bytes = 0 /\ sys_reserved = 0 /\ sys_bytes = 0
    /\ lock = Nobody
    /\ pressure = "normal"
    /\ pc = [t \in Threads |-> "idle"]
    /\ goal = [t \in Threads |-> "send"]
    /\ hand = [t \in Threads |-> None]
    /\ rest = [t \in Threads |-> {}]
    /\ out = [t \in Threads |-> None]
    /\ sampled = [t \in Threads |-> "normal"]
    /\ batched = 0 /\ stale = FALSE /\ last_hard = FALSE

-----------------------------------------------------------------------------
\* Lanes and the overflow queue

InLane(l) == {m \in UserMessages : at[m] = "lane" /\ lane[m] = l}
SystemLane == {m \in SystemMessages : at[m] = "lane"}
UserDepth == Cardinality({m \in UserMessages : at[m] = "lane"})
Overflow == {m \in Messages : at[m] = "overflow"}

Before(m, n) == \E i, j \in DOMAIN arrivals : i < j /\ arrivals[i] = m /\ arrivals[j] = n
Oldest(S) == {m \in S : \A n \in S : ~Before(n, m)}

\* MultiLaneQueue::dequeue, try_drop_oldest_user_lane, try_drop_from_lowest_user_lane
FirstUserOut ==
    {m \in UserMessages : \E l \in UserLanes :
        m \in Oldest(InLane(l)) /\ \A k \in UserLanes : k < l => InLane(k) = {}}
FirstOut == IF SystemLane # {} THEN Oldest(SystemLane) ELSE FirstUserOut
LowestUserOut ==
    {m \in UserMessages : \E l \in UserLanes :
        m \in Oldest(InLane(l)) /\ \A k \in UserLanes : k > l => InLane(k) = {}}

Arrive(m) == arrivals' = Append(arrivals, m)
Leave(S) == arrivals' = SelectSeq(arrivals, LAMBDA m : m \notin S)

\* OverflowQueue::try_push: at max_depth the oldest entry makes room.
Spilled(m) ==
    LET evicted == IF MaxOverflow > 0 /\ Cardinality(Overflow) >= MaxOverflow
                   THEN Oldest(Overflow) ELSE {}
    IN  /\ at' = [n \in Messages |-> IF n = m THEN "overflow"
                                     ELSE IF n \in evicted THEN "lost" ELSE at[n]]
        /\ arrivals' = Append(SelectSeq(arrivals, LAMBDA n : n \notin evicted), m)
        /\ UNCHANGED lane

-----------------------------------------------------------------------------
\* Pressure

\* pressure_ratio() >= w
RatioAtLeast(w) ==
    \/ UserDepth * 100 >= w * MaxMessages
    \/ MaxBytes > 0 /\ (bytes + sys_bytes) * 100 >= w * MaxBytes

\* PressureStateMachine::next_state
NextPressure(hard_failure, current) ==
    CASE hard_failure \/ RatioAtLeast(Critical) -> "hard"
      [] ~(hard_failure \/ RatioAtLeast(Critical)) /\ ~RatioAtLeast(Low) -> "normal"
      [] ~(hard_failure \/ RatioAtLeast(Critical)) /\ RatioAtLeast(Low) ->
            IF current \in {"hard", "recovering"} THEN "recovering"
            ELSE IF RatioAtLeast(High) THEN "soft" ELSE current

UpdateHard ==
    /\ pressure' = "hard" /\ last_hard' = TRUE /\ stale' = FALSE
    /\ UNCHANGED sampled

-----------------------------------------------------------------------------
\* try_push and try_push_batch

Goto(t, step) == pc' = [pc EXCEPT ![t] = step]

\* The thread is done with its message; the fallback of a batch pushes the next.
Finish(t) ==
    /\ goal' = [goal EXCEPT ![t] = "send"]
    /\ IF rest[t] = {}
       THEN /\ Goto(t, "idle")
            /\ hand' = [hand EXCEPT ![t] = None]
            /\ UNCHANGED rest
       ELSE \E m \in rest[t] :
            /\ Goto(t, "admit")
            /\ hand' = [hand EXCEPT ![t] = m]
            /\ rest' = [rest EXCEPT ![t] = @ \ {m}]

TryPush(p, m) ==
    /\ pc[p] = "idle" /\ at[m] = "unsent"
    /\ at' = [at EXCEPT ![m] = "sending"]
    /\ hand' = [hand EXCEPT ![p] = m]
    /\ goal' = [goal EXCEPT ![p] = "send"]
    /\ Goto(p, "admit")
    /\ UNCHANGED <<policy, lane, arrivals, capacity, lock, pressures, rest, out, batched>>

\* The admission chain accepts and the message goes on to the budget of its
\* kind; no other thread sees the step, so the reservation is taken with it.
Admit(t, S) == pc[t] = "admit" /\ hand[t] \in S

\* A policy of the admission chain answers other than Accept.
RefuseAdmission(t) ==
    /\ pc[t] = "admit" /\ hand[t] \in Refusable
    /\ at' = [at EXCEPT ![hand[t]] = "rejected"]
    /\ Finish(t)
    /\ UNCHANGED <<policy, lane, arrivals, capacity, lock, pressures, out, batched>>

TryPushBatch(p, m, n) ==
    /\ Batches /\ pc[p] = "idle"
    /\ m # n /\ {m, n} \subseteq UserMessages /\ at[m] = "unsent" /\ at[n] = "unsent"
    /\ at' = [at EXCEPT ![m] = "sending", ![n] = "sending"]
    /\ lane' = [lane EXCEPT ![n] = lane[m]]
    /\ hand' = [hand EXCEPT ![p] = m]
    /\ rest' = [rest EXCEPT ![p] = {n}]
    /\ goal' = [goal EXCEPT ![p] = "batch"]
    /\ Goto(p, "count")
    /\ UNCHANGED <<policy, arrivals, capacity, lock, pressures, out, batched>>

ReserveSystem(t) ==
    /\ Admit(t, SystemMessages)
    /\ IF sys_reserved < Protected
       THEN sys_reserved' = sys_reserved + 1 /\ Goto(t, "enqueue")
       ELSE Goto(t, "refuse") /\ UNCHANGED sys_reserved
    /\ UNCHANGED <<policy, queues, reserved, bytes, sys_bytes, lock, pressures,
                   goal, hand, rest, out, batched>>

\* The bytes of the reservation: of the whole batch in try_push_batch.
Total(S) == MapThenSumSet(LAMBDA m : Size[m], S)
Demand(t) == IF goal[t] = "batch" THEN Total({hand[t]} \cup rest[t]) ELSE Size[hand[t]]

\* Where a reservation that fails continues.
Failed(t) == CASE goal[t] \in {"send", "batch"} -> "full"
               [] goal[t] = "retry" -> "refuse"
               [] goal[t] = "drain" -> "respill"

ReserveCount(t) ==
    /\ Admit(t, UserMessages) \/ pc[t] = "count"
    /\ IF reserved < MaxMessages
       THEN reserved' = (reserved + 1) % CountWrap /\ Goto(t, "bytes")
       ELSE Goto(t, Failed(t)) /\ UNCHANGED reserved
    /\ UNCHANGED <<policy, queues, bytes, sys_reserved, sys_bytes, lock, pressures,
                   goal, hand, rest, out, batched>>

ReserveBytes(t) ==
    /\ pc[t] = "bytes"
    /\ IF MaxBytes = 0 \/ bytes + Demand(t) <= MaxBytes
       THEN bytes' = bytes + Demand(t) /\ Goto(t, "enqueue")
       ELSE Goto(t, "rollback") /\ UNCHANGED bytes
    /\ UNCHANGED <<policy, queues, reserved, sys_reserved, sys_bytes, lock, pressures,
                   goal, hand, rest, out, batched>>

Uncounted == (reserved + CountWrap - 1) % CountWrap

\* Mutant: the byte check fails and the message count is not given back.
RollbackForgotten(t) ==
    /\ pc[t] = "rollback"
    /\ Goto(t, Failed(t))
    /\ UNCHANGED <<policy, queues, capacity, lock, pressures, goal, hand, rest, out, batched>>

Rollback(t) ==
    /\ pc[t] = "rollback"
    /\ reserved' = Uncounted
    /\ Goto(t, Failed(t))
    /\ UNCHANGED <<policy, queues, bytes, sys_reserved, sys_bytes, lock, pressures,
                   goal, hand, rest, out, batched>>

\* No capacity: hard pressure, then the overflow handler; a batch falls back to
\* a try_push for each of its messages.
Full(t) ==
    /\ pc[t] = "full"
    /\ UpdateHard
    /\ IF goal[t] = "batch"
       THEN goal' = [goal EXCEPT ![t] = "send"] /\ Goto(t, "admit")
       ELSE Goto(t, "handle") /\ UNCHANGED goal
    /\ UNCHANGED <<policy, queues, capacity, lock, hand, rest, out, batched>>

\* The system lane is full, or the second reservation failed too.
Refuse(t) ==
    /\ pc[t] = "refuse"
    /\ UpdateHard
    /\ at' = [at EXCEPT ![hand[t]] = "rejected"]
    /\ Finish(t)
    /\ UNCHANGED <<policy, lane, arrivals, capacity, lock, out, batched>>

-----------------------------------------------------------------------------
\* The overflow handlers

Handlers == [reject |-> "rejected", signal_only |-> "rejected",
             drop_newest |-> "dropped", dead_letter |-> "dead_letter"]

HandleNewest(t) ==
    /\ pc[t] = "handle" /\ policy \in DOMAIN Handlers
    /\ at' = [at EXCEPT ![hand[t]] = Handlers[policy]]
    /\ Finish(t)
    /\ UNCHANGED <<policy, lane, arrivals, capacity, lock, pressures, out, batched>>

HandleSpill(t) ==
    /\ pc[t] = "handle" /\ policy = "spill"
    /\ Spilled(hand[t])
    /\ Finish(t)
    /\ UNCHANGED <<policy, capacity, lock, pressures, out, batched>>

Victims == IF policy = "drop_oldest" THEN FirstUserOut ELSE LowestUserOut

Evict(t) ==
    /\ pc[t] = "handle" /\ policy \in {"drop_oldest", "drop_lowest"}
    /\ lock = Nobody
    /\ \E v \in Victims :
       /\ lock' = t
       /\ at' = [at EXCEPT ![v] = "popped"]
       /\ Leave({v})
       /\ out' = [out EXCEPT ![t] = v]
       /\ goal' = [goal EXCEPT ![t] = "evict"]
       /\ Goto(t, "uncount")
    /\ UNCHANGED <<policy, lane, capacity, pressures, hand, rest, batched>>

EvictNothing(t) ==
    /\ pc[t] = "handle" /\ policy \in {"drop_oldest", "drop_lowest"}
    /\ lock = Nobody /\ Victims = {}
    /\ at' = [at EXCEPT ![hand[t]] = "rejected"]
    /\ Finish(t)
    /\ UNCHANGED <<policy, lane, arrivals, capacity, lock, pressures, out, batched>>
-----------------------------------------------------------------------------
\* ReservationManager::release, enqueue_reserved and update_pressure_state

ReleaseCount(t) ==
    /\ pc[t] = "uncount" /\ out[t] \in UserMessages
    /\ reserved' = Uncounted
    /\ Goto(t, "unbyte")
    /\ UNCHANGED <<policy, queues, bytes, sys_reserved, sys_bytes, lock, pressures,
                   goal, hand, rest, out, batched>>

Gone(t) == [at EXCEPT ![out[t]] = IF goal[t] = "evict" THEN "dropped" ELSE "received"]

ReleaseBytes(t) ==
    /\ pc[t] = "unbyte"
    /\ bytes' = bytes - Size[out[t]]
    /\ at' = Gone(t)
    /\ out' = [out EXCEPT ![t] = None]
    /\ Goto(t, "sample")
    /\ UNCHANGED <<policy, lane, arrivals, reserved, sys_reserved, sys_bytes, lock,
                   pressures, goal, hand, rest, batched>>

ReleaseSystem(t) ==
    /\ pc[t] = "uncount" /\ out[t] \in SystemMessages
    /\ sys_bytes' = sys_bytes - Size[out[t]]
    /\ sys_reserved' = sys_reserved - 1
    /\ at' = Gone(t)
    /\ out' = [out EXCEPT ![t] = None]
    /\ Goto(t, "sample")
    /\ UNCHANGED <<policy, lane, arrivals, reserved, bytes, lock, pressures,
                   goal, hand, rest, batched>>

\* A drained or refused message goes to lane 0.
Enqueue(t) ==
    /\ pc[t] = "enqueue"
    /\ at' = [at EXCEPT ![hand[t]] = "lane"]
    /\ lane' = [lane EXCEPT ![hand[t]] = IF goal[t] \in {"drain", "requeue"} THEN 0 ELSE @]
    /\ Arrive(hand[t])
    /\ sys_bytes' = IF hand[t] \in SystemMessages THEN sys_bytes + Size[hand[t]] ELSE sys_bytes
    /\ Goto(t, "sample")
    /\ UNCHANGED <<policy, reserved, bytes, sys_reserved, lock, pressures,
                   goal, hand, rest, out, batched>>

\* update() loads, computes and stores: the load and the store are two steps.
Sample(t) ==
    /\ pc[t] = "sample"
    /\ sampled' = [sampled EXCEPT ![t] = NextPressure(FALSE, pressure)]
    /\ Goto(t, "store")
    /\ UNCHANGED <<policy, queues, capacity, lock, pressure, stale, last_hard,
                   goal, hand, rest, out, batched>>

\* What the caller of update_pressure_state does next: an eviction is followed by
\* a second try_reserve, a batch by its next node, a dequeue by drain_overflow.
Resume(t) ==
    \/ /\ goal[t] \in {"send", "retry", "batch"} /\ (goal[t] = "batch" => rest[t] = {})
       /\ Finish(t) /\ UNCHANGED <<lock, batched>>
    \/ /\ goal[t] = "batch" /\ batched' = batched + 1
       /\ \E m \in rest[t] : /\ hand' = [hand EXCEPT ![t] = m]
                             /\ rest' = [rest EXCEPT ![t] = @ \ {m}]
       /\ Goto(t, "enqueue") /\ UNCHANGED <<goal, lock>>
    \/ /\ goal[t] = "evict" /\ lock' = Nobody
       /\ goal' = [goal EXCEPT ![t] = "retry"]
       /\ Goto(t, "count") /\ UNCHANGED <<hand, rest, batched>>
    \/ /\ goal[t] \in {"dequeue", "drain"}
       /\ Goto(t, "drain") /\ UNCHANGED <<goal, hand, rest, lock, batched>>
    \/ goal[t] = "requeue" /\ Finish(t) /\ lock' = Nobody /\ UNCHANGED batched

Store(t) ==
    /\ pc[t] = "store"
    /\ pressure' = sampled[t]
    /\ stale' = (sampled[t] # NextPressure(FALSE, pressure))
    /\ last_hard' = FALSE
    /\ sampled' = [sampled EXCEPT ![t] = "normal"]
    /\ Resume(t)
    /\ UNCHANGED <<policy, queues, capacity, out>>

-----------------------------------------------------------------------------
\* dequeue and drain_overflow, under the consumer lock

Dequeue(m) ==
    /\ pc[Consumer] = "idle" /\ lock = Nobody /\ m \in FirstOut
    /\ lock' = Consumer
    /\ at' = [at EXCEPT ![m] = "popped"]
    /\ Leave({m})
    /\ out' = [out EXCEPT ![Consumer] = m]
    /\ goal' = [goal EXCEPT ![Consumer] = "dequeue"]
    /\ Goto(Consumer, "uncount")
    /\ UNCHANGED <<policy, lane, capacity, pressures, hand, rest, batched>>

\* The rate limiter has no token: the message goes back, its reservation stays.
Deny(m) ==
    /\ pc[Consumer] = "idle" /\ lock = Nobody
    /\ m \in FirstOut /\ m \in UserMessages
    /\ lock' = Consumer
    /\ at' = [at EXCEPT ![m] = "popped"]
    /\ Leave({m})
    /\ hand' = [hand EXCEPT ![Consumer] = m]
    /\ goal' = [goal EXCEPT ![Consumer] = "requeue"]
    /\ Goto(Consumer, "enqueue")
    /\ UNCHANGED <<policy, lane, capacity, pressures, rest, out, batched>>

DrainPop(m) ==
    /\ pc[Consumer] = "drain" /\ policy = "spill" /\ m \in Oldest(Overflow)
    /\ at' = [at EXCEPT ![m] = "popped"]
    /\ Leave({m})
    /\ hand' = [hand EXCEPT ![Consumer] = m]
    /\ goal' = [goal EXCEPT ![Consumer] = "drain"]
    /\ Goto(Consumer, "count")
    /\ UNCHANGED <<policy, lane, capacity, lock, pressures, rest, out, batched>>

DrainDone ==
    /\ pc[Consumer] = "drain" /\ (policy = "spill" => Overflow = {})
    /\ lock' = Nobody
    /\ hand' = [hand EXCEPT ![Consumer] = None]
    /\ goal' = [goal EXCEPT ![Consumer] = "send"]
    /\ Goto(Consumer, "idle")
    /\ UNCHANGED <<policy, queues, capacity, pressures, rest, out, batched>>

\* No capacity for the message drain_overflow popped: back to the overflow queue.
Respill ==
    /\ pc[Consumer] = "respill"
    /\ Spilled(hand[Consumer])
    /\ lock' = Nobody
    /\ Finish(Consumer)
    /\ UNCHANGED <<policy, capacity, pressures, out, batched>>

ProducerStep(p) ==
    \/ \E m \in Messages : TryPush(p, m)
    \/ \E m, n \in Messages : TryPushBatch(p, m, n)
    \/ RefuseAdmission(p) \/ ReserveSystem(p) \/ Full(p) \/ Refuse(p)
    \/ HandleNewest(p) \/ HandleSpill(p) \/ Evict(p) \/ EvictNothing(p)

ConsumerStep ==
    \/ \E m \in Messages : Dequeue(m) \/ Deny(m) \/ DrainPop(m)
    \/ DrainDone \/ Respill \/ ReleaseSystem(Consumer)

CommonStep(t) ==
    \/ ReserveCount(t) \/ ReserveBytes(t) \/ Rollback(t)
    \/ ReleaseCount(t) \/ ReleaseBytes(t) \/ Enqueue(t) \/ Sample(t) \/ Store(t)

Next ==
    \/ \E p \in Producers : ProducerStep(p)
    \/ ConsumerStep
    \/ \E t \in Threads : CommonStep(t)

Spec == Init /\ [][Next]_vars
-----------------------------------------------------------------------------
\* Properties

\* Every variable stays in its range; the counters are unsigned in the code.
TypeOK ==
    /\ policy \in Policies
    /\ at \in [Messages -> Places] /\ lane \in [Messages -> UserLanes]
    /\ arrivals \in Seq(Messages)
    /\ reserved \in 0 .. CountWrap - 1 /\ bytes \in Nat
    /\ sys_reserved \in Nat /\ sys_bytes \in Nat
    /\ lock \in Threads \cup {Nobody}
    /\ pressure \in PressureStates /\ sampled \in [Threads -> PressureStates]
    /\ pc \in [Threads -> Steps] /\ goal \in [Threads -> Goals]
    /\ hand \in [Threads -> Messages \cup {None}]
    /\ rest \in [Threads -> SUBSET UserMessages]
    /\ out \in [Threads -> Messages \cup {None}]
    /\ batched \in Nat /\ stale \in BOOLEAN /\ last_hard \in BOOLEAN

InHand(m, steps) == \E t \in Threads : hand[t] = m /\ pc[t] \in steps
BeingReleased(m, steps) == \E t \in Threads : out[t] = m /\ pc[t] \in steps

\* The messages that own a unit of max_messages, and those that own their bytes.
CountHolders ==
    {m \in UserMessages : \/ at[m] = "lane"
                          \/ InHand(m, {"bytes", "rollback", "enqueue"})
                          \/ BeingReleased(m, {"uncount"})}
ByteHolders ==
    {m \in UserMessages : \/ at[m] = "lane"
                          \/ InHand(m, {"enqueue"})
                          \/ \E t \in Threads : /\ goal[t] = "batch" /\ m \in rest[t]
                                               /\ pc[t] \in {"enqueue", "sample", "store"}
                          \/ BeingReleased(m, {"uncount", "unbyte"})}
SystemHolders ==
    {m \in SystemMessages : \/ at[m] = "lane"
                            \/ InHand(m, {"enqueue"})
                            \/ BeingReleased(m, {"uncount"})}

\* reserved_messages_ counts the user messages in the lanes and those on their
\* way in or out, whatever mix of full, rollback, eviction, retry, spill, drain
\* and rate-limiter refusal the threads go through, less one for every message a
\* batch enqueues after its first; and with no batch sent it never passes
\* max_messages: try_reserve and release are paired on every other path of
\* try_push, dequeue, drop_one_* and drain_overflow.
CountExact ==
    /\ reserved = (Cardinality(CountHolders) - batched) % CountWrap
    /\ batched = 0 => reserved <= MaxMessages

\* queued_bytes_ is the total size of the user messages that own their bytes, at
\* most max_bytes: the second phase of try_reserve and its release are paired too.
BytesExact ==
    /\ bytes = Total(ByteHolders)
    /\ MaxBytes > 0 => bytes <= MaxBytes

\* system_lane_reserved_ counts the system messages in or on their way into the
\* system lane, never more than protected_system_messages, and user load cannot
\* take that room: the two budgets are disjoint.
SystemExact ==
    /\ sys_reserved = Cardinality(SystemHolders)
    /\ sys_reserved <= Protected

AtRest == \A t \in Threads : pc[t] = "idle"

\* With every call returned, the pressure state is the one next_state() gives for
\* the depth and bytes of now, unless the last store was of a value computed
\* before another thread changed them (update() is not atomic): every path that
\* changes the depth or the bytes updates the state after it.
PressureCurrent ==
    AtRest /\ ~stale => pressure = NextPressure(last_hard, pressure)

\* Admission's books: message count, bytes, system budget and, at rest, the pressure
\* state agree with the messages in the lanes and on their way.
AdmissionInv == TypeOK /\ CountExact /\ BytesExact /\ SystemExact /\ PressureCurrent

\* With every call returned and no user message in the mailbox, the next user
\* message can be reserved for: what the comment on try_push_batch promises by
\* reserving for all N messages at once.
EmptyAdmits ==
    AtRest /\ UserDepth = 0 => reserved < MaxMessages
=============================================================================
