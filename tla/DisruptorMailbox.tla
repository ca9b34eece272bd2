-------------------------- MODULE DisruptorMailbox --------------------------
(***************************************************************************)
(* DisruptorActorMailboxCore with the worker that executes its actor       *)
(* (ActorExecutionEngine::run_fixed_actor): bounded admission through the  *)
(* ReservationManager, the user rings, the control lanes, the overflow     *)
(* policies, the edge-triggered work_signaled_ gate and begin_drain.       *)
(*                                                                         *)
(* A ring is DisruptorMpscRing with the slot check and the compare-        *)
(* exchange of a claim taken in one step.  The actor has one worker at a   *)
(* time (OneRunner of ActorActivation) and a ready actor is dispatched     *)
(* (ReadyIsDispatched), so actor state "ready" stands for its work item.   *)
(***************************************************************************)
EXTENDS Integers, Sequences, FiniteSets

CONSTANTS
    Producers,
    NumLanes,          \* num_user_lanes_
    Capacity,          \* physical slots of a ring
    MaxQueued,         \* config_.capacity.max_messages, clamped to Capacity
    MaxOverflow,       \* config_.max_overflow_depth
    MaxControl,        \* protected_system_messages_
    Policies,          \* the values config_.overflow_policy may have
    CountWrap,         \* reserved_messages_ counts modulo this (2^32 in the code)
    MaxMessages,       \* bound on try_push calls of all kinds
    MaxControlSends,   \* bound on try_push_control and try_push_dynamic calls
    ControlPolicies    \* bound: the policies under which those are made too

ASSUME CapacityAssumption ==
    /\ Capacity \in Nat /\ Capacity >= 2
    /\ MaxQueued \in 1 .. Capacity
    /\ NumLanes \in Nat \ {0} /\ MaxMessages \in Nat
    /\ CountWrap \in Nat /\ CountWrap > MaxMessages

VARIABLES
    policy,          \* config_.overflow_policy
    accepting,       \* accepting_user_ as other threads see it
    draining,        \* begin_drain was called; its store may still be buffered
    quiesced,        \* publishers_quiescent() answered true to the drainer: before the
                     \* drain was visible ("early"), or after ("final")
    in_flight,       \* in_flight_publishers_
    reserved,        \* ReservationManager::reserved_messages_
    ring,            \* user_rings_
    overflow,        \* overflow_queue_
    control,         \* system_queue_ and dynamic_queue_
    control_mutex,   \* control lanes whose mutex is held by a producer
    block_mutex,     \* the producer that holds block_mutex_, if any
    work_signaled,   \* work_signaled_
    state,           \* actor_state()
    ppc, msg, lane, seq,   \* a producer: its step, message, ring and claimed sequence
    wpc, scan,       \* the worker: its step, its position in a scan of the lanes
    held,            \* the lane and sequence of the worker's lease
    moved, mseq,     \* drain_overflow: the envelope it moves and its claimed sequence
    drop,            \* the lane and sequence a dropping producer acquired
    sent, controls,  \* history: numbers of calls made
    received,        \* history: messages given to on_user_message
    spilled,         \* history: messages pushed to overflow_queue_, in order
    left_set         \* history: the worker last went to rest with the gate set

lifecycle == <<policy, accepting, draining, quiesced>>
controlVars == <<control, control_mutex>>
gate == <<work_signaled, state>>
mailbox == <<lifecycle, in_flight, reserved, ring, overflow, controlVars, block_mutex>>
locals == <<msg, lane, seq, drop>>
worker == <<wpc, scan, held, moved, mseq>>
history == <<sent, controls, received, spilled, left_set>>
vars == <<mailbox, gate, ppc, locals, worker, history>>

Lanes == 1 .. NumLanes
System == NumLanes + 1
Dynamic == NumLanes + 2
ControlLanes == {System, Dynamic}
Nobody == "nobody"
NoEnvelope == [m |-> 0, l |-> 1]

\* ring_for order of consume_one, and of empty().
ConsumeOrder == <<System, Dynamic>> \o [l \in Lanes |-> l]
EmptyOrder == [l \in Lanes |-> l] \o <<Dynamic, System>>

Slot(n) == n % Capacity

Init ==
    /\ policy \in Policies
    /\ accepting = TRUE /\ draining = FALSE /\ quiesced = "no"
    /\ in_flight = 0 /\ reserved = 0
    /\ ring = [l \in Lanes |-> [claim |-> 0, mirror |-> 0, cursor |-> 0, closed |-> FALSE,
                                seq |-> [i \in 0 .. Capacity - 1 |-> i],
                                val |-> [i \in 0 .. Capacity - 1 |-> 0]]]
    /\ overflow = << >>
    /\ control = [c \in ControlLanes |-> << >>]
    /\ control_mutex = {}
    /\ block_mutex = Nobody
    /\ work_signaled = FALSE
    /\ state = "idle"
    /\ ppc = [p \in Producers |-> "idle"]
    /\ msg = [p \in Producers |-> 0]
    /\ lane = [p \in Producers |-> 1]
    /\ seq = [p \in Producers |-> 0]
    /\ drop = [p \in Producers |-> <<1, 0>>]
    /\ wpc = "idle" /\ scan = 1 /\ held = <<1, 0>>
    /\ moved = NoEnvelope /\ mseq = 0
    /\ sent = 0 /\ controls = 0
    /\ received = << >> /\ spilled = << >>
    /\ left_set = FALSE

Goto(p, step) == ppc' = [ppc EXCEPT ![p] = step]
WGoto(step) == wpc' = step

-----------------------------------------------------------------------------
\* The ring operations.
Published(l) == ring[l].seq[Slot(ring[l].mirror)] = ring[l].mirror + 1

RingEmpty(l) == ring[l].mirror = ring[l].cursor

ReleaseSlot(l, n) == ring' = [ring EXCEPT ![l].seq[Slot(n)] = n + Capacity]

\* ReservationManager; the byte count moves with the message count because
\* every envelope has the same size.
CanReserve == reserved < MaxQueued
ReserveOne == reserved' = (reserved + 1) % CountWrap
ReleaseOne == reserved' = (reserved - 1) % CountWrap

\* notify_ready: try_mark_ready takes an idle actor only.
NotifyReady == state' = IF state = "idle" THEN "ready" ELSE state

-----------------------------------------------------------------------------
\* try_push_user.  PublisherGuard first ...
Enter(p) ==
    /\ ppc[p] = "idle"
    /\ sent + controls < MaxMessages
    /\ sent' = sent + 1
    /\ in_flight' = in_flight + 1
    /\ msg' = [msg EXCEPT ![p] = sent']
    /\ \E l \in Lanes : lane' = [lane EXCEPT ![p] = l]
    /\ Goto(p, "check")
    /\ UNCHANGED <<lifecycle, reserved, ring, overflow, controlVars, block_mutex, gate,
                   seq, drop, worker, controls, received, spilled, left_set>>

\* Mutant: the accepting flag is not looked at.
CheckSkipped(p) ==
    /\ ppc[p] = "check"
    /\ Goto(p, "reserve") \/ Goto(p, "leave")
    /\ UNCHANGED <<mailbox, gate, locals, worker, history>>

\* ... then the accepting flag, the deadline and the delivery preflight.  (The
\* guard's fetch_add is a locked instruction: the flag is loaded after it.)
Check(p) ==
    /\ ppc[p] = "check"
    /\ \/ accepting /\ Goto(p, "reserve")
       \/ Goto(p, "leave")
    /\ UNCHANGED <<mailbox, gate, locals, worker, history>>

Reserve(p) ==
    /\ ppc[p] = "reserve"
    /\ CanReserve
    /\ ReserveOne
    /\ Goto(p, "load")
    /\ UNCHANGED <<lifecycle, in_flight, ring, overflow, controlVars, block_mutex, gate,
                   locals, worker, history>>

\* The handler of the policy takes over.  Reject, drop-newest, dead-letter and
\* signal-only leave the queue alone.
Overflow(p) ==
    /\ ppc[p] = "reserve"
    /\ ~CanReserve
    /\ Goto(p, CASE policy = "reject" -> "leave"
                 [] policy = "spill" -> "spill"
                 [] policy = "drop_oldest" -> "drop_acquire"
                 [] policy = "block" -> "block_lock")
    /\ UNCHANGED <<mailbox, gate, locals, worker, history>>

\* The reservation of the retry after DroppedExisting; one attempt.
Retry(p) ==
    /\ ppc[p] = "retry"
    /\ IF CanReserve THEN ReserveOne ELSE reserved' = reserved
    /\ Goto(p, IF CanReserve THEN "load" ELSE "leave")
    /\ UNCHANGED <<lifecycle, in_flight, ring, overflow, controlVars, block_mutex, gate,
                   locals, worker, history>>

\* OverflowQueue::try_push: the oldest entry is evicted at max_depth.
Pushed(env) ==
    IF MaxOverflow > 0 /\ Len(overflow) >= MaxOverflow
    THEN Append(Tail(overflow), env) ELSE Append(overflow, env)

\* DisruptorSpillToOverflowHandler; signal_work is not called.
Spill(p) ==
    /\ ppc[p] = "spill"
    /\ overflow' = Pushed([m |-> msg[p], l |-> lane[p]])
    /\ spilled' = Append(spilled, msg[p])
    /\ Goto(p, "leave")
    /\ UNCHANGED <<lifecycle, in_flight, reserved, ring, controlVars, block_mutex, gate,
                   locals, worker, sent, controls, received, left_set>>

\* DisruptorDropOldestHandler calls drop_one_oldest_ring from the producer's
\* thread; consumer_lock_ is not taken.
DropAcquire(p) ==
    /\ ppc[p] = "drop_acquire"
    /\ IF \E l \in Lanes : Published(l)
       THEN LET l == CHOOSE l \in Lanes : Published(l) /\ \A k \in 1 .. l - 1 : ~Published(k) IN
            /\ drop' = [drop EXCEPT ![p] = <<l, ring[l].mirror>>]
            /\ Goto(p, "drop_advance")
       ELSE drop' = drop /\ Goto(p, "leave")
    /\ UNCHANGED <<mailbox, gate, msg, lane, seq, worker, history>>

DropAdvance(p) ==
    /\ ppc[p] = "drop_advance"
    /\ ring' = [ring EXCEPT ![drop[p][1]].mirror = drop[p][2] + 1]
    /\ Goto(p, "drop_slot")
    /\ UNCHANGED <<lifecycle, in_flight, reserved, overflow, controlVars, block_mutex,
                   gate, locals, worker, history>>

DropSlot(p) ==
    /\ ppc[p] = "drop_slot"
    /\ ReleaseSlot(drop[p][1], drop[p][2])
    /\ Goto(p, "drop_release")
    /\ UNCHANGED <<lifecycle, in_flight, reserved, overflow, controlVars, block_mutex,
                   gate, locals, worker, history>>

DropRelease(p) ==
    /\ ppc[p] = "drop_release"
    /\ ReleaseOne
    /\ Goto(p, "retry")
    /\ UNCHANGED <<lifecycle, in_flight, ring, overflow, controlVars, block_mutex, gate,
                   locals, worker, history>>

\* DisruptorBlockWhenAllowedHandler: block_mutex_ is held except while waiting.
BlockLock(p) ==
    /\ ppc[p] = "block_lock"
    /\ block_mutex = Nobody
    /\ block_mutex' = p
    /\ Goto(p, "block_try")
    /\ UNCHANGED <<lifecycle, in_flight, reserved, ring, overflow, controlVars, gate,
                   locals, worker, history>>

BlockReserve(p) ==
    /\ ppc[p] = "block_try"
    /\ CanReserve
    /\ ReserveOne
    /\ Goto(p, "block_release")
    /\ UNCHANGED <<lifecycle, in_flight, ring, overflow, controlVars, block_mutex, gate,
                   locals, worker, history>>

\* The reservation is given back so that the caller's retry can make it.
BlockRelease(p) ==
    /\ ppc[p] = "block_release"
    /\ ReleaseOne
    /\ block_mutex' = Nobody
    /\ Goto(p, "retry")
    /\ UNCHANGED <<lifecycle, in_flight, ring, overflow, controlVars, gate, locals, worker,
                   history>>

\* No capacity: an expired deadline rejects, otherwise the thread goes on to
\* block_cv.wait, which releases the mutex.
BlockFull(p) ==
    /\ ppc[p] = "block_try"
    /\ ~CanReserve
    /\ Goto(p, "block_deadline")
    /\ UNCHANGED <<mailbox, gate, locals, worker, history>>

BlockWait(p) ==
    /\ ppc[p] = "block_deadline"
    /\ Goto(p, "block_wait") \/ Goto(p, "leave")
    /\ block_mutex' = Nobody
    /\ UNCHANGED <<lifecycle, in_flight, reserved, ring, overflow, controlVars, gate,
                   locals, worker, history>>

-----------------------------------------------------------------------------
\* DisruptorMpscRing::try_publish on ring_for(priority).
LoadCursor(p) ==
    /\ ppc[p] = "load"
    /\ seq' = [seq EXCEPT ![p] = ring[lane[p]].claim]
    /\ Goto(p, IF ring[lane[p]].closed THEN "unreserve" ELSE "claim")
    /\ UNCHANGED <<mailbox, gate, msg, lane, drop, worker, history>>

SlotFree(p) == ring[lane[p]].seq[Slot(seq[p])] = seq[p]

Claim(p) ==
    /\ ppc[p] = "claim"
    /\ SlotFree(p)
    /\ IF ring[lane[p]].claim = seq[p]
       THEN /\ ring' = [ring EXCEPT ![lane[p]].claim = @ + 1]
            /\ seq' = seq
            /\ Goto(p, "fill")
       ELSE /\ ring' = ring
            /\ seq' = [seq EXCEPT ![p] = ring[lane[p]].claim]
            /\ ppc' = ppc
    /\ UNCHANGED <<lifecycle, in_flight, reserved, overflow, controlVars, block_mutex,
                   gate, msg, lane, drop, worker, history>>

RingFull(p) ==
    /\ ppc[p] = "claim"
    /\ ~SlotFree(p)
    /\ Goto(p, "unreserve")
    /\ UNCHANGED <<mailbox, gate, locals, worker, history>>

Unreserve(p) ==
    /\ ppc[p] = "unreserve"
    /\ ReleaseOne
    /\ Goto(p, "leave")
    /\ UNCHANGED <<lifecycle, in_flight, ring, overflow, controlVars, block_mutex, gate,
                   locals, worker, history>>

Fill(p) ==
    /\ ppc[p] = "fill"
    /\ ring' = [ring EXCEPT ![lane[p]].seq[Slot(seq[p])] = seq[p] + 1,
                            ![lane[p]].val[Slot(seq[p])] = msg[p]]
    /\ Goto(p, "cursor")
    /\ UNCHANGED <<lifecycle, in_flight, reserved, overflow, controlVars, block_mutex,
                   gate, locals, worker, history>>

PublishCursor(p) ==
    /\ ppc[p] = "cursor"
    /\ ring' = [ring EXCEPT ![lane[p]].cursor = seq[p] + 1]
    /\ Goto(p, "signal")
    /\ UNCHANGED <<lifecycle, in_flight, reserved, overflow, controlVars, block_mutex,
                   gate, locals, worker, history>>

\* signal_work: the compare-exchange false -> true, then on_work_available.
Signal(p) ==
    /\ ppc[p] = "signal"
    /\ work_signaled' = TRUE
    /\ Goto(p, IF work_signaled THEN "leave" ELSE "notify")
    /\ UNCHANGED <<lifecycle, in_flight, reserved, ring, overflow, controlVars,
                   block_mutex, state, locals, worker, history>>

Notify(p) ==
    /\ ppc[p] = "notify"
    /\ NotifyReady
    /\ Goto(p, "leave")
    /\ UNCHANGED <<mailbox, work_signaled, locals, worker, history>>

\* ~PublisherGuard
Leave(p) ==
    /\ ppc[p] = "leave"
    /\ in_flight' = in_flight - 1
    /\ Goto(p, "idle")
    /\ UNCHANGED <<lifecycle, reserved, ring, overflow, controlVars, block_mutex, gate,
                   locals, worker, history>>

\* try_push_control and try_push_dynamic: the lane's mutex is held until
\* signal_work has returned.
PushControl(p) ==
    /\ ppc[p] = "idle"
    /\ policy \in ControlPolicies
    /\ controls < MaxControlSends /\ sent + controls < MaxMessages
    /\ controls' = controls + 1
    /\ \E c \in ControlLanes \ control_mutex :
          /\ Len(control[c]) < MaxControl
          /\ control' = [control EXCEPT ![c] = Append(@, controls')]
          /\ control_mutex' = control_mutex \cup {c}
          /\ lane' = [lane EXCEPT ![p] = c]
    /\ Goto(p, "signal_control")
    /\ UNCHANGED <<lifecycle, in_flight, reserved, ring, overflow, block_mutex, gate,
                   msg, seq, drop, worker, sent, received, spilled, left_set>>

SignalControl(p) ==
    /\ ppc[p] = "signal_control"
    /\ work_signaled' = TRUE
    /\ IF work_signaled THEN state' = state ELSE NotifyReady
    /\ control_mutex' = control_mutex \ {lane[p]}
    /\ Goto(p, "idle")
    /\ UNCHANGED <<lifecycle, in_flight, reserved, ring, overflow, control, block_mutex,
                   locals, worker, history>>

Push(p) ==
    \/ Enter(p) \/ Check(p) \/ Reserve(p) \/ Overflow(p) \/ Retry(p) \/ Spill(p)
    \/ DropAcquire(p) \/ DropAdvance(p) \/ DropSlot(p) \/ DropRelease(p)
    \/ BlockLock(p) \/ BlockReserve(p) \/ BlockRelease(p) \/ BlockFull(p) \/ BlockWait(p)
    \/ LoadCursor(p) \/ Claim(p) \/ RingFull(p) \/ Unreserve(p) \/ Fill(p) \/ PublishCursor(p)
    \/ Signal(p) \/ Notify(p) \/ Leave(p) \/ PushControl(p) \/ SignalControl(p)

-----------------------------------------------------------------------------
\* run_fixed_actor: the CAS kReady -> kRunning, then consume_one.
BeginRun ==
    /\ wpc = "idle"
    /\ state = "ready"
    /\ state' = "running"
    /\ scan' = 1
    /\ WGoto("consume")
    /\ UNCHANGED <<mailbox, work_signaled, ppc, locals, held, moved, mseq, history>>

\* consume_one looks at the lanes in ConsumeOrder.
Here == ConsumeOrder[scan]

ConsumeControl ==
    /\ wpc = "consume"
    /\ scan <= Len(ConsumeOrder) /\ Here \in ControlLanes \ control_mutex
    /\ IF control[Here] # << >>
       THEN /\ control' = [control EXCEPT ![Here] = Tail(@)]
            /\ scan' = 1 /\ WGoto("more")
       ELSE control' = control /\ scan' = scan + 1 /\ wpc' = wpc
    /\ UNCHANGED <<lifecycle, in_flight, reserved, ring, overflow, control_mutex, block_mutex,
                   gate, ppc, locals, held, moved, mseq, history>>

Acquire ==
    /\ wpc = "consume"
    /\ scan <= Len(ConsumeOrder) /\ Here \in Lanes
    /\ IF Published(Here)
       THEN held' = <<Here, ring[Here].mirror>> /\ scan' = scan /\ WGoto("advance")
       ELSE held' = held /\ scan' = scan + 1 /\ wpc' = wpc
    /\ UNCHANGED <<mailbox, gate, ppc, locals, moved, mseq, history>>

Advance ==
    /\ wpc = "advance"
    /\ ring' = [ring EXCEPT ![held[1]].mirror = held[2] + 1]
    /\ WGoto("dispatch")
    /\ UNCHANGED <<lifecycle, in_flight, reserved, overflow, controlVars, block_mutex, gate,
                   ppc, locals, scan, held, moved, mseq, history>>

\* on_user_message reads the slot under the lease.
Dispatch ==
    /\ wpc = "dispatch"
    /\ received' = Append(received, ring[held[1]].val[Slot(held[2])])
    /\ WGoto("unreserve")
    /\ UNCHANGED <<mailbox, gate, ppc, locals, scan, held, moved, mseq, sent, controls, spilled, left_set>>

UnreserveConsumed ==
    /\ wpc = "unreserve"
    /\ ReleaseOne
    /\ WGoto("drain")
    /\ UNCHANGED <<lifecycle, in_flight, ring, overflow, controlVars, block_mutex, gate, ppc,
                   locals, scan, held, moved, mseq, history>>

\* drain_overflow takes the oldest envelope ...
DrainPop ==
    /\ wpc = "drain"
    /\ IF policy = "spill" /\ overflow # << >>
       THEN moved' = Head(overflow) /\ overflow' = Tail(overflow) /\ WGoto("drain_reserve")
       ELSE UNCHANGED <<moved, overflow>> /\ WGoto("wake")
    /\ UNCHANGED <<lifecycle, in_flight, reserved, ring, controlVars, block_mutex, gate, ppc,
                   locals, scan, held, mseq, history>>

\* ... and without capacity puts it back, at the end of the queue.
DrainReserve ==
    /\ wpc = "drain_reserve"
    /\ IF CanReserve
       THEN ReserveOne /\ overflow' = overflow /\ WGoto("drain_claim")
       ELSE reserved' = reserved /\ overflow' = Pushed(moved) /\ WGoto("wake")
    /\ UNCHANGED <<lifecycle, in_flight, ring, controlVars, block_mutex, gate, ppc, locals,
                   scan, held, moved, mseq, history>>

\* try_publish by the consumer's thread; a refused envelope is dropped.
DrainClaim ==
    /\ wpc = "drain_claim"
    /\ LET r == ring[moved.l] IN
       IF r.seq[Slot(r.claim)] = r.claim /\ ~r.closed
       THEN /\ ring' = [ring EXCEPT ![moved.l].claim = @ + 1]
            /\ mseq' = r.claim
            /\ reserved' = reserved
            /\ WGoto("drain_fill")
       ELSE ReleaseOne /\ UNCHANGED <<ring, mseq>> /\ WGoto("wake")
    /\ UNCHANGED <<lifecycle, in_flight, overflow, controlVars, block_mutex, gate, ppc,
                   locals, scan, held, moved, history>>

DrainFill ==
    /\ wpc = "drain_fill"
    /\ ring' = [ring EXCEPT ![moved.l].seq[Slot(mseq)] = mseq + 1,
                            ![moved.l].val[Slot(mseq)] = moved.m]
    /\ WGoto("drain_cursor")
    /\ UNCHANGED <<lifecycle, in_flight, reserved, overflow, controlVars, block_mutex, gate,
                   ppc, locals, scan, held, moved, mseq, history>>

DrainCursor ==
    /\ wpc = "drain_cursor"
    /\ ring' = [ring EXCEPT ![moved.l].cursor = mseq + 1]
    /\ WGoto("drain")
    /\ UNCHANGED <<lifecycle, in_flight, reserved, overflow, controlVars, block_mutex, gate,
                   ppc, locals, scan, held, moved, mseq, history>>

\* block_cv_.notify_one(), without block_mutex_.
WakeBlocked ==
    /\ wpc = "wake"
    /\ IF \E p \in Producers : ppc[p] = "block_wait"
       THEN \E p \in Producers : ppc[p] = "block_wait" /\ Goto(p, "block_lock")
       ELSE ppc' = ppc
    /\ WGoto("free")
    /\ UNCHANGED <<mailbox, gate, locals, scan, held, moved, mseq, history>>

\* The lease ends after the reservation is released and consumer_lock_ cleared.
FreeSlot ==
    /\ wpc = "free"
    /\ ReleaseSlot(held[1], held[2])
    /\ scan' = 1
    /\ WGoto("more")
    /\ UNCHANGED <<lifecycle, in_flight, reserved, overflow, controlVars, block_mutex, gate,
                   ppc, locals, held, moved, mseq, history>>

\* Nothing found: the gate is cleared, then every lane looked at again.
ClearSignal ==
    /\ wpc = "consume"
    /\ scan > Len(ConsumeOrder)
    /\ work_signaled' = FALSE
    /\ scan' = 1
    /\ WGoto("recheck")
    /\ UNCHANGED <<mailbox, state, ppc, locals, held, moved, mseq, history>>

\* What a look at one lane answers; a control lane waits for its mutex.
LaneEmpty(c) == IF c \in Lanes THEN RingEmpty(c) ELSE control[c] = << >>
Readable(c) == c \notin control_mutex

\* signal_work from here cannot admit the actor: it is running.
Recheck ==
    /\ wpc = "recheck"
    /\ scan <= Len(ConsumeOrder) => Readable(Here)
    /\ IF scan > Len(ConsumeOrder) \/ ~LaneEmpty(Here)
       THEN /\ work_signaled' = (scan <= Len(ConsumeOrder) \/ work_signaled)
            /\ scan' = 1 /\ WGoto("set_idle")
       ELSE scan' = scan + 1 /\ UNCHANGED <<work_signaled, wpc>>
    /\ UNCHANGED <<mailbox, state, ppc, locals, held, moved, mseq, history>>

\* has_more of run_fixed_actor; mark_ready_already_admitted requeues the actor.
More ==
    /\ wpc = "more"
    /\ scan <= Len(EmptyOrder) => Readable(EmptyOrder[scan])
    /\ IF scan > Len(EmptyOrder)
       THEN scan' = 1 /\ state' = state /\ WGoto("set_idle")
       ELSE IF LaneEmpty(EmptyOrder[scan])
            THEN scan' = scan + 1 /\ UNCHANGED <<state, wpc>>
            ELSE scan' = 1 /\ state' = "ready" /\ WGoto("idle")
    /\ UNCHANGED <<mailbox, work_signaled, ppc, locals, held, moved, mseq, history>>

SetIdle ==
    /\ wpc = "set_idle"
    /\ state' = "idle"
    /\ WGoto("double_check")
    /\ UNCHANGED <<mailbox, work_signaled, ppc, locals, scan, held, moved, mseq, history>>

\* Mutant: no second look after kIdle.
DoubleCheckSkipped ==
    /\ wpc = "double_check"
    /\ WGoto("idle")
    /\ UNCHANGED <<mailbox, gate, ppc, locals, scan, held, moved, mseq, history>>

\* The second look after kIdle; try_mark_ready requeues the actor.
DoubleCheck ==
    /\ wpc = "double_check"
    /\ scan <= Len(EmptyOrder) => Readable(EmptyOrder[scan])
    /\ IF scan > Len(EmptyOrder)
       THEN scan' = 1 /\ state' = state /\ left_set' = work_signaled /\ WGoto("idle")
       ELSE /\ left_set' = left_set
            /\ IF LaneEmpty(EmptyOrder[scan])
               THEN scan' = scan + 1 /\ UNCHANGED <<state, wpc>>
               ELSE scan' = 1 /\ NotifyReady /\ WGoto("idle")
    /\ UNCHANGED <<mailbox, work_signaled, ppc, locals, held, moved, mseq, sent, controls,
                   received, spilled>>

Consume ==
    \/ BeginRun \/ ConsumeControl \/ Acquire \/ Advance \/ Dispatch \/ UnreserveConsumed
    \/ DrainPop \/ DrainReserve \/ DrainClaim \/ DrainFill \/ DrainCursor \/ WakeBlocked
    \/ FreeSlot \/ ClearSignal \/ Recheck \/ More \/ SetIdle \/ DoubleCheck

-----------------------------------------------------------------------------
\* begin_drain stores accepting_user_ with release order: the store may become
\* visible after later loads of the same thread.
BeginDrain ==
    /\ ~draining
    /\ draining' = TRUE
    /\ UNCHANGED <<policy, accepting, quiesced, in_flight, reserved, ring, overflow,
                   controlVars, block_mutex, gate, ppc, locals, worker, history>>

DrainVisible ==
    /\ draining /\ accepting
    /\ accepting' = FALSE
    /\ UNCHANGED <<policy, draining, quiesced, in_flight, reserved, ring, overflow,
                   controlVars, block_mutex, gate, ppc, locals, worker, history>>

PublishersQuiescent ==
    /\ draining /\ quiesced # "final"
    /\ in_flight = 0
    /\ quiesced' = IF accepting THEN "early" ELSE "final"
    /\ UNCHANGED <<policy, accepting, draining, in_flight, reserved, ring, overflow,
                   controlVars, block_mutex, gate, ppc, locals, worker, history>>

\* close() after the flag is down.
Close ==
    /\ ~accepting
    /\ \E l \in Lanes : ~ring[l].closed
    /\ ring' = [l \in Lanes |-> [ring[l] EXCEPT !.closed = TRUE]]
    /\ UNCHANGED <<lifecycle, in_flight, reserved, overflow, controlVars, block_mutex, gate,
                   ppc, locals, worker, history>>

Drainer == BeginDrain \/ DrainVisible \/ PublishersQuiescent \/ Close

Next == (\E p \in Producers : Push(p)) \/ Consume \/ Drainer

Spec == Init /\ [][Next]_vars

-----------------------------------------------------------------------------
ProducerSteps ==
    {"idle", "check", "reserve", "spill", "drop_acquire", "drop_advance", "drop_slot",
     "drop_release", "block_lock", "block_try", "block_release", "block_deadline",
     "block_wait", "retry", "load", "claim", "unreserve", "fill", "cursor", "signal",
     "notify", "leave", "signal_control"}
WorkerSteps ==
    {"idle", "consume", "advance", "dispatch", "unreserve", "drain", "drain_reserve",
     "drain_claim", "drain_fill", "drain_cursor", "wake", "free", "recheck", "more",
     "set_idle", "double_check"}

\* The mailbox core's fields have their types, its counters of publishers and
\* reservations their bounds.
TypeOK ==
    /\ policy \in Policies
    /\ accepting \in BOOLEAN /\ draining \in BOOLEAN /\ quiesced \in {"no", "early", "final"}
    /\ in_flight \in 0 .. Cardinality(Producers) /\ reserved \in 0 .. CountWrap - 1
    /\ \A l \in Lanes :
          /\ ring[l].claim \in Nat /\ ring[l].mirror \in Nat /\ ring[l].cursor \in Nat
          /\ ring[l].closed \in BOOLEAN
          /\ ring[l].seq \in [0 .. Capacity - 1 -> Nat]
          /\ ring[l].val \in [0 .. Capacity - 1 -> 0 .. MaxMessages]
    /\ \A i \in DOMAIN overflow : overflow[i] \in [m : 1 .. MaxMessages, l : Lanes]
    /\ control_mutex \subseteq ControlLanes
    /\ block_mutex \in Producers \cup {Nobody}
    /\ work_signaled \in BOOLEAN /\ state \in {"idle", "ready", "running"}
    /\ ppc \in [Producers -> ProducerSteps] /\ wpc \in WorkerSteps
    /\ scan \in 1 .. NumLanes + 3

Queued == {<<l, n>> \in Lanes \X (0 .. MaxMessages) :
              ring[l].mirror <= n /\ n < ring[l].claim}
Count(steps) == Cardinality({p \in Producers : ppc[p] \in steps})

\* The reservation count is exact, so the bound max_messages is: it is the
\* number of claimed ring entries, of reservations not yet turned into a claim,
\* and of entries taken from a ring whose reservation is not yet given back.
\* (With drop_oldest two threads take the same entry, see DropSerialized.)
ReservedExact ==
    policy # "drop_oldest" =>
        /\ reserved = Cardinality(Queued)
                      + Count({"load", "claim", "unreserve", "block_release"})
                      + (IF wpc \in {"dispatch", "unreserve", "drain_claim"} THEN 1 ELSE 0)
        /\ reserved <= MaxQueued

WorkerAtRest == wpc = "idle" /\ state = "idle"
Quiet == WorkerAtRest /\ \A p \in Producers : ppc[p] \in {"idle", "block_wait"}

Waiting ==
    \/ \E l \in Lanes : ring[l].mirror < ring[l].claim
    \/ \E c \in ControlLanes : control[c] # << >>

\* When everything has come to rest with messages waiting, then the worker had
\* found every lane empty and gone to rest with the gate still set, or the
\* published cursor of a ring was moved back to the consumer's position, so
\* that empty() answers true.  The clear-then-recheck of consume_one and the
\* second look after kIdle leave no other window.
StrandedOnlyIfStale ==
    Quiet /\ Waiting /\ policy # "drop_oldest" =>
        left_set \/ \E l \in Lanes : RingEmpty(l) /\ ring[l].mirror < ring[l].claim

\* When publishers_quiescent() has answered true with begin_drain visible, no
\* producer claims a ring slot or spills a message ever after, whatever it had
\* begun: a drained mailbox stays drained.  Only the worker, moving the overflow
\* queue into the rings, still claims.
QuiescentIsFinal ==
    [][quiesced = "final" =>
           /\ spilled' = spilled
           /\ \A l \in Lanes : \/ ring'[l].claim = ring[l].claim
                               \/ wpc # "drain_fill" /\ wpc' = "drain_fill"]_vars

\* No user message is dispatched twice, over rings and overflow queue together.
ReceivedOnce ==
    policy # "drop_oldest" =>
        \A i, j \in DOMAIN received : received[i] = received[j] => i = j

\* The mailbox's safety: reservations are exact, no message is received twice, and
\* messages are left at rest only in the two cases StrandedOnlyIfStale names.
DisruptorInv == TypeOK /\ ReservedExact /\ ReceivedOnce /\ StrandedOnlyIfStale

\* "The first producer in a quiet period changes the gate from false to true
\* and calls the scheduler ready port": at rest nothing is left waiting.
NothingStranded == Quiet /\ (\A l \in Lanes : ring[l].cursor = ring[l].claim) => ~Waiting

\* "Acquire consumer lock to serialize with producer drop operations": a
\* dropping producer and the worker never hold the same ring entry.
DropSerialized ==
    \A p \in Producers :
        ppc[p] \in {"drop_slot", "drop_release"} /\ wpc \in {"dispatch", "unreserve"}
            => drop[p] # held

\* "Block until a consumer releases capacity": a producer is not left waiting
\* when the worker has come to rest and there is capacity.
BlockedOnlyWhenFull ==
    Quiet /\ ~draining /\ (\E p \in Producers : ppc[p] = "block_wait") => ~CanReserve

\* "overflow entries drain back into the main mailbox in FIFO order"
Spilled(s) == SelectSeq(s, LAMBDA m : \E i \in DOMAIN spilled : spilled[i] = m)
IsPrefix(s, t) == Len(s) <= Len(t) /\ s = SubSeq(t, 1, Len(s))
OverflowFifo == IsPrefix(Spilled(received), spilled)

\* "Messages in the overflow queue are drained back into the rings during
\* consume_one()": none is left there when everything has come to rest.
NoneLeftInOverflow == Quiet /\ ~draining => overflow = << >>

\* "When the count reaches zero after drain starts, drain can declare
\* quiescence": afterwards no producer enters a ring.
DeclaredQuiescent ==
    [][quiesced # "no" => \A l \in Lanes : ring'[l].claim = ring[l].claim]_vars
=============================================================================
