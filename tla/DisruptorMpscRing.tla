-------------------------- MODULE DisruptorMpscRing --------------------------
(***************************************************************************)
(* include/hpactor/adt/disruptor_mpsc_ring.hpp: the multi-producer,        *)
(* single-consumer ring with one sequence number per slot.                 *)
(*                                                                         *)
(* Every atomic load, store and compare-exchange of the code that another  *)
(* thread can interfere with is a step of its own.  `pc' is where a        *)
(* producer stands in try_publish, `seq' its local `sequence'; `cpc' is    *)
(* where the consumer stands between try_acquire and release_slot.         *)
(***************************************************************************)
EXTENDS Integers, Sequences

CONSTANTS
    Producers,   \* threads that call try_publish
    Capacity,    \* template parameter Capacity
    MaxClaims    \* bound on claim_cursor_ (the code's cursor is a uint64_t)

ASSUME CapacityAssumption == Capacity \in Nat /\ Capacity >= 2
ASSUME MaxClaimsAssumption == MaxClaims \in Nat

VARIABLES
    claim_cursor,       \* next logical sequence to claim
    consumer_mirror,    \* next logical sequence to acquire
    published_cursor,   \* last store of any producer, used by empty()
    closed,
    slotSeq,            \* Slot::sequence
    slotVal,            \* Slot::value, here the logical sequence it was written for
    pc,
    seq,
    cpc,
    consumed            \* history: what the consumer read, in order

ringVars == <<claim_cursor, consumer_mirror, published_cursor, closed, slotSeq, slotVal>>
vars == <<ringVars, pc, seq, cpc, consumed>>

Slot(n) == n % Capacity
Slots == 0 .. Capacity - 1
NoValue == -1

PublishSteps == {"idle", "load", "check", "cas", "write", "publish", "cursor"}
AcquireSteps == {"idle", "advance", "leased"}

Init ==
    /\ claim_cursor = 0
    /\ consumer_mirror = 0
    /\ published_cursor = 0
    /\ closed = FALSE
    /\ slotSeq = [i \in Slots |-> i]
    /\ slotVal = [i \in Slots |-> NoValue]
    /\ pc = [p \in Producers |-> "idle"]
    /\ seq = [p \in Producers |-> 0]
    /\ cpc = "idle"
    /\ consumed = << >>

Goto(p, step) == pc' = [pc EXCEPT ![p] = step]

\* try_publish: a closed ring refuses at once.
CheckClosed(p) ==
    /\ pc[p] = "idle"
    /\ ~closed
    /\ Goto(p, "load")
    /\ UNCHANGED <<ringVars, seq, cpc, consumed>>

LoadCursor(p) ==
    /\ pc[p] = "load"
    /\ claim_cursor < MaxClaims
    /\ seq' = [seq EXCEPT ![p] = claim_cursor]
    /\ Goto(p, "check")
    /\ UNCHANGED <<ringVars, cpc, consumed>>

\* The slot of the sequence seen must be free for that sequence; else Full.
CheckSlot(p) ==
    /\ pc[p] = "check"
    /\ Goto(p, IF slotSeq[Slot(seq[p])] = seq[p] THEN "cas" ELSE "idle")
    /\ UNCHANGED <<ringVars, seq, cpc, consumed>>

\* Mutant: a store in place of the compare-exchange.
ClaimByStore(p) ==
    /\ pc[p] = "cas"
    /\ seq[p] < MaxClaims
    /\ claim_cursor' = seq[p] + 1
    /\ Goto(p, "write")
    /\ UNCHANGED <<consumer_mirror, published_cursor, closed, slotSeq, slotVal,
                   seq, cpc, consumed>>

Claim(p) ==
    /\ pc[p] = "cas"
    /\ claim_cursor = seq[p]
    /\ claim_cursor < MaxClaims
    /\ claim_cursor' = seq[p] + 1
    /\ Goto(p, "write")
    /\ UNCHANGED <<consumer_mirror, published_cursor, closed, slotSeq, slotVal,
                   seq, cpc, consumed>>

\* compare_exchange_weak failed, for real or spuriously: `sequence' is reloaded.
ClaimRetry(p) ==
    /\ pc[p] = "cas"
    /\ seq' = [seq EXCEPT ![p] = claim_cursor]
    /\ Goto(p, "check")
    /\ UNCHANGED <<ringVars, cpc, consumed>>

WriteValue(p) ==
    /\ pc[p] = "write"
    /\ slotVal' = [slotVal EXCEPT ![Slot(seq[p])] = seq[p]]
    /\ Goto(p, "publish")
    /\ UNCHANGED <<claim_cursor, consumer_mirror, published_cursor, closed, slotSeq,
                   seq, cpc, consumed>>

PublishSlot(p) ==
    /\ pc[p] = "publish"
    /\ slotSeq' = [slotSeq EXCEPT ![Slot(seq[p])] = seq[p] + 1]
    /\ Goto(p, "cursor")
    /\ UNCHANGED <<claim_cursor, consumer_mirror, published_cursor, closed, slotVal,
                   seq, cpc, consumed>>

\* A plain store: the producer of an earlier sequence may overwrite a later one.
PublishCursor(p) ==
    /\ pc[p] = "cursor"
    /\ published_cursor' = seq[p] + 1
    /\ Goto(p, "idle")
    /\ UNCHANGED <<claim_cursor, consumer_mirror, closed, slotSeq, slotVal,
                   seq, cpc, consumed>>

\* Mutant: a closed ring hands out nothing any more.
AcquireCheckOpen ==
    /\ cpc = "idle"
    /\ ~closed
    /\ slotSeq[Slot(consumer_mirror)] = consumer_mirror + 1
    /\ cpc' = "advance"
    /\ UNCHANGED <<ringVars, pc, seq, consumed>>

\* try_acquire, its one acquire load of the slot; nothing happens on a gap.
AcquireCheck ==
    /\ cpc = "idle"
    /\ slotSeq[Slot(consumer_mirror)] = consumer_mirror + 1
    /\ cpc' = "advance"
    /\ UNCHANGED <<ringVars, pc, seq, consumed>>

AcquireAdvance ==
    /\ cpc = "advance"
    /\ consumer_mirror' = consumer_mirror + 1
    /\ cpc' = "leased"
    /\ UNCHANGED <<claim_cursor, published_cursor, closed, slotSeq, slotVal, pc, seq, consumed>>

\* The holder of the ReadLease uses value(); release_slot frees the slot for
\* the sequence one lap later.
LeasedSequence == consumer_mirror - 1

\* Mutant: the slot is freed for the sequence after the one a lap later.
ReleaseSlotOffByOne ==
    /\ cpc = "leased"
    /\ consumed' = Append(consumed, slotVal[Slot(LeasedSequence)])
    /\ slotSeq' = [slotSeq EXCEPT ![Slot(LeasedSequence)] = consumer_mirror + Capacity]
    /\ cpc' = "idle"
    /\ UNCHANGED <<claim_cursor, consumer_mirror, published_cursor, closed, slotVal, pc, seq>>

ReleaseSlot ==
    /\ cpc = "leased"
    /\ consumed' = Append(consumed, slotVal[Slot(LeasedSequence)])
    /\ slotSeq' = [slotSeq EXCEPT ![Slot(LeasedSequence)] = LeasedSequence + Capacity]
    /\ cpc' = "idle"
    /\ UNCHANGED <<claim_cursor, consumer_mirror, published_cursor, closed, slotVal, pc, seq>>

Close ==
    /\ ~closed
    /\ closed' = TRUE
    /\ UNCHANGED <<claim_cursor, consumer_mirror, published_cursor, slotSeq, slotVal,
                   pc, seq, cpc, consumed>>

Publish(p) ==
    \/ CheckClosed(p) \/ LoadCursor(p) \/ CheckSlot(p) \/ Claim(p) \/ ClaimRetry(p)
    \/ WriteValue(p) \/ PublishSlot(p) \/ PublishCursor(p)

Consume == AcquireCheck \/ AcquireAdvance \/ ReleaseSlot

Next == Consume \/ Close \/ \E p \in Producers : Publish(p)

Spec == Init /\ [][Next]_vars

\* The operating system keeps running a producer that has claimed a slot, and
\* the scheduler keeps dispatching the consumer.
FinishPublish(p) == WriteValue(p) \/ PublishSlot(p) \/ PublishCursor(p)

Fairness ==
    /\ WF_vars(Consume)
    /\ \A p \in Producers : WF_vars(FinishPublish(p))

-----------------------------------------------------------------------------
\* empty()
Empty == consumer_mirror = published_cursor

\* Sequences below Released have been given back to the producers.
Released == IF cpc = "leased" THEN consumer_mirror - 1 ELSE consumer_mirror

\* A producer between its successful CAS and its store to the slot's sequence.
Holds(p) == pc[p] \in {"write", "publish"}

\* The ring's fields have their types.
TypeOK ==
    /\ claim_cursor \in Nat
    /\ consumer_mirror \in Nat
    /\ published_cursor \in Nat
    /\ closed \in BOOLEAN
    /\ slotSeq \in [Slots -> Nat]
    /\ slotVal \in [Slots -> Nat \cup {NoValue}]
    /\ pc \in [Producers -> PublishSteps]
    /\ seq \in [Producers -> Nat]
    /\ cpc \in AcquireSteps
    /\ consumed \in Seq(Nat \cup {NoValue})

\* At most Capacity sequences are claimed and not given back, so a producer
\* never laps the consumer; the lease is always over a claimed sequence.
Window ==
    /\ 0 <= Released
    /\ consumer_mirror <= claim_cursor
    /\ claim_cursor <= Released + Capacity
    /\ cpc = "leased" => consumer_mirror > 0

\* The slot of every sequence that is not claimed yet is marked free for it.
FreeSlots ==
    \A n \in claim_cursor .. Released + Capacity - 1 : slotSeq[Slot(n)] = n

\* The slot of a claimed sequence is either still held by the producer that
\* claimed it or published, and then it carries that producer's value.
ClaimedSlots ==
    \A n \in Released .. claim_cursor - 1 :
        \/ /\ slotSeq[Slot(n)] = n
           /\ n >= consumer_mirror
           /\ \E p \in Producers : Holds(p) /\ seq[p] = n
        \/ /\ slotSeq[Slot(n)] = n + 1
           /\ slotVal[Slot(n)] = n

Holders ==
    \A p \in Producers :
        Holds(p) =>
            /\ consumer_mirror <= seq[p] /\ seq[p] < claim_cursor
            /\ slotSeq[Slot(seq[p])] = seq[p]
            /\ pc[p] = "publish" => slotVal[Slot(seq[p])] = seq[p]
            /\ \A q \in Producers : Holds(q) /\ seq[q] = seq[p] => q = p

\* A check of the slot that still matters when the CAS succeeds still holds.
FreshChecks ==
    \A p \in Producers :
        /\ pc[p] \in {"check", "cas"} => seq[p] <= claim_cursor
        /\ pc[p] = "cas" /\ seq[p] = claim_cursor => slotSeq[Slot(seq[p])] = seq[p]

ConsumerStep == cpc = "advance" => slotSeq[Slot(consumer_mirror)] = consumer_mirror + 1

\* The consumer reads every published value exactly once and in claim order,
\* whatever the interleaving of claims, publications and releases.
ConsumedInClaimOrder ==
    /\ Len(consumed) = Released
    /\ \A i \in 1 .. Len(consumed) : consumed[i] = i - 1

\* The inductive invariant of the ring: what each slot's sequence number says
\* about the lap of its value, and what a producer or the consumer in the
\* middle of try_publish or try_acquire may rely on.
IInv ==
    /\ TypeOK /\ Window /\ FreeSlots /\ ClaimedSlots /\ Holders /\ FreshChecks
    /\ ConsumerStep /\ ConsumedInClaimOrder

\* While a producer writes Slot::value, neither another producer nor the
\* holder of a ReadLease has access to that slot.
ExclusiveSlots ==
    \A p \in Producers :
        Holds(p) =>
            /\ \A q \in Producers \ {p} : Holds(q) => Slot(seq[q]) # Slot(seq[p])
            /\ cpc = "leased" => Slot(LeasedSequence) # Slot(seq[p])

\* A slot's sequence number only grows, so a producer that is preempted
\* between its check and its CAS can never mistake a later lap for its own.
SlotSequenceGrows == [][\A i \in Slots : slotSeq'[i] >= slotSeq[i]]_vars

\* Every claimed sequence reaches the consumer, a closed ring included: no
\* claim of the MaxClaims that can be made is left behind for good.
ClaimedIsConsumed == []<>(Released = claim_cursor)

\* empty() is documented as approximate only under concurrent producers: with
\* no try_publish in progress it must tell whether a slot is ready.
EmptyExactWhenQuiet ==
    (\A p \in Producers : pc[p] = "idle") =>
        (Empty <=> slotSeq[Slot(consumer_mirror)] # consumer_mirror + 1)

-----------------------------------------------------------------------------
\* Sequences whose slot is published and not given back.
Filled == {n \in Released .. claim_cursor - 1 : slotSeq[Slot(n)] = n + 1}

Channel == INSTANCE ClaimOrderedChannel
           WITH claimed <- claim_cursor, filled <- Filled, received <- consumed

\* The ring implements the bounded claim-ordered channel: a claim takes a free
\* position, the store to Slot::sequence fills it, release_slot receives it.
ImplementsChannel == Channel!Spec
=============================================================================
