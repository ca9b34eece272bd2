--------------------------- MODULE MailboxProofs ----------------------------
(***************************************************************************)
(* Proofs about an actor's mailbox and its activation: the ring that       *)
(* carries its messages (DisruptorMpscRing, for any set of producers and   *)
(* any capacity), and the gate that schedules it (ActorActivation, for any *)
(* number of producers, workers and messages and any values of the         *)
(* budgets).                                                               *)
(***************************************************************************)
EXTENDS DisruptorMpscRing, ActorActivation, TLAPS

(***************************************************************************)
(* Messages leave the ring in the order of their claims                    *)
(***************************************************************************)

\* `sequence & kMask' is a slot index.
LEMMA SlotInRange == \A n \in Nat : Slot(n) \in Slots
  BY CapacityAssumption, SMT DEF Slot, Slots

\* A sequence number is a number of whole laps and the index of its slot.
LEMMA SlotQuotient ==
    ASSUME NEW n \in Nat
    PROVE  \E q \in Int : n = (Capacity * q) + Slot(n)
<1>1. n = (Capacity * (n \div Capacity)) + (n % Capacity)
  BY CapacityAssumption, Z3
<1>2. n \div Capacity \in Int
  BY CapacityAssumption, Z3
<1> QED
  BY <1>1, <1>2, Zenon DEF Slot

\* Two sequence numbers less than a lap apart use different slots.
LEMMA SlotDistinct ==
    ASSUME NEW m \in Nat, NEW n \in Nat, m < n, n < m + Capacity
    PROVE  Slot(m) # Slot(n)
<1> SUFFICES ASSUME Slot(m) = Slot(n) PROVE FALSE
  BY Zenon
<1>1. Capacity \in Nat /\ Slot(m) \in Int /\ Slot(n) \in Int
  BY CapacityAssumption, SlotInRange DEF Slots
<1>2. PICK q \in Int : n = (Capacity * q) + Slot(n)
  BY SlotQuotient, Zenon
<1>3. PICK r \in Int : m = (Capacity * r) + Slot(m)
  BY SlotQuotient, Zenon
<1>4. n - m = (Capacity * q) - (Capacity * r)
  BY <1>1, <1>2, <1>3
<1>5. n - m = Capacity * (q - r)
  BY <1>1, <1>4
<1>6. CASE q - r >= 1
  <2>1. Capacity * (q - r) >= Capacity
    BY <1>1, <1>6
  <2> QED
    BY <1>1, <1>5, <2>1
<1>7. CASE q - r <= 0
  <2>1. Capacity * (q - r) <= 0
    BY <1>1, <1>7
  <2> QED
    BY <1>5, <2>1
<1> QED
  BY <1>6, <1>7

\* A sequence number and the one a lap later use the same slot.
LEMMA SlotLap ==
    ASSUME NEW n \in Nat
    PROVE  Slot(n + Capacity) = Slot(n)
<1>1. Capacity \in Nat /\ Capacity >= 2 /\ Slot(n) \in 0 .. Capacity - 1
  BY CapacityAssumption, SlotInRange, Zenon DEF Slots
<1>2. PICK q \in Int : n = (Capacity * q) + Slot(n)
  BY SlotQuotient, Zenon
<1>3. n + Capacity = (Capacity * (q + 1)) + Slot(n)
  BY <1>1, <1>2
<1>4. ASSUME NEW k \in Int, NEW r \in Nat, r < Capacity
      PROVE  ((Capacity * k) + r) % Capacity = r
  BY <1>1, <1>4, Z3
<1>5. ((Capacity * (q + 1)) + Slot(n)) % Capacity = Slot(n)
  BY <1>1, <1>4
<1> QED
  BY <1>3, <1>5, Zenon DEF Slot

\* Within one lap the slot determines the sequence number.
LEMMA SlotWindow ==
    ASSUME NEW m \in Nat, NEW n \in Nat, m < n + Capacity, n < m + Capacity, Slot(m) = Slot(n)
    PROVE  m = n
  BY SlotDistinct, CapacityAssumption

-----------------------------------------------------------------------------
\* The constructor of the ring, which numbers the slots 0 .. Capacity - 1,
\* establishes the invariant.
LEMMA InitIInv == Init => IInv
<1> SUFFICES ASSUME Init PROVE IInv
  OBVIOUS
<1> USE CapacityAssumption DEF Init
<1>1. TypeOK
  BY SMTT(60), Zenon DEF TypeOK, Slots, PublishSteps, AcquireSteps, NoValue
<1>2. Window
  BY DEF Window, Released
<1>3. FreeSlots
  <2>1. ASSUME NEW n \in 0 .. Capacity - 1 PROVE Slot(n) = n
    BY <2>1 DEF Slot
  <2> QED
    BY <2>1 DEF FreeSlots, Released, Slots
<1>4. ClaimedSlots
  BY DEF ClaimedSlots, Released
<1>5. Holders /\ FreshChecks /\ ConsumerStep
  BY Zenon DEF Holders, Holds, FreshChecks, ConsumerStep
<1>6. ConsumedInClaimOrder
  BY DEF ConsumedInClaimOrder, Released
<1> QED
  BY <1>1, <1>2, <1>3, <1>4, <1>5, <1>6 DEF IInv

\* The steps of try_publish before the CAS and after the slot is published
\* touch only the calling producer's locals (and the cursor that empty() reads).
LEMMA OutsideClaim ==
    ASSUME IInv, TypeOK',
           NEW p \in Producers, ~Holds(p), ~Holds(p)',
           UNCHANGED <<claim_cursor, consumer_mirror, slotSeq, slotVal, cpc, consumed>>,
           \A q \in Producers \ {p} : pc'[q] = pc[q] /\ seq'[q] = seq[q],
           pc'[p] \in {"check", "cas"} => seq'[p] <= claim_cursor,
           pc'[p] = "cas" /\ seq'[p] = claim_cursor => slotSeq[Slot(seq'[p])] = seq'[p]
    PROVE  IInv'
<1>1. Released' = Released
  BY Zenon DEF Released
<1>2. Window' /\ FreeSlots' /\ ConsumerStep' /\ ConsumedInClaimOrder'
  BY <1>1, Zenon DEF IInv, Window, FreeSlots, ConsumerStep, ConsumedInClaimOrder
<1>3. \A q \in Producers : (Holds(q)' <=> Holds(q)) /\ (Holds(q) => pc'[q] = pc[q] /\ seq'[q] = seq[q])
  BY ZenonT(60) DEF Holds
<1>4. ClaimedSlots' /\ Holders'
  BY <1>1, <1>3 DEF IInv, ClaimedSlots, Holders
<1>5. FreshChecks'
  BY Zenon DEF IInv, FreshChecks
<1> QED
  BY <1>2, <1>4, <1>5 DEF IInv

\* The cursors: the lease is over the sequence just below the consumer's cursor.
LEMMA RingNumbers ==
    ASSUME TypeOK, Window
    PROVE  /\ claim_cursor \in Nat /\ consumer_mirror \in Nat /\ Released \in Nat
           /\ Capacity \in Nat /\ Capacity >= 2
           /\ Released <= consumer_mirror /\ consumer_mirror <= Released + 1
           /\ consumer_mirror <= claim_cursor /\ claim_cursor <= Released + Capacity
           /\ cpc = "leased" => consumer_mirror = Released + 1
           /\ cpc # "leased" => consumer_mirror = Released
<1>1. claim_cursor \in Nat /\ consumer_mirror \in Nat
  BY Zenon DEF TypeOK
<1>2. /\ 0 <= Released /\ consumer_mirror <= claim_cursor /\ claim_cursor <= Released + Capacity
      /\ cpc = "leased" => consumer_mirror > 0
  BY Zenon DEF Window
<1>3. CASE cpc = "leased"
  <2>1. Released = consumer_mirror - 1
    BY <1>3, Zenon DEF Released
  <2> QED
    BY <1>1, <1>2, <1>3, <2>1, CapacityAssumption
<1>4. CASE cpc # "leased"
  <2>1. Released = consumer_mirror
    BY <1>4, Zenon DEF Released
  <2> QED
    BY <1>1, <1>2, <1>4, <2>1, CapacityAssumption
<1> QED
  BY <1>3, <1>4, Zenon

\* What the invariant is about: neither published_cursor_ nor the closed flag.
LEMMA UnlessMoved ==
    ASSUME IInv, published_cursor' \in Nat, closed' \in BOOLEAN,
           UNCHANGED <<claim_cursor, consumer_mirror, slotSeq, slotVal, pc, seq, cpc, consumed>>
    PROVE  IInv'
<1>1. TypeOK'
  BY Zenon DEF IInv, TypeOK
<1>2. Released' = Released
  BY Zenon DEF Released
<1>3. Window' /\ FreeSlots'
  BY <1>2, Zenon DEF IInv, Window, FreeSlots
<1>4. ClaimedSlots'
  BY <1>2, Zenon DEF IInv, ClaimedSlots, Holds
<1>5. Holders' /\ FreshChecks'
  BY Zenon DEF IInv, Holders, Holds, FreshChecks
<1>6. ConsumerStep' /\ ConsumedInClaimOrder'
  BY <1>2, Zenon DEF IInv, ConsumerStep, ConsumedInClaimOrder
<1> QED
  BY <1>1, <1>3, <1>4, <1>5, <1>6, Zenon DEF IInv

\* Every atomic step of try_publish, try_consume, a lease's release and close
\* preserves the invariant.
LEMMA NextIInv == IInv /\ [Next]_vars => IInv'
<1> SUFFICES ASSUME IInv, [Next]_vars PROVE IInv'
  OBVIOUS
<1>t. TypeOK /\ Capacity \in Nat /\ Capacity >= 2
  BY CapacityAssumption, Zenon DEF IInv
<1>n. /\ claim_cursor \in Nat /\ consumer_mirror \in Nat /\ Released \in Nat
      /\ Released <= consumer_mirror /\ consumer_mirror <= Released + 1
      /\ consumer_mirror <= claim_cursor /\ claim_cursor <= Released + Capacity
      /\ Capacity \in Nat
  BY RingNumbers, Zenon DEF IInv
<1>w. Window /\ Released \in Nat
  BY <1>n, Zenon DEF IInv
<1>i. FreeSlots /\ ClaimedSlots /\ Holders /\ FreshChecks /\ ConsumerStep /\ ConsumedInClaimOrder
  BY DEF IInv
<1>1. ASSUME NEW p \in Producers, CheckClosed(p) PROVE IInv'
  <2>1. TypeOK'
    BY <1>1, <1>t, Zenon DEF CheckClosed, Goto, ringVars, TypeOK, PublishSteps
  <2> QED
    BY <1>1, <1>t, <2>1, OutsideClaim, Zenon DEF CheckClosed, Goto, ringVars, TypeOK, Holds
<1>2. ASSUME NEW p \in Producers, LoadCursor(p) PROVE IInv'
  <2>1. TypeOK'
    BY <1>2, <1>t, Zenon DEF LoadCursor, Goto, ringVars, TypeOK, PublishSteps
  <2>2. /\ pc[p] = "load" /\ pc'[p] = "check" /\ seq'[p] = claim_cursor
        /\ \A q \in Producers \ {p} : pc'[q] = pc[q] /\ seq'[q] = seq[q]
        /\ UNCHANGED <<claim_cursor, consumer_mirror, slotSeq, slotVal, cpc, consumed>>
        /\ claim_cursor <= claim_cursor
    BY <1>2, <1>t DEF LoadCursor, Goto, ringVars, TypeOK
  <2>3. ~Holds(p) /\ ~Holds(p)'
    BY <2>2, Zenon DEF Holds
  <2> QED
    BY <2>1, <2>2, <2>3, OutsideClaim, Zenon
<1>3. ASSUME NEW p \in Producers, CheckSlot(p) PROVE IInv'
  <2>1. TypeOK'
    BY <1>3, <1>t, Zenon DEF CheckSlot, Goto, ringVars, TypeOK, PublishSteps
  <2>2. seq[p] <= claim_cursor
    BY <1>3, <1>i DEF CheckSlot, FreshChecks
  <2>3. /\ pc[p] = "check" /\ seq' = seq
        /\ pc'[p] \in {"cas", "idle"}
        /\ pc'[p] = "cas" => slotSeq[Slot(seq[p])] = seq[p]
        /\ \A q \in Producers \ {p} : pc'[q] = pc[q]
        /\ UNCHANGED <<claim_cursor, consumer_mirror, slotSeq, slotVal, cpc, consumed>>
    BY <1>3, <1>t, Zenon DEF CheckSlot, Goto, ringVars, TypeOK
  <2>4. ~Holds(p) /\ ~Holds(p)'
    BY <2>3 DEF Holds
  <2> QED
    BY <2>1, <2>2, <2>3, <2>4, OutsideClaim, Zenon
<1>4. ASSUME NEW p \in Producers, Claim(p) PROVE IInv'
  <2>1. /\ UNCHANGED <<consumer_mirror, slotSeq, slotVal, seq, cpc, consumed, Released>>
        /\ claim_cursor' = claim_cursor + 1
        /\ seq[p] = claim_cursor /\ pc[p] = "cas"
        /\ \A q \in Producers : pc'[q] = IF q = p THEN "write" ELSE pc[q]
    BY <1>4, <1>t, Zenon DEF Claim, Goto, Released, TypeOK
  <2>0. claim_cursor' = claim_cursor + 1
    BY <2>1, Zenon
  <2>2. slotSeq[Slot(claim_cursor)] = claim_cursor
    BY <1>i, <2>1 DEF FreshChecks
  <2>3. TypeOK'
    <3>1. seq[p] + 1 \in Nat
      BY <1>t DEF TypeOK
    <3> QED
      BY <1>4, <1>t, <3>1, Zenon DEF Claim, Goto, TypeOK, PublishSteps
  <2>4. claim_cursor < Released + Capacity
    <3> SUFFICES ASSUME claim_cursor = Released + Capacity PROVE FALSE
      BY <1>t, <1>w DEF Window, TypeOK
    <3>1. Slot(claim_cursor) = Slot(Released)
      BY <1>w, SlotLap, Zenon
    <3>2. Released \in Released .. claim_cursor - 1
      BY <1>t, <1>w, SMTT(60), Zenon
    <3> QED
      BY <1>t, <1>w, <1>i, <2>2, <3>1, <3>2 DEF ClaimedSlots
  <2>5. Window' /\ ConsumerStep' /\ ConsumedInClaimOrder'
    BY <1>t, <1>w, <1>i, <2>1, <2>4, SMTT(60), Zenon DEF Window, ConsumerStep, ConsumedInClaimOrder, TypeOK
  <2>6. FreeSlots'
    BY <1>t, <1>w, <1>i, <2>1, SMTT(60), Zenon DEF FreeSlots, TypeOK
  <2>7. ClaimedSlots'
    <3> SUFFICES ASSUME NEW n \in Released .. claim_cursor
                 PROVE  \/ /\ slotSeq[Slot(n)] = n /\ n >= consumer_mirror
                           /\ \E q \in Producers : Holds(q)' /\ seq[q] = n
                        \/ slotSeq[Slot(n)] = n + 1 /\ slotVal[Slot(n)] = n
      BY <1>t, <1>w, <2>1 DEF ClaimedSlots, TypeOK
    <3>1. CASE n = claim_cursor
      BY <1>w, <2>1, <2>2, <3>1, Zenon DEF Window, Holds
    <3>2. CASE n \in Released .. claim_cursor - 1
      BY <1>i, <2>1, <3>2, ZenonT(60) DEF ClaimedSlots, Holds
    <3> QED
      BY <1>t, <1>w, <3>1, <3>2, SMTT(60), Zenon DEF TypeOK
  <2>8. Holders'
    <3>1. \A q \in Producers : Holds(q)' <=> Holds(q) \/ q = p
      BY <2>1, Zenon DEF Holds
    <3>2. \A q \in Producers : Holds(q) => seq[q] < claim_cursor /\ seq[q] \in Nat
      BY <1>t, <1>i, Zenon DEF Holders, TypeOK
    <3>3. /\ \A q \in Producers : Holds(q) => seq[q] < claim_cursor' /\ seq[q] # claim_cursor
          /\ consumer_mirror <= claim_cursor /\ claim_cursor < claim_cursor'
      BY <1>n, <2>0, <3>2
    <3>4. ASSUME NEW q \in Producers, Holds(q)'
          PROVE  /\ consumer_mirror <= seq[q] /\ seq[q] < claim_cursor'
                 /\ slotSeq[Slot(seq[q])] = seq[q]
                 /\ pc'[q] = "publish" => slotVal[Slot(seq[q])] = seq[q]
                 /\ \A r \in Producers : Holds(r)' /\ seq[r] = seq[q] => r = q
      <4>1. CASE q = p
        BY <2>1, <2>2, <3>1, <3>3, <4>1, ZenonT(30)
      <4>2. CASE q # p
        BY <1>i, <2>1, <3>1, <3>3, <3>4, <4>2, ZenonT(30) DEF Holders
      <4> QED
        BY <4>1, <4>2, Zenon
    <3> QED
      BY <2>1, <3>4, ZenonT(30) DEF Holders
  <2>9. FreshChecks'
    <3> SUFFICES ASSUME NEW q \in Producers, pc'[q] \in {"check", "cas"}
                 PROVE  seq[q] < claim_cursor'
      BY <1>t, <2>1 DEF FreshChecks, TypeOK
    <3>1. seq[q] <= claim_cursor /\ seq[q] \in Nat /\ claim_cursor \in Nat
      BY <1>t, <1>i, <2>1, Zenon DEF FreshChecks, TypeOK
    <3> QED
      BY <2>0, <3>1
  <2> QED
    BY <2>3, <2>5, <2>6, <2>7, <2>8, <2>9 DEF IInv
<1>5. ASSUME NEW p \in Producers, ClaimRetry(p) PROVE IInv'
  <2>1. TypeOK'
    BY <1>5, <1>t, ZenonT(60) DEF ClaimRetry, Goto, ringVars, TypeOK, PublishSteps
  <2>2. /\ pc[p] = "cas" /\ pc'[p] = "check" /\ seq'[p] = claim_cursor
        /\ \A q \in Producers \ {p} : pc'[q] = pc[q] /\ seq'[q] = seq[q]
        /\ UNCHANGED <<claim_cursor, consumer_mirror, slotSeq, slotVal, cpc, consumed>>
        /\ claim_cursor <= claim_cursor
    BY <1>5, <1>t DEF ClaimRetry, Goto, ringVars, TypeOK
  <2>3. ~Holds(p) /\ ~Holds(p)'
    BY <2>2, Zenon DEF Holds
  <2> QED
    BY <2>1, <2>2, <2>3, OutsideClaim, Zenon
<1>6. ASSUME NEW p \in Producers, WriteValue(p) PROVE IInv'
  <2>1. /\ UNCHANGED <<claim_cursor, consumer_mirror, slotSeq, seq, cpc, consumed, Released>>
        /\ slotVal' = [slotVal EXCEPT ![Slot(seq[p])] = seq[p]]
        /\ pc[p] = "write" /\ Holds(p) /\ seq[p] \in Nat
        /\ \A q \in Producers : pc'[q] = IF q = p THEN "publish" ELSE pc[q]
    BY <1>6, <1>t, Zenon DEF WriteValue, Goto, Released, TypeOK, Holds
  <2>2. TypeOK'
    BY <1>6, <1>t, SlotInRange, ZenonT(30) DEF WriteValue, Goto, TypeOK, PublishSteps
  <2>3. Window' /\ FreeSlots' /\ ConsumerStep' /\ ConsumedInClaimOrder'
    BY <1>w, <1>i, <2>1, Zenon DEF Window, FreeSlots, ConsumerStep, ConsumedInClaimOrder
  <2>4. \A q \in Producers : Holds(q)' <=> Holds(q)
    BY <2>1, Zenon DEF Holds
  <2>5. slotSeq[Slot(seq[p])] = seq[p]
    BY <1>i, <2>1, Zenon DEF Holders
  <2>6. ClaimedSlots'
    <3> SUFFICES ASSUME NEW n \in Released .. claim_cursor - 1, slotSeq[Slot(n)] = n + 1, slotVal[Slot(n)] = n
                 PROVE  slotVal'[Slot(n)] = n
      BY <1>i, <2>1, <2>4, ZenonT(60) DEF ClaimedSlots
    <3>1. seq[p] \in Released .. claim_cursor - 1
      <4>1. consumer_mirror <= seq[p] /\ seq[p] < claim_cursor /\ seq[p] \in Nat
        BY <1>i, <2>1, Zenon DEF Holders
      <4> QED
        BY <1>n, <4>1
    <3>2. n # seq[p]
      BY <1>t, <2>5
    <3>3. Slot(n) # Slot(seq[p])
      BY <1>t, <1>w, <3>1, <3>2, SlotWindow DEF Window, TypeOK
    <3> QED
      BY <1>t, <1>w, <2>1, <3>3, SlotInRange DEF TypeOK
  <2>7. Holders'
    <3>1. slotVal'[Slot(seq[p])] = seq[p]
      BY <1>t, <2>1, SlotInRange, Zenon DEF TypeOK
    <3>2. ASSUME NEW q \in Producers, q # p, pc[q] = "publish", slotVal[Slot(seq[q])] = seq[q], Holds(q)
          PROVE  slotVal'[Slot(seq[q])] = seq[q]
      <4>1. slotSeq[Slot(seq[q])] = seq[q] /\ seq[q] # seq[p]
        BY <1>i, <2>1, <3>2, Zenon DEF Holders
      <4>2. Slot(seq[q]) # Slot(seq[p])
        BY <2>5, <4>1, Zenon
      <4> QED
        BY <1>t, <2>1, <3>2, <4>2, SlotInRange, Zenon DEF TypeOK
    <3> QED
      BY <1>i, <2>1, <2>4, <3>1, <3>2, ZenonT(120) DEF Holders, Holds
  <2>8. FreshChecks'
    BY <1>i, <2>1, Zenon DEF FreshChecks
  <2> QED
    BY <2>2, <2>3, <2>6, <2>7, <2>8, Zenon DEF IInv
<1>7. ASSUME NEW p \in Producers, PublishSlot(p) PROVE IInv'
  <2>1. /\ UNCHANGED <<claim_cursor, consumer_mirror, slotVal, seq, cpc, consumed, Released>>
        /\ slotSeq' = [slotSeq EXCEPT ![Slot(seq[p])] = seq[p] + 1]
        /\ pc[p] = "publish" /\ Holds(p) /\ seq[p] \in Nat
        /\ \A q \in Producers : pc'[q] = IF q = p THEN "cursor" ELSE pc[q]
    BY <1>7, <1>t, Zenon DEF PublishSlot, Goto, Released, TypeOK, Holds
  <2>2. TypeOK'
    <3>1. seq[p] + 1 \in Nat /\ Slot(seq[p]) \in Slots
      BY <1>t, SlotInRange, SMTT(60), Zenon DEF TypeOK
    <3> QED
      BY <1>7, <1>t, <3>1, Zenon DEF PublishSlot, Goto, TypeOK, PublishSteps
  <2>3. Window' /\ ConsumedInClaimOrder'
    BY <1>w, <1>i, <2>1, Zenon DEF Window, ConsumedInClaimOrder
  <2>4. \A q \in Producers : Holds(q)' <=> Holds(q) /\ q # p
    BY <2>1, Zenon DEF Holds
  <2>5. /\ slotSeq[Slot(seq[p])] = seq[p] /\ slotVal[Slot(seq[p])] = seq[p]
        /\ consumer_mirror <= seq[p] /\ seq[p] \in Released .. claim_cursor - 1
    <3>1. /\ slotSeq[Slot(seq[p])] = seq[p] /\ slotVal[Slot(seq[p])] = seq[p]
          /\ consumer_mirror <= seq[p] /\ seq[p] < claim_cursor /\ seq[p] \in Nat
      BY <1>i, <2>1, Zenon DEF Holders
    <3>2. seq[p] \in Released .. claim_cursor - 1
      BY <1>n, <3>1
    <3> QED
      BY <3>1, <3>2, Zenon
  <2>6. ASSUME NEW n \in Released .. Released + Capacity - 1
        PROVE  slotSeq'[Slot(n)] = IF n = seq[p] THEN n + 1 ELSE slotSeq[Slot(n)]
    <3>1. n # seq[p] => Slot(n) # Slot(seq[p])
      BY <1>t, <1>w, <2>5, SlotWindow, SMTT(60), Zenon DEF Window, TypeOK
    <3>2. n \in Nat
      BY <1>t, <1>w DEF Window, Released, TypeOK
    <3>3. slotSeq \in [Slots -> Nat] /\ Slot(n) \in Slots /\ Slot(seq[p]) \in Slots
      BY <1>t, <2>1, <3>2, SlotInRange, ZenonT(60) DEF TypeOK
    <3> QED
      BY <2>1, <3>1, <3>3, ZenonT(60)
  <2>7. FreeSlots'
    <3>1. Released \in Int /\ claim_cursor \in Nat /\ Capacity \in Nat /\ Released <= claim_cursor
      BY <1>t, <1>w, SMTT(60), Zenon DEF Window, Released, TypeOK
    <3>2. ASSUME NEW n \in claim_cursor .. Released + Capacity - 1
          PROVE  n \in Released .. Released + Capacity - 1 /\ n # seq[p]
      BY <2>5, <3>1
    <3>3. \A n \in claim_cursor .. Released + Capacity - 1 : slotSeq'[Slot(n)] = n
      BY <1>i, <2>6, <3>2, ZenonT(30) DEF FreeSlots
    <3> QED
      BY <2>1, <3>3, Zenon DEF FreeSlots
  <2>8. ClaimedSlots'
    <3> SUFFICES ASSUME NEW n \in Released .. claim_cursor - 1
                 PROVE  \/ /\ slotSeq'[Slot(n)] = n /\ n >= consumer_mirror
                           /\ \E q \in Producers : Holds(q)' /\ seq[q] = n
                        \/ slotSeq'[Slot(n)] = n + 1 /\ slotVal[Slot(n)] = n
      BY <2>1, Zenon DEF ClaimedSlots
    <3>1. n \in Released .. Released + Capacity - 1
      BY <1>t, <1>w DEF Window, TypeOK
    <3>2. CASE n = seq[p]
      BY <2>5, <2>6, <3>1, <3>2, Zenon
    <3>3. CASE n # seq[p]
      <4>1. slotSeq'[Slot(n)] = slotSeq[Slot(n)]
        BY <2>6, <3>1, <3>3, Zenon
      <4> QED
        BY <1>i, <2>4, <3>3, <4>1, Zenon DEF ClaimedSlots
    <3> QED
      BY <3>2, <3>3, Zenon
  <2>9. Holders'
    <3> SUFFICES ASSUME NEW q \in Producers, Holds(q), q # p
                 PROVE  slotSeq'[Slot(seq[q])] = seq[q]
      BY <1>i, <2>1, <2>4, ZenonT(60) DEF Holders
    <3>1. slotSeq[Slot(seq[q])] = seq[q] /\ seq[q] # seq[p] /\ seq[q] \in Nat
      BY <1>t, <1>i, <2>1, Zenon DEF Holders, TypeOK
    <3>2. Slot(seq[q]) # Slot(seq[p])
      BY <2>5, <3>1, Zenon
    <3> QED
      BY <1>t, <2>1, <3>1, <3>2, SlotInRange, ZenonT(20) DEF TypeOK
  <2>10. FreshChecks'
    <3> SUFFICES ASSUME NEW q \in Producers, pc[q] = "cas", seq[q] = claim_cursor
                 PROVE  slotSeq'[Slot(seq[q])] = seq[q]
      BY <1>i, <2>1, ZenonT(60) DEF FreshChecks
    <3>1. slotSeq[Slot(seq[q])] = seq[q] /\ seq[q] # seq[p]
      BY <1>t, <1>i, <2>5 DEF FreshChecks, TypeOK
    <3>2. Slot(seq[q]) # Slot(seq[p])
      BY <2>5, <3>1, Zenon
    <3> QED
      BY <1>t, <2>1, <3>1, <3>2, SlotInRange, Zenon DEF TypeOK
  <2>11. ConsumerStep'
    <3> SUFFICES ASSUME cpc = "advance" PROVE slotSeq'[Slot(consumer_mirror)] = consumer_mirror + 1
      BY <2>1, Zenon DEF ConsumerStep
    <3>1. slotSeq[Slot(consumer_mirror)] = consumer_mirror + 1
      BY <1>i, Zenon DEF ConsumerStep
    <3>2. consumer_mirror # seq[p] /\ consumer_mirror \in Nat
      BY <1>t, <2>5, <3>1, SMTT(60), Zenon DEF TypeOK
    <3>3. Slot(consumer_mirror) # Slot(seq[p])
      <4>1. consumer_mirror < seq[p] + Capacity /\ seq[p] < consumer_mirror + Capacity /\ seq[p] \in Nat
        BY <1>n, <2>5, <3>2
      <4> QED
        BY <3>2, <4>1, SlotWindow, Zenon
    <3> QED
      BY <1>t, <2>1, <3>1, <3>2, <3>3, SlotInRange, Zenon DEF TypeOK
  <2> QED
    BY <2>2, <2>3, <2>7, <2>8, <2>9, <2>10, <2>11, Zenon DEF IInv
<1>8. ASSUME NEW p \in Producers, PublishCursor(p) PROVE IInv'
  <2>1. TypeOK'
    BY <1>8, <1>t DEF PublishCursor, Goto, TypeOK, PublishSteps
  <2> QED
    BY <1>8, <1>t, <2>1, OutsideClaim, ZenonT(60) DEF PublishCursor, Goto, TypeOK, Holds
<1>9. ASSUME AcquireCheck PROVE IInv'
  <2>1. /\ UNCHANGED <<claim_cursor, consumer_mirror, slotSeq, slotVal, pc, seq, consumed, Released>>
        /\ cpc' = "advance" /\ slotSeq[Slot(consumer_mirror)] = consumer_mirror + 1
    BY <1>9, Zenon DEF AcquireCheck, ringVars, Released
  <2>2. TypeOK'
    BY <1>9, <1>t, Zenon DEF AcquireCheck, ringVars, TypeOK, AcquireSteps
  <2> QED
    BY <1>w, <1>i, <2>1, <2>2, ZenonT(120) DEF IInv, Window, FreeSlots, ClaimedSlots, Holders, Holds,
       FreshChecks, ConsumerStep, ConsumedInClaimOrder
<1>10. ASSUME AcquireAdvance PROVE IInv'
  <2>1. /\ UNCHANGED <<claim_cursor, slotSeq, slotVal, pc, seq, consumed>>
        /\ consumer_mirror' = consumer_mirror + 1 /\ cpc' = "leased"
        /\ Released = consumer_mirror /\ Released' = consumer_mirror
        /\ slotSeq[Slot(consumer_mirror)] = consumer_mirror + 1
    BY <1>10, <1>t, <1>i DEF AcquireAdvance, Released, ConsumerStep, TypeOK
  <2>0. consumer_mirror' = consumer_mirror + 1
    BY <2>1, Zenon
  <2>r. Released' = consumer_mirror
    BY <2>1, Zenon
  <2>2. TypeOK'
    BY <1>10, <1>t, SMTT(60), Zenon DEF AcquireAdvance, TypeOK, AcquireSteps
  <2>3. consumer_mirror < claim_cursor
    <3> SUFFICES ASSUME consumer_mirror = claim_cursor PROVE FALSE
      BY <1>t, <1>w, SMTT(60), Zenon DEF Window, TypeOK
    <3>1. consumer_mirror \in claim_cursor .. Released + Capacity - 1
      BY <1>t, <2>1, SMTT(60), Zenon DEF TypeOK
    <3> QED
      BY <1>t, <1>i, <2>1, <3>1, SMTT(60), Zenon DEF FreeSlots, TypeOK
  <2>4. Window' /\ FreeSlots' /\ ConsumerStep' /\ ConsumedInClaimOrder' /\ FreshChecks'
    <3>1. /\ 0 <= Released' /\ consumer_mirror' <= claim_cursor /\ consumer_mirror' > 0
      BY <1>n, <2>0, <2>3, <2>r
    <3>2. Window'
      BY <1>w, <2>1, <3>1, Zenon DEF Window
    <3>3. FreeSlots' /\ ConsumedInClaimOrder'
      BY <1>i, <2>1, Zenon DEF FreeSlots, ConsumedInClaimOrder
    <3>4. ConsumerStep' /\ FreshChecks'
      BY <1>i, <2>1, ZenonT(60) DEF ConsumerStep, FreshChecks
    <3> QED
      BY <3>2, <3>3, <3>4, Zenon
  <2>5. \A q \in Producers : Holds(q) => seq[q] # consumer_mirror
    BY <1>t, <1>i, <2>1, SMTT(60), Zenon DEF Holders, TypeOK
  <2>6. Holders'
    <3>1. \A q \in Producers : Holds(q) => consumer_mirror <= seq[q] /\ seq[q] \in Nat
      BY <1>t, <1>i, Zenon DEF Holders, TypeOK
    <3>2. \A q \in Producers : Holds(q) => consumer_mirror' <= seq[q]
      BY <1>n, <2>0, <2>5, <3>1
    <3> QED
      BY <1>i, <2>1, <3>2, ZenonT(30) DEF Holders, Holds
  <2>7. ClaimedSlots'
    <3>1. ASSUME NEW n \in Released .. claim_cursor - 1
          PROVE  \/ /\ slotSeq[Slot(n)] = n /\ n >= consumer_mirror'
                    /\ \E q \in Producers : Holds(q) /\ seq[q] = n
                 \/ slotSeq[Slot(n)] = n + 1 /\ slotVal[Slot(n)] = n
      <4>1. CASE /\ slotSeq[Slot(n)] = n /\ n >= consumer_mirror
                 /\ \E q \in Producers : Holds(q) /\ seq[q] = n
        <5>1. n # consumer_mirror
          BY <2>5, <4>1, Zenon
        <5>2. n >= consumer_mirror'
          BY <1>n, <2>0, <4>1, <5>1
        <5> QED
          BY <4>1, <5>2, Zenon
      <4> QED
        BY <1>i, <4>1, Zenon DEF ClaimedSlots
    <3>2. Released' = Released /\ \A q \in Producers : Holds(q)' <=> Holds(q)
      BY <2>1, Zenon DEF Holds
    <3> QED
      BY <2>1, <3>1, <3>2, ZenonT(30) DEF ClaimedSlots
  <2> QED
    BY <2>2, <2>4, <2>6, <2>7, Zenon DEF IInv
<1>11. ASSUME ReleaseSlot PROVE IInv'
  <2> DEFINE c == consumer_mirror - 1
  <2>1. /\ UNCHANGED <<claim_cursor, consumer_mirror, slotVal, pc, seq>>
        /\ cpc = "leased" /\ cpc' = "idle"
        /\ Released = c /\ Released' = c + 1 /\ c \in Nat /\ c < claim_cursor
        /\ Capacity \in Nat /\ consumer_mirror = c + 1
        /\ slotSeq' = [slotSeq EXCEPT ![Slot(c)] = c + Capacity]
        /\ consumed' = Append(consumed, slotVal[Slot(c)])
    <3>1. /\ UNCHANGED <<claim_cursor, consumer_mirror, slotVal, pc, seq>>
          /\ cpc = "leased" /\ cpc' = "idle" /\ Released' = consumer_mirror
          /\ slotSeq' = [slotSeq EXCEPT ![Slot(c)] = c + Capacity]
          /\ consumed' = Append(consumed, slotVal[Slot(c)])
      BY <1>11, Zenon DEF ReleaseSlot, LeasedSequence, Released
    <3>2. consumer_mirror = Released + 1
      BY <1>t, <1>w, <3>1, RingNumbers, Zenon
    <3>3. Released = c /\ consumer_mirror = c + 1 /\ c \in Nat /\ c < claim_cursor
      BY <1>n, <3>2, SMTT(60), Zenon
    <3> QED
      BY <1>n, <3>1, <3>3, Zenon
  <2>2. slotVal[Slot(c)] = c
    <3>1. c \in Released .. claim_cursor - 1
      BY <1>t, <2>1, SMTT(60), Zenon DEF TypeOK
    <3> QED
      BY <1>t, <1>i, <2>1, <3>1, SMTT(60), Zenon DEF ClaimedSlots, TypeOK
  <2>3. TypeOK'
    <3>1. c + Capacity \in Nat /\ Slot(c) \in Slots /\ slotVal[Slot(c)] \in Nat \cup {NoValue}
      BY <1>t, <2>1, SlotInRange DEF TypeOK
    <3> QED
      BY <1>11, <1>t, <3>1, SMTT(60), Zenon DEF ReleaseSlot, LeasedSequence, TypeOK, AcquireSteps
  <2>n. c \in Nat /\ Capacity \in Nat
    BY <2>1, Zenon
  <2> HIDE DEF c
  <2>4. ASSUME NEW n \in c .. c + Capacity
        PROVE  slotSeq'[Slot(n)] = IF n \in {c, c + Capacity} THEN c + Capacity ELSE slotSeq[Slot(n)]
    <3>1. n \in Nat /\ Capacity \in Nat
      BY <2>1, CapacityAssumption
    <3>2. ASSUME n # c, n # c + Capacity PROVE Slot(n) # Slot(c)
      <4>1. c < n /\ n < c + Capacity
        BY <2>n, <3>1, <3>2
      <4> QED
        BY <2>1, <3>1, <4>1, SlotDistinct, Zenon
    <3>3. Slot(c + Capacity) = Slot(c)
      BY <2>1, SlotLap, Zenon
    <3>4. slotSeq \in [Slots -> Nat] /\ Slot(n) \in Slots /\ Slot(c) \in Slots
      BY <1>t, <2>1, <3>1, SlotInRange, ZenonT(60) DEF TypeOK
    <3> QED
      BY <2>1, <3>2, <3>3, <3>4, SMTT(60), Zenon
  <2>5. Window' /\ ConsumerStep'
    BY <1>t, <1>w, <2>1, SMTT(60), Zenon DEF Window, ConsumerStep, TypeOK
  <2>6. FreeSlots'
    <3> SUFFICES ASSUME NEW n \in claim_cursor .. c + Capacity
                 PROVE  slotSeq'[Slot(n)] = n
      BY <1>t, <2>1, SMTT(60), Zenon DEF FreeSlots, TypeOK
    <3>1. Capacity \in Nat /\ claim_cursor \in Nat /\ n \in Nat /\ n > c
      BY <1>t, <2>1, SMTT(60), Zenon DEF TypeOK
    <3>2. CASE n = c + Capacity
      BY <2>1, <2>4, <3>1, <3>2
    <3>3. CASE n < c + Capacity
      <4>1. n \in claim_cursor .. Released + Capacity - 1
        BY <2>1, <3>1, <3>3
      <4> QED
        <5>1. slotSeq'[Slot(n)] = slotSeq[Slot(n)]
          BY <2>n, <2>4, <3>1, <3>3, SMTT(60), Zenon
        <5> QED
          BY <1>i, <4>1, <5>1, Zenon DEF FreeSlots
    <3> QED
      BY <2>1, <3>1, <3>2, <3>3, SMTT(60), Zenon
  <2>7. ClaimedSlots'
    <3> SUFFICES ASSUME NEW n \in c + 1 .. claim_cursor - 1
                 PROVE  \/ /\ slotSeq'[Slot(n)] = n /\ n >= consumer_mirror
                           /\ \E q \in Producers : Holds(q) /\ seq[q] = n
                        \/ slotSeq'[Slot(n)] = n + 1 /\ slotVal[Slot(n)] = n
      BY <1>t, <2>1, ZenonT(60) DEF ClaimedSlots, Holds, TypeOK
    <3>1. slotSeq'[Slot(n)] = slotSeq[Slot(n)]
      <4>1. claim_cursor \in Nat /\ claim_cursor <= c + Capacity
        BY <1>t, <1>w, <2>1, ZenonT(60) DEF Window, TypeOK
      <4>2. n \in c .. c + Capacity /\ n # c /\ n # c + Capacity
        BY <2>n, <4>1
      <4> QED
        BY <2>4, <4>2, Zenon
    <3>2. n \in Released .. claim_cursor - 1
      BY <1>t, <2>1, SMTT(60), Zenon DEF TypeOK
    <3> QED
      BY <1>i, <3>1, <3>2, Zenon DEF ClaimedSlots
  <2>8. Holders'
    <3> SUFFICES ASSUME NEW q \in Producers, Holds(q)
                 PROVE  slotSeq'[Slot(seq[q])] = seq[q]
      BY <1>i, <2>1, ZenonT(60) DEF Holders, Holds
    <3>1. seq[q] \in c + 1 .. c + Capacity - 1 /\ slotSeq[Slot(seq[q])] = seq[q]
      <4>1. slotSeq[Slot(seq[q])] = seq[q] /\ seq[q] \in Nat
        BY <1>t, <1>i, Zenon DEF Holders, TypeOK
      <4>2. consumer_mirror <= seq[q] /\ seq[q] < claim_cursor
        BY <1>i, Zenon DEF Holders
      <4>3. claim_cursor <= c + Capacity
        BY <1>n, <2>1, Zenon
      <4> QED
        BY <1>n, <2>n, <2>1, <4>1, <4>2, <4>3
    <3> QED
      BY <1>t, <2>1, <2>4, <3>1
  <2>9. FreshChecks'
    <3> SUFFICES ASSUME NEW q \in Producers, pc[q] = "cas", seq[q] = claim_cursor
                 PROVE  slotSeq'[Slot(claim_cursor)] = claim_cursor
      BY <1>i, <2>1, ZenonT(60) DEF FreshChecks
    <3>1. claim_cursor \in c .. c + Capacity /\ slotSeq[Slot(claim_cursor)] = claim_cursor
      BY <1>t, <1>w, <1>i, <2>1, SMTT(60), Zenon DEF FreshChecks, Window, TypeOK
    <3> QED
      BY <1>t, <2>1, <2>4, <3>1 DEF TypeOK
  <2>10. ConsumedInClaimOrder'
    <3>1. /\ consumed \in Seq(Nat \cup {NoValue}) /\ Len(consumed) = c
          /\ \A i \in 1 .. Len(consumed) : consumed[i] = i - 1
      BY <1>t, <1>i, <2>1, Zenon DEF ConsumedInClaimOrder, TypeOK
    <3>2. consumed' = Append(consumed, c) /\ Released' = c + 1
      BY <2>1, <2>2, Zenon
    <3> QED
      BY <2>n, <3>1, <3>2 DEF ConsumedInClaimOrder
  <2> QED
    BY <2>3, <2>5, <2>6, <2>7, <2>8, <2>9, <2>10, ZenonT(60) DEF IInv
<1>12. ASSUME Close PROVE IInv'
  BY <1>12, <1>t, UnlessMoved, Zenon DEF Close, TypeOK
<1>13. ASSUME UNCHANGED vars PROVE IInv'
  BY <1>13, <1>t, UnlessMoved, Zenon DEF vars, ringVars, TypeOK
<1> QED
  BY <1>1, <1>2, <1>3, <1>4, <1>5, <1>6, <1>7, <1>8, <1>9, <1>10, <1>11, <1>12, <1>13, ZenonT(60)
  DEF Next, Publish, Consume

\* The inductive invariant holds in every reachable state, for every set of
\* producers and every capacity the template accepts.
THEOREM RingInvariant == Spec => []IInv
  BY InitIInv, NextIInv, PTL DEF Spec

\* Type correctness of the ring's state.
THEOREM RingTypeOK == Spec => []TypeOK
<1>1. IInv => TypeOK
  BY DEF IInv
<1> QED
  BY <1>1, RingInvariant, PTL

\* try_publish / try_acquire deliver each published value exactly once and in
\* the order of the claims.
THEOREM RingFifo == Spec => []ConsumedInClaimOrder
<1>1. IInv => ConsumedInClaimOrder
  BY Zenon DEF IInv
<1> QED
  BY <1>1, RingInvariant, PTL

\* No two threads have access to the value of one slot at the same time.
THEOREM RingExclusiveSlots == Spec => []ExclusiveSlots
<1>1. IInv => ExclusiveSlots
  <2> SUFFICES ASSUME IInv, NEW p \in Producers, Holds(p)
               PROVE  /\ \A q \in Producers \ {p} : Holds(q) => Slot(seq[q]) # Slot(seq[p])
                      /\ cpc = "leased" => Slot(LeasedSequence) # Slot(seq[p])
    BY DEF ExclusiveSlots
  <2>1. /\ TypeOK /\ Window /\ Holders /\ Capacity \in Nat
        /\ seq[p] \in Nat /\ consumer_mirror \in Nat
        /\ consumer_mirror <= seq[p] /\ seq[p] < claim_cursor
    BY CapacityAssumption, Zenon DEF IInv, Holders, TypeOK
  <2>2. ASSUME NEW q \in Producers \ {p}, Holds(q) PROVE Slot(seq[q]) # Slot(seq[p])
    BY <2>1, <2>2, Zenon DEF Holders
  <2>3. ASSUME cpc = "leased" PROVE Slot(LeasedSequence) # Slot(seq[p])
    BY <2>1, <2>3, SlotDistinct DEF Window, Released, LeasedSequence, TypeOK
  <2> QED
    BY <2>2, <2>3, SMTT(60), Zenon
<1> QED
  BY <1>1, RingInvariant, PTL

\* No step lowers the sequence number of a slot.
THEOREM RingSlotSequenceGrows == Spec => SlotSequenceGrows
<1> DEFINE Grows == \A i \in Slots : slotSeq'[i] >= slotSeq[i]
<1>1. ASSUME IInv, [Next]_vars PROVE [Grows]_vars
  <2>1. TypeOK /\ Capacity \in Nat /\ slotSeq \in [Slots -> Nat]
    BY <1>1, CapacityAssumption, SMTT(60), Zenon DEF IInv, TypeOK
  <2>2. ASSUME NEW p \in Producers, PublishSlot(p) PROVE Grows
    <3>1. slotSeq[Slot(seq[p])] = seq[p] /\ seq[p] \in Nat
      BY <1>1, <2>1, <2>2, Zenon DEF IInv, Holders, Holds, PublishSlot, TypeOK
    <3> QED
      BY <2>1, <2>2, <3>1 DEF PublishSlot
  <2>3. ASSUME ReleaseSlot PROVE Grows
    <3> DEFINE c == LeasedSequence
    <3>1. c \in Nat /\ c \in Released .. claim_cursor - 1 /\ c < consumer_mirror
      <4>1. cpc = "leased" /\ c = consumer_mirror - 1
        BY <2>3, Zenon DEF ReleaseSlot, LeasedSequence
      <4>2. /\ claim_cursor \in Nat /\ consumer_mirror \in Nat /\ Released \in Nat
            /\ consumer_mirror = Released + 1 /\ consumer_mirror <= claim_cursor
        BY <1>1, <4>1, RingNumbers, ZenonT(60) DEF IInv
      <4> HIDE DEF c
      <4> QED
        BY <4>1, <4>2
    <3>2. slotSeq[Slot(c)] = c + 1
      BY <1>1, <2>1, <3>1, SMTT(60), Zenon DEF IInv, ClaimedSlots, TypeOK
    <3>3. slotSeq' = [slotSeq EXCEPT ![Slot(c)] = c + Capacity]
      BY <2>3 DEF ReleaseSlot
    <3> HIDE DEF c
    <3> QED
      BY <2>1, <3>1, <3>2, <3>3, CapacityAssumption, SMTT(60), Zenon
  <2>4. CASE UNCHANGED slotSeq
    <3>1. \A n \in Nat : n >= n
      OBVIOUS
    <3> QED
      BY <2>1, <2>4, <3>1, Zenon
  <2>5. \/ \E p \in Producers : PublishSlot(p)
        \/ ReleaseSlot
        \/ UNCHANGED slotSeq
    BY <1>1, Zenon DEF Next, Publish, Consume, CheckClosed, LoadCursor, CheckSlot, Claim, ClaimRetry,
       WriteValue, PublishCursor, AcquireCheck, AcquireAdvance, Close, vars, ringVars
  <2> QED
    BY <2>2, <2>3, <2>4, <2>5, Zenon
<1> QED
  BY <1>1, RingInvariant, PTL DEF Spec, SlotSequenceGrows

-----------------------------------------------------------------------------
\* Only Claim, PublishSlot and ReleaseSlot are visible through the refinement
\* mapping; each of them is the channel's action of the same meaning.
LEMMA StepImplementsChannel ==
    ASSUME IInv, IInv', [Next]_vars
    PROVE  [Channel!Next]_<<claim_cursor, Filled, consumed>>
<1>t. /\ TypeOK /\ Capacity \in Nat /\ Released \in Nat /\ claim_cursor \in Nat
      /\ slotSeq \in [Slots -> Nat] /\ Len(consumed) = Released
      /\ claim_cursor <= Released + Capacity
  BY RingNumbers, Zenon DEF IInv, TypeOK, ConsumedInClaimOrder
<1>1. ASSUME NEW p \in Producers, Claim(p) PROVE Channel!ClaimPosition
  <2>1. /\ UNCHANGED <<slotSeq, consumed, Released>>
        /\ claim_cursor' = claim_cursor + 1
    BY <1>1, SMTT(60), Zenon DEF Claim, Released
  <2>2. claim_cursor < Released + Capacity
    <3>1. claim_cursor' <= Released' + Capacity
      BY Zenon DEF IInv, Window
    <3>2. claim_cursor' = claim_cursor + 1 /\ Released' = Released
      BY <2>1, Zenon
    <3> QED
      BY <1>t, <3>1, <3>2
  <2>3. slotSeq[Slot(claim_cursor)] = claim_cursor
    BY <1>t, <2>2 DEF IInv, FreeSlots
  <2>4. Filled' = Filled
    BY <1>t, <2>1, <2>3 DEF Filled
  <2> QED
    BY <1>t, <2>1, <2>2, <2>4, ZenonT(30) DEF Channel!ClaimPosition, Channel!Oldest
<1>2. ASSUME NEW p \in Producers, PublishSlot(p) PROVE Channel!Fill
  <2>1. /\ UNCHANGED <<claim_cursor, consumed, Released>> /\ seq[p] \in Nat
        /\ slotSeq' = [slotSeq EXCEPT ![Slot(seq[p])] = seq[p] + 1]
        /\ seq[p] \in Released .. claim_cursor - 1 /\ slotSeq[Slot(seq[p])] = seq[p]
    <3>1. /\ UNCHANGED <<claim_cursor, consumed, Released>> /\ pc[p] = "publish"
          /\ slotSeq' = [slotSeq EXCEPT ![Slot(seq[p])] = seq[p] + 1]
      BY <1>2, Zenon DEF PublishSlot, Released
    <3>2. /\ consumer_mirror <= seq[p] /\ seq[p] < claim_cursor /\ seq[p] \in Nat
          /\ slotSeq[Slot(seq[p])] = seq[p] /\ consumer_mirror \in Nat /\ claim_cursor \in Nat
      BY <1>t, <3>1, Zenon DEF IInv, Holders, Holds, TypeOK
    <3>3. Released \in Int /\ Released <= consumer_mirror
      BY <3>2 DEF Released
    <3>4. seq[p] \in Released .. claim_cursor - 1
      BY <3>2, <3>3, SMTT(60), Zenon
    <3> QED
      BY <3>1, <3>2, <3>4, Zenon
  <2>2. ASSUME NEW n \in Released .. claim_cursor - 1
        PROVE  slotSeq'[Slot(n)] = IF n = seq[p] THEN n + 1 ELSE slotSeq[Slot(n)]
    <3>1. n \in Nat /\ seq[p] < n + Capacity /\ n < seq[p] + Capacity
      BY <1>t, <2>1, SMTT(60), Zenon
    <3>2. n # seq[p] => Slot(n) # Slot(seq[p])
      BY <2>1, <3>1, SlotWindow, Zenon
    <3>3. Slot(n) \in Slots /\ Slot(seq[p]) \in Slots
      BY <2>1, <3>1, SlotInRange, Zenon
    <3> QED
      BY <1>t, <2>1, <3>2, <3>3, SMTT(60), Zenon
  <2>3. Filled' = Filled \cup {seq[p]} /\ seq[p] \notin Filled
    <3>1. Released' = Released /\ claim_cursor' = claim_cursor /\ seq[p] # seq[p] + 1
      <4>1. seq[p] \in Nat
        BY <2>1, Zenon
      <4>2. seq[p] # seq[p] + 1
        BY <4>1
      <4> QED
        BY <2>1, <4>2, Zenon
    <3> QED
      BY <2>1, <2>2, <3>1, ZenonT(30) DEF Filled
  <2> QED
    BY <1>t, <2>1, <2>3, ZenonT(30) DEF Channel!Fill, Channel!Oldest
<1>3. ASSUME ReleaseSlot PROVE Channel!Receive
  <2> DEFINE c == Released
  <2>1. /\ UNCHANGED <<claim_cursor>> /\ Released' = c + 1 /\ c = LeasedSequence
        /\ c < consumer_mirror /\ c \in Released .. claim_cursor - 1
    <3>1. /\ claim_cursor' = claim_cursor /\ cpc = "leased" /\ Released' = consumer_mirror
          /\ LeasedSequence = consumer_mirror - 1
      BY <1>3, Zenon DEF ReleaseSlot, Released, LeasedSequence
    <3>2. consumer_mirror \in Nat /\ consumer_mirror = c + 1 /\ consumer_mirror <= claim_cursor
      BY <3>1, RingNumbers, Zenon DEF IInv
    <3>3. c = consumer_mirror - 1 /\ c < consumer_mirror /\ c \in c .. claim_cursor - 1
      BY <1>t, <3>2
    <3> QED
      BY <3>1, <3>2, <3>3, Zenon
  <2>2. slotSeq[Slot(c)] = c + 1 /\ slotVal[Slot(c)] = c
    <3>1. ~(c >= consumer_mirror)
      <4>1. c < consumer_mirror /\ consumer_mirror \in Nat
        BY <1>t, <2>1, Zenon DEF TypeOK
      <4> QED
        BY <1>t, <4>1
    <3> QED
      BY <2>1, <3>1, Zenon DEF IInv, ClaimedSlots
  <2>3. /\ slotSeq' = [slotSeq EXCEPT ![Slot(c)] = c + Capacity]
        /\ consumed' = Append(consumed, c)
    BY <1>3, <2>1, <2>2 DEF ReleaseSlot
  <2> HIDE DEF c
  <2>n. c = Released /\ c \in Nat
    BY <1>t DEF c
  <2>4. ASSUME NEW n \in c + 1 .. claim_cursor - 1
        PROVE  slotSeq'[Slot(n)] = slotSeq[Slot(n)]
    <3>1. n \in Nat /\ c < n /\ n < c + Capacity
      BY <1>t, <2>n
    <3>2. Slot(n) # Slot(c)
      BY <2>n, <3>1, SlotDistinct, Zenon
    <3> QED
      BY <1>t, <2>n, <2>3, <3>1, <3>2, SlotInRange, Zenon
  <2>5. Filled' = Filled \ {c} /\ c \in Filled
    <3>1. Released' = c + 1 /\ claim_cursor' = claim_cursor /\ c \in c .. claim_cursor - 1
      BY <2>n, <2>1, Zenon
    <3>2. \A n \in c + 1 .. claim_cursor - 1 : n \in c .. claim_cursor - 1 /\ n # c
      BY <1>t, <2>n
    <3>3. \A n \in c .. claim_cursor - 1 : n # c => n \in c + 1 .. claim_cursor - 1
      BY <1>t, <2>n
    <3> QED
      BY <2>n, <2>2, <2>4, <3>1, <3>2, <3>3, ZenonT(30) DEF Filled
  <2> QED
    BY <1>t, <2>n, <2>1, <2>3, <2>5, ZenonT(30) DEF Channel!Receive, Channel!Oldest
<1>4. CASE AcquireAdvance
  <2>1. UNCHANGED <<claim_cursor, slotSeq, consumed, Released>>
    BY <1>4, <1>t DEF AcquireAdvance, Released, TypeOK
  <2> QED
    BY <2>1, Zenon DEF Filled
<1>5. CASE UNCHANGED <<claim_cursor, consumer_mirror, cpc, slotSeq, consumed>>
  BY <1>5, Zenon DEF Filled, Released
<1>6. CASE AcquireCheck
  <2>1. UNCHANGED <<claim_cursor, slotSeq, consumed, Released>>
    BY <1>6, ZenonT(30) DEF AcquireCheck, Released, ringVars
  <2> QED
    BY <2>1 DEF Filled
<1>7. \/ \E p \in Producers : Claim(p) \/ PublishSlot(p)
      \/ ReleaseSlot \/ AcquireAdvance \/ AcquireCheck
      \/ UNCHANGED <<claim_cursor, consumer_mirror, cpc, slotSeq, consumed>>
  BY Zenon DEF Next, Publish, Consume, CheckClosed, LoadCursor, CheckSlot, ClaimRetry,
     WriteValue, PublishCursor, Close, vars, ringVars
<1> QED
  BY <1>1, <1>2, <1>3, <1>4, <1>5, <1>6, <1>7, ZenonT(60) DEF Channel!Next

\* The ring implements the channel for every capacity and set of producers.
THEOREM RingImplementsChannel == Spec => ImplementsChannel
<1>1. Init => Channel!Init
  <2> SUFFICES ASSUME Init PROVE claim_cursor = 0 /\ Filled = {} /\ consumed = << >>
    BY SMTT(60), Zenon DEF Channel!Init
  <2> QED
    BY DEF Init, Filled, Released
<1> QED
  BY <1>1, RingInvariant, StepImplementsChannel, PTL DEF Spec, ImplementsChannel, Channel!Spec

(***************************************************************************)
(* The gate lets one worker at a time run an actor, and never forgets an   *)
(* actor it has marked ready                                               *)
(***************************************************************************)

\* Type correctness at the start.
LEMMA InitGate == ActivationInit => GateInv
  BY BudgetAssumption, SMTT(60), Zenon DEF ActivationInit, GateInv, ActivationTypeOK, OneRunner, RunnerState,
     ReadyIsDispatched, Runs, RunSteps, WorkerSteps, ProducerSteps, Events

\* The steps of producers keep the types.
LEMMA SendTypeOK ==
    ASSUME ActivationTypeOK, NEW p \in Senders, Send(p)
    PROVE  ActivationTypeOK'
<1> USE BudgetAssumption DEF ActivationTypeOK, ProducerSteps, PGoto, workerVars, history, mailboxVars
<1>1. CASE Exchange(p)
  <2>1. sent' \in Messages
    BY <1>1 DEF Exchange, Messages
  <2> QED
    BY <1>1, <2>1, SMTT(60), Zenon DEF Exchange, Messages
<1>2. CASE Link(p)
  BY <1>2, ZenonT(60) DEF Link
<1>3. CASE CountUp(p)
  BY <1>3 DEF CountUp
<1>4. CASE ClaimWakeup(p)
  BY <1>4, Zenon DEF ClaimWakeup
<1>5. CASE Admit(p)
  BY <1>5, ZenonT(60) DEF Admit, Events
<1>6. CASE EnqueueItem(p)
  BY <1>6, SMTT(60), Zenon DEF EnqueueItem
<1> QED
  BY <1>1, <1>2, <1>3, <1>4, <1>5, <1>6, ZenonT(60) DEF Send

\* So do the steps of workers.
LEMMA WorkTypeOK ==
    ASSUME ActivationTypeOK, NEW w \in Workers, Work(w)
    PROVE  ActivationTypeOK'
<1> USE BudgetAssumption DEF ActivationTypeOK, WorkerSteps, RunSteps, WGoto, producerVars, history, mailboxVars
<1>1. CASE Take(w)
  BY <1>1 DEF Take
<1>2. CASE BeginRun(w)
  BY <1>2, Zenon DEF BeginRun
<1>3. CASE Arm(w) \/ Disarm(w) \/ DisarmDenied(w) \/ Recheck(w)
  BY <1>3, ZenonT(60) DEF Arm, Disarm, DisarmDenied, Recheck, MailboxEmpty
<1>4. CASE Pop(w)
  <2>1. lane # << >> /\ lane[1] \in Messages /\ Tail(lane) \in Seq(Messages)
    BY <1>4 DEF Pop, Poppable
  <2> QED
    BY <1>4, <2>1, SMTT(60), Zenon DEF Pop
<1>5. CASE PopNothing(w)
  BY <1>5, ZenonT(60) DEF PopNothing, Events
<1>6. CASE PopDenied(w)
  <2>1. lane # << >> /\ lane[1] \in Messages /\ Tail(lane) \in Seq(Messages)
    BY <1>6 DEF PopDenied, Poppable
  <2> QED
    BY <1>6, <2>1, SMTT(60), Zenon DEF PopDenied, Events
<1>7. CASE AfterReceive(w) \/ IdleCheck(w)
  BY <1>7, Zenon DEF AfterReceive, IdleCheck
<1>8. CASE MarkReady(w) \/ SetIdle(w) \/ Suspend(w)
  BY <1>8, Zenon DEF MarkReady, SetIdle, Suspend
<1>9. CASE SuspendCheck(w)
  BY <1>9, Zenon DEF SuspendCheck, Events
<1>10. CASE Readmit(w)
  BY <1>10, Zenon DEF Readmit
<1>11. CASE Requeue(w)
  <2>1. cycle[w] + 1 \in Nat
    BY SMTT(60), Zenon
  <2> QED
    BY <1>11, <2>1, Zenon DEF Requeue
<1>12. CASE Reenqueue(w)
  BY <1>12 DEF Reenqueue
<1> QED
  BY <1>1, <1>2, <1>3, <1>4, <1>5, <1>6, <1>7, <1>8, <1>9, <1>10, <1>11, <1>12, ZenonT(30) DEF Work

-----------------------------------------------------------------------------
\* A producer touches the gate in two steps: it marks an idle actor ready and
\* then adds the work item.
LEMMA SendGate ==
    ASSUME GateInv, NEW p \in Senders, Send(p)
    PROVE  OneRunner' /\ RunnerState' /\ ReadyIsDispatched'
<1>t. ActivationTypeOK
  BY DEF GateInv
<1>1. UNCHANGED wpc
  BY Zenon DEF Send, Exchange, Link, CountUp, ClaimWakeup, Admit, EnqueueItem, workerVars
<1>2. CASE Admit(p)
  <2>1. /\ UNCHANGED items
        /\ state' = IF state = "idle" THEN "ready" ELSE state
        /\ \A q \in Senders : ppc'[q] = IF q = p THEN IF state = "idle" THEN "enqueue" ELSE "idle"
                                                  ELSE ppc[q]
        /\ ppc[p] = "admit"
    BY <1>2, <1>t, Zenon DEF Admit, PGoto, ActivationTypeOK
  <2> QED
    BY <1>1, <2>1, <1>t, Zenon
    DEF GateInv, OneRunner, RunnerState, ReadyIsDispatched, Runs, ActivationTypeOK
<1>3. CASE EnqueueItem(p)
  <2>1. UNCHANGED state /\ items' = items + 1 /\ items' > 0
    <3>1. UNCHANGED state /\ items' = items + 1 /\ items \in Nat
      BY <1>3, <1>t, Zenon DEF EnqueueItem, ActivationTypeOK
    <3> QED
      BY <3>1
  <2> QED
    BY <1>1, <2>1, Zenon DEF GateInv, OneRunner, RunnerState, ReadyIsDispatched, Runs
<1>4. CASE Exchange(p) \/ Link(p) \/ CountUp(p) \/ ClaimWakeup(p)
  <2>1. /\ UNCHANGED <<state, items>> /\ ppc[p] # "enqueue"
        /\ \A q \in Senders : q # p => ppc'[q] = ppc[q]
    BY <1>4, <1>t, Zenon DEF Exchange, Link, CountUp, ClaimWakeup, PGoto, ActivationTypeOK
  <2> QED
    BY <1>1, <2>1, Zenon DEF GateInv, OneRunner, RunnerState, ReadyIsDispatched, Runs
<1> QED
  BY <1>2, <1>3, <1>4, Zenon DEF Send

\* A worker starts a run only from kReady, and leaves kRunning only at the end
\* of its own run.
LEMMA WorkGate ==
    ASSUME GateInv, NEW w \in Workers, Work(w)
    PROVE  OneRunner' /\ RunnerState' /\ ReadyIsDispatched'
<1>t. ActivationTypeOK /\ OneRunner /\ RunnerState /\ ReadyIsDispatched
  BY DEF GateInv
<1>1. UNCHANGED ppc /\ \A v \in Workers : v # w => wpc'[v] = wpc[v]
  BY <1>t, ZenonT(30) DEF Work, Take, BeginRun, Arm, Pop, PopNothing, PopDenied, DisarmDenied, Disarm, Recheck,
     AfterReceive, MarkReady, SetIdle, IdleCheck, Suspend, SuspendCheck, Readmit, Requeue, Reenqueue,
     WGoto, producerVars, ActivationTypeOK
<1>2. CASE Take(w)
  <2>1. UNCHANGED state /\ wpc[w] = "idle" /\ wpc'[w] = "run"
    BY <1>2, <1>t, Zenon DEF Take, WGoto, ActivationTypeOK
  <2> QED
    BY <1>t, <1>1, <2>1, Zenon DEF OneRunner, RunnerState, ReadyIsDispatched, Runs, RunSteps
<1>3. CASE BeginRun(w)
  <2>1. CASE state = "ready"
    <3>1. state' = "running" /\ wpc[w] = "run" /\ wpc'[w] = "arm"
      BY <1>3, <1>t, <2>1, Zenon DEF BeginRun, WGoto, ActivationTypeOK
    <3> QED
      BY <1>t, <1>1, <2>1, <3>1, ZenonT(60) DEF OneRunner, RunnerState, ReadyIsDispatched, Runs, RunSteps
  <2>2. CASE state # "ready"
    <3>1. state' = state /\ wpc[w] = "run" /\ wpc'[w] = "idle"
      BY <1>3, <1>t, <2>2, ZenonT(30) DEF BeginRun, WGoto, ActivationTypeOK
    <3> QED
      BY <1>t, <1>1, <2>2, <3>1, Zenon DEF OneRunner, RunnerState, ReadyIsDispatched, Runs, RunSteps
  <2> QED
    BY <2>1, <2>2, Zenon
<1>4. CASE Arm(w) \/ Pop(w) \/ PopNothing(w) \/ PopDenied(w) \/ DisarmDenied(w) \/ Disarm(w)
           \/ Recheck(w) \/ AfterReceive(w)
  <2>1. UNCHANGED <<state, items>> /\ wpc[w] \in RunSteps /\ wpc'[w] \in RunSteps
    BY <1>4, <1>t, Zenon DEF Arm, Pop, PopNothing, PopDenied, DisarmDenied, Disarm, Recheck, AfterReceive,
       WGoto, ActivationTypeOK, RunSteps
  <2>2. state = "running"
    BY <1>t, <2>1, ZenonT(30) DEF RunnerState, Runs
  <2> QED
    BY <1>t, <1>1, <2>1, <2>2, ZenonT(30) DEF OneRunner, RunnerState, ReadyIsDispatched, Runs
<1>5. CASE MarkReady(w)
  <2>1. state' = "ready" /\ wpc[w] \in RunSteps /\ wpc'[w] = "requeue" /\ wpc'[w] \notin RunSteps
    BY <1>5, <1>t, ZenonT(30) DEF MarkReady, WGoto, ActivationTypeOK, RunSteps
  <2> QED
    BY <1>t, <1>1, <2>1, ZenonT(30) DEF OneRunner, RunnerState, ReadyIsDispatched, Runs
<1>6. CASE SetIdle(w) \/ Suspend(w)
  <2>1. state' = "idle" /\ wpc[w] \in RunSteps /\ wpc'[w] \notin RunSteps
    BY <1>6, <1>t, ZenonT(30) DEF SetIdle, Suspend, WGoto, ActivationTypeOK, RunSteps
  <2> QED
    BY <1>t, <1>1, <2>1, ZenonT(30) DEF OneRunner, RunnerState, ReadyIsDispatched, Runs
<1>7. CASE IdleCheck(w) \/ SuspendCheck(w)
  <2>1. UNCHANGED <<state, items>> /\ wpc[w] \notin RunSteps /\ wpc'[w] \notin RunSteps
        /\ wpc[w] \notin {"run", "requeue", "enqueue"}
    BY <1>7, <1>t, Zenon DEF IdleCheck, SuspendCheck, WGoto, ActivationTypeOK, RunSteps
  <2> QED
    BY <1>t, <1>1, <2>1, ZenonT(20) DEF OneRunner, RunnerState, ReadyIsDispatched, Runs
<1>8. CASE Readmit(w)
  <2>1. /\ state' = IF state = "idle" THEN "ready" ELSE state
        /\ wpc[w] = "readmit"
        /\ wpc'[w] = IF state = "running" THEN "idle" ELSE "requeue"
    BY <1>8, <1>t, Zenon DEF Readmit, WGoto, ActivationTypeOK
  <2>2. wpc[w] \notin RunSteps /\ wpc'[w] \notin RunSteps
    BY <2>1, ZenonT(30) DEF RunSteps
  <2> QED
    BY <1>t, <1>1, <2>1, <2>2, Zenon
    DEF OneRunner, RunnerState, ReadyIsDispatched, Runs, ActivationTypeOK
<1>9. CASE Requeue(w)
  <2>1. UNCHANGED <<state, items>> /\ wpc[w] = "requeue" /\ wpc'[w] \in {"run", "enqueue"}
    BY <1>9, <1>t, Zenon DEF Requeue, WGoto, ActivationTypeOK
  <2>2. wpc[w] \notin RunSteps /\ wpc'[w] \notin RunSteps
    BY <2>1, ZenonT(30) DEF RunSteps
  <2> QED
    BY <1>t, <1>1, <2>1, <2>2, ZenonT(30) DEF OneRunner, RunnerState, ReadyIsDispatched, Runs
<1>10. CASE Reenqueue(w)
  <2>1. UNCHANGED state /\ items' > 0 /\ wpc[w] = "enqueue" /\ wpc'[w] = "idle"
    BY <1>10, <1>t DEF Reenqueue, WGoto, ActivationTypeOK
  <2>2. wpc[w] \notin RunSteps /\ wpc'[w] \notin RunSteps
    BY <2>1, Zenon DEF RunSteps
  <2> QED
    BY <1>t, <1>1, <2>1, <2>2, Zenon DEF OneRunner, RunnerState, ReadyIsDispatched, Runs
<1> QED
  BY <1>2, <1>3, <1>4, <1>5, <1>6, <1>7, <1>8, <1>9, <1>10, Zenon DEF Work

-----------------------------------------------------------------------------
\* Every reachable state satisfies the gate's invariant.
THEOREM GateInvariant == ActivationSpec => []GateInv
<1>1. ASSUME GateInv, [ActivationNext]_activationVars PROVE GateInv'
  <2>1. CASE \E p \in Senders : Send(p)
    BY <1>1, <2>1, SendTypeOK, SendGate, Zenon DEF GateInv
  <2>2. CASE \E w \in Workers : Work(w)
    BY <1>1, <2>2, WorkTypeOK, WorkGate, Zenon DEF GateInv
  <2>3. CASE UNCHANGED activationVars
    BY <1>1, <2>3, Zenon DEF GateInv, ActivationTypeOK, OneRunner, RunnerState, ReadyIsDispatched, Runs, activationVars,
       mailboxVars, producerVars, workerVars, history
  <2> QED
    BY <1>1, <2>1, <2>2, <2>3, Zenon DEF ActivationNext
<1> QED
  BY <1>1, InitGate, PTL DEF ActivationSpec

\* The state of an actor is only ever touched by one worker at a time: two
\* runs of one actor never overlap.
THEOREM GateMutualExclusion == ActivationSpec => []OneRunner
<1>1. GateInv => OneRunner
  BY Zenon DEF GateInv
<1> QED
  BY <1>1, GateInvariant, PTL
=============================================================================
