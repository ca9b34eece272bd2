----------------------- MODULE OutboundDeliveryProofs -----------------------
(***************************************************************************)
(* Bounded retransmission and receipts that are never forgotten, for any   *)
(* set of sends, any number of attempts and any behaviour of the network.  *)
(***************************************************************************)
EXTENDS OutboundDelivery, FiniteSetTheorems, TLAPS

Kinds == {"data", "echo", "ack", "nack", "Accepted"} \cup NackReasons
Filed == {s \in Sends : track_id[s] # Pending}

OutTypes ==
    /\ tracked \subseteq Sends
    /\ frames \subseteq Kinds \X Sends
    /\ next_retry \in [Sends -> {"none", "later", "due"}]
    /\ in_hand \in [Sends -> Results \cup {Pending}]
    /\ result \in [Sends -> Results \cup {Pending}]
    /\ resent \in [Sends -> Nat] /\ sent \in [Sends -> Nat]

\* Both counters of ids are as far as the sends that drew from them account for.
IdsDrawn ==
    /\ next_id \in Nat \ {0} /\ next_id <= Cardinality(Drawn) + OtherIds + 1
    /\ next_track = Cardinality(Filed) + 1
    /\ frame_id \in [Sends -> Ids \cup {Pending}]
    /\ track_id \in [Sends -> Ids \cup {Pending}]

\* No two sends are filed under one id, and the next id is above all of them.
IdsDistinct ==
    /\ \A s \in Filed : track_id[s] < next_track
    /\ \A s, t \in Filed : track_id[s] = track_id[t] => s = t

\* The retry counter tells how often the frame went out.
AttemptsCounted ==
    \A s \in Sends :
        /\ s \in tracked => frame_id[s] # Pending
        /\ frame_id[s] = Pending => sent[s] = 0 /\ resent[s] = 0 /\ track_id[s] = Pending
        /\ frame_id[s] # Pending => sent[s] = resent[s] + 1
        /\ resent[s] + 1 <= MaxAttempts

\* A send that is not filed yet is neither in the table nor in a hand.
Unfiledness ==
    \A s \in Sends : track_id[s] = Pending => s \notin tracked /\ in_hand[s] = Pending

OutIInv ==
    OutTypes /\ IdsDrawn /\ IdsDistinct /\ AttemptsCounted /\ Unfiledness
        /\ ReceiptNotForgotten

-----------------------------------------------------------------------------
\* The sets of sends that have drawn an id, and that are filed, are finite and within Sends.
LEMMA SendsCounted ==
    /\ IsFiniteSet(Drawn) /\ IsFiniteSet(Filed)
    /\ Cardinality(Sends) \in Nat /\ Cardinality(Drawn) \in Nat /\ Cardinality(Filed) \in Nat
    /\ Cardinality(Drawn) <= Cardinality(Sends) /\ Cardinality(Filed) <= Cardinality(Sends)
<1>1. IsFiniteSet(Sends) /\ Drawn \in SUBSET Sends /\ Filed \in SUBSET Sends
  BY OutAssumption, Zenon DEF Drawn, Filed
<1>2. IsFiniteSet(Drawn) /\ IsFiniteSet(Filed)
  BY <1>1, FS_Subset, Zenon
<1>3. Cardinality(Sends) \in Nat /\ Cardinality(Drawn) \in Nat /\ Cardinality(Filed) \in Nat
  BY <1>1, <1>2, FS_CardinalityType, Zenon
<1>4. Cardinality(Drawn) <= Cardinality(Sends) /\ Cardinality(Filed) <= Cardinality(Sends)
  BY <1>1, FS_Subset, Zenon
<1> QED
  BY <1>1, <1>2, <1>3, <1>4, Zenon

\* As long as some send has not drawn an id, or is not filed, there are fewer than Sends.
LEMMA SomeLeft ==
    ASSUME NEW s \in Sends
    PROVE  /\ s \notin Drawn => Cardinality(Drawn) < Cardinality(Sends)
           /\ s \notin Filed => Cardinality(Filed) < Cardinality(Sends)
<1>1. /\ IsFiniteSet(Sends)
      /\ Drawn \in SUBSET Sends /\ Filed \in SUBSET Sends
  BY OutAssumption, Zenon DEF Drawn, Filed
<1>2. /\ Cardinality(Sends) = Cardinality(Drawn) => Sends = Drawn
      /\ Cardinality(Sends) = Cardinality(Filed) => Sends = Filed
  BY <1>1, FS_Subset, Zenon
<1>3. /\ s \notin Drawn => Cardinality(Sends) # Cardinality(Drawn)
      /\ s \notin Filed => Cardinality(Sends) # Cardinality(Filed)
  BY <1>2, Zenon
<1> QED
  BY <1>3, SendsCounted

\* Nothing sent: the invariant holds.
LEMMA OutInitial == OutInit => OutIInv
<1> SUFFICES ASSUME OutInit PROVE OutIInv
  BY Zenon
<1> USE OutAssumption DEF OutInit
<1>1. OutTypes
  BY Zenon DEF OutTypes
<1>2. Drawn = {} /\ Filed = {}
  BY ZenonT(60) DEF Drawn, Filed
<1>3. Cardinality(Drawn) = 0 /\ Cardinality(Filed) = 0
  BY <1>2, FS_EmptySet
<1>4. IdsDrawn
  BY <1>3 DEF IdsDrawn
<1>5. IdsDistinct
  BY <1>2, Zenon DEF IdsDistinct
<1>6. AttemptsCounted /\ Unfiledness /\ ReceiptNotForgotten
  BY DEF AttemptsCounted, Unfiledness, ReceiptNotForgotten
<1> QED
  BY <1>1, <1>4, <1>5, <1>6, Zenon DEF OutIInv

-----------------------------------------------------------------------------
\* The steps that leave both id counters, the filing and the transmissions alone.
Answering ==
    /\ UNCHANGED <<next_id, next_track, frame_id, track_id, resent, sent>>
    /\ tracked' \subseteq tracked

\* Such a step keeps the ids and the counts of transmissions.
LEMMA IdsKept ==
    ASSUME OutIInv, Answering
    PROVE  IdsDrawn' /\ IdsDistinct' /\ AttemptsCounted'
<1> USE DEF OutIInv, Answering
<1>1. Drawn' = Drawn /\ Filed' = Filed
  BY Zenon DEF Drawn, Filed
<1>2. IdsDrawn'
  BY <1>1, Zenon DEF IdsDrawn
<1>3. IdsDistinct'
  BY <1>1, Zenon DEF IdsDistinct
<1>4. AttemptsCounted'
  BY Zenon DEF AttemptsCounted
<1> QED
  BY <1>2, <1>3, <1>4

\* Entries that are taken out of the table are in the hand of the thread that took them.
LEMMA TakeOutKeeps ==
    ASSUME OutIInv, NEW T \in SUBSET tracked, NEW r \in Results, TakeOut(T, r),
           frames' \subseteq Kinds \X Sends,
           UNCHANGED <<next_id, frame_id, result, sent>>
    PROVE  OutIInv'
<1> USE OutAssumption DEF OutIInv
<1>1. Answering
  BY Zenon DEF TakeOut, Answering
<1>2. OutTypes'
  BY Zenon DEF TakeOut, OutTypes
<1>3. Unfiledness' /\ ReceiptNotForgotten'
  <2>1. ASSUME NEW s \in T PROVE s \notin tracked' /\ in_hand'[s] # Pending /\ track_id[s] # Pending
    BY <2>1, Zenon DEF TakeOut, OutTypes, Unfiledness
  <2>2. ASSUME NEW s \in Sends \ T
        PROVE  (s \in tracked' <=> s \in tracked) /\ in_hand'[s] = in_hand[s]
    BY <2>2, Zenon DEF TakeOut
  <2>3. track_id' = track_id /\ result' = result
    BY Zenon DEF TakeOut
  <2> QED
    BY <2>1, <2>2, <2>3, Zenon DEF Unfiledness, ReceiptNotForgotten
<1> QED
  BY <1>1, <1>2, <1>3, IdsKept, ZenonT(60)

\* A step that touches neither the table nor the receipts keeps the invariant.
LEMMA NetworkKeeps ==
    ASSUME OutIInv, frames' \subseteq Kinds \X Sends,
           UNCHANGED <<next_id, frame_id, tracker, in_hand, result, sent>>
    PROVE  OutIInv'
<1>1. Answering
  BY Zenon DEF Answering, tracker
<1> QED
  BY <1>1, IdsKept, Zenon DEF OutIInv, OutTypes, Unfiledness, ReceiptNotForgotten, tracker

\* Only known frames are under way.
LEMMA TransmitTyped ==
    ASSUME NEW left \in SUBSET (Kinds \X Sends), NEW new \in SUBSET (Kinds \X Sends),
           Transmit(left, new)
    PROVE  frames' \subseteq Kinds \X Sends
<1>1. frames' = left \cup new \/ frames' = left
  BY Zenon DEF Transmit
<1> QED
  BY <1>1, Zenon

\* try_send draws an id that no send has and sends the frame for the first time.
LEMMA TrySendKeeps ==
    ASSUME OutIInv, NEW s \in Sends, TrySend(s)
    PROVE  OutIInv'
<1> USE OutAssumption
<1>1. PICK i \in next_id .. Cardinality(Drawn) + OtherIds + 1 :
          frame_id' = [frame_id EXCEPT ![s] = i] /\ next_id' = i + 1
  BY Zenon DEF TrySend
<1>2. /\ frame_id[s] = Pending /\ s \notin Drawn
      /\ next_track' = next_track /\ track_id' = track_id /\ tracked' = tracked
      /\ resent' = resent /\ next_retry' = next_retry
      /\ in_hand' = in_hand /\ result' = result
      /\ sent' = [sent EXCEPT ![s] = 1]
  BY Zenon DEF TrySend, tracker, Drawn
<1>3. i \in Ids /\ i # Pending /\ i \in Nat \ {0}
  <2>1. Cardinality(Drawn) < Cardinality(Sends)
    BY <1>2, SomeLeft, Zenon
  <2>2. next_id \in Nat \ {0} /\ OtherIds \in Nat
    BY Zenon DEF OutIInv, IdsDrawn
  <2>3. i \in 1 .. Cardinality(Sends) + OtherIds
    BY <1>1, <2>1, <2>2, SendsCounted
  <2>4. Pending \notin Ids
    BY Zenon
  <2>5. i \in Ids
    BY <2>3, Zenon DEF Ids
  <2> QED
    BY <2>3, <2>4, <2>5, SendsCounted
<1>4. Drawn' = Drawn \cup {s}
  BY <1>1, <1>2, <1>3, ZenonT(120) DEF Drawn, OutIInv, IdsDrawn
<1>5. Cardinality(Drawn') = Cardinality(Drawn) + 1
  BY <1>2, <1>4, SendsCounted, FS_AddElement, Zenon
<1>6. Filed' = Filed
  BY <1>2, Zenon DEF Filed
<1>7. IdsDrawn'
  <2>1. next_id' \in Nat \ {0} /\ next_id' <= Cardinality(Drawn') + OtherIds + 1
    BY <1>1, <1>3, <1>5, SendsCounted
  <2>2. frame_id' \in [Sends -> Ids \cup {Pending}]
    BY <1>1, <1>3, Zenon DEF OutIInv, IdsDrawn
  <2> QED
    BY <1>2, <1>6, <2>1, <2>2, ZenonT(60) DEF OutIInv, IdsDrawn
<1>8. IdsDistinct' /\ Unfiledness' /\ ReceiptNotForgotten'
  BY <1>2, <1>6, ZenonT(60) DEF OutIInv, IdsDistinct, Unfiledness, ReceiptNotForgotten
<1>9. OutTypes'
  <2>1. {Frame("data", s)} \in SUBSET (Kinds \X Sends) /\ frames \in SUBSET (Kinds \X Sends)
    BY DEF Frame, Kinds, OutIInv, OutTypes
  <2>2. frames' \subseteq Kinds \X Sends
    BY <2>1, TransmitTyped, ZenonT(60) DEF TrySend
  <2> QED
    BY <1>2, <2>2, Zenon DEF OutIInv, OutTypes
<1>10. AttemptsCounted'
  <2>1. sent'[s] = 1 /\ resent'[s] = 0 /\ frame_id'[s] # Pending /\ resent'[s] + 1 <= MaxAttempts
    BY <1>1, <1>2, <1>3, ZenonT(60) DEF OutIInv, AttemptsCounted, OutTypes, IdsDrawn
  <2>2. ASSUME NEW t \in Sends \ {s} PROVE sent'[t] = sent[t] /\ frame_id'[t] = frame_id[t]
    BY <1>1, <1>2, <2>2, ZenonT(120) DEF OutIInv, OutTypes, IdsDrawn
  <2> QED
    <3>1. sent'[s] = resent'[s] + 1
      BY <2>1
    <3>2. ASSUME NEW t \in Sends
          PROVE  /\ t \in tracked' => frame_id'[t] # Pending
                 /\ frame_id'[t] = Pending => sent'[t] = 0 /\ resent'[t] = 0 /\ track_id'[t] = Pending
                 /\ frame_id'[t] # Pending => sent'[t] = resent'[t] + 1
                 /\ resent'[t] + 1 <= MaxAttempts
      <4>1. CASE t = s
        BY <2>1, <3>1, <4>1, Zenon
      <4>2. CASE t # s
        <5>1. AttemptsCounted
          BY Zenon DEF OutIInv
        <5>2. sent'[t] = sent[t] /\ frame_id'[t] = frame_id[t]
          BY <2>2, <4>2, Zenon
        <5> QED
          BY <1>2, <5>1, <5>2, ZenonT(60) DEF AttemptsCounted
      <4> QED
        BY <4>1, <4>2, Zenon
    <3> QED
      BY <3>2, Zenon DEF AttemptsCounted
<1> QED
  BY <1>7, <1>8, <1>9, <1>10, ZenonT(60) DEF OutIInv

\* track() files the send under an id of the tracker's own that no other send has.
LEMMA TrackKeeps ==
    ASSUME OutIInv, NEW s \in Sends, Track(s)
    PROVE  OutIInv'
<1> USE OutAssumption
<1>1. /\ frame_id[s] # Pending /\ track_id[s] = Pending /\ s \notin Filed
      /\ track_id' = [track_id EXCEPT ![s] = next_track] /\ next_track' = next_track + 1
      /\ tracked' = tracked \cup {s}
      /\ next_id' = next_id /\ frame_id' = frame_id
      /\ resent' = resent /\ next_retry' = next_retry /\ sent' = sent
      /\ in_hand' = in_hand /\ result' = result /\ frames' = frames
  BY Zenon DEF Track, Unfiled, Filed
<1>2. next_track \in Ids /\ next_track # Pending /\ next_track \in Nat \ {0}
  <2>1. Cardinality(Filed) < Cardinality(Sends)
    BY <1>1, SomeLeft, Zenon
  <2>2. next_track = Cardinality(Filed) + 1 /\ OtherIds \in Nat
    BY Zenon DEF OutIInv, IdsDrawn
  <2>3. next_track \in 1 .. Cardinality(Sends) + OtherIds
    BY <2>1, <2>2, SendsCounted
  <2>4. Pending \notin Ids
    BY Zenon
  <2>5. next_track \in Ids
    BY <2>3, Zenon DEF Ids
  <2> QED
    BY <2>3, <2>4, <2>5, SendsCounted
<1>3. Filed' = Filed \cup {s} /\ Drawn' = Drawn
  BY <1>1, <1>2, ZenonT(120) DEF Filed, Drawn, OutIInv, IdsDrawn
<1>4. Cardinality(Filed') = Cardinality(Filed) + 1
  BY <1>1, <1>3, SendsCounted, FS_AddElement, Zenon
<1>5. IdsDrawn'
  <2>1. track_id' \in [Sends -> Ids \cup {Pending}]
    BY <1>1, <1>2, Zenon DEF OutIInv, IdsDrawn
  <2>2. next_track' = Cardinality(Filed') + 1
    BY <1>1, <1>4, SendsCounted, Zenon DEF OutIInv, IdsDrawn
  <2> QED
    BY <1>1, <1>3, <2>1, <2>2, Zenon DEF OutIInv, IdsDrawn
<1>6. IdsDistinct'
  <2>1. track_id'[s] = next_track /\ \A t \in Filed : t # s /\ track_id'[t] = track_id[t]
    BY <1>1, ZenonT(60) DEF OutIInv, IdsDrawn, Filed
  <2>2. \A t \in Filed : track_id[t] \in Nat
    BY DEF OutIInv, IdsDrawn, Filed, Ids
  <2>3. \A t \in Filed : track_id[t] < next_track
    BY Zenon DEF OutIInv, IdsDistinct
  <2>4. \A t, u \in Filed : track_id[t] = track_id[u] => t = u
    BY Zenon DEF OutIInv, IdsDistinct
  <2> QED
    BY <1>1, <1>2, <1>3, <2>1, <2>2, <2>3, <2>4, SMTT(60), Zenon DEF IdsDistinct
<1>7. track_id'[s] # Pending /\ \A t \in Sends \ {s} : track_id'[t] = track_id[t]
  BY <1>1, <1>2, ZenonT(120) DEF OutIInv, IdsDrawn
<1>8. AttemptsCounted' /\ Unfiledness' /\ ReceiptNotForgotten'
  <2>1. AttemptsCounted'
    BY <1>1, <1>7, ZenonT(120) DEF OutIInv, AttemptsCounted
  <2>2. Unfiledness'
    BY <1>1, <1>7, ZenonT(120) DEF OutIInv, Unfiledness
  <2>3. ReceiptNotForgotten'
    BY <1>1, <1>7, ZenonT(120) DEF OutIInv, Unfiledness, ReceiptNotForgotten
  <2> QED
    BY <2>1, <2>2, <2>3, Zenon
<1>9. OutTypes'
  BY <1>1, ZenonT(60) DEF OutIInv, OutTypes
<1> QED
  BY <1>5, <1>6, <1>8, <1>9, Zenon DEF OutIInv

\* What the receiver and the network do changes the frames under way only.
LEMMA DeliverKeeps ==
    ASSUME OutIInv, NEW s \in Sends, NEW kind, Deliver(s, kind)
    PROVE  OutIInv'
<1>1. PICK accepted \in BOOLEAN, lost \in SUBSET {Frame(kind, s)} :
          Transmit(frames \ lost, {Frame(IF accepted THEN "ack" ELSE "nack", s)})
  BY Zenon DEF Deliver
<1>2. /\ frames \ lost \in SUBSET (Kinds \X Sends)
      /\ {Frame(IF accepted THEN "ack" ELSE "nack", s)} \in SUBSET (Kinds \X Sends)
  BY DEF Frame, Kinds, OutIInv, OutTypes
<1>3. frames' \subseteq Kinds \X Sends
  BY <1>1, <1>2, TransmitTyped, Zenon
<1> QED
  BY <1>3, NetworkKeeps, Zenon DEF Deliver

\* So do the dedicated answers of a peer.
LEMMA PeerKeeps ==
    ASSUME OutIInv, NEW s \in Sends, PeerAnswers(s)
    PROVE  OutIInv'
<1>1. PICK r \in NackReasons \cup {"Accepted"} :
          frames' = (frames \ {Frame("data", s)}) \cup {Frame(r, s)}
  BY Zenon DEF PeerAnswers
<1>2. frames' \subseteq Kinds \X Sends
  BY <1>1 DEF Frame, Kinds, OutIInv, OutTypes
<1> QED
  BY <1>2, NetworkKeeps, Zenon DEF PeerAnswers

\* An answer takes out the send filed under its id, makes its retry due, or changes nothing.
LEMMA RouteKeeps ==
    ASSUME OutIInv, NEW f \in frames, Route(f)
    PROVE  OutIInv'
<1> DEFINE i == frame_id[f[2]]
<1>1. f[1] \in Kinds /\ f[2] \in Sends /\ frames \subseteq Kinds \X Sends
  BY Zenon DEF OutIInv, OutTypes
<1>2. next_id' = next_id /\ frame_id' = frame_id /\ result' = result /\ sent' = sent
  BY Zenon DEF Route
<1>3. frames' \subseteq Kinds \X Sends
  <2>1. /\ (frames \ {f}) \cup {Frame("echo", f[2])} \subseteq Kinds \X Sends
        /\ frames \ {f} \subseteq Kinds \X Sends
    BY <1>1 DEF Frame, Kinds
  <2> QED
    BY <2>1, Zenon DEF Route
<1>4. FiledUnder(i) \in SUBSET tracked
  BY Zenon DEF FiledUnder
<1>5. CASE UNCHANGED <<tracker, in_hand>>
  BY <1>2, <1>3, <1>5, NetworkKeeps, Zenon
<1>6. CASE OnAck(i)
  BY <1>2, <1>3, <1>4, <1>6, TakeOutKeeps, ZenonT(60) DEF OnAck, Results
<1>7. ASSUME NEW reason \in {"AcceptedWithPressure", "MailboxFull", "ActorDead", "Duplicate"},
             OnNack(i, reason)
      PROVE  OutIInv'
  <2>1. CASE reason = "Duplicate" /\ OnAck(i)
    BY <1>6, <2>1
  <2>2. CASE reason \in {"AcceptedWithPressure", "ActorDead"} /\ TakeOut(FiledUnder(i), reason)
    BY <1>2, <1>3, <1>4, <2>2, TakeOutKeeps, ZenonT(60) DEF Results
  <2>3. CASE reason = "MailboxFull"
    <3>1. /\ next_retry' = [s \in Sends |-> IF s \in FiledUnder(i) THEN "due" ELSE next_retry[s]]
          /\ UNCHANGED <<next_track, track_id, tracked, resent, in_hand>>
      BY <1>7, <2>3, Zenon DEF OnNack
    <3>2. Answering
      BY <1>2, <3>1, Zenon DEF Answering
    <3>3. OutTypes'
      BY <1>2, <1>3, <3>1, ZenonT(60) DEF OutIInv, OutTypes
    <3>4. Unfiledness' /\ ReceiptNotForgotten'
      BY <1>2, <3>1, Zenon DEF OutIInv, Unfiledness, ReceiptNotForgotten
    <3> QED
      BY <3>2, <3>3, <3>4, IdsKept, ZenonT(60) DEF OutIInv
  <2> QED
    BY <1>7, <2>1, <2>2, <2>3, SMTT(60), Zenon DEF OnNack
<1>8. \/ UNCHANGED <<tracker, in_hand>>
      \/ OnAck(i)
      \/ ReasonOf(f[1]) \in {"AcceptedWithPressure", "MailboxFull", "ActorDead", "Duplicate"}
         /\ OnNack(i, ReasonOf(f[1]))
  <2>1. f[1] \in NackReasons \cup {"nack"}
          => ReasonOf(f[1]) \in {"AcceptedWithPressure", "MailboxFull", "ActorDead", "Duplicate"}
    BY Zenon DEF ReasonOf, NackReasons
  <2> HIDE DEF i
  <2> QED
    BY <2>1, Zenon DEF Route, i
<1> QED
  BY <1>5, <1>6, <1>7, <1>8, Zenon

\* One pass of process_retries sends again only what has attempts left, and takes out what
\* has none or is past its deadline.
LEMMA RetriesKeep ==
    ASSUME OutIInv, ProcessRetries
    PROVE  OutIInv'
<1> USE OutAssumption
<1> DEFINE lapsed == {s \in tracked : Awaits(s) /\ s \in expired}
           failed == {s \in tracked : Fails(s)}
           again == {s \in tracked : Retries(s)}
           armed == {s \in tracked : Awaits(s)} \ lapsed
           out == lapsed \cup failed
<1>1. /\ tracked' = tracked \ out
      /\ in_hand' = [s \in Sends |->
             IF s \in out THEN IF s \in expired THEN "Expired" ELSE "TransportError"
             ELSE in_hand[s]]
      /\ resent' = [s \in Sends |-> IF s \in again THEN resent[s] + 1 ELSE resent[s]]
      /\ next_retry' = [s \in Sends |->
             IF s \in again \cup armed THEN "later"
             ELSE IF s \in failed THEN "none" ELSE next_retry[s]]
      /\ sent' = [s \in Sends |-> IF s \in again THEN sent[s] + 1 ELSE sent[s]]
      /\ Transmit(frames, {Frame("data", s) : s \in again})
      /\ next_id' = next_id /\ frame_id' = frame_id /\ next_track' = next_track
      /\ track_id' = track_id /\ result' = result
  BY Zenon DEF ProcessRetries
<1>2. /\ out \subseteq tracked /\ again \subseteq tracked /\ tracked \subseteq Sends
      /\ \A s \in again : resent[s] + 1 < MaxAttempts
  <2>1. resent \in [Sends -> Nat] /\ tracked \subseteq Sends /\ MaxAttempts \in Nat
    BY DEF OutIInv, OutTypes
  <2> QED
    BY <2>1, SMTT(60), Zenon DEF Retries, Fails, Exhausted
<1> HIDE DEF lapsed, failed, again, armed, out
<1>3. OutTypes'
  <2>1. {Frame("data", s) : s \in again} \in SUBSET (Kinds \X Sends)
    BY <1>2, SMTT(60), Zenon DEF Frame, Kinds
  <2>2. frames' \subseteq Kinds \X Sends
    <3>1. frames \in SUBSET (Kinds \X Sends)
      BY Zenon DEF OutIInv, OutTypes
    <3> QED
      BY <1>1, <2>1, <3>1, TransmitTyped, Zenon
  <2>3. in_hand' \in [Sends -> Results \cup {Pending}]
    BY <1>1, Zenon DEF OutIInv, OutTypes, Results
  <2>4. next_retry' \in [Sends -> {"none", "later", "due"}]
    BY <1>1, ZenonT(60) DEF OutIInv, OutTypes
  <2>5. resent' \in [Sends -> Nat] /\ sent' \in [Sends -> Nat]
    BY <1>1 DEF OutIInv, OutTypes
  <2> QED
    BY <1>1, <2>2, <2>3, <2>4, <2>5, ZenonT(60) DEF OutIInv, OutTypes
<1>4. Drawn' = Drawn /\ Filed' = Filed
  BY <1>1, ZenonT(60) DEF Drawn, Filed
<1>5. IdsDrawn' /\ IdsDistinct'
  BY <1>1, <1>4, ZenonT(60) DEF OutIInv, IdsDrawn, IdsDistinct
<1>6. AttemptsCounted'
  <2>1. ASSUME NEW s \in again
        PROVE  /\ resent'[s] = resent[s] + 1 /\ sent'[s] = sent[s] + 1
               /\ frame_id'[s] # Pending /\ sent'[s] = resent'[s] + 1
               /\ resent'[s] + 1 <= MaxAttempts
    <3>1. /\ s \in Sends /\ resent[s] \in Nat /\ sent[s] \in Nat
          /\ resent'[s] = resent[s] + 1 /\ sent'[s] = sent[s] + 1 /\ frame_id' = frame_id
      BY <1>1, <1>2, <2>1, Zenon DEF OutIInv, OutTypes
    <3>2. frame_id[s] # Pending /\ sent[s] = resent[s] + 1 /\ resent[s] + 1 < MaxAttempts
      BY <1>1, <1>2, <2>1, Zenon DEF OutIInv, AttemptsCounted
    <3> QED
      <4>1. MaxAttempts \in Nat
        BY OutAssumption
      <4>2. sent[s] + 1 = resent[s] + 1 + 1 /\ resent[s] + 1 + 1 <= MaxAttempts
        BY <3>1, <3>2, <4>1
      <4> QED
        BY <3>1, <3>2, <4>2, Zenon
  <2>2. ASSUME NEW s \in Sends \ again PROVE resent'[s] = resent[s] /\ sent'[s] = sent[s]
    BY <1>1, <2>2, Zenon
  <2> QED
    BY <1>1, <1>2, <2>1, <2>2, ZenonT(60) DEF OutIInv, AttemptsCounted
<1>7. Unfiledness' /\ ReceiptNotForgotten'
  <2>1. ASSUME NEW s \in out PROVE s \notin tracked' /\ in_hand'[s] # Pending /\ track_id[s] # Pending
    BY <1>1, <1>2, <2>1, Zenon DEF OutIInv, Unfiledness, Results
  <2>2. ASSUME NEW s \in Sends \ out
        PROVE  (s \in tracked' <=> s \in tracked) /\ in_hand'[s] = in_hand[s]
    BY <1>1, <2>2, Zenon
  <2> QED
    BY <1>1, <2>1, <2>2, Zenon DEF OutIInv, Unfiledness, ReceiptNotForgotten
<1> QED
  BY <1>3, <1>5, <1>6, <1>7, ZenonT(60) DEF OutIInv

\* A receipt gets its result from the hand, or from its owner's cancel().
LEMMA ReceiptKeeps ==
    ASSUME OutIInv, NEW s \in Sends, ResolveReceipt(s) \/ CancelReceipt(s)
    PROVE  OutIInv'
<1> USE OutAssumption
<1>1. /\ UNCHANGED <<next_id, frame_id, tracker, frames, sent>>
      /\ Answering
  BY Zenon DEF ResolveReceipt, CancelReceipt, Answering, tracker
<1>2. CASE ResolveReceipt(s)
  <2>1. /\ in_hand[s] # Pending /\ in_hand' = [in_hand EXCEPT ![s] = Pending]
        /\ result' = IF result[s] # Pending THEN result ELSE [result EXCEPT ![s] = in_hand[s]]
    BY <1>2, Zenon DEF ResolveReceipt, SettleReceipt
  <2>2. OutTypes'
    BY <1>1, <2>1, Zenon DEF OutIInv, OutTypes, tracker
  <2>3. result'[s] # Pending /\ in_hand'[s] = Pending
    BY <2>1, ZenonT(60) DEF OutIInv, OutTypes
  <2>4. \A t \in Sends \ {s} : result'[t] = result[t] /\ in_hand'[t] = in_hand[t]
    BY <2>1, SMTT(60), Zenon DEF OutIInv, OutTypes
  <2>5. Unfiledness' /\ ReceiptNotForgotten'
    BY <1>1, <2>3, <2>4, ZenonT(120) DEF OutIInv, Unfiledness, ReceiptNotForgotten, tracker
  <2> QED
    BY <1>1, <2>2, <2>5, IdsKept, Zenon DEF OutIInv
<1>3. CASE CancelReceipt(s)
  <2>1. /\ in_hand' = in_hand /\ result[s] = Pending
        /\ result' = [result EXCEPT ![s] = "Cancelled"]
    BY <1>3, Zenon DEF CancelReceipt, SettleReceipt
  <2>2. OutTypes'
    BY <1>1, <2>1, Zenon DEF OutIInv, OutTypes, tracker, Results
  <2>3. result'[s] # Pending
    BY <2>1, ZenonT(30) DEF OutIInv, OutTypes, Results
  <2>4. \A t \in Sends \ {s} : result'[t] = result[t]
    BY <2>1, ZenonT(30) DEF OutIInv, OutTypes
  <2>5. Unfiledness' /\ ReceiptNotForgotten'
    BY <1>1, <2>1, <2>3, <2>4, SMTT(60), Zenon DEF OutIInv, Unfiledness, ReceiptNotForgotten, tracker
  <2> QED
    BY <1>1, <2>2, <2>5, IdsKept DEF OutIInv
<1> QED
  BY <1>2, <1>3, Zenon

\* Time passing, and the tracker's own cancellations.
LEMMA OthersKeep ==
    ASSUME OutIInv,
           \/ CancelTracked
           \/ \E f \in frames : LoseFrame(f)
           \/ \E s \in Sends : RetryFallsDue(s) \/ DeadlinePasses(s)
           \/ UNCHANGED outVars
    PROVE  OutIInv'
<1>1. CASE CancelTracked
  <2>1. PICK T \in SUBSET tracked : TakeOut(T, "Cancelled")
    BY <1>1, Zenon DEF CancelTracked
  <2>2. frames' \subseteq Kinds \X Sends /\ UNCHANGED <<next_id, frame_id, result, sent>>
    BY <1>1, Zenon DEF CancelTracked, OutIInv, OutTypes
  <2> QED
    BY <2>1, <2>2, TakeOutKeeps, Zenon DEF Results
<1>2. ASSUME NEW f \in frames, LoseFrame(f) PROVE OutIInv'
  <2>1. frames' \subseteq Kinds \X Sends
    BY <1>2, ZenonT(30) DEF LoseFrame, OutIInv, OutTypes
  <2> QED
    BY <1>2, <2>1, NetworkKeeps, Zenon DEF LoseFrame
<1>3. ASSUME NEW s \in Sends, RetryFallsDue(s) PROVE OutIInv'
  <2>1. Answering
    BY <1>3, ZenonT(30) DEF RetryFallsDue, Answering
  <2> QED
    BY <1>3, <2>1, IdsKept, Zenon
    DEF RetryFallsDue, OutIInv, OutTypes, Unfiledness, ReceiptNotForgotten
<1>4. ASSUME NEW s \in Sends, DeadlinePasses(s) PROVE OutIInv'
  BY <1>4, NetworkKeeps, ZenonT(30) DEF DeadlinePasses, OutIInv, OutTypes
<1>5. CASE UNCHANGED outVars
  BY <1>5, NetworkKeeps, Zenon DEF outVars, OutIInv, OutTypes
<1> QED
  BY <1>1, <1>2, <1>3, <1>4, <1>5, SMTT(60), Zenon

\* Every step of the tracker, the receivers, the network and the clock keeps the invariant.
LEMMA OutKept == OutIInv /\ [OutNext]_outVars => OutIInv'
<1> SUFFICES ASSUME OutIInv, [OutNext]_outVars PROVE OutIInv'
  BY Zenon
<1>1. ASSUME NEW s \in Sends, TrySend(s) PROVE OutIInv'
  BY <1>1, TrySendKeeps, Zenon
<1>2. ASSUME NEW s \in Sends, Track(s) PROVE OutIInv'
  BY <1>2, TrackKeeps, Zenon
<1>3. ASSUME NEW s \in Sends, Deliver(s, "data") \/ Deliver(s, "echo") PROVE OutIInv'
  BY <1>3, DeliverKeeps, Zenon
<1>4. ASSUME NEW s \in Sends, PeerAnswers(s) PROVE OutIInv'
  BY <1>4, PeerKeeps
<1>5. ASSUME NEW f \in frames, Route(f) PROVE OutIInv'
  BY <1>5, RouteKeeps, Zenon
<1>6. CASE ProcessRetries
  BY <1>6, RetriesKeep, Zenon
<1>7. ASSUME NEW s \in Sends, ResolveReceipt(s) \/ CancelReceipt(s) PROVE OutIInv'
  BY <1>7, ReceiptKeeps, Zenon
<1> QED
  BY <1>1, <1>2, <1>3, <1>4, <1>5, <1>6, <1>7, OthersKeep, Zenon DEF OutNext, OutStep

-----------------------------------------------------------------------------
\* The tracker's table, its ids and its receipts keep the invariant, whatever the network
\* does.
THEOREM OutInvariant == OutSpec => []OutIInv
BY OutInitial, OutKept, PTL DEF OutSpec

\* A message is transmitted at most max_attempts times, and a tracked send is in the table,
\* in one hand or resolved: its receipt is never forgotten.
THEOREM OutIsSafe == OutSpec => []OutInv
<1>1. OutIInv => OutInv
  <2> SUFFICES ASSUME OutIInv PROVE OutInv
    BY Zenon
  <2> USE OutAssumption
  <2>1. Cardinality(Ids) = Cardinality(Sends) + OtherIds
    <3>1. 1 \in Int /\ Cardinality(Sends) + OtherIds \in Nat
      BY SendsCounted, SMTT(60), Zenon
    <3> QED
      BY <3>1, FS_Interval DEF Ids
  <2>2. next_id \in 1 .. Cardinality(Ids) + 1
    BY <2>1, SendsCounted DEF OutIInv, IdsDrawn
  <2>3. next_track \in 1 .. Cardinality(Sends) + 1
    BY SendsCounted DEF OutIInv, IdsDrawn
  <2>4. OutTypeOK
    BY <2>2, <2>3, Zenon DEF OutTypeOK, OutIInv, OutTypes, IdsDrawn
  <2>5. TransmissionsBounded
    <3>1. ASSUME NEW s \in Sends PROVE sent[s] <= MaxAttempts
      BY DEF OutIInv, OutTypes, AttemptsCounted
    <3> QED
      BY <3>1, Zenon DEF TransmissionsBounded
  <2> QED
    BY <2>4, <2>5, Zenon DEF OutInv, OutIInv
<1> QED
  BY OutInvariant, <1>1, PTL

\* The first result of a receipt is final, whatever answers, retries and cancellations
\* follow it.
THEOREM ReceiptIsFinal == OutSpec => ResultFinal
<1>1. OutIInv /\ [OutNext]_outVars
        => [\A s \in Sends : result[s] # Pending => result'[s] = result[s]]_outVars
  <2> SUFFICES ASSUME OutIInv, [OutNext]_outVars, NEW s \in Sends, result[s] # Pending
               PROVE  result'[s] = result[s]
    BY Zenon DEF outVars
  <2>1. ASSUME NEW t \in Sends, ResolveReceipt(t) \/ CancelReceipt(t) PROVE result'[s] = result[s]
    BY <2>1, Zenon DEF ResolveReceipt, CancelReceipt, SettleReceipt, OutIInv, OutTypes
  <2>2. CASE UNCHANGED result
    BY <2>2
  <2> QED
    BY <2>1, <2>2, Zenon
    DEF OutNext, OutStep, TrySend, Track, Deliver, PeerAnswers, LoseFrame, Route,
        ProcessRetries, RetryFallsDue, DeadlinePasses, CancelTracked, outVars
<1> QED
  BY OutInvariant, <1>1, PTL DEF OutSpec, ResultFinal

\* The tracker files no two sends under one id: an answer is applied to one send at most.
THEOREM AnswersOneSend ==
    OutSpec => [](\A i \in Ids : \A s, t \in FiledUnder(i) : s = t)
<1>1. OutIInv => \A i \in Ids : \A s, t \in FiledUnder(i) : s = t
  BY OutAssumption, ZenonT(60) DEF OutIInv, OutTypes, IdsDistinct, FiledUnder, Filed
<1> QED
  BY OutInvariant, <1>1, PTL
=============================================================================
