-------------------------- MODULE OutboundDelivery --------------------------
(***************************************************************************)
(* Acknowledged remote sends: ActorProxy sends a frame and hands it to     *)
(* OutboundDeliveryTracker, which sends it again until an answer, the      *)
(* last attempt or the deadline; the caller observes a DeliveryReceipt.    *)
(*                                                                         *)
(* The receiver answers with send_ack.  A frame carries the id the proxy   *)
(* drew from generate_message_id(); the tracker files the send under an id *)
(* of its own, and looks answers up by the id the frame carried.  Peers    *)
(* may also answer with the dedicated AckFrame and NackFrame.  The network *)
(* may lose, delay and repeat frames.                                      *)
(***************************************************************************)
EXTENDS Integers, FiniteSets

CONSTANTS
    Sends,            \* tracked remote sends
    MaxAttempts,      \* RetryPolicy::max_attempts
    AttemptTimeout,   \* whether RetryPolicy::per_attempt_timeout is positive
    Deadlined,        \* the sends that have a deadline
    OtherIds,         \* bound: ids drawn by untracked sends, asks and calls
    InFlight,         \* bound: frames under way; a frame sent beyond it is lost
    Pending           \* model value: no result, no id, nothing in hand

NackReasons == {"MailboxFull", "ActorDead", "Duplicate"}
Results == {"Accepted", "AcceptedWithPressure", "ActorDead", "Expired", "TransportError",
            "Cancelled"}
Ids == 1 .. Cardinality(Sends) + OtherIds

ASSUME OutAssumption ==
    /\ IsFiniteSet(Sends) /\ Deadlined \subseteq Sends
    /\ MaxAttempts \in 2 .. 255 /\ OtherIds \in Nat /\ InFlight \in Nat
    /\ AttemptTimeout \in BOOLEAN
    /\ Pending \notin Results /\ Pending \notin Ids

VARIABLES
    next_id,      \* the next id of generate_message_id()
    next_track,   \* next_msg_id_
    frame_id,     \* per send, the id in its frame
    track_id,     \* per send, the id the tracker filed it under
    tracked,      \* pending_: sends the tracker holds
    resent,       \* retry_count
    next_retry,   \* "none" (0), "later" (in the future), "due" (in the past)
    expired,      \* sends whose deadline has passed
    in_hand,      \* per send, the result a thread will resolve its receipt with
    result,       \* SharedState::result
    frames,       \* frames under way
    sent,         \* history: transmissions of each send
    received      \* history: sends whose message the receiver's mailbox accepted

tracker == <<next_track, track_id, tracked, resent, next_retry>>
outVars == <<next_id, frame_id, tracker, expired, in_hand, result, frames, sent, received>>

Drawn == {s \in Sends : frame_id[s] # Pending}
Unfiled == {s \in Sends : frame_id[s] # Pending /\ track_id[s] = Pending}
Frame(kind, s) == <<kind, s>>
Transmit(left, new) ==
    frames' = IF Cardinality(left \cup new) <= InFlight THEN left \cup new ELSE left

\* ActorProxy::try_send draws the id and gives the frame to the transport, ...  Untracked
\* sends, asks and RPC calls may have drawn from the same counter since the last one.
TrySend(s) ==
    /\ frame_id[s] = Pending
    /\ \E i \in next_id .. Cardinality(Drawn) + OtherIds + 1 :
        /\ frame_id' = [frame_id EXCEPT ![s] = i]
        /\ next_id' = i + 1
    /\ Transmit(frames, {Frame("data", s)})
    /\ sent' = [sent EXCEPT ![s] = 1]
    /\ UNCHANGED <<tracker, expired, in_hand, result, received>>

\* ... and then calls track().
Track(s) ==
    /\ s \in Unfiled
    /\ track_id' = [track_id EXCEPT ![s] = next_track]
    /\ next_track' = next_track + 1
    /\ tracked' = tracked \cup {s}
    /\ UNCHANGED <<next_id, frame_id, resent, next_retry, expired, in_hand, result, frames,
                   sent, received>>

\* deliver_ordinary_data at the receiver, and the answer send_ack builds: a message that
\* was accepted is answered with the flag AckRequested, a refused one with AckResponse and
\* AckStatus::Rejected.  The frame may arrive again.
Deliver(s, kind) ==
    /\ Frame(kind, s) \in frames /\ kind \in {"data", "echo"}
    /\ \E accepted \in BOOLEAN, lost \in SUBSET {Frame(kind, s)} :
        /\ Transmit(frames \ lost, {Frame(IF accepted THEN "ack" ELSE "nack", s)})
        /\ received' = IF accepted /\ kind = "data" THEN received \cup {s} ELSE received
    /\ UNCHANGED <<next_id, frame_id, tracker, expired, in_hand, result, sent>>

\* A peer that answers with the dedicated frames (external).
PeerAnswers(s) ==
    /\ Frame("data", s) \in frames
    /\ \E r \in NackReasons \cup {"Accepted"} :
        /\ r = "Duplicate" => s \in received
        /\ frames' = (frames \ {Frame("data", s)}) \cup {Frame(r, s)}
        /\ received' = IF r = "Accepted" THEN received \cup {s} ELSE received
    /\ UNCHANGED <<next_id, frame_id, tracker, expired, in_hand, result, sent>>

LoseFrame(f) ==
    /\ f \in frames /\ frames' = frames \ {f}
    /\ UNCHANGED <<next_id, frame_id, tracker, expired, in_hand, result, sent, received>>

\* The sends an answer with id i is applied to (at most one).
FiledUnder(i) == {s \in tracked : track_id[s] = i}

\* Take T out of the table; each is resolved with r once the mutex is released.
TakeOut(T, r) ==
    /\ tracked' = tracked \ T
    /\ in_hand' = [s \in Sends |-> IF s \in T THEN r ELSE in_hand[s]]
    /\ next_retry' = [s \in Sends |-> IF s \in T THEN "none" ELSE next_retry[s]]
    /\ UNCHANGED <<next_track, track_id, resent>>

\* on_ack and on_nack.  Duplicate counts as an acknowledgement; only MailboxFull is
\* retryable.
OnAck(i) == TakeOut(FiledUnder(i), "Accepted")

\* Mutant: the entry is erased and its receipt forgotten.
OnNackForgets(i, reason) ==
    /\ tracked' = tracked \ FiledUnder(i)
    /\ UNCHANGED <<next_track, track_id, resent, next_retry, in_hand>>

OnNack(i, reason) ==
    \/ reason = "Duplicate" /\ OnAck(i)
    \/ /\ reason = "MailboxFull"
       /\ next_retry' = [s \in Sends |-> IF s \in FiledUnder(i) THEN "due" ELSE next_retry[s]]
       /\ UNCHANGED <<next_track, track_id, tracked, resent, in_hand>>
    \/ reason \notin {"Duplicate", "MailboxFull"} /\ TakeOut(FiledUnder(i), reason)

\* The NACK of send_ack carries AckStatus::Rejected = 1 where the tracker reads a
\* DeliveryStatus, whose value 1 is AcceptedWithPressure.
ReasonOf(kind) == IF kind = "nack" THEN "AcceptedWithPressure" ELSE kind

\* route_data and the dedicated routes at the sender.  AckRequested alone means ordinary
\* data: the acknowledgement goes to the sending actor's mailbox, and is answered in turn.
Route(f) ==
    LET s == f[2] i == frame_id[s] IN
    /\ f \in frames /\ f[1] \notin {"data", "echo"}
    /\ \/ /\ f[1] = "ack" /\ UNCHANGED <<tracker, in_hand>>
          /\ frames' \in {(frames \ {f}) \cup {Frame("echo", s)}, frames \ {f}}
       \/ f[1] = "Accepted" /\ OnAck(i) /\ frames' = frames \ {f}
       \/ /\ f[1] \in NackReasons \cup {"nack"}
          /\ OnNack(i, ReasonOf(f[1])) /\ frames' = frames \ {f}
    /\ UNCHANGED <<next_id, frame_id, expired, result, sent, received>>

\* What process_retries decides about one entry.
Exhausted(s) == resent[s] + 1 >= MaxAttempts
Fails(s) == next_retry[s] = "due" /\ (Exhausted(s) \/ s \in expired)
Retries(s) == next_retry[s] = "due" /\ ~Fails(s)
\* Mutant: no timeout is started for the first transmission.
AwaitsNever(s) == FALSE
Awaits(s) == next_retry[s] = "none" /\ AttemptTimeout

\* One pass of process_retries, called periodically by the network loop.  Frames are sent
\* again under the mutex; an entry is looked at only when a retry is due, or none was
\* scheduled and the policy has a per-attempt timeout.
ProcessRetries ==
    LET lapsed == {s \in tracked : Awaits(s) /\ s \in expired}
        failed == {s \in tracked : Fails(s)}
        again == {s \in tracked : Retries(s)}
        armed == {s \in tracked : Awaits(s)} \ lapsed
    IN
    /\ lapsed \cup failed \cup again \cup armed # {}
    /\ tracked' = tracked \ (lapsed \cup failed)
    /\ in_hand' = [s \in Sends |->
            IF s \in lapsed \cup failed
            THEN IF s \in expired THEN "Expired" ELSE "TransportError"
            ELSE in_hand[s]]
    /\ resent' = [s \in Sends |-> IF s \in again THEN resent[s] + 1 ELSE resent[s]]
    /\ next_retry' = [s \in Sends |->
            IF s \in again \cup armed THEN "later"
            ELSE IF s \in failed THEN "none" ELSE next_retry[s]]
    /\ Transmit(frames, {Frame("data", s) : s \in again})
    /\ sent' = [s \in Sends |-> IF s \in again THEN sent[s] + 1 ELSE sent[s]]
    /\ UNCHANGED <<next_id, frame_id, next_track, track_id, expired, result, received>>

\* The clock reaches a retry, or a deadline that process_retries may still look at.
RetryFallsDue(s) ==
    /\ s \in tracked /\ next_retry[s] = "later"
    /\ next_retry' = [next_retry EXCEPT ![s] = "due"]
    /\ UNCHANGED <<next_id, frame_id, next_track, track_id, tracked, resent, expired, in_hand,
                   result, frames, sent, received>>
DeadlinePasses(s) ==
    /\ s \in Deadlined \ expired /\ s \in tracked \cup Unfiled
    /\ expired' = expired \cup {s}
    /\ UNCHANGED <<next_id, frame_id, tracker, in_hand, result, frames, sent, received>>

\* cancel(msg_id) and cancel_endpoint(): the tracker's own cancellations.
CancelTracked ==
    /\ \E T \in {{s} : s \in tracked} \cup ({tracked} \ {{}}) : TakeOut(T, "Cancelled")
    /\ UNCHANGED <<next_id, frame_id, expired, result, frames, sent, received>>

\* SharedState::resolve and DeliveryReceipt::cancel: the first result stays; waiters are
\* woken and the callback is called with it.
SettleReceipt(s, r) ==
    IF result[s] # Pending THEN UNCHANGED result
    ELSE result' = [result EXCEPT ![s] = r]

ResolveReceipt(s) ==
    /\ in_hand[s] # Pending
    /\ in_hand' = [in_hand EXCEPT ![s] = Pending]
    /\ SettleReceipt(s, in_hand[s])
    /\ UNCHANGED <<next_id, frame_id, tracker, expired, frames, sent, received>>

\* The caller's receipt.cancel(): nothing tells the tracker.
CancelReceipt(s) ==
    /\ track_id[s] # Pending /\ result[s] = Pending
    /\ SettleReceipt(s, "Cancelled")
    /\ UNCHANGED <<next_id, frame_id, tracker, expired, in_hand, frames, sent, received>>

OutInit ==
    /\ next_id = 1 /\ next_track = 1
    /\ frame_id = [s \in Sends |-> Pending]
    /\ track_id = [s \in Sends |-> Pending]
    /\ tracked = {} /\ expired = {}
    /\ resent = [s \in Sends |-> 0]
    /\ next_retry = [s \in Sends |-> "none"]
    /\ in_hand = [s \in Sends |-> Pending]
    /\ result = [s \in Sends |-> Pending]
    /\ frames = {}
    /\ sent = [s \in Sends |-> 0]
    /\ received = {}

\* A thread inside a call, or the clock.
OutStep(s) == Track(s) \/ ResolveReceipt(s) \/ RetryFallsDue(s)

OutNext ==
    \/ ProcessRetries \/ CancelTracked
    \/ \E f \in frames : Route(f) \/ LoseFrame(f)
    \/ \E s \in Sends :
        \/ OutStep(s) \/ TrySend(s) \/ PeerAnswers(s) \/ Deliver(s, "data") \/ Deliver(s, "echo")
        \/ DeadlinePasses(s) \/ CancelReceipt(s)

OutSpec == OutInit /\ [][OutNext]_outVars

\* Threads inside a call go on, time passes, and the network loop keeps calling
\* process_retries; the network itself owes nothing.
OutFairness == WF_outVars(ProcessRetries) /\ \A s \in Sends : WF_outVars(OutStep(s))

(***************************************************************************)
(* Properties                                                              *)
(***************************************************************************)
\* Every variable holds a value the code can store in it.
OutTypeOK ==
    /\ next_id \in 1 .. Cardinality(Ids) + 1 /\ next_track \in 1 .. Cardinality(Sends) + 1
    /\ frame_id \in [Sends -> Ids \cup {Pending}]
    /\ track_id \in [Sends -> Ids \cup {Pending}]
    /\ tracked \subseteq Sends
    /\ next_retry \in [Sends -> {"none", "later", "due"}]
    /\ in_hand \in [Sends -> Results \cup {Pending}]
    /\ result \in [Sends -> Results \cup {Pending}]

\* A message is transmitted at most max_attempts times (RetryPolicy), the first
\* transmission and every path into process_retries included.
TransmissionsBounded == \A s \in Sends : sent[s] <= MaxAttempts

\* A tracked send is never forgotten: its entry is in the table, a thread is about to
\* resolve its receipt, or the receipt has its result; and only one of the first two.
ReceiptNotForgotten ==
    \A s \in Sends : track_id[s] # Pending =>
        /\ s \in tracked \/ in_hand[s] # Pending \/ result[s] # Pending
        /\ ~(s \in tracked /\ in_hand[s] # Pending)

\* The first result of a receipt is final, whatever answers, retries and cancellations
\* follow it.
ResultFinal == [][\A s \in Sends : result[s] # Pending => result'[s] = result[s]]_outVars

\* Every tracked send ends: its receipt gets a result, whatever the network does.
EveryReceiptResolved == []<>(\A s \in Sends : track_id[s] # Pending => result[s] # Pending)

\* The tracker's safety: bounded transmissions, and no receipt forgotten.
OutInv == OutTypeOK /\ TransmissionsBounded /\ ReceiptNotForgotten

\* Every tracked send's receipt gets a result, and keeps the first one it gets.
ReceiptResolvedOnce == ResultFinal /\ EveryReceiptResolved

\* "Cancel tracking. The runtime stops retrying." (delivery_receipt.hpp:124)
CancelStopsRetrying ==
    [][\A s \in Sends : result[s] = "Cancelled" => sent'[s] = sent[s]]_outVars

\* "Message was accepted for delivery." (delivery_result.hpp:63): an accepted result means
\* that the receiver's mailbox took this message.
AcceptedMeansReceived ==
    \A s \in Sends : result[s] \in {"Accepted", "AcceptedWithPressure"} => s \in received

\* An acknowledgement is not itself taken for a message and acknowledged:
\* "AckStatus::Accepted (0) = ACK." (reliable_ack_emission.hpp:33).
AcksAreNotMessages == \A s \in Sends : Frame("echo", s) \notin frames
=============================================================================
