---------------------------- MODULE StreamSession ----------------------------
(***************************************************************************)
(* One streaming session: the user's StreamHandle, the StreamSenderActor   *)
(* behind it, the StreamRuntime of the receiving node, its                 *)
(* StreamReceiverActor and the target actor.                               *)
(*                                                                         *)
(* A mailbox is its system lane and its user lane, the system lane first.  *)
(* A stream to a target on the same node (`is_local') sends its frames to  *)
(* the target's own mailbox.  The other kind crosses a connection that     *)
(* keeps order, may refuse a frame (the result of try_send is discarded)   *)
(* and may be replaced: the receiving node knows the peer, and with it the *)
(* session, by the connection.                                             *)
(***************************************************************************)
EXTENDS Integers, Sequences, FiniteSets, FiniteSetsExt, SequencesExt

CONSTANTS
    MaxChunks,        \* bound on the writes
    SizeOf,           \* bytes of each chunk
    InitialWindow,    \* StreamConfig::initial_window_bytes
    SendBuffer,       \* StreamConfig::send_buffer_bytes
    TargetCapacity,   \* user lane of the target's mailbox
    MaxFaults         \* bound on refused frames and lost connections

ASSUME StreamAssumption ==
    /\ {MaxChunks, InitialWindow, SendBuffer, MaxFaults} \subseteq Nat
    /\ TargetCapacity \in Nat \ {0} /\ SizeOf \in [1..MaxChunks -> Nat]

VARIABLES
    is_local,
    written, closed_,          \* StreamHandle: number of writes, "open"/"close"/"error"
    control_lane, chunks,           \* the sender's mailbox: system lane, user lane
    state_, send_buffer_,      \* StreamSenderActor ("none" before open_stream)
    inflight, window,          \* StreamSenderState
    last_acked_,
    idle_timer,                \* whether the idle timer is armed
    there, back,               \* the connection's two directions
    link, faults,              \* connections and refusals so far
    session,                   \* connection of the receiving node's session; 0: none
    peer_,                     \* the receiver actor's: the connection it answers to
    receiver,                  \* the receiver actor's mailbox (it has system messages only)
    last_delivered_seq_, acking,   \* acking: handle_stream_data is about to call send_ack
    notices, inbox,            \* the target's mailbox: system lane, user lane
    handled,                   \* history: what of the stream the target handled
    sent_chunks, emitted,             \* history: chunks sent, in order; kinds of frames emitted
    forwarded                  \* history: chunks the receiver passed on

handleVars == <<written, closed_>>
senderVars == <<state_, send_buffer_, inflight, window, last_acked_, sent_chunks, emitted>>
linkVars == <<there, back, link, faults>>
remote == <<session, peer_, receiver, last_delivered_seq_, acking, forwarded>>
target == <<notices, inbox, handled>>
streamVars == <<is_local, handleVars, control_lane, chunks, senderVars, idle_timer, linkVars, remote, target>>

Frame(kind) == [kind |-> kind, seq |-> 0, chunk |-> 0]
DataFrame(n, c) == [kind |-> "data", seq |-> n, chunk |-> c]
Ack(n, w) == [kind |-> "ack", seq |-> n, window |-> w]
Command(kind) == [kind |-> kind]

\* The payload of a sequence of chunks.
Bytes(cs) == FoldLeft(LAMBDA sum, c : sum + SizeOf[c], 0, cs)

Live == {"Opening", "Streaming"}
-----------------------------------------------------------------------------
StreamInit ==
    /\ is_local \in BOOLEAN
    /\ written = 0 /\ closed_ = "open"
    /\ control_lane = <<>> /\ chunks = <<>>
    /\ state_ = "none" /\ send_buffer_ = <<>>
    /\ inflight = 0 /\ window = 0 /\ last_acked_ = 0
    /\ idle_timer = FALSE
    /\ there = <<>> /\ back = <<>> /\ link = 1 /\ faults = 0
    /\ session = 0 /\ peer_ = 0 /\ receiver = <<>> /\ last_delivered_seq_ = 0
    /\ acking = FALSE
    /\ notices = <<>> /\ inbox = <<>> /\ handled = <<>>
    /\ sent_chunks = <<>> /\ emitted = <<>> /\ forwarded = <<>>

\* What the sender emits reaches the target's mailbox, or the connection unless refused.
Emit(frames) ==
    /\ emitted' = emitted \o [i \in DOMAIN frames |-> frames[i].kind]
    /\ IF is_local
       THEN /\ notices' = notices \o frames
            /\ UNCHANGED <<there, faults>>
       ELSE /\ UNCHANGED notices
            /\ \E refused \in SUBSET Range(frames) :
                  /\ faults' = faults + Cardinality(refused)
                  /\ faults' <= MaxFaults
                  /\ there' = there \o SelectSeq(frames, LAMBDA f : f \notin refused)

EmitNothing == UNCHANGED <<emitted, there, faults, notices>>

\* open_stream_impl: the sender actor, whose behaviour arms the idle timer, and its handle;
\* a local target is told here, a remote one by the open frame.
OpenStream ==
    /\ state_ = "none"
    /\ state_' = "Opening" /\ idle_timer' = TRUE
    /\ IF is_local
       THEN notices' = Append(notices, Frame("opened")) /\ UNCHANGED <<there, faults>>
       ELSE /\ UNCHANGED notices
            /\ \/ there' = Append(there, Frame("open")) /\ UNCHANGED faults
               \/ faults < MaxFaults /\ faults' = faults + 1 /\ UNCHANGED there
    /\ UNCHANGED <<is_local, handleVars, control_lane, chunks, send_buffer_, inflight, window,
                   last_acked_, sent_chunks, emitted, back, link, remote, inbox, handled>>
-----------------------------------------------------------------------------
(* The handle. *)

Write ==
    /\ state_ # "none" /\ closed_ = "open" /\ written < MaxChunks
    /\ written' = written + 1
    /\ chunks' = Append(chunks, written')
    /\ UNCHANGED <<is_local, closed_, control_lane, senderVars, idle_timer, linkVars, remote, target>>

\* StreamHandle::close and StreamHandle::error: a command, on the system lane.
CloseHandle(how) ==
    /\ state_ # "none" /\ closed_ = "open"
    /\ closed_' = how
    /\ control_lane' = Append(control_lane, Command(how))
    /\ UNCHANGED <<is_local, written, chunks, senderVars, idle_timer, linkVars, remote, target>>

\* The scheduled InternalTimeout message. Cancelling comes too late from here on.
IdleTimerFires ==
    /\ idle_timer
    /\ idle_timer' = FALSE
    /\ control_lane' = Append(control_lane, Command("timeout"))
    /\ UNCHANGED <<is_local, handleVars, chunks, senderVars, linkVars, remote, target>>
-----------------------------------------------------------------------------
(* StreamSenderActor. *)

\* The credit check, before a chunk whose size it does not look at: with w bytes of window,
\* one may start while fewer are in flight; without a window, while none are.
MayStart(in, w) == IF w > 0 THEN in < w ELSE in = 0

\* send_pending_chunks in state s with buffer b, the window being w: chunks go out while
\* there is credit, and a deferred close goes out behind the last of them.
SendPendingChunks(s, b, w) ==
    LET n == Max({k \in 0..Len(b) : \A i \in 1..k :
                     MayStart(inflight + Bytes(SubSeq(b, 1, i - 1)), w)})
        data == [i \in 1..n |-> DataFrame(Len(sent_chunks) + i, b[i])]
        done == n > 0 /\ n = Len(b) /\ s = "Closing"
    IN  /\ send_buffer_' = SubSeq(b, n + 1, Len(b))
        /\ inflight' = inflight + Bytes(SubSeq(b, 1, n))
        /\ sent_chunks' = sent_chunks \o SubSeq(b, 1, n)
        /\ state_' = IF done THEN "Closed" ELSE s
        /\ Emit(IF done THEN Append(data, Frame("close")) ELSE data)

\* A chunk is dropped when the stream has ended or the buffer is full.
EnqueueChunk(c) ==
    IF state_ \in Live \cup {"Closing"} /\ Bytes(Append(send_buffer_, c)) <= SendBuffer
    THEN /\ idle_timer' = TRUE
         /\ SendPendingChunks(state_, Append(send_buffer_, c), window)
         /\ UNCHANGED <<window, last_acked_>>
    ELSE UNCHANGED <<senderVars, idle_timer, there, faults, notices>>

\* A mutant: the timer is cancelled and not armed again.
HandleStreamAckDisarms(a) ==
    LET s == IF state_ = "Opening" THEN "Streaming" ELSE state_
    IN  /\ last_acked_' = Max({last_acked_, a.seq})
        /\ window' = a.window
        /\ idle_timer' = FALSE
        /\ IF s \in {"Streaming", "Closing"}
           THEN SendPendingChunks(s, send_buffer_, a.window)
           ELSE EmitNothing /\ UNCHANGED <<state_, send_buffer_, inflight, sent_chunks>>

HandleStreamAck(a) ==
    LET s == IF state_ = "Opening" THEN "Streaming" ELSE state_
    IN  /\ last_acked_' = Max({last_acked_, a.seq})
        /\ window' = a.window
        /\ idle_timer' = TRUE
        /\ IF s \in {"Streaming", "Closing"}
           THEN SendPendingChunks(s, send_buffer_, a.window)
           ELSE EmitNothing /\ UNCHANGED <<state_, send_buffer_, inflight, sent_chunks>>

\* With something in flight, or still in the buffer, the close is deferred.
HandleInternalClose ==
    /\ UNCHANGED <<window, last_acked_, idle_timer>>
    /\ \/ /\ state_ \in Live
          /\ IF send_buffer_ = <<>> /\ inflight = 0
             THEN /\ Emit(<<Frame("close")>>)
                  /\ state_' = "Closed"
                  /\ UNCHANGED <<send_buffer_, inflight, sent_chunks>>
             ELSE SendPendingChunks("Closing", send_buffer_, window)
       \/ /\ state_ \notin Live
          /\ EmitNothing /\ UNCHANGED <<state_, send_buffer_, inflight, sent_chunks>>

\* handle_internal_error and handle_internal_timeout, which act in different states.
Abort(states) ==
    /\ UNCHANGED <<send_buffer_, inflight, window, last_acked_, sent_chunks, idle_timer>>
    /\ IF state_ \in states
       THEN Emit(<<Frame("error")>>) /\ state_' = "Error"
       ELSE EmitNothing /\ UNCHANGED state_

HandleControl(m) ==
    CASE m.kind = "ack" -> HandleStreamAck(m)
      [] m.kind = "close" -> HandleInternalClose
      [] m.kind = "error" -> Abort(Live \cup {"Closing"})
      [] m.kind = "timeout" -> Abort(Live)

\* The sender actor's behaviour on its next message: the system lane goes first.
SenderStep ==
    /\ \/ /\ control_lane # <<>>
          /\ control_lane' = Tail(control_lane) /\ UNCHANGED chunks
          /\ HandleControl(Head(control_lane))
       \/ /\ control_lane = <<>> /\ chunks # <<>>
          /\ chunks' = Tail(chunks) /\ UNCHANGED control_lane
          /\ EnqueueChunk(Head(chunks))
    /\ UNCHANGED <<is_local, handleVars, back, link, remote, inbox, handled>>
-----------------------------------------------------------------------------
(* The connection and the receiving node's StreamRuntime. *)

\* The connection is lost with what it carries; the next one has another source port.
Reconnect ==
    /\ state_ # "none" /\ ~is_local /\ faults < MaxFaults
    /\ faults' = faults + 1 /\ link' = link + 1
    /\ there' = <<>> /\ back' = <<>>
    /\ UNCHANGED <<is_local, handleVars, control_lane, chunks, senderVars, idle_timer, remote, target>>

\* on_open. One I/O thread handles a connection's frames, and the key has the connection,
\* so the reservation is committed (or rolled back) before another frame finds it. The
\* table may be full, or the receiver actor fail to spawn.
OnOpen ==
    /\ UNCHANGED receiver
    /\ \/ /\ session' = link /\ peer_' = link
          /\ notices' = Append(notices, Frame("opened"))
          /\ UNCHANGED faults
       \/ /\ faults < MaxFaults /\ faults' = faults + 1
          /\ UNCHANGED <<session, peer_, notices>>

\* on_data, on_close and on_error find the session by the connection; the last two erase it.
OnFrame(f) ==
    /\ UNCHANGED <<peer_, notices, faults>>
    /\ IF session = link
       THEN /\ receiver' = Append(receiver, f)
            /\ session' = IF f.kind = "data" THEN session ELSE 0
       ELSE UNCHANGED <<receiver, session>>

FrameArrives ==
    /\ there # <<>>
    /\ there' = Tail(there)
    /\ IF Head(there).kind = "open" THEN OnOpen ELSE OnFrame(Head(there))
    /\ UNCHANGED <<is_local, handleVars, control_lane, chunks, senderVars, idle_timer, back, link,
                   last_delivered_seq_, acking, forwarded, inbox, handled>>

\* on_ack at the sending node, where the session is registered under the target's endpoint.
AckArrives ==
    /\ back # <<>>
    /\ back' = Tail(back)
    /\ control_lane' = Append(control_lane, Head(back))
    /\ UNCHANGED <<is_local, handleVars, chunks, senderVars, idle_timer, there, link, faults, remote,
                   target>>
-----------------------------------------------------------------------------
(* StreamReceiverActor and the target actor. *)

\* compute_window_bytes: all of it up to 20% of the target's capacity, none from 80% on.
ComputeWindow(depth) ==
    IF 5 * depth <= TargetCapacity THEN InitialWindow
    ELSE IF 5 * depth >= 4 * TargetCapacity THEN 0
    ELSE (InitialWindow * (8 * TargetCapacity - 10 * depth)) \div (6 * TargetCapacity)

\* send_ack goes to the peer the session was opened from, with the window for the pressure
\* at that moment: the target may have handled the chunk by then.
SendAck ==
    /\ acking /\ acking' = FALSE
    /\ IF peer_ = link
       THEN \/ back' = Append(back, Ack(last_delivered_seq_, ComputeWindow(Len(inbox))))
               /\ UNCHANGED faults
            \/ faults < MaxFaults /\ faults' = faults + 1 /\ UNCHANGED back
       ELSE UNCHANGED <<back, faults>>
    /\ UNCHANGED <<is_local, handleVars, control_lane, chunks, senderVars, idle_timer, there, link, session,
                   peer_, receiver, last_delivered_seq_, forwarded, target>>

\* A mutant: any chunk ahead of the last one is taken.
HandleStreamDataAhead(f) ==
    IF f.seq > last_delivered_seq_
    THEN /\ last_delivered_seq_' = f.seq
         /\ forwarded' = Append(forwarded, f.chunk)
         /\ inbox' = IF Len(inbox) < TargetCapacity THEN Append(inbox, f.chunk) ELSE inbox
         /\ acking' = TRUE
    ELSE UNCHANGED <<last_delivered_seq_, forwarded, inbox, acking>>

\* A chunk out of sequence is answered with an error to the sender's actor id on this
\* node, which is nobody's. A full target refuses the chunk; it is acknowledged all the same.
HandleStreamData(f) ==
    IF f.seq = last_delivered_seq_ + 1
    THEN /\ last_delivered_seq_' = f.seq
         /\ forwarded' = Append(forwarded, f.chunk)
         /\ inbox' = IF Len(inbox) < TargetCapacity THEN Append(inbox, f.chunk) ELSE inbox
         /\ acking' = TRUE
    ELSE UNCHANGED <<last_delivered_seq_, forwarded, inbox, acking>>

ReceiverStep ==
    /\ ~acking /\ receiver # <<>>
    /\ receiver' = Tail(receiver)
    /\ LET f == Head(receiver)
       IN  IF f.kind = "data"
           THEN HandleStreamData(f) /\ UNCHANGED notices
           ELSE /\ notices' = Append(notices, f)
                /\ UNCHANGED <<last_delivered_seq_, forwarded, inbox, acking>>
    /\ UNCHANGED <<is_local, handleVars, control_lane, chunks, senderVars, idle_timer, linkVars, session,
                   peer_, handled>>

\* The target handles a message, those of the system lane first.
TargetStep ==
    /\ \/ /\ notices # <<>>
          /\ handled' = Append(handled, Head(notices))
          /\ notices' = Tail(notices) /\ UNCHANGED inbox
       \/ /\ notices = <<>> /\ inbox # <<>>
          /\ handled' = Append(handled, DataFrame(0, Head(inbox)))
          /\ inbox' = Tail(inbox) /\ UNCHANGED notices
    /\ UNCHANGED <<is_local, handleVars, control_lane, chunks, senderVars, idle_timer, linkVars, remote>>
-----------------------------------------------------------------------------
StreamNext ==
    \/ OpenStream
    \/ Write
    \/ \E how \in {"close", "error"} : CloseHandle(how)
    \/ IdleTimerFires
    \/ SenderStep
    \/ Reconnect
    \/ FrameArrives
    \/ AckArrives
    \/ ReceiverStep \/ SendAck
    \/ TargetStep

\* Actors are scheduled, the I/O threads poll, and the timer thread runs. The user need not
\* write or close, and no fault need happen.
StreamFairness ==
    /\ WF_streamVars(SenderStep) /\ WF_streamVars(ReceiverStep \/ SendAck) /\ WF_streamVars(TargetStep)
    /\ WF_streamVars(FrameArrives) /\ WF_streamVars(AckArrives)
    /\ WF_streamVars(IdleTimerFires)

StreamSpec == StreamInit /\ [][StreamNext]_streamVars /\ StreamFairness
-----------------------------------------------------------------------------
(* Properties. *)

Kinds(frames) == [i \in DOMAIN frames |-> frames[i].kind]
Received ==
    LET data == SelectSeq(handled \o notices, LAMBDA f : f.kind = "data")
    IN  [i \in DOMAIN data |-> data[i].chunk] \o inbox

StreamTypeOK ==
    /\ written \in 0..MaxChunks /\ closed_ \in {"open", "close", "error"}
    /\ state_ \in Live \cup {"none", "Closing", "Closed", "Error"}
    /\ Bytes(send_buffer_) <= SendBuffer /\ Len(inbox) <= TargetCapacity
    /\ session \in 0..link /\ peer_ \in 0..link /\ faults \in 0..MaxFaults

\* The target sees chunks in the order they were written, none of them twice, whatever was
\* dropped, refused or lost on the way (send_pending_chunks, handle_stream_data).
ReceivedInOrder ==
    \A i, j \in DOMAIN Received : i < j => Received[i] < Received[j]

\* After a lost frame the receiver passes nothing on: what it passed on is a prefix of what
\* was sent, and only that is acknowledged (handle_stream_data's sequence check).
ForwardedIsPrefix == IsPrefix(forwarded, sent_chunks) /\ last_acked_ <= Len(forwarded)

\* Each chunk the sender sent was started within the largest window ever advertised, or as
\* the one that opens the stream: only the last one may reach beyond it (the credit check
\* of send_pending_chunks).
WithinWindow ==
    sent_chunks # <<>> => inflight - SizeOf[Last(sent_chunks)] < Max({InitialWindow, 1})

\* Nothing is emitted behind a close or an error, although the close may overtake chunks on
\* the sender's system lane, and a timeout or an error may follow it.
SilentAfterEnd ==
    \A i \in DOMAIN emitted : emitted[i] # "data" => i = Len(emitted)

\* The target is told of the stream before anything else and of its end once
\* (stream_types.hpp: StreamOpenedTag is "delivered before the first chunk").
ToldInOrder ==
    LET told == Kinds(handled \o notices)
    IN  /\ told # <<>> => told[1] = "opened"
        /\ Cardinality({i \in DOMAIN told : told[i] \in {"close", "error"}}) <= 1

\* A stream that nobody closes does not stay open for ever: until it is over the idle timer
\* is armed, or its message is on the way (start_idle_timer, reset_idle_timer).
IdleTimerGuards ==
    state_ \in Live => idle_timer \/ Command("timeout") \in Range(control_lane)

\* The session's safety, for any order of chunks, commands, timeouts, acknowledgements,
\* refused frames and lost connections.
StreamInv ==
    /\ StreamTypeOK
    /\ ReceivedInOrder /\ ForwardedIsPrefix /\ WithinWindow /\ SilentAfterEnd /\ ToldInOrder
    /\ IdleTimerGuards

\* A stream that nobody closes ends all the same: chunks and acknowledgements arm the idle
\* timer again, and it ends the stream when they stop (reset_idle_timer).
StreamEnds == state_ \in Live ~> state_ \notin Live

\* stream_handle.hpp says of close(): "Gracefully close the stream. Sends
\* StreamCloseFrame(COMPLETE)." So a stream that is closed gets to Closed (or fails). It
\* does not when everything written was sent before: handle_internal_close defers the close
\* because something is in flight, and nothing is left whose sending would complete it.
CloseCompletes == closed_ = "close" ~> state_ \in {"Closed", "Error"}

\* stream_handle.hpp says that bytes_in_flight() is what is "not yet acknowledged by the
\* receiver". No acknowledgement reduces it.
InFlightIsUnacknowledged ==
    inflight <= Bytes(SubSeq(sent_chunks, last_acked_ + 1, Len(sent_chunks)))

\* send_pending_chunks says "Credit window check: pause if in-flight exceeds advertised
\* window". The check comes before the size of the chunk is known, so that the last chunk
\* exceeds it, also one that is not the first.
InFlightWithinWindow == Len(sent_chunks) > 1 => inflight <= InitialWindow

\* handle_internal_close says "No data ever sent - safe to close immediately". Chunks that
\* write() accepted may still be on the user lane, and are dropped.
CloseFollowsChunks == Last(<<"data">> \o emitted) = "close" => chunks = <<>>

\* A chunk that was acknowledged is in the target's mailbox or handled. A full mailbox
\* refuses it, and send_ack is called all the same.
AcknowledgedWasDelivered == last_acked_ <= Len(Received)
=============================================================================
