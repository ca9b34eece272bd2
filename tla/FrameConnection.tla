-------------------------- MODULE FrameConnection --------------------------
(***************************************************************************)
(* One established plain connection: WireFrameConnection's write buffer    *)
(* and frame reader over EpollBackend's sends, completions and             *)
(* edge-triggered read events.                                             *)
(*                                                                         *)
(* A frame is two bytes on the wire, its header and its payload.  The      *)
(* socket is registered for read events only, so a send that would block   *)
(* waits for a write event that cannot come, and while it waits the        *)
(* backend gives it every event of the socket.                             *)
(***************************************************************************)
EXTENDS Integers, Sequences, FiniteSets, SequencesExt

CONSTANTS
    Outgoing,         \* frames this side sends
    Incoming,         \* frames the peer sends, a sequence
    Oversized,        \* incoming frames above max_inbound_frame_bytes
    SocketRoom,       \* bytes the kernel takes before a send would block
    Callers           \* who may call send(): "loop", "worker"

ASSUME ConnAssumption ==
    /\ IsFiniteSet(Outgoing) /\ Oversized \subseteq Range(Incoming)
    /\ SocketRoom \in Nat \ {0} /\ Callers \subseteq {"loop", "worker"}

VARIABLES
    caller,         \* the thread all sends of this behaviour come from
    to_send,        \* frames not yet passed to send()
    appended,       \* a worker between send_raw's append and its flush
    write_buffer,
    is_sending,
    blocked,        \* an entry of pending_ops_ for this socket
    completions,    \* pending_completions_: bytes taken, or an error number
    finishing,      \* the result handle_send_completion has still to apply
    accepted,       \* history: every byte send() accepted
    sock_out,       \* kernel send buffer
    peer_got,       \* bytes the peer has read
    peer_gone,      \* the peer has closed
    conn_state,
    to_come,        \* bytes the peer has still to write
    sock_in,        \* kernel receive buffer
    edge,           \* a read event epoll_wait has not returned yet
    read_buffer,
    delivered       \* frames given to frame_handler_

writer == <<to_send, appended, write_buffer, is_sending, blocked, completions,
            finishing, accepted, sock_out>>
reader == <<sock_in, edge, read_buffer, delivered>>
connVars == <<caller, writer, peer_got, peer_gone, conn_state, to_come, reader>>

Bytes(f) == <<<<f, "header">>, <<f, "payload">>>>
Stream(fs) == FlattenSeq([i \in DOMAIN fs |-> Bytes(fs[i])])

ConnInit ==
    /\ caller \in Callers
    /\ to_send = Outgoing
    /\ appended = FALSE /\ is_sending = FALSE /\ blocked = FALSE
    /\ write_buffer = <<>> /\ accepted = <<>> /\ sock_out = <<>> /\ peer_got = <<>>
    /\ completions = <<>> /\ finishing = <<>>
    /\ peer_gone = FALSE
    /\ conn_state = "Connected"
    /\ to_come = Stream(Incoming)
    /\ sock_in = <<>> /\ edge = FALSE /\ read_buffer = <<>> /\ delivered = <<>>

Lesser(m, n) == IF m < n THEN m ELSE n

-----------------------------------------------------------------------------
(* Sending.                                                                *)

\* A send error reaches handle_send_completion as a positive errno, which is
\* taken for a number of bytes, and no frame here is as long as that.
Errno == 2 * Cardinality(Outgoing) + 1

\* flush_write_buffer and EpollBackend::async_send over the buffer b: the
\* kernel takes what fits; nothing at all makes a pending operation.
Flush(b) ==
    LET n == Lesser(Len(b), SocketRoom - Len(sock_out)) IN
    /\ is_sending' = TRUE
    /\ IF peer_gone
       THEN completions' = Append(completions, Errno) /\ UNCHANGED <<sock_out, blocked>>
       ELSE /\ sock_out' = sock_out \o SubSeq(b, 1, n)
            /\ blocked' = (n = 0)
            /\ completions' = IF n = 0 THEN completions ELSE Append(completions, n)

FlushUnlessSending(b) ==
    IF is_sending \/ b = <<>>
    THEN UNCHANGED <<is_sending, completions, sock_out, blocked>>
    ELSE Flush(b)

\* send() on the loop thread: an acknowledgement or a reply written from a
\* frame handler, or a flush of the pool's queue.
LoopSend(f) ==
    /\ caller = "loop" /\ f \in to_send /\ finishing = <<>>
    /\ to_send' = to_send \ {f}
    /\ IF conn_state = "Connected"
       THEN /\ write_buffer' = write_buffer \o Bytes(f)
            /\ accepted' = accepted \o Bytes(f)
            /\ FlushUnlessSending(write_buffer')
       ELSE UNCHANGED <<write_buffer, accepted, is_sending, completions, sock_out, blocked>>
    /\ UNCHANGED <<caller, appended, finishing, peer_got, peer_gone, conn_state, to_come, reader>>

\* send() on a worker thread, by way of ConnectionPool::try_send: no lock is
\* taken, so the loop thread can run between the append and the flush.
WorkerAppend(f) ==
    /\ caller = "worker" /\ f \in to_send /\ ~appended
    /\ to_send' = to_send \ {f}
    /\ IF conn_state = "Connected"
       THEN /\ write_buffer' = write_buffer \o Bytes(f)
            /\ accepted' = accepted \o Bytes(f)
            /\ appended' = TRUE
       ELSE UNCHANGED <<write_buffer, accepted, appended>>
    /\ UNCHANGED <<caller, is_sending, completions, sock_out, blocked, finishing,
                   peer_got, peer_gone, conn_state, to_come, reader>>

WorkerFlush ==
    /\ appended
    /\ appended' = FALSE
    /\ FlushUnlessSending(write_buffer)
    /\ UNCHANGED <<caller, to_send, write_buffer, finishing, accepted, peer_got,
                   peer_gone, conn_state, to_come, reader>>

\* process_events and handle_send_completion, up to is_sending_ = false.
SendCompletion ==
    /\ completions # <<>> /\ finishing = <<>>
    /\ completions' = Tail(completions)
    /\ IF conn_state = "Closed"
       THEN UNCHANGED <<finishing, is_sending>>      \* fd_ is -1: not found
       ELSE finishing' = <<Head(completions)>> /\ is_sending' = FALSE
    /\ UNCHANGED <<caller, to_send, appended, write_buffer, blocked, accepted, sock_out,
                   peer_got, peer_gone, conn_state, to_come, reader>>

\* Mutant: a partial write is taken for a complete one.
ConsumedAll(n) == <<>>

\* The buffer after n bytes of it were sent.
Consumed(n) == IF n >= Len(write_buffer) THEN <<>>
               ELSE SubSeq(write_buffer, n + 1, Len(write_buffer))

\* Mutant: what is left after a partial write waits for the next send().
FinishSendOnce ==
    /\ finishing # <<>>
    /\ finishing' = <<>>
    /\ write_buffer' = Consumed(finishing[1])
    /\ UNCHANGED <<caller, to_send, appended, is_sending, blocked, completions, accepted,
                   sock_out, peer_got, peer_gone, conn_state, to_come, reader>>

\* The rest of handle_send_completion: consume, and flush what is left.
FinishSend ==
    /\ finishing # <<>>
    /\ finishing' = <<>>
    /\ write_buffer' = Consumed(finishing[1])
    /\ IF write_buffer' = <<>> \/ conn_state = "Closed"
       THEN UNCHANGED <<is_sending, completions, sock_out, blocked>>
       ELSE Flush(write_buffer')
    /\ UNCHANGED <<caller, to_send, appended, accepted, peer_got, peer_gone, conn_state,
                   to_come, reader>>

-----------------------------------------------------------------------------
(* Receiving.                                                              *)

\* The read buffer holds a complete frame.
Whole(b) == Len(b) >= 2

\* handle_read, from a read event to its return.  It reads the bytes the
\* frame at hand still lacks, delivers it and returns, since the buffer is
\* then shorter than a header; what is left in the socket raises no event.
\* The end of the stream is only met when bytes are lacking.
HandleRead ==
    LET wanted == 2 - Len(read_buffer)
        n == Lesser(wanted, Len(sock_in))
        buffer == read_buffer \o SubSeq(sock_in, 1, n)
    IN
    /\ edge /\ ~blocked /\ conn_state = "Connected" /\ finishing = <<>>
    /\ edge' = FALSE
    /\ IF buffer # <<>> /\ buffer[1][1] \in Oversized
       THEN /\ conn_state' = "Closed"
            /\ read_buffer' = <<>> /\ sock_in' = <<>>
            /\ UNCHANGED delivered
       ELSE /\ sock_in' = SubSeq(sock_in, n + 1, Len(sock_in))
            /\ IF Whole(buffer)
               THEN /\ delivered' = Append(delivered, buffer[1][1])
                    /\ read_buffer' = <<>>
                    /\ UNCHANGED conn_state
               ELSE /\ UNCHANGED delivered
                    /\ read_buffer' = IF peer_gone THEN <<>> ELSE buffer
                    /\ conn_state' = IF peer_gone THEN "Disconnected" ELSE conn_state
    /\ UNCHANGED <<caller, writer, peer_got, peer_gone, to_come>>

\* dispatch_event while a send is pending: the event goes to the pending
\* operation, which wants a write event and ignores it.
EventSwallowed ==
    /\ edge /\ blocked /\ finishing = <<>>
    /\ edge' = FALSE
    /\ UNCHANGED <<caller, writer, peer_got, peer_gone, conn_state, to_come, sock_in,
                   read_buffer, delivered>>

-----------------------------------------------------------------------------
(* The peer and the network between the two kernels.                       *)

Arrive ==
    /\ to_come # <<>> /\ ~peer_gone /\ conn_state = "Connected"
    /\ \E n \in 1 .. Len(to_come) :
          /\ sock_in' = sock_in \o SubSeq(to_come, 1, n)
          /\ to_come' = SubSeq(to_come, n + 1, Len(to_come))
    /\ edge' = TRUE
    /\ UNCHANGED <<caller, writer, peer_got, peer_gone, conn_state, read_buffer, delivered>>

PeerReads ==
    /\ sock_out # <<>> /\ ~peer_gone
    /\ peer_got' = peer_got \o sock_out
    /\ sock_out' = <<>>
    /\ UNCHANGED <<caller, to_send, appended, write_buffer, is_sending, blocked, completions,
                   finishing, accepted, peer_gone, conn_state, to_come, reader>>

PeerCloses ==
    /\ ~peer_gone
    /\ peer_gone' = TRUE
    /\ edge' = TRUE
    /\ UNCHANGED <<caller, writer, peer_got, conn_state, to_come, sock_in, read_buffer, delivered>>

ConnNext ==
    \/ \E f \in Outgoing : LoopSend(f) \/ WorkerAppend(f)
    \/ WorkerFlush \/ SendCompletion \/ FinishSend
    \/ HandleRead \/ EventSwallowed
    \/ Arrive \/ PeerReads \/ PeerCloses

\* The loop thread keeps turning, a worker inside send() goes on, and the
\* peer reads what it is sent.
ConnFairness ==
    /\ WF_connVars(SendCompletion \/ FinishSend)
    /\ WF_connVars(HandleRead \/ EventSwallowed)
    /\ WF_connVars(WorkerFlush) /\ WF_connVars(PeerReads)

-----------------------------------------------------------------------------
\* The connection's fields have their types; the kernel buffer is bounded,
\* and a completion is outstanding or blocked only while is_sending_ says so
\* (for sends on the loop thread).
ConnTypeOK ==
    /\ conn_state \in {"Connected", "Disconnected", "Closed"}
    /\ Len(sock_out) <= SocketRoom
    /\ Len(read_buffer) < 2
    /\ Len(finishing) <= 1
    /\ caller = "loop" /\ conn_state # "Closed" =>
          (is_sending <=> blocked \/ completions # <<>>)

OnTheWire == peer_got \o sock_out

\* With all sends on the loop thread, what the peer reads is a prefix of what
\* send() accepted, and until a send fails nothing is missing: the bytes on
\* the wire that no completion has reported yet are at the head of the buffer.
\* Partial writes neither lose, repeat nor reorder a byte.
StreamIntact ==
    caller = "loop" =>
        /\ IsPrefix(OnTheWire, accepted)
        /\ ~peer_gone => IsSuffix(write_buffer, accepted)
        /\ ~peer_gone => Len(OnTheWire) + Len(write_buffer) >= Len(accepted)

\* Frames reach the handler whole, in the order the peer wrote them and once
\* each, however the stream is cut into reads.
FramesInOrder ==
    /\ IsPrefix(delivered, Incoming)
    /\ conn_state = "Connected" =>
          Stream(delivered) \o read_buffer \o sock_in \o to_come = Stream(Incoming)

\* The connection's safety: partial writes and partial reads keep both byte streams.
ConnInv == ConnTypeOK /\ StreamIntact /\ FramesInOrder

\* Bytes do not stay in the write buffer while the socket would take them:
\* handle_send_completion flushes what a partial write left behind.
WritesProgress ==
    []<>(write_buffer = <<>> \/ blocked \/ conn_state = "Closed" \/ caller = "worker")

-----------------------------------------------------------------------------
(* What the headers promise and the code does not keep.                    *)

\* The stream is intact whichever thread sends.
StreamIntactAnyThread == IsPrefix(OnTheWire, accepted)

\* A complete frame does not stay in the socket.
FramesAllRead ==
    []<>(conn_state # "Connected" \/ Len(read_buffer) + Len(sock_in) < 2)

\* A send that would block goes on when the peer has read.
BlockedSendResumes == []<>(~blocked \/ conn_state # "Connected" \/ peer_gone)

\* A failed send is noticed.
SendErrorNoticed == []<>(conn_state # "Connected" \/ ~peer_gone \/ accepted = OnTheWire)
=============================================================================
