--------------------------- MODULE ConnectionPool ---------------------------
(***************************************************************************)
(* The connections to one remote endpoint: ConnectionPool, its             *)
(* EndpointOutboundQueue and its EndpointCircuitBreaker, and what          *)
(* TcpTransport and the two kinds of connection tell them.                 *)
(*                                                                         *)
(* try_send, drain and abort run on any thread; every other method runs on *)
(* the event loop thread, one handler at a time.  A pool is plain or TLS   *)
(* as a whole.                                                             *)
(* WireFrameConnection never calls its ready handler and reports a broken  *)
(* socket with a null connection; TlsConnection calls its ready handler    *)
(* when the handshake ends and never calls its error handler.              *)
(***************************************************************************)
EXTENDS Integers, Sequences, FiniteSets, SequencesExt

CONSTANTS
    Frames,             \* frames handed to try_send, each by a thread of its own
    Conns,              \* connections TcpTransport::connect makes
    DataLimit,          \* messages the data lane admits in BestEffort mode
    FailureThreshold,   \* EndpointCircuitBreakerConfig::failure_threshold
    Cooldown,           \* ... ::cooldown, in ticks
    ProbeLimit,         \* ... ::half_open_probe_limit
    MaxAttempts         \* PoolConfig::max_attempts

ASSUME PoolAssumption ==
    /\ IsFiniteSet(Frames) /\ IsFiniteSet(Conns)
    /\ {DataLimit, FailureThreshold, Cooldown, ProbeLimit, MaxAttempts} \subseteq Nat \ {0}

VARIABLES
    use_tls,        \* PoolConfig::use_tls
    sender,         \* stage of each frame's try_send, or its result
    chosen,         \* the connection get_connection gave each sender
    conn,           \* Connection::state of each connection
    active,         \* active_connections_, without order and multiplicity
    wire,           \* how often a connection accepted each frame
    pending,        \* data_lane_ of the outbound queue
    data_messages,  \* data_messages_; below zero it is a huge unsigned number
    spin,           \* the frame whose try_enqueue holds spinlock_
    carried,        \* the frame flush_pending has taken out
    raced,          \* history: push_back and pop_front of data_lane_ overlapped
    lost,           \* frames reported Sent that no queue or connection holds
    breaker,        \* circuit breaker: state, failures, probes
    held,           \* holder of the breaker's mutex: a frame's sender or the loop
    opened_for,     \* ticks since opened_at_
    granted,        \* history: frames granted as probes since the breaker left Open
    reconnects,     \* reconnect_attempts_ and reconnect_scheduled_
    shutting_down,
    loop            \* what the event loop thread is in the middle of

senders == <<sender, chosen>>
sockets == <<conn, active, wire>>
queue == <<pending, data_messages, spin, carried, raced>>
circuit == <<breaker, held, opened_for, granted>>
poolVars == <<use_tls, senders, sockets, queue, lost, circuit, reconnects,
              shutting_down, loop>>

None == "none"

PoolInit ==
    /\ use_tls \in BOOLEAN
    /\ sender = [f \in Frames |-> "new"]
    /\ chosen = [f \in Frames |-> None]
    /\ conn = [c \in Conns |-> None]
    /\ active = {}
    /\ wire = [f \in Frames |-> 0]
    /\ pending = <<>> /\ data_messages = 0
    /\ spin = None /\ carried = None /\ raced = FALSE
    /\ lost = {}
    /\ breaker = [state |-> "Closed", failures |-> 0, probes |-> 0] /\ held = None
    /\ opened_for = 0
    /\ granted = {}
    /\ reconnects = [attempts |-> 0, scheduled |-> FALSE]
    /\ shutting_down = FALSE
    /\ loop = "idle"

-----------------------------------------------------------------------------
(* try_send, on the sender's thread.                                       *)

CheckShutdown(f) ==
    /\ sender[f] = "new"
    /\ sender' = [sender EXCEPT ![f] = IF shutting_down THEN "ShuttingDown" ELSE "gate"]
    /\ UNCHANGED <<use_tls, chosen, sockets, queue, lost, circuit, reconnects,
                   shutting_down, loop>>

\* allow_send loads the state; what it does then is not atomic with it.
Gate(f) ==
    /\ sender[f] = "gate"
    /\ sender' = [sender EXCEPT ![f] = CASE breaker.state = "Closed" -> "granted"
                                         [] breaker.state = "HalfOpen" -> "probe"
                                         [] breaker.state = "Open" -> "locked"]
    /\ UNCHANGED <<use_tls, chosen, sockets, queue, lost, circuit, reconnects,
                   shutting_down, loop>>

\* half_open_probes_.fetch_add, which only matters up to the limit, and its verdict.
CountProbe(f) ==
    IF breaker.probes < ProbeLimit
    THEN /\ breaker' = [breaker EXCEPT !.probes = @ + 1]
         /\ sender' = [sender EXCEPT ![f] = "granted"]
         /\ granted' = granted \cup {f}
    ELSE /\ sender' = [sender EXCEPT ![f] = "CircuitOpen"]
         /\ UNCHANGED <<breaker, granted>>

\* Without the mutex: the circuit may have changed since the state was loaded.
Probe(f) ==
    /\ sender[f] = "probe"
    /\ CountProbe(f)
    /\ UNCHANGED <<use_tls, chosen, sockets, queue, lost, held, opened_for, reconnects,
                   shutting_down, loop>>

\* Under the mutex the state is loaded again. When the cooldown has passed the
\* probes are reset before the state is stored.
AllowSend(f) ==
    /\ sender[f] = "locked" /\ held = None
    /\ \/ breaker.state = "HalfOpen" /\ CountProbe(f) /\ UNCHANGED held
       \/ /\ breaker.state = "Closed" \/ (breaker.state = "Open" /\ opened_for < Cooldown)
          /\ sender' = [sender EXCEPT ![f] = IF breaker.state = "Closed" THEN "granted"
                                                                          ELSE "CircuitOpen"]
          /\ UNCHANGED <<breaker, held, granted>>
       \/ /\ breaker.state = "Open" /\ opened_for >= Cooldown
          /\ breaker' = [breaker EXCEPT !.probes = 0]
          /\ held' = f /\ granted' = {}
          /\ sender' = [sender EXCEPT ![f] = "half_open"]
    /\ UNCHANGED <<use_tls, chosen, sockets, queue, lost, opened_for, reconnects,
                   shutting_down, loop>>

StoreHalfOpen(f) ==
    /\ sender[f] = "half_open"
    /\ breaker' = [breaker EXCEPT !.state = "HalfOpen"]
    /\ sender' = [sender EXCEPT ![f] = "first_probe"]
    /\ UNCHANGED <<use_tls, chosen, sockets, queue, lost, held, opened_for, granted, reconnects,
                   shutting_down, loop>>

FirstProbe(f) ==
    /\ sender[f] = "first_probe"
    /\ CountProbe(f)
    /\ held' = None
    /\ UNCHANGED <<use_tls, chosen, sockets, queue, lost, opened_for, reconnects,
                   shutting_down, loop>>

\* get_connection: round robin over active_connections_ from an index that
\* every caller advances, here any of them.
GetConnection(f) ==
    /\ sender[f] = "granted"
    /\ \/ /\ active = {}
          /\ sender' = [sender EXCEPT ![f] = "enqueue"]
          /\ UNCHANGED chosen
       \/ \E c \in active :
             /\ sender' = [sender EXCEPT ![f] = "send"]
             /\ chosen' = [chosen EXCEPT ![f] = c]
    /\ UNCHANGED <<use_tls, sockets, queue, lost, circuit, reconnects, shutting_down, loop>>

\* Connection::send drops the frame, silently, unless it is connected (plain)
\* or encrypted (TLS).
Deliver(c, f) ==
    IF conn[c] = "Connected"
    THEN /\ wire' = [wire EXCEPT ![f] = @ + 1]
         /\ UNCHANGED lost
    ELSE /\ lost' = lost \cup {f}
         /\ UNCHANGED wire

SendOn(f) ==
    /\ sender[f] = "send"
    /\ Deliver(chosen[f], f)
    /\ sender' = [sender EXCEPT ![f] = "Sent"]
    /\ chosen' = [chosen EXCEPT ![f] = None]
    /\ UNCHANGED <<use_tls, conn, active, queue, circuit, reconnects, shutting_down, loop>>

\* check_admission for the lane and mode try_send always asks for (user data,
\* best effort), with bytes left out.
Admitted(n) == n \in 0 .. DataLimit - 1

\* try_enqueue takes the spinlock, checks and counts ...
Enqueue(f) ==
    /\ sender[f] = "enqueue" /\ spin = None
    /\ IF Admitted(data_messages)
       THEN /\ data_messages' = data_messages + 1 /\ spin' = f
            /\ sender' = [sender EXCEPT ![f] = "pushing"]
       ELSE /\ sender' = [sender EXCEPT ![f] = "QueueFull"]
            /\ UNCHANGED <<data_messages, spin>>
    /\ UNCHANGED <<use_tls, chosen, sockets, pending, carried, raced, lost, circuit, reconnects,
                   shutting_down, loop>>

\* ... then pushes. try_dequeue takes no lock: when the deque is in the middle
\* of a pop_front, the push may be lost.  (The first overlap of a behaviour is
\* the one that may tear the deque.)
PushBack(f) ==
    /\ sender[f] = "pushing"
    /\ \/ pending' = Append(pending, f) /\ UNCHANGED lost
       \/ loop = "popping" /\ ~raced /\ lost' = lost \cup {f} /\ UNCHANGED pending
    /\ raced' = (raced \/ loop = "popping")
    /\ spin' = None
    /\ sender' = [sender EXCEPT ![f] = "Sent"]
    /\ UNCHANGED <<use_tls, chosen, sockets, data_messages, carried, circuit, reconnects,
                   shutting_down, loop>>

-----------------------------------------------------------------------------
(* Events of the connections, on the event loop thread.                    *)

\* TcpTransport::connect puts the connection in the pool before the TCP
\* handshake is over.
Connect(c) ==
    /\ loop = "idle" /\ conn[c] = None /\ ~shutting_down
    /\ conn' = [conn EXCEPT ![c] = "Connecting"]
    /\ active' = active \cup {c}
    /\ UNCHANGED <<use_tls, senders, wire, queue, lost, circuit, reconnects,
                   shutting_down, loop>>

\* setup_after_connect, and for TLS the handshake and the first part of
\* on_connection_ready.
Established(c) ==
    /\ loop = "idle" /\ conn[c] = "Connecting"
    /\ conn' = [conn EXCEPT ![c] = "Connected"]
    /\ IF use_tls
       THEN active' = active \cup {c} /\ loop' = "succeeded"
       ELSE UNCHANGED <<active, loop>>
    /\ UNCHANGED <<use_tls, senders, wire, queue, lost, circuit, reconnects, shutting_down>>

\* complete_connect's error and timeout branches, and a failed handshake: the
\* connection is marked and stays in the pool.
ConnectFailed(c) ==
    /\ loop = "idle" /\ conn[c] = "Connecting"
    /\ conn' = [conn EXCEPT ![c] = "Error"]
    /\ UNCHANGED <<use_tls, senders, active, wire, queue, lost, circuit, reconnects,
                   shutting_down, loop>>

\* record_success: an Open circuit ignores it. (Its three stores are one step: TLS
\* connections report successes and no failures, so it meets a Closed circuit.)
RecordSuccess ==
    /\ loop = "succeeded"
    /\ breaker' = IF breaker.state = "Open" THEN breaker
                  ELSE [state |-> "Closed", failures |-> 0,
                        probes |-> IF breaker.state = "HalfOpen" THEN 0 ELSE breaker.probes]
    /\ loop' = "flushing"
    /\ UNCHANGED <<use_tls, senders, sockets, queue, lost, held, opened_for, granted,
                   reconnects, shutting_down>>

\* Mutant: the flush does not leave its loop when the queue is empty.
FlushPendingForever ==
    /\ loop = "flushing"
    /\ loop' = IF pending = <<>> THEN "flushing" ELSE "popping"
    /\ UNCHANGED <<use_tls, senders, sockets, queue, lost, circuit, reconnects, shutting_down>>

\* One turn of flush_pending: try_dequeue finds the lane empty, and the flush ends,
FlushPending ==
    /\ loop = "flushing"
    /\ loop' = IF pending = <<>> THEN "idle" ELSE "popping"
    /\ UNCHANGED <<use_tls, senders, sockets, queue, lost, circuit, reconnects, shutting_down>>

\* Mutant: the message stays at the head of the queue.
PopFrontPeeks ==
    /\ loop = "popping"
    /\ carried' = Head(pending)
    /\ raced' = (raced \/ spin # None)
    /\ loop' = "counting"
    /\ UNCHANGED <<use_tls, senders, sockets, pending, data_messages, spin, lost, circuit,
                   reconnects, shutting_down>>

\* or takes the first message; while a push_back is at work on the deque, the
\* message may be there still.
PopFront ==
    /\ loop = "popping"
    /\ carried' = Head(pending)
    /\ pending' = Tail(pending) \/ (spin # None /\ ~raced /\ UNCHANGED pending)
    /\ raced' = (raced \/ spin # None)
    /\ loop' = "counting"
    /\ UNCHANGED <<use_tls, senders, sockets, data_messages, spin, lost, circuit,
                   reconnects, shutting_down>>

CountDequeued ==
    /\ loop = "counting"
    /\ data_messages' = data_messages - 1
    /\ loop' = "sending"
    /\ UNCHANGED <<use_tls, senders, sockets, pending, spin, carried, raced, lost, circuit,
                   reconnects, shutting_down>>

\* The message goes to a connection; without one the flush ends, and the
\* message it has taken out is gone.
SendDequeued ==
    /\ loop = "sending"
    /\ \/ \E c \in active : Deliver(c, carried) /\ loop' = "flushing"
       \/ active = {} /\ lost' = lost \cup {carried} /\ loop' = "idle" /\ UNCHANGED wire
    /\ carried' = None
    /\ UNCHANGED <<use_tls, senders, conn, active, pending, data_messages, spin, raced, circuit,
                   reconnects, shutting_down>>

\* schedule_reconnect; attempts are never reset.
ScheduleReconnect ==
    reconnects' = IF \/ shutting_down
                     \/ reconnects.attempts >= MaxAttempts
                     \/ reconnects.scheduled
                  THEN reconnects
                  ELSE [attempts |-> reconnects.attempts + 1, scheduled |-> TRUE]

\* record_failure, then schedule_reconnect.  opened_at_ is only written when a
\* Closed circuit opens; a HalfOpen one is reset under the mutex, its state last.
RecordFailure ==
    /\ loop = "failed"
    /\ \/ /\ breaker.state = "Closed" /\ held = None
          /\ breaker' = [breaker EXCEPT !.failures = @ + 1,
                            !.state = IF breaker.failures + 1 >= FailureThreshold
                                      THEN "Open" ELSE "Closed"]
          /\ opened_for' = IF breaker'.state = "Open" THEN 0 ELSE opened_for
          /\ ScheduleReconnect /\ loop' = "idle" /\ UNCHANGED held
       \/ /\ breaker.state = "HalfOpen" /\ held = None
          /\ breaker' = [breaker EXCEPT !.failures = 0, !.probes = 0]
          /\ loop' = "tripping" /\ held' = "loop"
          /\ UNCHANGED <<opened_for, reconnects>>
       \/ /\ breaker.state = "Open"
          /\ ScheduleReconnect /\ loop' = "idle" /\ UNCHANGED <<breaker, held, opened_for>>
    /\ UNCHANGED <<use_tls, senders, sockets, queue, lost, granted, shutting_down>>

StoreOpen ==
    /\ loop = "tripping"
    /\ breaker' = [breaker EXCEPT !.state = "Open"]
    /\ ScheduleReconnect
    /\ loop' = "idle" /\ held' = None
    /\ UNCHANGED <<use_tls, senders, sockets, queue, lost, opened_for, granted, shutting_down>>

\* handle_read meets the end of the stream or an error.  A plain connection
\* calls on_connection_error with a null connection, which leaves the pool's
\* list alone; TLS treats both as "no more data".
ReadBroken(c) ==
    /\ loop = "idle" /\ conn[c] = "Connected" /\ ~use_tls
    /\ conn' = [conn EXCEPT ![c] = "Disconnected"]
    /\ loop' = "failed"
    /\ UNCHANGED <<use_tls, senders, active, wire, queue, lost, circuit, reconnects, shutting_down>>

\* handle_send_completion with a negative result.  Only the plain connection
\* reports it, and this time with itself.
SendBroken(c) ==
    /\ loop = "idle" /\ conn[c] = "Connected"
    /\ conn' = [conn EXCEPT ![c] = "Error"]
    /\ IF use_tls THEN UNCHANGED <<active, loop>> ELSE active' = active \ {c} /\ loop' = "failed"
    /\ UNCHANGED <<use_tls, senders, wire, queue, lost, circuit, reconnects, shutting_down>>

\* The timer schedule_reconnect armed: it clears the flag and does not connect.
ReconnectTimer ==
    /\ loop = "idle" /\ reconnects.scheduled
    /\ reconnects' = [reconnects EXCEPT !.scheduled = FALSE]
    /\ UNCHANGED <<use_tls, senders, sockets, queue, lost, circuit, shutting_down, loop>>

\* drain and abort (TcpTransport::close_connection, on any thread): the queue is
\* counted and left as it is.
Drain ==
    /\ ~shutting_down
    /\ shutting_down' = TRUE
    /\ conn' = [c \in Conns |-> IF c \in active THEN "Disconnected" ELSE conn[c]]
    /\ active' = {}
    /\ UNCHANGED <<use_tls, senders, wire, queue, lost, circuit, reconnects, loop>>

Tick ==
    /\ breaker.state = "Open" /\ opened_for < Cooldown
    /\ opened_for' = opened_for + 1
    /\ UNCHANGED <<use_tls, senders, sockets, queue, lost, breaker, held, granted, reconnects,
                   shutting_down, loop>>

TrySend(f) ==
    \/ CheckShutdown(f) \/ Gate(f) \/ Probe(f) \/ AllowSend(f) \/ StoreHalfOpen(f) \/ FirstProbe(f)
    \/ GetConnection(f) \/ SendOn(f) \/ Enqueue(f) \/ PushBack(f)

HandlerGoesOn ==
    \/ RecordSuccess \/ RecordFailure \/ StoreOpen
    \/ FlushPending \/ PopFront \/ CountDequeued \/ SendDequeued

PoolNext ==
    \/ \E f \in Frames : TrySend(f)
    \/ \E c \in Conns : \/ Connect(c) \/ Established(c) \/ ConnectFailed(c)
                        \/ ReadBroken(c) \/ SendBroken(c)
    \/ HandlerGoesOn \/ ReconnectTimer \/ Drain \/ Tick

\* A thread inside try_send, and the loop thread inside a handler, go on.
PoolFairness ==
    /\ \A f \in Frames : WF_poolVars(sender[f] # "new" /\ TrySend(f))
    /\ WF_poolVars(HandlerGoesOn)
    /\ WF_poolVars(Tick)

-----------------------------------------------------------------------------
Results == {"Sent", "QueueFull", "CircuitOpen", "ShuttingDown"}
Places(f) ==
    wire[f] + Cardinality({i \in DOMAIN pending : pending[i] = f})
            + (IF f \in lost THEN 1 ELSE 0) + (IF f = carried THEN 1 ELSE 0)

\* The pool's fields have their types and the reconnect counter, the failure
\* counter and the queue stay within the limits of the configuration.
PoolTypeOK ==
    /\ sender \in [Frames -> {"new", "gate", "probe", "locked", "half_open", "first_probe",
                              "granted", "enqueue", "pushing", "send"} \cup Results]
    /\ conn \in [Conns -> {None, "Connecting", "Connected", "Error", "Disconnected"}]
    /\ active \subseteq Conns
    /\ breaker \in [state : {"Closed", "Open", "HalfOpen"},
                    failures : 0 .. FailureThreshold, probes : 0 .. ProbeLimit]
    /\ reconnects.attempts \in 0 .. MaxAttempts

\* A frame that was refused, or is not yet answered, is nowhere. A frame
\* reported Sent is in exactly one place (the queue, one connection, in the
\* hands of the flush, or dropped), and the count of the queue is what it and
\* those at work on it hold: no refusal and no flush leaves a second copy
\* behind, unless a try_dequeue overlapped a try_enqueue.
OneCopy ==
    /\ \A f \in Frames : sender[f] # "Sent" => Places(f) = 0
    /\ ~raced =>
          /\ \A f \in Frames : sender[f] = "Sent" => Places(f) = 1
          /\ data_messages = Len(pending) + Cardinality({spin} \ {None})
                             + (IF loop = "counting" THEN 1 ELSE 0)

\* While the breaker is half open, and not about to leave, it has let no more
\* frames through than half_open_probe_limit since it left Open; on its way out
\* it lets through no more than that many again.
ProbesLimited ==
    /\ breaker.state = "HalfOpen" /\ held # "loop" => Cardinality(granted) <= ProbeLimit
    /\ Cardinality(granted) <= 2 * ProbeLimit

\* The pool's safety: one copy of an accepted frame, none of a refused one, and a
\* half-open breaker within its limit.
PoolInv == PoolTypeOK /\ OneCopy /\ ProbesLimited

\* Every try_send returns and every handler of the event loop ends.
PoolSettles ==
    []<>(/\ \A f \in Frames : sender[f] \in Results \cup {"new"}
         /\ loop = "idle")

-----------------------------------------------------------------------------
(* What the headers promise and the code does not keep.                    *)

\* A frame reported Sent is queued or on a connection.
SentIsCarried == lost = {}

\* endpoint_outbound_queue.hpp says that "try_enqueue() and try_dequeue() use an
\* atomic spinlock": they do not overlap. try_dequeue takes none.
QueueLocked == ~raced

\* A half-open circuit lets no more than half_open_probe_limit frames through
\* before it closes or opens again. It counts from 0 again while it is still
\* half open, and counts a frame that saw it so when it no longer is.
ProbesNeverExceeded == Cardinality(granted) <= ProbeLimit

\* The circuit waits `cooldown` after every trip before it probes.
CooldownRespected ==
    [][breaker.state # "Open" /\ breaker'.state = "Open" => opened_for' = 0]_poolVars

\* A half-open circuit whose probe was carried closes again.
BreakerRecovers ==
    []<>(\/ breaker.state # "HalfOpen"
         \/ \A f \in granted : sender[f] # "Sent" \/ f \in lost)

\* drain hands the pending messages to a connection before it closes them.
DrainSendsPending == shutting_down => pending = <<>>

\* Nothing waits in the queue while a connection is up.
QueueNotStranded ==
    []<>(pending = <<>> \/ \A c \in active : conn[c] # "Connected")
=============================================================================
