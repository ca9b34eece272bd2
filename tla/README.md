# A TLA+ model of HPActor

HPActor is an actor framework in C++20. Actors own mailboxes that many threads
push into; a scheduler hands actors with messages to worker threads; around
that core lie timers, request/response, supervision, reliable delivery, streams,
durable state, a cluster layer and networking. This directory holds TLA+ modules
that follow the source, TLC configurations that check them on small instances,
and TLAPS proofs of the results that matter most for every size.

Paths below are relative to the root of the repository. `PROJECT.json` maps
every definition to the lines it models and lists runs, mutants, hazards,
findings and theorems.

Contents: 1 Parts. 2 Modules. 3 Runs. 4 Claims found violated. 5 Proofs.
6 What is only model-checked. 7 What is left out.

## 1. The parts and how they interact

    producer --> mailbox (admission, lanes or rings, wake-up flag)
                    | first message after a quiet period
                    v
              ready gate (idle -> ready) --> work item --> placement
                                                              |
              worker: find or steal, run a batch, requeue  <--+
                 ^ park / wake

A mailbox calls the ready gate only when it takes its wake-up flag from armed to
disarmed. The gate lets one run of an actor go on at a time and asks the
scheduler to place a work item. A worker that takes the item runs the actor,
which pops from the mailbox and arms the flag again.

Around this core:

- The **delivery pipeline** stands between a sender and the mailbox: circuit
  gate, expiry, duplicate filter, push, rollback of the filter when the push is
  refused. What is refused becomes a dead letter.
- **Timers** call back into everything that waits: asks, RPC calls, drains, idle
  streams. Two wheels and a calendar queue implement them.
- **Lifecycle** moves an actor between Starting, Active, Draining, Passivating,
  Stopped and Failed. Stop callers, drain timers, the shutdown coordinator, the
  passivation manager, the operator and the supervisor all do so by a load and
  a compare-exchange on one word.
- **Asks**, **RPC calls** and **acknowledged sends** each keep a table of what is
  outstanding. Response, timeout, cancellation and shutdown compete for an entry.
- A **connection pool** queues frames per endpoint behind a circuit breaker; a
  **connection** writes and reads frames over a non-blocking socket.
- **Streams** send chunks under credit over such connections.
- **Gossip** decides which nodes are alive. A node's **failure model** turns that
  into elections and the invalidation of routes; a **lease backend** hands out
  fencing tokens; **names** are kept at a home node chosen by hashing.
- **Durable stores** keep snapshots, events and the outbox in files. The
  **runtime** starts its stages in order and bootstraps a topology of actors.

## 2. Modules

A thread is a program counter and its locals; every atomic access, mutex section
or callback that another thread can come between is an action. Steps that only
touch locals, or commute with every other step, are merged with a neighbour.
Names of variables and actions follow the code.

| Module | Models | State and steps |
|---|---|---|
| `DisruptorMpscRing` | `include/hpactor/adt/disruptor_mpsc_ring.hpp` | cursors and a sequence number per slot; `CheckClosed` ... `PublishCursor` are the steps of `try_publish`, `AcquireCheck`, `AcquireAdvance`, `ReleaseSlot` those of `try_acquire` and the lease. A value is the sequence it was written for, so `consumed` shows loss and reordering |
| `ClaimOrderedChannel` | abstract | claim a place, fill it, consume in the order of the claims |
| `MpscMailbox` | `include/hpactor/adt/mpsc_mailbox.hpp` | `head_`, stub, links. Nodes are numbered by their exchange on `head_`; `overlapped` records an exchange between the consumer's look at `head_` and its compare-exchange |
| `ChaseLevDeque` | `include/hpactor/adt/chaselev_deque.hpp` | owner and thieves over `top_`, `bottom_`, the current and the retired arrays |
| `WorkDeque` | abstract | push, pop and steal, each one step |
| `ActorActivation` | `src/sched/actor_ready_gate.cpp`, `actor_execution_engine.cpp`, `include/hpactor/mailbox/mpsc_actor_mailbox.hpp` | mailbox, gate and run loop of one actor; `events` records what can cost a wake-up. The lane is the chain of MpscMailbox without its last-node window |
| `MailboxAdmission` | `mpsc_actor_mailbox.hpp`, `reservation_manager.hpp`, `pressure_state_machine.hpp`, `overflow_queue.hpp` | a message is in one place (`at`); the counters of the code, the first modulo `CountWrap` where the code has 2^32 |
| `DisruptorMailbox` | `disruptor_actor_mailbox.hpp` and its handlers | rings, control lanes, overflow, gate, drain. A claim is one step (DisruptorMpscRing is about its inside). The store of `accepting_user_` may be seen late, since the code gives it release order only; a publisher guard counts itself with a locked instruction before it loads the flag. `quiesced` tells a drain declared over before that store was visible from one declared after |
| `WorkPlacement` | `src/sched/work_placement_scheduler.cpp`, `worker_thread.cpp`, `worker_park.cpp`, `scheduler.cpp`, `edf_queue.cpp` | a work item from `notify_ready` to a worker; park, wake, pause, resume. `raced` and `unowned` record two uses whose outcome is undefined (two threads in one EDF heap, a flush into a deque its owner is using); the properties hold up to them |
| `DeliveryPipeline` | `src/mailbox/delivery_pipeline.cpp`, `src/adt/dedup_cache.cpp`, the circuit breaker, the dead-letter queue | one program counter per send, with what it read of the circuit |
| `ActorLifecycle` | `src/actor/lifecycle/*.cpp`, `src/supervision/supervision.cpp` | the state word; drivers with the value they loaded; mail, timers, snapshot, reactivation claim |
| `Timers` | `src/timer/*.cpp`, the timer thread in `scheduler.cpp` | wheel levels, slots with generations, the sleep of the thread; `reused` counts how often a slot was taken since a handle to it was given out |
| `CalendarQueue` | the calendar queue of `src/timer` | three levels of linked buckets; `advance()` turn by turn |
| `AskRequests` | `src/actor/request/ask_manager.cpp`, `request_handle.hpp` | `pending_`, the takers of an entry, timers, handles and ports |
| `RpcCalls` | the RPC channel | calls with retries under a deadline budget; a retry with no delay left goes round `on_timeout` again at once (`FindAgain`) |
| `OutboundDelivery` | `src/msg/outbound_delivery_tracker.cpp` and its callers | ids, entries, attempts, receipts; frames that are lost, delayed and repeated |
| `ConnectionPool` | `src/net/connection_pool.cpp`, `endpoint_outbound_queue.cpp`, `endpoint_circuit_breaker.cpp` | connections, data lane, breaker, reconnects. `try_dequeue` takes no lock, so a pop and a push may overlap (`raced`): what the popper carries away, and whether the pop or the push is undone in the deque, is then any outcome. The breaker's atomics are read and stored one at a time |
| `FrameConnection` | the wire-frame connection over epoll | write buffer, completions, frame reader |
| `GossipMembership` | `src/net/gossip_membership.cpp` | every node's table, packets, crashes and restarts |
| `NameResolution` | `src/cluster/name/*.cpp` | directories, caches, pending records with their two mutexes; frames may be lost, and `untold` holds the names whose latest change never left for the home |
| `ClusterRuntime`, `LeadershipLease` | `src/cluster/singleton/*.cpp`, the failure model, the in-memory lease backend | observers of one node; leases, tokens, and managers that act on the backend's answer some time after it was given |
| `StreamSession` | `src/actor/stream/*.cpp` | one session: handle, sender, receiver, target. Credit, buffer and what is in flight are counted in bytes, chunks have sizes of their own |
| `DurableState`, `FileDeliveryStore` | `src/actor/durable`, the delivery stores | files across crashes; the outbox is a text of lines, so that a short write leaves half an id or joins two |
| `RuntimeStartup` | `src/runtime/runtime_coordinator.cpp`, `topology_bootstrap_transaction.cpp`, `actor_spawn_lease.cpp` | stages; journal of leases, names |

Modules named `...Proofs` hold the theorems about the modules they extend:
`MailboxProofs` those about DisruptorMpscRing and ActorActivation,
`MessagingProofs` those about DeliveryPipeline and AskRequests, `RuntimeProofs`
those about RuntimeStartup and LeadershipLease, the others those about the module
of their name. An `MC...` module extends the components it checks and gives
bounds and symmetry.
Components that share no state are checked in one run: a variable of the MC
module is chosen in the initial state, names the component that moves, and the
others keep their initial state. The state space is the sum of theirs and each
is explored in full.

## 3. Runs

| Run | Checks | Shows |
|---|---|---|
| `queues` | `IInv`, `ImplementsChannel`, `ClaimedIsConsumed`; `MpscInv`, `DeliveredUnlessOverlap`; `DequeInv`, `ImplementsDeque`; `GateInv`, `ReceivedUnlessLost`; `CalendarInv` | the ring is a claim-ordered channel and the deque an atomic one; the intrusive queue loses nodes only in two named windows; a ready actor is neither forgotten nor run twice at once; the calendar queue keeps every timer linked once |
| `disruptor` | `DisruptorInv`, `QuiescentIsFinal` | under four overflow policies reservations are exact, nothing is dispatched twice, once a drain that all threads see is declared quiescent no producer adds a message, and messages are stranded in two named ways only |
| `admission` | `AdmissionInv` | both reservation counters stay exact through rollback, eviction, second try, spill, drain and batches |
| `placement` | `PlacementInv`, `AdmittedAreRun` | no item is lost or doubled, no worker sleeps on work nobody will wake it for, every admitted item is run |
| `delivery` | `DeliveryInv`, `RetriesNotSuppressed`; `StreamInv`, `StreamEnds`; `StoresInv`; `StartupInv` | a refused message does not suppress its retries; a stream is seen in order and ends; recovery replays each event once, finds every send put and invents none as long as no write came up short; a topology comes up whole or not at all |
| `lifecycle` | `LifecycleInv`, `LifecycleProgress` | only transitions of the table, a graceful drain drops nothing, nothing serves after its DownMsg, drains and shutdowns end |
| `timers` | `TimersInv`, `FiresOnTime`, `TimersEnd` | a timer is found by the first advance that reaches its expiry and by none before; a cancelled one never runs; `stop()` returns |
| `requests` | `AskInv`, `EveryAskAnswered`; `EveryCallEnds`; `OutInv`, `ReceiptResolvedOnce` | one of response, timeout, operator and shutdown takes an ask; a receipt is never forgotten nor changed; asks, calls and receipts get a result |
| `network` | `PoolInv`, `PoolSettles`; `ConnInv`, `WritesProgress` | a frame reported Sent is in one place as long as the queue's operations do not overlap; a half-open breaker counts its probes right while one thread at a time is in it; bytes are written and frames read in order and once |
| `cluster` | `GossipInv`, `DeadForGood`; `NamesInv`; `RuntimeSafety`; `LeaseSafety` | no undisturbed node is suspected without a loss; the home of a name agrees with its registrar on what it was told; no invalidation is lost; fencing tokens are distinct and the lease owner's is above every other, late managers included |
| `mpsc_lost` | `NextDequeueFixesUp` | violated |
| `names_deadlock` | `ResolveReturns` | violated |

The two violated runs state what the code's comments say and are reported as
findings, with the line quoted:

- `mpsc_lost`: `dequeue` overwrites the stub's link, sees that a producer got
  in between, and returns nothing; the nodes are then out of reach, although
  the comment says the next dequeue repairs the chain.
- `names_deadlock`: a `resolve()` that times out holds the mutex of its record
  and takes that of the table; the handler of a response takes them the other
  way round.

**Bounds.** They are chosen so that each contended case happens.

- *queues*: 2 slots and 5 claims lap the ring twice, so that a stale check can
  meet the same slot one lap later. 3 producers and 4 nodes allow an enqueue in
  each window of `dequeue` with one before and one after it. 4 items and an
  initial capacity of 2 make the deque grow with 2 thieves reading. 2 messages,
  2 workers, batches of 1 and budgets of 2 and 1 (64 and 63 in the code) reach
  both limits of the run loop. 2 alarms with waits of 0, 5 and 9 use all three
  levels of the calendar.
- *disruptor*, *admission*: one ring of 2 slots and 3 messages, or one user slot,
  2 bytes, one protected system slot and an overflow queue of 1, make every push
  contend. `MaxOverflow = 0` means unlimited in `DisruptorMailbox`, as in the
  code. In *admission* `MCView` identifies states that differ only in how a
  message ended.
- *placement*: 2 workers, a pinned and a free item, rings of 1 slot, one pause.
  Exploration stops at `raced` or `unowned`, after which the properties say
  nothing.
- *delivery*: a message and its retransmission, a malformed one and one to a
  missing actor, against a mailbox and a duplicate cache of 1; 3 chunks of
  1, 0 and 2 bytes under a window of 2, so that the last starts within it and ends
  beyond it, with one fault; 4 events, 3 snapshots and 2 stops; 2 outbox ids, one
  the beginning of the other, with one short write; 3 stages with failures; 3 actors, one unnamed, one whose
  provider gives no lease, one whose name is taken.
- *lifecycle*: four casts of drivers, every pair of which can conflict, 4 drain
  policies, one restart. *timers*: one or two one-shot timers, a recurring one, or
  one of each, on three levels of 2 buckets, in one slot with 3 generations: a
  recurring timer takes the slot until the generation of an old handle comes
  round.
- *requests*: one ask (the theorem of section 5 covers any set of them), one call
  with 2 retries, 2 sends with 2 attempts, one with a deadline, and no other
  traffic that draws message ids (`OtherIds = 0`; the theorem covers any).
  *network*:
  3 senders on one connection, so that pushes and pops meet in a queue of 2, or 2
  senders on two, with a breaker that trips at once and probes with one frame; only
  the first overlap may tear the queue; frames cut
  at every byte by a socket with room for 3 and one frame that is too large.
- *cluster*: 3 nodes and 2 incidents (crash, restart, loss); 2 hosts, 2 names,
  2 resolvers, 3 changes; 5 transitions; 2 candidates and 3 tokens, so
  that a lease can go to the other and come back.

`MaxClaims`, `MaxNodes`, `MaxMessages`, `MaxPlacements`, `MaxPauses`,
`MaxCommands`, `MaxFaults`, `MaxEvents`, `MaxSnapshots`, `MaxStops`, `MaxOps`,
`MaxCalls`, `MaxIncidents`, `MaxChanges`, `MaxTransitions`, `MaxToken`, `Horizon`
and their like bound what is unbounded in the code. Deadlock is checked in
`placement` and `timers`; elsewhere the system may stop once a bound is used up.

**Fairness.** Weak fairness for a thread that has begun an operation: the
operating system runs it. Nobody is made to begin a push, a notification, a
pause, a write or a close, and no fault need happen. Beyond that:

- the consumer of a queue goes on asking, as a dispatched actor does
  (`ClaimedIsConsumed`, `DeliveredUnlessOverlap`); workers do not stop, as the
  worker loop does not until `stop()`; a rate limiter asked again and again
  grants a token (strong fairness of `Pop` in ActorActivation);
- `AdmittedAreRun` assumes neither that a sleeping worker times out nor that a
  steal succeeds: wake-ups alone are enough;
- timers armed fire and time passes, by `Timers`, whose own properties assume
  that the timer thread runs;
- requests: the loop keeps calling `process_retries`, a destructor that has
  stopped the scheduler destroys the ask manager, and the network owes nothing;
- streams and connections: loops and I/O threads poll, and the peer reads;
- gossip (`DeadForGood`): loops turn, the network delivers what is not counted as
  lost, time passes.

## 4. Claims found violated

Each module also states claims that a comment, a header or a design document
makes, or that a caller would expect, and that TLC finds violated. The
definition carries the quotation. To see the trace, put the definition in the
place of the properties of the configuration named here.

| Configuration | Claim | What the trace shows |
|---|---|---|
| `MCQueues` | `EmptyExactWhenQuiet` | a claimant that finishes last moves `published_cursor_` back; `empty()` is true with a published slot waiting |
| | `ReturnsOldest` | a failed compare-exchange overwrites the local `next`; a younger node is returned and the older lost |
| | `SingleRedispatchEnough` | an unlinked node met twice uses the budget; the run suspends with the flag disarmed |
| | `NextMessageRetriesDenied` | after a denial the flag is disarmed and the next message wakes nobody |
| | `RearmedWhenEmpty` (3 messages, no limiter) | a producer takes the flag for a message the same run pops; the flag stays disarmed with the mailbox empty |
| | `AdvanceReturns` | a timer re-filed into the bucket being walked keeps `advance()` going |
| `MCDisruptor` | `NothingStranded` | a run that ends with the last message leaves the gate set |
| | `DropSerialized` | a dropping producer and the worker acquire one entry |
| | `BlockedOnlyWhenFull` | a notification between the failed reservation and the untimed wait is lost |
| | `NoneLeftInOverflow`; `OverflowFifo` with `MaxMessages = 4`, `Policies = {"spill"}` | a message spilled after the last drain stays; an entry that cannot be moved goes behind younger ones |
| | `DeclaredQuiescent` | the drainer reads zero before a producer enters |
| `MCAdmission` | `EmptyAdmits` | a batch reserves one unit of count and releases one per message |
| `MCPlacement` | `PausedIsQuiet`, `SideFlushed`; `NoneDropped` with `NumPriorities = 1` | a worker between pop and `mark_dispatch_begin` is not counted; an item put aside after the flush; a priority without a queue |
| `MCLifecycle` | `ExitOnce`, `SnapshotComplete`, `ReactivatedOnce`, `RestartedServes` | two drivers both run `on_exit`; a message handled after the snapshot; a second claim after the first ended; a restart overtaken by a stop |
| `MCTimers` | `NeverFiledEarly`, `NotOverslept`, `NeverOtherTimer` | the delay is counted from the wheel's clock; a wake-up before the wait is lost; a generation has come round and an old handle cancels another's timer |
| `MCDelivery` | `ProbeFlagTruthful`, `OneProbeAtATime` | a probe that is refused leaves the flag; two sends pass the half-open gate |
| | `CloseCompletes`, `InFlightIsUnacknowledged`, `InFlightWithinWindow`, `CloseFollowsChunks`; `AcknowledgedWasDelivered` with `TargetCapacity = 1` | a deferred close has nothing left to complete it; acknowledgements do not reduce what is in flight; a chunk that begins within the window goes out whole; a full mailbox refuses a chunk that is acknowledged all the same |
| | `AcceptedIsRecovered`, `SnapshotNumbersGrow`, `PartialWritesInvisible`, `OnlyPutsReplayed`, `FreshIsSeen` | an event number that a snapshot has passed is dropped with success; numbers restart with the process; a short write is renamed into place; half an id, or two in one line, is replayed as an id nobody put; an expired record hides a later one |
| | `FailedLeavesNothing`; `StopLeavesNothing` with two callers | actors without a lease outlive a failed bootstrap; `stop()` during `start()` leaves stages running |
| `MCRequests` | `OriginalResultPreserved`, `ReadsOnlyAnswers` | `cancel()` overwrites a result; `on_complete` reads a handle that has none |
| | `PointerOutlivesUse`, `PromiseSetOnce` | a timeout uses a call that a response has destroyed |
| | `CancelStopsRetrying`, `AcceptedMeansReceived`, `AcksAreNotMessages` | a retry under way is sent; another frame's id matches; an acknowledgement is acknowledged |
| `MCNetwork` | `SentIsCarried`, `QueueLocked`, `ProbesNeverExceeded`, `DrainSendsPending`, `CooldownRespected`, `BreakerRecovers`, `QueueNotStranded` | frames dropped with a connection; a pop during a push; a probe counted against a half-open state that has ended; a drain that closes first; a late failure that reopens the circuit at once; a probe whose outcome nobody reports |
| | `StreamIntactAnyThread`, `FramesAllRead`, `BlockedSendResumes`, `SendErrorNoticed` | two threads in one write buffer; an edge-triggered event consumed with a frame left; a blocked send nobody resumes |
| `MCCluster` | `CrashedForgotten`, `SuspicionRefuted`, `LeftIsFinal` | a tombstone revived by an old table; a refutation that does not outrank |
| | `HomeAlwaysAgrees`, `ResolvesOwnName`; `MovedNameFound` with `MovingRegistrars` and all three nodes as `Hosts` | `unregister_name` and `register_names_atomically` tell nobody; an answer filed under another name's record; an erasure that overtakes a registration |
| | `OnlyOldestActive`, `TokenCurrent` | an election that ended before an older node came back; a renewed lease whose token the manager does not take |

## 5. Proofs

Each proof module has the same outline: an inductive invariant, a lemma for the
initial states, lemmas that an action (or a group of actions) preserves it, the
theorem that it always holds, and the theorem that it implies the property of
the run. The constants are arbitrary up to the assumptions named.

**The ring** (`MailboxProofs`), for every set of producers and every
capacity of at least two (`CapacityAssumption`; the template requires a power of
two). `IInv` strengthens FIFO order until it is inductive:

- `Window`: the claims are at most one lap ahead of the released slots;
- `FreeSlots`: the slot of a sequence not claimed yet is marked free for it;
- `ClaimedSlots`: the slot of a claimed one is held by one producer, or
  published with that producer's value;
- `Holders`: two producers never hold the same sequence;
- `FreshChecks`: a slot check that still matters when the compare-exchange
  succeeds still holds, because a slot leaves the free state only by a claim of
  its sequence, and that claim moves the cursor.

FIFO alone is not inductive: it says nothing of what a producer about to write
will overwrite. The arithmetic is in the `Slot...` lemmas: within one lap the
slot determines the sequence. Theorems: `RingInvariant`, `RingTypeOK`,
`RingFifo`, `RingExclusiveSlots`, `RingSlotSequenceGrows`, and
`RingImplementsChannel`, that the ring implements ClaimOrderedChannel: the
compare-exchange is the claim, the store of the slot's sequence the fill, the
consumer's release the consumption, and all other steps stutter.

**The ready gate** (`MailboxProofs`), for any number of producers,
workers and messages and any budgets. `GateInv` says that `kRunning` is exactly
the time a worker is inside a run, that there is one such worker, and that a
ready actor has a work item or a thread about to add one or run it. The first
two need each other; the third is what keeps a ready actor from being
forgotten. Theorems: `GateInvariant`, `GateMutualExclusion`.

**The work-stealing deque** (`ChaseLevDequeProofs`), for any items, thieves and
initial capacity (`DequeAssumption`), any number of growths, under sequential
consistency. `DequeIInv` says that

- the positions in use are at most one lap of the current array (`DequeWindow`),
  so that a write at `bottom_` overwrites none of them;
- the owner's locals are bounds on `top_` and `bottom_`, as far as thieves can
  have moved `top_` since (`OwnerLocals`);
- a thief whose `top_` is still current finds the same item in the array it has
  loaded, retired or not, as in the current one (`ThiefLocals`);
- every item is in exactly one place (`OnePlace`).

`HandedOutOnce` is not inductive alone: the thief that wins must be known to hold
the item the position has. `PutHolds` and `GrowHolds` are what the circular
array contributes: a write or a growth keeps what the window's positions hold.
Theorems: `DequeInvariant`, `DequeIsSafe`, and `DequeImplementsDeque`. In the
refinement the push takes effect at the store of `bottom_`, the pop of an item
that is not the last at the load of `top_`, the pop of the last item and the
steal at their compare-exchange; the `Content...` lemmas say what each of these
does to the sequence of items.

**Leases** (`RuntimeProofs`), for any candidates and bound on tokens
(`LeaseAssumption`). A manager acts on an answer after the backend's mutex is
free again, so what it was told may be out of date. `Issued` says that the next
token is above every one in use or on its way in an answer, that a winner's answer
is at least as new as the token it has, and that the owner's tokens do not exceed
its lease's. Theorems: `LeaseInvariant`, and `LeaseIsSafe`: no two nodes run, or
are about to run, under one token, the owned lease fences every other node, those
that have yet to act on an older answer included, and a node's token never goes
back. That an activation fences every other manager is not claimed: a late
manager activates with the token of a lease it has lost.

**Start-up** (`RuntimeProofs`), for any number of stages and actors,
unnamed, without lease, or with names that are taken. `Journalled` relates the
journal to the actors present and to the phase; `Controls` says what a thread in
`start`, `stop` or `shutdown` knows of the started stages. Theorems:
`StartupInvariant`, `StartupIsSafe`. All-or-nothing of the names holds for any
number of callers; the order of the stages holds for one, as `StartupInv` says,
since two callers do break it (`StopLeavesNothing`, section 4).

**Asks** (`MessagingProofs`), for any finite set of asks. An entry is in the
table or in one hand, never in both (`TableShape`); what was registered is in
the table, in a hand, or in one of the four counters of outcomes
(`OneTakerPerAsk`); of the three threads that may
call a port, the one that consumed it does (`HandleShape`). Theorems:
`AskInvariant`, `AskIsSafe`.

**Acknowledged sends** (`OutboundDeliveryProofs`), for any finite set of sends,
any number of attempts, any of them with a deadline, and a network that loses,
delays and repeats frames. Ids are drawn from counters that account for them
(`IdsDrawn`) and are distinct (`IdsDistinct`); the retry counter tells how often
a frame went out (`AttemptsCounted`). Theorems: `OutInvariant`, `OutIsSafe`,
`ReceiptIsFinal` (an action property), and `AnswersOneSend`: an acknowledgement
or a rejection meets one send at most.

**Names** (`NameResolutionProofs`), for any nodes, names, resolvers and placement
of homes (`NamesAssumption`). Links lose any frame, and two operations of the
directory tell the home nothing; `HomeAgrees` therefore excludes a name whose
latest change never left. That the home agrees with the registrar once nothing is
on its way is not inductive: a request may be overtaken by a change of mind.
`Agreed` says what is, that for a name not `untold` the last request about it on
the wire says what its registrar has now, and that the home of a name with one
registrar holds no other node; it rests on requests travelling to the
home of their name in order (`RequestsRouted`). That a record in `pending_`
belongs to a call in progress rests on the mutex that keeps it in place while
the response handler walks the map (`Signalling`). Theorems: `NamesInvariant`,
`NamesAreSafe`.

**Delivery** (`MessagingProofs`), for any finite set of sends, any keys,
cache and mailbox sizes, either policy of the dead-letter queue, and any commands
of the operator (`PipelineAssumption`). `DeliveryIInv` adds to the property that
the send which holds a key is unique and its key in the cache, unless the cache
has evicted it (`KeyHeldOnce`), that entering the mailbox is the last thing a
thread does (`EnteredIsDone`), and that every dead letter is in the queue, popped
or counted as lost (`Letters`). At-most-once delivery per key is not inductive:
it takes the sends between the filter and the mailbox into account only through
`KeyHeldOnce`. Theorems: `DeliveryInvariant`, `DeliveryIsSafe`,
`RetriesArePassed`.

**Gossip** (`GossipMembershipProofs`), for any finite set of nodes, any timeouts,
any founding sets, any number of crashes, restarts, stops, announcements and
losses (`GossipAssumption`). `GossipIInv` says of the messages on their way what
`GossipInv` says of the tables: an incarnation in a table, a piggyback or a sync
response is one its node has had, and without losses none suspects a node that
was up all along (`GoodTable`, `GoodMessage`). The second half needs
`ProbesAnswered`: a ping of such a node is awaited only while it or its answer is
on its way, so that no period ends with it unanswered. Theorems:
`GossipInvariant`, `GossipIsSafe`, and `DeadIsNotRevived`, the safety half of
`DeadForGood` (an action property).

**Lifecycle** (`ActorLifecycleProofs`), for any messages, stoppers, reactivators,
policies and drain timers, any number of restarts and of operator commands, and
any set of drivers acting together (`LifecycleAssumption`). A driver is in the
middle of a program of operations, and its transition of `state_` is a load
followed by a compare-exchange, so the invariant has to speak about programs in
progress. `LifecycleIInv` says that

- every driver is in one of the programs of its role (`Programmed`), the state it
  has loaded has the edge it is about to take, and a program or a drain timer
  starts only where the last one has ended (`Turns`);
- the mailbox holds the queued messages, each once, and the worker the one it
  holds (`Mail`);
- an actor leaves `kStopped` only in a new incarnation, and a shutdown that went
  on has seen the actor stopped or its deadline pass (`Restarted`);
- while no operator has intervened, an actor that went out of service stays out,
  and went out after the messages of its drain or because the drain timer
  expired (`Served`), since each driver still knows what its operation relies on
  (`Knows`);
- the flag of the route is held by the reactivator at work (`OneClaim`).

`GracefulDrain` and `DownMeansDown` are not inductive: which messages a stop
discards depends on what the driver that is about to discard them found out
several operations earlier, and that is `Knows`. Theorems: `LifecycleInvariant`,
`LifecycleIsSafe`, and `TransitionsAreLegal`, the safety half of
`LifecycleProgress` (an action property).

## 6. What is only model-checked

- *Liveness*, which the prover does not do: `ClaimedIsConsumed`,
  `DeliveredUnlessOverlap`, `ReceivedUnlessLost`, `AdmittedAreRun`, `StreamEnds`,
  `DrainEnds` and `ShutdownEnds` of `LifecycleProgress`, `TimersEnd`,
  `EveryAskAnswered`, `EveryCallEnds`, the liveness half of `ReceiptResolvedOnce`,
  `PoolSettles`, `WritesProgress`, and `CrashNoticed`, the other half of
  `DeadForGood`.
- *What rests on induction over data*, which is out of the prover's reach:
  `MpscInv` and `CalendarInv` follow chains of links, `AdmissionInv` and
  `RuntimeSafety` sum over messages and observers, `StoresInv`, `StreamInv` and
  `ConnInv` filter and cut sequences.
- `DisruptorInv`, `QuiescentIsFinal`, `PlacementInv`, `TimersInv`, `FiresOnTime`
  and `PoolInv`: no inductive invariant is worked out for them.

## 7. What is left out

Of the modelled parts:

- weak memory: steps are sequentially consistent, except the late store of
  `accepting_user_`. `pop_bottom` relies on its read-modify-write to order the
  following load, which x86 gives and the C++ orders used do not promise;
- the fault injection points, taken as disarmed; counters and depth diagnostics
  that nothing decides by; tracing and metrics;
- in the scheduler: dedicated threads, `stop()`, test helpers, the portable
  condition-variable path, the deadline order of EDF queues, the choice of
  victims (any victim, and a scan may miss), and the early return for an actor
  that no longer exists;
- in the mailboxes: encoding of messages into envelopes, contents of dead
  letters, sender fairness, and `drain_all_now`, which has no caller;
- supervision directives other than restart; the blocking `get()` of handles and
  futures; byte limits and the control lane of the pool (nothing sends on it);
  resynchronisation of the frame reader; the ack ranges of `reliable_ack.cpp`;
  identity conflicts and partition policies of the cluster runtime; encodings
  and checksums of the stores, abstracted to whole or partial
  files (snapshots) or lines of digits (the outbox); in the pool, a second overlap
  in the queue after the first, which the first already leaves undefined.

Other parts of the repository are not modelled, for the reasons `PROJECT.json`
gives: sharding, receptionist and publish-subscribe (protocols of their own, left
out for their size), the registrar, other election strategies and backends,
coroutines, memory, event loops, HTTP and TLS, processes, configuration and
message types, observation, command line, bindings and applications.
