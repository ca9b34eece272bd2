--------------------------- MODULE WorkPlacement ---------------------------
(***************************************************************************)
(* Where a ready actor waits for a worker, and how workers find it:        *)
(* WorkPlacementScheduler (inject ring, shared-input stack, EDF queue and  *)
(* priority deques of each worker, pinning), the loop of WorkerThread with *)
(* polling, stealing and parking, WorkerPark, and the pause and resume of  *)
(* workers by HybridScheduler.                                             *)
(*                                                                         *)
(* Composition: how many work items an actor has at once is the subject of *)
(* ActorActivation; here each work item the ready gate admitted is         *)
(* followed until it has been run. That push, pop and steal of a deque are *)
(* single steps is what ChaseLevDeque shows, as long as only the owner     *)
(* pushes and pops. Steps that only read what no other thread changes, or  *)
(* that commute with all others, are merged.                               *)
(***************************************************************************)
EXTENDS Integers, Sequences, SequencesExt, FiniteSets

CONSTANTS
    Producers,
    Controller,      \* the thread that calls pause_workers and resume_workers
    Items,           \* work items; an item that has been run may be used again
    NumWorkers,
    Pin,             \* the worker its actor is pinned to (pinned_actors_), or Unpinned
    Unpinned,
    NumPriorities,
    Priority,        \* the priority it is notified with
    RingSize,        \* InjectRing::kCapacity (256 in the code)
    MaxPlacements, MaxPauses \* bounds

Workers == 0 .. NumWorkers - 1
Threads == Producers \cup Workers \cup {Controller}
Levels == 0 .. NumPriorities - 1
Nobody == "nobody"

ASSUME PlacementAssumption ==
    /\ NumWorkers \in Nat \ {0} /\ NumPriorities \in Nat \ {0} /\ RingSize \in Nat \ {0}
    /\ Unpinned \notin Workers /\ Pin \in [Items -> Workers \cup {Unpinned}]
    /\ Priority \in [Items -> 0 .. 255]

VARIABLES
    admitted,   \* the items notified and not yet run
    level,      \* the priority of each item
    edf_scheduled, \* the items that ask for EDF scheduling
    ring,       \* inject_ring: the claimed slots from head on, published or not
    stack,      \* shared_input, newest first
    edf,        \* edf_queue
    deque,      \* queues: one deque per priority, top first
    side,       \* pinned_ready_
    rr,         \* rr_counter modulo the number of workers
    parked,     \* WorkerPark::parked
    current,    \* WorkerPark::seq is still what begin_park returned
    paused,     \* workers_paused_
    pc, hand,   \* a thread's step and its work item
    dest,       \* the worker it enqueues to or takes EDF work from
    goal,       \* why a worker looks for work: "find" and "poll" in the loop,
                \* "park" before it parks
    dropped,    \* history: the items pop_local dropped
    raced,      \* history: an EDF queue was used by two threads at once
    unowned,    \* history: a side deque was flushed into a deque in use
    flushed,    \* history: the workers that got flushed items since they last looked
    placements, pauses

queues == <<ring, stack, edf, deque, side>>
park == <<parked, current>>
thread == <<pc, hand, dest, goal>>
history == <<dropped, raced, unowned, flushed>>
counters == <<placements, pauses>>
vars == <<admitted, level, edf_scheduled, queues, rr, park, paused, thread, history, counters>>

Init ==
    /\ admitted = {} /\ level = Priority /\ edf_scheduled = {}
    /\ ring = [w \in Workers |-> <<>>]
    /\ stack = [w \in Workers |-> <<>>]
    /\ edf = [w \in Workers |-> {}]
    /\ deque = [w \in Workers |-> [p \in Levels |-> <<>>]]
    /\ side = [w \in Workers |-> <<>>]
    /\ rr = 0
    /\ parked = [w \in Workers |-> FALSE]
    /\ current = [w \in Workers |-> FALSE]
    /\ paused = FALSE
    /\ pc = [t \in Threads |-> IF t \in Workers THEN "loop" ELSE "idle"]
    /\ hand = [t \in Threads |-> Nobody]
    /\ dest = [t \in Threads |-> 0]
    /\ goal = [w \in Workers |-> "find"]
    /\ dropped = {} /\ raced = FALSE /\ unowned = FALSE /\ flushed = {}
    /\ placements = 0 /\ pauses = 0

Goto(t, step) == pc' = [pc EXCEPT ![t] = step]

-----------------------------------------------------------------------------
\* Placement of a work item: enqueue_admitted, enqueue_shared and WorkerPark::wake,
\* by a notifying thread or by the worker that ran the actor

\* notify_ready and, with edf_item, notify_ready_edf, when the ready gate admits the actor.
Notify(p, a, edf_item) ==
    /\ pc[p] = "idle" /\ a \notin admitted
    /\ placements < MaxPlacements /\ placements' = placements + 1
    /\ admitted' = admitted \cup {a}
    /\ edf_scheduled' = IF edf_item THEN edf_scheduled \cup {a} ELSE edf_scheduled
    /\ hand' = [hand EXCEPT ![p] = a]
    /\ Goto(p, "place")
    /\ UNCHANGED <<level, queues, rr, park, paused, dest, goal, history, pauses>>

\* The load of workers_paused_ and choose_worker; the side deque of a pinned actor
\* is written in a later step.
ChooseWorker(t) ==
    /\ pc[t] = "place"
    /\ IF Pin[hand[t]] = Unpinned
       THEN /\ dest' = [dest EXCEPT ![t] = rr]
            /\ rr' = (rr + 1) % NumWorkers
       ELSE /\ dest' = [dest EXCEPT ![t] = Pin[hand[t]]]
            /\ UNCHANGED rr
    /\ Goto(t, IF paused /\ Pin[hand[t]] # Unpinned THEN "aside"
               ELSE IF hand[t] \in edf_scheduled THEN "deadline" ELSE "claim")
    /\ UNCHANGED <<admitted, level, edf_scheduled, queues, park, paused, hand, goal, history, counters>>

\* What a thread does after it has placed its item.
Rest(t) == IF t \in Workers THEN "loop" ELSE "idle"

\* The workers were paused: the item of a pinned actor goes to the side deque.
PlaceAside(t) ==
    /\ pc[t] = "aside"
    /\ side' = [side EXCEPT ![dest[t]] = Append(@, hand[t])]
    /\ hand' = [hand EXCEPT ![t] = Nobody]
    /\ dest' = [dest EXCEPT ![t] = 0]
    /\ Goto(t, Rest(t))
    /\ UNCHANGED <<admitted, level, edf_scheduled, ring, stack, edf, deque, rr, park, paused, goal,
                   history, counters>>

\* Another thread is between its read of the EDF queue's first item and its removal.
EdfInUse(t, w) == \E u \in Workers \ {t} : pc[u] = "remove" /\ dest[u] = w

EdfPush(t) ==
    /\ pc[t] = "deadline"
    /\ edf' = [edf EXCEPT ![dest[t]] = @ \cup {hand[t]}]
    /\ raced' = (raced \/ EdfInUse(t, dest[t]))
    /\ hand' = [hand EXCEPT ![t] = Nobody]
    /\ Goto(t, "bump")
    /\ UNCHANGED <<admitted, level, edf_scheduled, ring, stack, deque, side, rr, park, paused, dest, goal, dropped, unowned, flushed, counters>>

\* InjectRing::try_push: claim a slot by the compare-exchange on tail, then
\* publish it; a full ring sends the item to the shared-input stack.
RingClaim(t) ==
    /\ pc[t] = "claim"
    /\ IF Len(ring[dest[t]]) < RingSize
       THEN /\ ring' = [ring EXCEPT ![dest[t]] =
                            Append(@, [item |-> hand[t], published |-> FALSE])]
            /\ Goto(t, "publish")
       ELSE Goto(t, "push") /\ UNCHANGED ring
    /\ UNCHANGED <<admitted, level, edf_scheduled, stack, edf, deque, side, rr, park, paused, hand, dest,
                   goal, history, counters>>

RingPublish(t) ==
    /\ pc[t] = "publish"
    /\ ring' = [ring EXCEPT ![dest[t]] =
                   [i \in DOMAIN @ |-> IF @[i].item = hand[t]
                                       THEN [@[i] EXCEPT !.published = TRUE] ELSE @[i]]]
    /\ hand' = [hand EXCEPT ![t] = Nobody]
    /\ Goto(t, "bump")
    /\ UNCHANGED <<admitted, level, edf_scheduled, stack, edf, deque, side, rr, park, paused, dest, goal, history, counters>>

StackPush(t) ==
    /\ pc[t] = "push"
    /\ stack' = [stack EXCEPT ![dest[t]] = <<hand[t]>> \o @]
    /\ hand' = [hand EXCEPT ![t] = Nobody]
    /\ Goto(t, "bump")
    /\ UNCHANGED <<admitted, level, edf_scheduled, ring, edf, deque, side, rr, park, paused, dest, goal, history, counters>>

\* wake(): seq is incremented, then parked is read and futex_wake_one called.
WakeBump(t) ==
    /\ pc[t] = "bump"
    /\ current' = [current EXCEPT ![dest[t]] = FALSE]
    /\ Goto(t, "signal")
    /\ UNCHANGED <<admitted, level, edf_scheduled, queues, rr, parked, paused, hand, dest, goal,
                   history, counters>>

WakeSignal(t) ==
    /\ pc[t] = "signal"
    /\ pc' = [u \in Threads |->
                 IF u = t THEN Rest(t)
                 ELSE IF u = dest[t] /\ parked[u] /\ pc[u] = "sleep" THEN "end_park" ELSE pc[u]]
    /\ dest' = [dest EXCEPT ![t] = 0]
    /\ UNCHANGED <<admitted, level, edf_scheduled, queues, rr, park, paused, hand, goal, history,
                   counters>>

-----------------------------------------------------------------------------
\* A worker looks for work: thread_loop, pop_local and try_steal

\* One turn of thread_loop starts when wait_if_paused returns.
Loop(w) ==
    /\ pc[w] = "loop" /\ ~paused
    /\ Goto(w, "drain")
    /\ UNCHANGED <<admitted, level, edf_scheduled, queues, rr, park, paused, hand, dest, goal,
                   history, counters>>

\* try_pop returns items until it meets a slot that is not published.
Published(r) == {n \in 0 .. Len(r) : \A i \in 1 .. n : r[i].published}
PublishedPrefix(r) == CHOOSE n \in Published(r) : \A m \in Published(r) : m <= n

\* The ring in its order, then the stack from its oldest item on.
Input(w) == [i \in 1 .. PublishedPrefix(ring[w]) |-> ring[w][i].item] \o Reverse(stack[w])

\* Ring and stack are moved to the deques in one step: each move only appends at
\* the bottom of a deque.
Drain(w) ==
    /\ pc[w] = "drain"
    /\ deque' = [deque EXCEPT ![w] =
           [p \in Levels |-> @[p] \o SelectSeq(Input(w), LAMBDA a : level[a] = p)]]
    /\ dropped' = dropped \cup {a \in Range(Input(w)) : level[a] \notin Levels}
    /\ ring' = [ring EXCEPT ![w] = SubSeq(@, PublishedPrefix(@) + 1, Len(@))]
    /\ stack' = [stack EXCEPT ![w] = <<>>]
    /\ flushed' = flushed \ {w}
    /\ Goto(w, "pop")
    /\ UNCHANGED <<admitted, level, edf_scheduled, edf, side, rr, park, paused, hand, dest, goal,
                   raced, unowned, counters>>

\* The worker has an item: it calls end_park() if it was about to park.
Found(w, a, step) ==
    /\ hand' = [hand EXCEPT ![w] = a]
    /\ parked' = [parked EXCEPT ![w] = FALSE]
    /\ current' = [current EXCEPT ![w] = FALSE]
    /\ goal' = [goal EXCEPT ![w] = "find"]
    /\ Goto(w, step)

\* pop_edf of the owner and the pop of a thief take no lock: the first item is
\* read, later it is removed. The order of deadlines is left open.
EdfRead(w, v, a) ==
    /\ \/ pc[w] = "pop" /\ v = w
       \/ pc[w] = "steal"
    /\ a \in edf[v]
    /\ raced' = (raced \/ EdfInUse(w, v))
    /\ dest' = [dest EXCEPT ![w] = v]
    /\ Found(w, a, "remove")
    /\ UNCHANGED <<admitted, level, edf_scheduled, queues, rr, paused, dropped, unowned, flushed, counters>>

\* Two threads in the heap at once is a data race: any one item, or none, may go.
EdfRemove(w) ==
    /\ pc[w] = "remove"
    /\ \E gone \in SUBSET edf[dest[w]] :
          /\ IF raced THEN Cardinality(gone) <= 1 ELSE gone = {hand[w]}
          /\ edf' = [edf EXCEPT ![dest[w]] = @ \ gone]
    /\ dest' = [dest EXCEPT ![w] = 0]
    /\ Goto(w, "found")
    /\ UNCHANGED <<admitted, level, edf_scheduled, ring, stack, deque, side, rr, park, paused, hand, goal, history, counters>>

\* Mutant: pop_local and try_steal look at the first priority level only.
FirstLevelZero(v) == {p \in {0} : deque[v][p] # <<>>}

\* The first priority level of worker v with an item.
FirstLevel(v) ==
    {p \in Levels : deque[v][p] # <<>> /\ \A q \in Levels : q < p => deque[v][q] = <<>>}

PopBottom(w) ==
    /\ pc[w] = "pop" /\ edf[w] = {}
    /\ \E p \in FirstLevel(w) :
          /\ deque' = [deque EXCEPT ![w][p] = Front(@)]
          /\ Found(w, Last(deque[w][p]), "found")
    /\ UNCHANGED <<admitted, level, edf_scheduled, ring, stack, edf, side, rr, paused, dest, history, counters>>

PopNothing(w) ==
    /\ pc[w] = "pop" /\ edf[w] = {} /\ FirstLevel(w) = {}
    /\ Goto(w, IF goal[w] = "find" THEN "idle" ELSE "steal")
    /\ UNCHANGED <<admitted, level, edf_scheduled, queues, rr, park, paused, hand, dest, goal,
                   history, counters>>

\* The attempt of try_steal that succeeds. Its victim is the one A2WS's hint names;
\* the hints move with every miss of every thief, so it may be any worker. The
\* victim works on meanwhile, so queues the thief has passed need not be empty.
StealTop(w, v, p) ==
    /\ pc[w] = "steal" /\ deque[v][p] # <<>>
    /\ deque' = [deque EXCEPT ![v][p] = Tail(@)]
    /\ Found(w, Head(deque[v][p]), "found")
    /\ UNCHANGED <<admitted, level, edf_scheduled, ring, stack, edf, side, rr, paused, dest,
                   history, counters>>

\* No attempt succeeds: each found its victim's queues empty when it looked, or
\* lost the compare-exchange on a deque.
StealNothing(w) ==
    /\ pc[w] = "steal"
    /\ goal' = [goal EXCEPT ![w] = "find"]
    /\ Goto(w, IF goal[w] = "poll" THEN "loop" ELSE "wait")
    /\ UNCHANGED <<admitted, level, edf_scheduled, queues, rr, park, paused, hand, dest,
                   history, counters>>

-----------------------------------------------------------------------------
\* Polling and parking: try_poll_idle, enter_cv_block and WorkerPark

\* Within the polling budget: back off, and steal at every 64th poll.
Poll(w) ==
    /\ pc[w] = "idle"
    /\ Goto(w, "loop")
    /\ UNCHANGED <<admitted, level, edf_scheduled, queues, rr, park, paused, hand, dest, goal,
                   history, counters>>

PollSteal(w) ==
    /\ pc[w] = "idle"
    /\ goal' = [goal EXCEPT ![w] = "poll"]
    /\ Goto(w, "steal")
    /\ UNCHANGED <<admitted, level, edf_scheduled, queues, rr, park, paused, hand, dest, history,
                   counters>>

\* begin_park: the snapshot of seq, then the flag.
ParkSnap(w) ==
    /\ pc[w] = "idle"
    /\ current' = [current EXCEPT ![w] = TRUE]
    /\ Goto(w, "advertise")
    /\ UNCHANGED <<admitted, level, edf_scheduled, queues, rr, parked, paused, hand, dest, goal,
                   history, counters>>

ParkAdvertise(w) ==
    /\ pc[w] = "advertise"
    /\ parked' = [parked EXCEPT ![w] = TRUE]
    /\ goal' = [goal EXCEPT ![w] = "park"]
    /\ Goto(w, "drain")
    /\ UNCHANGED <<admitted, level, edf_scheduled, queues, rr, current, paused, hand, dest,
                   history, counters>>

\* Mutant: futex_wait without the comparison of seq with the snapshot.
ParkWaitBlind(w) ==
    /\ pc[w] = "wait"
    /\ Goto(w, "sleep")
    /\ UNCHANGED <<admitted, level, edf_scheduled, queues, rr, park, paused, hand, dest, goal,
                   history, counters>>

ParkWait(w) ==
    /\ pc[w] = "wait"
    /\ Goto(w, IF current[w] THEN "sleep" ELSE "end_park")
    /\ UNCHANGED <<admitted, level, edf_scheduled, queues, rr, park, paused, hand, dest, goal,
                   history, counters>>

\* The timeout of futex_wait, between 1 ms and 30 s.
Timeout(w) ==
    /\ pc[w] = "sleep"
    /\ Goto(w, "end_park")
    /\ UNCHANGED <<admitted, level, edf_scheduled, queues, rr, park, paused, hand, dest, goal,
                   history, counters>>

EndPark(w) ==
    /\ pc[w] = "end_park"
    /\ parked' = [parked EXCEPT ![w] = FALSE]
    /\ current' = [current EXCEPT ![w] = FALSE]
    /\ Goto(w, "loop")
    /\ UNCHANGED <<admitted, level, edf_scheduled, queues, rr, paused, hand, dest, goal, history,
                   counters>>

-----------------------------------------------------------------------------
\* Dispatch

\* mark_dispatch_begin
BeginDispatch(w) ==
    /\ pc[w] = "found"
    /\ Goto(w, "run")
    /\ UNCHANGED <<admitted, level, edf_scheduled, queues, rr, park, paused, hand, dest, goal,
                   history, counters>>

\* The run did not ask for the actor to be requeued.
Finish(w) ==
    /\ pc[w] = "run"
    /\ admitted' = admitted \ {hand[w]}
    /\ level' = [level EXCEPT ![hand[w]] = Priority[hand[w]]]
    /\ edf_scheduled' = edf_scheduled \ {hand[w]}
    /\ hand' = [hand EXCEPT ![w] = Nobody]
    /\ Goto(w, "loop")
    /\ UNCHANGED <<queues, rr, park, paused, dest, goal, history, counters>>

\* RequeueReady: the item is placed again, with priority 0.
Requeue(w) ==
    /\ pc[w] = "run" /\ placements < MaxPlacements
    /\ placements' = placements + 1
    /\ level' = [level EXCEPT ![hand[w]] = 0]
    /\ Goto(w, "place")
    /\ UNCHANGED <<admitted, edf_scheduled, queues, rr, park, paused, hand, dest, goal, history,
                   pauses>>

-----------------------------------------------------------------------------
\* pause_workers and resume_workers

Placing == {"place", "aside", "deadline", "claim", "publish", "push", "bump", "signal"}

Pause ==
    /\ pc[Controller] = "idle" /\ pauses < MaxPauses
    /\ pauses' = pauses + 1
    /\ paused' = TRUE
    /\ Goto(Controller, "pausing")
    /\ UNCHANGED <<admitted, level, edf_scheduled, queues, rr, park, hand, dest, goal, history,
                   placements>>

\* active_worker_dispatches_ is zero.
PauseReturn ==
    /\ pc[Controller] = "pausing" /\ \A w \in Workers : pc[w] \notin {"run"} \cup Placing
    /\ Goto(Controller, "held")
    /\ UNCHANGED <<admitted, level, edf_scheduled, queues, rr, park, paused, hand, dest, goal,
                   history, counters>>

\* The worker is about to push to or pop from its own deques, or doing so.
InPopLocal(w) == pc[w] \in {"drain", "pop"}

\* flush_pinned_to_shared: push_bottom on each worker's deque 0.
FlushPinned ==
    /\ pc[Controller] = "held"
    /\ deque' = [w \in Workers |-> [deque[w] EXCEPT ![0] = @ \o side[w]]]
    /\ level' = [a \in Items |-> IF \E w \in Workers : a \in Range(side[w]) THEN 0 ELSE level[a]]
    /\ side' = [w \in Workers |-> <<>>]
    /\ flushed' = flushed \cup {w \in Workers : side[w] # <<>>}
    /\ unowned' = (unowned \/ \E w \in Workers : side[w] # <<>> /\ InPopLocal(w))
    /\ Goto(Controller, "resuming")
    /\ UNCHANGED <<admitted, edf_scheduled, ring, stack, edf, rr, park, paused, hand, dest, goal,
                   dropped, raced, counters>>

Resume ==
    /\ pc[Controller] = "resuming"
    /\ paused' = FALSE
    /\ Goto(Controller, "idle")
    /\ UNCHANGED <<admitted, level, edf_scheduled, queues, rr, park, hand, dest, goal, history,
                   counters>>

-----------------------------------------------------------------------------
PlaceStep(t) ==
    \/ ChooseWorker(t) \/ PlaceAside(t) \/ EdfPush(t) \/ RingClaim(t)
    \/ RingPublish(t) \/ StackPush(t) \/ WakeBump(t) \/ WakeSignal(t)

WorkerStep(w) ==
    \/ PlaceStep(w)
    \/ Loop(w) \/ Drain(w)
    \/ \E v \in Workers, a \in Items : EdfRead(w, v, a)
    \/ EdfRemove(w) \/ PopBottom(w) \/ PopNothing(w)
    \/ \E v \in Workers, p \in Levels : StealTop(w, v, p)
    \/ StealNothing(w)
    \/ Poll(w) \/ PollSteal(w) \/ ParkSnap(w) \/ ParkAdvertise(w) \/ ParkWait(w) \/ EndPark(w)
    \/ BeginDispatch(w) \/ Finish(w) \/ Requeue(w)

Next ==
    \/ \E p \in Producers : PlaceStep(p) \/ \E a \in Items, e \in BOOLEAN : Notify(p, a, e)
    \/ \E w \in Workers : WorkerStep(w) \/ Timeout(w)
    \/ Pause \/ PauseReturn \/ FlushPinned \/ Resume

Spec == Init /\ [][Next]_vars

\* Threads keep running; a worker that sleeps need not time out, and nobody need
\* call notify_ready or pause_workers.
FairSpec ==
    /\ Spec
    /\ \A p \in Producers : WF_vars(PlaceStep(p))
    /\ \A w \in Workers : WF_vars(WorkerStep(w))
    /\ WF_vars(PauseReturn \/ FlushPinned \/ Resume)

-----------------------------------------------------------------------------
\* Properties

\* Every variable stays in its range.
TypeOK ==
    /\ admitted \subseteq Items /\ edf_scheduled \subseteq Items /\ level \in [Items -> 0 .. 255]
    /\ \A w \in Workers :
          /\ ring[w] \in Seq([item : Items, published : BOOLEAN]) /\ Len(ring[w]) <= RingSize
          /\ stack[w] \in Seq(Items) /\ side[w] \in Seq(Items)
          /\ \A p \in Levels : deque[w][p] \in Seq(Items)
    /\ edf \in [Workers -> SUBSET Items] /\ rr \in Workers
    /\ parked \in [Workers -> BOOLEAN] /\ current \in [Workers -> BOOLEAN] /\ paused \in BOOLEAN
    /\ hand \in [Threads -> Items \cup {Nobody}] /\ dest \in [Threads -> Workers]
    /\ goal \in [Workers -> {"find", "poll", "park"}]
    /\ dropped \subseteq Items /\ flushed \subseteq Workers

\* Where an item is: in the hands of threads and in queues.
Held(a) ==
    {t \in Threads : hand[t] = a /\ pc[t] \in {"place", "aside", "deadline", "claim", "push",
                                              "found", "run"}}
Positions == 1 .. 2 * Cardinality(Items)
At(a, queue) == {<<w, i>> \in Workers \X Positions : i \in DOMAIN queue[w] /\ queue[w][i] = a}
Queued(a) ==
    Cardinality(At(a, stack)) + Cardinality(At(a, side))
    + Cardinality({w \in Workers : a \in edf[w]})
    + Cardinality(At(a, [w \in Workers |-> [i \in DOMAIN ring[w] |-> ring[w][i].item]]))
    + Cardinality({<<w, p, i>> \in Workers \X Levels \X Positions :
                      i \in DOMAIN deque[w][p] /\ deque[w][p][i] = a})

\* An admitted work item is in exactly one queue or one thread's hands, through
\* injection, overflow to the stack, draining, stealing, requeueing and pinning,
\* and one that has been run is nowhere: no item is lost or run by two workers.
\* The exceptions are an item dropped for its priority, an EDF queue two threads
\* used at once, and a flush into a deque its owner is using.
EachItemOnce ==
    ~raced /\ ~unowned =>
        \A a \in Items : Cardinality(Held(a)) + Queued(a) =
                             IF a \in admitted \ dropped THEN 1 ELSE 0

HasWork(w) ==
    \/ PublishedPrefix(ring[w]) > 0
    \/ stack[w] # <<>> \/ edf[w] # {}
    \/ FirstLevel(w) # {}

\* A worker does not sleep on work: when something is in the queues of a worker
\* in futex_wait, the thread that put it there has still to call wake(), however
\* begin_park, the recheck and the producers' wake() interleave. The exception is
\* work flushed from a side deque, which comes without a wake.
NoLostWakeup ==
    \A w \in Workers : pc[w] = "sleep" /\ HasWork(w) =>
        w \in flushed \/ \E t \in Threads : pc[t] \in {"bump", "signal"} /\ dest[t] = w

\* Placement's safety: an admitted item is in one place, and no worker sleeps on one.
PlacementInv == TypeOK /\ EachItemOnce /\ NoLostWakeup

\* With fair threads no ready item is forgotten: when no more work is placed (the
\* bound MaxPlacements) every admitted item is run, although
\* sleeping workers never time out and no steal need succeed, unless one of the
\* exceptions above happened or the item waits in a side deque.
AdmittedAreRun ==
    []<>(\/ raced \/ unowned \/ flushed # {}
         \/ admitted \subseteq dropped \cup UNION {Range(side[w]) : w \in Workers})

\* What "Wait until no worker is inside actor code" in pause_workers is for: once
\* it has returned no worker runs an actor until resume_workers.
PausedIsQuiet ==
    pc[Controller] = "held" => \A w \in Workers : pc[w] # "run"

\* Every priority a mailbox may be configured with has a queue: no work item
\* is dropped.
NoneDropped == dropped = {}

\* resume_workers leaves nothing in the side deques.
SideFlushed ==
    (~paused /\ \A t \in Threads : pc[t] \notin Placing) => \A w \in Workers : side[w] = <<>>
=============================================================================
