------------------------------- MODULE Timers -------------------------------
(***************************************************************************)
(* HybridScheduler's timers: schedule_after, schedule_every, cancel_timer, *)
(* the timer thread, and below them either of two hierarchical wheels: the *)
(* TimingWheel (ids from a counter) or a shard of the TimerPlane (ids made *)
(* of a slot and a generation that wraps).                                 *)
(*                                                                         *)
(* Every wheel operation runs under the wheel's mutex and is one step.     *)
(* Callbacks run on the timer thread after the mutex is released.  Time is *)
(* counted in units of which Tick make one tick of level 0.  The order of  *)
(* the callbacks of one advance() is left open.                            *)
(***************************************************************************)
EXTENDS Integers, FiniteSets, FiniteSetsExt

CONSTANTS
    OneShots, Recurring, \* timers, by the call that creates them
    Backends,        \* which of "TimingWheel", "TimerPlane" to explore
    Tick,            \* tick_ns (1 ms)
    Buckets,         \* kBucketsPerLevel (256)
    Levels,          \* kNumLevels (4)
    MaxAdvance,      \* kMaxAdvanceNs (100 ms)
    MaxSleep,        \* the longest sleep of the timer thread (100 ms)
    Slots,           \* slots of a shard (65536)
    Generations,     \* values of a generation (256)
    Plans,           \* bound: the timers used in a behaviour, their delays, how long it lasts
    Origin,          \* steady_clock when the scheduler is built
    Jumps,           \* bound: how far the clock moves in one step
    NoNode           \* model value: no node in the wheel

TimerIds == OneShots \cup Recurring
SlotSet == 0 .. Slots - 1
Forever == 1000000      \* INT64_MAX

ASSUME TimersAssumption ==
    /\ IsFiniteSet(TimerIds) /\ OneShots \cap Recurring = {}
    /\ Backends \subseteq {"TimingWheel", "TimerPlane"}
    /\ {Tick, Buckets, Levels, MaxSleep, Slots} \subseteq Nat \ {0}
    /\ Generations \in Nat /\ Generations > 1
    /\ MaxAdvance \in Nat \ {0} /\ MaxAdvance <= Tick * (Buckets - 1)
    /\ Jumps \subseteq Nat /\ Origin \in Nat
    /\ \A p \in Plans : p.timers \subseteq TimerIds /\ p.delays \subseteq Nat /\ p.until \in Nat

VARIABLES
    plan,         \* the timers, delays and length of this behaviour
    backend,      \* the alternative timer_backend_ holds
    clock,        \* steady_clock::now()
    now,          \* current_time_ of the wheel
    node,         \* per timer its node: [id, expire, level, bucket]
    min_deadline, \* min_deadline_
    next_id,      \* next_timer_id_ of the TimingWheel
    generation,   \* generations_ of the shard
    reused,       \* history: per timer, how often the slot of its handle was taken again
    call, base,   \* per timer: stage of the client's call, the time schedule() read
    delay, handle,\* per timer: its delay, the handle its client holds (0: none)
    stopped,      \* the shared cancellation flag of a recurring timer
    collected,    \* callbacks advance() took out of the wheel and has still to call
    rearm,        \* recurring callbacks that ran and have still to reschedule
    thread,       \* stage of the timer thread
    wake_at,      \* when its wait times out
    recheck,      \* timer_needs_recheck_
    running,      \* running_
    runs,         \* history: per timer, how often its callback ran (0, 1, 2 = more)
    answer        \* history: what cancel() of its handle found: "none", "own",
                  \* "other" (another timer's node), "miss"

wheel == <<now, node, min_deadline, next_id, generation, reused>>
client == <<call, base, delay, handle>>
timer_thread == <<thread, wake_at>>
history == <<runs, answer>>
vars == <<plan, backend, clock, wheel, client, stopped, collected, rearm, timer_thread,
          recheck, running, history>>

Stages == {"advance", "callbacks", "decided", "park", "asleep", "exited"}
Node == [id : Nat, expire : Nat, level : 0 .. Levels - 1, bucket : 0 .. Buckets - 1]

(***************************************************************************)
(* The wheel                                                               *)
(***************************************************************************)
\* tick_ns * Buckets^(level+1)
Pow[n \in Nat] == IF n = 0 THEN 1 ELSE Buckets * Pow[n - 1]
LevelRange(l) == Tick * Pow[l + 1]
\* The bucket of an absolute time at a level.
BucketOf(time, l) == ((time \div Tick) \div Pow[l]) % Buckets
\* The level of a delay: the first whose range covers it, else the highest.
LevelOf(diff) ==
    LET covering == {l \in 0 .. Levels - 1 : diff < LevelRange(l)}
    IN IF covering = {} THEN Levels - 1 ELSE Min(covering)

InWheel(n) == {t \in TimerIds : n[t] # NoNode}
MinDeadline(n) == Min({n[t].expire : t \in InWheel(n)} \cup {Forever})

\* insert_timer / insert_into_wheel.  The TimingWheel places a time that has passed in
\* the current bucket and keeps the node's expire_ns; the shard moves it one tick ahead.
Place(id, expire) ==
    LET at == Max({expire, IF backend = "TimerPlane" THEN now + Tick ELSE now})
        l == LevelOf(at - now)
    IN [id |-> id, expire |-> IF backend = "TimerPlane" THEN at ELSE expire,
        level |-> l, bucket |-> BucketOf(at, l)]

\* The shard encodes a slot and its generation, which skips 0 when it wraps.
NextGeneration(s) ==
    IF (generation[s] + 1) % Generations = 0 THEN 1 ELSE (generation[s] + 1) % Generations
Encode(s, g) == g * Slots + s
SlotOf(id) == id % Slots
FreeSlots == SlotSet \ {SlotOf(node[t].id) : t \in InWheel(node)}

\* The handle of the next node: 0 when the shard has no free slot.
NextHandles ==
    IF backend = "TimingWheel" THEN {next_id}
    ELSE IF FreeSlots = {} THEN {0} ELSE {Encode(s, NextGeneration(s)) : s \in FreeSlots}

\* schedule under the mutex: t's node is in the wheel with handle h, or the shard is
\* full and the callback is dropped.
Insert(t, expire, h) ==
    IF h = 0 THEN UNCHANGED wheel
    ELSE /\ node' = [node EXCEPT ![t] = Place(h, expire)]
         /\ min_deadline' = Min({min_deadline, node'[t].expire})
         /\ next_id' = next_id + 1
         /\ generation' = IF backend = "TimingWheel" THEN generation
                          ELSE [generation EXCEPT ![SlotOf(h)] = NextGeneration(SlotOf(h))]
         /\ reused' = [u \in TimerIds |->
                IF backend = "TimerPlane" /\ handle[u] # 0 /\ SlotOf(handle[u]) = SlotOf(h)
                THEN Min({reused[u] + 1, Generations}) ELSE reused[u]]
         /\ UNCHANGED now

(***************************************************************************)
(* The clients                                                             *)
(***************************************************************************)
\* schedule() of the TimingWheel reads current_time_ before it takes the mutex.
ReadTime(t, d) ==
    /\ t \in plan.timers /\ call[t] = "new" /\ running
    /\ call' = [call EXCEPT ![t] = "read"]
    /\ base' = [base EXCEPT ![t] = IF backend = "TimerPlane" THEN 0 ELSE now]
    /\ delay' = [delay EXCEPT ![t] = d]
    /\ UNCHANGED <<plan, backend, clock, wheel, handle, stopped, collected, rearm, timer_thread,
                   recheck, running, history>>

\* The rest of schedule(): the shard reads its own time under the mutex.
Schedule(t) ==
    /\ call[t] = "read"
    /\ \E h \in NextHandles :
          /\ Insert(t, (IF backend = "TimerPlane" THEN now ELSE base[t]) + delay[t], h)
          /\ handle' = [handle EXCEPT ![t] = h]
    /\ call' = [call EXCEPT ![t] = "notify"]
    /\ base' = [base EXCEPT ![t] = 0]
    /\ delay' = IF t \in Recurring THEN delay ELSE [delay EXCEPT ![t] = 0]
    /\ UNCHANGED <<plan, backend, clock, stopped, collected, rearm, timer_thread,
                   recheck, running, history>>

\* notify_one wakes a waiting thread, which evaluates its predicate again.
Notify == thread' = IF thread = "asleep" THEN "park" ELSE thread

\* schedule_after and schedule_every: set the flag, notify without the mutex.
NotifyThread(t) ==
    /\ call[t] = "notify"
    /\ call' = [call EXCEPT ![t] = "done"]
    /\ recheck' = TRUE
    /\ Notify
    /\ UNCHANGED <<plan, backend, clock, wheel, base, delay, handle, stopped, collected, rearm,
                   wake_at, running, history>>

\* Mutant: the shard looks at the slot only.
TargetBySlot(h) ==
    {u \in InWheel(node) : IF backend = "TimerPlane" THEN SlotOf(node[u].id) = SlotOf(h)
                           ELSE node[u].id = h}

\* The node a handle reaches: by id in timer_map_, by slot and generation in the shard.
Target(h) == {u \in InWheel(node) : node[u].id = h}

\* cancel_timer: flag a recurring chain, then remove the node the handle reaches.
CancelTimer(t) ==
    /\ call[t] = "done" /\ handle[t] # 0 /\ answer[t] = "none"
    /\ stopped' = IF t \in Recurring THEN [stopped EXCEPT ![t] = TRUE] ELSE stopped
    /\ LET hit == Target(handle[t]) IN
       /\ answer' = [answer EXCEPT ![t] = IF hit = {} THEN "miss"
                                          ELSE IF t \in hit THEN "own" ELSE "other"]
       /\ node' = [u \in TimerIds |-> IF u \in hit THEN NoNode ELSE node[u]]
       /\ min_deadline' = IF \E u \in hit : node[u].expire <= min_deadline
                          THEN MinDeadline(node') ELSE min_deadline
    /\ UNCHANGED <<plan, backend, clock, now, next_id, generation, reused, client, collected, rearm,
                   timer_thread, recheck, running, runs>>

\* stop(): clear running_, wake the timer thread, join it.
Stop ==
    /\ running
    /\ running' = FALSE
    /\ recheck' = TRUE
    /\ Notify
    /\ UNCHANGED <<plan, backend, clock, wheel, client, stopped, collected, rearm, wake_at, history>>

(***************************************************************************)
(* The timer thread                                                        *)
(***************************************************************************)
\* Buckets from that of the old time to that of the new one, around the wheel.
Visited(old, new, l) ==
    LET start == BucketOf(old, l)
        count == ((BucketOf(new, l) - start + Buckets) % Buckets) + 1
    IN {(start + i) % Buckets : i \in 0 .. count - 1}

\* Mutant: the cascade keeps the bucket index of the higher level.
AdvancedSameBucket(old, new) ==
    [t \in TimerIds |->
        IF node[t] = NoNode \/ node[t].bucket \notin Visited(old, new, node[t].level)
        THEN node[t]
        ELSE IF node[t].expire <= new THEN NoNode
        ELSE IF node[t].level = 0 THEN node[t]
        ELSE [node[t] EXCEPT !.level = @ - 1]]

\* advance: levels in ascending order, so that a node is met at most once.  An expired
\* node is taken out; another one of a higher level moves one level down.
Advanced(old, new) ==
    [t \in TimerIds |->
        IF node[t] = NoNode \/ node[t].bucket \notin Visited(old, new, node[t].level)
        THEN node[t]
        ELSE IF node[t].expire <= new THEN NoNode
        ELSE IF node[t].level = 0 THEN node[t]
        ELSE [node[t] EXCEPT !.level = @ - 1,
                             !.bucket = BucketOf(node[t].expire, node[t].level - 1)]]

\* One turn of the loop: advance_time(now).  Each step is capped.
AdvanceTime ==
    /\ thread = "advance" /\ running
    /\ LET target == IF clock - now > MaxAdvance THEN now + MaxAdvance ELSE clock IN
       IF clock <= now THEN UNCHANGED <<wheel, collected>>
       ELSE /\ now' = target
            /\ node' = Advanced(now, target)
            /\ collected' = InWheel(node) \ InWheel(node')
            /\ min_deadline' = IF collected' # {} THEN MinDeadline(node') ELSE min_deadline
            /\ UNCHANGED <<next_id, generation, reused>>
    /\ thread' = "callbacks"
    /\ UNCHANGED <<plan, backend, clock, client, stopped, rearm, wake_at, recheck, running, history>>

Count(t) == runs' = [runs EXCEPT ![t] = Min({@ + 1, 2})]

\* cb(): a recurring one returns at once when it was cancelled or the scheduler stops.
Callback(t) ==
    /\ thread = "callbacks" /\ rearm = {} /\ t \in collected
    /\ collected' = collected \ {t}
    /\ IF t \in Recurring /\ (stopped[t] \/ ~running)
       THEN UNCHANGED <<runs, rearm>>
       ELSE /\ Count(t)
            /\ rearm' = IF t \in Recurring THEN {t} ELSE {}
    /\ UNCHANGED <<plan, backend, clock, wheel, client, stopped, timer_thread, recheck, running, answer>>

\* The end of a recurring callback: schedule the next one unless it was cancelled.
Rearm(t) ==
    /\ thread = "callbacks" /\ t \in rearm
    /\ IF stopped[t] THEN UNCHANGED wheel
       ELSE \E h \in NextHandles : Insert(t, now + delay[t], h)
    /\ rearm' = {}
    /\ UNCHANGED <<plan, backend, clock, call, base, delay, handle, stopped, collected, timer_thread,
                   recheck, running, history>>

\* All callbacks done: read next_deadline() and the clock, compute the sleep.
ComputeSleep ==
    /\ thread = "callbacks" /\ collected = {} /\ rearm = {}
    /\ wake_at' = clock + Max({Min({min_deadline - clock, MaxSleep}), Tick})
    /\ thread' = "park"
    /\ UNCHANGED <<plan, backend, clock, wheel, client, stopped, collected, rearm, recheck, running,
                   history>>

\* The wait times out at wake_at, and at the bound on the clock.
AtBound == \A j \in Jumps : clock + j > plan.until
TimedOut == clock >= wake_at \/ AtBound

\* wait_for evaluates its predicate, which takes the flag.  The thread blocks in a step
\* of its own: the notifiers do not hold timer_wakeup_mutex_.
Predicate ==
    /\ thread = "park"
    /\ IF ~running THEN thread' = "exited" /\ UNCHANGED recheck
       ELSE IF recheck \/ TimedOut THEN thread' = "advance" /\ recheck' = FALSE
       ELSE thread' = "decided" /\ UNCHANGED recheck
    /\ wake_at' = IF thread' = "decided" THEN wake_at ELSE 0
    /\ UNCHANGED <<plan, backend, clock, wheel, client, stopped, collected, rearm, running, history>>

Block ==
    /\ thread = "decided"
    /\ thread' = "asleep"
    /\ UNCHANGED <<plan, backend, clock, wheel, client, stopped, collected, rearm, wake_at, recheck,
                   running, history>>

\* Mutant: wait instead of wait_for.
WaitTimesOutNever == FALSE /\ UNCHANGED vars

\* The wait times out: the predicate is evaluated a last time.
WaitTimesOut ==
    /\ thread = "asleep" /\ TimedOut
    /\ thread' = "park"
    /\ UNCHANGED <<plan, backend, clock, wheel, client, stopped, collected, rearm, wake_at, recheck,
                   running, history>>

\* The loop ends at its head when running_ is false.
LoopEnds ==
    /\ thread = "advance" /\ ~running
    /\ thread' = "exited"
    /\ UNCHANGED <<plan, backend, clock, wheel, client, stopped, collected, rearm, wake_at, recheck,
                   running, history>>

\* Time passes (external).
ClockTicks ==
    /\ thread # "exited"
    /\ \E j \in Jumps : clock + j <= plan.until /\ clock' = clock + j
    /\ UNCHANGED <<plan, backend, wheel, client, stopped, collected, rearm, timer_thread, recheck,
                   running, history>>

Done ==
    /\ thread = "exited"
    /\ UNCHANGED vars

Init ==
    /\ plan \in Plans
    /\ backend \in Backends
    /\ clock = Origin
    /\ now = IF backend = "TimerPlane" THEN 0 ELSE Origin
    /\ node = [t \in TimerIds |-> NoNode]
    /\ min_deadline = Forever
    /\ next_id = 1
    /\ generation = [s \in SlotSet |-> 0]
    /\ reused = [t \in TimerIds |-> 0]
    /\ call = [t \in TimerIds |-> "new"]
    /\ base = [t \in TimerIds |-> 0]
    /\ delay = [t \in TimerIds |-> 0]
    /\ handle = [t \in TimerIds |-> 0]
    /\ stopped = [t \in TimerIds |-> FALSE]
    /\ collected = {} /\ rearm = {}
    /\ thread = "advance" /\ wake_at = 0
    /\ recheck = FALSE /\ running = TRUE
    /\ runs = [t \in TimerIds |-> 0]
    /\ answer = [t \in TimerIds |-> "none"]

ThreadNext ==
    \/ AdvanceTime \/ ComputeSleep \/ Predicate \/ Block \/ WaitTimesOut \/ LoopEnds
    \/ \E t \in TimerIds : Callback(t) \/ Rearm(t)

Next ==
    \/ ThreadNext \/ ClockTicks \/ Stop \/ Done
    \/ \E t \in TimerIds :
        \/ \E d \in plan.delays : ReadTime(t, d)
        \/ Schedule(t) \/ NotifyThread(t) \/ CancelTimer(t)

Spec == Init /\ [][Next]_vars

\* The timer thread is never stopped by the operating system for good, and time passes.
FairSpec == Spec /\ WF_vars(ThreadNext) /\ WF_vars(ClockTicks)

(***************************************************************************)
(* Properties                                                              *)
(***************************************************************************)
\* Every variable holds a value the code can store in it.
TypeOK ==
    /\ backend \in Backends /\ clock \in 0 .. plan.until /\ now \in 0 .. clock
    /\ node \in [TimerIds -> Node \cup {NoNode}]
    /\ min_deadline \in Nat /\ next_id \in Nat
    /\ generation \in [SlotSet -> 0 .. Generations - 1]
    /\ reused \in [TimerIds -> 0 .. Generations]
    /\ call \in [TimerIds -> {"new", "read", "notify", "done"}]
    /\ collected \subseteq TimerIds /\ rearm \subseteq Recurring
    /\ thread \in Stages /\ recheck \in BOOLEAN /\ running \in BOOLEAN
    /\ runs \in [TimerIds -> 0 .. 2]
    /\ answer \in [TimerIds -> {"none", "own", "other", "miss"}]

\* advance() leaves no expired timer behind: whatever level a timer was filed under,
\* however often it was moved down and whichever way the wheel wrapped, it is found by
\* the first advance() that reaches its expiry.
NoDueTimerLeft ==
    [][now' > now => \A t \in InWheel(node') : node'[t].expire > now']_vars

\* advance() never takes out a timer that has not expired.
NoTimerTakenEarly ==
    [][\A t \in collected' \ collected : node[t] # NoNode /\ node[t].expire <= now']_vars

\* The cached earliest deadline, which the timer thread reads without the mutex to
\* decide how long to sleep, is that of the earliest timer in the wheel.
MinDeadlineExact == min_deadline = MinDeadline(node)

\* A one-shot timer runs at most once, and never after a cancel() that found it.
CancelledNeverRuns ==
    \A t \in OneShots : runs[t] <= 1 /\ (answer[t] = "own" => runs[t] = 0)

\* The handle of a timer reaches that timer's node or nothing: cancelling a timer that
\* has fired removes another one that took over its slot only when the slot was taken so
\* often since that its generation has gone all the way round.
HandleReachesOwnTimer ==
    \A t \in TimerIds : answer[t] = "other" => reused[t] >= Generations - 1

\* A recurring timer whose cancel_timer returned runs at most the callback that was
\* already past its check: a cancelled chain starts no callback.
CancelledChainEnds ==
    [][\A t \in Recurring : stopped[t] => runs'[t] = runs[t]]_vars

\* stop() returns: the timer thread leaves its loop after running_ is cleared, even when
\* the notification comes between the predicate and the wait.
StopReturns == ~running ~> thread = "exited"

\* The timers' safety: the cached deadline is exact, a cancelled timer does not run, and
\* a handle reaches no timer but its own until its slot's generation comes round.
TimersInv == TypeOK /\ MinDeadlineExact /\ CancelledNeverRuns /\ HandleReachesOwnTimer

\* advance() takes out exactly the timers that have expired.
FiresOnTime == NoDueTimerLeft /\ NoTimerTakenEarly

\* What is asked to end does: a cancelled recurring timer, and the thread after stop().
TimersEnd == CancelledChainEnds /\ StopReturns

\* A handle reaches no timer but its own: "Generation check prevents ABA reuse bugs"
\* (timer-plane-design.md:116). It does until a slot has been reused 255 times.
NeverOtherTimer == \A t \in TimerIds : answer[t] # "other"

\* A timer is filed no earlier than the delay its client asked for, counted from the
\* call: "Delay in nanoseconds from now" (scheduler.hpp:144).
NeverFiledEarly ==
    [][\A t \in TimerIds :
        node[t] = NoNode /\ node'[t] # NoNode => node'[t].expire >= clock + delay[t]]_vars

\* While the thread is blocked it sleeps no longer than to the earliest deadline (or the
\* least sleep): "a new short timer may have an earlier deadline than the current sleep"
\* (scheduler.cpp:415), for which schedule_after wakes the thread.
NotOverslept ==
    thread = "asleep" /\ (\A t \in TimerIds : call[t] # "notify")
        => wake_at <= Max({min_deadline, clock + Tick})
=============================================================================
