---------------------------- MODULE CalendarQueue ----------------------------
(***************************************************************************)
(* The CalendarQueue timer backend: fine, coarse and remote wheels of      *)
(* doubly-linked bucket lists, and cursors that advance() moves one fine   *)
(* bucket at a time.  The lists keep their order, because advance() walks  *)
(* them while it relinks their timers; one step is one turn of a walk.     *)
(* schedule, cancel and advance exclude each other by the queue's mutex.   *)
(* max_advance_buckets (4096) is never reached: a step is 100 ms at most.  *)
(***************************************************************************)
EXTENDS Integers, Sequences, SequencesExt

CONSTANTS
    Alarms,       \* timers
    Waits,        \* delays asked for
    FineNs,       \* fine_bucket_ns (1 ms)
    Width,        \* buckets of each wheel (256)
    MaxStep,      \* kMaxAdvanceNs (100 ms)
    Dawn,        \* steady_clock at the first advance()
    Strides,        \* bound: how far the clock moves between two advances
    Horizon,          \* bound on the clock
    NoAlarm          \* model value: the null pointer

Wheels == {"fine", "coarse", "remote"}
CoarseNs == FineNs * Width
RemoteNs == CoarseNs * Width

ASSUME CalendarAssumption ==
    /\ {FineNs, Width, MaxStep, Dawn} \subseteq Nat \ {0}
    /\ Waits \subseteq Nat /\ Strides \subseteq Nat \ {0} /\ Horizon \in Nat

VARIABLES
    time,         \* steady_clock::now() at the last call of advance()
    last,         \* last_advance_ns_
    lists,        \* per wheel and bucket, its list of timers
    current,      \* current_fine_, current_coarse_, current_remote_
    expires,      \* expire_ns per timer
    alarm,       \* per timer: "new", "pending", "fired", "cancelled"
    walk,         \* what holds the mutex: "free", or the wheel advance() is walking
    at,           \* the cursor t of the walk
    target        \* now_ns of the running advance(), capped

calendarVars == <<time, last, lists, current, expires, alarm, walk, at, target>>

\* Where insert_timer files a timer that expires at e, seen from time n.
Filed(e, n) ==
    LET x == IF e < n + FineNs THEN n + FineNs ELSE e IN
    IF x < n + FineNs * Width THEN <<"fine", (x \div FineNs) % Width>>
    ELSE IF x < n + CoarseNs * Width THEN <<"coarse", (x \div CoarseNs) % Width>>
    ELSE <<"remote", (x \div RemoteNs) % Width>>

Append1(ls, place, t) == [ls EXCEPT ![place[1]][place[2]] = Append(@, t)]
Unchain(ls, t) ==
    [w \in Wheels |-> [b \in 0 .. Width - 1 |-> SelectSeq(ls[w][b], LAMBDA u : u # t)]]
Walked == lists[walk][current[walk]]
Head1(s) == IF s = <<>> THEN NoAlarm ELSE Head(s)
\* t->next, read before the timer is unlinked.
NextOf(s, t) == IF Last(s) = t THEN NoAlarm ELSE s[CHOOSE i \in DOMAIN s : i > 1 /\ s[i - 1] = t]

\* schedule: relative to the last advance; a delay of zero is one fine bucket.
Schedule(t, d) ==
    /\ walk = "free" /\ alarm[t] = "new"
    /\ expires' = [expires EXCEPT ![t] = last + IF d = 0 THEN FineNs ELSE d]
    /\ lists' = Append1(lists, Filed(expires'[t], last), t)
    /\ alarm' = [alarm EXCEPT ![t] = "pending"]
    /\ UNCHANGED <<time, last, current, walk, at, target>>

Cancel(t) ==
    /\ walk = "free" /\ alarm[t] = "pending"
    /\ lists' = Unchain(lists, t)
    /\ alarm' = [alarm EXCEPT ![t] = "cancelled"]
    /\ UNCHANGED <<time, last, current, expires, walk, at, target>>

\* The first advance() only records the time; a later one, at most MaxStep long, walks
\* the current fine bucket if a whole fine bucket has passed.
Advance ==
    /\ walk = "free"
    /\ \E s \in Strides : time + s <= Horizon /\ time' = time + s
    /\ IF last = 0 THEN last' = time' /\ UNCHANGED <<walk, at, target>>
       ELSE /\ target' = IF time' - last > MaxStep THEN last + MaxStep ELSE time'
            /\ IF last + FineNs <= target'
               THEN walk' = "fine" /\ at' = Head1(lists["fine"][current["fine"]])
               ELSE UNCHANGED <<walk, at>>
            /\ UNCHANGED last
    /\ UNCHANGED <<lists, current, expires, alarm>>

\* Mutant: a timer that is filed again stays linked in its old bucket.
TurnKeepsLink ==
    /\ walk # "free" /\ at # NoAlarm
    /\ at' = NextOf(Walked, at)
    /\ IF walk = "fine" /\ expires[at] <= target
       THEN /\ lists' = Unchain(lists, at)
            /\ alarm' = [alarm EXCEPT ![at] = "fired"]
       ELSE /\ lists' = Append1(lists, Filed(expires[at], target), at)
            /\ UNCHANGED alarm
    /\ UNCHANGED <<time, last, current, expires, walk, target>>

\* One turn of the loop over a bucket: in the fine wheel an expired timer fires; any other
\* timer is filed again, seen from the target time.
Turn ==
    /\ walk # "free" /\ at # NoAlarm
    /\ at' = NextOf(Walked, at)
    /\ IF walk = "fine" /\ expires[at] <= target
       THEN /\ lists' = Unchain(lists, at)
            /\ alarm' = [alarm EXCEPT ![at] = "fired"]
       ELSE /\ lists' = Append1(Unchain(lists, at), Filed(expires[at], target), at)
            /\ UNCHANGED alarm
    /\ UNCHANGED <<time, last, current, expires, walk, target>>

Bump(c, w) == [c EXCEPT ![w] = (@ + 1) % Width]
\* The loop condition of advance(): on to the next fine bucket, or done.
Onward(l, c) ==
    IF l + FineNs <= target THEN walk' = "fine" /\ at' = Head1(lists["fine"][c["fine"]])
    ELSE walk' = "free" /\ at' = NoAlarm

\* The end of a bucket.  When the fine cursor wraps, the coarse bucket under its cursor is
\* walked and then that cursor moves; likewise for the remote wheel.
EndFine ==
    /\ walk = "fine" /\ at = NoAlarm
    /\ last' = last + FineNs
    /\ current' = Bump(current, "fine")
    /\ IF current'["fine"] = 0
       THEN walk' = "coarse" /\ at' = Head1(lists["coarse"][current["coarse"]])
       ELSE Onward(last', current')
    /\ UNCHANGED <<time, lists, expires, alarm, target>>

EndCoarse ==
    /\ walk = "coarse" /\ at = NoAlarm
    /\ current' = Bump(current, "coarse")
    /\ IF current'["coarse"] = 0
       THEN walk' = "remote" /\ at' = Head1(lists["remote"][current["remote"]])
       ELSE Onward(last, current')
    /\ UNCHANGED <<time, last, lists, expires, alarm, target>>

EndRemote ==
    /\ walk = "remote" /\ at = NoAlarm
    /\ current' = Bump(current, "remote")
    /\ Onward(last, current')
    /\ UNCHANGED <<time, last, lists, expires, alarm, target>>

CalendarInit ==
    /\ time = Dawn /\ last = 0
    /\ lists = [w \in Wheels |-> [b \in 0 .. Width - 1 |-> <<>>]]
    /\ current = [w \in Wheels |-> 0]
    /\ expires = [t \in Alarms |-> 0]
    /\ alarm = [t \in Alarms |-> "new"]
    /\ walk = "free" /\ at = NoAlarm /\ target = 0

Walking == Turn \/ EndFine \/ EndCoarse \/ EndRemote
CalendarNext ==
    \/ Advance \/ Walking
    \/ \E t \in Alarms : Cancel(t) \/ \E d \in Waits : Schedule(t, d)

CalendarSpec == CalendarInit /\ [][CalendarNext]_calendarVars
\* The thread inside advance() keeps running.
CalendarFairness == WF_calendarVars(Walking)
CalendarFairSpec == CalendarSpec /\ CalendarFairness

\* Every variable holds a value the code can store in it.
CalendarTypeOK ==
    /\ walk \in Wheels \cup {"free"} /\ at \in Alarms \cup {NoAlarm}
    /\ current \in [Wheels -> 0 .. Width - 1]
    /\ alarm \in [Alarms -> {"new", "pending", "fired", "cancelled"}]
    /\ \A w \in Wheels : \A b \in 0 .. Width - 1 : Range(lists[w][b]) \subseteq Alarms

\* A pending timer is linked in exactly one bucket and no other timer is in any.
LinkedOnce ==
    \A t \in Alarms :
        LET places == {<<w, b>> \in Wheels \X (0 .. Width - 1) : t \in Range(lists[w][b])}
        IN IF alarm[t] = "pending" THEN \E p \in places : places = {p} ELSE places = {}

\* schedule, cancel, cascade and the walk of advance() keep every pending timer in one
\* bucket and leave no other timer in any.
CalendarInv == CalendarTypeOK /\ LinkedOnce

\* advance() returns.  Its header: "Maximum number of fine buckets to process per
\* advance() call, bounding the latency of a single tick" (calendar_queue.hpp:38).
AdvanceReturns == walk # "free" ~> walk = "free"
=============================================================================
