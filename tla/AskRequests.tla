---------------------------- MODULE AskRequests ----------------------------
(***************************************************************************)
(* Local asks: AskManager's table of pending requests, the timeout timer   *)
(* of each, and the RequestHandle the requester shares with the table.     *)
(*                                                                         *)
(* on_response, on_timeout and cancel take the entry out of the table      *)
(* under the manager's mutex and resolve the handle after it is released.  *)
(* The handle has a mutex of its own; `ready` is stored after it is        *)
(* released, and RequestHandle::cancel looks at it before taking it.       *)
(***************************************************************************)
EXTENDS Integers, FiniteSets

CONSTANTS
    Asks,             \* message ids of the asks
    NoAnswer          \* model value: the empty optional

Verdicts == {"reply", "timeout", "operator", "aborted"}

ASSUME AskAssumption == IsFiniteSet(Asks) /\ NoAnswer \notin Verdicts

VARIABLES
    ask,          \* stage of the requester: "new", "emplaced", "armed", "sent"
    asked,        \* pending_
    ask_timer,    \* asks whose timeout timer is armed
    request,      \* asks whose message the target has still to answer
    ask_taken,    \* per ask, the verdict of whoever took it from the table
    stats,        \* total_registered_ and, per verdict, how many handles it resolved
    inner,        \* State::inner
    cancelled,    \* State::cancelled
    ready,        \* State::ready
    port,         \* the completion port: "none", "stored", "consumed"
    resolving,    \* per ask, what resolve() still has to do after its mutex
    cancelling,   \* per ask, the stage of the requester's cancel()
    told,         \* history: per ask, what its port was called with
    stray,        \* history: asks whose on_complete read an empty optional
    system        \* "running", "stopped" (scheduler joined), "gone"

table == <<asked, ask_timer, request, ask_taken, stats>>
handle == <<inner, cancelled, ready, port, told, stray>>
askVars == <<ask, table, handle, resolving, cancelling, system>>

\* register_ask: the entry goes in before the timer is scheduled.
Register(a) ==
    /\ ask[a] = "new" /\ system = "running"
    /\ ask' = [ask EXCEPT ![a] = "emplaced"]
    /\ asked' = asked \cup {a}
    /\ stats' = [stats EXCEPT !.registered = @ + 1]
    /\ UNCHANGED <<ask_timer, request, ask_taken, handle, resolving, cancelling, system>>

ArmTimeout(a) ==
    /\ ask[a] = "emplaced"
    /\ ask' = [ask EXCEPT ![a] = "armed"]
    /\ ask_timer' = ask_timer \cup {a}
    /\ UNCHANGED <<asked, request, ask_taken, stats, handle, resolving, cancelling, system>>

\* ask_raw sends the message; send() may not deliver it.
SendRequest(a) ==
    /\ ask[a] = "armed"
    /\ ask' = [ask EXCEPT ![a] = "sent"]
    /\ request' \in {request, request \cup {a}}
    /\ UNCHANGED <<asked, ask_timer, ask_taken, stats, handle, resolving, cancelling, system>>

\* Mutant: the entry is left in the table.
TakeWithoutErase(a, v) ==
    IF a \in asked
    THEN asked' = asked /\ ask_taken' = [ask_taken EXCEPT ![a] = v]
    ELSE UNCHANGED <<asked, ask_taken>>

\* Look up and erase under the mutex; v is what the handle will be resolved with.
Take(a, v) ==
    IF a \in asked
    THEN asked' = asked \ {a} /\ ask_taken' = [ask_taken EXCEPT ![a] = v]
    ELSE UNCHANGED <<asked, ask_taken>>

\* reply() from the target's handler.
OnResponse(a) ==
    /\ system = "running" /\ a \in request
    /\ request' = request \ {a}
    /\ Take(a, "reply")
    /\ UNCHANGED <<ask, ask_timer, stats, handle, resolving, cancelling, system>>

\* Mutant: the timer is armed for an ask that is then left to itself.
OnTimeoutDropped(a) ==
    /\ system = "running" /\ a \in ask_timer
    /\ ask_timer' = ask_timer \ {a}
    /\ asked' = asked \ {a}
    /\ UNCHANGED <<ask_taken, ask, request, stats, handle, resolving, cancelling, system>>

\* The timer fires on the timer thread.
OnTimeout(a) ==
    /\ system = "running" /\ a \in ask_timer
    /\ ask_timer' = ask_timer \ {a}
    /\ Take(a, "timeout")
    /\ UNCHANGED <<ask, request, stats, handle, resolving, cancelling, system>>

\* The operator's cancel(msg_id).
OperatorCancel(a) ==
    /\ system = "running" /\ a \in asked
    /\ Take(a, "operator")
    /\ UNCHANGED <<ask, ask_timer, request, stats, handle, resolving, cancelling, system>>

\* resolve(): the part under the handle's mutex.  A later verdict is dropped.
Settle(a, v) ==
    IF inner[a] # NoAnswer \/ cancelled[a] THEN UNCHANGED <<inner, port, resolving>>
    ELSE /\ inner' = [inner EXCEPT ![a] = v]
         /\ resolving' = [resolving EXCEPT
                ![a] = IF port[a] = "stored" THEN "call" ELSE "publish"]
         /\ port' = [port EXCEPT ![a] = IF @ = "stored" THEN "consumed" ELSE @]

Resolve(a) ==
    /\ ask_taken[a] # NoAnswer /\ resolving[a] = "no"
    /\ Settle(a, ask_taken[a])
    /\ ask_taken' = [ask_taken EXCEPT ![a] = NoAnswer]
    /\ stats' = [stats EXCEPT ![ask_taken[a]] = @ + 1]
    /\ UNCHANGED <<ask, asked, ask_timer, request, cancelled, ready, told, stray, cancelling,
                   system>>

\* The rest of resolve(): store ready, wake get(), call the port.
Publish(a) ==
    /\ resolving[a] # "no"
    /\ ready' = [ready EXCEPT ![a] = TRUE]
    /\ told' = IF resolving[a] = "call" THEN [told EXCEPT ![a] = @ \cup {inner[a]}] ELSE told
    /\ resolving' = [resolving EXCEPT ![a] = "no"]
    /\ UNCHANGED <<ask, table, inner, cancelled, port, stray, cancelling, system>>

\* RequestHandle::cancel by the requester: a look at ready without the mutex, ...
LookReady(a) ==
    /\ ask[a] = "sent" /\ cancelling[a] = "no"
    /\ cancelling' = [cancelling EXCEPT ![a] = IF ready[a] THEN "done" ELSE "lock"]
    /\ UNCHANGED <<ask, table, handle, resolving, system>>

\* ... the flag under it, ...
FlagCancelled(a) ==
    /\ cancelling[a] = "lock"
    /\ cancelled' = [cancelled EXCEPT ![a] = TRUE]
    /\ cancelling' = [cancelling EXCEPT ![a] = IF port[a] = "stored" THEN "call" ELSE "publish"]
    /\ port' = [port EXCEPT ![a] = IF @ = "stored" THEN "consumed" ELSE @]
    /\ UNCHANGED <<ask, table, inner, ready, told, stray, resolving, system>>

\* ... then ready, and the port.
PublishCancel(a) ==
    /\ cancelling[a] \in {"call", "publish"}
    /\ ready' = [ready EXCEPT ![a] = TRUE]
    /\ told' = IF cancelling[a] = "call" THEN [told EXCEPT ![a] = @ \cup {"cancelled"}] ELSE told
    /\ cancelling' = [cancelling EXCEPT ![a] = "done"]
    /\ UNCHANGED <<ask, table, inner, cancelled, port, stray, resolving, system>>

\* on_complete: call the port at once when there is an answer, store it otherwise.  With a
\* cancelled handle it moves from `inner` whether or not it holds anything.
OnComplete(a) ==
    /\ ask[a] = "sent" /\ port[a] = "none"
    /\ IF inner[a] # NoAnswer \/ cancelled[a]
       THEN /\ port' = [port EXCEPT ![a] = "consumed"]
            /\ stray' = IF inner[a] = NoAnswer THEN stray \cup {a} ELSE stray
            /\ told' = [told EXCEPT ![a] =
                    @ \cup {IF cancelled[a] THEN "cancelled" ELSE inner[a]}]
       ELSE port' = [port EXCEPT ![a] = "stored"] /\ UNCHANGED <<told, stray>>
    /\ UNCHANGED <<ask, table, inner, cancelled, ready, resolving, cancelling, system>>

\* ~ActorSystem stops the scheduler: workers and timer thread have finished their calls.
StopSystem ==
    /\ system = "running"
    /\ \A a \in Asks : ask_taken[a] = NoAnswer /\ resolving[a] = "no" /\ ask[a] \in {"new", "sent"}
    /\ system' = "stopped"
    /\ UNCHANGED <<ask, table, handle, resolving, cancelling>>

\* ~AskManager: abort() resolves what is left, under the manager's mutex.
Abort ==
    /\ system = "stopped" /\ system' = "gone"
    /\ asked' = {}
    /\ ask_taken' = [a \in Asks |-> IF a \in asked THEN "aborted" ELSE ask_taken[a]]
    /\ UNCHANGED <<ask, ask_timer, request, stats, handle, resolving, cancelling>>

AskInit ==
    /\ ask = [a \in Asks |-> "new"]
    /\ asked = {} /\ ask_timer = {} /\ request = {}
    /\ ask_taken = [a \in Asks |-> NoAnswer]
    /\ stats = [v \in Verdicts \cup {"registered"} |-> 0]
    /\ inner = [a \in Asks |-> NoAnswer]
    /\ cancelled = [a \in Asks |-> FALSE]
    /\ ready = [a \in Asks |-> FALSE]
    /\ port = [a \in Asks |-> "none"]
    /\ resolving = [a \in Asks |-> "no"]
    /\ cancelling = [a \in Asks |-> "no"]
    /\ told = [a \in Asks |-> {}]
    /\ stray = {}
    /\ system = "running"

\* Steps of threads that are inside a call, and of armed timers.
AskStep(a) ==
    \/ ArmTimeout(a) \/ SendRequest(a) \/ OnTimeout(a) \/ Resolve(a) \/ Publish(a)
    \/ FlagCancelled(a) \/ PublishCancel(a)

AskNext ==
    \/ StopSystem \/ Abort
    \/ \E a \in Asks :
        \/ AskStep(a) \/ Register(a) \/ OnResponse(a) \/ OperatorCancel(a)
        \/ LookReady(a) \/ OnComplete(a)

AskSpec == AskInit /\ [][AskNext]_askVars

\* A thread inside a call goes on, an armed timer fires (Timers), and a destructor that
\* stopped the scheduler destroys the manager.
AskFairness == (\A a \in Asks : WF_askVars(AskStep(a))) /\ WF_askVars(Abort)

(***************************************************************************)
(* Properties                                                              *)
(***************************************************************************)
\* Every variable holds a value the code can store in it.
AskTypeOK ==
    /\ ask \in [Asks -> {"new", "emplaced", "armed", "sent"}]
    /\ asked \subseteq Asks /\ ask_timer \subseteq Asks /\ request \subseteq Asks
    /\ ask_taken \in [Asks -> Verdicts \cup {NoAnswer}]
    /\ inner \in [Asks -> Verdicts \cup {NoAnswer}]
    /\ resolving \in [Asks -> {"no", "publish", "call"}]
    /\ port \in [Asks -> {"none", "stored", "consumed"}]
    /\ system \in {"running", "stopped", "gone"}

\* Response, timeout, operator and shutdown race for an ask and exactly one of them gets
\* it: every registered ask is pending, in one hand, or counted once.
OneTakerPerAsk ==
    stats.registered = Cardinality(asked) + Cardinality({a \in Asks : ask_taken[a] # NoAnswer})
                       + stats.reply + stats.timeout + stats.operator + stats.aborted

\* A completion port is called at most once, and the caller of a handle that was resolved
\* and never cancelled is told what the handle holds.
PortToldOnce ==
    \A a \in Asks :
        /\ Cardinality(told[a]) <= 1
        /\ told[a] # {} /\ ~cancelled[a] => told[a] = {inner[a]}

\* The ask table's safety: one taker per ask, one call of its port.
AskInv == AskTypeOK /\ OneTakerPerAsk /\ PortToldOnce

\* Every ask that was sent is answered: its handle becomes ready.
EveryAskAnswered == []<>(\A a \in Asks : ask[a] = "sent" => ready[a])

\* "If the handle has already been resolved, cancel() is a no-op so that the original
\* result is preserved" (request_handle.hpp:129).
OriginalResultPreserved ==
    [][\A a \in Asks : inner[a] # NoAnswer /\ ~cancelled[a] => ~cancelled'[a]]_askVars

\* on_complete reads `inner` only when it holds a value: "If the handle is already
\* resolved, the port is invoked immediately" (request_handle.hpp:168).
ReadsOnlyAnswers == stray = {}
=============================================================================
