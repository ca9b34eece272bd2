------------------------------ MODULE RpcCalls ------------------------------
(***************************************************************************)
(* RpcChannel: calls to a remote actor that are sent again on every        *)
(* timeout until a response, the last retry or the total deadline.         *)
(*                                                                         *)
(* on_timeout looks the call up under the mutex and goes on with a plain   *)
(* pointer after releasing it; on_response takes the call out of the table *)
(* and destroys it when it returns.  The network may lose, delay and       *)
(* repeat requests and responses; the server answers every request it      *)
(* receives.                                                               *)
(***************************************************************************)
EXTENDS Integers, FiniteSets

CONSTANTS
    Calls,            \* message ids of the calls
    MaxRetries,       \* default_max_retries_ (3)
    Patience          \* bound: time units of the per-attempt timeout

ASSUME RpcAssumption ==
    IsFiniteSet(Calls) /\ MaxRetries \in Nat /\ Patience \in Nat \ {0}

\* total_budget: timeout * (max_retries + 1), or timeout alone without retries.
Budget == Patience * (MaxRetries + 1)

VARIABLES
    calling,      \* stage of call_raw: "new", "emplaced", "sent", "waiting"
    calls,        \* pending_
    age,          \* per call, the time since it was enqueued
    retries,      \* retry_count
    rpc_timers,   \* per call, the ages at which a timer fires (a set)
    wire,         \* requests and responses under way
    executed,     \* history: how often the server ran each call (0, 1, 2 = more)
    holder,       \* per call: "no", or what on_timeout does with its pointer
    answering,    \* calls on_response has erased and not yet destroyed
    alive,        \* calls whose PendingCall exists
    promise,      \* how often the promise was set (0, 1, 2)
    dangling,     \* history: on_timeout used the pointer of a destroyed call
    aborted       \* whether abort() ran

rpcVars == <<calling, calls, age, retries, rpc_timers, wire, executed, holder, answering,
             alive, promise, dangling, aborted>>

Bump(n) == IF n < 2 THEN n + 1 ELSE n

\* call_raw: enter the table, send, schedule the first timeout.
CallRaw(c) ==
    /\ calling[c] = "new" /\ ~aborted
    /\ calling' = [calling EXCEPT ![c] = "emplaced"]
    /\ calls' = calls \cup {c} /\ alive' = alive \cup {c}
    /\ UNCHANGED <<age, retries, rpc_timers, wire, executed, holder, answering, promise,
                   dangling, aborted>>

SendCall(c) ==
    /\ calling[c] = "emplaced"
    /\ calling' = [calling EXCEPT ![c] = "sent"]
    /\ wire' = wire \cup {<<"request", c>>}
    /\ dangling' = (dangling \/ c \notin alive)
    /\ UNCHANGED <<calls, age, retries, rpc_timers, executed, holder, answering, alive, promise,
                   aborted>>

ArmCall(c) ==
    /\ calling[c] = "sent"
    /\ calling' = [calling EXCEPT ![c] = "waiting"]
    /\ rpc_timers' = [rpc_timers EXCEPT ![c] = @ \cup {age[c] + Patience}]
    /\ UNCHANGED <<calls, age, retries, wire, executed, holder, answering, alive, promise,
                   dangling, aborted>>

\* The network and the server (external).
Serve(c) ==
    /\ <<"request", c>> \in wire
    /\ executed' = [executed EXCEPT ![c] = Bump(@)]
    /\ wire' \in {(wire \ {<<"request", c>>}) \cup {<<"response", c>>},
                  wire \cup {<<"response", c>>}}
    /\ UNCHANGED <<calling, calls, age, retries, rpc_timers, holder, answering, alive, promise,
                   dangling, aborted>>
Lose(c) ==
    /\ \E k \in {"request", "response"} : <<k, c>> \in wire /\ wire' = wire \ {<<k, c>>}
    /\ UNCHANGED <<calling, calls, age, retries, rpc_timers, executed, holder, answering, alive,
                   promise, dangling, aborted>>

\* on_response: erase under the mutex ...
TakeResponse(c) ==
    /\ <<"response", c>> \in wire
    /\ wire' \in {wire, wire \ {<<"response", c>>}}
    /\ IF c \in calls /\ c \notin answering
       THEN calls' = calls \ {c} /\ answering' = answering \cup {c}
       ELSE UNCHANGED <<calls, answering>>
    /\ UNCHANGED <<calling, age, retries, rpc_timers, executed, holder, alive, promise, dangling,
                   aborted>>

\* ... then set the promise; the call is destroyed when the function returns.
FinishResponse(c) ==
    /\ c \in answering
    /\ answering' = answering \ {c}
    /\ promise' = [promise EXCEPT ![c] = Bump(@)]
    /\ alive' = alive \ {c}
    /\ UNCHANGED <<calling, calls, age, retries, rpc_timers, wire, executed, holder, dangling,
                   aborted>>

\* The timer thread enters on_timeout: the pointer is read under the mutex.
FindCall(c) ==
    /\ holder[c] = "no"
    /\ \E due \in rpc_timers[c] :
        /\ due <= age[c] \/ age[c] = Budget + 1
        /\ rpc_timers' = [rpc_timers EXCEPT ![c] = @ \ {due}]
    /\ holder' = IF c \in calls THEN [holder EXCEPT ![c] = "found"] ELSE holder
    /\ UNCHANGED <<calling, calls, age, retries, wire, executed, answering, alive, promise,
                   dangling, aborted>>

\* The deadline over all attempts, or the last retry.
GiveUp(c) == age[c] >= Budget \/ retries[c] >= MaxRetries

\* Mutant: the promise is never set when the deadline is exceeded.
UseCallSilent(c) ==
    /\ holder[c] = "found"
    /\ dangling' = (dangling \/ c \notin alive)
    /\ IF GiveUp(c)
       THEN /\ holder' = [holder EXCEPT ![c] = "erase"]
            /\ UNCHANGED <<retries, rpc_timers, wire, promise>>
       ELSE /\ retries' = [retries EXCEPT ![c] = @ + 1]
            /\ rpc_timers' = [rpc_timers EXCEPT ![c] = @ \cup
                    {IF age[c] + Patience > Budget THEN Budget ELSE age[c] + Patience}]
            /\ wire' = wire \cup {<<"request", c>>}
            /\ holder' = [holder EXCEPT ![c] = "no"]
            /\ UNCHANGED promise
    /\ UNCHANGED <<calling, calls, age, executed, answering, alive, aborted>>

\* The rest of on_timeout, with the pointer and without the mutex.  schedule_retry arms
\* the next timeout, capped by the remaining time, and sends again; when less than a
\* millisecond remains it calls on_timeout at once instead.
UseCall(c) ==
    /\ holder[c] = "found"
    /\ dangling' = (dangling \/ c \notin alive)
    /\ \/ /\ GiveUp(c)
          /\ promise' = [promise EXCEPT ![c] = Bump(@)]
          /\ holder' = [holder EXCEPT ![c] = "erase"]
          /\ UNCHANGED <<retries, rpc_timers, wire>>
       \/ /\ ~GiveUp(c)
          /\ retries' = [retries EXCEPT ![c] = @ + 1]
          /\ rpc_timers' = [rpc_timers EXCEPT ![c] = @ \cup
                  {IF age[c] + Patience > Budget THEN Budget ELSE age[c] + Patience}]
          /\ wire' = wire \cup {<<"request", c>>}
          /\ holder' = [holder EXCEPT ![c] = "no"]
          /\ UNCHANGED promise
       \/ /\ ~GiveUp(c) /\ age[c] = Budget - 1
          /\ retries' = [retries EXCEPT ![c] = @ + 1]
          /\ holder' = [holder EXCEPT ![c] = "again"]
          /\ UNCHANGED <<rpc_timers, wire, promise>>
    /\ UNCHANGED <<calling, calls, age, executed, answering, alive, aborted>>

\* That call of on_timeout looks the call up again.
FindAgain(c) ==
    /\ holder[c] = "again"
    /\ holder' = [holder EXCEPT ![c] = IF c \in calls THEN "found" ELSE "no"]
    /\ UNCHANGED <<calling, calls, age, retries, rpc_timers, wire, executed, answering, alive,
                   promise, dangling, aborted>>

\* pending_.erase(key) destroys the call if it is still there.
EraseCall(c) ==
    /\ holder[c] = "erase"
    /\ holder' = [holder EXCEPT ![c] = "no"]
    /\ calls' = calls \ {c}
    /\ alive' = IF c \in calls THEN alive \ {c} ELSE alive
    /\ UNCHANGED <<calling, age, retries, rpc_timers, wire, executed, answering, promise,
                   dangling, aborted>>

\* Time passes for every call; a timer that is due fires before its call grows older than
\* one unit past it.  Bound: all times after the total deadline are Budget + 1.
Elapse ==
    /\ \A c \in Calls : \A due \in rpc_timers[c] : age[c] <= due
    /\ \E c \in calls : age[c] < Budget + 1
    /\ age' = [c \in Calls |-> IF c \in calls /\ age[c] <= Budget THEN age[c] + 1 ELSE age[c]]
    /\ UNCHANGED <<calling, calls, retries, rpc_timers, wire, executed, holder, answering, alive,
                   promise, dangling, aborted>>

\* abort(): set every promise and clear the table, all under the mutex.
AbortCalls ==
    /\ ~aborted /\ aborted' = TRUE
    /\ promise' = [c \in Calls |-> IF c \in calls /\ holder[c] # "erase"
                                   THEN Bump(promise[c]) ELSE promise[c]]
    /\ alive' = alive \ calls
    /\ calls' = {}
    /\ UNCHANGED <<calling, age, retries, rpc_timers, wire, executed, holder, answering, dangling>>

RpcInit ==
    /\ calling = [c \in Calls |-> "new"]
    /\ calls = {} /\ alive = {} /\ answering = {}
    /\ age = [c \in Calls |-> 0]
    /\ retries = [c \in Calls |-> 0]
    /\ rpc_timers = [c \in Calls |-> {}]
    /\ wire = {}
    /\ executed = [c \in Calls |-> 0]
    /\ holder = [c \in Calls |-> "no"]
    /\ promise = [c \in Calls |-> 0]
    /\ dangling = FALSE /\ aborted = FALSE

RpcStep(c) ==
    \/ SendCall(c) \/ ArmCall(c) \/ FinishResponse(c)
    \/ FindCall(c) \/ UseCall(c) \/ FindAgain(c) \/ EraseCall(c)

RpcNext ==
    \/ Elapse \/ AbortCalls
    \/ \E c \in Calls : RpcStep(c) \/ CallRaw(c) \/ Serve(c) \/ Lose(c) \/ TakeResponse(c)

\* Threads inside a call go on, timers fire and time passes; the network owes nothing.
RpcFairness == (\A c \in Calls : WF_rpcVars(RpcStep(c))) /\ WF_rpcVars(Elapse)

(***************************************************************************)
(* Properties                                                              *)
(***************************************************************************)
\* Every variable holds a value the code can store in it.
RpcTypeOK ==
    /\ calling \in [Calls -> {"new", "emplaced", "sent", "waiting"}]
    /\ calls \subseteq Calls /\ alive \subseteq Calls /\ answering \subseteq Calls
    /\ retries \in [Calls -> 0 .. MaxRetries]
    /\ age \in [Calls -> 0 .. Budget + 1]
    /\ holder \in [Calls -> {"no", "found", "again", "erase"}]
    /\ promise \in [Calls -> 0 .. 2]

\* Every call ends: its promise is set, whatever the network does with the frames; retries
\* and age stay within max_retries and the deadline budget on the way.
EveryCallEnds ==
    []RpcTypeOK /\ []<>(\A c \in Calls : calling[c] = "waiting" => promise[c] > 0)

\* on_timeout never uses a call that on_response (or abort) has destroyed:
\* "unique_ptr" ownership moves out of the table under the mutex (rpc_channel.cpp:80).
PointerOutlivesUse == ~dangling

\* The promise is set once ("Promise resolved when the response arrives or the call
\* fails permanently", rpc_channel.hpp:66).
PromiseSetOnce == \A c \in Calls : promise[c] <= 1
=============================================================================
