--------------------------- MODULE NameResolution ---------------------------
(***************************************************************************)
(* Distributed name resolution: each name has a home node on the hash      *)
(* ring, whose NameDirectory holds its entry.  ActorDirectory tells the    *)
(* home of some registrations and erasures, without waiting for an answer; *)
(* NameResolver::resolve() asks the home and waits for the answer, with a  *)
(* timeout and a cache.                                                    *)
(*                                                                         *)
(* The membership, and so the ring, is fixed: on_membership_change has no  *)
(* caller.  Every registration has generation 0, the only value            *)
(* ActorDirectory passes.  A frame between two nodes may be refused or     *)
(* lost, of which nobody is told; the others arrive in order.              *)
(***************************************************************************)
EXTENDS Naturals, Sequences, FiniteSets

CONSTANTS
    Hosts, Names,
    HomeOf,         \* ring_.lookup of each name
    RegistersOn,    \* nodes that may register each name
    Resolvers,      \* threads calling resolve()
    NodeOf,         \* the node each of them is on
    MaxChanges,     \* bound: registrations and erasures
    MaxCalls,       \* bound: calls of each resolver
    Nobody          \* model value: no node, no resolver, no address

Address(x, n) == [name |-> x, node |-> n]
Addresses == [name : Names, node : Hosts]

ASSUME NamesAssumption ==
    /\ HomeOf \in [Names -> Hosts] /\ RegistersOn \in [Names -> SUBSET Hosts]
    /\ NodeOf \in [Resolvers -> Hosts]
    /\ MaxChanges \in Nat /\ MaxCalls \in Nat
    /\ Nobody \notin Hosts \cup Names \cup Resolvers \cup Addresses \cup {"loop"}

VARIABLES
    local,          \* names_ of each node's ActorDirectory
    directory,      \* NameDirectory: name -> registering node
    cache,          \* NameResolveCache: name -> address
    pending,        \* pending_resolves_: name -> the resolver whose record it is
    pending_mutex,  \* its holder: Nobody, a resolver, or "loop"
    call,           \* each resolver's call of resolve()
    to_signal,      \* names the response handler has still to visit
    answer,         \* the response it is handling
    wire,           \* frames between two nodes
    untold,         \* history: names whose latest change did not leave for the home
    changes

namesVars == <<local, directory, cache, pending, pending_mutex, call, to_signal, answer,
               wire, untold, changes>>

Call(stage, x, result, calls) ==
    [at |-> stage, name |-> x, ready |-> FALSE, result |-> result, calls |-> calls]
NoCall == Call("idle", Nobody, Nobody, 0)
Moved(c, stage) ==
    [at |-> stage, name |-> c.name, ready |-> c.ready, result |-> c.result, calls |-> c.calls]

NamesInit ==
    /\ local = [n \in Hosts |-> {}]
    /\ directory = [n \in Hosts |-> [x \in Names |-> Nobody]]
    /\ cache = [n \in Hosts |-> [x \in Names |-> Nobody]]
    /\ pending = [n \in Hosts |-> [x \in Names |-> Nobody]]
    /\ pending_mutex = [n \in Hosts |-> Nobody]
    /\ call = [r \in Resolvers |-> NoCall]
    /\ to_signal = [n \in Hosts |-> {}]
    /\ answer = [n \in Hosts |-> Nobody]
    /\ wire = [l \in Hosts \X Hosts |-> << >>]
    /\ untold = {}
    /\ changes = 0

\* The outbound port: there may be no transport, try_send's result is dropped,
\* and a connection may break with the frame on it.
SendTo(n, m, msg, arrives) ==
    wire' = IF arrives THEN [wire EXCEPT ![<<n, m>>] = Append(@, msg)] ELSE wire

resolving == <<cache, pending, pending_mutex, call, to_signal, answer>>

-----------------------------------------------------------------------------
(* Registration.                                                           *)

\* register_entry with generation 0: a present entry is a duplicate.
Enter(d, x, n) == IF d[x] = Nobody THEN [d EXCEPT ![x] = n] ELSE d

Tell(n, x, kind) ==
    \E arrives \in BOOLEAN :
        /\ SendTo(n, HomeOf[x], [kind |-> kind, name |-> x], arrives)
        /\ untold' = IF arrives THEN untold \ {x} ELSE untold \cup {x}

\* ActorDirectory::publish or register_name, and on_local_register.
Register(n, x) ==
    /\ changes < MaxChanges /\ n \in RegistersOn[x] /\ x \notin local[n]
    /\ changes' = changes + 1
    /\ local' = [local EXCEPT ![n] = @ \cup {x}]
    /\ IF HomeOf[x] = n
       THEN /\ directory' = [directory EXCEPT ![n] = Enter(@, x, n)]
            /\ untold' = untold \ {x}
            /\ UNCHANGED wire
       ELSE /\ Tell(n, x, "register")
            /\ UNCHANGED directory
    /\ UNCHANGED resolving

\* register_names_atomically, all names or none, which tells nobody.
RegisterNamesAtomically(n, batch) ==
    /\ changes < MaxChanges /\ \A x \in batch : n \in RegistersOn[x] /\ x \notin local[n]
    /\ changes' = changes + 1
    /\ local' = [local EXCEPT ![n] = @ \cup batch]
    /\ untold' = untold \cup batch
    /\ UNCHANGED <<directory, wire, resolving>>

\* unregister_name, which tells nobody either.
UnregisterName(n, x) ==
    /\ changes < MaxChanges /\ x \in local[n]
    /\ changes' = changes + 1
    /\ local' = [local EXCEPT ![n] = @ \ {x}]
    /\ untold' = untold \cup {x}
    /\ UNCHANGED <<directory, wire, resolving>>

\* ActorDirectory::erase of the actor, and on_local_unregister.  At home the
\* entry goes whoever registered it, and the cache is evicted in any case.
Erase(n, x) ==
    /\ changes < MaxChanges /\ x \in local[n]
    /\ changes' = changes + 1
    /\ local' = [local EXCEPT ![n] = @ \ {x}]
    /\ IF HomeOf[x] = n
       THEN /\ directory' = [directory EXCEPT ![n][x] = Nobody]
            /\ untold' = untold \ {x}
            /\ UNCHANGED wire
       ELSE /\ Tell(n, x, "unregister")
            /\ UNCHANGED directory
    /\ cache' = [cache EXCEPT ![n][x] = Nobody]
    /\ UNCHANGED <<pending, pending_mutex, call, to_signal, answer>>

-----------------------------------------------------------------------------
(* The home node's side, on its event loop thread.                         *)

Receive(from, n, kind) ==
    /\ wire[<<from, n>>] # << >> /\ Head(wire[<<from, n>>]).kind = kind
    /\ answer[n] = Nobody

OnRegisterRequest(from, n) ==
    /\ Receive(from, n, "register")
    /\ directory' = [directory EXCEPT ![n] = Enter(@, Head(wire[<<from, n>>]).name, from)]
    /\ wire' = [wire EXCEPT ![<<from, n>>] = Tail(@)]
    /\ UNCHANGED <<local, untold, changes, resolving>>

\* generation >= existing->generation always holds: both are 0.
OnUnregisterRequest(from, n) ==
    /\ Receive(from, n, "unregister")
    /\ directory' = [directory EXCEPT ![n][Head(wire[<<from, n>>]).name] = Nobody]
    /\ wire' = [wire EXCEPT ![<<from, n>>] = Tail(@)]
    /\ UNCHANGED <<local, untold, changes, resolving>>

\* The answer carries an address, or none, but not the name asked for; it may be
\* lost like any frame.
OnResolveQuery(from, n) ==
    /\ Receive(from, n, "query")
    /\ LET x == Head(wire[<<from, n>>]).name
           found == directory[n][x]
           msg == [kind |-> "response",
                   address |-> IF found = Nobody THEN Nobody ELSE Address(x, found)]
       IN  \/ wire' = [wire EXCEPT ![<<from, n>>] = Tail(@)]
           \/ IF from = n
              THEN wire' = [wire EXCEPT ![<<n, n>>] = Append(Tail(@), msg)]
              ELSE wire' = [wire EXCEPT ![<<from, n>>] = Tail(@), ![<<n, from>>] = Append(@, msg)]
    /\ UNCHANGED <<local, directory, untold, changes, resolving>>

-----------------------------------------------------------------------------
(* resolve().                                                              *)

\* The first two tiers: an entry of this node's directory, or a cached one.
Known(n, x) ==
    IF directory[n][x] # Nobody THEN Address(x, directory[n][x]) ELSE cache[n][x]

\* What is known ends the call; else the record is filed, over any other call's for the
\* name, and the home is asked.
Resolve(r, x) ==
    LET n == NodeOf[r] IN
    /\ call[r].at \in {"idle", "done"} /\ call[r].calls < MaxCalls
    /\ \/ /\ Known(n, x) # Nobody
          /\ call' = [call EXCEPT ![r] = Call("done", x, Known(n, x), call[r].calls + 1)]
          /\ UNCHANGED <<pending, wire>>
       \/ /\ Known(n, x) = Nobody /\ pending_mutex[n] = Nobody
          /\ pending' = [pending EXCEPT ![n][x] = r]
          /\ call' = [call EXCEPT ![r] = Call("waiting", x, Nobody, call[r].calls + 1)]
          /\ \E arrives \in BOOLEAN :
                SendTo(n, HomeOf[x], [kind |-> "query", name |-> x], arrives)
    /\ UNCHANGED <<local, directory, cache, pending_mutex, to_signal, answer, untold,
                   changes>>

\* Mutant: the record of a call that timed out stays in the map.
TimedOutLeaks(r) ==
    /\ call[r].at = "late" /\ pending_mutex[NodeOf[r]] = Nobody
    /\ call' = [call EXCEPT ![r] = Moved(call[r], "done")]
    /\ UNCHANGED <<local, directory, cache, pending, pending_mutex, to_signal, answer,
                   wire, untold,
                   changes>>

\* wait_for times out with the record's mutex held again ...
TimesOut(r) ==
    /\ call[r].at = "waiting" /\ ~call[r].ready
    /\ call' = [call EXCEPT ![r] = Moved(call[r], "late")]
    /\ UNCHANGED <<local, directory, cache, pending, pending_mutex, to_signal, answer,
                   wire, untold,
                   changes>>

\* ... and with it held, pending_mutex_ is taken to erase the map's entry.
TimedOut(r) ==
    /\ call[r].at = "late" /\ pending_mutex[NodeOf[r]] = Nobody
    /\ pending' = [pending EXCEPT ![NodeOf[r]][call[r].name] = Nobody]
    /\ call' = [call EXCEPT ![r] = Moved(call[r], "done")]
    /\ UNCHANGED <<local, directory, cache, pending_mutex, to_signal, answer, wire, untold,
                   changes>>

\* Signalled: the entry is erased ...
Signalled(r) ==
    /\ call[r].at = "waiting" /\ call[r].ready /\ pending_mutex[NodeOf[r]] = Nobody
    /\ pending' = [pending EXCEPT ![NodeOf[r]][call[r].name] = Nobody]
    /\ call' = [call EXCEPT ![r] = Moved(call[r], "signalled")]
    /\ UNCHANGED <<local, directory, cache, pending_mutex, to_signal, answer, wire, untold,
                   changes>>

\* ... and the address, if there is one, is cached and returned.
CachePut(r) ==
    /\ call[r].at = "signalled"
    /\ cache' = IF call[r].result = Nobody THEN cache
                ELSE [cache EXCEPT ![NodeOf[r]][call[r].name] = call[r].result]
    /\ call' = [call EXCEPT ![r] = Moved(call[r], "done")]
    /\ UNCHANGED <<local, directory, pending, pending_mutex, to_signal, answer, wire, untold,
                   changes>>

\* An entry's TTL passes.
CacheExpires(n, x) ==
    /\ cache[n][x] # Nobody
    /\ cache' = [cache EXCEPT ![n][x] = Nobody]
    /\ UNCHANGED <<local, directory, pending, pending_mutex, call, to_signal, answer,
                   wire, untold,
                   changes>>

-----------------------------------------------------------------------------
(* on_name_resolve_response, on the event loop thread.                     *)

\* pending_mutex_ is taken for the whole visit of the map.
OnResolveResponse(from, n) ==
    /\ Receive(from, n, "response") /\ pending_mutex[n] = Nobody
    /\ pending_mutex' = [pending_mutex EXCEPT ![n] = "loop"]
    /\ answer' = [answer EXCEPT ![n] = Head(wire[<<from, n>>])]
    /\ to_signal' = [to_signal EXCEPT ![n] = {x \in Names : pending[n][x] # Nobody}]
    /\ wire' = [wire EXCEPT ![<<from, n>>] = Tail(@)]
    /\ UNCHANGED <<local, directory, cache, pending, call, untold, changes>>

\* Every record not ready yet is given the answer, whatever its name, under
\* the record's mutex: a call that is timing out holds it.
SignalOne(n, x) ==
    LET r == pending[n][x] IN
    /\ x \in to_signal[n]
    /\ call[r].ready \/ call[r].at # "late"
    /\ to_signal' = [to_signal EXCEPT ![n] = @ \ {x}]
    /\ call' = IF call[r].ready THEN call
               ELSE [call EXCEPT ![r] = [at |-> call[r].at, name |-> call[r].name,
                                         ready |-> TRUE, result |-> answer[n].address,
                                         calls |-> call[r].calls]]
    /\ UNCHANGED <<local, directory, cache, pending, pending_mutex, answer, wire, untold,
                   changes>>

ResponseHandled(n) ==
    /\ answer[n] # Nobody /\ to_signal[n] = {}
    /\ answer' = [answer EXCEPT ![n] = Nobody]
    /\ pending_mutex' = [pending_mutex EXCEPT ![n] = Nobody]
    /\ UNCHANGED <<local, directory, cache, pending, call, to_signal, wire, untold,
                   changes>>

LoopStep(n) ==
    \/ \E from \in Hosts : \/ OnRegisterRequest(from, n) \/ OnUnregisterRequest(from, n)
                           \/ OnResolveQuery(from, n) \/ OnResolveResponse(from, n)
    \/ \E x \in Names : SignalOne(n, x)
    \/ ResponseHandled(n)

CallStep(r) == TimesOut(r) \/ TimedOut(r) \/ Signalled(r) \/ CachePut(r)

NamesNext ==
    \/ \E n \in Hosts, x \in Names :
          Register(n, x) \/ Erase(n, x) \/ UnregisterName(n, x) \/ CacheExpires(n, x)
    \/ \E n \in Hosts, batch \in SUBSET Names \ {{}} : RegisterNamesAtomically(n, batch)
    \/ \E n \in Hosts : LoopStep(n)
    \/ \E r \in Resolvers : CallStep(r) \/ \E x \in Names : Resolve(r, x)

NamesSpec == NamesInit /\ [][NamesNext]_namesVars

\* Event loops run, and a call that was begun goes on.
NamesFairness ==
    /\ \A n \in Hosts : WF_namesVars(LoopStep(n))
    /\ \A r \in Resolvers : WF_namesVars(CallStep(r))

-----------------------------------------------------------------------------
\* The resolver's tables have their types, and a NameDirectory holds names of
\* its own node only.
NamesTypeOK ==
    /\ untold \subseteq Names
    /\ \A n \in Hosts :
          /\ local[n] \subseteq Names /\ to_signal[n] \subseteq Names
          /\ \A x \in Names : /\ directory[n][x] \in Hosts \cup {Nobody}
                              /\ cache[n][x] \in Addresses \cup {Nobody}
                              /\ pending[n][x] \in Resolvers \cup {Nobody}
                              /\ directory[n][x] # Nobody => HomeOf[x] = n
    /\ \A r \in Resolvers : call[r].result \in Addresses \cup {Nobody}

Busy(r) == call[r].at \in {"waiting", "late"}

\* A record in pending_resolves_ is that of a call still in progress for that
\* name: no way out of resolve() leaves one behind, even when two calls for
\* one name overwrite and erase each other's.
RecordsAreOfLiveCalls ==
    \A n \in Hosts, x \in Names : pending[n][x] # Nobody =>
        LET r == pending[n][x] IN NodeOf[r] = n /\ Busy(r) /\ call[r].name = x

InTransit(x) ==
    \E l \in Hosts \X Hosts : \E i \in DOMAIN wire[l] :
        wire[l][i].kind \in {"register", "unregister"} /\ wire[l][i].name = x

\* For a name that a single node registers, the home knows it exactly when
\* that node does, once no request about it is on the way and unless its latest
\* change never left: fire and forget requests leave no stale and no missing
\* entry, whatever was lost before.
HomeAgrees ==
    \A x \in Names, n \in Hosts : RegistersOn[x] = {n} /\ ~InTransit(x) /\ x \notin untold =>
        directory[HomeOf[x]][x] = IF x \in local[n] THEN n ELSE Nobody

\* The name tables' safety: records belong to calls in progress, and the home agrees
\* with the registering node on what it was told.
NamesInv == NamesTypeOK /\ RecordsAreOfLiveCalls /\ HomeAgrees

-----------------------------------------------------------------------------
(* What the documentation promises and the code does not keep.             *)

\* cluster_system_bridge.cpp says that "ActorDirectory notifies NameResolver when
\* names are published (register) or erased (unregister)": with nothing on the
\* way the home agrees with the registering node. Two ways to change a name
\* notify nobody, and a notice may be lost.
HomeAlwaysAgrees ==
    \A x \in Names, n \in Hosts : RegistersOn[x] = {n} /\ ~InTransit(x) =>
        directory[HomeOf[x]][x] = IF x \in local[n] THEN n ELSE Nobody

\* resolve() returns: an address, or nothing at the latest at its timeout.
ResolveReturns == []<>(\A r \in Resolvers : call[r].at \in {"idle", "done"})

\* A call gets an address of the name it asked for, and the cache holds such.
ResolvesOwnName ==
    /\ \A r \in Resolvers : call[r].result # Nobody => call[r].result.name = call[r].name
    /\ \A n \in Hosts, x \in Names : cache[n][x] # Nobody => cache[n][x].name = x

\* A name registered on exactly one node is known at home, even when it was
\* moved there from another node.
MovedNameFound ==
    \A x \in Names : ~InTransit(x) /\ Cardinality({n \in Hosts : x \in local[n]}) = 1 =>
        directory[HomeOf[x]][x] # Nobody
=============================================================================
