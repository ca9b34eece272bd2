--------------------------- MODULE ClusterRuntime ---------------------------
(***************************************************************************)
(* One node's cluster runtime: ClusterFailureModel::transition() and the   *)
(* observer it runs after releasing its mutex, which holds the singleton   *)
(* election (OldestNodeElection, SingletonManagerCore) and drains the      *)
(* route invalidation queue.  Membership events come from any thread.      *)
(***************************************************************************)
EXTENDS Naturals, Sequences, FiniteSets, FiniteSetsExt, SequencesExt

CONSTANTS
    Members,            \* node ids, numbers: OldestNodeElection takes the least
    Self,
    Monitors,           \* threads calling transition()
    MaxTransitions      \* bound

ASSUME RuntimeAssumption ==
    /\ Members \subseteq Nat /\ IsFiniteSet(Members) /\ Self \in Members
    /\ MaxTransitions \in Nat

VARIABLES
    node_state,         \* nodes_
    invalidation_queue,
    observer,           \* each thread: where its observer is, and what it was given
    singleton,          \* SingletonState of the shard-coordinator
    fencing_token,
    processed,          \* times RouteInvalidation::process was given each node
    invalidated,        \* times each node entered an invalidating state
    transitions         \* successful transitions so far

runtimeVars == <<node_state, invalidation_queue, observer, singleton, fencing_token,
                 processed, invalidated, transitions>>

Idle == [at |-> "idle", alive |-> {}, drained |-> << >>]

RuntimeInit ==
    /\ node_state = [m \in Members |-> "Joining"]
    /\ invalidation_queue = << >>
    /\ observer = [t \in Monitors |-> Idle]
    /\ singleton = "Standby"
    /\ fencing_token = 0
    /\ processed = [m \in Members |-> 0]
    /\ invalidated = [m \in Members |-> 0]
    /\ transitions = 0

\* can_transition.
Legal ==
    [Joining     |-> {"Alive"},
     Alive       |-> {"Suspect", "Unreachable", "Quarantined", "Leaving"},
     Suspect     |-> {"Alive", "Unreachable", "Quarantined"},
     Unreachable |-> {"Alive", "Down"},
     Leaving     |-> {"Down"},
     Down        |-> {"Removed"},
     Quarantined |-> {"Joining"},
     Removed     |-> {}]

Invalidating == {"Down", "Quarantined", "Removed"}
AliveNodes(s) == {m \in Members : s[m] = "Alive"}

\* The part of transition() under the mutex; an illegal one changes nothing.
Transition(t, m, to) ==
    /\ observer[t].at = "idle" /\ transitions < MaxTransitions
    /\ to \in Legal[node_state[m]]
    /\ node_state' = [node_state EXCEPT ![m] = to]
    /\ invalidation_queue' = IF to \in Invalidating THEN Append(invalidation_queue, m)
                             ELSE invalidation_queue
    /\ observer' = [observer EXCEPT ![t] = [Idle EXCEPT !.at = "elect",
                                                        !.alive = AliveNodes(node_state')]]
    /\ invalidated' = IF to \in Invalidating THEN [invalidated EXCEPT ![m] = @ + 1]
                      ELSE invalidated
    /\ transitions' = transitions + 1
    /\ UNCHANGED <<singleton, fencing_token, processed>>

\* OldestNodeElection::elect.
Wins(alive) == alive # {} /\ Min(alive) = Self

\* Mutant: the observer returns early on the node that did not win.
OnNodeStateChangeReturns(t) ==
    /\ observer[t].at = "elect"
    /\ UNCHANGED <<node_state, invalidation_queue, singleton, fencing_token, processed,
                   invalidated, transitions>>
    /\ observer' = [observer EXCEPT ![t] = IF Wins(observer[t].alive)
                                           THEN [@ EXCEPT !.at = "drain"] ELSE Idle]

\* SingletonManagerCore::on_node_state_change.  No election strategy the
\* runtime configures without gRPC issues tokens, so the local one is used.
OnNodeStateChange(t) ==
    /\ observer[t].at = "elect"
    /\ IF Wins(observer[t].alive)
       THEN IF singleton = "Standby"
            THEN singleton' = "Active" /\ fencing_token' = fencing_token + 1
            ELSE UNCHANGED <<singleton, fencing_token>>
       ELSE /\ singleton' = IF singleton \in {"Active", "Draining"} THEN "Standby"
                            ELSE singleton
            /\ UNCHANGED fencing_token
    /\ observer' = [observer EXCEPT ![t].at = "drain"]
    /\ UNCHANGED <<node_state, invalidation_queue, processed, invalidated,
                   transitions>>

Occurrences(s, m) == Cardinality({i \in DOMAIN s : s[i] = m})

\* The queue may hold other threads' entries, or have been drained by one.
DrainInvalidationQueue(t) ==
    /\ observer[t].at = "drain"
    /\ observer' = [observer EXCEPT ![t] = [@ EXCEPT !.at = "process",
                                                     !.drained = invalidation_queue]]
    /\ invalidation_queue' = << >>
    /\ UNCHANGED <<node_state, singleton, fencing_token, processed, invalidated,
                   transitions>>

ProcessInvalidated(t) ==
    /\ observer[t].at = "process"
    /\ processed' = [m \in Members |-> processed[m] + Occurrences(observer[t].drained, m)]
    /\ observer' = [observer EXCEPT ![t] = Idle]
    /\ UNCHANGED <<node_state, invalidation_queue, singleton, fencing_token, invalidated,
                   transitions>>

\* begin_drain and complete_drain, called by the singleton's host.
BeginDrain ==
    /\ singleton = "Active" /\ transitions < MaxTransitions
    /\ singleton' = "Draining"
    /\ UNCHANGED <<node_state, invalidation_queue, observer, fencing_token, processed,
                   invalidated, transitions>>

CompleteDrain ==
    /\ singleton = "Draining"
    /\ singleton' = "Standby"
    /\ UNCHANGED <<node_state, invalidation_queue, observer, fencing_token, processed,
                   invalidated, transitions>>

ObserverStep(t) == OnNodeStateChange(t) \/ DrainInvalidationQueue(t) \/ ProcessInvalidated(t)

RuntimeNext ==
    \/ \E t \in Monitors :
          \/ \E m \in Members : \E to \in Legal[node_state[m]] : Transition(t, m, to)
          \/ ObserverStep(t)
    \/ BeginDrain \/ CompleteDrain

-----------------------------------------------------------------------------
Observing == {t \in Monitors : observer[t].at # "idle"}

\* The runtime's fields have their types; Activating is passed within one call
\* of on_node_state_change and never seen from outside.
RuntimeTypeOK ==
    /\ node_state \in [Members -> DOMAIN Legal]
    /\ singleton \in {"Standby", "Active", "Draining"}
    /\ fencing_token \in 0 .. 2 * MaxTransitions
    /\ \A t \in Monitors : observer[t].alive \subseteq Members

\* Every node that went down, was quarantined or removed is either still in
\* the queue, in the hands of one thread, or processed - once per transition,
\* however the observers of several threads interleave.
InvalidatedOnce ==
    \A m \in Members :
        invalidated[m] = Occurrences(invalidation_queue, m) + processed[m]
            + MapThenSumSet(LAMBDA t : Occurrences(observer[t].drained, m), Monitors)

\* Once every thread is out of transition(), no invalidation waits for a
\* later membership event.
InvalidationNotStranded == Observing = {} => invalidation_queue = << >>

\* The fencing token changes only when a singleton that was not running here
\* becomes active, and then it rises: a running singleton is never fenced off
\* by its own node.
TokenPerActivation ==
    [][fencing_token' # fencing_token =>
          fencing_token' = fencing_token + 1 /\ singleton = "Standby"
              /\ singleton' = "Active"]_runtimeVars

\* Observers of several threads, in whatever order, process each invalidation once,
\* strand none, and change the token only on an activation.
RuntimeSafety ==
    [](RuntimeTypeOK /\ InvalidatedOnce /\ InvalidationNotStranded) /\ TokenPerActivation

-----------------------------------------------------------------------------
(* What the documentation promises and the code does not keep.             *)

\* When no election is in progress the singleton runs here only if this node
\* is the oldest of those alive.
OnlyOldestActive ==
    Observing = {} /\ singleton = "Active" => Wins(AliveNodes(node_state))
=============================================================================
