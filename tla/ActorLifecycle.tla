--------------------------- MODULE ActorLifecycle ---------------------------
(***************************************************************************)
(* The lifecycle of one EventBasedActor and everyone who drives it: its    *)
(* worker, callers of ActorContext::stop, the ShutdownCoordinator, drain   *)
(* timers, the operator's kill / quarantine / unquarantine, the            *)
(* PassivationManager and its route stub, and the supervisor that restarts *)
(* the actor when a DownMsg arrives.                                       *)
(*                                                                         *)
(* Each of them runs a short program of operations.  A lifecycle operation *)
(* is LifecycleActor::transition: a load, a look-up in kStateMachine, and  *)
(* a compare-exchange; most callers ignore whether it succeeded.           *)
(***************************************************************************)
EXTENDS Integers, Sequences

CONSTANTS
    Messages,        \* user messages
    Stoppers,        \* threads that call ActorContext::stop
    Worker, Coordinator, Passivator, Supervisor,
    Reactivators,    \* threads that call PassivationManager::reactivate
    Policies,        \* values of drain_config().policy
    MaxRestarts,     \* restarts before the supervisor gives the child up (10)
    ForceAfterTimeout, \* ShutdownOptions::force_after_timeout
    TimerOf,         \* the callback of the drain timer each caller may start
    Operator,
    Casts,           \* bound: the sets of drivers that act together in a behaviour
    MaxCommands      \* bound on the operator's commands

Callers == Stoppers \cup {Coordinator}
Timer(c) == TimerOf[c]
Timers == {Timer(c) : c \in Callers}
Drivers == Callers \cup {Worker, Passivator, Supervisor} \cup Timers

None == "none"

ASSUME LifecycleAssumption ==
    /\ None \notin Messages
    /\ \A c, d \in Callers : c # d => TimerOf[c] # TimerOf[d]
    /\ None \notin Timers /\ Coordinator \notin Stoppers /\ Callers \cap Timers = {}
    /\ Worker \notin {Passivator, Supervisor} /\ Passivator # Supervisor
    /\ {Worker, Passivator, Supervisor} \cap (Callers \cup Timers) = {}
    /\ MaxRestarts \in Nat /\ MaxCommands \in Nat /\ ForceAfterTimeout \in BOOLEAN
    /\ Policies \subseteq {"Drain", "DropUserMessages", "ImmediateStop", "SnapshotAndStop"}

VARIABLES
    cast,             \* the drivers that act in this behaviour
    lc, incarnation,  \* LifecycleActor::state_, incarnation_
    policy,           \* drain_config_.policy
    mbox, fate,       \* the mailbox; where each message is
    step, held,       \* the worker's stage in receive(), the message it holds
    todo, seen,       \* per driver: operations left; the state its transition loaded
    armed, handle,    \* drain timers that are scheduled; drain_timer_handle_
    downs,            \* DownMsgs on their way to the supervisor
    restarts, child,  \* restart_counts_ of the actor; whether it is in children_
    phase, deadline,  \* ShutdownPhase; whether the actor drain deadline has passed
    snapshot,         \* whether a snapshot of the actor was written
    route, claimed,   \* LocalPassivatedRoute: lifecycle_state_, reactivation_in_progress_
    react,            \* step of each reactivator
    exits, commands,  \* history: calls of on_exit; the operator's commands
    called,           \* history: the stoppers that have called stop()
    early, expired,   \* history: messages accepted before the drain began; whether a
                      \* drain timer expired in time
    torn, revived     \* history: a message handled after the snapshot; reactivations

threads == <<todo, seen>>
drain == <<armed, handle>>
worker == <<step, held>>
passivation == <<snapshot, route, claimed, react, torn, revived>>
supervision == <<downs, restarts, child>>
shutdown == <<phase, deadline>>
vars == <<cast, lc, incarnation, policy, mbox, fate, worker, threads, drain, supervision,
          shutdown, passivation, exits, commands, called, early, expired>>

States == {"Starting", "Active", "Draining", "Stopping", "Stopped", "Failed",
           "Recovering", "Quarantined", "Passivating", "Passivated"}

\* The first num_transitions entries of each row: kStarting lists kFailed too, but
\* its count is one.
kStateMachine ==
    [Starting |-> {"Active"},
     Active |-> {"Draining", "Stopping", "Failed", "Quarantined", "Passivating"},
     Draining |-> {"Stopping", "Failed"},
     Stopping |-> {"Stopped", "Failed"},
     Stopped |-> {"Starting"},
     Failed |-> {"Starting", "Stopped", "Recovering", "Quarantined"},
     Recovering |-> {"Active", "Failed", "Quarantined"},
     Quarantined |-> {"Stopped"},
     Passivating |-> {"Passivated", "Failed"},
     Passivated |-> {"Recovering", "Stopped", "Failed"}]

\* Spawned and published: ActorSpawner::adopt ends with kStarting -> kActive.
Init ==
    /\ cast \in Casts
    /\ lc = "Active" /\ incarnation = 0 /\ policy \in Policies
    /\ mbox = << >> /\ fate = [m \in Messages |-> "unsent"]
    /\ step = "idle" /\ held = None
    /\ todo = [d \in Drivers |-> << >>] /\ seen = [d \in Drivers |-> None]
    /\ armed = {} /\ handle = None
    /\ downs = 0 /\ restarts = 0 /\ child = TRUE
    /\ phase = "Running" /\ deadline = FALSE
    /\ snapshot = FALSE /\ route = None /\ claimed = FALSE
    /\ react = [r \in Reactivators |-> "idle"]
    /\ exits = 0 /\ commands = 0 /\ called = {} /\ early = {} /\ expired = FALSE
    /\ torn = FALSE /\ revived = 0
-----------------------------------------------------------------------------
(* The operations of a driver's program. *)

Program(d, p) == todo' = [todo EXCEPT ![d] = p]
Pop(d) == Program(d, Tail(todo[d]))
AtOp(d, op) == todo[d] # << >> /\ Head(todo[d]) = op
Rest(d) == todo[d] = << >>

Finish == <<"Stopping", "Stopped", "exit">>
StopNow == <<"drain_all", "Stopping", "Stopped", "exit">>

\* transition(): an illegal target returns false; only begin_passivation gives up.
Load(d) ==
    /\ todo[d] # << >> /\ Head(todo[d]) \in States /\ seen[d] = None
    /\ IF Head(todo[d]) \in kStateMachine[lc]
         THEN seen' = [seen EXCEPT ![d] = lc] /\ UNCHANGED todo
         ELSE IF d = Passivator THEN Program(d, << >>) /\ UNCHANGED seen
                                ELSE Pop(d) /\ UNCHANGED seen
    /\ UNCHANGED <<cast, lc, incarnation, policy, mbox, fate, worker, drain, supervision,
                   shutdown, passivation, exits, commands, called, early, expired>>

CompareExchange(d) ==
    /\ seen[d] # None /\ seen' = [seen EXCEPT ![d] = None]
    /\ IF lc = seen[d]
         THEN /\ lc' = Head(todo[d]) /\ Pop(d)
              /\ early' = IF lc' = "Draining"
                            THEN {m \in Messages : fate[m] \in {"queued", "held"}} ELSE early
         ELSE /\ UNCHANGED <<lc, early>>
              /\ Program(d, IF d = Passivator THEN << >> ELSE Tail(todo[d]))
    /\ UNCHANGED <<cast, incarnation, policy, mbox, fate, worker, drain, supervision,
                   shutdown, passivation, exits, commands, called, expired>>

\* drain_all_immediate, one try_pop at a time.
DrainAll(d) ==
    /\ AtOp(d, "drain_all")
    /\ IF mbox = << >>
         THEN Pop(d) /\ UNCHANGED <<mbox, fate>>
         ELSE /\ fate' = [fate EXCEPT ![Head(mbox)] = "dead"]
              /\ mbox' = Tail(mbox) /\ UNCHANGED todo
    /\ UNCHANGED <<cast, lc, incarnation, policy, worker, seen, drain, supervision,
                   shutdown, passivation, exits, commands, called, early, expired>>

\* on_exit: a DownMsg to every linked and monitored actor, the supervisor among them.
OnExit(d) ==
    /\ AtOp(d, "exit") /\ Pop(d)
    /\ exits' = exits + 1 /\ downs' = downs + 1
    /\ UNCHANGED <<cast, lc, incarnation, policy, mbox, fate, worker, seen, drain, restarts, child,
                   shutdown, passivation, commands, called, early, expired>>

\* start_drain_timer overwrites drain_timer_handle_.
Arm(d) ==
    /\ AtOp(d, "arm") /\ Pop(d)
    /\ armed' = armed \cup {Timer(d)} /\ handle' = Timer(d)
    /\ UNCHANGED <<cast, lc, incarnation, policy, mbox, fate, worker, seen, supervision,
                   shutdown, passivation, exits, commands, called, early, expired>>

BumpIncarnation(d) ==
    /\ AtOp(d, "bump") /\ Pop(d) /\ incarnation' = incarnation + 1
    /\ UNCHANGED <<cast, lc, policy, mbox, fate, worker, seen, drain, supervision,
                   shutdown, passivation, exits, commands, called, early, expired>>

Operate(d) ==
    Load(d) \/ CompareExchange(d) \/ DrainAll(d) \/ OnExit(d) \/ Arm(d) \/ BumpIncarnation(d)
-----------------------------------------------------------------------------
(* The actor's worker: EventBasedActor::receive. *)

\* Delivery does not look at the lifecycle state.
Arrive(m) ==
    /\ fate[m] = "unsent" /\ fate' = [fate EXCEPT ![m] = "queued"] /\ mbox' = Append(mbox, m)
    /\ UNCHANGED <<cast, lc, incarnation, policy, worker, threads, drain, supervision,
                   shutdown, passivation, exits, commands, called, early, expired>>

Receive ==
    /\ step = "idle" /\ Rest(Worker) /\ mbox # << >>
    /\ held' = Head(mbox) /\ mbox' = Tail(mbox) /\ step' = "drain_gate"
    /\ fate' = [fate EXCEPT ![Head(mbox)] = "held"]
    /\ UNCHANGED <<cast, lc, incarnation, policy, threads, drain, supervision,
                   shutdown, passivation, exits, commands, called, early, expired>>

\* drain_one: a deferred policy falls back to Drain.  Under ImmediateStop no caller
\* makes the actor kDraining.
DrainGate ==
    /\ step = "drain_gate"
    /\ IF lc = "Draining" /\ policy = "DropUserMessages"
         THEN /\ fate' = [fate EXCEPT ![held] = "dead"]
              /\ held' = None /\ step' = "completion" /\ UNCHANGED policy
         ELSE /\ step' = "lifecycle_gate" /\ UNCHANGED <<fate, held>>
              /\ policy' = IF lc = "Draining" /\ policy = "SnapshotAndStop" THEN "Drain" ELSE policy
    /\ UNCHANGED <<cast, lc, incarnation, mbox, threads, drain, supervision,
                   shutdown, passivation, exits, commands, called, early, expired>>

\* apply_lifecycle_gate: a message it refuses is dropped, with no dead letter.
LifecycleGate ==
    /\ step = "lifecycle_gate"
    /\ IF lc \in {"Active", "Draining"}
         THEN step' = "handler" /\ UNCHANGED <<held, fate>>
         ELSE /\ step' = "idle" /\ held' = None
              /\ fate' = [fate EXCEPT ![held] = "discarded"]
    /\ UNCHANGED <<cast, lc, incarnation, policy, mbox, threads, drain, supervision,
                   shutdown, passivation, exits, commands, called, early, expired>>

\* The handler ends, or the drain gate has dead-lettered the message.
Handled ==
    /\ step \in {"handler", "completion"} /\ step' = "idle" /\ held' = None
    /\ fate' = IF step = "handler" THEN [fate EXCEPT ![held] = "handled"] ELSE fate
    /\ torn' = (torn \/ (step = "handler" /\ snapshot))
    /\ UNCHANGED <<cast, lc, incarnation, policy, mbox, seen, supervision, shutdown, snapshot,
                   route, claimed, react, revived, exits, commands, called, early, expired>>

\* Mutant: DownMsgs go out before the actor has left service.
TryDrainCompletionExitFirst ==
    IF lc = "Draining" /\ mbox = << >>
      THEN Program(Worker, <<"exit", "Stopping", "Stopped">>) /\ armed' = armed \ {handle} /\ handle' = None
      ELSE UNCHANGED <<todo, drain>>

\* With cancel_drain_timer.
TryDrainCompletion ==
    IF lc = "Draining" /\ mbox = << >>
      THEN Program(Worker, Finish) /\ armed' = armed \ {handle} /\ handle' = None
      ELSE UNCHANGED <<todo, drain>>

\* dispatch_user_message, then try_drain_completion.
Handle == Handled /\ TryDrainCompletion

\* dispatch_cli_message: kill calls no on_exit.
OperatorCommand ==
    /\ step = "idle" /\ Rest(Worker)
    /\ Operator \in cast /\ commands < MaxCommands /\ commands' = commands + 1
    /\ \/ Program(Worker, <<"Stopping", "Stopped">>)
       \/ lc # "Quarantined" /\ Program(Worker, <<"Quarantined">>)
       \/ lc = "Quarantined" /\ Program(Worker, <<"Stopped", "bump", "Starting", "Active">>)
    /\ UNCHANGED <<cast, lc, incarnation, policy, mbox, fate, worker, seen, drain, supervision,
                   shutdown, passivation, exits, called, early, expired>>
-----------------------------------------------------------------------------
(* Stopping: ActorContext::stop, the drain timer, ShutdownCoordinator. *)

\* Each stopper calls once.
Stop(s) ==
    /\ s \in cast \ called /\ called' = called \cup {s}
    /\ Program(s, IF policy = "ImmediateStop" THEN StopNow ELSE <<"Draining", "arm">>)
    /\ UNCHANGED <<cast, lc, incarnation, policy, mbox, fate, worker, seen, drain, supervision,
                   shutdown, passivation, exits, commands, early, expired>>

\* Mutant: a callback that finds more mail waits for the worker to finish it.
TimerFiresIfEmpty(c) ==
    /\ Timer(c) \in armed /\ armed' = armed \ {Timer(c)}
    /\ IF lc = "Draining" /\ mbox # << >>
         THEN Program(Timer(c), StopNow) /\ expired' = TRUE
         ELSE UNCHANGED <<todo, expired>>
    /\ UNCHANGED <<cast, lc, incarnation, policy, mbox, fate, worker, seen, handle, supervision,
                   shutdown, passivation, exits, commands, called, early>>

\* The callback: nothing unless the actor is still draining.
TimerFires(c) ==
    /\ Timer(c) \in armed /\ armed' = armed \ {Timer(c)}
    /\ IF lc = "Draining"
         THEN Program(Timer(c), StopNow) /\ expired' = TRUE
         ELSE UNCHANGED <<todo, expired>>
    /\ UNCHANGED <<cast, lc, incarnation, policy, mbox, fate, worker, seen, handle, supervision,
                   shutdown, passivation, exits, commands, called, early>>

\* execute(): ingress first, then initiate_actor_drain.
InitiateActorDrain ==
    /\ Coordinator \in cast /\ phase = "Running" /\ phase' = "DrainingActors"
    /\ Program(Coordinator,
               CASE lc \in {"Stopping", "Stopped"} -> << >>
                 [] lc \notin {"Stopping", "Stopped"} /\ policy = "ImmediateStop" -> StopNow
                 [] lc = "Active" /\ policy # "ImmediateStop" -> <<"Draining", "arm">>
                 [] OTHER -> <<"arm">>)
    /\ UNCHANGED <<cast, lc, incarnation, policy, mbox, fate, worker, seen, drain, supervision,
                   deadline, passivation, exits, commands, called, early, expired>>

DeadlinePasses ==
    /\ phase = "DrainingActors" /\ ~deadline /\ deadline' = TRUE
    /\ UNCHANGED <<cast, lc, incarnation, policy, mbox, fate, worker, threads, drain, supervision,
                   phase, passivation, exits, commands, called, early, expired>>

\* poll_drain_complete, and check_force after it.
PollDrainComplete ==
    /\ phase = "DrainingActors" /\ Rest(Coordinator)
    /\ deadline \/ lc = "Stopped"
    /\ phase' = IF deadline /\ ForceAfterTimeout THEN "ForcedStop" ELSE "LeavingCluster"
    /\ UNCHANGED <<cast, lc, incarnation, policy, mbox, fate, worker, threads, drain, supervision,
                   deadline, passivation, exits, commands, called, early, expired>>

\* The last phases touch no actor.
FinishShutdown ==
    /\ phase = "LeavingCluster" /\ phase' = "Stopped"
    /\ UNCHANGED <<cast, lc, incarnation, policy, mbox, fate, worker, threads, drain, supervision,
                   deadline, passivation, exits, commands, called, early, expired>>
-----------------------------------------------------------------------------
(* SupervisorActor::handle_child_down; both strategies answer Restart. *)

\* The window test subtracts time_point::min() from now: the difference overflows
\* and the window never ends.  No transition leads on to kActive.  A child given up
\* has its count erased, so a later DownMsg restarts it again.
RestartChild ==
    /\ Supervisor \in cast /\ downs > 0 /\ downs' = downs - 1 /\ Rest(Supervisor)
    /\ IF restarts < MaxRestarts
         THEN /\ restarts' = restarts + 1 /\ UNCHANGED child
              /\ Program(Supervisor, <<"Failed", "bump", "Starting">>)
         ELSE child' = FALSE /\ restarts' = 0 /\ UNCHANGED todo
    /\ UNCHANGED <<cast, lc, incarnation, policy, mbox, fate, worker, seen, drain,
                   shutdown, passivation, exits, commands, called, early, expired>>
-----------------------------------------------------------------------------
(* PassivationManager::begin_passivation and reactivate. *)

\* Bound: one passivation that reaches the snapshot.
BeginPassivation ==
    /\ Passivator \in cast /\ Rest(Passivator) /\ lc = "Active" /\ route = None /\ ~snapshot
    /\ Program(Passivator, <<"Passivating", "depth", "snapshot", "Passivated", "route">>)
    /\ UNCHANGED <<cast, lc, incarnation, policy, mbox, fate, worker, seen, drain, supervision,
                   shutdown, passivation, exits, commands, called, early, expired>>

\* drain_actor polls the depth once.
DrainActor ==
    /\ AtOp(Passivator, "depth")
    /\ IF lc = "Passivating" /\ mbox = << >>
         THEN Pop(Passivator) ELSE Program(Passivator, <<"Failed">>)
    /\ UNCHANGED <<cast, lc, incarnation, policy, mbox, fate, worker, seen, drain, supervision,
                   shutdown, passivation, exits, commands, called, early, expired>>

\* snapshot_state and write_snapshot, either of which may fail.
WriteSnapshot ==
    /\ AtOp(Passivator, "snapshot")
    /\ \/ snapshot' = TRUE /\ Pop(Passivator)
       \/ Program(Passivator, <<"Failed">>) /\ UNCHANGED snapshot
    /\ UNCHANGED <<cast, lc, incarnation, policy, mbox, fate, worker, seen, drain, supervision,
                   shutdown, route, claimed, react, torn, revived, exits, commands, called, early, expired>>

\* The caller of begin_passivation builds the LocalPassivatedRoute.
PublishRoute ==
    /\ AtOp(Passivator, "route") /\ Pop(Passivator) /\ route' = "Passivated"
    /\ UNCHANGED <<cast, lc, incarnation, policy, mbox, fate, worker, seen, drain, supervision,
                   shutdown, snapshot, claimed, react, torn, revived, exits, commands, called, early, expired>>

ReactStep(r, from, to) == react[r] = from /\ react' = [react EXCEPT ![r] = to]

\* state(): kRecovering while the flag is set, else the stored state.
CheckRoute(r) ==
    /\ route # None /\ (claimed \/ route \in {"Passivated", "Recovering"})
    /\ ReactStep(r, "idle", "claim")
    /\ UNCHANGED <<cast, lc, incarnation, policy, mbox, fate, worker, threads, drain, supervision,
                   shutdown, snapshot, route, claimed, torn, revived, exits, commands, called, early, expired>>

\* claim_reactivation, then transition_to_recovering.
Claim(r) ==
    /\ IF claimed
         THEN ReactStep(r, "claim", "done") /\ UNCHANGED <<claimed, route>>
         ELSE /\ ReactStep(r, "claim", "restore") /\ claimed' = TRUE
              /\ route' = IF route = "Passivated" THEN "Recovering" ELSE route
    /\ UNCHANGED <<cast, lc, incarnation, policy, mbox, fate, worker, threads, drain, supervision,
                   shutdown, snapshot, torn, revived, exits, commands, called, early, expired>>

\* load_latest_snapshot succeeds or not, then set_state stores the state.
Restore(r) ==
    /\ ReactStep(r, "restore", "release")
    /\ \/ route' = "Active" /\ revived' = revived + 1
       \/ route' = "Failed" /\ UNCHANGED revived
    /\ UNCHANGED <<cast, lc, incarnation, policy, mbox, fate, worker, threads, drain, supervision,
                   shutdown, snapshot, claimed, torn, exits, commands, called, early, expired>>

Release(r) ==
    /\ ReactStep(r, "release", "done") /\ claimed' = FALSE
    /\ UNCHANGED <<cast, lc, incarnation, policy, mbox, fate, worker, threads, drain, supervision,
                   shutdown, snapshot, route, torn, revived, exits, commands, called, early, expired>>
-----------------------------------------------------------------------------
WorkerStep == Receive \/ DrainGate \/ LifecycleGate \/ Handle
CoordinatorStep == PollDrainComplete \/ FinishShutdown
PassivatorStep == DrainActor \/ WriteSnapshot \/ PublishRoute
Reactivate(r) == Claim(r) \/ Restore(r) \/ Release(r)

Next ==
    \/ \E m \in Messages : Arrive(m)
    \/ \E d \in Drivers : Operate(d)
    \/ WorkerStep \/ OperatorCommand
    \/ \E s \in Stoppers : Stop(s)
    \/ \E c \in Callers : TimerFires(c)
    \/ InitiateActorDrain \/ DeadlinePasses \/ CoordinatorStep
    \/ RestartChild \/ BeginPassivation \/ PassivatorStep
    \/ \E r \in Reactivators : CheckRoute(r) \/ Reactivate(r)

Spec == Init /\ [][Next]_vars

\* Threads that have begun an operation finish it, scheduled timers fire, a worker
\* runs the actor while it has mail, and the clock reaches the deadline.
FairSpec ==
    /\ Spec /\ WF_vars(WorkerStep) /\ WF_vars(CoordinatorStep) /\ WF_vars(PassivatorStep)
    /\ WF_vars(DeadlinePasses)
    /\ \A d \in Drivers : WF_vars(Operate(d))
    /\ \A c \in Callers : WF_vars(TimerFires(c))
-----------------------------------------------------------------------------
(* Properties. *)

\* The lifecycle state, the programs and the stages keep their types.
TypeOK ==
    /\ lc \in States /\ incarnation \in Nat /\ policy \in Policies \cup {"Drain"}
    /\ step \in {"idle", "drain_gate", "lifecycle_gate", "handler", "completion"}
    /\ held \in Messages \cup {None}
    /\ fate \in [Messages -> {"unsent", "queued", "held", "handled", "dead", "discarded"}]
    /\ seen \in [Drivers -> States \cup {None}]
    /\ armed \subseteq Timers /\ handle \in Timers \cup {None}
    /\ phase \in {"Running", "DrainingActors", "LeavingCluster", "Stopped", "ForcedStop"}
    /\ route \in States \cup {None}

\* A graceful drain loses nothing: a message in the mailbox or in the worker's hands
\* when the actor became kDraining is never dropped by the lifecycle gate, unless
\* the drain timer expired or an operator intervened.
GracefulDrain ==
    \A m \in early : fate[m] = "discarded" => expired \/ commands > 0

\* Once on_exit has told the links that the actor is down, it does not serve: it is
\* neither kActive nor kDraining.  (An operator's unquarantine may race a stop.)
DownMeansDown == exits > 0 /\ commands = 0 => lc \notin {"Active", "Draining"}

\* Every state change of the lifecycle is one of kStateMachine's, whatever the races
\* between worker, timer, stopper, passivator, supervisor and operator.
LegalTransitions == [][lc' # lc => lc' \in kStateMachine[lc]]_vars

\* The shutdown leaves the actor phase only when the actor it drained has stopped or
\* the deadline has passed; a supervisor may have begun to restart the actor since.
ShutdownWaits ==
    phase \in {"LeavingCluster", "Stopped"} => deadline \/ lc = "Stopped" \/ incarnation > 0

\* claim_reactivation lets one caller at a time restore the actor.
OneReactivator ==
    \A r, s \in Reactivators :
        react[r] \in {"restore", "release"} /\ react[s] \in {"restore", "release"} => r = s

\* A drain ends: by the worker when the mailbox is empty, or by the drain timer, even
\* when a second stop overwrote the timer handle or the worker cancelled it.
DrainEnds == []<>(lc # "Draining")

\* A shutdown ends, whatever state the actor is in when it begins.
ShutdownEnds == []<>(phase \in {"Running", "Stopped", "ForcedStop"})

\* The lifecycle's safety: drains keep their messages, an actor that exited does not
\* serve, shutdown waits for its actors, and one caller reactivates.
LifecycleInv ==
    TypeOK /\ GracefulDrain /\ DownMeansDown /\ ShutdownWaits /\ OneReactivator

\* The racing ways to stop an actor only take legal transitions, and between them they
\* end every drain and every shutdown.
LifecycleProgress == LegalTransitions /\ DrainEnds /\ ShutdownEnds

\* Expected of on_exit: links and monitors hear of a termination once.
ExitOnce == exits <= 1

\* Stated at drain_actor: while a message is unprocessed there must be no snapshot;
\* none is handled after it.
SnapshotComplete == ~torn

\* Stated at reactivate: a caller that finds another one has started gives up.
ReactivatedOnce == revived <= 1

\* Expected of a supervisor's restart: the child serves again.
RestartedServes == [](restarts > 0 => <>(lc = "Active"))
=============================================================================
