--------------------------- MODULE RuntimeStartup ---------------------------
(***************************************************************************)
(* Starting and stopping a runtime.  RuntimeCoordinator runs its stages in *)
(* dependency order and unwinds them in reverse; the                       *)
(* TopologyBootstrapTransaction spawns the configured actors under leases, *)
(* registers their names at once and commits, or rolls everything back.    *)
(*                                                                         *)
(* The ActorDirectory is shared with the rest of the program: somebody     *)
(* else registers names and withdraws them.                                *)
(* The coordinator's states are atomics without a lock, so its operations  *)
(* may be called from several threads.                                     *)
(***************************************************************************)
EXTENDS Integers, Sequences

CONSTANTS
    NumStages,        \* stages 1..NumStages, in the order they were added
    Callers,          \* threads that call start, stop and shutdown
    MaxCalls,         \* bound on their calls
    NumActors,        \* configured actors 1..NumActors, in model order
    Unnamed,          \* those with an empty id, which get no name
    Leaseless,        \* those whose provider answers with an empty lease
    Taken             \* names (by the actor they are meant for) somebody else may register

ASSUME StartupAssumption ==
    /\ NumStages \in Nat /\ MaxCalls \in Nat /\ NumActors \in Nat
    /\ Unnamed \subseteq 1..NumActors /\ Leaseless \subseteq 1..NumActors
    /\ Taken \subseteq (1..NumActors) \ Unnamed

VARIABLES
    lifecycle_state, ready_,   \* RuntimeCoordinator
    started,                   \* the stages whose component is started
    doing, stage,              \* a caller: its next step, the stage it is at
    calls,
    present, names,            \* ActorDirectory; a name is 0 when free
    phase, at,                 \* execute(): its phase, the actor it is at
    journal, committed,        \* the leases' actors, whether they are committed
    rollback_bits

coordinator == <<lifecycle_state, ready_, started, doing, stage, calls>>
directory == <<present, names>>
bootstrap == <<phase, at, journal, committed, rollback_bits>>
startupVars == <<coordinator, directory, bootstrap>>

Actors == 1..NumActors
Somebody == NumActors + 1          \* an actor outside the topology
-----------------------------------------------------------------------------
StartupInit ==
    /\ lifecycle_state = "Built" /\ ready_ = FALSE /\ started = {}
    /\ doing = [c \in Callers |-> "idle"] /\ stage = [c \in Callers |-> 0] /\ calls = 0
    /\ present = {Somebody} /\ names = [i \in Actors |-> 0]
    /\ phase = "spawn" /\ at = 1 /\ journal = <<>> /\ committed = FALSE
    /\ rollback_bits = {}
-----------------------------------------------------------------------------
(* RuntimeCoordinator. *)

Moves(c, step, s) == doing' = [doing EXCEPT ![c] = step] /\ stage' = [stage EXCEPT ![c] = s]

\* start() reads the state; from any other than these it fails and changes nothing. The
\* read and the store that follows are apart, and transition_to stores the readiness last.
CallStart(c) ==
    /\ doing[c] = "idle" /\ calls < MaxCalls
    /\ calls' = calls + 1
    /\ lifecycle_state \in {"Built", "Failed"}
    /\ Moves(c, "enter", 1)
    /\ UNCHANGED <<lifecycle_state, ready_, started, directory, bootstrap>>

EnterStarting(c) ==
    /\ doing[c] = "enter"
    /\ lifecycle_state' = "Starting"
    /\ Moves(c, "starting", 1)
    /\ UNCHANGED <<ready_, started, calls, directory, bootstrap>>

\* A stage's start action, which may fail. The last one's success makes the runtime Running.
StartStage(c) ==
    /\ doing[c] = "starting"
    /\ ready_' = FALSE
    /\ IF stage[c] > NumStages
       THEN /\ lifecycle_state' = "Running" /\ Moves(c, "announce", 0)
            /\ UNCHANGED started
       ELSE /\ UNCHANGED lifecycle_state
            /\ \/ started' = started \cup {stage[c]} /\ Moves(c, "starting", stage[c] + 1)
               \/ UNCHANGED started /\ Moves(c, "failing", stage[c] - 1)
    /\ UNCHANGED <<calls, directory, bootstrap>>

Announce(c) ==
    /\ doing[c] = "announce"
    /\ ready_' = TRUE
    /\ Moves(c, "idle", 0)
    /\ UNCHANGED <<lifecycle_state, started, calls, directory, bootstrap>>

\* rollback(i) of the completed stages, in reverse, after which the state is Failed.
RollbackStage(c) ==
    /\ doing[c] = "failing"
    /\ ready_' = FALSE
    /\ IF stage[c] = 0
       THEN lifecycle_state' = "Failed" /\ Moves(c, "idle", 0) /\ UNCHANGED started
       ELSE /\ started' = started \ {stage[c]}
            /\ Moves(c, "failing", stage[c] - 1)
            /\ UNCHANGED lifecycle_state
    /\ UNCHANGED <<calls, directory, bootstrap>>

\* stop() and shutdown() read the state: from Running through Draining to Stopping, from any
\* other state but Stopped directly. shutdown() lowers the readiness of a running one first.
CallStop(c, graceful) ==
    /\ doing[c] = "idle" /\ calls < MaxCalls
    /\ calls' = calls + 1
    /\ lifecycle_state # "Stopped"
    /\ ready_' = (ready_ /\ ~(graceful /\ lifecycle_state = "Running"))
    /\ Moves(c, IF lifecycle_state = "Running" THEN "draining" ELSE "stop", NumStages)
    /\ UNCHANGED <<lifecycle_state, started, directory, bootstrap>>

EnterDraining(c) ==
    /\ doing[c] = "draining"
    /\ lifecycle_state' = "Draining"
    /\ Moves(c, "stop", stage[c])
    /\ UNCHANGED <<ready_, started, calls, directory, bootstrap>>

EnterStopping(c) ==
    /\ doing[c] = "stop"
    /\ lifecycle_state' = "Stopping"
    /\ ready_' = FALSE
    /\ Moves(c, "stopping", stage[c])
    /\ UNCHANGED <<started, calls, directory, bootstrap>>

\* Every stage's rollback action in reverse, whether the stage was started or not.
UnwindStage(c) ==
    /\ doing[c] = "stopping"
    /\ ready_' = FALSE
    /\ IF stage[c] = 0
       THEN lifecycle_state' = "Stopped" /\ Moves(c, "idle", 0) /\ UNCHANGED started
       ELSE /\ started' = started \ {stage[c]}
            /\ Moves(c, "stopping", stage[c] - 1)
            /\ UNCHANGED lifecycle_state
    /\ UNCHANGED <<calls, directory, bootstrap>>

CoordinatorNext(c) ==
    \/ CallStart(c) \/ EnterStarting(c) \/ StartStage(c) \/ Announce(c) \/ RollbackStage(c)
    \/ \E graceful \in BOOLEAN : CallStop(c, graceful)
    \/ EnterDraining(c) \/ EnterStopping(c) \/ UnwindStage(c)
-----------------------------------------------------------------------------
(* TopologyBootstrapTransaction::execute. *)

\* No provider, or spawn_unpublished fails: the actor is not in the journal.
SpawnFails ==
    /\ phase = "spawn" /\ at <= NumActors
    /\ phase' = "rollback"
    /\ UNCHANGED <<coordinator, directory, at, journal, committed, rollback_bits>>

\* The actor of a lease. The C++ provider and the Python provider answer with an empty
\* lease, whose actor has the id 0.
LeaseOf(i) == IF i \in Leaseless THEN 0 ELSE i

\* The actor is in the directory without a name, and runs (adopt_unpublished).
SpawnUnpublished ==
    /\ phase = "spawn" /\ at <= NumActors
    /\ present' = present \cup {at}
    /\ journal' = Append(journal, LeaseOf(at))
    /\ phase' = "await"
    /\ UNCHANGED <<coordinator, names, at, committed, rollback_bits>>

\* await_ready, with success or without.
AwaitReady ==
    /\ phase = "await"
    /\ \/ phase' = "spawn" /\ at' = at + 1
       \/ phase' = "rollback" /\ UNCHANGED at
    /\ UNCHANGED <<coordinator, directory, journal, committed, rollback_bits>>

\* register_names_atomically: every name is free and every actor there, or none is
\* registered.
RegisterNames ==
    LET batch == Actors \ Unnamed
    IN  /\ phase = "spawn" /\ at > NumActors
        /\ IF \A i \in batch : names[i] = 0 /\ journal[i] \in present
           THEN /\ names' = [i \in Actors |-> IF i \in batch THEN journal[i] ELSE names[i]]
                /\ phase' = "commit" /\ UNCHANGED rollback_bits
           ELSE /\ phase' = "rollback" /\ rollback_bits' = rollback_bits \cup {"name"}
                /\ UNCHANGED names
        /\ UNCHANGED <<coordinator, present, at, journal, committed>>

\* Phase 4, after which the journal and its leases are destroyed.
CommitLeases ==
    /\ phase = "commit"
    /\ committed' = TRUE /\ journal' = <<>> /\ phase' = "ok"
    /\ UNCHANGED <<coordinator, directory, at, rollback_bits>>

\* ActorDirectory::erase: the entry, and every name that refers to it.
Erase(i) ==
    /\ present' = present \ {i}
    /\ names' = [n \in Actors |-> IF names[n] = i THEN 0 ELSE names[n]]

\* ActorSpawnLease::rollback: an empty lease has nothing to erase.
LeaseRollback(i) == IF i = 0 THEN UNCHANGED directory ELSE Erase(i)

\* A mutant: a provider whose rollback fails keeps its actor in the directory.
RollbackActorKept ==
    /\ phase = "rollback"
    /\ IF journal = <<>>
       THEN phase' = "failed" /\ UNCHANGED <<directory, journal, rollback_bits>>
       ELSE /\ journal' = SubSeq(journal, 1, Len(journal) - 1)
            /\ \/ LeaseRollback(journal[Len(journal)]) /\ UNCHANGED rollback_bits
               \/ rollback_bits' = rollback_bits \cup {"provider"} /\ UNCHANGED directory
            /\ UNCHANGED phase
    /\ UNCHANGED <<coordinator, at, committed>>

\* One round of the rollback loop, from the journal's end: the provider's, which may fail,
\* and the lease's.
RollbackActor ==
    /\ phase = "rollback"
    /\ IF journal = <<>>
       THEN phase' = "failed" /\ UNCHANGED <<directory, journal, rollback_bits>>
       ELSE /\ journal' = SubSeq(journal, 1, Len(journal) - 1)
            /\ LeaseRollback(journal[Len(journal)])
            /\ rollback_bits' \in {rollback_bits, rollback_bits \cup {"provider"}}
            /\ UNCHANGED phase
    /\ UNCHANGED <<coordinator, at, committed>>
-----------------------------------------------------------------------------
\* Somebody else registers a name the topology wants.
RegisterName(n) ==
    /\ names[n] = 0
    /\ names' = [names EXCEPT ![n] = Somebody]
    /\ UNCHANGED <<coordinator, present, bootstrap>>

\* They withdraw it.
UnregisterName(n) ==
    /\ names[n] = Somebody
    /\ names' = [names EXCEPT ![n] = 0]
    /\ UNCHANGED <<coordinator, present, bootstrap>>

StartupNext ==
    \/ \E c \in Callers : CoordinatorNext(c)
    \/ SpawnFails \/ SpawnUnpublished \/ AwaitReady \/ RegisterNames \/ CommitLeases
    \/ RollbackActor
    \/ \E n \in Taken : RegisterName(n) \/ UnregisterName(n)

StartupSpec == StartupInit /\ [][StartupNext]_startupVars
-----------------------------------------------------------------------------
(* Properties. *)

StartupTypeOK ==
    /\ lifecycle_state \in {"Built", "Starting", "Running", "Failed", "Draining", "Stopping", "Stopped"}
    /\ started \subseteq 1..NumStages /\ \A c \in Callers : stage[c] \in 0..(NumStages + 1)
    /\ present \subseteq Actors \cup {Somebody} /\ names \in [Actors -> 0..Somebody]

\* With one thread in control a stage runs only while all it depends on run, through failed
\* starts, another start, and stops from any state (start, rollback, stop).
StagesInOrder == \A s \in started : 1..s \subseteq started

\* Readiness is announced after the last stage's start and withdrawn before the first stage
\* is unwound; at rest in Failed or Stopped nothing is left running.
ReadyMeansRunning ==
    /\ ready_ => started = 1..NumStages
    /\ lifecycle_state \in {"Failed", "Stopped"} => started = {}

\* A topology comes up as a whole or not at all, although its actors run before their names
\* are registered, names may be taken meanwhile, and it may fail at any actor: a failed
\* bootstrap leaves no name and no actor (but those it got an empty lease for), a successful
\* one has them all, and before the commit phase no name is visible.
AllOrNothing ==
    /\ phase = "failed" => present \subseteq {Somebody} \cup Leaseless
    /\ phase \in {"commit", "ok"} => \A i \in Actors \ Unnamed : i \in present /\ names[i] = i
    /\ \A n \in Actors : names[n] \in Actors => phase \in {"commit", "ok"}
    /\ \A n \in Actors : names[n] # 0 => names[n] \in present

StartupInv ==
    /\ StartupTypeOK
    /\ (\A c, d \in Callers : c = d) => StagesInOrder /\ ReadyMeansRunning
    /\ AllOrNothing

\* configured_actor_provider.hpp says of spawn_unpublished: "Must return a valid lease. The
\* lease's rollback will be called on reverse-order cleanup." Both providers of the
\* repository return an empty one, so their actors outlive a failed bootstrap (and with a
\* name they make it fail, for no actor of the directory has the id 0).
FailedLeavesNothing == phase = "failed" => present = {Somebody}

\* runtime_coordinator.hpp says that "Stop is idempotent and safe from any state". Called by
\* one thread while another is in start(), it unwinds what is not started yet, and stages
\* are left running behind it.
StopLeavesNothing ==
    (\A c \in Callers : doing[c] = "idle") /\ lifecycle_state \in {"Stopped", "Running"} =>
        (lifecycle_state = "Stopped") = (started = {})
=============================================================================
