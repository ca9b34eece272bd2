------------------------ MODULE ActorLifecycleProofs ------------------------
(***************************************************************************)
(* Proofs about ActorLifecycle: whoever drives an actor's lifecycle, for   *)
(* any messages, stoppers and reactivators acting together, any policy and *)
(* any bounds.                                                             *)
(***************************************************************************)
EXTENDS ActorLifecycle, TLAPS

\* What is left of the programs of the drivers.
StopPrograms ==
    {<<"drain_all", "Stopping", "Stopped", "exit">>, <<"Stopping", "Stopped", "exit">>,
     <<"Stopped", "exit">>, <<"exit">>, << >>}
DrainPrograms == {<<"Draining", "arm">>, <<"arm">>, << >>}
CommandPrograms ==
    {<<"Stopping", "Stopped">>, <<"Stopped">>, <<"Quarantined">>,
     <<"Stopped", "bump", "Starting", "Active">>, <<"bump", "Starting", "Active">>,
     <<"Starting", "Active">>, <<"Active">>, << >>}
RestartPrograms == {<<"Failed", "bump", "Starting">>, <<"bump", "Starting">>, <<"Starting">>, << >>}
PassivationPrograms ==
    {<<"Passivating", "depth", "snapshot", "Passivated", "route">>,
     <<"depth", "snapshot", "Passivated", "route">>, <<"snapshot", "Passivated", "route">>,
     <<"Passivated", "route">>, <<"route">>, <<"Failed">>, << >>}

Programs ==
    StopPrograms \cup DrainPrograms \cup CommandPrograms \cup RestartPrograms \cup PassivationPrograms

\* The programs of d, of which the worker has the operator's only once there was one.
ProgramsOf(d) ==
    CASE d \in Callers -> StopPrograms \cup DrainPrograms
      [] d \in Timers -> StopPrograms
      [] d = Worker -> IF commands = 0 THEN StopPrograms ELSE StopPrograms \cup CommandPrograms
      [] d = Supervisor -> RestartPrograms
      [] d = Passivator -> PassivationPrograms

\* Operations that a driver reaches only once the actor is out of service.
AfterService == {"Stopped", "exit", "Failed", "bump", "Starting", "depth", "snapshot", "Passivated", "route"}

\* The next operation of a program, and which one may come after it.
First(p) == IF p = << >> THEN None ELSE Head(p)
Op(d) == First(todo[d])
Follows(op, next) ==
    /\ op # None
    /\ op = "drain_all" => next = "Stopping"
    /\ op = "Stopping" => next = "Stopped"
    /\ op = "Stopped" => next \in {"exit", "bump", None}
    /\ op = "Draining" => next = "arm"
    /\ op = "bump" => next = "Starting"
    /\ op = "Starting" => next \in {"Active", None}
    /\ op = "Failed" => next \in {"bump", None}
    /\ op = "Passivating" => next = "depth"
    /\ op = "depth" => next = "snapshot"
    /\ op = "snapshot" => next = "Passivated"
    /\ op = "Passivated" => next = "route"
    /\ op \in {"exit", "arm", "Quarantined", "Active", "route"} => next = None
    /\ next = "Starting" => op = "bump"
    /\ next = "arm" => op = "Draining"
    /\ next = "Stopping" => op = "drain_all"
    /\ next \in AfterService => op \in AfterService \cup {"Stopping", "Passivating"}
    /\ next \notin {"drain_all", "Draining", "Failed", "Passivating"}

LifecycleTypes ==
    /\ TypeOK
    /\ deadline \in BOOLEAN /\ snapshot \in BOOLEAN /\ claimed \in BOOLEAN /\ expired \in BOOLEAN
    /\ exits \in Nat /\ downs \in Nat /\ commands \in Nat
    /\ react \in [Reactivators -> {"idle", "claim", "restore", "release", "done"}]

Programmed ==
    todo \in [Drivers -> Programs] /\ \A d \in Drivers : todo[d] \in ProgramsOf(d)

\* A driver that has loaded a state is about to make a transition that is legal from it,
\* and a program is replaced only when it has come to its end.
Turns ==
    /\ \A d \in Drivers : seen[d] # None => Op(d) \in kStateMachine[seen[d]]
    /\ step # "idle" => todo[Worker] = << >>
    /\ \A s \in Stoppers \ called : todo[s] = << >> /\ todo[Timer(s)] = << >> /\ Timer(s) \notin armed
    /\ phase = "Running" =>
          todo[Coordinator] = << >> /\ todo[Timer(Coordinator)] = << >> /\ Timer(Coordinator) \notin armed
    /\ \A c \in Callers : Op(c) \in {"Draining", "arm"} =>
          todo[Timer(c)] = << >> /\ Timer(c) \notin armed
    /\ \A t \in armed : todo[t] = << >>

\* The mailbox holds the queued messages, each once, and the worker the held one.
Mail ==
    /\ mbox \in Seq(Messages)
    /\ \A i \in 1 .. Len(mbox) : fate[mbox[i]] = "queued"
    /\ \A i, j \in 1 .. Len(mbox) : mbox[i] = mbox[j] => i = j
    /\ \A m \in Messages : fate[m] = "queued" => \E i \in 1 .. Len(mbox) : mbox[i] = m
    /\ \A m \in Messages : fate[m] = "held" <=> held = m
    /\ step \in {"drain_gate", "lifecycle_gate", "handler"} <=> held # None
    /\ early \subseteq {m \in Messages : fate[m] # "unsent"}

\* An actor leaves kStopped only with a new incarnation.
Restarted ==
    /\ \A d \in Drivers : Op(d) = "Starting" => incarnation > 0
    /\ ShutdownWaits

Out == lc \notin {"Active", "Draining"}
EarlyDone == \A m \in early : fate[m] \notin {"queued", "held"}

\* What d knows while no operator has intervened.
Knows(d) ==
    /\ Op(d) \in AfterService => Out
    /\ Op(d) \in {"drain_all", "Stopping"} =>
          IF d \in Callers THEN policy = "ImmediateStop"
          ELSE /\ lc # "Active" /\ seen[d] # "Active"
               /\ IF d = Worker THEN EarlyDone ELSE expired
    /\ Op(d) = "Draining" => policy # "ImmediateStop"
    /\ seen[d] \notin {None, "Active"} => lc # "Active"

\* Without the operator an actor that went out of service does not come back, and it
\* went out after the messages of its drain or because the drain timer expired.
Served ==
    commands = 0 =>
        /\ exits > 0 \/ downs > 0 => Out
        /\ policy = "ImmediateStop" => lc # "Draining"
        /\ lc = "Active" \/ policy = "ImmediateStop" => early = {}
        /\ Out => expired \/ EarlyDone
        /\ \A d \in Drivers : Knows(d)

\* The flag of the route is the reactivator that is at work.
OneClaim ==
    /\ OneReactivator
    /\ \A r \in Reactivators : react[r] \in {"restore", "release"} => claimed

LifecycleIInv ==
    /\ LifecycleTypes /\ Programmed /\ Turns /\ Mail /\ Restarted /\ Served /\ OneClaim /\ GracefulDrain
-----------------------------------------------------------------------------
(* The programs. *)

\* A stop goes through its operations in order.
LEMMA StopTails ==
    ASSUME NEW p \in StopPrograms, p # << >>
    PROVE  Tail(p) \in StopPrograms /\ Follows(First(p), First(Tail(p)))
<1>1. CASE p = <<"drain_all", "Stopping", "Stopped", "exit">>
  <2>1. Tail(p) = <<"Stopping", "Stopped", "exit">> /\ First(p) = "drain_all"
    BY <1>1 DEF First
  <2>2. First(<<"Stopping", "Stopped", "exit">>) = "Stopping"
    BY DEF First
  <2> QED
    BY <2>1, <2>2, Zenon DEF StopPrograms, Follows, AfterService, None
<1>2. CASE p = <<"Stopping", "Stopped", "exit">>
  <2>1. Tail(p) = <<"Stopped", "exit">> /\ First(p) = "Stopping"
    BY <1>2 DEF First
  <2>2. First(<<"Stopped", "exit">>) = "Stopped"
    BY DEF First
  <2> QED
    BY <2>1, <2>2, Zenon DEF StopPrograms, Follows, AfterService, None
<1>3. CASE p = <<"Stopped", "exit">>
  <2>1. Tail(p) = <<"exit">> /\ First(p) = "Stopped"
    BY <1>3 DEF First
  <2>2. First(<<"exit">>) = "exit"
    BY DEF First
  <2> QED
    BY <2>1, <2>2, Zenon DEF StopPrograms, Follows, AfterService, None
<1>4. CASE p = <<"exit">>
  <2>1. Tail(p) = <<>> /\ First(p) = "exit"
    BY <1>4 DEF First
  <2>2. First(<<>>) = None
    BY Zenon DEF First
  <2> QED
    BY <2>1, <2>2, Zenon DEF StopPrograms, Follows, AfterService, None
<1> QED
  BY <1>1, <1>2, <1>3, <1>4, Zenon DEF StopPrograms

\* A graceful stop becomes kDraining, then starts its timer.
LEMMA DrainTails ==
    ASSUME NEW p \in DrainPrograms, p # << >>
    PROVE  Tail(p) \in DrainPrograms /\ Follows(First(p), First(Tail(p)))
<1>1. CASE p = <<"Draining", "arm">>
  <2>1. Tail(p) = <<"arm">> /\ First(p) = "Draining"
    BY <1>1 DEF First
  <2>2. First(<<"arm">>) = "arm"
    BY DEF First
  <2> QED
    BY <2>1, <2>2, Zenon DEF DrainPrograms, Follows, AfterService, None
<1>2. CASE p = <<"arm">>
  <2>1. Tail(p) = <<>> /\ First(p) = "arm"
    BY <1>2 DEF First
  <2>2. First(<<>>) = None
    BY DEF First
  <2> QED
    BY <2>1, <2>2, Zenon DEF DrainPrograms, Follows, AfterService, None
<1> QED
  BY <1>1, <1>2, Zenon DEF DrainPrograms

\* The operator's commands go through their operations in order.
LEMMA CommandTails ==
    ASSUME NEW p \in CommandPrograms, p # << >>
    PROVE  Tail(p) \in CommandPrograms /\ Follows(First(p), First(Tail(p)))
<1>1. CASE p = <<"Stopping", "Stopped">>
  <2>1. Tail(p) = <<"Stopped">> /\ First(p) = "Stopping"
    BY <1>1 DEF First
  <2>2. First(<<"Stopped">>) = "Stopped"
    BY DEF First
  <2> QED
    BY <2>1, <2>2, Zenon DEF CommandPrograms, Follows, AfterService, None
<1>2. CASE p = <<"Stopped">>
  <2>1. Tail(p) = <<>> /\ First(p) = "Stopped"
    BY <1>2 DEF First
  <2>2. First(<<>>) = None
    BY DEF First
  <2> QED
    BY <2>1, <2>2, Zenon DEF CommandPrograms, Follows, AfterService, None
<1>3. CASE p = <<"Quarantined">>
  <2>1. Tail(p) = <<>> /\ First(p) = "Quarantined"
    BY <1>3 DEF First
  <2>2. First(<<>>) = None
    BY DEF First
  <2> QED
    BY <2>1, <2>2, Zenon DEF CommandPrograms, Follows, AfterService, None
<1>4. CASE p = <<"Stopped", "bump", "Starting", "Active">>
  <2>1. Tail(p) = <<"bump", "Starting", "Active">> /\ First(p) = "Stopped"
    BY <1>4 DEF First
  <2>2. First(<<"bump", "Starting", "Active">>) = "bump"
    BY DEF First
  <2> QED
    BY <2>1, <2>2, Zenon DEF CommandPrograms, Follows, AfterService, None
<1>5. CASE p = <<"bump", "Starting", "Active">>
  <2>1. Tail(p) = <<"Starting", "Active">> /\ First(p) = "bump"
    BY <1>5 DEF First
  <2>2. First(<<"Starting", "Active">>) = "Starting"
    BY DEF First
  <2> QED
    BY <2>1, <2>2, Zenon DEF CommandPrograms, Follows, AfterService, None
<1>6. CASE p = <<"Starting", "Active">>
  <2>1. Tail(p) = <<"Active">> /\ First(p) = "Starting"
    BY <1>6 DEF First
  <2>2. First(<<"Active">>) = "Active"
    BY DEF First
  <2> QED
    BY <2>1, <2>2, Zenon DEF CommandPrograms, Follows, AfterService, None
<1>7. CASE p = <<"Active">>
  <2>1. Tail(p) = <<>> /\ First(p) = "Active"
    BY <1>7 DEF First
  <2>2. First(<<>>) = None
    BY DEF First
  <2> QED
    BY <2>1, <2>2, Zenon DEF CommandPrograms, Follows, AfterService, None
<1> QED
  BY <1>1, <1>2, <1>3, <1>4, <1>5, <1>6, <1>7, Zenon DEF CommandPrograms

\* A restart goes through its operations in order.
LEMMA RestartTails ==
    ASSUME NEW p \in RestartPrograms, p # << >>
    PROVE  Tail(p) \in RestartPrograms /\ Follows(First(p), First(Tail(p)))
<1>1. CASE p = <<"Failed", "bump", "Starting">>
  <2>1. Tail(p) = <<"bump", "Starting">> /\ First(p) = "Failed"
    BY <1>1 DEF First
  <2>2. First(<<"bump", "Starting">>) = "bump"
    BY DEF First
  <2> QED
    BY <2>1, <2>2, Zenon DEF RestartPrograms, Follows, AfterService, None
<1>2. CASE p = <<"bump", "Starting">>
  <2>1. Tail(p) = <<"Starting">> /\ First(p) = "bump"
    BY <1>2 DEF First
  <2>2. First(<<"Starting">>) = "Starting"
    BY DEF First
  <2> QED
    BY <2>1, <2>2, Zenon DEF RestartPrograms, Follows, AfterService, None
<1>3. CASE p = <<"Starting">>
  <2>1. Tail(p) = <<>> /\ First(p) = "Starting"
    BY <1>3 DEF First
  <2>2. First(<<>>) = None
    BY DEF First
  <2> QED
    BY <2>1, <2>2, Zenon DEF RestartPrograms, Follows, AfterService, None
<1> QED
  BY <1>1, <1>2, <1>3, Zenon DEF RestartPrograms

\* A passivation goes through its operations in order.
LEMMA PassivationTails ==
    ASSUME NEW p \in PassivationPrograms, p # << >>
    PROVE  Tail(p) \in PassivationPrograms /\ Follows(First(p), First(Tail(p)))
<1>1. CASE p = <<"Passivating", "depth", "snapshot", "Passivated", "route">>
  <2>1. Tail(p) = <<"depth", "snapshot", "Passivated", "route">> /\ First(p) = "Passivating"
    BY <1>1 DEF First
  <2>2. First(<<"depth", "snapshot", "Passivated", "route">>) = "depth"
    BY DEF First
  <2> QED
    BY <2>1, <2>2, Zenon DEF PassivationPrograms, Follows, AfterService, None
<1>2. CASE p = <<"depth", "snapshot", "Passivated", "route">>
  <2>1. Tail(p) = <<"snapshot", "Passivated", "route">> /\ First(p) = "depth"
    BY <1>2 DEF First
  <2>2. First(<<"snapshot", "Passivated", "route">>) = "snapshot"
    BY DEF First
  <2> QED
    BY <2>1, <2>2, Zenon DEF PassivationPrograms, Follows, AfterService, None
<1>3. CASE p = <<"snapshot", "Passivated", "route">>
  <2>1. Tail(p) = <<"Passivated", "route">> /\ First(p) = "snapshot"
    BY <1>3 DEF First
  <2>2. First(<<"Passivated", "route">>) = "Passivated"
    BY DEF First
  <2> QED
    BY <2>1, <2>2, Zenon DEF PassivationPrograms, Follows, AfterService, None
<1>4. CASE p = <<"Passivated", "route">>
  <2>1. Tail(p) = <<"route">> /\ First(p) = "Passivated"
    BY <1>4 DEF First
  <2>2. First(<<"route">>) = "route"
    BY DEF First
  <2> QED
    BY <2>1, <2>2, Zenon DEF PassivationPrograms, Follows, AfterService, None
<1>5. CASE p = <<"route">>
  <2>1. Tail(p) = <<>> /\ First(p) = "route"
    BY <1>5 DEF First
  <2>2. First(<<>>) = None
    BY DEF First
  <2> QED
    BY <2>1, <2>2, Zenon DEF PassivationPrograms, Follows, AfterService, None
<1>6. CASE p = <<"Failed">>
  <2>1. Tail(p) = <<>> /\ First(p) = "Failed"
    BY <1>6 DEF First
  <2>2. First(<<>>) = None
    BY DEF First
  <2> QED
    BY <2>1, <2>2, Zenon DEF PassivationPrograms, Follows, AfterService, None
<1> QED
  BY <1>1, <1>2, <1>3, <1>4, <1>5, <1>6, Zenon DEF PassivationPrograms

\* The drivers have different roles.
LEMMA Roles ==
    /\ Callers \subseteq Drivers /\ Timers \subseteq Drivers /\ {Worker, Passivator, Supervisor} \subseteq Drivers
    /\ \A d \in Drivers : d \in Callers \/ d \in Timers \/ d \in {Worker, Passivator, Supervisor}
    /\ \A c \in Callers : Timer(c) \in Timers /\ c \notin Timers /\ c \notin {Worker, Passivator, Supervisor}
    /\ \A t \in Timers : t \notin {Worker, Passivator, Supervisor} /\ t # None
    /\ Worker # Passivator /\ Worker # Supervisor /\ Passivator # Supervisor
    /\ \A c, d \in Callers : Timer(c) = Timer(d) => c = d
    /\ Coordinator \in Callers /\ Stoppers \subseteq Callers /\ Coordinator \notin Stoppers
<1> USE LifecycleAssumption
<1>1. /\ Callers \subseteq Drivers /\ Timers \subseteq Drivers /\ {Worker, Passivator, Supervisor} \subseteq Drivers
      /\ \A d \in Drivers : d \in Callers \/ d \in Timers \/ d \in {Worker, Passivator, Supervisor}
  BY Zenon DEF Drivers
<1>2. \A c \in Callers : Timer(c) \in Timers /\ c \notin Timers /\ c \notin {Worker, Passivator, Supervisor}
  BY Zenon DEF Timers
<1>3. \A t \in Timers : t \notin {Worker, Passivator, Supervisor} /\ t # None
  BY Zenon
<1>4. Worker # Passivator /\ Worker # Supervisor /\ Passivator # Supervisor
  BY Zenon
<1>5. \A c, d \in Callers : Timer(c) = Timer(d) => c = d
  BY Zenon DEF Timer
<1>6. Coordinator \in Callers /\ Stoppers \subseteq Callers /\ Coordinator \notin Stoppers
  BY Zenon DEF Callers
<1> QED
  BY <1>1, <1>2, <1>3, <1>4, <1>5, <1>6, Zenon

\* Which programs each role has.
LEMMA RolePrograms ==
    /\ \A c \in Callers : ProgramsOf(c) = StopPrograms \cup DrainPrograms
    /\ \A t \in Timers : ProgramsOf(t) = StopPrograms
    /\ ProgramsOf(Worker) = IF commands = 0 THEN StopPrograms ELSE StopPrograms \cup CommandPrograms
    /\ ProgramsOf(Supervisor) = RestartPrograms
    /\ ProgramsOf(Passivator) = PassivationPrograms
    /\ \A d \in Drivers : ProgramsOf(d) \subseteq Programs
<1>1. \A c \in Callers : ProgramsOf(c) = StopPrograms \cup DrainPrograms
  BY Roles, Zenon DEF ProgramsOf
<1>2. \A t \in Timers : ProgramsOf(t) = StopPrograms
  BY Roles, Zenon DEF ProgramsOf
<1>3. ProgramsOf(Worker) = IF commands = 0 THEN StopPrograms ELSE StopPrograms \cup CommandPrograms
  BY Roles, Zenon DEF ProgramsOf
<1>4. ProgramsOf(Supervisor) = RestartPrograms
  BY Roles, Zenon DEF ProgramsOf
<1>5. ProgramsOf(Passivator) = PassivationPrograms
  BY Roles, Zenon DEF ProgramsOf
<1>6. ASSUME NEW d \in Drivers PROVE ProgramsOf(d) \subseteq Programs
  <2>1. CASE d \in Callers
    BY <1>1, <2>1, Zenon DEF Programs
  <2>2. CASE d \in Timers
    BY <1>2, <2>2, Zenon DEF Programs
  <2>3. CASE d = Worker
    BY <1>3, <2>3, Zenon DEF Programs
  <2>4. CASE d = Supervisor
    BY <1>4, <2>4, Zenon DEF Programs
  <2>5. CASE d = Passivator
    BY <1>5, <2>5, Zenon DEF Programs
  <2> QED
    BY Roles, <2>1, <2>2, <2>3, <2>4, <2>5, Zenon
<1> QED
  BY <1>1, <1>2, <1>3, <1>4, <1>5, <1>6, Zenon

\* Every program goes on with one of its role.
LEMMA ProgramGoesOn ==
    ASSUME NEW d \in Drivers, NEW p \in ProgramsOf(d), p # << >>
    PROVE  Tail(p) \in ProgramsOf(d) /\ Follows(First(p), First(Tail(p)))
<1>1. CASE d \in Callers
  BY <1>1, RolePrograms, StopTails, DrainTails, Zenon
<1>2. CASE d \in Timers
  <2>1. ProgramsOf(d) = StopPrograms
    BY <1>2, RolePrograms, Zenon
  <2> QED
    BY <2>1, StopTails, Zenon
<1>3. CASE d = Worker
  <2>1. CASE commands = 0
    <3>1. ProgramsOf(d) = StopPrograms
      BY <1>3, <2>1, RolePrograms, Zenon
    <3> QED
      BY <3>1, StopTails, Zenon
  <2>2. CASE commands # 0
    <3>1. ProgramsOf(d) = StopPrograms \cup CommandPrograms
      BY <1>3, <2>2, RolePrograms, Zenon
    <3> QED
      BY <3>1, StopTails, CommandTails, Zenon
  <2> QED
    BY <2>1, <2>2, Zenon
<1>4. CASE d = Supervisor
  BY <1>4, RolePrograms, RestartTails, Zenon
<1>5. CASE d = Passivator
  BY <1>5, RolePrograms, PassivationTails, Zenon
<1> QED
  BY Roles, <1>1, <1>2, <1>3, <1>4, <1>5, Zenon

\* A driver that gets a program of its role leaves the others' as they are.
LEMMA Reprogrammed ==
    ASSUME Programmed, NEW d \in Drivers, NEW p \in ProgramsOf(d), Program(d, p), commands' = commands
    PROVE  /\ Programmed' /\ todo'[d] = p /\ Op(d)' = First(p)
           /\ \A e \in Drivers \ {d} : todo'[e] = todo[e] /\ Op(e)' = Op(e)
<1>1. todo' \in [Drivers -> Programs] /\ todo'[d] = p /\ \A e \in Drivers \ {d} : todo'[e] = todo[e]
  BY RolePrograms, Zenon DEF Programmed, Program
<1>2. \A e \in Drivers : ProgramsOf(e)' = ProgramsOf(e)
  BY Zenon DEF ProgramsOf
<1>3. ASSUME NEW e \in Drivers PROVE todo'[e] \in ProgramsOf(e)'
  <2>1. todo'[e] \in ProgramsOf(e)
    BY <1>1, Zenon DEF Programmed
  <2> QED
    BY <1>2, <2>1, Zenon
<1>4. Programmed'
  BY <1>1, <1>3, Zenon DEF Programmed
<1> QED
  BY <1>1, <1>4, Zenon DEF Op

\* An operation is taken off the program of its driver.
LEMMA Popped ==
    ASSUME Programmed, NEW d \in Drivers, todo[d] # << >>, Pop(d), commands' = commands
    PROVE  /\ Programmed' /\ todo'[d] = Tail(todo[d]) /\ Follows(Op(d), Op(d)')
           /\ \A e \in Drivers \ {d} : todo'[e] = todo[e] /\ Op(e)' = Op(e)
<1>1. todo[d] \in ProgramsOf(d)
  BY Zenon DEF Programmed
<1>2. Tail(todo[d]) \in ProgramsOf(d) /\ Follows(Op(d), First(Tail(todo[d])))
  BY <1>1, ProgramGoesOn, Zenon DEF Op
<1>3. Program(d, Tail(todo[d]))
  BY Zenon DEF Pop
<1> HIDE DEF Program, Programmed, Op
<1> QED
  BY <1>2, <1>3, Reprogrammed, Zenon

-----------------------------------------------------------------------------
(* What a step leaves alone. *)

\* A step of a driver or of the worker changes what a driver has loaded, where the worker
\* is, where the messages are, the drain policy and the timers.
LEMMA TypesKept ==
    ASSUME LifecycleIInv,
           UNCHANGED <<lc, incarnation, phase, route>>,
           UNCHANGED <<deadline, snapshot, claimed, expired, exits, downs, commands, react>>,
           step' \in {"idle", "drain_gate", "lifecycle_gate", "handler", "completion"},
           held' \in Messages \cup {None},
           fate' \in [Messages -> {"unsent", "queued", "held", "handled", "dead", "discarded"}],
           seen' \in [Drivers -> States \cup {None}],
           policy' \in Policies \cup {"Drain"}, armed' \subseteq Timers, handle' \in Timers \cup {None}
    PROVE  LifecycleTypes'
<1>1. LifecycleTypes /\ TypeOK
  BY Zenon DEF LifecycleIInv, LifecycleTypes
<1>2. lc' \in States /\ incarnation' \in Nat
  BY <1>1, Zenon DEF TypeOK
<1>3. route' \in States \cup {None}
  BY <1>1, Zenon DEF TypeOK
<1>4. phase' \in {"Running", "DrainingActors", "LeavingCluster", "Stopped", "ForcedStop"}
  BY <1>1, Zenon DEF TypeOK
<1>5. TypeOK'
  BY <1>2, <1>3, <1>4, Zenon DEF TypeOK
<1>6. /\ deadline' \in BOOLEAN /\ snapshot' \in BOOLEAN /\ claimed' \in BOOLEAN /\ expired' \in BOOLEAN
      /\ exits' \in Nat /\ downs' \in Nat /\ commands' \in Nat
  BY <1>1, Zenon DEF LifecycleTypes
<1>7. react' \in [Reactivators -> {"idle", "claim", "restore", "release", "done"}]
  BY <1>1, Zenon DEF LifecycleTypes
<1> QED
  BY <1>5, <1>6, <1>7, Zenon DEF LifecycleTypes

\* The types the invariant gives these variables.
LEMMA TypesNow ==
    ASSUME LifecycleIInv
    PROVE  /\ step \in {"idle", "drain_gate", "lifecycle_gate", "handler", "completion"}
           /\ held \in Messages \cup {None}
           /\ fate \in [Messages -> {"unsent", "queued", "held", "handled", "dead", "discarded"}]
           /\ seen \in [Drivers -> States \cup {None}]
           /\ policy \in Policies \cup {"Drain"} /\ armed \subseteq Timers /\ handle \in Timers \cup {None}
  BY Zenon DEF LifecycleIInv, LifecycleTypes, TypeOK

\* Each part of the invariant depends on some of the variables only.
LEMMA Frames ==
    ASSUME LifecycleIInv
    PROVE  /\ UNCHANGED <<todo, commands>> => Programmed'
           /\ UNCHANGED <<todo, seen, step, called, phase, armed>> => Turns'
           /\ UNCHANGED <<mbox, fate, step, held, early>> => Mail'
           /\ UNCHANGED <<todo, incarnation, lc, phase, deadline>> => Restarted'
           /\ UNCHANGED <<commands, exits, downs, lc, policy, early, fate, expired, todo, seen>> => Served'
           /\ UNCHANGED <<react, claimed>> => OneClaim'
           /\ UNCHANGED <<early, fate, expired, commands>> => GracefulDrain'
<1>1. ASSUME UNCHANGED <<todo, commands>> PROVE Programmed'
  <2>1. \A e \in Drivers : ProgramsOf(e)' = ProgramsOf(e)
    BY <1>1, Zenon DEF ProgramsOf
  <2> QED
    BY <1>1, <2>1, Zenon DEF LifecycleIInv, Programmed
<1>2. ASSUME UNCHANGED <<todo, seen, step, called, phase, armed>> PROVE Turns'
  BY <1>2, Zenon DEF LifecycleIInv, Turns, Op
<1>3. ASSUME UNCHANGED <<mbox, fate, step, held, early>> PROVE Mail'
  BY <1>3, ZenonT(120) DEF LifecycleIInv, Mail
<1>4. ASSUME UNCHANGED <<todo, incarnation, lc, phase, deadline>> PROVE Restarted'
  BY <1>4, Zenon DEF LifecycleIInv, Restarted, Op, ShutdownWaits
<1>5. ASSUME UNCHANGED <<commands, exits, downs, lc, policy, early, fate, expired, todo, seen>> PROVE Served'
  BY <1>5, Zenon DEF LifecycleIInv, Served, Op, Out, EarlyDone, Knows
<1>6. ASSUME UNCHANGED <<react, claimed>> PROVE OneClaim'
  BY <1>6, Zenon DEF LifecycleIInv, OneClaim, OneReactivator
<1>7. ASSUME UNCHANGED <<early, fate, expired, commands>> PROVE GracefulDrain'
  BY <1>7, Zenon DEF LifecycleIInv, GracefulDrain
<1> QED
  BY <1>1, <1>2, <1>3, <1>4, <1>5, <1>6, <1>7, Zenon

\* poll_drain_complete leaves the actor phase with the actor stopped, or late.
LEMMA ShutdownStep ==
    ASSUME LifecycleIInv, DeadlinePasses \/ PollDrainComplete \/ FinishShutdown PROVE LifecycleIInv'
<1>1. /\ UNCHANGED <<todo, seen, step, called, armed, commands, mbox, fate, held, early, incarnation, lc>>
      /\ UNCHANGED <<exits, downs, policy, expired, react, claimed, handle, route, snapshot>>
      /\ phase # "Running"
      /\ phase' \in {"DrainingActors", "LeavingCluster", "Stopped", "ForcedStop"} /\ deadline' \in BOOLEAN
      /\ phase' \in {"LeavingCluster", "Stopped"} =>
            deadline' \/ lc = "Stopped" \/ phase \in {"LeavingCluster", "Stopped"}
      /\ deadline => deadline'
  BY Zenon DEF DeadlinePasses, PollDrainComplete, FinishShutdown, worker, threads, drain, supervision, passivation,
         LifecycleIInv, LifecycleTypes
<1>2. LifecycleTypes'
  BY <1>1 DEF LifecycleIInv, LifecycleTypes, TypeOK
<1>3. Turns'
  BY <1>1, Zenon DEF LifecycleIInv, Turns, Op
<1>4. Restarted'
  BY <1>1, Zenon DEF LifecycleIInv, Restarted, ShutdownWaits, Op
<1> QED
  BY <1>1, <1>2, <1>3, <1>4, Frames, Zenon DEF LifecycleIInv

\* claim_reactivation lets one of them in at a time.
LEMMA ReactivateStep ==
    ASSUME LifecycleIInv, NEW r \in Reactivators, CheckRoute(r) \/ Reactivate(r) PROVE LifecycleIInv'
<1>1. /\ UNCHANGED <<todo, seen, step, called, armed, commands, mbox, fate, held, early, incarnation, lc>>
      /\ UNCHANGED <<exits, downs, policy, expired, handle, snapshot, phase, deadline>>
  BY Zenon DEF CheckRoute, Reactivate, Claim, Restore, Release, worker, threads, drain, supervision, shutdown
<1>2. react \in [Reactivators -> {"idle", "claim", "restore", "release", "done"}] /\ route \in States \cup {None}
  BY Zenon DEF LifecycleIInv, LifecycleTypes, TypeOK
<1>3. /\ react' \in [Reactivators -> {"idle", "claim", "restore", "release", "done"}]
      /\ claimed' \in BOOLEAN /\ route' \in States \cup {None} /\ OneClaim'
  <2>0. OneClaim /\ claimed \in BOOLEAN
    BY Zenon DEF LifecycleIInv, LifecycleTypes
  <2>1. CASE CheckRoute(r)
    BY <1>2, <2>0, <2>1, Zenon DEF CheckRoute, ReactStep, OneClaim, OneReactivator
  <2>2. CASE Claim(r)
    BY <1>2, <2>0, <2>2, ZenonT(60) DEF Claim, ReactStep, OneClaim, OneReactivator, States
  <2>3. CASE Restore(r)
    BY <1>2, <2>0, <2>3, Zenon DEF Restore, ReactStep, OneClaim, OneReactivator, States
  <2>4. CASE Release(r)
    BY <1>2, <2>0, <2>4, ZenonT(60) DEF Release, ReactStep, OneClaim, OneReactivator
  <2> QED
    BY <2>1, <2>2, <2>3, <2>4, Zenon DEF Reactivate
<1>4. LifecycleTypes'
  BY <1>1, <1>3 DEF LifecycleIInv, LifecycleTypes, TypeOK
<1> QED
  BY <1>1, <1>3, <1>4, Frames, Zenon DEF LifecycleIInv

-----------------------------------------------------------------------------
(* The worker and the mailbox. *)

\* A message that leaves the mailbox leaves the others there.
LEMMA HeadTaken ==
    ASSUME LifecycleIInv, mbox # << >>, mbox' = Tail(mbox), NEW f \in {"held", "dead"},
           fate' = [fate EXCEPT ![Head(mbox)] = f]
    PROVE  /\ Head(mbox) \in Messages /\ fate[Head(mbox)] = "queued" /\ fate'[Head(mbox)] = f
           /\ \A m \in Messages : m # Head(mbox) => fate'[m] = fate[m]
           /\ mbox' \in Seq(Messages)
           /\ \A i \in 1 .. Len(mbox') : fate'[mbox'[i]] = "queued"
           /\ \A i, j \in 1 .. Len(mbox') : mbox'[i] = mbox'[j] => i = j
           /\ \A m \in Messages : fate'[m] = "queued" => \E i \in 1 .. Len(mbox') : mbox'[i] = m
           /\ DOMAIN fate' = Messages
<1>1. /\ mbox \in Seq(Messages) /\ Len(mbox) \in Nat \ {0} /\ Head(mbox) = mbox[1]
      /\ \A i \in 1 .. Len(mbox) : mbox[i] \in Messages /\ fate[mbox[i]] = "queued"
      /\ \A i, j \in 1 .. Len(mbox) : mbox[i] = mbox[j] => i = j
      /\ \A m \in Messages : fate[m] = "queued" => \E i \in 1 .. Len(mbox) : mbox[i] = m
  BY DEF LifecycleIInv, Mail
<1>2. mbox' \in Seq(Messages) /\ Len(mbox') = Len(mbox) - 1 /\ \A i \in 1 .. Len(mbox') : mbox'[i] = mbox[i + 1]
  BY <1>1
<1>3. /\ Head(mbox) \in Messages /\ fate[Head(mbox)] = "queued" /\ DOMAIN fate = Messages
  BY <1>1 DEF LifecycleIInv, LifecycleTypes, TypeOK
<1>4. /\ fate'[Head(mbox)] = f /\ DOMAIN fate' = Messages
      /\ \A m \in Messages : m # Head(mbox) => fate'[m] = fate[m]
  BY <1>3, Zenon
<1>5. ASSUME NEW i \in 1 .. Len(mbox')
      PROVE  /\ i + 1 \in 1 .. Len(mbox) /\ mbox'[i] = mbox[i + 1] /\ mbox[i + 1] # Head(mbox)
             /\ fate'[mbox'[i]] = "queued"
  <2>1. i \in Nat /\ i + 1 \in 1 .. Len(mbox) /\ i + 1 # 1 /\ 1 \in 1 .. Len(mbox)
    BY <1>1, <1>2
  <2>2. mbox[i + 1] # Head(mbox)
    BY <1>1, <2>1, ZenonT(60)
  <2> QED
    BY <1>1, <1>2, <1>4, <2>1, <2>2, SMTT(60), Zenon
<1>6. ASSUME NEW i \in 1 .. Len(mbox'), NEW j \in 1 .. Len(mbox'), mbox'[i] = mbox'[j] PROVE i = j
  <2>1. i + 1 = j + 1
    BY <1>1, <1>5, <1>6
  <2> QED
    BY <2>1
<1>7. ASSUME NEW m \in Messages, fate'[m] = "queued" PROVE \E i \in 1 .. Len(mbox') : mbox'[i] = m
  <2>1. m # Head(mbox) /\ fate[m] = "queued"
    BY <1>4, <1>7, Zenon
  <2>2. PICK i \in 1 .. Len(mbox) : mbox[i] = m
    BY <1>1, <2>1, Zenon
  <2>3. i \in Nat /\ i # 1 /\ i - 1 \in 1 .. Len(mbox') /\ (i - 1) + 1 = i
    BY <1>1, <1>2, <2>1, <2>2, SMTT(60), Zenon
  <2> QED
    BY <1>2, <2>2, <2>3, Zenon
<1> QED
  BY <1>2, <1>3, <1>4, <1>5, <1>6, <1>7, ZenonT(60)

\* What the worker does to messages leaves the drivers' knowledge intact.
LEMMA ServedMail ==
    ASSUME LifecycleIInv, UNCHANGED <<commands, exits, downs, lc, early, expired, todo, seen>>,
           policy' = "ImmediateStop" <=> policy = "ImmediateStop", EarlyDone => EarlyDone'
    PROVE  Served'
  BY Zenon DEF LifecycleIInv, Served, Op, Out, Knows

\* Delivery does not look at the lifecycle: a message queued after the drain began is
\* not one of the drain's.
LEMMA ArriveStep == ASSUME LifecycleIInv, NEW m \in Messages, Arrive(m) PROVE LifecycleIInv'
<1>1. /\ UNCHANGED <<todo, seen, step, called, armed, commands, held, early, incarnation, lc>>
      /\ UNCHANGED <<exits, downs, policy, expired, handle, snapshot, phase, deadline, react, claimed, route>>
      /\ fate[m] = "unsent" /\ fate' = [fate EXCEPT ![m] = "queued"] /\ mbox' = Append(mbox, m)
  BY Zenon DEF Arrive, worker, threads, drain, supervision, shutdown, passivation
<1>2. LifecycleTypes'
  BY <1>1 DEF LifecycleIInv, LifecycleTypes, TypeOK
<1>3. /\ fate'[m] = "queued" /\ \A k \in Messages : k # m => fate'[k] = fate[k]
  BY <1>1, Zenon DEF LifecycleIInv, LifecycleTypes, TypeOK
<1>4. m \notin early
  BY <1>1, Zenon DEF LifecycleIInv, Mail
<1>5. /\ mbox \in Seq(Messages) /\ Len(mbox) \in Nat
      /\ \A i \in 1 .. Len(mbox) : mbox[i] \in Messages /\ fate[mbox[i]] = "queued" /\ mbox[i] # m
  BY <1>1 DEF LifecycleIInv, Mail
<1>6. /\ mbox' \in Seq(Messages) /\ Len(mbox') = Len(mbox) + 1 /\ mbox'[Len(mbox) + 1] = m
      /\ \A i \in 1 .. Len(mbox) : mbox'[i] = mbox[i]
  BY <1>1, <1>5
<1>7. Mail'
  <2>1. \A i \in 1 .. Len(mbox') : fate'[mbox'[i]] = "queued"
    BY <1>3, <1>5, <1>6, SMTT(60), Zenon
  <2>2. \A i, j \in 1 .. Len(mbox') : mbox'[i] = mbox'[j] => i = j
    BY <1>5, <1>6, SMTT(60), Zenon DEF LifecycleIInv, Mail
  <2>3. \A k \in Messages : fate'[k] = "queued" => \E i \in 1 .. Len(mbox') : mbox'[i] = k
    BY <1>3, <1>5, <1>6, SMTT(60), Zenon DEF LifecycleIInv, Mail
  <2>4. \A k \in Messages : fate'[k] = "held" <=> held' = k
    BY <1>1, <1>3, ZenonT(120) DEF LifecycleIInv, Mail
  <2>5. early' \subseteq {k \in Messages : fate'[k] # "unsent"}
    BY <1>1, <1>3, <1>4, ZenonT(120) DEF LifecycleIInv, Mail
  <2> QED
    BY <1>1, <1>6, <2>1, <2>2, <2>3, <2>4, <2>5, ZenonT(60) DEF LifecycleIInv, Mail
<1>8. GracefulDrain' /\ (EarlyDone => EarlyDone')
  <2>1. \A k \in early : k \in Messages /\ k # m
    BY <1>4, Zenon DEF LifecycleIInv, Mail
  <2> QED
    BY <1>1, <1>3, <2>1, Zenon DEF LifecycleIInv, GracefulDrain, EarlyDone
<1>9. Served'
  BY <1>1, <1>8, ServedMail, Zenon
<1> QED
  BY <1>1, <1>2, <1>7, <1>8, <1>9, Frames, Zenon DEF LifecycleIInv

\* The worker takes the first message.
LEMMA ReceiveStep == ASSUME LifecycleIInv, Receive PROVE LifecycleIInv'
<1>1. /\ UNCHANGED <<todo, seen, called, armed, commands, early, incarnation, lc>>
      /\ UNCHANGED <<exits, downs, policy, expired, handle, snapshot, phase, deadline, react, claimed, route>>
      /\ step = "idle" /\ step' = "drain_gate" /\ todo[Worker] = << >>
      /\ mbox # << >> /\ mbox' = Tail(mbox) /\ held' = Head(mbox)
      /\ fate' = [fate EXCEPT ![Head(mbox)] = "held"]
  BY Zenon DEF Receive, Rest, threads, drain, supervision, shutdown, passivation
<1>2. /\ Head(mbox) \in Messages /\ fate[Head(mbox)] = "queued" /\ fate'[Head(mbox)] = "held"
      /\ \A m \in Messages : m # Head(mbox) => fate'[m] = fate[m]
      /\ mbox' \in Seq(Messages)
      /\ \A i \in 1 .. Len(mbox') : fate'[mbox'[i]] = "queued"
      /\ \A i, j \in 1 .. Len(mbox') : mbox'[i] = mbox'[j] => i = j
      /\ \A m \in Messages : fate'[m] = "queued" => \E i \in 1 .. Len(mbox') : mbox'[i] = m
  BY <1>1, HeadTaken, Zenon
<1>3. LifecycleTypes'
  BY <1>1, <1>2, ZenonT(120) DEF LifecycleIInv, LifecycleTypes, TypeOK
<1>4. Turns'
  BY <1>1, Zenon DEF LifecycleIInv, Turns, Op
<1>5. held = None /\ \A m \in Messages : fate[m] # "held"
  BY <1>1, LifecycleAssumption DEF LifecycleIInv, Mail
<1>6. Mail'
  <2>1. \A m \in Messages : fate'[m] = "held" <=> held' = m
    BY <1>1, <1>2, <1>5
  <2>2. early' \subseteq {m \in Messages : fate'[m] # "unsent"}
    <3>1. \A m \in Messages : fate[m] # "unsent" => fate'[m] # "unsent"
      BY <1>1, <1>2, Zenon
    <3>2. early \subseteq {m \in Messages : fate[m] # "unsent"} /\ early' = early
      BY <1>1, Zenon DEF LifecycleIInv, Mail
    <3> QED
      BY <3>1, <3>2, Zenon
  <2>3. held' # None
    BY <1>1, <1>2, LifecycleAssumption, ZenonT(60)
  <2> QED
    BY <1>1, <1>2, <2>1, <2>2, <2>3, Zenon DEF Mail
<1>7. GracefulDrain' /\ (EarlyDone => EarlyDone')
  <2>1. early \subseteq Messages
    BY Zenon DEF LifecycleIInv, Mail
  <2>2. \A m \in early : (fate'[m] = "discarded" => fate[m] = "discarded")
                         /\ (fate'[m] \in {"queued", "held"} => fate[m] \in {"queued", "held"})
    BY <1>2, <2>1, Zenon
  <2>3. GracefulDrain'
    BY <1>1, <2>2, Zenon DEF LifecycleIInv, GracefulDrain
  <2>4. EarlyDone => EarlyDone'
    BY <1>1, <2>2, Zenon DEF EarlyDone
  <2> QED
    BY <2>3, <2>4, Zenon
<1>8. Served'
  BY <1>1, <1>7, ServedMail, Zenon
<1> QED
  BY <1>1, <1>3, <1>4, <1>6, <1>7, <1>8, Frames, Zenon DEF LifecycleIInv

\* The worker is done with the message it holds.
LEMMA HeldDone ==
    ASSUME LifecycleIInv, held # None, NEW f \in {"dead", "discarded", "handled"},
           fate' = [fate EXCEPT ![held] = f], held' = None, step' \in {"idle", "completion"},
           UNCHANGED <<mbox, early>>
    PROVE  /\ Mail' /\ (EarlyDone => EarlyDone')
           /\ held \in Messages /\ fate[held] = "held" /\ fate'[held] = f
           /\ fate' \in [Messages -> {"unsent", "queued", "held", "handled", "dead", "discarded"}]
           /\ \A m \in Messages : m # held => fate'[m] = fate[m]
<1>1. /\ held \in Messages /\ fate \in [Messages -> {"unsent", "queued", "held", "handled", "dead", "discarded"}]
      /\ fate[held] = "held"
  BY Zenon DEF LifecycleIInv, LifecycleTypes, TypeOK, Mail
<1>2. /\ fate' \in [Messages -> {"unsent", "queued", "held", "handled", "dead", "discarded"}]
      /\ fate'[held] = f /\ \A m \in Messages : m # held => fate'[m] = fate[m]
  BY <1>1, Zenon
<1>3. \A m \in Messages : fate'[m] # "held" /\ (fate'[m] = "queued" <=> fate[m] = "queued")
                          /\ (fate[m] # "unsent" => fate'[m] # "unsent")
  BY <1>1, <1>2, ZenonT(60) DEF LifecycleIInv, Mail
<1>4. mbox \in Seq(Messages) /\ Len(mbox) \in Nat /\ \A i \in 1 .. Len(mbox) : mbox[i] \in Messages
  BY DEF LifecycleIInv, Mail
<1>5. Mail'
  <2>0. mbox' = mbox
    BY Zenon
  <2>1. \A i \in 1 .. Len(mbox') : fate'[mbox'[i]] = "queued"
    BY <1>3, <1>4, <2>0 DEF LifecycleIInv, Mail
  <2>2. \A m \in Messages : fate'[m] = "queued" => \E i \in 1 .. Len(mbox') : mbox'[i] = m
    BY <1>3, <2>0 DEF LifecycleIInv, Mail
  <2>3. \A m \in Messages : fate'[m] = "held" <=> held' = m
    BY <1>3, LifecycleAssumption, Zenon
  <2>4. early' \subseteq {m \in Messages : fate'[m] # "unsent"}
    BY <1>3, Zenon DEF LifecycleIInv, Mail
  <2>5. step' \in {"drain_gate", "lifecycle_gate", "handler"} <=> held' # None
    BY Zenon
  <2>6. mbox' \in Seq(Messages) /\ \A i, j \in 1 .. Len(mbox') : mbox'[i] = mbox'[j] => i = j
    BY <2>0 DEF LifecycleIInv, Mail
  <2> QED
    BY <2>1, <2>2, <2>3, <2>4, <2>5, <2>6, Zenon DEF Mail
<1>6. EarlyDone => EarlyDone'
  BY <1>3, Zenon DEF LifecycleIInv, Mail, EarlyDone
<1> QED
  BY <1>1, <1>2, <1>5, <1>6, Zenon

\* drain_one may drop the message as a dead letter; the policy it falls back to is not
\* the immediate stop.
LEMMA DrainGateStep == ASSUME LifecycleIInv, DrainGate PROVE LifecycleIInv'
<1>1. /\ UNCHANGED <<todo, seen, called, armed, commands, early, incarnation, lc, mbox>>
      /\ UNCHANGED <<exits, downs, expired, handle, snapshot, phase, deadline, react, claimed, route>>
      /\ step = "drain_gate" /\ step' \in {"completion", "lifecycle_gate"}
      /\ policy' \in {policy, "Drain"} /\ (policy' # policy => policy = "SnapshotAndStop")
      /\ \/ step' = "completion" /\ held' = None /\ fate' = [fate EXCEPT ![held] = "dead"]
         \/ step' = "lifecycle_gate" /\ UNCHANGED <<fate, held>>
  BY Zenon DEF DrainGate, threads, drain, supervision, shutdown, passivation
<1>2. held # None
  BY <1>1, Zenon DEF LifecycleIInv, Mail
<1>3. /\ Mail' /\ (EarlyDone => EarlyDone') /\ GracefulDrain'
      /\ fate' \in [Messages -> {"unsent", "queued", "held", "handled", "dead", "discarded"}]
  <2>1. CASE step' = "completion" /\ held' = None /\ fate' = [fate EXCEPT ![held] = "dead"]
    <3>1. /\ Mail' /\ (EarlyDone => EarlyDone')
          /\ fate' \in [Messages -> {"unsent", "queued", "held", "handled", "dead", "discarded"}]
          /\ fate'[held] = "dead" /\ \A m \in Messages : m # held => fate'[m] = fate[m]
      BY <1>1, <1>2, <2>1, HeldDone, Zenon
    <3>2. early \subseteq Messages
      BY Zenon DEF LifecycleIInv, Mail
    <3>3. GracefulDrain'
      BY <1>1, <3>1, <3>2, Zenon DEF LifecycleIInv, GracefulDrain
    <3> QED
      BY <3>1, <3>3, Zenon
  <2>2. CASE step' = "lifecycle_gate" /\ UNCHANGED <<fate, held>>
    <3>1. Mail'
      BY <1>1, <1>2, <2>2, ZenonT(120) DEF LifecycleIInv, Mail
    <3> QED
      BY <1>1, <2>2, <3>1, Frames, Zenon DEF EarlyDone, LifecycleIInv, LifecycleTypes, TypeOK
  <2> QED
    BY <1>1, <2>1, <2>2, Zenon
<1>4. LifecycleTypes'
  <2>1. /\ UNCHANGED <<lc, incarnation, phase, route, seen, armed, handle>>
        /\ UNCHANGED <<deadline, snapshot, claimed, expired, exits, downs, commands, react>>
    BY <1>1, Zenon
  <2>2. /\ step' \in {"idle", "drain_gate", "lifecycle_gate", "handler", "completion"}
        /\ held' \in Messages \cup {None} /\ policy' \in Policies \cup {"Drain"}
    BY <1>1, TypesNow, Zenon
  <2> QED
    BY <1>3, <2>1, <2>2, TypesNow, TypesKept, Zenon
<1>5. Turns'
  BY <1>1, Zenon DEF LifecycleIInv, Turns, Op
<1>6. Served'
  BY <1>1, <1>3, ServedMail
<1> QED
  BY <1>1, <1>3, <1>4, <1>5, <1>6, Frames, Zenon DEF LifecycleIInv

\* A message of the drain that the gate refuses was overtaken by the drain timer or by
\* the operator.
LEMMA LifecycleGateStep == ASSUME LifecycleIInv, LifecycleGate PROVE LifecycleIInv'
<1>1. /\ UNCHANGED <<todo, seen, called, armed, commands, early, incarnation, lc, mbox, policy>>
      /\ UNCHANGED <<exits, downs, expired, handle, snapshot, phase, deadline, react, claimed, route>>
      /\ step = "lifecycle_gate" /\ step' \in {"handler", "idle"}
      /\ \/ step' = "handler" /\ UNCHANGED <<fate, held>>
         \/ Out /\ step' = "idle" /\ held' = None /\ fate' = [fate EXCEPT ![held] = "discarded"]
  BY Zenon DEF LifecycleGate, threads, drain, supervision, shutdown, passivation, Out
<1>2. held # None
  BY <1>1, Zenon DEF LifecycleIInv, Mail
<1>3. /\ Mail' /\ (EarlyDone => EarlyDone') /\ GracefulDrain'
      /\ fate' \in [Messages -> {"unsent", "queued", "held", "handled", "dead", "discarded"}]
  <2>1. CASE Out /\ step' = "idle" /\ held' = None /\ fate' = [fate EXCEPT ![held] = "discarded"]
    <3>1. /\ Mail' /\ (EarlyDone => EarlyDone')
          /\ fate' \in [Messages -> {"unsent", "queued", "held", "handled", "dead", "discarded"}]
          /\ fate[held] = "held" /\ \A m \in Messages : m # held => fate'[m] = fate[m]
      BY <1>1, <1>2, <2>1, HeldDone, Zenon
    <3>2. early \subseteq Messages /\ commands \in Nat
      BY Zenon DEF LifecycleIInv, Mail, LifecycleTypes
    <3>3. held \notin early \/ expired \/ commands > 0
      <4>1. CASE commands = 0
        BY <2>1, <3>1, <4>1, Zenon DEF LifecycleIInv, Served, EarlyDone
      <4>2. CASE commands # 0
        BY <3>2, <4>2
      <4> QED
        BY <4>1, <4>2, Zenon
    <3>4. GracefulDrain'
      BY <1>1, <3>1, <3>2, <3>3, Zenon DEF LifecycleIInv, GracefulDrain
    <3> QED
      BY <3>1, <3>4, Zenon
  <2>2. CASE step' = "handler" /\ UNCHANGED <<fate, held>>
    <3>1. Mail'
      BY <1>1, <1>2, <2>2, ZenonT(120) DEF LifecycleIInv, Mail
    <3> QED
      BY <1>1, <2>2, <3>1, Frames, Zenon DEF EarlyDone, LifecycleIInv, LifecycleTypes, TypeOK
  <2> QED
    BY <1>1, <2>1, <2>2, Zenon
<1>4. LifecycleTypes'
  BY <1>1, <1>3 DEF LifecycleIInv, LifecycleTypes, TypeOK
<1>5. Turns'
  BY <1>1, Zenon DEF LifecycleIInv, Turns, Op
<1>6. Served'
  BY <1>1, <1>3, ServedMail, Zenon
<1> QED
  BY <1>1, <1>3, <1>4, <1>5, <1>6, Frames, Zenon DEF LifecycleIInv

-----------------------------------------------------------------------------
(* What a driver's step does to the programs and to what the drivers know. *)

\* kStateMachine, by the questions the invariant asks of it.
LEMMA Machine ==
    /\ \A x \in States : kStateMachine[x] \subseteq States
    /\ \A x \in States : "Draining" \in kStateMachine[x] => x = "Active"
    /\ \A x \in States : "Stopping" \in kStateMachine[x] <=> x \in {"Active", "Draining"}
    /\ kStateMachine["Active"] = {"Draining", "Stopping", "Failed", "Quarantined", "Passivating"}
    /\ kStateMachine["Draining"] = {"Stopping", "Failed"}
    /\ kStateMachine["Stopped"] = {"Starting"}
  BY DEF kStateMachine, States

\* A driver without a program is not in the middle of a transition.
LEMMA SeenIdle == ASSUME LifecycleIInv, NEW d \in Drivers, todo[d] = << >> PROVE seen[d] = None /\ Op(d) = None
<1>1. Op(d) = None
  BY Zenon DEF Op, First
<1>2. None \notin States /\ seen[d] \in States \cup {None}
  BY Zenon DEF States, None, LifecycleIInv, LifecycleTypes, TypeOK
<1> QED
  BY <1>1, <1>2, Machine, Zenon DEF LifecycleIInv, Turns

\* A driver that is not a caller or a timer minds its own program.
LEMMA TurnsOwn ==
    ASSUME LifecycleIInv, NEW d \in {Worker, Passivator, Supervisor},
           \A e \in Drivers \ {d} : todo'[e] = todo[e] /\ Op(e)' = Op(e) /\ seen'[e] = seen[e],
           seen'[d] # None => Op(d)' \in kStateMachine[seen'[d]],
           armed' \subseteq armed, UNCHANGED <<called, phase>>,
           step' # "idle" => step # "idle", d = Worker => step' = "idle"
    PROVE  Turns'
<1>1. d \in Drivers /\ d \notin Callers /\ d \notin Timers
  BY Roles, Zenon
<1>2. \A e \in Drivers : seen'[e] # None => Op(e)' \in kStateMachine[seen'[e]]
  BY Zenon DEF LifecycleIInv, Turns
<1>3. \A e \in Callers \cup Timers : todo'[e] = todo[e] /\ Op(e)' = Op(e)
  BY <1>1, Roles, Zenon
<1>4. step' # "idle" => todo'[Worker] = << >>
  BY Roles, Zenon DEF LifecycleIInv, Turns
<1>5. \A c \in Callers : Timer(c) \in Timers /\ Timer(c)' = Timer(c)
  BY Roles, Zenon DEF Timer
<1>6. armed \subseteq Timers
  BY Zenon DEF LifecycleIInv, LifecycleTypes, TypeOK
<1>7. \A c \in Callers : Op(c)' \in {"Draining", "arm"} => todo'[Timer(c)] = << >> /\ Timer(c) \notin armed'
  BY <1>3, <1>5, Zenon DEF LifecycleIInv, Turns
<1>8. \A s \in Stoppers \ called' : todo'[s] = << >> /\ todo'[Timer(s)] = << >> /\ Timer(s) \notin armed'
  BY <1>3, <1>5, Roles, Zenon DEF LifecycleIInv, Turns
<1>9. phase' = "Running" => /\ todo'[Coordinator] = << >> /\ todo'[Timer(Coordinator)] = << >>
                            /\ Timer(Coordinator) \notin armed'
  BY <1>3, <1>5, Roles, Zenon DEF LifecycleIInv, Turns
<1>10. \A t \in armed' : todo'[t] = << >>
  BY <1>3, <1>6, Zenon DEF LifecycleIInv, Turns
<1> QED
  BY <1>2, <1>4, <1>7, <1>8, <1>9, <1>10, Zenon DEF Turns

\* An operation that is taken off a program keeps the others' turns.
LEMMA TurnsPopped ==
    ASSUME LifecycleIInv, NEW d \in Drivers, todo[d] # << >>, Follows(Op(d), Op(d)'),
           \A e \in Drivers \ {d} : todo'[e] = todo[e] /\ Op(e)' = Op(e) /\ seen'[e] = seen[e],
           seen'[d] = None, UNCHANGED <<called, phase, step, armed>>
    PROVE  Turns'
<1>1. \A e \in Drivers : seen'[e] # None => Op(e)' \in kStateMachine[seen'[e]]
  BY Zenon DEF LifecycleIInv, Turns
<1>2. \A e \in Drivers : todo[e] = << >> => todo'[e] = << >>
  BY Zenon
<1>3. \A c \in Callers : Timer(c) \in Timers /\ Timer(c)' = Timer(c)
  BY Roles, Zenon DEF Timer
<1>4. armed \subseteq Timers
  BY Zenon DEF LifecycleIInv, LifecycleTypes, TypeOK
<1>5. step' # "idle" => todo'[Worker] = << >>
  BY <1>2, Roles, Zenon DEF LifecycleIInv, Turns
<1>6. ASSUME NEW e \in Drivers, Op(e)' \in {"Draining", "arm"} PROVE Op(e) \in {"Draining", "arm"}
  BY <1>6, Zenon DEF Follows
<1>7. \A c \in Callers : Op(c)' \in {"Draining", "arm"} => todo'[Timer(c)] = << >> /\ Timer(c) \notin armed'
  BY <1>2, <1>3, <1>6, Roles, Zenon DEF LifecycleIInv, Turns
<1>8. \A s \in Stoppers \ called' : todo'[s] = << >> /\ todo'[Timer(s)] = << >> /\ Timer(s) \notin armed'
  BY <1>2, <1>3, Roles, Zenon DEF LifecycleIInv, Turns
<1>9. phase' = "Running" => /\ todo'[Coordinator] = << >> /\ todo'[Timer(Coordinator)] = << >>
                            /\ Timer(Coordinator) \notin armed'
  BY <1>2, <1>3, Roles, Zenon DEF LifecycleIInv, Turns
<1>10. \A t \in armed' : todo'[t] = << >>
  BY <1>2, <1>4, Roles, Zenon DEF LifecycleIInv, Turns
<1> QED
  BY <1>1, <1>5, <1>7, <1>8, <1>9, <1>10, Zenon DEF Turns

\* The others' knowledge survives the step of one driver.
LEMMA ServedStep ==
    ASSUME LifecycleIInv, NEW d \in Drivers, commands' = commands,
           \A e \in Drivers \ {d} : Op(e)' = Op(e) /\ seen'[e] = seen[e],
           policy' = policy,
           commands = 0 =>
               /\ Out => Out'
               /\ lc # "Active" => lc' # "Active"
               /\ Op(Worker) \in {"drain_all", "Stopping"} /\ EarlyDone => EarlyDone'
               /\ expired => expired'
               /\ exits' > 0 \/ downs' > 0 => Out'
               /\ policy = "ImmediateStop" => lc' # "Draining"
               /\ lc' = "Active" \/ policy = "ImmediateStop" => early' = {}
               /\ Out' => expired' \/ EarlyDone'
               /\ Knows(d)'
    PROVE  Served'
<1>1. ASSUME commands = 0, NEW e \in Drivers, e # d PROVE Knows(e)'
  <2>1. Knows(e) /\ Op(e)' = Op(e) /\ seen'[e] = seen[e]
    BY <1>1, Zenon DEF LifecycleIInv, Served
  <2> QED
    BY <1>1, <2>1, Zenon DEF Knows
<1> QED
  BY <1>1, Zenon DEF Served

\* The same for a step that leaves the actor's state alone.
LEMMA ServedTurn ==
    ASSUME LifecycleIInv, NEW d \in Drivers, commands' = commands,
           \A e \in Drivers \ {d} : Op(e)' = Op(e) /\ seen'[e] = seen[e],
           UNCHANGED <<policy, lc, early>>, expired => expired', EarlyDone => EarlyDone',
           commands = 0 => /\ Knows(d)'
                           /\ exits' > 0 \/ downs' > 0 => exits > 0 \/ downs > 0 \/ Out
    PROVE  Served'
<1>1. Out' <=> Out
  BY Zenon DEF Out
<1>2. commands = 0 =>
          /\ exits > 0 \/ downs > 0 => Out
          /\ policy = "ImmediateStop" => lc # "Draining"
          /\ lc = "Active" \/ policy = "ImmediateStop" => early = {}
          /\ Out => expired \/ EarlyDone
  BY Zenon DEF LifecycleIInv, Served
<1> QED
  BY <1>1, <1>2, ServedStep, Zenon

\* try_drain_completion begins the stop with nothing of the drain left.
LEMMA HandleStep == ASSUME LifecycleIInv, Handle PROVE LifecycleIInv'
<1>1. /\ UNCHANGED <<seen, called, commands, early, incarnation, lc, mbox, policy>>
      /\ UNCHANGED <<exits, downs, expired, snapshot, phase, deadline, react, claimed, route>>
      /\ step \in {"handler", "completion"} /\ step' = "idle" /\ held' = None
      /\ fate' = IF step = "handler" THEN [fate EXCEPT ![held] = "handled"] ELSE fate
  BY Zenon DEF Handle, Handled, supervision, shutdown
<1>2. /\ Mail' /\ (EarlyDone => EarlyDone') /\ GracefulDrain'
      /\ fate' \in [Messages -> {"unsent", "queued", "held", "handled", "dead", "discarded"}]
  <2>1. CASE step = "handler"
    <3>0. held # None
      BY <2>1, Zenon DEF LifecycleIInv, Mail
    <3>1. /\ Mail' /\ (EarlyDone => EarlyDone')
          /\ fate' \in [Messages -> {"unsent", "queued", "held", "handled", "dead", "discarded"}]
          /\ fate'[held] = "handled" /\ \A m \in Messages : m # held => fate'[m] = fate[m]
      BY <1>1, <2>1, <3>0, HeldDone, Zenon
    <3>2. early \subseteq Messages
      BY Zenon DEF LifecycleIInv, Mail
    <3>3. GracefulDrain'
      BY <1>1, <3>1, <3>2, Zenon DEF LifecycleIInv, GracefulDrain
    <3> QED
      BY <3>1, <3>3, Zenon
  <2>2. CASE step = "completion"
    <3>1. held = None /\ fate' = fate
      BY <1>1, <2>2, Zenon DEF LifecycleIInv, Mail
    <3>2. Mail'
      BY <1>1, <3>1, ZenonT(120) DEF LifecycleIInv, Mail
    <3> QED
      BY <1>1, <3>1, <3>2, Frames, Zenon DEF EarlyDone, LifecycleIInv, LifecycleTypes, TypeOK
  <2> QED
    BY <1>1, <2>1, <2>2, Zenon
<1>3. todo[Worker] = << >> /\ Worker \in Drivers
  BY <1>1, Roles, Zenon DEF LifecycleIInv, Turns
<1>4. CASE UNCHANGED <<todo, drain>>
  <2>1. UNCHANGED <<todo, armed, handle>>
    BY <1>4, Zenon DEF drain
  <2>2. LifecycleTypes'
    BY <1>1, <1>2, <2>1, ZenonT(60) DEF LifecycleIInv, LifecycleTypes, TypeOK
  <2>3. Turns'
    <3>1. \A e \in Drivers : todo'[e] = todo[e] /\ Op(e)' = Op(e) /\ seen'[e] = seen[e]
      BY <1>1, <2>1, Zenon DEF Op
    <3>2. seen'[Worker] = None
      BY <1>3, <3>1, SeenIdle, Zenon
    <3> QED
      BY <1>1, <2>1, <3>1, <3>2, TurnsOwn, Zenon
  <2>4. Served'
    BY <1>1, <1>2, <2>1, ServedMail, Zenon
  <2> QED
    BY <1>1, <1>2, <2>1, <2>2, <2>3, <2>4, Frames, Zenon DEF LifecycleIInv
<1>5. CASE /\ lc = "Draining" /\ mbox = << >> /\ Program(Worker, Finish)
           /\ armed' = armed \ {handle} /\ handle' = None
  <2>1. Finish \in ProgramsOf(Worker) /\ First(Finish) = "Stopping"
    BY RolePrograms DEF Finish, StopPrograms, First
  <2>2. /\ Programmed' /\ Op(Worker)' = "Stopping"
        /\ \A e \in Drivers \ {Worker} : todo'[e] = todo[e] /\ Op(e)' = Op(e)
    BY <1>1, <1>3, <1>5, <2>1, Reprogrammed, Zenon DEF LifecycleIInv
  <2>3. seen[Worker] = None /\ seen' = seen
    BY <1>1, <1>3, SeenIdle, Zenon
  <2>4. LifecycleTypes'
    BY <1>1, <1>2, <1>5, ZenonT(60) DEF LifecycleIInv, LifecycleTypes, TypeOK
  <2>5. Turns'
    BY <1>1, <1>5, <2>2, <2>3, TurnsOwn, Zenon
  <2>6. Restarted'
    BY <1>1, <2>2, Zenon DEF LifecycleIInv, Restarted, ShutdownWaits
  <2>7. EarlyDone'
    <3>1. Len(mbox') = 0 /\ held' = None /\ early' \subseteq Messages
      BY <1>1, <1>2, <1>5, Zenon DEF Mail
    <3>2. \A m \in Messages : fate'[m] # "queued"
      BY <1>2, <3>1 DEF Mail
    <3>3. \A m \in Messages : fate'[m] # "held"
      BY <1>2, <3>1, LifecycleAssumption, ZenonT(60) DEF Mail
    <3> QED
      BY <3>1, <3>2, <3>3, Zenon DEF EarlyDone
  <2>8. Knows(Worker)'
    <3>1. Worker \notin Callers /\ lc' = "Draining" /\ seen'[Worker] = None
      BY <1>1, <1>5, <2>3, Roles, Zenon
    <3> QED
      BY <2>2, <2>7, <3>1, Zenon DEF Knows, AfterService, None
  <2>9. Served'
    BY <1>1, <1>2, <1>3, <2>2, <2>3, <2>8, ServedTurn, Zenon
  <2> QED
    BY <1>1, <1>2, <2>2, <2>4, <2>5, <2>6, <2>9, Frames, Zenon DEF LifecycleIInv
<1> QED
  BY <1>4, <1>5, Zenon DEF Handle, TryDrainCompletion

-----------------------------------------------------------------------------
(* The operations of the programs. *)

\* A driver at an operation that is no transition has loaded no state.
LEMMA AtOperation ==
    ASSUME LifecycleIInv, NEW d \in Drivers, NEW op, AtOp(d, op)
    PROVE  todo[d] # << >> /\ Op(d) = op /\ (op \notin States => seen[d] = None)
<1>1. todo[d] # << >> /\ Op(d) = op
  BY Zenon DEF AtOp, Op, First
<1>2. seen[d] \in States \cup {None}
  BY Zenon DEF LifecycleIInv, LifecycleTypes, TypeOK
<1> QED
  BY <1>1, <1>2, Machine, Zenon DEF LifecycleIInv, Turns

\* A driver gets a program: the others go on as before.
LEMMA ProgramGiven ==
    ASSUME LifecycleIInv, NEW d \in Drivers, NEW p \in ProgramsOf(d), Program(d, p), First(p) # "Starting",
           UNCHANGED <<lc, incarnation, policy, early, fate, commands, exits>>,
           \A e \in Drivers \ {d} : seen'[e] = seen[e], expired => expired', downs' > 0 => downs > 0, ShutdownWaits',
           commands = 0 /\ Op(d)' = First(p) => Knows(d)'
    PROVE  /\ Programmed' /\ Restarted' /\ Served' /\ todo'[d] = p /\ Op(d)' = First(p)
           /\ \A e \in Drivers \ {d} : todo'[e] = todo[e] /\ Op(e)' = Op(e)
<1>1. /\ Programmed' /\ todo'[d] = p /\ Op(d)' = First(p)
      /\ \A e \in Drivers \ {d} : todo'[e] = todo[e] /\ Op(e)' = Op(e)
  BY Reprogrammed, Zenon DEF LifecycleIInv
<1>2. Restarted'
  BY <1>1, Zenon DEF LifecycleIInv, Restarted
<1>3. EarlyDone => EarlyDone'
  BY Zenon DEF EarlyDone
<1>4. Served'
  <2>1. \A e \in Drivers \ {d} : Op(e)' = Op(e) /\ seen'[e] = seen[e]
    BY <1>1, Zenon
  <2>2. commands = 0 => Knows(d)' /\ (exits' > 0 \/ downs' > 0 => exits > 0 \/ downs > 0 \/ Out)
    BY <1>1, Zenon
  <2> QED
    BY <1>3, <2>1, <2>2, ServedTurn, Zenon
<1> QED
  BY <1>1, <1>2, <1>4, Zenon

\* An operation is done: the driver goes on to the next.
LEMMA OperationDone ==
    ASSUME LifecycleIInv, NEW d \in Drivers, todo[d] # << >>, Pop(d),
           seen'[d] = None, \A e \in Drivers \ {d} : seen'[e] = seen[e],
           UNCHANGED <<lc, policy, early, fate, expired, commands, phase, deadline>>,
           incarnation' = incarnation \/ incarnation' > 0, Op(d) = "bump" => incarnation' > 0,
           Op(d) \in {"Stopping", "Passivating"} /\ commands = 0 => Out,
           exits' > 0 \/ downs' > 0 => exits > 0 \/ downs > 0 \/ Op(d) \in AfterService
    PROVE  /\ Programmed' /\ Restarted' /\ Served' /\ Follows(Op(d), Op(d)')
           /\ todo'[d] = Tail(todo[d])
           /\ \A e \in Drivers \ {d} : todo'[e] = todo[e] /\ Op(e)' = Op(e) /\ seen'[e] = seen[e]
<1>1. /\ Programmed' /\ todo'[d] = Tail(todo[d]) /\ Follows(Op(d), Op(d)')
      /\ \A e \in Drivers \ {d} : todo'[e] = todo[e] /\ Op(e)' = Op(e)
  BY Popped, Zenon DEF LifecycleIInv
<1>2. Restarted'
  <2>1. \A e \in Drivers : Op(e)' = "Starting" => incarnation' > 0
    BY <1>1, Zenon DEF LifecycleIInv, Restarted, Follows
  <2>2. ShutdownWaits'
    BY Zenon DEF LifecycleIInv, Restarted, ShutdownWaits
  <2> QED
    BY <2>1, <2>2, Zenon DEF Restarted
<1>3. ASSUME commands = 0 PROVE Knows(d)'
  <2>1. Knows(d) /\ Op(d)' \notin {"drain_all", "Draining"}
    BY <1>1, <1>3, Zenon DEF LifecycleIInv, Served, Follows
  <2>2. Op(d)' \in AfterService => Out'
    <3>1. Op(d)' \in AfterService => Op(d) \in AfterService \cup {"Stopping", "Passivating"}
      BY <1>1, Zenon DEF Follows
    <3> QED
      BY <1>3, <2>1, <3>1, Zenon DEF Knows, Out
  <2>3. Op(d)' = "Stopping" => Op(d) = "drain_all"
    BY <1>1, Zenon DEF Follows
  <2>4. EarlyDone => EarlyDone'
    BY Zenon DEF EarlyDone
  <2> QED
    BY <2>1, <2>2, <2>3, <2>4, Zenon DEF Knows, None
<1>4. EarlyDone => EarlyDone'
  BY Zenon DEF EarlyDone
<1>5. Served'
  <2>1. \A e \in Drivers \ {d} : Op(e)' = Op(e) /\ seen'[e] = seen[e]
    BY <1>1, Zenon
  <2>2. commands = 0 => (Op(d) \in AfterService => Out)
    BY Zenon DEF LifecycleIInv, Served, Knows
  <2> QED
    BY <1>3, <1>4, <2>1, <2>2, ServedTurn, Zenon
<1> QED
  BY <1>1, <1>2, <1>5, Zenon

\* on_exit finds the actor out of service.
LEMMA OnExitStep == ASSUME LifecycleIInv, NEW d \in Drivers, OnExit(d) PROVE LifecycleIInv'
<1>1. /\ UNCHANGED <<seen, called, armed, handle, commands, early, incarnation, lc, mbox, policy, step, held>>
      /\ UNCHANGED <<fate, expired, snapshot, phase, deadline, react, claimed, route>>
      /\ exits' = exits + 1 /\ downs' = downs + 1 /\ AtOp(d, "exit") /\ Pop(d)
  BY Zenon DEF OnExit, supervision, worker, drain, shutdown, passivation
<1>2. todo[d] # << >> /\ Op(d) = "exit" /\ seen'[d] = None /\ \A e \in Drivers : seen'[e] = seen[e]
  <2>1. "exit" \notin States
    BY Zenon DEF States
  <2> QED
    BY <1>1, <2>1, AtOperation, Zenon
<1>3. /\ Programmed' /\ Restarted' /\ Served' /\ Follows(Op(d), Op(d)')
      /\ \A e \in Drivers \ {d} : todo'[e] = todo[e] /\ Op(e)' = Op(e) /\ seen'[e] = seen[e]
  <2>1. Op(d) \in AfterService /\ Op(d) \notin {"Stopping", "Passivating", "bump"}
    BY <1>2, Zenon DEF AfterService
  <2> QED
    BY <1>1, <1>2, <2>1, OperationDone, Zenon
<1>4. Turns'
  BY <1>1, <1>2, <1>3, TurnsPopped, ZenonT(60)
<1>5. LifecycleTypes'
  BY <1>1 DEF LifecycleIInv, LifecycleTypes, TypeOK
<1> QED
  BY <1>1, <1>3, <1>4, <1>5, Frames, Zenon DEF LifecycleIInv

\* The incarnation grows before the restart.
LEMMA BumpIncarnationStep == ASSUME LifecycleIInv, NEW d \in Drivers, BumpIncarnation(d) PROVE LifecycleIInv'
<1>1. /\ UNCHANGED <<seen, called, armed, handle, commands, early, lc, mbox, policy, step, held>>
      /\ UNCHANGED <<fate, expired, snapshot, phase, deadline, react, claimed, route, exits, downs>>
      /\ incarnation' = incarnation + 1 /\ AtOp(d, "bump") /\ Pop(d)
  BY ZenonT(30) DEF BumpIncarnation, supervision, worker, drain, shutdown, passivation
<1>2. todo[d] # << >> /\ Op(d) = "bump" /\ seen'[d] = None /\ \A e \in Drivers : seen'[e] = seen[e]
  <2>1. "bump" \notin States
    BY DEF States
  <2> QED
    BY <1>1, <2>1, AtOperation, Zenon
<1>3. /\ Programmed' /\ Restarted' /\ Served' /\ Follows(Op(d), Op(d)')
      /\ \A e \in Drivers \ {d} : todo'[e] = todo[e] /\ Op(e)' = Op(e) /\ seen'[e] = seen[e]
  <2>1. Op(d) \notin {"Stopping", "Passivating"}
    BY <1>2, Zenon
  <2>2. incarnation' > 0
    BY <1>1 DEF LifecycleIInv, LifecycleTypes, TypeOK
  <2> QED
    BY <1>1, <1>2, <2>1, <2>2, OperationDone, Zenon
<1>4. Turns'
  BY <1>1, <1>2, <1>3, TurnsPopped, ZenonT(60)
<1>5. LifecycleTypes'
  BY <1>1 DEF LifecycleIInv, LifecycleTypes, TypeOK
<1> QED
  BY <1>1, <1>3, <1>4, <1>5, Frames, Zenon DEF LifecycleIInv

\* The operations of the programs of a role.
LEMMA FirstOps ==
    /\ \A p \in StopPrograms : First(p) \in {"drain_all", "Stopping", "Stopped", "exit", None}
    /\ \A p \in DrainPrograms : First(p) \in {"Draining", "arm", None}
    /\ \A p \in RestartPrograms : First(p) \in {"Failed", "bump", "Starting", None}
    /\ \A p \in PassivationPrograms :
          First(p) \in {"Passivating", "depth", "snapshot", "Passivated", "route", "Failed", None}
<1>1. /\ First(<<"drain_all", "Stopping", "Stopped", "exit">>) = "drain_all"
      /\ First(<<"Stopping", "Stopped", "exit">>) = "Stopping"
      /\ First(<<"Stopped", "exit">>) = "Stopped" /\ First(<<"exit">>) = "exit" /\ First(<< >>) = None
  BY DEF First
<1>2. First(<<"Draining", "arm">>) = "Draining" /\ First(<<"arm">>) = "arm"
  BY DEF First
<1>3. /\ First(<<"Failed", "bump", "Starting">>) = "Failed" /\ First(<<"bump", "Starting">>) = "bump"
      /\ First(<<"Starting">>) = "Starting"
  BY DEF First
<1>4. /\ First(<<"Passivating", "depth", "snapshot", "Passivated", "route">>) = "Passivating"
      /\ First(<<"depth", "snapshot", "Passivated", "route">>) = "depth"
      /\ First(<<"snapshot", "Passivated", "route">>) = "snapshot"
      /\ First(<<"Passivated", "route">>) = "Passivated" /\ First(<<"route">>) = "route"
      /\ First(<<"Failed">>) = "Failed"
  BY DEF First
<1>5. \A p \in StopPrograms : First(p) \in {"drain_all", "Stopping", "Stopped", "exit", None}
  BY <1>1, Zenon DEF StopPrograms
<1>6. \A p \in DrainPrograms : First(p) \in {"Draining", "arm", None}
  BY <1>1, <1>2, Zenon DEF DrainPrograms
<1>7. \A p \in RestartPrograms : First(p) \in {"Failed", "bump", "Starting", None}
  BY <1>1, <1>3, Zenon DEF RestartPrograms
<1>8. \A p \in PassivationPrograms :
          First(p) \in {"Passivating", "depth", "snapshot", "Passivated", "route", "Failed", None}
  BY <1>1, <1>4, Zenon DEF PassivationPrograms
<1> QED
  BY <1>5, <1>6, <1>7, <1>8, Zenon

\* Which role an operation is of, as long as no operator intervened.
LEMMA RoleOps ==
    ASSUME LifecycleIInv, NEW d \in Drivers, commands = 0
    PROVE  /\ Op(d) \in {"drain_all", "Stopping", "Stopped", "exit", "Draining", "arm", "Failed", "bump", "Starting",
                         "Passivating", "depth", "snapshot", "Passivated", "route", None}
           /\ Op(d) \in {"Passivating", "depth", "snapshot", "Passivated", "route"} => d = Passivator
<1>1. Op(d) = First(todo[d]) /\ todo[d] \in ProgramsOf(d)
  BY Zenon DEF LifecycleIInv, Programmed, Op
<1>2. CASE d \in Callers
  <2>1. Op(d) \in {"drain_all", "Stopping", "Stopped", "exit", None} \cup {"Draining", "arm", None}
    BY <1>1, <1>2, RolePrograms, FirstOps, Zenon
  <2> QED
    BY <2>1, Zenon DEF None
<1>3. CASE d \in Timers \cup {Worker}
  <2>1. Op(d) \in {"drain_all", "Stopping", "Stopped", "exit", None}
    BY <1>1, <1>3, RolePrograms, FirstOps, Zenon
  <2> QED
    BY <2>1, Zenon DEF None
<1>4. CASE d = Supervisor
  <2>1. Op(d) \in {"Failed", "bump", "Starting", None}
    BY <1>1, <1>4, RolePrograms, FirstOps, Zenon
  <2> QED
    BY <2>1, Zenon DEF None
<1>5. CASE d = Passivator
  <2>1. Op(d) \in {"Passivating", "depth", "snapshot", "Passivated", "route", "Failed", None}
    BY <1>1, <1>5, RolePrograms, FirstOps, Zenon
  <2> QED
    BY <1>5, <2>1, Zenon DEF None
<1> QED
  BY Roles, <1>2, <1>3, <1>4, <1>5, Zenon

\* start_drain_timer is an operation of the callers, operator or not.
LEMMA ArmIsCallers == ASSUME LifecycleIInv, NEW d \in Drivers, Op(d) = "arm" PROVE d \in Callers
<1>1. Op(d) = First(todo[d]) /\ todo[d] \in ProgramsOf(d)
  BY Zenon DEF LifecycleIInv, Programmed, Op
<1>2. \A p \in CommandPrograms : First(p) # "arm"
  <2>1. /\ First(<<"Stopping", "Stopped">>) = "Stopping" /\ First(<<"Stopped">>) = "Stopped"
        /\ First(<<"Quarantined">>) = "Quarantined"
        /\ First(<<"Stopped", "bump", "Starting", "Active">>) = "Stopped"
        /\ First(<<"bump", "Starting", "Active">>) = "bump" /\ First(<<"Starting", "Active">>) = "Starting"
        /\ First(<<"Active">>) = "Active" /\ First(<< >>) = None
    BY DEF First
  <2> QED
    BY <2>1, Zenon DEF CommandPrograms, None
<1>3. \A p \in StopPrograms \cup RestartPrograms \cup PassivationPrograms : First(p) # "arm"
  BY FirstOps, Zenon DEF None
<1>4. d \notin Timers /\ d # Worker /\ d # Supervisor /\ d # Passivator
  BY <1>1, <1>2, <1>3, RolePrograms, Zenon
<1> QED
  BY <1>4, Roles, Zenon

\* drain_all_immediate moves queued messages to the dead letters.
LEMMA DrainAllStep == ASSUME LifecycleIInv, NEW d \in Drivers, DrainAll(d) PROVE LifecycleIInv'
<1>1. /\ UNCHANGED <<seen, called, armed, handle, commands, early, incarnation, lc, policy, step, held>>
      /\ UNCHANGED <<expired, snapshot, phase, deadline, react, claimed, route, exits, downs>>
      /\ AtOp(d, "drain_all")
      /\ \/ mbox = << >> /\ Pop(d) /\ UNCHANGED <<mbox, fate>>
         \/ mbox # << >> /\ fate' = [fate EXCEPT ![Head(mbox)] = "dead"] /\ mbox' = Tail(mbox) /\ todo' = todo
  BY ZenonT(30) DEF DrainAll, supervision, worker, drain, shutdown, passivation
<1>2. todo[d] # << >> /\ Op(d) = "drain_all" /\ seen'[d] = None /\ \A e \in Drivers : seen'[e] = seen[e]
  <2>1. "drain_all" \notin States
    BY Zenon DEF States
  <2> QED
    BY <1>1, <2>1, AtOperation, Zenon
<1>3. CASE mbox = << >> /\ Pop(d) /\ UNCHANGED <<mbox, fate>>
  <2>1. /\ Programmed' /\ Restarted' /\ Served' /\ Follows(Op(d), Op(d)')
        /\ \A e \in Drivers \ {d} : todo'[e] = todo[e] /\ Op(e)' = Op(e) /\ seen'[e] = seen[e]
    <3>1. Op(d) \notin {"Stopping", "Passivating", "bump"}
      BY <1>2, Zenon
    <3> QED
      BY <1>1, <1>2, <1>3, <3>1, OperationDone, Zenon
  <2>2. Turns'
    BY <1>1, <1>2, <2>1, TurnsPopped, ZenonT(60)
  <2>3. LifecycleTypes'
    BY <1>1, <1>3 DEF LifecycleIInv, LifecycleTypes, TypeOK
  <2> QED
    BY <1>1, <1>3, <2>1, <2>2, <2>3, Frames, Zenon DEF LifecycleIInv
<1>4. CASE mbox # << >> /\ fate' = [fate EXCEPT ![Head(mbox)] = "dead"] /\ mbox' = Tail(mbox) /\ todo' = todo
  <2>1. /\ Head(mbox) \in Messages /\ fate[Head(mbox)] = "queued" /\ fate'[Head(mbox)] = "dead"
        /\ \A m \in Messages : m # Head(mbox) => fate'[m] = fate[m]
        /\ mbox' \in Seq(Messages)
        /\ \A i \in 1 .. Len(mbox') : fate'[mbox'[i]] = "queued"
        /\ \A i, j \in 1 .. Len(mbox') : mbox'[i] = mbox'[j] => i = j
        /\ \A m \in Messages : fate'[m] = "queued" => \E i \in 1 .. Len(mbox') : mbox'[i] = m
    BY <1>4, HeadTaken, ZenonT(60)
  <2>2. LifecycleTypes'
    <3>1. fate' \in [Messages -> {"unsent", "queued", "held", "handled", "dead", "discarded"}]
      BY <1>4, TypesNow, Zenon
    <3>2. /\ UNCHANGED <<seen, armed, handle, policy, step, held, lc, incarnation, phase, route>>
          /\ UNCHANGED <<deadline, snapshot, claimed, expired, exits, downs, commands, react>>
      BY <1>1, Zenon
    <3> QED
      BY <3>1, <3>2, TypesNow, TypesKept, Zenon
  <2>3. \A m \in Messages : fate'[m] = "held" <=> held' = m
    <3>1. \A m \in Messages : fate[m] = "held" <=> held = m
      BY Zenon DEF LifecycleIInv, Mail
    <3>2. \A m \in Messages : fate'[m] = "held" <=> fate[m] = "held"
      BY <2>1, Zenon
    <3> QED
      BY <1>1, <3>1, <3>2, Zenon
  <2>4. early' \subseteq {m \in Messages : fate'[m] # "unsent"}
    <3>1. \A m \in Messages : fate[m] # "unsent" => fate'[m] # "unsent"
      BY <2>1, Zenon
    <3>2. early \subseteq {m \in Messages : fate[m] # "unsent"} /\ early' = early
      BY <1>1, Zenon DEF LifecycleIInv, Mail
    <3> QED
      BY <3>1, <3>2, Zenon
  <2>5. Mail'
    BY <1>1, <2>1, <2>3, <2>4, Zenon DEF LifecycleIInv, Mail
  <2>6. GracefulDrain' /\ (EarlyDone => EarlyDone')
    <3>1. early \subseteq Messages
      BY Zenon DEF LifecycleIInv, Mail
    <3> QED
      BY <1>1, <2>1, <3>1, Zenon DEF LifecycleIInv, GracefulDrain, EarlyDone
  <2>7. Served'
    BY <1>1, <1>4, <2>6, ServedMail, Zenon
  <2> QED
    BY <1>1, <1>4, <2>2, <2>5, <2>6, <2>7, Frames, Zenon DEF LifecycleIInv
<1> QED
  BY <1>1, <1>3, <1>4, Zenon

\* A caller starts its timer, which is idle.
LEMMA ArmStep == ASSUME LifecycleIInv, NEW d \in Drivers, Arm(d) PROVE LifecycleIInv'
<1>1. /\ UNCHANGED <<seen, called, commands, early, incarnation, lc, policy, step, held, mbox, fate>>
      /\ UNCHANGED <<expired, snapshot, phase, deadline, react, claimed, route, exits, downs>>
      /\ AtOp(d, "arm") /\ Pop(d) /\ armed' = armed \cup {Timer(d)} /\ handle' = Timer(d)
  BY ZenonT(30) DEF Arm, supervision, worker, shutdown, passivation
<1>2. todo[d] # << >> /\ Op(d) = "arm" /\ seen'[d] = None /\ \A e \in Drivers : seen'[e] = seen[e]
  <2>1. "arm" \notin States
    BY Zenon DEF States
  <2> QED
    BY <1>1, <2>1, AtOperation, Zenon
<1>3. d \in Callers /\ Timer(d) \in Timers /\ todo[Timer(d)] = << >> /\ Timer(d) # d
  BY <1>2, ArmIsCallers, Roles, Zenon DEF LifecycleIInv, Turns
<1>4. /\ Programmed' /\ Restarted' /\ Served' /\ Follows(Op(d), Op(d)')
      /\ \A e \in Drivers \ {d} : todo'[e] = todo[e] /\ Op(e)' = Op(e) /\ seen'[e] = seen[e]
  <2>1. Op(d) \notin {"Stopping", "Passivating", "bump"}
    BY <1>2, Zenon
  <2> QED
    BY <1>1, <1>2, <2>1, OperationDone, Zenon
<1>5. Turns'
  <2>1. Op(d)' \notin {"Draining", "arm"}
    BY <1>2, <1>4, Zenon DEF Follows, None
  <2>2. \A e \in Drivers : seen'[e] # None => Op(e)' \in kStateMachine[seen'[e]]
    BY <1>1, <1>2, <1>4, Zenon DEF LifecycleIInv, Turns
  <2>3. step' # "idle" => todo'[Worker] = << >>
    BY <1>1, <1>3, <1>4, Roles, Zenon DEF LifecycleIInv, Turns
  <2>4. \A c \in Callers : c # d => Timer(c) # Timer(d) /\ Timer(c) # d /\ Timer(c) \in Drivers
    BY <1>3, Roles, Zenon
  <2>5. \A s \in Stoppers \ called' : todo'[s] = << >> /\ todo'[Timer(s)] = << >> /\ Timer(s) \notin armed'
    BY <1>1, <1>2, <1>4, <2>4, Roles, ZenonT(60) DEF LifecycleIInv, Turns
  <2>6. phase' = "Running" => /\ todo'[Coordinator] = << >> /\ todo'[Timer(Coordinator)] = << >>
                              /\ Timer(Coordinator) \notin armed'
    BY <1>1, <1>2, <1>4, <2>4, Roles, Zenon DEF LifecycleIInv, Turns
  <2>7. \A c \in Callers : Op(c)' \in {"Draining", "arm"} => todo'[Timer(c)] = << >> /\ Timer(c) \notin armed'
    BY <1>1, <1>4, <2>1, <2>4, Roles, Zenon DEF LifecycleIInv, Turns
  <2>8. \A t \in armed' : todo'[t] = << >>
    <3>1. armed \subseteq Timers /\ d \notin Timers /\ Timers \subseteq Drivers
      BY <1>3, Roles, Zenon DEF LifecycleIInv, LifecycleTypes, TypeOK
    <3>2. \A t \in armed : todo[t] = << >>
      BY ZenonT(60) DEF LifecycleIInv, Turns
    <3> QED
      BY <1>1, <1>3, <1>4, <3>1, <3>2, Zenon
  <2> QED
    BY <2>2, <2>3, <2>5, <2>6, <2>7, <2>8, Zenon DEF Turns
<1>6. LifecycleTypes'
  <2>1. /\ UNCHANGED <<lc, incarnation, phase, route, seen, policy, step, held, fate>>
        /\ UNCHANGED <<deadline, snapshot, claimed, expired, exits, downs, commands, react>>
    BY <1>1, Zenon
  <2>2. armed' \subseteq Timers /\ handle' \in Timers \cup {None}
    BY <1>1, <1>3, TypesNow, Roles, Zenon
  <2> QED
    BY <2>1, <2>2, TypesNow, TypesKept, Zenon
<1> QED
  BY <1>1, <1>4, <1>5, <1>6, Frames, Zenon DEF LifecycleIInv

\* The load of a transition; one that is illegal is left out, and ends a passivation.
LEMMA LoadStep == ASSUME LifecycleIInv, NEW d \in Drivers, Load(d) PROVE LifecycleIInv'
<1>1. /\ UNCHANGED <<called, armed, handle, commands, early, incarnation, lc, policy, step, held, mbox, fate>>
      /\ UNCHANGED <<expired, snapshot, phase, deadline, react, claimed, route, exits, downs>>
      /\ todo[d] # << >> /\ Op(d) \in States /\ seen[d] = None
      /\ \/ Op(d) \in kStateMachine[lc] /\ seen' = [seen EXCEPT ![d] = lc] /\ todo' = todo
         \/ d = Passivator /\ Program(d, << >>) /\ seen' = seen
         \/ d # Passivator /\ Op(d) \notin kStateMachine[lc] /\ Pop(d) /\ seen' = seen
  BY Zenon DEF Load, supervision, worker, drain, shutdown, passivation, Op, First
<1>2. lc \in States /\ seen \in [Drivers -> States \cup {None}]
  BY Zenon DEF LifecycleIInv, LifecycleTypes, TypeOK
<1>3. CASE Op(d) \in kStateMachine[lc] /\ seen' = [seen EXCEPT ![d] = lc] /\ todo' = todo
  <2>1. /\ seen'[d] = lc /\ \A e \in Drivers \ {d} : seen'[e] = seen[e]
        /\ seen' \in [Drivers -> States \cup {None}]
    BY <1>2, <1>3, Zenon
  <2>2. \A e \in Drivers : Op(e)' = Op(e)
    BY <1>3, ZenonT(60) DEF Op
  <2>3. LifecycleTypes'
    <3>1. /\ UNCHANGED <<lc, incarnation, phase, route, policy, armed, handle, step, held, fate>>
          /\ UNCHANGED <<deadline, snapshot, claimed, expired, exits, downs, commands, react>>
      BY <1>1, Zenon
    <3> QED
      BY <2>1, <3>1, TypesNow, TypesKept, Zenon
  <2>4. Turns'
    <3>1. \A e \in Drivers : seen'[e] # None => Op(e)' \in kStateMachine[seen'[e]]
      BY <1>3, <2>1, <2>2, Zenon DEF LifecycleIInv, Turns
    <3> QED
      BY <1>1, <1>3, <2>2, <3>1, Roles, Zenon DEF LifecycleIInv, Turns
  <2>5. Served'
    <3>1. EarlyDone => EarlyDone'
      BY <1>1, Zenon DEF EarlyDone
    <3>2. ASSUME commands = 0 PROVE Knows(d)'
      <4>1. Knows(d)
        BY <3>2, Zenon DEF LifecycleIInv, Served
      <4> QED
        BY <1>1, <2>1, <2>2, <3>1, <4>1, Zenon DEF Knows, Out
    <3> QED
      BY <1>1, <2>1, <2>2, <3>1, <3>2, ServedTurn, Zenon
  <2> QED
    BY <1>1, <1>3, <2>3, <2>4, <2>5, Frames, ZenonT(30) DEF LifecycleIInv
<1>4. CASE d = Passivator /\ Program(d, << >>) /\ seen' = seen
  <2>1. << >> \in ProgramsOf(d) /\ First(<< >>) = None
    BY <1>4, RolePrograms, Zenon DEF PassivationPrograms, First
  <2>2. Op(d)' = None => Knows(d)'
    BY <1>1, <1>4, Zenon DEF Knows, AfterService, None
  <2>3. ShutdownWaits'
    BY <1>1, Zenon DEF LifecycleIInv, Restarted, ShutdownWaits
  <2>4. None # "Starting"
    BY Zenon DEF None
  <2>5. /\ Programmed' /\ Restarted' /\ Served'
        /\ \A e \in Drivers \ {d} : todo'[e] = todo[e] /\ Op(e)' = Op(e)
    BY <1>1, <1>4, <2>1, <2>2, <2>3, <2>4, ProgramGiven, Zenon
  <2>6. Turns'
    BY <1>1, <1>4, <2>5, TurnsOwn, Roles, ZenonT(30)
  <2>7. LifecycleTypes'
    BY <1>1, <1>4 DEF LifecycleIInv, LifecycleTypes, TypeOK
  <2> QED
    BY <1>1, <2>5, <2>6, <2>7, Frames, Zenon DEF LifecycleIInv
<1>5. CASE d # Passivator /\ Op(d) \notin kStateMachine[lc] /\ Pop(d) /\ seen' = seen
  <2>1. seen'[d] = None /\ \A e \in Drivers \ {d} : seen'[e] = seen[e]
    BY <1>1, <1>5, Zenon
  <2>2. Op(d) \in {"Stopping", "Passivating"} /\ commands = 0 => Out
    <3>1. commands = 0 => Op(d) # "Passivating"
      BY <1>5, RoleOps, Zenon
    <3>2. Op(d) = "Stopping" => Out
      <4>1. "Stopping" \in kStateMachine[lc] <=> lc \in {"Active", "Draining"}
        BY <1>2, Machine, Zenon
      <4> QED
        BY <1>5, <4>1, Zenon DEF Out
    <3> QED
      BY <3>1, <3>2, Zenon
  <2>3. Op(d) # "bump"
    <3>1. "bump" \notin States
      BY DEF States
    <3> QED
      BY <1>1, <3>1, Zenon
  <2>4. /\ Programmed' /\ Restarted' /\ Served' /\ Follows(Op(d), Op(d)')
        /\ \A e \in Drivers \ {d} : todo'[e] = todo[e] /\ Op(e)' = Op(e) /\ seen'[e] = seen[e]
    BY <1>1, <1>5, <2>1, <2>2, <2>3, OperationDone, Zenon
  <2>5. Turns'
    BY <1>1, <2>1, <2>4, TurnsPopped, ZenonT(30)
  <2>6. LifecycleTypes'
    BY <1>1, <1>5 DEF LifecycleIInv, LifecycleTypes, TypeOK
  <2> QED
    BY <1>1, <2>4, <2>5, <2>6, Frames, Zenon DEF LifecycleIInv
<1> QED
  BY <1>1, <1>3, <1>4, <1>5, Zenon

\* The compare-exchange fails: another driver was faster, and the actor is out of
\* service or still draining for somebody else.
LEMMA ExchangeFails ==
    ASSUME LifecycleIInv, NEW d \in Drivers, CompareExchange(d), lc # seen[d] PROVE LifecycleIInv'
<1>1. /\ UNCHANGED <<called, armed, handle, commands, early, incarnation, lc, policy, step, held, mbox, fate>>
      /\ UNCHANGED <<expired, snapshot, phase, deadline, react, claimed, route, exits, downs>>
      /\ seen[d] # None /\ seen' = [seen EXCEPT ![d] = None]
      /\ Program(d, IF d = Passivator THEN << >> ELSE Tail(todo[d]))
  BY Zenon DEF CompareExchange, supervision, worker, drain, shutdown, passivation
<1>2. lc \in States /\ seen \in [Drivers -> States \cup {None}] /\ None \notin States
  BY Zenon DEF LifecycleIInv, LifecycleTypes, TypeOK, States, None
<1>3. /\ seen'[d] = None /\ \A e \in Drivers \ {d} : seen'[e] = seen[e]
      /\ seen' \in [Drivers -> States \cup {None}]
  BY <1>1, <1>2, Zenon
<1>4. Op(d) \in kStateMachine[seen[d]] /\ Op(d) \in States /\ seen[d] \in States
  BY <1>1, <1>2, Machine, Zenon DEF LifecycleIInv, Turns
<1>5. todo[d] # << >> /\ Op(d) # "bump"
  <2>1. Op(d) # None
    BY <1>2, <1>4, ZenonT(30)
  <2>2. Op(d) # "bump"
    BY <1>4, Zenon DEF States
  <2> QED
    BY <2>1, <2>2, Zenon DEF Op, First
<1>6. LifecycleTypes'
  BY <1>1, <1>3 DEF LifecycleIInv, LifecycleTypes, TypeOK
<1>7. CASE d = Passivator
  <2>1. << >> \in ProgramsOf(d) /\ First(<< >>) = None /\ Program(d, << >>)
    BY <1>1, <1>7, RolePrograms DEF PassivationPrograms, First
  <2>2. Op(d)' = None => Knows(d)'
    BY <1>3, Zenon DEF Knows, AfterService, None
  <2>3. ShutdownWaits'
    BY <1>1, Zenon DEF LifecycleIInv, Restarted, ShutdownWaits
  <2>4. None # "Starting"
    BY Zenon DEF None
  <2>5. /\ Programmed' /\ Restarted' /\ Served'
        /\ \A e \in Drivers \ {d} : todo'[e] = todo[e] /\ Op(e)' = Op(e)
    BY <1>1, <1>3, <2>1, <2>2, <2>3, <2>4, ProgramGiven, Zenon
  <2>6. Turns'
    BY <1>1, <1>3, <1>7, <2>5, TurnsOwn, Roles, Zenon
  <2> QED
    BY <1>1, <1>6, <2>5, <2>6, Frames, Zenon DEF LifecycleIInv
<1>8. CASE d # Passivator
  <2>1. Pop(d)
    BY <1>1, <1>8, Zenon DEF Pop
  <2>2. ASSUME commands = 0, Op(d) = "Stopping" PROVE Out
    <3>1. seen[d] \in {"Active", "Draining"}
      BY <1>4, <2>2, Machine, Zenon
    <3>2. Knows(d) /\ (policy = "ImmediateStop" => lc # "Draining")
      BY <2>2, Zenon DEF LifecycleIInv, Served
    <3>3. lc # "Active" \/ seen[d] = "Active"
      BY <1>2, <1>4, <3>2, Zenon DEF Knows
    <3>4. lc # "Draining" \/ seen[d] = "Draining"
      BY <2>2, <3>1, <3>2, Zenon DEF Knows
    <3> QED
      BY <3>1, <3>3, <3>4 DEF Out
  <2>3. commands = 0 => Op(d) # "Passivating"
    BY <1>8, RoleOps, Zenon
  <2>4. /\ Programmed' /\ Restarted' /\ Served' /\ Follows(Op(d), Op(d)')
        /\ \A e \in Drivers \ {d} : todo'[e] = todo[e] /\ Op(e)' = Op(e) /\ seen'[e] = seen[e]
    BY <1>1, <1>3, <1>5, <2>1, <2>2, <2>3, OperationDone, Zenon
  <2>5. Turns'
    BY <1>1, <1>3, <1>5, <2>4, TurnsPopped, Zenon
  <2> QED
    BY <1>1, <1>6, <2>4, <2>5, Frames, Zenon DEF LifecycleIInv
<1> QED
  BY <1>7, <1>8, Zenon

\* The compare-exchange succeeds: nobody takes an actor back into service, and a drain
\* is ended by its worker once it is done, or by its timer.
LEMMA ExchangeSucceeds ==
    ASSUME LifecycleIInv, NEW d \in Drivers, CompareExchange(d), lc = seen[d] PROVE LifecycleIInv'
<1>1. /\ UNCHANGED <<called, armed, handle, commands, incarnation, policy, step, held, mbox, fate>>
      /\ UNCHANGED <<expired, snapshot, phase, deadline, react, claimed, route, exits, downs>>
      /\ seen[d] # None /\ seen' = [seen EXCEPT ![d] = None] /\ lc' = Head(todo[d]) /\ Pop(d)
      /\ early' = IF lc' = "Draining" THEN {m \in Messages : fate[m] \in {"queued", "held"}} ELSE early
  BY Zenon DEF CompareExchange, supervision, worker, drain, shutdown, passivation
<1>2. lc \in States /\ seen \in [Drivers -> States \cup {None}] /\ None \notin States
  BY Zenon DEF LifecycleIInv, LifecycleTypes, TypeOK, States, None
<1>3. /\ seen'[d] = None /\ \A e \in Drivers \ {d} : seen'[e] = seen[e]
      /\ seen' \in [Drivers -> States \cup {None}]
  BY <1>1, <1>2, Zenon
<1>4. Op(d) \in kStateMachine[lc] /\ Op(d) \in States /\ Op(d) # None
  BY <1>1, <1>2, Machine, Zenon DEF LifecycleIInv, Turns
<1>5. todo[d] # << >> /\ lc' = Op(d)
  BY <1>1, <1>4, Zenon DEF Op, First
<1>6. Op(d) \notin {"bump", "drain_all"}
  BY <1>4, Zenon DEF States
<1>7. /\ Programmed' /\ Follows(Op(d), Op(d)')
      /\ \A e \in Drivers \ {d} : todo'[e] = todo[e] /\ Op(e)' = Op(e)
  BY <1>1, <1>5, Popped, ZenonT(30) DEF LifecycleIInv
<1>8. LifecycleTypes'
  BY <1>1, <1>3, <1>4, <1>5 DEF LifecycleIInv, LifecycleTypes, TypeOK
<1>9. Turns'
  BY <1>1, <1>3, <1>5, <1>7, TurnsPopped, Zenon
<1>10. early \subseteq {m \in Messages : fate[m] # "unsent"}
  BY Zenon DEF LifecycleIInv, Mail
<1>11. Mail'
  <2>1. early' \subseteq {m \in Messages : fate'[m] # "unsent"}
    BY <1>1, <1>10, Zenon
  <2> QED
    BY <1>1, <2>1, ZenonT(60) DEF LifecycleIInv, Mail
<1>12. GracefulDrain'
  BY <1>1, Zenon DEF LifecycleIInv, GracefulDrain
<1>13. Restarted'
  <2>1. Op(d)' # "Starting"
    BY <1>6, <1>7, Zenon DEF Follows
  <2>2. lc = "Stopped" => incarnation > 0
    <3>1. lc = "Stopped" => Op(d) = "Starting"
      BY <1>4, Machine, Zenon
    <3> QED
      BY <3>1, Zenon DEF LifecycleIInv, Restarted
  <2>3. ShutdownWaits'
    BY <1>1, <2>2, Zenon DEF LifecycleIInv, Restarted, ShutdownWaits
  <2> QED
    BY <1>1, <1>7, <2>1, <2>3, Zenon DEF LifecycleIInv, Restarted
<1>14. ASSUME commands = 0
       PROVE  /\ Out => Out'
              /\ lc # "Active" => lc' # "Active"
              /\ Op(Worker) \in {"drain_all", "Stopping"} /\ EarlyDone => EarlyDone'
              /\ policy = "ImmediateStop" => lc' # "Draining"
              /\ lc' = "Active" \/ policy = "ImmediateStop" => early' = {}
              /\ Out' => expired' \/ EarlyDone'
              /\ Knows(d)'
  <2>1. lc' # "Active"
    BY <1>5, <1>14, RoleOps, Zenon DEF None
  <2>2. lc' = "Draining" => lc = "Active"
    <3>1. "Draining" \in kStateMachine[lc] => lc = "Active"
      BY <1>2, Machine, Zenon
    <3> QED
      BY <1>4, <1>5, <3>1, Zenon
  <2>3. Out => Out'
    BY <2>1, <2>2, Zenon DEF Out
  <2>4. Knows(d) /\ Knows(Worker)
    BY <1>14, Roles, Zenon DEF LifecycleIInv, Served
  <2>5. lc' # "Draining" => early' = early /\ (EarlyDone => EarlyDone')
    BY <1>1, Zenon DEF EarlyDone
  <2>6. Op(Worker) \in {"drain_all", "Stopping"} /\ EarlyDone => EarlyDone'
    <3>1. Op(Worker) \in {"drain_all", "Stopping"} => lc # "Active"
      BY <2>4, Roles, Zenon DEF Knows
    <3> QED
      BY <2>2, <2>5, <3>1, Zenon
  <2>7. policy = "ImmediateStop" => lc' # "Draining" /\ early' = {}
    BY <1>5, <1>14, <2>4, <2>5, Zenon DEF Knows, LifecycleIInv, Served
  <2>8. ASSUME Out' PROVE expired' \/ EarlyDone'
    <3>1. lc' # "Draining"
      BY <2>8, Zenon DEF Out
    <3>2. CASE Out
      BY <1>1, <1>14, <2>5, <3>1, <3>2, Zenon DEF LifecycleIInv, Served
    <3>3. CASE lc = "Active"
      <4>1. early = {}
        BY <1>14, <3>3, Zenon DEF LifecycleIInv, Served
      <4> QED
        BY <2>5, <3>1, <4>1, Zenon DEF EarlyDone
    <3>4. CASE lc = "Draining"
      <4>1. Op(d) \in {"Stopping", "Failed"} /\ ~Out
        BY <1>4, <3>4, Machine, Zenon DEF Out
      <4>2. Op(d) = "Stopping"
        BY <2>4, <4>1, Zenon DEF Knows, AfterService
      <4>3. d \notin Callers
        BY <1>14, <2>4, <3>4, <4>2, Zenon DEF Knows, LifecycleIInv, Served
      <4>4. EarlyDone \/ expired
        BY <2>4, <4>2, <4>3, Zenon DEF Knows
      <4> QED
        BY <1>1, <2>5, <3>1, <4>4, Zenon
    <3> QED
      BY <3>2, <3>3, <3>4, Zenon DEF Out
  <2>9. Knows(d)'
    <3>1. Op(d)' \notin {"drain_all", "Draining", "Stopping"}
      BY <1>6, <1>7, Zenon DEF Follows
    <3>2. Op(d)' \in AfterService => Op(d) \in AfterService \cup {"Stopping", "Passivating"}
      BY <1>7, Zenon DEF Follows
    <3>3. Op(d) \in {"Stopping", "Passivating"} => Out'
      BY <1>5, Zenon DEF Out
    <3>4. Op(d)' \in AfterService => Out'
      BY <2>3, <2>4, <3>2, <3>3, Zenon DEF Knows
    <3> QED
      BY <1>3, <3>1, <3>4, Zenon DEF Knows
  <2> QED
    BY <2>1, <2>3, <2>6, <2>7, <2>8, <2>9, Zenon
<1>15. Served'
  <2>1. commands = 0 => (exits > 0 \/ downs > 0 => Out)
    BY Zenon DEF LifecycleIInv, Served
  <2>2. \A e \in Drivers \ {d} : Op(e)' = Op(e) /\ seen'[e] = seen[e]
    BY <1>3, <1>7, Zenon
  <2>3. commands = 0 => (exits' > 0 \/ downs' > 0 => Out')
    BY <1>1, <1>14, <2>1, Zenon
  <2> QED
    BY <1>1, <1>14, <2>2, <2>3, ServedStep, Zenon
<1> QED
  BY <1>1, <1>7, <1>8, <1>9, <1>11, <1>12, <1>13, <1>15, Frames, Zenon DEF LifecycleIInv

\* The operations of every driver.
LEMMA OperateStep == ASSUME LifecycleIInv, NEW d \in Drivers, Operate(d) PROVE LifecycleIInv'
  BY LoadStep, ExchangeFails, ExchangeSucceeds, DrainAllStep, OnExitStep, ArmStep, BumpIncarnationStep, Zenon
     DEF Operate

-----------------------------------------------------------------------------
(* What starts a program. *)

\* The operator's commands reach the worker between two messages.
LEMMA OperatorCommandStep == ASSUME LifecycleIInv, OperatorCommand PROVE LifecycleIInv'
<1>1. /\ UNCHANGED <<seen, called, armed, handle, early, incarnation, lc, policy, step, held, mbox, fate>>
      /\ UNCHANGED <<expired, snapshot, phase, deadline, react, claimed, route, exits, downs>>
      /\ step = "idle" /\ todo[Worker] = << >> /\ commands' = commands + 1
      /\ \E p \in {<<"Stopping", "Stopped">>, <<"Quarantined">>, <<"Stopped", "bump", "Starting", "Active">>} :
            Program(Worker, p)
  BY ZenonT(60) DEF OperatorCommand, Rest, supervision, worker, drain, shutdown, passivation
<1>2. commands \in Nat /\ commands' > 0 /\ commands' \in Nat
  <2>1. commands \in Nat /\ commands' = commands + 1
    BY <1>1, Zenon DEF LifecycleIInv, LifecycleTypes
  <2> QED
    BY <2>1
<1>3. PICK p \in {<<"Stopping", "Stopped">>, <<"Quarantined">>, <<"Stopped", "bump", "Starting", "Active">>} :
            Program(Worker, p)
  BY <1>1, Zenon
<1>4. p \in CommandPrograms /\ p \in Programs
  BY Zenon DEF CommandPrograms, Programs
<1>5. Worker \in Drivers /\ seen[Worker] = None
  BY <1>1, SeenIdle, Roles, Zenon
<1>6. /\ todo' \in [Drivers -> Programs] /\ todo'[Worker] = p
      /\ \A e \in Drivers \ {Worker} : todo'[e] = todo[e]
  BY <1>3, <1>4, <1>5, Zenon DEF LifecycleIInv, Programmed, Program
<1>7. \A e \in Drivers \ {Worker} : Op(e)' = Op(e)
  BY <1>6, Zenon DEF Op
<1>8. Programmed'
  <2>1. ASSUME NEW e \in Drivers, e # Worker PROVE ProgramsOf(e)' = ProgramsOf(e)
    BY <2>1, Roles, Zenon DEF ProgramsOf
  <2>2. p \in ProgramsOf(Worker)'
    <3>1. ProgramsOf(Worker)' = IF commands' = 0 THEN StopPrograms ELSE StopPrograms \cup CommandPrograms
      BY Roles, Zenon DEF ProgramsOf
    <3>2. commands' # 0
      BY <1>2
    <3> QED
      BY <1>4, <3>1, <3>2, Zenon
  <2>3. ASSUME NEW e \in Drivers PROVE todo'[e] \in ProgramsOf(e)'
    <3>1. CASE e = Worker
      BY <1>6, <2>2, <3>1, Zenon
    <3>2. CASE e # Worker
      <4>1. todo[e] \in ProgramsOf(e)
        BY Zenon DEF LifecycleIInv, Programmed
      <4> QED
        BY <1>6, <2>1, <3>2, <4>1, Zenon
    <3> QED
      BY <3>1, <3>2, Zenon
  <2> QED
    BY <1>6, <2>3, Zenon DEF Programmed
<1>9. Turns'
  BY <1>1, <1>5, <1>6, <1>7, TurnsOwn, Zenon
<1>10. Op(Worker)' # "Starting"
  <2>1. CASE p = <<"Stopping", "Stopped">>
    BY <1>6, <2>1 DEF Op, First
  <2>2. CASE p = <<"Quarantined">>
    BY <1>6, <2>2 DEF Op, First
  <2>3. CASE p = <<"Stopped", "bump", "Starting", "Active">>
    BY <1>6, <2>3 DEF Op, First
  <2> QED
    BY <2>1, <2>2, <2>3, Zenon
<1>11. Restarted'
  BY <1>1, <1>7, <1>10, Zenon DEF LifecycleIInv, Restarted, ShutdownWaits
<1>12. Served'
  BY <1>2 DEF Served
<1>13. GracefulDrain'
  BY <1>2, ZenonT(60) DEF GracefulDrain
<1>14. LifecycleTypes'
  BY <1>1, <1>2 DEF LifecycleIInv, LifecycleTypes, TypeOK
<1> QED
  BY <1>1, <1>8, <1>9, <1>11, <1>12, <1>13, <1>14, Frames, ZenonT(60) DEF LifecycleIInv

\* A supervisor restarts an actor that has exited.
LEMMA RestartChildStep == ASSUME LifecycleIInv, RestartChild PROVE LifecycleIInv'
<1>1. /\ UNCHANGED <<seen, called, armed, handle, early, incarnation, lc, policy, step, held, mbox, fate>>
      /\ UNCHANGED <<expired, snapshot, phase, deadline, react, claimed, route, exits, commands>>
      /\ downs > 0 /\ downs' = downs - 1 /\ todo[Supervisor] = << >>
      /\ Program(Supervisor, <<"Failed", "bump", "Starting">>) \/ todo' = todo
  BY ZenonT(60) DEF RestartChild, Rest, worker, drain, shutdown, passivation
<1>2. downs' \in Nat
  BY <1>1, SMTT(60), Zenon DEF LifecycleIInv, LifecycleTypes
<1>3. LifecycleTypes'
  BY <1>1, <1>2 DEF LifecycleIInv, LifecycleTypes, TypeOK
<1>4. Supervisor \in Drivers /\ Supervisor \notin Callers /\ seen[Supervisor] = None
  BY <1>1, SeenIdle, Roles, Zenon
<1>5. CASE todo' = todo
  <2>1. Served'
    <3>1. EarlyDone => EarlyDone'
      BY <1>1, Zenon DEF EarlyDone
    <3>2. \A e \in Drivers : Op(e)' = Op(e) /\ seen'[e] = seen[e]
      BY <1>1, <1>5, Zenon DEF Op
    <3>3. ASSUME commands = 0 PROVE Knows(Supervisor)'
      <4>1. Knows(Supervisor)
        BY <1>4, <3>3, Zenon DEF LifecycleIInv, Served
      <4> QED
        BY <1>1, <1>4, <3>1, <3>2, <4>1, Zenon DEF Knows, Out
    <3> QED
      BY <1>1, <1>4, <3>1, <3>2, <3>3, ServedTurn, Zenon
  <2> QED
    BY <1>1, <1>3, <1>5, <2>1, Frames, Zenon DEF LifecycleIInv
<1>6. CASE Program(Supervisor, <<"Failed", "bump", "Starting">>)
  <2>1. /\ <<"Failed", "bump", "Starting">> \in ProgramsOf(Supervisor)
        /\ First(<<"Failed", "bump", "Starting">>) = "Failed"
    BY RolePrograms DEF RestartPrograms, First
  <2>2. commands = 0 => Out
    BY <1>1, Zenon DEF LifecycleIInv, Served
  <2>3. commands = 0 /\ Op(Supervisor)' = "Failed" => Knows(Supervisor)'
    BY <1>1, <1>4, <2>2, Zenon DEF Knows, Out, None
  <2>4. ShutdownWaits'
    BY <1>1, Zenon DEF LifecycleIInv, Restarted, ShutdownWaits
  <2>5. /\ Programmed' /\ Restarted' /\ Served' /\ Op(Supervisor)' = "Failed"
        /\ \A e \in Drivers \ {Supervisor} : todo'[e] = todo[e] /\ Op(e)' = Op(e)
    BY <1>1, <1>4, <1>6, <2>1, <2>3, <2>4, ProgramGiven, Zenon
  <2>6. Turns'
    BY <1>1, <1>4, <2>5, TurnsOwn, Roles, Zenon
  <2> QED
    BY <1>1, <1>3, <2>5, <2>6, Frames, Zenon DEF LifecycleIInv
<1> QED
  BY <1>1, <1>5, <1>6, Zenon

\* begin_passivation starts with an active actor.
LEMMA BeginPassivationStep == ASSUME LifecycleIInv, BeginPassivation PROVE LifecycleIInv'
<1>1. /\ UNCHANGED <<seen, called, armed, handle, early, incarnation, lc, policy, step, held, mbox, fate>>
      /\ UNCHANGED <<expired, snapshot, phase, deadline, react, claimed, route, exits, commands, downs>>
      /\ todo[Passivator] = << >>
      /\ Program(Passivator, <<"Passivating", "depth", "snapshot", "Passivated", "route">>)
  BY ZenonT(30) DEF BeginPassivation, Rest, worker, drain, shutdown, passivation, supervision
<1>2. LifecycleTypes'
  BY <1>1 DEF LifecycleIInv, LifecycleTypes, TypeOK
<1>3. Passivator \in Drivers /\ seen[Passivator] = None
  BY <1>1, SeenIdle, Roles, Zenon
<1>4. /\ <<"Passivating", "depth", "snapshot", "Passivated", "route">> \in ProgramsOf(Passivator)
      /\ First(<<"Passivating", "depth", "snapshot", "Passivated", "route">>) = "Passivating"
  BY RolePrograms DEF PassivationPrograms, First
<1>5. Op(Passivator)' = "Passivating" => Knows(Passivator)'
  BY <1>1, <1>3, Zenon DEF Knows, AfterService, None
<1>6. ShutdownWaits'
  BY <1>1, Zenon DEF LifecycleIInv, Restarted, ShutdownWaits
<1>7. /\ Programmed' /\ Restarted' /\ Served'
      /\ \A e \in Drivers \ {Passivator} : todo'[e] = todo[e] /\ Op(e)' = Op(e)
  BY <1>1, <1>3, <1>4, <1>5, <1>6, ProgramGiven, Zenon
<1>8. Turns'
  BY <1>1, <1>3, <1>7, TurnsOwn, Roles, Zenon
<1> QED
  BY <1>1, <1>2, <1>7, <1>8, Frames, Zenon DEF LifecycleIInv

\* The programs that the stops begin with.
LEMMA StopProgram ==
    /\ StopNow \in StopPrograms /\ First(StopNow) = "drain_all"
    /\ <<"Draining", "arm">> \in DrainPrograms /\ First(<<"Draining", "arm">>) = "Draining"
    /\ <<"arm">> \in DrainPrograms /\ First(<<"arm">>) = "arm"
    /\ << >> \in StopPrograms /\ First(<< >>) = None
<1>1. StopNow = <<"drain_all", "Stopping", "Stopped", "exit">>
  BY Zenon DEF StopNow
<1>2. First(<<"drain_all", "Stopping", "Stopped", "exit">>) = "drain_all"
  BY DEF First
<1>3. First(<<"Draining", "arm">>) = "Draining" /\ First(<<"arm">>) = "arm" /\ First(<< >>) = None
  BY DEF First
<1>4. StopNow \in StopPrograms /\ << >> \in StopPrograms
  BY <1>1, Zenon DEF StopPrograms
<1>5. <<"Draining", "arm">> \in DrainPrograms /\ <<"arm">> \in DrainPrograms
  BY Zenon DEF DrainPrograms
<1> QED
  BY <1>1, <1>2, <1>3, <1>4, <1>5, Zenon

\* A caller begins to stop the actor, with its timer idle.
LEMMA CallerBegins ==
    ASSUME LifecycleIInv, NEW c \in Callers, NEW p, Program(c, p), todo[c] = << >>,
           \/ policy = "ImmediateStop" /\ p = StopNow
           \/ policy # "ImmediateStop" /\ p = <<"Draining", "arm">>
           \/ p \in {<<"arm">>, << >>},
           todo[Timer(c)] = << >>, Timer(c) \notin armed,
           UNCHANGED <<seen, armed, handle, early, incarnation, lc, policy, step, held, mbox, fate>>,
           UNCHANGED <<expired, snapshot, deadline, react, claimed, route, exits, commands, downs>>,
           called \subseteq called', c \in Stoppers => c \in called',
           phase' = phase \/ phase' = "DrainingActors", phase' = "Running" => c # Coordinator
    PROVE  LifecycleIInv'
<1>1. c \in Drivers /\ Timer(c) \in Drivers /\ Timer(c) # c /\ seen[c] = None
  BY SeenIdle, Roles, Zenon
<1>2. /\ p \in ProgramsOf(c) /\ First(p) \in {"drain_all", "Draining", "arm", None}
      /\ First(p) = "drain_all" => policy = "ImmediateStop"
      /\ First(p) = "Draining" => policy # "ImmediateStop"
  <2>1. ProgramsOf(c) = StopPrograms \cup DrainPrograms
    BY RolePrograms, Zenon
  <2>2. CASE policy = "ImmediateStop" /\ p = StopNow
    BY <2>1, <2>2, StopProgram, Zenon
  <2>3. CASE policy # "ImmediateStop" /\ p = <<"Draining", "arm">>
    BY <2>1, <2>3, StopProgram, Zenon
  <2>4. CASE p = <<"arm">>
    BY <2>1, <2>4, StopProgram, Zenon
  <2>5. CASE p = << >>
    BY <2>1, <2>5, StopProgram, ZenonT(30) DEF None
  <2> QED
    BY <2>2, <2>3, <2>4, <2>5, Zenon
<1>3. First(p) # "Starting" /\ First(p) \notin AfterService /\ First(p) # "Stopping"
  BY <1>2, Zenon DEF None, AfterService
<1>4. Op(c)' = First(p) => Knows(c)'
  BY <1>1, <1>2, <1>3, ZenonT(30) DEF Knows
<1>5. ShutdownWaits'
  BY ZenonT(30) DEF LifecycleIInv, Restarted, ShutdownWaits
<1>6. /\ Programmed' /\ Restarted' /\ Served'
      /\ \A e \in Drivers \ {c} : todo'[e] = todo[e] /\ Op(e)' = Op(e)
  BY <1>1, <1>2, <1>3, <1>4, <1>5, ProgramGiven, Zenon
<1>7. Turns'
  <2>1. \A e \in Drivers : seen'[e] # None => Op(e)' \in kStateMachine[seen'[e]]
    BY <1>1, <1>6, Zenon DEF LifecycleIInv, Turns
  <2>2. \A d \in Callers : Timer(d) # c /\ Timer(d) \in Drivers /\ todo'[Timer(d)] = todo[Timer(d)]
    BY <1>6, Roles, Zenon
  <2>3. step' # "idle" => todo'[Worker] = << >>
    BY <1>6, Roles, Zenon DEF LifecycleIInv, Turns
  <2>4. \A s \in Stoppers \ called' : todo'[s] = << >> /\ todo'[Timer(s)] = << >> /\ Timer(s) \notin armed'
    <3>1. \A s \in Stoppers \ called' : s \in Stoppers \ called /\ s # c /\ s \in Callers /\ s \in Drivers
      BY Roles, Zenon
    <3> QED
      BY <1>6, <2>2, <3>1, Zenon DEF LifecycleIInv, Turns
  <2>5. phase' = "Running" => /\ todo'[Coordinator] = << >> /\ todo'[Timer(Coordinator)] = << >>
                              /\ Timer(Coordinator) \notin armed'
    <3>1. phase' = "Running" => phase = "Running"
      BY ZenonT(30)
    <3> QED
      BY <1>6, <2>2, <3>1, Roles, ZenonT(30) DEF LifecycleIInv, Turns
  <2>6. \A d \in Callers : Op(d)' \in {"Draining", "arm"} => todo'[Timer(d)] = << >> /\ Timer(d) \notin armed'
    <3>1. \A d \in Callers : d # c => Op(d)' = Op(d)
      BY <1>6, Roles, Zenon
    <3> QED
      BY <2>2, <3>1, Zenon DEF LifecycleIInv, Turns
  <2>7. \A t \in armed' : todo'[t] = << >>
    <3>1. armed \subseteq Timers /\ c \notin Timers /\ Timers \subseteq Drivers
      BY Roles, Zenon DEF LifecycleIInv, LifecycleTypes, TypeOK
    <3>2. \A t \in armed : todo[t] = << >>
      BY ZenonT(30) DEF LifecycleIInv, Turns
    <3> QED
      BY <1>6, <3>1, <3>2, Zenon
  <2> QED
    BY <2>1, <2>3, <2>4, <2>5, <2>6, <2>7, Zenon DEF Turns
<1>8. LifecycleTypes'
  BY DEF LifecycleIInv, LifecycleTypes, TypeOK
<1>9. Mail' /\ OneClaim' /\ GracefulDrain'
  BY Frames, Zenon
<1> QED
  BY <1>6, <1>7, <1>8, <1>9, Zenon DEF LifecycleIInv

\* ActorContext::stop.
LEMMA StopStep == ASSUME LifecycleIInv, NEW s \in Stoppers, Stop(s) PROVE LifecycleIInv'
<1>1. /\ UNCHANGED <<seen, armed, handle, early, incarnation, lc, policy, step, held, mbox, fate>>
      /\ UNCHANGED <<expired, snapshot, deadline, react, claimed, route, exits, commands, downs, phase>>
      /\ s \notin called /\ called' = called \cup {s}
      /\ Program(s, IF policy = "ImmediateStop" THEN StopNow ELSE <<"Draining", "arm">>)
  BY Zenon DEF Stop, worker, drain, shutdown, passivation, supervision
<1>2. s \in Callers /\ s # Coordinator /\ todo[s] = << >> /\ todo[Timer(s)] = << >> /\ Timer(s) \notin armed
  BY <1>1, Roles, Zenon DEF LifecycleIInv, Turns
<1>3. called \subseteq called' /\ s \in called'
  BY <1>1, Zenon
<1>4. CASE policy = "ImmediateStop"
  <2>1. Program(s, StopNow)
    BY <1>1, <1>4, Zenon
  <2> QED
    BY <1>1, <1>2, <1>3, <1>4, <2>1, CallerBegins, Zenon
<1>5. CASE policy # "ImmediateStop"
  <2>1. Program(s, <<"Draining", "arm">>)
    BY <1>1, <1>5, Zenon
  <2> QED
    BY <1>1, <1>2, <1>3, <1>5, <2>1, CallerBegins, Zenon
<1> QED
  BY <1>4, <1>5, Zenon

\* ShutdownCoordinator::initiate_actor_drain.
LEMMA InitiateActorDrainStep == ASSUME LifecycleIInv, InitiateActorDrain PROVE LifecycleIInv'
<1>1. /\ UNCHANGED <<seen, armed, handle, early, incarnation, lc, policy, step, held, mbox, fate>>
      /\ UNCHANGED <<expired, snapshot, deadline, react, claimed, route, exits, commands, downs, called>>
      /\ phase = "Running" /\ phase' = "DrainingActors"
  BY Zenon DEF InitiateActorDrain, worker, drain, shutdown, passivation, supervision
<1>2. \E p : /\ Program(Coordinator, p)
             /\ \/ policy = "ImmediateStop" /\ p = StopNow
                \/ policy # "ImmediateStop" /\ p = <<"Draining", "arm">>
                \/ p \in {<<"arm">>, << >>}
  BY Zenon DEF InitiateActorDrain
<1>3. PICK p : /\ Program(Coordinator, p)
               /\ \/ policy = "ImmediateStop" /\ p = StopNow
                  \/ policy # "ImmediateStop" /\ p = <<"Draining", "arm">>
                  \/ p \in {<<"arm">>, << >>}
  BY <1>2, Zenon
<1>4. /\ Coordinator \in Callers /\ Coordinator \notin Stoppers
      /\ todo[Coordinator] = << >> /\ todo[Timer(Coordinator)] = << >> /\ Timer(Coordinator) \notin armed
  BY <1>1, Roles, Zenon DEF LifecycleIInv, Turns
<1>5. called \subseteq called' /\ phase' # "Running"
  BY <1>1, Zenon
<1> QED
  BY <1>1, <1>3, <1>4, <1>5, CallerBegins, Zenon

\* The drain timer's callback.
LEMMA TimerFiresStep == ASSUME LifecycleIInv, NEW c \in Callers, TimerFires(c) PROVE LifecycleIInv'
<1>1. /\ UNCHANGED <<seen, handle, early, incarnation, lc, policy, step, held, mbox, fate>>
      /\ UNCHANGED <<snapshot, deadline, react, claimed, route, exits, commands, downs, phase, called>>
      /\ Timer(c) \in armed /\ armed' = armed \ {Timer(c)}
      /\ \/ lc = "Draining" /\ Program(Timer(c), StopNow) /\ expired' = TRUE
         \/ UNCHANGED <<todo, expired>>
  BY Zenon DEF TimerFires, worker, shutdown, passivation, supervision
<1>2. /\ Timer(c) \in Drivers /\ Timer(c) \in Timers /\ Timer(c) \notin Callers
      /\ Timer(c) \notin {Worker, Passivator, Supervisor}
      /\ todo[Timer(c)] = << >> /\ seen[Timer(c)] = None
  BY <1>1, SeenIdle, Roles, ZenonT(30) DEF LifecycleIInv, Turns
<1>3. LifecycleTypes'
  <2>1. expired' \in BOOLEAN
    BY <1>1, Zenon DEF LifecycleIInv, LifecycleTypes
  <2> QED
    BY <1>1, <2>1 DEF LifecycleIInv, LifecycleTypes, TypeOK
<1>4. /\ Programmed' /\ Restarted' /\ Served'
      /\ \A e \in Drivers \ {Timer(c)} : todo'[e] = todo[e] /\ Op(e)' = Op(e)
  <2>1. CASE lc = "Draining" /\ Program(Timer(c), StopNow) /\ expired' = TRUE
    <3>1. StopNow \in ProgramsOf(Timer(c)) /\ First(StopNow) = "drain_all"
      BY <1>2, RolePrograms, StopProgram, Zenon
    <3>2. Op(Timer(c))' = "drain_all" => Knows(Timer(c))'
      BY <1>1, <1>2, <2>1, Zenon DEF Knows, AfterService, None
    <3>3. ShutdownWaits'
      BY <1>1, Zenon DEF LifecycleIInv, Restarted, ShutdownWaits
    <3> QED
      BY <1>1, <1>2, <2>1, <3>1, <3>2, <3>3, ProgramGiven, Zenon
  <2>2. CASE UNCHANGED <<todo, expired>>
    BY <1>1, <2>2, Frames, Zenon DEF Op
  <2> QED
    BY <1>1, <2>1, <2>2, Zenon
<1>5. Turns'
  <2>1. \A e \in Drivers : seen'[e] # None => Op(e)' \in kStateMachine[seen'[e]]
    BY <1>1, <1>2, <1>4, Zenon DEF LifecycleIInv, Turns
  <2>2. step' # "idle" => todo'[Worker] = << >>
    BY <1>1, <1>2, <1>4, Roles, Zenon DEF LifecycleIInv, Turns
  <2>3. \A d \in Callers : /\ d \in Drivers /\ d # Timer(c) /\ Timer(d) \in Drivers
                           /\ (Timer(d) \notin armed => Timer(d) # Timer(c) /\ Timer(d) \notin armed')
    BY <1>1, <1>2, Roles, Zenon
  <2>4. \A s \in Stoppers \ called' : todo'[s] = << >> /\ todo'[Timer(s)] = << >> /\ Timer(s) \notin armed'
    BY <1>1, <1>4, <2>3, Roles, Zenon DEF LifecycleIInv, Turns
  <2>5. phase' = "Running" => /\ todo'[Coordinator] = << >> /\ todo'[Timer(Coordinator)] = << >>
                              /\ Timer(Coordinator) \notin armed'
    BY <1>1, <1>4, <2>3, Roles, Zenon DEF LifecycleIInv, Turns
  <2>6. \A d \in Callers : Op(d)' \in {"Draining", "arm"} => todo'[Timer(d)] = << >> /\ Timer(d) \notin armed'
    BY <1>1, <1>4, <2>3, Zenon DEF LifecycleIInv, Turns
  <2>7. \A t \in armed' : todo'[t] = << >>
    <3>1. \A t \in armed : t \in Drivers /\ todo[t] = << >>
      BY Roles, Zenon DEF LifecycleIInv, LifecycleTypes, TypeOK, Turns
    <3> QED
      BY <1>1, <1>4, <3>1, Zenon
  <2> QED
    BY <2>1, <2>2, <2>4, <2>5, <2>6, <2>7, Zenon DEF Turns
<1>6. GracefulDrain'
  <2>1. expired => expired'
    BY <1>1, Zenon
  <2> QED
    BY <1>1, <2>1, Zenon DEF LifecycleIInv, GracefulDrain
<1> QED
  BY <1>1, <1>3, <1>4, <1>5, <1>6, Frames, Zenon DEF LifecycleIInv

-----------------------------------------------------------------------------
(* The passivator. *)

\* A passivation goes on, or goes back by kFailed, with the actor out of service.
LEMMA PassivatorGoesOn ==
    ASSUME LifecycleIInv, NEW op \in {"depth", "snapshot", "route"}, AtOp(Passivator, op),
           Pop(Passivator) \/ (op # "route" /\ Program(Passivator, <<"Failed">>)),
           UNCHANGED <<seen, called, armed, handle, early, incarnation, lc, policy, step, held, mbox, fate>>,
           UNCHANGED <<expired, phase, deadline, react, claimed, exits, commands, downs>>,
           snapshot' \in BOOLEAN, route' \in States \cup {None}
    PROVE  LifecycleIInv'
<1>1. Passivator \in Drivers /\ op \notin States
  BY Roles, Zenon DEF States
<1>2. todo[Passivator] # << >> /\ Op(Passivator) = op /\ seen[Passivator] = None
  BY <1>1, AtOperation, Zenon
<1>3. op \in AfterService /\ op \notin {"bump", "Stopping", "Passivating"}
  BY DEF AfterService
<1>4. LifecycleTypes'
  BY DEF LifecycleIInv, LifecycleTypes, TypeOK
<1>5. /\ Programmed' /\ Restarted' /\ Served'
      /\ \A e \in Drivers \ {Passivator} : todo'[e] = todo[e] /\ Op(e)' = Op(e)
  <2>1. CASE Pop(Passivator)
    <3>1. seen'[Passivator] = None /\ \A e \in Drivers \ {Passivator} : seen'[e] = seen[e]
      BY <1>2, Zenon
    <3> QED
      BY <1>1, <1>2, <1>3, <2>1, <3>1, OperationDone, Zenon
  <2>2. CASE Program(Passivator, <<"Failed">>)
    <3>1. <<"Failed">> \in ProgramsOf(Passivator) /\ First(<<"Failed">>) = "Failed"
      BY RolePrograms DEF PassivationPrograms, First
    <3>2. commands = 0 => Out'
      BY <1>1, <1>2, <1>3, Zenon DEF LifecycleIInv, Served, Knows, Out
    <3>3. commands = 0 /\ Op(Passivator)' = "Failed" => Knows(Passivator)'
      BY <1>2, <3>2, Zenon DEF Knows, None
    <3>4. ShutdownWaits'
      BY Zenon DEF LifecycleIInv, Restarted, ShutdownWaits
    <3> QED
      BY <1>1, <2>2, <3>1, <3>3, <3>4, ProgramGiven, ZenonT(30)
  <2> QED
    BY <2>1, <2>2, Zenon
<1>6. Turns'
  BY <1>2, <1>5, TurnsOwn, Roles, Zenon
<1>7. Mail' /\ OneClaim' /\ GracefulDrain'
  BY Frames, Zenon
<1> QED
  BY <1>4, <1>5, <1>6, <1>7, ZenonT(30) DEF LifecycleIInv

\* drain_actor, write_snapshot and the route that the caller builds.
LEMMA PassivatorActs == ASSUME LifecycleIInv, PassivatorStep PROVE LifecycleIInv'
<1>1. snapshot \in BOOLEAN /\ route \in States \cup {None} /\ "Passivated" \in States
  BY Zenon DEF LifecycleIInv, LifecycleTypes, TypeOK, States
<1>2. CASE DrainActor
  <2>1. /\ AtOp(Passivator, "depth") /\ (Pop(Passivator) \/ Program(Passivator, <<"Failed">>))
        /\ UNCHANGED <<seen, called, armed, handle, early, incarnation, lc, policy, step, held, mbox, fate>>
        /\ UNCHANGED <<expired, phase, deadline, react, claimed, exits, commands, downs, snapshot, route>>
    BY <1>2, Zenon DEF DrainActor, worker, drain, shutdown, passivation, supervision
  <2> QED
    BY <1>1, <2>1, PassivatorGoesOn, Zenon
<1>3. CASE WriteSnapshot
  <2>1. /\ AtOp(Passivator, "snapshot") /\ (Pop(Passivator) \/ Program(Passivator, <<"Failed">>))
        /\ UNCHANGED <<seen, called, armed, handle, early, incarnation, lc, policy, step, held, mbox, fate>>
        /\ UNCHANGED <<expired, phase, deadline, react, claimed, exits, commands, downs, route>>
        /\ snapshot' \in BOOLEAN
    BY <1>1, <1>3, Zenon DEF WriteSnapshot, worker, drain, shutdown, supervision
  <2> QED
    BY <1>1, <2>1, PassivatorGoesOn, Zenon
<1>4. CASE PublishRoute
  <2>1. /\ AtOp(Passivator, "route") /\ Pop(Passivator)
        /\ UNCHANGED <<seen, called, armed, handle, early, incarnation, lc, policy, step, held, mbox, fate>>
        /\ UNCHANGED <<expired, phase, deadline, react, claimed, exits, commands, downs, snapshot>>
        /\ route' = "Passivated"
    BY <1>4, Zenon DEF PublishRoute, worker, drain, shutdown, supervision
  <2> QED
    BY <1>1, <2>1, PassivatorGoesOn, Zenon
<1> QED
  BY <1>2, <1>3, <1>4, Zenon DEF PassivatorStep

-----------------------------------------------------------------------------
(* The theorems. *)

\* A spawned actor is active and nobody drives it yet.
LEMMA LifecycleInitial == ASSUME Init PROVE LifecycleIInv
<1> USE DEF Init
<1>1. LifecycleTypes
  <2>1. policy \in Policies \cup {"Drain"} /\ incarnation \in Nat /\ exits \in Nat /\ downs \in Nat /\ commands \in Nat
    BY LifecycleAssumption, Zenon
  <2>2. lc \in States /\ seen \in [Drivers -> States \cup {None}]
    BY SMT DEF States
  <2> QED
    BY <2>1, <2>2, Zenon DEF LifecycleTypes, TypeOK
<1>2. \A d \in Drivers : todo[d] = << >> /\ seen[d] = None /\ Op(d) = None
  BY Zenon DEF Op, First
<1>3. Programmed
  <2>1. ASSUME NEW d \in Drivers PROVE << >> \in ProgramsOf(d)
    <3>1. << >> \in StopPrograms /\ << >> \in RestartPrograms /\ << >> \in PassivationPrograms
      BY Zenon DEF StopPrograms, RestartPrograms, PassivationPrograms
    <3> QED
      BY <3>1, Roles, RolePrograms, ZenonT(60)
  <2>2. << >> \in Programs
    BY Zenon DEF Programs, StopPrograms
  <2>3. todo \in [Drivers -> Programs]
    BY <2>2
  <2> QED
    BY <1>2, <2>1, <2>3, Zenon DEF Programmed
<1>4. Turns
  <2>1. \A c \in Callers : c \in Drivers /\ Timer(c) \in Drivers
    BY Roles, Zenon
  <2> QED
    BY <1>2, <2>1, Roles, Zenon DEF Turns
<1>5. Mail
  BY LifecycleAssumption DEF Mail
<1>6. Restarted
  <2>1. \A d \in Drivers : Op(d) # "Starting"
    BY <1>2, Zenon DEF None
  <2> QED
    BY <2>1, Zenon DEF Restarted, ShutdownWaits
<1>7. Served
  <2>1. \A d \in Drivers : Knows(d)
    BY <1>2, Zenon DEF Knows, AfterService, None
  <2>2. EarlyDone
    BY Zenon DEF EarlyDone
  <2>3. ~(exits > 0 \/ downs > 0) /\ lc # "Draining"
    OBVIOUS
  <2> QED
    BY <2>1, <2>2, <2>3, Zenon DEF Served
<1>8. OneClaim
  BY Zenon DEF OneClaim, OneReactivator
<1>9. GracefulDrain
  BY Zenon DEF GracefulDrain
<1> QED
  BY <1>1, <1>3, <1>4, <1>5, <1>6, <1>7, <1>8, <1>9, ZenonT(30) DEF LifecycleIInv

\* Every step keeps the inductive invariant.
LEMMA LifecycleNext == ASSUME LifecycleIInv, [Next]_vars PROVE LifecycleIInv'
<1>1. CASE Next
  <2>1. CASE \E m \in Messages : Arrive(m)
    BY <2>1, ArriveStep, Zenon
  <2>2. CASE \E d \in Drivers : Operate(d)
    BY <2>2, OperateStep, Zenon
  <2>3. CASE WorkerStep
    BY <2>3, ReceiveStep, DrainGateStep, LifecycleGateStep, HandleStep, Zenon DEF WorkerStep
  <2>4. CASE OperatorCommand
    BY <2>4, OperatorCommandStep, Zenon
  <2>5. CASE \E s \in Stoppers : Stop(s)
    BY <2>5, StopStep, Zenon
  <2>6. CASE \E c \in Callers : TimerFires(c)
    BY <2>6, TimerFiresStep, Zenon
  <2>7. CASE InitiateActorDrain
    BY <2>7, InitiateActorDrainStep, Zenon
  <2>8. CASE DeadlinePasses \/ CoordinatorStep
    BY <2>8, ShutdownStep, Zenon DEF CoordinatorStep
  <2>9. CASE RestartChild
    BY <2>9, RestartChildStep, Zenon
  <2>10. CASE BeginPassivation
    BY <2>10, BeginPassivationStep, Zenon
  <2>11. CASE PassivatorStep
    BY <2>11, PassivatorActs, Zenon
  <2>12. CASE \E r \in Reactivators : CheckRoute(r) \/ Reactivate(r)
    BY <2>12, ReactivateStep, Zenon
  <2> QED
    BY <1>1, <2>1, <2>2, <2>3, <2>4, <2>5, <2>6, <2>7, <2>8, <2>9, <2>10, <2>11, <2>12, ZenonT(30) DEF Next
<1>2. CASE UNCHANGED vars
  <2>1. /\ UNCHANGED <<seen, todo, called, armed, handle, early, incarnation, lc, policy, step, held, mbox, fate>>
        /\ UNCHANGED <<expired, phase, deadline, react, claimed, exits, commands, downs, snapshot, route>>
    BY <1>2, ZenonT(30) DEF vars, worker, threads, drain, supervision, shutdown, passivation
  <2>2. LifecycleTypes'
    BY <2>1 DEF LifecycleIInv, LifecycleTypes, TypeOK
  <2> QED
    BY <2>1, <2>2, Frames, Zenon DEF LifecycleIInv
<1> QED
  BY <1>1, <1>2, Zenon

\* The programs of the drivers, the mailbox and what each driver knows of the actor's
\* state stay consistent, whoever acts together.
THEOREM LifecycleInvariant == Spec => []LifecycleIInv
<1>1. Init => LifecycleIInv
  BY LifecycleInitial
<1>2. LifecycleIInv /\ [Next]_vars => LifecycleIInv'
  BY LifecycleNext, Zenon
<1> QED
  BY <1>1, <1>2, PTL DEF Spec

\* A graceful drain loses nothing, an actor that has exited does not serve, a shutdown
\* waits for its actor, and one caller reactivates: for any number of messages,
\* stoppers and reactivators, under every policy.
THEOREM LifecycleIsSafe == Spec => []LifecycleInv
<1>1. LifecycleIInv => LifecycleInv
  <2> SUFFICES ASSUME LifecycleIInv PROVE LifecycleInv
    OBVIOUS
  <2>1. DownMeansDown
    BY Zenon DEF LifecycleIInv, Served, Out, DownMeansDown
  <2> QED
    BY <2>1, Zenon DEF LifecycleIInv, LifecycleTypes, Restarted, OneClaim, LifecycleInv
<1> QED
  BY <1>1, LifecycleInvariant, PTL

\* A transition of the lifecycle is one of kStateMachine's, whatever the races between
\* its drivers: a compare-exchange that succeeds finds the state that was looked up.
THEOREM TransitionsAreLegal == Spec => LegalTransitions
<1>1. LifecycleIInv /\ [Next]_vars => [lc' # lc => lc' \in kStateMachine[lc]]_vars
  <2> SUFFICES ASSUME LifecycleIInv, Next, lc' # lc PROVE lc' \in kStateMachine[lc]
    BY Zenon DEF vars
  <2>1. ASSUME NEW d \in Drivers, CompareExchange(d) PROVE lc' \in kStateMachine[lc]
    <3>1. lc = seen[d] /\ seen[d] # None /\ lc' = Head(todo[d])
      BY <2>1, Zenon DEF CompareExchange
    <3>2. Op(d) \in kStateMachine[lc] /\ Op(d) # None
      <4>1. lc \in States /\ None \notin States
        BY Zenon DEF LifecycleIInv, LifecycleTypes, TypeOK, States, None
      <4> QED
        BY <3>1, <4>1, Machine, ZenonT(60) DEF LifecycleIInv, Turns
    <3> QED
      BY <3>1, <3>2, Zenon DEF Op, First
  <2>2. \E d \in Drivers : CompareExchange(d)
    <3>1. CASE \E d \in Drivers : Operate(d)
      BY <3>1, Zenon DEF Operate, Load, DrainAll, OnExit, Arm, BumpIncarnation
    <3>2. CASE WorkerStep \/ OperatorCommand
      BY <3>2, Zenon DEF WorkerStep, Receive, DrainGate, LifecycleGate, Handle, Handled, OperatorCommand
    <3>3. CASE (\E s \in Stoppers : Stop(s)) \/ (\E c \in Callers : TimerFires(c)) \/ (\E m \in Messages : Arrive(m))
      BY <3>3, Zenon DEF Stop, TimerFires, Arrive
    <3>4. CASE InitiateActorDrain \/ DeadlinePasses \/ CoordinatorStep \/ RestartChild
      BY <3>4, Zenon DEF InitiateActorDrain, DeadlinePasses, CoordinatorStep, PollDrainComplete, FinishShutdown,
                         RestartChild
    <3>5. CASE BeginPassivation \/ PassivatorStep
      BY <3>5, Zenon DEF BeginPassivation, PassivatorStep, DrainActor, WriteSnapshot, PublishRoute
    <3>6. CASE \E r \in Reactivators : CheckRoute(r) \/ Reactivate(r)
      BY <3>6, Zenon DEF CheckRoute, Reactivate, Claim, Restore, Release
    <3> QED
      BY <3>1, <3>2, <3>3, <3>4, <3>5, <3>6, Zenon DEF Next
  <2> QED
    BY <2>1, <2>2, Zenon
<1> QED
  BY <1>1, LifecycleInvariant, PTL DEF Spec, LegalTransitions
=============================================================================
