--------------------------- MODULE RuntimeProofs ----------------------------
(***************************************************************************)
(* Proofs about the runtime of a process: start, stop and bootstrap        *)
(* (RuntimeStartup, for any number of stages and actors, any failures and  *)
(* any bound on the calls), and the fencing of a singleton                 *)
(* (LeadershipLease, for any set of nodes and any number of leases).       *)
(***************************************************************************)
EXTENDS RuntimeStartup, LeadershipLease, TLAPS

(***************************************************************************)
(* Stages run in dependency order; a topology comes up whole or not at all *)
(***************************************************************************)

Steps == {"idle", "enter", "starting", "announce", "failing", "draining", "stop", "stopping"}

LifecycleStates == {"Built", "Starting", "Running", "Failed", "Draining", "Stopping", "Stopped"}

CoordinatorTypes ==
    /\ lifecycle_state \in LifecycleStates
    /\ started \subseteq 1 .. NumStages
    /\ doing \in [Callers -> Steps] /\ stage \in [Callers -> 0 .. NumStages + 1]
    /\ \A c \in Callers : doing[c] \in {"draining", "stop", "stopping", "failing"} => stage[c] <= NumStages
    /\ \A c \in Callers : doing[c] = "starting" => stage[c] > 0

\* Between calls the state tells which stages are started: none or all.
Settled ==
    \/ lifecycle_state \in {"Built", "Failed", "Stopped"} /\ started = {} /\ ~ready_
    \/ lifecycle_state = "Running" /\ started = 1 .. NumStages

\* What the one thread in control knows at each of its steps.
Controls(c) ==
    /\ doing[c] = "idle" => Settled
    /\ doing[c] = "enter" => started = {} /\ ~ready_
    /\ doing[c] = "starting" =>
          started = 1 .. stage[c] - 1 /\ ~ready_ /\ lifecycle_state = "Starting"
    /\ doing[c] = "announce" => started = 1 .. NumStages /\ lifecycle_state = "Running"
    /\ doing[c] = "failing" => started = 1 .. stage[c] /\ ~ready_ /\ lifecycle_state = "Starting"
    /\ doing[c] = "draining" => started = 1 .. NumStages /\ stage[c] = NumStages
    /\ doing[c] = "stop" => stage[c] = NumStages
    /\ doing[c] = "stop" =>
          \/ started = {} /\ ~ready_
          \/ started = 1 .. NumStages /\ lifecycle_state = "Draining"
    /\ doing[c] = "stopping" =>
          started \in {{}, 1 .. stage[c]} /\ ~ready_ /\ lifecycle_state = "Stopping"

OneCaller == \A c, d \in Callers : c = d

CoordinatorIInv ==
    /\ CoordinatorTypes
    /\ OneCaller => StagesInOrder /\ ReadyMeansRunning /\ \A c \in Callers : Controls(c)

\* The journal holds the leases of the actors spawned so far and not rolled back; until the
\* commit phase no name refers to an actor of the topology.
Journalled ==
    /\ journal \in Seq(0 .. NumActors) /\ Len(journal) <= NumActors
    /\ \A i \in 1 .. Len(journal) : journal[i] = LeaseOf(i)
    /\ phase = "spawn" => Len(journal) = at - 1
    /\ phase = "await" => Len(journal) = at
    /\ phase \in {"spawn", "await", "commit"} => present = {Somebody} \cup 1 .. Len(journal)
    /\ phase = "rollback" => present \subseteq {Somebody} \cup (1 .. Len(journal)) \cup Leaseless

BootstrapIInv ==
    /\ phase \in {"spawn", "await", "commit", "ok", "rollback", "failed"} /\ at \in 1 .. NumActors + 1
    /\ present \subseteq Actors \cup {Somebody} /\ Somebody \in present
    /\ names \in [Actors -> 0 .. Somebody]
    /\ Journalled
    /\ AllOrNothing

StartupIInv == CoordinatorIInv /\ BootstrapIInv

-----------------------------------------------------------------------------
\* What intervals of stages do when the stage at their end is started or unwound.
LEMMA Intervals ==
    ASSUME NEW k \in Nat
    PROVE  /\ 1 .. 0 = {}
           /\ (1 .. k) \cup {k + 1} = 1 .. k + 1
           /\ k > 0 => (1 .. k) \ {k} = 1 .. k - 1 /\ (1 .. k - 1) \cup {k} = 1 .. k
           /\ \A s \in 1 .. k : 1 .. s \subseteq 1 .. k
  OBVIOUS

\* The journal after pop_back.
LEMMA Shortened ==
    ASSUME NEW S, NEW s \in Seq(S), s # <<>>
    PROVE  /\ SubSeq(s, 1, Len(s) - 1) \in Seq(S) /\ Len(SubSeq(s, 1, Len(s) - 1)) = Len(s) - 1
           /\ \A i \in 1 .. Len(s) - 1 : SubSeq(s, 1, Len(s) - 1)[i] = s[i]
<1>1. Len(s) \in Nat /\ Len(s) > 0
  OBVIOUS
<1>2. \A i \in 1 .. Len(s) - 1 : s[i] \in S
  BY <1>1
<1>3. PICK n \in Nat : n = Len(s) - 1
  BY <1>1
<1>4. /\ SubSeq(s, 1, n) \in Seq(S)
      /\ Len(SubSeq(s, 1, n)) = IF 1 <= n THEN n - 1 + 1 ELSE 0
      /\ \A i \in 1 .. n - 1 + 1 : SubSeq(s, 1, n)[i] = s[1 + i - 1]
  BY <1>1, <1>2, <1>3
<1>5. n - 1 + 1 = n /\ (IF 1 <= n THEN n - 1 + 1 ELSE 0) = n /\ \A i \in 1 .. n : 1 + i - 1 = i
  OBVIOUS
<1>6. Len(SubSeq(s, 1, n)) = n /\ \A i \in 1 .. n : SubSeq(s, 1, n)[i] = s[i]
  BY <1>4, <1>5, Zenon
<1> QED
  BY <1>3, <1>4, <1>6, Zenon

\* A new runtime and an empty directory satisfy the invariant.
LEMMA StartupInitial == StartupInit => StartupIInv
<1> SUFFICES ASSUME StartupInit PROVE StartupIInv
  OBVIOUS
<1> USE StartupAssumption DEF StartupInit
<1>1. CoordinatorIInv
  <2>1. CoordinatorTypes
    BY DEF CoordinatorTypes, Steps, LifecycleStates
  <2>2. StagesInOrder /\ ReadyMeansRunning
    BY DEF StagesInOrder, ReadyMeansRunning
  <2>3. \A c \in Callers : Controls(c)
    BY Zenon DEF Controls, Settled
  <2> QED
    BY <2>1, <2>2, <2>3 DEF CoordinatorIInv
<1>2. Journalled
  BY DEF Journalled
<1>3. AllOrNothing
  BY DEF AllOrNothing, Actors, Somebody
<1> QED
  BY <1>1, <1>2, <1>3 DEF StartupIInv, BootstrapIInv, Actors, Somebody

\* A step of a caller leaves the directory and the bootstrap alone.
LEMMA CoordinatorLeavesBootstrap ==
    ASSUME BootstrapIInv, UNCHANGED <<directory, bootstrap>>
    PROVE  BootstrapIInv'
  BY Zenon DEF BootstrapIInv, Journalled, AllOrNothing, directory, bootstrap

\* A step of the bootstrap leaves the coordinator alone.
LEMMA BootstrapLeavesCoordinator ==
    ASSUME CoordinatorIInv, UNCHANGED coordinator
    PROVE  CoordinatorIInv'
  BY ZenonT(60) DEF CoordinatorIInv, CoordinatorTypes, OneCaller, StagesInOrder, ReadyMeansRunning, Controls,
         Settled, coordinator

\* The variables of the coordinator keep their types.
LEMMA CoordinatorTyped ==
    ASSUME CoordinatorTypes, NEW c \in Callers, CoordinatorNext(c)
    PROVE  CoordinatorTypes'
<1> USE StartupAssumption
<1> DEFINE N == NumStages
<1> DEFINE p == doing'[c]
           v == stage'[c]
<1>0. ASSUME doing' = [doing EXCEPT ![c] = p], stage' = [stage EXCEPT ![c] = v],
             p \in Steps, v \in 0 .. N + 1,
             p \in {"draining", "stop", "stopping", "failing"} => v <= N,
             p = "starting" => v > 0,
             started' \subseteq 1 .. N, lifecycle_state' \in LifecycleStates
      PROVE  CoordinatorTypes'
  BY <1>0, Zenon DEF CoordinatorTypes
<1>1. /\ lifecycle_state \in LifecycleStates /\ started \subseteq 1 .. N
      /\ stage[c] \in 0 .. N + 1 /\ N \in Nat
      /\ doing \in [Callers -> Steps] /\ stage \in [Callers -> 0 .. N + 1]
      /\ doing[c] \in {"draining", "stop", "stopping", "failing"} => stage[c] <= N
      /\ doing[c] = "starting" => stage[c] > 0
  BY DEF CoordinatorTypes
<1> USE <1>1 DEF Steps, LifecycleStates, Moves
<1>2. CASE CallStart(c)
  BY <1>0, <1>2 DEF CallStart
<1>3. CASE EnterStarting(c)
  BY <1>0, <1>3 DEF EnterStarting
<1>4. CASE StartStage(c)
  <2>1. CASE stage[c] > N
    <3>1. /\ doing' = [doing EXCEPT ![c] = "announce"] /\ stage' = [stage EXCEPT ![c] = 0]
          /\ started' = started /\ lifecycle_state' = "Running"
      BY <1>4, <2>1, Zenon DEF StartStage
    <3> QED
      BY <1>0, <3>1
  <2>2. CASE stage[c] <= N /\ started' = started \cup {stage[c]} /\ Moves(c, "starting", stage[c] + 1)
    <3>1. stage[c] \in 1 .. N
      BY <1>4, <2>2 DEF StartStage
    <3>2. started' \subseteq 1 .. N
      BY <2>2, <3>1, Zenon
    <3>3. lifecycle_state' = lifecycle_state
      BY <1>4, <2>2, Zenon DEF StartStage
    <3> QED
      BY <1>0, <2>2, <3>1, <3>2, <3>3, SMTT(60), Zenon
  <2>3. CASE stage[c] <= N /\ started' = started /\ Moves(c, "failing", stage[c] - 1)
    BY <1>0, <1>4, <2>3 DEF StartStage
  <2> QED
    BY <1>4, <2>1, <2>2, <2>3 DEF StartStage
<1>5. CASE Announce(c)
  BY <1>0, <1>5 DEF Announce
<1>6. CASE RollbackStage(c)
  <2>1. CASE stage[c] = 0
    BY <1>0, <1>6, <2>1, ZenonT(60) DEF RollbackStage
  <2>2. CASE stage[c] # 0
    <3>1. /\ doing' = [doing EXCEPT ![c] = "failing"] /\ stage' = [stage EXCEPT ![c] = stage[c] - 1]
          /\ started' = started \ {stage[c]} /\ lifecycle_state' = lifecycle_state
          /\ stage[c] \in 1 .. N
      BY <1>6, <2>2 DEF RollbackStage
    <3>2. v = stage[c] - 1 /\ v \in 0 .. N + 1 /\ v <= N
      BY <3>1
    <3> QED
      BY <1>0, <3>1, <3>2, Zenon
  <2> QED
    BY <2>1, <2>2
<1>7. ASSUME NEW graceful \in BOOLEAN, CallStop(c, graceful) PROVE CoordinatorTypes'
  BY <1>0, <1>7 DEF CallStop
<1>8. CASE EnterDraining(c)
  BY <1>0, <1>8, Zenon DEF EnterDraining
<1>9. CASE EnterStopping(c)
  BY <1>0, <1>9, Zenon DEF EnterStopping
<1>10. CASE UnwindStage(c)
  <2>1. CASE stage[c] = 0
    BY <1>0, <1>10, <2>1, ZenonT(60) DEF UnwindStage
  <2>2. CASE stage[c] # 0
    <3>1. /\ doing' = [doing EXCEPT ![c] = "stopping"] /\ stage' = [stage EXCEPT ![c] = stage[c] - 1]
          /\ started' = started \ {stage[c]} /\ lifecycle_state' = lifecycle_state
          /\ stage[c] \in 1 .. N
      BY <1>10, <2>2 DEF UnwindStage
    <3>2. v = stage[c] - 1 /\ v \in 0 .. N + 1 /\ v <= N
      BY <3>1
    <3> QED
      BY <1>0, <3>1, <3>2, Zenon
  <2> QED
    BY <2>1, <2>2
<1> QED
  BY <1>2, <1>3, <1>4, <1>5, <1>6, <1>7, <1>8, <1>9, <1>10 DEF CoordinatorNext

\* What the thread in control knows follows it through start, rollback and stop.
LEMMA CoordinatorControlled ==
    ASSUME CoordinatorTypes, NEW c \in Callers, Controls(c), StagesInOrder, ReadyMeansRunning,
           CoordinatorNext(c)
    PROVE  Controls(c)' /\ StagesInOrder' /\ ReadyMeansRunning'
<1> DEFINE N == NumStages
           s == stage[c]
<1>0. N \in Nat /\ s \in 0 .. N + 1 /\ doing \in [Callers -> Steps] /\ stage \in [Callers -> 0 .. N + 1]
  BY StartupAssumption, Zenon DEF CoordinatorTypes
<1>a. 1 .. 0 = {} /\ \A k \in 1 .. N : 1 .. k \subseteq 1 .. N
  BY <1>0, Intervals, Zenon
<1> USE <1>0, <1>a DEF Moves
<1>1. CASE CallStart(c)
  BY <1>1, Zenon DEF CallStart, Controls, Settled, StagesInOrder, ReadyMeansRunning
<1>2. CASE EnterStarting(c)
  BY <1>2 DEF EnterStarting, Controls, StagesInOrder, ReadyMeansRunning
<1>3. CASE StartStage(c)
  <2>1. doing[c] = "starting" /\ started = 1 .. s - 1 /\ ~ready_ /\ lifecycle_state = "Starting"
        /\ s > 0 /\ ~ready_'
    BY <1>3, Zenon DEF StartStage, Controls, CoordinatorTypes
  <2>2. CASE s > N
    BY <1>3, <2>1, <2>2 DEF StartStage, Controls, StagesInOrder, ReadyMeansRunning
  <2>3. CASE s <= N /\ started' = started \cup {s} /\ Moves(c, "starting", s + 1)
             /\ lifecycle_state' = lifecycle_state
    <3>1. started' = 1 .. s /\ stage'[c] - 1 = s /\ doing'[c] = "starting"
      BY <2>1, <2>3, Intervals, SMTT(60), Zenon
    <3>2. \A k \in 1 .. s : 1 .. k \subseteq 1 .. s
      BY <2>1, Intervals
    <3> QED
      BY <2>1, <2>3, <3>1, <3>2, Zenon DEF Controls, StagesInOrder, ReadyMeansRunning
  <2>4. CASE s <= N /\ started' = started /\ Moves(c, "failing", s - 1)
             /\ lifecycle_state' = lifecycle_state
    BY <2>1, <2>4, Zenon DEF Controls, StagesInOrder, ReadyMeansRunning
  <2> QED
    BY <1>3, <2>1, <2>2, <2>3, <2>4 DEF StartStage
<1>4. CASE Announce(c)
  BY <1>4, Zenon DEF Announce, Controls, Settled, StagesInOrder, ReadyMeansRunning
<1>5. CASE RollbackStage(c)
  <2>1. doing[c] = "failing" /\ started = 1 .. s /\ ~ready_' /\ lifecycle_state = "Starting"
    BY <1>5 DEF RollbackStage, Controls
  <2>2. CASE s = 0
    <3>1. started' = {} /\ doing'[c] = "idle" /\ lifecycle_state' = "Failed"
      BY <1>5, <2>1, <2>2, Zenon DEF RollbackStage
    <3> QED
      BY <2>1, <3>1, Zenon DEF Controls, Settled, StagesInOrder, ReadyMeansRunning
  <2>3. CASE s > 0
    <3>0. started' = started \ {s} /\ stage'[c] = s - 1 /\ doing'[c] = "failing"
          /\ lifecycle_state' = "Starting"
      BY <1>5, <2>1, <2>3, SMTT(60), Zenon DEF RollbackStage
    <3>1. started' = 1 .. s - 1
      BY <2>1, <2>3, <3>0, Intervals
    <3>2. \A k \in 1 .. s - 1 : 1 .. k \subseteq 1 .. s - 1
      BY <2>3, Intervals
    <3> QED
      BY <2>1, <2>3, <3>0, <3>1, <3>2, Zenon DEF Controls, StagesInOrder, ReadyMeansRunning
  <2> QED
    BY <2>2, <2>3
<1>6. ASSUME NEW graceful \in BOOLEAN, CallStop(c, graceful)
      PROVE  Controls(c)' /\ StagesInOrder' /\ ReadyMeansRunning'
  <2>1. Settled /\ lifecycle_state # "Stopped" /\ started' = started /\ lifecycle_state' = lifecycle_state
        /\ (ready_' => ready_)
    BY <1>6, Zenon DEF CallStop, Controls
  <2>2. CASE lifecycle_state = "Running"
    <3>1. doing'[c] = "draining" /\ stage'[c] = N
      BY <1>6, <2>2, Zenon DEF CallStop
    <3> QED
      BY <2>1, <2>2, <3>1, Zenon DEF Settled, Controls, StagesInOrder, ReadyMeansRunning
  <2>3. CASE lifecycle_state # "Running"
    <3>1. doing'[c] = "stop" /\ stage'[c] = N
      BY <1>6, <2>3, Zenon DEF CallStop
    <3> QED
      BY <2>1, <2>3, <3>1, Zenon DEF Settled, Controls, StagesInOrder, ReadyMeansRunning
  <2> QED
    BY <2>2, <2>3
<1>7. CASE EnterDraining(c)
  BY <1>7, Zenon DEF EnterDraining, Controls, StagesInOrder, ReadyMeansRunning
<1>8. CASE EnterStopping(c)
  <2>1. stage'[c] = N /\ doing'[c] = "stopping" /\ ~ready_' /\ started' = started
        /\ lifecycle_state' = "Stopping" /\ started \in {{}, 1 .. N}
    BY <1>8, Zenon DEF EnterStopping, Controls
  <2> QED
    BY <2>1, Zenon DEF Controls, StagesInOrder, ReadyMeansRunning
<1>9. CASE UnwindStage(c)
  <2>1. doing[c] = "stopping" /\ started \in {{}, 1 .. s} /\ ~ready_' /\ lifecycle_state = "Stopping"
    BY <1>9, Zenon DEF UnwindStage, Controls
  <2>2. CASE s = 0
    <3>1. started' = {} /\ doing'[c] = "idle" /\ lifecycle_state' = "Stopped"
      BY <1>9, <2>1, <2>2, Zenon DEF UnwindStage
    <3> QED
      BY <2>1, <3>1, Zenon DEF Controls, Settled, StagesInOrder, ReadyMeansRunning
  <2>3. CASE s > 0
    <3>0. started' = started \ {s} /\ stage'[c] = s - 1 /\ doing'[c] = "stopping"
          /\ lifecycle_state' = "Stopping"
      BY <1>9, <2>1, <2>3 DEF UnwindStage
    <3>1. started' \in {{}, 1 .. s - 1}
      BY <2>1, <2>3, <3>0, Intervals, SMTT(60), Zenon
    <3>2. \A k \in 1 .. s - 1 : 1 .. k \subseteq 1 .. s - 1
      BY <2>3, Intervals
    <3> QED
      BY <2>1, <2>3, <3>0, <3>1, <3>2, Zenon DEF Controls, StagesInOrder, ReadyMeansRunning
  <2> QED
    BY <2>2, <2>3
<1> QED
  BY <1>1, <1>2, <1>3, <1>4, <1>5, <1>6, <1>7, <1>8, <1>9, Zenon DEF CoordinatorNext

-----------------------------------------------------------------------------
\* Every step of execute() keeps the invariant, and so does whoever else registers names.
LEMMA BootstrapStep ==
    ASSUME BootstrapIInv,
           \/ SpawnFails \/ SpawnUnpublished \/ AwaitReady \/ RegisterNames \/ CommitLeases
           \/ RollbackActor
           \/ \E n \in Taken : RegisterName(n) \/ UnregisterName(n)
    PROVE  BootstrapIInv'
<1> DEFINE N == NumActors
           L == Len(journal)
<1>0. /\ N \in Nat /\ Unnamed \subseteq 1 .. N /\ Leaseless \subseteq 1 .. N
      /\ Taken \subseteq (1 .. N) \ Unnamed /\ Somebody = N + 1 /\ Actors = 1 .. N
  BY StartupAssumption, Zenon DEF Somebody, Actors
<1>a. /\ present \subseteq Actors \cup {Somebody} /\ Somebody \in present
      /\ names \in [Actors -> 0 .. Somebody] /\ at \in 1 .. N + 1
      /\ Journalled /\ AllOrNothing
  BY Zenon DEF BootstrapIInv
<1>b. journal \in Seq(0 .. N) /\ L \in 0 .. N
  BY <1>0, <1>a DEF Journalled
<1> USE <1>0, <1>a, <1>b
<1>1. CASE SpawnFails
  <2>1. phase = "spawn" /\ phase' = "rollback" /\ UNCHANGED <<present, names, at, journal>>
    BY <1>1 DEF SpawnFails, directory
  <2>2. Journalled' /\ AllOrNothing'
    BY <2>1, Zenon DEF Journalled, AllOrNothing
  <2> QED
    BY <2>1, <2>2, Zenon DEF BootstrapIInv
<1>2. CASE SpawnUnpublished
  <2>1. /\ phase = "spawn" /\ phase' = "await" /\ at \in 1 .. N /\ L = at - 1
        /\ UNCHANGED <<names, at>>
        /\ present' = present \cup {at} /\ journal' = Append(journal, LeaseOf(at))
    BY <1>2 DEF SpawnUnpublished, Journalled
  <2>2. LeaseOf(at) \in 0 .. N
    BY <2>1 DEF LeaseOf
  <2>3. /\ journal' \in Seq(0 .. N) /\ Len(journal') = at
        /\ \A i \in 1 .. at : journal'[i] = LeaseOf(i)
    BY <2>1, <2>2, SMTT(60), Zenon DEF Journalled
  <2>4. present' = {Somebody} \cup 1 .. at
    <3>1. present = {Somebody} \cup 1 .. L
      BY <2>1 DEF Journalled
    <3>2. (1 .. L) \cup {at} = 1 .. at
      BY <2>1, SMTT(60), Zenon
    <3> QED
      BY <2>1, <3>1, <3>2, SMTT(60), Zenon
  <2>5. Journalled'
    BY <2>1, <2>3, <2>4, SMTT(60), Zenon DEF Journalled
  <2>6. AllOrNothing'
    BY <2>1 DEF AllOrNothing
  <2> QED
    BY <2>1, <2>4, <2>5, <2>6, Zenon DEF BootstrapIInv
<1>3. CASE AwaitReady
  <2>1. /\ phase = "await" /\ UNCHANGED <<present, names, journal>> /\ L = at
        /\ \/ phase' = "spawn" /\ at' = at + 1
           \/ phase' = "rollback" /\ at' = at
    BY <1>3 DEF AwaitReady, Journalled, directory
  <2>2. Journalled'
    <3>1. phase' = "spawn" => L = at' - 1
      BY <2>1, SMT
    <3>2. present \subseteq {Somebody} \cup (1 .. L) \cup Leaseless
      BY <2>1, Zenon DEF Journalled
    <3> QED
      BY <2>1, <3>1, <3>2, ZenonT(30) DEF Journalled
  <2>3. AllOrNothing'
    BY <2>1, ZenonT(30) DEF AllOrNothing
  <2>4. at' \in 1 .. N + 1
    BY <2>1, SMTT(60), Zenon
  <2> QED
    BY <2>1, <2>2, <2>3, <2>4, SMTT(60), Zenon DEF BootstrapIInv
<1>4. CASE RegisterNames
  <2> DEFINE batch == Actors \ Unnamed
  <2>1. /\ phase = "spawn" /\ L = N /\ UNCHANGED <<present, at, journal>>
        /\ present = {Somebody} \cup 1 .. N
        /\ \A i \in 1 .. N : journal[i] = LeaseOf(i)
    <3>1. phase = "spawn" /\ at > N /\ UNCHANGED <<present, at, journal>>
      BY <1>4, Zenon DEF RegisterNames
    <3>2. /\ L = at - 1 /\ L <= N /\ present = {Somebody} \cup 1 .. L
          /\ \A i \in 1 .. L : journal[i] = LeaseOf(i)
      BY <3>1, Zenon DEF Journalled
    <3>3. L = N
      BY <3>1, <3>2
    <3> QED
      BY <3>1, <3>2, <3>3, Zenon
  <2>2. CASE \A i \in batch : names[i] = 0 /\ journal[i] \in present
    <3>1. /\ names' = [i \in Actors |-> IF i \in batch THEN journal[i] ELSE names[i]]
          /\ phase' = "commit"
      BY <1>4, <2>2, Zenon DEF RegisterNames
    <3>2. \A i \in batch : journal[i] = i /\ i \in present
      <4>1. 0 \notin present
        BY <2>1
      <4> QED
        BY <2>1, <2>2, <4>1, SMTT(60), Zenon DEF LeaseOf
    <3>3. names' \in [Actors -> 0 .. Somebody] /\ \A i \in batch : names'[i] = i
      BY <3>1, <3>2, SMTT(60), Zenon
    <3>4. Journalled'
      BY <2>1, <3>1, Zenon DEF Journalled
    <3>5. AllOrNothing'
      <4>1. ASSUME NEW n \in Actors, names'[n] # 0 PROVE names'[n] \in present
        <5>1. CASE n \in batch
          BY <3>2, <3>3, <5>1, ZenonT(60)
        <5>2. CASE n \notin batch
          BY <3>1, <4>1, <5>2, Zenon DEF AllOrNothing
        <5> QED
          BY <5>1, <5>2, Zenon
      <4> QED
        BY <2>1, <3>1, <3>2, <3>3, <4>1, ZenonT(60) DEF AllOrNothing
    <3> QED
      BY <2>1, <3>1, <3>3, <3>4, <3>5, Zenon DEF BootstrapIInv
  <2>3. CASE ~ \A i \in batch : names[i] = 0 /\ journal[i] \in present
    <3>1. names' = names /\ phase' = "rollback"
      BY <1>4, <2>3 DEF RegisterNames
    <3>2. Journalled'
      BY <2>1, <3>1, Zenon DEF Journalled
    <3>3. AllOrNothing'
      BY <2>1, <3>1, ZenonT(60) DEF AllOrNothing
    <3> QED
      BY <2>1, <3>1, <3>2, <3>3, SMTT(60), Zenon DEF BootstrapIInv
  <2> QED
    BY <2>2, <2>3
<1>5. CASE CommitLeases
  <2>1. phase = "commit" /\ phase' = "ok" /\ UNCHANGED <<present, names, at>> /\ journal' = <<>>
    BY <1>5 DEF CommitLeases, directory
  <2>2. journal' \in Seq(0 .. N) /\ Len(journal') = 0
    BY <2>1
  <2>3. Journalled'
    BY <2>1, <2>2 DEF Journalled
  <2>4. AllOrNothing'
    BY <2>1, Zenon DEF AllOrNothing
  <2> QED
    BY <2>1, <2>3, <2>4, SMTT(60), Zenon DEF BootstrapIInv
<1>6. CASE RollbackActor
  <2>1. phase = "rollback" /\ at' = at
        /\ present \subseteq {Somebody} \cup (1 .. L) \cup Leaseless
    BY <1>6 DEF RollbackActor, Journalled
  <2>2. CASE journal = <<>>
    <3>1. phase' = "failed" /\ UNCHANGED <<present, names, journal>>
      BY <1>6, <2>2, Zenon DEF RollbackActor, directory
    <3>2. L = 0
      BY <2>2
    <3>3. Journalled'
      BY <2>1, <3>1, SMTT(60), Zenon DEF Journalled
    <3>4. AllOrNothing'
      BY <2>1, <3>1, <3>2 DEF AllOrNothing
    <3> QED
      BY <2>1, <3>1, <3>3, <3>4, SMTT(60), Zenon DEF BootstrapIInv
  <2>3. CASE journal # <<>>
    <3>1. /\ phase' = "rollback" /\ journal' = SubSeq(journal, 1, L - 1)
          /\ LeaseRollback(journal[L])
      BY <1>6, <2>1, <2>3 DEF RollbackActor
    <3>2. L \in 1 .. N
      BY <2>3
    <3>3. journal[L] = LeaseOf(L)
      BY <3>2 DEF Journalled
    <3>4. /\ journal' \in Seq(0 .. N) /\ Len(journal') = L - 1
          /\ \A i \in 1 .. L - 1 : journal'[i] = LeaseOf(i)
      <4>1. /\ journal' \in Seq(0 .. N) /\ Len(journal') = L - 1
            /\ \A i \in 1 .. L - 1 : journal'[i] = journal[i]
        BY <2>3, <3>1, Shortened, Zenon
      <4>2. 1 .. L - 1 \subseteq 1 .. L
        BY <3>2
      <4>3. \A i \in 1 .. L : journal[i] = LeaseOf(i)
        BY DEF Journalled
      <4> QED
        BY <4>1, <4>2, <4>3, Zenon
    <3>5. (1 .. L) \subseteq (1 .. L - 1) \cup {L}
      BY <3>2
    <3>6. /\ present' \subseteq present /\ names' = names /\ Somebody \in present'
          /\ present' \subseteq {Somebody} \cup (1 .. L - 1) \cup Leaseless
      <4>1. CASE L \in Leaseless
        BY <2>1, <3>1, <3>3, <3>5, <4>1, ZenonT(60) DEF LeaseRollback, LeaseOf, directory
      <4>2. CASE L \notin Leaseless
        <5>1. Erase(L)
          BY <3>1, <3>2, <3>3, <4>2, SMTT(60), Zenon DEF LeaseRollback, LeaseOf
        <5>2. \A n \in Actors : names[n] # L
          BY <2>1, <3>2 DEF AllOrNothing
        <5>3. names' = names
          BY <5>1, <5>2 DEF Erase
        <5>4. present' = present \ {L} /\ Somebody # L
          BY <3>2, <5>1 DEF Erase
        <5> QED
          BY <2>1, <3>5, <5>3, <5>4, Zenon
      <4> QED
        BY <4>1, <4>2, SMTT(60), Zenon
    <3>7. Journalled'
      <4>1. Len(journal') <= N /\ \A i \in 1 .. Len(journal') : journal'[i] = LeaseOf(i)
        BY <3>2, <3>4, SMTT(60), Zenon
      <4>2. present' \subseteq {Somebody} \cup (1 .. Len(journal')) \cup Leaseless
        BY <3>4, <3>6
      <4> QED
        BY <3>1, <3>4, <4>1, <4>2, Zenon DEF Journalled
    <3>8. AllOrNothing'
      <4>1. \A n \in Actors : names[n] \in {0, Somebody}
        BY <2>1, SMTT(60), Zenon DEF AllOrNothing
      <4> QED
        BY <2>1, <3>1, <3>6, <4>1, Zenon DEF AllOrNothing
    <3> QED
      BY <2>1, <3>1, <3>6, <3>7, <3>8, ZenonT(60) DEF BootstrapIInv
  <2> QED
    BY <2>2, <2>3, SMTT(60), Zenon
<1>7. ASSUME NEW n \in Taken, RegisterName(n) \/ UnregisterName(n) PROVE BootstrapIInv'
  <2>1. /\ names[n] \in {0, Somebody} /\ n \in Actors \ Unnamed
        /\ UNCHANGED <<present, phase, at, journal>>
    BY <1>7 DEF RegisterName, UnregisterName, bootstrap
  <2>2. \E x \in {0, Somebody} : names' = [names EXCEPT ![n] = x]
    BY <1>7, SMTT(60), Zenon DEF RegisterName, UnregisterName
  <2>3. phase \notin {"commit", "ok"}
    BY <2>1, SMTT(60), Zenon DEF AllOrNothing
  <2>4. Journalled'
    BY <2>1, ZenonT(60) DEF Journalled
  <2>5. names' \in [Actors -> 0 .. Somebody] /\ \A i \in Actors : names'[i] \in {names[i], 0, Somebody}
    BY <2>1, <2>2, SMTT(60), Zenon
  <2>6. AllOrNothing'
    <3>0. 0 \notin Actors /\ Somebody \notin Actors
      OBVIOUS
    <3>1. \A i \in Actors : names'[i] \in Actors => names[i] \in Actors
      BY <2>5, <3>0, Zenon
    <3>2. \A i \in Actors : names'[i] # 0 => names'[i] \in present
      BY <2>5, Zenon DEF AllOrNothing
    <3> QED
      BY <2>1, <2>3, <3>1, <3>2, SMTT(60), Zenon DEF AllOrNothing
  <2> QED
    BY <2>1, <2>4, <2>5, <2>6, SMTT(60), Zenon DEF BootstrapIInv
<1> QED
  BY <1>1, <1>2, <1>3, <1>4, <1>5, <1>6, <1>7, Zenon

-----------------------------------------------------------------------------
\* Every step keeps the invariant of both halves.
LEMMA StartupStep == StartupIInv /\ [StartupNext]_startupVars => StartupIInv'
<1> SUFFICES ASSUME StartupIInv, [StartupNext]_startupVars PROVE StartupIInv'
  OBVIOUS
<1>0. CoordinatorIInv /\ BootstrapIInv
  BY DEF StartupIInv
<1>1. ASSUME NEW c \in Callers, CoordinatorNext(c) PROVE StartupIInv'
  <2>1. UNCHANGED <<directory, bootstrap>>
    BY <1>1, Zenon DEF CoordinatorNext, CallStart, EnterStarting, StartStage, Announce, RollbackStage,
                CallStop, EnterDraining, EnterStopping, UnwindStage
  <2>2. CoordinatorTypes'
    BY <1>0, <1>1, CoordinatorTyped DEF CoordinatorIInv
  <2>3. ASSUME OneCaller PROVE (StagesInOrder /\ ReadyMeansRunning /\ \A d \in Callers : Controls(d))'
    <3>1. Controls(c)' /\ StagesInOrder' /\ ReadyMeansRunning'
      BY <1>0, <1>1, <2>3, CoordinatorControlled DEF CoordinatorIInv
    <3>2. \A d \in Callers : d = c
      BY <1>1, <2>3 DEF OneCaller
    <3> QED
      BY <3>1, <3>2
  <2>4. CoordinatorIInv'
    BY <2>2, <2>3 DEF CoordinatorIInv, OneCaller
  <2> QED
    BY <1>0, <2>1, <2>4, CoordinatorLeavesBootstrap DEF StartupIInv
<1>2. CASE \/ SpawnFails \/ SpawnUnpublished \/ AwaitReady \/ RegisterNames \/ CommitLeases
           \/ RollbackActor
           \/ \E n \in Taken : RegisterName(n) \/ UnregisterName(n)
  <2>1. UNCHANGED coordinator
    BY <1>2, ZenonT(60) DEF SpawnFails, SpawnUnpublished, AwaitReady, RegisterNames, CommitLeases,
                RollbackActor, RegisterName, UnregisterName
  <2> QED
    BY <1>0, <1>2, <2>1, BootstrapStep, BootstrapLeavesCoordinator, SMTT(60), Zenon DEF StartupIInv
<1>3. CASE UNCHANGED startupVars
  BY <1>0, <1>3, CoordinatorLeavesBootstrap, BootstrapLeavesCoordinator DEF StartupIInv, startupVars
<1> QED
  BY <1>1, <1>2, <1>3 DEF StartupNext

\* The inductive invariant of start, stop and bootstrap.
THEOREM StartupInvariant == StartupSpec => []StartupIInv
  BY StartupInitial, StartupStep, PTL DEF StartupSpec

\* With one thread in control the stages run in dependency order, readiness means that all
\* of them run, and at rest in Failed or Stopped none does (start, stop, shutdown,
\* rollback); a topology comes up with all its actors and names or with none
\* (TopologyBootstrapTransaction::execute), whatever fails in either.
THEOREM StartupIsSafe == StartupSpec => []StartupInv
<1>1. StartupIInv => StartupInv
  BY SMTT(60), Zenon DEF StartupIInv, StartupInv, StartupTypeOK, CoordinatorIInv, CoordinatorTypes, BootstrapIInv,
         OneCaller, LifecycleStates
<1> QED
  BY StartupInvariant, <1>1, PTL

(***************************************************************************)
(* Fencing of the singleton                                                *)
(***************************************************************************)

StoredLease ==
    [present : BOOLEAN, owned : BOOLEAN, owner : Candidates \cup {NoOwner}, token : 0 .. MaxToken]
Answers == [asked : BOOLEAN, owner : Candidates \cup {NoOwner}, token : 0 .. MaxToken]

LeaseTypes ==
    /\ stored \in StoredLease /\ next_token \in 1 .. MaxToken + 1
    /\ told \in [Candidates -> Answers] /\ cached \in [Candidates -> 0 .. MaxToken]
    /\ state \in [Candidates -> {"Standby", "Active", "Draining"}]
    /\ token \in [Candidates -> 0 .. MaxToken]

\* The token the backend issues next is above every token in use or on its way, the lease
\* that is owned has a token no older than its owner's and above all others, and what a
\* manager was granted is no older than what it has.
Issued ==
    /\ stored.token < next_token
    /\ \A n \in Candidates : token[n] < next_token /\ told[n].token < next_token
    /\ stored.owned =>
          /\ stored.owner \in Candidates /\ stored.token > 0 /\ token[stored.owner] <= stored.token
          /\ Won(stored.owner) => told[stored.owner].token <= stored.token
    /\ \A n \in Candidates : Won(n) => told[n].token > 0 /\ token[n] <= told[n].token

LeaseIInv == LeaseTypes /\ TokensDistinct /\ OwnerFences /\ Issued

-----------------------------------------------------------------------------
\* The backend as constructed, and managers in Standby, satisfy the invariant.
LEMMA LeaseInitial == LeaseInit => LeaseIInv
<1> SUFFICES ASSUME LeaseInit PROVE LeaseIInv
  OBVIOUS
<1> USE LeaseAssumption DEF LeaseInit, NoLease, Unasked
<1>1. LeaseTypes
  BY DEF LeaseTypes, StoredLease, Answers
<1>2. TokensDistinct /\ OwnerFences
  BY ZenonT(60) DEF TokensDistinct, OwnerFences, Won
<1>3. Issued
  BY DEF Issued, Won
<1> QED
  BY <1>1, <1>2, <1>3, Zenon DEF LeaseIInv

\* What the invariant says of the owned lease, of the managers and of the answers they wait
\* for, when the backend's part becomes s and its next token t.
Ordered(s, t) ==
    /\ s.token < t
    /\ s.owned =>
          /\ s.owner \in Candidates /\ s.token > 0 /\ token[s.owner] <= s.token
          /\ Won(s.owner) => told[s.owner].token <= s.token
          /\ \A m \in Candidates \ {s.owner} :
                token[m] < s.token /\ (Won(m) => told[m].token < s.token)

\* The order holds of the backend as it is.
LEMMA OrderedNow == LeaseIInv => Ordered(stored, next_token)
  BY Zenon DEF LeaseIInv, Issued, OwnerFences, Ordered

\* A lease granted or renewed takes the next token, which is above every token in use.
LEMMA NewToken ==
    ASSUME LeaseIInv, NEW n \in Candidates, next_token <= MaxToken,
           NEW s \in StoredLease, s.owner = n, s.token = next_token
    PROVE  Ordered(s, next_token + 1) /\ next_token + 1 \in 1 .. MaxToken + 1
<1>1. /\ next_token \in 1 .. MaxToken + 1 /\ told \in [Candidates -> Answers]
      /\ token \in [Candidates -> 0 .. MaxToken]
      /\ \A m \in Candidates : token[m] < next_token /\ told[m].token < next_token
  BY Zenon DEF LeaseIInv, LeaseTypes, Issued
<1>2. /\ next_token < next_token + 1 /\ next_token > 0
      /\ next_token + 1 \in 1 .. MaxToken + 1
  BY <1>1, LeaseAssumption
<1>3. token[n] <= next_token /\ told[n].token <= next_token
  BY <1>1, LeaseAssumption DEF Answers
<1> QED
  BY <1>1, <1>2, <1>3, Zenon DEF Ordered

\* Grant writes a lease of that kind.
LEMMA GrantIsLease ==
    ASSUME LeaseIInv, NEW n \in Candidates, next_token <= MaxToken
    PROVE  Grant(n) \in StoredLease /\ Grant(n).owner = n /\ Grant(n).token = next_token
<1>1. next_token \in 0 .. MaxToken
  BY LeaseAssumption DEF LeaseIInv, LeaseTypes
<1> QED
  BY <1>1, Zenon DEF Grant, StoredLease

\* An operation of the backend alone, which keeps the order, keeps the invariant.
LEMMA BackendKeeps ==
    ASSUME LeaseIInv, UNCHANGED <<told, manager>>, stored' \in StoredLease,
           next_token' \in 1 .. MaxToken + 1, next_token <= next_token',
           Ordered(stored', next_token')
    PROVE  LeaseIInv'
<1>1. told' = told /\ cached' = cached /\ state' = state /\ token' = token
  BY Zenon DEF manager
<1>2. LeaseTypes'
  BY <1>1, Zenon DEF LeaseIInv, LeaseTypes
<1>3. TokensDistinct' /\ OwnerFences'
  <2>1. TokensDistinct'
    BY <1>1, ZenonT(60) DEF LeaseIInv, TokensDistinct, Won
  <2>2. OwnerFences'
    BY <1>1, ZenonT(60) DEF OwnerFences, Ordered, Won
  <2> QED
    BY <2>1, <2>2, Zenon
<1>4. /\ told \in [Candidates -> Answers] /\ token \in [Candidates -> 0 .. MaxToken]
      /\ next_token \in 1 .. MaxToken + 1
      /\ \A m \in Candidates : token[m] < next_token /\ told[m].token < next_token
      /\ \A m \in Candidates : Won(m) => told[m].token > 0 /\ token[m] <= told[m].token
  BY Zenon DEF LeaseIInv, LeaseTypes, Issued
<1>5. ASSUME NEW m \in Candidates PROVE token[m] < next_token' /\ told[m].token < next_token'
  <2>1. token[m] \in Nat /\ told[m].token \in Nat /\ next_token \in Nat /\ next_token' \in Nat
    BY <1>4, LeaseAssumption DEF Answers
  <2>2. token[m] < next_token /\ told[m].token < next_token
    BY <1>4, Zenon
  <2> QED
    BY <2>1, <2>2
<1>6. Issued'
  BY <1>1, <1>4, <1>5, Zenon DEF Issued, Ordered, Won
<1> QED
  BY <1>2, <1>3, <1>6, Zenon DEF LeaseIInv

\* try_acquire keeps the order, whether it grants a lease or not.
LEMMA AcquireKeepsOrder ==
    ASSUME LeaseIInv, NEW n \in Candidates, TryAcquire(n)
    PROVE  /\ stored' \in StoredLease /\ next_token' \in 1 .. MaxToken + 1
           /\ next_token <= next_token' /\ Ordered(stored', next_token')
<1>1. stored \in StoredLease /\ next_token \in 1 .. MaxToken + 1
  BY Zenon DEF LeaseIInv, LeaseTypes
<1>2. CASE Acquirable
  <2>1. next_token <= MaxToken /\ stored' = Grant(n) /\ next_token' = next_token + 1
    BY <1>2, Zenon DEF TryAcquire
  <2>2. next_token <= next_token + 1
    BY <1>1, LeaseAssumption
  <2> QED
    BY <2>1, <2>2, GrantIsLease, NewToken, Zenon
<1>3. CASE ~Acquirable
  <2>1. stored' = stored /\ next_token' = next_token
    BY <1>3, Zenon DEF TryAcquire
  <2>2. next_token <= next_token
    BY <1>1, LeaseAssumption
  <2> QED
    BY <1>1, <2>1, <2>2, OrderedNow, Zenon
<1> QED
  BY <1>2, <1>3, Zenon

\* What try_acquire answers: nobody, or the lease that is owned.
LEMMA AskKeeps ==
    ASSUME LeaseIInv, NEW n \in Candidates, Ask(n)
    PROVE  LeaseIInv'
<1> DEFINE a == told'[n]
<1>1. /\ stored' \in StoredLease /\ next_token' \in 1 .. MaxToken + 1
      /\ next_token <= next_token' /\ Ordered(stored', next_token')
  BY AcquireKeepsOrder, Zenon DEF Ask
<1>2. cached' = cached /\ state' = state /\ token' = token
  BY Zenon DEF Ask, manager
<1>3. LeaseTypes /\ TokensDistinct /\ OwnerFences /\ Issued
  BY Zenon DEF LeaseIInv
<1>4. told' \in [Candidates -> Answers]
  <2>1. NoWinner \in Answers
    BY LeaseAssumption DEF NoWinner, Answers
  <2>2. [asked |-> TRUE, owner |-> stored'.owner, token |-> stored'.token] \in Answers
    BY <1>1, Zenon DEF Answers, StoredLease
  <2> QED
    BY <1>3, <2>1, <2>2, Zenon DEF Ask, LeaseTypes
<1>5. /\ \A m \in Candidates \ {n} : told'[m] = told[m]
      /\ \/ a.owner = NoOwner /\ a.token = 0
         \/ stored'.owned /\ a.owner = stored'.owner /\ a.token = stored'.token
  BY <1>3, Zenon DEF Ask, LeaseTypes, NoWinner
<1> HIDE DEF a
<1>6. /\ \A m \in Candidates \ {n} : Won(m)' = Won(m)
      /\ Won(n)' => /\ stored'.owned /\ n = stored'.owner
                    /\ a.token = stored'.token /\ stored'.token > 0
  BY <1>1, <1>5, LeaseAssumption, Zenon DEF Won, Ordered, a
<1>7. \A m \in Candidates : token[m] < next_token' /\ told'[m].token < next_token'
  <2>1. /\ next_token \in Nat /\ next_token' \in Nat /\ 0 < next_token' /\ stored'.token < next_token'
        /\ next_token <= next_token'
    <3>1. next_token \in 1 .. MaxToken + 1 /\ stored'.token < next_token'
      BY <1>1, <1>3, Zenon DEF LeaseTypes, Ordered
    <3>2. next_token' \in 1 .. MaxToken + 1 /\ next_token <= next_token'
      BY <1>1, Zenon
    <3> QED
      BY <3>1, <3>2, LeaseAssumption
  <2>2. ASSUME NEW m \in Candidates PROVE token[m] < next_token' /\ told[m].token < next_token'
    <3>1. token[m] \in Nat /\ told[m].token \in Nat
      BY <1>3, LeaseAssumption DEF LeaseTypes, Answers
    <3>2. token[m] < next_token /\ told[m].token < next_token
      BY <1>3, Zenon DEF Issued
    <3> QED
      BY <2>1, <3>1, <3>2, SMTT(60), Zenon
  <2>3. a.token < next_token'
    BY <1>5, <2>1, Zenon
  <2> QED
    BY <1>5, <2>2, <2>3, Zenon DEF a
<1>8. LeaseTypes'
  BY <1>1, <1>2, <1>3, <1>4, Zenon DEF LeaseTypes
<1>9. OwnerFences'
  <2>1. ASSUME stored'.owned, NEW m \in Candidates \ {stored'.owner}
        PROVE  token'[m] < stored'.token /\ (Won(m)' => told'[m].token < stored'.token)
    <3>1. CASE m = n
      BY <1>1, <1>2, <1>6, <2>1, <3>1, Zenon DEF Ordered
    <3>2. CASE m # n
      BY <1>1, <1>2, <1>5, <1>6, <2>1, <3>2, Zenon DEF Ordered
    <3> QED
      BY <3>1, <3>2, Zenon
  <2> QED
    BY <2>1, Zenon DEF OwnerFences
<1>10. Issued'
  <2>1. stored'.owned => /\ stored'.owner \in Candidates /\ stored'.token > 0
                         /\ token'[stored'.owner] <= stored'.token
    BY <1>1, <1>2, Zenon DEF Ordered
  <2>4. stored'.token <= stored'.token
    BY <1>1, LeaseAssumption DEF StoredLease
  <2>5. ASSUME stored'.owned, NEW o \in Candidates, o = stored'.owner, Won(o)'
        PROVE  told'[o].token <= stored'.token
    <3>1. CASE o = n
      BY <1>6, <2>4, <2>5, <3>1, Zenon DEF a
    <3>2. CASE o # n
      BY <1>1, <1>5, <1>6, <2>5, <3>2, Zenon DEF Ordered
    <3> QED
      BY <3>1, <3>2, Zenon
  <2>6. stored'.owned /\ told'[stored'.owner].owner = stored'.owner
            => told'[stored'.owner].token <= stored'.token
    BY <2>1, <2>5, Zenon DEF Won
  <2>2. ASSUME NEW m \in Candidates, Won(m)' PROVE told'[m].token > 0 /\ token'[m] <= told'[m].token
    <3>1. CASE m = n
      BY <1>2, <1>6, <2>1, <2>2, <3>1, Zenon DEF a
    <3>2. CASE m # n
      BY <1>2, <1>3, <1>5, <1>6, <2>2, <3>2, Zenon DEF Issued
    <3> QED
      BY <3>1, <3>2, Zenon
  <2>3. stored'.token < next_token'
    BY <1>1, Zenon DEF Ordered
  <2> QED
    BY <1>2, <1>7, <2>1, <2>2, <2>3, <2>6, Zenon DEF Issued, Won
<1>11. TokensDistinct'
  <2>1. ASSUME NEW m \in Candidates \ {n}, Won(n)'
        PROVE  /\ a.token # token[m]
               /\ Won(m)' => a.token # told'[m].token
    <3>1. token[m] < a.token /\ (Won(m) => told[m].token < a.token)
      BY <1>1, <1>6, <2>1, Zenon DEF Ordered
    <3>2. token[m] \in Nat /\ told[m].token \in Nat /\ a.token \in Nat
      BY <1>3, <1>4, LeaseAssumption DEF LeaseTypes, Answers, a
    <3>3. a.token # token[m] /\ (Won(m) => a.token # told[m].token)
      BY <3>1, <3>2
    <3> QED
      BY <1>5, <1>6, <3>3, Zenon
  <2>2. ASSUME NEW k \in Candidates, NEW m \in Candidates, k # m
        PROVE  /\ token'[k] # 0 => token'[k] # token'[m]
               /\ Won(k)' => told'[k].token # token'[m]
               /\ Won(k)' /\ Won(m)' => told'[k].token # told'[m].token
    <3>1. /\ token[k] # 0 => token[k] # token[m]
          /\ Won(k) => told[k].token # token[m]
          /\ Won(k) /\ Won(m) => told[k].token # told[m].token
      BY <1>3, <2>2, Zenon DEF TokensDistinct
    <3>2. CASE k = n
      BY <1>2, <2>1, <2>2, <3>1, <3>2, Zenon DEF a
    <3>3. CASE m = n
      BY <1>2, <1>5, <1>6, <2>1, <2>2, <3>1, <3>3, Zenon DEF a
    <3>4. CASE k # n /\ m # n
      BY <1>2, <1>5, <1>6, <3>1, <3>4, Zenon
    <3> QED
      BY <3>2, <3>3, <3>4, Zenon
  <2> QED
    BY <2>2, Zenon DEF TokensDistinct
<1> QED
  BY <1>8, <1>9, <1>10, <1>11, Zenon DEF LeaseIInv

\* A manager that acts on its answer takes over the token it was granted, or none.
LEMMA ConcludeToken ==
    ASSUME LeaseIInv, NEW n \in Candidates, Conclude(n)
    PROVE  /\ \A m \in Candidates \ {n} : token'[m] = token[m]
           /\ token'[n] = token[n] \/ (Won(n) /\ token'[n] = told[n].token)
           /\ token' \in [Candidates -> 0 .. MaxToken]
           /\ state' \in [Candidates -> {"Standby", "Active", "Draining"}]
           /\ cached' \in [Candidates -> 0 .. MaxToken]
<1>1. /\ token \in [Candidates -> 0 .. MaxToken] /\ cached \in [Candidates -> 0 .. MaxToken]
      /\ state \in [Candidates -> {"Standby", "Active", "Draining"}]
      /\ told \in [Candidates -> Answers]
  BY Zenon DEF LeaseIInv, LeaseTypes
<1>2. told[n].token \in 0 .. MaxToken /\ cached' = [cached EXCEPT ![n] = told[n].token]
  BY <1>1, Zenon DEF Answers, Conclude
<1>3. CASE ~Won(n)
  <2>1. state' = [state EXCEPT ![n] = StepDown(n)] /\ token' = token
    BY <1>3, Zenon DEF Conclude, Won
  <2>2. StepDown(n) \in {"Standby", "Active", "Draining"}
    BY <1>1, Zenon DEF StepDown
  <2> QED
    BY <1>1, <1>2, <2>1, <2>2, Zenon
<1>4. CASE Won(n)
  <2>1. Activate(n)
    BY <1>4, Zenon DEF Conclude, Won
  <2>2. cached'[n] = told[n].token /\ told[n].token > 0
    BY <1>1, <1>2, <1>4, Zenon DEF LeaseIInv, Issued
  <2>3. CASE state[n] = "Standby"
    <3>1. token' = [token EXCEPT ![n] = told[n].token] /\ state' = [state EXCEPT ![n] = "Active"]
      BY <2>1, <2>2, <2>3, Zenon DEF Activate
    <3> QED
      BY <1>1, <1>2, <1>4, <3>1, Zenon
  <2>4. CASE state[n] # "Standby"
    <3>1. token' = [token EXCEPT ![n] = token[n]] /\ state' = [state EXCEPT ![n] = state[n]]
      BY <2>1, <2>4, Zenon DEF Activate
    <3> QED
      BY <1>1, <1>2, <3>1, Zenon
  <2> QED
    BY <2>3, <2>4, Zenon
<1> QED
  BY <1>3, <1>4, Zenon

\* However late it acts, it disturbs no other manager and no lease.
LEMMA ConcludeKeeps ==
    ASSUME LeaseIInv, NEW n \in Candidates, Conclude(n)
    PROVE  LeaseIInv' /\ token'[n] >= token[n]
<1>1. LeaseTypes /\ TokensDistinct /\ OwnerFences /\ Issued
  BY Zenon DEF LeaseIInv
<1>2. stored' = stored /\ next_token' = next_token
  BY Zenon DEF Conclude, backend
<1>3. /\ \A m \in Candidates \ {n} : token'[m] = token[m]
      /\ token'[n] = token[n] \/ (Won(n) /\ token'[n] = told[n].token)
      /\ token' \in [Candidates -> 0 .. MaxToken]
      /\ state' \in [Candidates -> {"Standby", "Active", "Draining"}]
      /\ cached' \in [Candidates -> 0 .. MaxToken]
  BY ConcludeToken, Zenon
<1>4. /\ told' \in [Candidates -> Answers]
      /\ told'[n].owner = NoOwner /\ told'[n].token = 0
      /\ \A m \in Candidates \ {n} : told'[m] = told[m]
  <2>1. told' = [told EXCEPT ![n] = Unasked] /\ told \in [Candidates -> Answers]
    BY <1>1, Zenon DEF Conclude, LeaseTypes
  <2>2. Unasked \in Answers /\ Unasked.owner = NoOwner /\ Unasked.token = 0
    BY LeaseAssumption DEF Unasked, Answers
  <2> QED
    BY <2>1, <2>2, Zenon
<1>5. ~Won(n)' /\ \A m \in Candidates \ {n} : Won(m)' = Won(m)
  BY <1>4, LeaseAssumption, Zenon DEF Won
<1>6. token'[n] >= token[n]
  <2>1. token[n] \in Nat /\ told[n].token \in Nat
    BY <1>1, LeaseAssumption DEF LeaseTypes, Answers
  <2>2. Won(n) => token[n] <= told[n].token
    BY <1>1, Zenon DEF Issued
  <2> QED
    BY <1>3, <2>1, <2>2
<1>7. LeaseTypes'
  BY <1>1, <1>2, <1>3, <1>4, Zenon DEF LeaseTypes
<1>8. TokensDistinct'
  <2>1. ASSUME NEW k \in Candidates, NEW m \in Candidates, k # m
        PROVE  /\ token'[k] # 0 => token'[k] # token'[m]
               /\ Won(k)' => told'[k].token # token'[m]
               /\ Won(k)' /\ Won(m)' => told'[k].token # told'[m].token
    <3>1. /\ token[k] # 0 => token[k] # token[m]
          /\ token[m] # 0 => token[m] # token[k]
          /\ Won(k) => told[k].token # token[m]
          /\ Won(m) => told[m].token # token[k]
          /\ Won(k) /\ Won(m) => told[k].token # told[m].token
      BY <1>1, <2>1, Zenon DEF TokensDistinct
    <3>2. CASE k = n
      BY <1>3, <1>5, <2>1, <3>1, <3>2, Zenon
    <3>3. CASE m = n
      BY <1>3, <1>4, <1>5, <2>1, <3>1, <3>3, Zenon
    <3>4. CASE k # n /\ m # n
      BY <1>3, <1>4, <1>5, <3>1, <3>4, Zenon
    <3> QED
      BY <3>2, <3>3, <3>4, Zenon
  <2> QED
    BY <2>1, Zenon DEF TokensDistinct
<1>9. OwnerFences'
  <2>1. ASSUME stored.owned, NEW m \in Candidates \ {stored.owner}
        PROVE  token'[m] < stored.token /\ (Won(m)' => told'[m].token < stored.token)
    <3>1. token[m] < stored.token /\ (Won(m) => told[m].token < stored.token)
      BY <1>1, <2>1, Zenon DEF OwnerFences
    <3>2. CASE m = n
      BY <1>3, <1>5, <3>1, <3>2, Zenon
    <3>3. CASE m # n
      BY <1>3, <1>4, <1>5, <3>1, <3>3, Zenon
    <3> QED
      BY <3>2, <3>3, Zenon
  <2> QED
    BY <1>2, <2>1, Zenon DEF OwnerFences
<1>10. Issued'
  <2>1. ASSUME NEW m \in Candidates PROVE token'[m] < next_token /\ told'[m].token < next_token
    <3>1. token[m] < next_token /\ told[m].token < next_token /\ 0 < next_token
      BY <1>1, LeaseAssumption DEF Issued, LeaseTypes
    <3> QED
      BY <1>3, <1>4, <3>1, Zenon
  <2>2. ASSUME stored.owned
        PROVE  /\ token'[stored.owner] <= stored.token
               /\ told'[stored.owner].owner = stored.owner
                      => told'[stored.owner].token <= stored.token
    <3>1. /\ stored.owner \in Candidates /\ token[stored.owner] <= stored.token
          /\ Won(stored.owner) => told[stored.owner].token <= stored.token
      BY <1>1, <2>2, Zenon DEF Issued
    <3>2. CASE stored.owner # n
      BY <1>3, <1>4, <3>1, <3>2, Zenon DEF Won
    <3>3. CASE stored.owner = n
      BY <1>3, <1>5, <3>1, <3>3, Zenon DEF Won
    <3> QED
      BY <3>2, <3>3, Zenon
  <2>3. ASSUME NEW m \in Candidates, Won(m)'
        PROVE  told'[m].token > 0 /\ token'[m] <= told'[m].token
    <3>1. m # n /\ Won(m)
      BY <1>5, <2>3, Zenon
    <3> QED
      BY <1>1, <1>3, <1>4, <3>1, Zenon DEF Issued
  <2> QED
    BY <1>1, <1>2, <2>1, <2>2, <2>3, Zenon DEF Issued, Won
<1> QED
  BY <1>6, <1>7, <1>8, <1>9, <1>10, Zenon DEF LeaseIInv

\* Every step of a manager, of the backend's operator or of the backend keeps the invariant.
LEMMA LeaseStep == LeaseIInv /\ [LeaseNext]_leaseVars => LeaseIInv'
<1> SUFFICES ASSUME LeaseIInv, [LeaseNext]_leaseVars PROVE LeaseIInv'
  OBVIOUS
<1>1. stored \in StoredLease /\ next_token \in 1 .. MaxToken + 1
  BY Zenon DEF LeaseIInv, LeaseTypes
<1>2. next_token <= next_token /\ next_token <= next_token + 1
  BY <1>1, LeaseAssumption
<1>3. ASSUME NEW n \in Candidates, LeaderDrains(n) \/ LeaderDrained(n) PROVE LeaseIInv'
  <2>1. state' \in [Candidates -> {"Standby", "Active", "Draining"}]
    BY <1>3, Zenon DEF LeaderDrains, LeaderDrained, LeaseIInv, LeaseTypes
  <2>2. UNCHANGED <<stored, next_token, told, cached, token>>
    BY <1>3, Zenon DEF LeaderDrains, LeaderDrained, backend
  <2> QED
    BY <2>1, <2>2, Zenon DEF LeaseIInv, LeaseTypes, Issued, TokensDistinct, OwnerFences, Won
<1>4. ASSUME NEW n \in Candidates, Release(n) PROVE LeaseIInv'
  <2>1. /\ stored' = [stored EXCEPT !.owned = FALSE] /\ next_token' = next_token
        /\ UNCHANGED <<told, manager>>
    BY <1>4, Zenon DEF Release
  <2>2. stored' \in StoredLease /\ ~stored'.owned /\ stored'.token = stored.token
    BY <1>1, <2>1, ZenonT(60) DEF StoredLease
  <2>3. Ordered(stored', next_token')
    BY <2>1, <2>2, OrderedNow, Zenon DEF Ordered
  <2> QED
    BY <1>1, <1>2, <2>1, <2>2, <2>3, BackendKeeps, Zenon
<1>5. ASSUME NEW n \in Candidates, Renew(n) PROVE LeaseIInv'
  <2>1. /\ stored' = [stored EXCEPT !.token = next_token] /\ next_token' = next_token + 1
        /\ UNCHANGED <<told, manager>> /\ stored.owner = n /\ next_token <= MaxToken
    BY <1>5, Zenon DEF Renew
  <2>2. stored' \in StoredLease /\ stored'.owner = n /\ stored'.token = next_token
    BY <1>1, <2>1, SMTT(60), Zenon DEF StoredLease
  <2> QED
    BY <1>2, <2>1, <2>2, NewToken, BackendKeeps, Zenon
<1>6. ASSUME NEW n \in Candidates, ForceGrant(n) PROVE LeaseIInv'
  <2>1. /\ stored' = Grant(n) /\ next_token' = next_token + 1
        /\ UNCHANGED <<told, manager>> /\ next_token <= MaxToken
    BY <1>6, Zenon DEF ForceGrant
  <2> QED
    BY <1>2, <2>1, GrantIsLease, NewToken, BackendKeeps, Zenon
<1>7. CASE ForceRevoke
  <2>1. stored' = NoLease /\ next_token' = next_token /\ UNCHANGED <<told, manager>>
    BY <1>7, Zenon DEF ForceRevoke
  <2>2. /\ NoLease \in StoredLease /\ ~NoLease.owned /\ NoLease.token = 0 /\ 0 < next_token
    BY <1>1, LeaseAssumption DEF NoLease, StoredLease
  <2>3. Ordered(stored', next_token')
    BY <2>1, <2>2, Zenon DEF Ordered
  <2> QED
    BY <1>1, <1>2, <2>1, <2>2, <2>3, BackendKeeps, Zenon
<1>8. CASE SimulateUnavailable \/ UNCHANGED leaseVars
  <2>1. stored' = stored /\ next_token' = next_token /\ UNCHANGED <<told, manager>>
    BY <1>8, Zenon DEF SimulateUnavailable, leaseVars, backend, manager
  <2> QED
    BY <1>1, <1>2, <2>1, OrderedNow, BackendKeeps, Zenon
<1> QED
  BY <1>3, <1>4, <1>5, <1>6, <1>7, <1>8, AskKeeps, ConcludeKeeps, Zenon DEF LeaseNext

\* Only acting on an answer changes a token, and never to an older one.
LEMMA TokenStep ==
    ASSUME LeaseIInv, [LeaseNext]_leaseVars, NEW n \in Candidates
    PROVE  token'[n] >= token[n]
<1>1. token[n] >= token[n]
  BY LeaseAssumption DEF LeaseIInv, LeaseTypes
<1>2. ASSUME NEW k \in Candidates, Conclude(k) PROVE token'[n] >= token[n]
  BY <1>1, <1>2, ConcludeKeeps, ConcludeToken, Zenon
<1>3. token' = token \/ \E k \in Candidates : Conclude(k)
  BY Zenon DEF LeaseNext, leaseVars, manager, Ask, LeaderDrains, LeaderDrained, Release, Renew,
               ForceGrant, ForceRevoke, SimulateUnavailable
<1> QED
  BY <1>1, <1>2, <1>3, Zenon

-----------------------------------------------------------------------------
\* The inductive invariant of the election through a backend, for any set of candidates and
\* any number of leases.
THEOREM LeaseInvariant == LeaseSpec => []LeaseIInv
  BY LeaseInitial, LeaseStep, PTL DEF LeaseSpec

\* However leases are acquired, renewed, released, granted and revoked by force, the backend
\* fails to answer, or a manager acts late on what it was told, no two nodes run the
\* singleton under one fencing token, no node goes back to an older one, and the owner of the
\* lease fences all the others (try_acquire, elect, on_node_state_change).
THEOREM LeaseIsSafe == LeaseSpec => LeaseSafety
<1>1. LeaseIInv => LeaseTypeOK /\ TokensDistinct /\ OwnerFences
  BY Zenon DEF LeaseIInv, LeaseTypes, LeaseTypeOK, StoredLease
<1>2. LeaseIInv /\ [LeaseNext]_leaseVars => [\A n \in Candidates : token'[n] >= token[n]]_leaseVars
  BY TokenStep, ZenonT(30)
<1> QED
  BY LeaseInvariant, <1>1, <1>2, PTL DEF LeaseSpec, LeaseSafety, TokenGrows
=============================================================================
