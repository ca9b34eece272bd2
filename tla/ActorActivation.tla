--------------------------- MODULE ActorActivation ---------------------------
(***************************************************************************)
(* How one actor gets to run: producers that enqueue into its mailbox and  *)
(* claim the wake-up (MPSCActorMailbox::enqueue_reserved), the ready gate  *)
(* (ActorReadyGate), the work items of the scheduler, and the workers that *)
(* execute it (HybridScheduler::execute_actor, BehaviorActorRunner::run,   *)
(* MPSCActorMailbox::dequeue).                                             *)
(*                                                                         *)
(* The lane is the chain of MpscMailbox with its last-node window left     *)
(* out: a sequence of nodes, each linked to its predecessor or not yet.    *)
(* Work items of the scheduler carry sequence 0 whenever workers are not   *)
(* paused, so a number stands for the items that name this actor.          *)
(***************************************************************************)
EXTENDS Integers, Sequences

CONSTANTS
    Senders,
    Workers,
    MaxMessages,       \* bound on the number of messages ever enqueued
    BatchLimit,        \* kBatchLimit of execute_actor (63)
    RequeueBudget,     \* kRequeueBudget of the runner (64)
    LostWakeupBudget,  \* kLostWakeupRequeueBudget (1)
    RateLimited        \* a rate limiter is installed and may deny

ASSUME BudgetAssumption ==
    /\ MaxMessages \in Nat
    /\ BatchLimit \in Nat /\ RequeueBudget \in Nat /\ LostWakeupBudget \in Nat
    /\ RateLimited \in BOOLEAN

VARIABLES
    state,       \* EventBasedActor::actor_state()
    items,       \* work items of this actor waiting in the scheduler
    was_empty,   \* mailbox_was_empty_
    lane,        \* nodes in the order of their exchange on head_
    linked,      \* nodes whose predecessor points to them
    count,       \* count_
    sent,        \* number of nodes exchanged so far
    ppc,         \* where a producer stands
    msg,         \* the node a producer enqueues
    wpc,         \* where a worker stands
    cycle,       \* cur.sequence of the worker's dispatch; also its batch index
    received,    \* history: messages given to EventBasedActor::receive
    events       \* history: which of the events that can lose a wake-up happened

mailboxVars == <<was_empty, lane, linked, count, sent>>
producerVars == <<ppc, msg>>
workerVars == <<wpc, cycle>>
history == <<received, events>>
activationVars == <<state, items, mailboxVars, producerVars, workerVars, history>>

Messages == 1 .. MaxMessages

\* "dropped_while_running": the gate dropped the notification of a producer that
\* had claimed mailbox_was_empty_ during a run; "gap": a dequeue met a node that
\* is not linked yet; "denied": the rate limiter refused; "gave_up": a run
\* that got no message suspended while mailbox_was_empty_ was disarmed.
Events == {"dropped_while_running", "gap", "denied", "gave_up"}

\* The pcs from the CAS to kRunning to the store or CAS that leaves it.
RunSteps == {"arm", "pop", "denied", "disarm", "recheck", "recheck_nothing",
             "received", "mark", "set_idle", "suspend"}
WorkerSteps == {"idle", "run", "requeue", "enqueue", "idle_check", "suspend_check", "readmit"}
               \cup RunSteps
ProducerSteps == {"idle", "link", "count", "claim", "admit", "enqueue"}

ActivationInit ==
    /\ state = "idle"
    /\ items = 0
    /\ was_empty = TRUE
    /\ lane = << >>
    /\ linked = {}
    /\ count = 0
    /\ sent = 0
    /\ ppc = [p \in Senders |-> "idle"]
    /\ msg = [p \in Senders |-> 0]
    /\ wpc = [w \in Workers |-> "idle"]
    /\ cycle = [w \in Workers |-> 0]
    /\ received = << >>
    /\ events = {}

PGoto(p, step) == ppc' = [ppc EXCEPT ![p] = step]
WGoto(w, step) == wpc' = [wpc EXCEPT ![w] = step]

-----------------------------------------------------------------------------
\* enqueue_reserved: lanes_.enqueue in its three steps, then the wake-up.
Exchange(p) ==
    /\ ppc[p] = "idle"
    /\ sent < MaxMessages
    /\ sent' = sent + 1
    /\ msg' = [msg EXCEPT ![p] = sent']
    /\ lane' = Append(lane, sent')
    /\ PGoto(p, "link")
    /\ UNCHANGED <<state, items, was_empty, linked, count, workerVars, history>>

Link(p) ==
    /\ ppc[p] = "link"
    /\ linked' = linked \cup {msg[p]}
    /\ PGoto(p, "count")
    /\ UNCHANGED <<state, items, was_empty, lane, count, sent, msg, workerVars, history>>

CountUp(p) ==
    /\ ppc[p] = "count"
    /\ count' = count + 1
    /\ PGoto(p, "claim")
    /\ UNCHANGED <<state, items, was_empty, lane, linked, sent, msg, workerVars, history>>

\* The compare-exchange true -> false on mailbox_was_empty_.
ClaimWakeup(p) ==
    /\ ppc[p] = "claim"
    /\ was_empty' = FALSE
    /\ PGoto(p, IF was_empty THEN "admit" ELSE "idle")
    /\ UNCHANGED <<state, items, lane, linked, count, sent, msg, workerVars, history>>

\* Mutant: an actor that is running is made ready as well.
AdmitRunning(p) ==
    /\ ppc[p] = "admit"
    /\ IF state # "ready"
       THEN state' = "ready" /\ PGoto(p, "enqueue")
       ELSE state' = state /\ PGoto(p, "idle")
    /\ UNCHANGED <<items, mailboxVars, msg, workerVars, history>>

\* notify_ready_fast: try_mark_ready accepts only an idle actor.
Admit(p) ==
    /\ ppc[p] = "admit"
    /\ IF state = "idle"
       THEN state' = "ready" /\ PGoto(p, "enqueue")
       ELSE state' = state /\ PGoto(p, "idle")
    /\ events' = events \cup (IF state = "running" THEN {"dropped_while_running"} ELSE {})
    /\ UNCHANGED <<items, mailboxVars, msg, workerVars, received>>

EnqueueItem(p) ==
    /\ ppc[p] = "enqueue"
    /\ items' = items + 1
    /\ PGoto(p, "idle")
    /\ UNCHANGED <<state, mailboxVars, msg, workerVars, history>>

Send(p) ==
    \/ Exchange(p) \/ Link(p) \/ CountUp(p) \/ ClaimWakeup(p) \/ Admit(p) \/ EnqueueItem(p)

\* The rest of an enqueue that has begun.
FinishSend(p) == Send(p) /\ ppc[p] # "idle"

-----------------------------------------------------------------------------
\* mailbox->empty()
MailboxEmpty == count = 0

\* What MPSCMailbox::dequeue can hand out: the first node once it is linked
\* and either the newest or itself linked to its successor.
Poppable ==
    /\ lane # << >>
    /\ lane[1] \in linked
    /\ Len(lane) > 1 => lane[2] \in linked

\* A worker pops a work item of this actor and calls execute_actor.
Take(w) ==
    /\ wpc[w] = "idle"
    /\ items > 0
    /\ items' = items - 1
    /\ cycle' = [cycle EXCEPT ![w] = 0]
    /\ WGoto(w, "run")
    /\ UNCHANGED <<state, mailboxVars, producerVars, history>>

\* The CAS kReady -> kRunning; on failure the item is skipped.
BeginRun(w) ==
    /\ wpc[w] = "run"
    /\ IF state = "ready"
       THEN state' = "running" /\ WGoto(w, "arm")
       ELSE state' = state /\ WGoto(w, "idle")
    /\ UNCHANGED <<items, mailboxVars, producerVars, cycle, history>>

\* dequeue: mailbox_was_empty_ is re-armed before the lanes are looked at.
Arm(w) ==
    /\ wpc[w] = "arm"
    /\ was_empty' = TRUE
    /\ WGoto(w, "pop")
    /\ UNCHANGED <<state, items, lane, linked, count, sent, producerVars, cycle, history>>

Pop(w) ==
    /\ wpc[w] = "pop"
    /\ Poppable
    /\ received' = Append(received, lane[1])
    /\ lane' = Tail(lane)
    /\ count' = count - 1
    /\ WGoto(w, "disarm")
    /\ UNCHANGED <<state, items, was_empty, linked, sent, producerVars, cycle, events>>

PopNothing(w) ==
    /\ wpc[w] = "pop"
    /\ ~Poppable
    /\ events' = events \cup (IF lane = << >> THEN {} ELSE {"gap"})
    /\ WGoto(w, "recheck_nothing")
    /\ UNCHANGED <<state, items, mailboxVars, producerVars, cycle, received>>

\* The rate limiter denies: the message goes to the back of lane 0.
PopDenied(w) ==
    /\ RateLimited
    /\ wpc[w] = "pop"
    /\ Poppable
    /\ lane' = Append(Tail(lane), lane[1])
    /\ events' = events \cup {"denied"}
    /\ WGoto(w, "denied")
    /\ UNCHANGED <<state, items, was_empty, linked, count, sent, producerVars, cycle, received>>

\* ... and mailbox_was_empty_ is cleared; this path has no second look.
DisarmDenied(w) ==
    /\ wpc[w] = "denied"
    /\ was_empty' = FALSE
    /\ WGoto(w, "suspend")
    /\ UNCHANGED <<state, items, lane, linked, count, sent, producerVars, cycle, history>>

Disarm(w) ==
    /\ wpc[w] = "disarm"
    /\ was_empty' = (was_empty /\ MailboxEmpty)
    /\ WGoto(w, "recheck")
    /\ UNCHANGED <<state, items, lane, linked, count, sent, producerVars, cycle, history>>

\* After the unlock: a wake-up claimed here goes to notify_ready, which finds
\* the actor running (RunnerState) and drops it.
Recheck(w) ==
    /\ wpc[w] \in {"recheck", "recheck_nothing"}
    /\ was_empty' = (was_empty /\ MailboxEmpty)
    /\ WGoto(w, IF wpc[w] = "recheck" THEN "received" ELSE "suspend")
    /\ UNCHANGED <<state, items, lane, linked, count, sent, producerVars, cycle, history>>

\* BehaviorActorRunner::run after receive().
AfterReceive(w) ==
    /\ wpc[w] = "received"
    /\ WGoto(w, IF ~MailboxEmpty /\ cycle[w] < RequeueBudget THEN "mark" ELSE "set_idle")
    /\ UNCHANGED <<state, items, mailboxVars, producerVars, cycle, history>>

\* mark_ready_already_admitted
MarkReady(w) ==
    /\ wpc[w] = "mark"
    /\ state' = "ready"
    /\ WGoto(w, "requeue")
    /\ UNCHANGED <<items, mailboxVars, producerVars, cycle, history>>

SetIdle(w) ==
    /\ wpc[w] = "set_idle"
    /\ state' = "idle"
    /\ WGoto(w, "idle_check")
    /\ UNCHANGED <<items, mailboxVars, producerVars, cycle, history>>

IdleCheck(w) ==
    /\ wpc[w] = "idle_check"
    /\ WGoto(w, IF MailboxEmpty THEN "idle" ELSE "readmit")
    /\ UNCHANGED <<state, items, mailboxVars, producerVars, cycle, history>>

\* The path of a try_pop that returned nothing.
Suspend(w) ==
    /\ wpc[w] = "suspend"
    /\ state' = "idle"
    /\ WGoto(w, "suspend_check")
    /\ UNCHANGED <<items, mailboxVars, producerVars, cycle, history>>

SuspendCheck(w) ==
    /\ wpc[w] = "suspend_check"
    /\ WGoto(w, IF ~MailboxEmpty /\ cycle[w] < LostWakeupBudget THEN "readmit" ELSE "idle")
    /\ events' = events \cup (IF was_empty \/ (~MailboxEmpty /\ cycle[w] < LostWakeupBudget)
                             THEN {} ELSE {"gave_up"})
    /\ UNCHANGED <<state, items, mailboxVars, producerVars, cycle, received>>

\* try_mark_ready: Accepted and AlreadyReady both requeue.
Readmit(w) ==
    /\ wpc[w] = "readmit"
    /\ state' = IF state = "idle" THEN "ready" ELSE state
    /\ WGoto(w, IF state = "running" THEN "idle" ELSE "requeue")
    /\ UNCHANGED <<items, mailboxVars, producerVars, cycle, history>>

\* execute_actor on RequeueReady: another round of the batch, or back to the
\* scheduler.
Requeue(w) ==
    /\ wpc[w] = "requeue"
    /\ IF cycle[w] < BatchLimit
       THEN cycle' = [cycle EXCEPT ![w] = @ + 1] /\ WGoto(w, "run")
       ELSE cycle' = cycle /\ WGoto(w, "enqueue")
    /\ UNCHANGED <<state, items, mailboxVars, producerVars, history>>

\* Mutant: the batch ends without handing the actor back to the scheduler.
ReenqueueDropped(w) ==
    /\ wpc[w] = "enqueue"
    /\ WGoto(w, "idle")
    /\ UNCHANGED <<state, items, mailboxVars, producerVars, cycle, history>>

Reenqueue(w) ==
    /\ wpc[w] = "enqueue"
    /\ items' = items + 1
    /\ WGoto(w, "idle")
    /\ UNCHANGED <<state, mailboxVars, producerVars, cycle, history>>

Work(w) ==
    \/ Take(w) \/ BeginRun(w) \/ Arm(w) \/ Pop(w) \/ PopNothing(w) \/ PopDenied(w)
    \/ DisarmDenied(w) \/ Disarm(w) \/ Recheck(w) \/ AfterReceive(w) \/ MarkReady(w)
    \/ SetIdle(w) \/ IdleCheck(w) \/ Suspend(w) \/ SuspendCheck(w) \/ Readmit(w)
    \/ Requeue(w) \/ Reenqueue(w)

ActivationNext == (\E p \in Senders : Send(p)) \/ (\E w \in Workers : Work(w))

ActivationSpec == ActivationInit /\ [][ActivationNext]_activationVars

\* A producer that has begun an enqueue finishes it (none need begin one),
\* workers never stop, and a rate limiter that is asked again and again grants a token in the end.
ActivationFairness ==
    /\ \A p \in Senders : WF_activationVars(FinishSend(p))
    /\ \A w \in Workers : WF_activationVars(Work(w)) /\ SF_activationVars(Pop(w))

-----------------------------------------------------------------------------
ActivationTypeOK ==
    /\ state \in {"idle", "ready", "running"}
    /\ items \in Nat
    /\ was_empty \in BOOLEAN
    /\ lane \in Seq(Messages) /\ linked \subseteq 0 .. MaxMessages
    /\ count \in Int /\ sent \in 0 .. MaxMessages
    /\ ppc \in [Senders -> ProducerSteps] /\ msg \in [Senders -> 0 .. MaxMessages]
    /\ wpc \in [Workers -> WorkerSteps] /\ cycle \in [Workers -> Nat]
    /\ received \in Seq(Messages) /\ events \subseteq Events

Runs(w) == wpc[w] \in RunSteps

\* An actor is run by at most one worker at a time, whatever number of work
\* items for it are in flight.
OneRunner == \A v, w \in Workers : Runs(v) /\ Runs(w) => v = w

\* kRunning is exactly the time a worker is between the two ends of a run.
RunnerState == (state = "running") <=> \E w \in Workers : Runs(w)

\* An actor in kReady is never forgotten: a work item for it waits, or a
\* producer or worker is about to add one or to run it.
ReadyIsDispatched ==
    state = "ready" =>
        \/ items > 0
        \/ \E p \in Senders : ppc[p] = "enqueue"
        \/ \E w \in Workers : wpc[w] \in {"run", "requeue", "enqueue"}

\* The three together are inductive.
GateInv == ActivationTypeOK /\ OneRunner /\ RunnerState /\ ReadyIsDispatched

AtRest ==
    /\ items = 0
    /\ \A p \in Senders : ppc[p] \notin {"admit", "enqueue"}
    /\ \A w \in Workers : wpc[w] = "idle"

Quiet == AtRest /\ \A p \in Senders : ppc[p] = "idle"

Received == {received[i] : i \in 1 .. Len(received)}

WakeupLost == events \cap {"dropped_while_running", "gave_up"} # {}

\* Every message sent (at most MaxMessages are) is received in the end, unless
\* one of the two happened.
ReceivedUnlessLost == []<>(1 .. sent \subseteq Received \/ WakeupLost)

\* "If the mailbox becomes empty after dequeue, mailbox_was_empty_ is set to
\* true, re-arming the edge-triggered wakeup for the next enqueue."
RearmedWhenEmpty == AtRest /\ lane = << >> => was_empty

\* "A single re-dispatch is enough for the genuine lost-wakeup window": as
\* long as no producer's notification was dropped, no message is left behind.
SingleRedispatchEnough ==
    Quiet /\ "dropped_while_running" \notin events => lane = << >>

\* "the actor suspends and the next external wakeup (timer, cross-actor
\* message) retries": after a denial, an enqueue that gets to its wake-up step
\* while the actor is at rest finds the flag armed.
NextMessageRetriesDenied ==
    (/\ AtRest /\ events = {"denied", "gave_up"}
     /\ \E p \in Senders : ppc[p] = "claim") => was_empty
=============================================================================
