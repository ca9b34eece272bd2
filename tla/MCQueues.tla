------------------------------ MODULE MCQueues ------------------------------
(* Bounds for model checking the queues that messages, work items and     *)
(* timers pass through. They share no state: a behaviour follows the one that *)
(* `queue' names, and the others stay as they start.                          *)
EXTENDS DisruptorMpscRing, MpscMailbox, ChaseLevDeque, ActorActivation, CalendarQueue

CONSTANT Queues

VARIABLE queue

allVars == <<vars, mpscVars, dequeVars, activationVars, calendarVars, queue>>

MCInit ==
    /\ queue \in Queues
    /\ Init /\ MpscInit /\ DequeInit /\ ActivationInit /\ CalendarInit

MCNext ==
    /\ UNCHANGED queue
    /\ \/ queue = "ring" /\ Next /\ UNCHANGED <<mpscVars, dequeVars, activationVars, calendarVars>>
       \/ queue = "mpsc" /\ MpscNext /\ UNCHANGED <<vars, dequeVars, activationVars, calendarVars>>
       \/ queue = "deque" /\ DequeNext /\ UNCHANGED <<vars, mpscVars, activationVars, calendarVars>>
       \/ queue = "activation" /\ ActivationNext /\ UNCHANGED <<vars, mpscVars, dequeVars, calendarVars>>
       \/ queue = "calendar" /\ CalendarNext
          /\ UNCHANGED <<vars, mpscVars, dequeVars, activationVars>>

MCSpec == MCInit /\ [][MCNext]_allVars /\ Fairness /\ MpscFairness /\ ActivationFairness
=============================================================================
