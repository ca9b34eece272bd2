-------------------------- MODULE MessagingProofs ---------------------------
(***************************************************************************)
(* Proofs about messages and their answers: how a message passes           *)
(* deduplication and the mailbox (DeliveryPipeline, for any sends, keys    *)
(* and capacities), and how an ask gets one answer (AskRequests, for any   *)
(* set of asks).                                                           *)
(***************************************************************************)
EXTENDS DeliveryPipeline, AskRequests, FiniteSetTheorems, TLAPS

(***************************************************************************)
(* A key enters the mailbox once, and a refused send may be retried        *)
(***************************************************************************)

\* A tracked send that has passed is_duplicate and was not rolled back.
Holds(s) == s \in Tracked /\ (pc[s] \in {"push", "rollback"} \/ s \in entered)

SendTypes ==
    /\ pc \in [Sends -> Stages] /\ result \in [Sends -> Results]
    /\ entered \subseteq Sends /\ mbox \in Seq(Sends) /\ Len(mbox) <= MailboxCapacity

CacheTypes ==
    /\ IsFiniteSet(entries) /\ entries \subseteq Keys /\ Cardinality(entries) <= CacheMax
    /\ forgotten \subseteq Keys

Receiving == {"idle", "receive", "failed", "failed_fast", "pressure", "trip_failed",
              "trip_failed_fast", "trip_pressure"}

WorkerTypes ==
    /\ cb_state \in {"Closed", "Open", "HalfOpen"} /\ cb_trips \in Nat
    /\ cb_probe \in BOOLEAN /\ cooled \in BOOLEAN
    /\ lc \in {"Active", "Quarantined", "Stopped"}
    /\ receiving \in Receiving /\ taken \in Sends \cup {None}
    /\ probes \subseteq Sends /\ wasted \in BOOLEAN

\* The dead letter queue is within its capacity, and every letter is in it or counted.
Letters ==
    /\ dlq \in Seq(Sends) /\ dlq_cap \in Nat \ {0} /\ Len(dlq) <= dlq_cap
    /\ dlq_popped \in Nat /\ dlq_lost \in Nat /\ dead \in Nat
    /\ DeadLettersAccounted

\* A message enters the mailbox as the last thing its thread does.
EnteredIsDone == \A s \in entered : pc[s] = "done"

\* While the cache has not evicted a key, at most one send holds it, and its key is there.
KeyHeldOnce ==
    \A k \in Keys \ forgotten : \A s \in Sends : Holds(s) /\ Key[s] = k =>
        /\ k \in entries
        /\ \A t \in Sends : Holds(t) /\ Key[t] = k => t = s

Filter == EnteredIsDone /\ KeyHeldOnce /\ RetriesNotSuppressed

DeliveryIInv ==
    SendTypes /\ CacheTypes /\ WorkerTypes /\ Letters /\ Filter /\ RefusalsHaveAProbe

-----------------------------------------------------------------------------
\* An empty pipeline satisfies the invariant.
LEMMA DeliveryInitial == DeliveryInit => DeliveryIInv
<1> SUFFICES ASSUME DeliveryInit PROVE DeliveryIInv
  BY Zenon
<1> USE PipelineAssumption DEF DeliveryInit
<1>1. IsFiniteSet(entries) /\ Cardinality(entries) = 0
  BY FS_EmptySet, Zenon
<1>2. SendTypes
  BY DEF SendTypes, Stages, Results
<1>3. CacheTypes
  BY <1>1 DEF CacheTypes
<1>4. WorkerTypes
  BY Zenon DEF WorkerTypes, Receiving
<1>5. Letters
  BY DEF Letters, DeadLettersAccounted
<1>6. Filter
  BY Zenon DEF Filter, EnteredIsDone, KeyHeldOnce, Holds, RetriesNotSuppressed
<1> QED
  BY <1>2, <1>3, <1>4, <1>5, <1>6, ZenonT(60) DEF DeliveryIInv, RefusalsHaveAProbe

-----------------------------------------------------------------------------
(* The dead letter queue. *)

\* A queue that is left alone still accounts for its letters.
LEMMA LettersKept == ASSUME Letters, UNCHANGED letters PROVE Letters'
  BY Zenon DEF Letters, letters, DeadLettersAccounted

\* push(): a full queue loses its oldest or the new record, and counts it.
LEMMA DeadLetterCounted == ASSUME Letters, NEW s \in Sends, DeadLetter(s) PROVE Letters'
<1>1. /\ dlq \in Seq(Sends) /\ Len(dlq) \in Nat /\ dlq_cap \in Nat \ {0} /\ Len(dlq) <= dlq_cap
      /\ dlq_popped \in Nat /\ dlq_lost \in Nat /\ dead \in Nat /\ dead = Len(dlq) + dlq_popped + dlq_lost
  BY DEF Letters, DeadLettersAccounted
<1>2. dead' = dead + 1 /\ dlq_cap' = dlq_cap /\ dlq_popped' = dlq_popped
  BY Zenon DEF DeadLetter
<1>3. /\ dlq' \in Seq(Sends)
      /\ \/ Len(dlq) < dlq_cap /\ Len(dlq') = Len(dlq) + 1 /\ dlq_lost' = dlq_lost
         \/ Len(dlq') = Len(dlq) /\ dlq_lost' = dlq_lost + 1
  <2>1. CASE Len(dlq) < dlq_cap
    <3>1. dlq' = Append(dlq, s) /\ dlq_lost' = dlq_lost
      BY <2>1, Zenon DEF DeadLetter
    <3> QED
      BY <1>1, <2>1, <3>1, SMTT(60), Zenon
  <2>2. CASE ~(Len(dlq) < dlq_cap)
    <3>1. dlq_lost' = dlq_lost + 1 /\ dlq' \in {Append(Tail(dlq), s), dlq}
      BY <2>2, Zenon DEF DeadLetter
    <3>2. dlq # <<>>
      BY <1>1, <2>2, SMTT(60), Zenon
    <3>3. Append(Tail(dlq), s) \in Seq(Sends) /\ Len(Append(Tail(dlq), s)) = Len(dlq)
      BY <1>1, <3>2
    <3> QED
      BY <1>1, <3>1, <3>3, ZenonT(60)
  <2> QED
    BY <2>1, <2>2, ZenonT(60)
<1>4. Len(dlq') <= dlq_cap' /\ dlq_lost' \in Nat /\ dead' = Len(dlq') + dlq_popped' + dlq_lost'
  <2>1. CASE Len(dlq) < dlq_cap /\ Len(dlq') = Len(dlq) + 1 /\ dlq_lost' = dlq_lost
    BY <1>1, <1>2, <2>1, SMTT(60), Zenon
  <2>2. CASE Len(dlq') = Len(dlq) /\ dlq_lost' = dlq_lost + 1
    BY <1>1, <1>2, <2>2, SMTT(60), Zenon
  <2> QED
    BY <1>3, <2>1, <2>2, ZenonT(60)
<1>5. dead' \in Nat
  BY <1>1, <1>2, SMTT(60), Zenon
<1> QED
  BY <1>1, <1>2, <1>3, <1>4, <1>5, ZenonT(60) DEF Letters, DeadLettersAccounted

\* try_pop_at() takes out one record.
LEMMA PopCounted == ASSUME Letters, DlqPop PROVE Letters'
<1>1. PICK i \in 1 .. Len(dlq) :
         dlq' = SubSeq(dlq, 1, i - 1) \o SubSeq(dlq, i + 1, Len(dlq)) /\ dlq_popped' = dlq_popped + 1
  BY Zenon DEF DlqPop
<1>2. dlq \in Seq(Sends) /\ Len(dlq) \in Nat /\ i \in Nat /\ i >= 1 /\ i <= Len(dlq)
  BY DEF Letters
<1> DEFINE a == SubSeq(dlq, 1, i - 1)
           b == SubSeq(dlq, i + 1, Len(dlq))
<1>3. a \in Seq(Sends) /\ Len(a) = i - 1
  BY <1>2
<1>4. b \in Seq(Sends) /\ Len(b) = Len(dlq) - i
  BY <1>2
<1>5. a \o b \in Seq(Sends) /\ Len(a \o b) = Len(dlq) - 1
  <2> HIDE DEF a, b
  <2>1. a \o b \in Seq(Sends) /\ Len(a \o b) = Len(a) + Len(b)
    BY <1>3, <1>4, SMTT(60), Zenon
  <2> QED
    BY <1>2, <1>3, <1>4, <2>1, SMTT(60), Zenon
<1>6. dlq' \in Seq(Sends) /\ Len(dlq') = Len(dlq) - 1
  BY <1>1, <1>5, Zenon
<1>7. UNCHANGED <<dlq_cap, dlq_lost, dead>> /\ dlq_popped' = dlq_popped + 1
  BY <1>1, Zenon DEF DlqPop
<1> QED
  BY <1>2, <1>6, <1>7, SMTT(60), Zenon DEF Letters, DeadLettersAccounted

\* reconfigure() keeps the newest record and counts the others as lost.
LEMMA ReconfigureCounted == ASSUME Letters, DlqReconfigure PROVE Letters'
<1> USE DEF Letters, DeadLettersAccounted
<1>0. dlq_cap' = 1 /\ UNCHANGED <<dlq_popped, dead>> /\ Len(dlq) \in Nat
  BY DEF DlqReconfigure
<1>1. CASE Len(dlq) > 1
  <2>1. SubSeq(dlq, Len(dlq), Len(dlq)) \in Seq(Sends) /\ Len(SubSeq(dlq, Len(dlq), Len(dlq))) = 1
    BY <1>1
  <2>2. dlq' \in Seq(Sends) /\ Len(dlq') = 1 /\ dlq_lost' = dlq_lost + Len(dlq) - 1
    BY <1>1, <2>1, ZenonT(60) DEF DlqReconfigure
  <2> QED
    BY <1>0, <1>1, <2>2, SMTT(60), Zenon
<1>2. CASE ~(Len(dlq) > 1)
  <2>1. UNCHANGED <<dlq, dlq_lost>>
    BY <1>2, Zenon DEF DlqReconfigure
  <2> QED
    BY <1>0, <1>2, <2>1, SMTT(60), Zenon
<1> QED
  BY <1>1, <1>2, ZenonT(60)

-----------------------------------------------------------------------------
(* The duplicate filter. *)

\* is_duplicate() of a key it does not have: afterwards the cache is within its limit, and
\* whatever is no longer in it, the new key included, is forgotten.
LEMMA InsertBounds ==
    ASSUME CacheTypes, NEW k \in Keys, Insert(k)
    PROVE  /\ CacheTypes'
           /\ entries' \subseteq entries \cup {k} /\ forgotten \subseteq forgotten'
           /\ (entries \cup {k}) \ entries' \subseteq forgotten'
<1> DEFINE all == entries \cup {k}
           surplus == IF CacheMax < 20 THEN 1 ELSE CacheMax \div 10
<1>1. /\ IsFiniteSet(all) /\ Cardinality(all) \in Nat
      /\ Cardinality(entries) \in Nat /\ Cardinality(all) <= Cardinality(entries) + 1
  <2>1. IsFiniteSet(entries)
    BY Zenon DEF CacheTypes
  <2>2. /\ IsFiniteSet(all)
        /\ Cardinality(all) = IF k \in entries THEN Cardinality(entries) ELSE Cardinality(entries) + 1
    BY <2>1, FS_AddElement, ZenonT(60)
  <2>3. Cardinality(entries) \in Nat
    BY <2>1, FS_CardinalityType, Zenon
  <2> QED
    BY <2>2, <2>3, SMTT(60), Zenon
<1>2. CASE Cardinality(all) <= CacheMax
  BY <1>1, <1>2, ZenonT(60) DEF Insert, CacheTypes
<1>3. CASE ~(Cardinality(all) <= CacheMax)
  <2>1. PICK E \in SUBSET all : /\ Cardinality(E) = surplus
                                /\ entries' = all \ E /\ forgotten' = forgotten \cup E
    BY <1>3, ZenonT(60) DEF Insert
  <2>2. surplus \in Nat /\ surplus >= 1
    BY PipelineAssumption
  <2>3. IsFiniteSet(all \ E) /\ Cardinality(all \ E) = Cardinality(all) - Cardinality(all \cap E)
    BY <1>1, FS_Difference, ZenonT(60)
  <2>4. all \cap E = E
    BY Zenon
  <2>5. Cardinality(all \ E) = Cardinality(all) - surplus
    BY <2>1, <2>3, <2>4, ZenonT(60)
  <2>6. Cardinality(all \ E) <= CacheMax
    <3>1. Cardinality(entries) <= CacheMax /\ CacheMax \in Nat
      BY PipelineAssumption, ZenonT(60) DEF CacheTypes
    <3> HIDE DEF all, surplus
    <3> QED
      BY <1>1, <2>2, <2>5, <3>1, SMTT(60), Zenon
  <2> QED
    BY <2>1, <2>3, <2>6, ZenonT(60) DEF CacheTypes
<1> QED
  BY <1>2, <1>3, ZenonT(60)

\* remove() leaves a smaller cache.
LEMMA RemoveBounds ==
    ASSUME CacheTypes, entries' \subseteq entries, UNCHANGED forgotten PROVE CacheTypes'
<1>1. IsFiniteSet(entries') /\ Cardinality(entries') <= Cardinality(entries)
  BY FS_Subset, Zenon DEF CacheTypes
<1>2. Cardinality(entries') \in Nat /\ Cardinality(entries) \in Nat
  BY <1>1, FS_CardinalityType, ZenonT(60) DEF CacheTypes
<1> QED
  BY <1>1, <1>2, PipelineAssumption, SMTT(60), Zenon DEF CacheTypes

filterVars == <<pc, entries, entered, forgotten>>

\* Steps that touch neither stages nor cache keep what the filter guarantees.
LEMMA FilterKept == ASSUME Filter, UNCHANGED filterVars PROVE Filter'
  BY DEF Filter, filterVars, EnteredIsDone, KeyHeldOnce, Holds, RetriesNotSuppressed

\* So do the stages before is_duplicate, and those that return without a push.
LEMMA EarlyStageKeeps ==
    ASSUME SendTypes, Filter, NEW s \in Sends, pc[s] \in {"new", "half_open", "probe", "check"},
           NEW to \in {"half_open", "probe", "check", "done"}, Step(s, to),
           UNCHANGED <<entries, entered, forgotten>>
    PROVE  Filter'
<1>1. pc'[s] = to /\ \A t \in Sends : t # s => pc'[t] = pc[t]
  BY Zenon DEF Step, SendTypes
<1>2. s \notin entered
  BY Zenon DEF Filter, EnteredIsDone
<1>3. \A t \in Sends : Holds(t)' <=> Holds(t)
  BY <1>1, <1>2, ZenonT(60) DEF Holds
<1>4. EnteredIsDone'
  BY <1>1, <1>2, ZenonT(60) DEF Filter, EnteredIsDone, SendTypes
<1>5. KeyHeldOnce'
  BY <1>3, Zenon DEF Filter, KeyHeldOnce
<1>6. RetriesNotSuppressed'
  BY <1>1, PipelineAssumption, ZenonT(60) DEF Filter, RetriesNotSuppressed
<1> QED
  BY <1>4, <1>5, <1>6, ZenonT(60) DEF Filter

\* An untracked message passes the filter without leaving a key.
LEMMA UntrackedKeeps ==
    ASSUME SendTypes, Filter, NEW s \in Sends \ Tracked, pc[s] = "check", Step(s, "push"),
           UNCHANGED <<entries, entered, forgotten>>
    PROVE  Filter'
<1>1. pc'[s] = "push" /\ \A t \in Sends : t # s => pc'[t] = pc[t]
  BY Zenon DEF Step, SendTypes
<1>2. s \notin entered
  BY Zenon DEF Filter, EnteredIsDone
<1>3. \A t \in Sends : Holds(t)' <=> Holds(t)
  BY <1>1, Zenon DEF Holds
<1>4. EnteredIsDone'
  BY <1>1, <1>2, ZenonT(60) DEF Filter, EnteredIsDone, SendTypes
<1>5. KeyHeldOnce'
  BY <1>3, ZenonT(60) DEF Filter, KeyHeldOnce
<1>6. RetriesNotSuppressed'
  BY <1>1, PipelineAssumption, ZenonT(60) DEF Filter, RetriesNotSuppressed
<1> QED
  BY <1>4, <1>5, <1>6, ZenonT(60) DEF Filter

\* A tracked message whose key is not in the cache becomes the holder of its key; keys that
\* are evicted with it are forgotten.
LEMMA AdmissionKeeps ==
    ASSUME SendTypes, Filter, NEW s \in Tracked, s \in Sends, pc[s] = "check", Step(s, "push"),
           Key[s] \notin entries, UNCHANGED entered,
           entries' \subseteq entries \cup {Key[s]}, forgotten \subseteq forgotten',
           (entries \cup {Key[s]}) \ entries' \subseteq forgotten'
    PROVE  Filter'
<1>1. pc'[s] = "push" /\ \A t \in Sends : t # s => pc'[t] = pc[t]
  BY Zenon DEF Step, SendTypes
<1>2. s \notin entered
  BY Zenon DEF Filter, EnteredIsDone
<1>3. \A t \in Sends : Holds(t)' <=> Holds(t) \/ t = s
  BY <1>1, <1>2, ZenonT(60) DEF Holds
<1>4. EnteredIsDone'
  BY <1>1, <1>2, ZenonT(60) DEF Filter, EnteredIsDone, SendTypes
<1>5. KeyHeldOnce'
  <2> SUFFICES ASSUME NEW k \in Keys \ forgotten', NEW t \in Sends, Holds(t)', Key[t] = k
               PROVE  k \in entries' /\ \A u \in Sends : Holds(u)' /\ Key[u] = k => u = t
    BY Zenon DEF KeyHeldOnce
  <2>1. k \in Keys \ forgotten
    BY Zenon
  <2>2. CASE k = Key[s]
    <3>1. \A u \in Sends : Key[u] = k => ~Holds(u)
      BY <2>1, <2>2, ZenonT(60) DEF Filter, KeyHeldOnce
    <3> QED
      BY <2>2, <3>1, <1>3, ZenonT(60)
  <2>3. CASE k # Key[s]
    <3>1. t # s /\ Holds(t) /\ \A u \in Sends : Key[u] = k => u # s
      BY <2>3, <1>3, ZenonT(60)
    <3>2. k \in entries /\ \A u \in Sends : Holds(u) /\ Key[u] = k => u = t
      BY <2>1, <3>1, ZenonT(60) DEF Filter, KeyHeldOnce
    <3> QED
      BY <3>1, <3>2, <1>3, Zenon
  <2> QED
    BY <2>2, <2>3, ZenonT(60)
<1>6. RetriesNotSuppressed'
  BY <1>1, PipelineAssumption, ZenonT(60) DEF Filter, RetriesNotSuppressed
<1> QED
  BY <1>4, <1>5, <1>6, ZenonT(60) DEF Filter

\* The push: the holder of a key enters the mailbox, or goes on to the roll-back.
LEMMA PushKeeps ==
    ASSUME SendTypes, Filter, NEW s \in Sends, PushMessage(s)
    PROVE  Filter'
<1>1. /\ pc[s] = "push" /\ UNCHANGED <<entries, forgotten>>
      /\ \/ pc' = [pc EXCEPT ![s] = "done"] /\ entered' = entered \cup {s}
         \/ pc' = [pc EXCEPT ![s] = "rollback"] /\ entered' = entered
  BY Zenon DEF PushMessage, Return, Step, deliveryHistory
<1>2. \A t \in Sends : t # s => pc'[t] = pc[t]
  BY <1>1, Zenon DEF SendTypes
<1>3. \/ pc'[s] = "done" /\ entered' = entered \cup {s}
      \/ pc'[s] = "rollback" /\ entered' = entered
  BY <1>1, Zenon DEF SendTypes
<1>4. s \notin entered
  BY <1>1, Zenon DEF Filter, EnteredIsDone
<1>5. \A t \in Sends : Holds(t)' <=> Holds(t)
  BY <1>1, <1>2, <1>3, ZenonT(60) DEF Holds
<1>6. EnteredIsDone'
  BY <1>2, <1>3, <1>4, SMTT(60), Zenon DEF Filter, EnteredIsDone, SendTypes
<1>7. KeyHeldOnce'
  BY <1>1, <1>5, ZenonT(60) DEF Filter, KeyHeldOnce
<1>8. RetriesNotSuppressed'
  BY <1>1, <1>2, <1>3, PipelineAssumption, ZenonT(60) DEF Filter, RetriesNotSuppressed
<1> QED
  BY <1>6, <1>7, <1>8, ZenonT(60) DEF Filter

\* The roll-back takes out the key of the one send that held it, so that a retry is not
\* taken for a duplicate.
LEMMA RollbackKeeps ==
    ASSUME SendTypes, Filter, NEW s \in Sends, Rollback(s)
    PROVE  Filter'
<1>1. /\ pc[s] = "rollback" /\ pc' = [pc EXCEPT ![s] = "done"] /\ UNCHANGED <<entered, forgotten>>
      /\ entries' = IF s \in Tracked THEN entries \ {Key[s]} ELSE entries
  BY Zenon DEF Rollback, Return, Step
<1>2. pc'[s] = "done" /\ \A t \in Sends : t # s => pc'[t] = pc[t]
  BY <1>1, ZenonT(60) DEF SendTypes
<1>3. s \notin entered
  BY <1>1 DEF Filter, EnteredIsDone
<1>4. \A t \in Sends : Holds(t)' <=> Holds(t) /\ t # s
  BY <1>1, <1>2, <1>3, ZenonT(60) DEF Holds
<1>5. EnteredIsDone'
  BY <1>1, <1>2, <1>3, ZenonT(60) DEF Filter, EnteredIsDone, SendTypes
<1>6. KeyHeldOnce'
  <2> SUFFICES ASSUME NEW k \in Keys \ forgotten, NEW t \in Sends, Holds(t), t # s, Key[t] = k
               PROVE  k \in entries' /\ \A u \in Sends : Holds(u) /\ Key[u] = k => u = t
    BY <1>1, <1>4, ZenonT(60) DEF KeyHeldOnce
  <2>1. k \in entries /\ \A u \in Sends : Holds(u) /\ Key[u] = k => u = t
    BY Zenon DEF Filter, KeyHeldOnce
  <2>2. s \in Tracked => Key[s] # k
    BY <2>1, <1>1, Zenon DEF Holds
  <2> QED
    BY <2>1, <2>2, <1>1, ZenonT(60)
<1>7. RetriesNotSuppressed'
  BY <1>1, <1>2, PipelineAssumption, ZenonT(60) DEF Filter, RetriesNotSuppressed
<1> QED
  BY <1>5, <1>6, <1>7, SMTT(60), Zenon DEF Filter

\* What each action on a send does to stages, cache and mailbox.
LEMMA SendFilters ==
    ASSUME DeliveryIInv, NEW s \in Sends, SendStep(s)
    PROVE  Filter' /\ CacheTypes'
<1> USE DEF DeliveryIInv
<1>1. CASE RejectMissing(s) \/ GateClosed(s) \/ GateOpen(s) \/ GateHalfOpen(s)
  <2>1. /\ pc[s] = "new" /\ \E to \in {"half_open", "probe", "check", "done"} : Step(s, to)
        /\ UNCHANGED <<entries, entered, forgotten>>
    BY <1>1, Zenon DEF RejectMissing, GateClosed, GateOpen, GateHalfOpen, RefuseOpen, Return, deliveryHistory
  <2> QED
    BY <2>1, EarlyStageKeeps, Zenon DEF CacheTypes
<1>2. CASE StoreHalfOpen(s) \/ StoreProbe(s) \/ CheckExpired(s)
  <2>1. /\ pc[s] \in {"half_open", "probe", "check"} /\ \E to \in {"check", "done"} : Step(s, to)
        /\ UNCHANGED <<entries, entered, forgotten>>
    BY <1>2, Zenon DEF StoreHalfOpen, StoreProbe, CheckExpired, Return
  <2> QED
    BY <2>1, EarlyStageKeeps, ZenonT(60) DEF CacheTypes
<1>3. CASE CheckDuplicate(s)
  <2>1. pc[s] = "check" /\ UNCHANGED entered
    BY <1>3, Zenon DEF CheckDuplicate
  <2>2. CASE s \notin Tracked
    <3>1. Step(s, "push") /\ UNCHANGED <<entries, forgotten>>
      BY <1>3, <2>2, Zenon DEF CheckDuplicate
    <3> QED
      BY <2>1, <2>2, <3>1, UntrackedKeeps, ZenonT(60) DEF CacheTypes
  <2>3. CASE s \in Tracked /\ Key[s] \notin entries
    <3>1. Step(s, "push") /\ Insert(Key[s]) /\ Key[s] \in Keys
      BY <1>3, <2>3, PipelineAssumption, ZenonT(60) DEF CheckDuplicate
    <3>2. /\ CacheTypes'
          /\ entries' \subseteq entries \cup {Key[s]} /\ forgotten \subseteq forgotten'
          /\ (entries \cup {Key[s]}) \ entries' \subseteq forgotten'
      BY <3>1, InsertBounds, ZenonT(60)
    <3> QED
      BY <2>1, <2>3, <3>1, <3>2, AdmissionKeeps, ZenonT(60)
  <2>4. CASE s \in Tracked /\ Key[s] \in entries
    <3>1. Step(s, "done") /\ UNCHANGED <<entries, forgotten>>
      BY <1>3, <2>4, Zenon DEF CheckDuplicate, Return
    <3> QED
      BY <2>1, <3>1, EarlyStageKeeps, Zenon DEF CacheTypes
  <2> QED
    BY <2>2, <2>3, <2>4, ZenonT(60)
<1>4. CASE PushMessage(s)
  BY <1>4, PushKeeps, Zenon DEF PushMessage, deliveryHistory, CacheTypes
<1>5. CASE Rollback(s)
  <2>1. entries' \subseteq entries /\ UNCHANGED forgotten
    BY <1>5, ZenonT(30) DEF Rollback
  <2> QED
    BY <1>5, <2>1, RollbackKeeps, RemoveBounds, ZenonT(60)
<1> QED
  BY <1>1, <1>2, <1>3, <1>4, <1>5, Zenon DEF SendStep

\* A send stays typed, whatever stage it takes.
LEMMA SendTyped ==
    ASSUME DeliveryIInv, NEW s \in Sends, SendStep(s)
    PROVE  SendTypes'
<1> USE DEF DeliveryIInv
<1>1. pc' \in [Sends -> Stages] /\ result' \in [Sends -> Results]
  <2>1. \/ \E to \in Stages : Step(s, to) /\ UNCHANGED result
        \/ \E r \in Results : Return(s, r)
    BY Zenon DEF SendStep, RejectMissing, GateClosed, GateOpen, GateHalfOpen, RefuseOpen, StoreHalfOpen,
           StoreProbe, CheckExpired, CheckDuplicate, PushMessage, Rollback, Stages, Results
  <2> QED
    BY <2>1, ZenonT(60) DEF SendTypes, Return, Step, Stages
<1>2. CASE PushMessage(s) /\ Len(mbox) < MailboxCapacity
  <2>1. mbox' = Append(mbox, s) /\ entered' = entered \cup {s}
    BY <1>2, Zenon DEF PushMessage
  <2>2. mbox' \in Seq(Sends) /\ Len(mbox') <= MailboxCapacity
    BY <1>2, <2>1, PipelineAssumption, SMTT(60), Zenon DEF SendTypes
  <2> QED
    BY <1>1, <2>1, <2>2, Zenon DEF SendTypes
<1>3. CASE UNCHANGED <<mbox, entered>>
  BY <1>1, <1>3, Zenon DEF SendTypes
<1> QED
  BY <1>2, <1>3, Zenon
  DEF SendStep, RejectMissing, GateClosed, GateOpen, GateHalfOpen, StoreHalfOpen,
      StoreProbe, CheckExpired, CheckDuplicate, PushMessage, Rollback

-----------------------------------------------------------------------------
(* The circuit breaker and the worker. *)

\* A send that passes the gate or ends leaves the breaker typed, and a half-open circuit
\* that refuses messages with a probe, or with one wasted.
LEMMA SendProbes ==
    ASSUME DeliveryIInv, NEW s \in Sends, SendStep(s)
    PROVE  WorkerTypes' /\ RefusalsHaveAProbe'
<1> USE DEF DeliveryIInv
<1>1. CASE StoreHalfOpen(s) \/ StoreProbe(s)
  BY <1>1, Zenon DEF StoreHalfOpen, StoreProbe, WorkerTypes, RefusalsHaveAProbe, actor
<1>2. CASE Unprobed(s) /\ UNCHANGED <<breaker, actor>>
  BY <1>2, Zenon DEF Unprobed, WorkerTypes, RefusalsHaveAProbe, breaker, actor
<1>3. CASE UNCHANGED <<breaker, actor, probes, wasted>>
  BY <1>3, ZenonT(30) DEF WorkerTypes, RefusalsHaveAProbe, breaker, actor
<1> QED
  BY <1>1, <1>2, <1>3, Zenon
  DEF SendStep, RejectMissing, GateClosed, GateOpen, GateHalfOpen,
      CheckExpired, CheckDuplicate, PushMessage, Rollback, deliveryHistory

\* The worker keeps its types; only a verdict, a trip or a probe wasted ends a refusal.
LEMMA WorkerKeeps ==
    ASSUME DeliveryIInv, WorkerStep
    PROVE  WorkerTypes' /\ RefusalsHaveAProbe'
<1> USE DEF DeliveryIInv, WorkerTypes, RefusalsHaveAProbe, Receiving
<1>1. CASE Receive
  <2>1. Head(mbox) \in Sends
    BY <1>1 DEF Receive, SendTypes
  <2> QED
    BY <1>1, <2>1, ZenonT(60) DEF Receive, breaker, deliveryHistory
<1>2. CASE Discard
  BY <1>2, Zenon DEF Discard, Unprobed, breaker, None
<1>3. CASE DispatchSuccess
  <2>1. /\ probes' = probes \ {taken} /\ taken' = None /\ receiving' \in {"idle", "pressure"}
        /\ UNCHANGED <<cooled, lc, wasted>>
    BY <1>3, Zenon DEF DispatchSuccess, AfterDispatch
  <2>2. CASE cb_state = "HalfOpen"
    <3>1. cb_state' = "Closed" /\ cb_trips' = 0 /\ cb_probe' = FALSE
      BY <1>3, <2>2, Zenon DEF DispatchSuccess
    <3> QED
      BY <2>1, <3>1, Zenon
  <2>3. CASE cb_state # "HalfOpen"
    <3>1. UNCHANGED <<cb_state, cb_trips, cb_probe>>
      BY <1>3, <2>3, Zenon DEF DispatchSuccess
    <3> QED
      BY <2>1, <2>3, <3>1, Zenon
  <2> QED
    BY <2>2, <2>3, Zenon
<1>4. CASE DispatchFailure
  BY <1>4, ZenonT(60) DEF DispatchFailure, Dispatchable, AfterDispatch, Unprobed, breaker, None
<1>5. CASE TripState
  BY <1>5 DEF TripState, Must, Tripping, deliveryHistory
<1>6. CASE TripRest
  <2>1. receiving' \in Receiving /\ lc' \in {"Active", "Quarantined", "Stopped"} /\ cb_trips' \in Nat
    BY <1>6 DEF TripRest, Escalate, NextStep
  <2>2. ~cooled' /\ ~cb_probe' /\ cooled' \in BOOLEAN /\ cb_probe' \in BOOLEAN
        /\ UNCHANGED <<cb_state, taken, probes, wasted>>
    BY <1>6, ZenonT(60) DEF TripRest, deliveryHistory
  <2> QED
    BY <2>1, <2>2, ZenonT(60)
<1>7. CASE AlreadyOpen
  BY <1>7 DEF AlreadyOpen, Must, Escalate, NextStep, breaker, deliveryHistory
<1>8. CASE NoPressure
  BY <1>8, Zenon DEF NoPressure, breaker, deliveryHistory
<1> QED
  BY <1>1, <1>2, <1>3, <1>4, <1>5, <1>6, <1>7, <1>8, ZenonT(60) DEF WorkerStep

\* The worker takes messages out of the mailbox and touches nothing else of a send.
LEMMA WorkerLeaves ==
    ASSUME DeliveryIInv, WorkerStep
    PROVE  SendTypes' /\ CacheTypes' /\ Letters' /\ Filter'
<1>1. UNCHANGED <<sends, entries, letters, entered, forgotten>>
  BY Zenon DEF WorkerStep, Receive, Discard, DispatchSuccess, DispatchFailure, TripState, TripRest,
         AlreadyOpen, NoPressure, deliveryHistory
<1>2. mbox' \in Seq(Sends) /\ Len(mbox') <= MailboxCapacity
  <2>1. CASE Receive
    <3>1. mbox \in Seq(Sends) /\ mbox # <<>> /\ mbox' = Tail(mbox) /\ Len(mbox) <= MailboxCapacity
      BY <2>1, Zenon DEF Receive, DeliveryIInv, SendTypes
    <3> QED
      BY <3>1, PipelineAssumption
  <2>2. CASE UNCHANGED mbox
    BY <2>2, Zenon DEF DeliveryIInv, SendTypes
  <2> QED
    BY <2>1, <2>2, ZenonT(60) DEF WorkerStep, Discard, DispatchSuccess, DispatchFailure, TripState, TripRest,
         AlreadyOpen, NoPressure
<1>3. SendTypes' /\ CacheTypes'
  BY <1>1, <1>2, Zenon DEF DeliveryIInv, SendTypes, CacheTypes, sends
<1> QED
  BY <1>1, <1>3, LettersKept, FilterKept, ZenonT(30) DEF DeliveryIInv, filterVars, sends

\* What a send does to the dead letters.
LEMMA SendLetters ==
    ASSUME DeliveryIInv, NEW s \in Sends, SendStep(s)
    PROVE  Letters'
<1>1. DeadLetter(s) \/ UNCHANGED letters
  <2>1. CASE RejectMissing(s)
    BY <2>1, Zenon DEF RejectMissing
  <2>2. CASE GateClosed(s)
    BY <2>2, Zenon DEF GateClosed
  <2>3. CASE GateOpen(s)
    BY <2>3, Zenon DEF GateOpen, RefuseOpen
  <2>4. CASE GateHalfOpen(s)
    BY <2>4, Zenon DEF GateHalfOpen, RefuseOpen
  <2>5. CASE StoreHalfOpen(s)
    BY <2>5, Zenon DEF StoreHalfOpen
  <2>6. CASE StoreProbe(s)
    BY <2>6, Zenon DEF StoreProbe
  <2>7. CASE CheckExpired(s)
    BY <2>7, Zenon DEF CheckExpired
  <2>8. CASE CheckDuplicate(s)
    BY <2>8, Zenon DEF CheckDuplicate
  <2>9. CASE PushMessage(s)
    BY <2>9, Zenon DEF PushMessage
  <2>10. CASE Rollback(s)
    BY <2>10, Zenon DEF Rollback, EmitRejectionObservability
  <2> QED
    BY <2>1, <2>2, <2>3, <2>4, <2>5, <2>6, <2>7, <2>8, <2>9, <2>10, ZenonT(60) DEF SendStep
<1> QED
  BY <1>1, DeadLetterCounted, LettersKept, ZenonT(30) DEF DeliveryIInv

\* Operator, clock and the dead letter queue's own operations.
LEMMA OthersKeep ==
    ASSUME DeliveryIInv, OperatorCommand \/ Cooldown \/ DlqPop \/ DlqReconfigure
    PROVE  DeliveryIInv'
<1>1. UNCHANGED <<sends, entries, mbox, entered, forgotten>>
  BY Zenon DEF OperatorCommand, Cooldown, DlqPop, DlqReconfigure, deliveryHistory
<1>2. SendTypes' /\ CacheTypes' /\ Filter'
  BY <1>1, FilterKept, Zenon DEF DeliveryIInv, SendTypes, CacheTypes, filterVars, sends
<1>3. Letters'
  <2>1. CASE UNCHANGED letters
    BY <2>1, LettersKept, Zenon DEF DeliveryIInv
  <2> QED
    BY <2>1, PopCounted, ReconfigureCounted, Zenon DEF DeliveryIInv, OperatorCommand, Cooldown
<1>4. WorkerTypes' /\ RefusalsHaveAProbe'
  <2> USE DEF DeliveryIInv, WorkerTypes, RefusalsHaveAProbe
  <2>1. CASE OperatorCommand
    <3>1. lc' \in {"Active", "Quarantined", "Stopped"} /\ UNCHANGED <<receiving, taken, probes, wasted>>
      BY <2>1, Zenon DEF OperatorCommand
    <3>2. \/ UNCHANGED breaker
          \/ cb_state' = "Closed" /\ cb_trips' = 0 /\ cb_probe' = FALSE /\ cooled' = cooled
      BY <2>1, Zenon DEF OperatorCommand
    <3>3. CASE UNCHANGED breaker
      BY <3>1, <3>3, Zenon DEF breaker
    <3>4. CASE cb_state' = "Closed" /\ cb_trips' = 0 /\ cb_probe' = FALSE /\ cooled' = cooled
      BY <3>1, <3>4, Zenon
    <3> QED
      BY <3>2, <3>3, <3>4, Zenon
  <2>2. CASE Cooldown
    BY <2>2, Zenon DEF Cooldown, actor, deliveryHistory
  <2>3. CASE UNCHANGED <<breaker, actor, probes, wasted>>
    BY <2>3, Zenon DEF breaker, actor
  <2> QED
    BY <2>1, <2>2, <2>3, Zenon DEF DlqPop, DlqReconfigure, deliveryHistory
<1> QED
  BY <1>2, <1>3, <1>4, Zenon DEF DeliveryIInv

\* Every step of the pipeline preserves the invariant.
LEMMA DeliveryStep == DeliveryIInv /\ [DeliveryNext]_deliveryVars => DeliveryIInv'
<1> SUFFICES ASSUME DeliveryIInv, [DeliveryNext]_deliveryVars PROVE DeliveryIInv'
  BY Zenon
<1>1. ASSUME NEW s \in Sends, SendStep(s) PROVE DeliveryIInv'
  BY <1>1, SendFilters, SendTyped, SendProbes, SendLetters, ZenonT(60) DEF DeliveryIInv
<1>2. CASE WorkerStep
  BY <1>2, WorkerKeeps, WorkerLeaves, ZenonT(60) DEF DeliveryIInv
<1>3. CASE UNCHANGED deliveryVars
  <2>1. SendTypes' /\ CacheTypes' /\ WorkerTypes' /\ RefusalsHaveAProbe'
    BY <1>3, ZenonT(60) DEF DeliveryIInv, deliveryVars, SendTypes, CacheTypes, WorkerTypes, RefusalsHaveAProbe,
                sends, breaker, actor, deliveryHistory
  <2> QED
    BY <1>3, <2>1, LettersKept, FilterKept, ZenonT(60)
    DEF DeliveryIInv, deliveryVars, filterVars, sends, deliveryHistory
<1> QED
  BY <1>1, <1>2, <1>3, OthersKeep, ZenonT(60) DEF DeliveryNext

\* The invariant implies the pipeline's safety.
LEMMA DeliveryImplied == DeliveryIInv => DeliveryInv /\ RetriesNotSuppressed
<1> SUFFICES ASSUME DeliveryIInv PROVE DeliveryInv /\ RetriesNotSuppressed
  BY Zenon
<1>1. DOMAIN NextStep = Receiving \ {"idle", "receive"}
  BY Zenon DEF NextStep, Receiving
<1>2. DeliveryTypeOK
  BY <1>1, Zenon DEF DeliveryIInv, SendTypes, CacheTypes, WorkerTypes, Letters, DeliveryTypeOK, Receiving
<1>3. AtMostOnce
  <2> SUFFICES ASSUME NEW k \in Keys \ forgotten
               PROVE  Cardinality({s \in entered \cap Tracked : Key[s] = k}) <= 1
    BY Zenon DEF AtMostOnce
  <2> DEFINE In == {s \in entered \cap Tracked : Key[s] = k}
  <2>1. \A s, t \in In : s = t
    BY Zenon DEF DeliveryIInv, Filter, KeyHeldOnce, Holds, SendTypes
  <2>2. CASE In = {}
    BY <2>2, FS_EmptySet
  <2>3. ASSUME NEW s \in In PROVE Cardinality(In) <= 1
    <3>1. In = {s}
      BY <2>1, Zenon
    <3>2. Cardinality({s}) = 1
      BY FS_Singleton, Zenon
    <3> QED
      BY <3>1, <3>2
  <2> QED
    BY <2>2, <2>3, Zenon
<1> QED
  BY <1>2, <1>3, Zenon DEF DeliveryIInv, DeliveryInv, Letters, Filter

\* The invariant holds in every reachable state: types, what the duplicate filter
\* guarantees, the accounting of dead letters, and a cause for every refusal.
THEOREM DeliveryInvariant == DeliverySpec => []DeliveryIInv
  BY DeliveryInitial, DeliveryStep, PTL DEF DeliverySpec

\* For any sends, keys, cache and mailbox: of the tracked sends of one key at most one is
\* put into the mailbox while the key is remembered, a half-open circuit refuses only while
\* a probe is out or was wasted, and no dead letter is lost uncounted.
THEOREM DeliveryIsSafe == DeliverySpec => []DeliveryInv
  BY DeliveryInvariant, DeliveryImplied, PTL

\* A message that the mailbox refused never makes its retries look like duplicates.
THEOREM RetriesArePassed == DeliverySpec => []RetriesNotSuppressed
  BY DeliveryInvariant, DeliveryImplied, PTL

(***************************************************************************)
(* One taker per ask and one call of its port                              *)
(***************************************************************************)

AskTypes ==
    /\ AskTypeOK
    /\ stats \in [Verdicts \cup {"registered"} -> Nat]
    /\ cancelled \in [Asks -> BOOLEAN]
    /\ cancelling \in [Asks -> {"no", "lock", "call", "publish", "done"}]

InHand == {a \in Asks : ask_taken[a] # NoAnswer}

\* An entry is in the table or in one hand, never in both, and in neither before it was
\* registered.
TableShape ==
    \A a \in Asks :
        /\ a \in asked => ask[a] # "new" /\ ask_taken[a] = NoAnswer
        /\ ask[a] = "new" => ask_taken[a] = NoAnswer

\* The port is called by the one thread that consumed it: resolve(), cancel() or
\* on_complete().  What it is told of a handle nobody cancelled is what the handle holds.
HandleShape(a) ==
    /\ port[a] # "consumed" => told[a] = {} /\ resolving[a] # "call" /\ cancelling[a] # "call"
    /\ resolving[a] = "call" => told[a] = {} /\ cancelling[a] # "call"
    /\ cancelling[a] = "call" => told[a] = {} /\ cancelled[a]
    /\ resolving[a] # "no" => inner[a] # NoAnswer
    /\ told[a] # {} => \E v : told[a] = {v}
    /\ told[a] # {} /\ ~cancelled[a] => inner[a] # NoAnswer /\ told[a] = {inner[a]}

HandlesShaped ==
    /\ told \in [Asks -> SUBSET (Verdicts \cup {NoAnswer, "cancelled"})]
    /\ \A a \in Asks : HandleShape(a)

AskIInv == AskTypes /\ OneTakerPerAsk /\ TableShape /\ HandlesShaped

-----------------------------------------------------------------------------
\* An empty table satisfies the invariant.
LEMMA AskInitial == AskInit => AskIInv
<1> SUFFICES ASSUME AskInit PROVE AskIInv
  OBVIOUS
<1> USE AskAssumption DEF AskInit
<1>1. AskTypes
  BY Zenon DEF AskTypes, AskTypeOK, Verdicts
<1>2. Cardinality(asked) = 0 /\ Cardinality(InHand) = 0
  <2>1. InHand = {} /\ asked = {}
    BY Zenon DEF InHand
  <2> QED
    BY <2>1, FS_EmptySet, Zenon
<1>3. OneTakerPerAsk
  <2>1. /\ stats.registered = 0 /\ stats.reply = 0 /\ stats.timeout = 0
        /\ stats.operator = 0 /\ stats.aborted = 0
    BY Zenon DEF Verdicts
  <2> QED
    BY <1>2, <2>1 DEF OneTakerPerAsk, InHand
<1>4. TableShape
  BY Zenon DEF TableShape
<1>5. HandlesShaped
  BY SMTT(60), Zenon DEF HandlesShaped, HandleShape
<1> QED
  BY <1>1, <1>3, <1>4, <1>5, Zenon DEF AskIInv

\* Every step keeps the types.
LEMMA AskTyped ==
    ASSUME AskIInv, [AskNext]_askVars
    PROVE  AskTypes'
<1> USE AskAssumption DEF AskIInv, AskTypes, AskTypeOK
<1>1. CASE StopSystem
  BY <1>1, Zenon DEF StopSystem, table, handle
<1>2. CASE Abort
  BY <1>2, Zenon DEF Abort, handle, Verdicts
<1>3. ASSUME NEW a \in Asks, Register(a) PROVE AskTypes'
  BY <1>3 DEF Register, handle
<1>4. ASSUME NEW a \in Asks, ArmTimeout(a) PROVE AskTypes'
  BY <1>4, Zenon DEF ArmTimeout, handle
<1>5. ASSUME NEW a \in Asks, SendRequest(a) PROVE AskTypes'
  BY <1>5, Zenon DEF SendRequest, handle
<1>6. ASSUME NEW a \in Asks, OnResponse(a) PROVE AskTypes'
  BY <1>6, Zenon DEF OnResponse, Take, handle, Verdicts
<1>7. ASSUME NEW a \in Asks, OnTimeout(a) PROVE AskTypes'
  BY <1>7, Zenon DEF OnTimeout, Take, handle, Verdicts
<1>8. ASSUME NEW a \in Asks, OperatorCancel(a) PROVE AskTypes'
  BY <1>8, ZenonT(30) DEF OperatorCancel, Take, handle, Verdicts
<1>9. ASSUME NEW a \in Asks, Resolve(a) PROVE AskTypes'
  BY <1>9 DEF Resolve, Settle
<1>10. ASSUME NEW a \in Asks, Publish(a) PROVE AskTypes'
  BY <1>10, ZenonT(30) DEF Publish, table
<1>11. ASSUME NEW a \in Asks, LookReady(a) PROVE AskTypes'
  BY <1>11, Zenon DEF LookReady, table, handle
<1>12. ASSUME NEW a \in Asks, FlagCancelled(a) PROVE AskTypes'
  BY <1>12, ZenonT(30) DEF FlagCancelled, table
<1>13. ASSUME NEW a \in Asks, PublishCancel(a) PROVE AskTypes'
  BY <1>13, Zenon DEF PublishCancel, table
<1>14. ASSUME NEW a \in Asks, OnComplete(a) PROVE AskTypes'
  BY <1>14, ZenonT(30) DEF OnComplete, table
<1>15. CASE UNCHANGED askVars
  BY <1>15, Zenon DEF askVars, table, handle
<1> QED
  BY ZenonT(60), <1>1, <1>2, <1>3, <1>4, <1>5, <1>6, <1>7, <1>8, <1>9, <1>10, <1>11, <1>12, <1>13,
     <1>14, <1>15, ZenonT(60) DEF AskNext, AskStep

\* Every step keeps the table's entries in one place.
LEMMA TableKept ==
    ASSUME AskIInv, [AskNext]_askVars
    PROVE  TableShape'
<1> USE AskAssumption DEF AskIInv, AskTypes, AskTypeOK, TableShape
<1>1. CASE StopSystem
  BY <1>1, ZenonT(30) DEF StopSystem, table
<1>2. CASE Abort
  BY <1>2, Zenon DEF Abort
<1>3. ASSUME NEW a \in Asks, Register(a) PROVE TableShape'
  BY <1>3, Zenon DEF Register
<1>4. ASSUME NEW a \in Asks, ArmTimeout(a) PROVE TableShape'
  BY <1>4, Zenon DEF ArmTimeout
<1>5. ASSUME NEW a \in Asks, SendRequest(a) PROVE TableShape'
  BY <1>5, ZenonT(30) DEF SendRequest
<1>6. ASSUME NEW a \in Asks, OnResponse(a) PROVE TableShape'
  BY <1>6 DEF OnResponse, Take
<1>7. ASSUME NEW a \in Asks, OnTimeout(a) PROVE TableShape'
  BY <1>7 DEF OnTimeout, Take
<1>8. ASSUME NEW a \in Asks, OperatorCancel(a) PROVE TableShape'
  BY <1>8 DEF OperatorCancel, Take
<1>9. ASSUME NEW a \in Asks, Resolve(a) PROVE TableShape'
  BY <1>9, ZenonT(30) DEF Resolve
<1>10. CASE UNCHANGED <<ask, table>>
  BY <1>10, Zenon DEF table
<1> QED
  BY <1>1, <1>2, <1>3, <1>4, <1>5, <1>6, <1>7, <1>8, <1>9, <1>10, ZenonT(30)
  DEF AskNext, AskStep, Publish, LookReady, FlagCancelled, PublishCancel, OnComplete, askVars

\* The table and the set of asks in some thread's hand are finite.
LEMMA TableFinite ==
    ASSUME AskTypes
    PROVE  /\ IsFiniteSet(asked) /\ IsFiniteSet(InHand)
           /\ Cardinality(asked) \in Nat /\ Cardinality(InHand) \in Nat
<1>1. asked \in SUBSET Asks /\ InHand \in SUBSET Asks
  BY Zenon DEF AskTypes, AskTypeOK, InHand
<1>2. IsFiniteSet(asked) /\ IsFiniteSet(InHand)
  BY <1>1, FS_Subset, AskAssumption, Zenon
<1> QED
  BY <1>2, FS_CardinalityType, Zenon

\* Taking an entry moves it from the table to a hand.
LEMMA TakeCounted ==
    ASSUME AskIInv, NEW a \in Asks, NEW v \in Verdicts, Take(a, v), UNCHANGED stats
    PROVE  OneTakerPerAsk'
<1> USE DEF AskIInv
<1>1. CASE a \notin asked
  BY <1>1, ZenonT(30) DEF Take, OneTakerPerAsk
<1>2. CASE a \in asked
  <2>1. asked' = asked \ {a} /\ ask_taken' = [ask_taken EXCEPT ![a] = v] /\ a \notin InHand
    BY <1>2, Zenon DEF Take, InHand, TableShape
  <2>2. InHand' = InHand \cup {a}
    BY <2>1, AskAssumption, ZenonT(30) DEF InHand, AskTypes, AskTypeOK
  <2>3. /\ Cardinality(asked') = Cardinality(asked) - 1
        /\ Cardinality(InHand') = Cardinality(InHand) + 1
    BY <1>2, <2>1, <2>2, TableFinite, FS_RemoveElement, FS_AddElement, Zenon
  <2>4. stats' = stats /\ OneTakerPerAsk
    BY Zenon
  <2> HIDE DEF AskIInv
  <2> QED
    BY <2>3, <2>4, TableFinite DEF OneTakerPerAsk, InHand, AskIInv, AskTypes, Verdicts
<1> QED
  BY <1>1, <1>2, Zenon

\* Resolving a handle, or finding it settled, moves the ask from a hand to the count of
\* its verdict.
LEMMA ResolveCounted ==
    ASSUME AskIInv, NEW a \in Asks, Resolve(a)
    PROVE  OneTakerPerAsk'
<1> DEFINE v == ask_taken[a]
<1>1. /\ v \in Verdicts /\ ask_taken' = [ask_taken EXCEPT ![a] = NoAnswer] /\ asked' = asked
      /\ stats' = [stats EXCEPT ![v] = @ + 1] /\ a \in InHand
  BY Zenon DEF Resolve, InHand, AskIInv, AskTypes, AskTypeOK
<1>2. InHand' = InHand \ {a}
  BY <1>1, Zenon DEF InHand, AskIInv, AskTypes, AskTypeOK
<1>3. Cardinality(InHand') = Cardinality(InHand) - 1
  BY <1>1, <1>2, TableFinite, FS_RemoveElement, ZenonT(30) DEF AskIInv
<1>4. /\ stats'.registered = stats.registered
      /\ stats'.reply + stats'.timeout + stats'.operator + stats'.aborted
            = stats.reply + stats.timeout + stats.operator + stats.aborted + 1
  <2> HIDE DEF v
  <2>1. stats \in [Verdicts \cup {"registered"} -> Nat]
    BY Zenon DEF AskIInv, AskTypes
  <2> QED
    BY <1>1, <2>1 DEF Verdicts
<1>5. /\ stats.registered \in Nat /\ stats.reply \in Nat /\ stats.timeout \in Nat
      /\ stats.operator \in Nat /\ stats.aborted \in Nat
      /\ stats'.reply \in Nat /\ stats'.timeout \in Nat
      /\ stats'.operator \in Nat /\ stats'.aborted \in Nat
  <2> HIDE DEF v
  <2>1. stats \in [Verdicts \cup {"registered"} -> Nat]
    BY DEF AskIInv, AskTypes
  <2> QED
    BY <1>1, <2>1 DEF Verdicts
<1>6. stats.registered = Cardinality(asked) + Cardinality(InHand)
                         + stats.reply + stats.timeout + stats.operator + stats.aborted
  BY Zenon DEF AskIInv, OneTakerPerAsk, InHand
<1>7. Cardinality(asked) \in Nat /\ Cardinality(InHand) \in Nat /\ asked' = asked
  BY <1>1, TableFinite DEF AskIInv
<1>8. stats'.registered = Cardinality(asked') + Cardinality(InHand')
                          + stats'.reply + stats'.timeout + stats'.operator + stats'.aborted
  <2> HIDE DEF v
  <2> QED
    BY <1>3, <1>4, <1>5, <1>6, <1>7
<1> QED
  BY <1>8, Zenon DEF OneTakerPerAsk, InHand

\* Every step keeps each registered ask in exactly one of the table, a hand and a count.
LEMMA TakersKept ==
    ASSUME AskIInv, [AskNext]_askVars
    PROVE  OneTakerPerAsk'
<1> USE DEF AskIInv
<1>1. CASE Abort
  <2>1. asked' = {} /\ stats' = stats /\ InHand' = InHand \cup asked /\ InHand \cap asked = {}
    <3>1. ask_taken' = [a \in Asks |-> IF a \in asked THEN "aborted" ELSE ask_taken[a]]
          /\ asked' = {} /\ stats' = stats
      BY <1>1, Zenon DEF Abort
    <3>2. asked \subseteq Asks /\ NoAnswer # "aborted"
      BY AskAssumption, Zenon DEF AskTypes, AskTypeOK, Verdicts
    <3> QED
      BY <3>1, <3>2, Zenon DEF InHand, TableShape
  <2>2. /\ Cardinality(asked') = 0
        /\ Cardinality(InHand') = Cardinality(InHand) + Cardinality(asked)
    <3>1. Cardinality(InHand \cap asked) = 0 /\ Cardinality(asked') = 0
      BY <2>1, FS_EmptySet, Zenon
    <3>2. Cardinality(InHand \cup asked)
            = Cardinality(InHand) + Cardinality(asked) - Cardinality(InHand \cap asked)
      BY TableFinite, FS_Union, Zenon
    <3> QED
      BY <2>1, <3>1, <3>2, TableFinite
  <2>3. /\ stats.registered = Cardinality(asked) + Cardinality(InHand) + stats.reply
                              + stats.timeout + stats.operator + stats.aborted
        /\ stats.reply \in Nat /\ stats.timeout \in Nat /\ stats.operator \in Nat
        /\ stats.aborted \in Nat
    BY Zenon DEF OneTakerPerAsk, InHand, AskTypes, Verdicts
  <2>4. Cardinality(asked) \in Nat /\ Cardinality(InHand) \in Nat
    BY TableFinite, Zenon
  <2> HIDE DEF AskIInv
  <2>5. stats.registered = Cardinality(asked') + Cardinality(InHand') + stats.reply
                           + stats.timeout + stats.operator + stats.aborted
    BY <2>2, <2>3, <2>4
  <2> QED
    BY <2>1, <2>5, ZenonT(30) DEF OneTakerPerAsk, InHand
<1>2. ASSUME NEW a \in Asks, Register(a) PROVE OneTakerPerAsk'
  <2>1. /\ asked' = asked \cup {a} /\ ask_taken' = ask_taken /\ a \notin asked
        /\ stats' = [stats EXCEPT !["registered"] = @ + 1]
    BY <1>2, Zenon DEF Register, TableShape
  <2>2. Cardinality(asked') = Cardinality(asked) + 1
    BY <2>1, TableFinite, FS_AddElement, Zenon
  <2>3. /\ stats'.registered = stats.registered + 1 /\ stats'.reply = stats.reply
        /\ stats'.timeout = stats.timeout /\ stats'.operator = stats.operator
        /\ stats'.aborted = stats.aborted
    BY <2>1, Zenon DEF AskTypes, Verdicts
  <2>4. OneTakerPerAsk
    BY Zenon
  <2> QED
    BY <2>1, <2>2, <2>3, <2>4, TableFinite DEF OneTakerPerAsk, InHand, AskTypes, Verdicts
<1>3. ASSUME NEW a \in Asks, OnResponse(a) \/ OnTimeout(a) \/ OperatorCancel(a)
      PROVE  OneTakerPerAsk'
  <2>1. stats' = stats /\ (Take(a, "reply") \/ Take(a, "timeout") \/ Take(a, "operator"))
    BY <1>3, Zenon DEF OnResponse, OnTimeout, OperatorCancel
  <2> QED
    BY <2>1, TakeCounted, Zenon DEF Verdicts
<1>4. ASSUME NEW a \in Asks, Resolve(a) PROVE OneTakerPerAsk'
  BY <1>4, ResolveCounted, Zenon
<1>5. CASE UNCHANGED <<asked, ask_taken, stats>>
  BY <1>5, Zenon DEF OneTakerPerAsk
<1>6. ASSUME NEW a \in Asks,
             \/ ArmTimeout(a) \/ SendRequest(a) \/ Publish(a) \/ LookReady(a)
             \/ FlagCancelled(a) \/ PublishCancel(a) \/ OnComplete(a)
      PROVE  UNCHANGED <<asked, ask_taken, stats>>
  BY <1>6, ZenonT(30)
  DEF ArmTimeout, SendRequest, Publish, LookReady, FlagCancelled, PublishCancel, OnComplete, table
<1>7. CASE StopSystem \/ UNCHANGED askVars
  BY <1>5, <1>7, ZenonT(30) DEF StopSystem, askVars, table
<1> HIDE DEF AskIInv
<1> QED
  BY <1>1, <1>2, <1>3, <1>4, <1>5, <1>6, <1>7, ZenonT(30) DEF AskNext, AskStep

Told == [Asks -> SUBSET (Verdicts \cup {NoAnswer, "cancelled"})]

\* A step that touches one handle only has to keep the shape of that one.
LEMMA OneHandle ==
    ASSUME HandlesShaped, NEW a \in Asks, told' \in Told, HandleShape(a)',
           \A b \in Asks \ {a} : /\ port'[b] = port[b] /\ told'[b] = told[b]
                                 /\ resolving'[b] = resolving[b]
                                 /\ cancelling'[b] = cancelling[b]
                                 /\ inner'[b] = inner[b] /\ cancelled'[b] = cancelled[b]
    PROVE  HandlesShaped'
<1>1. ASSUME NEW b \in Asks \ {a} PROVE HandleShape(b)'
  BY <1>1, ZenonT(60) DEF HandlesShaped, HandleShape
<1> QED
  BY <1>1, Zenon DEF HandlesShaped, Told

\* Every step keeps the shape of every handle.
LEMMA HandlesKept ==
    ASSUME AskIInv, [AskNext]_askVars
    PROVE  HandlesShaped'
<1> USE AskAssumption DEF AskIInv, AskTypes, AskTypeOK, HandlesShaped, HandleShape
<1>1. ASSUME NEW a \in Asks, Resolve(a) PROVE HandlesShaped'
  <2>1. told' \in Told
    BY <1>1 DEF Resolve, Settle, Told
  <2>2. HandleShape(a)'
    BY <1>1, ZenonT(60) DEF Resolve, Settle
  <2>3. \A b \in Asks \ {a} : /\ port'[b] = port[b] /\ told'[b] = told[b]
                               /\ resolving'[b] = resolving[b]
                               /\ cancelling'[b] = cancelling[b]
                               /\ inner'[b] = inner[b] /\ cancelled'[b] = cancelled[b]
    BY <1>1, ZenonT(120) DEF Resolve, Settle
  <2> QED
    BY <2>1, <2>2, <2>3, OneHandle, ZenonT(120)
<1>2. ASSUME NEW a \in Asks, Publish(a) PROVE HandlesShaped'
  <2>1. told' \in Told
    BY <1>2 DEF Publish, Told
  <2>2. HandleShape(a)'
    BY <1>2, ZenonT(120) DEF Publish
  <2>3. \A b \in Asks \ {a} : /\ port'[b] = port[b] /\ told'[b] = told[b]
                               /\ resolving'[b] = resolving[b]
                               /\ cancelling'[b] = cancelling[b]
                               /\ inner'[b] = inner[b] /\ cancelled'[b] = cancelled[b]
    BY <1>2, ZenonT(60) DEF Publish
  <2> QED
    BY <2>1, <2>2, <2>3, OneHandle, ZenonT(60)
<1>3. ASSUME NEW a \in Asks, LookReady(a) PROVE HandlesShaped'
  <2>1. told' \in Told
    BY <1>3, Zenon DEF LookReady, handle, Told
  <2>2. HandleShape(a)'
    BY <1>3, Zenon DEF LookReady, handle
  <2>3. \A b \in Asks \ {a} : /\ port'[b] = port[b] /\ told'[b] = told[b]
                               /\ resolving'[b] = resolving[b]
                               /\ cancelling'[b] = cancelling[b]
                               /\ inner'[b] = inner[b] /\ cancelled'[b] = cancelled[b]
    BY <1>3, ZenonT(30) DEF LookReady, handle
  <2> QED
    BY <2>1, <2>2, <2>3, OneHandle, Zenon
<1>4. ASSUME NEW a \in Asks, FlagCancelled(a) PROVE HandlesShaped'
  <2>1. told' \in Told
    BY <1>4, Zenon DEF FlagCancelled, Told
  <2>2. HandleShape(a)'
    BY <1>4, ZenonT(60) DEF FlagCancelled
  <2>3. \A b \in Asks \ {a} : /\ port'[b] = port[b] /\ told'[b] = told[b]
                               /\ resolving'[b] = resolving[b]
                               /\ cancelling'[b] = cancelling[b]
                               /\ inner'[b] = inner[b] /\ cancelled'[b] = cancelled[b]
    BY <1>4, ZenonT(60) DEF FlagCancelled
  <2> QED
    BY <2>1, <2>2, <2>3, OneHandle, Zenon
<1>5. ASSUME NEW a \in Asks, PublishCancel(a) PROVE HandlesShaped'
  <2>1. told' \in Told
    BY <1>5, Zenon DEF PublishCancel, Told
  <2>2. HandleShape(a)'
    <3>1. /\ cancelling'[a] = "done" /\ resolving'[a] = resolving[a] /\ port'[a] = port[a]
          /\ inner'[a] = inner[a] /\ cancelled'[a] = cancelled[a]
      BY <1>5, Zenon DEF PublishCancel
    <3>2. CASE cancelling[a] = "call"
      <4>1. told'[a] = {"cancelled"}
        BY <1>5, <3>2, Zenon DEF PublishCancel
      <4> QED
        BY <3>1, <3>2, <4>1, Zenon
    <3>3. CASE cancelling[a] # "call"
      <4>1. told'[a] = told[a]
        BY <1>5, <3>3, Zenon DEF PublishCancel
      <4> QED
        BY <3>1, <4>1, Zenon
    <3> QED
      BY <3>2, <3>3, Zenon
  <2>3. \A b \in Asks \ {a} : /\ port'[b] = port[b] /\ told'[b] = told[b]
                               /\ resolving'[b] = resolving[b]
                               /\ cancelling'[b] = cancelling[b]
                               /\ inner'[b] = inner[b] /\ cancelled'[b] = cancelled[b]
    BY <1>5, ZenonT(60) DEF PublishCancel
  <2> QED
    BY <2>1, <2>2, <2>3, OneHandle, Zenon
<1>6. ASSUME NEW a \in Asks, OnComplete(a) PROVE HandlesShaped'
  <2>1. told' \in Told
    BY <1>6 DEF OnComplete, Told
  <2>2. HandleShape(a)'
    <3>1. /\ cancelling'[a] = cancelling[a] /\ resolving'[a] = resolving[a]
          /\ inner'[a] = inner[a] /\ cancelled'[a] = cancelled[a] /\ port[a] = "none"
          /\ told[a] = {}
      BY <1>6, Zenon DEF OnComplete
    <3>2. CASE inner[a] # NoAnswer \/ cancelled[a]
      <4>1. /\ port'[a] = "consumed"
            /\ told'[a] = {IF cancelled[a] THEN "cancelled" ELSE inner[a]}
        BY <1>6, <3>1, <3>2 DEF OnComplete
      <4> QED
        BY <3>1, <3>2, <4>1, ZenonT(60)
    <3>3. CASE ~(inner[a] # NoAnswer \/ cancelled[a])
      <4>1. port'[a] = "stored" /\ told'[a] = {}
        BY <1>6, <3>1, <3>3, Zenon DEF OnComplete
      <4> QED
        BY <3>1, <4>1, Zenon
    <3> QED
      BY <3>2, <3>3, Zenon
  <2>3. \A b \in Asks \ {a} : /\ port'[b] = port[b] /\ told'[b] = told[b]
                               /\ resolving'[b] = resolving[b]
                               /\ cancelling'[b] = cancelling[b]
                               /\ inner'[b] = inner[b] /\ cancelled'[b] = cancelled[b]
    BY <1>6, ZenonT(60) DEF OnComplete
  <2> QED
    BY <2>1, <2>2, <2>3, OneHandle, Zenon
<1>7. CASE UNCHANGED <<handle, resolving, cancelling>>
  BY <1>7, Zenon DEF handle
<1> QED
  BY <1>1, <1>2, <1>3, <1>4, <1>5, <1>6, <1>7, Zenon
  DEF AskNext, AskStep, StopSystem, Abort, Register, ArmTimeout, SendRequest, OnResponse,
      OnTimeout, OperatorCancel, askVars

-----------------------------------------------------------------------------
\* The table, the threads that took an entry and the handles keep the invariant, whatever
\* the order of responses, timeouts, cancellations and shutdown.
THEOREM AskInvariant == AskSpec => []AskIInv
<1>1. AskIInv /\ [AskNext]_askVars => AskIInv'
  BY AskTyped, TableKept, TakersKept, HandlesKept, Zenon DEF AskIInv
<1> QED
  BY AskInitial, <1>1, PTL DEF AskSpec

\* Response, timeout, operator and shutdown race for an ask and one of them gets it, and its
\* completion port is called at most once, with what the handle holds.
THEOREM AskIsSafe == AskSpec => []AskInv
<1>1. AskIInv => AskInv
  <2> SUFFICES ASSUME AskIInv PROVE AskInv
    BY Zenon
  <2>1. ASSUME NEW a \in Asks PROVE Cardinality(told[a]) <= 1
    <3>1. told[a] = {} \/ \E v : told[a] = {v}
      BY Zenon DEF AskIInv, HandlesShaped, HandleShape
    <3>2. Cardinality(told[a]) \in {0, 1}
      BY <3>1, FS_EmptySet, FS_Singleton, Zenon
    <3> QED
      BY <3>2
  <2>2. PortToldOnce
    BY <2>1, Zenon DEF PortToldOnce, AskIInv, HandlesShaped, HandleShape
  <2> QED
    BY <2>2, Zenon DEF AskInv, AskIInv, AskTypes
<1> QED
  BY AskInvariant, <1>1, PTL
=============================================================================
