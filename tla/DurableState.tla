---------------------------- MODULE DurableState ----------------------------
(***************************************************************************)
(* An actor's durable state: DurableBehavior and EventSourcedBehavior over *)
(* a DurableStateStore, which is the InMemoryStateStore (it outlives the   *)
(* actor, not the process) or the FileStateStore (it outlives both).       *)
(*                                                                         *)
(* Events are numbered as they are offered, and a state is the sequence of *)
(* the events applied to it.  Calls of the in-memory store are atomic      *)
(* under its mutex; a file snapshot takes the steps a crash can fall       *)
(* between.  Encodings and checksums are left out.                         *)
(***************************************************************************)
EXTENDS Integers, Sequences, SequencesExt

CONSTANTS
    StoreKinds,       \* a subset of {"in_memory", "file"}
    MaxEvents,        \* bound on the events offered
    MaxSnapshots,     \* bound on the calls of snapshot()
    MaxStops          \* bound on stops, crashes and deletions

ASSUME DurableAssumption ==
    /\ StoreKinds \subseteq {"in_memory", "file"}
    /\ {MaxEvents, MaxSnapshots, MaxStops} \subseteq Nat

VARIABLES
    store_type,
    next_sequence,                \* ActorState::next_sequence, next_sequences_[key]
    latest_snapshot, tmp_file,    \* what load_latest_snapshot finds; snapshot.tmp
    events,                       \* ActorState::events
    behavior,                     \* "down", "idle", or the step of write_snapshot
    actor_state,                  \* the behaviour's state_
    last_event_sequence_,
    offered, snapshots, stops,    \* bounded counters
    accepted,                     \* history: events for which persist_event returned ok
    acknowledged                  \* history: the state of the last successful snapshot()

disk == <<latest_snapshot, tmp_file, events>>
counters == <<offered, snapshots, stops>>
durableVars == <<store_type, next_sequence, disk, behavior, actor_state, last_event_sequence_,
                 counters, accepted, acknowledged>>

NoSnapshot == [sequence |-> -1, state |-> <<>>]
Partial == [sequence |-> -2, state |-> <<>>]     \* a file that is not written to its end
Snapshot(n, s) == [sequence |-> n, state |-> s]
-----------------------------------------------------------------------------
DurableInit ==
    /\ store_type \in StoreKinds
    /\ next_sequence = 0 /\ latest_snapshot = NoSnapshot /\ tmp_file = NoSnapshot
    /\ events = <<>>
    /\ behavior = "down" /\ actor_state = <<>> /\ last_event_sequence_ = 0
    /\ offered = 0 /\ snapshots = 0 /\ stops = 0
    /\ accepted = <<>> /\ acknowledged = <<>>

\* load_events_after: the file store has no journal and answers with an error, which
\* recover() passes over.
LoadEventsAfter(n) ==
    IF store_type = "file" THEN <<>>
    ELSE SelectSeq(events, LAMBDA r : r.sequence > n)

\* A behaviour is constructed and recovers. Without a snapshot no event is replayed.
Recover ==
    /\ behavior = "down"
    /\ behavior' = "idle"
    /\ IF latest_snapshot = NoSnapshot
       THEN actor_state' = <<>> /\ last_event_sequence_' = 0
       ELSE LET replay == LoadEventsAfter(latest_snapshot.sequence)
            IN  /\ actor_state' = latest_snapshot.state
                                  \o [i \in DOMAIN replay |-> replay[i].event]
                /\ last_event_sequence_' =
                      IF replay = <<>> THEN 0 ELSE Last(replay).sequence
    /\ UNCHANGED <<store_type, next_sequence, disk, counters, accepted, acknowledged>>

\* persist_event and append_event: a number the store has passed is answered with success
\* and not stored, one it has not reached with an error.
PersistEvent ==
    LET seq == last_event_sequence_ + 1
    IN  /\ behavior = "idle" /\ store_type = "in_memory"
        /\ offered < MaxEvents
        /\ offered' = offered + 1
        /\ \/ /\ next_sequence < seq
              /\ UNCHANGED <<next_sequence, events, actor_state, last_event_sequence_, accepted>>
           \/ /\ next_sequence >= seq
              /\ IF next_sequence = seq
                 THEN /\ events' = Append(events, [sequence |-> seq, event |-> offered'])
                      /\ next_sequence' = next_sequence + 1
                 ELSE UNCHANGED <<events, next_sequence>>
              /\ last_event_sequence_' = seq
              /\ actor_state' = Append(actor_state, offered')
              /\ accepted' = Append(accepted, offered')
        /\ UNCHANGED <<store_type, latest_snapshot, tmp_file, behavior, snapshots, stops,
                       acknowledged>>

\* Over the file store persist_event fails, and a DurableBehavior's owner changes state().
ChangeState ==
    /\ behavior = "idle" /\ store_type = "file"
    /\ offered < MaxEvents
    /\ offered' = offered + 1
    /\ actor_state' = Append(actor_state, offered')
    /\ UNCHANGED <<store_type, next_sequence, disk, behavior, last_event_sequence_, snapshots,
                   stops, accepted, acknowledged>>

\* A mutant: a snapshot takes the number of the last event and the counter stays.
SnapshotInMemoryUncounted ==
    /\ behavior = "idle" /\ store_type = "in_memory"
    /\ snapshots < MaxSnapshots
    /\ snapshots' = snapshots + 1
    /\ next_sequence' = next_sequence + 1
    /\ latest_snapshot' = Snapshot(last_event_sequence_ - 1, actor_state)
    /\ acknowledged' = actor_state
    /\ UNCHANGED <<store_type, tmp_file, events, behavior, actor_state, last_event_sequence_,
                   offered, stops, accepted>>

\* snapshot() over the in-memory store. Snapshots and events share the counter.
SnapshotInMemory ==
    /\ behavior = "idle" /\ store_type = "in_memory"
    /\ snapshots < MaxSnapshots
    /\ snapshots' = snapshots + 1
    /\ next_sequence' = next_sequence + 1
    /\ latest_snapshot' = Snapshot(next_sequence, actor_state)
    /\ acknowledged' = actor_state
    /\ UNCHANGED <<store_type, tmp_file, events, behavior, actor_state, last_event_sequence_,
                   offered, stops, accepted>>
-----------------------------------------------------------------------------
(* FileStateStore::write_snapshot. *)

\* The number is taken and snapshot.tmp truncated; its contents are on their way.
BeginSnapshot ==
    /\ behavior = "idle" /\ store_type = "file"
    /\ snapshots < MaxSnapshots
    /\ snapshots' = snapshots + 1
    /\ next_sequence' = next_sequence + 1
    /\ tmp_file' = Partial
    /\ behavior' = "writing"
    /\ UNCHANGED <<store_type, latest_snapshot, events, actor_state, last_event_sequence_,
                   offered, stops, accepted, acknowledged>>

\* The stream is closed and checked: after a short write the file is removed and the call
\* fails.
CloseTmp ==
    /\ behavior = "writing"
    /\ \/ /\ tmp_file' = Snapshot(next_sequence - 1, actor_state)
          /\ behavior' = "renaming"
       \/ /\ tmp_file' = NoSnapshot
          /\ behavior' = "idle"
    /\ UNCHANGED <<store_type, next_sequence, latest_snapshot, events, actor_state,
                   last_event_sequence_, counters, accepted, acknowledged>>

\* The rename, which may fail and leave the temporary file behind.
RenameTmp ==
    /\ behavior = "renaming"
    /\ behavior' = "idle"
    /\ \/ /\ latest_snapshot' = tmp_file
          /\ tmp_file' = NoSnapshot
          /\ acknowledged' = actor_state
       \/ UNCHANGED <<latest_snapshot, tmp_file, acknowledged>>
    /\ UNCHANGED <<store_type, next_sequence, events, actor_state, last_event_sequence_,
                   counters, accepted>>
-----------------------------------------------------------------------------
\* The actor is stopped; its store stays.
StopBehavior ==
    /\ behavior = "idle" /\ stops < MaxStops
    /\ stops' = stops + 1
    /\ behavior' = "down" /\ actor_state' = <<>> /\ last_event_sequence_' = 0
    /\ UNCHANGED <<store_type, next_sequence, disk, offered, snapshots, accepted, acknowledged>>

\* The process dies, at any step of a snapshot: the file store's counters go with it.
Crash ==
    /\ store_type = "file" /\ stops < MaxStops
    /\ stops' = stops + 1
    /\ behavior' = "down" /\ actor_state' = <<>> /\ last_event_sequence_' = 0
    /\ next_sequence' = 0
    /\ UNCHANGED <<store_type, disk, offered, snapshots, accepted, acknowledged>>

\* delete_state, between two incarnations.
DeleteState ==
    /\ behavior = "down" /\ stops < MaxStops
    /\ stops' = stops + 1
    /\ next_sequence' = 0
    /\ latest_snapshot' = NoSnapshot /\ tmp_file' = NoSnapshot /\ events' = <<>>
    /\ accepted' = <<>> /\ acknowledged' = <<>>
    /\ UNCHANGED <<store_type, behavior, actor_state, last_event_sequence_, offered, snapshots>>

DurableNext ==
    \/ Recover \/ PersistEvent \/ ChangeState \/ SnapshotInMemory
    \/ BeginSnapshot \/ CloseTmp \/ RenameTmp
    \/ StopBehavior \/ Crash \/ DeleteState

DurableSpec == DurableInit /\ [][DurableNext]_durableVars
-----------------------------------------------------------------------------
(* Properties. *)

DurableTypeOK ==
    /\ behavior \in {"down", "idle", "writing", "renaming"}
    /\ next_sequence \in 0..(MaxEvents + MaxSnapshots)
    /\ last_event_sequence_ \in 0..MaxEvents
    /\ \A i \in DOMAIN events : events[i].sequence < next_sequence

\* Recovery applies no event twice and none out of order: what a snapshot covers is not
\* replayed after it, although both draw their numbers from one counter and the behaviour
\* counts for itself (recover, append_event).
ReplayedOnce ==
    \A i, j \in DOMAIN actor_state : i < j => actor_state[i] < actor_state[j]

\* Whatever step a crash falls on, the snapshot found is complete and no older than the last
\* one that snapshot() reported as written (write_snapshot's temporary file and rename).
FoundSnapshotComplete ==
    /\ latest_snapshot # Partial
    /\ IsPrefix(acknowledged, latest_snapshot.state)

DurableInv == DurableTypeOK /\ ReplayedOnce /\ FoundSnapshotComplete

\* event_sourced_behavior.hpp says "New events are persisted to the store before being
\* applied to state", so that a recovered behaviour has every event persist_event accepted.
\* It has not: the number a behaviour counts up to falls behind the counter that snapshots
\* share, and append_event answers a number it has passed with success, storing nothing.
AcceptedIsRecovered ==
    behavior = "idle" /\ store_type = "in_memory" => actor_state = accepted

\* Snapshot numbers grow. A file store starts from 0 again in every process.
SnapshotNumbersGrow ==
    [][latest_snapshot' # NoSnapshot => latest_snapshot'.sequence >= latest_snapshot.sequence]_durableVars
=============================================================================
