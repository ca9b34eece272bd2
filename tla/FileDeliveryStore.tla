-------------------------- MODULE FileDeliveryStore --------------------------
(***************************************************************************)
(* FileDeliveryStore: the outbox and the inbox of durable delivery, as     *)
(* files that survive the process.  An outbox operation rewrites the file  *)
(* through outbox.dat.tmp and a rename; the inbox is appended to in place. *)
(* The mutex makes operations exclude one another, and a crash may fall    *)
(* between any two of their steps.                                         *)
(*                                                                         *)
(* The text of an id is its hexadecimal digits, and a file is what its     *)
(* newlines separate: the digits of each line, and last of all those       *)
(* behind the last newline.  A write may come up short (the disk is full): *)
(* the file then ends anywhere in it, and the next line written goes on    *)
(* where it ends.  Lines are short and reach the file in one write, so     *)
(* that a crash does not tear one.                                         *)
(***************************************************************************)
EXTENDS Integers, Sequences, FiniteSets, SequencesExt

CONSTANTS
    Ids,            \* message ids, as sequences of digits without leading zeros
    Width,          \* the digits a 64-bit number has room for
    TimeToLive,     \* the ttl_ns of put_inbox
    MaxOps,         \* bound on the operations started
    MaxShort,       \* bound on the writes that come up short
    MaxTime         \* bound on the wall_clock

ASSUME OutboxAssumption ==
    /\ \A id \in Ids : id \in Seq(0..15) /\ Head(id) # 0 /\ Len(id) \in 1..Width
    /\ {Width, TimeToLive, MaxOps, MaxShort, MaxTime} \subseteq Nat

VARIABLES
    outbox, outbox_tmp,     \* outbox.dat and outbox.dat.tmp: Absent or a text
    inbox_file,             \* inbox.dat: lines of id and expiry
    op,                     \* the operation under the mutex and its next step
    wall_clock,
    ops, shorts,            \* bounded counters
    torn,                   \* history: the files in which a write ended within a line
    stored,                 \* history: ids whose put succeeded and that are not complete
    interrupted,            \* history: ids of puts that a crash cut off
    recorded                \* history: the expiries of the records put_inbox wrote

files == <<outbox, outbox_tmp>>
bounded == <<ops, shorts, torn>>
outboxVars == <<files, inbox_file, op, wall_clock, bounded, stored, interrupted, recorded>>

Absent == <<>>
Empty == << <<>> >>
Idle == [kind |-> "idle", id |-> <<>>, step |-> 0]

\* A text with another one behind it, and those a text begins with.
Joined(f, g) == Front(f) \o <<Last(f) \o Head(g)>> \o Tail(g)
Beginnings(f) ==
    UNION {{Append(SubSeq(f, 1, n - 1), SubSeq(f[n], 1, k)) : k \in 0..Len(f[n])} : n \in DOMAIN f}

\* What getline and strtoull make of a line: an empty one is skipped, and so is a number
\* out of range; any other is an id, also what is left of a torn one.
WellFormed(line) == Len(line) \in 1..Width
IdsOf(file) == {line \in Range(file) : WellFormed(line)}
-----------------------------------------------------------------------------
OutboxInit ==
    /\ outbox = Absent /\ outbox_tmp = Absent /\ inbox_file = <<>>
    /\ op = Idle /\ wall_clock = 0 /\ ops = 0 /\ shorts = 0 /\ torn = {}
    /\ stored = {} /\ interrupted = {} /\ recorded = [i \in Ids |-> {}]

Begin(kind, id) ==
    /\ op = Idle /\ ops < MaxOps
    /\ ops' = ops + 1
    /\ op' = [kind |-> kind, id |-> id, step |-> 1]

\* A stream writes `text' behind `old': all of it or, when the write comes up short, what
\* it begins with. The stream's state is not checked after close().
Writes(old, text) ==
    \/ outbox_tmp' = Joined(old, text) /\ UNCHANGED <<shorts, torn>>
    \/ /\ shorts < MaxShort /\ shorts' = shorts + 1
       /\ \E t \in Beginnings(text) \ {text} :
             /\ outbox_tmp' = Joined(old, t)
             /\ torn' = IF Last(t) = <<>> THEN torn ELSE torn \cup {"outbox"}
-----------------------------------------------------------------------------
(* put_outbox: copy, append, rename. *)

\* The temporary file is written anew only when there is an outbox to copy.
PutCopy(id) ==
    /\ Begin("put", id)
    /\ IF outbox = Absent
       THEN UNCHANGED <<outbox_tmp, shorts, torn>>
       ELSE Writes(Empty, outbox)
    /\ UNCHANGED <<outbox, inbox_file, wall_clock, stored, interrupted, recorded>>

PutAppend ==
    /\ op.kind = "put" /\ op.step = 1
    /\ op' = [op EXCEPT !.step = 2]
    /\ Writes(IF outbox_tmp = Absent THEN Empty ELSE outbox_tmp, <<op.id, <<>>>>)
    /\ UNCHANGED <<outbox, inbox_file, wall_clock, ops, stored, interrupted, recorded>>

PutRename ==
    /\ op.kind = "put" /\ op.step = 2
    /\ op' = Idle
    /\ outbox' = outbox_tmp /\ outbox_tmp' = Absent
    /\ stored' = stored \cup {op.id}
    /\ UNCHANGED <<inbox_file, wall_clock, bounded, interrupted, recorded>>
-----------------------------------------------------------------------------
(* mark_outbox_complete: filter, rename. *)

\* The lines that stay, each with a newline, which a torn one did not have.
Others(id) == Append(SelectSeq(outbox, LAMBDA l : WellFormed(l) /\ l # id), <<>>)

\* A mutant: the temporary file is opened for appending, as put_outbox opens it.
CompleteFilterAppends(id) ==
    /\ Begin("complete", id)
    /\ outbox # Absent
    /\ Writes(IF outbox_tmp = Absent THEN Empty ELSE outbox_tmp, Others(id))
    /\ UNCHANGED <<outbox, inbox_file, wall_clock, stored, interrupted, recorded>>

CompleteFilter(id) ==
    /\ Begin("complete", id)
    /\ outbox # Absent
    /\ Writes(Empty, Others(id))
    /\ UNCHANGED <<outbox, inbox_file, wall_clock, stored, interrupted, recorded>>

\* Without an outbox the call fails, and has truncated the temporary file by then.
CompleteFails(id) ==
    /\ op = Idle /\ ops < MaxOps
    /\ ops' = ops + 1
    /\ outbox = Absent
    /\ outbox_tmp' = Empty
    /\ UNCHANGED <<outbox, inbox_file, op, wall_clock, shorts, torn, stored, interrupted, recorded>>

CompleteRename ==
    /\ op.kind = "complete"
    /\ op' = Idle
    /\ outbox' = outbox_tmp /\ outbox_tmp' = Absent
    /\ stored' = stored \ {op.id} /\ interrupted' = interrupted \ {op.id}
    /\ UNCHANGED <<inbox_file, wall_clock, bounded, recorded>>
-----------------------------------------------------------------------------
(* The inbox. *)

\* The record put_inbox writes: the file ends behind it, or within its id or its expiry.
Record(id, expiry, end) == [id |-> id, expiry |-> expiry, end |-> end]

\* The reader's expiry when the line has none: it is not initialised. The same stands for
\* one that is cut, or made of the digits of two records.
NoExpiry == {-1, MaxTime}

\* What is appended goes on where the file ends: two ids become one, and behind a torn
\* expiry the new record is lost.
Behind(r) ==
    LET rest == Last(inbox_file)
        lines == Front(inbox_file)
        end == IF r.end = "line" THEN "line" ELSE "expiry"
    IN  IF inbox_file = <<>> \/ Last(inbox_file).end = "line" THEN {Append(inbox_file, r)}
        ELSE IF rest.end = "id" THEN {Append(lines, [r EXCEPT !.id = rest.id \o r.id])}
        ELSE {Append(lines, Record(rest.id, t, end)) : t \in NoExpiry}

\* What a write that comes up short leaves of a record.
Cut(id) ==
    {Record(id, t, "expiry") : t \in NoExpiry}
        \cup {Record(SubSeq(id, 1, k), t, "id") : k \in DOMAIN id, t \in NoExpiry}

PutInbox(id) ==
    /\ op = Idle /\ ops < MaxOps
    /\ ops' = ops + 1
    /\ \/ inbox_file' \in Behind(Record(id, wall_clock + TimeToLive, "line"))
          /\ UNCHANGED <<shorts, torn>>
       \/ /\ shorts < MaxShort /\ shorts' = shorts + 1
          /\ \/ UNCHANGED <<inbox_file, torn>>
             \/ /\ inbox_file' \in UNION {Behind(r) : r \in Cut(id)}
                /\ torn' = torn \cup {"inbox"}
    /\ recorded' = [recorded EXCEPT ![id] = @ \cup {wall_clock + TimeToLive}]
    /\ UNCHANGED <<files, op, wall_clock, stored, interrupted>>

\* seen_inbox: the first line with the id decides.
SeenInbox(id) ==
    \E i \in DOMAIN inbox_file :
        /\ inbox_file[i].id = id /\ wall_clock <= inbox_file[i].expiry
        /\ \A j \in 1..(i - 1) : inbox_file[j].id # id
-----------------------------------------------------------------------------
\* The process dies and another one opens the store.
CrashStore ==
    /\ op # Idle
    /\ op' = Idle
    /\ interrupted' = interrupted \cup (IF op.kind = "put" THEN {op.id} ELSE {})
    /\ UNCHANGED <<files, inbox_file, wall_clock, bounded, stored, recorded>>

PassTime ==
    /\ wall_clock < MaxTime
    /\ wall_clock' = wall_clock + 1
    /\ UNCHANGED <<files, inbox_file, op, bounded, stored, interrupted, recorded>>

OutboxNext ==
    \/ \E id \in Ids : \/ PutCopy(id) \/ CompleteFilter(id) \/ CompleteFails(id)
                       \/ PutInbox(id)
    \/ PutAppend \/ PutRename \/ CompleteRename
    \/ CrashStore \/ PassTime

OutboxSpec == OutboxInit /\ [][OutboxNext]_outboxVars
-----------------------------------------------------------------------------
(* Properties. *)

OutboxTypeOK ==
    /\ \A f \in {outbox, outbox_tmp} : \A line \in Range(f) : Range(line) \subseteq 0..15
    /\ op.step \in 0..2 /\ stored \cup interrupted \subseteq Ids
    /\ torn \subseteq {"outbox", "inbox"}

\* A put that succeeded is in the outbox until it is complete, whatever step of a later
\* operation a crash falls on (durable_delivery_store.hpp: "pending sends survive process
\* restart"), unless some write came up short.
PutSurvives == shorts = 0 => stored \subseteq IdsOf(outbox)

\* Only what was put is ever replayed: a completed send does not come back from a leftover
\* temporary file, not even when writes come up short, unless one ended within a line.
NoneInvented == "outbox" \notin torn => IdsOf(outbox) \subseteq stored \cup interrupted

\* A message counts as seen only while a record of it has not expired, unless some write
\* ended within one.
SeenIsFresh ==
    "inbox" \notin torn =>
        \A id \in Ids : SeenInbox(id) => \E t \in recorded[id] : wall_clock <= t

OutboxInv == OutboxTypeOK /\ PutSurvives /\ NoneInvented /\ SeenIsFresh

\* file_delivery_store.hpp says that "writes are made atomic via temporary-file rename so
\* partial writes are never visible". The stream is not checked before the rename, so a
\* short write replaces a whole outbox by part of one and put_outbox returns success.
PartialWritesInvisible == stored \subseteq IdsOf(outbox)

\* The same line read for what load_pending_outbox returns: what is left of a torn id, or
\* two ids without the newline between them, is replayed as an id nobody put.
OnlyPutsReplayed == IdsOf(outbox) \subseteq stored \cup interrupted

\* durable_delivery_store.hpp says that seen_inbox is "true if the message was already seen
\* within the TTL window". An expired record hides a later one of the same id.
FreshIsSeen == \A id \in Ids : (\E t \in recorded[id] : wall_clock <= t) => SeenInbox(id)
=============================================================================
