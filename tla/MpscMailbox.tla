----------------------------- MODULE MpscMailbox -----------------------------
(***************************************************************************)
(* include/hpactor/adt/mpsc_mailbox.hpp: the intrusive linked queue under  *)
(* every mailbox lane.  Enqueuers exchange head_ and then link the node    *)
(* they displaced; the one consumer works from the stub, which tail_       *)
(* always points to.                                                       *)
(*                                                                         *)
(* Nodes are numbered in the order of their exchange on head_, which is    *)
(* the order in which the queue is to hand them out.  Every atomic access  *)
(* that another thread can come between is a step.                         *)
(***************************************************************************)
EXTENDS Integers, Sequences, SequencesExt

CONSTANTS
    Enqueuers,   \* threads that call enqueue
    MaxNodes     \* bound on the number of nodes ever enqueued

ASSUME MaxNodesAssumption == MaxNodes \in Nat

Nodes == 1 .. MaxNodes
Stub == 0
Null == -1

VARIABLES
    head,        \* head_
    next,        \* mpsc_next of the stub and of every node
    node_count,       \* count_
    exchanged,   \* number of nodes put at the head so far
    epc,         \* where a producer stands in enqueue
    node,        \* the producer's `node'
    prev,        \* the producer's `prev'
    dpc,         \* where the consumer stands in dequeue
    cnext,       \* the consumer's `next'
    next_next,   \* the consumer's `next_next'
    returned,    \* history: nodes returned by dequeue
    overlapped   \* history: an exchange fell between the consumer's last look
                 \* at head_ and its compare-exchange on it

enqueuerVars == <<epc, node, prev>>
consumerVars == <<dpc, cnext, next_next>>
mpscVars == <<head, next, node_count, exchanged, enqueuerVars, consumerVars, returned, overlapped>>

MpscInit ==
    /\ head = Stub
    /\ next = [n \in Nodes \cup {Stub} |-> Null]
    /\ node_count = 0
    /\ exchanged = 0
    /\ epc = [p \in Enqueuers |-> "idle"]
    /\ node = [p \in Enqueuers |-> Null]
    /\ prev = [p \in Enqueuers |-> Null]
    /\ dpc = "idle"
    /\ cnext = Null
    /\ next_next = Null
    /\ returned = << >>
    /\ overlapped = FALSE

\* The consumer has seen `next' as the newest node and has not yet replaced
\* it at the head.
LastNodeWindow == dpc \in {"store", "recheck", "load_head", "cas"} /\ next_next = Null

-----------------------------------------------------------------------------
\* enqueue: the node's own next is cleared, then head_.exchange(node).
ExchangeHead(p) ==
    /\ epc[p] = "idle"
    /\ exchanged < MaxNodes
    /\ exchanged' = exchanged + 1
    /\ node' = [node EXCEPT ![p] = exchanged']
    /\ prev' = [prev EXCEPT ![p] = head]
    /\ head' = exchanged'
    /\ overlapped' = (overlapped \/ LastNodeWindow)
    /\ epc' = [epc EXCEPT ![p] = "link"]
    /\ UNCHANGED <<next, node_count, consumerVars, returned>>

LinkNode(p) ==
    /\ epc[p] = "link"
    /\ next' = [next EXCEPT ![prev[p]] = node[p]]
    /\ epc' = [epc EXCEPT ![p] = "count"]
    /\ UNCHANGED <<head, node_count, exchanged, node, prev, consumerVars, returned, overlapped>>

CountNode(p) ==
    /\ epc[p] = "count"
    /\ node_count' = node_count + 1
    /\ epc' = [epc EXCEPT ![p] = "idle"]
    /\ UNCHANGED <<head, next, exchanged, node, prev, consumerVars, returned, overlapped>>

Enqueue(p) == ExchangeHead(p) \/ LinkNode(p) \/ CountNode(p)

-----------------------------------------------------------------------------
queueVars == <<head, next, node_count, exchanged, enqueuerVars, returned, overlapped>>

\* dequeue: with nothing linked behind the stub it returns nullptr and
\* changes nothing.
LoadNext ==
    /\ dpc = "idle"
    /\ next[Stub] # Null
    /\ cnext' = next[Stub]
    /\ dpc' = "load_next_next"
    /\ UNCHANGED <<queueVars, next_next>>

\* Mutant: a node without a successor is taken for the newest one unseen.
LoadNextNextUnchecked ==
    /\ dpc = "load_next_next"
    /\ next_next' = next[cnext]
    /\ dpc' = "store"
    /\ UNCHANGED <<queueVars, cnext>>

LoadNextNext ==
    /\ dpc = "load_next_next"
    /\ next_next' = next[cnext]
    /\ dpc' = IF next[cnext] = Null THEN "check_head" ELSE "store"
    /\ UNCHANGED <<queueVars, cnext>>

\* Returns nullptr when a producer has displaced `next' and not linked it yet.
CheckHead ==
    /\ dpc = "check_head"
    /\ dpc' = IF head = cnext THEN "store" ELSE "idle"
    /\ UNCHANGED <<queueVars, cnext, next_next>>

StoreStubNext ==
    /\ dpc = "store"
    /\ next' = [next EXCEPT ![Stub] = next_next]
    /\ dpc' = IF next_next = Null THEN "recheck" ELSE "load_head"
    /\ UNCHANGED <<head, node_count, exchanged, enqueuerVars, cnext, next_next, returned, overlapped>>

\* The early return leaves the stub's next already overwritten.
RecheckHead ==
    /\ dpc = "recheck"
    /\ dpc' = IF head = cnext THEN "load_head" ELSE "idle"
    /\ UNCHANGED <<queueVars, cnext, next_next>>

\* next_next is never the stub (ChainShape), so the store of lines 154-156
\* does not happen.
LoadHead ==
    /\ dpc = "load_head"
    /\ dpc' = IF head = cnext THEN "cas" ELSE "return"
    /\ UNCHANGED <<queueVars, cnext, next_next>>

\* Mutant: the last node is handed out and stays at the head.
SwingHeadSkipped ==
    /\ dpc = "cas"
    /\ head = cnext
    /\ dpc' = "return"
    /\ UNCHANGED <<queueVars, cnext, next_next>>

SwingHead ==
    /\ dpc = "cas"
    /\ head = cnext
    /\ head' = Stub
    /\ dpc' = "return"
    /\ UNCHANGED <<next, node_count, exchanged, enqueuerVars, cnext, next_next, returned, overlapped>>

\* compare_exchange_strong writes the head it found into `next'.
SwingHeadFails ==
    /\ dpc = "cas"
    /\ head # cnext
    /\ cnext' = head
    /\ dpc' = "fix_up"
    /\ UNCHANGED <<queueVars, next_next>>

\* next_next is null here (ChainShape), so only the else branch can run.
FixUp ==
    /\ dpc = "fix_up"
    /\ next' = IF next[cnext] \notin {Null, next_next}
               THEN [next EXCEPT ![Stub] = next[cnext]]
               ELSE next
    /\ dpc' = "return"
    /\ UNCHANGED <<head, node_count, exchanged, enqueuerVars, cnext, next_next, returned, overlapped>>

ReturnNode ==
    /\ dpc = "return"
    /\ node_count' = node_count - 1
    /\ returned' = Append(returned, cnext)
    /\ dpc' = "idle"
    /\ UNCHANGED <<head, next, exchanged, enqueuerVars, cnext, next_next, overlapped>>

Dequeue ==
    \/ LoadNext \/ LoadNextNext \/ CheckHead \/ StoreStubNext \/ RecheckHead
    \/ LoadHead \/ SwingHead \/ SwingHeadFails \/ FixUp \/ ReturnNode

MpscNext == Dequeue \/ \E p \in Enqueuers : Enqueue(p)

MpscSpec == MpscInit /\ [][MpscNext]_mpscVars

\* A producer inside enqueue keeps running, and the mailbox's owner keeps
\* calling dequeue.
MpscFairness ==
    /\ WF_mpscVars(Dequeue)
    /\ \A p \in Enqueuers : WF_mpscVars(LinkNode(p) \/ CountNode(p))

-----------------------------------------------------------------------------
Refs == Nodes \cup {Stub, Null}

\* The queue's pointers are nodes, the stub or null, and head_ is never null.
MpscTypeOK ==
    /\ head \in Nodes \cup {Stub}
    /\ next \in [Nodes \cup {Stub} -> Refs]
    /\ node_count \in Int
    /\ exchanged \in 0 .. MaxNodes
    /\ epc \in [Enqueuers -> {"idle", "link", "count"}]
    /\ node \in [Enqueuers -> Refs]
    /\ prev \in [Enqueuers -> Refs]
    /\ dpc \in {"idle", "load_next_next", "check_head", "store", "recheck",
                "load_head", "cas", "fix_up", "return"}
    /\ cnext \in Refs /\ next_next \in Refs
    /\ returned \in Seq(Nodes)
    /\ overlapped \in BOOLEAN

\* A link never leads back: from a node only to a later one, never to the
\* stub; and a node that is still the head has no successor.
ChainShape ==
    /\ \A n \in Nodes : next[n] = Null \/ next[n] > n
    /\ next_next # Stub
    /\ dpc = "load_head" /\ head = cnext => next_next = Null
    /\ dpc \in {"cas", "fix_up"} => next_next = Null

\* dequeue hands nodes out in the order of their exchange on head_, and none
\* twice, even where it loses one.
ReturnedInOrder ==
    \A i, j \in 1 .. Len(returned) : i < j => returned[i] < returned[j]

Returned == ToSet(returned)

\* Nodes whose enqueue has linked them to their predecessor.
Linked == {n \in 1 .. exchanged : \A p \in Enqueuers : epc[p] = "link" => node[p] # n}

\* Nodes the consumer can still be handed: the chain behind the stub.
Waiting == {n \in 1 .. exchanged : n \notin Returned}

\* As long as no exchange has fallen into the consumer's last-node window,
\* nothing is lost: between dequeues the oldest waiting node hangs behind the
\* stub as soon as its producer has linked it, each waiting node leads to the
\* next, and no node that was handed out (and may be destroyed) is still the
\* head or about to be written to by a producer.
LossNeedsOverlap ==
    ~overlapped =>
        /\ dpc = "idle" =>
             \A n \in Waiting \cap Linked :
                 next[IF n - 1 \in Waiting THEN n - 1 ELSE Stub] = n
        /\ head \notin Returned
        /\ \A p \in Enqueuers : epc[p] = "link" => prev[p] \notin Returned

\* The queue's safety: its links lead forward, nodes come out once and in order, and
\* none is lost outside the consumer's last-node window.
MpscInv == MpscTypeOK /\ ChainShape /\ ReturnedInOrder /\ LossNeedsOverlap

\* Every node put at the head is handed out in the end (at most MaxNodes are),
\* unless an exchange fell into the window.
DeliveredUnlessOverlap == []<>(Waiting = {} \/ overlapped)

\* "leave the chain as-is and return nullptr - the next dequeue() will fix it
\* up": with no enqueue or dequeue in progress a queue that holds nodes has
\* one behind the stub for the next dequeue.
NextDequeueFixesUp ==
    (dpc = "idle" /\ (\A p \in Enqueuers : epc[p] = "idle") /\ node_count > 0) => next[Stub] # Null

\* dequeue returns "the oldest element": the node handed out is the oldest one
\* that is waiting.
ReturnsOldest == [][\A n \in Nodes : returned' = Append(returned, n) =>
                        \A m \in Waiting : m >= n]_mpscVars
=============================================================================
