-------------------------- MODULE GossipMembership --------------------------
(***************************************************************************)
(* Failure detection by gossip: GossipMembership's member table, direct    *)
(* and indirect probes, piggybacked suspicions, and its seven messages.    *)
(*                                                                         *)
(* A node's handlers and its protocol round run on its event loop thread,  *)
(* so each is one step.  Time is counted in protocol periods: ping_timeout *)
(* is shorter than a period, so a ping unanswered at the next round has    *)
(* expired.  fanout and indirect_probes are at least the number of peers,  *)
(* as with the default of 3, so a round picks all of them.                 *)
(***************************************************************************)
EXTENDS Integers, Sequences, FiniteSets

CONSTANTS
    Nodes,
    Foundings,          \* sets of nodes, one of which the cluster starts with
    SeedsOf,            \* GossipConfig::seeds of each node, a sequence
    SuspicionTimeout,   \* in periods
    DeadTimeout,        \* in periods
    MaxIncidents,       \* bound: crashes, starts, stops, announces and losses
    MaxLate,            \* bound: messages that may outlive a round or a period
    NoPeer              \* model value

ASSUME GossipAssumption ==
    /\ IsFiniteSet(Nodes) /\ Foundings \subseteq SUBSET Nodes /\ NoPeer \notin Nodes
    /\ {SuspicionTimeout, DeadTimeout} \subseteq Nat \ {0}
    /\ {MaxIncidents, MaxLate} \subseteq Nat

VARIABLES
    up,             \* nodes that are running
    own,            \* incarnation_ of each node
    members,        \* members_ of each node; status "None" is an absent entry
    pinging,        \* pending_pings_: "no", "direct", or "indirect" once indirect_requested
    forwarded,      \* forwarded_pings_: target -> requester
    announcing,     \* nodes with needs_dissemination_
    seeds_tried,    \* join_seed_index_ + 1, or 0 before start()
    net,            \* messages in flight
    to_run,         \* nodes whose round of this period is still to come
    incidents,
    undisturbed,    \* nodes that were up and undisturbed from the start
    lossy           \* a message to a running node was lost or late

gossipVars == <<up, own, members, pinging, forwarded, announcing, seeds_tried, net,
                to_run, incidents, undisturbed, lossy>>

Unknown == [status |-> "None", inc |-> 0, age |-> 0]
Entry(s, i) == [status |-> s, inc |-> i, age |-> 0]
OldAge == SuspicionTimeout + DeadTimeout

GossipInit ==
    /\ up \in Foundings
    /\ own = [n \in Nodes |-> IF n \in up THEN 1 ELSE 0]
    /\ members = [n \in Nodes |-> [m \in Nodes |->
                    IF {n, m} \subseteq up THEN Entry("Alive", 1) ELSE Unknown]]
    /\ pinging = [n \in Nodes |-> [m \in Nodes |-> "no"]]
    /\ forwarded = [n \in Nodes |-> [m \in Nodes |-> NoPeer]]
    /\ announcing = {}
    /\ seeds_tried = [n \in Nodes |-> 0]
    /\ net = {}
    /\ to_run = up
    /\ incidents = 0
    /\ undisturbed = up
    /\ lossy = FALSE

-----------------------------------------------------------------------------
(* The member table.                                                       *)

\* merge_member.  A higher incarnation wakes a Dead entry; a Suspicious or
\* Left one keeps its status.
Merge(t, who, inc, status) ==
    LET known == t[who]
        woken == IF known.status = "Dead" THEN "Alive" ELSE known.status
        new   == IF status = "Alive" THEN woken ELSE status
    IN  IF known.status = "None" THEN [t EXCEPT ![who] = Entry(status, inc)]
        ELSE IF inc <= known.inc THEN t
        ELSE [t EXCEPT ![who] = [status |-> new, inc |-> inc,
                                 age |-> IF new = "Alive" THEN 0 ELSE known.age]]

\* apply_piggyback, one entry: last_seen is refreshed whatever the entry says.
ApplyEntry(known, e) ==
    LET status == IF e.kind = "Metadata" THEN "Alive" ELSE e.kind IN
    IF known.status = "None" THEN Entry(status, e.inc)
    ELSE IF e.inc < known.inc THEN known
    ELSE Entry(IF e.kind = "Metadata" THEN known.status ELSE status, e.inc)

ApplyAny(known, es) == IF es = {} THEN known ELSE ApplyEntry(known, CHOOSE e \in es : TRUE)

\* A piggyback has at most one metadata entry, its sender's, in front, and at
\* most one other entry per node.
ApplyPiggyback(t, pb) ==
    [w \in Nodes |->
        LET mine == {e \in pb : e.who = w}
            meta == {e \in mine : e.kind = "Metadata"}
        IN  ApplyAny(ApplyAny(t[w], meta), mine \ meta)]

\* build_piggyback_impl.
Piggyback(n, t) ==
    (IF n \in announcing THEN {[kind |-> "Metadata", who |-> n, inc |-> own[n]]} ELSE {})
    \cup {[kind |-> t[w].status, who |-> w, inc |-> t[w].inc] :
             w \in {v \in Nodes : t[v].status \in {"Suspicious", "Dead"}}}

\* Candidates of pick_random_peers.
AlivePeers(n, t, exclude) ==
    {w \in Nodes \ ({n} \cup exclude) : t[w].status = "Alive"}

Message(kind, n, to, about, pb) ==
    [kind |-> kind, from |-> n, to |-> to, inc |-> own[n], about |-> about, pb |-> pb]
PingTo(n, to, t) == Message("Ping", n, to, NoPeer, Piggyback(n, t))

-----------------------------------------------------------------------------
(* protocol_round.                                                         *)

Pinged(n, how) == {w \in Nodes : pinging[n][w] = how}
Proxies(n, target) == AlivePeers(n, members[n], {target})

\* Targets of an expired ping that no proxy is asked about (any more).
Suspects(n) ==
    Pinged(n, "indirect") \cup {w \in Pinged(n, "direct") : Proxies(n, w) = {}}

\* mark_suspicious: whatever the entry was, Left and Dead included.
MarkSuspicious(t, ws) ==
    [w \in Nodes |-> IF w \in ws /\ t[w].status # "None"
                     THEN Entry("Suspicious", t[w].inc) ELSE t[w]]

\* mark_dead for every suspicion that timed out, the node's own entry included.
MarkDead(t) ==
    [w \in Nodes |-> IF t[w].status = "Suspicious" /\ t[w].age > SuspicionTimeout
                     THEN Entry("Dead", t[w].inc) ELSE t[w]]

PurgeTombstones(t) ==
    [w \in Nodes |-> IF t[w].status \in {"Dead", "Left"} /\ t[w].age > DeadTimeout
                     THEN Unknown ELSE t[w]]

\* Mutant: suspicious members are pinged, alive ones are not.
TargetsOfSuspicion(n, t) == {w \in Nodes \ {n} : t[w].status = "Suspicious"}

\* Whom step 2 pings.
Targets(n, t) == AlivePeers(n, t, {})

Round(n) ==
    LET suspects == Suspects(n)
        asked    == {a \in Nodes \X Pinged(n, "direct") : a[1] \in Proxies(n, a[2])}
        table    == MarkSuspicious(members[n], suspects)
        targets  == Targets(n, table)
    IN
    /\ n \in to_run /\ Cardinality(net) <= MaxLate
    /\ to_run' = to_run \ {n}
    /\ pinging' = [pinging EXCEPT ![n] = [w \in Nodes |->
            IF pinging[n][w] # "no" /\ w \notin suspects THEN "indirect"
            ELSE IF w \in targets THEN "direct" ELSE "no"]]
    /\ net' = net
         \cup {Message("PingReq", n, a[1], a[2], {}) : a \in asked}
         \cup {PingTo(n, w, table) : w \in targets}
    /\ announcing' = IF targets = {} THEN announcing ELSE announcing \ {n}
    /\ members' = [members EXCEPT ![n] = PurgeTombstones(MarkDead(table))]
    /\ UNCHANGED <<up, own, forwarded, seeds_tried, incidents, undisturbed, lossy>>

-----------------------------------------------------------------------------
(* handle_packet.                                                          *)

\* m is delivered: its receiver's table becomes t and it sends replies.
Deliver(m, t, replies) ==
    /\ m \in net /\ m.to \in up
    /\ members' = [members EXCEPT ![m.to] = t]
    /\ net' = (net \ {m}) \cup replies
    /\ UNCHANGED <<up, own, to_run, incidents, undisturbed, lossy>>

\* Mutant: an answer leaves the pending ping in place.
ForgetNot(p, n, w) == p

\* pending_pings_.erase.
Forget(p, n, w) == [p EXCEPT ![n][w] = "no"]

HandlePing(m) ==
    LET n == m.to
        t == ApplyPiggyback(Merge(members[n], m.from, m.inc, "Alive"), m.pb)
        pb == Piggyback(n, t)
    IN
    /\ m.kind = "Ping"
    /\ Deliver(m, t, {Message("Ack", n, m.from, NoPeer, pb)})
    /\ pinging' = Forget(pinging, n, m.from)
    /\ announcing' = IF pb = {} THEN announcing ELSE announcing \ {n}
    /\ UNCHANGED <<forwarded, seeds_tried>>

HandleAck(m) ==
    LET n == m.to
        for == forwarded[n][m.from]
        t == ApplyPiggyback(Merge(members[n], m.from, m.inc, "Alive"), m.pb)
    IN
    /\ m.kind = "Ack"
    /\ Deliver(m, t, IF for = NoPeer THEN {}
                     ELSE {Message("IndirectAck", n, for, m.from, {})})
    /\ forwarded' = [forwarded EXCEPT ![n][m.from] = NoPeer]
    /\ pinging' = Forget(pinging, n, m.from)
    /\ UNCHANGED <<announcing, seeds_tried>>

\* The requester is merged with incarnation 0: only an absent entry changes.
HandlePingReq(m) ==
    LET n == m.to
        t == Merge(members[n], m.from, 0, "Alive")
    IN
    /\ m.kind = "PingReq"
    /\ Deliver(m, t, {PingTo(n, m.about, t)})
    /\ forwarded' = [forwarded EXCEPT ![n][m.about] = m.from]
    /\ UNCHANGED <<pinging, announcing, seeds_tried>>

HandleIndirectAck(m) ==
    /\ m.kind = "IndirectAck"
    /\ Deliver(m, Merge(members[m.to], m.from, 0, "Alive"), {})
    /\ pinging' = IF pinging[m.to][m.about] = "indirect"
                  THEN Forget(pinging, m.to, m.about) ELSE pinging
    /\ UNCHANGED <<forwarded, announcing, seeds_tried>>

\* handle_join answers with the whole table but for Dead and Left entries.
HandleJoin(m) ==
    LET n == m.to
        t == Merge(members[n], m.from, m.inc, "Alive")
        known == {w \in Nodes : t[w].status \in {"Alive", "Suspicious"}}
    IN
    /\ m.kind = "Join"
    /\ Deliver(m, t, {Message("SyncRsp", n, m.from, NoPeer,
                 {[kind |-> t[w].status, who |-> w, inc |-> t[w].inc] : w \in known})})
    /\ UNCHANGED <<pinging, forwarded, announcing, seeds_tried>>

\* handle_sync_rsp: each entry concerns another node, so the order is free.
HandleSyncRsp(m) ==
    LET merged == [w \in Nodes |->
            LET es == {e \in m.pb : e.who = w} IN
            IF es = {} THEN members[m.to][w]
            ELSE LET e == CHOOSE x \in es : TRUE
                 IN  Merge(members[m.to], w, e.inc, e.kind)[w]]
    IN
    /\ m.kind = "SyncRsp"
    /\ Deliver(m, IF merged[m.to].status = "None"
                  THEN [merged EXCEPT ![m.to] = Entry("Alive", own[m.to])] ELSE merged, {})
    /\ seeds_tried' = [seeds_tried EXCEPT ![m.to] = Len(SeedsOf[m.to])]
    /\ UNCHANGED <<pinging, forwarded, announcing>>

HandleLeave(m) ==
    LET known == members[m.to][m.from] IN
    /\ m.kind = "Leave"
    /\ Deliver(m, IF known.status # "None" /\ m.inc >= known.inc
                  THEN [members[m.to] EXCEPT ![m.from] = Entry("Left", known.inc)]
                  ELSE members[m.to], {})
    /\ UNCHANGED <<pinging, forwarded, announcing, seeds_tried>>

Handle(m) ==
    \/ HandlePing(m) \/ HandleAck(m) \/ HandlePingReq(m) \/ HandleIndirectAck(m)
    \/ HandleJoin(m) \/ HandleSyncRsp(m) \/ HandleLeave(m)

-----------------------------------------------------------------------------
(* Starting, stopping, crashing; the network and the clock.                *)

Incident ==
    /\ incidents < MaxIncidents
    /\ incidents' = incidents + 1

Quiet == Cardinality(net) <= MaxLate

\* The tables of a node that starts or ends.
Reset(n, t) ==
    /\ members' = [members EXCEPT ![n] = t]
    /\ pinging' = [pinging EXCEPT ![n] = [w \in Nodes |-> "no"]]
    /\ forwarded' = [forwarded EXCEPT ![n] = [w \in Nodes |-> NoPeer]]
    /\ announcing' = announcing \ {n}

\* start(): the incarnation is the wall clock, above that of any earlier run.
Start(n) ==
    /\ n \notin up /\ Quiet /\ Incident
    /\ up' = up \cup {n}
    /\ own' = [own EXCEPT ![n] = @ + 1]
    /\ Reset(n, [w \in Nodes |-> IF w = n THEN Entry("Alive", own'[n]) ELSE Unknown])
    /\ seeds_tried' = [seeds_tried EXCEPT ![n] = 1]
    /\ net' = net \cup {[kind |-> "Join", from |-> n, to |-> SeedsOf[n][1],
                         inc |-> own'[n], about |-> NoPeer, pb |-> {}]}
    /\ UNCHANGED <<to_run, undisturbed, lossy>>

\* The join timer: the next seed, unless another member is known by now.
JoinRetry(n) ==
    /\ n \in up /\ seeds_tried[n] \in 1 .. Len(SeedsOf[n]) - 1
    /\ \A m \in net : n \notin {m.from, m.to}
    /\ IF \E w \in Nodes \ {n} : members[n][w].status # "None"
       THEN /\ seeds_tried' = [seeds_tried EXCEPT ![n] = Len(SeedsOf[n])]
            /\ UNCHANGED net
       ELSE /\ seeds_tried' = [seeds_tried EXCEPT ![n] = @ + 1]
            /\ net' = net \cup {Message("Join", n, SeedsOf[n][seeds_tried'[n]], NoPeer, {})}
    /\ UNCHANGED <<up, own, members, pinging, forwarded, announcing, to_run, incidents,
                   undisturbed, lossy>>

Stop(n) ==
    /\ n \in up /\ Incident
    /\ up' = up \ {n}
    /\ net' = net \cup {Message("Leave", n, w, NoPeer, {}) :
                          w \in {v \in Nodes \ {n} :
                                    members[n][v].status \in {"Alive", "Suspicious"}}}
    /\ Reset(n, [w \in Nodes |-> Unknown])
    /\ to_run' = to_run \ {n}
    /\ undisturbed' = undisturbed \ {n}
    /\ UNCHANGED <<own, seeds_tried, lossy>>

Crash(n) ==
    /\ n \in up /\ Incident
    /\ up' = up \ {n}
    /\ Reset(n, [w \in Nodes |-> Unknown])
    /\ to_run' = to_run \ {n}
    /\ undisturbed' = undisturbed \ {n}
    /\ UNCHANGED <<own, seeds_tried, net, lossy>>

\* announce(): the incarnation goes up, the node's own entry keeps the old one.
Announce(n) ==
    /\ n \in up /\ Quiet /\ Incident
    /\ own' = [own EXCEPT ![n] = @ + 1]
    /\ announcing' = announcing \cup {n}
    /\ UNCHANGED <<up, members, pinging, forwarded, seeds_tried, net, to_run,
                   undisturbed, lossy>>

Lose(m) ==
    /\ m \in net /\ m.to \in up /\ Incident
    /\ net' = net \ {m}
    /\ lossy' = TRUE
    /\ UNCHANGED <<up, own, members, pinging, forwarded, announcing, seeds_tried, to_run,
                   undisturbed>>

\* A message to a node that is down goes nowhere.
Unreachable(m) ==
    /\ m \in net /\ m.to \notin up
    /\ net' = net \ {m}
    /\ UNCHANGED <<up, own, members, pinging, forwarded, announcing, seeds_tried, to_run,
                   incidents, undisturbed, lossy>>

\* The next protocol period.
Tick ==
    /\ to_run = {} /\ Quiet
    /\ to_run' = up
    /\ members' = [n \in Nodes |-> [w \in Nodes |->
            IF members[n][w].status = "None" THEN Unknown
            ELSE [members[n][w] EXCEPT !.age = IF @ < OldAge THEN @ + 1 ELSE @]]]
    /\ lossy' = (lossy \/ net # {})
    /\ UNCHANGED <<up, own, pinging, forwarded, announcing, seeds_tried, net, incidents,
                   undisturbed>>

GossipNext ==
    \/ \E n \in Nodes : \/ Round(n) \/ Start(n) \/ JoinRetry(n)
                        \/ Stop(n) \/ Crash(n) \/ Announce(n)
    \/ \E m \in net : Handle(m) \/ Lose(m) \/ Unreachable(m)
    \/ Tick

GossipSpec == GossipInit /\ [][GossipNext]_gossipVars

\* The event loops turn, the network delivers, time passes.
GossipFairness ==
    /\ \A n \in Nodes : WF_gossipVars(Round(n))
    /\ WF_gossipVars(\E m \in net : Handle(m) \/ Unreachable(m))
    /\ WF_gossipVars(Tick)

-----------------------------------------------------------------------------
Statuses == {"None", "Alive", "Suspicious", "Dead", "Left"}

\* Tables, probes and forwarded pings have their types, and only a running
\* node has any.
GossipTypeOK ==
    /\ \A n, m \in Nodes :
          /\ members[n][m].status \in Statuses /\ members[n][m].age \in 0 .. OldAge
          /\ pinging[n][m] \in {"no", "direct", "indirect"}
          /\ n \notin up => members[n][m] = Unknown /\ pinging[n][m] = "no"
    /\ to_run \cup announcing \subseteq up

\* A table never credits a node with an incarnation it has not had: neither
\* piggybacked suspicions nor a sync response invent one.
IncarnationsGenuine == \A n, m \in Nodes : members[n][m].inc <= own[m]

\* While every message arrives within its period, no node that has been up
\* all along is suspected by anyone, however many others crash, leave,
\* restart or are probed through it.
AccurateUnlessLossy ==
    ~lossy => \A n \in up, m \in undisturbed :
                 members[n][m].status \in {"None", "Alive"}

\* An entry goes from Dead to Alive only for a new incarnation of the node:
\* late or repeated messages of the dead one do not revive it.
DeadStaysDead ==
    [][\A n, m \in Nodes :
          members[n][m].status = "Dead" /\ members'[n][m].status = "Alive" =>
              members'[n][m].inc > members[n][m].inc]_gossipVars

\* A node that stays down is, in every table, soon no longer Alive.
CrashNoticed ==
    []<>(\A n \in up, m \in Nodes \ up : members[n][m].status # "Alive")

\* The tables' safety: genuine incarnations, and no false suspicion without losses.
GossipInv == GossipTypeOK /\ IncarnationsGenuine /\ AccurateUnlessLossy

\* A node that is down is noticed, and is not revived by what it said while up.
DeadForGood == DeadStaysDead /\ CrashNoticed

-----------------------------------------------------------------------------
(* What the documentation promises and the code does not keep.             *)

\* A node that crashed becomes Dead and its tombstone is purged.
CrashedForgotten ==
    []<>(\A n \in up, m \in Nodes \ up : members[n][m].status \in {"Dead", "Left", "None"})

\* A running node that is reachable is Alive again in time.
SuspicionRefuted ==
    []<>(\A n, m \in up : members[n][m].status \in {"Alive", "None"})

\* A member that left stays out until it is purged or returns.
LeftIsFinal ==
    [][\A n, m \in Nodes :
          members[n][m].status = "Left" =>
              members'[n][m].status \in {"Left", "None"}]_gossipVars
=============================================================================
