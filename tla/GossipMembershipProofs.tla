----------------------- MODULE GossipMembershipProofs ------------------------
(***************************************************************************)
(* Failure detection for any finite set of nodes, any timeouts and any     *)
(* number of crashes, starts, stops, announcements and losses: genuine     *)
(* incarnations, no false suspicion without losses, and no revival of a    *)
(* node found dead by what it said while it was up.                        *)
(***************************************************************************)
EXTENDS GossipMembership, TLAPS

EntryTypes == [status : Statuses, inc : Nat, age : 0 .. OldAge]
Tables == [Nodes -> EntryTypes]

\* What may be in a table: incarnations its nodes have had and, without losses, no
\* suspicion of a node that was up all along.
GoodTable(t) ==
    /\ t \in Tables
    /\ \A w \in Nodes : t[w].inc <= own[w]
    /\ ~lossy => \A w \in undisturbed : t[w].status \in {"None", "Alive"}

\* The entries each kind of message carries.
Carried(kind) ==
    CASE kind \in {"Ping", "Ack"} -> {"Metadata", "Suspicious", "Dead"}
      [] kind = "SyncRsp" -> {"Alive", "Suspicious"}
      [] OTHER -> {}

\* What may be in the entries of a piggyback or a sync response.
GoodEntries(pb, kinds) ==
    \A e \in pb : /\ e.kind \in kinds /\ e.who \in Nodes /\ e.inc \in Nat/\ e.inc <= own[e.who]
                  /\ ~lossy /\ e.who \in undisturbed => e.kind \in {"Metadata", "Alive"}

GoodMessage(m) ==
    /\ m.from \in Nodes /\ m.inc \in Nat/\ m.inc <= own[m.from]
    /\ GoodEntries(m.pb, Carried(m.kind))
    /\ m.kind \in {"PingReq", "IndirectAck"} => m.about \in Nodes
    /\ m.kind = "Leave" => m.from \notin undisturbed

NodeTypes ==
    /\ up \subseteq Nodes /\ to_run \subseteq up /\ announcing \subseteq up
    /\ undisturbed \subseteq up
    /\ own \in [Nodes -> Nat]
    /\ pinging \in [Nodes -> [Nodes -> {"no", "direct", "indirect"}]]
    /\ forwarded \in [Nodes -> [Nodes -> Nodes \cup {NoPeer}]]

TableIInv ==
    /\ members \in [Nodes -> Tables]
    /\ \A n \in Nodes : GoodTable(members[n])
    /\ \A n \in Nodes \ up, w \in Nodes : members[n][w] = Unknown /\ pinging[n][w] = "no"

\* m is a ping of w by n on its way, or its answer.
Probe(m, n, w) ==
    \/ m.kind = "Ping" /\ m.from = n /\ m.to = w
    \/ m.kind = "Ack" /\ m.from = w /\ m.to = n

\* Without losses, a ping of a node that was up all along is awaited only within its
\* period, and while it or its answer is on its way.
ProbesAnswered ==
    ~lossy => \A n \in up, w \in undisturbed :
        pinging[n][w] # "no" => n \notin to_run /\ \E m \in net : Probe(m, n, w)

GossipIInv ==
    NodeTypes /\ TableIInv /\ (\A m \in net : GoodMessage(m)) /\ ProbesAnswered

-----------------------------------------------------------------------------
(* The tables and the entries.                                             *)

\* Ages are counted up to a positive bound.
LEMMA AgesBounded == OldAge \in Nat /\ OldAge > 0
  BY GossipAssumption DEF OldAge

\* A new entry has the type of an entry.
LEMMA EntryTyped ==
    /\ Unknown \in EntryTypes
    /\ \A s \in Statuses, i \in Nat :
          Entry(s, i) \in EntryTypes /\ Entry(s, i).status = s /\ Entry(s, i).inc = i
  BY AgesBounded DEF Unknown, Entry, EntryTypes, Statuses

\* merge_member changes the entry of one node: it takes the incarnation it is told or
\* none, it revives a Dead entry only for a higher one, and it suspects nobody that it
\* is not told to.
LEMMA MergeEffect ==
    ASSUME NEW t \in Tables, NEW who \in Nodes, NEW inc \in Nat,
           NEW status \in {"Alive", "Suspicious"},
           NEW r, r = Merge(t, who, inc, status)
    PROVE  /\ r \in Tables /\ r[who].status # "None"
           /\ \A w \in Nodes \ {who} : r[w] = t[w]
           /\ r[who].inc \in {t[who].inc, inc}
           /\ t[who].status # "None" => r[who].inc >= t[who].inc
           /\ t[who].status = "Dead" /\ r[who].status = "Alive" => r[who].inc > t[who].inc
           /\ t[who].status \in {"None", "Alive"} /\ status = "Alive" =>
                 r[who].status = "Alive"
<1> DEFINE known == t[who]
           woken == IF known.status = "Dead" THEN "Alive" ELSE known.status
           new == IF status = "Alive" THEN woken ELSE status
           e == [status |-> new, inc |-> inc, age |-> IF new = "Alive" THEN 0 ELSE known.age]
<1>1. /\ known \in EntryTypes /\ known.status \in Statuses /\ known.inc \in Nat
      /\ known.age \in 0 .. OldAge
  BY DEF Tables, EntryTypes
<1>2. e \in EntryTypes
  BY <1>1, AgesBounded DEF EntryTypes, Statuses
<1>3. CASE known.status = "None"
  <2>1. r = [t EXCEPT ![who] = Entry(status, inc)]
    BY <1>3, Zenon DEF Merge
  <2>2. /\ Entry(status, inc) \in EntryTypes
        /\ Entry(status, inc).status = status /\ Entry(status, inc).inc = inc
    BY EntryTyped DEF Statuses
  <2> QED
    BY <1>3, <2>1, <2>2, Zenon DEF Tables
<1>4. CASE known.status # "None" /\ inc <= known.inc
  BY <1>1, <1>4 DEF Merge
<1>5. CASE known.status # "None" /\ ~(inc <= known.inc)
  <2>1. r = [t EXCEPT ![who] = e]
    BY <1>5 DEF Merge
  <2>2. r \in Tables /\ r[who] = e /\ \A w \in Nodes \ {who} : r[w] = t[w]
    BY <1>2, <2>1, ZenonT(120) DEF Tables
  <2> QED
    BY <1>1, <1>5, <2>2
<1> QED
  BY <1>3, <1>4, <1>5, Zenon

\* apply_piggyback of one entry of a Ping or an Ack.
LEMMA ApplyEffect ==
    ASSUME NEW known \in EntryTypes, NEW e, e.kind \in {"Metadata", "Suspicious", "Dead"},
           e.inc \in Nat, NEW r, r = ApplyEntry(known, e)
    PROVE  /\ r \in EntryTypes
           /\ r.inc \in {known.inc, e.inc}
           /\ known.status # "None" => r.inc >= known.inc
           /\ known.status # "None" /\ r.status = "Alive" => known.status = "Alive"
           /\ r.status # "None"
           /\ known.status \in {"None", "Alive"} /\ e.kind = "Metadata" => r.status = "Alive"
<1>1. known.status \in Statuses /\ known.inc \in Nat
  BY Zenon DEF EntryTypes
<1> DEFINE status == IF e.kind = "Metadata" THEN "Alive" ELSE e.kind
           kept == IF e.kind = "Metadata" THEN known.status ELSE status
<1>2. status \in Statuses /\ kept \in Statuses
  BY <1>1, Zenon DEF Statuses
<1>3. r = IF known.status = "None" THEN Entry(status, e.inc)
          ELSE IF e.inc < known.inc THEN known ELSE Entry(kept, e.inc)
  BY Zenon DEF ApplyEntry
<1>4. /\ Entry(status, e.inc) \in EntryTypes /\ Entry(kept, e.inc) \in EntryTypes
      /\ Entry(status, e.inc).status = status /\ Entry(status, e.inc).inc = e.inc
      /\ Entry(kept, e.inc).status = kept /\ Entry(kept, e.inc).inc = e.inc
  BY <1>2, EntryTyped
<1>5. CASE known.status = "None"
  <2>1. r = Entry(status, e.inc)
    BY <1>3, <1>5, Zenon
  <2> QED
    BY <1>4, <1>5, <2>1, Zenon
<1>6. CASE known.status # "None" /\ e.inc < known.inc
  BY <1>1, <1>3, <1>6
<1>7. CASE known.status # "None" /\ ~(e.inc < known.inc)
  <2>1. r = Entry(kept, e.inc)
    BY <1>3, <1>7, Zenon
  <2> QED
    BY <1>1, <1>4, <1>7, <2>1
<1> QED
  BY <1>5, <1>6, <1>7, Zenon

\* apply_piggyback of what a message says about one node, which may be nothing.
LEMMA ApplyAnyEffect ==
    ASSUME NEW known \in EntryTypes, NEW es,
           \A e \in es : e.kind \in {"Metadata", "Suspicious", "Dead"} /\ e.inc \in Nat,
           NEW r, r = ApplyAny(known, es)
    PROVE  /\ r \in EntryTypes
           /\ r.inc = known.inc \/ \E e \in es : r.inc = e.inc
           /\ known.status # "None" => r.status # "None" /\ r.inc >= known.inc
           /\ known.status # "None" /\ r.status = "Alive" => known.status = "Alive"
           /\ known.status \in {"None", "Alive"} /\ (\A e \in es : e.kind = "Metadata") =>
                 r.status \in {"None", "Alive"}
<1>1. CASE es = {}
  <2>1. r = known /\ known.inc \in Nat
    BY <1>1, Zenon DEF ApplyAny, EntryTypes
  <2> QED
    BY <2>1
<1>2. CASE es # {}
  <2>1. PICK e \in es : r = ApplyEntry(known, e)
    BY <1>2, Zenon DEF ApplyAny
  <2>2. e.kind \in {"Metadata", "Suspicious", "Dead"} /\ e.inc \in Nat
    BY <2>1, Zenon
  <2>3. /\ r \in EntryTypes /\ r.status # "None"
        /\ r.inc \in {known.inc, e.inc}
        /\ known.status # "None" => r.inc >= known.inc
        /\ known.status # "None" /\ r.status = "Alive" => known.status = "Alive"
        /\ known.status \in {"None", "Alive"} /\ e.kind = "Metadata" => r.status = "Alive"
    BY <2>1, <2>2, ApplyEffect
  <2> QED
    BY <2>1, <2>3, Zenon
<1> QED
  BY <1>1, <1>2, Zenon

PingEntries == {"Metadata", "Suspicious", "Dead"}

\* Whatever a piggyback says, a table stays good, and an entry that was there is Alive
\* only if it was before.
LEMMA PiggybackEffect ==
    ASSUME NodeTypes, NEW t, GoodTable(t), NEW pb, GoodEntries(pb, PingEntries),
           NEW r, r = ApplyPiggyback(t, pb)
    PROVE  /\ GoodTable(r)
           /\ \A w \in Nodes : t[w].status # "None" =>
                 r[w].inc >= t[w].inc /\ (r[w].status = "Alive" => t[w].status = "Alive")
<1>1. ASSUME NEW w \in Nodes
      PROVE  /\ r[w] \in EntryTypes /\ r[w].inc <= own[w]
             /\ ~lossy /\ w \in undisturbed => r[w].status \in {"None", "Alive"}
             /\ t[w].status # "None" =>
                   r[w].inc >= t[w].inc /\ (r[w].status = "Alive" => t[w].status = "Alive")
  <2> DEFINE mine == {e \in pb : e.who = w}
             meta == {e \in mine : e.kind = "Metadata"}
             rest == mine \ meta
  <2>1. PICK a : a = t[w]
    BY Zenon
  <2>2. PICK b : b = ApplyAny(a, meta)
    BY Zenon
  <2>3. r[w] = ApplyAny(b, rest)
    BY <1>1, <2>1, <2>2, Zenon DEF ApplyPiggyback
  <2>4. a \in EntryTypes /\ a.inc \in Nat /\ a.inc <= own[w] /\ own[w] \in Nat
    BY <1>1, <2>1, Zenon DEF GoodTable, Tables, EntryTypes, NodeTypes
  <2>5. \A e \in mine : /\ e.kind \in {"Metadata", "Suspicious", "Dead"} /\ e.inc \in Nat
                        /\ e.inc <= own[w]
                        /\ ~lossy /\ w \in undisturbed => e.kind \in {"Metadata", "Alive"}
    BY Zenon DEF GoodEntries, PingEntries
  <2>6. /\ b \in EntryTypes
        /\ b.inc = a.inc \/ \E e \in meta : b.inc = e.inc
        /\ a.status # "None" => b.status # "None" /\ b.inc >= a.inc
        /\ a.status # "None" /\ b.status = "Alive" => a.status = "Alive"
        /\ a.status \in {"None", "Alive"} /\ (\A e \in meta : e.kind = "Metadata") =>
              b.status \in {"None", "Alive"}
    <3>1. \A e \in meta : e.kind \in {"Metadata", "Suspicious", "Dead"} /\ e.inc \in Nat
      BY <2>5, Zenon
    <3> HIDE DEF meta
    <3> QED
      BY <2>2, <2>4, <3>1, ApplyAnyEffect
  <2>7. /\ r[w] \in EntryTypes
        /\ r[w].inc = b.inc \/ \E e \in rest : r[w].inc = e.inc
        /\ b.status # "None" => r[w].status # "None" /\ r[w].inc >= b.inc
        /\ b.status # "None" /\ r[w].status = "Alive" => b.status = "Alive"
        /\ b.status \in {"None", "Alive"} /\ (\A e \in rest : e.kind = "Metadata") =>
              r[w].status \in {"None", "Alive"}
    <3>1. \A e \in rest : e.kind \in {"Metadata", "Suspicious", "Dead"} /\ e.inc \in Nat
      BY <2>5, Zenon
    <3> HIDE DEF rest
    <3> QED
      BY <2>3, <2>6, <3>1, ApplyAnyEffect, Zenon
  <2>8. r[w].inc <= own[w]
    <3>1. b.inc <= own[w]
      BY <2>4, <2>5, <2>6, Zenon
    <3> QED
      BY <2>5, <2>7, <3>1, Zenon
  <2>9. ASSUME ~lossy, w \in undisturbed PROVE r[w].status \in {"None", "Alive"}
    <3>1. a.status \in {"None", "Alive"}
      BY <2>1, <2>9, Zenon DEF GoodTable
    <3>2. rest = {}
      BY <2>5, <2>9, ZenonT(60)
    <3> QED
      BY <2>6, <2>7, <3>1, <3>2, Zenon
  <2>10. ASSUME t[w].status # "None"
         PROVE  r[w].inc >= t[w].inc /\ (r[w].status = "Alive" => t[w].status = "Alive")
    <3>1. a.inc \in Nat /\ b.inc \in Nat /\ r[w].inc \in Nat
      BY <2>4, <2>6, <2>7, Zenon DEF EntryTypes
    <3> QED
      BY <2>1, <2>6, <2>7, <2>10, <3>1
  <2> QED
    BY <2>7, <2>8, <2>9, <2>10, Zenon
<1>2. r \in Tables
  <2>1. r = [w \in Nodes |-> r[w]]
    BY Zenon DEF ApplyPiggyback
  <2> QED
    BY <1>1, <2>1, Zenon DEF Tables
<1>3. undisturbed \subseteq Nodes
  BY Zenon DEF NodeTypes
<1> QED
  BY <1>1, <1>2, <1>3, Zenon DEF GoodTable

\* build_piggyback_impl passes on what a good table says.
LEMMA PiggybackGood ==
    ASSUME NodeTypes, NEW n \in Nodes, NEW t, GoodTable(t)
    PROVE  GoodEntries(Piggyback(n, t), PingEntries)
<1> SUFFICES ASSUME NEW e \in Piggyback(n, t)
             PROVE  /\ e.kind \in PingEntries /\ e.who \in Nodes /\ e.inc \in Nat
                    /\ e.inc <= own[e.who]
                    /\ ~lossy /\ e.who \in undisturbed => e.kind \in {"Metadata", "Alive"}
  BY Zenon DEF GoodEntries
<1>1. CASE e = [kind |-> "Metadata", who |-> n, inc |-> own[n]]
  BY <1>1 DEF NodeTypes, PingEntries
<1>2. CASE \E w \in Nodes : /\ t[w].status \in {"Suspicious", "Dead"}
                            /\ e = [kind |-> t[w].status, who |-> w, inc |-> t[w].inc]
  <2>1. PICK w \in Nodes : /\ t[w].status \in {"Suspicious", "Dead"}
                           /\ e = [kind |-> t[w].status, who |-> w, inc |-> t[w].inc]
    BY <1>2, Zenon
  <2>2. t[w].inc \in Nat /\ t[w].inc <= own[w]
    BY Zenon DEF GoodTable, Tables, EntryTypes
  <2>3. ~(~lossy /\ w \in undisturbed)
    BY <2>1, Zenon DEF GoodTable
  <2> QED
    BY <2>1, <2>2, <2>3, Zenon DEF PingEntries
<1> QED
  BY <1>1, <1>2, Zenon DEF Piggyback

\* No entry of a table goes from Dead to Alive without a higher incarnation.
NoRevival(t, r) ==
    \A w \in Nodes : t[w].status = "Dead" /\ r[w].status = "Alive" => r[w].inc > t[w].inc

\* Merging a sender, or a node that a sync response names, keeps a table good.
LEMMA MergeGood ==
    ASSUME NodeTypes, NEW t, GoodTable(t), NEW who \in Nodes, NEW inc \in Nat, inc <= own[who],
           NEW status \in {"Alive", "Suspicious"},
           ~lossy /\ who \in undisturbed => status = "Alive",
           NEW r, r = Merge(t, who, inc, status)
    PROVE  /\ GoodTable(r) /\ NoRevival(t, r)
           /\ \A w \in Nodes : t[w].status # "None" => r[w].status # "None"
<1>1. t \in Tables /\ \A w \in Nodes : t[w].inc <= own[w]
  BY ZenonT(60) DEF GoodTable
<1>2. /\ r \in Tables /\ r[who].status # "None"
      /\ \A w \in Nodes \ {who} : r[w] = t[w]
      /\ r[who].inc \in {t[who].inc, inc}
      /\ t[who].status = "Dead" /\ r[who].status = "Alive" => r[who].inc > t[who].inc
      /\ t[who].status \in {"None", "Alive"} /\ status = "Alive" => r[who].status = "Alive"
  BY <1>1, MergeEffect, SMTT(60), Zenon
<1>3. \A w \in Nodes : r[w].inc <= own[w]
  BY <1>1, <1>2, Zenon
<1>4. ASSUME ~lossy, NEW w \in undisturbed PROVE r[w].status \in {"None", "Alive"}
  <2>1. w \in Nodes /\ t[w].status \in {"None", "Alive"}
    BY <1>4, Zenon DEF GoodTable, NodeTypes
  <2> QED
    BY <1>2, <1>4, <2>1, Zenon
<1>5. NoRevival(t, r)
  BY <1>2, Zenon DEF NoRevival
<1> QED
  BY <1>2, <1>3, <1>4, <1>5, Zenon DEF GoodTable

\* The table of the receiver of a Ping or an Ack.
LEMMA PingTable ==
    ASSUME GossipIInv, NEW n \in Nodes, NEW m \in net, m.kind \in {"Ping", "Ack"},
           NEW t, t = ApplyPiggyback(Merge(members[n], m.from, m.inc, "Alive"), m.pb)
    PROVE  GoodTable(t) /\ NoRevival(members[n], t)
<1>1. NodeTypes /\ GoodTable(members[n]) /\ GoodMessage(m)
  BY Zenon DEF GossipIInv, TableIInv
<1>2. m.from \in Nodes /\ m.inc \in Nat /\ m.inc <= own[m.from] /\ GoodEntries(m.pb, PingEntries)
  BY <1>1, Zenon DEF GoodMessage, Carried, PingEntries
<1>3. PICK r : r = Merge(members[n], m.from, m.inc, "Alive")
  BY Zenon
<1>4. /\ GoodTable(r) /\ NoRevival(members[n], r)
      /\ \A w \in Nodes : members[n][w].status # "None" => r[w].status # "None"
  BY <1>1, <1>2, <1>3, MergeGood
<1>5. t = ApplyPiggyback(r, m.pb)
  BY <1>3, Zenon
<1>6. /\ GoodTable(t)
      /\ \A w \in Nodes : r[w].status # "None" =>
            t[w].inc >= r[w].inc /\ (t[w].status = "Alive" => r[w].status = "Alive")
  BY <1>1, <1>2, <1>4, <1>5, PiggybackEffect, ZenonT(60)
<1>7. ASSUME NEW w \in Nodes, members[n][w].status = "Dead", t[w].status = "Alive"
      PROVE  t[w].inc > members[n][w].inc
  <2>1. members[n][w].inc \in Nat /\ r[w].inc \in Nat /\ t[w].inc \in Nat
    BY <1>1, <1>4, <1>6, Zenon DEF GoodTable, Tables, EntryTypes
  <2>2. r[w].status = "Alive" /\ t[w].inc >= r[w].inc
    BY <1>4, <1>6, <1>7, Zenon
  <2>3. r[w].inc > members[n][w].inc
    BY <1>4, <1>7, <2>2, Zenon DEF NoRevival
  <2> QED
    BY <2>1, <2>2, <2>3
<1> QED
  BY <1>6, <1>7, Zenon DEF NoRevival

\* The table of the receiver of a SyncRsp.
LEMMA SyncTable ==
    ASSUME GossipIInv, NEW m \in net, m.kind = "SyncRsp", m.to \in up, NEW merged,
           merged = [w \in Nodes |-> merged[w]],
           \A w \in Nodes :
              \/ merged[w] = members[m.to][w]
              \/ \E e \in m.pb : e.who = w /\ merged[w] = Merge(members[m.to], w, e.inc, e.kind)[w],
           NEW t, t = IF merged[m.to].status = "None"
                      THEN [merged EXCEPT ![m.to] = Entry("Alive", own[m.to])] ELSE merged
    PROVE  GoodTable(t) /\ NoRevival(members[m.to], t)
<1>1. PICK n \in Nodes : n = m.to
  BY Zenon DEF GossipIInv, NodeTypes
<1>2. NodeTypes /\ GoodTable(members[n]) /\ GoodMessage(m)
  BY Zenon DEF GossipIInv, TableIInv
<1>3. ASSUME NEW w \in Nodes
      PROVE  /\ merged[w] \in EntryTypes /\ merged[w].inc <= own[w]
             /\ ~lossy /\ w \in undisturbed => merged[w].status \in {"None", "Alive"}
             /\ members[n][w].status = "Dead" /\ merged[w].status = "Alive" =>
                   merged[w].inc > members[n][w].inc
             /\ members[n][w].status # "None" => merged[w].status # "None"
  <2>1. CASE merged[w] = members[n][w]
    BY <1>2, <2>1, Zenon DEF GoodTable, Tables
  <2>2. CASE \E e \in m.pb : e.who = w /\ merged[w] = Merge(members[n], w, e.inc, e.kind)[w]
    <3>1. PICK e \in m.pb : e.who = w /\ merged[w] = Merge(members[n], w, e.inc, e.kind)[w]
      BY <2>2, Zenon
    <3>2. /\ e.kind \in {"Alive", "Suspicious"} /\ e.inc \in Nat /\ e.inc <= own[w]
          /\ ~lossy /\ w \in undisturbed => e.kind = "Alive"
      BY <1>2, <3>1, Zenon DEF GoodMessage, GoodEntries, Carried
    <3>3. PICK r : r = Merge(members[n], w, e.inc, e.kind)
      BY Zenon
    <3>4. /\ GoodTable(r) /\ NoRevival(members[n], r)
          /\ \A v \in Nodes : members[n][v].status # "None" => r[v].status # "None"
      BY <1>2, <3>2, <3>3, MergeGood
    <3>5. merged[w] = r[w]
      BY <3>1, <3>3, Zenon
    <3> QED
      BY <3>4, <3>5, ZenonT(60) DEF GoodTable, NoRevival, Tables
  <2> QED
    BY <1>1, <2>1, <2>2, ZenonT(60)
<1>4. merged \in Tables
  BY <1>3, Zenon DEF Tables
<1>5. undisturbed \subseteq Nodes /\ own[n] \in Nat
  BY <1>2, Zenon DEF NodeTypes
<1>6. CASE merged[n].status # "None"
  BY <1>1, <1>3, <1>4, <1>5, <1>6, Zenon DEF GoodTable, NoRevival
<1>7. CASE merged[n].status = "None"
  <2>1. /\ Entry("Alive", own[n]) \in EntryTypes /\ Entry("Alive", own[n]).status = "Alive"
        /\ Entry("Alive", own[n]).inc = own[n]
    BY <1>5, EntryTyped, Zenon DEF Statuses
  <2>2. t = [merged EXCEPT ![n] = Entry("Alive", own[n])]
    BY <1>1, <1>7, Zenon
  <2>3. /\ t \in Tables /\ t[n] = Entry("Alive", own[n])
        /\ \A w \in Nodes \ {n} : t[w] = merged[w]
    BY <1>4, <2>1, <2>2, ZenonT(120) DEF Tables
  <2>4. members[n][n].status = "None"
    BY <1>3, <1>7, Zenon
  <2>5. own[n] <= own[n]
    BY <1>5
  <2>6. GoodTable(t)
    BY <1>1, <1>3, <1>5, <2>1, <2>3, <2>5, Zenon DEF GoodTable
  <2> QED
    BY <1>1, <1>3, <2>3, <2>4, <2>6, Zenon DEF NoRevival
<1> QED
  BY <1>6, <1>7, Zenon

\* A message built by a node about a node that left it in peace.
LEMMA MessageGood ==
    ASSUME NodeTypes, NEW n \in Nodes, NEW kind, NEW to, NEW about, NEW pb,
           GoodEntries(pb, Carried(kind)),
           kind \in {"PingReq", "IndirectAck"} => about \in Nodes,
           kind = "Leave" => n \notin undisturbed,
           NEW m, m = Message(kind, n, to, about, pb)
    PROVE  GoodMessage(m) /\ m.kind = kind /\ m.from = n /\ m.to = to
<1>1. /\ m.kind = kind /\ m.from = n /\ m.to = to /\ m.inc = own[n] /\ m.about = about
      /\ m.pb = pb
  BY DEF Message
<1>2. own[n] \in Nat
  BY DEF NodeTypes
<1> QED
  BY <1>1, <1>2 DEF GoodMessage

\* A message without entries carries nothing wrong.
LEMMA NoEntriesGood == \A kinds : GoodEntries({}, kinds)
  BY DEF GoodEntries

\* Pings, forwarded ones too, carry a good piggyback.
LEMMA PingGood ==
    ASSUME NodeTypes, NEW n \in Nodes, NEW t, GoodTable(t), NEW to, NEW m, m = PingTo(n, to, t)
    PROVE  GoodMessage(m) /\ m.kind = "Ping" /\ m.from = n /\ m.to = to
<1>1. GoodEntries(Piggyback(n, t), Carried("Ping"))
  BY PiggybackGood, Zenon DEF Carried, PingEntries
<1> QED
  BY <1>1, MessageGood DEF PingTo

\* What the handler of m does, whichever it is.
Handled(m, t, replies) ==
    /\ Deliver(m, t, replies) /\ GoodTable(t) /\ NoRevival(members[m.to], t)
    /\ \A r \in replies : GoodMessage(r)
    /\ m.kind = "Ping" => \E r \in replies : Probe(r, m.from, m.to)
    /\ pinging' \in [Nodes -> [Nodes -> {"no", "direct", "indirect"}]]
    /\ \A n, w \in Nodes : pinging'[n][w] \in {pinging[n][w], "no"}
    /\ m.kind = "Ack" => pinging'[m.to][m.from] = "no"
    /\ forwarded' \in [Nodes -> [Nodes -> Nodes \cup {NoPeer}]]
    /\ announcing' \subseteq announcing

\* Handling a message keeps the invariant and revives nobody.
LEMMA HandledKeeps ==
    ASSUME GossipIInv, NEW m \in net, NEW t, NEW replies, Handled(m, t, replies)
    PROVE  GossipIInv' /\ \A n \in Nodes : NoRevival(members[n], members'[n])
<1>1. /\ m.to \in up /\ up' = up /\ own' = own /\ to_run' = to_run
      /\ undisturbed' = undisturbed /\ lossy' = lossy
      /\ members' = [members EXCEPT ![m.to] = t] /\ net' = (net \ {m}) \cup replies
  BY Zenon DEF Handled, Deliver
<1>2. NodeTypes'
  BY <1>1, Zenon DEF GossipIInv, NodeTypes, Handled
<1>3. m.to \in Nodes /\ members \in [Nodes -> Tables] /\ t \in Tables
  BY <1>1, Zenon DEF GossipIInv, NodeTypes, TableIInv, Handled, GoodTable
<1>4. /\ members' \in [Nodes -> Tables] /\ members'[m.to] = t
      /\ \A n \in Nodes \ {m.to} : members'[n] = members[n]
  BY <1>1, <1>3, Zenon
<1>5. \A r : GoodTable(r) => GoodTable(r)'
  BY <1>1, Zenon DEF GoodTable
<1>6. \A r : GoodMessage(r) => GoodMessage(r)'
  BY <1>1, ZenonT(60) DEF GoodMessage, GoodEntries
<1>7. TableIInv'
  <2>1. \A n \in Nodes : GoodTable(members'[n])
    BY <1>4, Zenon DEF GossipIInv, TableIInv, Handled
  <2>2. ASSUME NEW n \in Nodes \ up', NEW w \in Nodes
        PROVE  members'[n][w] = Unknown /\ pinging'[n][w] = "no"
    <3>1. n \in Nodes \ up /\ n # m.to
      BY <1>1, <2>2, Zenon
    <3>2. members[n][w] = Unknown /\ pinging[n][w] = "no"
      BY <3>1, <2>2, Zenon DEF GossipIInv, TableIInv
    <3>3. pinging'[n][w] \in {pinging[n][w], "no"}
      BY <2>2, <3>1, Zenon DEF Handled
    <3> QED
      BY <1>4, <3>1, <3>2, <3>3, Zenon
  <2> QED
    BY <1>4, <1>5, <2>1, <2>2, Zenon DEF TableIInv
<1>8. \A r \in net' : GoodMessage(r)'
  BY <1>1, <1>6, Zenon DEF GossipIInv, Handled
<1>9. ProbesAnswered'
  <2> SUFFICES ASSUME ~lossy, NEW n \in up, NEW w \in undisturbed, pinging'[n][w] # "no"
               PROVE  n \notin to_run /\ \E r \in net' : Probe(r, n, w)
    BY <1>1, Zenon DEF ProbesAnswered
  <2>1. n \in Nodes /\ w \in Nodes
    BY Zenon DEF GossipIInv, NodeTypes
  <2>2. pinging[n][w] # "no"
    BY <2>1, Zenon DEF Handled
  <2>3. n \notin to_run
    BY <2>2, Zenon DEF GossipIInv, ProbesAnswered
  <2>4. PICK r \in net : Probe(r, n, w)
    BY <2>2, Zenon DEF GossipIInv, ProbesAnswered
  <2>5. CASE r # m
    BY <1>1, <2>3, <2>4, <2>5, Zenon
  <2>6. CASE r = m /\ m.kind = "Ping"
    <3>1. m.from = n /\ m.to = w
      BY <2>4, <2>6, Zenon DEF Probe
    <3> QED
      BY <1>1, <2>3, <2>6, <3>1, Zenon DEF Handled
  <2>7. CASE r = m /\ m.kind = "Ack"
    BY <2>4, <2>7, Zenon DEF Handled, Probe
  <2> QED
    BY <2>4, <2>5, <2>6, <2>7, Zenon DEF Probe
<1>10. \A n \in Nodes : NoRevival(members[n], members'[n])
  <2>1. \A n \in Nodes : n # m.to => NoRevival(members[n], members'[n])
    BY <1>4, Zenon DEF NoRevival
  <2> QED
    BY <1>4, <2>1, Zenon DEF Handled
<1> QED
  BY <1>2, <1>7, <1>8, <1>9, <1>10, Zenon DEF GossipIInv

\* pending_pings_.erase.
LEMMA ForgetEffect ==
    ASSUME NodeTypes, NEW n \in Nodes, NEW w \in Nodes, pinging' = Forget(pinging, n, w)
    PROVE  /\ pinging' \in [Nodes -> [Nodes -> {"no", "direct", "indirect"}]]
           /\ \A v, x \in Nodes : pinging'[v][x] \in {pinging[v][x], "no"}
           /\ pinging'[n][w] = "no"
  BY Zenon DEF NodeTypes, Forget

\* A pending ping that is left in place.
LEMMA PingingKept ==
    ASSUME NodeTypes, pinging' = pinging
    PROVE  /\ pinging' \in [Nodes -> [Nodes -> {"no", "direct", "indirect"}]]
           /\ \A v, x \in Nodes : pinging'[v][x] \in {pinging[v][x], "no"}
  BY DEF NodeTypes

\* Each of the seven handlers keeps the invariant and revives nobody.
LEMMA HandleStep ==
    ASSUME GossipIInv, NEW m \in net, Handle(m)
    PROVE  GossipIInv' /\ \A n \in Nodes : NoRevival(members[n], members'[n])
<1>1. NodeTypes /\ GoodMessage(m)
  BY DEF GossipIInv
<1>2. m.to \in up
  BY Zenon DEF Handle, HandlePing, HandleAck, HandlePingReq, HandleIndirectAck, HandleJoin,
         HandleSyncRsp, HandleLeave, Deliver
<1>3. PICK n \in Nodes : n = m.to
  BY <1>1, <1>2, Zenon DEF NodeTypes
<1>4. m.from \in Nodes /\ m.inc \in Nat /\ m.inc <= own[m.from] /\ 0 <= own[m.from]
  BY <1>1 DEF GoodMessage, NodeTypes
<1>5. GoodTable(members[n]) /\ forwarded \in [Nodes -> [Nodes -> Nodes \cup {NoPeer}]]
  BY DEF GossipIInv, TableIInv, NodeTypes
<1>6. \A inc \in Nat : inc <= own[m.from] =>
          LET r == Merge(members[n], m.from, inc, "Alive")
          IN  GoodTable(r) /\ NoRevival(members[n], r)
  BY <1>1, <1>4, <1>5, MergeGood, Zenon
<1>7. CASE HandlePing(m)
  <2>1. PICK t : t = ApplyPiggyback(Merge(members[n], m.from, m.inc, "Alive"), m.pb)
    BY Zenon
  <2>2. PICK a : a = Message("Ack", n, m.from, NoPeer, Piggyback(n, t))
    OBVIOUS
  <2>3. /\ m.kind = "Ping" /\ Deliver(m, t, {a}) /\ pinging' = Forget(pinging, n, m.from)
        /\ announcing' \subseteq announcing /\ forwarded' = forwarded
    BY <1>3, <1>7, <2>1, <2>2, Zenon DEF HandlePing
  <2>4. GoodTable(t) /\ NoRevival(members[n], t)
    BY <2>1, <2>3, PingTable, ZenonT(60)
  <2>5. GoodMessage(a) /\ Probe(a, m.from, n)
    <3>1. GoodEntries(Piggyback(n, t), Carried("Ack"))
      BY <1>1, <2>4, PiggybackGood, ZenonT(20) DEF Carried, PingEntries
    <3> QED
      BY <1>1, <2>2, <3>1, MessageGood DEF Probe
  <2>6. Handled(m, t, {a})
    BY <1>1, <1>3, <1>4, <1>5, <2>3, <2>4, <2>5, ForgetEffect, ZenonT(60) DEF Handled
  <2> QED
    BY <2>6, HandledKeeps, Zenon
<1>8. CASE HandleAck(m)
  <2>1. PICK t : t = ApplyPiggyback(Merge(members[n], m.from, m.inc, "Alive"), m.pb)
    OBVIOUS
  <2>2. PICK replies : replies = IF forwarded[n][m.from] = NoPeer THEN {}
               ELSE {Message("IndirectAck", n, forwarded[n][m.from], m.from, {})}
    BY Zenon
  <2>3. /\ m.kind = "Ack" /\ Deliver(m, t, replies) /\ pinging' = Forget(pinging, n, m.from)
        /\ announcing' = announcing
        /\ forwarded' = [forwarded EXCEPT ![n][m.from] = NoPeer]
    BY <1>3, <1>8, <2>1, <2>2, Zenon DEF HandleAck
  <2>4. GoodTable(t) /\ NoRevival(members[n], t)
    BY <2>1, <2>3, PingTable, ZenonT(60)
  <2>5. ASSUME NEW r \in replies PROVE GoodMessage(r)
    <3>1. r = Message("IndirectAck", n, forwarded[n][m.from], m.from, {})
      BY <2>2, <2>5
    <3> QED
      BY <1>1, <1>4, <3>1, MessageGood, NoEntriesGood, SMTT(60), Zenon
  <2>6. forwarded' \in [Nodes -> [Nodes -> Nodes \cup {NoPeer}]]
    BY <1>4, <1>5, <2>3, ZenonT(60)
  <2>7. Handled(m, t, replies)
    <3>1. /\ pinging' \in [Nodes -> [Nodes -> {"no", "direct", "indirect"}]]
          /\ \A v, w \in Nodes : pinging'[v][w] \in {pinging[v][w], "no"}
          /\ pinging'[n][m.from] = "no"
      BY <1>1, <1>3, <1>4, <2>3, ForgetEffect, ZenonT(30)
    <3>2. m.kind # "Ping"
      BY <2>3
    <3>3. announcing' \subseteq announcing
      BY <2>3, Zenon
    <3> QED
      BY <1>3, <2>3, <2>4, <2>5, <2>6, <3>1, <3>2, <3>3, ZenonT(30) DEF Handled
  <2> QED
    BY <2>7, HandledKeeps, Zenon
<1>9. CASE HandlePingReq(m)
  <2>1. PICK t : t = Merge(members[n], m.from, 0, "Alive")
    BY Zenon
  <2>2. PICK a : a = PingTo(n, m.about, t)
    OBVIOUS
  <2>3. /\ m.kind = "PingReq" /\ Deliver(m, t, {a})
        /\ pinging' = pinging /\ announcing' = announcing
        /\ forwarded' = [forwarded EXCEPT ![n][m.about] = m.from]
    BY <1>3, <1>9, <2>1, <2>2, Zenon DEF HandlePingReq
  <2>4. GoodTable(t) /\ NoRevival(members[n], t)
    BY <1>4, <1>6, <2>1, Zenon
  <2>5. GoodMessage(a)
    BY <1>1, <2>2, <2>4, PingGood, Zenon
  <2>6. forwarded' \in [Nodes -> [Nodes -> Nodes \cup {NoPeer}]]
    BY <1>4, <1>5, <2>3, Zenon
  <2>7. Handled(m, t, {a})
    BY <1>1, <1>3, <2>3, <2>4, <2>5, <2>6, PingingKept, Zenon DEF Handled
  <2> QED
    BY <2>7, HandledKeeps
<1>10. CASE HandleIndirectAck(m)
  <2>1. PICK t : t = Merge(members[n], m.from, 0, "Alive")
    OBVIOUS
  <2>2. /\ m.kind = "IndirectAck" /\ Deliver(m, t, {})
        /\ pinging' = pinging \/ pinging' = Forget(pinging, n, m.about)
        /\ announcing' = announcing /\ forwarded' = forwarded
    BY <1>3, <1>10, <2>1, Zenon DEF HandleIndirectAck
  <2>3. GoodTable(t) /\ NoRevival(members[n], t)
    BY <1>4, <1>6, <2>1
  <2>4. m.about \in Nodes
    BY <1>1, <2>2, ZenonT(30) DEF GoodMessage
  <2>5. Handled(m, t, {})
    BY <1>1, <1>3, <1>5, <2>2, <2>3, <2>4, ForgetEffect, PingingKept, ZenonT(30) DEF Handled
  <2> QED
    BY <2>5, HandledKeeps, Zenon
<1>11. CASE HandleJoin(m)
  <2>1. PICK t : t = Merge(members[n], m.from, m.inc, "Alive")
    BY Zenon
  <2>2. PICK pb : pb = {[kind |-> t[w].status, who |-> w, inc |-> t[w].inc] :
                           w \in {v \in Nodes : t[v].status \in {"Alive", "Suspicious"}}}
    BY Zenon
  <2>3. PICK a : a = Message("SyncRsp", n, m.from, NoPeer, pb)
    BY Zenon
  <2>4. /\ m.kind = "Join" /\ Deliver(m, t, {a})
        /\ pinging' = pinging /\ announcing' = announcing /\ forwarded' = forwarded
    BY <1>3, <1>11, <2>1, <2>2, <2>3, Zenon DEF HandleJoin
  <2>5. GoodTable(t) /\ NoRevival(members[n], t)
    BY <1>4, <1>6, <2>1, Zenon
  <2>6. GoodEntries(pb, {"Alive", "Suspicious"})
    <3> SUFFICES ASSUME NEW e \in pb
                 PROVE  /\ e.kind \in {"Alive", "Suspicious"} /\ e.who \in Nodes /\ e.inc \in Nat
                        /\ e.inc <= own[e.who]
                        /\ ~lossy /\ e.who \in undisturbed => e.kind \in {"Metadata", "Alive"}
      BY Zenon DEF GoodEntries
    <3>1. PICK w \in Nodes : /\ t[w].status \in {"Alive", "Suspicious"}
                             /\ e = [kind |-> t[w].status, who |-> w, inc |-> t[w].inc]
      BY <2>2, Zenon
    <3>2. t[w].inc \in Nat /\ t[w].inc <= own[w]
      BY <2>5, Zenon DEF GoodTable, Tables, EntryTypes
    <3>3. ~lossy /\ w \in undisturbed => t[w].status \in {"None", "Alive"}
      BY <2>5, Zenon DEF GoodTable
    <3> QED
      BY <3>1, <3>2, <3>3, Zenon
  <2>7. GoodMessage(a)
    BY <1>1, <2>3, <2>6, MessageGood, SMTT(60), Zenon DEF Carried
  <2>8. Handled(m, t, {a})
    BY <1>1, <1>3, <1>5, <2>4, <2>5, <2>7, PingingKept, ZenonT(60) DEF Handled
  <2> QED
    BY <2>8, HandledKeeps
<1>12. CASE HandleSyncRsp(m)
  <2>1. PICK merged : merged = [w \in Nodes |->
            LET es == {e \in m.pb : e.who = w} IN
            IF es = {} THEN members[m.to][w]
            ELSE LET e == CHOOSE x \in es : TRUE
                 IN  Merge(members[m.to], w, e.inc, e.kind)[w]]
    BY Zenon
  <2>2. PICK t : t = IF merged[m.to].status = "None"
                     THEN [merged EXCEPT ![m.to] = Entry("Alive", own[m.to])] ELSE merged
    BY Zenon
  <2>3. /\ m.kind = "SyncRsp" /\ Deliver(m, t, {})
        /\ pinging' = pinging /\ announcing' = announcing /\ forwarded' = forwarded
    BY <1>12, <2>1, <2>2, ZenonT(60) DEF HandleSyncRsp
  <2>4. merged = [w \in Nodes |-> merged[w]]
    BY <2>1
  <2>5. ASSUME NEW w \in Nodes
        PROVE  \/ merged[w] = members[m.to][w]
               \/ \E e \in m.pb : e.who = w /\ merged[w] = Merge(members[m.to], w, e.inc, e.kind)[w]
    <3>1. CASE {e \in m.pb : e.who = w} = {}
      BY <2>1, <3>1, Zenon
    <3>2. CASE {e \in m.pb : e.who = w} # {}
      <4>1. PICK e : /\ e = CHOOSE x \in {y \in m.pb : y.who = w} : TRUE
                     /\ merged[w] = Merge(members[m.to], w, e.inc, e.kind)[w]
        BY <2>1, <2>5, <3>2, Zenon
      <4>2. e \in m.pb /\ e.who = w
        BY <3>2, <4>1, Zenon
      <4> QED
        BY <4>1, <4>2, Zenon
    <3> QED
      BY <3>1, <3>2, ZenonT(30)
  <2>6. GoodTable(t) /\ NoRevival(members[n], t)
    BY <1>2, <1>3, <2>2, <2>3, <2>4, <2>5, SyncTable, ZenonT(60)
  <2>7. Handled(m, t, {})
    BY <1>1, <1>3, <1>5, <2>3, <2>6, PingingKept, Zenon DEF Handled
  <2> QED
    BY <2>7, HandledKeeps
<1>13. CASE HandleLeave(m)
  <2>1. PICK known : known = members[n][m.from]
    BY Zenon
  <2>2. PICK t : t = IF known.status # "None" /\ m.inc >= known.inc
                     THEN [members[n] EXCEPT ![m.from] = Entry("Left", known.inc)] ELSE members[n]
    BY ZenonT(30)
  <2>3. /\ m.kind = "Leave" /\ Deliver(m, t, {})
        /\ pinging' = pinging /\ announcing' = announcing /\ forwarded' = forwarded
    BY <1>3, <1>13, <2>1, <2>2, Zenon DEF HandleLeave
  <2>4. m.from \notin undisturbed
    BY <1>1, <2>3, Zenon DEF GoodMessage
  <2>5. known.inc \in Nat /\ known.inc <= own[m.from] /\ members[n] \in Tables
    BY <1>4, <1>5, <2>1, Zenon DEF GoodTable, Tables, EntryTypes
  <2>6. /\ Entry("Left", known.inc) \in EntryTypes /\ Entry("Left", known.inc).status = "Left"
        /\ Entry("Left", known.inc).inc = known.inc
    BY <2>5, EntryTyped, ZenonT(30) DEF Statuses
  <2>7. /\ t \in Tables /\ \A w \in Nodes \ {m.from} : t[w] = members[n][w]
        /\ t[m.from] = known \/ t[m.from] = Entry("Left", known.inc)
    BY <1>4, <2>1, <2>2, <2>5, <2>6, Zenon DEF Tables
  <2>8. undisturbed \subseteq Nodes
    BY <1>1, ZenonT(30) DEF NodeTypes
  <2>9. GoodTable(t)
    BY <1>4, <1>5, <2>1, <2>4, <2>5, <2>6, <2>7, <2>8, ZenonT(60) DEF GoodTable
  <2>10. NoRevival(members[n], t)
    BY <2>1, <2>6, <2>7, Zenon DEF NoRevival
  <2>11. Handled(m, t, {})
    BY <1>1, <1>3, <1>5, <2>3, <2>9, <2>10, PingingKept, Zenon DEF Handled
  <2> QED
    BY <2>11, HandledKeeps
<1> QED
  BY <1>7, <1>8, <1>9, <1>10, <1>11, <1>12, <1>13, ZenonT(60) DEF Handle

-----------------------------------------------------------------------------
(* Rounds, starts, ends, the network and the clock.                        *)

\* What was good stays good while incarnations grow, nodes are disturbed and messages
\* are lost.
LEMMA GoodKept ==
    ASSUME NodeTypes, own' \in [Nodes -> Nat], \A w \in Nodes : own'[w] >= own[w],
           undisturbed' \subseteq undisturbed, lossy => lossy'
    PROVE  /\ \A r : GoodTable(r) => GoodTable(r)'
           /\ \A r : GoodMessage(r) => GoodMessage(r)'
<1>1. \A w \in Nodes : own[w] \in Nat /\ own'[w] \in Nat
  BY Zenon DEF NodeTypes
<1>2. undisturbed \subseteq Nodes
  BY Zenon DEF NodeTypes
<1>3. ASSUME NEW r, GoodTable(r) PROVE GoodTable(r)'
  <2>1. \A w \in Nodes : r[w].inc \in Nat
    BY <1>3, Zenon DEF GoodTable, Tables, EntryTypes
  <2>2. \A w \in Nodes : r[w].inc <= own'[w]
    BY <1>1, <1>3, <2>1 DEF GoodTable
  <2> QED
    BY <1>3, <2>2, Zenon DEF GoodTable
<1>4. ASSUME NEW pb, NEW kinds, GoodEntries(pb, kinds) PROVE GoodEntries(pb, kinds)'
  BY <1>1, <1>4, SMTT(60), Zenon DEF GoodEntries
<1>5. ASSUME NEW r, GoodMessage(r) PROVE GoodMessage(r)'
  BY <1>1, <1>4, <1>5 DEF GoodMessage
<1> QED
  BY <1>3, <1>5, Zenon

\* mark_suspicious, mark_dead and purge_tombstones keep a table good as long as no node
\* that was up all along is a suspect, and make no entry Alive.
LEMMA MarksGood ==
    ASSUME NodeTypes, NEW t, GoodTable(t), NEW ws, ~lossy => ws \cap undisturbed = {},
           NEW r, r \in {MarkSuspicious(t, ws), MarkDead(t), PurgeTombstones(t)}
    PROVE  GoodTable(r) /\ \A w \in Nodes : r[w].status = "Alive" => t[w].status = "Alive"
<1>1. \A w \in Nodes : /\ t[w] \in EntryTypes /\ t[w].inc \in Nat /\ t[w].inc <= own[w]
                       /\ own[w] \in Nat
  BY DEF GoodTable, Tables, EntryTypes, NodeTypes
<1>2. \A w \in Nodes : /\ Entry("Suspicious", t[w].inc) \in EntryTypes
                       /\ Entry("Suspicious", t[w].inc).status = "Suspicious"
                       /\ Entry("Suspicious", t[w].inc).inc = t[w].inc
                       /\ Entry("Dead", t[w].inc) \in EntryTypes
                       /\ Entry("Dead", t[w].inc).status = "Dead"
                       /\ Entry("Dead", t[w].inc).inc = t[w].inc
  BY <1>1, EntryTyped, ZenonT(60) DEF Statuses
<1>3. Unknown \in EntryTypes /\ Unknown.status = "None" /\ Unknown.inc = 0
  BY EntryTyped, Zenon DEF Unknown
<1>4. undisturbed \subseteq Nodes
  BY Zenon DEF NodeTypes
<1>5. /\ r = [w \in Nodes |-> r[w]]
      /\ \A w \in Nodes :
            \/ r[w] = t[w]
            \/ r[w] = Entry("Suspicious", t[w].inc) /\ w \in ws
            \/ r[w] = Entry("Dead", t[w].inc) /\ t[w].status = "Suspicious"
            \/ r[w] = Unknown /\ t[w].status \in {"Dead", "Left"}
  <2>1. CASE r = MarkSuspicious(t, ws)
    BY <2>1, Zenon DEF MarkSuspicious
  <2>2. CASE r = MarkDead(t)
    BY <2>2, Zenon DEF MarkDead
  <2>3. CASE r = PurgeTombstones(t)
    BY <2>3, Zenon DEF PurgeTombstones
  <2> QED
    BY <2>1, <2>2, <2>3
<1>6. \A w \in Nodes : /\ r[w] \in EntryTypes /\ r[w].inc <= own[w]
                       /\ r[w].status = "Alive" => t[w].status = "Alive"
  BY <1>1, <1>2, <1>3, <1>5
<1>7. r \in Tables
  BY <1>5, <1>6, Zenon DEF Tables
<1>8. ASSUME ~lossy, NEW w \in undisturbed PROVE r[w].status \in {"None", "Alive"}
  <2>1. w \in Nodes /\ w \notin ws /\ t[w].status \in {"None", "Alive"}
    BY <1>4, <1>8, Zenon DEF GoodTable
  <2> QED
    BY <1>3, <1>5, <2>1, Zenon
<1> QED
  BY <1>6, <1>7, <1>8, ZenonT(60) DEF GoodTable

\* A round suspects nobody that answered.
LEMMA RoundStep ==
    ASSUME GossipIInv, NEW n \in Nodes, Round(n)
    PROVE  GossipIInv' /\ \A v \in Nodes : NoRevival(members[v], members'[v])
<1>1. PICK suspects : suspects = Suspects(n)
  BY Zenon
<1>2. PICK asked : asked = {a \in Nodes \X Pinged(n, "direct") : a[1] \in Proxies(n, a[2])}
  BY Zenon
<1>3. PICK table : table = MarkSuspicious(members[n], suspects)
  BY Zenon
<1>4. PICK targets : targets = Targets(n, table)
  OBVIOUS
<1>5. PICK t : t = PurgeTombstones(MarkDead(table))
  OBVIOUS
<1>6. /\ n \in to_run /\ to_run' = to_run \ {n}
      /\ pinging' = [pinging EXCEPT ![n] = [w \in Nodes |->
            IF pinging[n][w] # "no" /\ w \notin suspects THEN "indirect"
            ELSE IF w \in targets THEN "direct" ELSE "no"]]
      /\ net' = net \cup {Message("PingReq", n, a[1], a[2], {}) : a \in asked}
                    \cup {PingTo(n, w, table) : w \in targets}
      /\ announcing' \subseteq announcing
      /\ members' = [members EXCEPT ![n] = t]
      /\ up' = up /\ own' = own /\ forwarded' = forwarded /\ undisturbed' = undisturbed
      /\ lossy' = lossy
  BY <1>1, <1>2, <1>3, <1>4, <1>5, Zenon DEF Round
<1>7. NodeTypes /\ GoodTable(members[n]) /\ n \in up
  BY <1>6, Zenon DEF GossipIInv, TableIInv, NodeTypes
<1>8. ~lossy => \A w \in undisturbed : pinging[n][w] = "no"
  BY <1>6, <1>7, Zenon DEF GossipIInv, ProbesAnswered
<1>9. ~lossy => suspects \cap undisturbed = {}
  BY <1>1, <1>8, Zenon DEF Suspects, Pinged
<1>10. /\ GoodTable(table)
       /\ \A w \in Nodes : table[w].status = "Alive" => members[n][w].status = "Alive"
  BY <1>3, <1>7, <1>9, MarksGood, ZenonT(60)
<1>11. GoodTable(t) /\ \A w \in Nodes : t[w].status = "Alive" => table[w].status = "Alive"
  <2>0. ~lossy => {} \cap undisturbed = {}
    BY Zenon
  <2>1. PICK d : d = MarkDead(table)
    BY Zenon
  <2>2. GoodTable(d) /\ \A w \in Nodes : d[w].status = "Alive" => table[w].status = "Alive"
    BY <1>7, <1>10, <2>0, <2>1, MarksGood, Zenon
  <2>3. GoodTable(t) /\ \A w \in Nodes : t[w].status = "Alive" => d[w].status = "Alive"
    BY <1>5, <1>7, <2>0, <2>1, <2>2, MarksGood, ZenonT(30)
  <2> QED
    BY <2>2, <2>3, Zenon
<1>12. /\ \A r : GoodTable(r) => GoodTable(r)'
       /\ \A r : GoodMessage(r) => GoodMessage(r)'
  BY <1>6, Zenon DEF GoodTable, GoodMessage, GoodEntries
<1>13. /\ pinging' \in [Nodes -> [Nodes -> {"no", "direct", "indirect"}]]
       /\ \A v \in Nodes \ {n} : pinging'[v] = pinging[v]
       /\ \A w \in Nodes : /\ pinging'[n][w] # "no" => pinging[n][w] # "no" \/ w \in targets
  BY <1>6, <1>7, Zenon DEF NodeTypes
<1>14. NodeTypes'
  BY <1>6, <1>7, <1>13, Zenon DEF NodeTypes
<1>15. members \in [Nodes -> Tables] /\ t \in Tables
  BY <1>11, Zenon DEF GossipIInv, TableIInv, GoodTable
<1>16. /\ members' \in [Nodes -> Tables] /\ members'[n] = t
       /\ \A v \in Nodes \ {n} : members'[v] = members[v]
  BY <1>6, <1>15, Zenon
<1>17. TableIInv'
  <2>1. \A v \in Nodes : GoodTable(members'[v])
    BY <1>11, <1>16, ZenonT(60) DEF GossipIInv, TableIInv
  <2>2. \A v \in Nodes \ up', w \in Nodes : members'[v][w] = Unknown /\ pinging'[v][w] = "no"
    BY <1>6, <1>7, <1>13, <1>16 DEF GossipIInv, TableIInv
  <2> QED
    BY <1>12, <1>16, <2>1, <2>2, Zenon DEF TableIInv
<1>18. \A r \in net' : GoodMessage(r)'
  <2>1. ASSUME NEW a \in asked PROVE GoodMessage(Message("PingReq", n, a[1], a[2], {}))
    <3>1. a[2] \in Nodes
      BY <1>2, <2>1, Zenon DEF Pinged
    <3> QED
      BY <1>7, <3>1, MessageGood, NoEntriesGood, SMTT(60), Zenon
  <2>2. ASSUME NEW w \in targets PROVE GoodMessage(PingTo(n, w, table))
    <3>1. PICK r : r = PingTo(n, w, table)
      BY Zenon
    <3> QED
      BY <1>7, <1>10, <3>1, PingGood, Zenon
  <2>3. \A r \in net : GoodMessage(r)
    BY Zenon DEF GossipIInv
  <2>4. ASSUME NEW r \in net' PROVE GoodMessage(r)
    BY <1>6, <2>1, <2>2, <2>3, <2>4, Zenon
  <2> QED
    BY <1>12, <2>4, Zenon
<1>19. ProbesAnswered'
  <2> SUFFICES ASSUME ~lossy, NEW v \in up, NEW w \in undisturbed, pinging'[v][w] # "no"
               PROVE  v \notin to_run' /\ \E r \in net' : Probe(r, v, w)
    BY <1>6, Zenon DEF ProbesAnswered
  <2>1. v \in Nodes /\ w \in Nodes
    BY <1>7, Zenon DEF NodeTypes
  <2>2. CASE v # n
    BY <1>6, <1>13, <2>1, <2>2, Zenon DEF GossipIInv, ProbesAnswered
  <2>3. CASE v = n
    <3>1. w \in targets
      BY <1>8, <1>13, <2>1, <2>3, Zenon
    <3>2. PICK r : r = PingTo(n, w, table)
      BY Zenon
    <3>3. r \in net' /\ v \notin to_run'
      BY <1>6, <2>3, <3>1, <3>2, ZenonT(60)
    <3>4. Probe(r, n, w)
      BY <1>7, <1>10, <3>2, PingGood, SMTT(60), Zenon DEF Probe
    <3> QED
      BY <2>3, <3>3, <3>4, Zenon
  <2> QED
    BY <2>2, <2>3, Zenon
<1>20. \A v \in Nodes : NoRevival(members[v], members'[v])
  BY <1>10, <1>11, <1>16, ZenonT(60) DEF NoRevival
<1> QED
  BY <1>14, <1>17, <1>18, <1>19, <1>20, SMTT(60), Zenon DEF GossipIInv

\* The tables of a node that starts or ends.
LEMMA ResetEffect ==
    ASSUME GossipIInv, NEW n \in Nodes, NEW t \in Tables, Reset(n, t)
    PROVE  /\ members' \in [Nodes -> Tables] /\ members'[n] = t
           /\ \A v \in Nodes \ {n} : members'[v] = members[v] /\ pinging'[v] = pinging[v]
           /\ \A w \in Nodes : pinging'[n][w] = "no"
           /\ pinging' \in [Nodes -> [Nodes -> {"no", "direct", "indirect"}]]
           /\ forwarded' \in [Nodes -> [Nodes -> Nodes \cup {NoPeer}]]
           /\ announcing' = announcing \ {n}
<1>1. members \in [Nodes -> Tables]
  BY DEF GossipIInv, TableIInv
<1>2. /\ members' = [members EXCEPT ![n] = t]
      /\ pinging' = [pinging EXCEPT ![n] = [w \in Nodes |-> "no"]]
      /\ forwarded' = [forwarded EXCEPT ![n] = [w \in Nodes |-> NoPeer]]
      /\ announcing' = announcing \ {n}
  BY Zenon DEF Reset
<1>3. members' \in [Nodes -> Tables] /\ members'[n] = t
  BY <1>1, <1>2
<1>4. /\ pinging' \in [Nodes -> [Nodes -> {"no", "direct", "indirect"}]]
      /\ \A w \in Nodes : pinging'[n][w] = "no"
  BY <1>2, Zenon DEF GossipIInv, NodeTypes
<1>5. forwarded' \in [Nodes -> [Nodes -> Nodes \cup {NoPeer}]]
  BY <1>2 DEF GossipIInv, NodeTypes
<1>6. \A v \in Nodes \ {n} : members'[v] = members[v] /\ pinging'[v] = pinging[v]
  BY <1>1, <1>2, Zenon DEF GossipIInv, NodeTypes
<1> QED
  BY <1>2, <1>3, <1>4, <1>5, <1>6, SMTT(60), Zenon

\* An empty table is good.
LEMMA NoTable ==
    ASSUME NodeTypes, NEW t, t = [w \in Nodes |-> Unknown]
    PROVE  t \in Tables /\ GoodTable(t)
<1>1. Unknown \in EntryTypes /\ Unknown.status = "None" /\ Unknown.inc = 0
  BY EntryTyped DEF Unknown
<1>2. t \in Tables /\ \A w \in Nodes : t[w] = Unknown
  BY <1>1, Zenon DEF Tables
<1>3. \A w \in Nodes : own[w] \in Nat
  BY DEF NodeTypes
<1>4. undisturbed \subseteq Nodes
  BY DEF NodeTypes
<1> QED
  BY <1>1, <1>2, <1>3, <1>4 DEF GoodTable

\* A node that starts has a new incarnation and knows itself only.
LEMMA StartStep ==
    ASSUME GossipIInv, NEW n \in Nodes, Start(n)
    PROVE  GossipIInv' /\ \A v \in Nodes : NoRevival(members[v], members'[v])
<1>1. PICK t : t = [w \in Nodes |-> IF w = n THEN Entry("Alive", own'[n]) ELSE Unknown]
  BY Zenon
<1>2. PICK j : j = [kind |-> "Join", from |-> n, to |-> SeedsOf[n][1],
                    inc |-> own'[n], about |-> NoPeer, pb |-> {}]
  BY ZenonT(30)
<1>3. /\ n \notin up /\ up' = up \cup {n} /\ own' = [own EXCEPT ![n] = @ + 1]
      /\ Reset(n, t) /\ net' = net \cup {j}
      /\ to_run' = to_run /\ undisturbed' = undisturbed /\ lossy' = lossy
  BY <1>1, <1>2, Zenon DEF Start
<1>4. NodeTypes
  BY Zenon DEF GossipIInv
<1>5. own' \in [Nodes -> Nat] /\ \A w \in Nodes : own'[w] >= own[w]
  BY <1>3, <1>4 DEF NodeTypes
<1>6. /\ Entry("Alive", own'[n]) \in EntryTypes /\ Entry("Alive", own'[n]).status = "Alive"
      /\ Entry("Alive", own'[n]).inc = own'[n]
  BY <1>5, EntryTyped, Zenon DEF Statuses
<1>7. Unknown \in EntryTypes /\ Unknown.status = "None" /\ Unknown.inc = 0
  BY EntryTyped, Zenon DEF Unknown
<1>8. t \in Tables /\ GoodTable(t)'
  <2>1. t \in Tables /\ \A w \in Nodes : t[w].status \in {"None", "Alive"} /\ t[w].inc <= own'[w]
    BY <1>1, <1>5, <1>6, <1>7 DEF Tables
  <2>2. undisturbed' \subseteq Nodes
    BY <1>3, <1>4, Zenon DEF NodeTypes
  <2> QED
    BY <2>1, <2>2, Zenon DEF GoodTable
<1>9. /\ members' \in [Nodes -> Tables] /\ members'[n] = t
      /\ \A v \in Nodes \ {n} : members'[v] = members[v] /\ pinging'[v] = pinging[v]
      /\ \A w \in Nodes : pinging'[n][w] = "no"
      /\ pinging' \in [Nodes -> [Nodes -> {"no", "direct", "indirect"}]]
      /\ forwarded' \in [Nodes -> [Nodes -> Nodes \cup {NoPeer}]]
      /\ announcing' = announcing \ {n}
  BY <1>3, <1>8, ResetEffect, Zenon
<1>10. /\ \A r : GoodTable(r) => GoodTable(r)'
       /\ \A r : GoodMessage(r) => GoodMessage(r)'
  BY <1>3, <1>4, <1>5, GoodKept, Zenon
<1>11. NodeTypes'
  BY <1>3, <1>4, <1>5, <1>9, Zenon DEF NodeTypes
<1>12. TableIInv'
  <2>1. ASSUME NEW v \in Nodes PROVE GoodTable(members[v])'
    <3>1. PICK r : r = members'[v] /\ GoodTable(r)'
      <4>1. CASE v = n
        BY <1>8, <1>9, <1>10, <4>1, Zenon
      <4>2. CASE v # n
        <5>1. GoodTable(members[v])
          BY SMTT(60), Zenon DEF GossipIInv, TableIInv
        <5> QED
          BY <1>9, <1>10, <4>2, <5>1, ZenonT(60)
      <4> QED
        BY <4>1, <4>2, Zenon
    <3> QED
      BY <3>1, Zenon DEF GoodTable
  <2>2. ASSUME NEW v \in Nodes \ up', NEW w \in Nodes
        PROVE  members'[v][w] = Unknown /\ pinging'[v][w] = "no"
    <3>1. v \in Nodes \ up /\ v # n
      BY <1>3, Zenon
    <3>2. members[v][w] = Unknown /\ pinging[v][w] = "no"
      BY <3>1, ZenonT(60) DEF GossipIInv, TableIInv
    <3> QED
      BY <1>9, <3>1, <3>2, Zenon
  <2> QED
    BY <1>9, <2>1, <2>2, Zenon DEF TableIInv
<1>13. GoodMessage(j)'
  <2>1. GoodEntries(j.pb, Carried(j.kind))'
    BY <1>2, Zenon DEF GoodEntries
  <2> QED
    BY <1>2, <1>5, <2>1 DEF GoodMessage
<1>14. \A r \in net' : GoodMessage(r)'
  BY <1>3, <1>10, <1>13, Zenon DEF GossipIInv
<1>15. ProbesAnswered'
  <2> SUFFICES ASSUME ~lossy, NEW v \in up', NEW w \in undisturbed, pinging'[v][w] # "no"
               PROVE  v \notin to_run /\ \E r \in net' : Probe(r, v, w)
    BY <1>3, Zenon DEF ProbesAnswered
  <2>1. v \in up /\ w \in Nodes /\ pinging[v][w] # "no"
    BY <1>3, <1>4, <1>9, Zenon DEF NodeTypes
  <2> QED
    BY <1>3, <2>1, ZenonT(60) DEF GossipIInv, ProbesAnswered
<1>16. \A v \in Nodes : NoRevival(members[v], members'[v])
  <2>1. \A w \in Nodes : members[n][w].status = "None"
    BY <1>3, <1>7, Zenon DEF GossipIInv, TableIInv
  <2> QED
    BY <1>9, <2>1, Zenon DEF NoRevival
<1> QED
  BY <1>11, <1>12, <1>14, <1>15, <1>16 DEF GossipIInv

\* A node that stops or crashes is no longer undisturbed; it may say that it leaves.
LEMMA EndStep ==
    ASSUME GossipIInv, NEW n \in Nodes, Stop(n) \/ Crash(n)
    PROVE  GossipIInv' /\ \A v \in Nodes : NoRevival(members[v], members'[v])
<1>1. PICK t : t = [w \in Nodes |-> Unknown]
  BY ZenonT(30)
<1>2. /\ n \in up /\ up' = up \ {n} /\ own' = own /\ Reset(n, t)
      /\ to_run' = to_run \ {n} /\ undisturbed' = undisturbed \ {n} /\ lossy' = lossy
  BY <1>1, Zenon DEF Stop, Crash
<1>3. /\ net \subseteq net'
      /\ \A r \in net' \ net : \E w \in Nodes : r = Message("Leave", n, w, NoPeer, {})
  BY Zenon DEF Stop, Crash
<1>4. NodeTypes
  BY Zenon DEF GossipIInv
<1>5. t \in Tables /\ GoodTable(t)
  BY <1>1, <1>4, NoTable
<1>6. /\ members' \in [Nodes -> Tables] /\ members'[n] = t
      /\ \A v \in Nodes \ {n} : members'[v] = members[v] /\ pinging'[v] = pinging[v]
      /\ \A w \in Nodes : pinging'[n][w] = "no"
      /\ pinging' \in [Nodes -> [Nodes -> {"no", "direct", "indirect"}]]
      /\ forwarded' \in [Nodes -> [Nodes -> Nodes \cup {NoPeer}]]
      /\ announcing' = announcing \ {n}
  BY <1>2, <1>5, ResetEffect, Zenon
<1>7. own' \in [Nodes -> Nat] /\ \A w \in Nodes : own'[w] >= own[w]
  BY <1>2, <1>4 DEF NodeTypes
<1>8. /\ \A r : GoodTable(r) => GoodTable(r)'
      /\ \A r : GoodMessage(r) => GoodMessage(r)'
  BY <1>2, <1>4, <1>7, GoodKept, Zenon
<1>9. NodeTypes'
  BY <1>2, <1>4, <1>6, ZenonT(30) DEF NodeTypes
<1>10. TableIInv'
  <2>1. ASSUME NEW v \in Nodes PROVE GoodTable(members[v])'
    <3>1. PICK r : r = members'[v] /\ GoodTable(r)'
      <4>1. CASE v = n
        BY <1>5, <1>6, <1>8, <4>1, Zenon
      <4>2. CASE v # n
        <5>1. GoodTable(members[v])
          BY Zenon DEF GossipIInv, TableIInv
        <5> QED
          BY <1>6, <1>8, <4>2, <5>1, Zenon
      <4> QED
        BY <4>1, <4>2, Zenon
    <3> QED
      BY <3>1, Zenon DEF GoodTable
  <2>2. \A v \in Nodes \ up', w \in Nodes : members'[v][w] = Unknown /\ pinging'[v][w] = "no"
    BY <1>1, <1>2, <1>6, SMTT(60), Zenon DEF GossipIInv, TableIInv
  <2> QED
    BY <1>6, <2>1, <2>2, Zenon DEF TableIInv
<1>11. ASSUME NEW r \in net' PROVE GoodMessage(r)'
  <2>1. CASE r \in net
    BY <1>8, <2>1 DEF GossipIInv
  <2>2. CASE r \notin net
    <3>1. PICK w \in Nodes : r = Message("Leave", n, w, NoPeer, {})
      BY <1>3, <1>11, <2>2, Zenon
    <3>2. r.kind = "Leave" /\ r.from = n /\ r.inc = own[n] /\ r.pb = {}
      BY <3>1 DEF Message
    <3>3. GoodEntries(r.pb, Carried(r.kind))'
      BY <3>2, Zenon DEF GoodEntries
    <3> QED
      BY <1>2, <1>7, <3>2, <3>3, Zenon DEF GoodMessage
  <2> QED
    BY <2>1, <2>2
<1>12. ProbesAnswered'
  <2> SUFFICES ASSUME ~lossy, NEW v \in up', NEW w \in undisturbed', pinging'[v][w] # "no"
               PROVE  v \notin to_run' /\ \E r \in net' : Probe(r, v, w)
    BY <1>2, Zenon DEF ProbesAnswered
  <2>1. v \in up /\ w \in undisturbed /\ pinging[v][w] # "no"
    BY <1>2, <1>4, <1>6, Zenon DEF NodeTypes
  <2> QED
    BY <1>2, <1>3, <2>1, ZenonT(30) DEF GossipIInv, ProbesAnswered
<1>13. \A v \in Nodes : NoRevival(members[v], members'[v])
  <2>1. \A w \in Nodes : t[w].status = "None"
    BY <1>1 DEF Unknown
  <2> QED
    BY <1>6, <2>1, Zenon DEF NoRevival
<1> QED
  BY <1>9, <1>10, <1>11, <1>12, <1>13 DEF GossipIInv

\* A step that leaves tables and probes alone: incarnations may grow and messages be
\* sent; what is lost without being reported as lost was sent to a node that is down.
LEMMA TablesKept ==
    ASSUME GossipIInv, members' = members, pinging' = pinging, forwarded' = forwarded,
           up' = up, to_run' = to_run, undisturbed' = undisturbed, lossy => lossy',
           own' \in [Nodes -> Nat], \A w \in Nodes : own'[w] >= own[w],
           announcing' \subseteq up,
           \A r \in net' \ net : GoodMessage(r)',
           ~lossy' => \A r \in net : r \in net' \/ r.to \notin up
    PROVE  GossipIInv' /\ \A v \in Nodes : NoRevival(members[v], members'[v])
<1>1. NodeTypes
  BY Zenon DEF GossipIInv
<1>2. NodeTypes'
  BY <1>1, Zenon DEF NodeTypes
<1>3. /\ \A r : GoodTable(r) => GoodTable(r)'
      /\ \A r : GoodMessage(r) => GoodMessage(r)'
  BY <1>1, GoodKept, ZenonT(30)
<1>4. TableIInv'
  <2>1. ASSUME NEW v \in Nodes PROVE GoodTable(members[v])'
    <3>1. PICK r : r = members[v] /\ GoodTable(r)
      BY Zenon DEF GossipIInv, TableIInv
    <3>2. GoodTable(r)' /\ r = members'[v]
      BY <1>3, <3>1, Zenon
    <3> QED
      BY <3>2, Zenon DEF GoodTable
  <2> QED
    BY <2>1, Zenon DEF GossipIInv, TableIInv
<1>5. \A r \in net' : GoodMessage(r)'
  BY <1>3, ZenonT(30) DEF GossipIInv
<1>6. ProbesAnswered'
  <2> SUFFICES ASSUME ~lossy', NEW n \in up, NEW w \in undisturbed, pinging[n][w] # "no"
               PROVE  n \notin to_run /\ \E r \in net' : Probe(r, n, w)
    BY SMTT(60), Zenon DEF ProbesAnswered
  <2>1. n \notin to_run
    BY DEF GossipIInv, ProbesAnswered
  <2>2. PICK r \in net : Probe(r, n, w)
    BY Zenon DEF GossipIInv, ProbesAnswered
  <2>3. r.to \in up
    BY <1>1, <2>2, Zenon DEF NodeTypes, Probe
  <2> QED
    BY <2>1, <2>2, <2>3, SMTT(60), Zenon
<1>7. \A v \in Nodes : NoRevival(members[v], members'[v])
  BY DEF NoRevival
<1> QED
  BY <1>2, <1>4, <1>5, <1>6, <1>7, Zenon DEF GossipIInv

\* announce, the join timer, lost messages, messages to nobody, and no step at all.
LEMMA OtherSteps ==
    ASSUME GossipIInv,
           \/ \E n \in Nodes : JoinRetry(n) \/ Announce(n)
           \/ \E m \in net : Lose(m) \/ Unreachable(m)
           \/ UNCHANGED gossipVars
    PROVE  GossipIInv' /\ \A v \in Nodes : NoRevival(members[v], members'[v])
<1>1. NodeTypes /\ announcing \subseteq up
  BY Zenon DEF GossipIInv, NodeTypes
<1>2. own \in [Nodes -> Nat] /\ \A w \in Nodes : own[w] >= own[w]
  BY <1>1 DEF NodeTypes
<1>3. ASSUME NEW n \in Nodes, JoinRetry(n)
      PROVE  GossipIInv' /\ \A v \in Nodes : NoRevival(members[v], members'[v])
  <2>1. /\ members' = members /\ pinging' = pinging /\ forwarded' = forwarded
        /\ up' = up /\ to_run' = to_run /\ undisturbed' = undisturbed /\ lossy' = lossy
        /\ own' = own /\ announcing' = announcing /\ net \subseteq net'
    BY <1>3, ZenonT(20) DEF JoinRetry
  <2>2. ASSUME NEW r \in net' \ net PROVE GoodMessage(r)'
    <3>1. PICK to : r = Message("Join", n, to, NoPeer, {})
      BY <1>3, <2>2, Zenon DEF JoinRetry
    <3>2. GoodMessage(r)
      BY <1>1, <3>1, MessageGood, NoEntriesGood, ZenonT(60)
    <3> QED
      BY <1>1, <1>2, <2>1, <3>2, GoodKept, Zenon
  <2> QED
    BY <1>1, <1>2, <2>1, <2>2, TablesKept, ZenonT(30)
<1>4. ASSUME NEW n \in Nodes, Announce(n)
      PROVE  GossipIInv' /\ \A v \in Nodes : NoRevival(members[v], members'[v])
  <2>1. /\ members' = members /\ pinging' = pinging /\ forwarded' = forwarded
        /\ up' = up /\ to_run' = to_run /\ undisturbed' = undisturbed /\ lossy' = lossy
        /\ n \in up /\ own' = [own EXCEPT ![n] = @ + 1]
        /\ announcing' = announcing \cup {n} /\ net' = net
    BY <1>4 DEF Announce
  <2>2. own' \in [Nodes -> Nat] /\ \A w \in Nodes : own'[w] >= own[w]
    BY <1>2, <2>1
  <2> QED
    BY <1>1, <2>1, <2>2, TablesKept, ZenonT(30)
<1>5. ASSUME NEW m \in net, Lose(m) \/ Unreachable(m)
      PROVE  GossipIInv' /\ \A v \in Nodes : NoRevival(members[v], members'[v])
  <2>1. /\ members' = members /\ pinging' = pinging /\ forwarded' = forwarded
        /\ up' = up /\ to_run' = to_run /\ undisturbed' = undisturbed
        /\ own' = own /\ announcing' = announcing /\ net' = net \ {m}
        /\ lossy' = TRUE \/ (lossy' = lossy /\ m.to \notin up)
    BY <1>5, Zenon DEF Lose, Unreachable
  <2> QED
    BY <1>1, <1>2, <2>1, TablesKept
<1>6. ASSUME UNCHANGED gossipVars
      PROVE  GossipIInv' /\ \A v \in Nodes : NoRevival(members[v], members'[v])
  <2>1. /\ members' = members /\ pinging' = pinging /\ forwarded' = forwarded
        /\ up' = up /\ to_run' = to_run /\ undisturbed' = undisturbed /\ lossy' = lossy
        /\ own' = own /\ announcing' = announcing /\ net' = net
    BY <1>6 DEF gossipVars
  <2> QED
    BY <1>1, <1>2, <2>1, TablesKept, Zenon
<1> QED
  BY <1>3, <1>4, <1>5, <1>6, Zenon

\* A new period: no message is on its way, or one is late, so every round starts
\* without a ping of a node that answers.
LEMMA TickStep ==
    ASSUME GossipIInv, Tick
    PROVE  GossipIInv' /\ \A v \in Nodes : NoRevival(members[v], members'[v])
<1>1. /\ to_run' = up /\ (lossy' <=> lossy \/ net # {}) /\ up' = up /\ own' = own
      /\ pinging' = pinging /\ forwarded' = forwarded /\ announcing' = announcing
      /\ net' = net /\ undisturbed' = undisturbed
      /\ members' = [n \in Nodes |-> [w \in Nodes |->
            IF members[n][w].status = "None" THEN Unknown
            ELSE [members[n][w] EXCEPT !.age = IF @ < OldAge THEN @ + 1 ELSE @]]]
  BY Zenon DEF Tick
<1>2. /\ NodeTypes /\ own' \in [Nodes -> Nat] /\ \A w \in Nodes : own'[w] >= own[w]
      /\ lossy => lossy'
  BY <1>1 DEF GossipIInv, NodeTypes
<1>3. NodeTypes'
  BY <1>1, <1>2, Zenon DEF NodeTypes
<1>4. /\ \A r : GoodTable(r) => GoodTable(r)'
      /\ \A r : GoodMessage(r) => GoodMessage(r)'
  BY <1>1, <1>2, GoodKept
<1>5. Unknown \in EntryTypes /\ Unknown.status = "None" /\ Unknown.inc = 0
  BY EntryTyped DEF Unknown
<1>6. ASSUME NEW n \in Nodes, NEW w \in Nodes
      PROVE  /\ members'[n][w] \in EntryTypes
             /\ members'[n][w].status = members[n][w].status
             /\ members'[n][w].inc <= own[w]
             /\ members[n][w] = Unknown => members'[n][w] = Unknown
  <2>1. PICK e \in EntryTypes : e = members[n][w] /\ e.inc <= own[w] /\ own[w] \in Nat
    BY <1>2, <1>6 DEF GossipIInv, TableIInv, GoodTable, Tables, NodeTypes
  <2>2. e.age \in 0 .. OldAge /\ e.inc \in Nat /\ e.status \in Statuses
    BY DEF EntryTypes
  <2>3. PICK a \in 0 .. OldAge : a = IF e.age < OldAge THEN e.age + 1 ELSE e.age
    BY <2>2, AgesBounded
  <2>4. members'[n][w] = IF e.status = "None" THEN Unknown ELSE [e EXCEPT !.age = a]
    BY <1>1, <1>6, <2>1, <2>3, Zenon
  <2>5. /\ [e EXCEPT !.age = a] \in EntryTypes /\ [e EXCEPT !.age = a].status = e.status
        /\ [e EXCEPT !.age = a].inc = e.inc
    BY <2>2, <2>3, Zenon DEF EntryTypes
  <2> QED
    BY <1>5, <2>1, <2>2, <2>4, <2>5, SMTT(60), Zenon
<1>7. members' \in [Nodes -> Tables]
  BY <1>1, <1>6, Zenon DEF Tables
<1>8. TableIInv'
  <2>1. ASSUME NEW v \in Nodes PROVE GoodTable(members[v])'
    <3>1. \A w \in Nodes : (members'[v][w].inc <= own'[w])
      BY <1>1, <1>6, Zenon
    <3>2. ~lossy' => \A w \in undisturbed' : members'[v][w].status \in {"None", "Alive"}
      <4>1. ~lossy => \A w \in undisturbed : members[v][w].status \in {"None", "Alive"}
        BY Zenon DEF GossipIInv, TableIInv, GoodTable
      <4>2. (~lossy' => ~lossy) /\ undisturbed' = undisturbed /\ undisturbed \subseteq Nodes
        BY <1>1, <1>2, Zenon DEF NodeTypes
      <4>3. ASSUME NEW w \in undisturbed PROVE members'[v][w].status = members[v][w].status
        BY <1>6, <4>2, Zenon
      <4> QED
        BY <4>1, <4>2, <4>3, Zenon
    <3> QED
      BY <1>7, <3>1, <3>2, Zenon DEF GoodTable
  <2>2. ASSUME NEW v \in Nodes \ up', NEW w \in Nodes
        PROVE  members'[v][w] = Unknown /\ pinging'[v][w] = "no"
    <3>1. v \in Nodes \ up /\ pinging' = pinging
      BY <1>1, <2>2, Zenon
    <3>2. members[v][w] = Unknown /\ pinging[v][w] = "no"
      BY <2>2, <3>1, Zenon DEF GossipIInv, TableIInv
    <3> QED
      BY <1>6, <3>1, <3>2, Zenon
  <2> QED
    BY <1>7, <2>1, <2>2, Zenon DEF TableIInv
<1>9. \A r \in net' : GoodMessage(r)'
  BY <1>1, <1>4, Zenon DEF GossipIInv
<1>10. ProbesAnswered'
  BY <1>1, Zenon DEF GossipIInv, ProbesAnswered
<1>11. \A v \in Nodes : NoRevival(members[v], members'[v])
  BY <1>6, Zenon DEF NoRevival
<1> QED
  BY <1>3, <1>8, <1>9, <1>10, <1>11 DEF GossipIInv

\* The founding members know each other and have sent nothing.
LEMMA GossipInitial == GossipInit => GossipIInv
<1> SUFFICES ASSUME GossipInit PROVE GossipIInv
  BY Zenon
<1>1. /\ up \subseteq Nodes /\ net = {} /\ to_run = up /\ announcing = {} /\ undisturbed = up
      /\ own = [n \in Nodes |-> IF n \in up THEN 1 ELSE 0]
      /\ members = [n \in Nodes |-> [m \in Nodes |->
                       IF {n, m} \subseteq up THEN Entry("Alive", 1) ELSE Unknown]]
      /\ pinging = [n \in Nodes |-> [m \in Nodes |-> "no"]]
      /\ forwarded = [n \in Nodes |-> [m \in Nodes |-> NoPeer]]
  BY GossipAssumption, Zenon DEF GossipInit
<1>2. NodeTypes
  BY <1>1, Zenon DEF NodeTypes
<1>3. /\ Entry("Alive", 1) \in EntryTypes /\ Entry("Alive", 1).status = "Alive"
      /\ Entry("Alive", 1).inc = 1
      /\ Unknown \in EntryTypes /\ Unknown.status = "None" /\ Unknown.inc = 0
  BY EntryTyped, Zenon DEF Unknown, Statuses
<1>4. ASSUME NEW n \in Nodes, NEW w \in Nodes
      PROVE  /\ members[n][w] \in EntryTypes /\ members[n][w].inc <= own[w]
             /\ members[n][w].status \in {"None", "Alive"}
             /\ n \notin up => members[n][w] = Unknown
  BY <1>1, <1>3, <1>4
<1>5. members \in [Nodes -> Tables]
  BY <1>1, <1>4, Zenon DEF Tables
<1>6. TableIInv
  BY <1>1, <1>4, <1>5, ZenonT(30) DEF TableIInv, GoodTable
<1> QED
  BY <1>1, <1>2, <1>6, Zenon DEF GossipIInv, ProbesAnswered

\* Every step of the cluster keeps the invariant, and no step revives a Dead entry
\* without a higher incarnation.
LEMMA GossipStep ==
    ASSUME GossipIInv, [GossipNext]_gossipVars
    PROVE  GossipIInv' /\ \A v \in Nodes : NoRevival(members[v], members'[v])
  BY RoundStep, StartStep, EndStep, HandleStep, OtherSteps, TickStep, Zenon DEF GossipNext

\* The inductive invariant of gossip: good tables, good messages, probes answered.
THEOREM GossipInvariant == GossipSpec => []GossipIInv
<1>1. GossipIInv /\ [GossipNext]_gossipVars => GossipIInv'
  BY GossipStep, Zenon
<1> QED
  BY GossipInitial, <1>1, PTL DEF GossipSpec

\* For any cluster and any number of crashes, starts, stops and announcements: a table
\* never credits a node with an incarnation it has not had, and while every message
\* arrives within its period no node that has been up all along is suspected
\* (handle_packet, protocol_round).
THEOREM GossipIsSafe == GossipSpec => []GossipInv
<1>1. GossipIInv => GossipInv
  <2> SUFFICES ASSUME GossipIInv PROVE GossipInv
    OBVIOUS
  <2>1. ASSUME NEW n \in Nodes, NEW m \in Nodes
        PROVE  /\ members[n][m].status \in Statuses /\ members[n][m].age \in 0 .. OldAge
               /\ pinging[n][m] \in {"no", "direct", "indirect"}
               /\ n \notin up => members[n][m] = Unknown /\ pinging[n][m] = "no"
               /\ members[n][m].inc <= own[m]
    BY <2>1 DEF GossipIInv, TableIInv, NodeTypes, GoodTable, Tables, EntryTypes
  <2>2. to_run \cup announcing \subseteq up
    BY DEF GossipIInv, NodeTypes
  <2>3. AccurateUnlessLossy
    BY Zenon DEF GossipIInv, TableIInv, NodeTypes, GoodTable, AccurateUnlessLossy
  <2> QED
    BY <2>1, <2>2, <2>3, Zenon DEF GossipInv, GossipTypeOK, IncarnationsGenuine
<1> QED
  BY GossipInvariant, <1>1, PTL

\* Late or repeated messages of a node that was found dead do not revive it: an entry
\* goes from Dead to Alive only for a higher incarnation (merge_member, apply_piggyback).
THEOREM DeadIsNotRevived == GossipSpec => DeadStaysDead
<1>1. GossipIInv /\ [GossipNext]_gossipVars =>
          [\A n, m \in Nodes :
              members[n][m].status = "Dead" /\ members'[n][m].status = "Alive" =>
                  members'[n][m].inc > members[n][m].inc]_gossipVars
  BY GossipStep, Zenon DEF NoRevival
<1> QED
  BY GossipInvariant, <1>1, PTL DEF GossipSpec, DeadStaysDead
==============================================================================
