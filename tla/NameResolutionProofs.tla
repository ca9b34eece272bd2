------------------------ MODULE NameResolutionProofs ------------------------
(***************************************************************************)
(* The home agrees with the registering node on what it was told, and no   *)
(* record outlives its call, for any nodes, names, placement of names and  *)
(* number of resolvers.                                                    *)
(***************************************************************************)
EXTENDS NameResolution, TLAPS

Requests == [kind : {"register", "unregister", "query"}, name : Names]
Responses == [kind : {"response"}, address : Addresses \cup {Nobody}]
Messages == Requests \cup Responses
Stages == {"idle", "waiting", "late", "signalled", "done"}
CallRecords == [at : Stages, name : Names \cup {Nobody}, ready : BOOLEAN,
                result : Addresses \cup {Nobody}, calls : Nat]

\* Frame m registers or unregisters x.
About(m, x) == m.kind \in {"register", "unregister"} /\ m.name = x
Silent(q, x) == \A i \in 1 .. Len(q) : ~About(q[i], x)
LastWord(q, x, w) ==
    \A i \in 1 .. Len(q) :
        About(q[i], x) /\ (\A j \in 1 .. Len(q) : j > i => ~About(q[j], x)) => q[i].kind = w

NamesTypes ==
    /\ local \in [Hosts -> SUBSET Names]
    /\ directory \in [Hosts -> [Names -> Hosts \cup {Nobody}]]
    /\ cache \in [Hosts -> [Names -> Addresses \cup {Nobody}]]
    /\ pending \in [Hosts -> [Names -> Resolvers \cup {Nobody}]]
    /\ pending_mutex \in [Hosts -> {Nobody, "loop"}]
    /\ call \in [Resolvers -> CallRecords]
    /\ to_signal \in [Hosts -> SUBSET Names]
    /\ answer \in [Hosts -> Responses \cup {Nobody}]
    /\ wire \in [Hosts \X Hosts -> Seq(Messages)]
    /\ untold \in SUBSET Names

\* While the response handler visits the map, its mutex keeps the records it has still to
\* signal in place.
Signalling ==
    \A n \in Hosts :
        /\ pending_mutex[n] = "loop" => answer[n] \in Responses
        /\ pending_mutex[n] # "loop" => to_signal[n] = {}
        /\ \A x \in to_signal[n] : pending[n][x] # Nobody

CallsNamed == \A r \in Resolvers : call[r].at # "idle" => call[r].name \in Names

\* Requests about a name travel from a node that may register it to its home.
OnItsWay(l, m) ==
    \A x \in Names : About(m, x) => HomeOf[x] = l[2] /\ l[1] \in RegistersOn[x] /\ l[1] # l[2]
RequestsRouted ==
    \A l \in Hosts \X Hosts : \A i \in 1 .. Len(wire[l]) : OnItsWay(l, wire[l][i])

Placed ==
    \A n \in Hosts, x \in Names :
        /\ directory[n][x] # Nobody => HomeOf[x] = n
        /\ x \in local[n] => n \in RegistersOn[x]

\* For a name with one registrar n, whose latest change left for the home: the last request
\* on its way there says what n has now, and when there is none the home's entry does.
Word(n, x) == IF x \in local[n] THEN "register" ELSE "unregister"
Told(n, x) ==
    LET h == HomeOf[x] IN
    /\ LastWord(wire[<<n, h>>], x, Word(n, x))
    /\ Silent(wire[<<n, h>>], x) => directory[h][x] = IF x \in local[n] THEN n ELSE Nobody
Agreed(n, x) == directory[HomeOf[x]][x] \in {n, Nobody} /\ (x \notin untold => Told(n, x))
Agreement == \A x \in Names, n \in Hosts : RegistersOn[x] = {n} => Agreed(n, x)

NamesIInv ==
    /\ NamesTypes
    /\ Signalling /\ CallsNamed /\ RecordsAreOfLiveCalls
    /\ RequestsRouted /\ Placed /\ Agreement

-----------------------------------------------------------------------------
\* A frame about something else, sent last, changes no last word.
LEMMA AppendOther ==
    ASSUME NEW q \in Seq(Messages), NEW m \in Messages, NEW x, NEW w, ~About(m, x)
    PROVE  /\ LastWord(q, x, w) => LastWord(Append(q, m), x, w)
           /\ Silent(Append(q, m), x) => Silent(q, x)
<1>1. /\ Len(Append(q, m)) = Len(q) + 1 /\ Len(q) \in Nat
      /\ \A i \in 1 .. Len(q) : Append(q, m)[i] = q[i]
      /\ Append(q, m)[Len(q) + 1] = m
  OBVIOUS
<1> DEFINE p == Append(q, m)
<1> HIDE DEF p
<1>2. Len(p) = Len(q) + 1 /\ Len(q) \in Nat /\ (\A i \in 1 .. Len(q) : p[i] = q[i]) /\ p[Len(q) + 1] = m
  BY <1>1, Zenon DEF p
<1>3. Silent(p, x) => Silent(q, x)
  BY <1>2 DEF Silent
<1>4. ASSUME LastWord(q, x, w), NEW i \in 1 .. Len(p), About(p[i], x),
             \A j \in 1 .. Len(p) : j > i => ~About(p[j], x)
      PROVE  p[i].kind = w
  <2>1. i \in 1 .. Len(q) /\ p[i] = q[i]
    BY <1>2, <1>4
  <2>2. \A j \in 1 .. Len(q) : j > i => ~About(q[j], x)
    BY <1>2, <1>4
  <2> QED
    BY <1>4, <2>1, <2>2 DEF LastWord
<1>5. LastWord(q, x, w) => LastWord(p, x, w)
  BY <1>4, Zenon DEF LastWord
<1> QED
  BY <1>3, <1>5, Zenon DEF p

\* A request about x, sent last, is the last word on x.
LEMMA AppendAbout ==
    ASSUME NEW q \in Seq(Messages), NEW m \in Messages, NEW x, About(m, x)
    PROVE  LastWord(Append(q, m), x, m.kind) /\ ~Silent(Append(q, m), x)
<1>1. /\ Len(Append(q, m)) = Len(q) + 1 /\ Len(q) \in Nat
      /\ Append(q, m)[Len(q) + 1] = m
  OBVIOUS
<1> DEFINE p == Append(q, m)
<1> HIDE DEF p
<1>2. Len(p) = Len(q) + 1 /\ Len(q) \in Nat /\ p[Len(q) + 1] = m
  BY <1>1, Zenon DEF p
<1>3. Len(q) + 1 \in 1 .. Len(p)
  BY <1>2
<1>4. ~Silent(p, x)
  BY <1>2, <1>3, Zenon DEF Silent
<1>5. ASSUME NEW i \in 1 .. Len(p), About(p[i], x),
             \A j \in 1 .. Len(p) : j > i => ~About(p[j], x)
      PROVE  p[i].kind = m.kind
  <2>1. ~(Len(q) + 1 > i)
    BY <1>2, <1>3, <1>5, Zenon
  <2>2. i = Len(q) + 1
    BY <1>2, <2>1
  <2> QED
    BY <1>2, <2>2, Zenon
<1>6. LastWord(p, x, m.kind)
  BY <1>5, Zenon DEF LastWord
<1> QED
  BY <1>4, <1>6, Zenon DEF p

\* Taking the oldest frame leaves the last word, unless that frame was it.
LEMMA TailSays ==
    ASSUME NEW q \in Seq(Messages), q # << >>, NEW x, NEW w
    PROVE  /\ LastWord(q, x, w) => LastWord(Tail(q), x, w)
           /\ Silent(Tail(q), x) /\ ~About(Head(q), x) => Silent(q, x)
           /\ Silent(Tail(q), x) /\ About(Head(q), x) /\ LastWord(q, x, w) => Head(q).kind = w
<1>1. /\ Len(q) \in Nat \ {0} /\ Head(q) = q[1] /\ Len(Tail(q)) = Len(q) - 1
      /\ \A i \in 1 .. Len(Tail(q)) : Tail(q)[i] = q[i + 1]
  OBVIOUS
<1> DEFINE p == Tail(q) o == Head(q)
<1> HIDE DEF p, o
<1>2. /\ Len(q) \in Nat \ {0} /\ o = q[1] /\ Len(p) = Len(q) - 1
      /\ \A i \in 1 .. Len(p) : p[i] = q[i + 1]
  BY <1>1, Zenon DEF p, o
<1>3. \A i \in 2 .. Len(q) : i - 1 \in 1 .. Len(p) /\ p[i - 1] = q[i]
  BY <1>2
<1>4. LastWord(q, x, w) => LastWord(p, x, w)
  <2>1. ASSUME LastWord(q, x, w), NEW i \in 1 .. Len(p), About(p[i], x),
               \A j \in 1 .. Len(p) : j > i => ~About(p[j], x)
        PROVE  p[i].kind = w
    <3>1. i + 1 \in 1 .. Len(q) /\ p[i] = q[i + 1]
      BY <1>2
    <3>2. ASSUME NEW j \in 1 .. Len(q), j > i + 1 PROVE ~About(q[j], x)
      <4>1. j - 1 \in 1 .. Len(p) /\ j - 1 > i /\ p[j - 1] = q[j]
        BY <1>2, <1>3, <3>2
      <4> QED
        BY <2>1, <4>1, Zenon
    <3> QED
      BY <2>1, <3>1, <3>2, Zenon DEF LastWord
  <2> QED
    BY <2>1, Zenon DEF LastWord
<1>5. Silent(p, x) => \A j \in 1 .. Len(q) : j > 1 => ~About(q[j], x)
  BY <1>2, <1>3 DEF Silent
<1>6. Silent(p, x) /\ ~About(o, x) => Silent(q, x)
  BY <1>2, <1>5 DEF Silent
<1>7. Silent(p, x) /\ About(o, x) /\ LastWord(q, x, w) => o.kind = w
  <2>1. 1 \in 1 .. Len(q)
    BY <1>2
  <2> QED
    BY <1>2, <1>5, <2>1, Zenon DEF LastWord
<1> QED
  BY <1>4, <1>6, <1>7, Zenon DEF p, o

-----------------------------------------------------------------------------
\* Nothing registered and nothing asked: the invariant holds.
LEMMA NamesInitial == NamesInit => NamesIInv
<1> SUFFICES ASSUME NamesInit PROVE NamesIInv
  BY Zenon
<1> USE NamesAssumption DEF NamesInit
<1>1. NamesTypes
  BY DEF NamesTypes, NoCall, Call, CallRecords, Stages
<1>2. Signalling /\ CallsNamed /\ RecordsAreOfLiveCalls
  BY Zenon DEF Signalling, CallsNamed, RecordsAreOfLiveCalls, NoCall, Call
<1>3. RequestsRouted /\ Placed
  BY DEF RequestsRouted, Placed
<1>4. Agreement
  BY DEF Agreement, Agreed, Told, LastWord, Silent
<1> QED
  BY <1>1, <1>2, <1>3, <1>4, Zenon DEF NamesIInv

Links == Hosts \X Hosts

\* Writing one cell keeps a table of tables typed.
LEMMA CellTyped ==
    ASSUME NEW S, NEW f \in [Hosts -> [Names -> S]], NEW n \in Hosts, NEW x \in Names, NEW v \in S
    PROVE  [f EXCEPT ![n][x] = v] \in [Hosts -> [Names -> S]]
<1>1. [f[n] EXCEPT ![x] = v] \in [Names -> S]
  OBVIOUS
<1> QED
  BY <1>1

\* What the oldest frame of a link is.
LEMMA OldestFrame ==
    ASSUME NamesTypes, NEW m \in Hosts, NEW n \in Hosts, wire[<<m, n>>] # << >>
    PROVE  /\ Head(wire[<<m, n>>]) \in Messages /\ Tail(wire[<<m, n>>]) \in Seq(Messages)
           /\ Head(wire[<<m, n>>]).kind \in {"register", "unregister", "query"}
                => Head(wire[<<m, n>>]).name \in Names
           /\ Head(wire[<<m, n>>]).kind = "response" => Head(wire[<<m, n>>]) \in Responses
<1> DEFINE q == wire[<<m, n>>]
<1>1. q \in Seq(Messages) /\ q # << >>
  BY Zenon DEF NamesTypes
<1> HIDE DEF q
<1>2. Head(q) \in Messages /\ Tail(q) \in Seq(Messages)
  BY <1>1
<1> DEFINE f == Head(q)
<1>3. f \in Messages
  BY <1>2
<1> HIDE DEF f
<1>4. /\ f.kind \in {"register", "unregister", "query"} => f.name \in Names
      /\ f.kind = "response" => f \in Responses
  BY <1>3, Zenon DEF Messages, Requests, Responses
<1> QED
  BY <1>2, <1>4 DEF q, f

\* Sending and receiving keep the links typed.
LEMMA LinksTyped ==
    ASSUME NamesTypes, NEW l \in Links,
           \/ wire' = wire
           \/ \E m \in Messages : wire' = [wire EXCEPT ![l] = Append(@, m)]
           \/ wire[l] # << >> /\ wire' = [wire EXCEPT ![l] = Tail(@)]
    PROVE  wire' \in [Hosts \X Hosts -> Seq(Messages)]
<1>1. wire[l] \in Seq(Messages) /\ wire \in [Links -> Seq(Messages)]
  BY Zenon DEF NamesTypes, Links
<1>2. wire[l] # << >> => Tail(wire[l]) \in Seq(Messages)
  BY <1>1
<1>3. \A m \in Messages : Append(wire[l], m) \in Seq(Messages)
  BY <1>1
<1> QED
  BY <1>1, <1>2, <1>3, ZenonT(60) DEF Links

\* Every step keeps the types.
LEMMA NamesTyped ==
    ASSUME NamesIInv, [NamesNext]_namesVars
    PROVE  NamesTypes'
<1> USE NamesAssumption DEF NamesIInv, NamesTypes
<1>1. ASSUME NEW n \in Hosts, NEW x \in Names, Register(n, x) PROVE NamesTypes'
  <2>1. directory' \in [Hosts -> [Names -> Hosts \cup {Nobody}]]
    <3>1. directory[n] \in [Names -> Hosts \cup {Nobody}]
      BY Zenon
    <3>2. Enter(directory[n], x, n) \in [Names -> Hosts \cup {Nobody}]
      BY <3>1, Zenon DEF Enter
    <3>3. directory' = directory \/ directory' = [directory EXCEPT ![n] = Enter(directory[n], x, n)]
      BY <1>1, Zenon DEF Register
    <3> QED
      BY <3>2, <3>3, ZenonT(60)
  <2>2. \A k \in {"register", "query"} : [kind |-> k, name |-> x] \in Messages
    BY Zenon DEF Requests, Messages
  <2>3. wire' \in [Hosts \X Hosts -> Seq(Messages)]
    <3>1. <<n, HomeOf[x]>> \in Links
      BY Zenon DEF Links
    <3> QED
      BY <1>1, <2>2, <3>1, LinksTyped, Zenon DEF Register, Tell, SendTo
  <2>4. local' \in [Hosts -> SUBSET Names]
    BY <1>1, ZenonT(60) DEF Register
  <2>5. untold' \in SUBSET Names
    <3>1. untold' = untold \ {x} \/ untold' = untold \cup {x}
      BY <1>1, ZenonT(60) DEF Register, Tell
    <3> QED
      BY <3>1, Zenon
  <2> QED
    BY <1>1, <2>1, <2>3, <2>4, <2>5, Zenon DEF Register, resolving
<1>2. ASSUME NEW n \in Hosts, NEW x \in Names, Erase(n, x) PROVE NamesTypes'
  <2>1. directory' \in [Hosts -> [Names -> Hosts \cup {Nobody}]]
    <3>1. directory' = directory \/ directory' = [directory EXCEPT ![n][x] = Nobody]
      BY <1>2, Zenon DEF Erase
    <3>2. Nobody \in Hosts \cup {Nobody}
      BY Zenon
    <3> QED
      <4>1. [directory EXCEPT ![n][x] = Nobody] \in [Hosts -> [Names -> Hosts \cup {Nobody}]]
        BY <3>2, CellTyped, Zenon
      <4> QED
        BY <3>1, <4>1, Zenon
  <2>2. [kind |-> "unregister", name |-> x] \in Messages
    BY Zenon DEF Requests, Messages
  <2>3. wire' \in [Hosts \X Hosts -> Seq(Messages)]
    <3>1. <<n, HomeOf[x]>> \in Links
      BY DEF Links
    <3> QED
      BY <1>2, <2>2, <3>1, LinksTyped, Zenon DEF Erase, Tell, SendTo
  <2>4. local' \in [Hosts -> SUBSET Names]
    BY <1>2, Zenon DEF Erase
  <2>5. cache' \in [Hosts -> [Names -> Addresses \cup {Nobody}]]
    BY <1>2, Zenon DEF Erase
  <2>6. untold' \in SUBSET Names
    BY <1>2, Zenon DEF Erase, Tell
  <2> QED
    BY <1>2, <2>1, <2>3, <2>4, <2>5, <2>6, Zenon DEF Erase
<1>3. ASSUME NEW n \in Hosts, NEW x \in Names, CacheExpires(n, x) PROVE NamesTypes'
  BY <1>3, Zenon DEF CacheExpires
<1>4. ASSUME NEW m \in Hosts, NEW n \in Hosts, OnRegisterRequest(m, n) PROVE NamesTypes'
  <2>1. /\ wire[<<m, n>>] # << >> /\ wire' = [wire EXCEPT ![<<m, n>>] = Tail(@)]
        /\ Head(wire[<<m, n>>]).kind = "register"
    BY <1>4, Zenon DEF OnRegisterRequest, Receive
  <2>2. Head(wire[<<m, n>>]).name \in Names
    BY <2>1, OldestFrame, Zenon
  <2>3. wire' \in [Hosts \X Hosts -> Seq(Messages)]
    BY <2>1, LinksTyped, Zenon DEF Links
  <2>4. directory' \in [Hosts -> [Names -> Hosts \cup {Nobody}]]
    BY <1>4, <2>2, Zenon DEF OnRegisterRequest, Enter
  <2> QED
    BY <1>4, <2>3, <2>4, Zenon DEF OnRegisterRequest, resolving
<1>5. ASSUME NEW m \in Hosts, NEW n \in Hosts, OnUnregisterRequest(m, n) PROVE NamesTypes'
  <2>1. /\ wire[<<m, n>>] # << >> /\ wire' = [wire EXCEPT ![<<m, n>>] = Tail(@)]
        /\ Head(wire[<<m, n>>]).kind = "unregister"
    BY <1>5, Zenon DEF OnUnregisterRequest, Receive
  <2>2. Head(wire[<<m, n>>]).name \in Names
    BY <2>1, OldestFrame, Zenon
  <2>3. wire' \in [Hosts \X Hosts -> Seq(Messages)]
    BY <2>1, LinksTyped, Zenon DEF Links
  <2>4. directory' \in [Hosts -> [Names -> Hosts \cup {Nobody}]]
    BY <1>5, <2>2, ZenonT(60) DEF OnUnregisterRequest, Enter
  <2> QED
    BY <1>5, <2>3, <2>4, Zenon DEF OnUnregisterRequest, resolving
<1>6. ASSUME NEW m \in Hosts, NEW n \in Hosts, OnResolveQuery(m, n) PROVE NamesTypes'
  <2>1. wire[<<m, n>>] # << >> /\ Head(wire[<<m, n>>]).kind = "query"
    BY <1>6, Zenon DEF OnResolveQuery, Receive
  <2> DEFINE x == Head(wire[<<m, n>>]).name
             f == [kind |-> "response",
                   address |-> IF directory[n][x] = Nobody THEN Nobody
                               ELSE Address(x, directory[n][x])]
  <2>2. x \in Names /\ Tail(wire[<<m, n>>]) \in Seq(Messages) /\ wire[<<n, m>>] \in Seq(Messages)
    BY <2>1, OldestFrame, Zenon
  <2> HIDE DEF x
  <2>3. f \in Messages
    BY <2>2 DEF Address, Addresses, Responses, Messages
  <2>4. \/ wire' = [wire EXCEPT ![<<m, n>>] = Tail(@)]
        \/ wire' = IF m = n THEN [wire EXCEPT ![<<n, n>>] = Append(Tail(@), f)]
                   ELSE [wire EXCEPT ![<<m, n>>] = Tail(@), ![<<n, m>>] = Append(@, f)]
    BY <1>6, Zenon DEF OnResolveQuery, x
  <2> HIDE DEF f
  <2>5. wire' \in [Hosts \X Hosts -> Seq(Messages)]
    <3>1. ASSUME NEW q \in Seq(Messages) PROVE Append(q, f) \in Seq(Messages)
      BY <2>3
    <3>2. CASE wire' = [wire EXCEPT ![<<m, n>>] = Tail(@)]
      BY <2>2, <3>2, Zenon
    <3>3. CASE wire' = IF m = n THEN [wire EXCEPT ![<<n, n>>] = Append(Tail(@), f)]
                       ELSE [wire EXCEPT ![<<m, n>>] = Tail(@), ![<<n, m>>] = Append(@, f)]
      BY <2>2, <3>1, <3>3, Zenon
    <3> QED
      BY <2>4, <3>2, <3>3, Zenon
  <2> QED
    BY <1>6, <2>5, ZenonT(60) DEF OnResolveQuery, resolving
<1>7. ASSUME NEW m \in Hosts, NEW n \in Hosts, OnResolveResponse(m, n) PROVE NamesTypes'
  <2>1. /\ wire[<<m, n>>] # << >> /\ wire' = [wire EXCEPT ![<<m, n>>] = Tail(@)]
        /\ Head(wire[<<m, n>>]).kind = "response"
    BY <1>7, Zenon DEF OnResolveResponse, Receive
  <2>2. wire' \in [Hosts \X Hosts -> Seq(Messages)]
    BY <2>1, LinksTyped, Zenon DEF Links
  <2>3. answer' \in [Hosts -> Responses \cup {Nobody}]
    BY <1>7, <2>1, OldestFrame, Zenon DEF OnResolveResponse
  <2>4. to_signal' \in [Hosts -> SUBSET Names]
    BY <1>7, Zenon DEF OnResolveResponse
  <2> QED
    BY <1>7, <2>2, <2>3, <2>4, Zenon DEF OnResolveResponse
<1>8. ASSUME NEW n \in Hosts, NEW x \in Names, SignalOne(n, x) PROVE NamesTypes'
  <2> DEFINE r == pending[n][x]
  <2>1. x \in to_signal[n] /\ r \in Resolvers /\ answer[n] \in Responses
    <3>1. x \in to_signal[n]
      BY <1>8, Zenon DEF SignalOne
    <3>2. pending_mutex[n] = "loop" /\ r # Nobody
      BY <3>1, Zenon DEF Signalling
    <3>3. pending[n] \in [Names -> Resolvers \cup {Nobody}]
      BY Zenon DEF NamesTypes
    <3> QED
      BY <3>1, <3>2, <3>3, Zenon DEF Signalling
  <2>2. answer[n].address \in Addresses \cup {Nobody}
    BY <2>1, Zenon DEF Responses
  <2>3. call[r] \in CallRecords
    BY <2>1, Zenon
  <2> HIDE DEF r
  <2>4. [at |-> call[r].at, name |-> call[r].name, ready |-> TRUE,
         result |-> answer[n].address, calls |-> call[r].calls] \in CallRecords
    BY <2>2, <2>3, Zenon DEF CallRecords
  <2>5. call' \in [Resolvers -> CallRecords]
    BY <1>8, <2>1, <2>4, Zenon DEF SignalOne, r
  <2> QED
    BY <1>8, <2>5, Zenon DEF SignalOne
<1>9. ASSUME NEW n \in Hosts, ResponseHandled(n) PROVE NamesTypes'
  BY <1>9, Zenon DEF ResponseHandled
<1>10. ASSUME NEW r \in Resolvers, TimesOut(r) PROVE NamesTypes'
  BY <1>10, Zenon DEF TimesOut, Moved, CallRecords, Stages
<1>11. ASSUME NEW r \in Resolvers, TimedOut(r) PROVE NamesTypes'
  BY <1>11, ZenonT(60) DEF TimedOut, Moved, CallRecords, Stages
<1>12. ASSUME NEW r \in Resolvers, Signalled(r) PROVE NamesTypes'
  BY <1>12, ZenonT(60) DEF Signalled, Moved, CallRecords, Stages
<1>13. ASSUME NEW r \in Resolvers, CachePut(r) PROVE NamesTypes'
  BY <1>13, Zenon DEF CachePut, Moved, CallRecords, Stages
<1>14. ASSUME NEW r \in Resolvers, NEW x \in Names, Resolve(r, x) PROVE NamesTypes'
  <2>1. NodeOf[r] \in Hosts /\ Known(NodeOf[r], x) \in Addresses \cup {Nobody}
    BY DEF Known, Address, Addresses
  <2>2. ASSUME NEW stage \in Stages, NEW a \in Addresses \cup {Nobody}
        PROVE  Call(stage, x, a, call[r].calls + 1) \in CallRecords
    BY DEF Call, CallRecords
  <2>3. call' \in [Resolvers -> CallRecords]
    <3>1. PICK stage \in Stages, a \in Addresses \cup {Nobody} :
              call' = [call EXCEPT ![r] = Call(stage, x, a, call[r].calls + 1)]
      BY <1>14, <2>1, Zenon DEF Resolve, Stages
    <3> QED
      BY <2>2, <3>1, Zenon
  <2>4. [kind |-> "query", name |-> x] \in Messages /\ <<NodeOf[r], HomeOf[x]>> \in Links
    BY <2>1, Zenon DEF Requests, Messages, Links
  <2>5. wire' \in [Hosts \X Hosts -> Seq(Messages)]
    BY <1>14, <2>4, LinksTyped, Zenon DEF Resolve, SendTo
  <2>6. pending' \in [Hosts -> [Names -> Resolvers \cup {Nobody}]]
    <3>1. pending' = pending \/ pending' = [pending EXCEPT ![NodeOf[r]][x] = r]
      BY <1>14, Zenon DEF Resolve
    <3>2. r \in Resolvers \cup {Nobody}
      BY Zenon
    <3> QED
      <4>1. [pending EXCEPT ![NodeOf[r]][x] = r] \in [Hosts -> [Names -> Resolvers \cup {Nobody}]]
        BY <2>1, <3>2, CellTyped, Zenon
      <4> QED
        BY <3>1, <4>1, Zenon
  <2> QED
    BY <1>14, <2>3, <2>5, <2>6, SMTT(60), Zenon DEF Resolve
<1>15. ASSUME NEW n \in Hosts, NEW S \in SUBSET Names, RegisterNamesAtomically(n, S)
       PROVE  NamesTypes'
  BY <1>15, ZenonT(60) DEF RegisterNamesAtomically, resolving
<1>16. ASSUME NEW n \in Hosts, NEW x \in Names, UnregisterName(n, x) PROVE NamesTypes'
  BY <1>16, ZenonT(60) DEF UnregisterName, resolving
<1>17. CASE UNCHANGED namesVars
  BY <1>17, Zenon DEF namesVars
<1> QED
  BY Zenon, <1>1, <1>2, <1>3, <1>4, <1>5, <1>6, <1>7, <1>8, <1>9, <1>10,
     <1>11, <1>12, <1>13, <1>14, <1>15, <1>16, <1>17, Zenon
  DEF NamesNext, LoopStep, CallStep

-----------------------------------------------------------------------------
\* What RecordsAreOfLiveCalls says of one record.
LiveRecord(n, x) ==
    pending[n][x] # Nobody =>
        /\ NodeOf[pending[n][x]] = n /\ Busy(pending[n][x]) /\ call[pending[n][x]].name = x

RecordsShaped == Signalling /\ CallsNamed /\ \A n \in Hosts, x \in Names : LiveRecord(n, x)

\* Together they say the same as the property.
LEMMA LiveRecords == RecordsAreOfLiveCalls <=> \A n \in Hosts, x \in Names : LiveRecord(n, x)
BY Zenon DEF RecordsAreOfLiveCalls, LiveRecord

\* A call that is left, with its record erased under the mutex, leaves none behind.
LEMMA LeavingKeeps ==
    ASSUME NamesTypes, RecordsShaped, NEW r \in Resolvers, NEW stage \in {"done", "signalled"},
           call[r].at # "idle", pending_mutex[NodeOf[r]] = Nobody,
           pending' = [pending EXCEPT ![NodeOf[r]][call[r].name] = Nobody],
           call' = [call EXCEPT ![r] = Moved(call[r], stage)],
           UNCHANGED <<pending_mutex, to_signal, answer>>
    PROVE  RecordsShaped'
<1> USE NamesAssumption DEF NamesTypes
<1> DEFINE h == NodeOf[r] y == call[r].name
<1>1. h \in Hosts /\ y \in Names
  BY Zenon DEF RecordsShaped, CallsNamed
<1>2. /\ call'[r].at = stage /\ call'[r].name = y
      /\ \A q \in Resolvers \ {r} : call'[q] = call[q]
  BY ZenonT(60) DEF Moved
<1>3. /\ pending'[h][y] = Nobody
      /\ \A n \in Hosts, x \in Names : n # h \/ x # y => pending'[n][x] = pending[n][x]
  BY <1>1, ZenonT(120)
<1> HIDE DEF h, y
<1>4. Signalling'
  <2>1. to_signal[h] = {} /\ "loop" # Nobody
    BY <1>1 DEF RecordsShaped, Signalling, h
  <2>2. ASSUME NEW n \in Hosts, NEW z \in to_signal[n] PROVE pending'[n][z] # Nobody
    <3>1. n # h
      BY <2>1, Zenon
    <3>2. z \in Names
      BY Zenon
    <3>3. pending'[n][z] = pending[n][z]
      BY <1>3, <3>1, <3>2, Zenon
    <3>4. pending[n][z] # Nobody
      BY Zenon DEF RecordsShaped, Signalling
    <3> QED
      BY <3>3, <3>4, Zenon
  <2> QED
    BY <2>2, Zenon DEF RecordsShaped, Signalling
<1>5. CallsNamed'
  BY <1>1, <1>2, Zenon DEF RecordsShaped, CallsNamed
<1>6. ASSUME NEW n \in Hosts, NEW x \in Names PROVE LiveRecord(n, x)'
  <2>1. CASE pending'[n][x] # Nobody
    <3>1. pending'[n][x] = pending[n][x] /\ (n # h \/ x # y)
      BY <1>3, <2>1, ZenonT(60)
    <3>2. NodeOf[pending[n][x]] = n /\ Busy(pending[n][x]) /\ call[pending[n][x]].name = x
      <4>1. LiveRecord(n, x) /\ pending[n][x] # Nobody
        BY <2>1, <3>1, Zenon DEF RecordsShaped
      <4> QED
        BY <4>1, Zenon DEF LiveRecord
    <3>3. pending[n][x] \in Resolvers \ {r}
      BY <2>1, <3>1, <3>2 DEF h, y
    <3>4. call'[pending[n][x]] = call[pending[n][x]]
      BY <1>2, <3>3, Zenon
    <3> QED
      BY <3>1, <3>2, <3>4, Zenon DEF LiveRecord, Busy
  <2> QED
    BY <2>1, ZenonT(30) DEF LiveRecord
<1> QED
  BY <1>4, <1>5, <1>6, Zenon DEF RecordsShaped

\* A step of a call that stays where its record is, or had none, keeps the records.
LEMMA CallStepKeeps ==
    ASSUME NamesTypes, RecordsShaped, NEW r \in Resolvers, NEW c \in CallRecords,
           call' = [call EXCEPT ![r] = c],
           \/ ~Busy(r) /\ c.name \in Names
           \/ c.at \in {"waiting", "late"} /\ c.name = call[r].name /\ call[r].at # "idle",
           UNCHANGED <<pending, pending_mutex, to_signal, answer>>
    PROVE  RecordsShaped'
<1> USE NamesAssumption DEF NamesTypes
<1>1. call'[r] = c /\ \A q \in Resolvers \ {r} : call'[q] = call[q]
  BY Zenon
<1>2. Signalling'
  BY Zenon DEF RecordsShaped, Signalling
<1>3. CallsNamed'
  BY <1>1, ZenonT(60) DEF RecordsShaped, CallsNamed
<1>4. ASSUME NEW n \in Hosts, NEW x \in Names PROVE LiveRecord(n, x)'
  <2>1. CASE pending[n][x] # Nobody
    <3>1. NodeOf[pending[n][x]] = n /\ Busy(pending[n][x]) /\ call[pending[n][x]].name = x
      BY <2>1 DEF RecordsShaped, LiveRecord
    <3>2. CASE pending[n][x] = r
      BY <1>1, <3>1, <3>2, Zenon DEF LiveRecord, Busy
    <3>3. CASE pending[n][x] # r
      <4>1. pending[n][x] \in Resolvers \ {r}
        BY <2>1, <3>3
      <4>2. call'[pending[n][x]] = call[pending[n][x]]
        BY <1>1, <4>1, ZenonT(60)
      <4> QED
        BY <3>1, <4>2, ZenonT(60) DEF LiveRecord, Busy
    <3> QED
      BY <3>2, <3>3, SMTT(60), Zenon
  <2> QED
    BY <2>1, Zenon DEF LiveRecord
<1> QED
  BY <1>2, <1>3, <1>4 DEF RecordsShaped

\* A call that files its record over another's.
LEMMA FilingKeeps ==
    ASSUME NamesTypes, RecordsShaped, NEW r \in Resolvers, NEW x \in Names, NEW k \in Nat,
           ~Busy(r), pending_mutex[NodeOf[r]] = Nobody,
           pending' = [pending EXCEPT ![NodeOf[r]][x] = r],
           call' = [call EXCEPT ![r] = Call("waiting", x, Nobody, k)],
           UNCHANGED <<pending_mutex, to_signal, answer>>
    PROVE  RecordsShaped'
<1> USE NamesAssumption DEF NamesTypes
<1> DEFINE h == NodeOf[r]
<1>1. h \in Hosts
  BY Zenon
<1>2. /\ call'[r].at = "waiting" /\ call'[r].name = x
      /\ \A q \in Resolvers \ {r} : call'[q] = call[q]
  BY ZenonT(60) DEF Call
<1>3. /\ pending'[h][x] = r
      /\ \A n \in Hosts, y \in Names : n # h \/ y # x => pending'[n][y] = pending[n][y]
  BY <1>1, ZenonT(60)
<1> HIDE DEF h
<1>4. Signalling'
  <2>1. to_signal[h] = {} /\ "loop" # Nobody
    BY <1>1, Zenon DEF RecordsShaped, Signalling, h
  <2>2. ASSUME NEW n \in Hosts, NEW z \in to_signal[n] PROVE pending'[n][z] # Nobody
    <3>1. n # h
      BY <2>1, Zenon
    <3>2. z \in Names
      BY Zenon
    <3>3. pending'[n][z] = pending[n][z]
      BY <1>3, <3>1, <3>2, Zenon
    <3>4. pending[n][z] # Nobody
      BY Zenon DEF RecordsShaped, Signalling
    <3> QED
      BY <3>3, <3>4, Zenon
  <2> QED
    BY <2>2, Zenon DEF RecordsShaped, Signalling
<1>5. CallsNamed'
  BY <1>2, ZenonT(60) DEF RecordsShaped, CallsNamed
<1>6. ASSUME NEW n \in Hosts, NEW y \in Names PROVE LiveRecord(n, y)'
  <2>1. CASE n = h /\ y = x
    BY <1>2, <1>3, <2>1, ZenonT(60) DEF LiveRecord, Busy, h
  <2>2. CASE (n # h \/ y # x) /\ pending[n][y] # Nobody
    <3>1. pending'[n][y] = pending[n][y]
      BY <1>3, <2>2, Zenon
    <3>2. NodeOf[pending[n][y]] = n /\ Busy(pending[n][y]) /\ call[pending[n][y]].name = y
      BY <2>2, ZenonT(60) DEF RecordsShaped, LiveRecord
    <3>3. pending[n][y] \in Resolvers \ {r}
      BY <2>2, <3>2
    <3>4. call'[pending[n][y]] = call[pending[n][y]]
      BY <1>2, <3>3, Zenon
    <3> QED
      BY <3>1, <3>2, <3>4, Zenon DEF LiveRecord, Busy
  <2>3. CASE (n # h \/ y # x) /\ pending[n][y] = Nobody
    BY <1>3, <2>3, Zenon DEF LiveRecord
  <2> QED
    BY <2>1, <2>2, <2>3, Zenon
<1> QED
  BY <1>4, <1>5, <1>6 DEF RecordsShaped

\* The response handler gives its answer to calls and takes no record away.
LEMMA SignalKeeps ==
    ASSUME NamesTypes, RecordsShaped, NEW n \in Hosts, NEW x \in Names, SignalOne(n, x)
    PROVE  RecordsShaped'
<1> USE NamesAssumption DEF NamesTypes
<1> DEFINE r == pending[n][x]
<1>1. x \in to_signal[n] /\ r \in Resolvers
  <2>1. x \in to_signal[n] /\ r # Nobody
    BY Zenon DEF SignalOne, RecordsShaped, Signalling
  <2>2. pending[n] \in [Names -> Resolvers \cup {Nobody}]
    BY Zenon
  <2> QED
    BY <2>1, <2>2, Zenon
<1>2. \A q \in Resolvers : call'[q].at = call[q].at /\ call'[q].name = call[q].name
  <2>1. call' = call \/ call' = [call EXCEPT ![r] =
            [at |-> call[r].at, name |-> call[r].name, ready |-> TRUE,
             result |-> answer[n].address, calls |-> call[r].calls]]
    BY Zenon DEF SignalOne
  <2> HIDE DEF r
  <2>2. ASSUME NEW q \in Resolvers
        PROVE  call'[q].at = call[q].at /\ call'[q].name = call[q].name
    <3>1. CASE call' = call
      BY <3>1, Zenon
    <3>2. CASE call' # call /\ q = r
      BY <2>1, <3>2
    <3>3. CASE call' # call /\ q # r
      BY <2>1, <3>3, Zenon
    <3> QED
      BY <3>1, <3>2, <3>3
  <2> QED
    BY <2>2
<1>3. /\ pending' = pending /\ pending_mutex' = pending_mutex /\ answer' = answer
      /\ to_signal' = [to_signal EXCEPT ![n] = @ \ {x}]
  BY Zenon DEF SignalOne
<1>4. Signalling'
  BY <1>3, ZenonT(60) DEF RecordsShaped, Signalling
<1>5. CallsNamed'
  BY <1>2, Zenon DEF RecordsShaped, CallsNamed
<1>6. ASSUME NEW m \in Hosts, NEW y \in Names PROVE LiveRecord(m, y)'
  <2>1. CASE pending[m][y] # Nobody
    <3>1. pending[m][y] \in Resolvers
      BY <2>1
    <3>2. NodeOf[pending[m][y]] = m /\ Busy(pending[m][y]) /\ call[pending[m][y]].name = y
      BY <2>1, Zenon DEF RecordsShaped, LiveRecord
    <3> QED
      BY <1>2, <1>3, <3>1, <3>2, Zenon DEF LiveRecord, Busy
  <2> QED
    BY <1>3, <2>1, ZenonT(30) DEF LiveRecord
<1> QED
  BY <1>4, <1>5, <1>6, ZenonT(60) DEF RecordsShaped

\* It begins and ends with the mutex.
LEMMA HandlerKeeps ==
    ASSUME NamesTypes, RecordsShaped, NEW n \in Hosts, NEW m \in Hosts,
           OnResolveResponse(m, n) \/ ResponseHandled(n)
    PROVE  RecordsShaped'
<1> USE NamesAssumption DEF NamesTypes
<1>1. call' = call /\ pending' = pending
  BY Zenon DEF OnResolveResponse, ResponseHandled
<1>2. Signalling'
  <2>1. CASE OnResolveResponse(m, n)
    <3>1. Head(wire[<<m, n>>]) \in Responses
      BY <2>1, OldestFrame, Zenon DEF OnResolveResponse, Receive
    <3> QED
      BY <2>1, <3>1, ZenonT(60) DEF OnResolveResponse, RecordsShaped, Signalling
  <2>2. CASE ResponseHandled(n)
    BY <2>2, Zenon DEF ResponseHandled, RecordsShaped, Signalling
  <2> QED
    BY <2>1, <2>2
<1>3. CallsNamed' /\ \A k \in Hosts, y \in Names : LiveRecord(k, y)'
  <2>1. CallsNamed'
    BY <1>1, Zenon DEF RecordsShaped, CallsNamed
  <2>2. ASSUME NEW k \in Hosts, NEW y \in Names PROVE LiveRecord(k, y)'
    <3>1. LiveRecord(k, y)
      BY Zenon DEF RecordsShaped
    <3> QED
      BY <1>1, <3>1, Zenon DEF LiveRecord, Busy
  <2> QED
    BY <2>1, <2>2, Zenon
<1> QED
  BY <1>2, <1>3 DEF RecordsShaped

\* Every step keeps each record with a call in progress.
LEMMA RecordsKept ==
    ASSUME NamesIInv, [NamesNext]_namesVars
    PROVE  RecordsShaped'
<1> USE NamesAssumption
<1>1. NamesTypes /\ RecordsShaped
  BY LiveRecords, Zenon DEF NamesIInv, RecordsShaped
<1>2. CASE UNCHANGED <<pending, pending_mutex, call, to_signal, answer>>
  BY <1>1, <1>2, ZenonT(120) DEF RecordsShaped, Signalling, CallsNamed, LiveRecord, Busy
<1>3. ASSUME NEW r \in Resolvers, TimedOut(r) \/ Signalled(r) PROVE RecordsShaped'
  <2>1. PICK stage \in {"done", "signalled"} : call' = [call EXCEPT ![r] = Moved(call[r], stage)]
    BY <1>3, Zenon DEF TimedOut, Signalled
  <2>2. /\ call[r].at # "idle" /\ pending_mutex[NodeOf[r]] = Nobody
        /\ pending' = [pending EXCEPT ![NodeOf[r]][call[r].name] = Nobody]
        /\ UNCHANGED <<pending_mutex, to_signal, answer>>
    BY <1>3, Zenon DEF TimedOut, Signalled
  <2> QED
    BY <1>1, <2>1, <2>2, LeavingKeeps, Zenon
<1>4. ASSUME NEW r \in Resolvers, TimesOut(r) \/ CachePut(r) PROVE RecordsShaped'
  <2> DEFINE late == Moved(call[r], "late") done == Moved(call[r], "done")
  <2>1. call[r] \in CallRecords /\ (call[r].at # "idle" => call[r].name \in Names)
    BY <1>1, Zenon DEF NamesTypes, RecordsShaped, CallsNamed
  <2>2. /\ late \in CallRecords /\ late.at = "late" /\ late.name = call[r].name
        /\ done \in CallRecords /\ done.at = "done" /\ done.name = call[r].name
    BY <2>1, Zenon DEF Moved, CallRecords, Stages
  <2>3. UNCHANGED <<pending, pending_mutex, to_signal, answer>>
    BY <1>4, Zenon DEF TimesOut, CachePut
  <2>4. \/ call' = [call EXCEPT ![r] = late] /\ call[r].at = "waiting"
        \/ call' = [call EXCEPT ![r] = done] /\ call[r].at = "signalled"
    BY <1>4, Zenon DEF TimesOut, CachePut
  <2> HIDE DEF late, done
  <2>5. CASE call' = [call EXCEPT ![r] = late] /\ call[r].at = "waiting"
    BY <1>1, <2>2, <2>3, <2>5, CallStepKeeps, Zenon
  <2>6. CASE call' = [call EXCEPT ![r] = done] /\ call[r].at = "signalled"
    <3>1. ~Busy(r) /\ done.name \in Names
      BY <2>1, <2>2, <2>6, Zenon DEF Busy
    <3> QED
      BY <1>1, <2>2, <2>3, <2>6, <3>1, CallStepKeeps, Zenon
  <2> QED
    BY <2>4, <2>5, <2>6, Zenon
<1>5. ASSUME NEW r \in Resolvers, NEW x \in Names, Resolve(r, x) PROVE RecordsShaped'
  <2>1. ~Busy(r) /\ UNCHANGED <<pending_mutex, to_signal, answer>>
    BY <1>5, Zenon DEF Resolve, Busy
  <2>2. call[r].calls + 1 \in Nat
    <3>1. call[r] \in CallRecords
      BY <1>1, Zenon DEF NamesTypes
    <3> QED
      BY <3>1 DEF CallRecords
  <2>3. CASE /\ pending_mutex[NodeOf[r]] = Nobody
             /\ pending' = [pending EXCEPT ![NodeOf[r]][x] = r]
             /\ call' = [call EXCEPT ![r] = Call("waiting", x, Nobody, call[r].calls + 1)]
    BY <1>1, <2>1, <2>2, <2>3, FilingKeeps, Zenon
  <2>4. CASE /\ call' = [call EXCEPT ![r] = Call("done", x, Known(NodeOf[r], x), call[r].calls + 1)]
             /\ pending' = pending
    <3> DEFINE c == Call("done", x, Known(NodeOf[r], x), call[r].calls + 1)
    <3>1. Known(NodeOf[r], x) \in Addresses \cup {Nobody}
      BY <1>1 DEF Known, Address, Addresses, NamesTypes
    <3>2. c \in CallRecords /\ c.name = x
      BY <2>2, <3>1, Zenon DEF Call, CallRecords, Stages
    <3> HIDE DEF c
    <3> QED
      BY <1>1, <2>1, <2>4, <3>2, CallStepKeeps, ZenonT(60) DEF c
  <2> QED
    BY <1>5, <2>3, <2>4, Zenon DEF Resolve
<1>6. ASSUME NEW n \in Hosts, NEW x \in Names, SignalOne(n, x) PROVE RecordsShaped'
  BY <1>1, <1>6, SignalKeeps, Zenon
<1>7. ASSUME NEW n \in Hosts, NEW m \in Hosts, OnResolveResponse(m, n) \/ ResponseHandled(n)
      PROVE  RecordsShaped'
  BY <1>1, <1>7, HandlerKeeps, Zenon
<1> QED
  BY <1>2, <1>3, <1>4, <1>5, <1>6, <1>7, ZenonT(120)
  DEF NamesNext, LoopStep, CallStep, Register, Erase, RegisterNamesAtomically, UnregisterName,
      CacheExpires, OnRegisterRequest, OnUnregisterRequest, OnResolveQuery, resolving, namesVars

-----------------------------------------------------------------------------
Routed(l, q) == \A i \in 1 .. Len(q) : OnItsWay(l, q[i])

\* Receiving and sending keep a link's requests on their way.
LEMMA RoutedQueue ==
    ASSUME NEW l, NEW q \in Seq(Messages), Routed(l, q)
    PROVE  /\ q # << >> => Routed(l, Tail(q)) /\ OnItsWay(l, Head(q))
           /\ \A m \in Messages : OnItsWay(l, m) => Routed(l, Append(q, m))
<1>1. ASSUME q # << >> PROVE Routed(l, Tail(q)) /\ OnItsWay(l, Head(q))
  <2>1. /\ Len(q) \in Nat \ {0} /\ Head(q) = q[1] /\ Len(Tail(q)) = Len(q) - 1
        /\ \A i \in 1 .. Len(Tail(q)) : Tail(q)[i] = q[i + 1]
    BY <1>1
  <2>2. \A i \in 1 .. Len(Tail(q)) : i + 1 \in 1 .. Len(q)
    BY <2>1
  <2>3. 1 \in 1 .. Len(q)
    BY <2>1
  <2> QED
    BY <2>1, <2>2, <2>3, Zenon DEF Routed
<1>2. ASSUME NEW m \in Messages, OnItsWay(l, m) PROVE Routed(l, Append(q, m))
  <2>1. /\ Len(Append(q, m)) = Len(q) + 1 /\ Len(q) \in Nat
        /\ \A i \in 1 .. Len(q) : Append(q, m)[i] = q[i]
        /\ Append(q, m)[Len(q) + 1] = m
    OBVIOUS
  <2>2. \A i \in 1 .. Len(Append(q, m)) : i \in 1 .. Len(q) \/ i = Len(q) + 1
    BY <2>1
  <2> QED
    BY <1>2, <2>1, <2>2, Zenon DEF Routed
<1> QED
  BY <1>1, <1>2

\* A step of link l that is not about x.
QuietOn(l, x) ==
    \/ wire'[l] = wire[l]
    \/ wire[l] # << >> /\ ~About(Head(wire[l]), x) /\ wire'[l] = Tail(wire[l])
    \/ \E m \in Messages :
          /\ ~About(m, x)
          /\ \/ wire'[l] = Append(wire[l], m)
             \/ /\ wire[l] # << >> /\ ~About(Head(wire[l]), x)
                /\ wire'[l] = Append(Tail(wire[l]), m)

\* Steps about other names leave the agreement on x alone.
LEMMA QuietKeeps ==
    ASSUME NamesTypes, NEW n \in Hosts, NEW x \in Names, Agreed(n, x), QuietOn(<<n, HomeOf[x]>>, x),
           directory'[HomeOf[x]][x] = directory[HomeOf[x]][x], x \in local'[n] <=> x \in local[n],
           x \in untold' <=> x \in untold
    PROVE  Agreed(n, x)'
<1>a. CASE x \in untold
  BY <1>a, Zenon DEF Agreed
<1>b. SUFFICES ASSUME x \notin untold PROVE Agreed(n, x)'
  BY <1>a, Zenon
<1> DEFINE q == wire[<<n, HomeOf[x]>>] p == wire'[<<n, HomeOf[x]>>]
<1>1. q \in Seq(Messages)
  BY NamesAssumption, Zenon DEF NamesTypes
<1>2. Word(n, x)' = Word(n, x)
  BY SMTT(60), Zenon DEF Word
<1>3. /\ LastWord(q, x, Word(n, x))
      /\ Silent(q, x) => directory[HomeOf[x]][x] = IF x \in local[n] THEN n ELSE Nobody
      /\ directory[HomeOf[x]][x] \in {n, Nobody}
  BY <1>b, Zenon DEF Agreed, Told
<1>4. \/ p = q
      \/ q # << >> /\ ~About(Head(q), x) /\ p = Tail(q)
      \/ \E m \in Messages :
            /\ ~About(m, x)
            /\ \/ p = Append(q, m)
               \/ q # << >> /\ ~About(Head(q), x) /\ p = Append(Tail(q), m)
  BY ZenonT(60) DEF QuietOn
<1> HIDE DEF q, p
<1>5. q # << >> /\ ~About(Head(q), x)
        => /\ Tail(q) \in Seq(Messages)
           /\ LastWord(Tail(q), x, Word(n, x)) /\ (Silent(Tail(q), x) => Silent(q, x))
  <2>1. q # << >> => Tail(q) \in Seq(Messages)
    BY <1>1
  <2> QED
    BY <1>1, <1>3, <2>1, TailSays, ZenonT(30)
<1>6. LastWord(p, x, Word(n, x)) /\ (Silent(p, x) => Silent(q, x))
  BY <1>1, <1>3, <1>4, <1>5, AppendOther, ZenonT(60)
<1>7. /\ LastWord(p, x, Word(n, x)')
      /\ Silent(p, x) => directory'[HomeOf[x]][x] = IF x \in local'[n] THEN n ELSE Nobody
      /\ directory'[HomeOf[x]][x] \in {n, Nobody}
  BY <1>2, <1>3, <1>6, Zenon
<1> QED
  BY <1>7, Zenon DEF Agreed, Told, p

\* A change the home is not told of: nothing is claimed of the names that changed.
LEMMA UntoldKeeps ==
    ASSUME NamesIInv, UNCHANGED <<directory, wire>>, NEW S \in SUBSET Names,
           untold' = untold \cup S,
           \A k \in Hosts, y \in Names :
               /\ y \notin S => (y \in local'[k] <=> y \in local[k])
               /\ y \in local'[k] => k \in RegistersOn[y]
    PROVE  RequestsRouted' /\ Placed' /\ Agreement'
<1> USE NamesAssumption
<1>1. NamesTypes /\ RequestsRouted /\ Placed /\ Agreement
  BY Zenon DEF NamesIInv
<1>2. RequestsRouted' /\ Placed'
  BY <1>1, Zenon DEF RequestsRouted, Placed
<1>3. ASSUME NEW y \in Names, NEW k \in Hosts, RegistersOn[y] = {k} PROVE Agreed(k, y)'
  <2>1. Agreed(k, y)
    BY <1>1, <1>3, Zenon DEF Agreement
  <2>2. CASE y \in S
    BY <2>1, <2>2, Zenon DEF Agreed
  <2>3. CASE y \notin S
    <3>1. QuietOn(<<k, HomeOf[y]>>, y)
      BY Zenon DEF QuietOn
    <3>2. y \in untold' <=> y \in untold
      BY <2>3, Zenon
    <3> QED
      BY <1>1, <2>1, <2>3, <3>1, <3>2, QuietKeeps, Zenon
  <2> QED
    BY <2>2, <2>3, Zenon
<1> QED
  BY <1>2, <1>3, Zenon DEF Agreement

\* Register changes the entry at home at once, or the last word on the name leaves for there.
LEMMA RegisterTold ==
    ASSUME NamesIInv, NEW n \in Hosts, NEW x \in Names, Register(n, x), x \notin untold'
    PROVE  RequestsRouted' /\ Placed' /\ Agreement'
<1> USE NamesAssumption
<1> DEFINE h == HomeOf[x] m == [kind |-> "register", name |-> x] l == <<n, HomeOf[x]>>
<1>1. NamesTypes /\ RequestsRouted /\ Placed /\ Agreement
  BY Zenon DEF NamesIInv
<1>2. /\ n \in RegistersOn[x] /\ h \in Hosts /\ l \in Hosts \X Hosts /\ wire[l] \in Seq(Messages)
      /\ local' = [local EXCEPT ![n] = @ \cup {x}]
      /\ h = n => directory' = [directory EXCEPT ![n] = Enter(@, x, n)] /\ wire' = wire
      /\ h # n => directory' = directory /\ wire' = [wire EXCEPT ![l] = Append(@, m)]
  <2>1. n \in RegistersOn[x] /\ h \in Hosts /\ l \in Hosts \X Hosts /\ wire[l] \in Seq(Messages)
    BY <1>1, Zenon DEF Register, NamesTypes, Placed
  <2> QED
    BY <2>1, ZenonT(60) DEF Register, Tell, SendTo
<1>u. \A y \in Names : y # x => (y \in untold' <=> y \in untold)
  BY Zenon DEF Register, Tell
<1>3. m \in Messages /\ (\A y \in Names : About(m, y) <=> y = x) /\ m.kind = "register"
  BY DEF Messages, Requests, About
<1>4. /\ \A k \in Hosts, y \in Names : y # x => directory'[k][y] = directory[k][y]
      /\ \A k \in Hosts, y \in Names : k # n => directory'[k][y] = directory[k][y]
      /\ \A k \in Hosts, y \in Names : y # x => (y \in local'[k] <=> y \in local[k])
      /\ \A k \in Hosts : k # n => local'[k] = local[k]
      /\ x \in local'[n]
  <2>1. /\ \A k \in Hosts, y \in Names : y # x => (y \in local'[k] <=> y \in local[k])
        /\ \A k \in Hosts : k # n => local'[k] = local[k]
        /\ x \in local'[n]
    BY <1>1, <1>2, ZenonT(60) DEF NamesTypes
  <2>2. CASE h # n
    BY <1>2, <2>1, <2>2, Zenon
  <2>3. CASE h = n
    <3>1. directory \in [Hosts -> [Names -> Hosts \cup {Nobody}]]
      BY <1>1, Zenon DEF NamesTypes
    <3>2. directory' = [directory EXCEPT ![n] = Enter(@, x, n)]
      BY <1>2, <2>3, Zenon
    <3>3. \A k \in Hosts : k # n => directory'[k] = directory[k]
      BY <3>1, <3>2, Zenon
    <3>4. directory'[n] = Enter(directory[n], x, n)
      BY <3>1, <3>2, Zenon
    <3>5. \A y \in Names : y # x => directory'[n][y] = directory[n][y]
      BY <3>1, <3>4, Zenon DEF Enter
    <3> QED
      BY <2>1, <3>3, <3>5, Zenon
  <2> QED
    BY <2>2, <2>3, Zenon
<1>5. h # n => wire'[l] = Append(wire[l], m) /\ \A k \in Hosts \X Hosts : k # l => wire'[k] = wire[k]
  BY <1>1, <1>2, Zenon DEF NamesTypes
<1> HIDE DEF m, h
<1>6. RequestsRouted'
  <2>1. CASE h = n
    BY <1>1, <1>2, <2>1, Zenon DEF RequestsRouted
  <2>2. CASE h # n
    <3>1. OnItsWay(l, m)
      BY <1>2, <1>3, <2>2, Zenon DEF OnItsWay, h
    <3>2. Routed(l, Append(wire[l], m))
      BY <1>1, <1>2, <1>3, <3>1, RoutedQueue, Zenon DEF RequestsRouted, Routed
    <3> HIDE DEF l
    <3> QED
      BY <1>1, <1>5, <2>2, <3>2, SMTT(60), Zenon DEF RequestsRouted, Routed
  <2> QED
    BY <2>1, <2>2, Zenon
<1>7. Placed'
  BY <1>1, <1>2, <1>4 DEF Placed, h
<1>8. ASSUME NEW y \in Names, NEW k \in Hosts, RegistersOn[y] = {k} PROVE Agreed(k, y)'
  <2>1. Agreed(k, y) /\ HomeOf[y] \in Hosts
    BY <1>1, <1>8, ZenonT(30) DEF Agreement
  <2>2. CASE y # x
    <3>1. QuietOn(<<k, HomeOf[y]>>, y)
      <4>1. CASE h = n
        BY <1>2, <4>1, Zenon DEF QuietOn
      <4>2. CASE h # n /\ <<k, HomeOf[y]>> = l
        BY <1>3, <1>5, <2>2, <4>2, Zenon DEF QuietOn
      <4>3. CASE h # n /\ <<k, HomeOf[y]>> # l
        BY <1>5, <2>1, <4>3, Zenon DEF QuietOn
      <4> QED
        BY <4>1, <4>2, <4>3
    <3> QED
      BY <1>1, <1>4, <1>u, <2>1, <2>2, <3>1, QuietKeeps, ZenonT(60)
  <2>3. CASE y = x /\ h = n
    <3>1. k = n
      BY <1>2, <1>8, <2>3, Zenon
    <3>2. Silent(wire[<<n, n>>], x)
      BY <1>1, ZenonT(60) DEF RequestsRouted, OnItsWay, Silent
    <3>3. directory[n][x] \in {n, Nobody}
      BY <2>1, <2>3, <3>1, Zenon DEF Agreed, h
    <3>4. directory'[n][x] = n
      BY <1>1, <1>2, <2>3, <3>3 DEF NamesTypes, Enter
    <3>5. LastWord(wire[<<n, n>>], x, Word(n, x)')
      BY <3>2, Zenon DEF LastWord, Silent
    <3> QED
      BY <1>2, <1>4, <2>3, <3>1, <3>2, <3>4, <3>5, Zenon DEF Agreed, Told, h
  <2>4. CASE y = x /\ h # n
    <3>1. k = n /\ directory' = directory /\ <<k, HomeOf[y]>> = l
      BY <1>2, <1>8, <2>4, Zenon
    <3>2. LastWord(Append(wire[l], m), x, "register") /\ ~Silent(Append(wire[l], m), x)
      BY <1>2, <1>3, AppendAbout
    <3>3. Word(n, x)' = "register"
      BY <1>4, Zenon DEF Word
    <3>4. directory[HomeOf[x]][x] \in {n, Nobody}
      BY <2>1, <2>4, <3>1, Zenon DEF Agreed
    <3> QED
      BY <1>5, <2>4, <3>1, <3>2, <3>3, <3>4, Zenon DEF Agreed, Told
  <2> QED
    BY <2>2, <2>3, <2>4, Zenon
<1> QED
  BY <1>6, <1>7, <1>8, Zenon DEF Agreement

\* Told or not, Register keeps what the home and the registering node agree on.
LEMMA RegisterKeeps ==
    ASSUME NamesIInv, NEW n \in Hosts, NEW x \in Names, Register(n, x)
    PROVE  RequestsRouted' /\ Placed' /\ Agreement'
<1> USE NamesAssumption
<1>1. CASE x \in untold'
  <2>1. directory' = directory /\ wire' = wire /\ untold' = untold \cup {x}
    BY <1>1, Zenon DEF Register, Tell, SendTo
  <2>2. local' = [local EXCEPT ![n] = @ \cup {x}] /\ n \in RegistersOn[x]
    BY Zenon DEF Register, NamesIInv, Placed
  <2>3. local \in [Hosts -> SUBSET Names] /\ {x} \in SUBSET Names
    BY Zenon DEF NamesIInv, NamesTypes
  <2>4. ASSUME NEW k \in Hosts, NEW y \in Names
        PROVE  /\ y \notin {x} => (y \in local'[k] <=> y \in local[k])
               /\ y \in local'[k] => k \in RegistersOn[y]
    <3>1. y \in local[k] => k \in RegistersOn[y]
      BY Zenon DEF NamesIInv, Placed
    <3> QED
      BY <2>2, <2>3, <3>1, ZenonT(60)
  <2>5. PICK S \in SUBSET Names : S = {x}
    BY <2>3, Zenon
  <2>6. \A k \in Hosts, y \in Names :
           /\ y \notin S => (y \in local'[k] <=> y \in local[k])
           /\ y \in local'[k] => k \in RegistersOn[y]
    BY <2>4, <2>5, Zenon
  <2>7. untold' = untold \cup S
    BY <2>1, <2>5, Zenon
  <2> QED
    BY <2>1, <2>6, <2>7, UntoldKeeps, ZenonT(60)
<1> QED
  BY <1>1, RegisterTold, Zenon

\* Erase changes the entry at home at once, or the last word on the name leaves for there.
LEMMA EraseTold ==
    ASSUME NamesIInv, NEW n \in Hosts, NEW x \in Names, Erase(n, x), x \notin untold'
    PROVE  RequestsRouted' /\ Placed' /\ Agreement'
<1> USE NamesAssumption
<1> DEFINE h == HomeOf[x] m == [kind |-> "unregister", name |-> x] l == <<n, HomeOf[x]>>
<1>1. NamesTypes /\ RequestsRouted /\ Placed /\ Agreement
  BY DEF NamesIInv
<1>2. /\ n \in RegistersOn[x] /\ h \in Hosts /\ l \in Hosts \X Hosts /\ wire[l] \in Seq(Messages)
      /\ local' = [local EXCEPT ![n] = @ \ {x}]
      /\ h = n => directory' = [directory EXCEPT ![n][x] = Nobody] /\ wire' = wire
      /\ h # n => directory' = directory /\ wire' = [wire EXCEPT ![l] = Append(@, m)]
  <2>1. n \in RegistersOn[x] /\ h \in Hosts /\ l \in Hosts \X Hosts /\ wire[l] \in Seq(Messages)
    <3>1. x \in local[n]
      BY Zenon DEF Erase
    <3>2. n \in RegistersOn[x]
      BY <1>1, <3>1, Zenon DEF Placed
    <3>3. h \in Hosts /\ l \in Hosts \X Hosts
      BY Zenon
    <3>4. wire[l] \in Seq(Messages)
      BY <1>1, <3>3, Zenon DEF NamesTypes
    <3> QED
      BY <3>2, <3>3, <3>4, Zenon
  <2> QED
    BY <2>1, ZenonT(60) DEF Erase, Tell, SendTo
<1>u. \A y \in Names : y # x => (y \in untold' <=> y \in untold)
  BY Zenon DEF Erase, Tell
<1>3. m \in Messages /\ (\A y \in Names : About(m, y) <=> y = x) /\ m.kind = "unregister"
  BY DEF Messages, Requests, About
<1>4. /\ \A k \in Hosts, y \in Names : y # x => directory'[k][y] = directory[k][y]
      /\ \A k \in Hosts, y \in Names : k # n => directory'[k][y] = directory[k][y]
      /\ \A k \in Hosts, y \in Names : y # x => (y \in local'[k] <=> y \in local[k])
      /\ \A k \in Hosts : k # n => local'[k] = local[k]
      /\ x \notin local'[n]
  <2>1. /\ \A k \in Hosts, y \in Names : y # x => (y \in local'[k] <=> y \in local[k])
        /\ \A k \in Hosts : k # n => local'[k] = local[k]
        /\ x \notin local'[n]
    BY <1>1, <1>2, ZenonT(60) DEF NamesTypes
  <2>2. CASE h # n
    BY <1>2, <2>1, <2>2, Zenon
  <2>3. CASE h = n
    <3>1. directory \in [Hosts -> [Names -> Hosts \cup {Nobody}]]
      BY <1>1 DEF NamesTypes
    <3>2. directory' = [directory EXCEPT ![n][x] = Nobody]
      BY <1>2, <2>3, Zenon
    <3>3. \A k \in Hosts : k # n => directory'[k] = directory[k]
      BY <3>1, <3>2, Zenon
    <3>4. directory'[n] = [directory[n] EXCEPT ![x] = Nobody]
      BY <3>1, <3>2, Zenon
    <3>5. \A y \in Names : y # x => directory'[n][y] = directory[n][y]
      BY <3>1, <3>4, Zenon DEF Enter
    <3> QED
      BY <2>1, <3>3, <3>5, Zenon
  <2> QED
    BY <2>2, <2>3, Zenon
<1>5. h # n => wire'[l] = Append(wire[l], m) /\ \A k \in Hosts \X Hosts : k # l => wire'[k] = wire[k]
  BY <1>1, <1>2, Zenon DEF NamesTypes
<1> HIDE DEF m, h
<1>6. RequestsRouted'
  <2>1. CASE h = n
    BY <1>1, <1>2, <2>1, Zenon DEF RequestsRouted
  <2>2. CASE h # n
    <3>1. OnItsWay(l, m)
      BY <1>2, <1>3, <2>2, Zenon DEF OnItsWay, h
    <3>2. Routed(l, Append(wire[l], m))
      BY <1>1, <1>2, <1>3, <3>1, RoutedQueue, ZenonT(60) DEF RequestsRouted, Routed
    <3> HIDE DEF l
    <3> QED
      BY <1>1, <1>5, <2>2, <3>2 DEF RequestsRouted, Routed
  <2> QED
    BY <2>1, <2>2
<1>7. Placed'
  BY <1>1, <1>2, <1>4, SMTT(60), Zenon DEF Placed, h
<1>8. ASSUME NEW y \in Names, NEW k \in Hosts, RegistersOn[y] = {k} PROVE Agreed(k, y)'
  <2>1. Agreed(k, y) /\ HomeOf[y] \in Hosts
    BY <1>1, <1>8, SMTT(60), Zenon DEF Agreement
  <2>2. CASE y # x
    <3>1. QuietOn(<<k, HomeOf[y]>>, y)
      <4>1. CASE h = n
        BY <1>2, <4>1, Zenon DEF QuietOn
      <4>2. CASE h # n /\ <<k, HomeOf[y]>> = l
        BY <1>3, <1>5, <2>2, <4>2, ZenonT(60) DEF QuietOn
      <4>3. CASE h # n /\ <<k, HomeOf[y]>> # l
        <5>1. wire'[<<k, HomeOf[y]>>] = wire[<<k, HomeOf[y]>>]
          BY <1>5, <2>1, <4>3, Zenon
        <5> QED
          BY <5>1, Zenon DEF QuietOn
      <4> QED
        BY <4>1, <4>2, <4>3, Zenon
    <3>2. directory'[HomeOf[y]][y] = directory[HomeOf[y]][y] /\ (y \in local'[k] <=> y \in local[k])
      BY <1>1, <1>4, <2>1, <2>2
    <3> QED
      BY <1>1, <1>u, <2>1, <2>2, <3>1, <3>2, QuietKeeps, Zenon
  <2>3. CASE y = x /\ h = n
    <3>1. k = n
      BY <1>2, <1>8, <2>3, Zenon
    <3>2. Silent(wire[<<n, n>>], x)
      BY <1>1, SMTT(60), Zenon DEF RequestsRouted, OnItsWay, Silent
    <3>3. directory[n][x] \in {n, Nobody}
      BY <2>1, <2>3, <3>1, SMTT(60), Zenon DEF Agreed, h
    <3>4. directory'[n][x] = Nobody
      BY <1>1, <1>2, <2>3, <3>3, SMTT(60), Zenon DEF NamesTypes, Enter
    <3>5. LastWord(wire[<<n, n>>], x, Word(n, x)')
      BY <3>2 DEF LastWord, Silent
    <3> QED
      BY <1>2, <1>4, <2>3, <3>1, <3>2, <3>4, <3>5, Zenon DEF Agreed, Told, h
  <2>4. CASE y = x /\ h # n
    <3>1. k = n /\ directory' = directory /\ <<k, HomeOf[y]>> = l
      BY <1>2, <1>8, <2>4, Zenon
    <3>2. LastWord(Append(wire[l], m), x, "unregister") /\ ~Silent(Append(wire[l], m), x)
      BY <1>2, <1>3, AppendAbout
    <3>3. Word(n, x)' = "unregister"
      BY <1>4, SMTT(60), Zenon DEF Word
    <3>4. directory[HomeOf[x]][x] \in {n, Nobody}
      BY <2>1, <2>4, <3>1 DEF Agreed
    <3> QED
      BY <1>5, <2>4, <3>1, <3>2, <3>3, <3>4, Zenon DEF Agreed, Told
  <2> QED
    BY <2>2, <2>3, <2>4
<1> QED
  BY <1>6, <1>7, <1>8 DEF Agreement

\* Told or not, Erase keeps what the home and the registering node agree on.
LEMMA EraseKeeps ==
    ASSUME NamesIInv, NEW n \in Hosts, NEW x \in Names, Erase(n, x)
    PROVE  RequestsRouted' /\ Placed' /\ Agreement'
<1> USE NamesAssumption
<1>1. CASE x \in untold'
  <2>1. directory' = directory /\ wire' = wire /\ untold' = untold \cup {x}
    BY <1>1, Zenon DEF Erase, Tell, SendTo
  <2>2. local' = [local EXCEPT ![n] = @ \ {x}] /\ n \in RegistersOn[x]
    BY Zenon DEF Erase, NamesIInv, Placed
  <2>3. local \in [Hosts -> SUBSET Names] /\ {x} \in SUBSET Names
    BY Zenon DEF NamesIInv, NamesTypes
  <2>4. ASSUME NEW k \in Hosts, NEW y \in Names
        PROVE  /\ y \notin {x} => (y \in local'[k] <=> y \in local[k])
               /\ y \in local'[k] => k \in RegistersOn[y]
    <3>1. y \in local[k] => k \in RegistersOn[y]
      BY Zenon DEF NamesIInv, Placed
    <3> QED
      BY <2>2, <2>3, <3>1, ZenonT(60)
  <2>5. PICK S \in SUBSET Names : S = {x}
    BY <2>3, Zenon
  <2>6. \A k \in Hosts, y \in Names :
           /\ y \notin S => (y \in local'[k] <=> y \in local[k])
           /\ y \in local'[k] => k \in RegistersOn[y]
    BY <2>4, <2>5, Zenon
  <2>7. untold' = untold \cup S
    BY <2>1, <2>5, Zenon
  <2> QED
    BY <2>1, <2>6, <2>7, UntoldKeeps, ZenonT(60)
<1> QED
  BY <1>1, EraseTold, Zenon

\* Neither does register_names_atomically, nor unregister_name, disturb what was told.
LEMMA SilentKeeps ==
    ASSUME NamesIInv, NEW n \in Hosts, NEW S \in SUBSET Names,
           RegisterNamesAtomically(n, S) \/ \E x \in Names : S = {x} /\ UnregisterName(n, x)
    PROVE  RequestsRouted' /\ Placed' /\ Agreement'
<1> USE NamesAssumption
<1>1. directory' = directory /\ wire' = wire /\ untold' = untold \cup S
  BY Zenon DEF RegisterNamesAtomically, UnregisterName
<1>2. /\ local' = [local EXCEPT ![n] = @ \cup S] \/ local' = [local EXCEPT ![n] = @ \ S]
      /\ \A y \in S : n \in RegistersOn[y]
  BY Zenon DEF RegisterNamesAtomically, UnregisterName, NamesIInv, Placed
<1>3. local \in [Hosts -> SUBSET Names]
  BY Zenon DEF NamesIInv, NamesTypes
<1>4. ASSUME NEW k \in Hosts, NEW y \in Names
      PROVE  /\ y \notin S => (y \in local'[k] <=> y \in local[k])
             /\ y \in local'[k] => k \in RegistersOn[y]
  <2>1. y \in local[k] => k \in RegistersOn[y]
    BY Zenon DEF NamesIInv, Placed
  <2>2. CASE k = n
    BY <1>2, <1>3, <2>1, <2>2
  <2>3. CASE k # n
    <3>1. local'[k] = local[k]
      <4>1. CASE local' = [local EXCEPT ![n] = @ \cup S]
        BY <1>3, <2>3, <4>1, Zenon
      <4>2. CASE local' = [local EXCEPT ![n] = @ \ S]
        BY <1>3, <2>3, <4>2, Zenon
      <4> QED
        BY <1>2, <4>1, <4>2, Zenon
    <3> QED
      BY <2>1, <3>1, Zenon
  <2> QED
    BY <2>2, <2>3, Zenon
<1> QED
  BY <1>1, <1>4, UntoldKeeps, Zenon

\* OnRegisterRequest takes the oldest word on a name off its link and enters it.
LEMMA OnRegisterRequestKeeps ==
    ASSUME NamesIInv, NEW from \in Hosts, NEW n \in Hosts, OnRegisterRequest(from, n)
    PROVE  RequestsRouted' /\ Placed' /\ Agreement'
<1> USE NamesAssumption
<1>0. PICK m : m = Head(wire[<<from, n>>])
  OBVIOUS
<1> DEFINE l == <<from, n>> x == m.name
<1>1. NamesTypes /\ RequestsRouted /\ Placed /\ Agreement
  BY DEF NamesIInv
<1>2. /\ l \in Hosts \X Hosts /\ wire[l] \in Seq(Messages) /\ wire[l] # << >> /\ m.kind = "register"
      /\ local' = local /\ untold' = untold
      /\ directory' = [directory EXCEPT ![n] = Enter(@, x, from)]
      /\ wire' = [wire EXCEPT ![l] = Tail(@)]
  BY <1>0, <1>1, Zenon DEF OnRegisterRequest, Receive, NamesTypes
<1>3. m \in Messages /\ OnItsWay(l, m)
  <2>1. Routed(l, wire[l])
    BY <1>1, <1>2, Zenon DEF RequestsRouted, Routed
  <2>2. m \in Messages
    BY <1>0, <1>2
  <2> HIDE DEF l
  <2> QED
    BY <1>0, <1>2, <2>1, <2>2, RoutedQueue, Zenon DEF l
<1>4. x \in Names /\ (\A y \in Names : About(m, y) <=> y = x)
  BY <1>2, <1>3, Zenon DEF Messages, Requests, Responses, About
<1>5. HomeOf[x] = n /\ from \in RegistersOn[x] /\ from # n
  BY <1>3, <1>4, Zenon DEF OnItsWay
<1>6. wire'[l] = Tail(wire[l]) /\ \A k \in Hosts \X Hosts : k # l => wire'[k] = wire[k]
  BY <1>1, <1>2, Zenon DEF NamesTypes
<1> HIDE DEF x
<1>7. /\ \A k \in Hosts : k # n => directory'[k] = directory[k]
      /\ \A y \in Names : y # x => directory'[n][y] = directory[n][y]
      /\ directory[n][x] \in {from, Nobody} => directory'[n][x] = from
  <2>1. directory \in [Hosts -> [Names -> Hosts \cup {Nobody}]]
    BY <1>1, Zenon DEF NamesTypes
  <2>2. directory'[n] = Enter(directory[n], x, from) /\ \A k \in Hosts : k # n => directory'[k] = directory[k]
    BY <1>2, <2>1, Zenon
  <2> QED
    BY <1>4, <2>1, <2>2, Zenon DEF Enter
<1>8. RequestsRouted'
  <2>1. Routed(l, Tail(wire[l]))
    BY <1>1, <1>2, RoutedQueue, Zenon DEF RequestsRouted, Routed
  <2>2. ASSUME NEW k \in Hosts \X Hosts PROVE Routed(k, wire'[k])
    <3>1. CASE k = l
      BY <1>6, <2>1, <3>1
    <3>2. CASE k # l
      BY <1>1, <1>6, <3>2, ZenonT(60) DEF RequestsRouted, Routed
    <3> QED
      BY <3>1, <3>2
  <2> QED
    BY <2>2, Zenon DEF RequestsRouted, Routed
<1>9. Placed'
  BY <1>1, <1>2, <1>5, <1>7 DEF Placed
<1>10. ASSUME NEW y \in Names, NEW k \in Hosts, RegistersOn[y] = {k} PROVE Agreed(k, y)'
  <2>1. Agreed(k, y) /\ HomeOf[y] \in Hosts
    BY <1>1, <1>10, Zenon DEF Agreement
  <2>2. CASE y # x
    <3>1. QuietOn(<<k, HomeOf[y]>>, y)
      <4>1. CASE <<k, HomeOf[y]>> = l
        BY <1>0, <1>2, <1>4, <1>6, <2>2, <4>1, Zenon DEF QuietOn
      <4>2. CASE <<k, HomeOf[y]>> # l
        BY <1>6, <2>1, <4>2, Zenon DEF QuietOn
      <4> QED
        BY <4>1, <4>2
    <3> QED
      BY <1>1, <1>2, <1>7, <2>1, <2>2, <3>1, QuietKeeps, ZenonT(120)
  <2>3. CASE y = x
    <3>1. k = from /\ <<k, HomeOf[y]>> = l
      BY <1>5, <1>10, <2>3, ZenonT(30)
    <3>2. directory[n][x] \in {from, Nobody} /\ (x \notin untold => LastWord(wire[l], x, Word(from, x)))
      BY <1>5, <2>1, <2>3, <3>1, Zenon DEF Agreed, Told
    <3>3. x \notin untold => /\ LastWord(Tail(wire[l]), x, Word(from, x))
                             /\ Silent(Tail(wire[l]), x) => m.kind = Word(from, x)
      <4>1. About(Head(wire[l]), x)
        BY <1>0, <1>4, Zenon
      <4> QED
        BY <1>0, <1>2, <3>2, <4>1, TailSays, Zenon
    <3>4. Word(from, x)' = Word(from, x) /\ ("register" = Word(from, x) => x \in local'[from])
      BY <1>2, Zenon DEF Word
    <3>5. directory'[n][x] = from
      BY <1>7, <3>2, Zenon
    <3> QED
      BY <1>2, <1>5, <1>6, <2>3, <3>1, <3>3, <3>4, <3>5, ZenonT(120) DEF Agreed, Told
  <2> QED
    BY <2>2, <2>3
<1> QED
  BY <1>8, <1>9, <1>10 DEF Agreement

\* OnUnregisterRequest takes the oldest word on a name off its link and enters it.
LEMMA OnUnregisterRequestKeeps ==
    ASSUME NamesIInv, NEW from \in Hosts, NEW n \in Hosts, OnUnregisterRequest(from, n)
    PROVE  RequestsRouted' /\ Placed' /\ Agreement'
<1> USE NamesAssumption
<1>0. PICK m : m = Head(wire[<<from, n>>])
  OBVIOUS
<1> DEFINE l == <<from, n>> x == m.name
<1>1. NamesTypes /\ RequestsRouted /\ Placed /\ Agreement
  BY Zenon DEF NamesIInv
<1>2. /\ l \in Hosts \X Hosts /\ wire[l] \in Seq(Messages) /\ wire[l] # << >> /\ m.kind = "unregister"
      /\ local' = local /\ untold' = untold
      /\ directory' = [directory EXCEPT ![n][x] = Nobody]
      /\ wire' = [wire EXCEPT ![l] = Tail(@)]
  BY <1>0, <1>1, Zenon DEF OnUnregisterRequest, Receive, NamesTypes
<1>3. m \in Messages /\ OnItsWay(l, m)
  <2>1. Routed(l, wire[l])
    BY <1>1, <1>2, Zenon DEF RequestsRouted, Routed
  <2>2. m \in Messages
    BY <1>0, <1>2
  <2> HIDE DEF l
  <2> QED
    BY <1>0, <1>2, <2>1, <2>2, RoutedQueue, Zenon DEF l
<1>4. x \in Names /\ (\A y \in Names : About(m, y) <=> y = x)
  BY <1>2, <1>3, Zenon DEF Messages, Requests, Responses, About
<1>5. HomeOf[x] = n /\ from \in RegistersOn[x] /\ from # n
  BY <1>3, <1>4 DEF OnItsWay
<1>6. wire'[l] = Tail(wire[l]) /\ \A k \in Hosts \X Hosts : k # l => wire'[k] = wire[k]
  BY <1>1, <1>2, Zenon DEF NamesTypes
<1> HIDE DEF x
<1>7. /\ \A k \in Hosts : k # n => directory'[k] = directory[k]
      /\ \A y \in Names : y # x => directory'[n][y] = directory[n][y]
      /\ directory[n][x] \in {from, Nobody} => directory'[n][x] = Nobody
  <2>1. directory \in [Hosts -> [Names -> Hosts \cup {Nobody}]]
    BY <1>1 DEF NamesTypes
  <2>2. directory'[n] = [directory[n] EXCEPT ![x] = Nobody] /\ \A k \in Hosts : k # n => directory'[k] = directory[k]
    BY <1>2, <2>1, Zenon
  <2> QED
    BY <1>4, <2>1, <2>2 DEF Enter
<1>8. RequestsRouted'
  <2>1. Routed(l, Tail(wire[l]))
    BY <1>1, <1>2, RoutedQueue, SMTT(60), Zenon DEF RequestsRouted, Routed
  <2>2. ASSUME NEW k \in Hosts \X Hosts PROVE Routed(k, wire'[k])
    <3>1. CASE k = l
      BY <1>6, <2>1, <3>1
    <3>2. CASE k # l
      BY <1>1, <1>6, <3>2 DEF RequestsRouted, Routed
    <3> QED
      BY <3>1, <3>2
  <2> QED
    BY <2>2 DEF RequestsRouted, Routed
<1>9. Placed'
  BY <1>1, <1>2, <1>5, <1>7 DEF Placed
<1>10. ASSUME NEW y \in Names, NEW k \in Hosts, RegistersOn[y] = {k} PROVE Agreed(k, y)'
  <2>1. Agreed(k, y) /\ HomeOf[y] \in Hosts
    BY <1>1, <1>10 DEF Agreement
  <2>2. CASE y # x
    <3>1. QuietOn(<<k, HomeOf[y]>>, y)
      <4>1. CASE <<k, HomeOf[y]>> = l
        BY <1>0, <1>2, <1>4, <1>6, <2>2, <4>1, Zenon DEF QuietOn
      <4>2. CASE <<k, HomeOf[y]>> # l
        <5>1. wire'[<<k, HomeOf[y]>>] = wire[<<k, HomeOf[y]>>]
          BY <1>6, <2>1, <4>2, Zenon
        <5> QED
          BY <5>1, Zenon DEF QuietOn
      <4> QED
        BY <4>1, <4>2
    <3> QED
      BY <1>1, <1>2, <1>7, <2>1, <2>2, <3>1, QuietKeeps, ZenonT(120)
  <2>3. CASE y = x
    <3>1. k = from /\ <<k, HomeOf[y]>> = l
      BY <1>5, <1>10, <2>3
    <3>2. directory[n][x] \in {from, Nobody} /\ (x \notin untold => LastWord(wire[l], x, Word(from, x)))
      BY <1>5, <2>1, <2>3, <3>1, Zenon DEF Agreed, Told
    <3>3. x \notin untold => /\ LastWord(Tail(wire[l]), x, Word(from, x))
                             /\ Silent(Tail(wire[l]), x) => m.kind = Word(from, x)
      <4>1. About(Head(wire[l]), x)
        BY <1>0, <1>4, Zenon
      <4> QED
        BY <1>0, <1>2, <3>2, <4>1, TailSays, Zenon
    <3>4. Word(from, x)' = Word(from, x) /\ ("unregister" = Word(from, x) => x \notin local'[from])
      BY <1>2 DEF Word
    <3>5. directory'[n][x] = Nobody
      BY <1>7, <3>2, ZenonT(60)
    <3> QED
      BY <1>2, <1>5, <1>6, <2>3, <3>1, <3>3, <3>4, <3>5, ZenonT(120) DEF Agreed, Told
  <2> QED
    BY <2>2, <2>3
<1> QED
  BY <1>8, <1>9, <1>10 DEF Agreement

\* Steps that take or send no request to register or unregister leave the agreement alone.
LEMMA QuietStep ==
    ASSUME NamesIInv, UNCHANGED <<local, directory, untold>>,
           \A l \in Hosts \X Hosts : Routed(l, wire'[l]) /\ \A x \in Names : QuietOn(l, x)
    PROVE  RequestsRouted' /\ Placed' /\ Agreement'
<1> USE NamesAssumption
<1>1. NamesTypes /\ Placed /\ Agreement
  BY DEF NamesIInv
<1>2. RequestsRouted'
  BY DEF RequestsRouted, Routed
<1>3. Placed'
  BY <1>1, Zenon DEF Placed
<1>4. ASSUME NEW x \in Names, NEW n \in Hosts, RegistersOn[x] = {n} PROVE Agreed(n, x)'
  <2>1. Agreed(n, x) /\ <<n, HomeOf[x]>> \in Hosts \X Hosts
    BY <1>1, <1>4, Zenon DEF Agreement
  <2>2. QuietOn(<<n, HomeOf[x]>>, x)
    BY <2>1, ZenonT(30)
  <2> QED
    BY <1>1, <2>1, <2>2, QuietKeeps
<1> QED
  BY <1>2, <1>3, <1>4, SMTT(60), Zenon DEF Agreement

\* A link that receives or is sent something other than a request keeps what is on its way.
LEMMA QuietLink ==
    ASSUME NamesIInv, NEW l \in Hosts \X Hosts,
           NEW m \in Messages, \A x \in Names : ~About(m, x),
           \/ wire'[l] = wire[l]
           \/ wire'[l] = Append(wire[l], m)
           \/ /\ wire[l] # << >> /\ \A x \in Names : ~About(Head(wire[l]), x)
              /\ wire'[l] = Tail(wire[l]) \/ wire'[l] = Append(Tail(wire[l]), m)
    PROVE  Routed(l, wire'[l]) /\ \A x \in Names : QuietOn(l, x)
<1>1. wire[l] \in Seq(Messages) /\ Routed(l, wire[l])
  BY Zenon DEF NamesIInv, NamesTypes, RequestsRouted, Routed
<1>2. OnItsWay(l, m)
  BY Zenon DEF OnItsWay
<1>3. wire[l] # << >> => Tail(wire[l]) \in Seq(Messages) /\ Routed(l, Tail(wire[l]))
  <2>1. wire[l] # << >> => Tail(wire[l]) \in Seq(Messages)
    BY <1>1
  <2>2. wire[l] # << >> => Routed(l, Tail(wire[l]))
    BY <1>1, RoutedQueue, Zenon
  <2> QED
    BY <2>1, <2>2, Zenon
<1>4. Routed(l, wire'[l])
  <2> DEFINE t == Tail(wire[l]) q == wire[l]
  <2> HIDE DEF t, q
  <2>1. /\ Routed(l, Append(q, m))
        /\ q # << >> => Routed(l, t) /\ Routed(l, Append(t, m))
    BY <1>1, <1>2, <1>3, RoutedQueue, ZenonT(30) DEF t, q
  <2> QED
    BY <1>1, <2>1, Zenon DEF t, q
<1>5. \A x \in Names : QuietOn(l, x)
  BY Zenon DEF QuietOn
<1> QED
  BY <1>4, <1>5, ZenonT(30)

\* Every step keeps requests routed, entries placed, and home and registrar agreeing.
LEMMA TablesKept ==
    ASSUME NamesIInv, [NamesNext]_namesVars
    PROVE  RequestsRouted' /\ Placed' /\ Agreement'
<1> USE NamesAssumption
<1> DEFINE Kept == RequestsRouted' /\ Placed' /\ Agreement'
           Calm(l) == Routed(l, wire'[l]) /\ \A x \in Names : QuietOn(l, x)
<1>1. NamesTypes
  BY Zenon DEF NamesIInv
<1>w. wire \in [Hosts \X Hosts -> Seq(Messages)]
  BY <1>1, Zenon DEF NamesTypes
<1>2. ASSUME NEW a \in Addresses \cup {Nobody}
      PROVE  /\ [kind |-> "response", address |-> a] \in Messages
             /\ \A x \in Names : ~About([kind |-> "response", address |-> a], x)
  BY DEF Messages, Responses, About
<1>3. CASE UNCHANGED <<local, directory, wire, untold>>
  <2>1. ASSUME NEW l \in Hosts \X Hosts PROVE Calm(l)
    BY <1>3, Zenon DEF NamesIInv, RequestsRouted, Routed, QuietOn
  <2> QED
    BY <1>3, <2>1, QuietStep, Zenon
<1>4. ASSUME NEW r \in Resolvers, NEW x \in Names, Resolve(r, x) PROVE Kept
  <2> DEFINE k == <<NodeOf[r], HomeOf[x]>> m == [kind |-> "query", name |-> x]
  <2>1. CASE UNCHANGED wire
    BY <1>3, <1>4, <2>1, Zenon DEF Resolve
  <2>2. CASE SendTo(NodeOf[r], HomeOf[x], m, TRUE)
    <3>1. m \in Messages /\ \A y \in Names : ~About(m, y)
      BY Zenon DEF Messages, Requests, About
    <3>2. wire' = [wire EXCEPT ![k] = Append(@, m)] /\ k \in Hosts \X Hosts
      BY <2>2, Zenon DEF SendTo
    <3> HIDE DEF m, k
    <3>3. ASSUME NEW l \in Hosts \X Hosts PROVE Calm(l)
      <4>1. wire'[l] = wire[l] \/ wire'[l] = Append(wire[l], m)
        BY <1>1, <3>2, Zenon DEF NamesTypes
      <4> QED
        BY <3>1, <4>1, QuietLink, Zenon
    <3> QED
      BY <1>4, <3>3, QuietStep, Zenon DEF Resolve
  <2> QED
    BY <1>4, <2>1, <2>2, Zenon DEF Resolve, SendTo
<1>5. ASSUME NEW from \in Hosts, NEW n \in Hosts, OnResolveResponse(from, n) PROVE Kept
  <2> DEFINE k == <<from, n>> m == [kind |-> "response", address |-> Nobody]
  <2>1. /\ k \in Hosts \X Hosts /\ wire[k] # << >> /\ wire' = [wire EXCEPT ![k] = Tail(@)]
        /\ \A x \in Names : ~About(Head(wire[k]), x)
    BY <1>5, ZenonT(30) DEF OnResolveResponse, Receive, About
  <2>2. m \in Messages /\ \A x \in Names : ~About(m, x)
    BY <1>2, Zenon
  <2> HIDE DEF k, m
  <2>3. ASSUME NEW l \in Hosts \X Hosts PROVE Calm(l)
    <3>1. CASE l = k
      <4>1. wire'[l] = Tail(wire[l])
        BY <1>1, <2>1, <3>1, ZenonT(30) DEF NamesTypes
      <4> QED
        BY <2>1, <2>2, <3>1, <4>1, QuietLink, ZenonT(30)
    <3>2. CASE l # k
      <4>1. wire'[l] = wire[l]
        BY <1>w, <2>1, <3>2, ZenonT(30)
      <4> QED
        BY <2>2, <4>1, QuietLink, Zenon
    <3> QED
      BY <3>1, <3>2, ZenonT(30)
  <2> QED
    BY <1>5, <2>3, QuietStep, Zenon DEF OnResolveResponse
<1>6. ASSUME NEW from \in Hosts, NEW n \in Hosts, OnResolveQuery(from, n) PROVE Kept
  <2> DEFINE k == <<from, n>> b == <<n, from>>
             found == directory[n][Head(wire[k]).name]
             to == IF found = Nobody THEN Nobody ELSE Address(Head(wire[k]).name, found)
             m == [kind |-> "response", address |-> to]
  <2>1. /\ k \in Hosts \X Hosts /\ b \in Hosts \X Hosts /\ wire[k] # << >>
        /\ Head(wire[k]).kind = "query" /\ \A x \in Names : ~About(Head(wire[k]), x)
    BY <1>6, Zenon DEF OnResolveQuery, Receive, About
  <2>2. \/ k = b /\ wire' = [wire EXCEPT ![k] = Append(Tail(@), m)]
        \/ k # b /\ wire' = [wire EXCEPT ![k] = Tail(@), ![b] = Append(@, m)]
        \/ wire' = [wire EXCEPT ![k] = Tail(@)]
    BY <1>6, Zenon DEF OnResolveQuery
  <2>3. Head(wire[k]).name \in Names
    <3>1. Head(wire[k]) \in Messages
      BY <1>1, <2>1 DEF NamesTypes
    <3> QED
      BY <2>1, <3>1, SMTT(60), Zenon DEF Messages, Requests, Responses
  <2>4. found \in Hosts \cup {Nobody}
    BY <1>1, <2>3 DEF NamesTypes
  <2>5. to \in Addresses \cup {Nobody}
    BY <2>3, <2>4, Zenon DEF Address, Addresses
  <2>6. m \in Messages /\ \A x \in Names : ~About(m, x)
    BY <1>2, <2>5, ZenonT(30)
  <2> HIDE DEF k, b, m
  <2>7. ASSUME NEW l \in Hosts \X Hosts PROVE Calm(l)
    <3>1. \/ wire'[l] = wire[l] \/ wire'[l] = Append(wire[l], m)
          \/ l = k /\ (wire'[l] = Tail(wire[l]) \/ wire'[l] = Append(Tail(wire[l]), m))
      <4>1. CASE k = b /\ wire' = [wire EXCEPT ![k] = Append(Tail(@), m)]
        BY <1>w, <2>1, <4>1, Zenon
      <4>2. CASE k # b /\ wire' = [wire EXCEPT ![k] = Tail(@), ![b] = Append(@, m)]
        BY <1>w, <2>1, <4>2, ZenonT(30)
      <4>3. CASE wire' = [wire EXCEPT ![k] = Tail(@)]
        BY <1>w, <2>1, <4>3, Zenon
      <4> QED
        BY <2>2, <4>1, <4>2, <4>3, Zenon
    <3> QED
      BY <2>1, <2>6, <3>1, QuietLink, Zenon
  <2> QED
    BY <1>6, <2>7, QuietStep, ZenonT(30) DEF OnResolveQuery
<1>7. ASSUME NEW n \in Hosts, NEW x \in Names, CacheExpires(n, x) \/ SignalOne(n, x) PROVE Kept
  BY <1>3, <1>7, Zenon DEF CacheExpires, SignalOne
<1>8. ASSUME NEW n \in Hosts, LoopStep(n) PROVE Kept
  <2>1. CASE ResponseHandled(n)
    BY <1>3, <2>1, Zenon DEF ResponseHandled
  <2>2. CASE \E x \in Names : SignalOne(n, x)
    BY <1>7, <2>2, Zenon
  <2> QED
    BY <1>5, <1>6, <1>8, <2>1, <2>2, OnRegisterRequestKeeps, OnUnregisterRequestKeeps, ZenonT(30)
    DEF LoopStep
<1>9. ASSUME NEW r \in Resolvers, CallStep(r) PROVE Kept
  BY <1>3, <1>9, Zenon DEF CallStep, TimesOut, TimedOut, Signalled, CachePut
<1>10. CASE UNCHANGED namesVars
  BY <1>3, <1>10, Zenon DEF namesVars
<1>11. ASSUME NEW n \in Hosts, NEW x \in Names, UnregisterName(n, x) PROVE Kept
  <2>1. {x} \in SUBSET Names
    BY Zenon
  <2> QED
    BY <1>11, <2>1, SilentKeeps, Zenon
<1> QED
  BY <1>4, <1>7, <1>8, <1>9, <1>10, <1>11, RegisterKeeps, EraseKeeps, SilentKeeps, Zenon DEF NamesNext

-----------------------------------------------------------------------------
\* The inductive invariant of NameDirectory and NameResolver: tables typed, requests routed
\* to the home of their name, records of calls in progress, home and registrar agreeing.
THEOREM NamesInvariant == NamesSpec => []NamesIInv
<1>1. NamesIInv /\ [NamesNext]_namesVars => NamesIInv'
  <2> SUFFICES ASSUME NamesIInv, [NamesNext]_namesVars PROVE NamesIInv'
    BY Zenon
  <2>1. RecordsShaped'
    BY RecordsKept, Zenon
  <2>2. (RecordsAreOfLiveCalls <=> \A n \in Hosts, x \in Names : LiveRecord(n, x))'
    BY LiveRecords, PTL
  <2>3. (Signalling /\ CallsNamed /\ RecordsAreOfLiveCalls)'
    BY <2>1, <2>2, Zenon DEF RecordsShaped
  <2> QED
    BY <2>3, NamesTyped, TablesKept, Zenon DEF NamesIInv
<1> QED
  BY <1>1, NamesInitial, PTL DEF NamesSpec

\* resolve() leaves no record behind, and for a name that one node registers the home's
\* entry is what that node has, once no request about the name is on its way, and unless
\* its latest change never left for the home.
THEOREM NamesAreSafe == NamesSpec => []NamesInv
<1>1. NamesIInv => NamesInv
  <2> SUFFICES ASSUME NamesIInv PROVE NamesInv
    OBVIOUS
  <2> USE NamesAssumption
  <2>1. NamesTypeOK
    <3>1. ASSUME NEW r \in Resolvers PROVE call[r].result \in Addresses \cup {Nobody}
      BY ZenonT(30) DEF NamesIInv, NamesTypes, CallRecords
    <3> QED
      BY <3>1 DEF NamesIInv, NamesTypes, NamesTypeOK, Placed
  <2>2. ASSUME NEW x \in Names, NEW n \in Hosts, RegistersOn[x] = {n}, ~InTransit(x),
               x \notin untold
        PROVE  directory[HomeOf[x]][x] = IF x \in local[n] THEN n ELSE Nobody
    <3>1. Agreed(n, x) /\ <<n, HomeOf[x]>> \in Hosts \X Hosts
      BY <2>2, Zenon DEF NamesIInv, Agreement
    <3>2. wire[<<n, HomeOf[x]>>] \in Seq(Messages)
      BY <3>1, ZenonT(30) DEF NamesIInv, NamesTypes
    <3>3. DOMAIN wire[<<n, HomeOf[x]>>] = 1 .. Len(wire[<<n, HomeOf[x]>>])
      BY <3>2
    <3>4. Silent(wire[<<n, HomeOf[x]>>], x)
      BY <2>2, <3>1, <3>3, Zenon DEF InTransit, Silent, About
    <3> QED
      BY <2>2, <3>1, <3>4, Zenon DEF Agreed, Told
  <2> QED
    BY <2>1, <2>2, Zenon DEF NamesInv, HomeAgrees, NamesIInv
<1> QED
  BY <1>1, NamesInvariant, PTL
=============================================================================
