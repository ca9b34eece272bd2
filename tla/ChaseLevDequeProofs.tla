------------------------ MODULE ChaseLevDequeProofs -------------------------
(***************************************************************************)
(* The work-stealing deque, for any number of thieves, any set of items    *)
(* and any initial capacity: its safety, and that it implements WorkDeque. *)
(***************************************************************************)
EXTENDS ChaseLevDeque, TLAPS

Entries == Items \cup {None}

Circular == UNION {[size : {c}, buf : [0 .. c - 1 -> Entries]] : c \in Nat \ {0}}

Cap == ArrayCapacity(Array)

\* What the positions 0, 1, 2... hold in each array, and in the current one.
View == [g \in 1 .. Len(arrays) |-> [i \in Nat |-> Get(g, i)]]
Held == View[Array]

Pushing == opc \in {"grow", "put", "publish"}

DequeTypes ==
    /\ top \in Nat /\ bottom \in Int /\ bottom >= -1
    /\ arrays \in Seq(Circular) /\ arrays # <<>>
    /\ fresh \subseteq Items /\ taken \subseteq Items /\ twice = {}
    /\ opc \in {"idle", "grow", "put", "publish", "load", "cas", "restore"}
    /\ item \in Entries /\ ob \in Int /\ ot \in Nat
    /\ tpc \in [Thieves -> {"idle", "bottom", "array", "read", "cas"}]
    /\ tt \in [Thieves -> Nat] /\ ta \in [Thieves -> 1 .. Len(arrays)]
    /\ tv \in [Thieves -> Entries]

\* What the owner's locals say of top_ and bottom_ at each of its steps.
OwnerLocals ==
    /\ item = None <=> ~Pushing
    /\ Pushing \/ Popping => ob = bottom
    /\ opc = "grow" => ot <= top /\ ob - ot <= Cap
    /\ opc = "put" => ot <= top /\ ob - ot < Cap
    /\ opc = "publish" => ob - top < Cap /\ Held[ob] = item
    /\ opc = "cas" => ot = ob /\ top >= ob
    /\ opc = "restore" => top = ob + 1

\* The positions in use are at most a lap of the current array.
DequeWindow == top <= End /\ End - top <= Cap

\* A thief that has seen the current top_ below bottom_ will find its item there, in the
\* array it has loaded as in the current one.
ThiefLocals ==
    \A h \in Thieves :
        /\ tt[h] <= top
        /\ tt[h] = top /\ tpc[h] \in {"array", "read", "cas"} => top < End
        /\ tt[h] = top /\ tpc[h] = "read" => View[ta[h]][top] = Held[top]
        /\ tt[h] = top /\ tpc[h] = "cas" => tv[h] = Held[top]

\* Every item is in one place: not pushed yet, in the owner's hand, at one position of the
\* deque, or handed out.
OnePlace ==
    /\ fresh \cap taken = {}
    /\ item \notin fresh \cup taken
    /\ \A i \in top .. End - 1 : Held[i] \in Items \ (fresh \cup taken \cup {item})
    /\ \A i, j \in top .. End - 1 : Held[i] = Held[j] => i = j
    /\ \A x \in Items \ (fresh \cup taken \cup {item}) : \E i \in top .. End - 1 : Held[i] = x

DequeIInv == DequeTypes /\ OwnerLocals /\ DequeWindow /\ ThiefLocals /\ OnePlace

-----------------------------------------------------------------------------
(* The circular array. *)

\* `i & mask' is an index of an array of c elements.
LEMMA ModRange == ASSUME NEW c \in Nat \ {0}, NEW n \in Nat PROVE n % c \in 0 .. c - 1
  OBVIOUS

\* Two positions less than a lap apart use different elements.
LEMMA ModDistinct ==
    ASSUME NEW c \in Nat \ {0}, NEW m \in Nat, NEW n \in Nat, m < n, n < m + c
    PROVE  m % c # n % c
<1> SUFFICES ASSUME m % c = n % c PROVE FALSE
  BY Zenon
<1> DEFINE q == n \div c
           r == m \div c
<1>1. q \in Int /\ r \in Int /\ n % c \in Int
  BY Z3
<1>2. n = (c * q) + (n % c) /\ m = (c * r) + (m % c)
  BY Z3
<1> HIDE DEF q, r
<1>3. n - m = (c * q) - (c * r)
  BY <1>1, <1>2
<1>4. n - m = c * (q - r)
  BY <1>1, <1>3
<1>5. CASE q - r >= 1
  <2>1. c * (q - r) >= c
    BY <1>1, <1>5
  <2> QED
    BY <1>4, <2>1
<1>6. CASE q - r <= 0
  <2>1. c * (q - r) <= 0
    BY <1>1, <1>6
  <2> QED
    BY <1>4, <2>1
<1> QED
  BY <1>1, <1>5, <1>6

\* A circular array has as many elements as its size says.
LEMMA CircularSize ==
    ASSUME NEW a \in Circular
    PROVE  a.size \in Nat \ {0} /\ a.buf \in [0 .. a.size - 1 -> Entries]
  BY DEF Circular

\* An array of c elements is circular.
LEMMA CircularMade ==
    ASSUME NEW c \in Nat \ {0}, NEW f \in [0 .. c - 1 -> Entries]
    PROVE  [size |-> c, buf |-> f] \in Circular
<1>1. [size |-> c, buf |-> f] \in [size : {c}, buf : [0 .. c - 1 -> Entries]]
  OBVIOUS
<1>2. [size : {c}, buf : [0 .. c - 1 -> Entries]]
        \in {[size : {d}, buf : [0 .. d - 1 -> Entries]] : d \in Nat \ {0}}
  BY Zenon
<1> QED
  BY <1>1, <1>2, Zenon DEF Circular

\* A sequence with one element replaced.
LEMMA SeqExcept ==
    ASSUME NEW S, NEW s \in Seq(S), NEW i \in 1 .. Len(s), NEW e \in S
    PROVE  [s EXCEPT ![i] = e] \in Seq(S) /\ Len([s EXCEPT ![i] = e]) = Len(s)
<1> DEFINE t == [s EXCEPT ![i] = e]
<1>1. t \in Seq(S)
  OBVIOUS
<1>2. DOMAIN t = 1 .. Len(s)
  OBVIOUS
<1> HIDE DEF t
<1>3. DOMAIN t = 1 .. Len(t) /\ Len(t) \in Nat /\ Len(s) \in Nat
  BY <1>1
<1>4. Len(t) = Len(s)
  BY <1>2, <1>3
<1> QED
  BY <1>1, <1>4 DEF t

\* Two sequences of one length that agree everywhere.
LEMMA SeqSame ==
    ASSUME NEW S, NEW s \in Seq(S), NEW t \in Seq(S), Len(s) = Len(t),
           \A i \in 1 .. Len(s) : s[i] = t[i]
    PROVE  s = t
  OBVIOUS

\* Every array of the deque, its positions and what they hold.
LEMMA ArrayTyped ==
    ASSUME arrays \in Seq(Circular), NEW g \in 1 .. Len(arrays)
    PROVE  /\ ArrayCapacity(g) \in Nat \ {0} /\ arrays[g].buf \in [0 .. ArrayCapacity(g) - 1 -> Entries]
           /\ View[g] \in [Nat -> Entries]
           /\ \A i \in Nat : View[g][i] = arrays[g].buf[i % ArrayCapacity(g)]
<1>1. arrays[g] \in Circular
  OBVIOUS
<1>2. ArrayCapacity(g) \in Nat \ {0} /\ arrays[g].buf \in [0 .. ArrayCapacity(g) - 1 -> Entries]
  BY <1>1, CircularSize, Zenon DEF ArrayCapacity
<1>3. View[g] = [i \in Nat |-> arrays[g].buf[i % ArrayCapacity(g)]]
  BY DEF View, Get
<1>4. \A i \in Nat : arrays[g].buf[i % ArrayCapacity(g)] \in Entries
  BY <1>2, ModRange, Zenon
<1> QED
  BY <1>2, <1>3, <1>4, Zenon

\* The current array is one of them.
LEMMA CurrentTyped ==
    ASSUME arrays \in Seq(Circular), arrays # <<>>
    PROVE  /\ Array \in 1 .. Len(arrays) /\ Array \in Nat /\ Cap \in Nat \ {0} /\ Held \in [Nat -> Entries]
           /\ arrays[Array].buf \in [0 .. Cap - 1 -> Entries]
           /\ \A i \in Nat : Held[i] = arrays[Array].buf[i % Cap]
<1>1. Array \in 1 .. Len(arrays) /\ Array \in Nat
  BY DEF Array
<1> QED
  BY <1>1, ArrayTyped, SMTT(60), Zenon DEF Cap, Held

\* push_bottom's put changes one position of the current array and those a lap away from it.
LEMMA PutHolds ==
    ASSUME arrays \in Seq(Circular), arrays # <<>>, NEW b \in Nat, NEW x \in Entries,
           arrays' = [arrays EXCEPT ![Array] = Stored(Array, b, x)]
    PROVE  /\ arrays' \in Seq(Circular) /\ arrays' # <<>> /\ Array' = Array /\ Cap' = Cap
           /\ Held'[b] = x /\ \A i \in Nat : i % Cap # b % Cap => Held'[i] = Held[i]
           /\ \A g \in 1 .. Len(arrays) : g # Array => View'[g] = View[g]
<1> DEFINE f == [arrays[Array].buf EXCEPT ![b % Cap] = x]
           a == Stored(Array, b, x)
<1>1. /\ Array \in 1 .. Len(arrays) /\ Cap \in Nat \ {0}
      /\ arrays[Array].buf \in [0 .. Cap - 1 -> Entries]
      /\ \A i \in Nat : Held[i] = arrays[Array].buf[i % Cap]
  BY CurrentTyped, Zenon
<1>2. b % Cap \in 0 .. Cap - 1
  BY <1>1, ModRange, Zenon
<1>3. f \in [0 .. Cap - 1 -> Entries]
  BY <1>1, <1>2, Zenon
<1>4. a = [size |-> Cap, buf |-> f]
  BY DEF Stored, Cap
<1>5. a \in Circular
  BY <1>1, <1>3, <1>4, CircularMade, Zenon
<1> HIDE DEF a, f
<1>6. arrays' \in Seq(Circular) /\ Len(arrays') = Len(arrays)
  BY <1>1, <1>5, SeqExcept DEF a
<1>7. arrays'[Array] = a /\ \A g \in 1 .. Len(arrays) : g # Array => arrays'[g] = arrays[g]
  BY <1>1 DEF a
<1>8. Array' = Array /\ arrays' # <<>>
  BY <1>1, <1>6 DEF Array
<1>9. Cap' = Cap
  BY <1>4, <1>7, <1>8 DEF Cap, ArrayCapacity
<1>10. \A i \in Nat : Held'[i] = f[i % Cap]
  <2>1. \A i \in Nat : Held'[i] = arrays'[Array'].buf[i % Cap']
    BY <1>1, <1>6, <1>8, Zenon DEF Held, View, Get, Cap, Array
  <2> QED
    BY <1>4, <1>7, <1>8, <1>9, <2>1
<1>11. f[b % Cap] = x /\ \A j \in 0 .. Cap - 1 : j # b % Cap => f[j] = arrays[Array].buf[j]
  BY <1>1, <1>2, Zenon DEF f
<1>12. \A i \in Nat : i % Cap # b % Cap => Held'[i] = Held[i]
  BY <1>1, <1>10, <1>11, ModRange, ZenonT(60)
<1>13. ASSUME NEW g \in 1 .. Len(arrays), g # Array PROVE View'[g] = View[g]
  BY <1>6, <1>7, <1>13 DEF View, Get, ArrayCapacity
<1> QED
  BY <1>6, <1>8, <1>9, <1>10, <1>11, <1>12, <1>13, Zenon

\* grow leaves the old arrays and the positions from t to b - 1 as they are, in an array of
\* twice the size.
LEMMA GrowHolds ==
    ASSUME arrays \in Seq(Circular), arrays # <<>>, NEW b \in Nat, NEW t \in Nat, b - t <= Cap,
           arrays' = Append(arrays, Grown(b, t))
    PROVE  /\ arrays' \in Seq(Circular) /\ arrays' # <<>> /\ Array' = Array + 1 /\ Cap' = 2 * Cap
           /\ \A i \in t .. b - 1 : Held'[i] = Held[i]
           /\ \A g \in 1 .. Len(arrays) : View'[g] = View[g]
<1> DEFINE c == 2 * Cap
           a == Grown(b, t)
           Here(j) == {i \in t .. b - 1 : i % c = j}
           f == [j \in 0 .. c - 1 |-> IF Here(j) = {} THEN None ELSE Held[CHOOSE i \in Here(j) : TRUE]]
<1>1. /\ Array \in 1 .. Len(arrays) /\ Cap \in Nat \ {0}
      /\ Held \in [Nat -> Entries]
  BY CurrentTyped, Zenon
<1>2. c \in Nat \ {0}
  BY <1>1
<1>3. a = [size |-> c, buf |-> f]
  <2>1. \A i \in Nat : Get(Array, i) = Held[i]
    BY <1>1, Zenon DEF Held, View
  <2>2. ASSUME NEW j \in 0 .. c - 1, Here(j) # {} PROVE (CHOOSE i \in Here(j) : TRUE) \in Nat
    BY <2>2, SMTT(60), Zenon
  <2> QED
    BY <2>1, <2>2, Zenon DEF Grown, Cap
<1>4. f \in [0 .. c - 1 -> Entries]
  <2>1. ASSUME NEW j \in 0 .. c - 1, Here(j) # {} PROVE (CHOOSE i \in Here(j) : TRUE) \in Nat
    BY <2>1, SMTT(60), Zenon
  <2> QED
    BY <1>1, <2>1, Zenon DEF Entries
<1>5. ASSUME NEW i \in t .. b - 1 PROVE f[i % c] = Held[i]
  <2>1. i \in Nat /\ i % c \in 0 .. c - 1
    <3>1. i \in Nat
      OBVIOUS
    <3> QED
      BY <1>2, <3>1, ModRange, Zenon
  <2>2. ASSUME NEW k \in Here(i % c) PROVE k = i
    <3>1. k \in Nat /\ k % c = i % c /\ k < i + c /\ i < k + c
      BY <1>1
    <3> QED
      <4>1. ~(k < i)
        BY <1>2, <2>1, <3>1, ModDistinct, Zenon
      <4>2. ~(i < k)
        BY <1>2, <2>1, <3>1, ModDistinct, Zenon
      <4> QED
        BY <2>1, <3>1, <4>1, <4>2
  <2>3. Here(i % c) = {i}
    BY <2>2, Zenon
  <2> QED
    BY <2>1, <2>3, Zenon
<1> HIDE DEF a, c, f
<1>6. a \in Circular
  BY <1>2, <1>3, <1>4, CircularMade, Zenon
<1>7. /\ arrays' \in Seq(Circular) /\ Len(arrays') = Len(arrays) + 1 /\ arrays'[Len(arrays) + 1] = a
      /\ \A g \in 1 .. Len(arrays) : arrays'[g] = arrays[g]
  BY <1>6 DEF a
<1>8. Array' = Array + 1 /\ arrays' # <<>>
  BY <1>7 DEF Array
<1>9. Cap' = c
  BY <1>3, <1>7, <1>8 DEF Cap, ArrayCapacity, Array
<1>10. ASSUME NEW i \in t .. b - 1 PROVE Held'[i] = Held[i]
  <2>1. Held'[i] = arrays'[Array'].buf[i % Cap']
    <3>1. i \in Nat /\ Array' \in 1 .. Len(arrays')
      BY <1>7, <1>8 DEF Array
    <3> QED
      BY <3>1, Zenon DEF Held, View, Get, Cap
  <2> QED
    <3>1. arrays'[Array'] = a
      BY <1>7, <1>8, Zenon DEF Array
    <3>2. a.buf = f
      BY <1>3, ZenonT(60)
    <3> QED
      BY <1>5, <1>9, <2>1, <3>1, <3>2, Zenon
<1>11. ASSUME NEW g \in 1 .. Len(arrays) PROVE View'[g] = View[g]
  <2>1. arrays'[g] = arrays[g]
    BY <1>7, Zenon
  <2>2. g \in 1 .. Len(arrays')
    BY <1>7
  <2> QED
    BY <2>1, <2>2, Zenon DEF View, Get, ArrayCapacity
<1> QED
  BY <1>7, <1>8, <1>9, <1>10, <1>11, Zenon DEF c
-----------------------------------------------------------------------------
(* The invariant. *)

\* An array that is not written holds what it held.
LEMMA ArraysKept ==
    ASSUME arrays' = arrays
    PROVE  View' = View /\ Held' = Held /\ Cap' = Cap /\ Array' = Array
  BY Zenon DEF View, Held, Cap, Array, Get, ArrayCapacity

\* The types that the steps below use.
LEMMA DequeTyped ==
    ASSUME DequeIInv
    PROVE  /\ top \in Nat /\ bottom \in Int /\ End \in Int /\ ob \in Int /\ ot \in Nat
           /\ Cap \in Nat \ {0} /\ Array \in 1 .. Len(arrays) /\ Held \in [Nat -> Entries]
           /\ arrays \in Seq(Circular) /\ arrays # <<>> /\ None \notin Items
           /\ top <= End /\ End - top <= Cap
           /\ \A i \in Nat : Get(Array, i) = Held[i]
<1>1. arrays \in Seq(Circular) /\ arrays # <<>> /\ top \in Nat /\ bottom \in Int /\ ob \in Int /\ ot \in Nat
  BY Zenon DEF DequeIInv, DequeTypes
<1>2. Array \in 1 .. Len(arrays) /\ Cap \in Nat \ {0} /\ Held \in [Nat -> Entries]
  BY <1>1, CurrentTyped, Zenon
<1>3. \A i \in Nat : Get(Array, i) = Held[i]
  BY <1>2, Zenon DEF Held, View
<1> QED
  BY <1>1, <1>2, <1>3, DequeAssumption DEF DequeIInv, DequeWindow, End

\* The numbers among them.
LEMMA DequeNumbers ==
    ASSUME DequeIInv
    PROVE  /\ top \in Nat /\ bottom \in Int /\ End \in Int /\ ob \in Int /\ ot \in Nat
           /\ Cap \in Nat \ {0} /\ top <= End /\ End - top <= Cap
  BY DequeTyped, Zenon

\* The constructor's empty deque satisfies the invariant.
LEMMA DequeInitial == DequeInit => DequeIInv
<1> SUFFICES ASSUME DequeInit PROVE DequeIInv
  BY Zenon
<1> USE DequeAssumption DEF DequeInit
<1>1. arrays \in Seq(Circular) /\ arrays # <<>> /\ Len(arrays) = 1
  <2>1. [size |-> InitialCapacity, buf |-> [j \in 0 .. InitialCapacity - 1 |-> None]] \in Circular
    <3> DEFINE f == [j \in 0 .. InitialCapacity - 1 |-> None]
    <3>1. f \in [0 .. InitialCapacity - 1 -> Entries] /\ InitialCapacity \in Nat \ {0}
      BY Zenon DEF Entries
    <3> HIDE DEF f
    <3>2. [size |-> InitialCapacity, buf |-> f] \in Circular
      BY <3>1, CircularMade, Zenon
    <3> QED
      BY <3>2, Zenon DEF f
  <2> QED
    BY <2>1
<1>2. DequeTypes
  BY <1>1 DEF DequeTypes, Entries
<1>3. Cap \in Nat \ {0}
  BY <1>1, CurrentTyped, Zenon
<1>4. End = 0 /\ ~Pushing /\ ~Popping
  BY Zenon DEF End, Pushing, Popping
<1>5. OwnerLocals /\ DequeWindow
  BY <1>3, <1>4 DEF OwnerLocals, DequeWindow, Pushing
<1>6. ThiefLocals
  <2>1. top = 0 /\ tt = [h \in Thieves |-> 0] /\ tpc = [h \in Thieves |-> "idle"]
    BY Zenon
  <2> HIDE DEF DequeInit
  <2>2. ASSUME NEW h \in Thieves
        PROVE  /\ tt[h] <= top
               /\ tt[h] = top /\ tpc[h] \in {"array", "read", "cas"} => top < End
               /\ tt[h] = top /\ tpc[h] = "read" => View[ta[h]][top] = Held[top]
               /\ tt[h] = top /\ tpc[h] = "cas" => tv[h] = Held[top]
    <3>1. tt[h] = 0 /\ tpc[h] = "idle"
      BY <2>1, Zenon
    <3>2. tt[h] <= top
      BY <2>1, <3>1
    <3> QED
      BY <3>1, <3>2, Zenon
  <2> QED
    BY <2>2, Zenon DEF ThiefLocals
<1>7. OnePlace
  BY <1>4 DEF OnePlace
<1> QED
  BY <1>2, <1>5, <1>6, <1>7, Zenon DEF DequeIInv

\* Nothing moves: every item stays where it is.
LEMMA OnePlaceKept ==
    ASSUME OnePlace, UNCHANGED <<top, fresh, taken, item>>, End' = End,
           \A i \in top .. End - 1 : Held'[i] = Held[i]
    PROVE  OnePlace'
  BY DEF OnePlace

\* The item at top_ is handed out.
LEMMA OnePlaceTop ==
    ASSUME DequeIInv, top < End, top' = top + 1, End' = End, Held' = Held,
           UNCHANGED <<fresh, item>>, taken' = taken \cup {Held[top]}
    PROVE  OnePlace'
<1>1. top \in Nat /\ End \in Int
  BY DequeNumbers, Zenon
<1>2. top \in top .. End - 1 /\ \A i : i \in top' .. End' - 1 <=> i \in top .. End - 1 /\ i # top
  BY <1>1
<1> QED
  BY <1>2 DEF DequeIInv, OnePlace

\* The item before End is handed out.
LEMMA OnePlaceBottom ==
    ASSUME DequeIInv, top < End, top' = top, End' = End - 1, Held' = Held,
           UNCHANGED <<fresh, item>>, taken' = taken \cup {Held[End - 1]}
    PROVE  OnePlace'
<1>1. top \in Nat /\ End \in Int
  BY DequeNumbers, Zenon
<1>2. End - 1 \in top .. End - 1
      /\ \A i : i \in top' .. End' - 1 <=> i \in top .. End - 1 /\ i # End - 1
  BY <1>1
<1> QED
  BY <1>2 DEF DequeIInv, OnePlace

\* Handing out an item of the deque is handing it out for the first time.
LEMMA FirstTime ==
    ASSUME DequeIInv, NEW i \in top .. End - 1, HandOut(Held[i])
    PROVE  /\ taken' = taken \cup {Held[i]} /\ taken' \subseteq Items /\ twice' = {} /\ fresh' = fresh
  BY ZenonT(120) DEF DequeIInv, DequeTypes, OnePlace, HandOut

\* The step of a thief whose compare-exchange fails, or of the owner without effect on the
\* items, keeps what every thief knows.
LEMMA ThievesKept ==
    ASSUME DequeIInv, UNCHANGED <<top, thief>>, top < End => top < End', View' = View, Held' = Held
    PROVE  ThiefLocals'
  BY Zenon DEF DequeIInv, ThiefLocals, thief

\* push_bottom, its loads of bottom_ and top_.
LEMMA PushLoadKeeps == ASSUME DequeIInv, NEW x \in fresh, PushLoad(x) PROVE DequeIInv'
<1>0. /\ opc = "idle" /\ fresh' = fresh \ {x} /\ item' = x /\ ob' = bottom /\ ot' = top
      /\ opc' = IF bottom - top > Cap - 1 THEN "grow" ELSE "put"
      /\ UNCHANGED <<top, bottom, arrays, taken, twice, thief>>
  BY Zenon DEF PushLoad, Cap
<1>1. View' = View /\ Held' = Held /\ Cap' = Cap
  BY <1>0, ArraysKept
<1>2. /\ End = bottom /\ End' = bottom /\ item = None /\ x \in Items /\ x # None
      /\ opc' \in {"grow", "put"} /\ Pushing'
  BY <1>0, DequeTyped, Zenon DEF End, Popping, Pushing, DequeIInv, OwnerLocals, DequeTypes
<1>3. DequeTypes'
  BY <1>0, <1>2, DequeNumbers, Zenon DEF DequeIInv, DequeTypes, Entries, thief
<1>4. OwnerLocals' /\ DequeWindow'
  BY <1>0, <1>1, <1>2, DequeNumbers DEF OwnerLocals, DequeWindow
<1>5. ThiefLocals'
  BY <1>0, <1>1, <1>2, ThievesKept, Zenon
<1>6. OnePlace'
  <2>1. OnePlace /\ None \notin Items
    BY DequeTyped, Zenon DEF DequeIInv
  <2> QED
    BY <1>0, <1>1, <1>2, <2>1 DEF OnePlace
<1> QED
  BY <1>3, <1>4, <1>5, <1>6, Zenon DEF DequeIInv

\* push_bottom, grow.
LEMMA GrowKeeps == ASSUME DequeIInv, Grow PROVE DequeIInv'
<1>0. /\ opc = "grow" /\ arrays' = Append(arrays, Grown(ob, ot)) /\ opc' = "put"
      /\ UNCHANGED <<top, bottom, fresh, taken, twice, item, ob, ot, tpc, tt, ta, tv>>
  BY Zenon DEF Grow, dequeHistory, thief
<1>1. ob = bottom /\ ot <= top /\ ob - ot <= Cap /\ End = ob /\ End' = ob /\ ob \in Nat /\ Pushing /\ Pushing'
  BY <1>0, DequeNumbers DEF End, Popping, Pushing, DequeIInv, OwnerLocals
<1>2. /\ arrays' \in Seq(Circular) /\ arrays' # <<>> /\ Array' = Array + 1 /\ Cap' = 2 * Cap
      /\ \A i \in ot .. ob - 1 : Held'[i] = Held[i]
      /\ \A g \in 1 .. Len(arrays) : View'[g] = View[g]
  BY <1>0, <1>1, DequeTyped, GrowHolds, Zenon
<1>3. \A i \in top .. End - 1 : Held'[i] = Held[i]
  <2>1. top \in Nat /\ ot \in Nat
    BY DequeNumbers, Zenon
  <2>2. ASSUME NEW i \in top .. End - 1 PROVE i \in ot .. ob - 1
    BY <1>1, <2>1
  <2> QED
    BY <1>2, <2>2, Zenon
<1>4. DequeTypes'
  <2>1. 1 .. Len(arrays) \subseteq 1 .. Len(arrays')
    <3>1. arrays \in Seq(Circular)
      BY DequeTyped, Zenon
    <3>2. Len(arrays') = Len(arrays) + 1
      BY <1>2, Zenon DEF Array
    <3>3. Len(arrays) \in Nat
      BY <3>1
    <3> QED
      BY <3>2, <3>3
  <2> QED
    BY <1>0, <1>2, <2>1, Zenon DEF DequeIInv, DequeTypes
<1>5. OwnerLocals'
  <2>1. ob - ot < 2 * Cap
    <3>1. ot \in Nat /\ Cap \in Nat \ {0}
      BY DequeNumbers, Zenon
    <3> QED
      BY <1>1, <3>1
  <2>2. /\ opc' = "put" /\ Pushing' /\ Pushing /\ Cap' = 2 * Cap
        /\ item' = item /\ ob' = ob /\ ot' = ot /\ top' = top /\ bottom' = bottom
    BY <1>0, <1>1, <1>2, Zenon
  <2>3. item # None
    BY <1>1, Zenon DEF DequeIInv, OwnerLocals
  <2> QED
    BY <1>1, <2>1, <2>2, <2>3, Zenon DEF OwnerLocals
<1>6. DequeWindow'
  <2>1. top' = top /\ End' = End /\ Cap' = 2 * Cap
    BY <1>0, <1>1, <1>2, Zenon
  <2>2. /\ top \in Nat /\ End \in Int /\ Cap \in Nat
        /\ top <= End /\ End - top <= Cap
    BY DequeNumbers, Zenon
  <2> QED
    BY <2>1, <2>2 DEF DequeWindow
<1>7. ThiefLocals'
  <2>1. top < End => Held'[top] = Held[top]
    BY <1>3, DequeNumbers
  <2>2. \A h \in Thieves : View'[ta[h]] = View[ta[h]]
    BY <1>2, Zenon DEF DequeIInv, DequeTypes
  <2> QED
    BY <1>0, <1>1, <2>1, <2>2, Zenon DEF DequeIInv, ThiefLocals
<1>8. OnePlace'
  BY <1>0, <1>1, <1>3, OnePlaceKept, Zenon DEF DequeIInv
<1> QED
  BY <1>4, <1>5, <1>6, <1>7, <1>8, Zenon DEF DequeIInv

\* push_bottom, the store into the array.
LEMMA PutKeeps == ASSUME DequeIInv, Put PROVE DequeIInv'
<1>0. /\ opc = "put" /\ arrays' = [arrays EXCEPT ![Array] = Stored(Array, ob, item)] /\ opc' = "publish"
      /\ UNCHANGED <<top, bottom, fresh, taken, twice, item, ob, ot, tpc, tt, ta, tv>>
  BY Zenon DEF Put, Cap, dequeHistory, thief
<1>1. ob = bottom /\ ob - top < Cap /\ End = ob /\ End' = ob /\ ob \in Nat /\ Pushing /\ Pushing'
  BY <1>0, DequeNumbers DEF End, Popping, Pushing, DequeIInv, OwnerLocals
<1>2. /\ arrays' \in Seq(Circular) /\ arrays' # <<>> /\ Array' = Array /\ Cap' = Cap
      /\ Held'[ob] = item /\ \A i \in Nat : i % Cap # ob % Cap => Held'[i] = Held[i]
      /\ \A g \in 1 .. Len(arrays) : g # Array => View'[g] = View[g]
  <2>1. item \in Entries
    BY Zenon DEF DequeIInv, DequeTypes
  <2> QED
    BY <1>0, <1>1, <2>1, DequeTyped, PutHolds, Zenon
<1>3. ASSUME NEW i \in top .. End - 1 PROVE Held'[i] = Held[i]
  <2>1. i \in Nat /\ i < ob /\ ob < i + Cap
    BY <1>1, DequeNumbers
  <2>2. i % Cap # ob % Cap
    BY <1>1, <2>1, DequeNumbers, ModDistinct, Zenon
  <2> QED
    BY <1>2, <2>1, <2>2, Zenon
<1>4. DequeTypes'
  BY <1>0, <1>2, Zenon DEF DequeIInv, DequeTypes, Array
<1>5. OwnerLocals'
  BY <1>0, <1>1, <1>2, Zenon DEF DequeIInv, OwnerLocals
<1>6. DequeWindow'
  BY <1>0, <1>1, <1>2, DequeNumbers, Zenon DEF DequeWindow
<1>7. ThiefLocals'
  <2>1. top < End => Held'[top] = Held[top]
    BY <1>3, DequeNumbers
  <2>2. \A h \in Thieves : ta[h] \in 1 .. Len(arrays)
    BY Zenon DEF DequeIInv, DequeTypes
  <2>3. ASSUME NEW h \in Thieves, tt[h] = top, top < End, View[ta[h]][top] = Held[top]
        PROVE  View'[ta[h]][top] = Held'[top]
    BY <1>2, <2>1, <2>2, <2>3, Zenon DEF Held
  <2> QED
    BY <1>0, <1>1, <2>1, <2>3, Zenon DEF DequeIInv, ThiefLocals
<1>8. OnePlace'
  BY <1>0, <1>1, <1>3, OnePlaceKept, Zenon DEF DequeIInv
<1> QED
  BY <1>4, <1>5, <1>6, <1>7, <1>8 DEF DequeIInv

\* push_bottom, the store of bottom_.
LEMMA PublishKeeps == ASSUME DequeIInv, PublishBottom PROVE DequeIInv'
<1>0. /\ opc = "publish" /\ bottom' = ob + 1 /\ opc' = "idle" /\ item' = None
      /\ UNCHANGED <<top, arrays, fresh, taken, twice, ob, ot, thief>>
  BY DEF PublishBottom, dequeHistory
<1>1. View' = View /\ Held' = Held /\ Cap' = Cap
  BY <1>0, ArraysKept, SMTT(60), Zenon
<1>2. /\ ob = bottom /\ ob - top < Cap /\ Held[ob] = item /\ item \in Items
      /\ End = ob /\ End' = ob + 1 /\ ob \in Nat /\ ~Pushing' /\ ~Popping'
  <2>1. /\ ob = bottom /\ ob - top < Cap /\ Held[ob] = item /\ item \in Items
        /\ End = bottom /\ End' = bottom' /\ ~Pushing' /\ ~Popping'
    BY <1>0, Zenon DEF DequeIInv, OwnerLocals, DequeTypes, Entries, Pushing, Popping, End
  <2>2. bottom \in Nat
    BY <2>1, DequeNumbers
  <2> QED
    BY <1>0, <2>1, <2>2, Zenon
<1>3. DequeTypes'
  <2>1. ob + 1 \in Int /\ ob + 1 >= -1
    BY <1>2
  <2> QED
    BY <1>0, <1>2, <2>1, Zenon DEF DequeIInv, DequeTypes, Entries, thief
<1>4. OwnerLocals' /\ DequeWindow'
  BY <1>0, <1>1, <1>2, DequeNumbers DEF OwnerLocals, DequeWindow
<1>5. ThiefLocals'
  BY <1>0, <1>1, <1>2, DequeNumbers, ThievesKept
<1>6. OnePlace'
  <2>1. ob \in top' .. End' - 1 /\ \A i : i \in top' .. End' - 1 <=> i \in top .. End - 1 \/ i = ob
    BY <1>0, <1>2, DequeNumbers
  <2>2. OnePlace /\ None \notin Items /\ fresh \subseteq Items /\ taken \subseteq Items
    BY DequeTyped, Zenon DEF DequeIInv, DequeTypes
  <2>3. item' \notin fresh' \cup taken'
    BY <1>0, <2>2, Zenon
  <2>4. \A i \in top' .. End' - 1 : Held'[i] \in Items \ (fresh' \cup taken' \cup {item'})
    BY <1>0, <1>1, <1>2, <2>1, <2>2, SMTT(60), Zenon DEF OnePlace
  <2>5. \A i, j \in top' .. End' - 1 : Held'[i] = Held'[j] => i = j
    BY <1>0, <1>1, <1>2, <2>1, <2>2 DEF OnePlace
  <2>6. \A x \in Items \ (fresh' \cup taken' \cup {item'}) : \E i \in top' .. End' - 1 : Held'[i] = x
    BY <1>0, <1>1, <1>2, <2>1, <2>2, ZenonT(60) DEF OnePlace
  <2> QED
    BY <1>0, <2>2, <2>3, <2>4, <2>5, <2>6, ZenonT(60) DEF OnePlace
<1> QED
  BY <1>3, <1>4, <1>5, <1>6, Zenon DEF DequeIInv

\* pop_bottom, the decrement of bottom_.
LEMMA PopDecrementKeeps == ASSUME DequeIInv, PopDecrement PROVE DequeIInv'
<1>0. /\ opc = "idle" /\ bottom' = bottom - 1 /\ ob' = bottom - 1 /\ opc' = "load"
      /\ UNCHANGED <<top, arrays, fresh, taken, twice, item, ot, thief>>
  BY DEF PopDecrement, dequeHistory
<1>1. View' = View /\ Held' = Held /\ Cap' = Cap
  BY <1>0, ArraysKept
<1>2. End = bottom /\ End' = bottom /\ bottom >= 0 /\ item = None /\ ~Pushing'
  BY <1>0, DequeNumbers DEF End, Popping, Pushing, DequeIInv, OwnerLocals
<1>3. DequeTypes'
  <2>1. bottom - 1 \in Int /\ bottom - 1 >= -1
    BY <1>2, DequeNumbers
  <2> QED
    BY <1>0, <2>1, Zenon DEF DequeIInv, DequeTypes, thief
<1>4. OwnerLocals' /\ DequeWindow'
  BY <1>0, <1>1, <1>2, DequeNumbers, Zenon DEF OwnerLocals, DequeWindow
<1>5. ThiefLocals'
  BY <1>0, <1>1, <1>2, ThievesKept, Zenon
<1>6. OnePlace'
  BY <1>0, <1>1, <1>2, OnePlaceKept, Zenon DEF DequeIInv
<1> QED
  BY <1>3, <1>4, <1>5, <1>6 DEF DequeIInv

\* pop_bottom, the load of top_, and the return of an item that no thief can reach.
LEMMA PopLoadTopKeeps == ASSUME DequeIInv, PopLoadTop PROVE DequeIInv'
<1>0. opc = "load" /\ ot' = top /\ UNCHANGED <<top, bottom, arrays, item, ob, thief>>
  BY Zenon DEF PopLoadTop
<1>1. View' = View /\ Held' = Held /\ Cap' = Cap
  BY <1>0, ArraysKept
<1>2. ob = bottom /\ End = ob + 1 /\ item = None /\ top <= ob + 1
  BY <1>0, DequeNumbers, Zenon DEF End, Popping, Pushing, DequeIInv, OwnerLocals
<1>3. CASE ob <= top
  <2>1. /\ opc' = (IF ob < top THEN "restore" ELSE "cas") /\ UNCHANGED <<fresh, taken, twice>>
    <3>1. CASE ob < top
      BY <1>0, <3>1, DequeNumbers, SMTT(60), Zenon DEF PopLoadTop, dequeHistory
    <3>2. CASE ob = top
      BY <1>0, <3>2, DequeNumbers DEF PopLoadTop, dequeHistory
    <3> QED
      BY <1>3, <3>1, <3>2, DequeNumbers, SMTT(60), Zenon
  <2>2. End' = End /\ ~Pushing' /\ Popping'
    BY <1>0, <1>2, <2>1, Zenon DEF End, Pushing, Popping
  <2>3. DequeTypes'
    BY <1>0, <2>1, DequeNumbers, Zenon DEF DequeIInv, DequeTypes, thief
  <2>4. OwnerLocals' /\ DequeWindow'
    BY <1>0, <1>1, <1>2, <1>3, <2>1, <2>2, DequeNumbers, SMTT(60), Zenon DEF OwnerLocals, DequeWindow
  <2>5. ThiefLocals'
    BY <1>0, <1>1, <2>2, ThievesKept
  <2>6. OnePlace'
    BY <1>0, <1>1, <2>1, <2>2, OnePlaceKept, Zenon DEF DequeIInv
  <2> QED
    BY <2>3, <2>4, <2>5, <2>6 DEF DequeIInv
<1>4. CASE ob > top
  <2>1. opc' = "idle" /\ HandOut(Held[ob]) /\ ob \in top .. End - 1
    <3>1. ob \in Nat /\ ob \in top .. End - 1
      BY <1>2, <1>4, DequeNumbers
    <3>2. Get(Array, ob) = Held[ob]
      BY <3>1, DequeTyped, Zenon
    <3>3. ~(ob < top) /\ ob # top
      BY <1>4, DequeNumbers
    <3> QED
      BY <1>0, <3>1, <3>2, <3>3, Zenon DEF PopLoadTop, HandOut
  <2>2. taken' = taken \cup {Held[ob]} /\ taken' \subseteq Items /\ twice' = {} /\ fresh' = fresh
    BY <2>1, FirstTime
  <2>3. End' = ob /\ ob = End - 1 /\ ~Pushing' /\ ~Popping'
    BY <1>0, <1>2, <2>1, DequeNumbers DEF End, Pushing, Popping
  <2>4. DequeTypes'
    BY <1>0, <2>1, <2>2, DequeNumbers, ZenonT(60) DEF DequeIInv, DequeTypes, thief
  <2>5. OwnerLocals' /\ DequeWindow'
    BY <1>0, <1>1, <1>2, <1>4, <2>1, <2>3, DequeNumbers, SMTT(60), Zenon DEF OwnerLocals, DequeWindow
  <2>6. ThiefLocals'
    BY <1>0, <1>1, <1>4, <2>3, ThievesKept, SMTT(60), Zenon
  <2>7. OnePlace'
    BY <1>0, <1>1, <1>4, <2>2, <2>3, DequeNumbers, OnePlaceBottom, SMTT(60), Zenon
  <2> QED
    BY <2>4, <2>5, <2>6, <2>7 DEF DequeIInv
<1> QED
  BY <1>3, <1>4, DequeNumbers

\* A successful compare-exchange on top_ moves it past the item handed out.
LEMMA TopTakenKeeps ==
    ASSUME DequeIInv, top < End, top' = top + 1, End' = End, HandOut(Held[top]),
           UNCHANGED <<arrays, item, tt>>,
           \A h \in Thieves : tpc'[h] \in {tpc[h], "idle"}
    PROVE  DequeWindow' /\ ThiefLocals' /\ OnePlace' /\ taken' \subseteq Items /\ twice' = {} /\ fresh' = fresh
<1>1. View' = View /\ Held' = Held /\ Cap' = Cap
  BY ArraysKept, Zenon
<1>2. top \in top .. End - 1
  BY DequeNumbers
<1>3. taken' = taken \cup {Held[top]} /\ taken' \subseteq Items /\ twice' = {} /\ fresh' = fresh
  BY <1>2, FirstTime, Zenon
<1>4. DequeWindow'
  BY <1>1, DequeNumbers, SMTT(60), Zenon DEF DequeWindow
<1>5. ThiefLocals'
  <2>1. \A h \in Thieves : tt'[h] \in Nat /\ tt'[h] < top'
    <3>1. \A h \in Thieves : tt[h] \in Nat /\ tt[h] <= top
      BY Zenon DEF DequeIInv, DequeTypes, ThiefLocals
    <3> QED
      BY <3>1, DequeNumbers
  <2> QED
    BY <2>1, DequeNumbers DEF ThiefLocals
<1>6. OnePlace'
  BY <1>1, <1>3, OnePlaceTop, Zenon
<1> QED
  BY <1>3, <1>4, <1>5, <1>6

\* pop_bottom, the compare-exchange for the last item.
LEMMA PopCasKeeps == ASSUME DequeIInv, PopCas PROVE DequeIInv'
<1>0. opc = "cas" /\ opc' = "restore" /\ UNCHANGED <<bottom, arrays, item, ob, ot, tpc, tt, ta, tv>>
  BY Zenon DEF PopCas, thief
<1>1. View' = View /\ Held' = Held /\ Cap' = Cap
  BY <1>0, ArraysKept, Zenon
<1>2. /\ ob = bottom /\ End = ob + 1 /\ End' = ob + 1 /\ item = None /\ ot = ob /\ top >= ob
      /\ ~Pushing' /\ Popping'
  BY <1>0, DequeNumbers, Zenon DEF End, Popping, Pushing, DequeIInv, OwnerLocals
<1>3. CASE top = ot
  <2>1. top' = top + 1 /\ HandOut(Held[top])
    BY <1>2, <1>3, DequeTyped, Zenon DEF PopCas
  <2>2. DequeWindow' /\ ThiefLocals' /\ OnePlace' /\ taken' \subseteq Items /\ twice' = {} /\ fresh' = fresh
    BY <1>0, <1>2, <1>3, <2>1, DequeNumbers, TopTakenKeeps, SMTT(60), Zenon
  <2>3. DequeTypes'
    <3>1. top + 1 \in Nat
      BY DequeNumbers
    <3> QED
      BY <1>0, <2>1, <2>2, <3>1, Zenon DEF DequeIInv, DequeTypes
  <2>4. OwnerLocals'
    BY <1>0, <1>2, <1>3, <2>1, Zenon DEF OwnerLocals
  <2> QED
    BY <2>2, <2>3, <2>4, Zenon DEF DequeIInv
<1>4. CASE top # ot
  <2>1. UNCHANGED <<top, fresh, taken, twice>>
    BY <1>4 DEF PopCas, dequeHistory
  <2>2. DequeTypes'
    BY <1>0, <2>1, ZenonT(60) DEF DequeIInv, DequeTypes
  <2>3. OwnerLocals' /\ DequeWindow'
    BY <1>0, <1>1, <1>2, <1>4, <2>1, DequeNumbers DEF OwnerLocals, DequeWindow
  <2>4. ThiefLocals'
    BY <1>0, <1>1, <1>2, <2>1, ThievesKept, Zenon DEF thief
  <2>5. OnePlace'
    BY <1>0, <1>1, <1>2, <2>1, OnePlaceKept, ZenonT(60) DEF DequeIInv
  <2> QED
    BY <2>2, <2>3, <2>4, <2>5 DEF DequeIInv
<1> QED
  BY <1>3, <1>4, Zenon

\* pop_bottom, putting bottom_ back.
LEMMA PopRestoreKeeps == ASSUME DequeIInv, PopRestore PROVE DequeIInv'
<1>0. /\ opc = "restore" /\ bottom' = ob + 1 /\ opc' = "idle"
      /\ UNCHANGED <<top, arrays, fresh, taken, twice, item, ob, ot, thief>>
  BY Zenon DEF PopRestore, dequeHistory
<1>1. View' = View /\ Held' = Held /\ Cap' = Cap
  BY <1>0, ArraysKept, Zenon
<1>2. End = ob + 1 /\ End' = End /\ item = None /\ ob = bottom /\ ~Pushing' /\ ~Popping'
  BY <1>0, DequeNumbers, ZenonT(60) DEF End, Popping, Pushing, DequeIInv, OwnerLocals
<1>3. DequeTypes'
  BY <1>0, <1>2, DequeNumbers, SMTT(60), Zenon DEF DequeIInv, DequeTypes, thief
<1>4. OwnerLocals' /\ DequeWindow'
  BY <1>0, <1>1, <1>2, DequeNumbers DEF OwnerLocals, DequeWindow
<1>5. ThiefLocals'
  BY <1>0, <1>1, <1>2, ThievesKept, Zenon
<1>6. OnePlace'
  BY <1>0, <1>1, <1>2, OnePlaceKept, Zenon DEF DequeIInv
<1> QED
  BY <1>3, <1>4, <1>5, <1>6 DEF DequeIInv

\* A step of a thief that does not move top_ changes nothing for the owner.
LEMMA OwnerKept ==
    ASSUME DequeIInv, UNCHANGED <<top, bottom, arrays, dequeHistory, owner>>
    PROVE  OwnerLocals' /\ DequeWindow' /\ OnePlace' /\ View' = View /\ Held' = Held /\ End' = End
<1>0. UNCHANGED <<fresh, taken, twice, opc, item, ob, ot>>
  BY Zenon DEF dequeHistory, owner
<1>1. View' = View /\ Held' = Held /\ Cap' = Cap
  BY ArraysKept, Zenon
<1>2. End' = End /\ Pushing' = Pushing /\ Popping' = Popping
  BY <1>0, Zenon DEF End, Popping, Pushing
<1>3. OwnerLocals' /\ DequeWindow'
  BY <1>0, <1>1, <1>2, Zenon DEF DequeIInv, OwnerLocals, DequeWindow
<1>4. OnePlace'
  BY <1>0, <1>1, <1>2, OnePlaceKept DEF DequeIInv
<1> QED
  BY <1>1, <1>2, <1>3, <1>4, Zenon

\* steal_top, its three loads and the read of the array.
LEMMA StealReadsKeep ==
    ASSUME DequeIInv, NEW h \in Thieves,
           StealLoadTop(h) \/ StealLoadBottom(h) \/ StealLoadArray(h) \/ StealRead(h)
    PROVE  DequeIInv'
<1>0. UNCHANGED <<top, bottom, arrays, dequeHistory, owner>>
  BY Zenon DEF StealLoadTop, StealLoadBottom, StealLoadArray, StealRead
<1>1. OwnerLocals' /\ DequeWindow' /\ OnePlace' /\ View' = View /\ Held' = Held /\ End' = End
  BY <1>0, OwnerKept
<1>2. /\ tt \in [Thieves -> Nat] /\ ta \in [Thieves -> 1 .. Len(arrays)]
      /\ tpc \in [Thieves -> {"idle", "bottom", "array", "read", "cas"}]
      /\ tv \in [Thieves -> Entries]
  BY Zenon DEF DequeIInv, DequeTypes
<1>a. ASSUME /\ tt' \in [Thieves -> Nat] /\ ta' \in [Thieves -> 1 .. Len(arrays)]
             /\ tpc' \in [Thieves -> {"idle", "bottom", "array", "read", "cas"}]
             /\ tv' \in [Thieves -> Entries]
      PROVE  DequeTypes'
  BY <1>0, <1>a, Zenon DEF DequeIInv, DequeTypes, dequeHistory, owner
<1>b. top \in Nat /\ bottom \in Int /\ End \in Int /\ Array \in 1 .. Len(arrays)
  BY DequeTyped, Zenon
<1>3. CASE StealLoadTop(h)
  <2>1. DequeTypes'
    BY <1>2, <1>3, <1>a, <1>b, ZenonT(30) DEF StealLoadTop
  <2>2. ThiefLocals'
    <3>1. top <= top
      BY <1>b
    <3>2. /\ tt' = [tt EXCEPT ![h] = top] /\ tpc' = [tpc EXCEPT ![h] = "bottom"]
          /\ ta' = ta /\ tv' = tv /\ top' = top
      BY <1>0, <1>3, Zenon DEF StealLoadTop
    <3>3. \A k \in Thieves : tt'[k] <= top
      BY <1>2, <3>1, <3>2, Zenon DEF DequeIInv, ThiefLocals
    <3> QED
      BY <1>1, <1>2, <3>2, <3>3, ZenonT(30) DEF DequeIInv, ThiefLocals
  <2> QED
    BY <1>1, <2>1, <2>2 DEF DequeIInv
<1>4. CASE StealLoadBottom(h)
  <2>1. DequeTypes'
    BY <1>2, <1>4, <1>a, Zenon DEF StealLoadBottom
  <2>2. bottom <= End
    BY DequeNumbers DEF End
  <2>3. ThiefLocals'
    <3>1. /\ UNCHANGED <<top, tt, ta, tv>> /\ \A k \in Thieves : k # h => tpc'[k] = tpc[k]
          /\ tpc'[h] = IF bottom - tt[h] <= 0 THEN "idle" ELSE "array"
      BY <1>0, <1>2, <1>4, Zenon DEF StealLoadBottom
    <3>2. ASSUME NEW k \in Thieves, k # h
          PROVE  /\ tt[k] <= top
                 /\ tt[k] = top /\ tpc'[k] \in {"array", "read", "cas"} => top < End
                 /\ tt[k] = top /\ tpc'[k] = "read" => View[ta[k]][top] = Held[top]
                 /\ tt[k] = top /\ tpc'[k] = "cas" => tv[k] = Held[top]
      BY <3>1, <3>2, Zenon DEF DequeIInv, ThiefLocals
    <3>3. /\ tt[h] <= top /\ tpc'[h] \in {"idle", "array"}
          /\ tt[h] = top /\ tpc'[h] = "array" => top < End
      <4>1. tt[h] \in Nat /\ tt[h] <= top
        BY <1>2, Zenon DEF DequeIInv, ThiefLocals
      <4>2. tpc'[h] = IF bottom - tt[h] <= 0 THEN "idle" ELSE "array"
        BY <3>1, Zenon
      <4>3. CASE bottom - tt[h] <= 0
        BY <4>1, <4>2, <4>3, ZenonT(60)
      <4>4. CASE ~(bottom - tt[h] <= 0)
        <5>1. tt[h] < End
          BY <1>b, <2>2, <4>1, <4>4, SMTT(60), Zenon
        <5> QED
          BY <4>1, <4>2, <4>4, <5>1, SMTT(60), Zenon
      <4> QED
        BY <4>3, <4>4, Zenon
    <3> QED
      BY <1>1, <3>1, <3>2, <3>3, Zenon DEF ThiefLocals
  <2> QED
    BY <1>1, <2>1, <2>3 DEF DequeIInv
<1>5. CASE StealLoadArray(h)
  <2>1. DequeTypes'
    BY <1>2, <1>5, <1>a, <1>b, SMTT(60), Zenon DEF StealLoadArray
  <2>2. ThiefLocals'
    BY <1>0, <1>1, <1>2, <1>5, <1>b, ZenonT(60) DEF StealLoadArray, DequeIInv, ThiefLocals, Held
  <2> QED
    BY <1>1, <2>1, <2>2 DEF DequeIInv
<1>6. CASE StealRead(h)
  <2>1. Get(ta[h], tt[h]) = View[ta[h]][tt[h]]
    BY <1>2 DEF View
  <2>2. Get(ta[h], tt[h]) \in Entries
    <3>1. ta[h] \in 1 .. Len(arrays) /\ tt[h] \in Nat
      BY <1>2, Zenon
    <3>2. arrays \in Seq(Circular)
      BY DequeTyped, Zenon
    <3>3. View[ta[h]] \in [Nat -> Entries]
      BY <3>1, <3>2, ArrayTyped, ZenonT(60)
    <3> QED
      BY <2>1, <3>1, <3>3
  <2>3. DequeTypes'
    BY <1>2, <1>6, <1>a, <2>2, SMTT(60), Zenon DEF StealRead
  <2>4. ThiefLocals'
    BY <1>0, <1>1, <1>2, <1>6, <1>b, <2>1, ZenonT(120) DEF StealRead, DequeIInv, ThiefLocals
  <2> QED
    BY <1>1, <2>3, <2>4 DEF DequeIInv
<1> QED
  BY <1>3, <1>4, <1>5, <1>6, Zenon

\* steal_top, the compare-exchange.
LEMMA StealCasKeeps == ASSUME DequeIInv, NEW h \in Thieves, StealCas(h) PROVE DequeIInv'
<1>0. /\ tpc[h] = "cas" /\ UNCHANGED <<bottom, arrays, opc, item, ob, ot, tt, ta>>
      /\ tpc' = [tpc EXCEPT ![h] = "idle"] /\ tv' = [tv EXCEPT ![h] = None]
  BY DEF StealCas, owner
<1>1. /\ tpc \in [Thieves -> {"idle", "bottom", "array", "read", "cas"}] /\ tv \in [Thieves -> Entries]
      /\ tt \in [Thieves -> Nat] /\ ta \in [Thieves -> 1 .. Len(arrays)]
  BY DEF DequeIInv, DequeTypes
<1>2. /\ tpc' \in [Thieves -> {"idle", "bottom", "array", "read", "cas"}] /\ tv' \in [Thieves -> Entries]
      /\ \A k \in Thieves : tpc'[k] \in {tpc[k], "idle"} /\ (k # h => tv'[k] = tv[k])
      /\ tpc'[h] = "idle"
  BY <1>0, <1>1, ZenonT(20) DEF Entries
<1>3. CASE top = tt[h]
  <2>1. top' = top + 1 /\ HandOut(tv[h])
    BY <1>3, SMTT(60), Zenon DEF StealCas
  <2>2. tv[h] = Held[top] /\ top < End
    BY <1>0, <1>3, ZenonT(20) DEF DequeIInv, ThiefLocals
  <2>3. End' = End /\ Pushing' = Pushing /\ Popping' = Popping
    BY <1>0, SMTT(60), Zenon DEF End, Popping, Pushing
  <2>4. DequeWindow' /\ ThiefLocals' /\ OnePlace' /\ taken' \subseteq Items /\ twice' = {} /\ fresh' = fresh
    BY <1>0, <1>2, <2>1, <2>2, <2>3, TopTakenKeeps, ZenonT(60)
  <2>5. DequeTypes'
    <3>1. top + 1 \in Nat
      BY DequeNumbers
    <3> QED
      BY <1>0, <1>1, <1>2, <2>1, <2>4, <3>1, Zenon DEF DequeIInv, DequeTypes
  <2>6. OwnerLocals'
    <3>1. View' = View /\ Held' = Held /\ Cap' = Cap
      BY <1>0, ArraysKept
    <3>2. opc = "restore" => End = ob + 1
      BY Zenon DEF DequeIInv, OwnerLocals, End, Popping
    <3> QED
      <4>1. top' = top + 1
        BY <2>1, Zenon
      <4>2. /\ ot <= top => ot <= top'
            /\ ob - top < Cap => ob - top' < Cap
            /\ top >= ob => top' >= ob
            /\ End = ob + 1 => top # ob + 1
        BY <2>2, <4>1, DequeNumbers
      <4> QED
        BY <1>0, <2>3, <3>1, <3>2, <4>2, ZenonT(30) DEF DequeIInv, OwnerLocals
  <2> QED
    BY <2>4, <2>5, <2>6 DEF DequeIInv
<1>4. CASE top # tt[h]
  <2>1. UNCHANGED <<top, bottom, arrays, dequeHistory, owner>>
    BY <1>0, <1>4, Zenon DEF StealCas
  <2>2. OwnerLocals' /\ DequeWindow' /\ OnePlace' /\ View' = View /\ Held' = Held /\ End' = End
    BY <2>1, OwnerKept
  <2>3. DequeTypes'
    BY <1>0, <1>1, <1>2, <2>1, Zenon DEF DequeIInv, DequeTypes, dequeHistory
  <2>4. ThiefLocals'
    BY <1>0, <1>1, <1>2, <2>1, <2>2, ZenonT(60) DEF DequeIInv, ThiefLocals
  <2> QED
    BY <2>2, <2>3, <2>4 DEF DequeIInv
<1> QED
  BY <1>3, <1>4

\* Every step of the owner and of a thief keeps the invariant.
LEMMA DequeStep == DequeIInv /\ [DequeNext]_dequeVars => DequeIInv'
<1> SUFFICES ASSUME DequeIInv, [DequeNext]_dequeVars PROVE DequeIInv'
  BY Zenon
<1>1. CASE OwnerStep
  <2>1. fresh # {} => NextItem \in fresh
    BY DEF NextItem
  <2> QED
    BY <1>1, <2>1, PushLoadKeeps, GrowKeeps, PutKeeps, PublishKeeps, PopDecrementKeeps, PopLoadTopKeeps,
       PopCasKeeps, PopRestoreKeeps
    DEF OwnerStep
<1>2. ASSUME NEW h \in Thieves, ThiefStep(h) PROVE DequeIInv'
  BY <1>2, StealReadsKeep, StealCasKeeps, Zenon DEF ThiefStep
<1>3. CASE UNCHANGED dequeVars
  <2>1. UNCHANGED <<top, bottom, arrays, dequeHistory, owner, thief>>
    BY <1>3, Zenon DEF dequeVars
  <2>2. OwnerLocals' /\ DequeWindow' /\ OnePlace' /\ View' = View /\ Held' = Held /\ End' = End
    BY <2>1, OwnerKept, Zenon
  <2>3. DequeTypes'
    BY <2>1, Zenon DEF DequeIInv, DequeTypes, dequeHistory, owner, thief
  <2>4. ThiefLocals'
    BY <2>1, <2>2, ThievesKept, Zenon
  <2> QED
    BY <2>2, <2>3, <2>4, Zenon DEF DequeIInv
<1> QED
  BY <1>1, <1>2, <1>3, Zenon DEF DequeNext

-----------------------------------------------------------------------------
\* The inductive invariant of the deque, for any number of thieves, any set of items and any
\* initial capacity.
THEOREM DequeInvariant == DequeSpec => []DequeIInv
  BY DequeInitial, DequeStep, PTL DEF DequeSpec

\* However push_bottom, pop_bottom and steal_top interleave and however often the circular
\* array is reused and grown, every pushed item is handed out at most once, none is lost,
\* and a thief that can still win holds the current item.
THEOREM DequeIsSafe == DequeSpec => []DequeInv
<1>1. ASSUME DequeIInv PROVE DequeInv
  <2>1. DequeTypeOK
    <3>1. \A g \in DOMAIN arrays : arrays[g].buf \in [0 .. arrays[g].size - 1 -> Items \cup {None}]
      <4>1. ASSUME NEW g \in DOMAIN arrays PROVE arrays[g].buf \in [0 .. ArrayCapacity(g) - 1 -> Entries]
        <5>1. arrays \in Seq(Circular)
          BY <1>1, DequeTyped, Zenon
        <5>2. g \in 1 .. Len(arrays)
          BY <5>1
        <5> QED
          BY <5>1, <5>2, ArrayTyped, Zenon
      <4> QED
        BY <4>1, Zenon DEF ArrayCapacity, Entries
    <3> QED
      BY <1>1, <3>1, Zenon DEF DequeIInv, DequeTypes, DequeTypeOK, Entries
  <2>2. HandedOutOnce
    BY <1>1, Zenon DEF DequeIInv, DequeTypes, HandedOutOnce
  <2>3. NoneLost
    <3> SUFFICES ASSUME NEW x \in Items \ (fresh \cup taken), ~(item = x /\ opc # "idle")
                 PROVE  \E i \in DOMAIN Content : Content[i] = x
      BY Zenon DEF NoneLost
    <3>1. item # x
      BY <1>1, DequeTyped, Zenon DEF DequeIInv, OwnerLocals, Pushing
    <3>2. PICK k \in top .. End - 1 : Held[k] = x
      BY <1>1, <3>1, Zenon DEF DequeIInv, OnePlace
    <3>3. k - top + 1 \in 1 .. End - top /\ top + (k - top + 1) - 1 = k /\ k \in Nat
      BY <1>1, DequeNumbers
    <3>4. Content[k - top + 1] = Get(Array, k)
      BY <3>3, Zenon DEF Content
    <3>5. Get(Array, k) = Held[k]
      BY <1>1, <3>3, DequeTyped, Zenon
    <3> QED
      BY <3>2, <3>3, <3>4, <3>5, Zenon DEF Content
  <2>4. ThiefReadsCurrent
    BY <1>1, DequeTyped, Zenon DEF DequeIInv, ThiefLocals, ThiefReadsCurrent
  <2> QED
    BY <2>1, <2>2, <2>3, <2>4, Zenon DEF DequeInv
<1> QED
  BY DequeInvariant, <1>1, PTL
-----------------------------------------------------------------------------
(* The refinement of WorkDeque. *)

\* The deque's content: what the positions from top_ on hold.
ContentShape ==
    /\ Content = [i \in 1 .. End - top |-> Held[top + i - 1]]
    /\ Content \in Seq(Items) /\ Len(Content) = End - top

\* In every state of the invariant the content is a sequence of items.
LEMMA ContentIs == DequeIInv => ContentShape
<1> SUFFICES ASSUME DequeIInv PROVE ContentShape
  OBVIOUS
<1>1. ASSUME NEW i \in 1 .. End - top
      PROVE  /\ Get(Array, top + i - 1) = Held[top + i - 1] /\ Held[top + i - 1] \in Items
  <2>1. top + i - 1 \in top .. End - 1 /\ top + i - 1 \in Nat
    BY DequeNumbers
  <2> QED
    BY <2>1, DequeTyped, ZenonT(30) DEF DequeIInv, OnePlace
<1>2. Content = [i \in 1 .. End - top |-> Held[top + i - 1]]
  BY <1>1, Zenon DEF Content
<1>3. Content \in [1 .. End - top -> Items] /\ End - top \in Nat
  BY <1>1, <1>2, DequeNumbers, SMTT(60), Zenon
<1> QED
  BY <1>2, <1>3, SMTT(60), Zenon DEF ContentShape

\* A step that leaves the window and what it holds alone leaves the content alone.
LEMMA ContentKept ==
    ASSUME DequeIInv, ContentShape, ContentShape', top' = top, End' = End,
           \A i \in top .. End - 1 : Held'[i] = Held[i]
    PROVE  Content' = Content
<1>1. \A i \in 1 .. End - top : top + i - 1 \in top .. End - 1
  BY DequeNumbers
<1> QED
  BY <1>1, Zenon DEF ContentShape

\* Publishing bottom_ appends the item.
LEMMA ContentPushed ==
    ASSUME DequeIInv, ContentShape, ContentShape', top' = top, End' = End + 1, Held' = Held,
           Held[End] \in Items
    PROVE  Content' = Append(Content, Held[End])
<1>0. top \in Nat /\ End \in Nat /\ top <= End
  BY DequeNumbers
<1> DEFINE n == End - top
           t == Append(Content, Held[End])
<1>1. t \in Seq(Items) /\ Len(t) = n + 1 /\ t[n + 1] = Held[End] /\ \A i \in 1 .. n : t[i] = Content[i]
  BY <1>0, SMTT(60), Zenon DEF ContentShape
<1>2. Content' \in Seq(Items) /\ Len(Content') = n + 1 /\ n \in Nat
  BY <1>0 DEF ContentShape
<1>3. ASSUME NEW i \in 1 .. n + 1 PROVE Content'[i] = t[i]
  <2>1. Content'[i] = Held[top + i - 1]
    <3>1. Content' = [j \in 1 .. End' - top' |-> Held'[top' + j - 1]]
      BY Zenon DEF ContentShape
    <3>2. i \in 1 .. End' - top'
      BY <1>0
    <3> QED
      BY <3>1, <3>2, Zenon
  <2>2. CASE i = n + 1
    <3>1. top + i - 1 = End
      BY <1>0, <2>2
    <3>2. Content'[i] = Held[End]
      BY <2>1, <3>1, Zenon
    <3> QED
      BY <1>1, <2>2, <3>2, Zenon
  <2>3. CASE i \in 1 .. n
    BY <1>0, <1>1, <2>1, <2>3, Zenon DEF ContentShape
  <2>4. i = n + 1 \/ i \in 1 .. n
    BY <1>0
  <2> QED
    BY <2>2, <2>3, <2>4, Zenon
<1> HIDE DEF t, n
<1>4. Content' = t
  BY <1>1, <1>2, <1>3, SeqSame, Zenon
<1> QED
  BY <1>4, Zenon DEF t

\* Moving top_ removes the head.
LEMMA ContentStolen ==
    ASSUME DequeIInv, ContentShape, ContentShape', top < End, top' = top + 1, End' = End, Held' = Held
    PROVE  Content # <<>> /\ Content' = Tail(Content) /\ Head(Content) = Held[top]
<1>0. top \in Nat /\ End \in Nat
  BY DequeNumbers
<1> DEFINE n == End - top
           t == Tail(Content)
<1>1. n \in Nat /\ n > 0 /\ Content \in Seq(Items) /\ Len(Content) = n
  BY <1>0 DEF ContentShape
<1>2. Content # <<>> /\ Head(Content) = Content[1]
  BY <1>1
<1>3. Content[1] = Held[top]
  BY <1>0, <1>1 DEF ContentShape
<1>4. t \in Seq(Items) /\ Len(t) = n - 1 /\ \A i \in 1 .. n - 1 : t[i] = Content[i + 1]
  BY <1>1, <1>2
<1>5. Content' \in Seq(Items) /\ Len(Content') = n - 1
  BY <1>0 DEF ContentShape
<1>6. ASSUME NEW i \in 1 .. n - 1 PROVE Content'[i] = t[i]
  <2>1. Content'[i] = Held[top + i] /\ Content[i + 1] = Held[top + i]
    BY <1>0 DEF ContentShape
  <2> QED
    BY <1>4, <2>1
<1> HIDE DEF t, n
<1>7. Content' = t
  BY <1>4, <1>5, <1>6, SeqSame, Zenon
<1> QED
  BY <1>2, <1>3, <1>7, Zenon DEF t

\* Moving bottom_ down removes the last item.
LEMMA ContentPopped ==
    ASSUME DequeIInv, ContentShape, ContentShape', top < End, top' = top, End' = End - 1, Held' = Held
    PROVE  /\ Content # <<>> /\ Content' = SubSeq(Content, 1, Len(Content) - 1)
           /\ Content[Len(Content)] = Held[End - 1]
<1>0. top \in Nat /\ End \in Nat
  BY DequeNumbers
<1> DEFINE n == End - top
           t == SubSeq(Content, 1, n - 1)
<1>1. n \in Nat /\ n > 0 /\ Content \in Seq(Items) /\ Len(Content) = n
  BY <1>0 DEF ContentShape
<1>2. Content # <<>> /\ Content[n] = Held[End - 1]
  BY <1>0, <1>1 DEF ContentShape
<1>3. t \in Seq(Items) /\ Len(t) = n - 1 /\ \A i \in 1 .. n - 1 : t[i] = Content[i]
  BY <1>1
<1>4. Content' \in Seq(Items) /\ Len(Content') = n - 1
  BY <1>0 DEF ContentShape
<1>5. ASSUME NEW i \in 1 .. n - 1 PROVE Content'[i] = t[i]
  <2>1. Content'[i] = Held[top + i - 1] /\ Content[i] = Held[top + i - 1]
    BY <1>0 DEF ContentShape
  <2> QED
    BY <1>3, <2>1, Zenon
<1> HIDE DEF t, n
<1>6. Content' = t
  BY <1>3, <1>4, <1>5, SeqSame, Zenon
<1> QED
  BY <1>1, <1>2, <1>6, Zenon DEF t

\* Every step is a push, a pop or a steal of the abstract deque, or changes nothing of it:
\* the push takes effect at the store of bottom_, the pop and the steal where the item is
\* returned or the compare-exchange succeeds.
LEMMA StepImplementsDeque ==
    DequeIInv /\ DequeIInv' /\ ContentShape /\ ContentShape' /\ [DequeNext]_dequeVars =>
        [Abstract!Next]_(Abstract!vars)
<1> SUFFICES ASSUME DequeIInv, DequeIInv', ContentShape, ContentShape', [DequeNext]_dequeVars
             PROVE  [Abstract!Next]_(Abstract!vars)
  OBVIOUS
<1> DEFINE all == fresh \cup (IF item = None THEN {} ELSE {item})
<1>0. UNCHANGED <<Content, all, taken>> => [Abstract!Next]_(Abstract!vars)
  BY DEF Abstract!vars
<1>1. ASSUME NEW x \in fresh, PushLoad(x) PROVE UNCHANGED <<Content, all, taken>>
  <2>1. opc = "idle" /\ item = None /\ x # None
    BY <1>1, DequeNumbers, ZenonT(30) DEF PushLoad, DequeIInv, DequeTypes, OwnerLocals, Pushing
  <2>2. all' = all /\ taken' = taken /\ top' = top
    BY <1>1, <2>1, Zenon DEF PushLoad
  <2>3. End' = End
    BY <1>1, <2>1, Zenon DEF PushLoad, End, Popping
  <2>4. Held' = Held
    BY <1>1, ArraysKept, Zenon DEF PushLoad
  <2> QED
    <3>1. \A i \in top .. End - 1 : Held'[i] = Held[i]
      BY <2>4, SMTT(60), Zenon
    <3> QED
      BY <2>2, <2>3, <3>1, ContentKept, Zenon
<1>2. ASSUME Grow PROVE UNCHANGED <<Content, all, taken>>
  <2>1. all' = all /\ taken' = taken /\ top' = top
    BY <1>2, Zenon DEF Grow, dequeHistory
  <2>2. End' = End /\ End = ob
    BY <1>2, ZenonT(60) DEF Grow, End, Popping, DequeIInv, OwnerLocals, Pushing
  <2>3. ot <= top /\ ob - ot <= Cap /\ ob \in Nat
    <3>1. ot <= top /\ ob - ot <= Cap
      BY <1>2, Zenon DEF Grow, DequeIInv, OwnerLocals
    <3>2. top \in Nat /\ End \in Int /\ top <= End
      BY DequeNumbers, Zenon
    <3>3. End \in Nat
      BY <3>2
    <3> QED
      BY <2>2, <3>1, <3>3, Zenon
  <2>4. \A i \in ot .. ob - 1 : Held'[i] = Held[i]
    BY <1>2, <2>3, DequeTyped, GrowHolds, Zenon DEF Grow
  <2>5. \A i \in top .. End - 1 : Held'[i] = Held[i]
    BY <2>2, <2>3, <2>4, DequeNumbers
  <2> QED
    BY <2>1, <2>2, <2>5, ContentKept, Zenon
<1>3. ASSUME Put PROVE UNCHANGED <<Content, all, taken>>
  <2>1. all' = all /\ taken' = taken /\ top' = top
    BY <1>3, SMTT(60), Zenon DEF Put, dequeHistory
  <2>2. End' = End /\ End = ob
    BY <1>3, Zenon DEF Put, End, Popping, DequeIInv, OwnerLocals, Pushing
  <2>3. ob - top < Cap /\ ob \in Nat /\ item \in Entries
    <3>1. opc = "put" /\ ot <= top /\ ob - ot < Cap
      BY <1>3, Zenon DEF Put, DequeIInv, OwnerLocals
    <3>2. top \in Nat /\ ot \in Nat /\ End \in Int /\ Cap \in Nat /\ top <= End
      BY DequeNumbers, Zenon
    <3>3. item \in Entries
      BY Zenon DEF DequeIInv, DequeTypes
    <3> QED
      BY <2>2, <3>1, <3>2, <3>3
  <2>4. \A i \in Nat : i % Cap # ob % Cap => Held'[i] = Held[i]
    BY <1>3, <2>3, DequeTyped, PutHolds, Zenon DEF Put, Cap
  <2>5. ASSUME NEW i \in top .. End - 1 PROVE Held'[i] = Held[i]
    <3>1. i \in Nat /\ i < ob /\ ob < i + Cap
      BY <2>2, <2>3, DequeNumbers
    <3> QED
      BY <2>3, <2>4, <3>1, DequeNumbers, ModDistinct, ZenonT(60)
  <2> QED
    BY <2>1, <2>2, <2>5, ContentKept, Zenon
<1>4. ASSUME PublishBottom PROVE Abstract!Push(item) /\ item \in Items
  <2>1. /\ opc = "publish" /\ bottom' = ob + 1 /\ opc' = "idle" /\ item' = None
        /\ UNCHANGED <<top, arrays, fresh, taken>>
    BY <1>4, ZenonT(60) DEF PublishBottom, dequeHistory
  <2>2. End = ob /\ End' = End + 1 /\ item # None /\ Held[End] = item
    BY <2>1, SMTT(60), Zenon DEF End, Popping, DequeIInv, OwnerLocals, Pushing
  <2>3. item \in Items /\ item \notin fresh
    BY <2>2, Zenon DEF DequeIInv, DequeTypes, Entries, OnePlace
  <2>4. Content' = Append(Content, item)
    BY <2>1, <2>2, <2>3, ArraysKept, ContentPushed, Zenon
  <2>5. item \in all /\ all' = all \ {item}
    BY <2>1, <2>2, <2>3, Zenon
  <2> QED
    BY <2>1, <2>3, <2>4, <2>5, Zenon DEF Abstract!Push
<1>5. ASSUME PopDecrement \/ PopRestore PROVE UNCHANGED <<Content, all, taken>>
  <2>1. UNCHANGED <<top, arrays, fresh, taken, item>>
    BY <1>5, ZenonT(30) DEF PopDecrement, PopRestore, dequeHistory
  <2>2. End' = End
    <3>1. CASE PopDecrement
      <4>1. End = bottom /\ End' = (bottom - 1) + 1
        BY <3>1, Zenon DEF PopDecrement, End, Popping
      <4> QED
        BY <4>1, DequeNumbers
    <3>2. CASE PopRestore
      BY <3>2, Zenon DEF PopRestore, End, Popping, DequeIInv, OwnerLocals
    <3> QED
      BY <1>5, <3>1, <3>2, Zenon
  <2> QED
    BY <2>1, <2>2, ArraysKept, ContentKept, Zenon
<1>6. ASSUME PopLoadTop, ob <= top PROVE UNCHANGED <<Content, all, taken>>
  <2>1. UNCHANGED <<top, bottom, arrays, fresh, taken, item>> /\ opc = "load" /\ opc' \in {"restore", "cas"}
    BY <1>6, DequeNumbers DEF PopLoadTop, dequeHistory
  <2>2. End' = End
    BY <2>1, Zenon DEF End, Popping
  <2> QED
    BY <2>1, <2>2, ArraysKept, ContentKept, Zenon
<1>7. ASSUME PopLoadTop, ob > top PROVE Abstract!PopBottom
  <2>1. /\ UNCHANGED <<top, bottom, arrays, item>> /\ opc = "load" /\ opc' = "idle"
        /\ HandOut(Get(Array, ob))
    BY <1>7, DequeNumbers, SMTT(60), Zenon DEF PopLoadTop
  <2>2. End' = End - 1 /\ ob = End - 1 /\ top < End /\ ob \in Nat
    <3>1. Popping /\ ~Popping'
      BY <2>1, Zenon DEF Popping
    <3>2. End = bottom + 1 /\ End' = bottom
      BY <2>1, <3>1, Zenon DEF End
    <3>3. ob = bottom /\ ob \in Int /\ top \in Nat
      BY <3>1, DequeNumbers, Zenon DEF DequeIInv, OwnerLocals
    <3> QED
      BY <1>7, <3>2, <3>3
  <2>3. fresh' = fresh /\ taken' = taken \cup {Held[End - 1]}
    BY <2>1, <2>2, DequeTyped, Zenon DEF HandOut
  <2>4. /\ Content # <<>> /\ Content' = SubSeq(Content, 1, Len(Content) - 1)
        /\ Content[Len(Content)] = Held[End - 1]
    BY <2>1, <2>2, ArraysKept, ContentPopped, Zenon
  <2> QED
    BY <2>1, <2>3, <2>4, Zenon DEF Abstract!PopBottom
<1>8. ASSUME top < End, top' = top + 1, End' = End, HandOut(Held[top]), UNCHANGED <<arrays, item>>
      PROVE  Abstract!StealTop
  <2>1. Content # <<>> /\ Content' = Tail(Content) /\ Head(Content) = Held[top]
    BY <1>8, ArraysKept, ContentStolen, Zenon
  <2> QED
    BY <1>8, <2>1, Zenon DEF Abstract!StealTop, HandOut
<1>9. ASSUME PopCas PROVE Abstract!StealTop \/ UNCHANGED <<Content, all, taken>>
  <2>1. UNCHANGED <<bottom, arrays, item>> /\ opc = "cas" /\ opc' = "restore"
    BY <1>9, Zenon DEF PopCas
  <2>2. End = ob + 1 /\ End' = End /\ ot = ob
    BY <2>1, ZenonT(60) DEF End, Popping, DequeIInv, OwnerLocals
  <2>3. CASE top = ot
    BY <1>8, <1>9, <2>1, <2>2, <2>3, DequeTyped, SMTT(60), Zenon DEF PopCas
  <2>4. CASE top # ot
    <3>1. UNCHANGED <<top, fresh, taken>>
      BY <1>9, <2>4, Zenon DEF PopCas, dequeHistory
    <3> QED
      BY <2>1, <2>2, <3>1, ArraysKept, ContentKept, Zenon
  <2> QED
    BY <2>3, <2>4, Zenon
<1>10. ASSUME NEW h \in Thieves, StealCas(h) PROVE Abstract!StealTop \/ UNCHANGED <<Content, all, taken>>
  <2>1. UNCHANGED <<bottom, arrays, item, opc>> /\ tpc[h] = "cas"
    BY <1>10, Zenon DEF StealCas, owner
  <2>2. End' = End
    BY <2>1, Zenon DEF End, Popping
  <2>3. CASE top = tt[h]
    <3>1. top < End /\ tv[h] = Held[top]
      BY <2>1, <2>3, Zenon DEF DequeIInv, ThiefLocals
    <3> QED
      BY <1>8, <1>10, <2>1, <2>2, <2>3, <3>1, ZenonT(30) DEF StealCas
  <2>4. CASE top # tt[h]
    <3>1. UNCHANGED <<top, fresh, taken>>
      BY <1>10, <2>4, Zenon DEF StealCas, dequeHistory
    <3> QED
      BY <2>1, <2>2, <3>1, ArraysKept, ContentKept, Zenon
  <2> QED
    BY <2>3, <2>4, Zenon
<1>11. ASSUME UNCHANGED <<top, bottom, arrays, dequeHistory, owner>> PROVE UNCHANGED <<Content, all, taken>>
  <2>1. UNCHANGED <<fresh, taken, item, opc>>
    BY <1>11, Zenon DEF dequeHistory, owner
  <2>2. End' = End
    BY <1>11, <2>1, ZenonT(30) DEF End, Popping
  <2> QED
    BY <1>11, <2>1, <2>2, ArraysKept, ContentKept, Zenon
<1>12. CASE OwnerStep
  <2>1. fresh # {} => NextItem \in fresh
    BY Zenon DEF NextItem
  <2>2. PopLoadTop => ob <= top \/ ob > top
    BY DequeNumbers
  <2> QED
    BY <1>0, <1>1, <1>2, <1>3, <1>4, <1>5, <1>6, <1>7, <1>9, <1>12, <2>1, <2>2, Zenon
    DEF OwnerStep, Abstract!Next
<1>13. ASSUME NEW h \in Thieves, ThiefStep(h) PROVE [Abstract!Next]_(Abstract!vars)
  <2>1. StealCas(h) \/ UNCHANGED <<top, bottom, arrays, dequeHistory, owner>>
    BY <1>13, Zenon DEF ThiefStep, StealLoadTop, StealLoadBottom, StealLoadArray, StealRead
  <2> QED
    BY <1>0, <1>10, <1>11, <2>1, Zenon DEF Abstract!Next
<1> QED
  BY <1>0, <1>11, <1>12, <1>13, Zenon DEF DequeNext, dequeVars

\* The deque behaves as one whose push, pop and steal are single steps, for any number of
\* thieves, any set of items and any initial capacity.
THEOREM DequeImplementsDeque == DequeSpec => ImplementsDeque
<1>1. DequeInit => Abstract!Init
  <2> SUFFICES ASSUME DequeInit
               PROVE  Content = <<>> /\ fresh \cup (IF item = None THEN {} ELSE {item}) = Items /\ taken = {}
    BY Zenon DEF Abstract!Init
  <2>1. End - top = 0
    BY DEF DequeInit, End, Popping
  <2> QED
    BY <2>1 DEF DequeInit, Content
<1> QED
  BY <1>1, DequeInvariant, ContentIs, StepImplementsDeque, PTL
  DEF DequeSpec, ImplementsDeque, Abstract!Spec
=============================================================================
