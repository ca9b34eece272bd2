--------------------------- MODULE ChaseLevDeque ---------------------------
(***************************************************************************)
(* ChaselevDeque, the work-stealing deque of a worker: push_bottom and     *)
(* pop_bottom by the owner against steal_top by any number of thieves.     *)
(* Every access to top_, bottom_ and array_ that another thread can see is *)
(* a step, in program order: pop_bottom's fetch_sub is a read-modify-write *)
(* and orders the load of top_ after it on the supported targets.          *)
(***************************************************************************)
EXTENDS Integers, Sequences

CONSTANTS
    Thieves,
    Items,            \* work items; each is pushed at most once
    InitialCapacity   \* of the circular array, a power of two
                      \* (256 in WorkPlacementScheduler)

None == "none"

ASSUME DequeAssumption == InitialCapacity \in Nat \ {0} /\ None \notin Items

VARIABLES
    top, bottom,  \* top_, bottom_
    arrays,       \* garbage_ and, last, array_: each a CircularArray, size and buf
    fresh,        \* the items the owner has not pushed yet
    taken,        \* history: the items handed out
    twice,        \* history: the items handed out more than once
    opc, item,    \* the owner's step and the item it pushes
    ob, ot,       \* the owner's locals b and t
    tpc,          \* each thief's step
    tt, ta, tv    \* its locals t, arr (an index into arrays) and out

owner == <<opc, item, ob, ot>>
thief == <<tpc, tt, ta, tv>>
dequeHistory == <<fresh, taken, twice>>
dequeVars == <<top, bottom, arrays, dequeHistory, owner, thief>>

Array == Len(arrays)
ArrayCapacity(g) == arrays[g].size
Get(g, i) == arrays[g].buf[i % ArrayCapacity(g)]
Stored(g, i, v) ==
    [size |-> ArrayCapacity(g), buf |-> [arrays[g].buf EXCEPT ![i % ArrayCapacity(g)] = v]]

DequeInit ==
    /\ top = 0 /\ bottom = 0
    /\ arrays = <<[size |-> InitialCapacity, buf |-> [j \in 0 .. InitialCapacity - 1 |-> None]]>>
    /\ fresh = Items /\ taken = {} /\ twice = {}
    /\ opc = "idle" /\ item = None /\ ob = 0 /\ ot = 0
    /\ tpc = [h \in Thieves |-> "idle"]
    /\ tt = [h \in Thieves |-> 0]
    /\ ta = [h \in Thieves |-> 1]
    /\ tv = [h \in Thieves |-> None]

HandOut(x) ==
    /\ taken' = taken \cup {x}
    /\ twice' = IF x \in taken THEN twice \cup {x} ELSE twice
    /\ UNCHANGED fresh

-----------------------------------------------------------------------------
\* push_bottom

PushLoad(x) ==
    /\ opc = "idle" /\ x \in fresh
    /\ fresh' = fresh \ {x}
    /\ item' = x /\ ob' = bottom /\ ot' = top
    /\ opc' = IF bottom - top > ArrayCapacity(Array) - 1 THEN "grow" ELSE "put"
    /\ UNCHANGED <<top, bottom, arrays, taken, twice, thief>>

\* The elements at positions t to b - 1 are copied to an array of twice the size.
Grown(b, t) ==
    LET capacity == 2 * ArrayCapacity(Array)
    IN  [size |-> capacity,
         buf |-> [j \in 0 .. capacity - 1 |->
                    LET here == {i \in t .. b - 1 : i % capacity = j}
                    IN  IF here = {} THEN None ELSE Get(Array, CHOOSE i \in here : TRUE)]]

Grow ==
    /\ opc = "grow"
    /\ arrays' = Append(arrays, Grown(ob, ot))
    /\ opc' = "put"
    /\ UNCHANGED <<top, bottom, dequeHistory, item, ob, ot, thief>>

Put ==
    /\ opc = "put"
    /\ arrays' = [arrays EXCEPT ![Array] = Stored(Array, ob, item)]
    /\ opc' = "publish"
    /\ UNCHANGED <<top, bottom, dequeHistory, item, ob, ot, thief>>

PublishBottom ==
    /\ opc = "publish"
    /\ bottom' = ob + 1
    /\ opc' = "idle" /\ item' = None
    /\ UNCHANGED <<top, arrays, dequeHistory, ob, ot, thief>>

-----------------------------------------------------------------------------
\* pop_bottom

PopDecrement ==
    /\ opc = "idle"
    /\ bottom' = bottom - 1 /\ ob' = bottom - 1
    /\ opc' = "load"
    /\ UNCHANGED <<top, arrays, dequeHistory, item, ot, thief>>

\* Mutant: the last item is taken without the compare-exchange on top_.
PopLoadTopLastFree ==
    /\ opc = "load"
    /\ ot' = top
    /\ IF ob < top
       THEN opc' = "restore" /\ UNCHANGED dequeHistory
       ELSE opc' = "idle" /\ HandOut(Get(Array, ob))
    /\ UNCHANGED <<top, bottom, arrays, item, ob, thief>>

\* Nothing left, one left (a thief may want it too), or more than one.
PopLoadTop ==
    /\ opc = "load"
    /\ ot' = top
    /\ \/ ob < top /\ opc' = "restore" /\ UNCHANGED dequeHistory
       \/ ob = top /\ opc' = "cas" /\ UNCHANGED dequeHistory
       \/ ob > top /\ opc' = "idle" /\ HandOut(Get(Array, ob))
    /\ UNCHANGED <<top, bottom, arrays, item, ob, thief>>

PopCas ==
    /\ opc = "cas"
    /\ IF top = ot
       THEN top' = top + 1 /\ HandOut(Get(Array, ob))
       ELSE UNCHANGED <<top, dequeHistory>>
    /\ opc' = "restore"
    /\ UNCHANGED <<bottom, arrays, item, ob, ot, thief>>

PopRestore ==
    /\ opc = "restore"
    /\ bottom' = ob + 1
    /\ opc' = "idle"
    /\ UNCHANGED <<top, arrays, dequeHistory, item, ob, ot, thief>>

-----------------------------------------------------------------------------
\* steal_top

StealLoadTop(h) ==
    /\ tpc[h] = "idle"
    /\ tt' = [tt EXCEPT ![h] = top]
    /\ tpc' = [tpc EXCEPT ![h] = "bottom"]
    /\ UNCHANGED <<top, bottom, arrays, dequeHistory, owner, ta, tv>>

StealLoadBottom(h) ==
    /\ tpc[h] = "bottom"
    /\ tpc' = [tpc EXCEPT ![h] = IF bottom - tt[h] <= 0 THEN "idle" ELSE "array"]
    /\ UNCHANGED <<top, bottom, arrays, dequeHistory, owner, tt, ta, tv>>

StealLoadArray(h) ==
    /\ tpc[h] = "array"
    /\ ta' = [ta EXCEPT ![h] = Array]
    /\ tpc' = [tpc EXCEPT ![h] = "read"]
    /\ UNCHANGED <<top, bottom, arrays, dequeHistory, owner, tt, tv>>

StealRead(h) ==
    /\ tpc[h] = "read"
    /\ tv' = [tv EXCEPT ![h] = Get(ta[h], tt[h])]
    /\ tpc' = [tpc EXCEPT ![h] = "cas"]
    /\ UNCHANGED <<top, bottom, arrays, dequeHistory, owner, tt, ta>>

\* Mutant: top_ is advanced by a plain increment.
StealCasUnchecked(h) ==
    /\ tpc[h] = "cas"
    /\ top' = top + 1 /\ HandOut(tv[h])
    /\ tpc' = [tpc EXCEPT ![h] = "idle"]
    /\ tv' = [tv EXCEPT ![h] = None]
    /\ UNCHANGED <<bottom, arrays, owner, tt, ta>>

StealCas(h) ==
    /\ tpc[h] = "cas"
    /\ IF top = tt[h]
       THEN top' = top + 1 /\ HandOut(tv[h])
       ELSE UNCHANGED <<top, dequeHistory>>
    /\ tpc' = [tpc EXCEPT ![h] = "idle"]
    /\ tv' = [tv EXCEPT ![h] = None]
    /\ UNCHANGED <<bottom, arrays, owner, tt, ta>>

\* Work items are alike: which of the fresh ones is pushed next is fixed.
NextItem == CHOOSE x \in fresh : TRUE

OwnerStep ==
    \/ fresh # {} /\ PushLoad(NextItem)
    \/ Grow \/ Put \/ PublishBottom
    \/ PopDecrement \/ PopLoadTop \/ PopCas \/ PopRestore

ThiefStep(h) ==
    \/ StealLoadTop(h) \/ StealLoadBottom(h) \/ StealLoadArray(h)
    \/ StealRead(h) \/ StealCas(h)

DequeNext == OwnerStep \/ \E h \in Thieves : ThiefStep(h)

DequeSpec == DequeInit /\ [][DequeNext]_dequeVars

-----------------------------------------------------------------------------
\* Properties

\* Every variable stays in its range. bottom_ is -1 while pop_bottom looks at an
\* empty deque.
DequeTypeOK ==
    /\ top \in Nat /\ bottom \in Int /\ bottom >= -1
    /\ arrays # <<>>
    /\ \A g \in DOMAIN arrays : arrays[g].buf \in [0 .. arrays[g].size - 1 -> Items \cup {None}]
    /\ fresh \subseteq Items /\ taken \subseteq Items /\ twice \subseteq taken
    /\ opc \in {"idle", "grow", "put", "publish", "load", "cas", "restore"}
    /\ item \in Items \cup {None} /\ ob \in Int /\ ot \in Nat
    /\ tpc \in [Thieves -> {"idle", "bottom", "array", "read", "cas"}]
    /\ tt \in [Thieves -> Nat] /\ ta \in [Thieves -> 1 .. Len(arrays)]
    /\ tv \in [Thieves -> Items \cup {None}]

Popping == opc \in {"load", "cas", "restore"}

\* One past the last position that holds an item: during pop_bottom the item at
\* the decremented bottom_ is still there.
End == IF Popping THEN bottom + 1 ELSE bottom

Content == [i \in 1 .. End - top |-> Get(Array, top + i - 1)]

\* No work item is handed out twice, however pop_bottom and the thieves'
\* steal_top race for the last one and however often the array is reused or grown.
HandedOutOnce == twice = {}

\* A work item that was pushed is in the deque or was handed out: none is lost
\* when the array grows under a thief or bottom_ is put back.
NoneLost ==
    \A x \in Items \ (fresh \cup taken) :
        (\E i \in DOMAIN Content : Content[i] = x) \/ (item = x /\ opc # "idle")

\* What a thief read is still the item at its position when its compare-exchange
\* can succeed: the owner reuses a slot of the circular array, and leaves an old
\* array behind, only for positions below top_.
ThiefReadsCurrent ==
    \A h \in Thieves : tpc[h] = "cas" /\ tt[h] = top => top < End /\ tv[h] = Get(Array, top)

\* The deque's safety: every pushed item is handed out at most once and not lost, and a
\* thief that can still win holds the current item.
DequeInv == DequeTypeOK /\ HandedOutOnce /\ NoneLost /\ ThiefReadsCurrent

Abstract == INSTANCE WorkDeque
    WITH content <- Content,
         fresh <- fresh \cup (IF item = None THEN {} ELSE {item})

\* The deque behaves as one whose push, pop and steal are single steps, the
\* owner at the bottom and the thieves at the top.
ImplementsDeque == Abstract!Spec
=============================================================================
