----------------------------- MODULE WorkDeque -----------------------------
(***************************************************************************)
(* What a worker's ready queue promises: the owner adds and takes work at  *)
(* the bottom, thieves take work at the top, each item is handed out once. *)
(* ChaseLevDeque is shown to implement it.                                 *)
(***************************************************************************)
EXTENDS Integers, Sequences

CONSTANT Items

VARIABLES
    content, \* the items in the deque, top first
    fresh,   \* the items not pushed yet
    taken    \* the items handed out

vars == <<content, fresh, taken>>

Init == content = <<>> /\ fresh = Items /\ taken = {}

Push(x) ==
    /\ x \in fresh
    /\ fresh' = fresh \ {x}
    /\ content' = Append(content, x)
    /\ UNCHANGED taken

PopBottom ==
    /\ content # <<>>
    /\ content' = SubSeq(content, 1, Len(content) - 1)
    /\ taken' = taken \cup {content[Len(content)]}
    /\ UNCHANGED fresh

StealTop ==
    /\ content # <<>>
    /\ content' = Tail(content)
    /\ taken' = taken \cup {Head(content)}
    /\ UNCHANGED fresh

Next == (\E x \in Items : Push(x)) \/ PopBottom \/ StealTop

Spec == Init /\ [][Next]_vars
=============================================================================
