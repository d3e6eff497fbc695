-------------------------------- MODULE Heap --------------------------------
(***************************************************************************)
(* What an allocator promises its consumers: memory with the alignment     *)
(* they asked for, of which each byte belongs to one of them until it is   *)
(* given back.                                                             *)
(***************************************************************************)
EXTENDS Integers

VARIABLE given  \* what consumers hold: [pointer, size, alignment, ...]

Apart(g, h) == g.pointer + g.size <= h.pointer \/ h.pointer + h.size <= g.pointer

Init == given = {}

Allocate == \E g \in given' \ given :
    /\ given' = given \cup {g}
    /\ \A h \in given : Apart(g, h)
    /\ g.size > 0 => g.pointer % g.alignment = 0

Deallocate == \E g \in given : given' = given \ {g}

Next == Allocate \/ Deallocate

Spec == Init /\ [][Next]_given
=============================================================================
