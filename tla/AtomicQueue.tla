---------------------------- MODULE AtomicQueue ----------------------------
(***************************************************************************)
(* What report/description.tex promises of the queue in src/queue.h: a     *)
(* FIFO queue whose operations take effect at one instant.  A value is     *)
(* inserted once, between the call of its Push and its return; values are  *)
(* removed in the order they were inserted.                                *)
(***************************************************************************)
EXTENDS Sequences, Naturals

CONSTANTS Pushers,
          Script   \* Script[p]: the values p pushes, in order, all different

VARIABLES queue,   \* values in the queue, oldest first
          popped,  \* values removed, in order of removal
          pushed   \* values whose Push has returned

vars == <<queue, popped, pushed>>

Held(s) == {s[i] : i \in 1 .. Len(s)}
Inserted == Held(queue) \cup Held(popped)

Init == queue = <<>> /\ popped = <<>> /\ pushed = {}

\* A pusher's value enters the queue once its earlier ones have been pushed.
Insert(p) == \E i \in 1 .. Len(Script[p]) :
    /\ Script[p][i] \notin Inserted
    /\ \A j \in 1 .. i - 1 : Script[p][j] \in pushed
    /\ queue' = Append(queue, Script[p][i])
    /\ UNCHANGED <<popped, pushed>>

\* Push returns only when its value has been inserted.
Return(p) == \E v \in Held(Script[p]) \ pushed :
    /\ v \in Inserted
    /\ pushed' = pushed \cup {v}
    /\ UNCHANGED <<queue, popped>>

Remove ==
    /\ queue # <<>>
    /\ queue' = Tail(queue)
    /\ popped' = Append(popped, Head(queue))
    /\ UNCHANGED pushed

Next == Remove \/ \E p \in Pushers : Insert(p) \/ Return(p)

Spec == Init /\ [][Next]_vars
=============================================================================
