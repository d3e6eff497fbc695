------------------------------ MODULE MCQueue ------------------------------
(* Instances of LockFreeQueue for TLC. *)
EXTENDS LockFreeQueue, TLC

CONSTANTS p1, p2, c1, c2, n1, n2, n3, n4, n5, a, b

OnePusher == {p1}
TwoPushers == {p1, p2}
OnePopper == {c1}
TwoPoppers == {c1, c2}

\* What the pushers push.
TwoValues == p1 :> <<a, b>>
OneEach == p1 :> <<a>> @@ p2 :> <<b>>

FourNodes == {n1, n2, n3, n4}
FiveNodes == {n1, n2, n3, n4, n5}

\* Nodes are interchangeable in the runs that check no liveness property.
NodeSymmetry == Permutations(Nodes)
=============================================================================
