---------------------------- MODULE MCResharding ----------------------------
(* Instances of Resharding for TLC. *)
EXTENDS Resharding

EdgeType(from, to) == [from |-> from, to |-> to, message |-> "message"]

\* Three message processors that send to each other in a ring.
Ring == <<EdgeType("c", "a"), EdgeType("b", "c"), EdgeType("a", "b")>>

\* A source that feeds two workers, which report to one sink.
Diamond == <<EdgeType("worker2", "sink"), EdgeType("worker1", "sink"),
             EdgeType("source", "worker2"), EdgeType("source", "worker1")>>
=============================================================================
