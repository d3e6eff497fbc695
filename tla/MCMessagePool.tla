--------------------------- MODULE MCMessagePool ---------------------------
(* Instances of MessagePool for TLC. *)
EXTENDS MessagePool, TLC

EdgeType(from, to) == [from |-> from, to |-> to, message |-> "message"]

\* A source, a filter and a sink: edge 0 leads from 0 to 1, edge 1 from 1 to 2.
Pipeline == <<EdgeType("filter", "sink"), EdgeType("source", "filter")>>

\* Two threads start with {0, 2} and {1}; the filter and its ends change threads.
PipelineConfs == {0 :> {0, 1} @@ 1 :> {2}, 0 :> {1} @@ 1 :> {0, 2}}
=============================================================================
