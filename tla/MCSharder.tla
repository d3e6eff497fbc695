----------------------------- MODULE MCSharder -----------------------------
(* Instances of Sharder for TLC. *)
EXTENDS Sharder, TLC

\* Three threads and three shards: thread 0 has two shards and thread 2 none, or
\* each has one.  On the way from one to the other 0 and 1 want each other's
\* shards and 2 wants one of 0's.
UnevenConf == 0 :> {0, 1} @@ 1 :> {2} @@ 2 :> {}
EvenConf == 0 :> {2} @@ 1 :> {0} @@ 2 :> {1}
ThreeConfs == {UnevenConf, EvenConf}

\* Two threads: every distribution of two shards.
TwoConfs == {0 :> {0} @@ 1 :> {1}, 0 :> {1} @@ 1 :> {0}}
TwoInitial == 0 :> {0} @@ 1 :> {1}

\* Each thread's flags in a word of their own; all flags in one word.
WordPerThread == [t \in Threads |-> t]
OneWord == [t \in Threads |-> 0]
=============================================================================
