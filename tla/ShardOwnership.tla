--------------------------- MODULE ShardOwnership ---------------------------
(***************************************************************************)
(* What the sharder promises the code it runs (the requirements on the     *)
(* Controller in report/description.tex, as src/sharder.h keeps them).     *)
(* A shard has one owner at most.  There is one current plan; a new one is *)
(* made only when every thread has adopted the current one.  A thread that *)
(* is behind gives its shards up, adopts the plan when it has none left,   *)
(* and from then on takes the shards the plan gives it, each when its      *)
(* previous owner has given it up.                                         *)
(***************************************************************************)
EXTENDS Integers

CONSTANTS Threads, Shards, Confs, InitialConf, NoThread

VARIABLES plan,    \* the current distribution
          behind,  \* threads that have not adopted it yet
          owner    \* [Shards -> Threads \cup {NoThread}]

vars == <<plan, behind, owner>>

Init ==
    /\ plan = InitialConf
    /\ behind = {}
    /\ owner = [s \in Shards |-> NoThread]

Acquire(t, s) ==
    /\ t \notin behind
    /\ s \in plan[t]
    /\ owner[s] = NoThread
    /\ owner' = [owner EXCEPT ![s] = t]
    /\ UNCHANGED <<plan, behind>>

Release(t, s) ==
    /\ t \in behind
    /\ owner[s] = t
    /\ owner' = [owner EXCEPT ![s] = NoThread]
    /\ UNCHANGED <<plan, behind>>

Adopt(t) ==
    /\ t \in behind
    /\ \A s \in Shards : owner[s] # t
    /\ behind' = behind \ {t}
    /\ UNCHANGED <<plan, owner>>

Replan ==
    /\ behind = {}
    /\ plan' \in Confs
    /\ behind' = Threads
    /\ UNCHANGED owner

Next ==
    \/ \E t \in Threads : Adopt(t) \/ \E s \in Shards : Acquire(t, s) \/ Release(t, s)
    \/ Replan

Spec == Init /\ [][Next]_vars
=============================================================================
