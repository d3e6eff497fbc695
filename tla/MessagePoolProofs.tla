-------------------------- MODULE MessagePoolProofs --------------------------
(***************************************************************************)
(* Theorems about MessagePool, for any tree of message processors, number  *)
(* of threads, distributions and bounds: the order in which messages are   *)
(* handled, and the pointers to condition variables by which a sender      *)
(* wakes the receiver's thread.                                            *)
(***************************************************************************)
EXTENDS MessagePool, ReshardingProofs, FiniteSetTheorems, SequenceTheorems

(* The inductive invariant *)

\* The configuration a thread follows: the current one or, until it has switched, the
\* one before.
Followed(t) == IF t \in behind THEN other ELSE plan

Switching == {"lock", "on_switch", "unlock"}
Working == {"pre_process", "wait", "woken", "process", "running", "notify", "edges"}
Calling == {"running", "notify", "edges"}  \* a thread is at a message processor
Replanning == {"reshard", "resharding", "publish"}

\* The configurations.
PlanInv ==
    /\ OneThreadEach(plan) /\ other \in [Threads -> SUBSET MPs]
    /\ behind # {} => OneThreadEach(other)
    /\ behind \subseteq Threads /\ promised \subseteq Threads

\* A thread holds the mutexes of the configuration it follows, but for those it has
\* still to lock or has unlocked.
Holds(t) == IF pc[t] = "lock" THEN plan[t] \ todo[t]
            ELSE IF pc[t] = "unlock" THEN todo[t] ELSE Followed(t)[t]

HoldInv ==
    /\ owner \in [MPs -> Threads \cup {NULL}] /\ todo \in [Threads -> SUBSET MPs]
    /\ \A t \in Threads :
         /\ pc[t] \in {"lock", "on_switch"} => t \notin behind
         /\ pc[t] = "unlock" => t \in behind
         /\ pc[t] \in Switching \cup Working => todo[t] \subseteq Followed(t)[t]
         /\ \A mp \in MPs : owner[mp] = t <=> mp \in Holds(t)

\* A thread that has promised has all its mutexes until the next configuration, and
\* only thread 0 leads there.
PromiseInv ==
    /\ pc \in [Threads -> Switching \cup Working \cup Replanning \cup {"get_shards"}]
    /\ \A t \in promised : t \notin behind /\ pc[t] \notin Switching
    /\ \A t \in Threads : pc[t] \in Replanning => t = 0
    /\ pc[0] \in {"resharding", "publish"} => promised = Threads
    /\ pc[0] = "publish" => OneThreadEach(other)

\* What a thread does is about a message processor it has.
AtOf(t) ==
    /\ pc[t] \notin Calling => at[t] = Nowhere
    /\ pc[t] \in Calling => /\ at[t].mp \in Followed(t)[t]
                            /\ at[t].edges \subseteq GetIncomingEdges(at[t].mp)
    /\ pc[t] \in {"running", "notify"} /\ at[t].edge # NULL =>
         /\ at[t].edge \in GetIncomingEdges(at[t].mp)
         /\ queues[at[t].edge] # <<>> /\ at[t].message = Head(queues[at[t].edge])
    /\ pc[t] = "edges" => at[t].edge = NULL
    /\ pc[t] = "notify" => at[t].out \in GetOutgoingEdges(at[t].mp)

Places == [mp : MPs \cup {NULL}, edge : Edges \cup {NULL}, message : Nat,
           edges : SUBSET Edges, out : Edges \cup {NULL}]

AtInv == at \in [Threads -> Places] /\ \A t \in Threads : AtOf(t)

\* The pointers are those of the current configuration until the next one is made,
\* and a thread has copied those of the configuration it follows.
PointersInv ==
    /\ message_send_cvs \in [Edges -> Threads]
    /\ notify_condition_variables \in [Edges -> Threads \cup {NULL}]
    /\ message_send_cvs = SenderCVS(IF pc[0] = "publish" THEN other ELSE plan)
    /\ \A t \in Threads : pc[t] \notin Switching => \A mp \in Followed(t)[t] :
         \A e \in GetOutgoingEdges(mp) :
           notify_condition_variables[e] = SenderCVS(Followed(t))[e]

\* Messages are numbered in the order they are sent.
QueueInv ==
    /\ sent \in [Edges -> Nat] /\ queues \in [Edges -> Seq(Nat)]
    /\ handled \in [Edges -> Seq(Nat)]
    /\ HandledInOrder

IInv == PlanInv /\ HoldInv /\ PromiseInv /\ AtInv /\ PointersInv /\ QueueInv
----------------------------------------------------------------------------
(* Threads and configurations *)

LEMMA ConfsHaveOneThreadEach == \A distribution \in Confs : OneThreadEach(distribution)
<1>. TAKE distribution \in Confs
<1>1. /\ distribution \in [Threads -> SUBSET MPs]
      /\ \A mp \in MPs : Cardinality({t \in Threads : mp \in distribution[t]}) = 1
  BY PoolAssumption DEF Distributions
<1>2. ASSUME NEW mp \in MPs
      PROVE  \E t \in Threads : \A u \in Threads : mp \in distribution[u] <=> u = t
  <2>. DEFINE owners == {t \in Threads : mp \in distribution[t]}
  <2>1. IsFiniteSet(owners)
    BY ThreadsFacts, FS_Subset
  <2>2. Cardinality(owners) = 1
    BY <1>1
  <2>3. \E t : owners = {t}
    <3>. HIDE DEF owners
    <3>. QED  BY <2>1, <2>2, FS_Singleton
  <2>. QED  BY <2>3
<1>. QED  BY <1>1, <1>2 DEF OneThreadEach

\* The pointer for an edge leads to the one thread that has the receiver.
LEMMA SenderCVSIsServer ==
    ASSUME NEW distribution, OneThreadEach(distribution)
    PROVE  /\ SenderCVS(distribution) \in [Edges -> Threads]
           /\ \A e \in Edges : SenderCVS(distribution)[e] = Server(distribution, e)
<1>1. ASSUME NEW e \in Edges PROVE SenderCVS(distribution)[e] = Server(distribution, e)
  <2>1. PICK s \in Threads : \A u \in Threads : To(e) \in distribution[u] <=> u = s
    BY MPsAreNumbers DEF OneThreadEach
  <2>2. Server(distribution, e) = s
    BY <2>1 DEF Server
  <2>3. SenderCVS(distribution)[e] \in Threads /\ To(e) \in distribution[SenderCVS(distribution)[e]]
    BY SenderCVSHasReceiver
  <2>. QED  BY <2>1, <2>2, <2>3
<1>. QED  BY <1>1, SenderCVSHasReceiver

LEMMA InitIInv == Init => IInv
<1>. SUFFICES ASSUME Init PROVE IInv
  OBVIOUS
<1>. USE DEF Init
<1>1. plan = InitialSharding /\ behind = {} /\ owner = [mp \in MPs |-> NULL]
  BY DEF Ownership!Init
<1>2. PlanInv
  BY <1>1, InitialShardingHasOneThreadEach DEF PlanInv
<1>3. HoldInv
  BY <1>1, <1>2, PoolAssumption DEF PlanInv, OneThreadEach, HoldInv, Holds, Followed
<1>4. PromiseInv
  BY <1>1, ThreadsFacts DEF PromiseInv, Switching, Working, Replanning
<1>5. AtInv
  <2>1. at \in [Threads -> Places]
    BY DEF Places, Nowhere
  <2>. QED  BY <2>1 DEF AtInv, AtOf, Calling
<1>6. PointersInv
  BY <1>2, SenderCVSIsServer, ThreadsFacts DEF PlanInv, PointersInv, Switching
<1>7. QueueInv
  BY DEF QueueInv, HandledInOrder
<1>. QED  BY <1>2, <1>3, <1>4, <1>5, <1>6, <1>7 DEF IInv
----------------------------------------------------------------------------
(* Steps of the sharder *)

\* A step that changes no configuration, mutex, promise or pointer, and leads no
\* thread to its mutexes or to resharding.
LEMMA SharderUntouched ==
    ASSUME PlanInv, HoldInv, PromiseInv, PointersInv, UNCHANGED <<sharder, cvs>>,
           pc' \in [Threads -> Switching \cup Working \cup Replanning \cup {"get_shards"}],
           todo' \in [Threads -> SUBSET MPs],
           \A u \in Threads : \/ pc'[u] = pc[u] /\ todo'[u] = todo[u]
                              \/ /\ pc[u] \in Working /\ pc'[u] \in Working \cup {"get_shards"}
                                 /\ todo'[u] \subseteq todo[u]
    PROVE  /\ PlanInv' /\ HoldInv' /\ PromiseInv' /\ PointersInv'
           /\ \A u \in Threads : Followed(u)' = Followed(u)
<1>1. UNCHANGED <<plan, other, behind, owner, promised, message_send_cvs,
                  notify_condition_variables>>
  BY DEF sharder, cvs
<1>2. PlanInv' /\ \A u \in Threads : Followed(u)' = Followed(u)
  BY <1>1 DEF PlanInv, OneThreadEach, Followed
<1>3. 0 \in Threads
  BY ThreadsFacts
<1>4. HoldInv'
  BY <1>1, <1>2 DEF HoldInv, Holds, Switching, Working
<1>5. PromiseInv'
  <2>1. ASSUME NEW u \in Threads
        PROVE  /\ u \in promised => u \notin behind' /\ pc'[u] \notin Switching
               /\ pc'[u] \in Replanning => u = 0
    BY <1>1 DEF PromiseInv, Switching, Working, Replanning
  <2>2. pc'[0] \in {"resharding", "publish"} => pc'[0] = pc[0]
    BY <1>3 DEF Working
  <2>3. promised' \subseteq Threads
    BY <1>1 DEF PlanInv
  <2>. QED  BY <1>1, <2>1, <2>2, <2>3 DEF PromiseInv
<1>6. PointersInv'
  <2>1. \A u \in Threads : pc'[u] \notin Switching => pc[u] \notin Switching
    BY DEF Switching, Working
  <2>2. pc'[0] = "publish" <=> pc[0] = "publish"
    BY <1>3 DEF Working
  <2>. QED  BY <1>1, <1>2, <2>1, <2>2 DEF PointersInv
<1>. QED  BY <1>2, <1>4, <1>5, <1>6

\* A step of the sharder leaves alone what threads do at message processors.
LEMMA AtUntouched ==
    ASSUME AtInv, QueueInv, UNCHANGED <<at, messages>>,
           \A u \in Threads : pc[u] \in Calling \/ pc'[u] \in Calling => pc'[u] = pc[u],
           \A u \in Threads : pc[u] \in Calling => Followed(u)'[u] = Followed(u)[u]
    PROVE  AtInv' /\ QueueInv'
<1>1. UNCHANGED <<at, queues, sent, handled>>
  BY DEF messages
<1>2. QueueInv'
  BY <1>1 DEF QueueInv, HandledInOrder
<1>3. AtInv'
  <2>1. ASSUME NEW u \in Threads PROVE AtOf(u)'
    BY <1>1 DEF AtInv, AtOf, Calling
  <2>. QED  BY <1>1, <2>1 DEF AtInv
<1>. QED  BY <1>2, <1>3

LEMMA LockShardStep ==
    ASSUME IInv, NEW t \in Threads, LockShard(t)
    PROVE  IInv'
<1>0. PlanInv /\ HoldInv /\ PromiseInv /\ AtInv /\ PointersInv /\ QueueInv
  BY DEF IInv
<1>1. /\ pc[t] = "lock" /\ pc' = pc
      /\ UNCHANGED <<plan, other, behind, promised, at, is_active, cvs, messages>>
  BY <1>0 DEF LockShard, Goto, PromiseInv, Ownership!Acquire
<1>2. PICK mp \in todo[t] : /\ owner[mp] = NULL /\ owner' = [owner EXCEPT ![mp] = t]
                            /\ todo' = [todo EXCEPT ![t] = @ \ {mp}]
  BY DEF LockShard, Ownership!Acquire
<1>3. \A u \in Threads : Followed(u)' = Followed(u)
  BY <1>1 DEF Followed
<1>4. mp \in MPs /\ mp \in plan[t] /\ t \notin behind
  BY <1>0, <1>1, <1>2 DEF HoldInv, Followed, Switching
<1>5. PlanInv' /\ PromiseInv' /\ PointersInv'
  BY <1>0, <1>1, <1>3 DEF PlanInv, PromiseInv, PointersInv, cvs
<1>6. AtInv' /\ QueueInv'
  BY <1>0, <1>1, <1>3, AtUntouched
<1>7. HoldInv'
  <2>1. owner' \in [MPs -> Threads \cup {NULL}] /\ todo' \in [Threads -> SUBSET MPs]
    BY <1>0, <1>2 DEF HoldInv
  <2>2. ASSUME NEW u \in Threads
        PROVE  /\ pc'[u] \in {"lock", "on_switch"} => u \notin behind'
               /\ pc'[u] = "unlock" => u \in behind'
               /\ pc'[u] \in Switching \cup Working => todo'[u] \subseteq Followed(u)'[u]
    BY <1>0, <1>1, <1>2, <1>3 DEF HoldInv
  <2>3. ASSUME NEW u \in Threads, NEW m \in MPs
        PROVE  owner'[m] = u <=> m \in Holds(u)'
    <3>1. NULL \notin Threads
      BY PoolAssumption
    <3>2. u # t => Holds(u)' = Holds(u)
      BY <1>0, <1>1, <1>2, <1>3 DEF HoldInv, Holds
    <3>3. Holds(t)' = Holds(t) \cup {mp}
      BY <1>0, <1>1, <1>2, <1>4 DEF HoldInv, Holds
    <3>. QED  BY <1>0, <1>2, <1>4, <3>1, <3>2, <3>3 DEF HoldInv
  <2>. QED  BY <2>1, <2>2, <2>3 DEF HoldInv
<1>. QED  BY <1>5, <1>6, <1>7 DEF IInv

\* A thread goes on with all the mutexes it had, to somewhere else than to its mutexes.
LEMMA GoesOn ==
    ASSUME PlanInv, HoldInv, NEW t \in Threads, NEW to,
           UNCHANGED <<plan, other, behind, owner>>, pc' = [pc EXCEPT ![t] = to],
           pc \in [Threads -> Switching \cup Working \cup Replanning \cup {"get_shards"}],
           todo' \in [Threads -> SUBSET MPs], \A u \in Threads \ {t} : todo'[u] = todo[u],
           pc[t] # "lock" \/ todo[t] = {}, pc[t] # "unlock", to # "lock",
           to = "on_switch" => pc[t] = "lock",
           to = "unlock" => t \in behind /\ todo'[t] = other[t],
           to \in Switching \cup Working => todo'[t] \subseteq Followed(t)[t]
    PROVE  HoldInv' /\ \A u \in Threads : Followed(u)' = Followed(u)
<1>1. \A u \in Threads : Followed(u)' = Followed(u)
  BY DEF Followed
<1>2. pc'[t] = to /\ \A u \in Threads \ {t} : pc'[u] = pc[u]
  OBVIOUS
<1>3. \A u \in Threads : Holds(u)' = Holds(u)
  <2>1. \A u \in Threads \ {t} : Holds(u)' = Holds(u)
    BY <1>1, <1>2 DEF Holds
  <2>2. Holds(t) = Followed(t)[t]
    <3>1. CASE pc[t] = "lock"
      BY <3>1 DEF HoldInv, Holds, Followed
    <3>2. CASE pc[t] # "lock"
      BY <3>2 DEF Holds
    <3>. QED  BY <3>1, <3>2
  <2>3. Holds(t)' = Followed(t)'[t]
    <3>1. CASE to = "unlock"
      BY <1>2, <3>1 DEF Holds, Followed
    <3>2. CASE to # "unlock"
      BY <1>2, <3>2 DEF Holds
    <3>. QED  BY <3>1, <3>2
  <2>. QED  BY <1>1, <2>1, <2>2, <2>3
<1>4. ASSUME NEW u \in Threads
      PROVE  /\ pc'[u] \in {"lock", "on_switch"} => u \notin behind'
             /\ pc'[u] = "unlock" => u \in behind'
             /\ pc'[u] \in Switching \cup Working => todo'[u] \subseteq Followed(u)'[u]
  BY <1>1, <1>2 DEF HoldInv
<1>. QED  BY <1>1, <1>3, <1>4 DEF HoldInv

LEMMA ShardsLockedStep ==
    ASSUME IInv, NEW t \in Threads, ShardsLocked(t)
    PROVE  IInv'
<1>0. PlanInv /\ HoldInv /\ PromiseInv /\ AtInv /\ PointersInv /\ QueueInv
  BY DEF IInv
<1>1. /\ pc[t] = "lock" /\ pc' = [pc EXCEPT ![t] = "on_switch"] /\ todo[t] = {}
      /\ UNCHANGED <<plan, other, behind, owner, promised, todo, at, message_send_cvs,
                     notify_condition_variables, messages>>
  BY DEF ShardsLocked, Goto, sharder, cvs
<1>2. HoldInv' /\ \A u \in Threads : Followed(u)' = Followed(u)
  <2>1. todo' \in [Threads -> SUBSET MPs]
        /\ pc \in [Threads -> Switching \cup Working \cup Replanning \cup {"get_shards"}]
    BY <1>0, <1>1 DEF HoldInv, PromiseInv
  <2>. QED  BY <1>0, <1>1, <2>1, GoesOn
<1>3. pc'[t] = "on_switch" /\ \A u \in Threads \ {t} : pc'[u] = pc[u]
  BY <1>0, <1>1 DEF PromiseInv
<1>4. PlanInv' /\ PromiseInv'
  BY <1>0, <1>1, <1>3, ThreadsFacts DEF PlanInv, PromiseInv, Switching, Replanning
<1>5. AtInv' /\ QueueInv'
  BY <1>0, <1>1, <1>2, <1>3, AtUntouched DEF Calling
<1>6. PointersInv'
  <2>1. pc'[0] = "publish" <=> pc[0] = "publish"
    BY <1>1, <1>3, ThreadsFacts
  <2>. QED  BY <1>0, <1>1, <1>2, <1>3, <2>1 DEF PointersInv, Switching
<1>. QED  BY <1>2, <1>4, <1>5, <1>6 DEF IInv

\* No thread switches to a configuration while the next one is made.
LEMMA NobodySwitches ==
    ASSUME PlanInv, PromiseInv, pc[0] \in {"resharding", "publish"}
    PROVE  promised = Threads /\ behind = {} /\ \A t \in Threads : pc[t] \notin Switching
  BY DEF PlanInv, PromiseInv

LEMMA OnSwitchStep ==
    ASSUME IInv, NEW t \in Threads, OnSwitch(t)
    PROVE  IInv'
<1>0. PlanInv /\ HoldInv /\ PromiseInv /\ AtInv /\ PointersInv /\ QueueInv
  BY DEF IInv
<1>1. /\ pc[t] = "on_switch" /\ pc' = [pc EXCEPT ![t] = "get_shards"]
      /\ UNCHANGED <<plan, other, behind, owner, promised, todo, at, message_send_cvs,
                     messages>>
  BY DEF OnSwitch, Goto, sharder
<1>2. HoldInv' /\ \A u \in Threads : Followed(u)' = Followed(u)
  <2>1. todo' \in [Threads -> SUBSET MPs] /\ "get_shards" \notin Switching \cup Working
        /\ pc \in [Threads -> Switching \cup Working \cup Replanning \cup {"get_shards"}]
    BY <1>0, <1>1 DEF HoldInv, PromiseInv, Switching, Working
  <2>. QED  BY <1>0, <1>1, <2>1, GoesOn
<1>3. pc'[t] = "get_shards" /\ \A u \in Threads \ {t} : pc'[u] = pc[u]
  BY <1>0, <1>1 DEF PromiseInv
<1>4. PlanInv' /\ PromiseInv'
  BY <1>0, <1>1, <1>3, ThreadsFacts DEF PlanInv, PromiseInv, Switching, Replanning
<1>5. AtInv' /\ QueueInv'
  BY <1>0, <1>1, <1>2, <1>3, AtUntouched DEF Calling
<1>6. pc[0] # "publish" /\ pc'[0] # "publish" /\ t \notin behind /\ Followed(t) = plan
  BY <1>0, <1>1, <1>3, NobodySwitches, ThreadsFacts DEF HoldInv, Followed, Switching
<1>7. PointersInv'
  <2>1. /\ message_send_cvs' \in [Edges -> Threads] /\ message_send_cvs = SenderCVS(plan)
        /\ message_send_cvs' = SenderCVS(plan')
    BY <1>0, <1>1, <1>6 DEF PointersInv
  <2>2. notify_condition_variables' =
          [e \in Edges |-> IF e \in SwitchedEdges(t) THEN message_send_cvs[e]
                           ELSE notify_condition_variables[e]]
    BY DEF OnSwitch
  <2>3. notify_condition_variables' \in [Edges -> Threads \cup {NULL}]
    BY <1>0, <2>2 DEF PointersInv
  <2>4. ASSUME NEW u \in Threads, pc'[u] \notin Switching, NEW mp \in Followed(u)[u],
               NEW e \in GetOutgoingEdges(mp)
        PROVE  notify_condition_variables'[e] = SenderCVS(Followed(u))[e]
    <3>1. e \in Edges /\ From(e) = mp /\ mp \in MPs
      BY <1>0, <2>4 DEF GetOutgoingEdges, PlanInv, OneThreadEach, Followed
    <3>2. CASE u = t
      <4>1. e \in SwitchedEdges(t)
        BY <1>6, <3>2 DEF SwitchedEdges
      <4>. QED  BY <1>6, <2>1, <2>2, <3>1, <3>2, <4>1
    <3>3. CASE u # t
      <4>1. pc[u] \notin Switching /\ owner[mp] = u
        BY <1>0, <1>3, <2>4, <3>1, <3>3 DEF HoldInv, Holds, Switching
      <4>2. ASSUME NEW m \in plan[t], e \in GetOutgoingEdges(m) PROVE FALSE
        <5>1. m = mp
          BY <3>1, <4>2 DEF GetOutgoingEdges
        <5>2. owner[mp] = t
          BY <1>0, <1>1, <1>6, <3>1, <5>1 DEF HoldInv, Holds
        <5>. QED  BY <3>3, <4>1, <5>2
      <4>3. e \notin SwitchedEdges(t)
        BY <4>2 DEF SwitchedEdges
      <4>. QED  BY <1>0, <2>2, <2>4, <3>1, <4>1, <4>3 DEF PointersInv
    <3>. QED  BY <3>2, <3>3
  <2>. QED  BY <1>2, <1>6, <2>1, <2>3, <2>4 DEF PointersInv
<1>. QED  BY <1>2, <1>4, <1>5, <1>7 DEF IInv

LEMMA GetShardsStep ==
    ASSUME IInv, NEW t \in Threads, GetShards(t)
    PROVE  IInv'
<1>0. PlanInv /\ HoldInv /\ PromiseInv /\ AtInv /\ PointersInv /\ QueueInv
  BY DEF IInv
<1>. DEFINE to == IF t \in behind THEN "unlock" ELSE "pre_process"
<1>1. /\ pc[t] = "get_shards" /\ pc' = [pc EXCEPT ![t] = to]
      /\ todo' = [todo EXCEPT ![t] = Followed(t)[t]]
      /\ UNCHANGED <<plan, other, behind, owner, promised, at, message_send_cvs,
                     notify_condition_variables, messages>>
  BY DEF GetShards, Goto, sharder, cvs, Followed
<1>2. HoldInv' /\ \A u \in Threads : Followed(u)' = Followed(u)
  <2>1. todo' \in [Threads -> SUBSET MPs] /\ todo'[t] = Followed(t)[t]
        /\ \A u \in Threads \ {t} : todo'[u] = todo[u]
    BY <1>0, <1>1 DEF PlanInv, OneThreadEach, HoldInv, Followed
  <2>2. pc \in [Threads -> Switching \cup Working \cup Replanning \cup {"get_shards"}]
    BY <1>0 DEF PromiseInv
  <2>3. /\ to # "lock" /\ to # "on_switch"
        /\ to = "unlock" => t \in behind /\ todo'[t] = other[t]
    BY <2>1 DEF Followed
  <2>. HIDE DEF to
  <2>. QED  BY <1>0, <1>1, <2>1, <2>2, <2>3, GoesOn
<1>3. pc'[t] = to /\ \A u \in Threads \ {t} : pc'[u] = pc[u]
  BY <1>0, <1>1 DEF PromiseInv
<1>4. PlanInv' /\ PromiseInv'
  BY <1>0, <1>1, <1>3, ThreadsFacts DEF PlanInv, PromiseInv, Switching, Working, Replanning
<1>5. AtInv' /\ QueueInv'
  BY <1>0, <1>1, <1>2, <1>3, AtUntouched DEF Calling
<1>6. PointersInv'
  <2>1. pc'[0] = "publish" <=> pc[0] = "publish"
    BY <1>1, <1>3, ThreadsFacts
  <2>2. \A u \in Threads : pc'[u] \notin Switching => pc[u] \notin Switching
    BY <1>1, <1>3 DEF Switching
  <2>. QED  BY <1>0, <1>1, <1>2, <2>1, <2>2 DEF PointersInv
<1>. QED  BY <1>2, <1>4, <1>5, <1>6 DEF IInv

LEMMA UnlockShardStep ==
    ASSUME IInv, NEW t \in Threads, UnlockShard(t)
    PROVE  IInv'
<1>0. PlanInv /\ HoldInv /\ PromiseInv /\ AtInv /\ PointersInv /\ QueueInv
  BY DEF IInv
<1>1. /\ pc[t] = "unlock" /\ pc' = pc
      /\ UNCHANGED <<plan, other, behind, promised, at, is_active, cvs, messages>>
  BY <1>0 DEF UnlockShard, Goto, PromiseInv, Ownership!Release
<1>2. PICK mp \in todo[t] : /\ owner[mp] = t /\ owner' = [owner EXCEPT ![mp] = NULL]
                            /\ todo' = [todo EXCEPT ![t] = @ \ {mp}]
  BY DEF UnlockShard, Ownership!Release
<1>3. \A u \in Threads : Followed(u)' = Followed(u)
  BY <1>1 DEF Followed
<1>4. mp \in MPs
  BY <1>0, <1>2 DEF HoldInv
<1>5. PlanInv' /\ PromiseInv' /\ PointersInv'
  BY <1>0, <1>1, <1>3 DEF PlanInv, PromiseInv, PointersInv, cvs
<1>6. AtInv' /\ QueueInv'
  BY <1>0, <1>1, <1>3, AtUntouched
<1>7. HoldInv'
  <2>1. owner' \in [MPs -> Threads \cup {NULL}] /\ todo' \in [Threads -> SUBSET MPs]
    BY <1>0, <1>2 DEF HoldInv
  <2>2. ASSUME NEW u \in Threads
        PROVE  /\ pc'[u] \in {"lock", "on_switch"} => u \notin behind'
               /\ pc'[u] = "unlock" => u \in behind'
               /\ pc'[u] \in Switching \cup Working => todo'[u] \subseteq Followed(u)'[u]
    BY <1>0, <1>1, <1>2, <1>3 DEF HoldInv
  <2>3. ASSUME NEW u \in Threads, NEW m \in MPs
        PROVE  owner'[m] = u <=> m \in Holds(u)'
    <3>1. NULL \notin Threads
      BY PoolAssumption
    <3>2. u # t => Holds(u)' = Holds(u)
      BY <1>0, <1>1, <1>2, <1>3 DEF HoldInv, Holds
    <3>3. Holds(t)' = Holds(t) \ {mp}
      BY <1>0, <1>1, <1>2, <1>4 DEF HoldInv, Holds
    <3>. QED  BY <1>0, <1>2, <1>4, <3>1, <3>2, <3>3 DEF HoldInv
  <2>. QED  BY <2>1, <2>2, <2>3 DEF HoldInv
<1>. QED  BY <1>5, <1>6, <1>7 DEF IInv

LEMMA ShardsUnlockedStep ==
    ASSUME IInv, NEW t \in Threads, ShardsUnlocked(t)
    PROVE  IInv'
<1>0. PlanInv /\ HoldInv /\ PromiseInv /\ AtInv /\ PointersInv /\ QueueInv
  BY DEF IInv
<1>1. /\ pc[t] = "unlock" /\ pc' = [pc EXCEPT ![t] = "lock"] /\ todo[t] = {}
      /\ t \in behind /\ behind' = behind \ {t} /\ todo' = [todo EXCEPT ![t] = plan[t]]
      /\ UNCHANGED <<plan, other, owner, promised, at, message_send_cvs,
                     notify_condition_variables, messages>>
  BY DEF ShardsUnlocked, Goto, cvs, Ownership!Adopt
<1>2. pc'[t] = "lock" /\ \A u \in Threads \ {t} : pc'[u] = pc[u]
  BY <1>0, <1>1 DEF PromiseInv
<1>3. Followed(t)' = plan /\ \A u \in Threads \ {t} : Followed(u)' = Followed(u)
  BY <1>1 DEF Followed
<1>4. PlanInv' /\ PromiseInv'
  BY <1>0, <1>1, <1>2, ThreadsFacts DEF PlanInv, PromiseInv, Switching, Replanning
<1>5. AtInv' /\ QueueInv'
  BY <1>0, <1>1, <1>2, <1>3, AtUntouched DEF Calling
<1>6. PointersInv'
  <2>1. pc'[0] = "publish" <=> pc[0] = "publish"
    BY <1>1, <1>2, ThreadsFacts
  <2>. QED  BY <1>0, <1>1, <1>2, <1>3, <2>1 DEF PointersInv, Switching
<1>7. HoldInv'
  <2>1. /\ todo'[t] = plan[t] /\ \A u \in Threads \ {t} : todo'[u] = todo[u]
        /\ todo' \in [Threads -> SUBSET MPs]
    BY <1>0, <1>1 DEF HoldInv, PlanInv, OneThreadEach
  <2>2. Holds(t) = {} /\ Holds(t)' = {}
    BY <1>1, <1>2, <2>1 DEF Holds
  <2>3. \A u \in Threads \ {t} : Holds(u)' = Holds(u)
    BY <1>1, <1>2, <1>3, <2>1 DEF Holds
  <2>4. ASSUME NEW u \in Threads
        PROVE  /\ pc'[u] \in {"lock", "on_switch"} => u \notin behind'
               /\ pc'[u] = "unlock" => u \in behind'
               /\ pc'[u] \in Switching \cup Working => todo'[u] \subseteq Followed(u)'[u]
    BY <1>0, <1>1, <1>2, <1>3, <2>1 DEF HoldInv
  <2>. QED  BY <1>0, <1>1, <2>1, <2>2, <2>3, <2>4 DEF HoldInv
<1>. QED  BY <1>4, <1>5, <1>6, <1>7 DEF IInv

LEMMA CheckTimeStep ==
    ASSUME IInv, NEW t \in Threads, CheckTime(t)
    PROVE  IInv'
<1>0. PlanInv /\ HoldInv /\ PromiseInv /\ AtInv /\ PointersInv /\ QueueInv
  BY DEF IInv
<1>1. PICK to \in {"get_shards", "reshard"} :
        pc' = [pc EXCEPT ![t] = to] /\ (to = "reshard" => t = 0)
  BY DEF CheckTime
<1>2. /\ pc[t] = "process" /\ promised' \in {promised, promised \cup ({t} \ behind)}
      /\ UNCHANGED <<plan, other, behind, owner, todo, at, message_send_cvs,
                     notify_condition_variables, messages>>
  BY DEF CheckTime, cvs
<1>3. pc'[t] = to /\ \A u \in Threads \ {t} : pc'[u] = pc[u]
  BY <1>0, <1>1 DEF PromiseInv
<1>4. HoldInv' /\ \A u \in Threads : Followed(u)' = Followed(u)
  <2>1. todo' \in [Threads -> SUBSET MPs] /\ to \notin Switching \cup Working
        /\ pc \in [Threads -> Switching \cup Working \cup Replanning \cup {"get_shards"}]
    BY <1>0, <1>2 DEF HoldInv, PromiseInv, Switching, Working
  <2>2. to # "lock" /\ to # "on_switch" /\ to # "unlock"
    OBVIOUS
  <2>. QED  BY <1>0, <1>1, <1>2, <2>1, <2>2, GoesOn
<1>5. PlanInv'
  BY <1>0, <1>2 DEF PlanInv
<1>6. PromiseInv'
  <2>1. pc' \in [Threads -> Switching \cup Working \cup Replanning \cup {"get_shards"}]
    BY <1>0, <1>1 DEF PromiseInv, Replanning
  <2>2. \A u \in promised' : u \notin behind' /\ pc'[u] \notin Switching
    BY <1>0, <1>2, <1>3 DEF PlanInv, PromiseInv, Switching
  <2>3. \A u \in Threads : pc'[u] \in Replanning => u = 0
    BY <1>0, <1>1, <1>3 DEF PromiseInv, Replanning
  <2>4. pc'[0] \in {"resharding", "publish"} => pc'[0] = pc[0]
    BY <1>3, ThreadsFacts
  <2>5. promised \subseteq promised' /\ promised' \subseteq Threads
    BY <1>0, <1>2 DEF PlanInv
  <2>. QED  BY <1>0, <1>2, <2>1, <2>2, <2>3, <2>4, <2>5 DEF PromiseInv
<1>7. AtInv' /\ QueueInv'
  BY <1>0, <1>1, <1>2, <1>3, <1>4, AtUntouched DEF Calling
<1>8. PointersInv'
  <2>1. pc'[0] = "publish" <=> pc[0] = "publish"
    BY <1>2, <1>3, ThreadsFacts
  <2>2. \A u \in Threads : pc'[u] \notin Switching => pc[u] \notin Switching
    BY <1>2, <1>3 DEF Switching
  <2>. QED  BY <1>0, <1>2, <1>4, <2>1, <2>2 DEF PointersInv
<1>. QED  BY <1>4, <1>5, <1>6, <1>7, <1>8 DEF IInv

LEMMA ReshardStep ==
    ASSUME IInv, NEW t \in Threads, Reshard(t)
    PROVE  IInv'
<1>0. PlanInv /\ HoldInv /\ PromiseInv /\ AtInv /\ PointersInv /\ QueueInv
  BY DEF IInv
<1>1. PICK to \in {"get_shards", "resharding"} :
        pc' = [pc EXCEPT ![t] = to] /\ (to = "resharding" => promised = Threads)
  BY DEF Reshard, Goto, AllPromised
<1>2. /\ pc[t] = "reshard"
      /\ UNCHANGED <<plan, other, behind, owner, promised, todo, at, message_send_cvs,
                     notify_condition_variables, messages>>
  BY DEF Reshard, Goto, sharder, cvs
<1>3. pc'[t] = to /\ \A u \in Threads \ {t} : pc'[u] = pc[u]
  BY <1>0, <1>1 DEF PromiseInv
<1>4. HoldInv' /\ \A u \in Threads : Followed(u)' = Followed(u)
  <2>1. todo' \in [Threads -> SUBSET MPs] /\ to \notin Switching \cup Working
        /\ pc \in [Threads -> Switching \cup Working \cup Replanning \cup {"get_shards"}]
    BY <1>0, <1>2 DEF HoldInv, PromiseInv, Switching, Working
  <2>2. to # "lock" /\ to # "on_switch" /\ to # "unlock"
    OBVIOUS
  <2>. QED  BY <1>0, <1>1, <1>2, <2>1, <2>2, GoesOn
<1>5. PlanInv'
  BY <1>0, <1>2 DEF PlanInv
<1>6. PromiseInv'
  <2>1. t = 0
    BY <1>0, <1>2 DEF PromiseInv, Replanning
  <2>2. pc' \in [Threads -> Switching \cup Working \cup Replanning \cup {"get_shards"}]
    BY <1>0, <1>1 DEF PromiseInv, Replanning
  <2>. QED  BY <1>0, <1>1, <1>2, <1>3, <2>1, <2>2 DEF PlanInv, PromiseInv, Switching, Replanning
<1>7. AtInv' /\ QueueInv'
  BY <1>0, <1>1, <1>2, <1>3, <1>4, AtUntouched DEF Calling
<1>8. PointersInv'
  <2>1. pc'[0] = "publish" <=> pc[0] = "publish"
    BY <1>2, <1>3, ThreadsFacts
  <2>2. \A u \in Threads : pc'[u] \notin Switching => pc[u] \notin Switching
    BY <1>2, <1>3 DEF Switching
  <2>. QED  BY <1>0, <1>2, <1>4, <2>1, <2>2 DEF PointersInv
<1>. QED  BY <1>4, <1>5, <1>6, <1>7, <1>8 DEF IInv

LEMMA GetReshardingStep ==
    ASSUME IInv, NEW t \in Threads, GetResharding(t)
    PROVE  IInv'
<1>0. PlanInv /\ HoldInv /\ PromiseInv /\ AtInv /\ PointersInv /\ QueueInv
  BY DEF IInv
<1>1. /\ pc[t] = "resharding" /\ pc' = [pc EXCEPT ![t] = "publish"]
      /\ other' \in Confs /\ message_send_cvs' = SenderCVS(other')
      /\ UNCHANGED <<plan, behind, owner, promised, todo, at, notify_condition_variables,
                     messages>>
  BY DEF GetResharding, Goto
<1>2. t = 0
  BY <1>0, <1>1 DEF PromiseInv, Replanning
<1>3. promised = Threads /\ behind = {} /\ \A u \in Threads : pc[u] \notin Switching
  BY <1>0, <1>1, <1>2, NobodySwitches
<1>4. pc'[0] = "publish" /\ \A u \in Threads \ {0} : pc'[u] = pc[u]
  BY <1>0, <1>1, <1>2 DEF PromiseInv
<1>5. OneThreadEach(other') /\ \A u \in Threads : Followed(u)' = Followed(u)
  BY <1>1, <1>3, ConfsHaveOneThreadEach DEF Followed
<1>6. PlanInv'
  BY <1>0, <1>1, <1>5 DEF PlanInv, OneThreadEach
<1>7. PromiseInv'
  <2>1. pc' \in [Threads -> Switching \cup Working \cup Replanning \cup {"get_shards"}]
    BY <1>0, <1>1 DEF PromiseInv, Replanning
  <2>2. \A u \in Threads : pc'[u] \notin Switching
    BY <1>3, <1>4 DEF Switching
  <2>. QED  BY <1>0, <1>1, <1>2, <1>3, <1>4, <1>5, <2>1, <2>2 DEF PromiseInv
<1>8. HoldInv'
  <2>1. \A u \in Threads : Holds(u)' = Holds(u)
    BY <1>1, <1>2, <1>4, <1>5 DEF Holds
  <2>2. pc'[0] \notin Switching \cup Working
    BY <1>4 DEF Switching, Working
  <2>. QED  BY <1>0, <1>1, <1>2, <1>4, <1>5, <2>1, <2>2 DEF HoldInv, Switching
<1>9. AtInv' /\ QueueInv'
  BY <1>0, <1>1, <1>2, <1>4, <1>5, AtUntouched DEF Calling
<1>10. PointersInv'
  BY <1>0, <1>1, <1>3, <1>4, <1>5, SenderCVSIsServer DEF PointersInv
<1>. QED  BY <1>6, <1>7, <1>8, <1>9, <1>10 DEF IInv

LEMMA PublishConfStep ==
    ASSUME IInv, NEW t \in Threads, PublishConf(t)
    PROVE  IInv'
<1>0. PlanInv /\ HoldInv /\ PromiseInv /\ AtInv /\ PointersInv /\ QueueInv
  BY DEF IInv
<1>1. /\ pc[t] = "publish" /\ pc' = [pc EXCEPT ![t] = "get_shards"]
      /\ plan' = other /\ other' = plan /\ behind' = Threads /\ promised' = {}
      /\ UNCHANGED <<owner, todo, at, message_send_cvs, notify_condition_variables, messages>>
  BY DEF PublishConf, Goto, Ownership!Replan, cvs
<1>2. t = 0
  BY <1>0, <1>1 DEF PromiseInv, Replanning
<1>3. promised = Threads /\ behind = {} /\ \A u \in Threads : pc[u] \notin Switching
  BY <1>0, <1>1, <1>2, NobodySwitches
<1>4. pc'[0] = "get_shards" /\ \A u \in Threads \ {0} : pc'[u] = pc[u]
  BY <1>0, <1>1, <1>2 DEF PromiseInv
<1>5. \A u \in Threads : Followed(u)' = Followed(u) /\ pc'[u] \notin Switching
  BY <1>1, <1>3, <1>4 DEF Followed, Switching
<1>6. PlanInv'
  <2>1. OneThreadEach(plan') /\ OneThreadEach(other')
    BY <1>0, <1>1, <1>2 DEF PlanInv, PromiseInv
  <2>. QED  BY <1>1, <2>1 DEF PlanInv, OneThreadEach
<1>7. PromiseInv'
  <2>1. pc' \in [Threads -> Switching \cup Working \cup Replanning \cup {"get_shards"}]
    BY <1>0, <1>1 DEF PromiseInv, Replanning
  <2>. QED  BY <1>0, <1>1, <1>2, <1>4, <2>1 DEF PromiseInv, Replanning
<1>8. HoldInv'
  <2>1. \A u \in Threads : Holds(u)' = Holds(u)
    BY <1>3, <1>5 DEF Holds, Switching
  <2>2. pc'[0] \notin Switching \cup Working
    BY <1>4 DEF Switching, Working
  <2>. QED  BY <1>0, <1>1, <1>2, <1>4, <1>5, <2>1, <2>2 DEF HoldInv, Switching
<1>9. AtInv' /\ QueueInv'
  BY <1>0, <1>1, <1>2, <1>4, <1>5, AtUntouched DEF Calling
<1>10. PointersInv'
  <2>1. message_send_cvs = SenderCVS(other)
    BY <1>0, <1>1, <1>2 DEF PointersInv
  <2>. QED  BY <1>0, <1>1, <1>3, <1>4, <1>5, <2>1 DEF PointersInv
<1>. QED  BY <1>6, <1>7, <1>8, <1>9, <1>10 DEF IInv
----------------------------------------------------------------------------
(* Steps of the controller *)

LEMMA ControllerMoves ==
    ASSUME IInv, NEW t \in Threads, pc[t] \in Working, NEW to \in Working \cup {"get_shards"},
           NEW left \in SUBSET todo[t], UNCHANGED <<sharder, cvs>>,
           pc' = [pc EXCEPT ![t] = to], todo' = [todo EXCEPT ![t] = left]
    PROVE  /\ PlanInv' /\ HoldInv' /\ PromiseInv' /\ PointersInv'
           /\ \A u \in Threads : Followed(u)' = Followed(u)
           /\ pc'[t] = to /\ \A u \in Threads \ {t} : pc'[u] = pc[u]
<1>0. PlanInv /\ HoldInv /\ PromiseInv /\ PointersInv
  BY DEF IInv
<1>1. /\ pc' \in [Threads -> Switching \cup Working \cup Replanning \cup {"get_shards"}]
      /\ pc'[t] = to /\ \A u \in Threads \ {t} : pc'[u] = pc[u]
  BY <1>0 DEF PromiseInv
<1>2. /\ todo' \in [Threads -> SUBSET MPs] /\ todo'[t] = left
      /\ \A u \in Threads \ {t} : todo'[u] = todo[u]
  BY <1>0 DEF HoldInv
<1>. QED  BY <1>0, <1>1, <1>2, SharderUntouched

\* What the other threads do is not disturbed by a step that leaves the heads of the
\* queues they receive from.
LEMMA OthersAt ==
    ASSUME AtInv, NEW t \in Threads,
           \A u \in Threads : Followed(u)' = Followed(u),
           \A u \in Threads \ {t} :
             /\ at'[u] = at[u]
             /\ pc'[u] = pc[u] \/ (pc[u] = "wait" /\ pc'[u] = "woken")
             /\ pc[u] \in {"running", "notify"} /\ at[u].edge # NULL =>
                  /\ queues[at[u].edge] # <<>> => queues'[at[u].edge] # <<>>
                  /\ queues[at[u].edge] # <<>> =>
                       Head(queues'[at[u].edge]) = Head(queues[at[u].edge])
    PROVE  \A u \in Threads \ {t} : AtOf(u)'
  BY DEF AtInv, AtOf, Calling

\* The same for a step that changes no queue.
LEMMA QueuesUntouched ==
    ASSUME AtInv, QueueInv, NEW t \in Threads, UNCHANGED messages,
           \A u \in Threads : Followed(u)' = Followed(u), at' \in [Threads -> Places],
           \A u \in Threads \ {t} :
             at'[u] = at[u] /\ (pc'[u] = pc[u] \/ (pc[u] = "wait" /\ pc'[u] = "woken")),
           AtOf(t)'
    PROVE  AtInv' /\ QueueInv'
<1>1. UNCHANGED <<queues, sent, handled>>
  BY DEF messages
<1>2. \A u \in Threads \ {t} : AtOf(u)'
  BY <1>1, OthersAt
<1>. QED  BY <1>1, <1>2 DEF AtInv, QueueInv, HandledInOrder

\* PreProcess, and the end of a wait.
LEMMA PreProcessStep ==
    ASSUME IInv, NEW t \in Threads, PreProcess(t) \/ WakeUp(t) \/ TimeOut(t)
    PROVE  IInv'
<1>0. HoldInv /\ AtInv /\ QueueInv
  BY DEF IInv
<1>1. PICK to \in {"process", "wait"} : pc' = [pc EXCEPT ![t] = to]
  BY DEF PreProcess, WakeUp, TimeOut, Goto
<1>2. pc[t] \in {"pre_process", "woken", "wait"} /\ UNCHANGED <<sharder, todo, at, cvs, messages>>
  BY DEF PreProcess, WakeUp, TimeOut, Goto
<1>3. todo' = [todo EXCEPT ![t] = todo[t]] /\ pc[t] \in Working /\ to \in Working
  BY <1>0, <1>2 DEF HoldInv, Working
<1>4. /\ PlanInv' /\ HoldInv' /\ PromiseInv' /\ PointersInv'
      /\ \A u \in Threads : Followed(u)' = Followed(u)
      /\ pc'[t] = to /\ \A u \in Threads \ {t} : pc'[u] = pc[u]
  BY <1>1, <1>2, <1>3, ControllerMoves
<1>5. AtOf(t)'
  BY <1>0, <1>2, <1>4 DEF AtInv, AtOf, Calling
<1>6. AtInv' /\ QueueInv'
  BY <1>0, <1>2, <1>4, <1>5, QueuesUntouched DEF AtInv
<1>. QED  BY <1>4, <1>6 DEF IInv

LEMMA PingStep ==
    ASSUME IInv, NEW t \in Threads, Ping(t)
    PROVE  IInv'
<1>0. HoldInv /\ AtInv /\ QueueInv
  BY DEF IInv
<1>1. PICK mp \in todo[t] : todo' = [todo EXCEPT ![t] = @ \ {mp}] /\ at' = [at EXCEPT ![t].mp = mp]
  BY DEF Ping
<1>2. pc[t] = "process" /\ pc' = [pc EXCEPT ![t] = "running"] /\ UNCHANGED <<sharder, cvs, messages>>
  BY DEF Ping, Goto
<1>3. /\ todo' = [todo EXCEPT ![t] = todo[t] \ {mp}] /\ todo[t] \ {mp} \in SUBSET todo[t]
      /\ pc[t] \in Working /\ "running" \in Working
  BY <1>0, <1>1, <1>2 DEF HoldInv, Working
<1>4. /\ PlanInv' /\ HoldInv' /\ PromiseInv' /\ PointersInv'
      /\ \A u \in Threads : Followed(u)' = Followed(u)
      /\ pc'[t] = "running" /\ \A u \in Threads \ {t} : pc'[u] = pc[u]
  BY <1>2, <1>3, ControllerMoves
<1>5. mp \in Followed(t)[t] /\ mp \in MPs
  BY <1>0, <1>1, <1>2 DEF HoldInv, Working
<1>6. /\ at' \in [Threads -> Places] /\ at'[t] = [Nowhere EXCEPT !.mp = mp]
      /\ \A u \in Threads \ {t} : at'[u] = at[u]
  <2>1. at[t] = Nowhere
    BY <1>0, <1>2 DEF AtInv, AtOf, Calling
  <2>2. [Nowhere EXCEPT !.mp = mp] \in Places
    BY <1>5 DEF Nowhere, Places
  <2>. QED  BY <1>0, <1>1, <2>1, <2>2 DEF AtInv
<1>7. AtOf(t)'
  BY <1>4, <1>5, <1>6 DEF AtOf, Calling, Nowhere
<1>8. AtInv' /\ QueueInv'
  BY <1>0, <1>2, <1>4, <1>6, <1>7, QueuesUntouched
<1>. QED  BY <1>4, <1>8 DEF IInv

LEMMA PingReturnsStep ==
    ASSUME IInv, NEW t \in Threads, PingReturns(t)
    PROVE  IInv'
<1>0. HoldInv /\ AtInv /\ QueueInv
  BY DEF IInv
<1>1. /\ pc[t] = "running" /\ pc' = [pc EXCEPT ![t] = "edges"] /\ at[t].edge = NULL
      /\ at' = [at EXCEPT ![t].edges = GetIncomingEdges(at[t].mp)]
      /\ UNCHANGED <<sharder, todo, cvs, messages>>
  BY DEF PingReturns, Goto
<1>2. todo' = [todo EXCEPT ![t] = todo[t]] /\ pc[t] \in Working /\ "edges" \in Working
  BY <1>0, <1>1 DEF HoldInv, Working
<1>3. /\ PlanInv' /\ HoldInv' /\ PromiseInv' /\ PointersInv'
      /\ \A u \in Threads : Followed(u)' = Followed(u)
      /\ pc'[t] = "edges" /\ \A u \in Threads \ {t} : pc'[u] = pc[u]
  BY <1>1, <1>2, ControllerMoves
<1>4. /\ at' \in [Threads -> Places]
      /\ at'[t].mp = at[t].mp /\ at'[t].edge = NULL
      /\ at'[t].edges = GetIncomingEdges(at[t].mp)
      /\ \A u \in Threads \ {t} : at'[u] = at[u]
  <2>1. GetIncomingEdges(at[t].mp) \subseteq Edges
    BY DEF GetIncomingEdges
  <2>. QED  BY <1>0, <1>1, <2>1 DEF AtInv, Places
<1>5. AtOf(t)'
  BY <1>0, <1>1, <1>3, <1>4 DEF AtInv, AtOf, Calling
<1>6. AtInv' /\ QueueInv'
  BY <1>0, <1>1, <1>3, <1>4, <1>5, QueuesUntouched
<1>. QED  BY <1>3, <1>6 DEF IInv

LEMMA NotifyAboutMessageStep ==
    ASSUME IInv, NEW t \in Threads, NotifyAboutMessage(t)
    PROVE  IInv'
<1>0. HoldInv /\ AtInv /\ QueueInv
  BY DEF IInv
<1>1. PICK e \in at[t].edges :
        \/ /\ queues[e] = <<>> /\ pc' = [pc EXCEPT ![t] = "edges"]
           /\ at' = [at EXCEPT ![t].edges = @ \ {e}]
        \/ /\ queues[e] # <<>> /\ pc' = [pc EXCEPT ![t] = "running"]
           /\ at' = [at EXCEPT ![t].edges = @ \ {e}, ![t].edge = e,
                               ![t].message = Head(queues[e])]
  BY DEF NotifyAboutMessage, Goto
<1>2. PICK to \in {"edges", "running"} :
        pc' = [pc EXCEPT ![t] = to] /\ (to = "running" <=> queues[e] # <<>>)
  BY <1>1
<1>3. pc[t] = "edges" /\ UNCHANGED <<sharder, todo, cvs, messages>>
  BY DEF NotifyAboutMessage, Goto
<1>4. todo' = [todo EXCEPT ![t] = todo[t]] /\ pc[t] \in Working /\ to \in Working
  BY <1>0, <1>3 DEF HoldInv, Working
<1>5. /\ PlanInv' /\ HoldInv' /\ PromiseInv' /\ PointersInv'
      /\ \A u \in Threads : Followed(u)' = Followed(u)
      /\ pc'[t] = to /\ \A u \in Threads \ {t} : pc'[u] = pc[u]
  BY <1>2, <1>3, <1>4, ControllerMoves
<1>6. e \in Edges /\ e \in GetIncomingEdges(at[t].mp) /\ at[t].edge = NULL
  BY <1>0, <1>1, <1>3 DEF AtInv, AtOf, Calling, GetIncomingEdges
<1>7. /\ at' \in [Threads -> Places]
      /\ at'[t].mp = at[t].mp /\ at'[t].edges = at[t].edges \ {e}
      /\ to = "edges" => at'[t].edge = NULL
      /\ to = "running" => at'[t].edge = e /\ at'[t].message = Head(queues[e])
      /\ \A u \in Threads \ {t} : at'[u] = at[u]
  <2>1. queues[e] # <<>> => Head(queues[e]) \in Nat
    BY <1>0, <1>6 DEF QueueInv
  <2>2. CASE to = "edges"
    <3>1. at' = [at EXCEPT ![t].edges = @ \ {e}]
      BY <1>1, <1>2, <2>2
    <3>. QED  BY <1>0, <1>6, <2>2, <3>1 DEF AtInv, Places
  <2>3. CASE to = "running"
    <3>1. at' = [at EXCEPT ![t].edges = @ \ {e}, ![t].edge = e, ![t].message = Head(queues[e])]
      BY <1>1, <1>2, <2>3
    <3>. DEFINE place == [at[t] EXCEPT !.edges = @ \ {e}, !.edge = e, !.message = Head(queues[e])]
    <3>2. at[t] \in Places
      BY <1>0 DEF AtInv
    <3>3. place \in Places
      BY <1>2, <1>6, <2>1, <2>3, <3>2 DEF Places
    <3>4. place.mp = at[t].mp
      BY <3>2 DEF Places
    <3>5. place.edges = at[t].edges \ {e} /\ place.edge = e /\ place.message = Head(queues[e])
      BY <3>2 DEF Places
    <3>6. at' = [at EXCEPT ![t] = place]
      BY <1>0, <3>1 DEF AtInv
    <3>. HIDE DEF place
    <3>. QED  BY <1>0, <2>3, <3>3, <3>4, <3>5, <3>6 DEF AtInv
  <2>. QED  BY <2>2, <2>3
<1>8. AtOf(t)'
  <2>1. UNCHANGED queues
    BY <1>3 DEF messages
  <2>. QED  BY <1>0, <1>2, <1>3, <1>5, <1>6, <1>7, <2>1 DEF AtInv, AtOf, Calling
<1>9. AtInv' /\ QueueInv'
  BY <1>0, <1>3, <1>5, <1>7, <1>8, QueuesUntouched
<1>. QED  BY <1>5, <1>9 DEF IInv

\* ShardProcessed, and an exception from Ping or Receive.
LEMMA LeaveStep ==
    ASSUME IInv, NEW t \in Threads, ShardProcessed(t) \/ Throw(t)
    PROVE  IInv'
<1>0. HoldInv /\ AtInv /\ QueueInv
  BY DEF IInv
<1>1. /\ pc[t] \in {"edges", "running"} /\ at' = [at EXCEPT ![t] = Nowhere]
      /\ UNCHANGED <<sharder, cvs, messages>>
  BY DEF ShardProcessed, Throw, Goto
<1>2. PICK to \in {"process", "get_shards"} : pc' = [pc EXCEPT ![t] = to]
  BY DEF ShardProcessed, Throw, Goto
<1>3. PICK left \in SUBSET todo[t] : todo' = [todo EXCEPT ![t] = left]
  <2>1. CASE ShardProcessed(t)
    BY <1>0, <2>1 DEF ShardProcessed, HoldInv
  <2>2. CASE Throw(t)
    BY <2>2 DEF Throw
  <2>. QED  BY <2>1, <2>2
<1>4. pc[t] \in Working /\ to \in Working \cup {"get_shards"}
  BY <1>1 DEF Working
<1>5. /\ PlanInv' /\ HoldInv' /\ PromiseInv' /\ PointersInv'
      /\ \A u \in Threads : Followed(u)' = Followed(u)
      /\ pc'[t] = to /\ \A u \in Threads \ {t} : pc'[u] = pc[u]
  BY <1>1, <1>2, <1>3, <1>4, ControllerMoves
<1>6. /\ at' \in [Threads -> Places] /\ at'[t] = Nowhere
      /\ \A u \in Threads \ {t} : at'[u] = at[u]
  <2>1. Nowhere \in Places
    BY DEF Nowhere, Places
  <2>. QED  BY <1>0, <1>1, <2>1 DEF AtInv
<1>7. AtOf(t)'
  BY <1>5, <1>6 DEF AtOf, Calling
<1>8. AtInv' /\ QueueInv'
  BY <1>0, <1>1, <1>5, <1>6, <1>7, QueuesUntouched
<1>. QED  BY <1>5, <1>8 DEF IInv

LEMMA NotifyOneStep ==
    ASSUME IInv, NEW t \in Threads, NotifyOne(t)
    PROVE  IInv'
<1>0. PlanInv /\ HoldInv /\ PromiseInv /\ PointersInv /\ AtInv /\ QueueInv
  BY DEF IInv
<1>1. /\ pc[t] = "notify" /\ at' = [at EXCEPT ![t].out = NULL]
      /\ UNCHANGED <<sharder, todo, cvs, messages>>
  BY DEF NotifyOne
<1>2. /\ pc'[t] = "running" /\ DOMAIN pc' = Threads /\ pc' = [v \in Threads |-> pc'[v]]
      /\ \A u \in Threads \ {t} : pc'[u] = pc[u] \/ (pc[u] = "wait" /\ pc'[u] = "woken")
  BY DEF NotifyOne
<1>3. /\ pc' \in [Threads -> Switching \cup Working \cup Replanning \cup {"get_shards"}]
      /\ \A u \in Threads : pc'[u] = pc[u] \/ (pc[u] \in Working /\ pc'[u] \in Working)
  <2>1. \A u \in Threads : pc'[u] = pc[u] \/ (pc[u] \in Working /\ pc'[u] \in Working)
    BY <1>1, <1>2 DEF Working
  <2>2. \A u \in Threads : pc'[u] \in Switching \cup Working \cup Replanning \cup {"get_shards"}
    BY <1>0, <2>1 DEF PromiseInv
  <2>. QED  BY <1>2, <2>1, <2>2
<1>4. /\ PlanInv' /\ HoldInv' /\ PromiseInv' /\ PointersInv'
      /\ \A u \in Threads : Followed(u)' = Followed(u)
  <2>1. todo' \in [Threads -> SUBSET MPs] /\ \A u \in Threads : todo'[u] = todo[u]
    BY <1>0, <1>1 DEF HoldInv
  <2>. QED  BY <1>0, <1>1, <1>3, <2>1, SharderUntouched
<1>5. /\ at' \in [Threads -> Places]
      /\ at'[t].mp = at[t].mp /\ at'[t].edges = at[t].edges /\ at'[t].edge = at[t].edge
      /\ at'[t].message = at[t].message
      /\ \A u \in Threads \ {t} : at'[u] = at[u]
  BY <1>0, <1>1 DEF AtInv, Places
<1>6. AtOf(t)'
  <2>1. UNCHANGED queues
    BY <1>1 DEF messages
  <2>. QED  BY <1>0, <1>1, <1>2, <1>4, <1>5, <2>1 DEF AtInv, AtOf, Calling
<1>7. AtInv' /\ QueueInv'
  BY <1>0, <1>1, <1>2, <1>4, <1>5, <1>6, QueuesUntouched
<1>. QED  BY <1>4, <1>7 DEF IInv
----------------------------------------------------------------------------
(* Messages *)

\* A message that moves from the head of one sequence to the end of the one before it.
LEMMA MovedMessage ==
    ASSUME NEW h \in Seq(Nat), NEW q \in Seq(Nat), q # <<>>
    PROVE  /\ Append(h, Head(q)) \in Seq(Nat) /\ Tail(q) \in Seq(Nat) /\ Head(q) \in Nat
           /\ Append(h, Head(q)) \o Tail(q) = h \o q
<1>1. Append(h, Head(q)) \in Seq(Nat) /\ Tail(q) \in Seq(Nat) /\ Head(q) \in Nat
  OBVIOUS
<1>2. Len(Append(h, Head(q)) \o Tail(q)) = Len(h \o q)
  OBVIOUS
<1>3. \A i \in 1 .. Len(h \o q) : (Append(h, Head(q)) \o Tail(q))[i] = (h \o q)[i]
  OBVIOUS
<1>4. Append(h, Head(q)) \o Tail(q) \in Seq(Nat) /\ h \o q \in Seq(Nat)
  BY <1>1
<1>. QED  BY <1>1, <1>2, <1>3, <1>4, SeqEqual

LEMMA ConcatenatedMessages ==
    ASSUME NEW h \in Seq(Nat), NEW q \in Seq(Nat)
    PROVE  /\ Len(h) \in Nat /\ Len(q) \in Nat
           /\ \A i \in 1 .. Len(h) + Len(q) :
                (h \o q)[i] = IF i <= Len(h) THEN h[i] ELSE q[i - Len(h)]
  BY ConcatProperties

LEMMA AppendedMessage ==
    ASSUME NEW h \in Seq(Nat), NEW q \in Seq(Nat), NEW n \in Nat, h \o q = [i \in 1 .. n |-> i]
    PROVE  /\ Append(q, n + 1) \in Seq(Nat)
           /\ h \o Append(q, n + 1) = [i \in 1 .. n + 1 |-> i]
           /\ q # <<>> => Append(q, n + 1) # <<>> /\ Head(Append(q, n + 1)) = Head(q)
<1>1. Append(q, n + 1) \in Seq(Nat)
  OBVIOUS
<1>2. Len(h) + Len(q) = n
  OBVIOUS
<1>3. \A i \in 1 .. n : (h \o q)[i] = i
  OBVIOUS
<1>4. ASSUME NEW i \in 1 .. n + 1 PROVE (h \o Append(q, n + 1))[i] = i
  <2>1. /\ Len(h) \in Nat /\ Len(q) \in Nat /\ Len(Append(q, n + 1)) = Len(q) + 1
        /\ \A k \in 1 .. Len(q) : Append(q, n + 1)[k] = q[k]
        /\ Append(q, n + 1)[Len(q) + 1] = n + 1
    OBVIOUS
  <2>2. (h \o Append(q, n + 1))[i]
           = IF i <= Len(h) THEN h[i] ELSE Append(q, n + 1)[i - Len(h)]
    <3>1. i \in 1 .. Len(h) + Len(Append(q, n + 1))
      BY <1>2, <2>1
    <3>. QED  BY <1>1, <3>1, ConcatenatedMessages
  <2>3. i <= n => i = IF i <= Len(h) THEN h[i] ELSE q[i - Len(h)]
    <3>1. i <= n => i \in 1 .. n /\ i \in 1 .. Len(h) + Len(q)
      BY <1>2, <2>1
    <3>. QED  BY <1>3, <3>1, ConcatenatedMessages
  <2>4. CASE i <= n
    <3>1. i > Len(h) => i - Len(h) \in 1 .. Len(q)
      BY <1>2, <2>1, <2>4
    <3>. QED  BY <2>1, <2>2, <2>3, <2>4, <3>1
  <2>5. CASE i = n + 1
    BY <1>2, <2>1, <2>2, <2>5
  <2>. QED  BY <2>4, <2>5
<1>5. h \o Append(q, n + 1) = [i \in 1 .. n + 1 |-> i]
  <2>. DEFINE longer == Append(q, n + 1)
              all == h \o longer
  <2>1. Len(longer) = Len(q) + 1
    OBVIOUS
  <2>2. all \in Seq(Nat) /\ Len(all) = Len(h) + Len(longer) /\ Len(h) \in Nat
    BY <1>1, ConcatProperties
  <2>3. Len(all) = n + 1 /\ \A i \in 1 .. n + 1 : all[i] = i
    BY <1>2, <1>4, <2>1, <2>2
  <2>. HIDE DEF all
  <2>4. all = [i \in 1 .. Len(all) |-> all[i]]
    BY <2>2
  <2>. QED  BY <2>3, <2>4 DEF all
<1>6. q # <<>> => Append(q, n + 1) # <<>> /\ Head(Append(q, n + 1)) = Head(q)
  OBVIOUS
<1>. QED  BY <1>1, <1>5, <1>6

LEMMA ReceiveReturnsStep ==
    ASSUME IInv, NEW t \in Threads, ReceiveReturns(t)
    PROVE  IInv'
<1>0. PlanInv /\ HoldInv /\ AtInv /\ QueueInv
  BY DEF IInv
<1>. DEFINE e == at[t].edge
<1>1. /\ pc[t] = "running" /\ pc' = [pc EXCEPT ![t] = "edges"] /\ e # NULL
      /\ queues' = [queues EXCEPT ![e] = Tail(@)]
      /\ handled' = [handled EXCEPT ![e] = Append(@, at[t].message)]
      /\ at' = [at EXCEPT ![t].edge = NULL, ![t].message = 0]
      /\ UNCHANGED <<sharder, todo, cvs, sent>>
  BY DEF ReceiveReturns, Goto
<1>2. todo' = [todo EXCEPT ![t] = todo[t]] /\ pc[t] \in Working /\ "edges" \in Working
  BY <1>0, <1>1 DEF HoldInv, Working
<1>3. /\ PlanInv' /\ HoldInv' /\ PromiseInv' /\ PointersInv'
      /\ \A u \in Threads : Followed(u)' = Followed(u)
      /\ pc'[t] = "edges" /\ \A u \in Threads \ {t} : pc'[u] = pc[u]
  BY <1>1, <1>2, ControllerMoves
<1>4. /\ e \in Edges /\ To(e) = at[t].mp /\ queues[e] # <<>> /\ at[t].message = Head(queues[e])
      /\ at[t].mp \in Followed(t)[t] /\ at[t].edges \subseteq GetIncomingEdges(at[t].mp)
  BY <1>0, <1>1 DEF AtInv, AtOf, Calling, GetIncomingEdges
<1>5. /\ at' \in [Threads -> Places]
      /\ at'[t].mp = at[t].mp /\ at'[t].edges = at[t].edges /\ at'[t].edge = NULL
      /\ \A u \in Threads \ {t} : at'[u] = at[u]
  BY <1>0, <1>1 DEF AtInv, Places
<1>6. AtOf(t)'
  BY <1>3, <1>4, <1>5 DEF AtOf, Calling
\* Nobody else receives from the same edge.
<1>7. ASSUME NEW u \in Threads \ {t}, pc[u] \in {"running", "notify"}, at[u].edge # NULL
      PROVE  queues'[at[u].edge] = queues[at[u].edge]
  <2>1. at[u].edge \in Edges /\ To(at[u].edge) = at[u].mp /\ at[u].mp \in Followed(u)[u]
    BY <1>0, <1>7 DEF AtInv, AtOf, Calling, GetIncomingEdges
  <2>2. at[u].mp \in MPs /\ at[t].mp \in MPs
    BY <1>4, <2>1, MPsAreNumbers
  <2>3. owner[at[u].mp] = u /\ owner[at[t].mp] = t
    BY <1>0, <1>1, <1>4, <1>7, <2>1, <2>2 DEF HoldInv, Holds
  <2>4. at[u].edge # e
    BY <1>4, <2>1, <2>3
  <2>. QED  BY <1>0, <1>1, <2>1, <2>4 DEF QueueInv
<1>8. AtInv'
  <2>1. \A u \in Threads \ {t} : AtOf(u)'
    BY <1>0, <1>3, <1>5, <1>7, OthersAt
  <2>. QED  BY <1>5, <1>6, <2>1 DEF AtInv
<1>9. QueueInv'
  <2>1. /\ Append(handled[e], Head(queues[e])) \in Seq(Nat) /\ Tail(queues[e]) \in Seq(Nat)
        /\ Append(handled[e], Head(queues[e])) \o Tail(queues[e]) = handled[e] \o queues[e]
    BY <1>0, <1>4, MovedMessage DEF QueueInv
  <2>2. /\ queues'[e] = Tail(queues[e]) /\ handled'[e] = Append(handled[e], Head(queues[e]))
        /\ \A d \in Edges \ {e} : queues'[d] = queues[d] /\ handled'[d] = handled[d]
    BY <1>0, <1>1, <1>4 DEF QueueInv
  <2>3. queues' \in [Edges -> Seq(Nat)] /\ handled' \in [Edges -> Seq(Nat)]
    BY <1>0, <1>1, <1>4, <2>1 DEF QueueInv
  <2>4. HandledInOrder'
    BY <1>0, <1>1, <2>1, <2>2 DEF QueueInv, HandledInOrder
  <2>. QED  BY <1>0, <1>1, <2>3, <2>4 DEF QueueInv
<1>. QED  BY <1>3, <1>8, <1>9 DEF IInv

LEMMA SendStep ==
    ASSUME IInv, NEW t \in Threads, Send(t)
    PROVE  IInv'
<1>0. HoldInv /\ AtInv /\ QueueInv
  BY DEF IInv
<1>1. PICK e \in GetOutgoingEdges(at[t].mp) :
        /\ sent' = [sent EXCEPT ![e] = @ + 1]
        /\ queues' = [queues EXCEPT ![e] = Append(@, sent[e] + 1)]
        /\ at' = [at EXCEPT ![t].out = e]
  BY DEF Send
<1>2. /\ pc[t] = "running" /\ pc' = [pc EXCEPT ![t] = "notify"]
      /\ UNCHANGED <<sharder, todo, cvs, handled>>
  BY DEF Send, Goto
<1>3. todo' = [todo EXCEPT ![t] = todo[t]] /\ pc[t] \in Working /\ "notify" \in Working
  BY <1>0, <1>2 DEF HoldInv, Working
<1>4. /\ PlanInv' /\ HoldInv' /\ PromiseInv' /\ PointersInv'
      /\ \A u \in Threads : Followed(u)' = Followed(u)
      /\ pc'[t] = "notify" /\ \A u \in Threads \ {t} : pc'[u] = pc[u]
  BY <1>2, <1>3, ControllerMoves
<1>5. e \in Edges
  BY DEF GetOutgoingEdges
<1>6. /\ at' \in [Threads -> Places] /\ at'[t].out = e
      /\ at'[t].mp = at[t].mp /\ at'[t].edges = at[t].edges /\ at'[t].edge = at[t].edge
      /\ at'[t].message = at[t].message
      /\ \A u \in Threads \ {t} : at'[u] = at[u]
  BY <1>0, <1>1, <1>5 DEF AtInv, Places
<1>7. /\ Append(queues[e], sent[e] + 1) \in Seq(Nat)
      /\ handled[e] \o Append(queues[e], sent[e] + 1) = [i \in 1 .. sent[e] + 1 |-> i]
      /\ queues[e] # <<>> => /\ Append(queues[e], sent[e] + 1) # <<>>
                             /\ Head(Append(queues[e], sent[e] + 1)) = Head(queues[e])
  <2>1. /\ handled[e] \in Seq(Nat) /\ queues[e] \in Seq(Nat) /\ sent[e] \in Nat
        /\ handled[e] \o queues[e] = [i \in 1 .. sent[e] |-> i]
    BY <1>0, <1>5 DEF QueueInv, HandledInOrder
  <2>. QED  BY <2>1, AppendedMessage
<1>8. /\ queues'[e] = Append(queues[e], sent[e] + 1) /\ sent'[e] = sent[e] + 1
      /\ \A d \in Edges \ {e} : queues'[d] = queues[d] /\ sent'[d] = sent[d]
  BY <1>0, <1>1, <1>5 DEF QueueInv
<1>9. \A d \in Edges : queues[d] # <<>> => queues'[d] # <<>> /\ Head(queues'[d]) = Head(queues[d])
  BY <1>7, <1>8
<1>10. AtOf(t)'
  <2>1. at[t].edge # NULL => at[t].edge \in Edges
    BY <1>0 DEF AtInv, Places
  <2>. QED  BY <1>0, <1>2, <1>4, <1>6, <1>9, <2>1 DEF AtInv, AtOf, Calling
<1>11. AtInv'
  <2>1. ASSUME NEW u \in Threads \ {t}, at[u].edge # NULL PROVE at[u].edge \in Edges
    BY <1>0, <2>1 DEF AtInv, Places
  <2>2. \A u \in Threads \ {t} : AtOf(u)'
    BY <1>0, <1>4, <1>6, <1>9, <2>1, OthersAt
  <2>. QED  BY <1>6, <1>10, <2>2 DEF AtInv
<1>12. QueueInv'
  <2>1. /\ queues' \in [Edges -> Seq(Nat)] /\ sent' \in [Edges -> Nat]
        /\ handled' \in [Edges -> Seq(Nat)]
    BY <1>0, <1>1, <1>2, <1>5, <1>7 DEF QueueInv
  <2>2. HandledInOrder'
    BY <1>0, <1>2, <1>7, <1>8 DEF QueueInv, HandledInOrder
  <2>. QED  BY <2>1, <2>2 DEF QueueInv
<1>. QED  BY <1>4, <1>11, <1>12 DEF IInv

THEOREM PoolInvariance == Spec => []IInv
<1>1. IInv /\ [Next]_vars => IInv'
  <2>. SUFFICES ASSUME IInv, [Next]_vars PROVE IInv'
    OBVIOUS
  <2>1. ASSUME NEW t \in Threads, ThreadAction(t) PROVE IInv'
    <3>1. CASE LockShard(t) \/ ShardsLocked(t) \/ OnSwitch(t) \/ GetShards(t)
               \/ UnlockShard(t) \/ ShardsUnlocked(t)
      BY <3>1, LockShardStep, ShardsLockedStep, OnSwitchStep, GetShardsStep,
         UnlockShardStep, ShardsUnlockedStep
    <3>2. CASE CheckTime(t) \/ Reshard(t) \/ GetResharding(t) \/ PublishConf(t)
      BY <3>2, CheckTimeStep, ReshardStep, GetReshardingStep, PublishConfStep
    <3>3. CASE PreProcess(t) \/ WakeUp(t) \/ TimeOut(t) \/ Ping(t) \/ PingReturns(t)
               \/ NotifyAboutMessage(t) \/ ShardProcessed(t) \/ Throw(t) \/ NotifyOne(t)
      BY <3>3, PreProcessStep, PingStep, PingReturnsStep, NotifyAboutMessageStep,
         LeaveStep, NotifyOneStep
    <3>4. CASE ReceiveReturns(t) \/ Send(t)
      BY <3>4, ReceiveReturnsStep, SendStep
    <3>. QED  BY <2>1, <3>1, <3>2, <3>3, <3>4 DEF ThreadAction
  <2>2. CASE UNCHANGED vars
    <3>1. UNCHANGED <<pc, plan, other, behind, owner, promised, todo, at, message_send_cvs,
                      notify_condition_variables, queues, sent, handled>>
      BY <2>2 DEF vars, sharder, cvs, messages
    <3>2. \A u \in Threads : Followed(u)' = Followed(u) /\ Holds(u)' = Holds(u)
      BY <3>1 DEF Followed, Holds
    <3>3. PlanInv' /\ HoldInv' /\ PromiseInv' /\ PointersInv'
      BY <3>1, <3>2 DEF IInv, PlanInv, HoldInv, PromiseInv, PointersInv
    <3>4. AtInv' /\ QueueInv'
      BY <3>1, <3>2 DEF IInv, AtInv, AtOf, QueueInv, HandledInOrder
    <3>. QED  BY <3>3, <3>4 DEF IInv
  <2>. QED  BY <2>1, <2>2 DEF Next
<1>. QED  BY <1>1, InitIInv, PTL DEF Spec
----------------------------------------------------------------------------
(* Theorems *)

\* Whichever thread serves it, and whatever throws, a receiver's messages are handled in
\* the order in which they were sent, each one once (NotifyAboutMessage).
THEOREM AlwaysHandledInOrder == Spec => []HandledInOrder
<1>1. IInv => HandledInOrder
  BY DEF IInv, QueueInv
<1>. QED  BY <1>1, PoolInvariance, PTL

\* A sender's pointer leads to the thread that serves the receiver according to the
\* configuration the sender follows (OnSwitch, SetSenderCVS).
THEOREM SenderAlwaysWakesServer == Spec => []SenderWakesServer
<1>1. IInv => SenderWakesServer
  <2>. SUFFICES ASSUME IInv, NEW t \in Threads, pc[t] = "notify"
                PROVE  notify_condition_variables[at[t].out] = Server(Followed(t), at[t].out)
    BY DEF SenderWakesServer, Followed
  <2>1. at[t].mp \in Followed(t)[t] /\ at[t].out \in GetOutgoingEdges(at[t].mp)
    BY DEF IInv, AtInv, AtOf, Calling
  <2>2. notify_condition_variables[at[t].out] = SenderCVS(Followed(t))[at[t].out]
    BY <2>1 DEF IInv, PointersInv, Switching
  <2>3. OneThreadEach(Followed(t))
    BY DEF IInv, PlanInv, Followed
  <2>4. at[t].out \in Edges
    BY <2>1 DEF GetOutgoingEdges
  <2>. QED  BY <2>2, <2>3, <2>4, SenderCVSIsServer
<1>. QED  BY <1>1, PoolInvariance, PTL

\* No pointer to a condition variable is read while OnSwitch replaces it, and none is
\* recomputed by GetResharding while OnSwitch hands it out.
THEOREM PointersNeverRaced == Spec => []PointersNotRaced
<1>1. IInv => PointersNotRaced
  <2>. SUFFICES ASSUME IInv, NEW t \in Threads, pc[t] = "on_switch"
                PROVE  /\ pc[0] # "resharding"
                       /\ \A u \in Threads \ {t} :
                            pc[u] = "notify" => at[u].out \notin SwitchedEdges(t)
    BY DEF PointersNotRaced
  <2>0. PlanInv /\ HoldInv /\ PromiseInv /\ AtInv
    BY DEF IInv
  <2>1. pc[0] # "resharding"
    BY <2>0, NobodySwitches DEF Switching
  <2>2. ASSUME NEW u \in Threads \ {t}, pc[u] = "notify",
               NEW mp \in plan[t], at[u].out \in GetOutgoingEdges(mp)
        PROVE  FALSE
    <3>1. at[u].mp \in Followed(u)[u] /\ at[u].out \in GetOutgoingEdges(at[u].mp)
      BY <2>0, <2>2 DEF AtInv, AtOf, Calling
    <3>2. mp = at[u].mp /\ mp \in MPs
      BY <2>0, <2>2, <3>1 DEF GetOutgoingEdges, PlanInv, OneThreadEach
    <3>3. owner[mp] = u
      BY <2>0, <2>2, <3>1, <3>2 DEF HoldInv, Holds
    <3>4. owner[mp] = t
      BY <2>0, <2>2, <3>2 DEF HoldInv, Holds, Followed
    <3>. QED  BY <3>3, <3>4
  <2>. QED  BY <2>1, <2>2 DEF SwitchedEdges
<1>. QED  BY <1>1, PoolInvariance, PTL
=============================================================================
