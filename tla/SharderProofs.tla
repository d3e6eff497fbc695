--------------------------- MODULE SharderProofs ---------------------------
(***************************************************************************)
(* Proofs about the sharder, wherever the flags are placed in memory: each *)
(* in a word of its own, all in one word as by Vector<bool>, or otherwise. *)
(* All but type correctness holds of the executions in which no assignment *)
(* of a flag has undone another thread's, and so, of any execution, up to  *)
(* the first one that does.                                                *)
(***************************************************************************)
EXTENDS Sharder, FiniteSetTheorems, TLAPS

\* A thread's flags change in its own steps only: what an assignment writes back
\* for the neighbours in the word is what they hold by then.
OwnFlags == \A t \in Threads : pc'[t] = pc[t] =>
    can_be_updated'[t] = can_be_updated[t] /\ is_first_local'[t] = is_first_local[t]

NoFlagLost == [][OwnFlags]_vars

\* No two threads whose flags share a word are both between reading and writing it.
AssignsCanBeUpdated(t) == pc[t] \in {"set_can_be_updated", "clear_can_be_updated"}
AssignsIsFirstLocal(t) == pc[t] = "flip_local"
AssignmentsApart == \A t \in Threads : \A u \in Mates(t) \ {t} :
    /\ ~(AssignsCanBeUpdated(t) /\ AssignsCanBeUpdated(u))
    /\ ~(AssignsIsFirstLocal(t) /\ AssignsIsFirstLocal(u))

----------------------------------------------------------------------------
(* The inductive invariant. *)

\* How a thread's flags relate to the current epoch at each program point.
FlagsInv == \A t \in Threads :
    /\ pc[t] \in {"reshard", "resharding", "publish"} => t = 0
    /\ pc[t] \in {"on_switch", "promised", "clear_can_be_updated"} => can_be_updated[t]
    /\ pc[t] \in {"start", "lock", "set_can_be_updated", "on_switch"} =>
         is_first_local[t] = shadow_counter.is_first_main
    /\ pc[t] \in {"finish", "flip_local"} =>
         is_first_local[t] # shadow_counter.is_first_main
    /\ can_be_updated[t] /\ is_first_local[t] # shadow_counter.is_first_main =>
         pc[t] \in {"promised", "clear_can_be_updated"}
    /\ pc[t] = "flip_local" => word[t][t] = is_first_local[t]

\* Thread 0 writes a slot only while every promise of the epoch stands.
ReshardInv ==
    pc[0] \in {"resharding", "publish"} =>
        /\ current_counter = shadow_counter
        /\ \A t \in Threads : Promised(t)

EpochInv == FlagsInv /\ ReshardInv /\ PromisesCounted

Held(t) == {s \in Shards : shard_mutexes[s] = t}

\* Which mutexes a thread holds at each program point.
HoldsInv == \A t \in Threads :
    /\ pc[t] \in {"start", "flip_local"} => Held(t) = {}
    /\ pc[t] = "lock" => todo[t] \subseteq Own(t) /\ Held(t) = Own(t) \ todo[t]
    /\ pc[t] = "finish" => Held(t) = todo[t]
    /\ pc[t] \notin {"start", "flip_local", "lock", "finish"} => Held(t) = Own(t)
    /\ pc[t] = "process" => todo[t] \subseteq Own(t)

IInv == TypeOK /\ EpochInv /\ HoldsInv

----------------------------------------------------------------------------
LEMMA ThreadsFinite == IsFiniteSet(Threads) /\ Cardinality(Threads) = NThreads
  BY FS_Interval, ThreadsAssumption DEF Threads

\* Where no flag is lost, an assignment changes the one flag it is meant to.
LEMMA OneFlag ==
  ASSUME NEW t \in Threads, NEW bits \in [Threads -> BOOLEAN], NEW b \in BOOLEAN,
         \A u \in Threads \ {t} : WithBit(t, bits, b)[u] = bits[u]
  PROVE  WithBit(t, bits, b) = [bits EXCEPT ![t] = b]
  BY DEF WithBit

\* The step of an assignment moves its thread only.
LEMMA OthersKeepFlags ==
  ASSUME TypeOK, [OwnFlags]_vars, NEW t \in Threads, NEW to, pc[t] # to,
         pc' = [pc EXCEPT ![t] = to]
  PROVE  \A u \in Threads \ {t} : can_be_updated'[u] = can_be_updated[u]
                                  /\ is_first_local'[u] = is_first_local[u]
  <1>1. pc'[t] # pc[t] /\ \A u \in Threads \ {t} : pc'[u] = pc[u]
    BY DEF TypeOK
  <1>2. OwnFlags
    BY <1>1 DEF vars
  <1> QED
    BY <1>1, <1>2 DEF OwnFlags

LEMMA SetsOneFlag ==
  ASSUME TypeOK, [OwnFlags]_vars, NEW t \in Threads, SetCanBeUpdated(t)
  PROVE  can_be_updated' = [can_be_updated EXCEPT ![t] = TRUE]
  <1>1. can_be_updated \in [Threads -> BOOLEAN]
        /\ can_be_updated' = WithBit(t, can_be_updated, TRUE)
    BY DEF SetCanBeUpdated, TypeOK
  <1>2. pc[t] # "on_switch" /\ pc' = [pc EXCEPT ![t] = "on_switch"]
    BY DEF SetCanBeUpdated, Goto
  <1>3. \A u \in Threads \ {t} : can_be_updated'[u] = can_be_updated[u]
    BY <1>2, OthersKeepFlags
  <1> QED
    BY <1>1, <1>3, OneFlag

LEMMA ClearsOneFlag ==
  ASSUME TypeOK, [OwnFlags]_vars, NEW t \in Threads, ClearCanBeUpdated(t)
  PROVE  can_be_updated' = [can_be_updated EXCEPT ![t] = FALSE]
  <1>1. can_be_updated \in [Threads -> BOOLEAN]
        /\ can_be_updated' = WithBit(t, can_be_updated, FALSE)
    BY DEF ClearCanBeUpdated, TypeOK
  <1>2. pc[t] # AfterPromise(t) /\ pc' = [pc EXCEPT ![t] = AfterPromise(t)]
    BY DEF ClearCanBeUpdated, Goto, AfterPromise
  <1>3. \A u \in Threads \ {t} : can_be_updated'[u] = can_be_updated[u]
    BY <1>2, OthersKeepFlags
  <1> QED
    BY <1>1, <1>3, OneFlag

LEMMA FlipsOneFlag ==
  ASSUME TypeOK, [OwnFlags]_vars, NEW t \in Threads, FlipLocal(t),
         word[t][t] = is_first_local[t]
  PROVE  is_first_local' = [is_first_local EXCEPT ![t] = ~is_first_local[t]]
  <1> DEFINE b == ~is_first_local[t]
  <1>0. b \in BOOLEAN
    BY Zenon
  <1>1. is_first_local \in [Threads -> BOOLEAN]
        /\ is_first_local' = WithBit(t, is_first_local, b)
    BY DEF FlipLocal, TypeOK
  <1> HIDE DEF b
  <1>2. pc[t] # "start" /\ pc' = [pc EXCEPT ![t] = "start"]
    BY DEF FlipLocal, Goto
  <1>3. \A u \in Threads \ {t} : is_first_local'[u] = is_first_local[u]
    BY <1>2, OthersKeepFlags
  <1>4. is_first_local' = [is_first_local EXCEPT ![t] = b]
    BY <1>0, <1>1, <1>3, OneFlag
  <1> QED
    BY <1>4 DEF b

LEMMA ZeroIsAThread == 0 \in Threads
  BY ThreadsAssumption DEF Threads

----------------------------------------------------------------------------
LEMMA NoWordType == NoWord \in [Threads -> BOOLEAN]
  BY DEF NoWord

LEMMA WithBitType ==
  ASSUME TypeOK, NEW t \in Threads,
         NEW bits \in [Threads -> BOOLEAN], NEW b \in BOOLEAN
  PROVE  WithBit(t, bits, b) \in [Threads -> BOOLEAN]
  <1>1. ASSUME NEW u \in Threads
        PROVE  (IF u = t THEN b ELSE IF u \in Mates(t) THEN word[t][u] ELSE bits[u])
                 \in BOOLEAN
    <2>1. word[t][u] \in BOOLEAN
      BY DEF TypeOK
    <2>2. bits[u] \in BOOLEAN
      OBVIOUS
    <2> QED
      BY <2>1, <2>2, Zenon
  <1> QED
    BY <1>1, Zenon DEF WithBit

LEMMA TypeInit == Init => TypeOK
  <1> SUFFICES ASSUME Init PROVE TypeOK
    OBVIOUS
  <1>1. word \in [Threads -> [Threads -> BOOLEAN]]
    BY NoWordType DEF Init
  <1>2. conf \in [BOOLEAN -> [Threads -> SUBSET Shards]]
    <2>1. InitialConf \in [Threads -> SUBSET Shards]
      BY ConfsAssumption DEF IsSharding
    <2> QED
      BY <2>1 DEF Init
  <1> QED
    BY <1>1, <1>2 DEF Init, TypeOK, Points

LEMMA TypeStep == TypeOK /\ [Next]_vars => TypeOK'
  <1> SUFFICES ASSUME TypeOK, [Next]_vars PROVE TypeOK'
    OBVIOUS
  <1> USE DEF TypeOK, Points, Goto, Visit, flags, sharding
  <1>1. ASSUME NEW t \in Threads, StartConfiguration(t) PROVE TypeOK'
    BY <1>1 DEF StartConfiguration, Own
  <1>2. ASSUME NEW t \in Threads, LockShard(t) PROVE TypeOK'
    BY <1>2 DEF LockShard
  <1>3. ASSUME NEW t \in Threads, ShardsLocked(t) PROVE TypeOK'
    BY <1>3 DEF ShardsLocked, ReadWord
  <1>4. ASSUME NEW t \in Threads, SetCanBeUpdated(t) PROVE TypeOK'
    BY <1>4, NoWordType, WithBitType DEF SetCanBeUpdated, ForgetWord
  <1>5. ASSUME NEW t \in Threads, OnSwitch(t) PROVE TypeOK'
    BY <1>5 DEF OnSwitch
  <1>6. ASSUME NEW t \in Threads, GetShards(t) PROVE TypeOK'
    BY <1>6 DEF GetShards, Own
  <1>7. ASSUME NEW t \in Threads, UnlockShard(t) PROVE TypeOK'
    BY <1>7 DEF UnlockShard
  <1>8. ASSUME NEW t \in Threads, ShardsUnlocked(t) PROVE TypeOK'
    BY <1>8 DEF ShardsUnlocked, ReadWord
  <1>9. ASSUME NEW t \in Threads, FlipLocal(t) PROVE TypeOK'
    BY <1>9, NoWordType, WithBitType DEF FlipLocal, ForgetWord
  <1>10. ASSUME NEW t \in Threads, ProcessShard(t) PROVE TypeOK'
    <2>1. pc' = [pc EXCEPT ![t] = "process"] \/ pc' = [pc EXCEPT ![t] = "get_shards"]
      BY <1>10 DEF ProcessShard
    <2>2. \E S \in SUBSET Shards : todo' = [todo EXCEPT ![t] = S]
      BY <1>10 DEF ProcessShard
    <2>3. UNCHANGED <<time_elapsed, flags, sharding, shard_mutexes>>
      BY <1>10 DEF ProcessShard
    <2>4. pc' \in [Threads -> Points]
      BY <2>1
    <2>5. todo' \in [Threads -> SUBSET Shards]
      BY <2>2
    <2> QED
      BY <2>3, <2>4, <2>5
  <1>11. ASSUME NEW t \in Threads, CheckTime(t) PROVE TypeOK'
    BY <1>11 DEF CheckTime
  <1>12. ASSUME NEW t \in Threads, NoUpdatePromise(t) PROVE TypeOK'
    <2>1. CASE can_be_updated[t] /\ Goto(t, "promise", "promised")
               /\ shadow_counter' = [shadow_counter EXCEPT !.noupdate_counter = @ + 1]
      <3>1. shadow_counter' \in [is_first_main : BOOLEAN, noupdate_counter : Nat]
        <4>1. shadow_counter.noupdate_counter + 1 \in Nat
          OBVIOUS
        <4> QED
          BY <2>1, <4>1
      <3>2. UNCHANGED <<todo, time_elapsed, flags, conf, current_counter, shard_mutexes>>
        BY <1>12 DEF NoUpdatePromise
      <3> QED
        BY <2>1, <3>1, <3>2
    <2>2. CASE Goto(t, "promise", AfterPromise(t)) /\ UNCHANGED shadow_counter
      BY <1>12, <2>2 DEF NoUpdatePromise, AfterPromise
    <2> QED
      BY <1>12, <2>1, <2>2 DEF NoUpdatePromise
  <1>13. ASSUME NEW t \in Threads, PromiseCounted(t) PROVE TypeOK'
    BY <1>13 DEF PromiseCounted, ReadWord
  <1>14. ASSUME NEW t \in Threads, ClearCanBeUpdated(t) PROVE TypeOK'
    BY <1>14, NoWordType, WithBitType DEF ClearCanBeUpdated, ForgetWord, AfterPromise
  <1>15. ASSUME NEW t \in Threads, Reshard(t) PROVE TypeOK'
    BY <1>15 DEF Reshard
  <1>16. ASSUME NEW t \in Threads, AssignConf(t) PROVE TypeOK'
    BY <1>16, ConfsAssumption DEF AssignConf, IsSharding
  <1>17. ASSUME NEW t \in Threads, PublishConf(t) PROVE TypeOK'
    BY <1>17 DEF PublishConf
  <1>18. ASSUME NEW t \in Threads, TimerElapses(t) PROVE TypeOK'
    BY <1>18 DEF TimerElapses
  <1>19. ASSUME UNCHANGED vars PROVE TypeOK'
    BY <1>19 DEF vars
  <1> QED
    BY <1>1, <1>2, <1>3, <1>4, <1>5, <1>6, <1>7, <1>8, <1>9, <1>10, <1>11, <1>12,
       <1>13, <1>14, <1>15, <1>16, <1>17, <1>18, <1>19 DEF Next, ThreadAction

\* Every variable keeps its type, wherever the flags are placed (the state of Sharder).
THEOREM TypeCorrect == Spec => []TypeOK
  BY TypeInit, TypeStep, PTL DEF Spec

----------------------------------------------------------------------------
LEMMA EpochInit == Init => EpochInv
  <1> SUFFICES ASSUME Init PROVE EpochInv
    OBVIOUS
  <1>1. {t \in Threads : Promised(t)} = {}
    BY DEF Init, Promised
  <1> QED
    BY <1>1, FS_EmptySet, ZeroIsAThread DEF Init, EpochInv, FlagsInv, ReshardInv, PromisesCounted

\* A step that changes neither the counters nor who has promised.
LEMMA QuietStep ==
  ASSUME EpochInv, UNCHANGED <<shadow_counter, current_counter>>,
         \A u \in Threads : Promised(u)' <=> Promised(u),
         pc'[0] \in {"resharding", "publish"} => pc[0] \in {"resharding", "publish"}
  PROVE  ReshardInv' /\ PromisesCounted'
  <1>1. {u \in Threads : Promised(u)'} = {u \in Threads : Promised(u)}
    OBVIOUS
  <1> QED
    BY <1>1 DEF EpochInv, ReshardInv, PromisesCounted

\* The counter reaches the number of threads only when all of them have promised.
LEMMA AllPromisedMeansAll ==
  ASSUME PromisesCounted, AllPromised(shadow_counter)
  PROVE  \A u \in Threads : Promised(u)
  <1> DEFINE P == {u \in Threads : Promised(u)}
  <1>1. Cardinality(P) \in Nat /\ Cardinality(P) <= NThreads
        /\ (Cardinality(P) = NThreads => P = Threads)
    BY ThreadsFinite, FS_Subset, FS_CardinalityType
  <1>2. Cardinality(P) >= NThreads
    BY DEF PromisesCounted, AllPromised
  <1>3. P = Threads
    BY <1>1, <1>2, ThreadsAssumption
  <1> QED
    BY <1>3

LEMMA EpochStep ==
  ASSUME TypeOK, EpochInv, [Next]_vars, [OwnFlags]_vars
  PROVE  EpochInv'
  <1> USE DEF TypeOK, Points, Goto, Visit, flags, sharding
  <1> DEFINE Quiet == /\ UNCHANGED <<shadow_counter, current_counter>>
                      /\ \A u \in Threads : Promised(u)' <=> Promised(u)
                      /\ pc'[0] \in {"resharding", "publish"} =>
                           pc[0] \in {"resharding", "publish"}
  <1>q. ASSUME Quiet, FlagsInv' PROVE EpochInv'
    BY <1>q, QuietStep DEF EpochInv
  <1>1. ASSUME NEW t \in Threads, StartConfiguration(t) PROVE Quiet /\ FlagsInv'
    BY <1>1, ZeroIsAThread DEF StartConfiguration, Promised, EpochInv, FlagsInv
  <1>2. ASSUME NEW t \in Threads, LockShard(t) PROVE Quiet /\ FlagsInv'
    BY <1>2, ZeroIsAThread DEF LockShard, Promised, EpochInv, FlagsInv
  <1>3. ASSUME NEW t \in Threads, ShardsLocked(t) PROVE Quiet /\ FlagsInv'
    BY <1>3, ZeroIsAThread DEF ShardsLocked, ReadWord, Promised, EpochInv, FlagsInv
  <1>4. ASSUME NEW t \in Threads, SetCanBeUpdated(t) PROVE Quiet /\ FlagsInv'
    <2>1. can_be_updated' = [can_be_updated EXCEPT ![t] = TRUE]
      BY <1>4, SetsOneFlag
    <2>2. \A u \in Threads : u # t => word'[u] = word[u]
      BY <1>4 DEF SetCanBeUpdated, ForgetWord
    <2>3. /\ pc[t] = "set_can_be_updated" /\ pc' = [pc EXCEPT ![t] = "on_switch"]
          /\ UNCHANGED <<is_first_local, sharding>>
      BY <1>4 DEF SetCanBeUpdated
    <2>4. is_first_local[t] = shadow_counter.is_first_main
      BY <2>3 DEF EpochInv, FlagsInv
    <2>5. Quiet
      BY <2>1, <2>3, ZeroIsAThread DEF Promised
    <2>6. FlagsInv'
      BY <2>1, <2>2, <2>3, <2>4 DEF EpochInv, FlagsInv
    <2> QED
      BY <2>5, <2>6
  <1>5. ASSUME NEW t \in Threads, OnSwitch(t) PROVE Quiet /\ FlagsInv'
    BY <1>5, ZeroIsAThread DEF OnSwitch, Promised, EpochInv, FlagsInv
  <1>6. ASSUME NEW t \in Threads, GetShards(t) PROVE Quiet /\ FlagsInv'
    BY <1>6, ZeroIsAThread DEF GetShards, MustSwitch, Promised, EpochInv, FlagsInv
  <1>7. ASSUME NEW t \in Threads, UnlockShard(t) PROVE Quiet /\ FlagsInv'
    <2>1. pc[t] = "finish" /\ pc' = [pc EXCEPT ![t] = "finish"]
          /\ UNCHANGED <<flags, sharding>>
      BY <1>7 DEF UnlockShard
    <2> QED
      BY <2>1, ZeroIsAThread DEF Promised, EpochInv, FlagsInv
  <1>8. ASSUME NEW t \in Threads, ShardsUnlocked(t) PROVE Quiet /\ FlagsInv'
    <2>1. word'[t][t] = is_first_local[t]
      BY <1>8 DEF ShardsUnlocked, ReadWord, Mates
    <2>2. \A u \in Threads : u # t => word'[u] = word[u]
      BY <1>8 DEF ShardsUnlocked, ReadWord
    <2>3. /\ pc[t] = "finish" /\ pc' = [pc EXCEPT ![t] = "flip_local"]
          /\ UNCHANGED <<can_be_updated, is_first_local, sharding>>
      BY <1>8 DEF ShardsUnlocked
    <2>4. Quiet
      BY <2>3, ZeroIsAThread DEF Promised
    <2>5. FlagsInv'
      BY <2>1, <2>2, <2>3 DEF EpochInv, FlagsInv
    <2> QED
      BY <2>4, <2>5
  <1>9. ASSUME NEW t \in Threads, FlipLocal(t) PROVE Quiet /\ FlagsInv'
    <2>1. is_first_local' = [is_first_local EXCEPT ![t] = ~is_first_local[t]]
      <3>1. word[t][t] = is_first_local[t]
        BY <1>9 DEF FlipLocal, EpochInv, FlagsInv
      <3> QED
        BY <1>9, <3>1, FlipsOneFlag
    <2>2. \A u \in Threads : u # t => word'[u] = word[u]
      BY <1>9 DEF FlipLocal, ForgetWord
    <2>3. is_first_local'[t] = shadow_counter.is_first_main
      <3>1. is_first_local[t] # shadow_counter.is_first_main
        BY <1>9 DEF FlipLocal, EpochInv, FlagsInv
      <3>2. is_first_local[t] \in BOOLEAN /\ shadow_counter.is_first_main \in BOOLEAN
        OBVIOUS
      <3>3. (~is_first_local[t]) = shadow_counter.is_first_main
        BY <3>1, <3>2, Zenon
      <3> QED
        BY <2>1, <3>3
    <2>4. \A u \in Threads : u # t => is_first_local'[u] = is_first_local[u]
      BY <2>1
    <2>5. /\ pc[t] = "flip_local" /\ pc' = [pc EXCEPT ![t] = "start"]
          /\ UNCHANGED <<can_be_updated, sharding>>
      BY <1>9 DEF FlipLocal
    <2>6. is_first_local[t] # shadow_counter.is_first_main
      BY <2>5 DEF EpochInv, FlagsInv
    <2> QED
      BY <2>2, <2>3, <2>4, <2>5, <2>6, ZeroIsAThread DEF Promised, EpochInv, FlagsInv
  <1>10. ASSUME NEW t \in Threads, ProcessShard(t) PROVE Quiet /\ FlagsInv'
    <2>1. pc' = [pc EXCEPT ![t] = "process"] \/ pc' = [pc EXCEPT ![t] = "get_shards"]
      BY <1>10 DEF ProcessShard
    <2>2. pc[t] = "process" /\ UNCHANGED <<flags, sharding>>
      BY <1>10 DEF ProcessShard
    <2>3. Quiet
      BY <2>1, <2>2, ZeroIsAThread DEF Promised
    <2>4. FlagsInv'
      BY <2>1, <2>2 DEF EpochInv, FlagsInv
    <2> QED
      BY <2>3, <2>4
  <1>11. ASSUME NEW t \in Threads, CheckTime(t) PROVE Quiet /\ FlagsInv'
    BY <1>11, ZeroIsAThread DEF CheckTime, Promised, EpochInv, FlagsInv
  <1>12. ASSUME NEW t \in Threads, NoUpdatePromise(t), can_be_updated[t] PROVE EpochInv'
    <2>1. /\ pc[t] = "promise" /\ pc' = [pc EXCEPT ![t] = "promised"]
          /\ shadow_counter' = [shadow_counter EXCEPT !.noupdate_counter = @ + 1]
          /\ UNCHANGED <<flags, conf, current_counter>>
      BY <1>12 DEF NoUpdatePromise
    <2>2. ~Promised(t) /\ Promised(t)'
      BY <1>12, <2>1 DEF Promised, EpochInv, FlagsInv
    <2>3. \A u \in Threads : u # t => (Promised(u)' <=> Promised(u))
      BY <2>1 DEF Promised
    <2>4. FlagsInv'
      BY <1>12, <2>1 DEF EpochInv, FlagsInv
    <2>5. ReshardInv'
      BY <2>1, <2>2, ZeroIsAThread DEF EpochInv, ReshardInv
    <2>6. PromisesCounted'
      <3> DEFINE P == {u \in Threads : Promised(u)}
      <3>1. {u \in Threads : Promised(u)'} = P \cup {t} /\ t \notin P
        BY <2>2, <2>3
      <3>2. Cardinality(P \cup {t}) = Cardinality(P) + 1
        BY <3>1, ThreadsFinite, FS_Subset, FS_AddElement
      <3> QED
        BY <2>1, <3>1, <3>2 DEF PromisesCounted, EpochInv
    <2> QED
      BY <2>4, <2>5, <2>6 DEF EpochInv
  <1>13. ASSUME NEW t \in Threads, NoUpdatePromise(t), ~can_be_updated[t]
         PROVE  Quiet /\ FlagsInv'
    <2>1. PICK to \in {"reshard", "get_shards"} :
            pc' = [pc EXCEPT ![t] = to] /\ (to = "reshard" => t = 0)
      BY <1>13 DEF NoUpdatePromise, AfterPromise
    <2>2. pc[t] = "promise" /\ UNCHANGED <<flags, sharding>>
      BY <1>13 DEF NoUpdatePromise
    <2>3. Quiet
      BY <2>1, <2>2, ZeroIsAThread DEF Promised
    <2>4. FlagsInv'
      BY <2>1, <2>2, <1>13 DEF EpochInv, FlagsInv
    <2> QED
      BY <2>3, <2>4
  <1>14. ASSUME NEW t \in Threads, PromiseCounted(t) PROVE Quiet /\ FlagsInv'
    BY <1>14, ZeroIsAThread DEF PromiseCounted, ReadWord, Promised, EpochInv, FlagsInv
  <1>15. ASSUME NEW t \in Threads, ClearCanBeUpdated(t) PROVE Quiet /\ FlagsInv'
    <2>1. can_be_updated' = [can_be_updated EXCEPT ![t] = FALSE]
      BY <1>15, ClearsOneFlag
    <2>2. \A u \in Threads : u # t => word'[u] = word[u]
      BY <1>15 DEF ClearCanBeUpdated, ForgetWord
    <2>3. PICK to \in {"reshard", "get_shards"} :
            pc' = [pc EXCEPT ![t] = to] /\ (to = "reshard" => t = 0)
      BY <1>15 DEF ClearCanBeUpdated, AfterPromise
    <2>4. pc[t] = "clear_can_be_updated" /\ UNCHANGED <<is_first_local, sharding>>
      BY <1>15 DEF ClearCanBeUpdated
    <2>5. Quiet
      BY <2>1, <2>3, <2>4, ZeroIsAThread DEF Promised
    <2>6. FlagsInv'
      BY <2>1, <2>2, <2>3, <2>4 DEF EpochInv, FlagsInv
    <2> QED
      BY <2>5, <2>6
  <1>16. ASSUME NEW t \in Threads, Reshard(t), AllPromised(shadow_counter) PROVE EpochInv'
    <2>1. /\ t = 0 /\ pc[t] = "reshard" /\ pc' = [pc EXCEPT ![t] = "resharding"]
          /\ current_counter' = shadow_counter
          /\ UNCHANGED <<flags, conf, shadow_counter>>
      BY <1>16 DEF Reshard, EpochInv, FlagsInv
    <2>2. \A u \in Threads : Promised(u)' <=> Promised(u)
      BY <2>1 DEF Promised
    <2>3. \A u \in Threads : Promised(u)
      BY <1>16, AllPromisedMeansAll DEF EpochInv
    <2>4. FlagsInv'
      BY <2>1 DEF EpochInv, FlagsInv
    <2>5. PromisesCounted'
      <3>1. {u \in Threads : Promised(u)'} = {u \in Threads : Promised(u)}
        BY <2>2
      <3> QED
        BY <2>1, <3>1 DEF EpochInv, PromisesCounted
    <2> QED
      BY <2>1, <2>2, <2>3, <2>4, <2>5 DEF EpochInv, ReshardInv
  <1>17. ASSUME NEW t \in Threads, Reshard(t), ~AllPromised(shadow_counter)
         PROVE  Quiet /\ FlagsInv'
    BY <1>17, ZeroIsAThread DEF Reshard, Promised, EpochInv, FlagsInv
  <1>18. ASSUME NEW t \in Threads, AssignConf(t) PROVE Quiet /\ FlagsInv'
    BY <1>18, ZeroIsAThread DEF AssignConf, Promised, EpochInv, FlagsInv
  <1>19. ASSUME NEW t \in Threads, PublishConf(t) PROVE EpochInv'
    <2>1. /\ t = 0 /\ pc[0] = "publish" /\ pc' = [pc EXCEPT ![0] = "get_shards"]
          /\ UNCHANGED <<flags, conf>>
      BY <1>19 DEF PublishConf, EpochInv, FlagsInv
    <2>2. current_counter = shadow_counter /\ \A u \in Threads : Promised(u)
      BY <2>1 DEF EpochInv, ReshardInv
    <2>3. shadow_counter' = [is_first_main |-> ~shadow_counter.is_first_main,
                             noupdate_counter |-> 0]
      BY <1>19, <2>2 DEF PublishConf
    <2>4. \A u \in Threads : ~Promised(u)'
      BY <2>1, <2>2, <2>3 DEF Promised
    <2>5. FlagsInv'
      BY <2>1, <2>2, <2>3 DEF EpochInv, FlagsInv, Promised
    <2>6. ReshardInv'
      BY <2>1, ZeroIsAThread DEF ReshardInv
    <2>7. PromisesCounted'
      <3>1. {u \in Threads : Promised(u)'} = {}
        BY <2>4
      <3> QED
        BY <2>3, <3>1, FS_EmptySet DEF PromisesCounted
    <2> QED
      BY <2>5, <2>6, <2>7 DEF EpochInv
  <1>20. ASSUME NEW t \in Threads, TimerElapses(t) PROVE Quiet /\ FlagsInv'
    BY <1>20 DEF TimerElapses, Promised, EpochInv, FlagsInv
  <1>21. ASSUME UNCHANGED vars PROVE Quiet /\ FlagsInv'
    BY <1>21 DEF vars, Promised, EpochInv, FlagsInv
  <1> QED
    BY <1>q, <1>1, <1>2, <1>3, <1>4, <1>5, <1>6, <1>7, <1>8, <1>9, <1>10, <1>11,
       <1>12, <1>13, <1>14, <1>15, <1>16, <1>17, <1>18, <1>19, <1>20, <1>21
       DEF Next, ThreadAction

----------------------------------------------------------------------------
LEMMA HoldsInit == Init => HoldsInv
  BY ThreadsAssumption DEF Init, HoldsInv, Held, Threads, NoThread

\* A step by t that leaves the mutexes and every thread's own shards alone and
\* moves no other thread.
LEMMA NoLockStep ==
  ASSUME TypeOK, HoldsInv, NEW t \in Threads, NEW to, NEW S,
         UNCHANGED shard_mutexes,
         pc' = [pc EXCEPT ![t] = to], todo' = [todo EXCEPT ![t] = S],
         \A u \in Threads : Own(u)' = Own(u),
         /\ to \in {"start", "flip_local"} => Held(t) = {}
         /\ to = "lock" => S \subseteq Own(t) /\ Held(t) = Own(t) \ S
         /\ to = "finish" => Held(t) = S
         /\ to \notin {"start", "flip_local", "lock", "finish"} => Held(t) = Own(t)
         /\ to = "process" => S \subseteq Own(t)
  PROVE  HoldsInv'
  <1>1. \A u \in Threads : Held(u)' = Held(u)
    BY DEF Held
  <1>2. pc'[t] = to /\ todo'[t] = S
    BY DEF TypeOK
  <1>3. \A u \in Threads : u # t => pc'[u] = pc[u] /\ todo'[u] = todo[u]
    BY DEF TypeOK
  <1> QED
    BY <1>1, <1>2, <1>3 DEF HoldsInv

LEMMA HoldsStep ==
  ASSUME TypeOK, EpochInv, HoldsInv, [Next]_vars, [OwnFlags]_vars
  PROVE  HoldsInv'
  <1> USE DEF Goto, Visit, flags, sharding
  <1>t. ASSUME NEW t \in Threads PROVE todo = [todo EXCEPT ![t] = todo[t]]
    BY DEF TypeOK
  <1>1. ASSUME NEW t \in Threads, StartConfiguration(t) PROVE HoldsInv'
    <2>1. /\ pc[t] = "start" /\ pc' = [pc EXCEPT ![t] = "lock"]
          /\ todo' = [todo EXCEPT ![t] = Own(t)]
          /\ UNCHANGED <<shard_mutexes, conf, is_first_local>>
      BY <1>1 DEF StartConfiguration
    <2>2. Held(t) = {}
      BY <2>1 DEF HoldsInv
    <2>3. \A u \in Threads : Own(u)' = Own(u)
      BY <2>1 DEF Own
    <2> QED
      BY <2>1, <2>2, <2>3, NoLockStep
  <1>2. ASSUME NEW t \in Threads, LockShard(t) PROVE HoldsInv'
    <2>1. PICK s \in todo[t] :
            /\ pc[t] = "lock" /\ shard_mutexes[s] = NoThread
            /\ shard_mutexes' = [shard_mutexes EXCEPT ![s] = t]
            /\ pc' = [pc EXCEPT ![t] = "lock"] /\ todo' = [todo EXCEPT ![t] = @ \ {s}]
            /\ UNCHANGED <<is_first_local, conf>>
      BY <1>2 DEF LockShard
    <2>2. s \in Shards /\ s \in Own(t) /\ t # NoThread
      BY <2>1 DEF TypeOK, HoldsInv, Threads, NoThread
    <2>3. Held(t)' = Held(t) \cup {s}
      BY <2>1, <2>2 DEF Held, TypeOK
    <2>4. \A u \in Threads : u # t => Held(u)' = Held(u)
      BY <2>1, <2>2 DEF Held, TypeOK, Threads, NoThread
    <2>5. \A u \in Threads : Own(u)' = Own(u)
      BY <2>1 DEF Own
    <2>6. pc'[t] = "lock" /\ todo'[t] = todo[t] \ {s}
      BY <2>1 DEF TypeOK
    <2>7. \A u \in Threads : u # t => pc'[u] = pc[u] /\ todo'[u] = todo[u]
      BY <2>1 DEF TypeOK
    <2> QED
      BY <2>1, <2>2, <2>3, <2>4, <2>5, <2>6, <2>7 DEF HoldsInv
  <1>3. ASSUME NEW t \in Threads, ShardsLocked(t) PROVE HoldsInv'
    <2>1. Held(t) = Own(t)
      BY <1>3 DEF ShardsLocked, HoldsInv
    <2> QED
      BY <1>3, <1>t, <2>1, NoLockStep DEF ShardsLocked, Own
  <1>4. ASSUME NEW t \in Threads, SetCanBeUpdated(t) PROVE HoldsInv'
    <2>1. pc[t] = "set_can_be_updated" /\ pc' = [pc EXCEPT ![t] = "on_switch"]
          /\ UNCHANGED <<todo, shard_mutexes, conf, is_first_local>>
      BY <1>4 DEF SetCanBeUpdated
    <2>2. Held(t) = Own(t)
      BY <2>1 DEF HoldsInv
    <2>3. \A u \in Threads : Own(u)' = Own(u)
      BY <2>1 DEF Own
    <2> QED
      BY <1>t, <2>1, <2>2, <2>3, NoLockStep
  <1>5. ASSUME NEW t \in Threads, OnSwitch(t) PROVE HoldsInv'
    <2>1. pc[t] = "on_switch" /\ pc' = [pc EXCEPT ![t] = "get_shards"]
          /\ UNCHANGED <<todo, shard_mutexes, conf, is_first_local>>
      BY <1>5 DEF OnSwitch
    <2>2. Held(t) = Own(t)
      BY <2>1 DEF HoldsInv
    <2>3. \A u \in Threads : Own(u)' = Own(u)
      BY <2>1 DEF Own
    <2> QED
      BY <1>t, <2>1, <2>2, <2>3, NoLockStep
  <1>6. ASSUME NEW t \in Threads, GetShards(t) PROVE HoldsInv'
    BY <1>6, NoLockStep DEF GetShards, Own, HoldsInv
  <1>7. ASSUME NEW t \in Threads, UnlockShard(t) PROVE HoldsInv'
    <2>1. PICK s \in todo[t] :
            /\ pc[t] = "finish"
            /\ shard_mutexes' = [shard_mutexes EXCEPT ![s] = NoThread]
            /\ pc' = [pc EXCEPT ![t] = "finish"] /\ todo' = [todo EXCEPT ![t] = @ \ {s}]
            /\ UNCHANGED <<is_first_local, conf>>
      BY <1>7 DEF UnlockShard
    <2>2. s \in Shards /\ shard_mutexes[s] = t /\ t # NoThread
      BY <2>1 DEF TypeOK, HoldsInv, Held, Threads, NoThread
    <2>3. Held(t)' = Held(t) \ {s}
      BY <2>1, <2>2 DEF Held, TypeOK
    <2>4. \A u \in Threads : u # t => Held(u)' = Held(u)
      BY <2>1, <2>2 DEF Held, TypeOK, Threads, NoThread
    <2>5. \A u \in Threads : Own(u)' = Own(u)
      BY <2>1 DEF Own
    <2>6. pc'[t] = "finish" /\ todo'[t] = todo[t] \ {s}
      BY <2>1 DEF TypeOK
    <2>7. \A u \in Threads : u # t => pc'[u] = pc[u] /\ todo'[u] = todo[u]
      BY <2>1 DEF TypeOK
    <2> QED
      BY <2>1, <2>3, <2>4, <2>5, <2>6, <2>7 DEF HoldsInv
  <1>8. ASSUME NEW t \in Threads, ShardsUnlocked(t) PROVE HoldsInv'
    <2>1. pc[t] = "finish" /\ todo[t] = {} /\ pc' = [pc EXCEPT ![t] = "flip_local"]
          /\ UNCHANGED <<todo, shard_mutexes, conf, is_first_local>>
      BY <1>8 DEF ShardsUnlocked
    <2>2. Held(t) = {}
      BY <2>1 DEF HoldsInv
    <2>3. \A u \in Threads : Own(u)' = Own(u)
      BY <2>1 DEF Own
    <2> QED
      BY <1>t, <2>1, <2>2, <2>3, NoLockStep
  <1>9. ASSUME NEW t \in Threads, FlipLocal(t) PROVE HoldsInv'
    <2>1. is_first_local' = [is_first_local EXCEPT ![t] = ~is_first_local[t]]
      <3>1. word[t][t] = is_first_local[t]
        BY <1>9 DEF FlipLocal, EpochInv, FlagsInv
      <3> QED
        BY <1>9, <3>1, FlipsOneFlag
    <2>2. pc[t] = "flip_local" /\ pc' = [pc EXCEPT ![t] = "start"]
          /\ UNCHANGED <<shard_mutexes, conf, todo>>
      BY <1>9 DEF FlipLocal
    <2>3. \A u \in Threads : Held(u)' = Held(u)
      BY <2>2 DEF Held
    <2>4. \A u \in Threads : u # t => Own(u)' = Own(u) /\ pc'[u] = pc[u]
      BY <2>1, <2>2 DEF Own, TypeOK
    <2>5. pc'[t] = "start" /\ Held(t) = {}
      BY <2>2 DEF HoldsInv, TypeOK
    <2> QED
      BY <2>2, <2>3, <2>4, <2>5 DEF HoldsInv
  <1>10. ASSUME NEW t \in Threads, ProcessShard(t) PROVE HoldsInv'
    <2>1. pc[t] = "process" /\ UNCHANGED <<flags, sharding, shard_mutexes>>
      BY <1>10 DEF ProcessShard
    <2>2. Held(t) = Own(t) /\ todo[t] \subseteq Own(t)
      BY <2>1 DEF HoldsInv
    <2>3. PICK s \in todo[t] :
            \/ pc' = [pc EXCEPT ![t] = "process"] /\ todo' = [todo EXCEPT ![t] = todo[t] \ {s}]
            \/ pc' = [pc EXCEPT ![t] = "get_shards"] /\ todo' = [todo EXCEPT ![t] = {}]
      BY <1>10 DEF ProcessShard
    <2> QED
      BY <2>1, <2>2, <2>3, NoLockStep DEF Own
  <1>11. ASSUME NEW t \in Threads, CheckTime(t) PROVE HoldsInv'
    BY <1>11, <1>t, NoLockStep DEF CheckTime, Own, HoldsInv
  <1>12. ASSUME NEW t \in Threads, NoUpdatePromise(t) PROVE HoldsInv'
    <2>1. Held(t) = Own(t)
      BY <1>12 DEF NoUpdatePromise, HoldsInv
    <2>2. PICK to \in {"promised", "reshard", "get_shards"} : pc' = [pc EXCEPT ![t] = to]
      BY <1>12 DEF NoUpdatePromise, AfterPromise
    <2>3. UNCHANGED <<todo, shard_mutexes, conf, is_first_local>>
      BY <1>12 DEF NoUpdatePromise
    <2> QED
      BY <1>t, <2>1, <2>2, <2>3, NoLockStep DEF Own
  <1>13. ASSUME NEW t \in Threads, PromiseCounted(t) PROVE HoldsInv'
    <2>1. pc[t] = "promised" /\ pc' = [pc EXCEPT ![t] = "clear_can_be_updated"]
          /\ UNCHANGED <<todo, shard_mutexes, conf, is_first_local>>
      BY <1>13 DEF PromiseCounted
    <2>2. Held(t) = Own(t)
      BY <2>1 DEF HoldsInv
    <2>3. \A u \in Threads : Own(u)' = Own(u)
      BY <2>1 DEF Own
    <2> QED
      BY <1>t, <2>1, <2>2, <2>3, NoLockStep
  <1>14. ASSUME NEW t \in Threads, ClearCanBeUpdated(t) PROVE HoldsInv'
    <2>1. Held(t) = Own(t)
      BY <1>14 DEF ClearCanBeUpdated, HoldsInv
    <2>2. PICK to \in {"reshard", "get_shards"} : pc' = [pc EXCEPT ![t] = to]
      BY <1>14 DEF ClearCanBeUpdated, AfterPromise
    <2>3. UNCHANGED <<todo, shard_mutexes, conf, is_first_local>>
      BY <1>14 DEF ClearCanBeUpdated
    <2> QED
      BY <1>t, <2>1, <2>2, <2>3, NoLockStep DEF Own
  <1>15. ASSUME NEW t \in Threads, Reshard(t) PROVE HoldsInv'
    <2>1. Held(t) = Own(t)
      BY <1>15 DEF Reshard, HoldsInv
    <2>2. PICK to \in {"resharding", "get_shards"} : pc' = [pc EXCEPT ![t] = to]
      BY <1>15 DEF Reshard
    <2>3. UNCHANGED <<todo, shard_mutexes, conf, is_first_local>>
      BY <1>15 DEF Reshard
    <2> QED
      BY <1>t, <2>1, <2>2, <2>3, NoLockStep DEF Own
  <1>16. ASSUME NEW t \in Threads, AssignConf(t) PROVE HoldsInv'
    <2>1. \A u \in Threads : is_first_local[u] = current_counter.is_first_main
      BY <1>16 DEF AssignConf, EpochInv, FlagsInv, ReshardInv, Promised
    <2>2. \A u \in Threads : Own(u)' = Own(u)
      <3>1. UNCHANGED is_first_local
        BY <1>16 DEF AssignConf
      <3>2. conf'[current_counter.is_first_main] = conf[current_counter.is_first_main]
        BY <1>16 DEF AssignConf, TypeOK
      <3> QED
        BY <2>1, <3>1, <3>2 DEF Own
    <2>3. pc[t] = "resharding" /\ pc' = [pc EXCEPT ![t] = "publish"]
          /\ UNCHANGED <<todo, shard_mutexes>>
      BY <1>16 DEF AssignConf
    <2>4. Held(t) = Own(t)
      BY <2>3 DEF HoldsInv
    <2> QED
      BY <1>t, <2>2, <2>3, <2>4, NoLockStep
  <1>17. ASSUME NEW t \in Threads, PublishConf(t) PROVE HoldsInv'
    <2>1. pc[t] = "publish" /\ pc' = [pc EXCEPT ![t] = "get_shards"]
          /\ UNCHANGED <<todo, shard_mutexes, conf, is_first_local>>
      BY <1>17 DEF PublishConf
    <2>2. Held(t) = Own(t)
      BY <2>1 DEF HoldsInv
    <2>3. \A u \in Threads : Own(u)' = Own(u)
      BY <2>1 DEF Own
    <2> QED
      BY <1>t, <2>1, <2>2, <2>3, NoLockStep
  <1>18. ASSUME NEW t \in Threads, TimerElapses(t) PROVE HoldsInv'
    BY <1>18 DEF TimerElapses, Own, Held, HoldsInv
  <1>19. ASSUME UNCHANGED vars PROVE HoldsInv'
    BY <1>19 DEF vars, Own, Held, HoldsInv
  <1> QED
    BY <1>1, <1>2, <1>3, <1>4, <1>5, <1>6, <1>7, <1>8, <1>9, <1>10, <1>11, <1>12,
       <1>13, <1>14, <1>15, <1>16, <1>17, <1>18, <1>19 DEF Next, ThreadAction

----------------------------------------------------------------------------
\* The inductive invariant holds as long as no flag is lost (the whole of Sharder).
THEOREM Invariance == Spec /\ NoFlagLost => []IInv
  <1>1. Init => IInv
    BY TypeInit, EpochInit, HoldsInit DEF IInv
  <1>2. IInv /\ [Next]_vars /\ [OwnFlags]_vars => IInv'
    BY TypeStep, EpochStep, HoldsStep DEF IInv
  <1> QED
    BY <1>1, <1>2, PTL DEF Spec, NoFlagLost

\* A shard in use is one whose mutex the thread holds.
LEMMA InUseIsHeld ==
  ASSUME IInv, NEW t \in Threads
  PROVE  InUse(t) \subseteq Held(t)
  BY DEF IInv, HoldsInv, InUse, Held

LEMMA ExclusionFollows == IInv => ShardExclusion
  <1> SUFFICES ASSUME IInv, NEW t \in Threads, NEW u \in Threads, t # u
               PROVE  InUse(t) \cap InUse(u) = {}
    BY DEF ShardExclusion
  <1> QED
    BY InUseIsHeld DEF Held

LEMMA ReshardingAloneFollows == IInv => ReshardingAlone /\ OverwrittenSlotUnused
  BY DEF IInv, EpochInv, ReshardInv, FlagsInv, Promised, ReshardingAlone,
         UpdatesMeasurements, OverwrittenSlotUnused

LEMMA UnlockFollows == IInv => UnlockedByOwner
  BY DEF IInv, HoldsInv, Held, UnlockedByOwner

\* As long as no flag is lost, no two threads use one shard, whichever distributions
\* they follow (StartConfiguration, GetShards).
THEOREM Exclusion == Spec /\ NoFlagLost => []ShardExclusion
  BY Invariance, ExclusionFollows, PTL

\* As long as no flag is lost, no thread updates measurements while they are read
\* (Reshard, NoUpdatePromise).
THEOREM ReshardingIsSafe == Spec /\ NoFlagLost => []ReshardingAlone
  BY Invariance, ReshardingAloneFollows, PTL

\* As long as no flag is lost, no thread follows the slot of a configuration that is
\* overwritten (Reshard, NoUpdatePromise).
THEOREM OverwritingIsSafe == Spec /\ NoFlagLost => []OverwrittenSlotUnused
  BY Invariance, ReshardingAloneFollows, PTL

\* As long as no flag is lost, mutexes are unlocked by the thread that locked them
\* (FinishConfiguration).
THEOREM UnlockingIsOwned == Spec /\ NoFlagLost => []UnlockedByOwner
  BY Invariance, UnlockFollows, PTL

\* As long as no flag is lost, the counter says exactly how many threads have promised
\* (NoUpdatePromise).
THEOREM PromisesAreCounted == Spec /\ NoFlagLost => []PromisesCounted
  <1>1. IInv => PromisesCounted
    BY DEF IInv, EpochInv
  <1> QED
    BY <1>1, Invariance, PTL

----------------------------------------------------------------------------
(* When no flag is lost. *)

\* Between reading and writing a word, a thread has the neighbours' bits as they are.
WordInv == \A t \in Threads : \A u \in Mates(t) \ {t} :
    /\ AssignsCanBeUpdated(t) => word[t][u] = can_be_updated[u]
    /\ AssignsIsFirstLocal(t) => word[t][u] = is_first_local[u]

\* What t's neighbours hold stays as it is when t assigns.
LEMMA AssignmentKeepsFlags ==
  ASSUME TypeOK, WordInv, NEW t \in Threads, NEW u \in Threads \ {t}
  PROVE  /\ SetCanBeUpdated(t) \/ ClearCanBeUpdated(t) =>
              can_be_updated'[u] = can_be_updated[u]
         /\ FlipLocal(t) => is_first_local'[u] = is_first_local[u]
  <1>1. ASSUME NEW bits, NEW b, u \in Mates(t) => word[t][u] = bits[u]
        PROVE  WithBit(t, bits, b)[u] = bits[u]
    BY <1>1 DEF WithBit
  <1>2. ASSUME SetCanBeUpdated(t) \/ ClearCanBeUpdated(t)
        PROVE  can_be_updated'[u] = can_be_updated[u]
    <2>1. u \in Mates(t) => word[t][u] = can_be_updated[u]
      BY <1>2 DEF SetCanBeUpdated, ClearCanBeUpdated, Goto, WordInv, AssignsCanBeUpdated
    <2>2. PICK b \in BOOLEAN : can_be_updated' = WithBit(t, can_be_updated, b)
      BY <1>2 DEF SetCanBeUpdated, ClearCanBeUpdated
    <2> QED
      BY <1>1, <2>1, <2>2
  <1>3. ASSUME FlipLocal(t)
        PROVE  is_first_local'[u] = is_first_local[u]
    <2>1. u \in Mates(t) => word[t][u] = is_first_local[u]
      BY <1>3 DEF FlipLocal, Goto, WordInv, AssignsIsFirstLocal
    <2>2. is_first_local' = WithBit(t, is_first_local, ~word[t][t])
      BY <1>3 DEF FlipLocal
    <2> QED
      BY <1>1, <2>1, <2>2
  <1> QED
    BY <1>2, <1>3

LEMMA OwnFlagsStep ==
  ASSUME TypeOK, WordInv, [Next]_vars
  PROVE  [OwnFlags]_vars
  <1> USE DEF flags, Goto
  <1>1. ASSUME NEW t \in Threads, SetCanBeUpdated(t) \/ ClearCanBeUpdated(t) \/ FlipLocal(t)
        PROVE  OwnFlags
    <2>1. pc'[t] # pc[t]
      BY <1>1 DEF SetCanBeUpdated, ClearCanBeUpdated, FlipLocal, AfterPromise, TypeOK
    <2>2. ASSUME NEW u \in Threads \ {t}
          PROVE  can_be_updated'[u] = can_be_updated[u] /\ is_first_local'[u] = is_first_local[u]
      BY <1>1, <2>2, AssignmentKeepsFlags DEF SetCanBeUpdated, ClearCanBeUpdated, FlipLocal
    <2> QED
      BY <2>1, <2>2 DEF OwnFlags
  <1>2. ASSUME UNCHANGED <<can_be_updated, is_first_local>> PROVE OwnFlags
    BY <1>2 DEF OwnFlags
  <1>3. ASSUME NEW t \in Threads, ThreadAction(t) \/ TimerElapses(t),
               ~(SetCanBeUpdated(t) \/ ClearCanBeUpdated(t) \/ FlipLocal(t))
        PROVE  UNCHANGED <<can_be_updated, is_first_local>>
    BY <1>3
       DEF ThreadAction, StartConfiguration, LockShard, ShardsLocked, OnSwitch, GetShards,
           UnlockShard, ShardsUnlocked, ProcessShard, CheckTime, NoUpdatePromise,
           PromiseCounted, Reshard, AssignConf, PublishConf, TimerElapses
  <1> QED
    BY <1>1, <1>2, <1>3 DEF Next

LEMMA WordStep ==
  ASSUME TypeOK, WordInv, AssignmentsApart, [Next]_vars
  PROVE  WordInv'
  <1> USE DEF TypeOK, Goto, flags
  <1>m. \A t \in Threads : Mates(t)' = Mates(t) /\ \A u \in Mates(t) : t \in Mates(u)
    BY DEF Mates
  <1>1. ASSUME NEW t \in Threads, SetCanBeUpdated(t) \/ ClearCanBeUpdated(t)
        PROVE  WordInv'
    <2>1. /\ AssignsCanBeUpdated(t) /\ ~AssignsCanBeUpdated(t)' /\ ~AssignsIsFirstLocal(t)'
          /\ \A u \in Threads \ {t} : pc'[u] = pc[u] /\ word'[u] = word[u]
          /\ UNCHANGED is_first_local
      BY <1>1 DEF SetCanBeUpdated, ClearCanBeUpdated, AfterPromise, ForgetWord,
                  AssignsCanBeUpdated, AssignsIsFirstLocal
    <2>2. \A u \in Threads \ {t} : can_be_updated'[u] = can_be_updated[u]
      BY <1>1, AssignmentKeepsFlags
    <2>3. \A u \in Mates(t) \ {t} : ~AssignsCanBeUpdated(u)
      BY <2>1 DEF AssignmentsApart
    <2>4. ASSUME NEW u \in Threads, NEW v \in Mates(u) \ {u}, u # t
          PROVE  /\ AssignsCanBeUpdated(u)' => word'[u][v] = can_be_updated'[v]
                 /\ AssignsIsFirstLocal(u)' => word'[u][v] = is_first_local'[v]
      <3>1. AssignsCanBeUpdated(u)' <=> AssignsCanBeUpdated(u)
        BY <2>1, <2>4 DEF AssignsCanBeUpdated
      <3>2. AssignsIsFirstLocal(u)' <=> AssignsIsFirstLocal(u)
        BY <2>1, <2>4 DEF AssignsIsFirstLocal
      <3>3. v = t => ~AssignsCanBeUpdated(u)
        BY <1>m, <2>3, <2>4
      <3>4. v \in Threads
        BY DEF Mates
      <3> QED
        BY <2>1, <2>2, <2>4, <3>1, <3>2, <3>3, <3>4 DEF WordInv
    <2> QED
      BY <1>m, <2>1, <2>4 DEF WordInv
  <1>2. ASSUME NEW t \in Threads, FlipLocal(t)
        PROVE  WordInv'
    <2>1. /\ AssignsIsFirstLocal(t) /\ ~AssignsCanBeUpdated(t)' /\ ~AssignsIsFirstLocal(t)'
          /\ \A u \in Threads \ {t} : pc'[u] = pc[u] /\ word'[u] = word[u]
          /\ UNCHANGED can_be_updated
      BY <1>2 DEF FlipLocal, ForgetWord, AssignsCanBeUpdated, AssignsIsFirstLocal
    <2>2. \A u \in Threads \ {t} : is_first_local'[u] = is_first_local[u]
      BY <1>2, AssignmentKeepsFlags
    <2>3. \A u \in Mates(t) \ {t} : ~AssignsIsFirstLocal(u)
      BY <2>1 DEF AssignmentsApart
    <2>4. ASSUME NEW u \in Threads, NEW v \in Mates(u) \ {u}, u # t
          PROVE  /\ AssignsCanBeUpdated(u)' => word'[u][v] = can_be_updated'[v]
                 /\ AssignsIsFirstLocal(u)' => word'[u][v] = is_first_local'[v]
      <3>1. AssignsCanBeUpdated(u)' <=> AssignsCanBeUpdated(u)
        BY <2>1, <2>4 DEF AssignsCanBeUpdated
      <3>2. AssignsIsFirstLocal(u)' <=> AssignsIsFirstLocal(u)
        BY <2>1, <2>4 DEF AssignsIsFirstLocal
      <3>3. v = t => ~AssignsIsFirstLocal(u)
        BY <1>m, <2>3, <2>4
      <3>4. v \in Threads
        BY DEF Mates
      <3> QED
        BY <2>1, <2>2, <2>4, <3>1, <3>2, <3>3, <3>4 DEF WordInv
    <2> QED
      BY <1>m, <2>1, <2>4 DEF WordInv
  <1>3. ASSUME NEW t \in Threads,
               ShardsLocked(t) \/ PromiseCounted(t) \/ ShardsUnlocked(t)
        PROVE  WordInv'
    <2>1. /\ \A u \in Threads \ {t} : pc'[u] = pc[u] /\ word'[u] = word[u]
          /\ UNCHANGED <<can_be_updated, is_first_local>>
      BY <1>3 DEF ShardsLocked, PromiseCounted, ShardsUnlocked, ReadWord
    <2>2. ASSUME NEW v \in Mates(t) \ {t}
          PROVE  /\ AssignsCanBeUpdated(t)' => word'[t][v] = can_be_updated[v]
                 /\ AssignsIsFirstLocal(t)' => word'[t][v] = is_first_local[v]
      <3>1. v \in Threads
        BY DEF Mates
      <3>2. CASE ShardsLocked(t) \/ PromiseCounted(t)
        <4>1. word'[t] = [u \in Threads |-> u \in Mates(t) /\ can_be_updated[u]]
              /\ pc'[t] # "flip_local"
          BY <3>2 DEF ShardsLocked, PromiseCounted, ReadWord
        <4>2. word'[t][v] = (v \in Mates(t) /\ can_be_updated[v])
          BY <3>1, <4>1
        <4>3. can_be_updated[v] \in BOOLEAN /\ v \in Mates(t)
          BY <3>1
        <4>4. word'[t][v] = can_be_updated[v]
          BY <4>2, <4>3, Zenon
        <4> QED
          BY <4>1, <4>4 DEF AssignsIsFirstLocal
      <3>3. CASE ShardsUnlocked(t)
        BY <3>1, <3>3 DEF ShardsUnlocked, ReadWord, AssignsCanBeUpdated
      <3> QED
        BY <1>3, <3>2, <3>3
    <2>3. ASSUME NEW u \in Threads \ {t}, NEW v \in Mates(u) \ {u}
          PROVE  /\ AssignsCanBeUpdated(u)' => word'[u][v] = can_be_updated'[v]
                 /\ AssignsIsFirstLocal(u)' => word'[u][v] = is_first_local'[v]
      BY <2>1 DEF WordInv, AssignsCanBeUpdated, AssignsIsFirstLocal
    <2> QED
      BY <1>m, <2>1, <2>2, <2>3 DEF WordInv
  <1>4. ASSUME NEW t \in Threads, UNCHANGED flags,
               \A u \in Threads : pc'[u] = pc[u]
                  \/ pc'[u] \notin {"set_can_be_updated", "clear_can_be_updated", "flip_local"}
        PROVE  WordInv'
    BY <1>m, <1>4 DEF WordInv, AssignsCanBeUpdated, AssignsIsFirstLocal
  <1>5. ASSUME NEW t \in Threads, ThreadAction(t) \/ TimerElapses(t),
               ~(SetCanBeUpdated(t) \/ ClearCanBeUpdated(t) \/ FlipLocal(t)),
               ~(ShardsLocked(t) \/ PromiseCounted(t) \/ ShardsUnlocked(t))
        PROVE  /\ UNCHANGED flags
               /\ \A u \in Threads : pc'[u] = pc[u]
                    \/ pc'[u] \notin {"set_can_be_updated", "clear_can_be_updated", "flip_local"}
    BY <1>5
       DEF ThreadAction, StartConfiguration, LockShard, OnSwitch, GetShards, UnlockShard,
           ProcessShard, CheckTime, NoUpdatePromise, Reshard, AssignConf, PublishConf,
           TimerElapses, AfterPromise
  <1>6. CASE UNCHANGED vars
    BY <1>m, <1>6 DEF vars, WordInv, AssignsCanBeUpdated, AssignsIsFirstLocal
  <1> QED
    BY <1>1, <1>2, <1>3, <1>4, <1>5, <1>6 DEF Next

\* No flag is lost as long as threads that share a word do not assign at once: with
\* one thread, with a word per thread, and whenever the assignments fall apart in time
\* (SetCanBeUpdated, ClearCanBeUpdated, FlipLocal).
THEOREM FlagsAreKept == Spec /\ []AssignmentsApart => NoFlagLost
  <1>1. Init => WordInv
    BY DEF Init, WordInv, AssignsCanBeUpdated, AssignsIsFirstLocal, Mates
  <1>2. TypeOK /\ WordInv /\ AssignmentsApart /\ [Next]_vars => WordInv'
    BY WordStep
  <1>3. TypeOK /\ WordInv /\ [Next]_vars => [OwnFlags]_vars
    BY OwnFlagsStep
  <1> QED
    BY <1>1, <1>2, <1>3, TypeCorrect, PTL DEF Spec, NoFlagLost

----------------------------------------------------------------------------
(* The refinement of ShardOwnership. *)

\* What thread 0 is about to publish is a distribution GetResharding returned.
PublishInv == pc[0] = "publish" => conf[~current_counter.is_first_main] \in Confs

LEMMA PublishStep ==
  ASSUME TypeOK, EpochInv, PublishInv, [Next]_vars
  PROVE  PublishInv'
  <1> USE DEF Goto, sharding, TypeOK, PublishInv
  <1>1. ASSUME NEW t \in Threads, AssignConf(t) PROVE PublishInv'
    BY <1>1 DEF AssignConf
  <1>2. ASSUME NEW t \in Threads, TimerElapses(t) PROVE PublishInv'
    BY <1>2 DEF TimerElapses
  <1>3. ASSUME NEW t \in Threads, StartConfiguration(t) \/ LockShard(t) \/ ShardsLocked(t)
                 \/ SetCanBeUpdated(t) \/ OnSwitch(t) \/ GetShards(t) \/ UnlockShard(t)
                 \/ ShardsUnlocked(t) \/ FlipLocal(t) \/ ProcessShard(t) \/ CheckTime(t)
        PROVE  pc'[0] = "publish" => pc[0] = "publish" /\ UNCHANGED sharding
    BY <1>3, ZeroIsAThread
       DEF StartConfiguration, LockShard, ShardsLocked, SetCanBeUpdated, OnSwitch, GetShards,
           UnlockShard, ShardsUnlocked, FlipLocal, ProcessShard, CheckTime
  <1>4. ASSUME NEW t \in Threads, NoUpdatePromise(t) \/ PromiseCounted(t)
                 \/ ClearCanBeUpdated(t) \/ Reshard(t) \/ PublishConf(t)
        PROVE  pc'[0] = "publish" => pc[0] = "publish" /\ UNCHANGED <<conf, current_counter>>
    BY <1>4, ZeroIsAThread
       DEF NoUpdatePromise, PromiseCounted, ClearCanBeUpdated, Reshard, PublishConf,
           AfterPromise, EpochInv, FlagsInv
  <1>5. ASSUME UNCHANGED vars PROVE PublishInv'
    BY <1>5 DEF vars
  <1> QED
    BY <1>1, <1>2, <1>3, <1>4, <1>5 DEF Next, ThreadAction

LEMMA RefinementInit == Init => Ownership!Init
  <1> SUFFICES ASSUME Init PROVE Ownership!Init
    OBVIOUS
  <1>1. shadow_counter.is_first_main = TRUE
    BY DEF Init
  <1>2. conf[TRUE] = InitialConf
    BY DEF Init
  <1>3. \A t \in Threads : is_first_local[t] = TRUE
    BY DEF Init
  <1>4. {t \in Threads : is_first_local[t] # shadow_counter.is_first_main} = {}
    BY <1>1, <1>3
  <1>5. shard_mutexes = [s \in Shards |-> NoThread]
    BY DEF Init
  <1> QED
    BY <1>1, <1>2, <1>4, <1>5 DEF Ownership!Init

\* Every step of the sharder is a step of the abstract specification or a stutter.
LEMMA RefinementStep ==
  ASSUME IInv, IInv', PublishInv, [Next]_vars, [OwnFlags]_vars
  PROVE  [Ownership!Next]_Ownership!vars
  <1> USE DEF Goto, Visit, flags, sharding
  <1> DEFINE Stutter == UNCHANGED <<conf, shadow_counter, is_first_local, shard_mutexes>>
  <1>s. Stutter => UNCHANGED Ownership!vars
    BY DEF Ownership!vars
  <1>1. ASSUME NEW t \in Threads, LockShard(t) PROVE Ownership!Next
    <2>1. PICK s \in todo[t] :
            /\ pc[t] = "lock" /\ shard_mutexes[s] = NoThread
            /\ shard_mutexes' = [shard_mutexes EXCEPT ![s] = t]
            /\ UNCHANGED <<is_first_local, conf, shadow_counter>>
      BY <1>1 DEF LockShard
    <2>2. is_first_local[t] = shadow_counter.is_first_main
      BY <2>1 DEF IInv, EpochInv, FlagsInv
    <2>3. s \in Shards /\ s \in conf[shadow_counter.is_first_main][t]
      BY <2>1, <2>2 DEF IInv, TypeOK, HoldsInv, Own
    <2>4. Ownership!Acquire(t, s)
      BY <2>1, <2>2, <2>3 DEF Ownership!Acquire
    <2> QED
      BY <2>3, <2>4 DEF Ownership!Next
  <1>2. ASSUME NEW t \in Threads, UnlockShard(t) PROVE Ownership!Next
    <2>1. PICK s \in todo[t] :
            /\ pc[t] = "finish"
            /\ shard_mutexes' = [shard_mutexes EXCEPT ![s] = NoThread]
            /\ UNCHANGED <<is_first_local, conf, shadow_counter>>
      BY <1>2 DEF UnlockShard
    <2>2. is_first_local[t] # shadow_counter.is_first_main
      BY <2>1 DEF IInv, EpochInv, FlagsInv
    <2>3. s \in Shards /\ shard_mutexes[s] = t
      BY <2>1 DEF IInv, HoldsInv, Held
    <2>4. Ownership!Release(t, s)
      BY <2>1, <2>2, <2>3 DEF Ownership!Release
    <2> QED
      BY <2>3, <2>4 DEF Ownership!Next
  <1>3. ASSUME NEW t \in Threads, FlipLocal(t) PROVE Ownership!Next
    <2>1. /\ pc[t] = "flip_local" /\ pc' = [pc EXCEPT ![t] = "start"]
          /\ UNCHANGED <<conf, shadow_counter, shard_mutexes>>
      BY <1>3 DEF FlipLocal
    <2>2. is_first_local[t] # shadow_counter.is_first_main
      BY <2>1 DEF IInv, EpochInv, FlagsInv
    <2>3. is_first_local'[t] = shadow_counter.is_first_main
      <3>1. pc'[t] = "start"
        BY <2>1 DEF IInv, TypeOK
      <3> QED
        BY <2>1, <3>1 DEF IInv, EpochInv, FlagsInv
    <2>4. \A u \in Threads : u # t => is_first_local'[u] = is_first_local[u]
      <3>1. word[t][t] = is_first_local[t]
        BY <2>1 DEF IInv, EpochInv, FlagsInv
      <3>2. is_first_local' = [is_first_local EXCEPT ![t] = ~is_first_local[t]]
        BY <1>3, <3>1, FlipsOneFlag DEF IInv
      <3> QED
        BY <3>2 DEF IInv, TypeOK
    <2>5. \A s \in Shards : shard_mutexes[s] # t
      BY <2>1 DEF IInv, HoldsInv, Held
    <2>6. {u \in Threads : is_first_local'[u] # shadow_counter'.is_first_main}
            = {u \in Threads : is_first_local[u] # shadow_counter.is_first_main} \ {t}
      BY <2>1, <2>3, <2>4
    <2>7. Ownership!Adopt(t)
      BY <2>1, <2>2, <2>5, <2>6 DEF Ownership!Adopt
    <2> QED
      BY <2>7 DEF Ownership!Next
  <1>4. ASSUME NEW t \in Threads, AssignConf(t) PROVE UNCHANGED Ownership!vars
    <2>1. current_counter = shadow_counter
      BY <1>4 DEF AssignConf, IInv, EpochInv, FlagsInv, ReshardInv
    <2>2. conf'[shadow_counter.is_first_main] = conf[shadow_counter.is_first_main]
      BY <1>4, <2>1 DEF AssignConf, IInv, TypeOK
    <2> QED
      BY <1>4, <2>2 DEF AssignConf, Ownership!vars
  <1>5. ASSUME NEW t \in Threads, PublishConf(t) PROVE Ownership!Next
    <2>1. pc[0] = "publish" /\ UNCHANGED <<conf, shard_mutexes, is_first_local>>
      BY <1>5 DEF PublishConf, IInv, EpochInv, FlagsInv
    <2>2. current_counter = shadow_counter /\ \A u \in Threads : Promised(u)
      BY <2>1 DEF IInv, EpochInv, ReshardInv
    <2>3. shadow_counter'.is_first_main = ~shadow_counter.is_first_main
      BY <1>5, <2>2 DEF PublishConf
    <2>4. conf'[shadow_counter'.is_first_main] \in Confs
      BY <2>1, <2>2, <2>3 DEF PublishInv
    <2>5. {u \in Threads : is_first_local[u] # shadow_counter.is_first_main} = {}
      BY <2>2 DEF Promised
    <2>6. {u \in Threads : is_first_local'[u] # shadow_counter'.is_first_main} = Threads
      BY <2>1, <2>2, <2>3 DEF Promised
    <2>7. Ownership!Replan
      BY <2>1, <2>4, <2>5, <2>6 DEF Ownership!Replan
    <2> QED
      BY <2>7 DEF Ownership!Next
  <1>6. ASSUME NEW t \in Threads, NoUpdatePromise(t) PROVE UNCHANGED Ownership!vars
    <2>1. shadow_counter'.is_first_main = shadow_counter.is_first_main
      BY <1>6 DEF NoUpdatePromise, IInv, TypeOK
    <2> QED
      BY <1>6, <2>1 DEF NoUpdatePromise, Ownership!vars
  <1>7. ASSUME NEW t \in Threads, StartConfiguration(t) \/ ShardsLocked(t)
                 \/ SetCanBeUpdated(t) \/ OnSwitch(t) \/ GetShards(t)
                 \/ ShardsUnlocked(t) \/ ProcessShard(t) \/ CheckTime(t)
                 \/ PromiseCounted(t) \/ ClearCanBeUpdated(t) \/ Reshard(t) \/ TimerElapses(t)
        PROVE  Stutter
    BY <1>7
       DEF StartConfiguration, ShardsLocked, SetCanBeUpdated, OnSwitch, GetShards,
           ShardsUnlocked, ProcessShard, CheckTime, PromiseCounted, ClearCanBeUpdated,
           Reshard, TimerElapses
  <1>8. ASSUME UNCHANGED vars PROVE Stutter
    BY <1>8 DEF vars
  <1> QED
    BY <1>s, <1>1, <1>2, <1>3, <1>4, <1>5, <1>6, <1>7, <1>8 DEF Next, ThreadAction

\* As long as no flag is lost, the sharder implements the ownership of shards its
\* clients rely on (all of Sharder).
THEOREM Refinement == Spec /\ NoFlagLost => ImplementsOwnership
  <1>1. Init => PublishInv
    BY ZeroIsAThread DEF Init, PublishInv
  <1>2. IInv /\ PublishInv /\ [Next]_vars => PublishInv'
    BY PublishStep DEF IInv
  <1>3. IInv /\ IInv' /\ PublishInv /\ [Next]_vars /\ [OwnFlags]_vars =>
          [Ownership!Next]_Ownership!vars
    BY RefinementStep
  <1> QED
    BY <1>1, <1>2, <1>3, RefinementInit, Invariance, PTL
       DEF Spec, NoFlagLost, ImplementsOwnership, Ownership!Spec
=============================================================================
