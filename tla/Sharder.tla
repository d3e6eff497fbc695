------------------------------ MODULE Sharder ------------------------------
(***************************************************************************)
(* The shadow-paging sharder (src/sharder.h).  Threads serve a fixed set   *)
(* of shards.  Who serves what is kept in one of two slots, first_conf and *)
(* second_conf.  Once every thread has promised not to update the          *)
(* measurements, thread 0 computes a new distribution from them into the   *)
(* other slot and flips is_first_main with one compare-and-swap.  A thread *)
(* that sees the flip unlocks its old shards and locks its new ones.       *)
(*                                                                         *)
(* A pc value is a point between two accesses to memory that other threads *)
(* use.  A thread's list of shards is a set, visited in any order: the     *)
(* code's order is one of them.                                            *)
(***************************************************************************)
EXTENDS Integers, FiniteSets

CONSTANTS NThreads,        \* threads_count
          Shards,          \* shard numbers
          Confs,           \* the distributions controller.GetResharding may return
          InitialConf,     \* controller.GetInitialSharding(threads_count)
          ThrowingShards,  \* shards whose ProcessShard may throw
          Word             \* Word[t]: the memory word that holds thread t's flags

Threads == 0 .. NThreads - 1
NoThread == -1

\* A distribution gives a shard to one thread at most.
IsSharding(c) ==
    /\ c \in [Threads -> SUBSET Shards]
    /\ \A t, u \in Threads : t # u => c[t] \cap c[u] = {}

ASSUME ThreadsAssumption == NThreads \in Nat \ {0}
ASSUME ConfsAssumption == \A c \in Confs \cup {InitialConf} : IsSharding(c)
ASSUME WordAssumption == Word \in [Threads -> Nat]

VARIABLES pc,               \* where each thread is in ThreadAction
          todo,             \* shards its current range-for loop has yet to visit
          time_elapsed,     \* its reshard_waiting_timer has run out
          can_be_updated,
          is_first_local,
          word,             \* flags it has read and not yet written back
          conf,             \* conf[TRUE] is first_conf, conf[FALSE] second_conf
          shadow_counter,   \* the atomic pair (is_first_main, noupdate_counter)
          current_counter,  \* Reshard's copy of shadow_counter
          shard_mutexes     \* the owner of each shard's mutex

flags == <<can_be_updated, is_first_local, word>>
sharding == <<conf, shadow_counter, current_counter>>
vars == <<pc, todo, time_elapsed, flags, sharding, shard_mutexes>>

\* Vector<bool> packs its elements: the threads whose flags share t's word.
Mates(t) == {u \in Threads : Word[u] = Word[t]}
NoWord == [u \in Threads |-> FALSE]

Init ==
    /\ pc = [t \in Threads |-> "start"]
    /\ todo = [t \in Threads |-> {}]
    /\ time_elapsed = [t \in Threads |-> FALSE]
    /\ can_be_updated = [t \in Threads |-> TRUE]
    /\ is_first_local = [t \in Threads |-> TRUE]
    /\ word = [t \in Threads |-> NoWord]
    /\ conf = [is_first \in BOOLEAN |->
                 IF is_first THEN InitialConf ELSE [t \in Threads |-> {}]]
    /\ shadow_counter = [is_first_main |-> TRUE, noupdate_counter |-> 0]
    /\ current_counter = shadow_counter
    /\ shard_mutexes = [s \in Shards |-> NoThread]

Own(t) == conf[is_first_local[t]][t]
Goto(t, from, to) == pc[t] = from /\ pc' = [pc EXCEPT ![t] = to]
Visit(t, S) == todo' = [todo EXCEPT ![t] = S]

\* Assigning an element of a Vector<bool> reads the whole word that holds it
\* and writes it back, the neighbours' bits as they were read.
ReadWord(t, bits) ==
    word' = [word EXCEPT ![t] = [u \in Threads |-> u \in Mates(t) /\ bits[u]]]
ForgetWord(t) == word' = [word EXCEPT ![t] = NoWord]
WithBit(t, bits, b) ==
    [u \in Threads |-> IF u = t THEN b
                       ELSE IF u \in Mates(t) THEN word[t][u] ELSE bits[u]]

----------------------------------------------------------------------------
StartConfiguration(t) ==
    /\ Goto(t, "start", "lock") /\ Visit(t, Own(t))
    /\ time_elapsed' = [time_elapsed EXCEPT ![t] = FALSE]
    /\ UNCHANGED <<flags, sharding, shard_mutexes>>

\* Mutant: the mutex is taken without waiting for its owner.
LockShardTaken(t) == \E s \in todo[t] :
    /\ shard_mutexes' = [shard_mutexes EXCEPT ![s] = t]
    /\ Goto(t, "lock", "lock") /\ Visit(t, todo[t] \ {s})
    /\ UNCHANGED <<time_elapsed, flags, sharding>>

LockShard(t) == \E s \in todo[t] :
    /\ shard_mutexes[s] = NoThread
    /\ shard_mutexes' = [shard_mutexes EXCEPT ![s] = t]
    /\ Goto(t, "lock", "lock") /\ Visit(t, todo[t] \ {s})
    /\ UNCHANGED <<time_elapsed, flags, sharding>>

ShardsLocked(t) ==
    /\ Goto(t, "lock", "set_can_be_updated") /\ todo[t] = {}
    /\ ReadWord(t, can_be_updated)
    /\ UNCHANGED <<todo, time_elapsed, can_be_updated, is_first_local, sharding,
                   shard_mutexes>>

\* Mutant: can_be_updated is not set again after a switch.
SetCanBeUpdatedForgotten(t) ==
    /\ Goto(t, "set_can_be_updated", "on_switch") /\ ForgetWord(t)
    /\ UNCHANGED <<todo, time_elapsed, can_be_updated, is_first_local, sharding,
                   shard_mutexes>>

SetCanBeUpdated(t) ==
    /\ Goto(t, "set_can_be_updated", "on_switch")
    /\ can_be_updated' = WithBit(t, can_be_updated, TRUE) /\ ForgetWord(t)
    /\ UNCHANGED <<todo, time_elapsed, is_first_local, sharding, shard_mutexes>>

\* controller.OnSwitch runs while pc[t] = "on_switch"; this step is its return.
OnSwitch(t) ==
    /\ Goto(t, "on_switch", "get_shards")
    /\ UNCHANGED <<todo, time_elapsed, flags, sharding, shard_mutexes>>

----------------------------------------------------------------------------
MustSwitch(t) ==
    ~can_be_updated[t] /\ shadow_counter.is_first_main # is_first_local[t]

GetShards(t) ==
    /\ Goto(t, "get_shards", IF MustSwitch(t) THEN "finish" ELSE "process")
    /\ Visit(t, Own(t))
    /\ UNCHANGED <<time_elapsed, flags, sharding, shard_mutexes>>

\* Mutant: FinishConfiguration leaves the mutexes locked.
UnlockShardForgotten(t) == \E s \in todo[t] :
    /\ Goto(t, "finish", "finish") /\ Visit(t, todo[t] \ {s})
    /\ UNCHANGED <<time_elapsed, flags, sharding, shard_mutexes>>

UnlockShard(t) == \E s \in todo[t] :
    /\ Goto(t, "finish", "finish") /\ Visit(t, todo[t] \ {s})
    /\ shard_mutexes' = [shard_mutexes EXCEPT ![s] = NoThread]
    /\ UNCHANGED <<time_elapsed, flags, sharding>>

ShardsUnlocked(t) ==
    /\ Goto(t, "finish", "flip_local") /\ todo[t] = {}
    /\ ReadWord(t, is_first_local)
    /\ UNCHANGED <<todo, time_elapsed, can_be_updated, is_first_local, sharding,
                   shard_mutexes>>

FlipLocal(t) ==
    /\ Goto(t, "flip_local", "start")
    /\ is_first_local' = WithBit(t, is_first_local, ~word[t][t]) /\ ForgetWord(t)
    /\ UNCHANGED <<todo, time_elapsed, can_be_updated, sharding, shard_mutexes>>

----------------------------------------------------------------------------
\* controller.ProcessShard runs on a shard of todo[t] while pc[t] = "process";
\* WithCatchingException catches what it throws and the iteration ends there.
ProcessShard(t) == \E s \in todo[t] :
    /\ \/ Goto(t, "process", "process") /\ Visit(t, todo[t] \ {s})
       \/ s \in ThrowingShards /\ Goto(t, "process", "get_shards") /\ Visit(t, {})
    /\ UNCHANGED <<time_elapsed, flags, sharding, shard_mutexes>>

CheckTime(t) ==
    /\ Goto(t, "process", IF time_elapsed[t] THEN "promise" ELSE "get_shards")
    /\ todo[t] = {}
    /\ UNCHANGED <<todo, time_elapsed, flags, sharding, shard_mutexes>>

AfterPromise(t) == IF t = 0 THEN "reshard" ELSE "get_shards"

\* Mutants: a promise is counted whether or not it was made before; the counter
\* goes down instead of up.
NoUpdatePromiseAgain(t) ==
    /\ Goto(t, "promise", "promised")
    /\ shadow_counter' = [shadow_counter EXCEPT !.noupdate_counter = @ + 1]
    /\ UNCHANGED <<todo, time_elapsed, flags, conf, current_counter, shard_mutexes>>
NoUpdatePromiseDown(t) ==
    /\ Goto(t, "promise", "promised")
    /\ shadow_counter' = [shadow_counter EXCEPT !.noupdate_counter = @ - 1]
    /\ UNCHANGED <<todo, time_elapsed, flags, conf, current_counter, shard_mutexes>>

\* The compare-and-swap loop that adds 1 is one atomic increment.
NoUpdatePromise(t) ==
    /\ \/ /\ can_be_updated[t] /\ Goto(t, "promise", "promised")
          /\ shadow_counter' = [shadow_counter EXCEPT !.noupdate_counter = @ + 1]
       \/ /\ ~can_be_updated[t] /\ Goto(t, "promise", AfterPromise(t))
          /\ UNCHANGED shadow_counter
    /\ UNCHANGED <<todo, time_elapsed, flags, conf, current_counter, shard_mutexes>>

PromiseCounted(t) ==
    /\ Goto(t, "promised", "clear_can_be_updated") /\ ReadWord(t, can_be_updated)
    /\ UNCHANGED <<todo, time_elapsed, can_be_updated, is_first_local, sharding,
                   shard_mutexes>>

ClearCanBeUpdated(t) ==
    /\ Goto(t, "clear_can_be_updated", AfterPromise(t))
    /\ can_be_updated' = WithBit(t, can_be_updated, FALSE) /\ ForgetWord(t)
    /\ UNCHANGED <<todo, time_elapsed, is_first_local, sharding, shard_mutexes>>

----------------------------------------------------------------------------
\* Mutant: Reshard does not wait for the last promise.
AllButOnePromised(counter) == counter.noupdate_counter >= NThreads - 1
AllPromised(counter) == counter.noupdate_counter >= NThreads

Reshard(t) ==
    /\ \/ /\ AllPromised(shadow_counter) /\ Goto(t, "reshard", "resharding")
          /\ current_counter' = shadow_counter
       \/ /\ ~AllPromised(shadow_counter) /\ Goto(t, "reshard", "get_shards")
          /\ UNCHANGED current_counter
    /\ UNCHANGED <<todo, time_elapsed, flags, conf, shadow_counter, shard_mutexes>>

\* GetResharding and the copy of its result into the other slot take place while
\* pc[0] = "resharding"; this step is their end.
AssignConf(t) ==
    /\ Goto(t, "resharding", "publish")
    /\ \E new_conf \in Confs :
         conf' = [conf EXCEPT ![~current_counter.is_first_main] = new_conf]
    /\ UNCHANGED <<todo, time_elapsed, flags, shadow_counter, current_counter,
                   shard_mutexes>>

PublishConf(t) ==
    /\ Goto(t, "publish", "get_shards")
    /\ shadow_counter' =
         IF shadow_counter = current_counter
         THEN [is_first_main |-> ~current_counter.is_first_main, noupdate_counter |-> 0]
         ELSE shadow_counter
    /\ UNCHANGED <<todo, time_elapsed, flags, conf, current_counter, shard_mutexes>>

\* The second between two reshardings has passed since the timer's last Reset.
TimerElapses(t) ==
    /\ ~time_elapsed[t]
    /\ time_elapsed' = [time_elapsed EXCEPT ![t] = TRUE]
    /\ UNCHANGED <<pc, todo, flags, sharding, shard_mutexes>>

----------------------------------------------------------------------------
ThreadAction(t) ==
    \/ StartConfiguration(t) \/ LockShard(t) \/ ShardsLocked(t)
    \/ SetCanBeUpdated(t) \/ OnSwitch(t)
    \/ GetShards(t) \/ UnlockShard(t) \/ ShardsUnlocked(t) \/ FlipLocal(t)
    \/ ProcessShard(t) \/ CheckTime(t)
    \/ NoUpdatePromise(t) \/ PromiseCounted(t) \/ ClearCanBeUpdated(t)
    \/ Reshard(t) \/ AssignConf(t) \/ PublishConf(t)

Next == \E t \in Threads : ThreadAction(t) \/ TimerElapses(t)

Spec == Init /\ [][Next]_vars

\* Every thread keeps being scheduled and every timer runs out.
Fairness == \A t \in Threads : WF_vars(ThreadAction(t)) /\ WF_vars(TimerElapses(t))

FairSpec == Spec /\ Fairness
----------------------------------------------------------------------------
Points == {"start", "lock", "set_can_be_updated", "on_switch", "get_shards", "finish",
           "flip_local", "process", "promise", "promised", "clear_can_be_updated",
           "reshard", "resharding", "publish"}

TypeOK ==
    /\ pc \in [Threads -> Points]
    /\ todo \in [Threads -> SUBSET Shards]
    /\ time_elapsed \in [Threads -> BOOLEAN]
    /\ can_be_updated \in [Threads -> BOOLEAN]
    /\ is_first_local \in [Threads -> BOOLEAN]
    /\ word \in [Threads -> [Threads -> BOOLEAN]]
    /\ conf \in [BOOLEAN -> [Threads -> SUBSET Shards]]
    /\ shadow_counter \in [is_first_main : BOOLEAN, noupdate_counter : Nat]
    /\ current_counter \in [is_first_main : BOOLEAN, noupdate_counter : Nat]
    /\ shard_mutexes \in [Shards -> Threads \cup {NoThread}]

\* The shards whose data thread t works on: those ProcessShard has to visit, and
\* those OnSwitch prepares.
InUse(t) == CASE pc[t] = "process" -> todo[t]
              [] pc[t] = "on_switch" -> Own(t)
              [] OTHER -> {}

\* No shard is in use by two threads, also while some threads follow the old
\* distribution and others the new one (shard_mutexes, SwitchConfiguration).
ShardExclusion == \A t, u \in Threads : t # u => InUse(t) \cap InUse(u) = {}

UpdatesMeasurements(t) ==
    pc[t] = "on_switch" \/ (pc[t] = "process" /\ todo[t] # {} /\ can_be_updated[t])

\* While GetResharding reads the measurements no thread updates them and no thread
\* is in OnSwitch (NoUpdatePromise is what guarantees it).
ReshardingAlone ==
    pc[0] = "resharding" => \A t \in Threads : ~UpdatesMeasurements(t)

\* The slot Reshard overwrites is not the one any thread takes its shards from.
OverwrittenSlotUnused ==
    pc[0] = "resharding" =>
        \A t \in Threads : is_first_local[t] = current_counter.is_first_main

\* FinishConfiguration unlocks only mutexes the thread itself has locked: what it
\* locked by one slot is what that slot still says when it unlocks.
UnlockedByOwner ==
    \A t \in Threads : pc[t] = "finish" => \A s \in todo[t] : shard_mutexes[s] = t

\* A thread has promised when it follows the current distribution, has finished
\* starting it, and has incremented noupdate_counter since.
Promised(t) ==
    /\ is_first_local[t] = shadow_counter.is_first_main
    /\ pc[t] \notin {"start", "lock", "set_can_be_updated"}
    /\ ~can_be_updated[t] \/ pc[t] \in {"promised", "clear_can_be_updated"}

\* noupdate_counter is the number of threads that have promised since the last
\* flip: no promise is counted twice, lost, or carried over a flip.
PromisesCounted ==
    shadow_counter.noupdate_counter = Cardinality({t \in Threads : Promised(t)})

\* The sharder implements the abstract ownership of shards.
Ownership == INSTANCE ShardOwnership WITH
    plan <- conf[shadow_counter.is_first_main],
    behind <- {t \in Threads : is_first_local[t] # shadow_counter.is_first_main},
    owner <- shard_mutexes
ImplementsOwnership == Ownership!Spec

\* A thread left on the old distribution comes to serve its shards of the new one:
\* waiting for each other's mutexes never blocks the switch, nor do exceptions.
EveryThreadSwitches == \A t \in Threads :
    is_first_local[t] # shadow_counter.is_first_main
      ~> is_first_local[t] = shadow_counter.is_first_main /\ pc[t] = "process"

\* The steps in which ProcessShard throws.
Throws(t) == pc[t] = "process" /\ todo[t] # {} /\ pc'[t] = "get_shards"

\* Once shards have stopped to throw, resharding takes place again and again: the
\* promises the exceptions have kept back are all made up for.
ReshardingResumes ==
    <>[][\A t \in Threads : ~Throws(t)]_vars => []<>(pc[0] = "publish")
=============================================================================
