----------------------------- MODULE Resharding -----------------------------
(***************************************************************************)
(* MessagePassingController::GetResharding (src/sharder.h): the greedy     *)
(* distribution of message processors over threads from the measured       *)
(* average durations, one step per chosen message processor.  A thread's   *)
(* message processors are a set: nothing depends on their order.           *)
(***************************************************************************)
EXTENDS MessagePassingController, Functions

CONSTANT MaxDuration  \* bound: the largest average duration

ASSUME DurationAssumption == MaxDuration \in Nat \ {0}

VARIABLES stage,                    \* where GetResharding is
          mp_average,            \* message_processor_timers[m].GetAverageDuration()
          edge_average,          \* edge_timers[e].GetAverageDuration()
          available,             \* message processors in available_duration_mp
          thread_num,
          accumulated_duration,
          current_thread_mps,
          message_passing_cost,
          conf                   \* the distribution built so far

timers == <<mp_average, edge_average>>
locals == <<thread_num, accumulated_duration, current_thread_mps, message_passing_cost>>
resharding_vars == <<stage, timers, available, locals, conf, message_send_cvs>>

\* The averages are at least PeriodicTimer::min_measured_time.
ReshardingInit ==
    /\ stage = "thread"
    /\ mp_average \in [MPs -> 1 .. MaxDuration]
    /\ edge_average \in [Edges -> 1 .. MaxDuration]
    /\ available = MPs
    /\ thread_num = 0 /\ accumulated_duration = 0 /\ current_thread_mps = {}
    /\ message_passing_cost = [m \in MPs |-> 0]
    /\ conf = [t \in Threads |-> {}]
    /\ message_send_cvs = SenderCVS(InitialSharding)

----------------------------------------------------------------------------
Total == SumFunction(mp_average) + SumFunction(edge_average)

AvgDuration == Max({1, Total \div NThreads})

\* A message processor's own average and those of its incoming edges.
Duration(m) ==
    mp_average[m] + SumFunctionOnSet(edge_average, GetIncomingEdges(m))

\* The order of the pairs (duration, index) in available_duration_mp.
Before(m, n) == Duration(m) < Duration(n) \/ (Duration(m) = Duration(n) /\ m < n)
Heaviest == CHOOSE m \in available : \A n \in available \ {m} : Before(n, m)

\* Mutant: what the thread has already been given is not deducted.
SuitableAlone == {m \in available :
    \/ Duration(m) < AvgDuration
    \/ Duration(m) = AvgDuration /\ m = 0}

\* The pairs before upper_bound({avg_duration - accumulated_duration, 0}).
Suitable == {m \in available :
    LET rest == AvgDuration - accumulated_duration
    IN  Duration(m) < rest \/ (Duration(m) = rest /\ m = 0)}

\* The first suitable one among those with the largest cost.
MostConnected == CHOOSE m \in Suitable : \A n \in Suitable \ {m} :
    \/ message_passing_cost[n] < message_passing_cost[m]
    \/ message_passing_cost[n] = message_passing_cost[m] /\ Before(m, n)

ProcessMPChoice(m) ==
    /\ accumulated_duration' = accumulated_duration + Duration(m)
    /\ current_thread_mps' = current_thread_mps \cup {m}
    /\ available' = available \ {m}
    /\ message_passing_cost' = [n \in MPs |->
         message_passing_cost[n] +
           IF n \in available' THEN SumFunctionOnSet(edge_average, GetConnectingEdges(m, n))
           ELSE 0]
    /\ UNCHANGED <<timers, thread_num, conf, message_send_cvs>>

----------------------------------------------------------------------------
\* The next thread, which takes one message processor that is too heavy to share a
\* thread, or as many as fit.
StartThread ==
    /\ stage = "thread"
    /\ \/ /\ available = {} /\ stage' = "no_processor_left"
          /\ UNCHANGED <<timers, available, locals, conf, message_send_cvs>>
       \/ /\ available # {} /\ Duration(Heaviest) > AvgDuration
          /\ stage' = "close" /\ ProcessMPChoice(Heaviest)
       \/ /\ available # {} /\ Duration(Heaviest) <= AvgDuration
          /\ stage' = "fill"
          /\ UNCHANGED <<timers, available, locals, conf, message_send_cvs>>

FillThread ==
    /\ stage = "fill"
    /\ \/ /\ Suitable # {}
          /\ ProcessMPChoice(MostConnected) /\ UNCHANGED stage
       \/ /\ Suitable = {} /\ stage' = "close"
          /\ UNCHANGED <<timers, available, locals, conf, message_send_cvs>>

IsLast == thread_num + 1 = NThreads

\* Mutant: the last thread does not take what is left.
GivenChosen == current_thread_mps

Given == current_thread_mps \cup IF IsLast THEN available ELSE {}

CloseThread ==
    /\ stage = "close"
    /\ \/ /\ Given = {} /\ stage' = "nothing_chosen" /\ UNCHANGED <<locals, conf>>
       \/ /\ Given # {} /\ conf' = [conf EXCEPT ![thread_num] = Given]
          /\ IF IsLast THEN stage' = "set_sender_cvs" /\ UNCHANGED locals
             ELSE /\ stage' = "thread" /\ thread_num' = thread_num + 1
                  /\ accumulated_duration' = 0 /\ current_thread_mps' = {}
                  /\ message_passing_cost' = [m \in MPs |-> 0]
    /\ UNCHANGED <<timers, available, message_send_cvs>>

SetSenderCVS ==
    /\ stage = "set_sender_cvs" /\ stage' = "returned"
    /\ message_send_cvs' = SenderCVS(conf)
    /\ UNCHANGED <<timers, available, locals, conf>>

\* GetResharding has returned, or a failed assertion has stopped the program.
Ended == stage \in {"returned", "no_processor_left", "nothing_chosen"} /\ UNCHANGED resharding_vars

ReshardingNext == StartThread \/ FillThread \/ CloseThread \/ SetSenderCVS \/ Ended

ReshardingSpec == ReshardingInit /\ [][ReshardingNext]_resharding_vars

----------------------------------------------------------------------------
(* Properties *)

\* The shape of the state.
ReshardingTypeOK ==
    /\ stage \in {"thread", "fill", "close", "set_sender_cvs", "returned",
              "no_processor_left", "nothing_chosen"}
    /\ mp_average \in [MPs -> 1 .. MaxDuration]
    /\ edge_average \in [Edges -> 1 .. MaxDuration]
    /\ available \subseteq MPs /\ current_thread_mps \subseteq MPs
    /\ thread_num \in Threads /\ accumulated_duration \in Nat
    /\ message_passing_cost \in [MPs -> Nat]
    /\ conf \in [Threads -> SUBSET MPs]
    /\ message_send_cvs \in [Edges -> Threads]

\* What the sharder relies on: a new distribution gives every message processor to
\* one thread, so no message processor is forgotten and none is locked twice.
EveryProcessorOnce == stage = "returned" =>
    \A m \in MPs : \E t \in Threads : /\ m \in conf[t]
                                      /\ \A u \in Threads \ {t} : m \notin conf[u]

\* No thread but the last is given more than the average load, except a single
\* message processor that is heavier than that by itself.
LoadBounded == \A t \in 0 .. NThreads - 2 :
    \/ Cardinality(conf[t]) = 1
    \/ SumFunctionOnSet([m \in MPs |-> Duration(m)], conf[t]) <= AvgDuration

\* Whoever sends on an edge wakes the thread that serves the receiver: before
\* GetResharding returns that of the first distribution, afterwards of the new one.
ReceiverIsWoken ==
    LET current == IF stage = "returned" THEN conf ELSE InitialSharding
    IN  \A e \in Edges : To(e) \in current[message_send_cvs[e]]

\* The assertions of GetResharding: each thread finds a message processor that the
\* threads before it have left, and is given at least one.
AssertionsHold == stage \notin {"no_processor_left", "nothing_chosen"}
=============================================================================
