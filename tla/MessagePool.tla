---------------------------- MODULE MessagePool ----------------------------
(***************************************************************************)
(* DynamicallyShardedMessagePassingPool (src/sharder.h): message           *)
(* processors that run on the sharder's threads and send to each other.    *)
(* The sharder is what ShardOwnership promises, with its promises not to   *)
(* update; an edge's queue is a FIFO queue, as AtomicQueue says.           *)
(***************************************************************************)
EXTENDS MessagePassingController

CONSTANTS Confs,        \* the distributions GetResharding may return
          MaxMessages,  \* bound: messages sent on all edges
          NULL

ASSUME PoolAssumption ==
    /\ NULL \notin Threads \cup Edges /\ MaxMessages \in Nat
    /\ Confs \subseteq Distributions

VARIABLES
    pc,         \* [t]: where thread t is in ThreadAction or in a method it calls
    plan,       \* the configuration that is_first_main names
    other,      \* the other one of first_conf and second_conf
    behind,     \* threads whose is_first_local differs from is_first_main
    owner,      \* [mp]: the thread that holds its mutex, or NULL
    promised,   \* threads whose promise noupdate_counter counts
    todo,       \* [t]: message processors still to lock, to unlock or to process
    at,         \* [t]: what t does for one of them: [mp, edge, message, edges, out]
    is_active,
    notify_condition_variables,  \* [e]: as message_send_cvs, or NULL
    queues,     \* [e]: numbers of the messages in the queue
    sent,       \* [e]: messages pushed so far
    handled     \* [e]: numbers of the messages whose Receive has returned

sharder == <<plan, other, behind, owner, promised>>
cvs == <<message_send_cvs, notify_condition_variables>>
messages == <<queues, sent, handled>>
vars == <<pc, sharder, todo, at, is_active, cvs, messages>>

Ownership == INSTANCE ShardOwnership
    WITH Shards <- MPs, InitialConf <- InitialSharding, NoThread <- NULL

\* Between message processors; in Ping, edge is NULL.
Nowhere == [mp |-> NULL, edge |-> NULL, message |-> 0, edges |-> {}, out |-> NULL]

Init ==
    /\ Ownership!Init /\ other = [t \in Threads |-> {}] /\ promised = {}
    /\ pc = [t \in Threads |-> "lock"] /\ todo = plan
    /\ at = [t \in Threads |-> Nowhere]
    /\ is_active = [t \in Threads |-> TRUE]
    /\ message_send_cvs = SenderCVS(plan)
    /\ notify_condition_variables = [e \in Edges |-> NULL]
    /\ queues = [e \in Edges |-> <<>>] /\ handled = queues
    /\ sent = [e \in Edges |-> 0]

Goto(t, from, to) == pc[t] = from /\ pc' = [pc EXCEPT ![t] = to]

\* Vector<bool> keeps the flags in one word: with its own flag a thread may bring
\* back a value that another one has overwritten meanwhile, so theirs are open.
SetActive(t, value) == is_active' \in {flags \in [Threads -> BOOLEAN] : flags[t] = value}

----------------------------------------------------------------------------
(* The sharder *)

\* StartConfiguration: one mutex, then OnSwitch when all are locked.
LockShard(t) ==
    /\ Goto(t, "lock", "lock")
    /\ \E mp \in todo[t] : /\ Ownership!Acquire(t, mp)
                           /\ todo' = [todo EXCEPT ![t] = @ \ {mp}]
    /\ UNCHANGED <<other, promised, at, is_active, cvs, messages>>

ShardsLocked(t) ==
    /\ Goto(t, "lock", "on_switch") /\ todo[t] = {}
    /\ UNCHANGED <<sharder, todo, at, is_active, cvs, messages>>

\* Mutant: the edges that lead to the thread's message processors.
SwitchedIncomingEdges(t) == UNION {GetIncomingEdges(mp) : mp \in plan[t]}

SwitchedEdges(t) == UNION {GetOutgoingEdges(mp) : mp \in plan[t]}

\* OnSwitch is running from "on_switch" to its end.
OnSwitch(t) ==
    /\ Goto(t, "on_switch", "get_shards")
    /\ notify_condition_variables' =
         [e \in Edges |-> IF e \in SwitchedEdges(t) THEN message_send_cvs[e]
                          ELSE notify_condition_variables[e]]
    /\ UNCHANGED <<sharder, todo, at, is_active, message_send_cvs, messages>>

\* GetShards: the shards of the plan, or SwitchConfiguration.
GetShards(t) ==
    /\ \/ t \notin behind /\ Goto(t, "get_shards", "pre_process")
          /\ todo' = [todo EXCEPT ![t] = plan[t]]
       \/ t \in behind /\ Goto(t, "get_shards", "unlock")
          /\ todo' = [todo EXCEPT ![t] = other[t]]
    /\ UNCHANGED <<sharder, at, is_active, cvs, messages>>

UnlockShard(t) ==
    /\ Goto(t, "unlock", "unlock")
    /\ \E mp \in todo[t] : /\ Ownership!Release(t, mp)
                           /\ todo' = [todo EXCEPT ![t] = @ \ {mp}]
    /\ UNCHANGED <<other, promised, at, is_active, cvs, messages>>

ShardsUnlocked(t) ==
    /\ Goto(t, "unlock", "lock") /\ todo[t] = {}
    /\ Ownership!Adopt(t) /\ todo' = [todo EXCEPT ![t] = plan[t]]
    /\ UNCHANGED <<other, promised, at, is_active, cvs, messages>>

\* The end of an iteration without an exception; the promise if the timer has run
\* out.  The thread that is behind may not update and has no promise to give.
CheckTime(t) ==
    /\ pc[t] = "process" /\ todo[t] = {}
    /\ \/ pc' = [pc EXCEPT ![t] = "get_shards"] /\ UNCHANGED promised
       \/ /\ pc' = [pc EXCEPT ![t] = IF t = 0 THEN "reshard" ELSE "get_shards"]
          /\ promised' = IF t \in behind THEN promised ELSE promised \cup {t}
    /\ UNCHANGED <<plan, other, behind, owner, todo, at, is_active, cvs, messages>>

\* Mutant: one promise is missing.
AllButOnePromised == Cardinality(promised) >= NThreads - 1

AllPromised == promised = Threads

\* Reshard, called by thread 0 only.  GetResharding is running from "resharding" to
\* the step that publishes its result; SetSenderCVS is the last thing it does.
Reshard(t) ==
    /\ \/ AllPromised /\ Goto(t, "reshard", "resharding")
       \/ ~AllPromised /\ Goto(t, "reshard", "get_shards")
    /\ UNCHANGED <<sharder, todo, at, is_active, cvs, messages>>

GetResharding(t) ==
    /\ Goto(t, "resharding", "publish")
    /\ other' \in Confs /\ message_send_cvs' = SenderCVS(other')
    /\ UNCHANGED <<plan, behind, owner, promised, todo, at, is_active,
                   notify_condition_variables, messages>>

PublishConf(t) ==
    /\ Goto(t, "publish", "get_shards")
    /\ Ownership!Replan /\ plan' = other /\ other' = plan /\ promised' = {}
    /\ UNCHANGED <<todo, at, is_active, cvs, messages>>

----------------------------------------------------------------------------
(* The controller *)

\* PreProcess: wait unless the last iteration found something to do.
PreProcess(t) ==
    /\ \/ is_active[t] /\ Goto(t, "pre_process", "process") /\ SetActive(t, FALSE)
       \/ ~is_active[t] /\ Goto(t, "pre_process", "wait") /\ UNCHANGED is_active
    /\ UNCHANGED <<sharder, todo, at, cvs, messages>>

\* wait_for returns because it was notified, or because its time has passed.
WakeUp(t) ==
    /\ Goto(t, "woken", "process") /\ SetActive(t, FALSE)
    /\ UNCHANGED <<sharder, todo, at, cvs, messages>>

\* Mutant: wait instead of wait_for, so that only a notification ends it.
TimeOutNever(t) == FALSE

TimeOut(t) ==
    /\ Goto(t, "wait", "process") /\ SetActive(t, FALSE)
    /\ UNCHANGED <<sharder, todo, at, cvs, messages>>

\* ProcessShard: first Ping.  Ping and Receive are running while pc is "running" or
\* "notify".
Ping(t) ==
    /\ Goto(t, "process", "running")
    /\ \E mp \in todo[t] : /\ todo' = [todo EXCEPT ![t] = @ \ {mp}]
                           /\ at' = [at EXCEPT ![t].mp = mp]
    /\ UNCHANGED <<sharder, is_active, cvs, messages>>

PingReturns(t) ==
    /\ Goto(t, "running", "edges") /\ at[t].edge = NULL
    /\ at' = [at EXCEPT ![t].edges = GetIncomingEdges(at[t].mp)]
    /\ SetActive(t, TRUE) \/ UNCHANGED is_active
    /\ UNCHANGED <<sharder, todo, cvs, messages>>

\* NotifyAboutMessage for the next of the incoming edges: nothing to receive, or
\* Receive is called with the message at the head of the queue.
NotifyAboutMessage(t) == \E e \in at[t].edges :
    /\ \/ /\ queues[e] = <<>> /\ Goto(t, "edges", "edges")
          /\ at' = [at EXCEPT ![t].edges = @ \ {e}]
       \/ /\ queues[e] # <<>> /\ Goto(t, "edges", "running")
          /\ at' = [at EXCEPT ![t].edges = @ \ {e}, ![t].edge = e,
                              ![t].message = Head(queues[e])]
    /\ UNCHANGED <<sharder, todo, is_active, cvs, messages>>

\* The message is removed after Receive has returned.
ReceiveReturns(t) == LET e == at[t].edge IN
    /\ Goto(t, "running", "edges") /\ e # NULL
    /\ queues' = [queues EXCEPT ![e] = Tail(@)]
    /\ handled' = [handled EXCEPT ![e] = Append(@, at[t].message)]
    /\ at' = [at EXCEPT ![t].edge = NULL, ![t].message = 0]
    /\ SetActive(t, TRUE)
    /\ UNCHANGED <<sharder, todo, cvs, sent>>

ShardProcessed(t) ==
    /\ Goto(t, "edges", "process") /\ at[t].edges = {}
    /\ at' = [at EXCEPT ![t] = Nowhere]
    /\ UNCHANGED <<sharder, todo, is_active, cvs, messages>>

\* Mutant: the message is removed although Receive has thrown.
ThrowRemoves(t) == LET e == at[t].edge IN
    /\ Goto(t, "running", "get_shards") /\ at' = [at EXCEPT ![t] = Nowhere]
    /\ todo' = [todo EXCEPT ![t] = {}]
    /\ queues' = IF e = NULL THEN queues ELSE [queues EXCEPT ![e] = Tail(@)]
    /\ UNCHANGED <<sharder, is_active, cvs, sent, handled>>

\* Ping or Receive throws: the iteration ends without a promise.
Throw(t) ==
    /\ Goto(t, "running", "get_shards") /\ at' = [at EXCEPT ![t] = Nowhere]
    /\ todo' = [todo EXCEPT ![t] = {}]
    /\ UNCHANGED <<sharder, is_active, cvs, messages>>

AllSent == FoldFunction(+, 0, sent)

\* Send: Push, then notify_one, which wakes the thread if it is waiting by now.
Send(t) ==
    /\ Goto(t, "running", "notify")
    /\ \E e \in GetOutgoingEdges(at[t].mp) :
         /\ AllSent < MaxMessages /\ sent' = [sent EXCEPT ![e] = @ + 1]
         /\ queues' = [queues EXCEPT ![e] = Append(@, sent[e] + 1)]
         /\ at' = [at EXCEPT ![t].out = e]
    /\ UNCHANGED <<sharder, todo, is_active, cvs, handled>>

NotifyOne(t) == LET u == notify_condition_variables[at[t].out] IN
    /\ pc[t] = "notify"
    /\ pc' = [v \in Threads |-> IF v = t THEN "running"
                                ELSE IF v = u /\ pc[v] = "wait" THEN "woken" ELSE pc[v]]
    /\ at' = [at EXCEPT ![t].out = NULL]
    /\ UNCHANGED <<sharder, todo, is_active, cvs, messages>>

ThreadAction(t) ==
    \/ LockShard(t) \/ ShardsLocked(t) \/ OnSwitch(t)
    \/ GetShards(t) \/ UnlockShard(t) \/ ShardsUnlocked(t)
    \/ PreProcess(t) \/ WakeUp(t) \/ TimeOut(t)
    \/ Ping(t) \/ PingReturns(t) \/ NotifyAboutMessage(t) \/ ReceiveReturns(t)
    \/ ShardProcessed(t) \/ Throw(t) \/ Send(t) \/ NotifyOne(t)
    \/ CheckTime(t) \/ Reshard(t) \/ GetResharding(t) \/ PublishConf(t)

Next == \E t \in Threads : ThreadAction(t)

Spec == Init /\ [][Next]_vars

\* A thread keeps being scheduled, and a wait ends when its time has passed.
FairSpec == Spec /\ \A t \in Threads : WF_vars(ThreadAction(t))

----------------------------------------------------------------------------
(* Properties *)

Messages == 1 .. MaxMessages

\* The shape of the state.
TypeOK ==
    /\ pc \in [Threads -> {"lock", "on_switch", "get_shards", "unlock", "pre_process",
                           "wait", "woken", "process", "running", "notify", "edges",
                           "reshard", "resharding", "publish"}]
    /\ plan \in Confs \cup {InitialSharding}
    /\ other \in Confs \cup {InitialSharding, [t \in Threads |-> {}]}
    /\ behind \subseteq Threads /\ owner \in [MPs -> Threads \cup {NULL}]
    /\ promised \subseteq Threads /\ todo \in [Threads -> SUBSET MPs]
    /\ \A t \in Threads : at[t] \in
         [mp : MPs \cup {NULL}, edge : Edges \cup {NULL}, message : Messages \cup {0},
          edges : SUBSET Edges, out : Edges \cup {NULL}]
    /\ is_active \in [Threads -> BOOLEAN]
    /\ message_send_cvs \in [Edges -> Threads]
    /\ notify_condition_variables \in [Edges -> Threads \cup {NULL}]

\* The messages of an edge are handled in the order they were sent, each one once,
\* although their receiver moves between threads and its Receive may throw.
HandledInOrder == \A e \in Edges :
    handled[e] \o queues[e] = [i \in 1 .. sent[e] |-> i]

Server(conf, e) == CHOOSE t \in Threads : To(e) \in conf[t]

\* Whoever sends wakes the thread that serves the receiver according to the
\* configuration the sender follows: the current one, or the one before as long as
\* the sender has not switched.
SenderWakesServer == \A t \in Threads : pc[t] = "notify" =>
    notify_condition_variables[at[t].out] =
        Server(IF t \in behind THEN other ELSE plan, at[t].out)

\* Pointers to condition variables are not synchronized by themselves: nobody reads
\* one that OnSwitch is replacing, or runs OnSwitch while GetResharding recomputes
\* what it hands out.
PointersNotRaced == \A t \in Threads : pc[t] = "on_switch" =>
    /\ pc[0] # "resharding"
    /\ \A u \in Threads \ {t} :
         pc[u] = "notify" => at[u].out \notin SwitchedEdges(t)

\* As long as no message processor throws for ever, every message is handled, also
\* when the notification comes before the receiver's thread waits.
ThrowsAgain(t) == pc[t] = "running" /\ pc'[t] = "get_shards"
EveryMessageHandled ==
    <>[][\A t \in Threads : ~ThrowsAgain(t)]_vars =>
        \A e \in Edges : []<>(Len(handled[e]) = sent[e])
=============================================================================
