--------------------------- MODULE LockFreeQueue ---------------------------
(***************************************************************************)
(* The lock-free queue of src/queue.h with its three-counter reclamation   *)
(* of nodes.  Every access to an atomic is one step; a loop around a       *)
(* compare-and-swap that only retries is one atomic update.  Deleting a    *)
(* node puts it back into a finite pool, from which a later new Node() may *)
(* take it again.  Pushers push the values of their script, poppers call   *)
(* PopWithHeadDataCallback a bounded number of times; when all are done    *)
(* the Destructor pops what is left and frees the last node.               *)
(***************************************************************************)
EXTENDS Integers, Sequences, FiniteSets, Functions

CONSTANTS Pushers, Poppers, Destructor,
          Script,          \* Script[p]: the values pusher p pushes, all different
          MaxPolls,        \* bound: calls of Pop by each popper
          ThrowingValues,  \* values on which a popper's callback may throw
          Nodes,           \* the pool of nodes
          CountRange,      \* internal_count wraps modulo this (2^30 in the code)
          MaxCopies,       \* bound: external_count of head and of tail
          NULL

Threads == Pushers \cup Poppers \cup {Destructor}

\* A value that is pushed is not null, and the threads are fewer than a counter's range.
ASSUME QueueAssumption ==
    /\ IsFiniteSet(Threads) /\ IsFiniteSet(Nodes) /\ NULL \notin Nodes
    /\ Pushers \cap Poppers = {} /\ Destructor \notin Pushers \cup Poppers
    /\ \A p \in Pushers : /\ Script[p] \in Seq(Range(Script[p]))
                          /\ NULL \notin Range(Script[p])
    /\ {MaxPolls, MaxCopies} \subseteq Nat \ {0}
    /\ CountRange \in Nat /\ Cardinality(Threads) < CountRange

VARIABLES head, tail,  \* CountedNodePtr: [external_count, ptr]
          node,        \* node[n]: [data, internal_count, external_counters, next]
          live,        \* allocated nodes
          pc,
          my,          \* my[t]: thread t's local variables, see Init
          calls,       \* calls of Push or Pop that have ended
          pushed,      \* values whose Push has returned
          popped,      \* values head has moved past, in order
          handled      \* values whose callback has returned, in order

nodes == <<node, live>>
history == <<calls, pushed, popped, handled>>
vars == <<head, tail, nodes, pc, my, history>>

Counted(c, n) == [external_count |-> c, ptr |-> n]
Fresh == [data |-> NULL, internal_count |-> 0, external_counters |-> 3,
          next |-> Counted(0, NULL)]

Init ==
    /\ \E n \in Nodes :
         /\ head = Counted(1, n) /\ tail = Counted(1, n) /\ live = {n}
         /\ node = [m \in Nodes |-> IF m = n THEN [Fresh EXCEPT !.external_counters = 2]
                                             ELSE Fresh]
    /\ pc = [t \in Threads |-> "idle"]
    /\ my = [t \in Threads |-> [old |-> Counted(0, NULL),   \* tail_copy, head_copy
                                nxt |-> Counted(0, NULL),   \* next_copy, new tail
                                new |-> NULL,               \* new_next.ptr
                                val |-> NULL,               \* new_value, *data, res
                                again |-> FALSE]]           \* Pop's loop goes round
    /\ calls = [t \in Threads |-> 0]
    /\ pushed = {} /\ popped = <<>> /\ handled = <<>>

Goto(t, from, to) == pc[t] = from /\ pc' = [pc EXCEPT ![t] = to]
Old(t) == my[t].old.ptr

----------------------------------------------------------------------------
Inc(p) == [p EXCEPT !.external_count = @ + 1]

\* Mutant: the promises of the sources are not waited for.
StoreCountsEarly(n, new) ==
    IF new.internal_count = 0
    THEN node' = [node EXCEPT ![n] = Fresh] /\ live' = live \ {n}
    ELSE node' = [node EXCEPT ![n] = new] /\ UNCHANGED live

\* Store a node whose counters have changed; delete it when both are zero.
StoreCounts(n, new) ==
    IF new.internal_count = 0 /\ new.external_counters = 0
    THEN node' = [node EXCEPT ![n] = Fresh] /\ live' = live \ {n}
    ELSE node' = [node EXCEPT ![n] = new] /\ UNCHANGED live

\* Mutant: only a source deletes a node, a guard never does.
DropGuardKeeps(p) ==
    /\ node' = [node EXCEPT ![p.ptr].internal_count = (@ - 1) % CountRange]
    /\ UNCHANGED live

\* The destructor of CountedNodePtrCopyGuard.
DropGuard(p) == StoreCounts(p.ptr,
    [node[p.ptr] EXCEPT !.internal_count = (@ - 1) % CountRange])

\* Mutant: the copy the source is itself is counted too.
FreeExternalCounterAll(p) == StoreCounts(p.ptr,
    [node[p.ptr] EXCEPT !.internal_count = (@ + p.external_count) % CountRange,
                        !.external_counters = (@ - 1) % 4])

FreeExternalCounter(p) == StoreCounts(p.ptr,
    [node[p.ptr] EXCEPT !.internal_count = (@ + p.external_count - 1) % CountRange,
                        !.external_counters = (@ - 1) % 4])

----------------------------------------------------------------------------
PushStart(t) == \E n \in Nodes \ live :
    /\ calls[t] < Len(Script[t])
    /\ Goto(t, "idle", "guard_tail")
    /\ live' = live \cup {n}
    /\ my' = [my EXCEPT ![t].new = n, ![t].val = Script[t][calls[t] + 1]]
    /\ UNCHANGED <<head, tail, node, history>>

GuardTail(t) ==
    /\ tail.external_count < MaxCopies
    /\ Goto(t, "guard_tail", "cas_data")
    /\ tail' = Inc(tail) /\ my' = [my EXCEPT ![t].old = Inc(tail)]
    /\ UNCHANGED <<head, nodes, history>>

\* Mutant: the value is stored without a comparison with null.
CasDataUnchecked(t) ==
    /\ Goto(t, "cas_data", "link_own")
    /\ node' = [node EXCEPT ![Old(t)].data = my[t].val]
    /\ UNCHANGED <<head, tail, live, my, history>>

CasData(t) ==
    /\ \/ /\ Goto(t, "cas_data", "link_own") /\ node[Old(t)].data = NULL
          /\ node' = [node EXCEPT ![Old(t)].data = my[t].val]
       \/ /\ Goto(t, "cas_data", "link_help") /\ node[Old(t)].data # NULL
          /\ UNCHANGED node
    /\ UNCHANGED <<head, tail, live, my, history>>

\* After its own value is in, a pusher whose compare-and-swap on next fails deletes
\* its new node; after another's, one whose compare-and-swap succeeds needs another.
LinkNext(t) ==
    LET next == node[Old(t)].next
        own  == pc[t] = "link_own"
    IN  /\ pc[t] \in {"link_own", "link_help"} /\ Goto(t, pc[t], "set_tail")
        /\ \/ /\ next = Counted(0, NULL)
              /\ node' = [node EXCEPT ![Old(t)].next = Counted(1, my[t].new)]
              /\ \E n \in IF own THEN {NULL} ELSE Nodes \ live :
                   /\ my' = [my EXCEPT ![t].nxt = Counted(1, my[t].new), ![t].new = n]
                   /\ live' = live \cup ({n} \ {NULL})
           \/ /\ next # Counted(0, NULL) /\ UNCHANGED node
              /\ my' = [my EXCEPT ![t].nxt = next, ![t].new = IF own THEN NULL ELSE @]
              /\ live' = IF own THEN live \ {my[t].new} ELSE live
        /\ UNCHANGED <<head, tail, history>>

\* Mutant: a pusher leaves the tail to the one whose value went in.
SetNewTailOwn(t) ==
    /\ \/ /\ tail.ptr = Old(t) /\ my[t].new = NULL /\ Goto(t, "set_tail", "free_tail")
          /\ tail' = Counted(1, my[t].nxt.ptr) /\ my' = [my EXCEPT ![t].old = tail]
       \/ /\ tail.ptr # Old(t) \/ my[t].new # NULL
          /\ Goto(t, "set_tail", "drop_tail") /\ UNCHANGED <<tail, my>>
    /\ UNCHANGED <<head, nodes, history>>

SetNewTail(t) ==
    /\ \/ /\ tail.ptr = Old(t) /\ Goto(t, "set_tail", "free_tail")
          /\ tail' = Counted(1, my[t].nxt.ptr) /\ my' = [my EXCEPT ![t].old = tail]
       \/ /\ tail.ptr # Old(t) /\ Goto(t, "set_tail", "drop_tail")
          /\ UNCHANGED <<tail, my>>
    /\ UNCHANGED <<head, nodes, history>>

\* Push ends if its value went into the last node, and goes round otherwise.
DropTail(t) ==
    /\ pc[t] = "drop_tail" /\ DropGuard(my[t].old)
    /\ \/ /\ my[t].new # NULL /\ Goto(t, "drop_tail", "guard_tail")
          /\ UNCHANGED <<my, calls, pushed>>
       \/ /\ my[t].new = NULL /\ Goto(t, "drop_tail", "idle")
          /\ pushed' = pushed \cup {my[t].val} /\ my' = [my EXCEPT ![t].val = NULL]
          /\ calls' = [calls EXCEPT ![t] = @ + 1]
    /\ UNCHANGED <<head, tail, popped, handled>>

----------------------------------------------------------------------------
Done(t) == pc[t] = "idle"
           /\ calls[t] = IF t \in Pushers THEN Len(Script[t]) ELSE MaxPolls

PopStart(t) ==
    /\ IF t = Destructor THEN \A u \in Threads \ {t} : Done(u) ELSE calls[t] < MaxPolls
    /\ Goto(t, "idle", "guard_head")
    /\ UNCHANGED <<head, tail, nodes, my, history>>

GuardHead(t) ==
    /\ head.external_count < MaxCopies
    /\ Goto(t, "guard_head", "check_empty")
    /\ head' = Inc(head)
    /\ my' = [my EXCEPT ![t].old = Inc(head), ![t].again = FALSE]
    /\ UNCHANGED <<tail, nodes, history>>

CheckEmpty(t) ==
    /\ Goto(t, "check_empty", IF tail.ptr = Old(t) THEN "drop_head" ELSE "guard_next")
    /\ UNCHANGED <<head, tail, nodes, my, history>>

GuardNext(t) == LET next == node[Old(t)].next IN
    /\ \/ /\ Goto(t, "guard_next", "drop_head") /\ next.ptr = NULL
          /\ my' = [my EXCEPT ![t].again = TRUE] /\ UNCHANGED node
       \/ /\ Goto(t, "guard_next", "callback") /\ next.ptr # NULL
          /\ node' = [node EXCEPT ![Old(t)].next = Inc(next)]
          /\ my' = [my EXCEPT ![t].nxt = Inc(next)]
    /\ UNCHANGED <<head, tail, live, history>>

\* The callback is running on my[t].val while pc[t] = "in_callback".
StartCallback(t) ==
    /\ Goto(t, "callback", "in_callback")
    /\ my' = [my EXCEPT ![t].val = node[Old(t)].data]
    /\ UNCHANGED <<head, tail, nodes, history>>

\* Mutant: the queue goes on as if the callback had not thrown.
EndCallbackSwallowed(t) ==
    /\ Goto(t, "in_callback", "cas_head")
    /\ \/ handled' = Append(handled, my[t].val)
       \/ t # Destructor /\ my[t].val \in ThrowingValues /\ UNCHANGED handled
    /\ my' = [my EXCEPT ![t].val = NULL]
    /\ UNCHANGED <<head, tail, nodes, calls, pushed, popped>>

EndCallback(t) ==
    /\ \/ /\ Goto(t, "in_callback", "cas_head")
          /\ handled' = Append(handled, my[t].val)
       \/ /\ t # Destructor /\ my[t].val \in ThrowingValues
          /\ Goto(t, "in_callback", "drop_next") /\ UNCHANGED handled
    /\ my' = [my EXCEPT ![t].val = NULL]
    /\ UNCHANGED <<head, tail, nodes, calls, pushed, popped>>

\* Mutant: the head is moved whether or not it has changed.
CasHeadUnchecked(t) ==
    /\ Goto(t, "cas_head", "take_data")
    /\ head' = Counted(1, my[t].nxt.ptr)
    /\ popped' = Append(popped, node[Old(t)].data)
    /\ UNCHANGED <<tail, nodes, my, calls, pushed, handled>>

CasHead(t) ==
    /\ \/ /\ head = my[t].old /\ Goto(t, "cas_head", "take_data")
          /\ head' = Counted(1, my[t].nxt.ptr)
          /\ popped' = Append(popped, node[Old(t)].data) /\ UNCHANGED my
       \/ /\ head # my[t].old /\ Goto(t, "cas_head", "drop_next")
          /\ my' = [my EXCEPT ![t].again = TRUE] /\ UNCHANGED <<head, popped>>
    /\ UNCHANGED <<tail, nodes, calls, pushed, handled>>

TakeData(t) ==
    /\ Goto(t, "take_data", "close_next")
    /\ my' = [my EXCEPT ![t].val = node[Old(t)].data]
    /\ node' = [node EXCEPT ![Old(t)].data = NULL]
    /\ UNCHANGED <<head, tail, live, history>>

\* {1, nullptr} marks the node as popped: no pusher can link to it any more.
CloseNext(t) ==
    /\ Goto(t, "close_next", "free_head")
    /\ my' = [my EXCEPT ![t].nxt = node[Old(t)].next]
    /\ node' = [node EXCEPT ![Old(t)].next = Counted(1, NULL)]
    /\ UNCHANGED <<head, tail, live, history>>

\* Mutant: the destructor pops a single value.
DropHeadOnce(t) ==
    /\ pc[t] = "drop_head" /\ DropGuard(my[t].old)
    /\ \/ /\ my[t].again /\ Goto(t, "drop_head", "guard_head") /\ UNCHANGED <<my, calls>>
       \/ /\ ~my[t].again
          /\ Goto(t, "drop_head", IF t = Destructor THEN "destroy_head" ELSE "idle")
          /\ my' = [my EXCEPT ![t].val = NULL]
          /\ calls' = IF t = Destructor THEN calls ELSE [calls EXCEPT ![t] = @ + 1]
    /\ UNCHANGED <<head, tail, pushed, popped, handled>>

\* Pop goes round or ends: with a value, with none, or with an exception.
DropHead(t) ==
    /\ pc[t] = "drop_head" /\ DropGuard(my[t].old)
    /\ \/ /\ my[t].again /\ Goto(t, "drop_head", "guard_head") /\ UNCHANGED <<my, calls>>
       \/ /\ ~my[t].again
          /\ Goto(t, "drop_head",
                  IF t = Destructor /\ my[t].val = NULL THEN "destroy_head" ELSE "idle")
          /\ my' = [my EXCEPT ![t].val = NULL]
          /\ calls' = IF t = Destructor THEN calls ELSE [calls EXCEPT ![t] = @ + 1]
    /\ UNCHANGED <<head, tail, pushed, popped, handled>>

\* The steps that only change a node's counters.
UpdateCounts(t) ==
    /\ \/ Goto(t, "free_tail", "drop_tail") /\ FreeExternalCounter(my[t].old)
       \/ Goto(t, "free_head", "free_next") /\ FreeExternalCounter(my[t].old)
       \/ Goto(t, "free_next", "drop_next") /\ FreeExternalCounter(my[t].nxt)
       \/ Goto(t, "drop_next", "drop_head") /\ DropGuard(my[t].nxt)
       \/ Goto(t, "destroy_head", "destroy_tail") /\ FreeExternalCounter(head)
       \/ Goto(t, "destroy_tail", "destroyed") /\ FreeExternalCounter(tail)
    /\ UNCHANGED <<head, tail, my, history>>

----------------------------------------------------------------------------
Push(t) ==
    \/ PushStart(t) \/ GuardTail(t) \/ CasData(t) \/ LinkNext(t)
    \/ SetNewTail(t) \/ UpdateCounts(t) \/ DropTail(t)

Pop(t) ==
    \/ PopStart(t) \/ GuardHead(t) \/ CheckEmpty(t) \/ GuardNext(t)
    \/ StartCallback(t) \/ EndCallback(t) \/ CasHead(t) \/ TakeData(t)
    \/ CloseNext(t) \/ UpdateCounts(t) \/ DropHead(t)

\* The queue's owner has joined the threads and destroyed the queue.
Terminated == pc[Destructor] = "destroyed" /\ UNCHANGED vars

Next ==
    \/ \E t \in Pushers : Push(t)
    \/ \E t \in Poppers \cup {Destructor} : Pop(t)
    \/ Terminated

Spec == Init /\ [][Next]_vars

----------------------------------------------------------------------------
(* Properties *)

Values == UNION {{Script[p][i] : i \in 1 .. Len(Script[p])} : p \in Pushers}
Links == [external_count : 0 .. MaxCopies, ptr : Nodes \cup {NULL}]

PushLabels == {"guard_tail", "cas_data", "link_own", "link_help", "set_tail",
               "free_tail", "drop_tail"}
HeadLabels == {"guard_head", "check_empty", "guard_next", "drop_head"}
NextLabels == {"callback", "in_callback", "cas_head", "take_data", "close_next",
               "free_head", "free_next", "drop_next"}

\* The shape of the state; head never moves past a node whose data is null, one that
\* is empty or that another popper has taken.
TypeOK ==
    /\ head \in Links /\ tail \in Links /\ live \subseteq Nodes
    /\ node \in [Nodes -> [data : Values \cup {NULL}, internal_count : 0 .. CountRange - 1,
                           external_counters : 0 .. 3, next : Links]]
    /\ pc \in [Threads -> PushLabels \cup HeadLabels \cup NextLabels \cup
                          {"idle", "destroy_head", "destroy_tail", "destroyed"}]
    /\ my \in [Threads -> [old : Links, nxt : Links, new : Nodes \cup {NULL},
                           val : Values \cup {NULL}, again : BOOLEAN]]
    /\ pushed \subseteq Values /\ popped \in Seq(Values)
    /\ handled \in Seq(Values \cup {NULL})

\* The copies a thread holds: from the constructor of its CountedNodePtrCopyGuard
\* to the destructor, on the node at tail or head, and on the node after head.
GuardsOld(t) == pc[t] \in (PushLabels \ {"guard_tail"}) \cup
                          (HeadLabels \ {"guard_head"}) \cup NextLabels
GuardsNext(t) == pc[t] \in NextLabels

\* Nobody holds a copy of a deleted node: whatever an operation will still read,
\* write or count down through its guards has not been given back.
NoUseAfterFree ==
    /\ \A t \in Threads : /\ GuardsOld(t) => Old(t) \in live
                          /\ GuardsNext(t) => my[t].nxt.ptr \in live
    /\ pc[Destructor] = "destroy_head" => head.ptr \in live
    /\ pc[Destructor] = "destroy_tail" => tail.ptr \in live

\* Copies that a source made of node n beyond its first: those of an atomic
\* pointer, and those a thread has read from it and has still to hand over.
Extra(link, n) == IF link.ptr = n THEN link.external_count - 1 ELSE 0
Owed(t, n) ==
    (IF pc[t] \in {"free_tail", "take_data", "close_next", "free_head"}
     THEN Extra(my[t].old, n) ELSE 0)
    + IF pc[t] \in {"free_head", "free_next"} THEN Extra(my[t].nxt, n) ELSE 0

\* The invariant of the three counters (report/description.tex): what a node has
\* counted, plus what its sources have handed out and not yet reported, is the
\* number of copies in use.
ReferenceCounts == pc[Destructor] \notin {"destroy_tail", "destroyed"} =>
    \A n \in live :
        (node[n].internal_count + Extra(head, n) + Extra(tail, n)
           + SumFunctionOnSet([m \in Nodes |-> Extra(node[m].next, n)], live)
           + SumFunctionOnSet([t \in Threads |-> Owed(t, n)], Threads)) % CountRange
        = Cardinality({t \in Threads : GuardsOld(t) /\ Old(t) = n})
          + Cardinality({t \in Threads : GuardsNext(t) /\ my[t].nxt.ptr = n})

\* While the callback of a queue's one consumer runs, the value it was given is there
\* and stays in the node, though it is some steps since the popper found a next node,
\* and pushers that still hold a copy of this one try their values on it.
CallbackValueStable == \A t \in Threads :
    pc[t] = "in_callback" => my[t].val # NULL /\ node[Old(t)].data = my[t].val

\* With one consumer a value's callback completes once, in order, before the value
\* is removed; a value whose callback threw is the next one to be handled.
HandledOnce == handled = popped \/ \E v \in Values : handled = Append(popped, v)

\* A destroyed queue has given back every node it ever allocated.
AllReclaimed == pc[Destructor] = "destroyed" => live = {}

\* A destroyed queue has handed out every value that was pushed.
NothingLost == pc[Destructor] = "destroyed" => pushed = {popped[i] : i \in 1 .. Len(popped)}

\* The node that is k links after head, and the values from head up to the first
\* node without one.
NodeAt[k \in Nat] == IF k = 0 THEN head.ptr
                    ELSE IF NodeAt[k - 1] = NULL THEN NULL ELSE node[NodeAt[k - 1]].next.ptr
HasValue(k) == NodeAt[k] # NULL /\ node[NodeAt[k]].data # NULL
Contents ==
    LET filled == {k \in 0 .. Cardinality(Nodes) : \A j \in 0 .. k : HasValue(j)}
    IN  [i \in 1 .. Cardinality(filled) |-> node[NodeAt[i - 1]].data]

\* The queue is a FIFO queue: a value enters it when its pusher's compare-and-swap
\* on data succeeds and leaves it when a popper's compare-and-swap on head does.
Atomic == INSTANCE AtomicQueue WITH queue <- Contents
ImplementsQueue == Atomic!Spec

\* A thread that is scheduled ends its operations wherever the others are stopped:
\* a pusher completes what a stalled one has left half done, and a popper needs
\* nothing from the pushers.
NobodyWaits ==
    /\ \A t \in Pushers : WF_vars(Push(t)) => <>Done(t)
    /\ \A t \in Poppers : WF_vars(Pop(t)) => <>Done(t)
=============================================================================
