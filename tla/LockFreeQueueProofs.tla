-------------------------- MODULE LockFreeQueueProofs --------------------------
(***************************************************************************)
(* Theorems about LockFreeQueue, for any number of pushers, poppers and    *)
(* nodes: types are correct, the reference counts are exact, no node is    *)
(* used after it was deleted, and a destroyed queue has deleted every      *)
(* node.  For one popper, values are handled once and stay in their nodes  *)
(* meanwhile; for one pusher, it is a FIFO queue that loses nothing.       *)
(*                                                                         *)
(* The nodes that have been linked are a chain, in which head is not       *)
(* behind tail.  The invariant is about the positions of nodes in it,      *)
(* which no variable holds: it says that there are some.                   *)
(***************************************************************************)
EXTENDS LockFreeQueue, WellOrder, SequenceTheorems

\* A node that a pusher has allocated and not yet linked is its own.
Linked == {n \in live : \A t \in Pushers : my[t].new # n}

AnyLink == [external_count : Nat, ptr : Nodes \cup {NULL}]
AnyNode == [data : Values \cup {NULL}, internal_count : 0 .. CountRange - 1,
            external_counters : 0 .. 3, next : AnyLink]
Locals == [old : AnyLink, nxt : AnyLink, new : Nodes \cup {NULL},
           val : Values \cup {NULL}, again : BOOLEAN]

PushPlaces == PushLabels \cup {"idle"}
PopPlaces == HeadLabels \cup NextLabels \cup {"idle", "destroy_head", "destroy_tail", "destroyed"}

PlacesInv ==
    /\ pc \in [Threads -> PushPlaces \cup PopPlaces]
    /\ \A t \in Threads : pc[t] \in IF t \in Pushers THEN PushPlaces ELSE PopPlaces
    /\ \A t \in Poppers : pc[t] \notin {"destroy_head", "destroy_tail", "destroyed"}

\* The shape of the state, without bounds on the counts of links.
ShapeInv ==
    /\ head \in AnyLink /\ tail \in AnyLink /\ live \subseteq Nodes
    /\ node \in [Nodes -> AnyNode] /\ my \in [Threads -> Locals]
    /\ PlacesInv /\ calls \in [Threads -> Nat]
    /\ pushed \subseteq Values /\ popped \in Seq(Values)
    /\ handled \in Seq(Values \cup {NULL})

\* A pusher has a new node until it has linked it, and nodes not in use are fresh.
UnlinkedInv ==
    /\ \A t \in Pushers :
         /\ my[t].new # NULL => my[t].new \in live /\ node[my[t].new] = Fresh
         /\ pc[t] = "idle" => my[t].new = NULL
         /\ pc[t] \in {"guard_tail", "cas_data", "link_own", "link_help"} => my[t].new # NULL
         /\ pc[t] # "idle" => my[t].val # NULL
    /\ \A t, u \in Pushers : t # u /\ my[t].new # NULL => my[t].new # my[u].new
    /\ \A n \in Nodes \ live : node[n] = Fresh

Taking(t) == pc[t] \in {"take_data", "close_next"}
Taken(t) == pc[t] \in {"take_data", "close_next", "free_head", "free_next"}

\* The linked nodes are a chain: a node's next one has the next position.
Chained(pos) ==
    /\ head.ptr \in Linked /\ tail.ptr \in Linked /\ pos[head.ptr] <= pos[tail.ptr]
    /\ \A m, n \in Linked : pos[m] = pos[n] => m = n
    /\ \A n \in Linked : node[n].next.ptr # NULL =>
         node[n].next.ptr \in Linked /\ pos[node[n].next.ptr] = pos[n] + 1

\* It ends with a node without a next one, at tail or just behind it; then some pusher
\* is about to move tail.
Ended(pos) ==
    /\ \A n \in Linked : node[n].next.ptr = NULL /\ pos[head.ptr] <= pos[n] =>
         node[n].next = Counted(0, NULL) /\ \A m \in Linked : pos[m] <= pos[n]
    /\ \A n \in Linked : /\ pos[n] <= pos[tail.ptr] + 1
                         /\ pos[n] > pos[tail.ptr] =>
                              \E t \in Pushers : pc[t] = "set_tail" /\ Old(t) = tail.ptr

\* Nodes before head are closed, except by the popper that is doing so; nodes from
\* head on have their value before they have a next one.
Filled(pos) ==
    /\ \A n \in Linked : node[n].next.ptr = NULL /\ pos[n] < pos[head.ptr] =>
         node[n].next = Counted(1, NULL)
    /\ \A n \in Linked : node[n].next.ptr # NULL /\ pos[n] < pos[head.ptr] =>
         \E t \in Threads : Taking(t) /\ Old(t) = n
    /\ \A n \in Linked : node[n].next.ptr # NULL /\ pos[head.ptr] <= pos[n] =>
         node[n].data # NULL

ChainInv(pos) == Chained(pos) /\ Ended(pos) /\ Filled(pos)

\* Where a pusher is in the chain.
Pushing(t, pos) ==
    /\ GuardsOld(t) => Old(t) \in Linked /\ pos[Old(t)] <= pos[tail.ptr]
    /\ pc[t] \in {"link_own", "link_help"} /\ pos[head.ptr] <= pos[Old(t)] =>
         node[Old(t)].data # NULL
    /\ pc[t] = "set_tail" /\ pos[head.ptr] <= pos[Old(t)] =>
         my[t].nxt.ptr \in Linked /\ pos[my[t].nxt.ptr] = pos[Old(t)] + 1
    /\ pc[t] = "free_tail" => pos[Old(t)] < pos[tail.ptr]

\* Where a popper is in the chain.
Popping(t, pos) ==
    /\ GuardsOld(t) => Old(t) \in Linked /\ pos[Old(t)] <= pos[head.ptr]
    /\ pc[t] = "guard_next" => pos[Old(t)] < pos[tail.ptr]
    /\ GuardsNext(t) => /\ my[t].nxt.ptr \in Linked /\ pos[my[t].nxt.ptr] = pos[Old(t)] + 1
                        /\ pos[Old(t)] < pos[tail.ptr]
    /\ Taken(t) => pos[Old(t)] < pos[head.ptr]
    /\ Taking(t) => node[Old(t)].next.ptr = my[t].nxt.ptr
    /\ pc[t] \in {"free_head", "free_next"} => node[Old(t)].next.ptr = NULL
    /\ pc[t] = "take_data" => node[Old(t)].data # NULL

\* One pusher has moved tail on from a node, and one popper head.
Apart ==
    /\ \A t, u \in Pushers : t # u /\ pc[t] = "free_tail" /\ pc[u] = "free_tail" =>
         Old(t) # Old(u)
    /\ \A t, u \in Threads \ Pushers : t # u /\ Taken(t) /\ Taken(u) => Old(t) # Old(u)

ThreadInv(pos) ==
    /\ \A t \in Pushers : Pushing(t, pos)
    /\ \A t \in Threads \ Pushers : Popping(t, pos)
    /\ Apart

\* The sources that have not yet reported how many copies they handed out: head and
\* tail, for nodes they have not reached or are at, and the node before.
HeadSource(n, pos) ==
    \/ pos[head.ptr] <= pos[n]
    \/ \E t \in Threads : pc[t] \in {"take_data", "close_next", "free_head"} /\ Old(t) = n
TailSource(n, pos) ==
    \/ pos[tail.ptr] <= pos[n]
    \/ \E t \in Threads : pc[t] = "free_tail" /\ Old(t) = n
NextSource(n) ==
    \/ \E m \in Linked : node[m].next.ptr = n
    \/ \E t \in Threads : pc[t] \in {"free_head", "free_next"} /\ my[t].nxt.ptr = n

One(condition) == IF condition THEN 1 ELSE 0

SourcesInv(pos) == \A n \in Linked :
    /\ node[n].external_counters =
         One(HeadSource(n, pos)) + One(TailSource(n, pos)) + One(NextSource(n))
    /\ node[n].external_counters # 0 \/ node[n].internal_count # 0

\* The account of node n: the copies counted or still to be counted, less those held.
Multiple(x) == \E k \in Int : x = k * CountRange
Held(t, n) == One(GuardsOld(t) /\ Old(t) = n) + One(GuardsNext(t) /\ my[t].nxt.ptr = n)
NextCopies(n) == SumOf([m \in Nodes |-> Extra(node[m].next, n)], Nodes)
Account(n) == SumOf([t \in Threads |-> Owed(t, n) - Held(t, n)], Threads)
Balance(n) == node[n].internal_count + Extra(head, n) + Extra(tail, n)
              + NextCopies(n) + Account(n)
AccountInv == \A n \in Nodes : Multiple(Balance(n))

\* The destructor runs alone and finds an empty queue before it gives up the last node.
ClosingInv ==
    /\ pc[Destructor] # "idle" => \A t \in Threads \ {Destructor} : Done(t)
    /\ pc[Destructor] \in {"close_next", "free_head", "free_next", "drop_next"}
         /\ ~my[Destructor].again => my[Destructor].val # NULL
    /\ pc[Destructor] = "drop_head" /\ my[Destructor].val = NULL /\ ~my[Destructor].again =>
         Old(Destructor) = head.ptr /\ tail.ptr = head.ptr
    /\ pc[Destructor] = "destroy_head" => live = {head.ptr} /\ tail.ptr = head.ptr
    /\ pc[Destructor] = "destroy_tail" =>
         /\ live = {tail.ptr} /\ node[tail.ptr].external_counters = 1
         /\ Multiple(node[tail.ptr].internal_count + Extra(tail, tail.ptr))
    /\ pc[Destructor] = "destroyed" => live = {}

Alive == pc[Destructor] \notin {"destroy_tail", "destroyed"}

QueueInv(pos) == ChainInv(pos) /\ ThreadInv(pos) /\ SourcesInv(pos)

IInv ==
    /\ ShapeInv /\ UnlinkedInv /\ ClosingInv
    /\ Alive => AccountInv /\ \E pos \in [Nodes -> Int] : QueueInv(pos)

----------------------------------------------------------------------------
(* What each step does *)

Moves(t, from, to) ==
    /\ pc[t] = from /\ pc'[t] = to
    /\ \A u \in Threads \ {t} : pc'[u] = pc[u] /\ my'[u] = my[u]

SameLocals(t) == /\ my'[t].old = my[t].old /\ my'[t].nxt = my[t].nxt
                 /\ my'[t].new = my[t].new /\ my'[t].again = my[t].again

LEMMA PushStartDoes ==
    ASSUME ShapeInv, NEW t \in Pushers, PushStart(t)
    PROVE  \E n \in Nodes \ live :
             /\ Moves(t, "idle", "guard_tail")
             /\ my'[t].old = my[t].old /\ my'[t].nxt = my[t].nxt /\ my'[t].again = my[t].again
             /\ my'[t].new = n /\ my'[t].val = Script[t][calls[t] + 1]
             /\ live' = live \cup {n}
  BY DEF ShapeInv, PlacesInv, PushStart, Goto, Moves, Threads, Locals

LEMMA GuardTailDoes ==
    ASSUME ShapeInv, NEW t \in Pushers, GuardTail(t)
    PROVE  /\ Moves(t, "guard_tail", "cas_data")
           /\ my'[t].old = tail' /\ my'[t].nxt = my[t].nxt /\ my'[t].again = my[t].again
           /\ my'[t].new = my[t].new /\ my'[t].val = my[t].val
           /\ tail'.ptr = tail.ptr /\ tail'.external_count = tail.external_count + 1
  BY DEF ShapeInv, PlacesInv, GuardTail, Goto, Moves, Threads, Locals, Inc, AnyLink

LEMMA CasDataDoes ==
    ASSUME ShapeInv, NEW t \in Pushers, CasData(t), Old(t) \in Nodes
    PROVE  /\ my' = my
           /\ \/ /\ Moves(t, "cas_data", "link_own")
                 /\ node[Old(t)].data = NULL /\ node'[Old(t)].data = my[t].val
              \/ /\ Moves(t, "cas_data", "link_help")
                 /\ node[Old(t)].data # NULL /\ node'[Old(t)].data = node[Old(t)].data
           /\ \A n \in Nodes : /\ node'[n].internal_count = node[n].internal_count
                               /\ node'[n].external_counters = node[n].external_counters
                               /\ node'[n].next = node[n].next
                               /\ n # Old(t) => node'[n] = node[n]
  BY DEF ShapeInv, PlacesInv, CasData, Goto, Moves, Threads, AnyNode

\* The node after the last one, or that there is a next one already.
LinksNew(t) ==
    /\ node[Old(t)].next = Counted(0, NULL)
    /\ node'[Old(t)].next = Counted(1, my[t].new)
    /\ \A n \in Nodes : /\ node'[n].internal_count = node[n].internal_count
                        /\ node'[n].external_counters = node[n].external_counters
                        /\ node'[n].data = node[n].data
                        /\ n # Old(t) => node'[n] = node[n]
    /\ my'[t].nxt = Counted(1, my[t].new)
FindsLinked(t) ==
    node[Old(t)].next # Counted(0, NULL) /\ node' = node /\ my'[t].nxt = node[Old(t)].next

LEMMA LinkNextDoes ==
    ASSUME ShapeInv, NEW t \in Pushers, LinkNext(t), Old(t) \in Nodes
    PROVE  /\ pc[t] \in {"link_own", "link_help"} /\ Moves(t, pc[t], "set_tail")
           /\ my'[t].old = my[t].old /\ my'[t].val = my[t].val /\ my'[t].again = my[t].again
           /\ \/ /\ LinksNew(t)
                 /\ \/ pc[t] = "link_own" /\ my'[t].new = NULL /\ live' = live
                    \/ /\ pc[t] = "link_help"
                       /\ my'[t].new \in Nodes \ live /\ live' = live \cup {my'[t].new}
              \/ /\ FindsLinked(t)
                 /\ \/ /\ pc[t] = "link_own" /\ my'[t].new = NULL
                       /\ live' = live \ {my[t].new}
                    \/ pc[t] = "link_help" /\ my'[t].new = my[t].new /\ live' = live
<1>. USE QueueAssumption DEF ShapeInv, PlacesInv, Threads
<1>1. pc[t] \in {"link_own", "link_help"} /\ pc' = [pc EXCEPT ![t] = "set_tail"]
  BY DEF LinkNext, Goto
<1>2. CASE node[Old(t)].next = Counted(0, NULL)
  <2>1. PICK n \in IF pc[t] = "link_own" THEN {NULL} ELSE Nodes \ live :
          /\ node' = [node EXCEPT ![Old(t)].next = Counted(1, my[t].new)]
          /\ my' = [my EXCEPT ![t].nxt = Counted(1, my[t].new), ![t].new = n]
          /\ live' = live \cup ({n} \ {NULL})
    BY <1>2 DEF LinkNext
  <2>2. LinksNew(t) /\ my'[t].new = n
    BY <1>2, <2>1 DEF LinksNew, Locals, AnyNode
  <2>3. /\ my'[t].old = my[t].old /\ my'[t].val = my[t].val /\ my'[t].again = my[t].again
        /\ Moves(t, pc[t], "set_tail")
    BY <1>1, <2>1 DEF Moves, Locals
  <2>. QED  BY <1>1, <2>1, <2>2, <2>3
<1>3. CASE node[Old(t)].next # Counted(0, NULL)
  <2>1. /\ my' = [my EXCEPT ![t].nxt = node[Old(t)].next,
                             ![t].new = IF pc[t] = "link_own" THEN NULL ELSE @]
        /\ node' = node
        /\ live' = IF pc[t] = "link_own" THEN live \ {my[t].new} ELSE live
    BY <1>3 DEF LinkNext
  <2>2. FindsLinked(t) /\ my'[t].new = IF pc[t] = "link_own" THEN NULL ELSE my[t].new
    BY <1>3, <2>1 DEF FindsLinked, Locals
  <2>3. /\ my'[t].old = my[t].old /\ my'[t].val = my[t].val /\ my'[t].again = my[t].again
        /\ Moves(t, pc[t], "set_tail")
    BY <1>1, <2>1 DEF Moves, Locals
  <2>. QED  BY <1>1, <2>1, <2>2, <2>3
<1>. QED  BY <1>2, <1>3

LEMMA SetNewTailDoes ==
    ASSUME ShapeInv, NEW t \in Pushers, SetNewTail(t)
    PROVE  /\ my'[t].nxt = my[t].nxt /\ my'[t].again = my[t].again
           /\ my'[t].new = my[t].new /\ my'[t].val = my[t].val
           /\ \/ /\ Moves(t, "set_tail", "free_tail") /\ tail.ptr = Old(t)
                 /\ tail' = Counted(1, my[t].nxt.ptr) /\ my'[t].old = tail
              \/ /\ Moves(t, "set_tail", "drop_tail") /\ tail.ptr # Old(t)
                 /\ tail' = tail /\ my' = my
  BY DEF ShapeInv, PlacesInv, SetNewTail, Goto, Moves, Threads, Locals

LEMMA DropTailDoes ==
    ASSUME ShapeInv, NEW t \in Pushers, DropTail(t)
    PROVE  /\ SameLocals(t)
           /\ \/ /\ Moves(t, "drop_tail", "guard_tail") /\ my[t].new # NULL
                 /\ my'[t].val = my[t].val /\ calls' = calls
              \/ /\ Moves(t, "drop_tail", "idle") /\ my[t].new = NULL
                 /\ my'[t].val = NULL
           /\ DropGuard(my[t].old)
  BY DEF ShapeInv, PlacesInv, DropTail, Goto, Moves, SameLocals, Threads, Locals

LEMMA PopStartDoes ==
    ASSUME ShapeInv, NEW t \in Threads, PopStart(t)
    PROVE  Moves(t, "idle", "guard_head") /\ my' = my
  BY DEF ShapeInv, PlacesInv, PopStart, Goto, Moves

LEMMA GuardHeadDoes ==
    ASSUME ShapeInv, NEW t \in Threads, GuardHead(t)
    PROVE  /\ Moves(t, "guard_head", "check_empty")
           /\ my'[t].old = head' /\ my'[t].nxt = my[t].nxt /\ my'[t].again = FALSE
           /\ my'[t].new = my[t].new /\ my'[t].val = my[t].val
           /\ head'.ptr = head.ptr /\ head'.external_count = head.external_count + 1
  BY DEF ShapeInv, PlacesInv, GuardHead, Goto, Moves, Locals, Inc, AnyLink

LEMMA CheckEmptyDoes ==
    ASSUME ShapeInv, NEW t \in Threads, CheckEmpty(t)
    PROVE  /\ my' = my
           /\ \/ Moves(t, "check_empty", "drop_head") /\ tail.ptr = Old(t)
              \/ Moves(t, "check_empty", "guard_next") /\ tail.ptr # Old(t)
  BY DEF ShapeInv, PlacesInv, CheckEmpty, Goto, Moves

LEMMA GuardNextDoes ==
    ASSUME ShapeInv, NEW t \in Threads, GuardNext(t), Old(t) \in Nodes
    PROVE  /\ my'[t].old = my[t].old /\ my'[t].new = my[t].new /\ my'[t].val = my[t].val
           /\ \/ /\ Moves(t, "guard_next", "drop_head") /\ node[Old(t)].next.ptr = NULL
                 /\ node' = node /\ my'[t].again = TRUE /\ my'[t].nxt = my[t].nxt
              \/ /\ Moves(t, "guard_next", "callback") /\ node[Old(t)].next.ptr # NULL
                 /\ my'[t].again = my[t].again /\ my'[t].nxt = node'[Old(t)].next
                 /\ node'[Old(t)].next = Inc(node[Old(t)].next)
                 /\ \A n \in Nodes : /\ node'[n].internal_count = node[n].internal_count
                                     /\ node'[n].external_counters = node[n].external_counters
                                     /\ node'[n].data = node[n].data
                                     /\ n # Old(t) => node'[n] = node[n]
<1>. USE DEF ShapeInv, PlacesInv
<1>1. CASE node[Old(t)].next.ptr = NULL
  BY <1>1 DEF GuardNext, Goto, Moves, Locals
<1>2. CASE node[Old(t)].next.ptr # NULL
  <2>1. /\ node' = [node EXCEPT ![Old(t)].next = Inc(node[Old(t)].next)]
        /\ my' = [my EXCEPT ![t].nxt = Inc(node[Old(t)].next)]
        /\ Goto(t, "guard_next", "callback")
    BY <1>2 DEF GuardNext
  <2>. QED  BY <1>2, <2>1 DEF Goto, Moves, Locals, AnyNode
<1>. QED  BY <1>1, <1>2

LEMMA StartCallbackDoes ==
    ASSUME ShapeInv, NEW t \in Threads, StartCallback(t)
    PROVE  /\ Moves(t, "callback", "in_callback") /\ SameLocals(t)
           /\ my'[t].val = node[Old(t)].data
  BY DEF ShapeInv, PlacesInv, StartCallback, Goto, Moves, SameLocals, Locals

LEMMA EndCallbackDoes ==
    ASSUME ShapeInv, NEW t \in Threads, EndCallback(t)
    PROVE  /\ SameLocals(t) /\ my'[t].val = NULL
           /\ \/ Moves(t, "in_callback", "cas_head")
              \/ Moves(t, "in_callback", "drop_next") /\ t # Destructor
  BY DEF ShapeInv, PlacesInv, EndCallback, Goto, Moves, SameLocals, Locals

LEMMA CasHeadDoes ==
    ASSUME ShapeInv, NEW t \in Threads, CasHead(t)
    PROVE  /\ my'[t].old = my[t].old /\ my'[t].nxt = my[t].nxt
           /\ my'[t].new = my[t].new /\ my'[t].val = my[t].val
           /\ \/ /\ Moves(t, "cas_head", "take_data") /\ head = my[t].old
                 /\ head' = Counted(1, my[t].nxt.ptr) /\ my'[t].again = my[t].again
                 /\ popped' = Append(popped, node[Old(t)].data)
              \/ /\ Moves(t, "cas_head", "drop_next") /\ head' = head
                 /\ my'[t].again = TRUE /\ popped' = popped
  BY DEF ShapeInv, PlacesInv, CasHead, Goto, Moves, Locals

LEMMA TakeDataDoes ==
    ASSUME ShapeInv, NEW t \in Threads, TakeData(t), Old(t) \in Nodes
    PROVE  /\ Moves(t, "take_data", "close_next") /\ SameLocals(t)
           /\ my'[t].val = node[Old(t)].data /\ node'[Old(t)].data = NULL
           /\ \A n \in Nodes : /\ node'[n].internal_count = node[n].internal_count
                               /\ node'[n].external_counters = node[n].external_counters
                               /\ node'[n].next = node[n].next
                               /\ n # Old(t) => node'[n] = node[n]
  BY DEF ShapeInv, PlacesInv, TakeData, Goto, Moves, SameLocals, Locals, AnyNode

LEMMA CloseNextDoes ==
    ASSUME ShapeInv, NEW t \in Threads, CloseNext(t), Old(t) \in Nodes
    PROVE  /\ Moves(t, "close_next", "free_head")
           /\ my'[t].old = my[t].old /\ my'[t].again = my[t].again
           /\ my'[t].new = my[t].new /\ my'[t].val = my[t].val
           /\ my'[t].nxt = node[Old(t)].next /\ node'[Old(t)].next = Counted(1, NULL)
           /\ \A n \in Nodes : /\ node'[n].internal_count = node[n].internal_count
                               /\ node'[n].external_counters = node[n].external_counters
                               /\ node'[n].data = node[n].data
                               /\ n # Old(t) => node'[n] = node[n]
  BY DEF ShapeInv, PlacesInv, CloseNext, Goto, Moves, Locals, AnyNode

LEMMA DropHeadDoes ==
    ASSUME ShapeInv, NEW t \in Threads, DropHead(t)
    PROVE  /\ SameLocals(t) /\ DropGuard(my[t].old)
           /\ \/ /\ Moves(t, "drop_head", "guard_head") /\ my[t].again
                 /\ my'[t].val = my[t].val /\ calls' = calls
              \/ /\ Moves(t, "drop_head", "idle")
                 /\ ~my[t].again /\ (t = Destructor => my[t].val # NULL)
              \/ /\ Moves(t, "drop_head", "destroy_head") /\ t = Destructor
                 /\ ~my[t].again /\ my[t].val = NULL
<1>. USE DEF ShapeInv, PlacesInv
<1>1. CASE my[t].again
  BY <1>1 DEF DropHead, Goto, Moves, SameLocals, Locals
<1>2. CASE ~my[t].again
  <2>1. /\ Goto(t, "drop_head", IF t = Destructor /\ my[t].val = NULL THEN "destroy_head"
                                                                      ELSE "idle")
        /\ my' = [my EXCEPT ![t].val = NULL] /\ DropGuard(my[t].old)
    BY <1>2 DEF DropHead
  <2>2. SameLocals(t) /\ \A u \in Threads \ {t} : my'[u] = my[u]
    BY <2>1 DEF SameLocals, Locals
  <2>. QED  BY <1>2, <2>1, <2>2 DEF Goto, Moves
<1>. QED  BY <1>1, <1>2

LEMMA UpdateCountsDoes ==
    ASSUME ShapeInv, NEW t \in Threads, UpdateCounts(t)
    PROVE  /\ my' = my
           /\ \/ Moves(t, "free_tail", "drop_tail") /\ FreeExternalCounter(my[t].old)
              \/ Moves(t, "free_head", "free_next") /\ FreeExternalCounter(my[t].old)
              \/ Moves(t, "free_next", "drop_next") /\ FreeExternalCounter(my[t].nxt)
              \/ Moves(t, "drop_next", "drop_head") /\ DropGuard(my[t].nxt)
              \/ Moves(t, "destroy_head", "destroy_tail") /\ FreeExternalCounter(head)
              \/ Moves(t, "destroy_tail", "destroyed") /\ FreeExternalCounter(tail)
  BY DEF ShapeInv, PlacesInv, UpdateCounts, Goto, Moves
----------------------------------------------------------------------------
(* Steps that leave the chain as it is *)

\* Nobody else moves; the nodes, head, tail and links stay, and t was not the one
\* that had to close a node or to move tail.
Quiet(t) ==
    /\ \A u \in Threads \ {t} : pc'[u] = pc[u] /\ my'[u] = my[u]
    /\ head'.ptr = head.ptr /\ tail'.ptr = tail.ptr /\ Linked' = Linked
    /\ \A n \in Linked : /\ node'[n].next.ptr = node[n].next.ptr
                         /\ node[n].next.ptr = NULL => node'[n].next = node[n].next
                         /\ node[n].data # NULL => node'[n].data # NULL
    /\ ~Taking(t) /\ ~(pc[t] = "set_tail" /\ Old(t) = tail.ptr)

LinkedPtrs == head.ptr \in Linked /\ tail.ptr \in Linked

LEMMA QuietKeepsChain ==
    ASSUME ShapeInv, NEW pos, ChainInv(pos), NEW t \in Threads, Quiet(t)
    PROVE  ChainInv(pos)'
<1>1. Chained(pos)'
  BY DEF ChainInv, Chained, Quiet
<1>2. Ended(pos)'
  <2>1. \A n \in Linked : node'[n].next.ptr = NULL /\ pos[head.ptr] <= pos[n] =>
           node'[n].next = Counted(0, NULL) /\ \A m \in Linked : pos[m] <= pos[n]
    BY DEF ChainInv, Ended, Quiet
  <2>2. ASSUME NEW n \in Linked, pos[n] > pos[tail.ptr]
        PROVE  \E u \in Pushers : pc'[u] = "set_tail" /\ Old(u)' = tail.ptr
    <3>1. PICK u \in Pushers : pc[u] = "set_tail" /\ Old(u) = tail.ptr
      BY <2>2 DEF ChainInv, Ended
    <3>2. u \in Threads \ {t}
      BY <3>1 DEF Quiet, Threads
    <3>. QED  BY <3>1, <3>2 DEF Quiet, Old
  <2>. QED  BY <2>1, <2>2 DEF ChainInv, Ended, Quiet
<1>3. Filled(pos)'
  <2>1. ASSUME NEW n \in Linked, node[n].next.ptr # NULL, pos[n] < pos[head.ptr]
        PROVE  \E u \in Threads : Taking(u)' /\ Old(u)' = n
    <3>1. PICK u \in Threads : Taking(u) /\ Old(u) = n
      BY <2>1 DEF ChainInv, Filled
    <3>2. u # t
      BY <3>1 DEF Quiet
    <3>. QED  BY <3>1, <3>2 DEF Quiet, Old, Taking
  <2>. QED  BY <2>1 DEF ChainInv, Filled, Quiet
<1>. QED  BY <1>1, <1>2, <1>3 DEF ChainInv

LEMMA QuietKeepsOthers ==
    ASSUME ShapeInv, NEW pos, ThreadInv(pos), NEW t \in Threads, Quiet(t)
    PROVE  /\ \A u \in Pushers \ {t} : Pushing(u, pos)'
           /\ \A u \in (Threads \ Pushers) \ {t} : Popping(u, pos)'
<1>1. ASSUME NEW u \in Pushers \ {t} PROVE Pushing(u, pos)'
  <2>1. Pushing(u, pos) /\ pc'[u] = pc[u] /\ my'[u] = my[u] /\ Old(u)' = Old(u)
    BY <1>1 DEF ThreadInv, Quiet, Threads, Old
  <2>. QED  BY <2>1 DEF Pushing, Quiet, GuardsOld, PushLabels
<1>2. ASSUME NEW u \in (Threads \ Pushers) \ {t} PROVE Popping(u, pos)'
  <2>1. Popping(u, pos) /\ pc'[u] = pc[u] /\ my'[u] = my[u] /\ Old(u)' = Old(u)
    BY <1>2 DEF ThreadInv, Quiet, Old
  <2>. QED  BY <2>1 DEF Popping, Quiet, GuardsOld, GuardsNext, Taken, Taking, NextLabels,
                        HeadLabels
<1>. QED  BY <1>1, <1>2

\* A thread that does not begin to be one of them leaves Apart as it is.
LEMMA StaysApart ==
    ASSUME NEW t \in Threads, Apart,
           \A u \in Threads \ {t} : pc'[u] = pc[u] /\ my'[u] = my[u],
           pc'[t] # "free_tail", Taken(t)' => Taken(t) /\ Old(t)' = Old(t)
    PROVE  Apart'
  BY DEF Apart, Taken, Old, Threads

Reporting == {"take_data", "close_next", "free_head", "free_next", "free_tail"}

LEMMA SameSources ==
    ASSUME NEW n, NEW pos, NEW t \in Threads, Quiet(t),
           pc[t] \notin Reporting, pc'[t] \notin Reporting
    PROVE  /\ HeadSource(n, pos)' <=> HeadSource(n, pos)
           /\ TailSource(n, pos)' <=> TailSource(n, pos)
           /\ NextSource(n)' <=> NextSource(n)
<1>1. \A u \in Threads : u # t => pc'[u] = pc[u] /\ Old(u)' = Old(u) /\ my'[u] = my[u]
  BY DEF Quiet, Old
<1>2. HeadSource(n, pos)' <=> HeadSource(n, pos)
  BY <1>1 DEF Quiet, HeadSource, Reporting
<1>3. TailSource(n, pos)' <=> TailSource(n, pos)
  BY <1>1 DEF Quiet, TailSource, Reporting
<1>4. NextSource(n)' <=> NextSource(n)
  BY <1>1 DEF Quiet, NextSource, Reporting
<1>. QED  BY <1>2, <1>3, <1>4

LEMMA QuietKeepsSources ==
    ASSUME NEW pos, SourcesInv(pos), NEW t \in Threads, Quiet(t),
           pc[t] \notin Reporting, pc'[t] \notin Reporting,
           \A n \in Linked :
             /\ node'[n].external_counters = node[n].external_counters
             /\ node'[n].external_counters # 0 \/ node'[n].internal_count # 0
    PROVE  SourcesInv(pos)'
<1>1. Linked' = Linked
  BY DEF Quiet
<1>2. ASSUME NEW n \in Linked
      PROVE  node'[n].external_counters =
               One(HeadSource(n, pos)') + One(TailSource(n, pos)') + One(NextSource(n)')
  BY SameSources DEF SourcesInv, One
<1>. QED  BY <1>1, <1>2 DEF SourcesInv, One

----------------------------------------------------------------------------
(* The counters of a node *)

LEMMA Wraps ==
    ASSUME NEW a \in Int
    PROVE  /\ a % CountRange \in 0 .. CountRange - 1
           /\ \E q \in Int : a % CountRange = a + q * CountRange
<1>1. CountRange \in Nat /\ CountRange > 0
  BY QueueAssumption, FS_CardinalityType
<1>2. a % CountRange \in 0 .. CountRange - 1
  BY <1>1
<1>3. a = CountRange * (a \div CountRange) + (a % CountRange) /\ a \div CountRange \in Int
  BY <1>1
<1>. DEFINE q == -(a \div CountRange)
<1>4. q \in Int /\ a % CountRange = a + q * CountRange
  BY <1>1, <1>2, <1>3
<1>. QED  BY <1>2, <1>4

\* Node n has got new counters.
Counts(n, internal, external) ==
    /\ node'[n].internal_count = internal /\ node'[n].external_counters = external
    /\ node'[n].data = node[n].data /\ node'[n].next = node[n].next
Kept(n, internal, external) ==
    /\ internal # 0 \/ external # 0
    /\ live' = live /\ Counts(n, internal, external)
    /\ \A m \in Nodes \ {n} : node'[m] = node[m]
Freed(n, internal, external) ==
    /\ internal = 0 /\ external = 0
    /\ live' = live \ {n} /\ node'[n] = Fresh
    /\ \A m \in Nodes \ {n} : node'[m] = node[m]
Stored(n, internal, external) == Kept(n, internal, external) \/ Freed(n, internal, external)

LEMMA DropGuardDoes ==
    ASSUME ShapeInv, NEW p \in AnyLink, p.ptr \in Nodes, DropGuard(p)
    PROVE  Stored(p.ptr, (node[p.ptr].internal_count - 1) % CountRange,
                  node[p.ptr].external_counters)
<1>. DEFINE internal == (node[p.ptr].internal_count - 1) % CountRange
            new == [node[p.ptr] EXCEPT !.internal_count = internal]
<1>1. StoreCounts(p.ptr, new)
  BY DEF DropGuard
<1>2. /\ new.internal_count = internal /\ new.external_counters = node[p.ptr].external_counters
      /\ new.data = node[p.ptr].data /\ new.next = node[p.ptr].next
  <2>. HIDE DEF internal
  <2>. QED  BY DEF ShapeInv, PlacesInv, AnyNode
<1>. HIDE DEF internal, new
<1>. QED  BY <1>1, <1>2 DEF StoreCounts, Stored, Kept, Freed, Counts, ShapeInv, internal

LEMMA FreeExternalCounterDoes ==
    ASSUME ShapeInv, NEW p \in AnyLink, p.ptr \in Nodes, FreeExternalCounter(p)
    PROVE  Stored(p.ptr,
                  (node[p.ptr].internal_count + p.external_count - 1) % CountRange,
                  (node[p.ptr].external_counters - 1) % 4)
<1>. DEFINE internal == (node[p.ptr].internal_count + p.external_count - 1) % CountRange
            external == (node[p.ptr].external_counters - 1) % 4
            new == [node[p.ptr] EXCEPT !.internal_count = internal,
                                       !.external_counters = external]
<1>1. StoreCounts(p.ptr, new)
  BY DEF FreeExternalCounter
<1>2. /\ new.internal_count = internal /\ new.external_counters = external
      /\ new.data = node[p.ptr].data /\ new.next = node[p.ptr].next
  <2>. HIDE DEF internal, external
  <2>. QED  BY DEF ShapeInv, PlacesInv, AnyNode
<1>. HIDE DEF internal, external, new
<1>. QED  BY <1>1, <1>2 DEF StoreCounts, Stored, Kept, Freed, Counts, ShapeInv, internal, external

LEMMA OneLess == \A e \in 0 .. 3 : /\ (e - 1) % 4 \in 0 .. 3
                                   /\ e # 0 => (e - 1) % 4 = e - 1
<1>1. \A e \in 0 .. 3 : (e - 1) % 4 \in 0 .. 3
  OBVIOUS
<1>2. 0 % 4 = 0 /\ 1 % 4 = 1 /\ 2 % 4 = 2
  OBVIOUS
<1>. QED  BY <1>1, <1>2

----------------------------------------------------------------------------
(* The account of a node when one thread moves *)

LEMMA NegatedProduct == \A a, b \in Int : (-a) * b = -(a * b)
  OBVIOUS

LEMMA MultiplesAdd ==
    ASSUME NEW x \in Int, Multiple(x), NEW q \in Int
    PROVE  Multiple(x + q * CountRange)
<1>1. PICK k \in Int : x = k * CountRange
  BY DEF Multiple
<1>2. CountRange \in Int
  BY QueueAssumption
<1>3. k + q \in Int /\ x + q * CountRange = (k + q) * CountRange
  BY <1>1, <1>2
<1>. QED  BY <1>3 DEF Multiple

LEMMA ExtraType == \A link \in AnyLink : \A n : Extra(link, n) \in Int
  BY DEF Extra, AnyLink

LEMMA AccountTypes ==
    ASSUME ShapeInv, NEW n
    PROVE  /\ \A m \in Nodes : Extra(node[m].next, n) \in Int
           /\ \A t \in Threads : Owed(t, n) \in Int /\ Held(t, n) \in Int
           /\ Extra(head, n) \in Int /\ Extra(tail, n) \in Int
<1>1. ASSUME NEW m \in Nodes PROVE node[m].next \in AnyLink
  BY DEF ShapeInv, PlacesInv, AnyNode
<1>2. ASSUME NEW t \in Threads PROVE my[t].old \in AnyLink /\ my[t].nxt \in AnyLink
  BY DEF ShapeInv, PlacesInv, Locals
<1>3. ASSUME NEW t \in Threads PROVE Owed(t, n) \in Int /\ Held(t, n) \in Int
  BY <1>2, ExtraType DEF Owed, Held, One
<1>. QED  BY <1>1, <1>3, ExtraType DEF ShapeInv, PlacesInv

LEMMA NextCopiesChange ==
    ASSUME ShapeInv, ShapeInv', NEW m \in Nodes, NEW n,
           \A l \in Nodes : l # m => node'[l].next = node[l].next
    PROVE  /\ NextCopies(n) \in Int /\ NextCopies(n)' \in Int
           /\ NextCopies(n)' =
                NextCopies(n) - Extra(node[m].next, n) + Extra(node'[m].next, n)
<1>. DEFINE v == [l \in Nodes |-> Extra(node[l].next, n)]
            w == [l \in Nodes |-> Extra(node'[l].next, n)]
<1>1. /\ \A l \in Nodes : v[l] \in Int /\ w[l] \in Int
      /\ \A l \in Nodes : l # m => w[l] = v[l]
      /\ v[m] = Extra(node[m].next, n) /\ w[m] = Extra(node'[m].next, n)
  <2>1. \A l \in Nodes : v[l] \in Int
    BY AccountTypes
  <2>2. \A l \in Nodes : w[l] \in Int
    <3>1. \A l \in Nodes : Extra(node'[l].next, n) \in Int
      <4>1. ASSUME NEW l \in Nodes PROVE node'[l].next \in AnyLink
        BY DEF ShapeInv, PlacesInv, AnyNode
      <4>. QED  BY <4>1, ExtraType
    <3>. QED  BY <3>1
  <2>. QED  BY <2>1, <2>2
<1>2. NextCopies(n) = SumOf(v, Nodes) /\ NextCopies(n)' = SumOf(w, Nodes)
  BY DEF NextCopies, Extra
<1>3. IsFiniteSet(Nodes)
  BY QueueAssumption
<1>4. /\ SumOf(w, Nodes) \in Int /\ SumOf(v, Nodes) \in Int
      /\ SumOf(w, Nodes) = SumOf(v, Nodes) - v[m] + w[m]
  <2>. HIDE DEF v, w
  <2>. QED  BY ONLY <1>1, <1>3, m \in Nodes, SumChanges
<1>. HIDE DEF v, w
<1>. QED  BY <1>1, <1>2, <1>4

LEMMA AccountChange ==
    ASSUME ShapeInv, ShapeInv', NEW t \in Threads, NEW n,
           \A u \in Threads \ {t} : pc'[u] = pc[u] /\ my'[u] = my[u]
    PROVE  /\ Account(n) \in Int /\ Account(n)' \in Int
           /\ Owed(t, n)' \in Int /\ Held(t, n)' \in Int
           /\ Account(n)' =
                Account(n) - (Owed(t, n) - Held(t, n)) + (Owed(t, n)' - Held(t, n)')
<1>. DEFINE v == [u \in Threads |-> Owed(u, n) - Held(u, n)]
            w == [u \in Threads |-> Owed(u, n)' - Held(u, n)']
<1>1. ASSUME NEW u \in Threads PROVE Owed(u, n)' \in Int /\ Held(u, n)' \in Int
  <2>1. my'[u].old \in AnyLink /\ my'[u].nxt \in AnyLink
    BY DEF ShapeInv, PlacesInv, Locals
  <2>. QED  BY <2>1, ExtraType DEF Owed, Held, One
<1>2. ASSUME NEW u \in Threads, u # t PROVE Owed(u, n)' = Owed(u, n) /\ Held(u, n)' = Held(u, n)
  BY <1>2 DEF Owed, Held, GuardsOld, GuardsNext, Old
<1>3. \A u \in Threads : Owed(u, n) \in Int /\ Held(u, n) \in Int
  BY AccountTypes
<1>4. /\ \A u \in Threads : v[u] \in Int /\ w[u] \in Int
      /\ \A u \in Threads : u # t => w[u] = v[u]
      /\ v[t] = Owed(t, n) - Held(t, n) /\ w[t] = Owed(t, n)' - Held(t, n)'
  BY <1>1, <1>2, <1>3
<1>5. Account(n) = SumOf(v, Threads) /\ Account(n)' = SumOf(w, Threads)
  BY DEF Account
<1>6. IsFiniteSet(Threads)
  BY QueueAssumption
<1>7. /\ SumOf(w, Threads) \in Int /\ SumOf(v, Threads) \in Int
      /\ SumOf(w, Threads) = SumOf(v, Threads) - v[t] + w[t]
  <2>. HIDE DEF v, w
  <2>. QED  BY ONLY <1>4, <1>6, t \in Threads, SumChanges
<1>. HIDE DEF v, w
<1>. QED  BY <1>1, <1>4, <1>5, <1>7

\* How far the step moves the account of n, apart from the count in the node itself.
Change(t, m, n) ==
    (Owed(t, n)' - Owed(t, n)) - (Held(t, n)' - Held(t, n))
    + (Extra(node'[m].next, n) - Extra(node[m].next, n))
    + (Extra(head', n) - Extra(head, n)) + (Extra(tail', n) - Extra(tail, n))

\* Only t moves, and only the links at m, head and tail change; what the step takes out of
\* one place it puts into another, up to multiples of the counter's range.
LEMMA AccountStep ==
    ASSUME ShapeInv, ShapeInv', NEW t \in Threads, NEW m \in Nodes, NEW n \in Nodes,
           \A u \in Threads \ {t} : pc'[u] = pc[u] /\ my'[u] = my[u],
           \A l \in Nodes : l # m => node'[l].next = node[l].next,
           Multiple(Balance(n)), NEW q \in Int,
           node'[n].internal_count + Change(t, m, n) = node[n].internal_count + q * CountRange
    PROVE  Multiple(Balance(n)')
<1>1. /\ node[n].internal_count \in Int /\ node'[n].internal_count \in Int
      /\ CountRange \in Int /\ q * CountRange \in Int
  BY QueueAssumption DEF ShapeInv, PlacesInv, AnyNode
<1>2. /\ Extra(head, n) \in Int /\ Extra(tail, n) \in Int
      /\ Extra(head', n) \in Int /\ Extra(tail', n) \in Int
      /\ Extra(node[m].next, n) \in Int /\ Extra(node'[m].next, n) \in Int
  <2>1. node'[m].next \in AnyLink
    BY DEF ShapeInv, PlacesInv, AnyNode
  <2>. QED  BY <2>1, AccountTypes, ExtraType DEF ShapeInv, PlacesInv
<1>3. /\ Owed(t, n) \in Int /\ Held(t, n) \in Int
      /\ Owed(t, n)' \in Int /\ Held(t, n)' \in Int
      /\ Account(n) \in Int /\ Account(n)' \in Int
      /\ Account(n)' = Account(n) - (Owed(t, n) - Held(t, n)) + (Owed(t, n)' - Held(t, n)')
  BY AccountTypes, AccountChange
<1>4. /\ NextCopies(n) \in Int /\ NextCopies(n)' \in Int
      /\ NextCopies(n)' =
           NextCopies(n) - Extra(node[m].next, n) + Extra(node'[m].next, n)
  BY NextCopiesChange
<1>5. /\ Balance(n) = node[n].internal_count + Extra(head, n) + Extra(tail, n)
                      + NextCopies(n) + Account(n)
      /\ Balance(n)' = node'[n].internal_count + Extra(head', n) + Extra(tail', n)
                       + NextCopies(n)' + Account(n)'
  BY DEF Balance, Extra
<1>. DEFINE b == Balance(n) b2 == Balance(n)' step == q * CountRange
<1>6. node'[n].internal_count + Change(t, m, n) = node[n].internal_count + step
  OBVIOUS
<1>7. b2 = b + step /\ b \in Int
  <2>1. /\ b \in Int /\ b2 \in Int /\ step \in Int
    BY <1>1, <1>2, <1>3, <1>4, <1>5
  <2>2. Change(t, m, n) =
          (Owed(t, n)' - Owed(t, n)) - (Held(t, n)' - Held(t, n))
          + (Extra(node'[m].next, n) - Extra(node[m].next, n))
          + (Extra(head', n) - Extra(head, n)) + (Extra(tail', n) - Extra(tail, n))
    BY DEF Change
  <2>3. Change(t, m, n) = (Account(n)' - Account(n)) + (NextCopies(n)' - NextCopies(n))
                          + (Extra(head', n) - Extra(head, n))
                          + (Extra(tail', n) - Extra(tail, n))
    BY <1>2, <1>3, <1>4, <2>2
  <2>4. b2 - b = (node'[n].internal_count - node[n].internal_count) + Change(t, m, n)
    <3>. DEFINE ac == Account(n) ac2 == Account(n)' nc == NextCopies(n) nc2 == NextCopies(n)'
                eh == Extra(head, n) eh2 == Extra(head', n)
                et == Extra(tail, n) et2 == Extra(tail', n)
                i == node[n].internal_count i2 == node'[n].internal_count
                c == Change(t, m, n)
    <3>1. /\ ac \in Int /\ ac2 \in Int /\ nc \in Int /\ nc2 \in Int
          /\ eh \in Int /\ eh2 \in Int /\ et \in Int /\ et2 \in Int /\ i \in Int /\ i2 \in Int
      BY <1>1, <1>2, <1>3, <1>4
    <3>2. b = i + eh + et + nc + ac /\ b2 = i2 + eh2 + et2 + nc2 + ac2
      BY <1>5
    <3>3. c = (ac2 - ac) + (nc2 - nc) + (eh2 - eh) + (et2 - et)
      BY <2>3
    <3>. HIDE DEF b, b2, ac, ac2, nc, nc2, eh, eh2, et, et2, i, i2, c
    <3>4. b2 - b = (i2 - i) + c
      BY ONLY <3>1, <3>2, <3>3
    <3>. QED  BY <3>4 DEF i, i2, c
  <2>5. Change(t, m, n) \in Int
    BY <1>2, <1>3, <1>4, <2>3
  <2>. HIDE DEF b, b2, step
  <2>. QED  BY <1>1, <1>6, <2>1, <2>4, <2>5
<1>8. Multiple(b + q * CountRange)
  <2>1. Multiple(b)
    OBVIOUS
  <2>. HIDE DEF b
  <2>. QED  BY <1>7, <2>1, MultiplesAdd
<1>. HIDE DEF b2
<1>9. Multiple(b2)
  BY <1>7, <1>8
<1>. QED  BY <1>9 DEF b2

----------------------------------------------------------------------------
(* The shape of the state *)

ActingInv(t) ==
    /\ GuardsOld(t) => Old(t) \in Nodes
    /\ GuardsNext(t) => my[t].nxt.ptr \in Nodes
    /\ pc[t] = "destroy_head" => head.ptr \in Nodes
    /\ pc[t] = "destroy_tail" => tail.ptr \in Nodes
    /\ pc[t] = "cas_head" /\ head = my[t].old => node[Old(t)].data # NULL
    /\ t \in Pushers /\ pc[t] # "idle" => my[t].val # NULL

LEMMA PartTypes ==
    /\ \A c \in Nat : \A n \in Nodes \cup {NULL} : Counted(c, n) \in AnyLink
    /\ \A p \in AnyLink : Inc(p) \in AnyLink /\ Inc(p).ptr = p.ptr
    /\ Fresh \in AnyNode
<1>1. CountRange - 1 \in Nat
  BY QueueAssumption, FS_CardinalityType
<1>. QED  BY <1>1 DEF Counted, AnyLink, Inc, Fresh, AnyNode

LEMMA NodeParts ==
    ASSUME ShapeInv, NEW n \in Nodes
    PROVE  /\ node[n].data \in Values \cup {NULL} /\ node[n].next \in AnyLink
           /\ node[n].internal_count \in 0 .. CountRange - 1
           /\ node[n].external_counters \in 0 .. 3 /\ node[n].next.ptr \in Nodes \cup {NULL}
           /\ node[n].internal_count \in Int
  BY QueueAssumption DEF ShapeInv, PlacesInv, AnyNode, AnyLink

LEMMA LocalParts ==
    ASSUME ShapeInv, NEW t \in Threads
    PROVE  /\ my[t].old \in AnyLink /\ my[t].nxt \in AnyLink /\ my[t].new \in Nodes \cup {NULL}
           /\ my[t].val \in Values \cup {NULL} /\ my[t].again \in BOOLEAN
           /\ my[t].old.ptr \in Nodes \cup {NULL} /\ my[t].nxt.ptr \in Nodes \cup {NULL}
           /\ my[t].old.external_count \in Int /\ my[t].nxt.external_count \in Int
  BY DEF ShapeInv, PlacesInv, Locals, AnyLink

LEMMA StoreShape ==
    ASSUME ShapeInv, NEW p \in AnyLink, DropGuard(p) \/ FreeExternalCounter(p),
           p.ptr \in Nodes
    PROVE  node' \in [Nodes -> AnyNode] /\ live' \subseteq Nodes
<1>. DEFINE Store(i, e) == [[node[p.ptr] EXCEPT !.internal_count = i]
                              EXCEPT !.external_counters = e]
<1>1. ASSUME NEW new \in AnyNode, StoreCounts(p.ptr, new)
      PROVE  node' \in [Nodes -> AnyNode] /\ live' \subseteq Nodes
  BY <1>1, PartTypes DEF StoreCounts, ShapeInv
<1>2. CASE DropGuard(p)
  <2>1. (node[p.ptr].internal_count - 1) % CountRange \in 0 .. CountRange - 1
    BY NodeParts, Wraps
  <2>. DEFINE i == (node[p.ptr].internal_count - 1) % CountRange
  <2>2. [node[p.ptr] EXCEPT !.internal_count = i] \in AnyNode
    <3>. HIDE DEF i
    <3>1. i \in 0 .. CountRange - 1
      BY <2>1 DEF i
    <3>. QED  BY <3>1 DEF ShapeInv, PlacesInv, AnyNode
  <2>. QED  BY <1>1, <1>2, <2>2 DEF DropGuard
<1>3. CASE FreeExternalCounter(p)
  <2>. DEFINE i == (node[p.ptr].internal_count + p.external_count - 1) % CountRange
              e == (node[p.ptr].external_counters - 1) % 4
  <2>1. i \in 0 .. CountRange - 1
    <3>1. node[p.ptr].internal_count + p.external_count - 1 \in Int
      BY NodeParts DEF AnyLink
    <3>. QED  BY <3>1, Wraps
  <2>2. e \in 0 .. 3
    BY NodeParts, OneLess
  <2>3. [node[p.ptr] EXCEPT !.internal_count = i, !.external_counters = e] \in AnyNode
    <3>. HIDE DEF i, e
    <3>. QED  BY <2>1, <2>2 DEF ShapeInv, PlacesInv, AnyNode
  <2>. QED  BY <1>1, <1>3, <2>3 DEF FreeExternalCounter
<1>. QED  BY <1>2, <1>3

\* A pusher pushes the values of its script.
LEMMA ScriptType ==
    ASSUME NEW t \in Pushers, NEW k \in Nat, k < Len(Script[t])
    PROVE  Script[t][k + 1] \in Values /\ Script[t][k + 1] # NULL
<1>1. Script[t] \in Seq(Range(Script[t])) /\ NULL \notin Range(Script[t])
  BY QueueAssumption
<1>2. k + 1 \in 1 .. Len(Script[t]) /\ Len(Script[t]) \in Nat
  BY <1>1
<1>3. Script[t][k + 1] \in Range(Script[t])
  BY <1>1, <1>2
<1>. QED  BY <1>1, <1>2, <1>3 DEF Values

LEMMA PlacesStep ==
    ASSUME ShapeInv, NEW t \in Threads,
           NEW from, NEW to \in IF t \in Pushers THEN PushPlaces ELSE PopPlaces,
           to \in {"destroy_head", "destroy_tail", "destroyed"} => t = Destructor,
           Goto(t, from, to)
    PROVE  PlacesInv'
  BY QueueAssumption DEF ShapeInv, PlacesInv, Goto

LEMMA PushPlacesStep ==
    ASSUME ShapeInv, NEW t \in Pushers, Push(t)
    PROVE  PlacesInv'
<1>1. \E from, to \in PushPlaces : Goto(t, from, to)
  BY QueueAssumption DEF Push, PushStart, GuardTail, CasData, LinkNext, SetNewTail,
     UpdateCounts, DropTail, Goto, PushPlaces, PushLabels, ShapeInv, PlacesInv, Threads
<1>2. \A to \in PushPlaces : to \notin {"destroy_head", "destroy_tail", "destroyed"}
  BY DEF PushPlaces, PushLabels
<1>. QED  BY <1>1, <1>2, PlacesStep DEF Threads

LEMMA PushShape ==
    ASSUME ShapeInv, NEW t \in Pushers, Push(t), ActingInv(t)
    PROVE  ShapeInv'
<1>0. t \in Threads /\ pc[t] \in PushPlaces /\ PlacesInv'
  BY PushPlacesStep DEF ShapeInv, PlacesInv, Threads
<1>1. CASE PushStart(t)
  <2>1. PICK n \in Nodes \ live :
          /\ calls[t] < Len(Script[t]) /\ live' = live \cup {n}
          /\ my' = [my EXCEPT ![t].new = n, ![t].val = Script[t][calls[t] + 1]]
          /\ UNCHANGED <<head, tail, node, history>>
    BY <1>1 DEF PushStart
  <2>2. Script[t][calls[t] + 1] \in Values
    BY <1>0, <2>1, ScriptType DEF ShapeInv
  <2>3. my' \in [Threads -> Locals]
    <3>. HIDE DEF AnyLink
    <3>. QED  BY <1>0, <2>1, <2>2 DEF Locals, ShapeInv
  <2>. QED  BY <1>0, <2>1, <2>3 DEF ShapeInv, history
<1>2. CASE GuardTail(t)
  <2>1. my' \in [Threads -> Locals] /\ tail' \in AnyLink
    BY <1>0, <1>2, PartTypes DEF GuardTail, Locals, ShapeInv
  <2>. QED  BY <1>0, <1>2, <2>1 DEF GuardTail, nodes, history, ShapeInv
<1>3. CASE CasData(t)
  <2>1. node' \in [Nodes -> AnyNode]
    BY <1>0, <1>3, LocalParts DEF CasData, AnyNode, ShapeInv
  <2>. QED  BY <1>0, <1>3, <2>1 DEF CasData, history, ShapeInv
<1>4. CASE LinkNext(t)
  <2>1. Old(t) \in Nodes /\ my[t].new \in Nodes \cup {NULL}
    BY <1>0, <1>4, LocalParts DEF LinkNext, ActingInv, GuardsOld, PushLabels
  <2>. DEFINE link == Counted(1, my[t].new)
  <2>2. link \in AnyLink /\ node[Old(t)].next \in AnyLink
    BY <2>1, PartTypes, NodeParts
  <2>. HIDE DEF link
  <2>3. CASE node[Old(t)].next = Counted(0, NULL)
    <3>1. PICK n \in IF pc[t] = "link_own" THEN {NULL} ELSE Nodes \ live :
            /\ node' = [node EXCEPT ![Old(t)].next = link]
            /\ my' = [my EXCEPT ![t].nxt = link, ![t].new = n]
            /\ live' = live \cup ({n} \ {NULL})
      BY <1>4, <2>3 DEF LinkNext, link
    <3>2. n \in Nodes \cup {NULL}
      OBVIOUS
    <3>3. my' \in [Threads -> Locals]
      BY <1>0, <2>2, <3>1, <3>2 DEF Locals, ShapeInv
    <3>4. node' \in [Nodes -> AnyNode]
      BY <1>0, <2>2, <3>1 DEF ShapeInv, AnyNode
    <3>. QED  BY <1>0, <1>4, <3>1, <3>3, <3>4 DEF LinkNext, history, ShapeInv
  <2>4. CASE node[Old(t)].next # Counted(0, NULL)
    <3>1. /\ my' = [my EXCEPT ![t].nxt = node[Old(t)].next,
                               ![t].new = IF pc[t] = "link_own" THEN NULL ELSE @]
          /\ node' = node
          /\ live' = IF pc[t] = "link_own" THEN live \ {my[t].new} ELSE live
      BY <1>4, <2>4 DEF LinkNext
    <3>2. my' \in [Threads -> Locals]
      BY <1>0, <2>2, <3>1 DEF Locals, ShapeInv
    <3>. QED  BY <1>0, <1>4, <3>1, <3>2 DEF LinkNext, history, ShapeInv
  <2>. QED  BY <2>3, <2>4
<1>5. CASE SetNewTail(t)
  <2>1. Counted(1, my[t].nxt.ptr) \in AnyLink
    BY <1>0, PartTypes, LocalParts
  <2>2. my' \in [Threads -> Locals] /\ tail' \in AnyLink
    BY <1>0, <1>5, <2>1 DEF SetNewTail, Locals, ShapeInv
  <2>. QED  BY <1>0, <1>5, <2>2 DEF SetNewTail, nodes, history, ShapeInv
<1>6. CASE UpdateCounts(t)
  <2>1. pc[t] = "free_tail" /\ FreeExternalCounter(my[t].old)
    BY <1>0, <1>6, QueueAssumption DEF UpdateCounts, Goto, PushPlaces, PushLabels
  <2>2. node' \in [Nodes -> AnyNode] /\ live' \subseteq Nodes
    BY <1>0, <2>1, StoreShape, LocalParts DEF ActingInv, GuardsOld, PushLabels, Old
  <2>. QED  BY <1>0, <1>6, <2>2 DEF UpdateCounts, history, ShapeInv
<1>7. CASE DropTail(t)
  <2>1. pc[t] = "drop_tail" /\ DropGuard(my[t].old)
    BY <1>7 DEF DropTail
  <2>2. node' \in [Nodes -> AnyNode] /\ live' \subseteq Nodes
    BY <1>0, <2>1, StoreShape, LocalParts DEF ActingInv, GuardsOld, PushLabels, Old
  <2>3. CASE my[t].new # NULL
    BY <1>0, <1>7, <2>2, <2>3 DEF DropTail, ShapeInv
  <2>4. CASE my[t].new = NULL
    <3>1. /\ pushed' = pushed \cup {my[t].val}
          /\ my' = [my EXCEPT ![t].val = NULL] /\ calls' = [calls EXCEPT ![t] = @ + 1]
      BY <1>7, <2>4 DEF DropTail
    <3>2. my[t].val \in Values
      BY <1>0, <2>1, LocalParts DEF ActingInv
    <3>3. my' \in [Threads -> Locals]
      BY <1>0, <3>1 DEF Locals, ShapeInv
    <3>4. calls' \in [Threads -> Nat] /\ pushed' \subseteq Values
      BY <1>0, <3>1, <3>2 DEF ShapeInv
    <3>. QED  BY <1>0, <1>7, <2>2, <3>3, <3>4 DEF DropTail, ShapeInv
  <2>. QED  BY <2>3, <2>4
<1>. QED  BY <1>1, <1>2, <1>3, <1>4, <1>5, <1>6, <1>7 DEF Push

LEMMA PopPlacesStep ==
    ASSUME ShapeInv, NEW t \in Threads \ Pushers, Pop(t)
    PROVE  PlacesInv'
<1>0. pc[t] \in PopPlaces
  BY DEF ShapeInv, PlacesInv
<1>1. CASE \E from, to \in HeadLabels \cup NextLabels \cup {"idle"} : Goto(t, from, to)
  <2>1. \A to \in HeadLabels \cup NextLabels \cup {"idle"} :
          to \in PopPlaces /\ to \notin {"destroy_head", "destroy_tail", "destroyed"}
    BY DEF PopPlaces, HeadLabels, NextLabels
  <2>. QED  BY <1>1, <2>1, PlacesStep
<1>2. CASE PopStart(t) \/ GuardHead(t) \/ CheckEmpty(t) \/ GuardNext(t)
  BY <1>1, <1>2 DEF PopStart, GuardHead, CheckEmpty, GuardNext, HeadLabels, NextLabels
<1>3. CASE StartCallback(t) \/ EndCallback(t) \/ CasHead(t) \/ TakeData(t) \/ CloseNext(t)
  BY <1>1, <1>3 DEF StartCallback, EndCallback, CasHead, TakeData, CloseNext, HeadLabels,
     NextLabels
<1>4. CASE UpdateCounts(t)
  <2>1. \/ \E from, to \in HeadLabels \cup NextLabels \cup {"idle"} : Goto(t, from, to)
        \/ Goto(t, "destroy_head", "destroy_tail")
        \/ Goto(t, "destroy_tail", "destroyed")
    BY <1>0, <1>4 DEF UpdateCounts, Goto, HeadLabels, NextLabels, PopPlaces
  <2>2. pc[t] \in {"destroy_head", "destroy_tail"} => t = Destructor
    BY DEF ShapeInv, PlacesInv, Threads
  <2>3. {"destroy_tail", "destroyed"} \subseteq PopPlaces
    BY DEF PopPlaces
  <2>. QED  BY <1>1, <2>1, <2>2, <2>3, PlacesStep DEF Goto
<1>5. CASE DropHead(t)
  <2>1. \/ \E to \in HeadLabels \cup NextLabels \cup {"idle"} : Goto(t, "drop_head", to)
        \/ t = Destructor /\ Goto(t, "drop_head", "destroy_head")
    BY <1>5 DEF DropHead, HeadLabels
  <2>2. "destroy_head" \in PopPlaces /\ "drop_head" \in HeadLabels
    BY DEF PopPlaces, HeadLabels
  <2>. QED  BY <1>1, <2>1, <2>2, PlacesStep
<1>. QED  BY <1>2, <1>3, <1>4, <1>5 DEF Pop

LEMMA PopShape ==
    ASSUME ShapeInv, NEW t \in Threads \ Pushers, Pop(t), ActingInv(t)
    PROVE  ShapeInv'
<1>0. t \in Threads /\ pc[t] \in PopPlaces /\ PlacesInv'
  BY PopPlacesStep DEF ShapeInv, PlacesInv
<1>1. CASE PopStart(t)
  BY <1>0, <1>1 DEF PopStart, nodes, history, ShapeInv
<1>2. CASE GuardHead(t)
  <2>1. my' \in [Threads -> Locals] /\ head' \in AnyLink
    BY <1>0, <1>2, PartTypes DEF GuardHead, Locals, ShapeInv
  <2>. QED  BY <1>0, <1>2, <2>1 DEF GuardHead, nodes, history, ShapeInv
<1>3. CASE CheckEmpty(t)
  BY <1>0, <1>3 DEF CheckEmpty, nodes, history, ShapeInv
<1>4. CASE GuardNext(t)
  <2>1. Old(t) \in Nodes
    BY <1>4 DEF GuardNext, Goto, ActingInv, GuardsOld, HeadLabels
  <2>. DEFINE link == Inc(node[Old(t)].next)
  <2>2. link \in AnyLink
    BY <2>1, PartTypes, NodeParts
  <2>. HIDE DEF link
  <2>3. my' \in [Threads -> Locals] /\ node' \in [Nodes -> AnyNode]
    <3>1. CASE node[Old(t)].next.ptr = NULL
      <4>1. node' = node /\ my' = [my EXCEPT ![t].again = TRUE]
        BY <1>4, <3>1 DEF GuardNext
      <4>. QED  BY <1>0, <4>1 DEF Locals, ShapeInv
    <3>2. CASE node[Old(t)].next.ptr # NULL
      <4>1. node' = [node EXCEPT ![Old(t)].next = link] /\ my' = [my EXCEPT ![t].nxt = link]
        BY <1>4, <3>2 DEF GuardNext, link
      <4>2. my' \in [Threads -> Locals]
        BY <1>0, <2>2, <4>1 DEF Locals, ShapeInv
      <4>3. node' \in [Nodes -> AnyNode]
        BY <1>0, <2>2, <4>1 DEF AnyNode, ShapeInv
      <4>. QED  BY <4>2, <4>3
    <3>. QED  BY <3>1, <3>2
  <2>. QED  BY <1>0, <1>4, <2>3 DEF GuardNext, history, ShapeInv
<1>5. CASE StartCallback(t)
  <2>1. node[Old(t)].data \in Values \cup {NULL}
    BY <1>5, NodeParts DEF StartCallback, Goto, ActingInv, GuardsOld, NextLabels
  <2>2. my' \in [Threads -> Locals]
    BY <1>0, <1>5, <2>1 DEF StartCallback, Locals, ShapeInv
  <2>. QED  BY <1>0, <1>5, <2>2 DEF StartCallback, nodes, history, ShapeInv
<1>6. CASE EndCallback(t)
  <2>1. my' \in [Threads -> Locals]
    BY <1>0, <1>6 DEF EndCallback, Locals, ShapeInv
  <2>2. handled' = handled \/ handled' = Append(handled, my[t].val)
    BY <1>6 DEF EndCallback
  <2>3. handled' \in Seq(Values \cup {NULL})
    <3>. DEFINE sequences == Seq(Values \cup {NULL})
    <3>1. my[t].val \in Values \cup {NULL} /\ handled \in sequences
      BY <1>0, LocalParts DEF ShapeInv
    <3>2. Append(handled, my[t].val) \in sequences
      BY <3>1
    <3>. HIDE DEF sequences
    <3>3. handled' \in sequences
      BY <2>2, <3>1, <3>2
    <3>. QED  BY <3>3 DEF sequences
  <2>. QED  BY <1>0, <1>6, <2>1, <2>3 DEF EndCallback, nodes, ShapeInv
<1>7. CASE CasHead(t)
  <2>1. Counted(1, my[t].nxt.ptr) \in AnyLink
    BY <1>0, PartTypes, LocalParts
  <2>2. my' \in [Threads -> Locals] /\ head' \in AnyLink
    <3>1. my \in [Threads -> Locals] /\ head \in AnyLink
      BY DEF ShapeInv
    <3>2. head' = Counted(1, my[t].nxt.ptr) \/ head' = head
      BY <1>7 DEF CasHead
    <3>3. my' = my \/ my' = [my EXCEPT ![t].again = TRUE]
      BY <1>7 DEF CasHead
    <3>4. my' \in [Threads -> Locals]
      <4>1. my[t] \in Locals
        BY <1>0, <3>1
      <4>2. [my[t] EXCEPT !.again = TRUE] \in Locals
        BY <4>1 DEF Locals
      <4>. QED  BY <3>1, <3>3, <4>2
    <3>. QED  BY <2>1, <3>1, <3>2, <3>4
  <2>3. popped' \in Seq(Values)
    <3>1. CASE head = my[t].old
      <4>1. node[Old(t)].data \in Values
        BY <1>7, <3>1, NodeParts DEF CasHead, Goto, ActingInv, GuardsOld, NextLabels
      <4>2. popped' = Append(popped, node[Old(t)].data)
        BY <1>7, <3>1 DEF CasHead
      <4>. QED  BY <4>1, <4>2 DEF ShapeInv
    <3>2. CASE head # my[t].old
      BY <1>7, <3>2 DEF CasHead, ShapeInv
    <3>. QED  BY <3>1, <3>2
  <2>. QED  BY <1>0, <1>7, <2>2, <2>3 DEF CasHead, nodes, ShapeInv
<1>8. CASE TakeData(t)
  <2>1. node[Old(t)].data \in Values \cup {NULL}
    BY <1>8, NodeParts DEF TakeData, Goto, ActingInv, GuardsOld, NextLabels
  <2>2. my' \in [Threads -> Locals]
    BY <1>0, <1>8, <2>1 DEF TakeData, Locals, ShapeInv
  <2>3. node' \in [Nodes -> AnyNode]
    BY <1>0, <1>8 DEF TakeData, AnyNode, ShapeInv
  <2>. QED  BY <1>0, <1>8, <2>2, <2>3 DEF TakeData, history, ShapeInv
<1>9. CASE CloseNext(t)
  <2>. DEFINE link == Counted(1, NULL)
  <2>1. node[Old(t)].next \in AnyLink /\ link \in AnyLink
    BY <1>9, NodeParts, PartTypes DEF CloseNext, Goto, ActingInv, GuardsOld, NextLabels
  <2>. HIDE DEF link
  <2>2. my' \in [Threads -> Locals]
    BY <1>0, <1>9, <2>1 DEF CloseNext, Locals, ShapeInv
  <2>3. node' = [node EXCEPT ![Old(t)].next = link]
    BY <1>9 DEF CloseNext, link
  <2>4. node' \in [Nodes -> AnyNode]
    BY <1>0, <2>1, <2>3 DEF AnyNode, ShapeInv
  <2>. QED  BY <1>0, <1>9, <2>2, <2>4 DEF CloseNext, history, ShapeInv
<1>10. CASE UpdateCounts(t)
  <2>1. node' \in [Nodes -> AnyNode] /\ live' \subseteq Nodes
    <3>1. \E p \in AnyLink : p.ptr \in Nodes /\ (DropGuard(p) \/ FreeExternalCounter(p))
      BY <1>0, <1>10, LocalParts DEF UpdateCounts, Goto, ActingInv, GuardsOld, GuardsNext,
         NextLabels, ShapeInv, Old, PopPlaces, HeadLabels
    <3>. QED  BY <3>1, StoreShape
  <2>. QED  BY <1>0, <1>10, <2>1 DEF UpdateCounts, history, ShapeInv
<1>11. CASE DropHead(t)
  <2>1. pc[t] = "drop_head" /\ DropGuard(my[t].old)
    BY <1>11 DEF DropHead
  <2>2. node' \in [Nodes -> AnyNode] /\ live' \subseteq Nodes
    BY <1>0, <2>1, StoreShape, LocalParts DEF ActingInv, GuardsOld, HeadLabels, Old
  <2>3. my' \in [Threads -> Locals]
    <3>1. my \in [Threads -> Locals]
      BY DEF ShapeInv
    <3>2. my' = my \/ my' = [my EXCEPT ![t].val = NULL]
      BY <1>11 DEF DropHead
    <3>. QED  BY <3>1, <3>2 DEF Locals
  <2>4. calls' = calls \/ calls' = [calls EXCEPT ![t] = @ + 1]
    BY <1>11 DEF DropHead
  <2>5. calls' \in [Threads -> Nat]
    BY <1>0, <2>4 DEF ShapeInv
  <2>. QED  BY <1>0, <1>11, <2>2, <2>3, <2>5 DEF DropHead, ShapeInv
<1>. QED  BY <1>1, <1>2, <1>3, <1>4, <1>5, <1>6, <1>7, <1>8, <1>9, <1>10, <1>11 DEF Pop

----------------------------------------------------------------------------
(* The accounts *)

\* What a thread holds and owes, by where it is.
HoldingFacts(t, n) ==
    /\ pc[t] \in {"idle", "guard_tail", "guard_head", "destroy_head", "destroy_tail",
                  "destroyed"} => Held(t, n) = 0 /\ Owed(t, n) = 0
    /\ pc[t] \in {"cas_data", "link_own", "link_help", "set_tail", "drop_tail",
                  "check_empty", "guard_next", "drop_head"} =>
         Held(t, n) = One(Old(t) = n) /\ Owed(t, n) = 0
    /\ pc[t] = "free_tail" =>
         Held(t, n) = One(Old(t) = n) /\ Owed(t, n) = Extra(my[t].old, n)
    /\ pc[t] \in {"callback", "in_callback", "cas_head", "drop_next"} =>
         Held(t, n) = One(Old(t) = n) + One(my[t].nxt.ptr = n) /\ Owed(t, n) = 0
    /\ pc[t] \in {"take_data", "close_next"} =>
         /\ Held(t, n) = One(Old(t) = n) + One(my[t].nxt.ptr = n)
         /\ Owed(t, n) = Extra(my[t].old, n)
    /\ pc[t] = "free_head" =>
         /\ Held(t, n) = One(Old(t) = n) + One(my[t].nxt.ptr = n)
         /\ Owed(t, n) = Extra(my[t].old, n) + Extra(my[t].nxt, n)
    /\ pc[t] = "free_next" =>
         /\ Held(t, n) = One(Old(t) = n) + One(my[t].nxt.ptr = n)
         /\ Owed(t, n) = Extra(my[t].nxt, n)

LEMMA Holding ==
    ASSUME ShapeInv, NEW t \in Threads, NEW n PROVE HoldingFacts(t, n)
<1>1. Extra(my[t].old, n) \in Int /\ Extra(my[t].nxt, n) \in Int
  BY LocalParts, ExtraType
<1>. QED  BY <1>1 DEF HoldingFacts, Held, Owed, One, GuardsOld, GuardsNext, PushLabels,
     HeadLabels, NextLabels

LEMMA HoldingAfter ==
    ASSUME ShapeInv', NEW t \in Threads, NEW n PROVE HoldingFacts(t, n)'
<1>1. Extra(my'[t].old, n) \in Int /\ Extra(my'[t].nxt, n) \in Int
  BY ExtraType DEF ShapeInv, Locals
<1>. QED  BY <1>1 DEF HoldingFacts, Held, Owed, One, GuardsOld, GuardsNext, PushLabels,
     HeadLabels, NextLabels, Old

\* A step changes the accounts of all nodes by nothing or by multiples of the range.
LEMMA AccountsKept ==
    ASSUME ShapeInv, ShapeInv', AccountInv, NEW t \in Threads, NEW m \in Nodes,
           \A u \in Threads \ {t} : pc'[u] = pc[u] /\ my'[u] = my[u],
           \A l \in Nodes : l # m => node'[l].next = node[l].next,
           \A n \in Nodes : \E q \in Int :
             node'[n].internal_count + Change(t, m, n)
               = node[n].internal_count + q * CountRange
    PROVE  AccountInv'
<1>1. ASSUME NEW n \in Nodes PROVE Multiple(Balance(n))'
  <2>1. Multiple(Balance(n))
    BY DEF AccountInv
  <2>2. PICK q \in Int : node'[n].internal_count + Change(t, m, n)
                           = node[n].internal_count + q * CountRange
    OBVIOUS
  <2>3. Multiple(Balance(n)')
    BY <2>1, <2>2, AccountStep
  <2>. QED  BY <2>3 DEF Multiple
<1>. QED  BY <1>1 DEF AccountInv

LEMMA AccountsSame ==
    ASSUME ShapeInv, ShapeInv', AccountInv, NEW t \in Threads, NEW m \in Nodes,
           \A u \in Threads \ {t} : pc'[u] = pc[u] /\ my'[u] = my[u],
           \A l \in Nodes : l # m => node'[l].next = node[l].next,
           \A n \in Nodes : node'[n].internal_count = node[n].internal_count
                            /\ Change(t, m, n) = 0
    PROVE  AccountInv'
<1>1. ASSUME NEW n \in Nodes
      PROVE  \E q \in Int : node'[n].internal_count + Change(t, m, n)
                              = node[n].internal_count + q * CountRange
  <2>1. 0 \in Int /\ 0 * CountRange = 0
    BY QueueAssumption
  <2>2. node'[n].internal_count + Change(t, m, n) = node[n].internal_count + 0 * CountRange
    BY <2>1, NodeParts
  <2>. QED  BY <2>1, <2>2
<1>. QED  BY <1>1, AccountsKept

LEMMA AccountsQuiet ==
    ASSUME ShapeInv, ShapeInv', AccountInv, NEW t \in Threads,
           \A u \in Threads \ {t} : pc'[u] = pc[u] /\ my'[u] = my[u],
           head' = head, tail' = tail,
           \A l \in Nodes : /\ node'[l].next = node[l].next
                            /\ node'[l].internal_count = node[l].internal_count,
           \A n \in Nodes : Held(t, n)' = Held(t, n) /\ Owed(t, n)' = Owed(t, n)
    PROVE  AccountInv'
<1>1. CASE Nodes = {}
  BY <1>1 DEF AccountInv
<1>2. ASSUME NEW m \in Nodes PROVE AccountInv'
  <2>1. ASSUME NEW n \in Nodes PROVE Change(t, m, n) = 0
    <3>1. /\ Held(t, n) \in Int /\ Owed(t, n) \in Int /\ Extra(node[m].next, n) \in Int
          /\ Extra(head, n) \in Int /\ Extra(tail, n) \in Int
      BY AccountTypes
    <3>. QED  BY <3>1 DEF Change
  <2>. QED  BY <2>1, AccountsSame
<1>. QED  BY <1>1, <1>2

LEMMA PushAccounts ==
    ASSUME ShapeInv, ShapeInv', AccountInv, NEW t \in Pushers, ActingInv(t),
           \/ PushStart(t) \/ GuardTail(t) \/ CasData(t) \/ LinkNext(t) \/ SetNewTail(t)
    PROVE  AccountInv'
<1>0. t \in Threads
  BY DEF Threads
<1>. DEFINE facts == \A n \in Nodes : HoldingFacts(t, n) /\ HoldingFacts(t, n)'
<1>a. facts
  BY <1>0, Holding, HoldingAfter
<1>1. CASE PushStart(t)
  <2>1. /\ Moves(t, "idle", "guard_tail") /\ UNCHANGED <<head, tail, node>>
    BY <1>1, PushStartDoes DEF PushStart
  <2>2. \A n \in Nodes : Held(t, n)' = Held(t, n) /\ Owed(t, n)' = Owed(t, n)
    BY <1>a, <2>1 DEF HoldingFacts, Moves
  <2>. QED  BY <1>0, <2>1, <2>2, AccountsQuiet DEF Moves
<1>2. CASE GuardTail(t)
  <2>1. /\ Moves(t, "guard_tail", "cas_data") /\ my'[t].old = tail'
        /\ tail'.ptr = tail.ptr /\ tail'.external_count = tail.external_count + 1
        /\ UNCHANGED <<head, node>>
    BY <1>2, GuardTailDoes DEF GuardTail, nodes
  <2>2. ASSUME NEW m \in Nodes, NEW n \in Nodes PROVE Change(t, m, n) = 0
    <3>1. Held(t, n) = 0 /\ Owed(t, n) = 0 /\ Held(t, n)' = One(tail.ptr = n) /\ Owed(t, n)' = 0
      BY <1>a, <2>1 DEF HoldingFacts, Moves, Old
    <3>2. Extra(tail', n) - Extra(tail, n) = One(tail.ptr = n)
      BY <2>1 DEF Extra, One, ShapeInv, AnyLink
    <3>3. Extra(node[m].next, n) \in Int /\ Extra(head, n) \in Int
      BY AccountTypes
    <3>4. One(tail.ptr = n) \in Int
      BY DEF One
    <3>. QED  BY <2>1, <3>1, <3>2, <3>3, <3>4 DEF Change
  <2>. QED  BY <1>0, <2>1, <2>2, AccountsSame DEF Moves, AccountInv
<1>3. CASE CasData(t)
  <2>1. Old(t) \in Nodes
    BY <1>3 DEF CasData, Goto, ActingInv, GuardsOld, PushLabels
  <2>2. /\ my' = my /\ UNCHANGED <<head, tail>>
        /\ Moves(t, "cas_data", "link_own") \/ Moves(t, "cas_data", "link_help")
        /\ \A n \in Nodes : /\ node'[n].next = node[n].next
                            /\ node'[n].internal_count = node[n].internal_count
    BY <1>3, <2>1, CasDataDoes DEF CasData
  <2>3. \A n \in Nodes : Held(t, n)' = Held(t, n) /\ Owed(t, n)' = Owed(t, n)
    BY <1>a, <2>2 DEF HoldingFacts, Moves, Old
  <2>. QED  BY <1>0, <2>2, <2>3, AccountsQuiet DEF Moves
<1>4. CASE LinkNext(t)
  <2>1. Old(t) \in Nodes /\ UNCHANGED <<head, tail>>
    BY <1>4 DEF LinkNext, ActingInv, GuardsOld, PushLabels
  <2>2. /\ pc[t] \in {"link_own", "link_help"} /\ Moves(t, pc[t], "set_tail")
        /\ my'[t].old = my[t].old
        /\ LinksNew(t) \/ FindsLinked(t)
    BY <1>4, <2>1, LinkNextDoes
  <2>3. \A n \in Nodes : Held(t, n)' = Held(t, n) /\ Owed(t, n)' = Owed(t, n)
    BY <1>a, <2>2 DEF HoldingFacts, Moves, Old
  <2>4. CASE LinksNew(t)
    <3>1. ASSUME NEW n \in Nodes PROVE Change(t, Old(t), n) = 0
      <4>1. Extra(node[Old(t)].next, n) = 0 /\ Extra(node'[Old(t)].next, n) = 0
        BY <2>4, QueueAssumption DEF LinksNew, Extra, Counted
      <4>2. /\ Held(t, n) \in Int /\ Owed(t, n) \in Int
            /\ Extra(head, n) \in Int /\ Extra(tail, n) \in Int
        BY <1>0, AccountTypes
      <4>. QED  BY <2>1, <2>3, <4>1, <4>2 DEF Change
    <3>. QED  BY <1>0, <2>1, <2>2, <2>4, <3>1, AccountsSame DEF Moves, LinksNew
  <2>5. CASE FindsLinked(t)
    BY <1>0, <2>1, <2>2, <2>3, <2>5, AccountsQuiet DEF Moves, FindsLinked
  <2>. QED  BY <2>2, <2>4, <2>5
<1>5. CASE SetNewTail(t)
  <2>1. UNCHANGED <<head, node>>
    BY <1>5 DEF SetNewTail, nodes
  <2>2. CASE Moves(t, "set_tail", "drop_tail") /\ tail' = tail /\ my' = my
    <3>1. \A n \in Nodes : Held(t, n)' = Held(t, n) /\ Owed(t, n)' = Owed(t, n)
      BY <1>a, <2>2 DEF HoldingFacts, Moves, Old
    <3>. QED  BY <1>0, <2>1, <2>2, <3>1, AccountsQuiet DEF Moves
  <2>3. CASE /\ Moves(t, "set_tail", "free_tail") /\ tail.ptr = Old(t)
             /\ tail' = Counted(1, my[t].nxt.ptr) /\ my'[t].old = tail
    <3>1. ASSUME NEW m \in Nodes, NEW n \in Nodes PROVE Change(t, m, n) = 0
      <4>1. /\ Held(t, n) = One(Old(t) = n) /\ Owed(t, n) = 0
            /\ Held(t, n)' = One(Old(t) = n) /\ Owed(t, n)' = Extra(tail, n)
        BY <1>a, <2>3 DEF HoldingFacts, Moves, Old
      <4>2. Extra(tail', n) = 0
        BY <2>3 DEF Extra, Counted
      <4>3. /\ Extra(node[m].next, n) \in Int /\ Extra(head, n) \in Int /\ Extra(tail, n) \in Int
            /\ One(Old(t) = n) \in Int
        BY AccountTypes DEF One
      <4>. QED  BY <2>1, <4>1, <4>2, <4>3 DEF Change
    <3>. QED  BY <1>0, <2>1, <2>3, <3>1, AccountsSame DEF Moves, AccountInv
  <2>. QED  BY <1>5, <2>2, <2>3, SetNewTailDoes
<1>. QED  BY <1>1, <1>2, <1>3, <1>4, <1>5

LEMMA PopAccounts ==
    ASSUME ShapeInv, ShapeInv', AccountInv, NEW t \in Threads, ActingInv(t),
           Taking(t) => node[Old(t)].next.ptr = my[t].nxt.ptr,
           \/ PopStart(t) \/ GuardHead(t) \/ CheckEmpty(t) \/ GuardNext(t)
           \/ StartCallback(t) \/ EndCallback(t) \/ CasHead(t) \/ TakeData(t) \/ CloseNext(t)
    PROVE  AccountInv'
<1>. DEFINE facts == \A n \in Nodes : HoldingFacts(t, n) /\ HoldingFacts(t, n)'
<1>a. facts
  BY Holding, HoldingAfter
<1>1. CASE PopStart(t)
  <2>1. /\ Moves(t, "idle", "guard_head") /\ my' = my /\ UNCHANGED <<head, tail, node>>
    BY <1>1, PopStartDoes DEF PopStart, nodes
  <2>2. \A n \in Nodes : Held(t, n)' = Held(t, n) /\ Owed(t, n)' = Owed(t, n)
    BY <1>a, <2>1 DEF HoldingFacts, Moves
  <2>. QED  BY <2>1, <2>2, AccountsQuiet DEF Moves
<1>2. CASE GuardHead(t)
  <2>1. /\ Moves(t, "guard_head", "check_empty") /\ my'[t].old = head'
        /\ head'.ptr = head.ptr /\ head'.external_count = head.external_count + 1
        /\ UNCHANGED <<tail, node>>
    BY <1>2, GuardHeadDoes DEF GuardHead, nodes
  <2>2. ASSUME NEW m \in Nodes, NEW n \in Nodes PROVE Change(t, m, n) = 0
    <3>1. Held(t, n) = 0 /\ Owed(t, n) = 0 /\ Held(t, n)' = One(head.ptr = n) /\ Owed(t, n)' = 0
      BY <1>a, <2>1 DEF HoldingFacts, Moves, Old
    <3>2. Extra(head', n) - Extra(head, n) = One(head.ptr = n)
      BY <2>1 DEF Extra, One, ShapeInv, AnyLink
    <3>3. Extra(node[m].next, n) \in Int /\ Extra(tail, n) \in Int
      BY AccountTypes
    <3>4. One(head.ptr = n) \in Int
      BY DEF One
    <3>. QED  BY <2>1, <3>1, <3>2, <3>3, <3>4 DEF Change
  <2>. QED  BY <2>1, <2>2, AccountsSame DEF Moves, AccountInv
<1>3. CASE CheckEmpty(t)
  <2>1. /\ my' = my /\ UNCHANGED <<head, tail, node>>
        /\ Moves(t, "check_empty", "drop_head") \/ Moves(t, "check_empty", "guard_next")
    BY <1>3, CheckEmptyDoes DEF CheckEmpty, nodes
  <2>2. \A n \in Nodes : Held(t, n)' = Held(t, n) /\ Owed(t, n)' = Owed(t, n)
    BY <1>a, <2>1 DEF HoldingFacts, Moves, Old
  <2>. QED  BY <2>1, <2>2, AccountsQuiet DEF Moves
<1>4. CASE GuardNext(t)
  <2>1. Old(t) \in Nodes /\ UNCHANGED <<head, tail>>
    BY <1>4 DEF GuardNext, Goto, ActingInv, GuardsOld, HeadLabels
  <2>2. CASE /\ Moves(t, "guard_next", "drop_head") /\ node' = node
             /\ my'[t].old = my[t].old
    <3>1. \A n \in Nodes : Held(t, n)' = Held(t, n) /\ Owed(t, n)' = Owed(t, n)
      BY <1>a, <2>2 DEF HoldingFacts, Moves, Old
    <3>. QED  BY <2>1, <2>2, <3>1, AccountsQuiet DEF Moves
  <2>3. CASE /\ Moves(t, "guard_next", "callback")
             /\ my'[t].old = my[t].old /\ my'[t].nxt = node'[Old(t)].next
             /\ node'[Old(t)].next = Inc(node[Old(t)].next)
             /\ \A n \in Nodes : /\ node'[n].internal_count = node[n].internal_count
                                 /\ n # Old(t) => node'[n] = node[n]
    <3>1. ASSUME NEW n \in Nodes PROVE Change(t, Old(t), n) = 0
      <4>. DEFINE ptr == node[Old(t)].next.ptr
      <4>1. node[Old(t)].next \in AnyLink /\ node'[Old(t)].next.ptr = ptr
        BY <2>1, <2>3, NodeParts, PartTypes
      <4>2. /\ Held(t, n) = One(Old(t) = n) /\ Owed(t, n) = 0
            /\ Held(t, n)' = One(Old(t) = n) + One(ptr = n) /\ Owed(t, n)' = 0
        BY <1>a, <2>3, <4>1 DEF HoldingFacts, Moves, Old
      <4>3. Extra(node'[Old(t)].next, n) - Extra(node[Old(t)].next, n) = One(ptr = n)
        BY <2>3, <4>1 DEF Extra, One, Inc, AnyLink
      <4>4. /\ One(Old(t) = n) \in Int /\ One(ptr = n) \in Int
            /\ Extra(head, n) \in Int /\ Extra(tail, n) \in Int
        BY AccountTypes DEF One
      <4>. HIDE DEF ptr
      <4>. QED  BY <2>1, <4>2, <4>3, <4>4 DEF Change
    <3>. QED  BY <2>1, <2>3, <3>1, AccountsSame DEF Moves
  <2>. QED  BY <1>4, <2>1, <2>2, <2>3, GuardNextDoes
<1>5. CASE StartCallback(t)
  <2>1. /\ Moves(t, "callback", "in_callback") /\ SameLocals(t) /\ UNCHANGED <<head, tail, node>>
    BY <1>5, StartCallbackDoes DEF StartCallback, nodes
  <2>2. \A n \in Nodes : Held(t, n)' = Held(t, n) /\ Owed(t, n)' = Owed(t, n)
    BY <1>a, <2>1 DEF HoldingFacts, Moves, SameLocals, Old
  <2>. QED  BY <2>1, <2>2, AccountsQuiet DEF Moves
<1>6. CASE EndCallback(t)
  <2>1. /\ Moves(t, "in_callback", "cas_head") \/ Moves(t, "in_callback", "drop_next")
        /\ SameLocals(t) /\ UNCHANGED <<head, tail, node>>
    BY <1>6, EndCallbackDoes DEF EndCallback, nodes
  <2>2. \A n \in Nodes : Held(t, n)' = Held(t, n) /\ Owed(t, n)' = Owed(t, n)
    BY <1>a, <2>1 DEF HoldingFacts, Moves, SameLocals, Old
  <2>. QED  BY <2>1, <2>2, AccountsQuiet DEF Moves
<1>7. CASE CasHead(t)
  <2>1. UNCHANGED <<tail, node>> /\ my'[t].old = my[t].old /\ my'[t].nxt = my[t].nxt
    BY <1>7, CasHeadDoes DEF CasHead, nodes
  <2>2. CASE Moves(t, "cas_head", "drop_next") /\ head' = head
    <3>1. \A n \in Nodes : Held(t, n)' = Held(t, n) /\ Owed(t, n)' = Owed(t, n)
      BY <1>a, <2>1, <2>2 DEF HoldingFacts, Moves, Old
    <3>. QED  BY <2>1, <2>2, <3>1, AccountsQuiet DEF Moves
  <2>3. CASE /\ Moves(t, "cas_head", "take_data") /\ head = my[t].old
             /\ head' = Counted(1, my[t].nxt.ptr)
    <3>1. ASSUME NEW m \in Nodes, NEW n \in Nodes PROVE Change(t, m, n) = 0
      <4>1. /\ Held(t, n) = One(Old(t) = n) + One(my[t].nxt.ptr = n) /\ Owed(t, n) = 0
            /\ Held(t, n)' = One(Old(t) = n) + One(my[t].nxt.ptr = n)
            /\ Owed(t, n)' = Extra(head, n)
        BY <1>a, <2>1, <2>3 DEF HoldingFacts, Moves, Old
      <4>2. Extra(head', n) = 0
        BY <2>3 DEF Extra, Counted
      <4>3. /\ Extra(node[m].next, n) \in Int /\ Extra(head, n) \in Int /\ Extra(tail, n) \in Int
            /\ One(Old(t) = n) \in Int /\ One(my[t].nxt.ptr = n) \in Int
        BY AccountTypes DEF One
      <4>. QED  BY <2>1, <4>1, <4>2, <4>3 DEF Change
    <3>. QED  BY <2>1, <2>3, <3>1, AccountsSame DEF Moves, AccountInv
  <2>. QED  BY <1>7, <2>2, <2>3, CasHeadDoes
<1>8. CASE TakeData(t)
  <2>1. Old(t) \in Nodes
    BY <1>8 DEF TakeData, Goto, ActingInv, GuardsOld, NextLabels
  <2>2. /\ Moves(t, "take_data", "close_next") /\ SameLocals(t) /\ UNCHANGED <<head, tail>>
        /\ \A n \in Nodes : /\ node'[n].next = node[n].next
                            /\ node'[n].internal_count = node[n].internal_count
    BY <1>8, <2>1, TakeDataDoes DEF TakeData
  <2>3. \A n \in Nodes : Held(t, n)' = Held(t, n) /\ Owed(t, n)' = Owed(t, n)
    BY <1>a, <2>2 DEF HoldingFacts, Moves, SameLocals, Old
  <2>. QED  BY <2>2, <2>3, AccountsQuiet DEF Moves
<1>9. CASE CloseNext(t)
  <2>1. Old(t) \in Nodes /\ UNCHANGED <<head, tail>>
    BY <1>9 DEF CloseNext, Goto, ActingInv, GuardsOld, NextLabels
  <2>2. /\ Moves(t, "close_next", "free_head") /\ my'[t].old = my[t].old
        /\ my'[t].nxt = node[Old(t)].next /\ node'[Old(t)].next = Counted(1, NULL)
        /\ \A n \in Nodes : /\ node'[n].internal_count = node[n].internal_count
                            /\ n # Old(t) => node'[n] = node[n]
    BY <1>9, <2>1, CloseNextDoes
  <2>3. ASSUME NEW n \in Nodes PROVE Change(t, Old(t), n) = 0
    <3>. DEFINE ptr == my[t].nxt.ptr
    <3>1. node[Old(t)].next.ptr = ptr
      BY <2>2 DEF Moves, Taking
    <3>2. /\ Held(t, n) = One(Old(t) = n) + One(ptr = n) /\ Owed(t, n) = Extra(my[t].old, n)
          /\ Held(t, n)' = One(Old(t) = n) + One(ptr = n)
          /\ Owed(t, n)' = Extra(my[t].old, n) + Extra(node[Old(t)].next, n)
      BY <1>a, <2>2, <3>1 DEF HoldingFacts, Moves, Old
    <3>3. Extra(node'[Old(t)].next, n) = 0
      BY <2>2 DEF Extra, Counted
    <3>4. /\ One(Old(t) = n) \in Int /\ One(ptr = n) \in Int /\ Extra(node[Old(t)].next, n) \in Int
          /\ Extra(head, n) \in Int /\ Extra(tail, n) \in Int /\ Extra(my[t].old, n) \in Int
      BY <2>1, AccountTypes, LocalParts, ExtraType DEF One
    <3>. HIDE DEF ptr
    <3>. QED  BY <2>1, <3>2, <3>3, <3>4 DEF Change
  <2>. QED  BY <2>1, <2>2, <2>3, AccountsSame DEF Moves
<1>. QED  BY <1>1, <1>2, <1>3, <1>4, <1>5, <1>6, <1>7, <1>8, <1>9

\* A count that moves from a thread into the node, or a guard that is dropped.
LEMMA CountedAccounts ==
    ASSUME ShapeInv, ShapeInv', AccountInv, NEW t \in Threads,
           NEW p \in AnyLink, p.ptr \in Nodes, NEW c \in Int, NEW e,
           Stored(p.ptr, (node[p.ptr].internal_count + c) % CountRange, e),
           live' # live => node[p.ptr].next.ptr = NULL,
           head' = head, tail' = tail,
           \A u \in Threads \ {t} : pc'[u] = pc[u] /\ my'[u] = my[u],
           \A n \in Nodes : (Owed(t, n)' - Owed(t, n)) - (Held(t, n)' - Held(t, n))
                              = IF n = p.ptr THEN -c ELSE 0,
           p.ptr \in live
    PROVE  AccountInv'
<1>. DEFINE internal == (node[p.ptr].internal_count + c) % CountRange
<1>1. /\ node'[p.ptr].internal_count = internal
      /\ \A n \in Nodes \ {p.ptr} : node'[n] = node[n]
      /\ \A n \in Nodes : Extra(node'[p.ptr].next, n) = Extra(node[p.ptr].next, n)
  <2>. HIDE DEF internal
  <2>1. Kept(p.ptr, internal, e) \/ Freed(p.ptr, internal, e)
    BY DEF Stored, internal
  <2>2. CASE Kept(p.ptr, internal, e)
    BY <2>2 DEF Kept, Counts
  <2>3. CASE Freed(p.ptr, internal, e)
    <3>1. node'[p.ptr] = Fresh /\ internal = 0 /\ live' # live
      BY <2>3 DEF Freed
    <3>2. node'[p.ptr].internal_count = 0 /\ node'[p.ptr].next.ptr = NULL
      BY <3>1 DEF Fresh, Counted
    <3>. QED  BY <2>3, <3>1, <3>2, QueueAssumption DEF Freed, Extra
  <2>. QED  BY <2>1, <2>2, <2>3
<1>2. ASSUME NEW n \in Nodes
      PROVE  \E q \in Int : node'[n].internal_count + Change(t, p.ptr, n)
                              = node[n].internal_count + q * CountRange
  <2>1. Change(t, p.ptr, n) = IF n = p.ptr THEN -c ELSE 0
    <3>1. /\ Extra(node[p.ptr].next, n) \in Int
          /\ Extra(head, n) \in Int /\ Extra(tail, n) \in Int
      BY AccountTypes
    <3>. QED  BY <1>1, <3>1 DEF Change
  <2>2. CASE n = p.ptr
    <3>1. node[p.ptr].internal_count \in Int
      BY NodeParts
    <3>2. PICK q \in Int : internal = (node[p.ptr].internal_count + c) + q * CountRange
      BY <3>1, Wraps
    <3>3. CountRange \in Int /\ q * CountRange \in Int
      BY QueueAssumption
    <3>4. node'[n].internal_count + Change(t, p.ptr, n)
            = node[n].internal_count + q * CountRange
      <4>. HIDE DEF internal
      <4>. QED  BY <1>1, <2>1, <2>2, <3>1, <3>2, <3>3
    <3>. QED  BY <3>4
  <2>3. CASE n # p.ptr
    <3>1. node[n].internal_count \in Int /\ 0 \in Int /\ 0 * CountRange = 0
      BY NodeParts, QueueAssumption
    <3>2. node'[n].internal_count + Change(t, p.ptr, n)
            = node[n].internal_count + 0 * CountRange
      BY <1>1, <2>1, <2>3, <3>1
    <3>. QED  BY <3>1, <3>2
  <2>. QED  BY <2>2, <2>3
<1>3. \A l \in Nodes : l # p.ptr => node'[l].next = node[l].next
  BY <1>1
<1>. QED  BY <1>2, <1>3, AccountsKept

----------------------------------------------------------------------------
(* What a node's count tells when nothing is left to be reported *)

LEMMA RangeFacts == CountRange \in Nat /\ CountRange > 1
<1>1. Cardinality(Threads) \in Nat /\ Cardinality(Threads) # 0
  BY QueueAssumption, FS_CardinalityType, FS_EmptySet DEF Threads
<1>. QED  BY <1>1, QueueAssumption

LEMMA SmallMultiple ==
    ASSUME NEW d \in Int, d < CountRange, -CountRange < d, Multiple(d)
    PROVE  d = 0
<1>1. PICK k \in Int : d = k * CountRange
  BY DEF Multiple
<1>2. CountRange \in Nat /\ CountRange > 0
  BY QueueAssumption, FS_CardinalityType
<1>3. CASE k >= 1
  <2>1. k * CountRange >= CountRange
    BY <1>2, <1>3
  <2>. QED  BY <1>1, <1>2, <2>1
<1>4. CASE k <= -1
  <2>1. k * CountRange <= -CountRange
    BY <1>2, <1>4
  <2>. QED  BY <1>1, <1>2, <2>1
<1>5. CASE k = 0
  BY <1>1, <1>2, <1>5
<1>. QED  BY <1>3, <1>4, <1>5

HoldersOf(n) == {u \in Threads : Held(u, n) = 1}

\* Nobody but t has to report copies of n, and nobody holds two.
OnlyOwes(t, n) ==
    /\ Extra(head, n) = 0 /\ Extra(tail, n) = 0
    /\ \A m \in Nodes : Extra(node[m].next, n) = 0
    /\ \A u \in Threads : u # t => Owed(u, n) = 0
    /\ \A u \in Threads : Held(u, n) \in {0, 1}

LEMMA Reported ==
    ASSUME ShapeInv, AccountInv, NEW n \in Nodes, NEW t \in Threads, OnlyOwes(t, n)
    PROVE  /\ Cardinality(HoldersOf(n)) \in Nat /\ Cardinality(HoldersOf(n)) < CountRange
           /\ Multiple(node[n].internal_count + Owed(t, n) - Cardinality(HoldersOf(n)))
<1>. DEFINE owed == [u \in Threads |-> Owed(u, n)]
            held == [u \in Threads |-> Held(u, n)]
            both == [u \in Threads |-> Owed(u, n) - Held(u, n)]
            links == [m \in Nodes |-> Extra(node[m].next, n)]
<1>1. IsFiniteSet(Threads) /\ IsFiniteSet(Nodes)
  BY QueueAssumption
<1>2. /\ \A u \in Threads : owed[u] \in Int /\ held[u] \in Int /\ both[u] = owed[u] - held[u]
      /\ \A u \in Threads : u # t => owed[u] = 0
      /\ \A u \in Threads : held[u] \in {0, 1}
      /\ \A m \in Nodes : links[m] = 0 /\ links[m] \in Int
      /\ HoldersOf(n) = {u \in Threads : held[u] = 1} /\ owed[t] = Owed(t, n)
  BY AccountTypes DEF OnlyOwes, HoldersOf
<1>3. Account(n) = SumOf(both, Threads) /\ NextCopies(n) = SumOf(links, Nodes)
  BY DEF Account, NextCopies
<1>. HIDE DEF owed, held, both, links
<1>4. SumOf(both, Threads) = SumOf(owed, Threads) - SumOf(held, Threads)
  BY <1>1, <1>2, SumOfDifference
<1>5. SumOf(owed, Threads) = Owed(t, n)
  <2>1. SumOf(owed, Threads) = owed[t]
    BY <1>1, <1>2, SumOfSingle
  <2>. QED  BY <1>2, <2>1
<1>6. SumOf(held, Threads) = Cardinality(HoldersOf(n))
  BY <1>1, <1>2, SumOfOnes
<1>7. NextCopies(n) = 0
  <2>1. PICK m \in Nodes : m = n
    OBVIOUS
  <2>2. SumOf(links, Nodes) = links[m]
    BY <1>1, <1>2, SumOfSingle
  <2>. QED  BY <1>2, <1>3, <2>2
<1>8. Cardinality(HoldersOf(n)) \in Nat /\ Cardinality(HoldersOf(n)) < CountRange
  <2>1. HoldersOf(n) \in SUBSET Threads
    BY DEF HoldersOf
  <2>2. Cardinality(HoldersOf(n)) <= Cardinality(Threads) /\ IsFiniteSet(HoldersOf(n))
    BY <1>1, <2>1, FS_Subset
  <2>3. Cardinality(HoldersOf(n)) \in Nat /\ Cardinality(Threads) \in Nat
    BY <1>1, <2>2, FS_CardinalityType
  <2>. QED  BY <2>2, <2>3, QueueAssumption
<1>9. Balance(n) = node[n].internal_count + Owed(t, n) - Cardinality(HoldersOf(n))
  <2>1. node[n].internal_count \in Int /\ Owed(t, n) \in Int
    BY NodeParts, AccountTypes
  <2>2. Extra(head, n) = 0 /\ Extra(tail, n) = 0
    BY DEF OnlyOwes
  <2>. QED  BY <1>3, <1>4, <1>5, <1>6, <1>7, <1>8, <2>1, <2>2 DEF Balance
<1>10. Multiple(Balance(n))
  BY DEF AccountInv
<1>. QED  BY <1>8, <1>9, <1>10

\* A node whose sources have all reported counts its holders.
LEMMA CountIsHolders ==
    ASSUME ShapeInv, AccountInv, NEW n \in Nodes, NEW t \in Threads, OnlyOwes(t, n),
           Owed(t, n) = 0
    PROVE  node[n].internal_count = Cardinality(HoldersOf(n))
<1>1. node[n].internal_count \in 0 .. CountRange - 1 /\ CountRange \in Nat
  BY NodeParts, QueueAssumption
<1>. DEFINE h == Cardinality(HoldersOf(n))
            d == node[n].internal_count - h
<1>2. h \in Nat /\ h < CountRange /\ Multiple(d)
  <2>1. node[n].internal_count + Owed(t, n) - h = d
    BY <1>1, Reported
  <2>. QED  BY <2>1, Reported
<1>3. d \in Int /\ d < CountRange /\ -CountRange < d
  BY <1>1, <1>2
<1>. HIDE DEF d
<1>4. d = 0
  BY <1>2, <1>3, SmallMultiple
<1>. QED  BY <1>1, <1>2, <1>4 DEF d

\* The guard that counts a node down to zero was the last one.
LEMMA LastHolder ==
    ASSUME ShapeInv, AccountInv, NEW n \in Nodes, NEW t \in Threads, OnlyOwes(t, n),
           Owed(t, n) = 0, Held(t, n) = 1, (node[n].internal_count - 1) % CountRange = 0
    PROVE  \A u \in Threads : u # t => Held(u, n) = 0
<1>1. node[n].internal_count = Cardinality(HoldersOf(n)) /\ IsFiniteSet(HoldersOf(n))
  <2>1. HoldersOf(n) \in SUBSET Threads
    BY DEF HoldersOf
  <2>. QED  BY <2>1, CountIsHolders, QueueAssumption, FS_Subset
<1>2. /\ Cardinality(HoldersOf(n)) \in Nat
      /\ Cardinality(HoldersOf(n) \ {t}) = Cardinality(HoldersOf(n)) - 1
  BY <1>1, FS_CardinalityType, FS_RemoveElement DEF HoldersOf
<1>3. Cardinality(HoldersOf(n)) = 1
  <2>. DEFINE d == node[n].internal_count - 1
  <2>1. d \in Int /\ d < CountRange /\ -CountRange < d
    <3>1. node[n].internal_count \in 0 .. CountRange - 1
      BY NodeParts
    <3>. QED  BY <3>1, RangeFacts
  <2>2. Multiple(d)
    <3>1. PICK q \in Int : d % CountRange = d + q * CountRange
      BY <2>1, Wraps
    <3>2. d % CountRange = 0
      OBVIOUS
    <3>. HIDE DEF d
    <3>3. CountRange \in Int
      BY QueueAssumption
    <3>4. -q \in Int /\ q * CountRange \in Int /\ d + q * CountRange = 0
      BY <3>1, <3>2, <3>3
    <3>5. d = -(q * CountRange)
      <4>1. \A x \in Int : d + x = 0 => d = -x
        BY <2>1
      <4>. QED  BY <3>4, <4>1
    <3>6. d = (-q) * CountRange
      BY <3>3, <3>5, NegatedProduct
    <3>. QED  BY <3>4, <3>6 DEF Multiple
  <2>3. d = 0
    <3>. HIDE DEF d
    <3>. QED  BY <2>1, <2>2, SmallMultiple
  <2>. QED  BY <1>1, <1>2, <2>3
<1>4. HoldersOf(n) \ {t} = {}
  <2>1. IsFiniteSet(HoldersOf(n) \ {t}) /\ Cardinality(HoldersOf(n) \ {t}) = 0
    BY <1>1, <1>2, <1>3, FS_Subset
  <2>. QED  BY <2>1, FS_EmptySet
<1>. QED  BY <1>4 DEF HoldersOf, OnlyOwes

\* A source that reports while its thread still holds the node never counts it to zero.
LEMMA HolderKeeps ==
    ASSUME ShapeInv, AccountInv, NEW n \in Nodes, NEW t \in Threads, OnlyOwes(t, n),
           Held(t, n) = 1
    PROVE  (node[n].internal_count + Owed(t, n)) % CountRange # 0
<1>. DEFINE s == node[n].internal_count + Owed(t, n)
            h == Cardinality(HoldersOf(n))
<1>1. SUFFICES ASSUME s % CountRange = 0 PROVE FALSE
  OBVIOUS
<1>2. s \in Int /\ h \in Nat /\ h < CountRange /\ Multiple(s - h)
  <2>1. node[n].internal_count \in Int /\ Owed(t, n) \in Int
    BY NodeParts, AccountTypes
  <2>2. h \in Nat /\ h < CountRange /\ Multiple(node[n].internal_count + Owed(t, n) - h)
    BY Reported
  <2>. QED  BY <2>1, <2>2
<1>. HIDE DEF s, h
<1>3. PICK q \in Int : s % CountRange = s + q * CountRange
  BY <1>2, Wraps
<1>4. Multiple(-h)
  <2>1. CountRange \in Int
    BY QueueAssumption
  <2>2. Multiple((s - h) + q * CountRange)
    <3>1. s - h \in Int
      BY <1>2
    <3>. QED  BY <1>2, <1>3, <3>1, MultiplesAdd
  <2>3. (s - h) + q * CountRange = -h
    <3>1. q * CountRange \in Int /\ s + q * CountRange = 0
      BY <1>1, <1>2, <1>3, <2>1
    <3>2. \A j \in Int : s + j = 0 => (s - h) + j = -h
      BY <1>2
    <3>. QED  BY <3>1, <3>2
  <2>. QED  BY <2>2, <2>3
<1>5. h = 0
  <2>1. -h \in Int /\ -h < CountRange /\ -CountRange < -h
    BY <1>2, RangeFacts
  <2>2. -h = 0
    BY <1>4, <2>1, SmallMultiple
  <2>. QED  BY <1>2, <2>2
<1>6. t \in HoldersOf(n) /\ IsFiniteSet(HoldersOf(n))
  <2>1. HoldersOf(n) \in SUBSET Threads
    BY DEF HoldersOf
  <2>. QED  BY <2>1, QueueAssumption, FS_Subset DEF HoldersOf
<1>. QED  BY <1>5, <1>6, FS_EmptySet DEF h

LEMMA LinkedNodes ==
    ASSUME ShapeInv
    PROVE  Linked \subseteq live /\ Linked \subseteq Nodes /\ NULL \notin Linked
  BY QueueAssumption DEF ShapeInv, Linked

LEMMA FreshOutside ==
    ASSUME ShapeInv, UnlinkedInv, NEW m \in Nodes \ Linked
    PROVE  node[m] = Fresh /\ node[m].next = Counted(0, NULL) /\ node[m].next.ptr = NULL
<1>1. node[m] = Fresh
  <2>1. CASE m \in live
    <3>1. PICK t \in Pushers : my[t].new = m
      BY <2>1 DEF Linked
    <3>2. m # NULL
      BY QueueAssumption
    <3>. QED  BY <3>1, <3>2 DEF UnlinkedInv
  <2>2. CASE m \notin live
    BY <2>2 DEF UnlinkedInv
  <2>. QED  BY <2>1, <2>2
<1>. QED  BY <1>1 DEF Fresh, Counted

LEMMA HeldOnce ==
    ASSUME ShapeInv, NEW pos \in [Nodes -> Int], ThreadInv(pos), NEW u \in Threads, NEW n
    PROVE  Held(u, n) \in {0, 1}
<1>1. CASE u \in Pushers
  <2>1. ~GuardsNext(u)
    BY <1>1, QueueAssumption DEF GuardsNext, ShapeInv, PlacesInv, PushPlaces, PushLabels,
       NextLabels
  <2>. QED  BY <2>1 DEF Held, One
<1>2. CASE u \notin Pushers
  <2>1. GuardsNext(u) => Old(u) # my[u].nxt.ptr
    <3>1. SUFFICES ASSUME GuardsNext(u) PROVE Old(u) # my[u].nxt.ptr
      OBVIOUS
    <3>2. GuardsOld(u)
      BY <3>1 DEF GuardsOld, GuardsNext
    <3>3. Old(u) \in Nodes /\ pos[my[u].nxt.ptr] = pos[Old(u)] + 1
      BY <1>2, <3>1, <3>2, LinkedNodes DEF ThreadInv, Popping
    <3>. QED  BY <3>3
  <2>. QED  BY <2>1 DEF Held, One
<1>. QED  BY <1>1, <1>2

\* Nobody but t is a source of node n.
NoOtherSource(t, n, pos) ==
    /\ pos[n] < pos[head.ptr] /\ pos[n] < pos[tail.ptr]
    /\ \A m \in Linked : node[m].next.ptr # n
    /\ \A u \in Threads : u # t =>
         /\ pc[u] \in {"take_data", "close_next", "free_head", "free_tail"} => Old(u) # n
         /\ pc[u] \in {"free_head", "free_next"} => my[u].nxt.ptr # n

LEMMA OnlyOwesFollows ==
    ASSUME ShapeInv, UnlinkedInv, NEW pos \in [Nodes -> Int], ChainInv(pos), ThreadInv(pos),
           NEW n \in Linked, NEW t \in Threads, NoOtherSource(t, n, pos)
    PROVE  OnlyOwes(t, n)
<1>1. n \in Nodes /\ n # NULL /\ head.ptr \in Nodes /\ tail.ptr \in Nodes
  BY LinkedNodes DEF ChainInv, Chained
<1>2. head.ptr # n /\ tail.ptr # n
  BY <1>1 DEF NoOtherSource
<1>3. \A m \in Nodes : node[m].next.ptr # n
  BY <1>1, FreshOutside DEF NoOtherSource
<1>4. ASSUME NEW u \in Threads, u # t PROVE Owed(u, n) = 0
  BY <1>4 DEF NoOtherSource, Owed, Extra, Old
<1>. QED  BY <1>2, <1>3, <1>4, HeldOnce DEF OnlyOwes, Extra

----------------------------------------------------------------------------
(* Steps that leave the chain and its sources as they are *)

LEMMA QuietStep ==
    ASSUME ShapeInv, NEW pos, QueueInv(pos), NEW t \in Threads, Quiet(t),
           pc[t] \notin Reporting, pc'[t] \notin Reporting,
           \A n \in Linked :
             /\ node'[n].external_counters = node[n].external_counters
             /\ node'[n].external_counters # 0 \/ node'[n].internal_count # 0,
           t \in Pushers => Pushing(t, pos)', t \notin Pushers => Popping(t, pos)'
    PROVE  QueueInv(pos)'
<1>1. ChainInv(pos)'
  BY QuietKeepsChain DEF QueueInv
<1>2. SourcesInv(pos)'
  BY QuietKeepsSources DEF QueueInv
<1>3. Apart'
  <2>1. \A u \in Threads \ {t} : pc'[u] = pc[u] /\ my'[u] = my[u]
    BY DEF Quiet
  <2>2. pc'[t] # "free_tail" /\ ~Taken(t)'
    BY DEF Reporting, Taken
  <2>3. Apart
    BY DEF QueueInv, ThreadInv
  <2>. QED  BY <2>1, <2>2, <2>3, StaysApart
<1>4. ThreadInv(pos)'
  <2>1. /\ \A u \in Pushers \ {t} : Pushing(u, pos)'
        /\ \A u \in (Threads \ Pushers) \ {t} : Popping(u, pos)'
    BY QuietKeepsOthers DEF QueueInv
  <2>. QED  BY <1>3, <2>1 DEF ThreadInv
<1>. QED  BY <1>1, <1>2, <1>4 DEF QueueInv

\* A pusher's new node and value, by where the pusher is.
NewInv(t) ==
    /\ pc[t] = "idle" => my[t].new = NULL
    /\ pc[t] \in {"guard_tail", "cas_data", "link_own", "link_help"} => my[t].new # NULL
    /\ pc[t] # "idle" => my[t].val # NULL

LEMMA UnlinkedKept ==
    ASSUME ShapeInv, UnlinkedInv, NEW gone \in SUBSET Linked, live' = live \ gone,
           \A m \in Nodes \ Linked : node'[m] = node[m],
           \A m \in gone : node'[m] = Fresh,
           \A u \in Pushers : my'[u].new = my[u].new /\ NewInv(u)'
    PROVE  UnlinkedInv' /\ Linked' = Linked \ gone
<1>1. Linked' = Linked \ gone
  BY DEF Linked
<1>2. ASSUME NEW u \in Pushers, my'[u].new # NULL
      PROVE  my'[u].new \in live' /\ node'[my'[u].new] = Fresh
  <2>1. my[u].new \in live /\ node[my[u].new] = Fresh /\ my[u].new \notin Linked
    BY <1>2 DEF UnlinkedInv, Linked
  <2>. QED  BY <2>1, LinkedNodes DEF ShapeInv
<1>3. \A n \in Nodes \ live' : node'[n] = Fresh
  BY LinkedNodes DEF UnlinkedInv
<1>. QED  BY <1>1, <1>2, <1>3 DEF UnlinkedInv, NewInv

LEMMA OthersNewInv ==
    ASSUME UnlinkedInv, NEW t \in Threads,
           \A u \in Threads \ {t} : pc'[u] = pc[u] /\ my'[u] = my[u],
           t \in Pushers => NewInv(t)' /\ my'[t].new = my[t].new
    PROVE  \A u \in Pushers : my'[u].new = my[u].new /\ NewInv(u)'
  BY DEF UnlinkedInv, NewInv, Threads

LEMMA PushStartStep ==
    ASSUME ShapeInv, UnlinkedInv, NEW pos \in [Nodes -> Int], QueueInv(pos),
           NEW t \in Pushers, PushStart(t)
    PROVE  UnlinkedInv' /\ QueueInv(pos)'
<1>0. t \in Threads
  BY DEF Threads
<1>1. PICK n \in Nodes \ live :
        /\ Moves(t, "idle", "guard_tail") /\ UNCHANGED <<head, tail, node>>
        /\ my'[t].old = my[t].old /\ my'[t].new = n
        /\ my'[t].val = Script[t][calls[t] + 1]
        /\ live' = live \cup {n} /\ calls[t] < Len(Script[t])
  BY PushStartDoes DEF PushStart
<1>2. my[t].new = NULL /\ n # NULL /\ my'[t].val # NULL
  <2>1. calls[t] \in Nat
    BY <1>0 DEF ShapeInv
  <2>2. Script[t][calls[t] + 1] # NULL
    BY <1>1, <2>1, ScriptType
  <2>. QED  BY <1>1, <2>2, QueueAssumption DEF UnlinkedInv, Moves
<1>3. \A u \in Pushers : my[u].new # n
  BY <1>1, <1>2 DEF UnlinkedInv
<1>4. Linked' = Linked
  <2>1. \A u \in Pushers \ {t} : my'[u] = my[u]
    BY <1>1 DEF Moves, Threads
  <2>2. ASSUME NEW m \in Linked PROVE m \in Linked'
    <3>1. m \in live /\ \A u \in Pushers : my[u].new # m
      BY DEF Linked
    <3>. QED  BY <1>1, <2>1, <3>1 DEF Linked
  <2>3. ASSUME NEW m \in Linked' PROVE m \in Linked
    <3>1. m \in live' /\ \A u \in Pushers : my'[u].new # m
      BY DEF Linked
    <3>2. m \in live /\ m # NULL
      BY <1>1, <3>1, QueueAssumption DEF ShapeInv
    <3>. QED  BY <1>2, <2>1, <3>1, <3>2 DEF Linked
  <2>. QED  BY <2>2, <2>3
<1>5. UnlinkedInv'
  <2>1. node[n] = Fresh
    BY <1>1 DEF UnlinkedInv
  <2>2. \A u \in Pushers \ {t} : pc'[u] = pc[u] /\ my'[u] = my[u]
    BY <1>1 DEF Moves, Threads
  <2>. QED  BY <1>1, <1>2, <1>3, <2>1, <2>2 DEF UnlinkedInv, Moves
<1>6. Quiet(t)
  BY <1>1, <1>4 DEF Quiet, Moves, Taking
<1>7. Pushing(t, pos)'
  BY <1>1 DEF Pushing, Moves, GuardsOld, PushLabels, HeadLabels, NextLabels
<1>8. QueueInv(pos)'
  <2>1. pc[t] \notin Reporting /\ pc'[t] \notin Reporting
    BY <1>1 DEF Moves, Reporting
  <2>2. \A m \in Linked :
          /\ node'[m] = node[m]
          /\ node[m].external_counters # 0 \/ node[m].internal_count # 0
    BY <1>1 DEF QueueInv, SourcesInv
  <2>. QED  BY <1>0, <1>6, <1>7, <2>1, <2>2, QuietStep
<1>. QED  BY <1>5, <1>8

\* The counters of a linked node stay, or stay different from zero.
LEMMA CountsStay ==
    ASSUME NEW pos, QueueInv(pos),
           \A n \in Linked : /\ node'[n].external_counters = node[n].external_counters
                             /\ node'[n].internal_count = node[n].internal_count
    PROVE  \A n \in Linked :
             /\ node'[n].external_counters = node[n].external_counters
             /\ node'[n].external_counters # 0 \/ node'[n].internal_count # 0
  BY DEF QueueInv, SourcesInv

LEMMA GuardTailStep ==
    ASSUME ShapeInv, UnlinkedInv, NEW pos \in [Nodes -> Int], QueueInv(pos),
           NEW t \in Pushers, GuardTail(t)
    PROVE  UnlinkedInv' /\ QueueInv(pos)'
<1>0. t \in Threads
  BY DEF Threads
<1>1. /\ Moves(t, "guard_tail", "cas_data") /\ UNCHANGED <<head, node, live>>
      /\ my'[t].old = tail' /\ my'[t].new = my[t].new /\ my'[t].val = my[t].val
      /\ tail'.ptr = tail.ptr
  BY <1>0, GuardTailDoes DEF GuardTail, nodes
<1>2. UnlinkedInv' /\ Linked' = Linked
  <2>1. NewInv(t)'
    BY <1>1 DEF UnlinkedInv, NewInv, Moves
  <2>2. \A u \in Pushers : my'[u].new = my[u].new /\ NewInv(u)'
    BY <1>0, <1>1, <2>1, OthersNewInv DEF Moves
  <2>3. live' = live \ {} /\ {} \in SUBSET Linked
    BY <1>1
  <2>4. UnlinkedInv' /\ Linked' = Linked \ {}
    BY <1>1, <2>2, <2>3, UnlinkedKept
  <2>. QED  BY <2>4
<1>3. Quiet(t)
  BY <1>1, <1>2 DEF Quiet, Moves, Taking
<1>4. Pushing(t, pos)'
  <2>1. Old(t)' = tail.ptr /\ tail.ptr \in Linked /\ pos[tail.ptr] <= pos[tail.ptr]
    BY <1>1, LinkedNodes DEF Old, QueueInv, ChainInv, Chained
  <2>. QED  BY <1>1, <1>2, <2>1 DEF Pushing, Moves, GuardsOld
<1>5. pc[t] \notin Reporting /\ pc'[t] \notin Reporting
  BY <1>1 DEF Moves, Reporting
<1>. QED  BY <1>0, <1>1, <1>2, <1>3, <1>4, <1>5, QuietStep, CountsStay

LEMMA CasDataStep ==
    ASSUME ShapeInv, UnlinkedInv, NEW pos \in [Nodes -> Int], QueueInv(pos),
           NEW t \in Pushers, CasData(t)
    PROVE  UnlinkedInv' /\ QueueInv(pos)'
<1>0. t \in Threads /\ pc[t] = "cas_data" /\ UNCHANGED <<head, tail, live>>
  BY DEF Threads, CasData, Goto
<1>1. Pushing(t, pos) /\ Old(t) \in Linked /\ pos[Old(t)] <= pos[tail.ptr] /\ Old(t) \in Nodes
  BY <1>0, LinkedNodes DEF QueueInv, ThreadInv, Pushing, GuardsOld, PushLabels
<1>2. /\ my' = my
      /\ Moves(t, "cas_data", "link_own") \/ Moves(t, "cas_data", "link_help")
      /\ node'[Old(t)].data # NULL
      /\ \A n \in Nodes : /\ node'[n].internal_count = node[n].internal_count
                          /\ node'[n].external_counters = node[n].external_counters
                          /\ node'[n].next = node[n].next
                          /\ n # Old(t) => node'[n] = node[n]
  <2>1. my[t].val # NULL
    BY <1>0 DEF UnlinkedInv
  <2>. QED  BY <1>1, <2>1, CasDataDoes
<1>3. UnlinkedInv' /\ Linked' = Linked
  <2>1. NewInv(t)'
    BY <1>0, <1>2 DEF UnlinkedInv, NewInv, Moves
  <2>2. \A u \in Pushers : my'[u].new = my[u].new /\ NewInv(u)'
    BY <1>0, <1>2, <2>1, OthersNewInv DEF Moves
  <2>3. live' = live \ {} /\ {} \in SUBSET Linked
    BY <1>0
  <2>4. UnlinkedInv' /\ Linked' = Linked \ {}
    BY <1>1, <1>2, <2>2, <2>3, UnlinkedKept
  <2>. QED  BY <2>4
<1>4. Quiet(t)
  BY <1>0, <1>2, <1>3, LinkedNodes DEF Quiet, Moves, Taking
<1>5. Pushing(t, pos)'
  BY <1>0, <1>1, <1>2, <1>3 DEF Pushing, Moves, Old
<1>6. pc[t] \notin Reporting /\ pc'[t] \notin Reporting
  BY <1>2 DEF Moves, Reporting
<1>7. QueueInv(pos)'
  <2>1. \A n \in Linked : /\ node'[n].external_counters = node[n].external_counters
                          /\ node'[n].internal_count = node[n].internal_count
    BY <1>2, LinkedNodes
  <2>. QED  BY <1>0, <1>4, <1>5, <1>6, <2>1, QuietStep, CountsStay
<1>. QED  BY <1>3, <1>7

LEMMA FindsLinkedStep ==
    ASSUME ShapeInv, UnlinkedInv, NEW pos \in [Nodes -> Int], QueueInv(pos),
           NEW t \in Pushers, LinkNext(t), FindsLinked(t), Old(t) \in Linked
    PROVE  UnlinkedInv' /\ QueueInv(pos)'
<1>0. t \in Threads /\ UNCHANGED <<head, tail, node>> /\ Old(t) \in Nodes
      /\ node[Old(t)].next # Counted(0, NULL)
  BY LinkedNodes DEF Threads, LinkNext, FindsLinked
<1>1. /\ pc[t] \in {"link_own", "link_help"} /\ Moves(t, pc[t], "set_tail")
      /\ my'[t].old = my[t].old /\ my'[t].val = my[t].val /\ my'[t].nxt = node[Old(t)].next
      /\ \/ my'[t].new = NULL /\ live' = live \ {my[t].new}
         \/ my'[t].new = my[t].new /\ live' = live
  BY <1>0, LinkNextDoes DEF FindsLinked, LinksNew
<1>2. \A u \in Pushers \ {t} : pc'[u] = pc[u] /\ my'[u] = my[u]
  BY <1>1 DEF Moves, Threads
<1>3. Linked' = Linked
  <2>1. ASSUME NEW m \in Linked' PROVE m \in Linked
    <3>1. /\ m \in live /\ m # my'[t].new /\ \A u \in Pushers \ {t} : my[u].new # m
          /\ m # my[t].new
      BY <1>1, <1>2 DEF Linked
    <3>. QED  BY <3>1 DEF Linked
  <2>2. ASSUME NEW m \in Linked PROVE m \in Linked'
    <3>1. m \in live /\ m # NULL /\ \A u \in Pushers : my[u].new # m
      BY LinkedNodes DEF Linked
    <3>2. m \in live' /\ m # my'[t].new
      BY <1>1, <3>1
    <3>. QED  BY <1>2, <3>1, <3>2 DEF Linked
  <2>. QED  BY <2>1, <2>2
<1>4. UnlinkedInv'
  BY <1>0, <1>1, <1>2 DEF UnlinkedInv, Moves
<1>5. Quiet(t)
  BY <1>0, <1>1, <1>3 DEF Quiet, Moves, Taking
<1>6. Pushing(t, pos)'
  <2>1. Old(t)' = Old(t) /\ GuardsOld(t) /\ Pushing(t, pos)
    BY <1>1 DEF Old, GuardsOld, PushLabels, QueueInv, ThreadInv
  <2>2. pos[head.ptr] <= pos[Old(t)] =>
          node[Old(t)].next.ptr \in Linked /\ pos[node[Old(t)].next.ptr] = pos[Old(t)] + 1
    BY <1>0 DEF QueueInv, ChainInv, Chained, Ended
  <2>. QED  BY <1>0, <1>1, <1>3, <2>1, <2>2 DEF Pushing, Moves
<1>7. pc[t] \notin Reporting /\ pc'[t] \notin Reporting
  BY <1>1 DEF Moves, Reporting
<1>. QED  BY <1>0, <1>4, <1>5, <1>6, <1>7, QuietStep, CountsStay

LEMMA LinksUnlinked ==
    ASSUME ShapeInv, UnlinkedInv, NEW t \in Pushers, LinkNext(t), LinksNew(t), Old(t) \in Linked
    PROVE  /\ UnlinkedInv' /\ Linked' = Linked \cup {my[t].new}
           /\ my[t].new \in Nodes /\ my[t].new \notin Linked /\ node'[my[t].new] = Fresh
<1>0. t \in Threads /\ Old(t) \in Nodes /\ node[Old(t)].next = Counted(0, NULL)
  BY LinkedNodes DEF Threads, LinksNew
<1>1. /\ pc[t] \in {"link_own", "link_help"} /\ Moves(t, pc[t], "set_tail")
      /\ my'[t].val = my[t].val
      /\ \/ my'[t].new = NULL /\ live' = live
         \/ my'[t].new \in Nodes \ live /\ live' = live \cup {my'[t].new}
  BY <1>0, LinkNextDoes DEF FindsLinked
<1>2. \A u \in Pushers \ {t} : pc'[u] = pc[u] /\ my'[u] = my[u]
  BY <1>1 DEF Moves, Threads
<1>3. my[t].new # NULL /\ my[t].new \in live /\ node[my[t].new] = Fresh
  BY <1>1 DEF UnlinkedInv
<1>4. my[t].new \in Nodes /\ my[t].new \notin Linked /\ my[t].new # Old(t)
  BY <1>3 DEF ShapeInv, Linked
<1>5. \A n \in Nodes : n # Old(t) => node'[n] = node[n]
  BY DEF LinksNew
<1>6. Linked' = Linked \cup {my[t].new}
  <2>1. ASSUME NEW m \in Linked' PROVE m \in Linked \cup {my[t].new}
    <3>1. m \in live /\ \A u \in Pushers \ {t} : my[u].new # m
      BY <1>1, <1>2 DEF Linked
    <3>. QED  BY <3>1 DEF Linked
  <2>2. ASSUME NEW m \in Linked PROVE m \in Linked'
    <3>1. m \in live /\ m # NULL /\ \A u \in Pushers : my[u].new # m
      BY LinkedNodes DEF Linked
    <3>2. m \in live' /\ m # my'[t].new
      BY <1>1, <3>1
    <3>. QED  BY <1>2, <3>1, <3>2 DEF Linked
  <2>3. my[t].new \in Linked'
    <3>1. \A u \in Pushers \ {t} : my[u].new # my[t].new
      BY <1>3 DEF UnlinkedInv
    <3>. QED  BY <1>1, <1>2, <1>3, <3>1 DEF Linked
  <2>. QED  BY <2>1, <2>2, <2>3
<1>7. UnlinkedInv'
  <2>1. ASSUME NEW u \in Pushers, my'[u].new # NULL
        PROVE  my'[u].new \in live' /\ node'[my'[u].new] = Fresh
    <3>1. CASE u = t
      <4>1. my'[t].new \in Nodes \ live /\ live' = live \cup {my'[t].new}
        BY <1>1, <2>1, <3>1
      <4>2. my'[t].new # Old(t) /\ node[my'[t].new] = Fresh
        BY <4>1, LinkedNodes DEF UnlinkedInv
      <4>. QED  BY <1>5, <3>1, <4>1, <4>2
    <3>2. CASE u # t
      <4>1. my[u].new \in live /\ node[my[u].new] = Fresh /\ my[u].new # Old(t)
        BY <1>2, <2>1, <3>2 DEF UnlinkedInv, Linked
      <4>. QED  BY <1>1, <1>2, <1>5, <3>2, <4>1 DEF ShapeInv
    <3>. QED  BY <3>1, <3>2
  <2>2. \A u \in Pushers : NewInv(u)'
    BY <1>1, <1>2 DEF UnlinkedInv, NewInv, Moves
  <2>3. ASSUME NEW u \in Pushers, NEW v \in Pushers, u # v, my'[u].new # NULL
        PROVE  my'[u].new # my'[v].new
    <3>1. \A w \in Pushers \ {t} : my'[w].new # NULL => my'[w].new \in live
      BY <1>2 DEF UnlinkedInv
    <3>2. my'[t].new # NULL => my'[t].new \notin live
      BY <1>1
    <3>3. u # t /\ v # t => my'[u].new # my'[v].new
      BY <1>2, <2>3 DEF UnlinkedInv
    <3>. QED  BY <2>3, <3>1, <3>2, <3>3
  <2>4. \A n \in Nodes \ live' : node'[n] = Fresh
    <3>1. Old(t) \in live /\ live \subseteq live'
      BY <1>1, LinkedNodes
    <3>. QED  BY <1>5, <3>1 DEF UnlinkedInv
  <2>. QED  BY <2>1, <2>2, <2>3, <2>4 DEF UnlinkedInv, NewInv
<1>. QED  BY <1>3, <1>4, <1>5, <1>6, <1>7

\* The new node gets the position after tail, where t has found the end.
LEMMA LinksStep ==
    ASSUME ShapeInv, UnlinkedInv, NEW pos \in [Nodes -> Int], QueueInv(pos),
           NEW t \in Pushers, LinkNext(t), LinksNew(t), Old(t) \in Linked
    PROVE  UnlinkedInv' /\ \E after \in [Nodes -> Int] : QueueInv(after)'
<1>n. PICK new \in Nodes : new = my[t].new
  BY LinksUnlinked
<1>a. PICK after \in [Nodes -> Int] : after = [pos EXCEPT ![new] = pos[tail.ptr] + 1]
  <2>1. tail.ptr \in Nodes
    BY LinkedNodes DEF QueueInv, ChainInv, Chained
  <2>2. [pos EXCEPT ![new] = pos[tail.ptr] + 1] \in [Nodes -> Int]
    BY <2>1
  <2>. QED  BY <2>2
<1>0. /\ t \in Threads /\ Old(t) \in Nodes /\ UNCHANGED <<head, tail>>
      /\ \A u \in Threads \ {t} : pc'[u] = pc[u] /\ my'[u] = my[u]
      /\ pc[t] \in {"link_own", "link_help"} /\ pc'[t] = "set_tail"
      /\ Old(t)' = Old(t) /\ my'[t].nxt.ptr = new
  <2>1. t \in Threads /\ Old(t) \in Nodes /\ UNCHANGED <<head, tail>>
    BY LinkedNodes DEF Threads, LinkNext
  <2>2. /\ pc[t] \in {"link_own", "link_help"} /\ Moves(t, pc[t], "set_tail")
        /\ my'[t].old = my[t].old /\ my'[t].nxt = Counted(1, my[t].new)
    BY <2>1, LinkNextDoes DEF LinksNew
  <2>. QED  BY <1>n, <2>1, <2>2 DEF Moves, Old, Counted
<1>1. /\ UnlinkedInv' /\ Linked' = Linked \cup {new}
      /\ new \in Nodes /\ new \notin Linked /\ new # Old(t)
      /\ node'[new].next = Counted(0, NULL) /\ node'[new].next.ptr = NULL
      /\ node'[new].external_counters = 3
  BY <1>n, LinksUnlinked DEF Fresh, Counted
<1>2. /\ node[Old(t)].next = Counted(0, NULL) /\ node[Old(t)].next.ptr = NULL
      /\ node'[Old(t)].next.ptr = new /\ new # NULL
      /\ \A n \in Nodes : /\ n # Old(t) => node'[n].next = node[n].next
                          /\ node'[n].external_counters = node[n].external_counters
                          /\ node'[n].internal_count = node[n].internal_count
                          /\ node'[n].data = node[n].data
  BY <1>n, <1>1, QueueAssumption DEF LinksNew, Counted
<1>3. /\ ChainInv(pos) /\ ThreadInv(pos) /\ SourcesInv(pos) /\ Pushing(t, pos)
      /\ head.ptr \in Linked /\ tail.ptr \in Linked /\ pos[head.ptr] <= pos[tail.ptr]
      /\ Linked \subseteq Nodes /\ NULL \notin Linked
  BY LinkedNodes DEF QueueInv, ThreadInv, ChainInv, Chained
<1>4. pos[head.ptr] <= pos[Old(t)] /\ Old(t) = tail.ptr /\ node[Old(t)].data # NULL
      /\ \A m \in Linked : pos[m] <= pos[tail.ptr]
  <2>1. ~(pos[Old(t)] < pos[head.ptr])
    BY <1>2, <1>3 DEF ChainInv, Filled, Counted
  <2>2. pos[head.ptr] <= pos[Old(t)]
    BY <2>1, <1>3, <1>0
  <2>3. \A m \in Linked : pos[m] <= pos[Old(t)]
    BY <1>2, <1>3, <2>2 DEF ChainInv, Ended
  <2>4. pos[Old(t)] <= pos[tail.ptr]
    BY <1>0, <1>3 DEF Pushing, GuardsOld, PushLabels
  <2>5. pos[Old(t)] = pos[tail.ptr]
    BY <1>3, <2>3, <2>4
  <2>6. Old(t) = tail.ptr
    BY <1>3, <2>5 DEF ChainInv, Chained
  <2>. QED  BY <1>0, <1>3, <2>2, <2>3, <2>6 DEF Pushing
<1>5. /\ after \in [Nodes -> Int] /\ after[new] = pos[tail.ptr] + 1
      /\ \A m \in Linked : after[m] = pos[m] /\ pos[m] \in Int
      /\ head'.ptr = head.ptr /\ tail'.ptr = tail.ptr
      /\ after[head.ptr] = pos[head.ptr] /\ after[tail.ptr] = pos[tail.ptr]
  BY <1>a, <1>0, <1>1, <1>3, <1>4
<1>6. ChainInv(after)'
  <2>1. Chained(after)'
    <3>1. \A m, n \in Linked' : after[m] = after[n] => m = n
      BY <1>1, <1>3, <1>4, <1>5 DEF ChainInv, Chained
    <3>2. ASSUME NEW n \in Linked', node'[n].next.ptr # NULL
          PROVE  node'[n].next.ptr \in Linked' /\ after[node'[n].next.ptr] = after[n] + 1
      <4>1. CASE n = Old(t)
        BY <1>1, <1>2, <1>4, <1>5, <4>1
      <4>2. CASE n # Old(t)
        <5>1. n \in Linked /\ node'[n].next.ptr = node[n].next.ptr
          BY <1>1, <1>2, <1>3, <3>2, <4>2
        <5>. QED  BY <1>1, <1>3, <1>5, <3>2, <5>1 DEF ChainInv, Chained
      <4>. QED  BY <4>1, <4>2
    <3>. QED  BY <1>1, <1>3, <1>5, <3>1, <3>2 DEF Chained
  <2>2. Ended(after)'
    <3>1. ASSUME NEW n \in Linked', node'[n].next.ptr = NULL, after[head.ptr] <= after[n]
          PROVE  node'[n].next = Counted(0, NULL) /\ \A m \in Linked' : after[m] <= after[n]
      <4>1. CASE n = new
        BY <1>1, <1>4, <1>5, <4>1
      <4>2. CASE n # new
        <5>1. n \in Linked /\ n # Old(t) /\ node[n].next.ptr = NULL /\ pos[head.ptr] <= pos[n]
          BY <1>1, <1>2, <1>3, <1>5, <3>1, <4>2
        <5>2. pos[tail.ptr] <= pos[n] /\ pos[n] <= pos[tail.ptr]
          BY <1>3, <1>4, <5>1 DEF ChainInv, Ended
        <5>3. n = tail.ptr
          BY <1>3, <1>5, <5>1, <5>2 DEF ChainInv, Chained
        <5>. QED  BY <1>4, <5>1, <5>3
      <4>. QED  BY <4>1, <4>2
    <3>2. \A n \in Linked' : after[n] <= after[tail.ptr] + 1
      BY <1>1, <1>3, <1>4, <1>5
    <3>3. pc'[t] = "set_tail" /\ Old(t)' = tail.ptr
      BY <1>0, <1>4
    <3>. QED  BY <1>5, <3>1, <3>2, <3>3 DEF Ended
  <2>3. Filled(after)'
    <3>1. ASSUME NEW n \in Linked', node'[n].next.ptr = NULL, after[n] < after[head.ptr]
          PROVE  node'[n].next = Counted(1, NULL)
      <4>1. n \in Linked /\ n # Old(t) /\ node'[n].next = node[n].next /\ pos[n] < pos[head.ptr]
        BY <1>1, <1>2, <1>3, <1>5, <3>1
      <4>. QED  BY <1>3, <3>1, <4>1 DEF ChainInv, Filled
    <3>2. ASSUME NEW n \in Linked', node'[n].next.ptr # NULL, after[n] < after[head.ptr]
          PROVE  \E u \in Threads : Taking(u)' /\ Old(u)' = n
      <4>1. n \in Linked /\ n # Old(t) /\ node'[n].next = node[n].next /\ pos[n] < pos[head.ptr]
        BY <1>1, <1>2, <1>3, <1>4, <1>5, <3>2
      <4>2. PICK u \in Threads : Taking(u) /\ Old(u) = n
        BY <1>3, <3>2, <4>1 DEF ChainInv, Filled
      <4>. QED  BY <1>0, <4>2 DEF Taking, Old
    <3>3. ASSUME NEW n \in Linked', node'[n].next.ptr # NULL, after[head.ptr] <= after[n]
          PROVE  node'[n].data # NULL
      <4>1. CASE n = Old(t)
        BY <1>0, <1>2, <1>4, <4>1
      <4>2. CASE n # Old(t)
        <5>1. n \in Linked /\ node'[n].next = node[n].next /\ pos[head.ptr] <= pos[n]
              /\ node'[n].data = node[n].data
          BY <1>1, <1>2, <1>3, <1>5, <3>3, <4>2
        <5>. QED  BY <1>3, <3>3, <5>1 DEF ChainInv, Filled
      <4>. QED  BY <4>1, <4>2
    <3>. QED  BY <1>5, <3>1, <3>2, <3>3 DEF Filled
  <2>. QED  BY <2>1, <2>2, <2>3 DEF ChainInv
<1>7. ThreadInv(after)'
  <2>1. ASSUME NEW u \in Pushers \ {t} PROVE Pushing(u, after)'
    <3>1. Pushing(u, pos) /\ pc'[u] = pc[u] /\ my'[u] = my[u] /\ Old(u)' = Old(u)
      BY <1>0, <1>3, <2>1 DEF ThreadInv, Threads, Old
    <3>2. GuardsOld(u) => Old(u) \in Linked /\ Old(u) \in Nodes
      BY <1>3, <3>1 DEF Pushing
    <3>. QED  BY <1>1, <1>2, <1>5, <3>1, <3>2 DEF Pushing, GuardsOld, PushLabels
  <2>2. ASSUME NEW u \in Threads \ Pushers PROVE Popping(u, after)'
    <3>1. Popping(u, pos) /\ pc'[u] = pc[u] /\ my'[u] = my[u] /\ Old(u)' = Old(u)
      BY <1>0, <1>3, <2>2 DEF ThreadInv, Threads, Old
    <3>2. GuardsOld(u) => Old(u) \in Linked /\ Old(u) \in Nodes
      BY <1>3, <3>1 DEF Popping
    <3>3. Taken(u) => GuardsOld(u) /\ Old(u) # Old(t) /\ node'[Old(u)].next = node[Old(u)].next
      <4>1. Taken(u) => GuardsOld(u)
        BY DEF Taken, GuardsOld, NextLabels
      <4>2. Taken(u) => pos[Old(u)] < pos[head.ptr]
        BY <3>1 DEF Popping
      <4>3. Taken(u) => Old(u) # Old(t)
        BY <1>0, <1>3, <1>4, <1>5, <4>2
      <4>. QED  BY <1>2, <3>2, <4>1, <4>3
    <3>4. /\ GuardsOld(u)' <=> GuardsOld(u)
          /\ GuardsNext(u)' <=> GuardsNext(u)
          /\ Taken(u)' <=> Taken(u)
          /\ Taking(u)' <=> Taking(u)
          /\ Taking(u) => Taken(u)
          /\ pc[u] \in {"free_head", "free_next"} => Taken(u)
          /\ GuardsNext(u) => GuardsOld(u)
          /\ pc[u] = "take_data" => GuardsOld(u)
          /\ pc[u] = "guard_next" => GuardsOld(u)
      BY <3>1 DEF GuardsOld, GuardsNext, Taken, Taking, NextLabels, HeadLabels
    <3>. QED  BY <1>1, <1>2, <1>5, <3>1, <3>2, <3>3, <3>4 DEF Popping
  <2>3. Pushing(t, after)'
    BY <1>0, <1>1, <1>3, <1>4, <1>5 DEF Pushing
  <2>4. Apart'
    BY <1>0, <1>3, StaysApart DEF ThreadInv, Taken
  <2>. QED  BY <2>1, <2>2, <2>3, <2>4 DEF ThreadInv
<1>8. SourcesInv(after)'
  <2>1. ASSUME NEW n \in Linked
        PROVE  /\ HeadSource(n, after)' <=> HeadSource(n, pos)
               /\ TailSource(n, after)' <=> TailSource(n, pos)
               /\ NextSource(n)' <=> NextSource(n)
    <3>1. \A u \in Threads : u # t => pc'[u] = pc[u] /\ Old(u)' = Old(u) /\ my'[u] = my[u]
      BY <1>0 DEF Old
    <3>2. HeadSource(n, after)' <=> HeadSource(n, pos)
      BY <1>0, <1>5, <3>1 DEF HeadSource
    <3>3. TailSource(n, after)' <=> TailSource(n, pos)
      BY <1>0, <1>5, <3>1 DEF TailSource
    <3>4. (\E m \in Linked' : node'[m].next.ptr = n) <=> \E m \in Linked : node[m].next.ptr = n
      <4>1. n # NULL /\ n # new
        BY <1>1, <1>3
      <4>. QED  BY <1>1, <1>2, <1>3, <4>1
    <3>5. NextSource(n)' <=> NextSource(n)
      BY <1>0, <3>1, <3>4 DEF NextSource
    <3>. QED  BY <3>2, <3>3, <3>5
  <2>2. HeadSource(new, after)' /\ TailSource(new, after)' /\ NextSource(new)'
    BY <1>0, <1>1, <1>2, <1>3, <1>5 DEF HeadSource, TailSource, NextSource
  <2>3. ASSUME NEW n \in Linked'
        PROVE  /\ node'[n].external_counters =
                    One(HeadSource(n, after)') + One(TailSource(n, after)') + One(NextSource(n)')
               /\ node'[n].external_counters # 0 \/ node'[n].internal_count # 0
    <3>1. CASE n \in Linked
      <4>1. /\ node'[n].external_counters = node[n].external_counters
            /\ node'[n].internal_count = node[n].internal_count
        BY <1>2, <1>3, <3>1
      <4>. QED  BY <1>3, <2>1, <3>1, <4>1 DEF SourcesInv, One
    <3>2. CASE n = new
      BY <1>1, <2>2, <3>2 DEF One
    <3>. QED  BY <1>1, <3>1, <3>2
  <2>. QED  BY <2>3 DEF SourcesInv, One
<1>. QED  BY <1>1, <1>5, <1>6, <1>7, <1>8 DEF QueueInv

----------------------------------------------------------------------------
(* Moving tail *)

LEMMA UnlinkedSame ==
    ASSUME ShapeInv, UnlinkedInv, NEW t \in Threads, live' = live,
           \A m \in Nodes \ Linked : node'[m] = node[m],
           \A u \in Threads \ {t} : pc'[u] = pc[u] /\ my'[u] = my[u],
           t \in Pushers => NewInv(t)' /\ my'[t].new = my[t].new
    PROVE  UnlinkedInv' /\ Linked' = Linked
<1>1. \A u \in Pushers : my'[u].new = my[u].new /\ NewInv(u)'
  BY OthersNewInv
<1>2. live' = live \ {} /\ {} \in SUBSET Linked /\ \A m \in {} : node'[m] = Fresh
  OBVIOUS
<1>3. UnlinkedInv' /\ Linked' = Linked \ {}
  BY <1>1, <1>2, UnlinkedKept
<1>. QED  BY <1>3

LEMMA SetNewTailStep ==
    ASSUME ShapeInv, UnlinkedInv, NEW pos \in [Nodes -> Int], QueueInv(pos),
           NEW t \in Pushers, SetNewTail(t)
    PROVE  UnlinkedInv' /\ QueueInv(pos)'
<1>0. t \in Threads /\ pc[t] = "set_tail" /\ UNCHANGED <<head, node, live>>
  BY DEF Threads, SetNewTail, Goto, nodes
<1>1. /\ my'[t].nxt = my[t].nxt /\ my'[t].new = my[t].new /\ my'[t].val = my[t].val
      /\ \A u \in Threads \ {t} : pc'[u] = pc[u] /\ my'[u] = my[u]
      /\ pc'[t] \in {"free_tail", "drop_tail"} /\ Old(t)' = Old(t)
      /\ \/ pc'[t] = "free_tail" /\ tail.ptr = Old(t) /\ tail'.ptr = my[t].nxt.ptr
         \/ pc'[t] = "drop_tail" /\ tail.ptr # Old(t) /\ tail' = tail
  BY SetNewTailDoes DEF Moves, Counted, Old
<1>2. UnlinkedInv' /\ Linked' = Linked
  <2>1. NewInv(t)'
    BY <1>0, <1>1 DEF UnlinkedInv, NewInv
  <2>. QED  BY <1>0, <1>1, <2>1, UnlinkedSame
<1>3. /\ ChainInv(pos) /\ ThreadInv(pos) /\ SourcesInv(pos) /\ Pushing(t, pos)
      /\ Linked \subseteq Nodes /\ head.ptr \in Linked /\ tail.ptr \in Linked
      /\ pos[head.ptr] <= pos[tail.ptr]
      /\ \A n \in Linked : pos[n] \in Int
      /\ Old(t) \in Linked /\ pos[Old(t)] <= pos[tail.ptr]
  BY <1>0, LinkedNodes DEF QueueInv, ChainInv, Chained, ThreadInv, Pushing, GuardsOld, PushLabels
<1>4. CASE tail.ptr # Old(t)
  <2>1. Quiet(t)
    BY <1>0, <1>1, <1>2, <1>4 DEF Quiet, Taking
  <2>2. Pushing(t, pos)'
    BY <1>1, <1>2, <1>3, <1>4 DEF Pushing
  <2>3. pc[t] \notin Reporting /\ pc'[t] \notin Reporting
    BY <1>0, <1>1, <1>4 DEF Reporting
  <2>. QED  BY <1>0, <1>2, <2>1, <2>2, <2>3, QuietStep, CountsStay
<1>5. CASE tail.ptr = Old(t)
  <2>1. /\ pc'[t] = "free_tail" /\ tail'.ptr = my[t].nxt.ptr
        /\ tail'.ptr \in Linked /\ pos[tail'.ptr] = pos[tail.ptr] + 1
    BY <1>0, <1>1, <1>3, <1>5 DEF Pushing
  <2>2. ChainInv(pos)'
    <3>1. Chained(pos)'
      BY <1>0, <1>2, <1>3, <2>1 DEF ChainInv, Chained
    <3>2. Ended(pos)'
      <4>1. \A n \in Linked : pos[n] <= pos[tail'.ptr]
        BY <1>3, <2>1 DEF ChainInv, Ended
      <4>2. \A n \in Linked : /\ pos[n] <= pos[tail'.ptr] + 1 /\ ~(pos[n] > pos[tail'.ptr])
        BY <1>3, <2>1, <4>1
      <4>. QED  BY <1>0, <1>2, <1>3, <4>2 DEF ChainInv, Ended
    <3>3. Filled(pos)'
      <4>1. \A u \in Threads : Taking(u) => Taking(u)' /\ Old(u)' = Old(u)
        BY <1>0, <1>1 DEF Taking, Old
      <4>. QED  BY <1>0, <1>2, <1>3, <4>1 DEF ChainInv, Filled
    <3>. QED  BY <3>1, <3>2, <3>3 DEF ChainInv
  <2>3. ThreadInv(pos)'
    <3>1. ASSUME NEW u \in Pushers \ {t} PROVE Pushing(u, pos)'
      <4>1. Pushing(u, pos) /\ pc'[u] = pc[u] /\ my'[u] = my[u] /\ Old(u)' = Old(u)
        BY <1>1, <1>3, <3>1 DEF ThreadInv, Threads, Old
      <4>2. /\ GuardsOld(u)' <=> GuardsOld(u)
            /\ pc[u] = "free_tail" => GuardsOld(u)
        BY <4>1 DEF GuardsOld, PushLabels
      <4>. QED  BY <1>0, <1>2, <1>3, <2>1, <4>1, <4>2 DEF Pushing
    <3>2. ASSUME NEW u \in Threads \ Pushers PROVE Popping(u, pos)'
      <4>1. Popping(u, pos) /\ pc'[u] = pc[u] /\ my'[u] = my[u] /\ Old(u)' = Old(u)
        BY <1>1, <1>3, <3>2 DEF ThreadInv, Old
      <4>2. /\ GuardsOld(u)' <=> GuardsOld(u)
            /\ GuardsNext(u)' <=> GuardsNext(u)
            /\ Taken(u)' <=> Taken(u)
            /\ Taking(u)' <=> Taking(u)
            /\ GuardsNext(u) => GuardsOld(u)
            /\ pc[u] = "guard_next" => GuardsOld(u)
        BY <4>1 DEF GuardsOld, GuardsNext, Taken, Taking, NextLabels, HeadLabels
      <4>. QED  BY <1>0, <1>2, <1>3, <2>1, <4>1, <4>2 DEF Popping
    <3>3. Pushing(t, pos)'
      BY <1>1, <1>2, <1>3, <1>5, <2>1 DEF Pushing
    <3>4. Apart'
      <4>1. \A u \in Pushers \ {t} : pc[u] = "free_tail" => Old(u) # Old(t)
        BY <1>3, <1>5 DEF ThreadInv, Pushing
      <4>2. Apart /\ \A u \in Threads \ {t} : pc'[u] = pc[u] /\ Old(u)' = Old(u)
        BY <1>1, <1>3 DEF ThreadInv, Old
      <4>. QED  BY <1>1, <4>1, <4>2 DEF Apart, Taken, Threads
    <3>. QED  BY <3>1, <3>2, <3>3, <3>4 DEF ThreadInv
  <2>4. SourcesInv(pos)'
    <3>1. ASSUME NEW n \in Linked
          PROVE  /\ HeadSource(n, pos)' <=> HeadSource(n, pos)
                 /\ TailSource(n, pos)' <=> TailSource(n, pos)
                 /\ NextSource(n)' <=> NextSource(n)
      <4>1. \A u \in Threads : u # t => pc'[u] = pc[u] /\ Old(u)' = Old(u) /\ my'[u] = my[u]
        BY <1>1 DEF Old
      <4>2. HeadSource(n, pos)' <=> HeadSource(n, pos)
        BY <1>0, <2>1, <4>1 DEF HeadSource
      <4>3. NextSource(n)' <=> NextSource(n)
        BY <1>0, <1>2, <2>1, <4>1 DEF NextSource
      <4>4. TailSource(n, pos)' <=> TailSource(n, pos)
        <5>1. pos[tail.ptr] <= pos[n] <=> n = tail.ptr \/ pos[tail'.ptr] <= pos[n]
          <6>1. pos[tail.ptr] = pos[n] => n = tail.ptr
            BY <1>3 DEF ChainInv, Chained
          <6>. QED  BY <1>3, <2>1, <6>1
        <5>2. (\E u \in Threads : pc'[u] = "free_tail" /\ Old(u)' = n)
                <=> n = tail.ptr \/ \E u \in Threads : pc[u] = "free_tail" /\ Old(u) = n
          BY <1>0, <1>1, <1>5, <2>1, <4>1
        <5>. QED  BY <5>1, <5>2 DEF TailSource
      <4>. QED  BY <4>2, <4>3, <4>4
    <3>. QED  BY <1>0, <1>2, <1>3, <3>1 DEF SourcesInv, One
  <2>. QED  BY <1>2, <2>2, <2>3, <2>4 DEF QueueInv
<1>. QED  BY <1>4, <1>5

----------------------------------------------------------------------------
(* Giving up a copy, and with the last one the node *)

\* A node without sources that t gives up as its last holder is known to nobody.
Unknown(t, n, pos) ==
    /\ NoOtherSource(t, n, pos) /\ node[n].next.ptr = NULL
    /\ \A u \in Threads : u # t => Held(u, n) = 0

LEMMA LastIsUnknown ==
    ASSUME ShapeInv, UnlinkedInv, AccountInv, NEW pos \in [Nodes -> Int], QueueInv(pos),
           NEW t \in Threads, pc[t] \in {"drop_tail", "drop_next", "drop_head"},
           NEW n \in Linked, Held(t, n) = 1, node[n].external_counters = 0,
           (node[n].internal_count - 1) % CountRange = 0
    PROVE  Unknown(t, n, pos)
<1>1. ChainInv(pos) /\ ThreadInv(pos) /\ SourcesInv(pos) /\ n \in Nodes
  BY LinkedNodes DEF QueueInv
<1>2. ~HeadSource(n, pos) /\ ~TailSource(n, pos) /\ ~NextSource(n)
  BY <1>1 DEF SourcesInv, One
<1>3. pos[n] < pos[head.ptr] /\ pos[n] < pos[tail.ptr]
  <2>1. pos[n] \in Int /\ pos[head.ptr] \in Int /\ pos[tail.ptr] \in Int
    BY <1>1, LinkedNodes DEF ChainInv, Chained
  <2>. QED  BY <1>2, <2>1 DEF HeadSource, TailSource
<1>4. NoOtherSource(t, n, pos)
  BY <1>2, <1>3 DEF NoOtherSource, HeadSource, TailSource, NextSource
<1>5. node[n].next.ptr = NULL
  <2>1. ~\E u \in Threads : Taking(u) /\ Old(u) = n
    BY <1>2 DEF HeadSource, Taking
  <2>. QED  BY <1>1, <1>3, <2>1 DEF ChainInv, Filled
<1>6. Owed(t, n) = 0
  BY DEF Owed
<1>7. \A u \in Threads : u # t => Held(u, n) = 0
  BY <1>1, <1>4, <1>6, OnlyOwesFollows, LastHolder
<1>. QED  BY <1>4, <1>5, <1>7 DEF Unknown

\* A thread that has no part in the chain, but for a guard on a node that stays.
Leaving(t, pos) ==
    /\ t \in Pushers => pc[t] \in {"idle", "guard_tail"}
    /\ t \notin Pushers =>
         \/ pc[t] \in {"idle", "guard_head", "destroy_head"}
         \/ pc[t] = "drop_head" /\ Old(t) \in Linked /\ pos[Old(t)] <= pos[head.ptr]

LEMMA LeavingIsRight ==
    ASSUME NEW t \in Threads, NEW pos, Leaving(t, pos)'
    PROVE  /\ t \in Pushers => Pushing(t, pos)'
           /\ t \notin Pushers => Popping(t, pos)'
  BY DEF Leaving, Pushing, Popping, GuardsOld, GuardsNext, PushLabels, HeadLabels, NextLabels,
         Taken, Taking

LEMMA FreedStep ==
    ASSUME ShapeInv, UnlinkedInv, NEW pos \in [Nodes -> Int], QueueInv(pos),
           NEW t \in Threads, pc[t] \in {"drop_tail", "drop_next", "drop_head"},
           NEW n \in Linked, Unknown(t, n, pos), UNCHANGED <<head, tail>>,
           live' = live \ {n}, node'[n] = Fresh, \A m \in Nodes \ {n} : node'[m] = node[m],
           \A u \in Threads \ {t} : pc'[u] = pc[u] /\ my'[u] = my[u],
           t \in Pushers => NewInv(t)' /\ my'[t].new = my[t].new,
           Linked' = Linked \ {n} => Leaving(t, pos)', pc'[t] \notin Reporting
    PROVE  UnlinkedInv' /\ QueueInv(pos)'
<1>1. UnlinkedInv' /\ Linked' = Linked \ {n}
  <2>1. \A u \in Pushers : my'[u].new = my[u].new /\ NewInv(u)'
    BY OthersNewInv
  <2>2. {n} \in SUBSET Linked /\ \A m \in {n} : node'[m] = Fresh
    OBVIOUS
  <2>. QED  BY <2>1, <2>2, UnlinkedKept
<1>2. /\ ChainInv(pos) /\ ThreadInv(pos) /\ SourcesInv(pos)
      /\ Linked \subseteq Nodes /\ NULL \notin Linked /\ n \in Nodes
      /\ head.ptr \in Linked /\ tail.ptr \in Linked
      /\ \A m \in Linked : pos[m] \in Int
  BY LinkedNodes DEF QueueInv, ChainInv, Chained
<1>3. /\ pos[n] < pos[head.ptr] /\ pos[n] < pos[tail.ptr] /\ node[n].next.ptr = NULL
      /\ \A m \in Linked : node[m].next.ptr # n
      /\ head.ptr # n /\ tail.ptr # n
  BY <1>2 DEF Unknown, NoOtherSource
<1>4. \A m \in Linked' : m \in Linked /\ node'[m] = node[m]
  BY <1>1, <1>2
<1>5. ASSUME NEW u \in Threads, u # t
      PROVE  /\ pc'[u] = pc[u] /\ my'[u] = my[u] /\ Old(u)' = Old(u)
             /\ GuardsOld(u) => Old(u) # n
             /\ GuardsNext(u) => my[u].nxt.ptr # n
  <2>1. Held(u, n) = 0
    BY <1>5 DEF Unknown
  <2>. QED  BY <1>5, <2>1 DEF Held, One, Old
<1>6. ChainInv(pos)'
  <2>1. Chained(pos)'
    BY <1>1, <1>2, <1>3, <1>4 DEF ChainInv, Chained
  <2>2. Ended(pos)'
    <3>1. \A m \in Linked : pos[m] > pos[tail.ptr] =>
            \E u \in Pushers : pc'[u] = "set_tail" /\ Old(u)' = tail.ptr
      <4>1. ASSUME NEW m \in Linked, pos[m] > pos[tail.ptr]
            PROVE  \E u \in Pushers : pc'[u] = "set_tail" /\ Old(u)' = tail.ptr
        <5>1. PICK u \in Pushers : pc[u] = "set_tail" /\ Old(u) = tail.ptr
          BY <1>2, <4>1 DEF ChainInv, Ended
        <5>. QED  BY <1>5, <5>1 DEF Threads
      <4>. QED  BY <4>1
    <3>. QED  BY <1>1, <1>2, <1>4, <3>1 DEF ChainInv, Ended
  <2>3. Filled(pos)'
    <3>1. \A u \in Threads : Taking(u) => Taking(u)' /\ Old(u)' = Old(u)
      BY <1>5 DEF Taking
    <3>. QED  BY <1>1, <1>2, <1>4, <3>1 DEF ChainInv, Filled
  <2>. QED  BY <2>1, <2>2, <2>3 DEF ChainInv
<1>7. ThreadInv(pos)'
  <2>1. ASSUME NEW u \in Pushers \ {t} PROVE Pushing(u, pos)'
    <3>1. /\ Pushing(u, pos) /\ pc'[u] = pc[u] /\ my'[u] = my[u] /\ Old(u)' = Old(u)
          /\ GuardsOld(u) => Old(u) # n
      BY <1>2, <1>5, <2>1 DEF ThreadInv, Threads
    <3>2. /\ GuardsOld(u)' <=> GuardsOld(u)
          /\ pc[u] \in {"free_tail", "link_own", "link_help", "set_tail"} => GuardsOld(u)
      BY <3>1 DEF GuardsOld, PushLabels
    <3>3. pc[u] = "set_tail" /\ pos[head.ptr] <= pos[Old(u)] => my[u].nxt.ptr # n
      BY <1>2, <1>3, <3>1, <3>2 DEF Pushing
    <3>. QED  BY <1>1, <1>4, <3>1, <3>2, <3>3 DEF Pushing
  <2>2. ASSUME NEW u \in (Threads \ Pushers) \ {t} PROVE Popping(u, pos)'
    <3>1. /\ Popping(u, pos) /\ pc'[u] = pc[u] /\ my'[u] = my[u] /\ Old(u)' = Old(u)
          /\ GuardsOld(u) => Old(u) # n
          /\ GuardsNext(u) => my[u].nxt.ptr # n
      BY <1>2, <1>5, <2>2 DEF ThreadInv
    <3>2. /\ GuardsOld(u)' <=> GuardsOld(u)
          /\ GuardsNext(u)' <=> GuardsNext(u)
          /\ Taken(u)' <=> Taken(u)
          /\ Taking(u)' <=> Taking(u)
          /\ Taken(u) => GuardsOld(u)
          /\ Taking(u) => GuardsOld(u)
          /\ GuardsNext(u) => GuardsOld(u)
          /\ pc[u] \in {"guard_next", "free_head", "free_next", "take_data"} => GuardsOld(u)
      BY <3>1 DEF GuardsOld, GuardsNext, Taken, Taking, NextLabels, HeadLabels
    <3>3. GuardsOld(u) => Old(u) \in Linked /\ node'[Old(u)] = node[Old(u)]
      BY <1>1, <1>4, <3>1 DEF Popping
    <3>. QED  BY <1>1, <1>4, <3>1, <3>2, <3>3 DEF Popping
  <2>3. Leaving(t, pos)'
    BY <1>1
  <2>4. (t \in Pushers => Pushing(t, pos)') /\ (t \notin Pushers => Popping(t, pos)')
    BY <2>3, LeavingIsRight
  <2>5. Apart'
    <3>1. pc'[t] # "free_tail" /\ ~Taken(t)'
      BY DEF Reporting, Taken
    <3>. QED  BY <1>2, <3>1, StaysApart DEF ThreadInv
  <2>. QED  BY <2>1, <2>2, <2>4, <2>5 DEF ThreadInv
<1>8. SourcesInv(pos)'
  <2>1. pc[t] \notin Reporting
    BY DEF Reporting
  <2>2. ASSUME NEW m \in Linked'
        PROVE  /\ HeadSource(m, pos)' <=> HeadSource(m, pos)
               /\ TailSource(m, pos)' <=> TailSource(m, pos)
               /\ NextSource(m)' <=> NextSource(m)
    <3>1. HeadSource(m, pos)' <=> HeadSource(m, pos)
      BY <1>5, <2>1 DEF HeadSource, Reporting
    <3>2. TailSource(m, pos)' <=> TailSource(m, pos)
      BY <1>5, <2>1 DEF TailSource, Reporting
    <3>3. (\E l \in Linked' : node'[l].next.ptr = m) <=> \E l \in Linked : node[l].next.ptr = m
      BY <1>1, <1>2, <1>3, <1>4
    <3>4. NextSource(m)' <=> NextSource(m)
      BY <1>5, <2>1, <3>3 DEF NextSource, Reporting
    <3>. QED  BY <3>1, <3>2, <3>4
  <2>. QED  BY <1>2, <1>4, <2>2 DEF SourcesInv, One
<1>. QED  BY <1>1, <1>6, <1>7, <1>8 DEF QueueInv

LEMMA KeptStep ==
    ASSUME ShapeInv, UnlinkedInv, NEW pos \in [Nodes -> Int], QueueInv(pos),
           NEW t \in Threads, pc[t] \in {"drop_tail", "drop_next", "drop_head"},
           NEW n \in Linked, NEW internal, Kept(n, internal, node[n].external_counters),
           UNCHANGED <<head, tail>>,
           \A u \in Threads \ {t} : pc'[u] = pc[u] /\ my'[u] = my[u],
           t \in Pushers => NewInv(t)' /\ my'[t].new = my[t].new,
           Linked' = Linked => Leaving(t, pos)', pc'[t] \notin Reporting
    PROVE  UnlinkedInv' /\ QueueInv(pos)'
<1>1. /\ live' = live /\ \A m \in Nodes \ {n} : node'[m] = node[m]
      /\ node'[n].next = node[n].next /\ node'[n].data = node[n].data
      /\ node'[n].external_counters = node[n].external_counters
      /\ node'[n].external_counters # 0 \/ node'[n].internal_count # 0
  BY DEF Kept, Counts
<1>2. UnlinkedInv' /\ Linked' = Linked
  BY <1>1, UnlinkedSame
<1>3. Quiet(t)
  BY <1>1, <1>2, LinkedNodes DEF Quiet, Taking
<1>4. (t \in Pushers => Pushing(t, pos)') /\ (t \notin Pushers => Popping(t, pos)')
  BY <1>2, LeavingIsRight
<1>5. \A m \in Linked :
         /\ node'[m].external_counters = node[m].external_counters
         /\ node'[m].external_counters # 0 \/ node'[m].internal_count # 0
  BY <1>1, LinkedNodes DEF QueueInv, SourcesInv
<1>6. pc[t] \notin Reporting
  BY DEF Reporting
<1>. QED  BY <1>2, <1>3, <1>4, <1>5, <1>6, QuietStep

LEMMA DroppedStep ==
    ASSUME ShapeInv, UnlinkedInv, AccountInv, NEW pos \in [Nodes -> Int], QueueInv(pos),
           NEW t \in Threads, pc[t] \in {"drop_tail", "drop_next", "drop_head"},
           NEW p \in AnyLink, p.ptr \in Linked, Held(t, p.ptr) = 1, DropGuard(p),
           UNCHANGED <<head, tail>>,
           \A u \in Threads \ {t} : pc'[u] = pc[u] /\ my'[u] = my[u],
           t \in Pushers => NewInv(t)' /\ my'[t].new = my[t].new,
           Linked \ {p.ptr} \subseteq Linked' => Leaving(t, pos)', pc'[t] \notin Reporting
    PROVE  /\ UnlinkedInv' /\ QueueInv(pos)'
           /\ live' # live => node[p.ptr].next.ptr = NULL
           /\ Stored(p.ptr, (node[p.ptr].internal_count - 1) % CountRange,
                     node[p.ptr].external_counters)
<1>. DEFINE n == p.ptr
            internal == (node[n].internal_count - 1) % CountRange
<1>1. Stored(n, internal, node[n].external_counters) /\ n \in Nodes
  BY LinkedNodes, DropGuardDoes
<1>2. CASE Kept(n, internal, node[n].external_counters)
  <2>1. live' = live
    BY <1>2 DEF Kept
  <2>2. UnlinkedInv' /\ QueueInv(pos)'
    <3>. HIDE DEF internal
    <3>. QED  BY <1>2, KeptStep
  <2>. QED  BY <1>1, <2>1, <2>2
<1>3. CASE Freed(n, internal, node[n].external_counters)
  <2>1. /\ live' = live \ {n} /\ node'[n] = Fresh /\ \A m \in Nodes \ {n} : node'[m] = node[m]
        /\ internal = 0 /\ node[n].external_counters = 0
    BY <1>3 DEF Freed
  <2>2. Unknown(t, n, pos)
    BY <2>1, LastIsUnknown
  <2>3. node[n].next.ptr = NULL
    BY <2>2 DEF Unknown
  <2>4. UnlinkedInv' /\ QueueInv(pos)'
    <3>1. Linked' = Linked \ {n} => Leaving(t, pos)'
      OBVIOUS
    <3>. HIDE DEF n, internal
    <3>2. n \in Linked
      BY DEF n
    <3>. QED  BY <2>1, <2>2, <3>1, <3>2, FreedStep
  <2>. QED  BY <1>1, <2>3, <2>4
<1>. QED  BY <1>1, <1>2, <1>3 DEF Stored

----------------------------------------------------------------------------
(* Reporting the copies a source has made *)

LEMMA ReportKeeps ==
    ASSUME ShapeInv, UnlinkedInv, AccountInv, NEW pos \in [Nodes -> Int], QueueInv(pos),
           NEW t \in Threads, NEW p \in AnyLink, p.ptr \in Linked, FreeExternalCounter(p),
           Held(t, p.ptr) = 1, Owed(t, p.ptr) = p.external_count - 1,
           node[p.ptr].external_counters # 0,
           node[p.ptr].external_counters = 1 => NoOtherSource(t, p.ptr, pos)
    PROVE  \E internal :
             /\ internal = (node[p.ptr].internal_count + p.external_count - 1) % CountRange
             /\ Kept(p.ptr, internal, node[p.ptr].external_counters - 1)
<1>. DEFINE n == p.ptr
            internal == (node[n].internal_count + p.external_count - 1) % CountRange
<1>1. n \in Nodes /\ node[n].external_counters \in 0 .. 3
  BY LinkedNodes, NodeParts
<1>2. Stored(n, internal, node[n].external_counters - 1)
  <2>1. Stored(n, internal, (node[n].external_counters - 1) % 4)
    BY <1>1, FreeExternalCounterDoes
  <2>2. (node[n].external_counters - 1) % 4 = node[n].external_counters - 1
    BY <1>1, OneLess
  <2>. HIDE DEF internal
  <2>. QED  BY <2>1, <2>2
<1>3. node[n].external_counters = 1 => internal # 0
  <2>1. SUFFICES ASSUME node[n].external_counters = 1 PROVE internal # 0
    OBVIOUS
  <2>2. OnlyOwes(t, n)
    BY <2>1, OnlyOwesFollows DEF QueueInv
  <2>3. (node[n].internal_count + Owed(t, n)) % CountRange # 0
    BY <1>1, <2>2, HolderKeeps
  <2>4. node[n].internal_count + Owed(t, n) = node[n].internal_count + p.external_count - 1
    <3>1. node[n].internal_count \in Int /\ p.external_count \in Int
      BY <1>1, NodeParts DEF AnyLink
    <3>. QED  BY <3>1
  <2>. QED  BY <2>3, <2>4
<1>4. Kept(n, internal, node[n].external_counters - 1)
  <2>. HIDE DEF internal
  <2>. QED  BY <1>1, <1>2, <1>3 DEF Stored, Freed
<1>. QED  BY <1>4

LEMMA ReportQuiet ==
    ASSUME ShapeInv, UnlinkedInv, NEW pos \in [Nodes -> Int], QueueInv(pos),
           NEW t \in Threads, NEW n \in Linked, NEW internal,
           Kept(n, internal, node[n].external_counters - 1), UNCHANGED <<head, tail, my>>,
           \/ t \in Pushers /\ Moves(t, "free_tail", "drop_tail")
           \/ t \notin Pushers /\ Moves(t, "free_head", "free_next")
           \/ t \notin Pushers /\ Moves(t, "free_next", "drop_next")
    PROVE  /\ UnlinkedInv' /\ Linked' = Linked /\ ChainInv(pos)' /\ ThreadInv(pos)'
           /\ live' = live /\ \A m \in Linked : node'[m].next = node[m].next
           /\ \A m \in Linked :
                /\ node'[m].external_counters = node[m].external_counters - One(m = n)
                /\ node'[m].external_counters # 0 \/ node'[m].internal_count # 0
<1>1. /\ live' = live /\ \A m \in Nodes \ {n} : node'[m] = node[m]
      /\ node'[n].next = node[n].next /\ node'[n].data = node[n].data
      /\ node'[n].external_counters = node[n].external_counters - 1
      /\ node'[n].external_counters # 0 \/ node'[n].internal_count # 0
  BY DEF Kept, Counts
<1>2. \A u \in Threads \ {t} : pc'[u] = pc[u] /\ my'[u] = my[u]
  BY DEF Moves
<1>3. UnlinkedInv' /\ Linked' = Linked
  <2>1. t \in Pushers => NewInv(t)' /\ my'[t].new = my[t].new
    BY DEF UnlinkedInv, NewInv, Moves
  <2>. QED  BY <1>1, <1>2, <2>1, UnlinkedSame
<1>4. \A m \in Linked : node'[m].next = node[m].next /\ node'[m].data = node[m].data
  BY <1>1, LinkedNodes
<1>5. Quiet(t)
  BY <1>2, <1>3, <1>4 DEF Quiet, Taking, Moves
<1>6. ChainInv(pos)'
  BY <1>5, QuietKeepsChain DEF QueueInv
<1>7. ThreadInv(pos)'
  <2>1. /\ \A u \in Pushers \ {t} : Pushing(u, pos)'
        /\ \A u \in (Threads \ Pushers) \ {t} : Popping(u, pos)'
    BY <1>5, QuietKeepsOthers DEF QueueInv
  <2>2. t \in Pushers => Pushing(t, pos)'
    <3>1. t \in Pushers => Pushing(t, pos) /\ pc[t] = "free_tail" /\ pc'[t] = "drop_tail"
      BY DEF QueueInv, ThreadInv, Moves
    <3>. QED  BY <1>3, <3>1 DEF Pushing, Old, GuardsOld, PushLabels
  <2>3. t \notin Pushers => Popping(t, pos)'
    <3>1. SUFFICES ASSUME t \notin Pushers PROVE Popping(t, pos)'
      OBVIOUS
    <3>2. /\ Popping(t, pos) /\ pc[t] \in {"free_head", "free_next"}
          /\ pc'[t] \in {"free_next", "drop_next"}
          /\ GuardsOld(t) /\ GuardsNext(t) /\ Taken(t)
      BY <3>1 DEF QueueInv, ThreadInv, Moves, GuardsOld, GuardsNext, NextLabels, Taken
    <3>3. Old(t)' = Old(t) /\ Old(t) \in Linked /\ node'[Old(t)].next = node[Old(t)].next
      BY <1>4, <3>2 DEF Old, Popping
    <3>. QED  BY <1>3, <3>2, <3>3 DEF Popping, Taking, Taken
  <2>4. Apart'
    <3>1. pc'[t] # "free_tail" /\ (Taken(t)' => Taken(t) /\ Old(t)' = Old(t))
      BY DEF Moves, Taken, Old
    <3>. QED  BY <1>2, <3>1, StaysApart DEF QueueInv, ThreadInv
  <2>. QED  BY <2>1, <2>2, <2>3, <2>4 DEF ThreadInv
<1>8. ASSUME NEW m \in Linked
      PROVE  /\ node'[m].external_counters = node[m].external_counters - One(m = n)
             /\ node'[m].external_counters # 0 \/ node'[m].internal_count # 0
  <2>1. m \in Nodes /\ node[m].external_counters \in 0 .. 3
    BY LinkedNodes, NodeParts
  <2>. QED  BY <1>1, <2>1 DEF One, QueueInv, SourcesInv
<1>. QED  BY <1>1, <1>3, <1>4, <1>6, <1>7, <1>8

\* The sources after t has reported the one it was of node n.
LEMMA ReportSources ==
    ASSUME ShapeInv, NEW pos, SourcesInv(pos), Linked' = Linked, NEW n \in Linked,
           \A m \in Linked :
             /\ node'[m].external_counters = node[m].external_counters - One(m = n)
             /\ node'[m].external_counters # 0 \/ node'[m].internal_count # 0
             /\ One(HeadSource(m, pos)') + One(TailSource(m, pos)') + One(NextSource(m)')
                  = One(HeadSource(m, pos)) + One(TailSource(m, pos)) + One(NextSource(m))
                    - One(m = n)
    PROVE  SourcesInv(pos)'
<1>1. ASSUME NEW m \in Linked
      PROVE  node'[m].external_counters =
               One(HeadSource(m, pos)') + One(TailSource(m, pos)') + One(NextSource(m)')
  BY DEF SourcesInv, One
<1>. QED  BY <1>1 DEF SourcesInv, One

LEMMA FreeTailStep ==
    ASSUME ShapeInv, UnlinkedInv, AccountInv, NEW pos \in [Nodes -> Int], QueueInv(pos),
           NEW t \in Pushers, Moves(t, "free_tail", "drop_tail"),
           FreeExternalCounter(my[t].old), UNCHANGED <<head, tail, my>>
    PROVE  /\ UnlinkedInv' /\ QueueInv(pos)' /\ live' = live
           /\ Stored(Old(t),
                (node[Old(t)].internal_count + my[t].old.external_count - 1) % CountRange,
                node[Old(t)].external_counters - 1)
<1>n. PICK n \in Linked : n = Old(t)
  BY DEF QueueInv, ThreadInv, Pushing, GuardsOld, PushLabels, Moves
<1>0. t \in Threads /\ pc[t] = "free_tail" /\ pc'[t] = "drop_tail" /\ my[t].old \in AnyLink
      /\ \A u \in Threads \ {t} : pc'[u] = pc[u]
  BY LocalParts DEF Threads, Moves
<1>1. /\ n \in Linked /\ n \in Nodes /\ pos[n] < pos[tail.ptr] /\ n = my[t].old.ptr
      /\ tail.ptr \in Linked /\ head.ptr \in Linked /\ \A m \in Linked : pos[m] \in Int
  BY <1>n, <1>0, LinkedNodes DEF QueueInv, ThreadInv, Pushing, GuardsOld, PushLabels, Old,
       ChainInv, Chained
<1>2. TailSource(n, pos)
  BY <1>n, <1>0 DEF TailSource
<1>3. \A u \in Threads : u # t /\ pc[u] = "free_tail" => Old(u) # n
  <2>1. ASSUME NEW u \in Threads, u # t, pc[u] = "free_tail" PROVE Old(u) # n
    <3>1. u \in Pushers
      BY <2>1 DEF ShapeInv, PlacesInv, PopPlaces, HeadLabels, NextLabels
    <3>. QED  BY <1>n, <1>0, <2>1, <3>1 DEF QueueInv, ThreadInv, Apart
  <2>. QED  BY <2>1
<1>4. Held(t, n) = 1 /\ Owed(t, n) = my[t].old.external_count - 1
  BY <1>n, <1>0, Holding DEF HoldingFacts, One, Extra, Old
<1>5. node[n].external_counters =
        One(HeadSource(n, pos)) + One(TailSource(n, pos)) + One(NextSource(n))
  BY <1>1 DEF QueueInv, SourcesInv
<1>6. node[n].external_counters = 1 => NoOtherSource(t, n, pos)
  <2>1. SUFFICES ASSUME node[n].external_counters = 1 PROVE NoOtherSource(t, n, pos)
    OBVIOUS
  <2>2. ~HeadSource(n, pos) /\ ~NextSource(n)
    BY <1>2, <1>5, <2>1 DEF One
  <2>3. pos[n] < pos[head.ptr]
    BY <1>1, <2>2 DEF HeadSource
  <2>. QED  BY <1>1, <1>3, <2>2, <2>3 DEF NoOtherSource, HeadSource, NextSource
<1>. DEFINE internal == (node[n].internal_count + my[t].old.external_count - 1) % CountRange
<1>7. Kept(n, internal, node[n].external_counters - 1)
  <2>1. node[n].external_counters # 0
    BY <1>2, <1>5 DEF One
  <2>. QED  BY <1>0, <1>1, <1>4, <1>6, <2>1, ReportKeeps DEF Old
<1>. HIDE DEF internal
<1>8. /\ UnlinkedInv' /\ Linked' = Linked /\ ChainInv(pos)' /\ ThreadInv(pos)' /\ live' = live
      /\ \A m \in Linked : node'[m].next = node[m].next
      /\ \A m \in Linked :
           /\ node'[m].external_counters = node[m].external_counters - One(m = n)
           /\ node'[m].external_counters # 0 \/ node'[m].internal_count # 0
  BY <1>0, <1>1, <1>7, ReportQuiet
<1>9. ASSUME NEW m \in Linked
      PROVE  One(HeadSource(m, pos)') + One(TailSource(m, pos)') + One(NextSource(m)')
               = One(HeadSource(m, pos)) + One(TailSource(m, pos)) + One(NextSource(m))
                 - One(m = n)
  <2>1. \A u \in Threads : Old(u)' = Old(u)
    BY DEF Old
  <2>2. HeadSource(m, pos)' <=> HeadSource(m, pos)
    BY <1>0, <2>1 DEF HeadSource
  <2>3. NextSource(m)' <=> NextSource(m)
    BY <1>0, <1>8 DEF NextSource
  <2>4. m # n => (TailSource(m, pos)' <=> TailSource(m, pos))
    BY <1>n, <1>0, <2>1 DEF TailSource
  <2>5. ~TailSource(n, pos)'
    BY <1>n, <1>0, <1>1, <1>3, <2>1 DEF TailSource
  <2>. QED  BY <1>2, <2>2, <2>3, <2>4, <2>5 DEF One
<1>10. SourcesInv(pos)'
  BY <1>1, <1>8, <1>9, ReportSources DEF QueueInv
<1>. QED  BY <1>n, <1>7, <1>8, <1>10 DEF QueueInv, Stored, internal

LEMMA FreeHeadStep ==
    ASSUME ShapeInv, UnlinkedInv, AccountInv, NEW pos \in [Nodes -> Int], QueueInv(pos),
           NEW t \in Threads \ Pushers, Moves(t, "free_head", "free_next"),
           FreeExternalCounter(my[t].old), UNCHANGED <<head, tail, my>>
    PROVE  /\ UnlinkedInv' /\ QueueInv(pos)' /\ live' = live
           /\ Stored(Old(t),
                (node[Old(t)].internal_count + my[t].old.external_count - 1) % CountRange,
                node[Old(t)].external_counters - 1)
<1>n. PICK n \in Linked : n = Old(t)
  BY DEF QueueInv, ThreadInv, Popping, GuardsOld, NextLabels, Moves
<1>0. t \in Threads /\ pc[t] = "free_head" /\ pc'[t] = "free_next" /\ my[t].old \in AnyLink
      /\ \A u \in Threads \ {t} : pc'[u] = pc[u]
  BY LocalParts DEF Moves
<1>1. /\ n \in Linked /\ n \in Nodes /\ pos[n] < pos[head.ptr] /\ n = my[t].old.ptr
      /\ pos[my[t].nxt.ptr] = pos[n] + 1
      /\ tail.ptr \in Linked /\ head.ptr \in Linked /\ \A m \in Linked : pos[m] \in Int
  BY <1>n, <1>0, LinkedNodes DEF QueueInv, ThreadInv, Popping, GuardsNext, NextLabels, Old,
       Taken, ChainInv, Chained
<1>2. HeadSource(n, pos)
  BY <1>n, <1>0 DEF HeadSource
<1>3. \A u \in Threads : u # t /\ pc[u] \in {"take_data", "close_next", "free_head"} => Old(u) # n
  <2>1. ASSUME NEW u \in Threads, u # t, pc[u] \in {"take_data", "close_next", "free_head"}
        PROVE  Old(u) # n
    <3>1. u \in Threads \ Pushers
      BY <2>1 DEF ShapeInv, PlacesInv, PushPlaces, PushLabels
    <3>. QED  BY <1>n, <1>0, <2>1, <3>1 DEF QueueInv, ThreadInv, Apart, Taken
  <2>. QED  BY <2>1
<1>4. Held(t, n) = 1 /\ Owed(t, n) = my[t].old.external_count - 1
  <2>1. my[t].nxt.ptr # n /\ my[t].old.external_count \in Int
    BY <1>1, LocalParts
  <2>. QED  BY <1>n, <1>0, <2>1, Holding DEF HoldingFacts, One, Extra, Old
<1>5. node[n].external_counters =
        One(HeadSource(n, pos)) + One(TailSource(n, pos)) + One(NextSource(n))
  BY <1>1 DEF QueueInv, SourcesInv
<1>6. node[n].external_counters = 1 => NoOtherSource(t, n, pos)
  <2>1. SUFFICES ASSUME node[n].external_counters = 1 PROVE NoOtherSource(t, n, pos)
    OBVIOUS
  <2>2. ~TailSource(n, pos) /\ ~NextSource(n)
    BY <1>2, <1>5, <2>1 DEF One
  <2>3. pos[n] < pos[tail.ptr]
    BY <1>1, <2>2 DEF TailSource
  <2>. QED  BY <1>1, <1>3, <2>2, <2>3 DEF NoOtherSource, TailSource, NextSource
<1>. DEFINE internal == (node[n].internal_count + my[t].old.external_count - 1) % CountRange
<1>7. Kept(n, internal, node[n].external_counters - 1)
  <2>1. node[n].external_counters # 0
    BY <1>2, <1>5 DEF One
  <2>. QED  BY <1>0, <1>1, <1>4, <1>6, <2>1, ReportKeeps DEF Old
<1>. HIDE DEF internal
<1>8. /\ UnlinkedInv' /\ Linked' = Linked /\ ChainInv(pos)' /\ ThreadInv(pos)' /\ live' = live
      /\ \A m \in Linked : node'[m].next = node[m].next
      /\ \A m \in Linked :
           /\ node'[m].external_counters = node[m].external_counters - One(m = n)
           /\ node'[m].external_counters # 0 \/ node'[m].internal_count # 0
  <2>1. t \notin Pushers /\ UNCHANGED <<head, tail, my>> /\ QueueInv(pos) /\ n \in Linked
    OBVIOUS
  <2>. QED  BY ONLY <1>0, <1>7, <2>1, ShapeInv, UnlinkedInv, pos \in [Nodes -> Int],
                    Moves(t, "free_head", "free_next"), ReportQuiet
<1>9. ASSUME NEW m \in Linked
      PROVE  One(HeadSource(m, pos)') + One(TailSource(m, pos)') + One(NextSource(m)')
               = One(HeadSource(m, pos)) + One(TailSource(m, pos)) + One(NextSource(m))
                 - One(m = n)
  <2>1. \A u \in Threads : Old(u)' = Old(u)
    BY DEF Old
  <2>2. TailSource(m, pos)' <=> TailSource(m, pos)
    BY <1>0, <2>1 DEF TailSource
  <2>3. NextSource(m)' <=> NextSource(m)
    BY <1>0, <1>8 DEF NextSource
  <2>4. m # n => (HeadSource(m, pos)' <=> HeadSource(m, pos))
    BY <1>n, <1>0, <2>1 DEF HeadSource
  <2>5. ~HeadSource(n, pos)'
    BY <1>n, <1>0, <1>1, <1>3, <2>1 DEF HeadSource
  <2>. QED  BY <1>2, <2>2, <2>3, <2>4, <2>5 DEF One
<1>10. SourcesInv(pos)'
  BY <1>1, <1>8, <1>9, ReportSources DEF QueueInv
<1>. QED  BY <1>n, <1>7, <1>8, <1>10 DEF QueueInv, Stored, internal

LEMMA FreeNextStep ==
    ASSUME ShapeInv, UnlinkedInv, AccountInv, NEW pos \in [Nodes -> Int], QueueInv(pos),
           NEW t \in Threads \ Pushers, Moves(t, "free_next", "drop_next"),
           FreeExternalCounter(my[t].nxt), UNCHANGED <<head, tail, my>>
    PROVE  /\ UnlinkedInv' /\ QueueInv(pos)' /\ live' = live
           /\ Stored(my[t].nxt.ptr,
                (node[my[t].nxt.ptr].internal_count + my[t].nxt.external_count - 1) % CountRange,
                node[my[t].nxt.ptr].external_counters - 1)
<1>n. PICK n \in Linked : n = my[t].nxt.ptr
  BY DEF QueueInv, ThreadInv, Popping, GuardsNext, NextLabels, Moves
<1>0. t \in Threads /\ pc[t] = "free_next" /\ pc'[t] = "drop_next" /\ my[t].nxt \in AnyLink
      /\ \A u \in Threads \ {t} : pc'[u] = pc[u]
  BY LocalParts DEF Moves
<1>1. /\ n \in Linked /\ n \in Nodes /\ Old(t) \in Linked /\ pos[n] = pos[Old(t)] + 1
      /\ node[Old(t)].next.ptr = NULL
      /\ tail.ptr \in Linked /\ head.ptr \in Linked /\ \A m \in Linked : pos[m] \in Int
      /\ Linked \subseteq Nodes /\ NULL \notin Linked
  BY <1>n, <1>0, LinkedNodes DEF QueueInv, ThreadInv, Popping, GuardsOld, GuardsNext, NextLabels,
       ChainInv, Chained
<1>2. NextSource(n)
  BY <1>n, <1>0 DEF NextSource
<1>3. \A u \in Threads : u # t /\ pc[u] \in {"free_head", "free_next"} => my[u].nxt.ptr # n
  <2>1. ASSUME NEW u \in Threads, u # t, pc[u] \in {"free_head", "free_next"}
        PROVE  my[u].nxt.ptr # n
    <3>1. u \in Threads \ Pushers
      BY <2>1 DEF ShapeInv, PlacesInv, PushPlaces, PushLabels
    <3>2. Old(u) # Old(t)
      BY <1>0, <2>1, <3>1 DEF QueueInv, ThreadInv, Apart, Taken
    <3>3. Old(u) \in Linked /\ pos[my[u].nxt.ptr] = pos[Old(u)] + 1
      BY <2>1, <3>1 DEF QueueInv, ThreadInv, Popping, GuardsOld, GuardsNext, NextLabels
    <3>4. pos[Old(u)] # pos[Old(t)]
      BY <1>1, <3>2, <3>3 DEF QueueInv, ChainInv, Chained
    <3>. QED  BY <1>1, <3>3, <3>4
  <2>. QED  BY <2>1
<1>m. \A m \in Linked : node[m].next.ptr # n
  <2>1. ASSUME NEW m \in Linked, node[m].next.ptr = n PROVE FALSE
    <3>1. pos[n] = pos[m] + 1
      BY <1>1, <2>1 DEF QueueInv, ChainInv, Chained
    <3>2. m = Old(t)
      BY <1>1, <3>1 DEF QueueInv, ChainInv, Chained
    <3>. QED  BY <1>1, <2>1, <3>2
  <2>. QED  BY <2>1
<1>4. Held(t, n) = 1 /\ Owed(t, n) = my[t].nxt.external_count - 1
  <2>1. Old(t) # n /\ my[t].nxt.external_count \in Int
    BY <1>1, LocalParts
  <2>. QED  BY <1>n, <1>0, <2>1, Holding DEF HoldingFacts, One, Extra
<1>5. node[n].external_counters =
        One(HeadSource(n, pos)) + One(TailSource(n, pos)) + One(NextSource(n))
  BY <1>1 DEF QueueInv, SourcesInv
<1>6. node[n].external_counters = 1 => NoOtherSource(t, n, pos)
  <2>1. SUFFICES ASSUME node[n].external_counters = 1 PROVE NoOtherSource(t, n, pos)
    OBVIOUS
  <2>2. ~HeadSource(n, pos) /\ ~TailSource(n, pos)
    BY <1>2, <1>5, <2>1 DEF One
  <2>3. pos[n] < pos[tail.ptr] /\ pos[n] < pos[head.ptr]
    BY <1>1, <2>2 DEF TailSource, HeadSource
  <2>. QED  BY <1>m, <1>3, <2>2, <2>3 DEF NoOtherSource, TailSource, HeadSource
<1>. DEFINE internal == (node[n].internal_count + my[t].nxt.external_count - 1) % CountRange
<1>7. Kept(n, internal, node[n].external_counters - 1)
  <2>1. node[n].external_counters # 0
    BY <1>2, <1>5 DEF One
  <2>. QED  BY <1>n, <1>0, <1>1, <1>4, <1>6, <2>1, ReportKeeps
<1>. HIDE DEF internal
<1>8. /\ UnlinkedInv' /\ Linked' = Linked /\ ChainInv(pos)' /\ ThreadInv(pos)' /\ live' = live
      /\ \A m \in Linked : node'[m].next = node[m].next
      /\ \A m \in Linked :
           /\ node'[m].external_counters = node[m].external_counters - One(m = n)
           /\ node'[m].external_counters # 0 \/ node'[m].internal_count # 0
  BY <1>0, <1>1, <1>7, ReportQuiet
<1>9. ASSUME NEW m \in Linked
      PROVE  One(HeadSource(m, pos)') + One(TailSource(m, pos)') + One(NextSource(m)')
               = One(HeadSource(m, pos)) + One(TailSource(m, pos)) + One(NextSource(m))
                 - One(m = n)
  <2>1. \A u \in Threads : Old(u)' = Old(u)
    BY DEF Old
  <2>2. TailSource(m, pos)' <=> TailSource(m, pos)
    BY <1>0, <2>1 DEF TailSource
  <2>3. HeadSource(m, pos)' <=> HeadSource(m, pos)
    BY <1>0, <2>1 DEF HeadSource
  <2>4. m # n => (NextSource(m)' <=> NextSource(m))
    BY <1>n, <1>0, <1>8 DEF NextSource
  <2>5. ~NextSource(n)'
    BY <1>n, <1>0, <1>m, <1>3, <1>8 DEF NextSource
  <2>. QED  BY <1>2, <2>2, <2>3, <2>4, <2>5 DEF One
<1>10. SourcesInv(pos)'
  BY <1>1, <1>8, <1>9, ReportSources DEF QueueInv
<1>. QED  BY <1>n, <1>7, <1>8, <1>10 DEF QueueInv, Stored, internal

----------------------------------------------------------------------------
(* The steps of a popper up to the one that moves head *)

\* A step of a popper that changes no more than counts of links and its own place.
LEMMA PopQuietStep ==
    ASSUME ShapeInv, UnlinkedInv, NEW pos \in [Nodes -> Int], QueueInv(pos),
           NEW t \in Threads \ Pushers, \A u \in Threads \ {t} : pc'[u] = pc[u] /\ my'[u] = my[u],
           head'.ptr = head.ptr, tail' = tail, live' = live,
           \A n \in Nodes : /\ node'[n].internal_count = node[n].internal_count
                            /\ node'[n].external_counters = node[n].external_counters
                            /\ node'[n].data = node[n].data
                            /\ node'[n].next.ptr = node[n].next.ptr
                            /\ node[n].next.ptr = NULL => node'[n] = node[n],
           ~Taking(t), pc[t] # "set_tail", pc[t] \notin Reporting, pc'[t] \notin Reporting,
           Linked' = Linked => Popping(t, pos)'
    PROVE  UnlinkedInv' /\ QueueInv(pos)'
<1>1. UnlinkedInv' /\ Linked' = Linked
  <2>1. \A m \in Nodes \ Linked : node'[m] = node[m]
    BY FreshOutside
  <2>. QED  BY <2>1, UnlinkedSame
<1>2. Quiet(t)
  <2>1. \A n \in Linked : /\ node'[n].next.ptr = node[n].next.ptr
                          /\ node[n].next.ptr = NULL => node'[n].next = node[n].next
                          /\ node[n].data # NULL => node'[n].data # NULL
    BY LinkedNodes
  <2>. QED  BY <1>1, <2>1 DEF Quiet
<1>3. \A n \in Linked : /\ node'[n].external_counters = node[n].external_counters
                        /\ node'[n].internal_count = node[n].internal_count
  BY LinkedNodes
<1>. QED  BY <1>1, <1>2, <1>3, QuietStep, CountsStay

LEMMA PopStartStep ==
    ASSUME ShapeInv, UnlinkedInv, NEW pos \in [Nodes -> Int], QueueInv(pos),
           NEW t \in Threads \ Pushers, PopStart(t)
    PROVE  UnlinkedInv' /\ QueueInv(pos)'
<1>1. /\ pc[t] = "idle" /\ pc'[t] = "guard_head" /\ UNCHANGED <<head, tail, node, live, my>>
      /\ \A u \in Threads \ {t} : pc'[u] = pc[u]
  BY PopStartDoes DEF PopStart, Moves, nodes
<1>2. Popping(t, pos)'
  BY <1>1 DEF Popping, GuardsOld, GuardsNext, PushLabels, HeadLabels, NextLabels, Taken, Taking
<1>3. ~Taking(t) /\ pc[t] # "set_tail" /\ pc[t] \notin Reporting /\ pc'[t] \notin Reporting
  BY <1>1 DEF Taking, Reporting
<1>. QED  BY <1>1, <1>2, <1>3, PopQuietStep

LEMMA GuardHeadStep ==
    ASSUME ShapeInv, UnlinkedInv, NEW pos \in [Nodes -> Int], QueueInv(pos),
           NEW t \in Threads \ Pushers, GuardHead(t)
    PROVE  UnlinkedInv' /\ QueueInv(pos)'
<1>1. /\ pc[t] = "guard_head" /\ pc'[t] = "check_empty" /\ UNCHANGED <<tail, node, live>>
      /\ my'[t].old = head' /\ head'.ptr = head.ptr
      /\ \A u \in Threads \ {t} : pc'[u] = pc[u] /\ my'[u] = my[u]
  BY GuardHeadDoes DEF GuardHead, Moves, nodes
<1>2. Linked' = Linked => Popping(t, pos)'
  <2>1. Old(t)' = head.ptr /\ head.ptr \in Linked /\ pos[head.ptr] \in Int
    BY <1>1, LinkedNodes DEF Old, QueueInv, ChainInv, Chained
  <2>. QED  BY <1>1, <2>1 DEF Popping, GuardsNext, NextLabels, Taken, Taking
<1>3. ~Taking(t) /\ pc[t] # "set_tail" /\ pc[t] \notin Reporting /\ pc'[t] \notin Reporting
  BY <1>1 DEF Taking, Reporting
<1>. QED  BY <1>1, <1>2, <1>3, PopQuietStep

LEMMA CheckEmptyStep ==
    ASSUME ShapeInv, UnlinkedInv, NEW pos \in [Nodes -> Int], QueueInv(pos),
           NEW t \in Threads \ Pushers, CheckEmpty(t)
    PROVE  UnlinkedInv' /\ QueueInv(pos)'
<1>1. /\ pc[t] = "check_empty" /\ UNCHANGED <<head, tail, node, live, my>>
      /\ \A u \in Threads \ {t} : pc'[u] = pc[u]
      /\ \/ pc'[t] = "drop_head"
         \/ pc'[t] = "guard_next" /\ tail.ptr # Old(t)
  BY CheckEmptyDoes DEF CheckEmpty, Moves, nodes
<1>2. Linked' = Linked => Popping(t, pos)'
  <2>1. Old(t)' = Old(t) /\ Old(t) \in Linked /\ pos[Old(t)] <= pos[head.ptr]
    BY <1>1 DEF Old, QueueInv, ThreadInv, Popping, GuardsOld, HeadLabels
  <2>2. tail.ptr # Old(t) => pos[Old(t)] < pos[tail.ptr]
    <3>1. /\ head.ptr \in Linked /\ tail.ptr \in Linked /\ pos[head.ptr] <= pos[tail.ptr]
          /\ \A m \in Linked : pos[m] \in Int
          /\ pos[Old(t)] = pos[tail.ptr] => Old(t) = tail.ptr
      BY <2>1, LinkedNodes DEF QueueInv, ChainInv, Chained
    <3>. QED  BY <2>1, <3>1
  <2>. QED  BY <1>1, <2>1, <2>2 DEF Popping, GuardsNext, NextLabels, Taken, Taking
<1>3. ~Taking(t) /\ pc[t] # "set_tail" /\ pc[t] \notin Reporting /\ pc'[t] \notin Reporting
  BY <1>1 DEF Taking, Reporting
<1>. QED  BY <1>1, <1>2, <1>3, PopQuietStep

LEMMA GuardNextStep ==
    ASSUME ShapeInv, UnlinkedInv, NEW pos \in [Nodes -> Int], QueueInv(pos),
           NEW t \in Threads \ Pushers, GuardNext(t)
    PROVE  UnlinkedInv' /\ QueueInv(pos)'
<1>0. pc[t] = "guard_next" /\ UNCHANGED <<head, tail, live>>
  BY DEF GuardNext, Goto
<1>1. /\ Old(t) \in Linked /\ Old(t) \in Nodes /\ pos[Old(t)] <= pos[head.ptr]
      /\ pos[Old(t)] < pos[tail.ptr]
  BY <1>0, LinkedNodes DEF QueueInv, ThreadInv, Popping, GuardsOld, HeadLabels
<1>2. /\ my'[t].old = my[t].old
      /\ \A u \in Threads \ {t} : pc'[u] = pc[u] /\ my'[u] = my[u]
      /\ \/ pc'[t] = "drop_head" /\ node' = node
         \/ /\ pc'[t] = "callback" /\ node[Old(t)].next.ptr # NULL
            /\ my'[t].nxt.ptr = node[Old(t)].next.ptr
            /\ node'[Old(t)].next.ptr = node[Old(t)].next.ptr
            /\ \A n \in Nodes : /\ node'[n].internal_count = node[n].internal_count
                                /\ node'[n].external_counters = node[n].external_counters
                                /\ node'[n].data = node[n].data
                                /\ n # Old(t) => node'[n] = node[n]
  <2>1. Inc(node[Old(t)].next).ptr = node[Old(t)].next.ptr
    BY <1>1, NodeParts, PartTypes
  <2>2. /\ my'[t].old = my[t].old
        /\ Moves(t, "guard_next", "drop_head") \/ Moves(t, "guard_next", "callback")
    BY <1>1, GuardNextDoes
  <2>3. CASE node[Old(t)].next.ptr = NULL
    <3>1. Moves(t, "guard_next", "drop_head") /\ node' = node
      BY <1>1, <2>3, GuardNextDoes
    <3>. QED  BY <2>2, <3>1 DEF Moves
  <2>4. CASE node[Old(t)].next.ptr # NULL
    <3>1. /\ Moves(t, "guard_next", "callback") /\ my'[t].nxt = node'[Old(t)].next
          /\ node'[Old(t)].next = Inc(node[Old(t)].next)
          /\ \A n \in Nodes : /\ node'[n].internal_count = node[n].internal_count
                              /\ node'[n].external_counters = node[n].external_counters
                              /\ node'[n].data = node[n].data
                              /\ n # Old(t) => node'[n] = node[n]
      BY <1>1, <2>4, GuardNextDoes
    <3>. QED  BY <2>1, <2>2, <2>4, <3>1 DEF Moves
  <2>. QED  BY <2>3, <2>4
<1>3. Linked' = Linked => Popping(t, pos)'
  <2>1. node[Old(t)].next.ptr # NULL =>
          node[Old(t)].next.ptr \in Linked /\ pos[node[Old(t)].next.ptr] = pos[Old(t)] + 1
    BY <1>1 DEF QueueInv, ChainInv, Chained
  <2>2. Old(t)' = Old(t)
    BY <1>2 DEF Old
  <2>. QED  BY <1>0, <1>1, <1>2, <2>1, <2>2 DEF Popping, GuardsNext, NextLabels, Taken, Taking
<1>4. ~Taking(t) /\ pc[t] # "set_tail" /\ pc[t] \notin Reporting /\ pc'[t] \notin Reporting
  BY <1>0, <1>2 DEF Taking, Reporting
<1>5. \A n \in Nodes : /\ node'[n].internal_count = node[n].internal_count
                       /\ node'[n].external_counters = node[n].external_counters
                       /\ node'[n].data = node[n].data
                       /\ node'[n].next.ptr = node[n].next.ptr
                       /\ node[n].next.ptr = NULL => node'[n] = node[n]
  BY <1>2
<1>6. head'.ptr = head.ptr /\ tail' = tail /\ live' = live
  BY <1>0
<1>7. \A u \in Threads \ {t} : pc'[u] = pc[u] /\ my'[u] = my[u]
  BY <1>2
<1>. QED  BY <1>3, <1>4, <1>5, <1>6, <1>7, PopQuietStep

LEMMA CallbackStep ==
    ASSUME ShapeInv, UnlinkedInv, NEW pos \in [Nodes -> Int], QueueInv(pos),
           NEW t \in Threads \ Pushers, StartCallback(t) \/ EndCallback(t)
    PROVE  UnlinkedInv' /\ QueueInv(pos)'
<1>1. /\ pc[t] \in {"callback", "in_callback"}
      /\ pc'[t] \in {"in_callback", "cas_head", "drop_next"}
      /\ UNCHANGED <<head, tail, node, live>>
      /\ my'[t].old = my[t].old /\ my'[t].nxt = my[t].nxt
      /\ \A u \in Threads \ {t} : pc'[u] = pc[u] /\ my'[u] = my[u]
  BY StartCallbackDoes, EndCallbackDoes DEF StartCallback, EndCallback, Moves, SameLocals, nodes
<1>2. Linked' = Linked => Popping(t, pos)'
  <2>1. /\ Popping(t, pos) /\ Old(t)' = Old(t) /\ GuardsOld(t) /\ GuardsNext(t)
    BY <1>1 DEF Old, QueueInv, ThreadInv, GuardsOld, GuardsNext, NextLabels
  <2>. QED  BY <1>1, <2>1 DEF Popping, Taken, Taking
<1>3. ~Taking(t) /\ pc[t] # "set_tail" /\ pc[t] \notin Reporting /\ pc'[t] \notin Reporting
  BY <1>1 DEF Taking, Reporting
<1>. QED  BY <1>1, <1>2, <1>3, PopQuietStep

LEMMA CasHeadFacts ==
    ASSUME ShapeInv, UnlinkedInv, NEW pos \in [Nodes -> Int], QueueInv(pos),
           NEW t \in Threads \ Pushers, pc[t] = "cas_head", head = my[t].old
    PROVE  /\ Old(t) = head.ptr /\ Old(t) \in Linked /\ my[t].nxt.ptr \in Linked
           /\ pos[my[t].nxt.ptr] = pos[head.ptr] + 1 /\ pos[head.ptr] < pos[tail.ptr]
           /\ node[Old(t)].next.ptr = my[t].nxt.ptr /\ node[Old(t)].data # NULL
<1>1. /\ Old(t) = head.ptr /\ Old(t) \in Linked /\ my[t].nxt.ptr \in Linked
      /\ pos[my[t].nxt.ptr] = pos[head.ptr] + 1 /\ pos[head.ptr] < pos[tail.ptr]
  BY DEF QueueInv, ThreadInv, Popping, GuardsOld, GuardsNext, NextLabels, Old
<1>2. ChainInv(pos) /\ \A m \in Linked : pos[m] \in Int
  BY LinkedNodes DEF QueueInv
<1>3. node[Old(t)].next.ptr # NULL
  <2>1. SUFFICES ASSUME node[Old(t)].next.ptr = NULL PROVE FALSE
    OBVIOUS
  <2>2. pos[my[t].nxt.ptr] <= pos[Old(t)]
    BY <1>1, <1>2, <2>1 DEF ChainInv, Ended
  <2>. QED  BY <1>1, <1>2, <2>2
<1>4. node[Old(t)].next.ptr \in Linked /\ pos[node[Old(t)].next.ptr] = pos[Old(t)] + 1
  BY <1>1, <1>2, <1>3 DEF ChainInv, Chained
<1>5. node[Old(t)].next.ptr = my[t].nxt.ptr
  BY <1>1, <1>2, <1>4 DEF ChainInv, Chained
<1>6. node[Old(t)].data # NULL
  BY <1>1, <1>2, <1>3 DEF ChainInv, Filled
<1>. QED  BY <1>1, <1>5, <1>6

LEMMA CasHeadStep ==
    ASSUME ShapeInv, UnlinkedInv, NEW pos \in [Nodes -> Int], QueueInv(pos),
           NEW t \in Threads \ Pushers, CasHead(t)
    PROVE  UnlinkedInv' /\ QueueInv(pos)'
<1>1. /\ pc[t] = "cas_head" /\ UNCHANGED <<tail, node, live>>
      /\ my'[t].old = my[t].old /\ my'[t].nxt = my[t].nxt /\ Old(t)' = Old(t)
      /\ \A u \in Threads \ {t} : pc'[u] = pc[u] /\ my'[u] = my[u]
      /\ \/ pc'[t] = "drop_next" /\ head' = head
         \/ pc'[t] = "take_data" /\ head = my[t].old /\ head'.ptr = my[t].nxt.ptr
  <2>1. /\ my'[t].old = my[t].old /\ my'[t].nxt = my[t].nxt
        /\ \/ Moves(t, "cas_head", "take_data") /\ head = my[t].old
              /\ head' = Counted(1, my[t].nxt.ptr)
           \/ Moves(t, "cas_head", "drop_next") /\ head' = head
    BY CasHeadDoes
  <2>2. pc[t] = "cas_head" /\ UNCHANGED <<tail, node, live>>
    BY DEF CasHead, Goto, nodes
  <2>. QED  BY <2>1, <2>2 DEF Moves, Counted, Old
<1>2. Popping(t, pos) /\ GuardsOld(t) /\ GuardsNext(t)
  BY <1>1 DEF QueueInv, ThreadInv, GuardsOld, GuardsNext, NextLabels
<1>3. CASE pc'[t] = "drop_next" /\ head' = head
  <2>1. Linked' = Linked => Popping(t, pos)'
    BY <1>1, <1>2, <1>3 DEF Popping, Taken, Taking
  <2>2. ~Taking(t) /\ pc[t] # "set_tail" /\ pc[t] \notin Reporting /\ pc'[t] \notin Reporting
    BY <1>1, <1>3 DEF Taking, Reporting
  <2>. QED  BY <1>1, <1>3, <2>1, <2>2, PopQuietStep
<1>4. CASE pc'[t] = "take_data" /\ head = my[t].old /\ head'.ptr = my[t].nxt.ptr
  <2>1. /\ Old(t) = head.ptr /\ Old(t) \in Linked /\ head'.ptr \in Linked
        /\ pos[head'.ptr] = pos[head.ptr] + 1 /\ pos[head.ptr] < pos[tail.ptr]
        /\ node[Old(t)].next.ptr = head'.ptr /\ node[Old(t)].data # NULL
    BY <1>1, <1>4, CasHeadFacts
  <2>2. UnlinkedInv' /\ Linked' = Linked
    BY <1>1, UnlinkedSame
  <2>3. /\ ChainInv(pos) /\ ThreadInv(pos) /\ SourcesInv(pos)
        /\ Linked \subseteq Nodes /\ NULL \notin Linked
        /\ head.ptr \in Linked /\ tail.ptr \in Linked
        /\ \A n \in Linked : pos[n] \in Int
        /\ \A n \in Linked : pos[n] < pos[head'.ptr] <=> n = head.ptr \/ pos[n] < pos[head.ptr]
        /\ \A n \in Linked : pos[head'.ptr] <= pos[n] => pos[head.ptr] <= pos[n] /\ n # head.ptr
    <3>1. /\ ChainInv(pos) /\ ThreadInv(pos) /\ SourcesInv(pos)
          /\ Linked \subseteq Nodes /\ NULL \notin Linked
          /\ head.ptr \in Linked /\ tail.ptr \in Linked
          /\ \A n \in Linked : pos[n] \in Int
          /\ \A n \in Linked : pos[n] = pos[head.ptr] => n = head.ptr
      BY LinkedNodes DEF QueueInv, ChainInv, Chained
    <3>. QED  BY <2>1, <3>1
  <2>4. ChainInv(pos)'
    <3>1. Chained(pos)'
      BY <1>1, <2>1, <2>2, <2>3 DEF ChainInv, Chained
    <3>2. Ended(pos)'
      <4>1. ASSUME NEW n \in Linked, pos[n] > pos[tail.ptr]
            PROVE  \E u \in Pushers : pc'[u] = "set_tail" /\ Old(u)' = tail.ptr
        <5>1. PICK u \in Pushers : pc[u] = "set_tail" /\ Old(u) = tail.ptr
          BY <2>3, <4>1 DEF ChainInv, Ended
        <5>. QED  BY <1>1, <5>1 DEF Threads, Old
      <4>2. \A n \in Linked : pos[n] <= pos[tail.ptr] + 1
        BY <2>3 DEF ChainInv, Ended
      <4>3. \A n \in Linked : node[n].next.ptr = NULL /\ pos[head'.ptr] <= pos[n] =>
              node[n].next = Counted(0, NULL) /\ \A m \in Linked : pos[m] <= pos[n]
        BY <2>3 DEF ChainInv, Ended
      <4>. QED  BY <1>1, <2>2, <4>1, <4>2, <4>3 DEF Ended
    <3>3. Filled(pos)'
      <4>1. \A n \in Linked : node[n].next.ptr = NULL /\ pos[n] < pos[head'.ptr] =>
              node[n].next = Counted(1, NULL)
        BY <2>1, <2>3 DEF ChainInv, Filled
      <4>2. ASSUME NEW n \in Linked, node[n].next.ptr # NULL, pos[n] < pos[head'.ptr]
            PROVE  \E u \in Threads : Taking(u)' /\ Old(u)' = n
        <5>1. CASE n = head.ptr
          BY <1>1, <1>4, <2>1, <5>1 DEF Taking
        <5>2. CASE n # head.ptr
          <6>1. PICK u \in Threads : Taking(u) /\ Old(u) = n
            BY <2>3, <4>2, <5>2 DEF ChainInv, Filled
          <6>. QED  BY <1>1, <6>1 DEF Taking, Old
        <5>. QED  BY <5>1, <5>2
      <4>3. \A n \in Linked : node[n].next.ptr # NULL /\ pos[head'.ptr] <= pos[n] =>
              node[n].data # NULL
        BY <2>3 DEF ChainInv, Filled
      <4>. QED  BY <1>1, <2>2, <4>1, <4>2, <4>3 DEF Filled
    <3>. QED  BY <3>1, <3>2, <3>3 DEF ChainInv
  <2>5. ThreadInv(pos)'
    <3>1. ASSUME NEW u \in Pushers PROVE Pushing(u, pos)'
      <4>1. Pushing(u, pos) /\ pc'[u] = pc[u] /\ my'[u] = my[u] /\ Old(u)' = Old(u)
        BY <1>1, <2>3, <3>1 DEF ThreadInv, Threads, Old
      <4>2. /\ GuardsOld(u)' <=> GuardsOld(u)
            /\ pc[u] \in {"link_own", "link_help", "set_tail"} => GuardsOld(u)
        BY <4>1 DEF GuardsOld, PushLabels
      <4>3. GuardsOld(u) /\ pos[head'.ptr] <= pos[Old(u)] => pos[head.ptr] <= pos[Old(u)]
        BY <2>3, <4>1 DEF Pushing
      <4>. QED  BY <1>1, <2>2, <4>1, <4>2, <4>3 DEF Pushing
    <3>2. ASSUME NEW u \in (Threads \ Pushers) \ {t} PROVE Popping(u, pos)'
      <4>1. Popping(u, pos) /\ pc'[u] = pc[u] /\ my'[u] = my[u] /\ Old(u)' = Old(u)
        BY <1>1, <2>3, <3>2 DEF ThreadInv, Old
      <4>2. /\ GuardsOld(u)' <=> GuardsOld(u)
            /\ GuardsNext(u)' <=> GuardsNext(u)
            /\ Taken(u)' <=> Taken(u)
            /\ Taking(u)' <=> Taking(u)
            /\ Taken(u) => GuardsOld(u)
        BY <4>1 DEF GuardsOld, GuardsNext, Taken, Taking, NextLabels, HeadLabels
      <4>3. /\ GuardsOld(u) => pos[Old(u)] <= pos[head'.ptr]
            /\ Taken(u) => pos[Old(u)] < pos[head'.ptr]
        BY <2>1, <2>3, <4>1, <4>2 DEF Popping
      <4>. QED  BY <1>1, <2>2, <4>1, <4>2, <4>3 DEF Popping
    <3>3. Popping(t, pos)'
      BY <1>1, <1>2, <1>4, <2>1, <2>2, <2>3 DEF Popping, Taken, Taking
    <3>4. Apart'
      <4>1. \A u \in Threads \ Pushers : u # t /\ Taken(u) => Old(u) # Old(t)
        BY <2>1, <2>3 DEF ThreadInv, Popping
      <4>2. Apart /\ \A u \in Threads \ {t} : pc'[u] = pc[u] /\ Old(u)' = Old(u)
        BY <1>1, <2>3 DEF ThreadInv, Old
      <4>3. \A u \in Threads \ {t} : Taken(u)' <=> Taken(u)
        BY <4>2 DEF Taken
      <4>4. \A u \in Pushers : u # t
        OBVIOUS
      <4>. QED  BY <1>1, <4>1, <4>2, <4>3, <4>4 DEF Apart, Threads
    <3>. QED  BY <3>1, <3>2, <3>3, <3>4 DEF ThreadInv
  <2>6. SourcesInv(pos)'
    <3>1. ASSUME NEW n \in Linked
          PROVE  /\ HeadSource(n, pos)' <=> HeadSource(n, pos)
                 /\ TailSource(n, pos)' <=> TailSource(n, pos)
                 /\ NextSource(n)' <=> NextSource(n)
      <4>1. \A u \in Threads : u # t => pc'[u] = pc[u] /\ Old(u)' = Old(u) /\ my'[u] = my[u]
        BY <1>1 DEF Old
      <4>2. TailSource(n, pos)' <=> TailSource(n, pos)
        BY <1>1, <1>4, <4>1 DEF TailSource
      <4>3. NextSource(n)' <=> NextSource(n)
        BY <1>1, <1>4, <2>2, <4>1 DEF NextSource
      <4>4. HeadSource(n, pos)' <=> HeadSource(n, pos)
        <5>1. pos[head.ptr] <= pos[n] <=> n = head.ptr \/ pos[head'.ptr] <= pos[n]
          BY <2>1, <2>3
        <5>2. (\E u \in Threads : pc'[u] \in {"take_data", "close_next", "free_head"} /\ Old(u)' = n)
                <=> \/ n = head.ptr
                    \/ \E u \in Threads : pc[u] \in {"take_data", "close_next", "free_head"}
                                          /\ Old(u) = n
          BY <1>1, <1>4, <2>1, <4>1
        <5>. QED  BY <5>1, <5>2 DEF HeadSource
      <4>. QED  BY <4>2, <4>3, <4>4
    <3>. QED  BY <1>1, <2>2, <2>3, <3>1 DEF SourcesInv, One
  <2>. QED  BY <2>2, <2>4, <2>5, <2>6 DEF QueueInv
<1>. QED  BY <1>1, <1>3, <1>4

LEMMA TakeDataStep ==
    ASSUME ShapeInv, UnlinkedInv, NEW pos \in [Nodes -> Int], QueueInv(pos),
           NEW t \in Threads \ Pushers, TakeData(t)
    PROVE  UnlinkedInv' /\ QueueInv(pos)'
<1>0. pc[t] = "take_data" /\ UNCHANGED <<head, tail, live>>
  BY DEF TakeData, Goto
<1>1. /\ ChainInv(pos) /\ ThreadInv(pos) /\ SourcesInv(pos) /\ Popping(t, pos)
      /\ GuardsOld(t) /\ GuardsNext(t) /\ Taken(t) /\ Taking(t)
      /\ Linked \subseteq Nodes /\ NULL \notin Linked
      /\ head.ptr \in Linked /\ tail.ptr \in Linked
      /\ \A n \in Linked : pos[n] \in Int
      /\ Old(t) \in Linked /\ pos[Old(t)] < pos[head.ptr]
  BY <1>0, LinkedNodes DEF QueueInv, ChainInv, Chained, ThreadInv, GuardsOld, GuardsNext,
       Taken, Taking, NextLabels, Popping
<1>2. /\ pc'[t] = "close_next" /\ my'[t].old = my[t].old /\ my'[t].nxt = my[t].nxt
      /\ \A u \in Threads \ {t} : pc'[u] = pc[u] /\ my'[u] = my[u]
      /\ \A n \in Nodes : /\ node'[n].internal_count = node[n].internal_count
                          /\ node'[n].external_counters = node[n].external_counters
                          /\ node'[n].next = node[n].next
                          /\ n # Old(t) => node'[n] = node[n]
  BY <1>1, TakeDataDoes DEF Moves, SameLocals
<1>3. UnlinkedInv' /\ Linked' = Linked
  BY <1>0, <1>1, <1>2, UnlinkedSame
<1>4. \A u \in Threads : Old(u)' = Old(u) /\ my'[u].nxt = my[u].nxt
  BY <1>2 DEF Old
<1>5. ChainInv(pos)'
  <2>1. Chained(pos)'
    BY <1>0, <1>1, <1>2, <1>3 DEF ChainInv, Chained
  <2>2. Ended(pos)'
    <3>1. \A u \in Pushers : pc'[u] = pc[u] /\ Old(u)' = Old(u)
      BY <1>2, <1>4 DEF Threads
    <3>. QED  BY <1>0, <1>1, <1>2, <1>3, <3>1 DEF ChainInv, Ended
  <2>3. Filled(pos)'
    <3>1. \A n \in Linked : pos[head.ptr] <= pos[n] => node'[n] = node[n]
      BY <1>1, <1>2
    <3>2. \A u \in Threads : Taking(u) => Taking(u)'
      BY <1>2 DEF Taking
    <3>. QED  BY <1>0, <1>1, <1>2, <1>3, <1>4, <3>1, <3>2 DEF ChainInv, Filled
  <2>. QED  BY <2>1, <2>2, <2>3 DEF ChainInv
<1>6. ThreadInv(pos)'
  <2>1. ASSUME NEW u \in Pushers PROVE Pushing(u, pos)'
    <3>1. Pushing(u, pos) /\ pc'[u] = pc[u] /\ my'[u] = my[u] /\ Old(u)' = Old(u)
      BY <1>1, <1>2, <1>4, <2>1 DEF ThreadInv, Threads
    <3>2. /\ GuardsOld(u)' <=> GuardsOld(u)
          /\ pc[u] \in {"link_own", "link_help"} => GuardsOld(u)
      BY <3>1 DEF GuardsOld, PushLabels
    <3>3. GuardsOld(u) /\ pos[head.ptr] <= pos[Old(u)] => node'[Old(u)] = node[Old(u)]
      BY <1>1, <1>2, <3>1 DEF Pushing
    <3>. QED  BY <1>0, <1>3, <3>1, <3>2, <3>3 DEF Pushing
  <2>2. ASSUME NEW u \in (Threads \ Pushers) \ {t} PROVE Popping(u, pos)'
    <3>1. Popping(u, pos) /\ pc'[u] = pc[u] /\ my'[u] = my[u] /\ Old(u)' = Old(u)
      BY <1>1, <1>2, <1>4, <2>2 DEF ThreadInv
    <3>2. /\ GuardsOld(u)' <=> GuardsOld(u)
          /\ GuardsNext(u)' <=> GuardsNext(u)
          /\ Taken(u)' <=> Taken(u)
          /\ Taking(u)' <=> Taking(u)
          /\ Taken(u) => GuardsOld(u)
          /\ Taking(u) => Taken(u)
          /\ pc[u] \in {"take_data", "free_head", "free_next"} => Taken(u)
      BY <3>1 DEF GuardsOld, GuardsNext, Taken, Taking, NextLabels, HeadLabels
    <3>3. /\ GuardsOld(u) => node'[Old(u)].next = node[Old(u)].next
          /\ Taken(u) => node'[Old(u)] = node[Old(u)]
      <4>1. Taken(u) => Old(u) # Old(t)
        BY <1>1, <2>2 DEF ThreadInv, Apart
      <4>2. GuardsOld(u) => Old(u) \in Nodes
        BY <1>1, <3>1 DEF Popping
      <4>. QED  BY <1>2, <3>2, <4>1, <4>2
    <3>. QED  BY <1>0, <1>3, <3>1, <3>2, <3>3 DEF Popping
  <2>3. Popping(t, pos)'
    <3>1. node'[Old(t)].next = node[Old(t)].next
      BY <1>1, <1>2
    <3>. QED  BY <1>0, <1>1, <1>2, <1>3, <1>4, <3>1 DEF Popping, Taken, Taking
  <2>4. Apart'
    BY <1>1, <1>2, <1>4, StaysApart DEF ThreadInv
  <2>. QED  BY <2>1, <2>2, <2>3, <2>4 DEF ThreadInv
<1>7. SourcesInv(pos)'
  <2>1. ASSUME NEW n \in Linked
        PROVE  /\ HeadSource(n, pos)' <=> HeadSource(n, pos)
               /\ TailSource(n, pos)' <=> TailSource(n, pos)
               /\ NextSource(n)' <=> NextSource(n)
    <3>1. HeadSource(n, pos)' <=> HeadSource(n, pos)
      BY <1>0, <1>2, <1>4 DEF HeadSource
    <3>2. TailSource(n, pos)' <=> TailSource(n, pos)
      BY <1>0, <1>2, <1>4 DEF TailSource
    <3>3. NextSource(n)' <=> NextSource(n)
      BY <1>0, <1>1, <1>2, <1>3, <1>4 DEF NextSource
    <3>. QED  BY <3>1, <3>2, <3>3
  <2>. QED  BY <1>1, <1>2, <1>3, <2>1 DEF SourcesInv, One
<1>. QED  BY <1>3, <1>5, <1>6, <1>7 DEF QueueInv

LEMMA CloseNextStep ==
    ASSUME ShapeInv, UnlinkedInv, NEW pos \in [Nodes -> Int], QueueInv(pos),
           NEW t \in Threads \ Pushers, CloseNext(t)
    PROVE  UnlinkedInv' /\ QueueInv(pos)'
<1>0. pc[t] = "close_next" /\ UNCHANGED <<head, tail, live>>
  BY DEF CloseNext, Goto
<1>1. /\ ChainInv(pos) /\ ThreadInv(pos) /\ SourcesInv(pos) /\ Popping(t, pos)
      /\ GuardsOld(t) /\ GuardsNext(t) /\ Taken(t) /\ Taking(t)
      /\ Linked \subseteq Nodes /\ NULL \notin Linked
      /\ head.ptr \in Linked /\ tail.ptr \in Linked
      /\ \A n \in Linked : pos[n] \in Int
      /\ Old(t) \in Linked /\ pos[Old(t)] < pos[head.ptr]
      /\ node[Old(t)].next.ptr = my[t].nxt.ptr /\ my[t].nxt.ptr \in Linked
  BY <1>0, LinkedNodes DEF QueueInv, ChainInv, Chained, ThreadInv, GuardsOld, GuardsNext,
       Taken, Taking, NextLabels, Popping
<1>2. /\ pc'[t] = "free_head" /\ my'[t].old = my[t].old /\ my'[t].nxt.ptr = my[t].nxt.ptr
      /\ \A u \in Threads \ {t} : pc'[u] = pc[u] /\ my'[u] = my[u]
      /\ node'[Old(t)].next = Counted(1, NULL) /\ node'[Old(t)].next.ptr = NULL
      /\ \A n \in Nodes : /\ node'[n].internal_count = node[n].internal_count
                          /\ node'[n].external_counters = node[n].external_counters
                          /\ node'[n].data = node[n].data
                          /\ n # Old(t) => node'[n] = node[n]
  <2>1. /\ Moves(t, "close_next", "free_head") /\ my'[t].old = my[t].old
        /\ my'[t].nxt = node[Old(t)].next /\ node'[Old(t)].next = Counted(1, NULL)
        /\ \A n \in Nodes : /\ node'[n].internal_count = node[n].internal_count
                            /\ node'[n].external_counters = node[n].external_counters
                            /\ node'[n].data = node[n].data
                            /\ n # Old(t) => node'[n] = node[n]
    BY <1>1, CloseNextDoes
  <2>. QED  BY <1>1, <2>1 DEF Moves, Counted
<1>3. UnlinkedInv' /\ Linked' = Linked
  BY <1>0, <1>1, <1>2, UnlinkedSame
<1>4. \A u \in Threads : Old(u)' = Old(u) /\ my'[u].nxt.ptr = my[u].nxt.ptr
  BY <1>2 DEF Old
<1>5. ChainInv(pos)'
  <2>1. Chained(pos)'
    BY <1>0, <1>1, <1>2, <1>3 DEF ChainInv, Chained
  <2>2. Ended(pos)'
    <3>1. \A u \in Pushers : pc'[u] = pc[u] /\ Old(u)' = Old(u)
      BY <1>2, <1>4 DEF Threads
    <3>2. \A n \in Linked : pos[head.ptr] <= pos[n] => node'[n] = node[n]
      BY <1>1, <1>2
    <3>. QED  BY <1>0, <1>1, <1>3, <3>1, <3>2 DEF ChainInv, Ended
  <2>3. Filled(pos)'
    <3>1. \A n \in Linked : pos[head.ptr] <= pos[n] => node'[n] = node[n]
      BY <1>1, <1>2
    <3>2. \A n \in Linked : node'[n].next.ptr = NULL /\ pos[n] < pos[head.ptr] =>
            node'[n].next = Counted(1, NULL)
      BY <1>1, <1>2 DEF ChainInv, Filled
    <3>3. ASSUME NEW n \in Linked, node'[n].next.ptr # NULL, pos[n] < pos[head.ptr]
          PROVE  \E u \in Threads : Taking(u)' /\ Old(u)' = n
      <4>1. n # Old(t) /\ node[n].next.ptr # NULL
        BY <1>1, <1>2, <3>3
      <4>2. PICK u \in Threads : Taking(u) /\ Old(u) = n
        BY <1>1, <3>3, <4>1 DEF ChainInv, Filled
      <4>. QED  BY <1>2, <1>4, <4>1, <4>2 DEF Taking
    <3>4. \A n \in Linked : node'[n].next.ptr # NULL /\ pos[head.ptr] <= pos[n] =>
            node'[n].data # NULL
      BY <1>1, <3>1 DEF ChainInv, Filled
    <3>. QED  BY <1>0, <1>3, <3>2, <3>3, <3>4 DEF Filled
  <2>. QED  BY <2>1, <2>2, <2>3 DEF ChainInv
<1>6. ThreadInv(pos)'
  <2>1. ASSUME NEW u \in Pushers PROVE Pushing(u, pos)'
    <3>1. Pushing(u, pos) /\ pc'[u] = pc[u] /\ my'[u] = my[u] /\ Old(u)' = Old(u)
      BY <1>1, <1>2, <1>4, <2>1 DEF ThreadInv, Threads
    <3>2. /\ GuardsOld(u)' <=> GuardsOld(u)
          /\ pc[u] \in {"link_own", "link_help"} => GuardsOld(u)
      BY <3>1 DEF GuardsOld, PushLabels
    <3>3. GuardsOld(u) => node'[Old(u)].data = node[Old(u)].data
      BY <1>1, <1>2, <3>1 DEF Pushing
    <3>. QED  BY <1>0, <1>3, <3>1, <3>2, <3>3 DEF Pushing
  <2>2. ASSUME NEW u \in (Threads \ Pushers) \ {t} PROVE Popping(u, pos)'
    <3>1. Popping(u, pos) /\ pc'[u] = pc[u] /\ my'[u] = my[u] /\ Old(u)' = Old(u)
      BY <1>1, <1>2, <1>4, <2>2 DEF ThreadInv
    <3>2. /\ GuardsOld(u)' <=> GuardsOld(u)
          /\ GuardsNext(u)' <=> GuardsNext(u)
          /\ Taken(u)' <=> Taken(u)
          /\ Taking(u)' <=> Taking(u)
          /\ Taken(u) => GuardsOld(u)
          /\ Taking(u) => Taken(u)
          /\ pc[u] \in {"take_data", "free_head", "free_next"} => Taken(u)
      BY <3>1 DEF GuardsOld, GuardsNext, Taken, Taking, NextLabels, HeadLabels
    <3>3. Taken(u) => node'[Old(u)] = node[Old(u)]
      <4>1. Taken(u) => Old(u) # Old(t)
        BY <1>1, <2>2 DEF ThreadInv, Apart
      <4>2. GuardsOld(u) => Old(u) \in Nodes
        BY <1>1, <3>1 DEF Popping
      <4>. QED  BY <1>2, <3>2, <4>1, <4>2
    <3>. QED  BY <1>0, <1>3, <3>1, <3>2, <3>3 DEF Popping
  <2>3. Popping(t, pos)'
    BY <1>0, <1>1, <1>2, <1>3, <1>4 DEF Popping, Taken, Taking
  <2>4. Apart'
    BY <1>1, <1>2, <1>4, StaysApart DEF ThreadInv
  <2>. QED  BY <2>1, <2>2, <2>3, <2>4 DEF ThreadInv
<1>7. SourcesInv(pos)'
  <2>1. ASSUME NEW n \in Linked
        PROVE  /\ HeadSource(n, pos)' <=> HeadSource(n, pos)
               /\ TailSource(n, pos)' <=> TailSource(n, pos)
               /\ NextSource(n)' <=> NextSource(n)
    <3>1. HeadSource(n, pos)' <=> HeadSource(n, pos)
      BY <1>0, <1>2, <1>4 DEF HeadSource
    <3>2. TailSource(n, pos)' <=> TailSource(n, pos)
      BY <1>0, <1>2, <1>4 DEF TailSource
    <3>3. CASE n = my[t].nxt.ptr
      <4>1. NextSource(n)
        BY <1>1, <3>3 DEF NextSource
      <4>2. NextSource(n)'
        BY <1>2, <1>4, <3>3 DEF NextSource
      <4>. QED  BY <3>1, <3>2, <4>1, <4>2
    <3>4. CASE n # my[t].nxt.ptr
      <4>1. (\E m \in Linked : node'[m].next.ptr = n) <=> \E m \in Linked : node[m].next.ptr = n
        BY <1>1, <1>2, <3>4
      <4>2. (\E u \in Threads : pc'[u] \in {"free_head", "free_next"} /\ my'[u].nxt.ptr = n)
              <=> \E u \in Threads : pc[u] \in {"free_head", "free_next"} /\ my[u].nxt.ptr = n
        BY <1>2, <1>4, <3>4
      <4>. QED  BY <1>3, <3>1, <3>2, <4>1, <4>2 DEF NextSource
    <3>. QED  BY <3>3, <3>4
  <2>. QED  BY <1>1, <1>2, <1>3, <2>1 DEF SourcesInv, One
<1>. QED  BY <1>3, <1>5, <1>6, <1>7 DEF QueueInv

----------------------------------------------------------------------------
(* A step of a pusher *)

LEMMA PushActing ==
    ASSUME ShapeInv, UnlinkedInv, NEW pos \in [Nodes -> Int], QueueInv(pos), NEW t \in Pushers
    PROVE  ActingInv(t)
<1>1. t \in Threads /\ pc[t] \in PushPlaces
  BY DEF Threads, ShapeInv, PlacesInv
<1>2. GuardsOld(t) => Old(t) \in Nodes
  BY LinkedNodes DEF QueueInv, ThreadInv, Pushing
<1>3. /\ ~GuardsNext(t) /\ pc[t] # "cas_head" /\ pc[t] # "destroy_head" /\ pc[t] # "destroy_tail"
  BY <1>1 DEF PushPlaces, PushLabels, GuardsNext, NextLabels
<1>4. pc[t] # "idle" => my[t].val # NULL
  BY DEF UnlinkedInv
<1>. QED  BY <1>2, <1>3, <1>4 DEF ActingInv

LEMMA PushCounts ==
    ASSUME ShapeInv, UnlinkedInv, AccountInv, NEW pos \in [Nodes -> Int], QueueInv(pos),
           NEW t \in Pushers, UpdateCounts(t), ShapeInv'
    PROVE  UnlinkedInv' /\ QueueInv(pos)' /\ AccountInv'
<1>. DEFINE p == my[t].old
            c == p.external_count - 1
<1>1. t \in Threads /\ pc[t] \in PushPlaces /\ UNCHANGED <<head, tail, my>> /\ p \in AnyLink
  BY LocalParts DEF Threads, ShapeInv, PlacesInv, UpdateCounts
<1>2. Moves(t, "free_tail", "drop_tail") /\ FreeExternalCounter(p)
  <2>1. pc[t] \notin {"free_head", "free_next", "drop_next", "destroy_head", "destroy_tail"}
    BY <1>1 DEF PushPlaces, PushLabels
  <2>. QED  BY <1>1, <2>1, UpdateCountsDoes DEF Moves
<1>3. /\ UnlinkedInv' /\ QueueInv(pos)' /\ live' = live
      /\ Stored(Old(t), (node[Old(t)].internal_count + p.external_count - 1) % CountRange,
                node[Old(t)].external_counters - 1)
  BY <1>1, <1>2, FreeTailStep
<1>4. p.ptr \in Nodes /\ p.ptr \in live /\ p.ptr = Old(t) /\ c \in Int
  <2>1. Old(t) \in Linked
    BY <1>2 DEF Moves, QueueInv, ThreadInv, Pushing, GuardsOld, PushLabels
  <2>. QED  BY <1>1, <2>1, LinkedNodes DEF Old, AnyLink
<1>5. Stored(p.ptr, (node[p.ptr].internal_count + c) % CountRange,
             node[Old(t)].external_counters - 1)
  <2>1. node[p.ptr].internal_count + p.external_count - 1 = node[p.ptr].internal_count + c
    BY <1>1, <1>4, NodeParts DEF AnyLink
  <2>. HIDE DEF c, p
  <2>. QED  BY <1>3, <1>4, <2>1
<1>6. ASSUME NEW n \in Nodes
      PROVE  (Owed(t, n)' - Owed(t, n)) - (Held(t, n)' - Held(t, n)) = IF n = p.ptr THEN -c ELSE 0
  <2>1. pc[t] = "free_tail" /\ pc'[t] = "drop_tail" /\ Old(t)' = Old(t)
    BY <1>1, <1>2 DEF Moves, Old
  <2>2. /\ Held(t, n) = One(Old(t) = n) /\ Owed(t, n) = Extra(p, n)
        /\ Held(t, n)' = One(Old(t) = n) /\ Owed(t, n)' = 0
    BY <1>1, <2>1, Holding, HoldingAfter DEF HoldingFacts, One
  <2>. QED  BY <1>4, <2>2 DEF Extra, One
<1>7. \A u \in Threads \ {t} : pc'[u] = pc[u] /\ my'[u] = my[u]
  BY <1>2 DEF Moves
<1>8. AccountInv'
  <2>. HIDE DEF c, p
  <2>. QED  BY <1>1, <1>3, <1>4, <1>5, <1>6, <1>7, CountedAccounts
<1>. QED  BY <1>3, <1>8

LEMMA PushDrops ==
    ASSUME ShapeInv, UnlinkedInv, AccountInv, NEW pos \in [Nodes -> Int], QueueInv(pos),
           NEW t \in Pushers, DropTail(t), ShapeInv'
    PROVE  UnlinkedInv' /\ QueueInv(pos)' /\ AccountInv'
<1>. DEFINE p == my[t].old
<1>1. /\ t \in Threads /\ UNCHANGED <<head, tail>> /\ p \in AnyLink /\ DropGuard(p)
      /\ pc[t] = "drop_tail" /\ SameLocals(t)
      /\ \/ pc'[t] = "guard_tail" /\ my[t].new # NULL /\ my'[t].val = my[t].val
         \/ pc'[t] = "idle" /\ my[t].new = NULL
      /\ \A u \in Threads \ {t} : pc'[u] = pc[u] /\ my'[u] = my[u]
  <2>1. t \in Threads /\ pc[t] = "drop_tail" /\ UNCHANGED <<head, tail>>
    BY DEF Threads, DropTail
  <2>. QED  BY <2>1, DropTailDoes, LocalParts DEF Moves
<1>2. p.ptr \in Linked /\ p.ptr \in Nodes /\ p.ptr \in live /\ p.ptr = Old(t)
  BY <1>1, LinkedNodes DEF QueueInv, ThreadInv, Pushing, GuardsOld, PushLabels, Old
<1>3. Held(t, p.ptr) = 1
  BY <1>1, <1>2, Holding DEF HoldingFacts, One
<1>4. NewInv(t)' /\ my'[t].new = my[t].new
  BY <1>1 DEF UnlinkedInv, NewInv, SameLocals
<1>5. Leaving(t, pos)' /\ pc'[t] \notin Reporting
  BY <1>1 DEF Leaving, Reporting
<1>6. /\ UnlinkedInv' /\ QueueInv(pos)'
      /\ live' # live => node[p.ptr].next.ptr = NULL
      /\ Stored(p.ptr, (node[p.ptr].internal_count - 1) % CountRange,
                node[p.ptr].external_counters)
  <2>. HIDE DEF p
  <2>. QED  BY <1>1, <1>2, <1>3, <1>4, <1>5, DroppedStep
<1>7. Stored(p.ptr, (node[p.ptr].internal_count + (-1)) % CountRange,
             node[p.ptr].external_counters)
  <2>1. node[p.ptr].internal_count - 1 = node[p.ptr].internal_count + (-1)
    BY <1>2, NodeParts
  <2>. QED  BY <1>6, <2>1
<1>8. ASSUME NEW n \in Nodes
      PROVE  (Owed(t, n)' - Owed(t, n)) - (Held(t, n)' - Held(t, n))
               = IF n = p.ptr THEN -(-1) ELSE 0
  <2>1. /\ Held(t, n) = One(Old(t) = n) /\ Owed(t, n) = 0
        /\ Held(t, n)' = 0 /\ Owed(t, n)' = 0
    BY <1>1, Holding, HoldingAfter DEF HoldingFacts
  <2>. QED  BY <1>2, <2>1 DEF One
<1>9. AccountInv'
  <2>1. -1 \in Int
    OBVIOUS
  <2>. HIDE DEF p
  <2>. QED  BY <1>1, <1>2, <1>6, <1>7, <1>8, <2>1, CountedAccounts
<1>. QED  BY <1>6, <1>9

LEMMA PushKeeps ==
    ASSUME ShapeInv, UnlinkedInv, AccountInv, NEW pos \in [Nodes -> Int], QueueInv(pos),
           NEW t \in Pushers, Push(t)
    PROVE  /\ ShapeInv' /\ UnlinkedInv' /\ AccountInv'
           /\ \E after \in [Nodes -> Int] : QueueInv(after)'
<1>1. ActingInv(t) /\ t \in Threads
  BY PushActing DEF Threads
<1>2. ShapeInv'
  BY <1>1, PushShape
<1>3. CASE PushStart(t)
  BY <1>1, <1>2, <1>3, PushAccounts, PushStartStep
<1>4. CASE GuardTail(t)
  BY <1>1, <1>2, <1>4, PushAccounts, GuardTailStep
<1>5. CASE CasData(t)
  BY <1>1, <1>2, <1>5, PushAccounts, CasDataStep
<1>6. CASE LinkNext(t)
  <2>1. AccountInv'
    BY <1>1, <1>2, <1>6, PushAccounts
  <2>2. Old(t) \in Linked /\ Old(t) \in Nodes
    BY <1>6, LinkedNodes DEF LinkNext, QueueInv, ThreadInv, Pushing, GuardsOld, PushLabels
  <2>3. LinksNew(t) \/ FindsLinked(t)
    BY <1>6, <2>2, LinkNextDoes
  <2>4. CASE LinksNew(t)
    BY <1>2, <1>6, <2>1, <2>2, <2>4, LinksStep
  <2>5. CASE FindsLinked(t)
    BY <1>2, <1>6, <2>1, <2>2, <2>5, FindsLinkedStep
  <2>. QED  BY <2>3, <2>4, <2>5
<1>7. CASE SetNewTail(t)
  BY <1>1, <1>2, <1>7, PushAccounts, SetNewTailStep
<1>8. CASE UpdateCounts(t)
  BY <1>2, <1>8, PushCounts
<1>9. CASE DropTail(t)
  BY <1>2, <1>9, PushDrops
<1>. QED  BY <1>3, <1>4, <1>5, <1>6, <1>7, <1>8, <1>9 DEF Push

----------------------------------------------------------------------------
(* A step of a popper *)

LEMMA PopActing ==
    ASSUME ShapeInv, UnlinkedInv, NEW pos \in [Nodes -> Int], QueueInv(pos),
           NEW t \in Threads \ Pushers, pc[t] # "destroy_tail"
    PROVE  ActingInv(t)
<1>1. (GuardsOld(t) => Old(t) \in Nodes) /\ (GuardsNext(t) => my[t].nxt.ptr \in Nodes)
  BY LinkedNodes DEF QueueInv, ThreadInv, Popping
<1>2. head.ptr \in Nodes
  BY LinkedNodes DEF QueueInv, ChainInv, Chained
<1>3. pc[t] = "cas_head" /\ head = my[t].old => node[Old(t)].data # NULL
  BY CasHeadFacts
<1>. QED  BY <1>1, <1>2, <1>3 DEF ActingInv

LEMMA PopReports ==
    ASSUME ShapeInv, UnlinkedInv, AccountInv, NEW pos \in [Nodes -> Int], QueueInv(pos),
           NEW t \in Threads \ Pushers, UpdateCounts(t), ShapeInv',
           pc[t] \in {"free_head", "free_next"}
    PROVE  UnlinkedInv' /\ QueueInv(pos)' /\ AccountInv'
<1>1. PICK p \in AnyLink : p = IF pc[t] = "free_head" THEN my[t].old ELSE my[t].nxt
  BY LocalParts
<1>. DEFINE c == p.external_count - 1
<1>2. /\ UNCHANGED <<head, tail, my>> /\ FreeExternalCounter(p)
      /\ IF pc[t] = "free_head" THEN Moves(t, "free_head", "free_next")
                                ELSE Moves(t, "free_next", "drop_next")
  BY <1>1, UpdateCountsDoes DEF UpdateCounts, Moves
<1>3. /\ UnlinkedInv' /\ QueueInv(pos)' /\ live' = live
      /\ Stored(p.ptr, (node[p.ptr].internal_count + p.external_count - 1) % CountRange,
                node[p.ptr].external_counters - 1)
  BY <1>1, <1>2, FreeHeadStep, FreeNextStep DEF Old
<1>4. /\ Old(t) \in Linked /\ my[t].nxt.ptr \in Linked /\ Old(t) # my[t].nxt.ptr
      /\ p.ptr \in Nodes /\ p.ptr \in live /\ c \in Int
  <2>1. /\ Old(t) \in Linked /\ my[t].nxt.ptr \in Linked
        /\ pos[my[t].nxt.ptr] = pos[Old(t)] + 1 /\ pos[Old(t)] \in Int
    BY LinkedNodes DEF QueueInv, ThreadInv, Popping, GuardsOld, GuardsNext, NextLabels
  <2>. QED  BY <1>1, <2>1, LinkedNodes DEF Old, AnyLink
<1>5. Stored(p.ptr, (node[p.ptr].internal_count + c) % CountRange,
             node[p.ptr].external_counters - 1)
  <2>1. node[p.ptr].internal_count + p.external_count - 1 = node[p.ptr].internal_count + c
    BY <1>1, <1>4, NodeParts DEF AnyLink
  <2>. HIDE DEF c
  <2>. QED  BY <1>3, <1>4, <2>1
<1>6. ASSUME NEW n \in Nodes
      PROVE  (Owed(t, n)' - Owed(t, n)) - (Held(t, n)' - Held(t, n)) = IF n = p.ptr THEN -c ELSE 0
  <2>0. /\ Old(t)' = Old(t) /\ my'[t] = my[t]
        /\ Extra(my[t].old, n) \in Int /\ Extra(my[t].nxt, n) \in Int
    BY <1>2, LocalParts, ExtraType DEF Old
  <2>1. CASE pc[t] = "free_head"
    <3>1. pc'[t] = "free_next" /\ p = my[t].old /\ p.ptr = Old(t)
      BY <1>1, <1>2, <2>1 DEF Moves, Old
    <3>2. /\ Held(t, n)' = Held(t, n) /\ Held(t, n) \in Int
          /\ Owed(t, n) = Extra(my[t].old, n) + Extra(my[t].nxt, n)
          /\ Owed(t, n)' = Extra(my[t].nxt, n)
      BY <2>0, <2>1, <3>1, Holding, HoldingAfter DEF HoldingFacts, One
    <3>. QED  BY <1>4, <2>0, <3>1, <3>2 DEF Extra
  <2>2. CASE pc[t] = "free_next"
    <3>1. pc'[t] = "drop_next" /\ p = my[t].nxt
      BY <1>1, <1>2, <2>2 DEF Moves
    <3>2. /\ Held(t, n)' = Held(t, n) /\ Held(t, n) \in Int
          /\ Owed(t, n) = Extra(my[t].nxt, n) /\ Owed(t, n)' = 0
      BY <2>0, <2>2, <3>1, Holding, HoldingAfter DEF HoldingFacts, One
    <3>. QED  BY <1>4, <2>0, <3>1, <3>2 DEF Extra
  <2>. QED  BY <2>1, <2>2
<1>7. \A u \in Threads \ {t} : pc'[u] = pc[u] /\ my'[u] = my[u]
  BY <1>2 DEF Moves
<1>8. AccountInv'
  <2>. HIDE DEF c
  <2>. QED  BY <1>1, <1>2, <1>3, <1>4, <1>5, <1>6, <1>7, CountedAccounts
<1>. QED  BY <1>3, <1>8

LEMMA PopDrops ==
    ASSUME ShapeInv, UnlinkedInv, AccountInv, NEW pos \in [Nodes -> Int], QueueInv(pos),
           NEW t \in Threads \ Pushers, ShapeInv',
           \/ DropHead(t)
           \/ UpdateCounts(t) /\ pc[t] = "drop_next"
    PROVE  UnlinkedInv' /\ QueueInv(pos)' /\ AccountInv'
<1>0. pc[t] \in {"drop_head", "drop_next"}
  BY DEF DropHead
<1>1. PICK p \in AnyLink : p = IF pc[t] = "drop_head" THEN my[t].old ELSE my[t].nxt
  BY LocalParts
<1>2. /\ UNCHANGED <<head, tail>> /\ DropGuard(p)
      /\ my'[t].old = my[t].old /\ my'[t].nxt = my[t].nxt /\ Old(t)' = Old(t)
      /\ IF pc[t] = "drop_head" THEN pc'[t] \in {"guard_head", "idle", "destroy_head"}
                                ELSE pc'[t] = "drop_head"
      /\ \A u \in Threads \ {t} : pc'[u] = pc[u] /\ my'[u] = my[u]
  <2>1. CASE pc[t] = "drop_head"
    <3>1. DropHead(t)
      BY <2>1
    <3>2. UNCHANGED <<head, tail>>
      BY <3>1 DEF DropHead
    <3>. QED  BY <1>1, <2>1, <3>1, <3>2, DropHeadDoes DEF Moves, SameLocals, Old
  <2>2. CASE pc[t] = "drop_next"
    <3>1. UpdateCounts(t)
      BY <2>2 DEF DropHead
    <3>2. UNCHANGED <<head, tail>>
      BY <3>1 DEF UpdateCounts
    <3>. QED  BY <1>1, <2>2, <3>1, <3>2, UpdateCountsDoes DEF Moves, Old
  <2>. QED  BY <1>0, <2>1, <2>2
<1>3. /\ Old(t) \in Linked /\ p.ptr \in Linked /\ p.ptr \in Nodes /\ p.ptr \in live
      /\ pos[Old(t)] <= pos[head.ptr]
      /\ pc[t] = "drop_head" => p.ptr = Old(t)
      /\ pc[t] = "drop_next" => p.ptr = my[t].nxt.ptr /\ Old(t) # p.ptr
  <2>1. Old(t) \in Linked /\ pos[Old(t)] <= pos[head.ptr] /\ pos[Old(t)] \in Int
    BY <1>0, LinkedNodes DEF QueueInv, ThreadInv, Popping, GuardsOld, HeadLabels, NextLabels
  <2>2. pc[t] = "drop_next" => my[t].nxt.ptr \in Linked /\ pos[my[t].nxt.ptr] = pos[Old(t)] + 1
    BY DEF QueueInv, ThreadInv, Popping, GuardsNext, NextLabels
  <2>. QED  BY <1>0, <1>1, <2>1, <2>2, LinkedNodes DEF Old
<1>4. Held(t, p.ptr) = 1
  BY <1>0, <1>3, Holding DEF HoldingFacts, One
<1>5. Linked \ {p.ptr} \subseteq Linked' => Leaving(t, pos)'
  BY <1>0, <1>2, <1>3 DEF Leaving
<1>6. /\ UnlinkedInv' /\ QueueInv(pos)'
      /\ live' # live => node[p.ptr].next.ptr = NULL
      /\ Stored(p.ptr, (node[p.ptr].internal_count - 1) % CountRange,
                node[p.ptr].external_counters)
  <2>1. pc[t] \in {"drop_tail", "drop_next", "drop_head"} /\ pc'[t] \notin Reporting
    BY <1>0, <1>2 DEF Reporting
  <2>2. t \in Threads /\ t \notin Pushers
    OBVIOUS
  <2>. QED  BY <1>2, <1>3, <1>4, <1>5, <2>1, <2>2, DroppedStep
<1>7. Stored(p.ptr, (node[p.ptr].internal_count + (-1)) % CountRange,
             node[p.ptr].external_counters)
  <2>1. node[p.ptr].internal_count - 1 = node[p.ptr].internal_count + (-1)
    BY <1>3, NodeParts
  <2>. QED  BY <1>6, <2>1
<1>8. ASSUME NEW n \in Nodes
      PROVE  (Owed(t, n)' - Owed(t, n)) - (Held(t, n)' - Held(t, n))
               = IF n = p.ptr THEN -(-1) ELSE 0
  <2>1. CASE pc[t] = "drop_head"
    <3>1. /\ Held(t, n) = One(Old(t) = n) /\ Owed(t, n) = 0
          /\ Held(t, n)' = 0 /\ Owed(t, n)' = 0
      BY <1>2, <2>1, Holding, HoldingAfter DEF HoldingFacts
    <3>. QED  BY <1>3, <2>1, <3>1 DEF One
  <2>2. CASE pc[t] = "drop_next"
    <3>1. /\ Held(t, n) = One(Old(t) = n) + One(my[t].nxt.ptr = n) /\ Owed(t, n) = 0
          /\ Held(t, n)' = One(Old(t) = n) /\ Owed(t, n)' = 0
      BY <1>2, <2>2, Holding, HoldingAfter DEF HoldingFacts, One
    <3>. QED  BY <1>3, <2>2, <3>1 DEF One
  <2>. QED  BY <1>0, <2>1, <2>2
<1>9. AccountInv'
  <2>1. -1 \in Int
    OBVIOUS
  <2>. QED  BY <1>2, <1>3, <1>6, <1>7, <1>8, <2>1, CountedAccounts
<1>. QED  BY <1>6, <1>9

LEMMA PopKeeps ==
    ASSUME ShapeInv, UnlinkedInv, AccountInv, NEW pos \in [Nodes -> Int], QueueInv(pos),
           NEW t \in Threads \ Pushers, Pop(t), pc[t] \notin {"destroy_head", "destroy_tail"}
    PROVE  ShapeInv' /\ UnlinkedInv' /\ AccountInv' /\ QueueInv(pos)'
<1>1. ActingInv(t)
  BY PopActing
<1>2. ShapeInv'
  BY <1>1, PopShape
<1>3. Taking(t) => node[Old(t)].next.ptr = my[t].nxt.ptr
  BY DEF QueueInv, ThreadInv, Popping
<1>4. CASE PopStart(t)
  BY <1>1, <1>2, <1>3, <1>4, PopAccounts, PopStartStep
<1>5. CASE GuardHead(t)
  BY <1>1, <1>2, <1>3, <1>5, PopAccounts, GuardHeadStep
<1>6. CASE CheckEmpty(t)
  BY <1>1, <1>2, <1>3, <1>6, PopAccounts, CheckEmptyStep
<1>7. CASE GuardNext(t)
  BY <1>1, <1>2, <1>3, <1>7, PopAccounts, GuardNextStep
<1>8. CASE StartCallback(t) \/ EndCallback(t)
  BY <1>1, <1>2, <1>3, <1>8, PopAccounts, CallbackStep
<1>9. CASE CasHead(t)
  BY <1>1, <1>2, <1>3, <1>9, PopAccounts, CasHeadStep
<1>10. CASE TakeData(t)
  BY <1>1, <1>2, <1>3, <1>10, PopAccounts, TakeDataStep
<1>11. CASE CloseNext(t)
  BY <1>1, <1>2, <1>3, <1>11, PopAccounts, CloseNextStep
<1>12. CASE UpdateCounts(t)
  <2>1. pc[t] \in {"free_head", "free_next", "drop_next"}
    <3>1. pc[t] # "free_tail"
      BY DEF ShapeInv, PlacesInv, PopPlaces, HeadLabels, NextLabels
    <3>. QED  BY <1>12, <3>1, UpdateCountsDoes DEF Moves
  <2>. QED  BY <1>2, <1>12, <2>1, PopReports, PopDrops
<1>13. CASE DropHead(t)
  BY <1>2, <1>13, PopDrops
<1>. QED  BY <1>4, <1>5, <1>6, <1>7, <1>8, <1>9, <1>10, <1>11, <1>12, <1>13 DEF Pop

----------------------------------------------------------------------------
(* The destructor *)

Alone == \A u \in Threads \ {Destructor} : pc[u] = "idle"

LEMMA DestructorIsNone == Destructor \in Threads /\ Destructor \notin Pushers
  BY QueueAssumption DEF Threads

LEMMA AloneLinked ==
    ASSUME ShapeInv, UnlinkedInv, Alone
    PROVE  Linked = live
<1>1. \A u \in Pushers : my[u].new = NULL
  BY DestructorIsNone DEF Alone, UnlinkedInv, Threads
<1>2. NULL \notin live
  BY QueueAssumption DEF ShapeInv
<1>. QED  BY <1>1, <1>2 DEF Linked

\* In an empty queue that the destructor has for itself only one node is left.
LEMMA EmptyAlone ==
    ASSUME ShapeInv, UnlinkedInv, AccountInv, NEW pos \in [Nodes -> Int], QueueInv(pos),
           Alone, pc[Destructor] = "drop_head", Old(Destructor) = head.ptr, tail.ptr = head.ptr
    PROVE  live = {head.ptr} /\ node[head.ptr].external_counters # 0
<1>1. /\ ChainInv(pos) /\ ThreadInv(pos) /\ SourcesInv(pos)
      /\ Linked \subseteq Nodes /\ NULL \notin Linked /\ head.ptr \in Linked
      /\ \A n \in Linked : pos[n] \in Int
      /\ Linked = live
  BY LinkedNodes, AloneLinked DEF QueueInv, ChainInv, Chained
<1>2. \A u \in Threads : pc[u] \in {"idle", "drop_head"} /\ (pc[u] = "drop_head" => u = Destructor)
  BY DEF Alone
<1>3. ASSUME NEW n \in Linked, n # head.ptr PROVE FALSE
  <2>1. pos[n] < pos[head.ptr]
    <3>1. ~(pos[n] > pos[tail.ptr])
      BY <1>1, <1>2 DEF ChainInv, Ended, Threads
    <3>2. pos[n] # pos[head.ptr]
      BY <1>1, <1>3 DEF ChainInv, Chained
    <3>. QED  BY <1>1, <3>1, <3>2
  <2>2. \A m \in Linked : node[m].next.ptr # n
    <3>1. ASSUME NEW m \in Linked, node[m].next.ptr = n PROVE FALSE
      <4>1. pos[n] = pos[m] + 1 /\ node[m].next.ptr # NULL
        BY <1>1, <3>1 DEF ChainInv, Chained
      <4>2. pos[m] < pos[head.ptr]
        BY <1>1, <2>1, <4>1
      <4>. QED  BY <1>1, <1>2, <4>1, <4>2 DEF ChainInv, Filled, Taking
    <3>. QED  BY <3>1
  <2>3. NoOtherSource(Destructor, n, pos)
    BY <1>2, <2>1, <2>2 DEF NoOtherSource
  <2>4. ~HeadSource(n, pos) /\ ~TailSource(n, pos) /\ ~NextSource(n)
    BY <1>1, <1>2, <2>1, <2>2 DEF HeadSource, TailSource, NextSource
  <2>5. node[n].internal_count # 0
    BY <1>1, <2>4 DEF SourcesInv, One
  <2>6. \A u \in Threads : Held(u, n) = 0 /\ Owed(u, n) = 0
    BY <1>2, <1>3, Holding DEF HoldingFacts, One
  <2>7. OnlyOwes(Destructor, n) /\ Owed(Destructor, n) = 0
    BY <1>1, <2>3, <2>6, OnlyOwesFollows, DestructorIsNone
  <2>8. node[n].internal_count = Cardinality(HoldersOf(n)) /\ n \in Nodes
    BY <1>1, <2>7, CountIsHolders, DestructorIsNone
  <2>9. HoldersOf(n) = {}
    BY <2>6 DEF HoldersOf
  <2>. QED  BY <2>5, <2>8, <2>9, FS_EmptySet
<1>4. node[head.ptr].external_counters # 0
  <2>1. HeadSource(head.ptr, pos)
    BY <1>1 DEF HeadSource
  <2>. QED  BY <1>1, <2>1 DEF SourcesInv, One
<1>. QED  BY <1>1, <1>3, <1>4

\* It gives up the copies of head first, and leaves one source: tail.
LEMMA DestroyHeadStep ==
    ASSUME ShapeInv, UnlinkedInv, AccountInv, NEW pos \in [Nodes -> Int], QueueInv(pos),
           Alone, pc[Destructor] = "destroy_head", live = {head.ptr}, tail.ptr = head.ptr,
           FreeExternalCounter(head), UNCHANGED tail
    PROVE  /\ live' = {tail.ptr} /\ \A m \in Nodes \ {tail.ptr} : node'[m] = node[m]
           /\ node'[tail.ptr].external_counters = 1
           /\ Multiple(node'[tail.ptr].internal_count + Extra(tail, tail.ptr))
<1>. DEFINE h == head.ptr
            internal == (node[h].internal_count + head.external_count - 1) % CountRange
<1>1. /\ ChainInv(pos) /\ SourcesInv(pos) /\ Linked = {h} /\ h \in Nodes /\ h # NULL
      /\ \A n \in Linked : pos[n] \in Int
  BY LinkedNodes, AloneLinked, QueueAssumption DEF QueueInv
<1>2. \A u \in Threads : pc[u] \in {"idle", "destroy_head"}
  BY DEF Alone
<1>3. \A m \in Nodes : node[m].next.ptr # h
  <2>1. node[h].next.ptr # h
    BY <1>1 DEF ChainInv, Chained
  <2>. QED  BY <1>1, <2>1, FreshOutside
<1>4. node[h].external_counters = 2
  <2>1. HeadSource(h, pos) /\ TailSource(h, pos) /\ ~NextSource(h)
    BY <1>1, <1>2, <1>3 DEF HeadSource, TailSource, NextSource
  <2>. QED  BY <1>1, <2>1 DEF SourcesInv, One
<1>5. Stored(h, internal, 1)
  <2>1. Stored(h, internal, (node[h].external_counters - 1) % 4)
    BY <1>1, FreeExternalCounterDoes DEF ShapeInv
  <2>2. (2 - 1) % 4 = 1
    OBVIOUS
  <2>. HIDE DEF internal
  <2>. QED  BY <1>4, <2>1, <2>2
<1>6. Multiple(node[h].internal_count + (head.external_count - 1) + Extra(tail, h))
  <2>1. NextCopies(h) = 0
    <3>. DEFINE v == [m \in Nodes |-> Extra(node[m].next, h)]
    <3>1. \A m \in Nodes : v[m] = 0
      BY <1>3 DEF Extra
    <3>2. NextCopies(h) = SumOf(v, Nodes)
      BY DEF NextCopies
    <3>. HIDE DEF v
    <3>3. SumOf(v, Nodes) = v[h]
      BY <1>1, <3>1, SumOfSingle, QueueAssumption
    <3>. QED  BY <1>1, <3>1, <3>2, <3>3
  <2>2. Account(h) = 0
    <3>. DEFINE v == [t \in Threads |-> Owed(t, h) - Held(t, h)]
    <3>1. ASSUME NEW t \in Threads PROVE v[t] = 0
      <4>1. Held(t, h) = 0 /\ Owed(t, h) = 0
        BY <1>2, Holding DEF HoldingFacts
      <4>. QED  BY <4>1
    <3>2. Account(h) = SumOf(v, Threads)
      BY DEF Account
    <3>. HIDE DEF v
    <3>3. SumOf(v, Threads) = v[Destructor]
      BY <3>1, SumOfSingle, QueueAssumption, DestructorIsNone
    <3>. QED  BY <3>1, <3>2, <3>3, DestructorIsNone
  <2>3. Multiple(node[h].internal_count + Extra(head, h) + Extra(tail, h) + 0 + 0)
    BY <1>1, <2>1, <2>2 DEF AccountInv, Balance
  <2>4. /\ Extra(head, h) = head.external_count - 1 /\ Extra(head, h) \in Int
        /\ Extra(tail, h) \in Int /\ node[h].internal_count \in Int
    BY <1>1, NodeParts, AccountTypes DEF Extra
  <2>5. node[h].internal_count + Extra(head, h) + Extra(tail, h) + 0 + 0
          = node[h].internal_count + (head.external_count - 1) + Extra(tail, h)
    BY <2>4
  <2>. QED  BY <2>3, <2>5
<1>7. Multiple(internal + Extra(tail, h))
  <2>1. /\ node[h].internal_count \in Int /\ head.external_count \in Int /\ Extra(tail, h) \in Int
    BY <1>1, NodeParts, AccountTypes DEF ShapeInv, AnyLink
  <2>2. node[h].internal_count + head.external_count - 1 \in Int
    BY <2>1
  <2>3. PICK q \in Int :
          internal = (node[h].internal_count + head.external_count - 1) + q * CountRange
    BY <2>2, Wraps
  <2>. DEFINE s == node[h].internal_count + (head.external_count - 1) + Extra(tail, h)
  <2>4. s \in Int /\ Multiple(s)
    BY <1>6, <2>1
  <2>5. Multiple(s + q * CountRange)
    <3>. HIDE DEF s
    <3>. QED  BY <2>4, MultiplesAdd
  <2>6. s + q * CountRange = internal + Extra(tail, h)
    <3>1. q * CountRange \in Int
      BY QueueAssumption
    <3>2. \A j \in Int :
            s + j = ((node[h].internal_count + head.external_count - 1) + j) + Extra(tail, h)
      BY <2>1
    <3>. HIDE DEF s, internal
    <3>. QED  BY <2>3, <3>1, <3>2
  <2>. QED  BY <2>5, <2>6
<1>8. Kept(h, internal, 1)
  <2>. HIDE DEF internal
  <2>. QED  BY <1>5 DEF Stored, Freed
<1>. HIDE DEF internal
<1>. QED  BY <1>7, <1>8 DEF Kept, Counts

\* The copies of tail are the last ones: the node goes with them.
LEMMA DestroyTailStep ==
    ASSUME ShapeInv, live = {tail.ptr}, node[tail.ptr].external_counters = 1,
           Multiple(node[tail.ptr].internal_count + Extra(tail, tail.ptr)),
           FreeExternalCounter(tail)
    PROVE  /\ live' = {} /\ node'[tail.ptr] = Fresh
           /\ \A m \in Nodes \ {tail.ptr} : node'[m] = node[m]
<1>. DEFINE n == tail.ptr
            s == node[n].internal_count + tail.external_count - 1
<1>1. n \in Nodes /\ tail \in AnyLink /\ s \in Int
  BY NodeParts DEF ShapeInv, AnyLink
<1>2. Stored(n, s % CountRange, (1 - 1) % 4)
  BY <1>1, FreeExternalCounterDoes
<1>3. s % CountRange = 0
  <2>1. Multiple(s)
    <3>1. node[n].internal_count + Extra(tail, n) = s
      BY <1>1, NodeParts DEF Extra, AnyLink
    <3>. HIDE DEF s
    <3>. QED  BY <3>1
  <2>. HIDE DEF s
  <2>2. PICK q \in Int : s % CountRange = s + q * CountRange
    BY <1>1, Wraps
  <2>3. Multiple(s % CountRange)
    BY <1>1, <2>1, <2>2, MultiplesAdd
  <2>4. s % CountRange \in 0 .. CountRange - 1
    BY <1>1, Wraps
  <2>5. s % CountRange \in Int /\ s % CountRange < CountRange /\ -CountRange < s % CountRange
    BY <2>4, RangeFacts
  <2>. QED  BY <2>3, <2>5, SmallMultiple
<1>4. (1 - 1) % 4 = 0
  OBVIOUS
<1>. HIDE DEF s
<1>5. Freed(n, 0, 0)
  BY <1>2, <1>3, <1>4 DEF Stored, Kept
<1>. QED  BY <1>5 DEF Freed

\* A step moves one thread.
LEMMA OneMoves ==
    ASSUME ShapeInv, NEW t \in Threads, Push(t) \/ Pop(t)
    PROVE  \E to : pc' = [pc EXCEPT ![t] = to]
<1>1. ASSUME NEW from, NEW to, Goto(t, from, to) PROVE \E next : pc' = [pc EXCEPT ![t] = next]
  BY <1>1 DEF Goto
<1>2. CASE PushStart(t) \/ GuardTail(t) \/ CasData(t) \/ LinkNext(t) \/ SetNewTail(t)
  BY <1>1, <1>2 DEF PushStart, GuardTail, CasData, LinkNext, SetNewTail
<1>3. CASE DropTail(t)
  BY <1>1, <1>3 DEF DropTail
<1>4. CASE UpdateCounts(t)
  BY <1>1, <1>4 DEF UpdateCounts
<1>5. CASE PopStart(t) \/ GuardHead(t) \/ CheckEmpty(t) \/ GuardNext(t)
  BY <1>1, <1>5 DEF PopStart, GuardHead, CheckEmpty, GuardNext
<1>6. CASE StartCallback(t) \/ EndCallback(t) \/ CasHead(t) \/ TakeData(t) \/ CloseNext(t)
  BY <1>1, <1>6 DEF StartCallback, EndCallback, CasHead, TakeData, CloseNext
<1>7. CASE DropHead(t)
  BY <1>1, <1>7 DEF DropHead
<1>. QED  BY <1>2, <1>3, <1>4, <1>5, <1>6, <1>7 DEF Push, Pop

\* An idle thread can only begin an operation.
LEMMA IdleBegins ==
    ASSUME ShapeInv, NEW t \in Threads, pc[t] = "idle"
    PROVE  (Push(t) => PushStart(t)) /\ (Pop(t) => PopStart(t))
<1>1. \A from, to : from # "idle" => ~Goto(t, from, to)
  BY DEF Goto
<1>2. ~UpdateCounts(t)
  BY <1>1 DEF UpdateCounts
<1>3. ~GuardTail(t) /\ ~CasData(t) /\ ~LinkNext(t) /\ ~SetNewTail(t) /\ ~DropTail(t)
  BY <1>1 DEF GuardTail, CasData, LinkNext, SetNewTail, DropTail
<1>4. ~GuardHead(t) /\ ~CheckEmpty(t) /\ ~GuardNext(t) /\ ~StartCallback(t)
  BY <1>1 DEF GuardHead, CheckEmpty, GuardNext, StartCallback
<1>5. ~EndCallback(t) /\ ~CasHead(t) /\ ~TakeData(t) /\ ~CloseNext(t) /\ ~DropHead(t)
  BY <1>1 DEF EndCallback, CasHead, TakeData, CloseNext, DropHead
<1>. QED  BY <1>2, <1>3, <1>4, <1>5 DEF Push, Pop

\* While others still have to finish the destructor has not begun, and once it has they
\* do nothing.
LEMMA OthersAct ==
    ASSUME ShapeInv, ClosingInv, NEW t \in Threads,
           \/ t \in Pushers /\ Push(t)
           \/ t \in Poppers /\ Pop(t)
    PROVE  pc[Destructor] = "idle" /\ t # Destructor /\ pc'[Destructor] = "idle"
<1>1. t # Destructor /\ Destructor \in Threads /\ (t \in Poppers => t \notin Pushers)
  BY QueueAssumption DEF Threads
<1>2. ASSUME pc[Destructor] # "idle" PROVE FALSE
  <2>1. /\ pc[t] = "idle" /\ calls[t] \in Nat
        /\ calls[t] = IF t \in Pushers THEN Len(Script[t]) ELSE MaxPolls
    BY <1>1, <1>2 DEF ClosingInv, Done, ShapeInv
  <2>2. CASE t \in Pushers /\ Push(t)
    <3>1. PushStart(t)
      BY <2>1, <2>2, IdleBegins
    <3>2. calls[t] < Len(Script[t])
      BY <3>1 DEF PushStart
    <3>. QED  BY <2>1, <2>2, <3>2
  <2>3. CASE t \in Poppers /\ Pop(t)
    <3>1. PopStart(t)
      BY <2>1, <2>3, IdleBegins
    <3>2. calls[t] < MaxPolls
      BY <1>1, <3>1 DEF PopStart
    <3>. QED  BY <1>1, <2>1, <2>3, <3>2
  <2>. QED  BY <2>2, <2>3
<1>3. pc'[Destructor] = pc[Destructor]
  <2>1. PICK to : pc' = [pc EXCEPT ![t] = to]
    BY OneMoves
  <2>2. pc \in [Threads -> PushPlaces \cup PopPlaces]
    BY DEF ShapeInv, PlacesInv
  <2>. QED  BY <1>1, <2>1, <2>2
<1>. QED  BY <1>1, <1>2, <1>3

LEMMA DestructorCalls ==
    ASSUME Pop(Destructor)
    PROVE  calls' = calls
<1>1. CASE PopStart(Destructor) \/ GuardHead(Destructor) \/ CheckEmpty(Destructor)
           \/ GuardNext(Destructor)
  BY <1>1 DEF PopStart, GuardHead, CheckEmpty, GuardNext, history
<1>2. CASE StartCallback(Destructor) \/ EndCallback(Destructor) \/ CasHead(Destructor)
  BY <1>2 DEF StartCallback, EndCallback, CasHead, history
<1>3. CASE TakeData(Destructor) \/ CloseNext(Destructor) \/ UpdateCounts(Destructor)
  BY <1>3 DEF TakeData, CloseNext, UpdateCounts, history
<1>4. CASE DropHead(Destructor)
  BY <1>4 DEF DropHead
<1>. QED  BY <1>1, <1>2, <1>3, <1>4 DEF Pop

LEMMA DestructorAlone ==
    ASSUME ShapeInv, ClosingInv, Pop(Destructor)
    PROVE  /\ \A t \in Threads \ {Destructor} : Done(t) /\ Done(t)'
           /\ Alone
<1>1. \A t \in Threads \ {Destructor} : Done(t)
  <2>1. CASE pc[Destructor] # "idle"
    BY <2>1 DEF ClosingInv
  <2>2. CASE pc[Destructor] = "idle"
    BY <2>2, DestructorIsNone, IdleBegins DEF PopStart
  <2>. QED  BY <2>1, <2>2
<1>2. PICK to : pc' = [pc EXCEPT ![Destructor] = to]
  BY DestructorIsNone, OneMoves
<1>3. \A t \in Threads \ {Destructor} : pc'[t] = pc[t]
  BY <1>2 DEF ShapeInv, PlacesInv
<1>. QED  BY <1>1, <1>3, DestructorCalls DEF Done, Alone

LEMMA ClosingKept ==
    ASSUME ShapeInv, UnlinkedInv, AccountInv, ClosingInv,
           NEW pos \in [Nodes -> Int], QueueInv(pos), Pop(Destructor),
           pc[Destructor] \notin {"destroy_head", "destroy_tail"}
    PROVE  ClosingInv' /\ Alive'
<1>. DEFINE d == Destructor
<1>0. d \in Threads /\ d \in Threads \ Pushers /\ Alone
      /\ \A t \in Threads \ {d} : Done(t)'
  BY DestructorIsNone, DestructorAlone
<1>1. ASSUME pc'[d] \in {"idle", "guard_head", "check_empty", "guard_next", "callback",
                         "in_callback", "cas_head", "take_data"}
      PROVE  ClosingInv' /\ Alive'
  BY <1>0, <1>1 DEF ClosingInv, Alive
<1>2. ASSUME pc'[d] \in {"close_next", "free_head", "free_next", "drop_next"},
             ~my'[d].again => my'[d].val # NULL
      PROVE  ClosingInv' /\ Alive'
  BY <1>0, <1>2 DEF ClosingInv, Alive
<1>3. ASSUME pc'[d] = "drop_head", my'[d].val # NULL \/ my'[d].again
      PROVE  ClosingInv' /\ Alive'
  BY <1>0, <1>3 DEF ClosingInv, Alive
<1>4. CASE PopStart(d)
  BY <1>0, <1>1, <1>4, PopStartDoes DEF Moves
<1>5. CASE GuardHead(d)
  BY <1>0, <1>1, <1>5, GuardHeadDoes DEF Moves
<1>6. CASE CheckEmpty(d)
  <2>1. CASE pc'[d] = "guard_next"
    BY <1>1, <2>1
  <2>2. CASE pc'[d] # "guard_next"
    <3>1. /\ pc[d] = "check_empty" /\ pc'[d] = "drop_head" /\ tail.ptr = Old(d) /\ my' = my
          /\ head' = head /\ tail' = tail
      BY <1>0, <1>6, <2>2, CheckEmptyDoes DEF Moves, CheckEmpty
    <3>2. /\ pos[Old(d)] <= pos[head.ptr] /\ pos[head.ptr] <= pos[tail.ptr]
          /\ head.ptr \in Linked /\ tail.ptr \in Linked
          /\ pos[head.ptr] \in Int /\ pos[tail.ptr] \in Int
      BY <1>0, <3>1, LinkedNodes DEF QueueInv, ThreadInv, Popping, GuardsOld, HeadLabels,
         ChainInv, Chained
    <3>3. pos[head.ptr] = pos[tail.ptr]
      BY <3>1, <3>2
    <3>4. head.ptr = tail.ptr
      BY <3>2, <3>3 DEF QueueInv, ChainInv, Chained
    <3>5. Old(d)' = Old(d)
      BY <3>1 DEF Old
    <3>. QED  BY <1>0, <3>1, <3>4, <3>5 DEF ClosingInv, Alive
  <2>. QED  BY <2>1, <2>2
<1>7. CASE GuardNext(d)
  <2>1. Old(d) \in Nodes
    BY <1>0, <1>7, LinkedNodes DEF GuardNext, Goto, QueueInv, ThreadInv, Popping, GuardsOld,
       HeadLabels
  <2>2. (pc'[d] = "drop_head" /\ my'[d].again) \/ pc'[d] = "callback"
    BY <1>0, <1>7, <2>1, GuardNextDoes DEF Moves
  <2>. QED  BY <1>1, <1>3, <2>2
<1>8. CASE StartCallback(d) \/ EndCallback(d)
  <2>1. pc'[d] \in {"in_callback", "cas_head"}
    BY <1>0, <1>8, StartCallbackDoes, EndCallbackDoes DEF Moves
  <2>. QED  BY <1>1, <2>1
<1>9. CASE CasHead(d)
  <2>1. pc'[d] = "take_data" \/ (pc'[d] = "drop_next" /\ my'[d].again)
    BY <1>0, <1>9, CasHeadDoes DEF Moves
  <2>. QED  BY <1>1, <1>2, <2>1
<1>10. CASE TakeData(d)
  <2>1. pc[d] = "take_data" /\ Old(d) \in Nodes /\ node[Old(d)].data # NULL
    BY <1>0, <1>10, LinkedNodes DEF TakeData, Goto, QueueInv, ThreadInv, Popping, GuardsOld,
       NextLabels
  <2>2. pc'[d] = "close_next" /\ my'[d].val = node[Old(d)].data
    BY <1>0, <1>10, <2>1, TakeDataDoes DEF Moves
  <2>. QED  BY <1>2, <2>1, <2>2
<1>11. CASE CloseNext(d)
  <2>1. pc[d] = "close_next" /\ Old(d) \in Nodes
    BY <1>0, <1>11, LinkedNodes DEF CloseNext, Goto, QueueInv, ThreadInv, Popping, GuardsOld,
       NextLabels
  <2>2. pc'[d] = "free_head" /\ my'[d].val = my[d].val /\ my'[d].again = my[d].again
    BY <1>0, <1>11, <2>1, CloseNextDoes DEF Moves
  <2>. QED  BY <1>2, <2>1, <2>2 DEF ClosingInv
<1>12. CASE UpdateCounts(d)
  <2>1. /\ my' = my
        /\ \/ pc[d] = "free_head" /\ pc'[d] = "free_next"
           \/ pc[d] = "free_next" /\ pc'[d] = "drop_next"
           \/ pc[d] = "drop_next" /\ pc'[d] = "drop_head"
    <3>1. pc[d] # "free_tail"
      BY <1>0 DEF ShapeInv, PlacesInv, PopPlaces, HeadLabels, NextLabels
    <3>. QED  BY <1>0, <1>12, <3>1, UpdateCountsDoes DEF Moves
  <2>2. ~my[d].again => my[d].val # NULL
    BY <2>1 DEF ClosingInv
  <2>. QED  BY <1>2, <1>3, <2>1, <2>2
<1>13. CASE DropHead(d)
  <2>1. CASE pc'[d] # "destroy_head"
    <3>1. pc'[d] \in {"guard_head", "idle"}
      BY <1>0, <1>13, <2>1, DropHeadDoes DEF Moves
    <3>. QED  BY <1>1, <3>1
  <2>2. CASE pc'[d] = "destroy_head"
    <3>1. /\ pc[d] = "drop_head" /\ ~my[d].again /\ my[d].val = NULL /\ DropGuard(my[d].old)
          /\ head' = head /\ tail' = tail
      BY <1>0, <1>13, <2>2, DropHeadDoes DEF Moves, DropHead
    <3>2. Old(d) = head.ptr /\ tail.ptr = head.ptr
      BY <3>1 DEF ClosingInv
    <3>3. live = {head.ptr} /\ node[head.ptr].external_counters # 0
      BY <1>0, <3>1, <3>2, EmptyAlone
    <3>4. live' = live
      <4>1. my[d].old \in AnyLink /\ my[d].old.ptr = head.ptr /\ head.ptr \in Nodes
        BY <1>0, <3>2, <3>3, LocalParts DEF Old, ShapeInv
      <4>2. Stored(head.ptr, (node[head.ptr].internal_count - 1) % CountRange,
                   node[head.ptr].external_counters)
        BY <3>1, <4>1, DropGuardDoes
      <4>. QED  BY <3>3, <4>2 DEF Stored, Kept, Freed
    <3>. QED  BY <1>0, <2>2, <3>1, <3>2, <3>3, <3>4 DEF ClosingInv, Alive
  <2>. QED  BY <2>1, <2>2
<1>. QED  BY <1>4, <1>5, <1>6, <1>7, <1>8, <1>9, <1>10, <1>11, <1>12, <1>13 DEF Pop

LEMMA EndActs ==
    ASSUME ShapeInv, pc[Destructor] \in {"destroy_head", "destroy_tail", "destroyed"},
           Pop(Destructor)
    PROVE  /\ my' = my /\ UNCHANGED <<head, tail>>
           /\ \/ Moves(Destructor, "destroy_head", "destroy_tail") /\ FreeExternalCounter(head)
              \/ Moves(Destructor, "destroy_tail", "destroyed") /\ FreeExternalCounter(tail)
<1>. DEFINE d == Destructor
<1>1. \A from, to : from \notin {"destroy_head", "destroy_tail", "destroyed"} => ~Goto(d, from, to)
  BY DEF Goto
<1>2. ~PopStart(d) /\ ~GuardHead(d) /\ ~CheckEmpty(d) /\ ~GuardNext(d) /\ ~StartCallback(d)
  BY <1>1 DEF PopStart, GuardHead, CheckEmpty, GuardNext, StartCallback
<1>3. ~EndCallback(d) /\ ~CasHead(d) /\ ~TakeData(d) /\ ~CloseNext(d) /\ ~DropHead(d)
  BY <1>1 DEF EndCallback, CasHead, TakeData, CloseNext, DropHead
<1>4. UpdateCounts(d)
  BY <1>2, <1>3 DEF Pop
<1>5. UNCHANGED <<head, tail>>
  BY <1>4 DEF UpdateCounts
<1>. QED  BY <1>4, <1>5, DestructorIsNone, UpdateCountsDoes DEF Moves

\* The shape after a step in which only the destructor and counters of nodes have moved.
LEMMA EndUnlinked ==
    ASSUME UnlinkedInv, Alone, my' = my, \A u \in Threads \ {Destructor} : pc'[u] = pc[u],
           \A n \in Nodes \ live' : node'[n] = Fresh
    PROVE  UnlinkedInv'
<1>1. \A u \in Pushers : pc'[u] = "idle" /\ my'[u].new = NULL
  BY DestructorIsNone DEF Alone, UnlinkedInv, Threads
<1>. QED  BY <1>1 DEF UnlinkedInv

LEMMA DestroyHeadKeeps ==
    ASSUME ShapeInv, UnlinkedInv, AccountInv, ClosingInv,
           NEW pos \in [Nodes -> Int], QueueInv(pos), Pop(Destructor),
           pc[Destructor] = "destroy_head"
    PROVE  ShapeInv' /\ UnlinkedInv' /\ ClosingInv' /\ ~Alive'
<1>1. /\ my' = my /\ UNCHANGED <<head, tail>> /\ pc'[Destructor] = "destroy_tail"
      /\ FreeExternalCounter(head)
      /\ \A u \in Threads \ {Destructor} : pc'[u] = pc[u]
  BY EndActs DEF Moves
<1>2. Alone /\ \A u \in Threads \ {Destructor} : Done(u)'
  BY DestructorAlone
<1>3. live = {head.ptr} /\ tail.ptr = head.ptr
  BY DEF ClosingInv
<1>4. /\ live' = {tail.ptr} /\ \A m \in Nodes \ {tail.ptr} : node'[m] = node[m]
      /\ node'[tail.ptr].external_counters = 1
      /\ Multiple(node'[tail.ptr].internal_count + Extra(tail, tail.ptr))
  BY <1>1, <1>2, <1>3, DestroyHeadStep
<1>5. ShapeInv'
  BY DestructorIsNone, PopActing, PopShape
<1>6. UnlinkedInv'
  <2>1. \A n \in Nodes \ live' : node'[n] = Fresh
    BY <1>3, <1>4 DEF UnlinkedInv
  <2>. QED  BY <1>1, <1>2, <2>1, EndUnlinked
<1>7. ClosingInv' /\ ~Alive'
  BY <1>1, <1>2, <1>4 DEF ClosingInv, Alive, Extra, Multiple
<1>. QED  BY <1>5, <1>6, <1>7

LEMMA DestroyTailKeeps ==
    ASSUME ShapeInv, UnlinkedInv, ClosingInv, Pop(Destructor), ~Alive
    PROVE  ShapeInv' /\ UnlinkedInv' /\ ClosingInv' /\ ~Alive'
<1>1. /\ my' = my /\ UNCHANGED <<head, tail>> /\ pc'[Destructor] = "destroyed"
      /\ pc[Destructor] = "destroy_tail" /\ FreeExternalCounter(tail)
      /\ \A u \in Threads \ {Destructor} : pc'[u] = pc[u]
  BY EndActs DEF Moves, Alive
<1>2. Alone /\ \A u \in Threads \ {Destructor} : Done(u)'
  BY DestructorAlone
<1>3. /\ live = {tail.ptr} /\ node[tail.ptr].external_counters = 1
      /\ Multiple(node[tail.ptr].internal_count + Extra(tail, tail.ptr))
  BY <1>1 DEF ClosingInv
<1>4. /\ live' = {} /\ node'[tail.ptr] = Fresh
      /\ \A m \in Nodes \ {tail.ptr} : node'[m] = node[m]
  BY <1>1, <1>3, DestroyTailStep
<1>5. ShapeInv'
  <2>1. tail.ptr \in Nodes
    BY <1>3 DEF ShapeInv
  <2>2. ActingInv(Destructor)
    BY <1>1, <2>1, DestructorIsNone DEF ActingInv, GuardsOld, GuardsNext, PushLabels, HeadLabels,
       NextLabels
  <2>. QED  BY <2>2, DestructorIsNone, PopShape
<1>6. UnlinkedInv'
  <2>1. \A n \in Nodes \ live' : node'[n] = Fresh
    BY <1>3, <1>4 DEF UnlinkedInv
  <2>. QED  BY <1>1, <1>2, <2>1, EndUnlinked
<1>7. ClosingInv' /\ ~Alive'
  BY <1>1, <1>2, <1>4 DEF ClosingInv, Alive
<1>. QED  BY <1>5, <1>6, <1>7

----------------------------------------------------------------------------
(* The invariant is inductive *)

LEMMA QuietAccounts ==
    ASSUME ShapeInv, ShapeInv', AccountInv, UNCHANGED vars
    PROVE  AccountInv'
<1>1. Destructor \in Threads
  BY DestructorIsNone
<1>2. \A n \in Nodes : Held(Destructor, n)' = Held(Destructor, n)
                       /\ Owed(Destructor, n)' = Owed(Destructor, n)
  BY DEF vars, Held, Owed, GuardsOld, GuardsNext, Old, Extra
<1>. QED  BY <1>1, <1>2, AccountsQuiet DEF vars, nodes

LEMMA NothingChanges ==
    ASSUME IInv, UNCHANGED vars
    PROVE  IInv'
<1>1. ShapeInv'
  BY DEF IInv, vars, nodes, history, ShapeInv, PlacesInv
<1>2. UnlinkedInv'
  BY DEF IInv, vars, nodes, UnlinkedInv
<1>3. ClosingInv' /\ (Alive' <=> Alive)
  BY DEF IInv, vars, nodes, history, ClosingInv, Alive, Done, Old, Extra, Multiple
<1>4. Alive => AccountInv'
  BY <1>1, QuietAccounts DEF IInv
<1>5. ASSUME NEW pos \in [Nodes -> Int], QueueInv(pos) PROVE QueueInv(pos)'
  <2>1. Linked' = Linked /\ UNCHANGED <<head, tail, node, pc, my>>
    BY DEF vars, nodes, Linked
  <2>2. ChainInv(pos)'
    BY <1>5, <2>1 DEF QueueInv, ChainInv, Chained, Ended, Filled, Taking, Old
  <2>3. ThreadInv(pos)'
    <3>1. \A t \in Pushers : Pushing(t, pos)'
      BY <1>5, <2>1 DEF QueueInv, ThreadInv, Pushing, Old, GuardsOld
    <3>2. \A t \in Threads \ Pushers : Popping(t, pos)'
      BY <1>5, <2>1 DEF QueueInv, ThreadInv, Popping, Old, GuardsOld, GuardsNext, Taken, Taking
    <3>3. Apart'
      BY <1>5, <2>1 DEF QueueInv, ThreadInv, Apart, Taken, Old
    <3>. QED  BY <3>1, <3>2, <3>3 DEF ThreadInv
  <2>4. SourcesInv(pos)'
    <3>1. ASSUME NEW n
          PROVE  /\ HeadSource(n, pos)' <=> HeadSource(n, pos)
                 /\ TailSource(n, pos)' <=> TailSource(n, pos)
                 /\ NextSource(n)' <=> NextSource(n)
      BY <2>1 DEF HeadSource, TailSource, NextSource, Old
    <3>. QED  BY <1>5, <2>1, <3>1 DEF QueueInv, SourcesInv, One
  <2>. QED  BY <2>2, <2>3, <2>4 DEF QueueInv
<1>. QED  BY <1>1, <1>2, <1>3, <1>4, <1>5 DEF IInv

LEMMA StepKeepsIInv ==
    ASSUME IInv, Next
    PROVE  IInv'
<1>1. ASSUME NEW t \in Pushers, Push(t) PROVE IInv'
  <2>1. /\ ShapeInv /\ UnlinkedInv /\ ClosingInv /\ t \in Threads
        /\ pc[Destructor] = "idle" /\ pc'[Destructor] = "idle"
    BY <1>1, OthersAct DEF IInv, Threads
  <2>2. PICK pos \in [Nodes -> Int] : QueueInv(pos) /\ AccountInv
    BY <2>1 DEF IInv, Alive
  <2>3. /\ ShapeInv' /\ UnlinkedInv' /\ AccountInv'
        /\ \E after \in [Nodes -> Int] : QueueInv(after)'
    BY <1>1, <2>1, <2>2, PushKeeps
  <2>4. ClosingInv'
    BY <2>1 DEF ClosingInv
  <2>. QED  BY <2>3, <2>4 DEF IInv
<1>2. ASSUME NEW t \in Poppers, Pop(t) PROVE IInv'
  <2>1. /\ ShapeInv /\ UnlinkedInv /\ ClosingInv /\ t \in Threads \ Pushers
        /\ pc[Destructor] = "idle" /\ pc'[Destructor] = "idle"
        /\ pc[t] \notin {"destroy_head", "destroy_tail"}
    <3>1. t \in Threads \ Pushers
      BY QueueAssumption DEF Threads
    <3>. QED  BY <1>2, <3>1, OthersAct DEF IInv, ShapeInv, PlacesInv
  <2>2. PICK pos \in [Nodes -> Int] : QueueInv(pos) /\ AccountInv
    BY <2>1 DEF IInv, Alive
  <2>3. ShapeInv' /\ UnlinkedInv' /\ AccountInv' /\ QueueInv(pos)'
    BY <1>2, <2>1, <2>2, PopKeeps
  <2>4. ClosingInv'
    BY <2>1 DEF ClosingInv
  <2>. QED  BY <2>3, <2>4 DEF IInv
<1>3. ASSUME Pop(Destructor) PROVE IInv'
  <2>1. ShapeInv /\ UnlinkedInv /\ ClosingInv
    BY DEF IInv
  <2>2. CASE ~Alive
    BY <1>3, <2>1, <2>2, DestroyTailKeeps DEF IInv
  <2>3. CASE Alive
    <3>1. PICK pos \in [Nodes -> Int] : QueueInv(pos) /\ AccountInv
      BY <2>3 DEF IInv
    <3>2. CASE pc[Destructor] = "destroy_head"
      BY <1>3, <2>1, <3>1, <3>2, DestroyHeadKeeps DEF IInv
    <3>3. CASE pc[Destructor] # "destroy_head"
      <4>1. pc[Destructor] \notin {"destroy_head", "destroy_tail"}
        BY <2>3, <3>3 DEF Alive
      <4>2. ShapeInv' /\ UnlinkedInv' /\ AccountInv' /\ QueueInv(pos)'
        BY <1>3, <2>1, <3>1, <4>1, DestructorIsNone, PopKeeps
      <4>3. ClosingInv'
        BY <1>3, <2>1, <3>1, <4>1, ClosingKept
      <4>. QED  BY <4>2, <4>3 DEF IInv
    <3>. QED  BY <3>2, <3>3
  <2>. QED  BY <2>2, <2>3
<1>4. Terminated => IInv'
  BY NothingChanges DEF Terminated
<1>. QED  BY <1>1, <1>2, <1>3, <1>4 DEF Next

----------------------------------------------------------------------------
(* The invariant *)

LEMMA InitGivesIInv ==
    ASSUME Init
    PROVE  IInv
<1>1. PICK n \in Nodes :
        /\ head = Counted(1, n) /\ tail = Counted(1, n) /\ live = {n}
        /\ node = [m \in Nodes |-> IF m = n THEN [Fresh EXCEPT !.external_counters = 2]
                                            ELSE Fresh]
  BY DEF Init
<1>2. n # NULL
  BY QueueAssumption
<1>3. /\ \A t \in Threads : pc[t] = "idle" /\ my[t].new = NULL
      /\ pc \in [Threads -> {"idle"}]
  BY DEF Init
<1>4. /\ head \in AnyLink /\ head.ptr = n /\ head.external_count = 1
      /\ tail \in AnyLink /\ tail.ptr = n /\ tail.external_count = 1
  BY <1>1 DEF AnyLink, Counted
<1>5. \A m \in Nodes : /\ node[m].data = NULL /\ node[m].internal_count = 0
                       /\ node[m].next = Counted(0, NULL)
                       /\ node[m].external_counters = IF m = n THEN 2 ELSE 3
                       /\ m # n => node[m] = Fresh
  BY <1>1 DEF Fresh
<1>6. ShapeInv
  <2>1. node \in [Nodes -> AnyNode]
    <3>1. Counted(0, NULL) \in AnyLink
      BY DEF Counted, AnyLink
    <3>2. 0 \in 0 .. CountRange - 1
      BY RangeFacts
    <3>3. Fresh \in AnyNode /\ [Fresh EXCEPT !.external_counters = 2] \in AnyNode
      BY <3>1, <3>2 DEF Fresh, AnyNode
    <3>. QED  BY <1>1, <3>3
  <2>2. my \in [Threads -> Locals]
    BY DEF Init, Locals, AnyLink, Counted
  <2>3. PlacesInv
    BY <1>3 DEF PlacesInv, PushPlaces, PopPlaces, Threads
  <2>4. calls \in [Threads -> Nat] /\ pushed = {} /\ popped = <<>> /\ handled = <<>>
    BY DEF Init
  <2>. QED  BY <1>1, <1>4, <2>1, <2>2, <2>3, <2>4 DEF ShapeInv
<1>7. UnlinkedInv
  BY <1>1, <1>3, <1>5 DEF UnlinkedInv, Threads
<1>8. ClosingInv
  BY <1>3, DestructorIsNone DEF ClosingInv
<1>9. AccountInv
  <2>1. SUFFICES ASSUME NEW x \in Nodes PROVE Multiple(Balance(x))
    BY DEF AccountInv
  <2>2. NextCopies(x) = 0
    <3>. DEFINE v == [m \in Nodes |-> Extra(node[m].next, x)]
    <3>1. \A m \in Nodes : v[m] = 0
      BY <1>5, QueueAssumption DEF Extra, Counted
    <3>2. NextCopies(x) = SumOf(v, Nodes)
      BY DEF NextCopies
    <3>. HIDE DEF v
    <3>3. SumOf(v, Nodes) = v[x]
      BY <3>1, SumOfSingle, QueueAssumption
    <3>. QED  BY <3>1, <3>2, <3>3
  <2>3. Account(x) = 0
    <3>. DEFINE v == [t \in Threads |-> Owed(t, x) - Held(t, x)]
    <3>1. ASSUME NEW t \in Threads PROVE v[t] = 0
      <4>1. Held(t, x) = 0 /\ Owed(t, x) = 0
        <5>1. HoldingFacts(t, x) /\ pc[t] = "idle"
          BY <1>3, <1>6, Holding
        <5>. QED  BY <5>1 DEF HoldingFacts
      <4>. QED  BY <4>1
    <3>2. Account(x) = SumOf(v, Threads)
      BY DEF Account
    <3>. HIDE DEF v
    <3>3. SumOf(v, Threads) = v[Destructor]
      BY <3>1, SumOfSingle, QueueAssumption, DestructorIsNone
    <3>. QED  BY <3>1, <3>2, <3>3, DestructorIsNone
  <2>4. Extra(head, x) = 0 /\ Extra(tail, x) = 0 /\ node[x].internal_count = 0
    BY <1>4, <1>5 DEF Extra
  <2>5. Balance(x) = 0 * CountRange
    BY <2>2, <2>3, <2>4, RangeFacts DEF Balance
  <2>. QED  BY <2>5 DEF Multiple
<1>10. \E pos \in [Nodes -> Int] : QueueInv(pos)
  <2>. DEFINE pos == [m \in Nodes |-> 0]
  <2>1. Linked = {n}
    BY <1>1, <1>2, <1>3 DEF Linked, Threads
  <2>2. pos \in [Nodes -> Int] /\ pos[n] = 0
    OBVIOUS
  <2>3. node[n].next = Counted(0, NULL) /\ node[n].next.ptr = NULL
    BY <1>5 DEF Counted
  <2>4. ChainInv(pos)
    <3>. HIDE DEF pos
    <3>. QED  BY <1>4, <2>1, <2>2, <2>3 DEF ChainInv, Chained, Ended, Filled
  <2>5. ThreadInv(pos)
    BY <1>3 DEF ThreadInv, Pushing, Popping, Apart, GuardsOld, GuardsNext, Taken, Taking,
       PushLabels, HeadLabels, NextLabels, Threads
  <2>6. SourcesInv(pos)
    <3>1. HeadSource(n, pos) /\ TailSource(n, pos)
      BY <1>4, <2>2 DEF HeadSource, TailSource
    <3>2. ~NextSource(n)
      BY <1>2, <1>3, <2>1, <2>3 DEF NextSource
    <3>3. node[n].external_counters = 2
      BY <1>5
    <3>. HIDE DEF pos
    <3>. QED  BY <2>1, <3>1, <3>2, <3>3 DEF SourcesInv, One
  <2>. QED  BY <2>2, <2>4, <2>5, <2>6 DEF QueueInv
<1>. QED  BY <1>6, <1>7, <1>8, <1>9, <1>10 DEF IInv

LEMMA Invariant == Spec => []IInv
<1>1. Init => IInv
  BY InitGivesIInv
<1>2. IInv /\ [Next]_vars => IInv'
  BY StepKeepsIInv, NothingChanges
<1>. QED  BY <1>1, <1>2, PTL DEF Spec

\* No thread uses a node after it was deleted: whoever a queue's guards point at, and
\* what its destructor reports last, is still allocated.
THEOREM NoUseAfterFreeAlways == Spec => []NoUseAfterFree
<1>1. IInv => NoUseAfterFree
  <2>. SUFFICES ASSUME IInv PROVE NoUseAfterFree
    OBVIOUS
  <2>1. ASSUME NEW t \in Threads
        PROVE  /\ GuardsOld(t) => Old(t) \in live
               /\ GuardsNext(t) => my[t].nxt.ptr \in live
    <3>1. CASE ~Alive
      <4>1. pc[t] \in {"idle", "destroy_tail", "destroyed"}
        BY <3>1 DEF IInv, ClosingInv, Alive, Done
      <4>. QED  BY <4>1 DEF GuardsOld, GuardsNext, PushLabels, HeadLabels, NextLabels
    <3>2. CASE Alive
      <4>1. PICK pos \in [Nodes -> Int] : QueueInv(pos)
        BY <3>2 DEF IInv
      <4>2. Linked \subseteq live
        BY DEF Linked
      <4>3. CASE t \in Pushers
        <5>1. ~GuardsNext(t)
          BY <4>3 DEF IInv, ShapeInv, PlacesInv, PushPlaces, PushLabels, GuardsNext, NextLabels
        <5>. QED  BY <4>1, <4>2, <4>3, <5>1 DEF QueueInv, ThreadInv, Pushing
      <4>4. CASE t \notin Pushers
        BY <4>1, <4>2, <4>4 DEF QueueInv, ThreadInv, Popping
      <4>. QED  BY <4>3, <4>4
    <3>. QED  BY <3>1, <3>2
  <2>2. pc[Destructor] = "destroy_head" => head.ptr \in live
    BY DEF IInv, ClosingInv
  <2>3. pc[Destructor] = "destroy_tail" => tail.ptr \in live
    BY DEF IInv, ClosingInv
  <2>. QED  BY <2>1, <2>2, <2>3 DEF NoUseAfterFree
<1>. QED  BY <1>1, Invariant, PTL

\* The destructor deletes the last node: nothing that was ever allocated is left.
THEOREM AllReclaimedAlways == Spec => []AllReclaimed
<1>1. IInv => AllReclaimed
  BY DEF IInv, ClosingInv, AllReclaimed
<1>. QED  BY <1>1, Invariant, PTL

\* A thread is no holder of a node twice over, so its holders of both kinds are few.
LEMMA FewHolders ==
    ASSUME ShapeInv, NEW pos \in [Nodes -> Int], ThreadInv(pos), NEW n
    PROVE  LET a == Cardinality({t \in Threads : GuardsOld(t) /\ Old(t) = n})
               b == Cardinality({t \in Threads : GuardsNext(t) /\ my[t].nxt.ptr = n})
           IN  /\ a \in Nat /\ b \in Nat /\ a + b < CountRange
               /\ SumOf([t \in Threads |-> Held(t, n)], Threads) = a + b
<1>. DEFINE A == {t \in Threads : GuardsOld(t) /\ Old(t) = n}
            B == {t \in Threads : GuardsNext(t) /\ my[t].nxt.ptr = n}
            held == [t \in Threads |-> Held(t, n)]
<1>1. \A t \in Threads : held[t] \in {0, 1}
  BY HeldOnce
<1>2. A \cap B = {}
  <2>1. \A t \in A \cap B : Held(t, n) = 2
    BY DEF Held, One
  <2>. QED  BY <1>1, <2>1
<1>3. A \cup B = {t \in Threads : held[t] = 1}
  <2>1. \A t \in Threads : held[t] = 1 <=> t \in A \cup B
    <3>1. SUFFICES ASSUME NEW t \in Threads PROVE held[t] = 1 <=> t \in A \cup B
      OBVIOUS
    <3>2. ~(t \in A /\ t \in B)
      BY <1>2
    <3>. QED  BY <3>2 DEF Held, One
  <2>. HIDE DEF held, A, B
  <2>2. A \subseteq Threads /\ B \subseteq Threads
    BY DEF A, B
  <2>. QED  BY <2>1, <2>2
<1>4. IsFiniteSet(A) /\ IsFiniteSet(B) /\ A \cup B \subseteq Threads /\ IsFiniteSet(Threads)
  <2>1. IsFiniteSet(Threads) /\ A \subseteq Threads /\ B \subseteq Threads
    BY QueueAssumption
  <2>. HIDE DEF A, B
  <2>. QED  BY <2>1, FS_Subset
<1>. HIDE DEF A, B, held
<1>5. Cardinality(A) \in Nat /\ Cardinality(B) \in Nat
  BY <1>4, FS_CardinalityType
<1>6. Cardinality(A \cup B) = Cardinality(A) + Cardinality(B)
  <2>1. Cardinality(A \cup B) = Cardinality(A) + Cardinality(B) - Cardinality(A \cap B)
    BY <1>4, FS_Union
  <2>2. Cardinality(A \cap B) = 0
    BY <1>2, FS_EmptySet
  <2>. QED  BY <1>5, <2>1, <2>2
<1>7. Cardinality(A \cup B) < CountRange
  <2>1. Cardinality(A \cup B) <= Cardinality(Threads) /\ Cardinality(Threads) \in Nat
    BY <1>4, FS_Subset, FS_CardinalityType
  <2>2. Cardinality(Threads) < CountRange /\ CountRange \in Nat
    BY QueueAssumption
  <2>. QED  BY <1>5, <1>6, <2>1, <2>2
<1>8. SumOf(held, Threads) = Cardinality(A \cup B)
  BY <1>1, <1>3, <1>4, SumOfOnes
<1>. QED  BY <1>5, <1>6, <1>7, <1>8 DEF A, B, held

\* Only nodes in use have next nodes, so only they hand out copies of one.
LEMMA LiveCopies ==
    ASSUME ShapeInv, UnlinkedInv, NEW n \in Nodes
    PROVE  SumFunctionOnSet([m \in Nodes |-> Extra(node[m].next, n)], live) = NextCopies(n)
<1>. DEFINE v == [m \in Nodes |-> Extra(node[m].next, n)]
<1>1. IsFiniteSet(Nodes) /\ live \in SUBSET Nodes /\ n # NULL
  BY QueueAssumption DEF ShapeInv
<1>2. \A m \in Nodes : v[m] \in Int
  BY AccountTypes
<1>3. \A m \in Nodes \ live : v[m] = 0
  BY <1>1, FreshOutside DEF Extra, Linked
<1>4. NextCopies(n) = SumOf(v, Nodes)
  BY DEF NextCopies
<1>. HIDE DEF v
<1>5. SumOf(v, Nodes) = SumOf(v, live)
  BY <1>1, <1>2, <1>3, SumOfZeros
<1>6. SumFunctionOnSet(v, live) = SumOf(v, live)
  BY SumFunctionIsSum
<1>. QED  BY <1>4, <1>5, <1>6 DEF v

\* A count that differs from fewer holders than a counter's range by a multiple of it
\* is their number, once it is reduced.
LEMMA ReducedCount ==
    ASSUME NEW s \in Int, NEW h \in Nat, h < CountRange, Multiple(s - h)
    PROVE  s % CountRange = h
<1>1. s % CountRange \in 0 .. CountRange - 1
  BY Wraps
<1>2. PICK q \in Int : s % CountRange = s + q * CountRange
  BY Wraps
<1>. DEFINE d == (s % CountRange) - h
<1>3. d \in Int /\ d < CountRange /\ -CountRange < d
  BY <1>1, RangeFacts
<1>4. Multiple(d)
  <2>1. s - h \in Int
    OBVIOUS
  <2>2. Multiple((s - h) + q * CountRange)
    BY <2>1, MultiplesAdd
  <2>3. q * CountRange \in Int
    BY RangeFacts
  <2>4. (s - h) + q * CountRange = d
    <3>1. \A j \in Int : s % CountRange = s + j => (s - h) + j = (s % CountRange) - h
      BY <1>1
    <3>. QED  BY <1>2, <2>3, <3>1
  <2>. QED  BY <2>2, <2>4
<1>5. d = 0
  <2>. HIDE DEF d
  <2>. QED  BY <1>3, <1>4, SmallMultiple
<1>. QED  BY <1>1, <1>5, RangeFacts

\* What a node has counted and its sources have still to report is, as long as it is
\* in use, the number of guards on it, although the counter wraps and is for a while
\* below zero.
THEOREM ReferenceCountsAlways == Spec => []ReferenceCounts
<1>1. IInv => ReferenceCounts
  <2>. SUFFICES ASSUME IInv, Alive, NEW n \in live
                PROVE  (node[n].internal_count + Extra(head, n) + Extra(tail, n)
                        + SumFunctionOnSet([m \in Nodes |-> Extra(node[m].next, n)], live)
                        + SumFunctionOnSet([t \in Threads |-> Owed(t, n)], Threads)) % CountRange
                       = Cardinality({t \in Threads : GuardsOld(t) /\ Old(t) = n})
                         + Cardinality({t \in Threads : GuardsNext(t) /\ my[t].nxt.ptr = n})
    BY DEF ReferenceCounts, Alive
  <2>. DEFINE a == Cardinality({t \in Threads : GuardsOld(t) /\ Old(t) = n})
              b == Cardinality({t \in Threads : GuardsNext(t) /\ my[t].nxt.ptr = n})
              owed == [t \in Threads |-> Owed(t, n)]
              held == [t \in Threads |-> Held(t, n)]
              both == [t \in Threads |-> Owed(t, n) - Held(t, n)]
              c == node[n].internal_count
              e == Extra(head, n)
              f == Extra(tail, n)
              g == NextCopies(n)
              o == SumOf(owed, Threads)
  <2>1. ShapeInv /\ UnlinkedInv /\ AccountInv /\ n \in Nodes /\ IsFiniteSet(Threads)
    BY QueueAssumption DEF IInv, ShapeInv
  <2>2. PICK pos \in [Nodes -> Int] : ThreadInv(pos)
    BY DEF IInv, QueueInv
  <2>3. \A t \in Threads : /\ owed[t] \in Int /\ held[t] \in Int
                           /\ both[t] = owed[t] - held[t]
    BY <2>1, AccountTypes
  <2>4. Account(n) = SumOf(both, Threads)
    BY DEF Account
  <2>5. a \in Nat /\ b \in Nat /\ a + b < CountRange /\ SumOf(held, Threads) = a + b
    BY <2>1, <2>2, FewHolders
  <2>6. c \in Int /\ e \in Int /\ f \in Int /\ g \in Int
    <3>1. c \in Int
      BY <2>1, NodeParts
    <3>2. e \in Int /\ f \in Int
      BY <2>1, AccountTypes
    <3>3. g \in Int
      <4>. DEFINE v == [m \in Nodes |-> Extra(node[m].next, n)]
      <4>1. \A m \in Nodes : v[m] \in Int
        BY <2>1, AccountTypes
      <4>2. g = SumOf(v, Nodes)
        BY DEF NextCopies
      <4>. HIDE DEF v, g
      <4>. QED  BY <4>1, <4>2, SumIsInteger, QueueAssumption
    <3>. QED  BY <3>1, <3>2, <3>3
  <2>7. /\ SumFunctionOnSet([m \in Nodes |-> Extra(node[m].next, n)], live) = g
        /\ SumFunctionOnSet([t \in Threads |-> Owed(t, n)], Threads) = o
    BY <2>1, LiveCopies, SumFunctionIsSum
  <2>. HIDE DEF owed, held, both
  <2>8. Account(n) = o - (a + b) /\ o \in Int
    <3>1. SumOf(both, Threads) = SumOf(owed, Threads) - SumOf(held, Threads)
      BY <2>1, <2>3, SumOfDifference
    <3>2. SumOf(owed, Threads) \in Int
      BY <2>1, <2>3, SumIsInteger
    <3>. QED  BY <2>4, <2>5, <3>1, <3>2
  <2>9. Multiple(c + e + f + g + Account(n))
    BY <2>1 DEF AccountInv, Balance
  <2>. HIDE DEF a, b, c, e, f, g, o
  <2>10. c + e + f + g + o \in Int /\ a + b \in Nat
         /\ c + e + f + g + Account(n) = (c + e + f + g + o) - (a + b)
    BY <2>5, <2>6, <2>8
  <2>11. (c + e + f + g + o) % CountRange = a + b
    BY <2>5, <2>9, <2>10, ReducedCount
  <2>. QED  BY <2>7, <2>11 DEF a, b, c, e, f
<1>. QED  BY <1>1, Invariant, PTL

----------------------------------------------------------------------------
(* One popper *)

\* From the copy of head to the compare-and-swap on it.
Fronting == {"check_empty", "guard_next", "callback", "in_callback", "cas_head"}

\* Nobody moves head under a single popper: what its callback has been given is what it
\* will remove.
ConsumerInv ==
    /\ \A t \in Threads \ Pushers :
         /\ pc[t] \in Fronting => head = my[t].old
         /\ pc[t] = "in_callback" => my[t].val = node[Old(t)].data
         /\ pc[t] = "cas_head" => handled = Append(popped, node[Old(t)].data)
    /\ (\A t \in Threads \ Pushers : pc[t] # "cas_head") => handled = popped

\* A node with a next one, at which a popper looks while it is the first, has a value.
LEMMA FrontHasData ==
    ASSUME IInv, NEW t \in Threads \ Pushers, pc[t] \in {"callback", "in_callback", "cas_head"},
           head = my[t].old
    PROVE  Old(t) \in live /\ node[Old(t)].data \in Values /\ node[Old(t)].data # NULL
<1>1. ShapeInv /\ Alive
  <2>1. ~Alive => pc[t] \in {"idle", "destroy_tail", "destroyed"}
    BY DEF IInv, ClosingInv, Alive, Done
  <2>. QED  BY <2>1 DEF IInv
<1>2. PICK pos \in [Nodes -> Int] : QueueInv(pos)
  BY <1>1 DEF IInv
<1>3. /\ Old(t) = head.ptr /\ Old(t) \in Linked /\ my[t].nxt.ptr \in Linked
      /\ pos[my[t].nxt.ptr] = pos[head.ptr] + 1
  BY <1>2 DEF QueueInv, ThreadInv, Popping, GuardsOld, GuardsNext, NextLabels, Old
<1>4. ChainInv(pos) /\ \A m \in Linked : pos[m] \in Int
  BY <1>1, <1>2, LinkedNodes DEF QueueInv
<1>5. node[Old(t)].next.ptr # NULL
  <2>1. SUFFICES ASSUME node[Old(t)].next.ptr = NULL PROVE FALSE
    OBVIOUS
  <2>2. pos[my[t].nxt.ptr] <= pos[Old(t)]
    BY <1>3, <1>4, <2>1 DEF ChainInv, Ended
  <2>. QED  BY <1>3, <1>4, <2>2
<1>6. node[Old(t)].data # NULL
  BY <1>3, <1>4, <1>5 DEF ChainInv, Filled
<1>. QED  BY <1>1, <1>3, <1>6, LinkedNodes, NodeParts

\* A pusher changes no value that is in a node, unless it deletes the node.
LEMMA PushKeepsData ==
    ASSUME IInv, NEW t \in Pushers, Push(t)
    PROVE  /\ head' = head /\ popped' = popped /\ handled' = handled
           /\ \A u \in Threads \ {t} : pc'[u] = pc[u] /\ my'[u] = my[u]
           /\ \A n \in live \cap live' : node[n].data # NULL => node'[n].data = node[n].data
<1>1. ShapeInv /\ UnlinkedInv /\ t \in Threads /\ live \subseteq Nodes /\ Alive
  <2>1. pc[Destructor] = "idle"
    BY OthersAct DEF IInv, Threads
  <2>. QED  BY <2>1 DEF IInv, ShapeInv, Threads, Alive
<1>2. ActingInv(t)
  BY <1>1, PushActing DEF IInv
<1>3. CASE PushStart(t) \/ GuardTail(t)
  BY <1>1, <1>3, PushStartDoes, GuardTailDoes DEF PushStart, GuardTail, nodes, history, Moves
<1>4. CASE CasData(t)
  <2>1. pc[t] = "cas_data" /\ Old(t) \in Nodes
    BY <1>2, <1>4 DEF CasData, Goto, ActingInv, GuardsOld, PushLabels
  <2>. QED  BY <1>1, <1>4, <2>1, CasDataDoes DEF CasData, history, Moves
<1>5. CASE LinkNext(t)
  <2>1. pc[t] \in {"link_own", "link_help"} /\ Old(t) \in Nodes
    BY <1>2, <1>5 DEF LinkNext, Goto, ActingInv, GuardsOld, PushLabels
  <2>. QED  BY <1>1, <1>5, <2>1, LinkNextDoes
            DEF LinkNext, LinksNew, FindsLinked, history, Moves
<1>6. CASE SetNewTail(t)
  BY <1>1, <1>6, SetNewTailDoes DEF SetNewTail, nodes, history, Moves
<1>7. ASSUME NEW p \in AnyLink, p.ptr \in Nodes, DropGuard(p) \/ FreeExternalCounter(p)
      PROVE  \A n \in live \cap live' : node'[n].data = node[n].data
  <2>1. \E internal, external : Stored(p.ptr, internal, external)
    BY <1>1, <1>7, DropGuardDoes, FreeExternalCounterDoes
  <2>. QED  BY <1>1, <2>1 DEF Stored, Kept, Freed, Counts
<1>8. CASE UpdateCounts(t)
  <2>1. /\ pc[t] = "free_tail" /\ FreeExternalCounter(my[t].old) /\ my' = my
        /\ \A u \in Threads \ {t} : pc'[u] = pc[u]
    <3>1. pc[t] \in PushPlaces
      BY <1>1 DEF ShapeInv, PlacesInv
    <3>. QED  BY <1>1, <1>8, <3>1, UpdateCountsDoes DEF Moves, PushPlaces, PushLabels
  <2>2. my[t].old \in AnyLink /\ my[t].old.ptr \in Nodes
    BY <1>1, <1>2, <2>1, LocalParts DEF ActingInv, GuardsOld, PushLabels, Old
  <2>. QED  BY <1>7, <1>8, <2>1, <2>2 DEF UpdateCounts, history
<1>9. CASE DropTail(t)
  <2>1. /\ pc[t] = "drop_tail" /\ DropGuard(my[t].old)
        /\ \A u \in Threads \ {t} : pc'[u] = pc[u] /\ my'[u] = my[u]
    BY <1>1, <1>9, DropTailDoes DEF Moves
  <2>2. my[t].old \in AnyLink /\ my[t].old.ptr \in Nodes
    BY <1>1, <1>2, <2>1, LocalParts DEF ActingInv, GuardsOld, PushLabels, Old
  <2>. QED  BY <1>7, <1>9, <2>1, <2>2 DEF DropTail
<1>. QED  BY <1>3, <1>4, <1>5, <1>6, <1>8, <1>9 DEF Push

LEMMA PushKeepsConsumer ==
    ASSUME IInv, NoUseAfterFree', ConsumerInv, NEW t \in Pushers, Push(t)
    PROVE  ConsumerInv'
<1>1. /\ head' = head /\ popped' = popped /\ handled' = handled
      /\ \A u \in Threads \ Pushers : pc'[u] = pc[u] /\ my'[u] = my[u] /\ Old(u)' = Old(u)
      /\ \A n \in live \cap live' : node[n].data # NULL => node'[n].data = node[n].data
  BY PushKeepsData DEF Old
<1>2. ASSUME NEW u \in Threads \ Pushers, pc[u] \in {"in_callback", "cas_head"}
      PROVE  node'[Old(u)].data = node[Old(u)].data
  <2>1. head = my[u].old
    BY <1>2 DEF ConsumerInv, Fronting
  <2>2. Old(u) \in live /\ node[Old(u)].data # NULL
    BY <1>2, <2>1, FrontHasData
  <2>3. Old(u) \in live'
    <3>1. u \in Threads /\ pc'[u] \in NextLabels
      BY <1>1, <1>2 DEF NextLabels
    <3>. QED  BY <1>1, <3>1 DEF NoUseAfterFree, GuardsOld
  <2>. QED  BY <1>1, <2>2, <2>3
<1>. QED  BY <1>1, <1>2 DEF ConsumerInv

LEMMA PopKeepsConsumer ==
    ASSUME IInv, ConsumerInv, NEW t \in Threads \ Pushers, Pop(t),
           \A u \in (Threads \ Pushers) \ {t} : pc[u] \notin Fronting
    PROVE  ConsumerInv'
<1>1. ShapeInv /\ t \in Threads
  BY DEF IInv
<1>2. \A u \in (Threads \ Pushers) \ {t} : pc'[u] \notin Fronting
  <2>1. \A u \in Threads \ {t} : pc'[u] = pc[u]
    <3>1. PICK to : pc' = [pc EXCEPT ![t] = to]
      BY <1>1, OneMoves
    <3>. QED  BY <1>1, <3>1 DEF ShapeInv, PlacesInv
  <2>. QED  BY <2>1
<1>3. pc[t] # "cas_head" => handled = popped
  BY DEF ConsumerInv, Fronting
<1>4. ASSUME pc'[t] \notin Fronting, handled' = popped' PROVE ConsumerInv'
  BY <1>2, <1>4 DEF ConsumerInv, Fronting
<1>5. ASSUME pc'[t] \in Fronting \ {"in_callback", "cas_head"}, handled' = popped',
             head' = my'[t].old
      PROVE  ConsumerInv'
  BY <1>2, <1>5 DEF ConsumerInv, Fronting
<1>6. GuardsOld(t) => Old(t) \in Nodes
  <2>1. Alive => \E pos \in [Nodes -> Int] : QueueInv(pos)
    BY DEF IInv
  <2>2. ~Alive => ~GuardsOld(t)
    BY DEF IInv, ClosingInv, Alive, Done, GuardsOld, PushLabels, HeadLabels, NextLabels
  <2>. QED  BY <1>1, <2>1, <2>2, LinkedNodes DEF QueueInv, ThreadInv, Popping
<1>7. CASE PopStart(t)
  <2>1. pc[t] = "idle" /\ pc'[t] = "guard_head" /\ UNCHANGED <<handled, popped>>
    BY <1>1, <1>7, PopStartDoes DEF Moves, PopStart, history
  <2>. QED  BY <1>3, <1>4, <2>1 DEF Fronting
<1>8. CASE GuardHead(t)
  <2>1. /\ pc[t] = "guard_head" /\ pc'[t] = "check_empty" /\ my'[t].old = head'
        /\ UNCHANGED <<handled, popped>>
    BY <1>1, <1>8, GuardHeadDoes DEF Moves, GuardHead, history
  <2>. QED  BY <1>3, <1>5, <2>1 DEF Fronting
<1>9. CASE CheckEmpty(t)
  <2>1. /\ pc[t] = "check_empty" /\ pc'[t] \in {"drop_head", "guard_next"} /\ my' = my
        /\ UNCHANGED <<head, handled, popped>>
    BY <1>1, <1>9, CheckEmptyDoes DEF Moves, CheckEmpty, history
  <2>2. head' = my'[t].old
    BY <2>1 DEF ConsumerInv, Fronting
  <2>. QED  BY <1>3, <1>4, <1>5, <2>1, <2>2 DEF Fronting
<1>10. CASE GuardNext(t)
  <2>1. pc[t] = "guard_next" /\ UNCHANGED <<head, handled, popped>>
    BY <1>1, <1>10 DEF GuardNext, Goto, history
  <2>2. pc'[t] \in {"drop_head", "callback"} /\ my'[t].old = my[t].old
    <3>1. Old(t) \in Nodes
      BY <1>6, <2>1 DEF GuardsOld, HeadLabels
    <3>. QED  BY <1>1, <1>10, <3>1, GuardNextDoes DEF Moves
  <2>3. head' = my'[t].old
    BY <2>1, <2>2 DEF ConsumerInv, Fronting
  <2>. QED  BY <1>3, <1>4, <1>5, <2>1, <2>2, <2>3 DEF Fronting
<1>11. CASE StartCallback(t)
  <2>1. /\ pc[t] = "callback" /\ pc'[t] = "in_callback" /\ my'[t].val = node[Old(t)].data
        /\ my'[t].old = my[t].old /\ UNCHANGED <<head, node, handled, popped>>
    BY <1>1, <1>11, StartCallbackDoes DEF Moves, SameLocals, StartCallback, nodes, history
  <2>. QED  BY <1>2, <1>3, <2>1 DEF ConsumerInv, Fronting, Old
<1>12. CASE EndCallback(t)
  <2>1. /\ pc[t] = "in_callback" /\ my'[t].old = my[t].old /\ UNCHANGED <<head, node, popped>>
        /\ \/ pc'[t] = "cas_head" /\ handled' = Append(handled, my[t].val)
           \/ pc'[t] = "drop_next" /\ handled' = handled
    BY <1>1, <1>12, EndCallbackDoes DEF Moves, SameLocals, EndCallback, Goto, nodes, ShapeInv,
       PlacesInv
  <2>2. head = my[t].old /\ my[t].val = node[Old(t)].data
    BY <2>1 DEF ConsumerInv, Fronting
  <2>. QED  BY <1>2, <1>3, <1>4, <2>1, <2>2 DEF ConsumerInv, Fronting, Old
<1>13. CASE CasHead(t)
  <2>1. pc[t] = "cas_head"
    BY <1>13 DEF CasHead, Goto
  <2>2. head = my[t].old /\ handled = Append(popped, node[Old(t)].data)
    BY <2>1 DEF ConsumerInv, Fronting
  <2>3. /\ pc'[t] = "take_data" /\ popped' = Append(popped, node[Old(t)].data)
        /\ handled' = handled
    BY <1>1, <1>13, <2>2 DEF CasHead, Goto, ShapeInv, PlacesInv
  <2>. QED  BY <1>4, <2>2, <2>3 DEF Fronting
<1>14. ASSUME pc[t] # "cas_head", pc'[t] \notin Fronting, UNCHANGED <<handled, popped>>
       PROVE  ConsumerInv'
  BY <1>3, <1>4, <1>14
<1>15. CASE TakeData(t) \/ CloseNext(t)
  BY <1>1, <1>14, <1>15 DEF TakeData, CloseNext, Goto, history, Fronting, ShapeInv, PlacesInv
<1>16. CASE UpdateCounts(t)
  BY <1>1, <1>14, <1>16, UpdateCountsDoes DEF Moves, UpdateCounts, history, Fronting
<1>17. CASE DropHead(t)
  BY <1>1, <1>14, <1>17 DEF DropHead, Goto, Fronting, ShapeInv, PlacesInv
<1>. QED  BY <1>7, <1>8, <1>9, <1>10, <1>11, <1>12, <1>13, <1>15, <1>16, <1>17 DEF Pop

LEMMA ConsumerInvariant ==
    ASSUME \A t, u \in Poppers : t = u
    PROVE  Spec => []ConsumerInv
<1>1. Init => ConsumerInv
  BY DEF Init, ConsumerInv, Fronting
<1>2. ASSUME IInv, NoUseAfterFree', ConsumerInv, [Next]_vars PROVE ConsumerInv'
  <2>1. CASE UNCHANGED vars
    BY <1>2, <2>1 DEF vars, nodes, history, ConsumerInv, Old
  <2>2. ASSUME NEW t \in Pushers, Push(t) PROVE ConsumerInv'
    BY <1>2, <2>2, PushKeepsConsumer
  <2>3. ASSUME NEW t \in Poppers, Pop(t) PROVE ConsumerInv'
    <3>1. t \in Threads \ Pushers /\ pc[Destructor] = "idle"
      BY <1>2, <2>3, OthersAct, QueueAssumption DEF IInv, Threads
    <3>2. \A u \in (Threads \ Pushers) \ {t} : pc[u] \notin Fronting
      BY <3>1 DEF Threads, Fronting
    <3>. QED  BY <1>2, <2>3, <3>1, <3>2, PopKeepsConsumer
  <2>4. CASE Pop(Destructor)
    <3>1. Alone
      BY <1>2, <2>4, DestructorAlone DEF IInv
    <3>. QED  BY <1>2, <2>4, <3>1, DestructorIsNone, PopKeepsConsumer DEF Alone, Fronting
  <2>. QED  BY <1>2, <2>1, <2>2, <2>3, <2>4 DEF Next, Terminated
<1>. QED  BY <1>1, <1>2, Invariant, NoUseAfterFreeAlways, PTL DEF Spec

\* With one popper, what a callback has been given stays in the queue while it runs.
THEOREM CallbackValueAlwaysStable ==
    ASSUME \A t, u \in Poppers : t = u
    PROVE  Spec => []CallbackValueStable
<1>1. ASSUME IInv, ConsumerInv PROVE CallbackValueStable
  <2>1. SUFFICES ASSUME NEW t \in Threads, pc[t] = "in_callback"
                 PROVE  my[t].val # NULL /\ node[Old(t)].data = my[t].val
    BY DEF CallbackValueStable
  <2>2. t \in Threads \ Pushers
    BY <1>1, <2>1 DEF IInv, ShapeInv, PlacesInv, PushPlaces, PushLabels
  <2>3. head = my[t].old /\ my[t].val = node[Old(t)].data
    BY <1>1, <2>1, <2>2 DEF ConsumerInv, Fronting
  <2>. QED  BY <1>1, <2>1, <2>2, <2>3, FrontHasData
<1>. QED  BY <1>1, Invariant, ConsumerInvariant, PTL

\* With one popper, values are handled in the order in which they leave the queue, each
\* once, and only the one about to leave has been handled before that.
THEOREM HandledAlwaysOnce ==
    ASSUME \A t, u \in Poppers : t = u
    PROVE  Spec => []HandledOnce
<1>1. ASSUME IInv, ConsumerInv PROVE HandledOnce
  <2>1. ASSUME NEW t \in Threads \ Pushers, pc[t] = "cas_head" PROVE HandledOnce
    <3>1. head = my[t].old /\ handled = Append(popped, node[Old(t)].data)
      BY <1>1, <2>1 DEF ConsumerInv, Fronting
    <3>2. node[Old(t)].data \in Values
      BY <1>1, <2>1, <3>1, FrontHasData
    <3>. QED  BY <3>1, <3>2 DEF HandledOnce
  <2>2. CASE \A t \in Threads \ Pushers : pc[t] # "cas_head"
    BY <1>1, <2>2 DEF ConsumerInv, HandledOnce
  <2>. QED  BY <2>1, <2>2
<1>. QED  BY <1>1, Invariant, ConsumerInvariant, PTL

----------------------------------------------------------------------------
(* One pusher *)

\* The nodes from head to tail.
Row(r) ==
    /\ r \in Seq(Nodes) /\ Len(r) > 0 /\ r[1] = head.ptr /\ r[Len(r)] = tail.ptr
    /\ \A i \in 1 .. Len(r) - 1 : node[r[i]].next.ptr = r[i + 1]

\* A single pusher fills the node at tail, links the next one and moves tail itself.
PusherInv(p) ==
    /\ pc[p] # "link_help"
    /\ pc[p] \in {"cas_data", "link_own", "set_tail"} => Old(p) = tail.ptr
    /\ pc[p] \in {"set_tail", "free_tail", "drop_tail"} => my[p].new = NULL
    /\ node[tail.ptr].data = IF pc[p] \in {"link_own", "set_tail"} THEN my[p].val ELSE NULL
    /\ pc[p] = "set_tail" => node[my[p].nxt.ptr].data = NULL

\* The values that have been popped, and then those in the nodes, are the first ones
\* of its script, up to the one that it has put into a node last.
Entered(p) == calls[p] + One(pc[p] \in {"link_own", "set_tail", "free_tail", "drop_tail"})
OrderInv(p, r) ==
    /\ Len(popped) + Len(r) - One(node[tail.ptr].data = NULL) = Entered(p)
    /\ \A i \in 1 .. Len(popped) : popped[i] = Script[p][i]
    /\ \A i \in 1 .. Len(r) :
         node[r[i]].data # NULL => node[r[i]].data = Script[p][Len(popped) + i]

CallsInv(p) ==
    /\ calls[p] <= Len(Script[p]) /\ pushed = {Script[p][i] : i \in 1 .. calls[p]}
    /\ pc[p] # "idle" => calls[p] < Len(Script[p]) /\ my[p].val = Script[p][calls[p] + 1]

\* The destructor has popped all values before it deletes the last node.
EmptiedInv(p) ==
    /\ calls[p] = Len(Script[p]) /\ Len(popped) = Len(Script[p])
    /\ \A i \in 1 .. Len(popped) : popped[i] = Script[p][i]
    /\ tail.ptr = head.ptr /\ node[head.ptr].data = NULL

InOrder(p, r) == CallsInv(p) /\ PusherInv(p) /\ Row(r) /\ OrderInv(p, r)

OnePusherInv(p) == IF Alive THEN \E r : InOrder(p, r) ELSE CallsInv(p) /\ EmptiedInv(p)

----------------------------------------------------------------------------
(* The contents of the queue *)

LEMMA NodesFromHead ==
    ASSUME ShapeInv
    PROVE  /\ NodeAt[0] = head.ptr
           /\ \A k \in Nat : NodeAt[k + 1] = IF NodeAt[k] = NULL THEN NULL
                                             ELSE node[NodeAt[k]].next.ptr
<1>. DEFINE S == Nodes \cup {NULL}
            next == [n \in S |-> IF n = NULL THEN NULL ELSE node[n].next.ptr]
            Is(f) == f = [k \in Nat |-> IF k = 0 THEN head.ptr
                                        ELSE IF f[k - 1] = NULL THEN NULL
                                        ELSE node[f[k - 1]].next.ptr]
<1>1. head.ptr \in S /\ next \in [S -> S]
  BY DEF ShapeInv, AnyLink, AnyNode
<1>2. \A n \in S : next[n] = IF n = NULL THEN NULL ELSE node[n].next.ptr
  OBVIOUS
<1>3. PICK f \in [Nat -> S] : f[0] = head.ptr /\ \A k \in Nat : f[k + 1] = next[f[k]]
  <2>. DEFINE first == head.ptr
  <2>1. first \in S /\ next \in [S -> S]
    BY <1>1
  <2>. HIDE DEF S, next, first
  <2>2. \E f \in [Nat -> S] : f[0] = first /\ \A k \in Nat : f[k + 1] = next[f[k]]
    BY <2>1, IterationExists
  <2>. QED  BY <2>2 DEF first
<1>4. Is(f)
  <2>1. ASSUME NEW k \in Nat
        PROVE  f[k] = IF k = 0 THEN head.ptr
                      ELSE IF f[k - 1] = NULL THEN NULL ELSE node[f[k - 1]].next.ptr
    <3>1. CASE k = 0
      BY <1>3, <3>1
    <3>2. CASE k # 0
      <4>1. k - 1 \in Nat /\ (k - 1) + 1 = k
        BY <3>2
      <4>2. f[k] = next[f[k - 1]] /\ f[k - 1] \in S
        <5>. HIDE DEF S, next
        <5>. QED  BY <1>3, <4>1
      <4>. QED  BY <1>2, <3>2, <4>2
    <3>. QED  BY <3>1, <3>2
  <2>2. f = [k \in Nat |-> f[k]]
    BY <1>3
  <2>. QED  BY <2>1, <2>2
<1>5. Is(NodeAt)
  <2>1. NodeAt = CHOOSE g : Is(g)
    BY DEF NodeAt
  <2>. HIDE DEF Is
  <2>. QED  BY <1>4, <2>1
<1>6. \A k \in Nat : NodeAt[k] = IF k = 0 THEN head.ptr
                                 ELSE IF NodeAt[k - 1] = NULL THEN NULL
                                 ELSE node[NodeAt[k - 1]].next.ptr
  BY <1>5
<1>7. \A k \in Nat : k + 1 \in Nat /\ k + 1 # 0 /\ (k + 1) - 1 = k
  OBVIOUS
<1>. QED  BY <1>6, <1>7

\* The nodes of a row follow one another in the chain, from head on.
LEMMA RowInPlace ==
    ASSUME ShapeInv, NEW pos \in [Nodes -> Int], ChainInv(pos), NEW r, Row(r)
    PROVE  \A i \in 1 .. Len(r) : r[i] \in Linked /\ pos[r[i]] = pos[head.ptr] + i - 1
<1>. DEFINE Placed(i) == r[i] \in Linked /\ pos[r[i]] = pos[head.ptr] + i - 1
            without == {i \in Nat : i \in 1 .. Len(r) /\ ~Placed(i)}
<1>1. SUFFICES ASSUME without # {} PROVE FALSE
  <2>1. \A i \in 1 .. Len(r) : i \in Nat
    BY DEF Row
  <2>2. \A i \in 1 .. Len(r) : i \notin without => Placed(i)
    <3>. HIDE DEF Placed
    <3>. QED  BY <2>1
  <2>. QED  BY <2>2
<1>2. PICK i \in without : \A m \in without : i <= m
  <2>1. without \in SUBSET Nat
    OBVIOUS
  <2>. HIDE DEF without
  <2>. QED  BY <1>1, <2>1, LeastNatural
<1>3. i \in 1 .. Len(r) /\ ~Placed(i) /\ Len(r) \in Nat
  BY <1>2 DEF Row
<1>4. head.ptr \in Linked /\ pos[head.ptr] \in Int
  BY LinkedNodes DEF ChainInv, Chained
<1>5. i # 1
  BY <1>3, <1>4 DEF Row
<1>6. i - 1 \in 1 .. Len(r) - 1 /\ i - 1 \in Nat /\ i - 1 \in 1 .. Len(r) /\ ~(i <= i - 1)
      /\ (i - 1) + 1 = i
  BY <1>3, <1>5
<1>7. Placed(i - 1)
  <2>1. i - 1 \notin without
    <3>. HIDE DEF without
    <3>. QED  BY <1>2, <1>6
  <2>. QED  BY <1>6, <2>1
<1>8. node[r[i - 1]].next.ptr = r[i] /\ r[i] \in Nodes /\ r[i] # NULL
  <2>1. node[r[i - 1]].next.ptr = r[(i - 1) + 1]
    BY <1>6 DEF Row
  <2>2. r[i] \in Nodes
    BY <1>3 DEF Row
  <2>. QED  BY <1>6, <2>1, <2>2, QueueAssumption
<1>9. r[i] \in Linked /\ pos[r[i]] = pos[r[i - 1]] + 1
  BY <1>7, <1>8 DEF ChainInv, Chained
<1>. QED  BY <1>3, <1>4, <1>7, <1>9

\* The nodes in front of tail have a value; none is in the row twice.
LEMMA RowFacts ==
    ASSUME ShapeInv, NEW pos \in [Nodes -> Int], ChainInv(pos), NEW r, Row(r)
    PROVE  /\ Len(r) \in Nat /\ Len(r) = pos[tail.ptr] - pos[head.ptr] + 1
           /\ Len(r) <= Cardinality(Nodes) /\ Cardinality(Nodes) \in Nat
           /\ \A i \in 1 .. Len(r) - 1 : node[r[i]].data # NULL
           /\ \A i, j \in 1 .. Len(r) : r[i] = r[j] => i = j
<1>1. Len(r) \in Nat /\ r \in [1 .. Len(r) -> Nodes] /\ Len(r) \in 1 .. Len(r)
  BY DEF Row
<1>2. \A i \in 1 .. Len(r) : r[i] \in Linked /\ pos[r[i]] = pos[head.ptr] + i - 1
  BY RowInPlace
<1>3. pos[head.ptr] \in Int
  BY LinkedNodes DEF ChainInv, Chained
<1>4. Len(r) = pos[tail.ptr] - pos[head.ptr] + 1
  BY <1>1, <1>2, <1>3 DEF Row
<1>5. \A i, j \in 1 .. Len(r) : r[i] = r[j] => i = j
  BY <1>1, <1>2, <1>3
<1>6. Cardinality(1 .. Len(r)) = Len(r)
  <2>1. Cardinality(1 .. Len(r)) = IF 1 > Len(r) THEN 0 ELSE Len(r) - 1 + 1
    BY <1>1, FS_Interval
  <2>. QED  BY <1>1, <2>1
<1>7. r \in Injection(1 .. Len(r), Nodes)
  BY <1>1, <1>5 DEF Injection, IsInjective
<1>8. Cardinality(1 .. Len(r)) <= Cardinality(Nodes)
  BY <1>7, FS_Injection, QueueAssumption
<1>9. Cardinality(Nodes) \in Nat
  BY FS_CardinalityType, QueueAssumption
<1>10. ASSUME NEW i \in 1 .. Len(r) - 1 PROVE node[r[i]].data # NULL
  <2>1. i \in 1 .. Len(r) /\ i \in Int
    BY <1>1
  <2>2. node[r[i]].next.ptr # NULL
    <3>1. i + 1 \in 1 .. Len(r) /\ node[r[i]].next.ptr = r[i + 1]
      BY <1>1 DEF Row
    <3>. QED  BY <1>2, <3>1, LinkedNodes
  <2>3. r[i] \in Linked /\ pos[head.ptr] <= pos[r[i]]
    <3>1. pos[r[i]] = pos[head.ptr] + i - 1 /\ r[i] \in Linked /\ i >= 1
      BY <1>2, <2>1
    <3>. QED  BY <1>3, <2>1, <3>1
  <2>. QED  BY <2>2, <2>3 DEF ChainInv, Filled
<1>. QED  BY <1>1, <1>4, <1>5, <1>6, <1>8, <1>9, <1>10

\* The nodes that are counted from head are those of the row, up to tail.
LEMMA NodesAreRow ==
    ASSUME ShapeInv, NEW r, Row(r)
    PROVE  \A k \in 0 .. Len(r) - 1 : NodeAt[k] = r[k + 1]
<1>. DEFINE without == {k \in Nat : k <= Len(r) - 1 /\ NodeAt[k] # r[k + 1]}
<1>0. Len(r) \in Nat /\ \A k \in 0 .. Len(r) - 1 : k \in Nat /\ k <= Len(r) - 1
  BY DEF Row
<1>1. SUFFICES ASSUME without # {} PROVE FALSE
  BY <1>0
<1>2. PICK k \in without : \A m \in without : k <= m
  <2>1. without \in SUBSET Nat
    OBVIOUS
  <2>. HIDE DEF without
  <2>. QED  BY <1>1, <2>1, LeastNatural
<1>3. k \in Nat /\ k <= Len(r) - 1 /\ NodeAt[k] # r[k + 1]
  BY <1>2
<1>4. k # 0
  BY <1>3, NodesFromHead DEF Row
<1>5. k - 1 \in Nat /\ k - 1 <= Len(r) - 1 /\ ~(k <= k - 1) /\ (k - 1) + 1 = k
      /\ k \in 1 .. Len(r) - 1 /\ k \in 1 .. Len(r)
  BY <1>0, <1>3, <1>4
<1>6. NodeAt[k - 1] = r[k]
  <2>1. k - 1 \notin without
    <3>. HIDE DEF without
    <3>. QED  BY <1>2, <1>5
  <2>. QED  BY <1>5, <2>1
<1>7. r[k] \in Nodes /\ r[k] # NULL /\ node[r[k]].next.ptr = r[k + 1]
  BY <1>5, QueueAssumption DEF Row
<1>8. NodeAt[(k - 1) + 1] = node[NodeAt[k - 1]].next.ptr
  BY <1>5, <1>6, <1>7, NodesFromHead
<1>. QED  BY <1>3, <1>5, <1>6, <1>7, <1>8

ValuesOf(r) == [i \in 1 .. Len(r) - One(node[tail.ptr].data = NULL) |-> node[r[i]].data]

\* The node after tail has no value yet.
LEMMA NoneAfterTail ==
    ASSUME ShapeInv, NEW pos \in [Nodes -> Int], QueueInv(pos), NEW p \in Pushers,
           \A t \in Pushers : t = p, PusherInv(p)
    PROVE  LET n == node[tail.ptr].next.ptr
           IN  /\ pc[p] # "set_tail" => n = NULL /\ node[tail.ptr].next = Counted(0, NULL)
               /\ pc[p] = "set_tail" =>
                    n = my[p].nxt.ptr /\ n \in Linked /\ pos[n] = pos[tail.ptr] + 1
               /\ n # NULL => node[n].data = NULL
<1>. DEFINE n == node[tail.ptr].next.ptr
<1>1. /\ ChainInv(pos) /\ tail.ptr \in Linked /\ pos[head.ptr] <= pos[tail.ptr]
      /\ pos[tail.ptr] \in Int /\ Pushing(p, pos)
  BY LinkedNodes DEF QueueInv, ThreadInv, ChainInv, Chained
<1>2. CASE pc[p] # "set_tail"
  <2>1. n = NULL
    <3>1. SUFFICES ASSUME n # NULL PROVE FALSE
      OBVIOUS
    <3>2. n \in Linked /\ pos[n] = pos[tail.ptr] + 1
      BY <1>1, <3>1 DEF ChainInv, Chained
    <3>3. PICK t \in Pushers : pc[t] = "set_tail" /\ Old(t) = tail.ptr
      BY <1>1, <3>2 DEF ChainInv, Ended
    <3>. QED  BY <1>2, <3>3
  <2>. QED  BY <1>1, <1>2, <2>1 DEF ChainInv, Ended
<1>3. CASE pc[p] = "set_tail"
  <2>1. Old(p) = tail.ptr /\ node[my[p].nxt.ptr].data = NULL
    BY <1>3 DEF PusherInv
  <2>2. my[p].nxt.ptr \in Linked /\ pos[my[p].nxt.ptr] = pos[tail.ptr] + 1
    BY <1>1, <1>3, <2>1 DEF Pushing
  <2>3. n # NULL
    <3>1. SUFFICES ASSUME n = NULL PROVE FALSE
      OBVIOUS
    <3>2. pos[my[p].nxt.ptr] <= pos[tail.ptr]
      BY <1>1, <2>2, <3>1 DEF ChainInv, Ended
    <3>. QED  BY <1>1, <2>2, <3>2
  <2>4. n \in Linked /\ pos[n] = pos[tail.ptr] + 1
    BY <1>1, <2>3 DEF ChainInv, Chained
  <2>5. n = my[p].nxt.ptr
    BY <1>1, <2>2, <2>4 DEF ChainInv, Chained
  <2>. QED  BY <1>3, <2>1, <2>2, <2>4, <2>5
<1>. QED  BY <1>2, <1>3

LEMMA ContentsOfRow ==
    ASSUME ShapeInv, NEW pos \in [Nodes -> Int], QueueInv(pos), NEW p \in Pushers,
           \A t \in Pushers : t = p, PusherInv(p), NEW r, Row(r)
    PROVE  Contents = ValuesOf(r)
<1>. DEFINE m == Len(r) - One(node[tail.ptr].data = NULL)
            filled == {k \in 0 .. Cardinality(Nodes) : \A j \in 0 .. k : HasValue(j)}
<1>1. /\ Len(r) \in Nat /\ Len(r) > 0 /\ Len(r) <= Cardinality(Nodes) /\ Cardinality(Nodes) \in Nat
      /\ \A i \in 1 .. Len(r) - 1 : node[r[i]].data # NULL
      /\ r[Len(r)] = tail.ptr /\ \A i \in 1 .. Len(r) : r[i] \in Nodes
  <2>1. ChainInv(pos)
    BY DEF QueueInv
  <2>2. /\ Len(r) \in Nat /\ Len(r) <= Cardinality(Nodes) /\ Cardinality(Nodes) \in Nat
        /\ \A i \in 1 .. Len(r) - 1 : node[r[i]].data # NULL
    BY <2>1, RowFacts
  <2>. QED  BY <2>2 DEF Row
<1>2. \A k \in 0 .. Len(r) - 1 : NodeAt[k] = r[k + 1]
  BY NodesAreRow
<1>3. m \in Nat /\ m <= Len(r) /\ m <= Cardinality(Nodes)
      /\ (m = IF node[tail.ptr].data = NULL THEN Len(r) - 1 ELSE Len(r))
  BY <1>1 DEF One
<1>4. ASSUME NEW k \in 0 .. m - 1 PROVE HasValue(k)
  <2>1. k \in 0 .. Len(r) - 1 /\ k + 1 \in 1 .. Len(r) /\ k \in Nat
    BY <1>1, <1>3
  <2>2. NodeAt[k] = r[k + 1] /\ NodeAt[k] # NULL
    BY <1>1, <1>2, <2>1, QueueAssumption
  <2>3. node[r[k + 1]].data # NULL
    <3>1. CASE k + 1 \in 1 .. Len(r) - 1
      BY <1>1, <3>1
    <3>2. CASE k + 1 = Len(r) /\ node[tail.ptr].data # NULL
      BY <1>1, <3>2
    <3>. QED  BY <1>1, <1>3, <2>1, <3>1, <3>2
  <2>. QED  BY <2>2, <2>3 DEF HasValue
<1>5. ~HasValue(m)
  <2>1. CASE node[tail.ptr].data = NULL
    <3>1. m = Len(r) - 1 /\ m \in 0 .. Len(r) - 1 /\ m + 1 = Len(r)
      BY <1>1, <1>3, <2>1
    <3>2. NodeAt[m] = tail.ptr
      <4>. HIDE DEF m
      <4>. QED  BY <1>1, <1>2, <3>1
    <3>. HIDE DEF m
    <3>. QED  BY <2>1, <3>2 DEF HasValue
  <2>2. CASE node[tail.ptr].data # NULL
    <3>1. m = Len(r) /\ Len(r) - 1 \in 0 .. Len(r) - 1 /\ Len(r) - 1 \in Nat
          /\ (Len(r) - 1) + 1 = Len(r)
      BY <1>1, <1>3, <2>2
    <3>2. NodeAt[Len(r) - 1] = tail.ptr /\ tail.ptr # NULL
      BY <1>1, <1>2, <3>1, QueueAssumption
    <3>3. NodeAt[m] = node[tail.ptr].next.ptr
      <4>. HIDE DEF m
      <4>1. NodeAt[(Len(r) - 1) + 1] = node[tail.ptr].next.ptr
        BY <3>1, <3>2, NodesFromHead
      <4>. QED  BY <3>1, <4>1
    <3>4. NodeAt[m] # NULL => node[NodeAt[m]].data = NULL
      BY <3>3, NoneAfterTail
    <3>. HIDE DEF m
    <3>. QED  BY <3>4 DEF HasValue
  <2>. QED  BY <2>1, <2>2
<1>. HIDE DEF m
<1>6. filled = 0 .. m - 1
  <2>1. ASSUME NEW k \in 0 .. m - 1 PROVE k \in filled
    <3>1. k \in 0 .. Cardinality(Nodes) /\ \A j \in 0 .. k : j \in 0 .. m - 1
      BY <1>1, <1>3
    <3>. QED  BY <1>4, <3>1
  <2>2. ASSUME NEW k \in filled PROVE k \in 0 .. m - 1
    <3>1. k \in Nat /\ m \notin 0 .. k
      BY <1>1, <1>5
    <3>. QED  BY <1>3, <3>1
  <2>. HIDE DEF filled
  <2>. QED  BY <2>1, <2>2
<1>7. Cardinality(filled) = m
  <2>1. \A b \in Int : Cardinality(0 .. b) = IF 0 > b THEN 0 ELSE b - 0 + 1
    BY FS_Interval
  <2>. HIDE DEF filled
  <2>. QED  BY <1>3, <1>6, <2>1
<1>8. Contents = [i \in 1 .. Cardinality(filled) |-> node[NodeAt[i - 1]].data]
  BY DEF Contents
<1>9. ASSUME NEW i \in 1 .. m PROVE NodeAt[i - 1] = r[i]
  <2>1. i - 1 \in 0 .. Len(r) - 1 /\ (i - 1) + 1 = i
    BY <1>1, <1>3
  <2>. QED  BY <1>2, <2>1
<1>10. [i \in 1 .. m |-> node[NodeAt[i - 1]].data] = [i \in 1 .. m |-> node[r[i]].data]
  BY <1>9
<1>. QED  BY <1>7, <1>8, <1>10 DEF ValuesOf, m

----------------------------------------------------------------------------
(* Steps that leave the contents as they are *)

\* The nodes from head on keep their values and their next nodes.
FrontSame(pos) == \A n \in Linked : pos[head.ptr] <= pos[n] =>
    node'[n].data = node[n].data /\ node'[n].next.ptr = node[n].next.ptr

\* A node that a source has still to report on is not deleted.
LEMMA CountedKept ==
    ASSUME ShapeInv, NEW pos \in [Nodes -> Int], QueueInv(pos),
           NEW m \in Nodes, NEW internal, NEW external, Stored(m, internal, external),
           NEW n \in Linked, pos[head.ptr] <= pos[n],
           \/ external = node[m].external_counters
           \/ /\ external = (node[m].external_counters - 1) % 4
              /\ m = n => TailSource(n, pos) \/ NextSource(n)
    PROVE  node'[n].data = node[n].data /\ node'[n].next = node[n].next
<1>1. n \in Nodes /\ HeadSource(n, pos)
  BY LinkedNodes DEF HeadSource
<1>2. CASE n # m
  BY <1>1, <1>2 DEF Stored, Kept, Freed
<1>3. CASE n = m
  <2>1. node[n].external_counters =
          One(HeadSource(n, pos)) + One(TailSource(n, pos)) + One(NextSource(n))
    BY DEF QueueInv, SourcesInv
  <2>2. node[n].external_counters \in 0 .. 3
    BY <1>1, NodeParts
  <2>3. external # 0
    <3>1. CASE external = node[n].external_counters
      BY <1>1, <2>1, <3>1 DEF One
    <3>2. CASE external # node[n].external_counters
      <4>1. external = (node[n].external_counters - 1) % 4
            /\ (TailSource(n, pos) \/ NextSource(n))
        BY <1>3, <3>2
      <4>2. node[n].external_counters >= 2
        BY <1>1, <2>1, <4>1 DEF One
      <4>. QED  BY <2>2, <4>1, <4>2, OneLess
    <3>. QED  BY <3>1, <3>2
  <2>. QED  BY <1>3, <2>3 DEF Stored, Kept, Freed, Counts
<1>. QED  BY <1>2, <1>3

LEMMA CountsKeepFront ==
    ASSUME ShapeInv, NEW pos \in [Nodes -> Int], QueueInv(pos),
           NEW t \in Threads, UpdateCounts(t), pc[t] # "destroy_tail",
           pc[t] = "destroy_head" => tail.ptr = head.ptr
    PROVE  FrontSame(pos)
<1>1. ASSUME NEW p \in AnyLink, p.ptr \in Nodes, NEW n \in Linked, pos[head.ptr] <= pos[n],
             \/ DropGuard(p)
             \/ FreeExternalCounter(p) /\ (p.ptr = n => TailSource(n, pos) \/ NextSource(n))
      PROVE  node'[n].data = node[n].data /\ node'[n].next.ptr = node[n].next.ptr
  <2>1. CASE DropGuard(p)
    <3>1. \E internal, external :
            Stored(p.ptr, internal, external) /\ external = node[p.ptr].external_counters
      BY <1>1, <2>1, DropGuardDoes
    <3>. QED  BY <1>1, <3>1, CountedKept
  <2>2. CASE ~DropGuard(p)
    <3>1. \E internal, external : /\ Stored(p.ptr, internal, external)
                                  /\ external = (node[p.ptr].external_counters - 1) % 4
      BY <1>1, <2>2, FreeExternalCounterDoes
    <3>. QED  BY <1>1, <2>2, <3>1, CountedKept
  <2>. QED  BY <2>1, <2>2
<1>2. my[t].old \in AnyLink /\ my[t].nxt \in AnyLink /\ my[t].old.ptr = Old(t)
      /\ head \in AnyLink /\ (t \in Pushers => pc[t] \in PushPlaces)
      /\ (t \notin Pushers => pc[t] \in PopPlaces)
  BY LocalParts DEF ShapeInv, PlacesInv, Old
<1>3. SUFFICES ASSUME NEW n \in Linked, pos[head.ptr] <= pos[n]
               PROVE  node'[n].data = node[n].data /\ node'[n].next.ptr = node[n].next.ptr
  BY DEF FrontSame
<1>4. head.ptr \in Linked /\ head.ptr \in Nodes /\ pos[head.ptr] \in Int /\ pos[n] \in Int
  BY LinkedNodes DEF QueueInv, ChainInv, Chained
<1>5. CASE pc[t] = "free_tail"
  <2>1. FreeExternalCounter(my[t].old)
    BY <1>5, UpdateCountsDoes DEF Moves
  <2>2. t \in Pushers
    BY <1>2, <1>5 DEF PopPlaces, HeadLabels, NextLabels
  <2>3. Old(t) \in Nodes
    BY <1>5, <2>2, LinkedNodes DEF QueueInv, ThreadInv, Pushing, GuardsOld, PushLabels
  <2>4. Old(t) = n => TailSource(n, pos)
    BY <1>5 DEF TailSource
  <2>. QED  BY <1>1, <1>2, <1>3, <2>1, <2>3, <2>4
<1>6. CASE pc[t] \in {"free_head", "free_next", "drop_next"}
  <2>1. t \notin Pushers
    BY <1>2, <1>6 DEF PushPlaces, PushLabels
  <2>2. Popping(t, pos) /\ GuardsOld(t) /\ GuardsNext(t)
    BY <1>6, <2>1 DEF QueueInv, ThreadInv, GuardsOld, GuardsNext, NextLabels
  <2>3. Old(t) \in Nodes /\ my[t].nxt.ptr \in Nodes
    BY <2>2, LinkedNodes DEF Popping
  <2>4. CASE pc[t] = "free_head"
    <3>1. FreeExternalCounter(my[t].old)
      BY <2>4, UpdateCountsDoes DEF Moves
    <3>2. Old(t) # n
      BY <1>3, <1>4, <2>2, <2>4 DEF Popping, Taken
    <3>. QED  BY <1>1, <1>2, <1>3, <2>3, <3>1, <3>2
  <2>5. CASE pc[t] = "free_next"
    <3>1. FreeExternalCounter(my[t].nxt)
      BY <2>5, UpdateCountsDoes DEF Moves
    <3>2. my[t].nxt.ptr = n => NextSource(n)
      BY <2>5 DEF NextSource
    <3>. QED  BY <1>1, <1>2, <1>3, <2>3, <3>1, <3>2
  <2>6. CASE pc[t] = "drop_next"
    <3>1. DropGuard(my[t].nxt)
      BY <2>6, UpdateCountsDoes DEF Moves
    <3>. QED  BY <1>1, <1>2, <1>3, <2>3, <3>1
  <2>. QED  BY <1>6, <2>4, <2>5, <2>6
<1>7. CASE pc[t] = "destroy_head"
  <2>1. FreeExternalCounter(head)
    BY <1>7, UpdateCountsDoes DEF Moves
  <2>2. head.ptr = n => TailSource(n, pos)
    BY <1>4, <1>7 DEF TailSource
  <2>. QED  BY <1>1, <1>2, <1>3, <1>4, <2>1, <2>2
<1>. QED  BY <1>5, <1>6, <1>7, UpdateCountsDoes DEF Moves

\* Unless it has just moved head, a popper has changed nothing a pusher can see.
MovesHead(t) == pc[t] = "cas_head" /\ head = my[t].old

LEMMA PopKeepsFront ==
    ASSUME ShapeInv, UnlinkedInv, NEW pos \in [Nodes -> Int], QueueInv(pos),
           NEW t \in Threads \ Pushers, Pop(t), pc[t] # "destroy_tail",
           pc[t] = "destroy_head" => tail.ptr = head.ptr
    PROVE  /\ FrontSame(pos) /\ tail' = tail /\ pushed' = pushed
           /\ \A u \in Pushers : pc'[u] = pc[u] /\ my'[u] = my[u] /\ calls'[u] = calls[u]
           /\ ~MovesHead(t) => head'.ptr = head.ptr /\ popped' = popped
<1>1. \A n \in Linked : n \in Nodes /\ pos[n] \in Int
  BY LinkedNodes
<1>2. GuardsOld(t) => Old(t) \in Nodes
  BY LinkedNodes DEF QueueInv, ThreadInv, Popping
<1>3. t \in Threads /\ t \notin Pushers /\ calls \in [Threads -> Nat]
      /\ \A u \in Pushers : u \in Threads \ {t}
  BY DEF ShapeInv, Threads
<1>4. node' = node => FrontSame(pos)
  BY DEF FrontSame
<1>5. CASE PopStart(t)
  BY <1>3, <1>4, <1>5, PopStartDoes DEF PopStart, Moves, nodes, history
<1>6. CASE GuardHead(t)
  BY <1>3, <1>4, <1>6, GuardHeadDoes DEF GuardHead, Moves, nodes, history
<1>7. CASE CheckEmpty(t)
  BY <1>3, <1>4, <1>7, CheckEmptyDoes DEF CheckEmpty, Moves, nodes, history
<1>8. CASE GuardNext(t)
  <2>1. Old(t) \in Nodes
    BY <1>2, <1>8 DEF GuardNext, Goto, GuardsOld, HeadLabels
  <2>2. FrontSame(pos)
    <3>1. Inc(node[Old(t)].next).ptr = node[Old(t)].next.ptr
      BY <2>1, NodeParts DEF Inc, AnyLink
    <3>. QED  BY <1>1, <1>8, <2>1, <3>1, GuardNextDoes DEF FrontSame
  <2>. QED  BY <1>3, <1>8, <2>1, <2>2, GuardNextDoes DEF GuardNext, Moves, history
<1>9. CASE StartCallback(t)
  BY <1>3, <1>4, <1>9, StartCallbackDoes DEF StartCallback, Moves, nodes, history
<1>10. CASE EndCallback(t)
  BY <1>3, <1>4, <1>10, EndCallbackDoes DEF EndCallback, Moves, nodes
<1>11. CASE CasHead(t)
  <2>1. UNCHANGED <<tail, node, calls, pushed>>
    BY <1>11 DEF CasHead, nodes
  <2>2. head # my[t].old => head' = head /\ popped' = popped
    BY <1>11 DEF CasHead
  <2>. QED  BY <1>3, <1>4, <1>11, <2>1, <2>2, CasHeadDoes DEF Moves, MovesHead
<1>12. CASE TakeData(t) \/ CloseNext(t)
  <2>1. pc[t] \in {"take_data", "close_next"}
    BY <1>12 DEF TakeData, CloseNext, Goto
  <2>2. Old(t) \in Nodes /\ Popping(t, pos)
    BY <1>2, <2>1 DEF GuardsOld, NextLabels, QueueInv, ThreadInv
  <2>3. pos[Old(t)] < pos[head.ptr] /\ pos[Old(t)] \in Int /\ pos[head.ptr] \in Int
    BY <1>1, <2>1, <2>2 DEF Popping, Taken, QueueInv, ChainInv, Chained
  <2>4. \A n \in Linked : pos[head.ptr] <= pos[n] => n # Old(t)
    BY <1>1, <2>3
  <2>5. FrontSame(pos)
    BY <1>1, <1>12, <2>2, <2>4, TakeDataDoes, CloseNextDoes DEF FrontSame
  <2>. QED  BY <1>3, <1>12, <2>2, <2>5, TakeDataDoes, CloseNextDoes
            DEF TakeData, CloseNext, Moves, history
<1>13. CASE UpdateCounts(t)
  <2>1. FrontSame(pos)
    BY <1>13, CountsKeepFront
  <2>. QED  BY <1>3, <1>13, <2>1, UpdateCountsDoes DEF UpdateCounts, Moves, history
<1>14. CASE DropHead(t)
  <2>1. pc[t] = "drop_head" /\ DropGuard(my[t].old) /\ UNCHANGED <<head, tail, pushed, popped>>
    BY <1>14 DEF DropHead
  <2>2. Old(t) \in Nodes /\ my[t].old \in AnyLink /\ my[t].old.ptr = Old(t)
    BY <1>2, <2>1, LocalParts DEF GuardsOld, HeadLabels, Old
  <2>3. FrontSame(pos)
    <3>1. \E internal, external :
            Stored(Old(t), internal, external) /\ external = node[Old(t)].external_counters
      BY <2>1, <2>2, DropGuardDoes
    <3>. QED  BY <2>2, <3>1, CountedKept DEF FrontSame
  <2>4. \A u \in Pushers : pc'[u] = pc[u] /\ my'[u] = my[u] /\ calls'[u] = calls[u]
    <3>1. calls' = calls \/ calls' = [calls EXCEPT ![t] = @ + 1]
      BY <1>14 DEF DropHead
    <3>. QED  BY <1>3, <1>14, <3>1, DropHeadDoes DEF Moves
  <2>. QED  BY <2>1, <2>3, <2>4
<1>. QED  BY <1>5, <1>6, <1>7, <1>8, <1>9, <1>10, <1>11, <1>12, <1>13, <1>14 DEF Pop

\* The node at tail is one of those from head on.
LEMMA TailStays ==
    ASSUME ShapeInv, NEW pos \in [Nodes -> Int], QueueInv(pos), FrontSame(pos)
    PROVE  node'[tail.ptr].data = node[tail.ptr].data
  BY DEF FrontSame, QueueInv, ChainInv, Chained

RowSame(r) ==
    /\ \A i \in 1 .. Len(r) : node'[r[i]].data = node[r[i]].data
    /\ \A i \in 1 .. Len(r) - 1 : node'[r[i]].next.ptr = node[r[i]].next.ptr

LEMMA FrontRow ==
    ASSUME ShapeInv, NEW pos \in [Nodes -> Int], QueueInv(pos), FrontSame(pos), NEW r, Row(r)
    PROVE  RowSame(r)
<1>1. Len(r) \in Nat /\ \A i \in 1 .. Len(r) - 1 : i \in 1 .. Len(r)
  BY DEF Row
<1>2. ASSUME NEW i \in 1 .. Len(r)
      PROVE  node'[r[i]].data = node[r[i]].data /\ node'[r[i]].next.ptr = node[r[i]].next.ptr
  <2>1. r[i] \in Linked /\ pos[r[i]] = pos[head.ptr] + i - 1
    BY RowInPlace DEF QueueInv
  <2>2. pos[head.ptr] \in Int /\ i >= 1 /\ i \in Int
    BY <1>1, LinkedNodes DEF QueueInv, ChainInv, Chained
  <2>. QED  BY <2>1, <2>2 DEF FrontSame
<1>. QED  BY <1>1, <1>2 DEF RowSame

LEMMA RowKept ==
    ASSUME NEW r, Row(r), RowSame(r), NEW p, OrderInv(p, r),
           UNCHANGED popped, Entered(p)' = Entered(p), head'.ptr = head.ptr, tail'.ptr = tail.ptr
    PROVE  Row(r)' /\ OrderInv(p, r)' /\ ValuesOf(r)' = ValuesOf(r)
<1>1. Len(r) \in Nat /\ Len(r) \in 1 .. Len(r) /\ \A i \in 1 .. Len(r) - 1 : i \in 1 .. Len(r)
  BY DEF Row
<1>2. \A i \in 1 .. Len(r) : node'[r[i]].data = node[r[i]].data
  BY DEF RowSame
<1>3. node'[tail.ptr].data = node[tail.ptr].data
  BY <1>1, <1>2 DEF Row
<1>4. Row(r)'
  BY <1>1, <1>2 DEF Row, RowSame
<1>5. OrderInv(p, r)'
  <2>1. /\ Entered(p)' = Entered(p)
        /\ One(node'[tail'.ptr].data = NULL) = One(node[tail.ptr].data = NULL)
    BY <1>3
  <2>. QED  BY <1>2, <2>1 DEF OrderInv
<1>6. ValuesOf(r)' = ValuesOf(r)
  <2>. DEFINE m == Len(r) - One(node[tail.ptr].data = NULL)
  <2>1. m <= Len(r) /\ m \in Int
    BY <1>1 DEF One
  <2>2. \A i \in 1 .. m : i \in 1 .. Len(r)
    BY <1>1, <2>1
  <2>3. Len(r) - One(node'[tail'.ptr].data = NULL) = m
    BY <1>3
  <2>. HIDE DEF m
  <2>4. [i \in 1 .. m |-> node'[r[i]].data] = [i \in 1 .. m |-> node[r[i]].data]
    BY <1>2, <2>2
  <2>. QED  BY <2>3, <2>4 DEF ValuesOf, m
<1>. QED  BY <1>4, <1>5, <1>6

\* A popper changes nothing that a single pusher relies on.
LEMMA PusherKept ==
    ASSUME ShapeInv, NEW pos \in [Nodes -> Int], QueueInv(pos), FrontSame(pos),
           NEW p \in Pushers, PusherInv(p), CallsInv(p), tail' = tail, pushed' = pushed,
           pc'[p] = pc[p], my'[p] = my[p], calls'[p] = calls[p]
    PROVE  PusherInv(p)' /\ CallsInv(p)' /\ Entered(p)' = Entered(p)
<1>1. node'[tail.ptr].data = node[tail.ptr].data /\ Old(p)' = Old(p)
  BY TailStays DEF Old
<1>2. ASSUME pc[p] = "set_tail" PROVE node'[my[p].nxt.ptr].data = NULL
  <2>1. Old(p) = tail.ptr /\ Pushing(p, pos) /\ pos[head.ptr] <= pos[tail.ptr]
        /\ pos[head.ptr] \in Int /\ pos[tail.ptr] \in Int
    BY <1>2, LinkedNodes DEF PusherInv, QueueInv, ThreadInv, ChainInv, Chained
  <2>2. my[p].nxt.ptr \in Linked /\ pos[my[p].nxt.ptr] = pos[tail.ptr] + 1
    BY <1>2, <2>1 DEF Pushing
  <2>3. node'[my[p].nxt.ptr].data = node[my[p].nxt.ptr].data
    BY <2>1, <2>2 DEF FrontSame
  <2>. QED  BY <1>2, <2>3 DEF PusherInv
<1>3. PusherInv(p)'
  BY <1>1, <1>2 DEF PusherInv
<1>. QED  BY <1>3 DEF CallsInv, Entered

\* When head moves, the value of the first node goes to those that have been popped.
LEMMA HeadLeaves ==
    ASSUME ShapeInv, UnlinkedInv, NEW pos \in [Nodes -> Int], QueueInv(pos),
           NEW t \in Threads \ Pushers, CasHead(t), MovesHead(t),
           NEW p \in Pushers, NEW r, Row(r), OrderInv(p, r), Entered(p)' = Entered(p)
    PROVE  /\ Row(Tail(r))' /\ OrderInv(p, Tail(r))'
           /\ popped' = Append(popped, node[head.ptr].data)
           /\ ValuesOf(r) # <<>> /\ node[head.ptr].data = Head(ValuesOf(r))
           /\ ValuesOf(Tail(r))' = Tail(ValuesOf(r))
<1>1. /\ t \in Threads /\ Old(t) = head.ptr /\ head' = Counted(1, my[t].nxt.ptr)
      /\ popped' = Append(popped, node[head.ptr].data) /\ node' = node /\ tail' = tail
  BY CasHeadDoes DEF MovesHead, Old, CasHead, Moves, nodes
<1>2. /\ Popping(t, pos) /\ GuardsNext(t) /\ ChainInv(pos) /\ head.ptr \in Linked
      /\ tail.ptr \in Linked /\ pos[head.ptr] \in Int /\ pos[tail.ptr] \in Int
  BY LinkedNodes DEF MovesHead, QueueInv, ThreadInv, ChainInv, Chained, GuardsNext, NextLabels
<1>3. /\ my[t].nxt.ptr \in Linked /\ pos[my[t].nxt.ptr] = pos[head.ptr] + 1
      /\ pos[head.ptr] < pos[tail.ptr]
  BY <1>1, <1>2 DEF Popping
<1>4. /\ Len(r) \in Nat /\ Len(r) = pos[tail.ptr] - pos[head.ptr] + 1
      /\ \A i \in 1 .. Len(r) - 1 : node[r[i]].data # NULL
  BY <1>2, RowFacts
<1>5. Len(r) >= 2 /\ 2 \in 1 .. Len(r) /\ 1 \in 1 .. Len(r) - 1 /\ 1 + 1 = 2
  BY <1>2, <1>3, <1>4
<1>6. r[2] = my[t].nxt.ptr
  <2>1. r[2] \in Linked /\ pos[r[2]] = pos[head.ptr] + 2 - 1
    BY <1>2, <1>5, RowInPlace
  <2>2. pos[r[2]] = pos[my[t].nxt.ptr]
    BY <1>2, <1>3, <2>1
  <2>. QED  BY <1>2, <1>3, <2>1, <2>2 DEF ChainInv, Chained
<1>7. r[1] = head.ptr /\ node[head.ptr].data # NULL /\ r \in Seq(Nodes) /\ r[Len(r)] = tail.ptr
  BY <1>4, <1>5 DEF Row
<1>. DEFINE s == Tail(r)
<1>8. /\ s \in Seq(Nodes) /\ Len(s) = Len(r) - 1
      /\ \A i \in 1 .. Len(r) - 1 : s[i] = r[i + 1]
  BY <1>5, <1>7
<1>. HIDE DEF s
<1>9. Row(s)'
  <2>1. s[1] = head'.ptr /\ Len(s) > 0
    BY <1>1, <1>5, <1>6, <1>8 DEF Counted
  <2>2. s[Len(s)] = tail.ptr
    BY <1>4, <1>5, <1>7, <1>8
  <2>3. ASSUME NEW i \in 1 .. Len(s) - 1 PROVE node[s[i]].next.ptr = s[i + 1]
    <3>1. i + 1 \in 1 .. Len(r) - 1 /\ i \in 1 .. Len(r) - 1
      BY <1>4, <1>8
    <3>2. node[r[i + 1]].next.ptr = r[(i + 1) + 1]
      BY <3>1 DEF Row
    <3>. QED  BY <1>8, <3>1, <3>2
  <2>. QED  BY <1>1, <1>8, <2>1, <2>2, <2>3 DEF Row
<1>. DEFINE one == One(node[tail.ptr].data = NULL)
            old == Len(popped)
<1>10. popped \in Seq(Values) /\ old \in Nat /\ one \in {0, 1}
  BY DEF ShapeInv, One
<1>11. /\ Len(popped') = old + 1 /\ popped'[old + 1] = node[head.ptr].data
       /\ \A i \in 1 .. old : popped'[i] = popped[i]
  <2>1. node[head.ptr].data \in Values
    BY <1>2, <1>7, LinkedNodes, NodeParts
  <2>. QED  BY <1>1, <1>10, <2>1, AppendProperties
<1>12. OrderInv(p, s)'
  <2>1. Len(popped') + Len(s) - one = Entered(p)
    <3>1. old + Len(r) - one = Entered(p)
      BY DEF OrderInv
    <3>2. \A a, b, c \in Int : (a + 1) + (b - 1) - c = a + b - c
      OBVIOUS
    <3>3. Len(popped') + Len(s) - one = (old + 1) + (Len(r) - 1) - one
      BY <1>8, <1>11
    <3>. HIDE DEF one, old
    <3>4. one \in Int /\ old \in Int /\ Len(r) \in Int
      BY <1>4, <1>10
    <3>. QED  BY <3>1, <3>2, <3>3, <3>4
  <2>2. node[r[1]].data = Script[p][old + 1]
    BY <1>4, <1>5, <1>7 DEF OrderInv
  <2>3. ASSUME NEW i \in 1 .. Len(popped') PROVE popped'[i] = Script[p][i]
    <3>1. CASE i = old + 1
      BY <1>7, <1>11, <2>2, <3>1
    <3>2. CASE i # old + 1
      <4>1. i \in 1 .. old
        <5>. HIDE DEF old
        <5>. QED  BY <1>10, <1>11, <2>3, <3>2
      <4>2. popped'[i] = popped[i]
        <5>. HIDE DEF old
        <5>. QED  BY <1>11, <4>1
      <4>. QED  BY <4>1, <4>2 DEF OrderInv
    <3>. QED  BY <3>1, <3>2
  <2>4. ASSUME NEW i \in 1 .. Len(s), node[s[i]].data # NULL
        PROVE  node[s[i]].data = Script[p][Len(popped') + i]
    <3>1. i + 1 \in 1 .. Len(r) /\ s[i] = r[i + 1] /\ old + (i + 1) = Len(popped') + i
      BY <1>4, <1>8, <1>10, <1>11
    <3>2. node[r[i + 1]].data = Script[p][old + (i + 1)]
      BY <2>4, <3>1 DEF OrderInv
    <3>. QED  BY <3>1, <3>2
  <2>. QED  BY <1>1, <2>1, <2>3, <2>4 DEF OrderInv
<1>13. ValuesOf(r) # <<>> /\ node[head.ptr].data = Head(ValuesOf(r))
       /\ ValuesOf(s)' = Tail(ValuesOf(r))
  <2>. DEFINE v == [i \in 1 .. Len(r) - one |-> node[r[i]].data]
  <2>1. Len(r) - one \in Nat /\ Len(r) - one >= 1
    BY <1>4, <1>5, <1>10
  <2>2. v \in Seq(Values \cup {NULL}) /\ Len(v) = Len(r) - one
    <3>. HIDE DEF one
    <3>1. \A i \in 1 .. Len(r) - one : i \in 1 .. Len(r)
      BY <1>4, <1>10
    <3>2. \A i \in 1 .. Len(r) - one : node[r[i]].data \in Values \cup {NULL}
      BY <1>7, <3>1, NodeParts
    <3>. QED  BY <2>1, <3>2
  <2>3. v # <<>> /\ Head(v) = node[r[1]].data
    <3>1. v[1] = node[r[1]].data
      BY <2>1
    <3>. HIDE DEF v, one
    <3>. QED  BY <2>1, <2>2, <3>1
  <2>4. Tail(v) = [i \in 1 .. Len(s) - one |-> node[s[i]].data]
    <3>1. Tail(v) \in Seq(Values \cup {NULL}) /\ Len(Tail(v)) = Len(s) - one
      <4>. HIDE DEF v, one
      <4>. QED  BY <1>4, <1>8, <1>10, <2>1, <2>2, <2>3
    <3>2. ASSUME NEW i \in 1 .. Len(s) - one PROVE Tail(v)[i] = node[s[i]].data
      <4>1. i \in 1 .. Len(r) - 1 /\ i + 1 \in 1 .. Len(r) - one /\ i \in 1 .. Len(Tail(v))
        <5>1. i \in 1 .. Len(Tail(v))
          BY <3>1
        <5>. HIDE DEF v, one
        <5>. QED  BY <1>4, <1>8, <1>10, <5>1
      <4>2. v[i + 1] = node[r[i + 1]].data /\ s[i] = r[i + 1]
        BY <1>8, <4>1
      <4>3. Tail(v)[i] = v[i + 1]
        <5>. HIDE DEF v, one
        <5>. QED  BY <2>2, <2>3, <4>1, HeadTailProperties
      <4>. QED  BY <4>2, <4>3
    <3>. HIDE DEF v, one
    <3>3. Tail(v) = [i \in 1 .. Len(s) - one |-> Tail(v)[i]]
      <4>1. \A w \in Seq(Values \cup {NULL}) : w = [i \in 1 .. Len(w) |-> w[i]]
        OBVIOUS
      <4>. QED  BY <3>1, <4>1
    <3>. QED  BY <3>2, <3>3
  <2>5. ValuesOf(r) = v
    BY DEF ValuesOf
  <2>6. ValuesOf(s)' = [i \in 1 .. Len(s) - one |-> node[s[i]].data]
    BY <1>1 DEF ValuesOf
  <2>. QED  BY <1>7, <2>3, <2>4, <2>5, <2>6
<1>. QED  BY <1>1, <1>9, <1>12, <1>13 DEF s

----------------------------------------------------------------------------
(* The steps of a single pusher *)

\* What the pusher has to do with the values in the queue.
PushEffect(p, r, s) ==
    \/ ValuesOf(s)' = ValuesOf(r) /\ pushed' = pushed
    \/ /\ pc[p] = "cas_data" /\ pushed' = pushed
       /\ ValuesOf(s)' = Append(ValuesOf(r), Script[p][calls[p] + 1])
    \/ /\ pc[p] = "drop_tail" /\ pushed' = pushed \cup {Script[p][calls[p] + 1]}
       /\ ValuesOf(s)' = ValuesOf(r)

LEMMA PusherBegins ==
    ASSUME ShapeInv, NEW p \in Pushers, NEW r, InOrder(p, r), PushStart(p) \/ GuardTail(p)
    PROVE  InOrder(p, r)' /\ PushEffect(p, r, r)
<1>1. p \in Threads /\ UNCHANGED <<head, node, calls, pushed, popped>> /\ tail'.ptr = tail.ptr
  BY GuardTailDoes DEF Threads, PushStart, GuardTail, nodes, history
<1>2. CASE PushStart(p)
  <2>1. /\ pc[p] = "idle" /\ pc'[p] = "guard_tail" /\ my'[p].val = Script[p][calls[p] + 1]
        /\ calls[p] < Len(Script[p])
    BY <1>2, PushStartDoes DEF Moves, PushStart
  <2>2. CallsInv(p)' /\ PusherInv(p)' /\ Entered(p)' = Entered(p)
    BY <1>1, <2>1 DEF InOrder, CallsInv, PusherInv, Entered
  <2>. QED  BY <1>1, <2>2, RowKept DEF InOrder, PushEffect, RowSame
<1>3. CASE GuardTail(p)
  <2>1. /\ pc[p] = "guard_tail" /\ pc'[p] = "cas_data" /\ my'[p].val = my[p].val
        /\ Old(p)' = tail'.ptr
    BY <1>3, GuardTailDoes DEF Moves, Old
  <2>2. CallsInv(p)' /\ PusherInv(p)' /\ Entered(p)' = Entered(p)
    BY <1>1, <2>1 DEF InOrder, CallsInv, PusherInv, Entered
  <2>. QED  BY <1>1, <2>2, RowKept DEF InOrder, PushEffect, RowSame
<1>. QED  BY <1>2, <1>3

LEMMA ValueEnters ==
    ASSUME ShapeInv, UnlinkedInv, NEW pos \in [Nodes -> Int], QueueInv(pos), NEW p \in Pushers,
           NEW r, InOrder(p, r), CasData(p)
    PROVE  InOrder(p, r)' /\ PushEffect(p, r, r)
<1>1. /\ p \in Threads /\ UNCHANGED <<head, tail, calls, pushed, popped>>
      /\ pc[p] = "cas_data" /\ Old(p) = tail.ptr /\ node[tail.ptr].data = NULL
      /\ tail.ptr \in Nodes
  <2>1. p \in Threads /\ UNCHANGED <<head, tail, calls, pushed, popped>> /\ pc[p] = "cas_data"
    BY DEF Threads, CasData, history, Goto
  <2>2. Old(p) = tail.ptr /\ node[tail.ptr].data = NULL
    BY <2>1 DEF InOrder, PusherInv
  <2>. QED  BY <2>1, <2>2, LinkedNodes DEF QueueInv, ChainInv, Chained
<1>2. /\ pc'[p] = "link_own" /\ my' = my /\ node'[tail.ptr].data = my[p].val
      /\ \A n \in Nodes : /\ node'[n].next = node[n].next
                          /\ n # tail.ptr => node'[n] = node[n]
  BY <1>1, CasDataDoes DEF Moves
<1>3. my[p].val = Script[p][calls[p] + 1] /\ my[p].val # NULL /\ calls[p] < Len(Script[p])
      /\ calls[p] \in Nat
  BY <1>1 DEF InOrder, CallsInv, UnlinkedInv, ShapeInv
<1>4. /\ Len(r) \in Nat /\ Len(r) > 0 /\ r[Len(r)] = tail.ptr
      /\ \A i \in 1 .. Len(r) : r[i] \in Nodes /\ (i # Len(r) => r[i] # tail.ptr)
      /\ \A i \in 1 .. Len(r) - 1 : i \in 1 .. Len(r)
  <2>1. \A i, j \in 1 .. Len(r) : r[i] = r[j] => i = j
    BY RowFacts DEF QueueInv, InOrder
  <2>. QED  BY <2>1 DEF InOrder, Row
<1>5. CallsInv(p)' /\ PusherInv(p)'
  BY <1>1, <1>2 DEF InOrder, CallsInv, PusherInv, Old
<1>6. Row(r)'
  <2>1. \A i \in 1 .. Len(r) - 1 : node'[r[i]].next.ptr = node[r[i]].next.ptr
    BY <1>2, <1>4
  <2>. QED  BY <1>1, <2>1 DEF InOrder, Row
<1>7. Len(popped) \in Nat /\ Len(popped) + Len(r) - 1 = calls[p] /\ Entered(p)' = calls[p] + 1
  <2>1. One(node[tail.ptr].data = NULL) = 1 /\ Entered(p) = calls[p] + 0
    BY <1>1 DEF One, Entered
  <2>2. Entered(p)' = calls[p] + 1
    BY <1>1, <1>2 DEF One, Entered
  <2>. QED  BY <1>3, <2>1, <2>2 DEF InOrder, OrderInv, ShapeInv
<1>8. OrderInv(p, r)'
  <2>1. Len(popped) + Len(r) - One(node'[tail.ptr].data = NULL) = Entered(p)'
    BY <1>2, <1>3, <1>4, <1>7 DEF One
  <2>2. ASSUME NEW i \in 1 .. Len(r), node'[r[i]].data # NULL
        PROVE  node'[r[i]].data = Script[p][Len(popped) + i]
    <3>1. CASE i = Len(r)
      <4>1. Len(popped) + i = calls[p] + 1
        BY <1>4, <1>7, <3>1
      <4>. QED  BY <1>2, <1>3, <1>4, <3>1, <4>1
    <3>2. CASE i # Len(r)
      BY <1>2, <1>4, <2>2, <3>2 DEF InOrder, OrderInv
    <3>. QED  BY <3>1, <3>2
  <2>. QED  BY <1>1, <2>1, <2>2 DEF InOrder, OrderInv
<1>9. ValuesOf(r)' = Append(ValuesOf(r), my[p].val)
  <2>. DEFINE v == [i \in 1 .. Len(r) - 1 |-> node[r[i]].data]
              w == [i \in 1 .. Len(r) |-> node'[r[i]].data]
  <2>1. ValuesOf(r) = v
    BY <1>1 DEF ValuesOf, One
  <2>2. ValuesOf(r)' = w
    <3>1. Len(r) - One(node'[tail'.ptr].data = NULL) = Len(r)
      BY <1>1, <1>2, <1>3, <1>4 DEF One
    <3>. QED  BY <3>1 DEF ValuesOf
  <2>3. v \in Seq(Values \cup {NULL}) /\ Len(v) = Len(r) - 1 /\ my[p].val \in Values \cup {NULL}
    <3>1. \A i \in 1 .. Len(r) - 1 : node[r[i]].data \in Values \cup {NULL}
      BY <1>4, NodeParts
    <3>. QED  BY <1>1, <1>4, <3>1, LocalParts
  <2>4. \A i \in 1 .. Len(r) - 1 : v[i] = w[i]
    BY <1>2, <1>4
  <2>5. w[Len(r)] = my[p].val
    BY <1>2, <1>4
  <2>6. w = [i \in 1 .. (Len(r) - 1) + 1 |-> w[i]]
    BY <1>4
  <2>. HIDE DEF v, w
  <2>7. Append(v, my[p].val) = [i \in 1 .. Len(v) + 1 |->
                                  IF i = Len(v) + 1 THEN my[p].val ELSE v[i]]
    BY <2>3
  <2>8. \A i \in 1 .. (Len(r) - 1) + 1 :
          w[i] = IF i = (Len(r) - 1) + 1 THEN my[p].val ELSE v[i]
    <3>1. (Len(r) - 1) + 1 = Len(r) /\ \A i \in 1 .. Len(r) : i # Len(r) => i \in 1 .. Len(r) - 1
      BY <1>4
    <3>. QED  BY <2>4, <2>5, <3>1
  <2>9. w = [i \in 1 .. (Len(r) - 1) + 1 |->
               IF i = (Len(r) - 1) + 1 THEN my[p].val ELSE v[i]]
    BY <2>6, <2>8
  <2>. QED  BY <2>1, <2>2, <2>3, <2>7, <2>9
<1>. QED  BY <1>1, <1>3, <1>5, <1>6, <1>8, <1>9 DEF InOrder, PushEffect

LEMMA NodeFollows ==
    ASSUME ShapeInv, UnlinkedInv, NEW pos \in [Nodes -> Int], QueueInv(pos), NEW p \in Pushers,
           \A t \in Pushers : t = p, NEW r, InOrder(p, r), LinkNext(p)
    PROVE  InOrder(p, r)' /\ PushEffect(p, r, r)
<1>1. /\ p \in Threads /\ UNCHANGED <<head, tail, calls, pushed, popped>>
      /\ pc[p] = "link_own" /\ Old(p) = tail.ptr /\ tail.ptr \in Linked /\ tail.ptr \in Nodes
  <2>1. /\ p \in Threads /\ UNCHANGED <<head, tail, calls, pushed, popped>>
        /\ pc[p] \in {"link_own", "link_help"}
    BY DEF Threads, LinkNext, history
  <2>2. pc[p] = "link_own" /\ Old(p) = tail.ptr
    BY <2>1 DEF InOrder, PusherInv
  <2>. QED  BY <2>1, <2>2, LinkedNodes DEF QueueInv, ChainInv, Chained
<1>2. node[tail.ptr].next = Counted(0, NULL)
  BY <1>1, NoneAfterTail DEF InOrder
<1>3. LinksNew(p) /\ my'[p].new = NULL /\ my'[p].val = my[p].val /\ my'[p].old = my[p].old
      /\ pc'[p] = "set_tail"
  BY <1>1, <1>2, LinkNextDoes DEF FindsLinked, Moves
<1>4. /\ my'[p].nxt.ptr = my[p].new
      /\ \A n \in Nodes : node'[n].data = node[n].data /\ (n # tail.ptr => node'[n] = node[n])
  BY <1>1, <1>3 DEF LinksNew, Counted
<1>5. my[p].new \in Nodes /\ node[my[p].new].data = NULL
  BY <1>1, QueueAssumption DEF UnlinkedInv, Fresh, ShapeInv
<1>6. CallsInv(p)' /\ PusherInv(p)' /\ Entered(p)' = Entered(p)
  <2>1. node'[tail.ptr].data = my[p].val
    BY <1>1, <1>4 DEF InOrder, PusherInv
  <2>2. node'[my'[p].nxt.ptr].data = NULL
    BY <1>4, <1>5
  <2>. QED  BY <1>1, <1>3, <2>1, <2>2 DEF InOrder, CallsInv, PusherInv, Entered, Old
<1>7. RowSame(r)
  <2>1. \A i, j \in 1 .. Len(r) : r[i] = r[j] => i = j
    BY RowFacts DEF QueueInv, InOrder
  <2>2. /\ Len(r) \in Nat /\ Len(r) > 0 /\ r[Len(r)] = tail.ptr
        /\ \A i \in 1 .. Len(r) : r[i] \in Nodes
    BY DEF InOrder, Row
  <2>3. \A i \in 1 .. Len(r) - 1 : i \in 1 .. Len(r) /\ r[i] # tail.ptr
    BY <2>1, <2>2
  <2>. QED  BY <1>4, <2>2, <2>3 DEF RowSame
<1>. QED  BY <1>1, <1>6, <1>7, RowKept DEF InOrder, PushEffect

LEMMA TailFollows ==
    ASSUME ShapeInv, UnlinkedInv, NEW pos \in [Nodes -> Int], QueueInv(pos), NEW p \in Pushers,
           \A t \in Pushers : t = p, NEW r, InOrder(p, r), SetNewTail(p)
    PROVE  \E s : InOrder(p, s)' /\ PushEffect(p, r, s)
<1>0. PICK n : n = my[p].nxt.ptr
  OBVIOUS
<1>. DEFINE s == Append(r, n)
<1>1. /\ p \in Threads /\ UNCHANGED <<head, node, calls, pushed, popped>>
      /\ pc[p] = "set_tail" /\ Old(p) = tail.ptr /\ my[p].new = NULL
      /\ node[tail.ptr].data = my[p].val /\ node[n].data = NULL
  <2>1. p \in Threads /\ UNCHANGED <<head, node, calls, pushed, popped>> /\ pc[p] = "set_tail"
    BY DEF Threads, SetNewTail, nodes, history, Goto
  <2>. QED  BY <1>0, <2>1 DEF InOrder, PusherInv
<1>2. tail'.ptr = n /\ pc'[p] = "free_tail" /\ my'[p].new = NULL /\ my'[p].val = my[p].val
  BY <1>0, <1>1, SetNewTailDoes DEF Moves, Counted
<1>3. n \in Nodes /\ node[tail.ptr].next.ptr = n
  BY <1>0, <1>1, LinkedNodes, NoneAfterTail DEF InOrder
<1>4. my[p].val # NULL
  BY <1>1 DEF UnlinkedInv
<1>5. CallsInv(p)' /\ PusherInv(p)' /\ Entered(p)' = Entered(p)
  BY <1>1, <1>2 DEF InOrder, CallsInv, PusherInv, Entered
<1>6. /\ r \in Seq(Nodes) /\ Len(r) \in Nat /\ Len(r) > 0 /\ r[1] = head.ptr
      /\ r[Len(r)] = tail.ptr
      /\ \A i \in 1 .. Len(r) - 1 : node[r[i]].next.ptr = r[i + 1]
  <2>1. Row(r)
    BY DEF InOrder
  <2>2. r \in Seq(Nodes)
    BY <2>1 DEF Row
  <2>3. Len(r) \in Nat
    BY <2>2, LenProperties
  <2>. QED  BY <2>1, <2>2, <2>3 DEF Row
<1>7. /\ s \in Seq(Nodes) /\ Len(s) = Len(r) + 1 /\ s[Len(r) + 1] = n
      /\ \A i \in 1 .. Len(r) : s[i] = r[i]
  BY <1>3, <1>6, AppendProperties
<1>. HIDE DEF s
<1>8. Row(s)'
  <2>1. ASSUME NEW i \in 1 .. Len(s) - 1 PROVE node[s[i]].next.ptr = s[i + 1]
    <3>1. CASE i = Len(r)
      <4>1. i \in 1 .. Len(r)
        BY <1>6, <3>1
      <4>. QED  BY <1>3, <1>6, <1>7, <3>1, <4>1
    <3>2. CASE i # Len(r)
      <4>1. i \in 1 .. Len(r) - 1 /\ i \in 1 .. Len(r) /\ i + 1 \in 1 .. Len(r)
        BY <1>6, <1>7, <3>2
      <4>. QED  BY <1>6, <1>7, <4>1
    <3>. QED  BY <3>1, <3>2
  <2>2. Len(s) > 0 /\ s[1] = head.ptr /\ s[Len(s)] = tail'.ptr
    BY <1>2, <1>6, <1>7
  <2>. QED  BY <1>1, <1>7, <2>1, <2>2 DEF Row
<1>9. One(node[tail.ptr].data = NULL) = 0 /\ One(node'[tail'.ptr].data = NULL) = 1
  BY <1>1, <1>2, <1>4 DEF One
<1>10. OrderInv(p, s)'
  <2>1. Len(popped') + Len(s) - One(node'[tail'.ptr].data = NULL) = Entered(p)'
    <3>1. Len(popped) + Len(r) - 0 = Entered(p) /\ Len(popped) \in Nat
      BY <1>9 DEF InOrder, OrderInv, ShapeInv
    <3>2. Len(popped) + (Len(r) + 1) - 1 = Len(popped) + Len(r) - 0
      BY <1>6, <3>1
    <3>. QED  BY <1>1, <1>5, <1>7, <1>9, <3>1, <3>2
  <2>2. ASSUME NEW i \in 1 .. Len(s), node[s[i]].data # NULL
        PROVE  node[s[i]].data = Script[p][Len(popped) + i]
    <3>1. i \in 1 .. Len(r) /\ s[i] = r[i]
      <4>1. i # Len(r) + 1
        BY <1>1, <1>7, <2>2
      <4>. QED  BY <1>6, <1>7, <4>1
    <3>. QED  BY <2>2, <3>1 DEF InOrder, OrderInv
  <2>. QED  BY <1>1, <2>1, <2>2 DEF InOrder, OrderInv
<1>11. ValuesOf(s)' = ValuesOf(r)
  <2>1. Len(s) - One(node'[tail'.ptr].data = NULL) = Len(r)
        /\ Len(r) - One(node[tail.ptr].data = NULL) = Len(r)
    BY <1>6, <1>7, <1>9
  <2>2. [i \in 1 .. Len(r) |-> node[s[i]].data] = [i \in 1 .. Len(r) |-> node[r[i]].data]
    BY <1>7
  <2>. QED  BY <1>1, <2>1, <2>2 DEF ValuesOf
<1>. QED  BY <1>1, <1>5, <1>8, <1>10, <1>11 DEF InOrder, PushEffect

LEMMA PusherEnds ==
    ASSUME ShapeInv, NEW pos \in [Nodes -> Int], QueueInv(pos), NEW p \in Pushers,
           NEW r, InOrder(p, r), UpdateCounts(p) \/ DropTail(p)
    PROVE  InOrder(p, r)' /\ PushEffect(p, r, r)
<1>1. p \in Threads /\ UNCHANGED <<head, tail, popped>> /\ Pushing(p, pos) /\ pc[p] \in PushPlaces
      /\ calls[p] \in Nat
  BY DEF Threads, UpdateCounts, DropTail, history, QueueInv, ThreadInv, ShapeInv, PlacesInv
<1>2. CASE UpdateCounts(p)
  <2>1. /\ pc[p] = "free_tail" /\ pc'[p] = "drop_tail" /\ my' = my
        /\ UNCHANGED <<calls, pushed>>
    BY <1>1, <1>2, UpdateCountsDoes DEF Moves, PushPlaces, PushLabels, UpdateCounts, history
  <2>2. FrontSame(pos)
    BY <1>1, <1>2, <2>1, CountsKeepFront
  <2>3. node'[tail.ptr].data = node[tail.ptr].data /\ RowSame(r)
    BY <2>2, TailStays, FrontRow DEF InOrder
  <2>4. CallsInv(p)' /\ PusherInv(p)' /\ Entered(p)' = Entered(p)
    BY <1>1, <2>1, <2>3 DEF InOrder, CallsInv, PusherInv, Entered
  <2>. QED  BY <1>1, <2>1, <2>3, <2>4, RowKept DEF InOrder, PushEffect
<1>3. CASE DropTail(p)
  <2>1. pc[p] = "drop_tail" /\ my[p].new = NULL
    BY <1>3 DEF DropTail, InOrder, PusherInv
  <2>2. /\ pc'[p] = "idle" /\ SameLocals(p) /\ DropGuard(my[p].old)
        /\ pushed' = pushed \cup {my[p].val} /\ calls' = [calls EXCEPT ![p] = @ + 1]
    <3>1. pushed' = pushed \cup {my[p].val} /\ calls' = [calls EXCEPT ![p] = @ + 1]
      BY <1>3, <2>1 DEF DropTail
    <3>. QED  BY <1>3, <2>1, <3>1, DropTailDoes DEF Moves
  <2>3. Old(p) \in Nodes /\ my[p].old \in AnyLink /\ my[p].old.ptr = Old(p)
    BY <1>1, <2>1, LinkedNodes, LocalParts DEF Pushing, GuardsOld, PushLabels, Old
  <2>4. FrontSame(pos)
    <3>1. \E internal, external :
            Stored(Old(p), internal, external) /\ external = node[Old(p)].external_counters
      BY <2>2, <2>3, DropGuardDoes
    <3>. QED  BY <2>3, <3>1, CountedKept DEF FrontSame
  <2>5. node'[tail.ptr].data = node[tail.ptr].data /\ RowSame(r)
    BY <2>4, TailStays, FrontRow DEF InOrder
  <2>6. /\ calls[p] < Len(Script[p]) /\ my[p].val = Script[p][calls[p] + 1]
        /\ pushed = {Script[p][i] : i \in 1 .. calls[p]} /\ calls'[p] = calls[p] + 1
        /\ Len(Script[p]) \in Nat
    <3>1. Len(Script[p]) \in Nat
      BY QueueAssumption
    <3>2. calls'[p] = calls[p] + 1
      BY <1>1, <2>2 DEF ShapeInv
    <3>. QED  BY <2>1, <3>1, <3>2 DEF InOrder, CallsInv
  <2>7. pushed' = {Script[p][i] : i \in 1 .. calls[p] + 1}
    <3>1. 1 .. calls[p] + 1 = (1 .. calls[p]) \cup {calls[p] + 1}
      BY <1>1
    <3>. QED  BY <2>2, <2>6, <3>1
  <2>8. CallsInv(p)'
    BY <1>1, <2>2, <2>6, <2>7 DEF CallsInv
  <2>9. PusherInv(p)' /\ Entered(p)' = Entered(p)
    <3>1. PusherInv(p)'
      BY <1>1, <2>1, <2>2, <2>5 DEF InOrder, PusherInv
    <3>2. Entered(p) = calls[p] + 1 /\ Entered(p)' = (calls[p] + 1) + 0
      BY <2>1, <2>2, <2>6 DEF Entered, One
    <3>. QED  BY <1>1, <3>1, <3>2
  <2>. QED  BY <1>1, <2>1, <2>2, <2>5, <2>6, <2>8, <2>9, RowKept DEF InOrder, PushEffect
<1>. QED  BY <1>2, <1>3

LEMMA PushInOrder ==
    ASSUME ShapeInv, UnlinkedInv, NEW pos \in [Nodes -> Int], QueueInv(pos), NEW p \in Pushers,
           \A t \in Pushers : t = p, NEW r, InOrder(p, r), Push(p)
    PROVE  popped' = popped /\ \E s : InOrder(p, s)' /\ PushEffect(p, r, s)
<1>1. popped' = popped
  BY DEF Push, PushStart, GuardTail, CasData, LinkNext, SetNewTail, UpdateCounts, DropTail,
     history
<1>. QED  BY <1>1, PusherBegins, ValueEnters, NodeFollows, TailFollows, PusherEnds DEF Push

----------------------------------------------------------------------------
(* Nothing is lost *)

\* What a popper or the destructor has to do with the values in the queue.
PopEffect(r, s) ==
    /\ pushed' = pushed
    /\ \/ ValuesOf(s)' = ValuesOf(r) /\ popped' = popped
       \/ /\ ValuesOf(r) # <<>> /\ popped' = Append(popped, Head(ValuesOf(r)))
          /\ ValuesOf(s)' = Tail(ValuesOf(r))

LEMMA PopInOrder ==
    ASSUME ShapeInv, UnlinkedInv, NEW pos \in [Nodes -> Int], QueueInv(pos), NEW p \in Pushers,
           NEW r, InOrder(p, r), NEW t \in Threads \ Pushers, Pop(t), pc[t] # "destroy_tail",
           pc[t] = "destroy_head" => tail.ptr = head.ptr
    PROVE  /\ \E s : InOrder(p, s)' /\ PopEffect(r, s)
           /\ node'[tail.ptr].data = node[tail.ptr].data
<1>1. /\ FrontSame(pos) /\ tail' = tail /\ pushed' = pushed
      /\ pc'[p] = pc[p] /\ my'[p] = my[p] /\ calls'[p] = calls[p]
      /\ ~MovesHead(t) => head'.ptr = head.ptr /\ popped' = popped
  BY PopKeepsFront
<1>2. PusherInv(p)' /\ CallsInv(p)' /\ Entered(p)' = Entered(p)
  BY <1>1, PusherKept DEF InOrder
<1>3. node'[tail.ptr].data = node[tail.ptr].data
  BY <1>1, TailStays
<1>4. CASE ~MovesHead(t)
  <2>1. RowSame(r)
    BY <1>1, FrontRow DEF InOrder
  <2>. QED  BY <1>1, <1>2, <1>3, <1>4, <2>1, RowKept DEF InOrder, PopEffect
<1>5. CASE MovesHead(t)
  <2>1. CasHead(t)
    <3>1. pc[t] = "cas_head"
      BY <1>5 DEF MovesHead
    <3>2. ~UpdateCounts(t)
      BY <3>1 DEF UpdateCounts, Goto
    <3>. QED  BY <3>1, <3>2 DEF Pop, PopStart, GuardHead, CheckEmpty, GuardNext, StartCallback,
              EndCallback, TakeData, CloseNext, DropHead, Goto
  <2>. QED  BY <1>1, <1>2, <1>3, <1>5, <2>1, HeadLeaves DEF InOrder, PopEffect
<1>. QED  BY <1>4, <1>5

\* When the destructor finds the queue empty, its pusher has pushed all and all was popped.
LEMMA EmptyInOrder ==
    ASSUME IInv, pc[Destructor] = "destroy_head", NEW p \in Pushers, NEW r, InOrder(p, r)
    PROVE  EmptiedInv(p) /\ tail.ptr = head.ptr
<1>1. /\ tail.ptr = head.ptr /\ Done(p) /\ p \in Threads /\ p # Destructor /\ ShapeInv /\ Alive
  BY DestructorIsNone DEF IInv, ClosingInv, Threads, Alive
<1>2. pc[p] = "idle" /\ calls[p] = Len(Script[p]) /\ calls[p] \in Nat
  BY <1>1 DEF Done, ShapeInv
<1>3. node[tail.ptr].data = NULL
  BY <1>2 DEF InOrder, PusherInv
<1>4. PICK pos \in [Nodes -> Int] : QueueInv(pos)
  BY <1>1 DEF IInv
<1>5. Len(r) = 1
  <2>1. Len(r) = pos[tail.ptr] - pos[head.ptr] + 1 /\ pos[head.ptr] \in Int
    BY <1>1, <1>4, LinkedNodes, RowFacts DEF QueueInv, ChainInv, Chained, InOrder
  <2>. QED  BY <1>1, <2>1
<1>6. Len(popped) = Len(Script[p])
  <2>1. Len(popped) + 1 - 1 = calls[p] + 0
    BY <1>2, <1>3, <1>5 DEF InOrder, OrderInv, One, Entered
  <2>2. Len(popped) \in Nat
    BY <1>1 DEF ShapeInv
  <2>. QED  BY <1>2, <2>1, <2>2
<1>. QED  BY <1>1, <1>2, <1>3, <1>6 DEF EmptiedInv, InOrder, OrderInv

LEMMA InitInOrder ==
    ASSUME Init, NEW p \in Pushers
    PROVE  OnePusherInv(p)
<1>1. PICK n \in Nodes : /\ head = Counted(1, n) /\ tail = Counted(1, n)
                         /\ node = [m \in Nodes |->
                              IF m = n THEN [Fresh EXCEPT !.external_counters = 2] ELSE Fresh]
  BY DEF Init
<1>2. node[n].data = NULL /\ head.ptr = n /\ tail.ptr = n
  <2>1. [Fresh EXCEPT !.external_counters = 2].data = NULL
    BY DEF Fresh
  <2>. QED  BY <1>1, <2>1 DEF Counted
<1>3. /\ p \in Threads /\ pc[p] = "idle" /\ calls[p] = 0 /\ pushed = {} /\ popped = <<>>
      /\ Alive /\ Len(Script[p]) \in Nat
  BY DestructorIsNone, QueueAssumption DEF Init, Threads, Alive
<1>. DEFINE r == <<n>>
<1>4. Len(r) = 1 /\ r[1] = n /\ r \in Seq(Nodes)
  OBVIOUS
<1>5. Row(r)
  <2>. HIDE DEF r
  <2>. QED  BY <1>2, <1>4 DEF Row
<1>6. CallsInv(p) /\ PusherInv(p)
  BY <1>2, <1>3 DEF CallsInv, PusherInv
<1>7. OrderInv(p, r)
  <2>. HIDE DEF r
  <2>1. Len(popped) = 0 /\ One(node[tail.ptr].data = NULL) = 1 /\ Entered(p) = 0
    BY <1>2, <1>3 DEF One, Entered
  <2>. QED  BY <1>2, <1>4, <2>1 DEF OrderInv
<1>. QED  BY <1>3, <1>5, <1>6, <1>7 DEF OnePusherInv, InOrder

LEMMA EndHistory ==
    ASSUME pc[Destructor] \in {"destroy_head", "destroy_tail"}, Pop(Destructor)
    PROVE  UNCHANGED <<pushed, popped>>
<1>. DEFINE d == Destructor
<1>1. \A from, to : from \notin {"destroy_head", "destroy_tail"} => ~Goto(d, from, to)
  BY DEF Goto
<1>2. ~CasHead(d) /\ ~TakeData(d) /\ ~CloseNext(d)
  BY <1>1 DEF CasHead, TakeData, CloseNext
<1>. QED  BY <1>2 DEF Pop, PopStart, GuardHead, CheckEmpty, GuardNext, StartCallback,
          EndCallback, UpdateCounts, DropHead, history

\* The destructor's last step.
LEMMA LastStep ==
    ASSUME IInv, ~Alive, NEW p \in Pushers, CallsInv(p), EmptiedInv(p), Pop(Destructor)
    PROVE  /\ CallsInv(p)' /\ EmptiedInv(p)' /\ ~Alive'
           /\ UNCHANGED <<head, pushed, popped>>
<1>1. /\ ShapeInv /\ p \in Threads /\ p # Destructor /\ Destructor \in Threads
      /\ pc[Destructor] = "destroy_tail"
  <2>1. ShapeInv /\ pc[Destructor] \in {"destroy_tail", "destroyed"}
    BY DEF IInv, Alive
  <2>2. pc[Destructor] # "destroyed"
    BY <2>1, EndActs DEF Moves
  <2>. QED  BY <2>1, <2>2, DestructorIsNone DEF Threads
<1>2. UNCHANGED <<head, tail, my>> /\ FreeExternalCounter(tail)
      /\ pc'[Destructor] = "destroyed" /\ pc'[p] = pc[p]
  BY <1>1, EndActs DEF Moves
<1>3. UNCHANGED <<calls, pushed, popped>>
  BY <1>1, DestructorCalls, EndHistory
<1>4. tail \in AnyLink /\ tail.ptr \in Nodes
  BY <1>1 DEF IInv, ClosingInv, ShapeInv
<1>5. node'[head.ptr].data = NULL
  <2>1. \E internal, external : Stored(tail.ptr, internal, external)
    BY <1>1, <1>2, <1>4, FreeExternalCounterDoes
  <2>2. node[tail.ptr].data = NULL /\ tail.ptr = head.ptr
    BY DEF EmptiedInv
  <2>3. Fresh.data = NULL
    BY DEF Fresh
  <2>. QED  BY <1>4, <2>1, <2>2, <2>3 DEF Stored, Kept, Freed, Counts
<1>. QED  BY <1>2, <1>3, <1>5 DEF CallsInv, EmptiedInv, Alive

LEMMA SameInOrder ==
    ASSUME NEW p \in Pushers, OnePusherInv(p), UNCHANGED vars
    PROVE  OnePusherInv(p)'
<1>1. UNCHANGED <<head, tail, node, pc, my, calls, pushed, popped>>
  BY DEF vars, nodes, history
<1>2. \A r : Row(r)' <=> Row(r)
  BY <1>1 DEF Row
<1>3. Old(p)' = Old(p) /\ Entered(p)' = Entered(p)
  BY <1>1 DEF Old, Entered
<1>4. (CallsInv(p)' <=> CallsInv(p)) /\ (PusherInv(p)' <=> PusherInv(p))
      /\ (EmptiedInv(p)' <=> EmptiedInv(p)) /\ (Alive' <=> Alive)
  BY <1>1, <1>3 DEF CallsInv, PusherInv, EmptiedInv, Alive
<1>5. \A r : OrderInv(p, r)' <=> OrderInv(p, r)
  BY <1>1, <1>3 DEF OrderInv
<1>. QED  BY <1>2, <1>4, <1>5 DEF OnePusherInv, InOrder

\* What was popped, followed by the values in the nodes, is what the only pusher has
\* entered; the destructor frees the last node when all of it has been popped.
LEMMA OnePusherInvariant ==
    ASSUME NEW CONSTANT p \in Pushers, \A t \in Pushers : t = p
    PROVE  Spec => []OnePusherInv(p)
<1>1. Init => OnePusherInv(p)
  BY InitInOrder
<1>2. ASSUME IInv, IInv', OnePusherInv(p), [Next]_vars PROVE OnePusherInv(p)'
  <2>0. ShapeInv /\ UnlinkedInv /\ ClosingInv
    BY <1>2 DEF IInv
  <2>1. ASSUME UNCHANGED vars PROVE OnePusherInv(p)'
    BY <1>2, <2>1, SameInOrder
  <2>2. ASSUME Alive
        PROVE  \E pos \in [Nodes -> Int], r \in Seq(Nodes) : QueueInv(pos) /\ InOrder(p, r)
    BY <1>2, <2>2 DEF IInv, OnePusherInv, InOrder, Row
  <2>3. ASSUME NEW t \in Pushers, Push(t) PROVE OnePusherInv(p)'
    <3>1. t = p /\ t \in Threads
      BY <2>3 DEF Threads
    <3>2. pc[Destructor] = "idle" /\ pc'[Destructor] = "idle"
      BY <2>0, <2>3, <3>1, OthersAct
    <3>3. PICK pos \in [Nodes -> Int], r \in Seq(Nodes) : QueueInv(pos) /\ InOrder(p, r)
      BY <2>2, <3>2 DEF Alive
    <3>4. \E s : InOrder(p, s)'
      BY <2>0, <2>3, <3>1, <3>3, PushInOrder
    <3>. QED  BY <3>2, <3>4 DEF OnePusherInv, Alive
  <2>4. ASSUME NEW t \in Poppers, Pop(t) PROVE OnePusherInv(p)'
    <3>1. t \in Threads /\ t \in Threads \ Pushers
      BY QueueAssumption DEF Threads
    <3>2. pc[Destructor] = "idle" /\ pc'[Destructor] = "idle" /\ t # Destructor
      BY <2>0, <2>4, <3>1, OthersAct
    <3>3. PICK pos \in [Nodes -> Int], r \in Seq(Nodes) : QueueInv(pos) /\ InOrder(p, r)
      BY <2>2, <3>2 DEF Alive
    <3>4. pc[t] # "destroy_tail" /\ pc[t] # "destroy_head"
      BY <2>0, <3>1, <3>2 DEF ShapeInv, PlacesInv
    <3>5. \E s : InOrder(p, s)'
      BY <2>0, <2>4, <3>1, <3>3, <3>4, PopInOrder
    <3>. QED  BY <3>2, <3>5 DEF OnePusherInv, Alive
  <2>5. ASSUME Pop(Destructor) PROVE OnePusherInv(p)'
    <3>1. CASE ~Alive
      <4>1. CallsInv(p)' /\ EmptiedInv(p)' /\ ~Alive'
        BY <1>2, <2>5, <3>1, LastStep DEF OnePusherInv
      <4>. QED  BY <4>1 DEF OnePusherInv
    <3>2. CASE Alive
      <4>1. PICK pos \in [Nodes -> Int], r \in Seq(Nodes) : QueueInv(pos) /\ InOrder(p, r)
        BY <2>2, <3>2
      <4>2. /\ Destructor \in Threads \ Pushers /\ pc[Destructor] # "destroy_tail"
            /\ p \in Threads \ {Destructor} /\ Destructor \in Threads
        BY <3>2, DestructorIsNone DEF Alive, Threads
      <4>3. pc[Destructor] = "destroy_head" => EmptiedInv(p) /\ tail.ptr = head.ptr
        BY <1>2, <4>1, EmptyInOrder
      <4>4. PICK s : InOrder(p, s)' /\ node'[tail.ptr].data = node[tail.ptr].data
        BY <2>0, <2>5, <4>1, <4>2, <4>3, PopInOrder
      <4>5. CASE pc[Destructor] # "destroy_head"
        <5>1. Alive' /\ AccountInv
          BY <1>2, <2>0, <2>5, <3>2, <4>1, <4>2, <4>5, ClosingKept DEF IInv
        <5>. QED  BY <4>4, <5>1 DEF OnePusherInv
      <4>6. CASE pc[Destructor] = "destroy_head"
        <5>1. /\ UNCHANGED <<head, tail, calls, pushed, popped>>
              /\ pc'[Destructor] = "destroy_tail"
          BY <2>0, <2>5, <4>6, EndActs, EndHistory, DestructorCalls DEF Moves
        <5>2. ~Alive' /\ CallsInv(p)'
          BY <4>4, <5>1 DEF Alive, InOrder
        <5>3. EmptiedInv(p)'
          BY <4>3, <4>4, <4>6, <5>1 DEF EmptiedInv
        <5>. QED  BY <5>2, <5>3 DEF OnePusherInv
      <4>. QED  BY <4>5, <4>6
    <3>. QED  BY <3>1, <3>2
  <2>. QED  BY <1>2, <2>1, <2>3, <2>4, <2>5 DEF Next, Terminated
<1>. QED  BY <1>1, <1>2, Invariant, PTL DEF Spec

\* With one pusher, what was popped in the end is what its calls of Push have returned for.
THEOREM NothingIsLost ==
    ASSUME NEW CONSTANT p \in Pushers, \A t \in Pushers : t = p
    PROVE  Spec => []NothingLost
<1>1. ASSUME OnePusherInv(p) PROVE NothingLost
  <2>1. SUFFICES ASSUME pc[Destructor] = "destroyed"
                 PROVE  pushed = {popped[i] : i \in 1 .. Len(popped)}
    BY DEF NothingLost
  <2>2. CallsInv(p) /\ EmptiedInv(p)
    BY <1>1, <2>1 DEF OnePusherInv, Alive
  <2>. QED  BY <2>2 DEF CallsInv, EmptiedInv
<1>. QED  BY <1>1, OnePusherInvariant, PTL

----------------------------------------------------------------------------
(* A queue with one pusher is a FIFO queue *)

\* What the contents are, for the two states of a step.
ContentsInv(p) ==
    /\ Alive => \A r : InOrder(p, r) => Contents = ValuesOf(r)
    /\ node[head.ptr].data = NULL => Contents = <<>>

LEMMA ContentsOfEmpty ==
    ASSUME ShapeInv, node[head.ptr].data = NULL
    PROVE  Contents = <<>>
<1>. DEFINE filled == {k \in 0 .. Cardinality(Nodes) : \A j \in 0 .. k : HasValue(j)}
<1>1. ~HasValue(0)
  BY NodesFromHead DEF HasValue
<1>2. \A k \in 0 .. Cardinality(Nodes) : 0 \in 0 .. k
  BY FS_CardinalityType, QueueAssumption
<1>3. filled = {}
  BY <1>1, <1>2
<1>4. Cardinality(filled) = 0
  BY <1>3, FS_EmptySet
<1>5. Contents = [i \in 1 .. Cardinality(filled) |-> node[NodeAt[i - 1]].data]
  BY DEF Contents
<1>. HIDE DEF filled
<1>. QED  BY <1>4, <1>5

LEMMA ContentsKnown ==
    ASSUME NEW p \in Pushers, \A t \in Pushers : t = p, IInv
    PROVE  ContentsInv(p)
<1>1. ShapeInv
  BY DEF IInv
<1>2. ASSUME Alive, NEW r, InOrder(p, r) PROVE Contents = ValuesOf(r)
  <2>1. PICK pos \in [Nodes -> Int] : QueueInv(pos)
    BY <1>2 DEF IInv
  <2>. QED  BY <1>1, <1>2, <2>1, ContentsOfRow DEF InOrder
<1>. QED  BY <1>1, <1>2, ContentsOfEmpty DEF ContentsInv

\* The values popped and the values in the queue are the first ones of the script.
LEMMA FirstOfScript ==
    ASSUME IInv, Alive, NEW p \in Pushers, NEW r, InOrder(p, r)
    PROVE  /\ Len(ValuesOf(r)) \in Nat /\ Len(popped) \in Nat
           /\ Len(popped) + Len(ValuesOf(r)) = Entered(p)
           /\ \A i \in 1 .. Len(popped) : popped[i] = Script[p][i]
           /\ \A i \in 1 .. Len(ValuesOf(r)) :
                ValuesOf(r)[i] = Script[p][Len(popped) + i]
<1>. DEFINE m == Len(r) - One(node[tail.ptr].data = NULL)
<1>1. PICK pos \in [Nodes -> Int] : QueueInv(pos)
  BY DEF IInv
<1>2. /\ Len(r) \in Nat /\ Len(r) > 0 /\ r[Len(r)] = tail.ptr
      /\ \A i \in 1 .. Len(r) - 1 : node[r[i]].data # NULL
  BY <1>1, RowFacts DEF InOrder, Row, QueueInv, IInv
<1>3. m \in Nat /\ m <= Len(r) /\ (m = Len(r) => node[tail.ptr].data # NULL)
  BY <1>2 DEF One
<1>4. ValuesOf(r) = [i \in 1 .. m |-> node[r[i]].data]
  BY DEF ValuesOf
<1>5. Len(popped) \in Nat
  BY DEF IInv, ShapeInv
<1>6. Len(popped) + Len(r) - One(node[tail.ptr].data = NULL) = Entered(p)
  BY DEF InOrder, OrderInv
<1>7. Len(popped) + m = Entered(p)
  <2>1. One(node[tail.ptr].data = NULL) \in Int
    BY DEF One
  <2>. QED  BY <1>2, <1>5, <1>6, <2>1
<1>8. ASSUME NEW i \in 1 .. m PROVE node[r[i]].data = Script[p][Len(popped) + i]
  <2>1. i \in 1 .. Len(r) /\ node[r[i]].data # NULL
    <3>. HIDE DEF m
    <3>1. i \in 1 .. Len(r) - 1 \/ (i = Len(r) /\ m = Len(r))
      BY <1>2, <1>3
    <3>. QED  BY <1>2, <1>3, <3>1
  <2>. QED  BY <2>1 DEF InOrder, OrderInv
<1>9. \A i \in 1 .. Len(popped) : popped[i] = Script[p][i]
  BY DEF InOrder, OrderInv
<1>. HIDE DEF m
<1>10. Len(ValuesOf(r)) = m /\ \A i \in 1 .. m : ValuesOf(r)[i] = node[r[i]].data
  BY <1>3, <1>4
<1>. QED  BY <1>3, <1>5, <1>7, <1>8, <1>9, <1>10

LEMMA InsertedAre ==
    ASSUME IInv, Alive, NEW p \in Pushers, NEW r, InOrder(p, r), Contents = ValuesOf(r)
    PROVE  Atomic!Inserted = {Script[p][j] : j \in 1 .. Entered(p)}
<1>. DEFINE q == ValuesOf(r)
            first == {Script[p][j] : j \in 1 .. Entered(p)}
<1>1. /\ Len(q) \in Nat /\ Len(popped) \in Nat /\ Len(popped) + Len(q) = Entered(p)
      /\ \A i \in 1 .. Len(popped) : popped[i] = Script[p][i]
      /\ \A i \in 1 .. Len(q) : q[i] = Script[p][Len(popped) + i]
  BY FirstOfScript
<1>. HIDE DEF q
<1>2. Atomic!Inserted = {q[i] : i \in 1 .. Len(q)} \cup {popped[i] : i \in 1 .. Len(popped)}
  BY DEF Atomic!Inserted, Atomic!Held, q
<1>3. \A i \in 1 .. Len(popped) : popped[i] \in first
  BY <1>1
<1>4. \A i \in 1 .. Len(q) : q[i] \in first
  <2>1. \A i \in 1 .. Len(q) : Len(popped) + i \in 1 .. Entered(p)
    BY <1>1
  <2>. QED  BY <1>1, <2>1
<1>5. ASSUME NEW j \in 1 .. Entered(p) PROVE Script[p][j] \in Atomic!Inserted
  <2>1. CASE j <= Len(popped)
    <3>1. j \in 1 .. Len(popped)
      BY <1>1, <2>1
    <3>. QED  BY <1>1, <1>2, <3>1
  <2>2. CASE j > Len(popped)
    <3>1. j - Len(popped) \in 1 .. Len(q) /\ Len(popped) + (j - Len(popped)) = j
      BY <1>1, <2>2
    <3>2. q[j - Len(popped)] = Script[p][j]
      BY <1>1, <3>1
    <3>. QED  BY <1>2, <3>1, <3>2
  <2>. QED  BY <1>1, <2>1, <2>2
<1>. QED  BY <1>2, <1>3, <1>4, <1>5

Different(p) == \A i, j \in 1 .. Len(Script[p]) : Script[p][i] = Script[p][j] => i = j

LEMMA PushIsAtomic ==
    ASSUME IInv, NEW p \in Pushers, ContentsInv(p), ContentsInv(p)', \A t \in Pushers : t = p,
           Different(p), NEW r, InOrder(p, r), Alive, Alive', Push(p)
    PROVE  [Atomic!Next]_Atomic!vars
<1>1. PICK pos \in [Nodes -> Int] : QueueInv(pos)
  BY DEF IInv
<1>2. PICK s : popped' = popped /\ InOrder(p, s)' /\ PushEffect(p, r, s)
  BY <1>1, PushInOrder DEF IInv
<1>3. Contents = ValuesOf(r) /\ Contents' = ValuesOf(s)'
  BY <1>2 DEF ContentsInv
<1>4. Atomic!Inserted = {Script[p][j] : j \in 1 .. Entered(p)}
  BY <1>3, InsertedAre
<1>5. CallsInv(p) /\ calls[p] \in Nat /\ Len(Script[p]) \in Nat
  <2>1. p \in Threads
    BY DEF Threads
  <2>. QED  BY <2>1, QueueAssumption DEF InOrder, IInv, ShapeInv
<1>6. CASE Contents' = Contents /\ pushed' = pushed
  BY <1>2, <1>6 DEF Atomic!vars
<1>7. ASSUME pc[p] # "idle", NEW i, i = calls[p] + 1
      PROVE  /\ i \in 1 .. Len(Script[p]) /\ Script[p][i] \notin pushed
             /\ \A j \in 1 .. i - 1 : Script[p][j] \in pushed
  <2>1. calls[p] < Len(Script[p]) /\ pushed = {Script[p][j] : j \in 1 .. calls[p]}
    BY <1>5, <1>7 DEF CallsInv
  <2>2. i \in 1 .. Len(Script[p]) /\ i - 1 = calls[p]
    BY <1>5, <1>7, <2>1
  <2>3. \A j \in 1 .. calls[p] : j \in 1 .. Len(Script[p]) /\ j # i
    BY <1>5, <1>7, <2>1
  <2>. QED  BY <2>1, <2>2, <2>3 DEF Different
<1>8. CASE /\ pc[p] = "cas_data" /\ pushed' = pushed
           /\ Contents' = Append(Contents, Script[p][calls[p] + 1])
  <2>0. PICK i : i = calls[p] + 1
    OBVIOUS
  <2>1. i \in 1 .. Len(Script[p]) /\ \A j \in 1 .. i - 1 : Script[p][j] \in pushed
    BY <1>7, <1>8, <2>0
  <2>2. Script[p][i] \notin Atomic!Inserted
    <3>1. Entered(p) = calls[p]
      BY <1>5, <1>8 DEF Entered, One
    <3>2. Atomic!Inserted = pushed
      BY <1>4, <1>5, <3>1 DEF CallsInv
    <3>. QED  BY <1>7, <1>8, <2>0, <3>2
  <2>3. Atomic!Insert(p)
    BY <1>2, <1>8, <2>0, <2>1, <2>2 DEF Atomic!Insert
  <2>. QED  BY <2>3 DEF Atomic!Next
<1>9. CASE /\ pc[p] = "drop_tail" /\ pushed' = pushed \cup {Script[p][calls[p] + 1]}
           /\ Contents' = Contents
  <2>0. PICK i : i = calls[p] + 1
    OBVIOUS
  <2>1. i \in 1 .. Len(Script[p]) /\ Script[p][i] \notin pushed
    BY <1>7, <1>9, <2>0
  <2>2. Script[p][i] \in Atomic!Inserted
    <3>1. Entered(p) = i /\ i \in 1 .. i
      BY <1>5, <1>9, <2>0 DEF Entered, One
    <3>. QED  BY <1>4, <3>1
  <2>3. Script[p][i] \in Atomic!Held(Script[p]) \ pushed
    BY <2>1 DEF Atomic!Held
  <2>4. Atomic!Return(p)
    BY <1>2, <1>9, <2>0, <2>2, <2>3 DEF Atomic!Return
  <2>. QED  BY <2>4 DEF Atomic!Next
<1>. QED  BY <1>2, <1>3, <1>6, <1>8, <1>9 DEF PushEffect

LEMMA PopIsAtomic ==
    ASSUME IInv, NEW p \in Pushers, ContentsInv(p), ContentsInv(p)', NEW t \in Threads \ Pushers,
           NEW r, InOrder(p, r), Alive, Alive', Pop(t), pc[t] # "destroy_head"
    PROVE  [Atomic!Next]_Atomic!vars
<1>1. PICK pos \in [Nodes -> Int] : QueueInv(pos)
  BY DEF IInv
<1>2. pc[t] # "destroy_tail"
  <2>1. t # Destructor => pc[t] # "destroy_tail"
    BY DEF IInv, ShapeInv, PlacesInv, Threads
  <2>. QED  BY <2>1 DEF Alive
<1>3. PICK s : InOrder(p, s)' /\ PopEffect(r, s)
  BY <1>1, <1>2, PopInOrder DEF IInv
<1>4. Contents = ValuesOf(r) /\ Contents' = ValuesOf(s)'
  BY <1>3 DEF ContentsInv
<1>5. CASE Contents' = Contents /\ popped' = popped
  BY <1>3, <1>5 DEF PopEffect, Atomic!vars
<1>6. CASE /\ Contents # <<>> /\ popped' = Append(popped, Head(Contents))
           /\ Contents' = Tail(Contents)
  BY <1>3, <1>6 DEF PopEffect, Atomic!Next, Atomic!Remove
<1>. QED  BY <1>3, <1>4, <1>5, <1>6 DEF PopEffect

\* The destructor's steps on the last node.
LEMMA EndIsAtomic ==
    ASSUME IInv, NEW p \in Pushers, OnePusherInv(p), OnePusherInv(p)', ContentsInv(p),
           ContentsInv(p)', Pop(Destructor), pc[Destructor] \in {"destroy_head", "destroy_tail"}
    PROVE  UNCHANGED Atomic!vars
<1>1. UNCHANGED <<pushed, popped>>
  BY EndHistory
<1>2. Contents = <<>>
  <2>1. EmptiedInv(p)
    <3>1. CASE pc[Destructor] = "destroy_head"
      BY <3>1, EmptyInOrder DEF OnePusherInv, Alive
    <3>2. CASE pc[Destructor] = "destroy_tail"
      BY <3>2 DEF OnePusherInv, Alive
    <3>. QED  BY <3>1, <3>2
  <2>. QED  BY <2>1 DEF EmptiedInv, ContentsInv
<1>3. Contents' = <<>>
  <2>1. pc'[Destructor] \in {"destroy_tail", "destroyed"}
    BY EndActs DEF Moves, IInv
  <2>. QED  BY <2>1 DEF OnePusherInv, Alive, EmptiedInv, ContentsInv
<1>. QED  BY <1>1, <1>2, <1>3 DEF Atomic!vars

LEMMA StutterIsAtomic ==
    ASSUME UNCHANGED vars
    PROVE  UNCHANGED Atomic!vars
<1>1. UNCHANGED <<head, node, pushed, popped>>
  BY DEF vars, nodes, history
<1>2. NodeAt' = NodeAt
  BY <1>1 DEF NodeAt
<1>3. Contents' = Contents
  BY <1>1, <1>2 DEF Contents, HasValue
<1>. QED  BY <1>1, <1>3 DEF Atomic!vars

\* With one pusher the queue is the FIFO queue that it promises to be: a value enters
\* it, once and in the order of the calls of Push, when its compare-and-swap on data
\* succeeds, and leaves it when a compare-and-swap on head does, in that order.
THEOREM QueueImplementsAtomic ==
    ASSUME NEW CONSTANT p \in Pushers, \A t \in Pushers : t = p, Different(p)
    PROVE  Spec => ImplementsQueue
<1>1. ASSUME IInv, Init PROVE Atomic!Init
  <2>1. node[head.ptr].data = NULL
    <3>1. PICK n \in Nodes : /\ head = Counted(1, n)
                             /\ node = [m \in Nodes |->
                                  IF m = n THEN [Fresh EXCEPT !.external_counters = 2] ELSE Fresh]
      BY <1>1 DEF Init
    <3>2. [Fresh EXCEPT !.external_counters = 2].data = NULL
      BY DEF Fresh
    <3>. QED  BY <3>1, <3>2 DEF Counted
  <2>2. Contents = <<>>
    BY <1>1, <2>1, ContentsOfEmpty DEF IInv
  <2>. QED  BY <1>1, <2>2 DEF Init, Atomic!Init
<1>2. IInv => ContentsInv(p)
  BY ContentsKnown
<1>3. ASSUME IInv, OnePusherInv(p), OnePusherInv(p)', ContentsInv(p), ContentsInv(p)',
             [Next]_vars
      PROVE  [Atomic!Next]_Atomic!vars
  <2>0. ShapeInv /\ ClosingInv
    BY <1>3 DEF IInv
  <2>1. CASE UNCHANGED vars
    BY <2>1, StutterIsAtomic
  <2>2. ASSUME NEW t \in Pushers, Push(t) PROVE [Atomic!Next]_Atomic!vars
    <3>1. t = p /\ t \in Threads
      BY <2>2 DEF Threads
    <3>2. Alive /\ Alive'
      <4>1. pc[Destructor] = "idle" /\ pc'[Destructor] = "idle"
        BY <2>0, <2>2, <3>1, OthersAct
      <4>. QED  BY <4>1 DEF Alive
    <3>3. PICK r : InOrder(p, r)
      BY <1>3, <3>2 DEF OnePusherInv
    <3>. QED  BY <1>3, <2>2, <3>1, <3>2, <3>3, PushIsAtomic
  <2>3. ASSUME NEW t \in Poppers, Pop(t) PROVE [Atomic!Next]_Atomic!vars
    <3>1. t \in Threads /\ t \in Threads \ Pushers
      BY QueueAssumption DEF Threads
    <3>2. pc[Destructor] = "idle" /\ pc'[Destructor] = "idle" /\ t # Destructor
      BY <2>0, <2>3, <3>1, OthersAct
    <3>3. Alive /\ Alive' /\ pc[t] # "destroy_head"
      BY <2>0, <3>1, <3>2 DEF Alive, ShapeInv, PlacesInv
    <3>4. PICK r : InOrder(p, r)
      BY <1>3, <3>3 DEF OnePusherInv
    <3>. QED  BY <1>3, <2>3, <3>1, <3>3, <3>4, PopIsAtomic
  <2>4. ASSUME Pop(Destructor) PROVE [Atomic!Next]_Atomic!vars
    <3>1. CASE pc[Destructor] \in {"destroy_head", "destroy_tail"}
      BY <1>3, <2>4, <3>1, EndIsAtomic
    <3>2. CASE pc[Destructor] \notin {"destroy_head", "destroy_tail"}
      <4>1. pc[Destructor] # "destroyed"
        BY <2>0, <2>4, EndActs DEF Moves
      <4>2. Alive
        BY <3>2, <4>1 DEF Alive
      <4>3. PICK pos \in [Nodes -> Int], r \in Seq(Nodes) : QueueInv(pos) /\ AccountInv /\ InOrder(p, r)
        BY <1>3, <4>2 DEF IInv, OnePusherInv, InOrder, Row
      <4>4. Alive' /\ pc[Destructor] # "destroy_head"
        BY <1>3, <2>0, <2>4, <3>2, <4>3, ClosingKept DEF IInv
      <4>. QED  BY <1>3, <2>4, <4>2, <4>3, <4>4, DestructorIsNone, PopIsAtomic
    <3>. QED  BY <3>1, <3>2
  <2>. QED  BY <1>3, <2>1, <2>2, <2>3, <2>4 DEF Next, Terminated
<1>. QED  BY <1>1, <1>2, <1>3, Invariant, OnePusherInvariant, PTL
     DEF Spec, ImplementsQueue, Atomic!Spec

----------------------------------------------------------------------------
(* The copies of links *)

Few(link) == link.external_count <= MaxCopies
FewInv ==
    /\ Few(head) /\ Few(tail)
    /\ \A t \in Threads : Few(my[t].old) /\ Few(my[t].nxt)
    /\ \A n \in Nodes : Few(node[n].next)

\* A popper copies the link of a node's next one after it has copied the link of the
\* node.  What has been copied of a node's next link, and what the poppers that are
\* between the two may still copy, is thus not more than was copied of the node.
Waits(t, n) == pc[t] \in {"check_empty", "guard_next"} /\ Old(t) = n
Waiting(n) == {t \in Threads : Waits(t, n)}
Used(n) == IF node[n].next.external_count = 0 THEN 1 ELSE node[n].next.external_count
Demand(n) == Used(n) + Cardinality(Waiting(n))

CopiesInv ==
    /\ Alive => head.ptr \in Nodes /\ Demand(head.ptr) <= head.external_count
    /\ \A t \in Threads : Taking(t) =>
         Old(t) \in Nodes /\ Demand(Old(t)) <= my[t].old.external_count
    /\ \A n \in Nodes : \/ Used(n) = 1 \/ n = head.ptr
                        \/ \E t \in Threads : Taking(t) /\ Old(t) = n

LEMMA DemandType ==
    ASSUME ShapeInv, NEW n \in Nodes
    PROVE  /\ Used(n) \in Nat /\ Used(n) >= 1 /\ node[n].next.external_count <= Used(n)
           /\ Cardinality(Waiting(n)) \in Nat /\ Demand(n) \in Nat /\ Demand(n) >= Used(n)
<1>1. node[n].next.external_count \in Nat
  BY DEF ShapeInv, AnyNode, AnyLink
<1>2. Used(n) \in Nat /\ Used(n) >= 1 /\ node[n].next.external_count <= Used(n)
  BY <1>1 DEF Used
<1>3. IsFiniteSet(Waiting(n))
  <2>1. Waiting(n) \in SUBSET Threads
    BY DEF Waiting
  <2>. QED  BY <2>1, FS_Subset, QueueAssumption
<1>4. Cardinality(Waiting(n)) \in Nat
  BY <1>3, FS_CardinalityType
<1>. QED  BY <1>2, <1>4 DEF Demand

LEMMA WaitingStep ==
    ASSUME NEW t \in Threads, \A u \in Threads \ {t} : pc'[u] = pc[u] /\ my'[u] = my[u], NEW n
    PROVE  Cardinality(Waiting(n)') =
             Cardinality(Waiting(n)) + One(Waits(t, n)') - One(Waits(t, n))
<1>. DEFINE rest == Waiting(n) \ {t}
<1>1. IsFiniteSet(Waiting(n)) /\ IsFiniteSet(rest) /\ t \notin rest
  <2>1. Waiting(n) \in SUBSET Threads /\ rest \in SUBSET Threads /\ t \notin rest
    BY DEF Waiting
  <2>. QED  BY <2>1, FS_Subset, QueueAssumption
<1>2. Waiting(n) = IF Waits(t, n) THEN rest \cup {t} ELSE rest
  BY DEF Waiting
<1>3. Waiting(n)' = IF Waits(t, n)' THEN rest \cup {t} ELSE rest
  BY DEF Waiting, Waits, Old
<1>. HIDE DEF rest
<1>4. Cardinality(rest \cup {t}) = Cardinality(rest) + 1 /\ Cardinality(rest) \in Nat
  BY <1>1, FS_AddElement, FS_CardinalityType
<1>5. Cardinality(Waiting(n)) = Cardinality(rest) + One(Waits(t, n))
  BY <1>2, <1>4 DEF One
<1>6. Cardinality(Waiting(n)') = Cardinality(rest) + One(Waits(t, n)')
  BY <1>3, <1>4 DEF One
<1>. QED  BY <1>4, <1>5, <1>6 DEF One

LEMMA DemandStep ==
    ASSUME ShapeInv, ShapeInv', NEW t \in Threads,
           \A u \in Threads \ {t} : pc'[u] = pc[u] /\ my'[u] = my[u], NEW n \in Nodes
    PROVE  /\ Used(n)' \in Nat /\ Demand(n)' \in Nat
           /\ Used(n)' = Used(n) + 1 /\ Waits(t, n) /\ ~Waits(t, n)' => Demand(n)' = Demand(n)
           /\ Used(n)' = Used(n) /\ Waits(t, n)' => Demand(n)' <= Demand(n) + 1
           /\ Used(n)' <= Used(n) /\ (Waits(t, n)' => Waits(t, n)) => Demand(n)' <= Demand(n)
<1>1. Used(n) \in Nat /\ Cardinality(Waiting(n)) \in Nat
  BY DemandType
<1>2. Used(n)' \in Nat
  BY DEF Used, ShapeInv, AnyNode, AnyLink
<1>3. Cardinality(Waiting(n)') =
        Cardinality(Waiting(n)) + One(Waits(t, n)') - One(Waits(t, n))
  BY WaitingStep
<1>4. Cardinality(Waiting(n)') \in Nat
  <2>1. Waiting(n)' \in SUBSET Threads
    BY DEF Waiting
  <2>. QED  BY <2>1, FS_Subset, FS_CardinalityType, QueueAssumption
<1>5. Demand(n)' = Used(n)' + Cardinality(Waiting(n)')
  BY DEF Demand
<1>6. Demand(n) = Used(n) + Cardinality(Waiting(n))
  BY DEF Demand
<1>. QED  BY <1>1, <1>2, <1>3, <1>4, <1>5, <1>6 DEF One

LEMMA DemandAfter ==
    ASSUME NEW n, Used(n)' \in Nat
    PROVE  Used(n)' <= Demand(n)'
<1>1. Waiting(n)' \in SUBSET Threads
  BY DEF Waiting
<1>2. Cardinality(Waiting(n)') \in Nat
  BY <1>1, FS_Subset, FS_CardinalityType, QueueAssumption
<1>3. Demand(n)' = Used(n)' + Cardinality(Waiting(n)')
  BY DEF Demand
<1>. QED  BY <1>2, <1>3

\* A step in which nobody copies a link.
LEMMA CalmStep ==
    ASSUME ShapeInv, ShapeInv', FewInv, CopiesInv, NEW t \in Threads,
           \A u \in Threads \ {t} : pc'[u] = pc[u] /\ my'[u] = my[u],
           head' = head, Few(tail'), Few(my'[t].old), Few(my'[t].nxt),
           \A n \in Nodes : Used(n)' <= Used(n) /\ Few(node'[n].next),
           \A n \in Nodes : Waits(t, n)' => Waits(t, n),
           Taking(t)' <=> Taking(t), Taking(t) => my'[t].old = my[t].old,
           Alive' => Alive
    PROVE  FewInv' /\ CopiesInv'
<1>1. FewInv'
  <2>1. \A u \in Threads : Few(my'[u].old) /\ Few(my'[u].nxt)
    BY DEF FewInv
  <2>. QED  BY <2>1 DEF FewInv, Few
<1>2. \A n \in Nodes : /\ Demand(n) \in Nat /\ Demand(n)' \in Nat /\ Demand(n)' <= Demand(n)
                       /\ Used(n) = 1 => Used(n)' = 1
  <2>1. ASSUME NEW n \in Nodes
        PROVE  /\ Demand(n) \in Nat /\ Demand(n)' \in Nat /\ Demand(n)' <= Demand(n)
               /\ Used(n) = 1 => Used(n)' = 1
    <3>1. Used(n)' >= 1 /\ Used(n)' \in Nat
      BY DEF Used, ShapeInv, AnyNode, AnyLink
    <3>. QED  BY <3>1, DemandStep, DemandType
  <2>. QED  BY <2>1
<1>3. \A u \in Threads : /\ Taking(u)' <=> Taking(u)
                         /\ Taking(u) => my'[u].old = my[u].old /\ Old(u)' = Old(u)
  BY DEF Taking, Old
<1>4. head.external_count \in Nat /\ \A u \in Threads : my[u].old.external_count \in Nat
  BY DEF ShapeInv, AnyLink, Locals
<1>5. (Alive => head.ptr \in Nodes /\ Demand(head.ptr) <= head.external_count)'
  <2>0. PICK n : n = head.ptr
    OBVIOUS
  <2>1. Alive => /\ n \in Nodes /\ Demand(n) <= head.external_count
                 /\ Demand(n)' <= Demand(n) /\ Demand(n) \in Nat /\ Demand(n)' \in Nat
    BY <1>2, <2>0 DEF CopiesInv
  <2>2. Alive' => n \in Nodes /\ Demand(n)' <= head'.external_count
    BY <1>4, <2>1
  <2>. QED  BY <2>0, <2>2
<1>6. ASSUME NEW u \in Threads, Taking(u)'
      PROVE  (Old(u) \in Nodes /\ Demand(Old(u)) <= my[u].old.external_count)'
  <2>0. PICK n : n = Old(u)
    OBVIOUS
  <2>1. /\ Old(u)' = n /\ my'[u].old = my[u].old /\ n \in Nodes
        /\ Demand(n) <= my[u].old.external_count
    BY <1>3, <1>6, <2>0 DEF CopiesInv
  <2>2. Demand(n)' <= my'[u].old.external_count
    BY <1>2, <1>4, <2>1
  <2>. QED  BY <2>1, <2>2
<1>7. \A n \in Nodes : \/ Used(n)' = 1 \/ n = head'.ptr
                       \/ \E u \in Threads : Taking(u)' /\ Old(u)' = n
  BY <1>2, <1>3 DEF CopiesInv
<1>. QED  BY <1>1, <1>5, <1>6, <1>7 DEF CopiesInv

LEMMA GuardHeadCopies ==
    ASSUME ShapeInv, ShapeInv', FewInv, CopiesInv, NEW pos \in [Nodes -> Int], QueueInv(pos),
           NEW t \in Threads \ Pushers, GuardHead(t)
    PROVE  FewInv' /\ CopiesInv'
<1>1. /\ head.external_count < MaxCopies /\ head.external_count \in Nat /\ MaxCopies \in Nat
      /\ UNCHANGED <<tail, nodes>>
  BY QueueAssumption DEF GuardHead, ShapeInv, AnyLink
<1>2. /\ pc[t] = "guard_head" /\ pc'[t] = "check_empty"
      /\ \A u \in Threads \ {t} : pc'[u] = pc[u] /\ my'[u] = my[u]
      /\ my'[t].old = head' /\ my'[t].nxt = my[t].nxt
      /\ head'.ptr = head.ptr /\ head'.external_count = head.external_count + 1
  BY GuardHeadDoes DEF Moves
<1>3. FewInv'
  <2>1. Few(head')
    BY <1>1, <1>2 DEF Few
  <2>2. \A u \in Threads : Few(my'[u].old) /\ Few(my'[u].nxt)
    BY <1>2, <2>1 DEF FewInv
  <2>. QED  BY <1>1, <2>1, <2>2 DEF FewInv, nodes
<1>4. /\ ~Taking(t) /\ ~Taking(t)' /\ ~Waits(t, head.ptr)
      /\ \A u \in Threads : Taking(u)' <=> Taking(u)
      /\ \A u \in Threads : Taking(u) => my'[u].old = my[u].old /\ Old(u)' = Old(u)
      /\ \A n : n # head.ptr => ~Waits(t, n)'
  BY <1>2 DEF Taking, Waits, Old
<1>5. \A n \in Nodes : Used(n)' = Used(n) /\ Used(n) \in Nat
  BY <1>1, DemandType DEF Used, nodes
<1>6. (Alive => head.ptr \in Nodes /\ Demand(head.ptr) <= head.external_count)'
  <2>0. PICK n : n = head.ptr
    OBVIOUS
  <2>1. Alive' => Alive
    BY <1>2, DestructorIsNone DEF Alive
  <2>2. Alive => n \in Nodes /\ Demand(n) <= head.external_count /\ Demand(n) \in Nat
    BY <2>0, DemandType DEF CopiesInv
  <2>3. n \in Nodes => Demand(n)' \in Nat /\ Demand(n)' <= Demand(n) + 1
    <3>1. Waits(t, n)'
      BY <1>2, <2>0 DEF Waits, Old
    <3>. QED  BY <1>2, <1>5, <3>1, DemandStep
  <2>4. Alive' => n \in Nodes /\ Demand(n)' <= head'.external_count
    BY <1>1, <1>2, <2>1, <2>2, <2>3
  <2>. QED  BY <1>2, <2>0, <2>4
<1>7. ASSUME NEW u \in Threads, Taking(u)'
      PROVE  (Old(u) \in Nodes /\ Demand(Old(u)) <= my[u].old.external_count)'
  <2>0. PICK n : n = Old(u)
    OBVIOUS
  <2>1. /\ Old(u)' = n /\ my'[u].old = my[u].old /\ n \in Nodes
        /\ Demand(n) <= my[u].old.external_count /\ Demand(n) \in Nat
        /\ my[u].old.external_count \in Nat
    BY <1>4, <1>7, <2>0, DemandType DEF CopiesInv, ShapeInv, Locals, AnyLink
  <2>2. n # head.ptr
    <3>1. u \notin Pushers
      BY <1>4, <1>7 DEF Taking, ShapeInv, PlacesInv, PushPlaces, PushLabels
    <3>2. pos[n] < pos[head.ptr] /\ pos[head.ptr] \in Int
      BY <1>4, <1>7, <2>0, <3>1, LinkedNodes DEF QueueInv, ThreadInv, Popping, Taking, Taken,
         ChainInv, Chained
    <3>. QED  BY <3>2
  <2>3. Demand(n)' \in Nat /\ Demand(n)' <= Demand(n)
    BY <1>2, <1>4, <1>5, <2>1, <2>2, DemandStep
  <2>4. Demand(n)' <= my'[u].old.external_count
    BY <2>1, <2>3
  <2>. QED  BY <2>1, <2>4
<1>8. \A n \in Nodes : \/ Used(n)' = 1 \/ n = head'.ptr
                       \/ \E u \in Threads : Taking(u)' /\ Old(u)' = n
  BY <1>2, <1>4, <1>5 DEF CopiesInv
<1>. QED  BY <1>3, <1>6, <1>7, <1>8 DEF CopiesInv

\* The node whose next link a popper copies is the one at head or one being taken.
LEMMA NextIsOffered ==
    ASSUME ShapeInv, NEW pos \in [Nodes -> Int], QueueInv(pos), NEW t \in Threads \ Pushers,
           pc[t] = "guard_next", node[Old(t)].next.ptr # NULL
    PROVE  Old(t) \in Nodes
           /\ (Old(t) = head.ptr \/ \E u \in Threads : Taking(u) /\ Old(u) = Old(t))
<1>1. /\ Old(t) \in Linked /\ Old(t) \in Nodes /\ pos[Old(t)] <= pos[head.ptr]
      /\ pos[Old(t)] \in Int /\ pos[head.ptr] \in Int /\ head.ptr \in Linked
  BY LinkedNodes DEF QueueInv, ThreadInv, Popping, GuardsOld, HeadLabels, ChainInv, Chained
<1>2. CASE pos[Old(t)] < pos[head.ptr]
  BY <1>1, <1>2 DEF QueueInv, ChainInv, Filled
<1>3. CASE pos[Old(t)] = pos[head.ptr]
  BY <1>1, <1>3 DEF QueueInv, ChainInv, Chained
<1>. QED  BY <1>1, <1>2, <1>3

LEMMA GuardNextCopies ==
    ASSUME ShapeInv, ShapeInv', FewInv, CopiesInv, NEW pos \in [Nodes -> Int], QueueInv(pos),
           NEW t \in Threads \ Pushers, GuardNext(t), Alive
    PROVE  FewInv' /\ CopiesInv'
<1>0. /\ UNCHANGED <<head, tail, live>> /\ pc[t] = "guard_next" /\ Old(t) \in Nodes
  <2>1. UNCHANGED <<head, tail, live>> /\ pc[t] = "guard_next"
    BY DEF GuardNext, Goto
  <2>. QED  BY <2>1, LinkedNodes DEF QueueInv, ThreadInv, Popping, GuardsOld, HeadLabels
<1>1. CASE node[Old(t)].next.ptr = NULL
  <2>1. /\ \A u \in Threads \ {t} : pc'[u] = pc[u] /\ my'[u] = my[u]
        /\ pc'[t] = "drop_head" /\ my'[t].old = my[t].old /\ my'[t].nxt = my[t].nxt
        /\ node' = node
    BY <1>0, <1>1, GuardNextDoes DEF Moves
  <2>2. /\ \A n \in Nodes : Used(n)' <= Used(n) /\ Few(node'[n].next)
        /\ Few(tail') /\ Few(my'[t].old) /\ Few(my'[t].nxt)
    <3>1. \A n \in Nodes : Used(n)' = Used(n) /\ Used(n) \in Nat
      BY <2>1, DemandType DEF Used
    <3>. QED  BY <1>0, <2>1, <3>1 DEF FewInv
  <2>3. ~Taking(t) /\ ~Taking(t)' /\ \A n : ~Waits(t, n)'
    BY <1>0, <2>1 DEF Taking, Waits
  <2>. QED  BY <1>0, <2>1, <2>2, <2>3, CalmStep
<1>2. CASE node[Old(t)].next.ptr # NULL
  <2>0. PICK m \in Nodes : m = Old(t)
    BY <1>0
  <2>1. /\ \A u \in Threads \ {t} : pc'[u] = pc[u] /\ my'[u] = my[u]
        /\ pc'[t] = "callback" /\ my'[t].old = my[t].old /\ my'[t].nxt = node'[m].next
        /\ node'[m].next = Inc(node[m].next)
        /\ \A n \in Nodes : n # m => node'[n] = node[n]
    BY <1>0, <1>2, <2>0, GuardNextDoes DEF Moves
  <2>2. /\ Used(m) \in Nat /\ Used(m)' \in Nat /\ Used(m)' = node'[m].next.external_count
        /\ Used(m)' <= Used(m) + 1 /\ Used(m)' >= Used(m)
        /\ \A n \in Nodes : n # m => Used(n)' = Used(n)
        /\ node[m].next.external_count \in Nat
        /\ node'[m].next.external_count = node[m].next.external_count + 1
    <3>1. node[m].next \in AnyLink
      BY DEF ShapeInv, AnyNode
    <3>2. node'[m].next.external_count = node[m].next.external_count + 1
          /\ node[m].next.external_count \in Nat
      BY <2>1, <3>1 DEF Inc, AnyLink
    <3>3. \A n \in Nodes : n # m => Used(n)' = Used(n)
      BY <2>1 DEF Used
    <3>. QED  BY <3>2, <3>3 DEF Used
  <2>3. /\ Waits(t, m) /\ \A n : ~Waits(t, n)'
        /\ \A u \in Threads : Taking(u)' <=> Taking(u)
        /\ \A u \in Threads : Old(u)' = Old(u) /\ my'[u].old = my[u].old
    BY <1>0, <2>0, <2>1 DEF Waits, Taking, Old
  <2>4. \A n \in Nodes : Demand(n)' \in Nat /\ Demand(n)' <= Demand(n) /\ Demand(n) \in Nat
    <3>1. ASSUME NEW n \in Nodes
          PROVE  Demand(n)' \in Nat /\ Demand(n)' <= Demand(n) /\ Demand(n) \in Nat
      <4>1. Demand(n) \in Nat /\ Demand(n)' \in Nat /\ Used(n) \in Nat
        BY <2>1, DemandType, DemandStep
      <4>2. CASE n = m /\ Used(m)' = Used(m) + 1
        BY <2>1, <2>3, <4>1, <4>2, DemandStep
      <4>3. CASE n # m \/ Used(m)' # Used(m) + 1
        <5>1. Used(n)' <= Used(n)
          BY <2>2, <4>1, <4>3
        <5>. QED  BY <2>1, <2>3, <4>1, <5>1, DemandStep
      <4>. QED  BY <4>2, <4>3
    <3>. QED  BY <3>1
  <2>5. m = head.ptr \/ \E u \in Threads : Taking(u) /\ Old(u) = m
    BY <1>0, <1>2, <2>0, NextIsOffered
  <2>6. Few(node'[m].next)
    <3>0. Used(m)' <= Demand(m)'
      BY <2>2, <2>4, DemandAfter
    <3>1. CASE m = head.ptr
      <4>1. Demand(m) <= head.external_count /\ head.external_count <= MaxCopies
            /\ head.external_count \in Nat /\ MaxCopies \in Nat
        BY <3>1, QueueAssumption DEF CopiesInv, FewInv, Few, ShapeInv, AnyLink
      <4>. QED  BY <2>2, <2>4, <3>0, <4>1 DEF Few
    <3>2. ASSUME NEW u \in Threads, Taking(u), Old(u) = m PROVE Few(node'[m].next)
      <4>1. /\ Demand(m) <= my[u].old.external_count /\ my[u].old.external_count <= MaxCopies
            /\ my[u].old.external_count \in Nat /\ MaxCopies \in Nat
        BY <3>2, QueueAssumption DEF CopiesInv, FewInv, Few, ShapeInv, Locals, AnyLink
      <4>. QED  BY <2>2, <2>4, <3>0, <4>1 DEF Few
    <3>. QED  BY <2>5, <3>1, <3>2
  <2>7. FewInv'
    <3>1. \A n \in Nodes : Few(node'[n].next)
      BY <2>1, <2>6 DEF FewInv
    <3>2. \A u \in Threads : Few(my'[u].old) /\ Few(my'[u].nxt)
      BY <2>1, <2>6 DEF FewInv
    <3>. QED  BY <1>0, <3>1, <3>2 DEF FewInv
  <2>8. (head.ptr \in Nodes /\ Demand(head.ptr) <= head.external_count)'
    <3>0. PICK n : n = head.ptr
      OBVIOUS
    <3>1. n \in Nodes /\ Demand(n) <= head.external_count /\ head.external_count \in Nat
      BY <3>0 DEF CopiesInv, ShapeInv, AnyLink
    <3>2. Demand(n)' <= head'.external_count
      BY <1>0, <2>4, <3>1
    <3>. QED  BY <1>0, <3>0, <3>1, <3>2
  <2>9. ASSUME NEW u \in Threads, Taking(u)'
        PROVE  (Old(u) \in Nodes /\ Demand(Old(u)) <= my[u].old.external_count)'
    <3>0. PICK n : n = Old(u)
      OBVIOUS
    <3>1. /\ Old(u)' = n /\ my'[u].old = my[u].old /\ n \in Nodes
          /\ Demand(n) <= my[u].old.external_count /\ my[u].old.external_count \in Nat
      BY <2>3, <2>9, <3>0 DEF CopiesInv, ShapeInv, Locals, AnyLink
    <3>2. Demand(n)' <= my'[u].old.external_count
      BY <2>4, <3>1
    <3>. QED  BY <3>1, <3>2
  <2>10. \A n \in Nodes : \/ Used(n)' = 1 \/ n = head'.ptr
                          \/ \E u \in Threads : Taking(u)' /\ Old(u)' = n
    BY <1>0, <2>2, <2>3, <2>5 DEF CopiesInv
  <2>. QED  BY <2>7, <2>8, <2>9, <2>10 DEF CopiesInv
<1>. QED  BY <1>1, <1>2

LEMMA CasHeadCopies ==
    ASSUME ShapeInv, ShapeInv', FewInv, CopiesInv, NEW pos \in [Nodes -> Int], QueueInv(pos),
           NEW t \in Threads \ Pushers, CasHead(t), head = my[t].old, Alive
    PROVE  FewInv' /\ CopiesInv'
<1>0. PICK m, k : m = my[t].nxt.ptr /\ k = head.ptr
  OBVIOUS
<1>1. /\ \A u \in Threads \ {t} : pc'[u] = pc[u] /\ my'[u] = my[u]
      /\ pc[t] = "cas_head" /\ pc'[t] = "take_data"
      /\ my'[t].old = my[t].old /\ my'[t].nxt = my[t].nxt
      /\ head' = Counted(1, m) /\ UNCHANGED <<tail, nodes>> /\ Old(t) = k
  <2>1. /\ pc[t] = "cas_head" /\ head' = Counted(1, m) /\ UNCHANGED <<tail, nodes>>
        /\ pc' = [pc EXCEPT ![t] = "take_data"] /\ my' = my
    BY <1>0 DEF CasHead, Goto
  <2>2. pc \in [Threads -> PushPlaces \cup PopPlaces] /\ t \in Threads
    BY DEF ShapeInv, PlacesInv
  <2>3. pc'[t] = "take_data" /\ \A u \in Threads \ {t} : pc'[u] = pc[u]
    BY <2>1, <2>2
  <2>4. Old(t) = k
    BY <1>0 DEF Old
  <2>. QED  BY <2>1, <2>3, <2>4
<1>2. /\ m \in Linked /\ m \in Nodes /\ k \in Linked /\ k \in Nodes /\ m # k
      /\ pos[m] = pos[k] + 1 /\ pos[k] \in Int
  BY <1>0, <1>1, LinkedNodes DEF QueueInv, ThreadInv, Popping, GuardsNext, NextLabels, ChainInv,
     Chained
<1>3. \A n \in Nodes : Used(n)' = Used(n) /\ Used(n) \in Nat /\ Demand(n) \in Nat
  BY <1>1, DemandType DEF Used, nodes
<1>4. /\ ~Taking(t) /\ Taking(t)' /\ \A n : ~Waits(t, n)'
      /\ \A u \in Threads : Old(u)' = Old(u) /\ my'[u].old = my[u].old
      /\ \A u \in Threads : Taking(u)' => Taking(u) \/ u = t
      /\ \A u \in Threads : Taking(u) => Taking(u)'
  BY <1>1 DEF Taking, Waits, Old
<1>5. \A n \in Nodes : Demand(n)' \in Nat /\ Demand(n)' <= Demand(n)
  BY <1>1, <1>3, <1>4, DemandStep
<1>6. FewInv'
  <2>1. Few(head')
    <3>1. MaxCopies \in Nat /\ MaxCopies # 0
      BY QueueAssumption
    <3>. QED  BY <1>1, <3>1 DEF Few, Counted
  <2>2. \A u \in Threads : Few(my'[u].old) /\ Few(my'[u].nxt)
    BY <1>1 DEF FewInv
  <2>. QED  BY <1>1, <2>1, <2>2 DEF FewInv, nodes
<1>7. (Alive => head.ptr \in Nodes /\ Demand(head.ptr) <= head.external_count)'
  <2>1. Used(m) = 1
    <3>1. ASSUME NEW u \in Threads, Taking(u), Old(u) = m PROVE FALSE
      <4>1. u \notin Pushers
        BY <3>1 DEF Taking, ShapeInv, PlacesInv, PushPlaces, PushLabels
      <4>2. pos[m] < pos[k]
        BY <1>0, <3>1, <4>1 DEF QueueInv, ThreadInv, Popping, Taking, Taken
      <4>. QED  BY <1>2, <4>2
    <3>. QED  BY <1>0, <1>2, <3>1 DEF CopiesInv
  <2>2. Waiting(m) = {}
    <3>1. ASSUME NEW u \in Threads, Waits(u, m) PROVE FALSE
      <4>1. u \notin Pushers /\ GuardsOld(u)
        BY <3>1 DEF Waits, ShapeInv, PlacesInv, PushPlaces, PushLabels, GuardsOld, HeadLabels
      <4>2. pos[m] <= pos[k]
        BY <1>0, <3>1, <4>1 DEF QueueInv, ThreadInv, Popping, Waits
      <4>. QED  BY <1>2, <4>2
    <3>. QED  BY <3>1 DEF Waiting
  <2>3. Demand(m) = 1
    BY <2>1, <2>2, FS_EmptySet DEF Demand
  <2>4. Demand(m)' <= head'.external_count /\ head'.ptr = m
    <3>1. head'.external_count = 1 /\ head'.ptr = m
      BY <1>1 DEF Counted
    <3>. QED  BY <1>2, <1>5, <2>3, <3>1
  <2>. QED  BY <1>2, <2>4
<1>8. ASSUME NEW u \in Threads, Taking(u)'
      PROVE  (Old(u) \in Nodes /\ Demand(Old(u)) <= my[u].old.external_count)'
  <2>0. PICK n : n = Old(u)
    OBVIOUS
  <2>1. /\ n \in Nodes /\ Demand(n) <= my[u].old.external_count
        /\ my[u].old.external_count \in Nat
    <3>1. my[u].old.external_count \in Nat
      BY DEF ShapeInv, Locals, AnyLink
    <3>2. CASE u = t
      BY <1>0, <1>1, <1>2, <2>0, <3>1, <3>2 DEF CopiesInv
    <3>3. CASE u # t
      BY <1>4, <1>8, <2>0, <3>1, <3>3 DEF CopiesInv
    <3>. QED  BY <3>2, <3>3
  <2>2. Demand(n)' <= my'[u].old.external_count
    BY <1>3, <1>4, <1>5, <2>1
  <2>. QED  BY <1>4, <2>0, <2>1, <2>2
<1>9. \A n \in Nodes : \/ Used(n)' = 1 \/ n = head'.ptr
                       \/ \E u \in Threads : Taking(u)' /\ Old(u)' = n
  BY <1>0, <1>1, <1>3, <1>4 DEF CopiesInv
<1>. QED  BY <1>6, <1>7, <1>8, <1>9 DEF CopiesInv

LEMMA CloseNextCopies ==
    ASSUME ShapeInv, ShapeInv', FewInv, CopiesInv, NEW pos \in [Nodes -> Int], QueueInv(pos),
           NEW t \in Threads \ Pushers, CloseNext(t), Alive
    PROVE  FewInv' /\ CopiesInv'
<1>0. PICK m \in Nodes : m = Old(t)
  <2>1. pc[t] = "close_next"
    BY DEF CloseNext, Goto
  <2>. QED  BY <2>1, LinkedNodes DEF QueueInv, ThreadInv, Popping, GuardsOld, NextLabels
<1>1. /\ \A u \in Threads \ {t} : pc'[u] = pc[u] /\ my'[u] = my[u]
      /\ pc[t] = "close_next" /\ pc'[t] = "free_head"
      /\ my'[t].old = my[t].old /\ my'[t].nxt = node[m].next
      /\ node'[m].next = Counted(1, NULL) /\ \A n \in Nodes : n # m => node'[n] = node[n]
      /\ UNCHANGED <<head, tail, live>>
  <2>1. UNCHANGED <<head, tail, live>>
    BY DEF CloseNext
  <2>2. /\ Moves(t, "close_next", "free_head")
        /\ my'[t].old = my[t].old /\ my'[t].nxt = node[m].next
        /\ node'[m].next = Counted(1, NULL) /\ \A n \in Nodes : n # m => node'[n] = node[n]
    BY <1>0, CloseNextDoes
  <2>. QED  BY <2>1, <2>2 DEF Moves
<1>2. /\ Used(m)' = 1 /\ \A n \in Nodes : n # m => Used(n)' = Used(n)
      /\ \A n \in Nodes : Used(n) \in Nat /\ Used(n) >= 1 /\ Demand(n) \in Nat
  BY <1>1, DemandType DEF Used, Counted
<1>3. /\ ~Taking(t)' /\ \A n : ~Waits(t, n)'
      /\ \A u \in Threads : Old(u)' = Old(u) /\ my'[u].old = my[u].old
      /\ \A u \in Threads \ {t} : Taking(u)' <=> Taking(u)
  BY <1>1 DEF Taking, Waits, Old
<1>4. \A n \in Nodes : Demand(n)' \in Nat /\ Demand(n)' <= Demand(n)
  <2>1. \A n \in Nodes : Used(n)' <= Used(n)
    BY <1>2
  <2>. QED  BY <1>1, <1>3, <2>1, DemandStep
<1>5. FewInv'
  <2>1. \A n \in Nodes : Few(node'[n].next)
    <3>1. MaxCopies \in Nat /\ MaxCopies # 0
      BY QueueAssumption
    <3>2. Few(node'[m].next)
      BY <1>1, <3>1 DEF Few, Counted
    <3>. QED  BY <1>1, <3>2 DEF FewInv
  <2>2. \A u \in Threads : Few(my'[u].old) /\ Few(my'[u].nxt)
    BY <1>1 DEF FewInv
  <2>. QED  BY <1>1, <2>1, <2>2 DEF FewInv
<1>6. (Alive => head.ptr \in Nodes /\ Demand(head.ptr) <= head.external_count)'
  <2>0. PICK n : n = head.ptr
    OBVIOUS
  <2>1. n \in Nodes /\ Demand(n) <= head.external_count /\ head.external_count \in Nat
    BY <2>0 DEF CopiesInv, ShapeInv, AnyLink
  <2>2. Demand(n)' <= head'.external_count
    BY <1>1, <1>2, <1>4, <2>1
  <2>. QED  BY <1>1, <2>0, <2>1, <2>2
<1>7. ASSUME NEW u \in Threads, Taking(u)'
      PROVE  (Old(u) \in Nodes /\ Demand(Old(u)) <= my[u].old.external_count)'
  <2>0. PICK n : n = Old(u)
    OBVIOUS
  <2>1. /\ Old(u)' = n /\ my'[u].old = my[u].old /\ n \in Nodes
        /\ Demand(n) <= my[u].old.external_count /\ my[u].old.external_count \in Nat
    <3>1. Taking(u)
      BY <1>3, <1>7
    <3>. QED  BY <1>3, <2>0, <3>1 DEF CopiesInv, ShapeInv, Locals, AnyLink
  <2>2. Demand(n)' <= my'[u].old.external_count
    BY <1>2, <1>4, <2>1
  <2>. QED  BY <2>1, <2>2
<1>8. ASSUME NEW n \in Nodes
      PROVE  Used(n)' = 1 \/ n = head'.ptr \/ \E u \in Threads : Taking(u)' /\ Old(u)' = n
  <2>1. CASE n = m
    BY <1>2, <2>1
  <2>2. CASE n # m
    <3>1. \A u \in Threads : Taking(u) /\ Old(u) = n => u # t
      BY <1>0, <2>2
    <3>. QED  BY <1>1, <1>2, <1>3, <2>2, <3>1 DEF CopiesInv
  <2>. QED  BY <2>1, <2>2
<1>. QED  BY <1>5, <1>6, <1>7, <1>8 DEF CopiesInv

LEMMA CalmMove ==
    ASSUME ShapeInv, ShapeInv', FewInv, CopiesInv, NEW t \in Threads, NEW from, NEW to,
           Moves(t, from, to), from # "close_next", to \notin {"check_empty", "take_data"},
           to = "close_next" <=> from = "take_data", to = "guard_next" => from = "check_empty",
           from \in {"destroy_tail", "destroyed"} => to = "destroyed",
           from \in {"check_empty", "take_data"} => my'[t].old = my[t].old,
           head' = head, Few(tail'), Few(my'[t].old), Few(my'[t].nxt),
           \A n \in Nodes : Used(n)' <= Used(n) /\ Few(node'[n].next)
    PROVE  FewInv' /\ CopiesInv'
<1>1. pc[t] = from /\ pc'[t] = to
      /\ \A u \in Threads \ {t} : pc'[u] = pc[u] /\ my'[u] = my[u]
  BY DEF Moves
<1>2. \A n \in Nodes : Waits(t, n)' => Waits(t, n)
  BY <1>1 DEF Waits, Old
<1>3. (Taking(t)' <=> Taking(t)) /\ (Taking(t) => my'[t].old = my[t].old)
  BY <1>1 DEF Taking
<1>4. Alive' => Alive
  BY <1>1, DestructorIsNone DEF Alive
<1>. QED  BY <1>1, <1>2, <1>3, <1>4, CalmStep

\* The links of nodes stay, except those of deleted nodes.
LinksStay == \A n \in Nodes : node'[n].next = node[n].next \/ node'[n] = Fresh

LEMMA StayingLinks ==
    ASSUME ShapeInv, FewInv, LinksStay
    PROVE  \A n \in Nodes : Used(n)' <= Used(n) /\ Few(node'[n].next)
<1>1. SUFFICES ASSUME NEW n \in Nodes PROVE Used(n)' <= Used(n) /\ Few(node'[n].next)
  OBVIOUS
<1>2. /\ Used(n) \in Nat /\ Used(n) >= 1 /\ Few(node[n].next) /\ MaxCopies \in Nat
  BY DemandType, QueueAssumption DEF FewInv
<1>3. CASE node'[n].next = node[n].next
  <2>1. Used(n)' = Used(n)
    BY <1>3 DEF Used
  <2>. QED  BY <1>2, <1>3, <2>1
<1>4. CASE node'[n] = Fresh
  <2>1. node'[n].next.external_count = 0
    BY <1>4 DEF Fresh, Counted
  <2>2. Used(n)' = 1
    BY <2>1 DEF Used
  <2>3. Used(n)' <= Used(n)
    BY <1>2, <2>2
  <2>4. MaxCopies \in Nat
    BY <1>2
  <2>5. Few(node'[n].next)
    BY <2>1, <2>4 DEF Few
  <2>. QED  BY <2>3, <2>5
<1>. QED  BY <1>3, <1>4 DEF LinksStay

LEMMA StoringLinks ==
    ASSUME ShapeInv, NEW p, DropGuard(p) \/ FreeExternalCounter(p)
    PROVE  LinksStay
<1>1. node \in [Nodes -> AnyNode]
  BY DEF ShapeInv
<1>2. ASSUME NEW new, StoreCounts(p.ptr, new), p.ptr \in Nodes => new.next = node[p.ptr].next
      PROVE  LinksStay
  <2>1. node' = [node EXCEPT ![p.ptr] = Fresh] \/ node' = [node EXCEPT ![p.ptr] = new]
    BY <1>2 DEF StoreCounts
  <2>. QED  BY <1>1, <1>2, <2>1 DEF LinksStay
<1>3. CASE DropGuard(p)
  <2>. DEFINE new == [node[p.ptr] EXCEPT !.internal_count = (@ - 1) % CountRange]
  <2>1. StoreCounts(p.ptr, new)
    BY <1>3 DEF DropGuard
  <2>2. p.ptr \in Nodes => new.next = node[p.ptr].next
    BY <1>1 DEF AnyNode
  <2>. HIDE DEF new
  <2>. QED  BY <1>2, <2>1, <2>2
<1>4. CASE FreeExternalCounter(p)
  <2>. DEFINE new == [node[p.ptr] EXCEPT
                        !.internal_count = (@ + p.external_count - 1) % CountRange,
                        !.external_counters = (@ - 1) % 4]
  <2>1. StoreCounts(p.ptr, new)
    BY <1>4 DEF FreeExternalCounter
  <2>2. p.ptr \in Nodes => new.next = node[p.ptr].next
    BY <1>1 DEF AnyNode
  <2>. HIDE DEF new
  <2>. QED  BY <1>2, <2>1, <2>2
<1>. QED  BY <1>3, <1>4

LEMMA UpdateCopies ==
    ASSUME ShapeInv, ShapeInv', FewInv, CopiesInv, NEW t \in Threads, UpdateCounts(t)
    PROVE  FewInv' /\ CopiesInv'
<1>1. /\ UNCHANGED <<head, tail, my>> /\ \E p : DropGuard(p) \/ FreeExternalCounter(p)
  BY DEF UpdateCounts
<1>2. \A n \in Nodes : Used(n)' <= Used(n) /\ Few(node'[n].next)
  BY <1>1, StoringLinks, StayingLinks
<1>3. Few(tail') /\ Few(my'[t].old) /\ Few(my'[t].nxt)
  BY <1>1 DEF FewInv
<1>4. PICK from, to : Moves(t, from, to) /\ \/ from = "free_tail" /\ to = "drop_tail"
                                            \/ from = "free_head" /\ to = "free_next"
                                            \/ from = "free_next" /\ to = "drop_next"
                                            \/ from = "drop_next" /\ to = "drop_head"
                                            \/ from = "destroy_head" /\ to = "destroy_tail"
                                            \/ from = "destroy_tail" /\ to = "destroyed"
  BY UpdateCountsDoes
<1>. QED  BY <1>1, <1>2, <1>3, <1>4, CalmMove

LEMMA PopCopies ==
    ASSUME ShapeInv, ShapeInv', FewInv, CopiesInv, NEW pos \in [Nodes -> Int], QueueInv(pos),
           NEW t \in Threads \ Pushers, Pop(t), Alive
    PROVE  FewInv' /\ CopiesInv'
<1>0. Few(tail) /\ Few(my[t].old) /\ Few(my[t].nxt) /\ t \in Threads
  BY DEF FewInv
<1>1. ASSUME NEW from, NEW to, Moves(t, from, to), from # "close_next",
             to \notin {"check_empty", "take_data"}, to = "close_next" <=> from = "take_data",
             to = "guard_next" => from = "check_empty",
             from \in {"destroy_tail", "destroyed"} => to = "destroyed",
             UNCHANGED <<head, tail>>, LinksStay,
             my'[t].old = my[t].old, my'[t].nxt = my[t].nxt
      PROVE  FewInv' /\ CopiesInv'
  <2>1. \A n \in Nodes : Used(n)' <= Used(n) /\ Few(node'[n].next)
    BY <1>1, StayingLinks
  <2>. QED  BY <1>0, <1>1, <2>1, CalmMove
<1>2. node' = node => LinksStay
  BY DEF LinksStay
<1>3. CASE PopStart(t)
  <2>1. Moves(t, "idle", "guard_head") /\ my' = my /\ UNCHANGED <<head, tail, node>>
    BY <1>0, <1>3, PopStartDoes DEF PopStart, nodes
  <2>. QED  BY <1>1, <1>2, <2>1
<1>4. CASE CheckEmpty(t)
  <2>1. /\ Moves(t, "check_empty", "drop_head") \/ Moves(t, "check_empty", "guard_next")
        /\ my' = my /\ UNCHANGED <<head, tail, node>>
    BY <1>0, <1>4, CheckEmptyDoes DEF CheckEmpty, nodes
  <2>. QED  BY <1>1, <1>2, <2>1
<1>5. CASE StartCallback(t)
  <2>1. Moves(t, "callback", "in_callback") /\ SameLocals(t) /\ UNCHANGED <<head, tail, node>>
    BY <1>0, <1>5, StartCallbackDoes DEF StartCallback, nodes
  <2>. QED  BY <1>1, <1>2, <2>1 DEF SameLocals
<1>6. CASE EndCallback(t)
  <2>1. /\ Moves(t, "in_callback", "cas_head") \/ Moves(t, "in_callback", "drop_next")
        /\ SameLocals(t) /\ UNCHANGED <<head, tail, node>>
    BY <1>0, <1>6, EndCallbackDoes DEF EndCallback, nodes
  <2>. QED  BY <1>1, <1>2, <2>1 DEF SameLocals
<1>7. CASE CasHead(t)
  <2>1. CASE head = my[t].old
    BY <1>7, <2>1, CasHeadCopies
  <2>2. CASE head # my[t].old
    <3>1. /\ Moves(t, "cas_head", "drop_next") /\ UNCHANGED <<head, tail, node>>
          /\ my'[t].old = my[t].old /\ my'[t].nxt = my[t].nxt
      BY <1>0, <1>7, <2>2, CasHeadDoes DEF CasHead, nodes
    <3>. QED  BY <1>1, <1>2, <3>1
  <2>. QED  BY <2>1, <2>2
<1>8. CASE TakeData(t)
  <2>1. pc[t] = "take_data" /\ UNCHANGED <<head, tail>>
    BY <1>8 DEF TakeData, Goto
  <2>2. Old(t) \in Nodes
    BY <2>1, LinkedNodes DEF QueueInv, ThreadInv, Popping, GuardsOld, NextLabels
  <2>3. /\ Moves(t, "take_data", "close_next") /\ SameLocals(t)
        /\ \A n \in Nodes : node'[n].next = node[n].next
    BY <1>0, <1>8, <2>2, TakeDataDoes
  <2>. QED  BY <1>1, <2>1, <2>3 DEF SameLocals, LinksStay
<1>9. CASE DropHead(t)
  <2>1. /\ \/ Moves(t, "drop_head", "guard_head") \/ Moves(t, "drop_head", "idle")
           \/ Moves(t, "drop_head", "destroy_head")
        /\ SameLocals(t) /\ DropGuard(my[t].old) /\ UNCHANGED <<head, tail>>
    BY <1>0, <1>9, DropHeadDoes DEF DropHead
  <2>2. LinksStay
    BY <2>1, StoringLinks
  <2>. QED  BY <1>1, <2>1, <2>2 DEF SameLocals
<1>. QED  BY <1>0, <1>3, <1>4, <1>5, <1>6, <1>7, <1>8, <1>9, GuardHeadCopies, GuardNextCopies,
          CloseNextCopies, UpdateCopies DEF Pop

LEMMA PushCopies ==
    ASSUME ShapeInv, ShapeInv', UnlinkedInv, FewInv, CopiesInv, NEW pos \in [Nodes -> Int],
           QueueInv(pos), NEW t \in Pushers, Push(t)
    PROVE  FewInv' /\ CopiesInv'
<1>0. /\ Few(tail) /\ Few(my[t].old) /\ Few(my[t].nxt) /\ t \in Threads
      /\ \A c \in {0, 1} : \A n : Few(Counted(c, n))
  <2>1. MaxCopies \in Nat /\ MaxCopies # 0
    BY QueueAssumption
  <2>. QED  BY <2>1 DEF FewInv, Few, Counted, Threads
<1>1. ASSUME NEW from, NEW to, Moves(t, from, to), from \in PushPlaces, to \in PushPlaces,
             head' = head, Few(tail'), Few(my'[t].old), Few(my'[t].nxt),
             \A n \in Nodes : Used(n)' <= Used(n) /\ Few(node'[n].next)
      PROVE  FewInv' /\ CopiesInv'
  BY <1>0, <1>1, CalmMove DEF PushPlaces, PushLabels
<1>2. ASSUME LinksStay PROVE \A n \in Nodes : Used(n)' <= Used(n) /\ Few(node'[n].next)
  BY <1>2, StayingLinks
<1>3. node' = node => LinksStay
  BY DEF LinksStay
<1>4. pc[t] \in PushPlaces /\ pc'[t] \in PushPlaces
  BY <1>0 DEF ShapeInv, PlacesInv
<1>5. pc[t] # "guard_tail" /\ pc[t] # "idle" => Old(t) \in Nodes
  BY <1>4, LinkedNodes DEF QueueInv, ThreadInv, Pushing, GuardsOld, PushPlaces
<1>6. CASE PushStart(t)
  <2>1. /\ Moves(t, "idle", "guard_tail") /\ my'[t].old = my[t].old /\ my'[t].nxt = my[t].nxt
        /\ UNCHANGED <<head, tail, node>>
    BY <1>6, PushStartDoes DEF PushStart
  <2>. QED  BY <1>0, <1>1, <1>2, <1>3, <2>1 DEF PushPlaces, PushLabels
<1>7. CASE GuardTail(t)
  <2>1. /\ Moves(t, "guard_tail", "cas_data") /\ my'[t].old = tail' /\ my'[t].nxt = my[t].nxt
        /\ UNCHANGED <<head, node>>
        /\ tail'.external_count = tail.external_count + 1 /\ tail.external_count < MaxCopies
    BY <1>7, GuardTailDoes DEF GuardTail, nodes
  <2>2. Few(tail')
    <3>1. tail.external_count \in Nat /\ MaxCopies \in Nat
      BY QueueAssumption DEF ShapeInv, AnyLink
    <3>. QED  BY <2>1, <3>1 DEF Few
  <2>. QED  BY <1>0, <1>1, <1>2, <1>3, <2>1, <2>2 DEF PushPlaces, PushLabels
<1>8. CASE CasData(t)
  <2>1. pc[t] = "cas_data" /\ UNCHANGED <<head, tail>>
    BY <1>8 DEF CasData, Goto
  <2>2. /\ \E to : Moves(t, "cas_data", to) /\ to \in PushPlaces
        /\ my' = my /\ \A n \in Nodes : node'[n].next = node[n].next
    BY <1>5, <1>8, <2>1, CasDataDoes DEF PushPlaces, PushLabels
  <2>. QED  BY <1>0, <1>1, <1>2, <2>1, <2>2 DEF PushPlaces, PushLabels, LinksStay
<1>9. CASE LinkNext(t)
  <2>1. pc[t] \in {"link_own", "link_help"} /\ UNCHANGED <<head, tail>>
    BY <1>9 DEF LinkNext
  <2>2. /\ Moves(t, pc[t], "set_tail") /\ my'[t].old = my[t].old /\ Old(t) \in Nodes
        /\ LinksNew(t) \/ FindsLinked(t)
    BY <1>5, <1>9, <2>1, LinkNextDoes
  <2>3. CASE FindsLinked(t)
    <3>1. node' = node /\ Few(my'[t].nxt)
      BY <2>2, <2>3 DEF FindsLinked, FewInv
    <3>. QED  BY <1>0, <1>1, <1>2, <1>3, <1>4, <2>1, <2>2, <3>1 DEF PushPlaces, PushLabels
  <2>4. CASE LinksNew(t)
    <3>1. /\ node[Old(t)].next.external_count = 0 /\ node'[Old(t)].next = Counted(1, my[t].new)
          /\ node'[Old(t)].next.external_count = 1 /\ my'[t].nxt = Counted(1, my[t].new)
          /\ \A n \in Nodes : n # Old(t) => node'[n] = node[n]
      BY <2>4 DEF LinksNew, Counted
    <3>2. ASSUME NEW n \in Nodes PROVE Used(n)' <= Used(n) /\ Few(node'[n].next)
      <4>1. Used(n)' = Used(n) /\ Used(n) \in Nat
        BY <3>1, DemandType DEF Used
      <4>2. Few(node'[n].next)
        BY <1>0, <3>1 DEF FewInv
      <4>. QED  BY <4>1, <4>2
    <3>. QED  BY <1>0, <1>1, <1>4, <2>1, <2>2, <3>1, <3>2 DEF PushPlaces, PushLabels
  <2>. QED  BY <2>2, <2>3, <2>4
<1>10. CASE SetNewTail(t)
  <2>1. /\ \E to : Moves(t, "set_tail", to) /\ to \in PushPlaces
        /\ my'[t].nxt = my[t].nxt /\ UNCHANGED <<head, node>>
        /\ my'[t].old = tail \/ my' = my
        /\ tail' = tail \/ tail' = Counted(1, my[t].nxt.ptr)
    BY <1>10, SetNewTailDoes DEF SetNewTail, nodes, PushPlaces, PushLabels
  <2>2. Few(tail') /\ Few(my'[t].old)
    BY <1>0, <2>1
  <2>. QED  BY <1>0, <1>1, <1>2, <1>3, <2>1, <2>2 DEF PushPlaces, PushLabels
<1>11. CASE DropTail(t)
  <2>1. /\ \E to : Moves(t, "drop_tail", to) /\ to \in PushPlaces
        /\ SameLocals(t) /\ DropGuard(my[t].old) /\ UNCHANGED <<head, tail>>
    BY <1>11, DropTailDoes DEF DropTail, PushPlaces, PushLabels
  <2>2. LinksStay
    BY <2>1, StoringLinks
  <2>. QED  BY <1>0, <1>1, <1>2, <2>1, <2>2 DEF SameLocals, PushPlaces, PushLabels
<1>. QED  BY <1>0, <1>6, <1>7, <1>8, <1>9, <1>10, <1>11, UpdateCopies DEF Push

LEMMA CopiesInvariant == Spec => [](FewInv /\ CopiesInv)
<1>1. Init => FewInv /\ CopiesInv
  <2>. SUFFICES ASSUME Init PROVE FewInv /\ CopiesInv
    OBVIOUS
  <2>1. PICK n \in Nodes : /\ head = Counted(1, n) /\ tail = Counted(1, n)
                           /\ node = [m \in Nodes |->
                                IF m = n THEN [Fresh EXCEPT !.external_counters = 2] ELSE Fresh]
    BY DEF Init
  <2>2. /\ [Fresh EXCEPT !.external_counters = 2].next = Counted(0, NULL)
        /\ Fresh.next = Counted(0, NULL)
    BY DEF Fresh
  <2>3. \A m \in Nodes : node[m].next = Counted(0, NULL)
    BY <2>1, <2>2
  <2>4. \A c \in {0, 1} : \A m : Few(Counted(c, m))
    <3>1. MaxCopies \in Nat /\ MaxCopies # 0
      BY QueueAssumption
    <3>. QED  BY <3>1 DEF Few, Counted
  <2>5. \A t \in Threads : /\ pc[t] = "idle" /\ my[t].old = Counted(0, NULL)
                           /\ my[t].nxt = Counted(0, NULL)
    BY DEF Init
  <2>6. FewInv
    BY <2>1, <2>3, <2>4, <2>5 DEF FewInv
  <2>7. \A m \in Nodes : Used(m) = 1
    BY <2>3 DEF Used, Counted
  <2>8. Waiting(n) = {}
    BY <2>5 DEF Waiting, Waits
  <2>9. head.ptr = n /\ Demand(n) = 1 /\ head.external_count = 1
    BY <2>1, <2>7, <2>8, FS_EmptySet DEF Demand, Counted
  <2>10. \A t \in Threads : ~Taking(t)
    BY <2>5 DEF Taking
  <2>. QED  BY <2>6, <2>7, <2>9, <2>10 DEF CopiesInv
<1>2. ASSUME IInv, IInv', FewInv, CopiesInv, [Next]_vars PROVE FewInv' /\ CopiesInv'
  <2>0. ShapeInv /\ ShapeInv' /\ UnlinkedInv /\ ClosingInv
    BY <1>2 DEF IInv
  <2>1. CASE UNCHANGED vars
    <3>1. UNCHANGED <<head, tail, node, pc, my>>
      BY <2>1 DEF vars, nodes
    <3>2. \A n \in Nodes : Used(n)' <= Used(n) /\ Few(node'[n].next)
      <4>1. LinksStay
        BY <3>1 DEF LinksStay
      <4>. QED  BY <1>2, <2>0, <4>1, StayingLinks
    <3>3. /\ \A n \in Nodes : Waits(Destructor, n)' => Waits(Destructor, n)
          /\ Taking(Destructor)' <=> Taking(Destructor)
      BY <3>1 DEF Waits, Taking, Old
    <3>4. Alive' => Alive
      BY <3>1 DEF Alive
    <3>5. Few(tail') /\ Few(my'[Destructor].old) /\ Few(my'[Destructor].nxt)
      BY <1>2, <3>1, DestructorIsNone DEF FewInv
    <3>. QED  BY <1>2, <2>0, <3>1, <3>2, <3>3, <3>4, <3>5, DestructorIsNone, CalmStep
  <2>2. ASSUME Alive PROVE \E pos \in [Nodes -> Int] : QueueInv(pos)
    BY <1>2, <2>2 DEF IInv
  <2>3. ASSUME NEW t \in Pushers, Push(t) PROVE FewInv' /\ CopiesInv'
    <3>1. pc[Destructor] = "idle" /\ t \in Threads
      BY <2>0, <2>3, OthersAct DEF Threads
    <3>. QED  BY <1>2, <2>0, <2>2, <2>3, <3>1, PushCopies DEF Alive
  <2>4. ASSUME NEW t \in Poppers, Pop(t) PROVE FewInv' /\ CopiesInv'
    <3>1. t \in Threads /\ t \in Threads \ Pushers
      BY QueueAssumption DEF Threads
    <3>2. Alive
      BY <2>0, <2>4, <3>1, OthersAct DEF Alive
    <3>. QED  BY <1>2, <2>0, <2>2, <2>4, <3>1, <3>2, PopCopies
  <2>5. CASE Pop(Destructor)
    <3>1. CASE Alive
      <4>1. Destructor \in Threads \ Pushers
        BY DestructorIsNone
      <4>. QED  BY <1>2, <2>0, <2>2, <2>5, <3>1, <4>1, PopCopies
    <3>2. CASE ~Alive
      <4>1. UpdateCounts(Destructor)
        <5>1. \A from, to : from \notin {"destroy_tail", "destroyed"} =>
                              ~Goto(Destructor, from, to)
          BY <3>2 DEF Goto, Alive
        <5>2. /\ ~PopStart(Destructor) /\ ~GuardHead(Destructor) /\ ~CheckEmpty(Destructor)
              /\ ~GuardNext(Destructor) /\ ~StartCallback(Destructor)
          BY <5>1 DEF PopStart, GuardHead, CheckEmpty, GuardNext, StartCallback
        <5>3. /\ ~EndCallback(Destructor) /\ ~CasHead(Destructor) /\ ~TakeData(Destructor)
              /\ ~CloseNext(Destructor) /\ ~DropHead(Destructor)
          BY <5>1 DEF EndCallback, CasHead, TakeData, CloseNext, DropHead
        <5>. QED  BY <2>5, <5>2, <5>3 DEF Pop
      <4>. QED  BY <1>2, <2>0, <4>1, DestructorIsNone, UpdateCopies
    <3>. QED  BY <3>1, <3>2
  <2>. QED  BY <1>2, <2>1, <2>3, <2>4, <2>5 DEF Next, Terminated
<1>. QED  BY <1>1, <1>2, Invariant, PTL DEF Spec

\* The state keeps its shape, and the bound on the copies of head and tail also bounds
\* those of the links in nodes.
THEOREM TypeCorrect == Spec => []TypeOK
<1>1. ASSUME IInv, FewInv PROVE TypeOK
  <2>0. ShapeInv /\ MaxCopies \in Nat
    BY <1>1, QueueAssumption DEF IInv
  <2>1. \A link \in AnyLink : Few(link) => link \in Links
    BY <2>0 DEF AnyLink, Links, Few
  <2>2. head \in Links /\ tail \in Links
    BY <1>1, <2>0, <2>1 DEF ShapeInv, FewInv
  <2>3. node \in [Nodes -> [data : Values \cup {NULL}, internal_count : 0 .. CountRange - 1,
                            external_counters : 0 .. 3, next : Links]]
    <3>1. ASSUME NEW n \in Nodes
          PROVE  node[n] \in [data : Values \cup {NULL}, internal_count : 0 .. CountRange - 1,
                              external_counters : 0 .. 3, next : Links]
      <4>1. node[n] \in AnyNode /\ node[n].next \in AnyLink /\ Few(node[n].next)
        BY <1>1, <2>0 DEF ShapeInv, AnyNode, FewInv
      <4>2. node[n].next \in Links
        BY <2>1, <4>1
      <4>. QED  BY <4>1, <4>2 DEF AnyNode
    <3>2. node \in [Nodes -> AnyNode]
      BY <2>0 DEF ShapeInv
    <3>. QED  BY <3>1, <3>2
  <2>4. my \in [Threads -> [old : Links, nxt : Links, new : Nodes \cup {NULL},
                            val : Values \cup {NULL}, again : BOOLEAN]]
    <3>1. ASSUME NEW t \in Threads
          PROVE  my[t] \in [old : Links, nxt : Links, new : Nodes \cup {NULL},
                            val : Values \cup {NULL}, again : BOOLEAN]
      <4>1. /\ my[t] \in Locals /\ my[t].old \in AnyLink /\ my[t].nxt \in AnyLink
            /\ Few(my[t].old) /\ Few(my[t].nxt)
        BY <1>1, <2>0 DEF ShapeInv, Locals, FewInv
      <4>2. my[t].old \in Links /\ my[t].nxt \in Links
        BY <2>1, <4>1
      <4>. QED  BY <4>1, <4>2 DEF Locals
    <3>2. my \in [Threads -> Locals]
      BY <2>0 DEF ShapeInv
    <3>. QED  BY <3>1, <3>2
  <2>5. pc \in [Threads -> PushLabels \cup HeadLabels \cup NextLabels \cup
                           {"idle", "destroy_head", "destroy_tail", "destroyed"}]
    <3>1. PushPlaces \cup PopPlaces = PushLabels \cup HeadLabels \cup NextLabels \cup
                                      {"idle", "destroy_head", "destroy_tail", "destroyed"}
      BY DEF PushPlaces, PopPlaces
    <3>. QED  BY <2>0, <3>1 DEF ShapeInv, PlacesInv
  <2>. QED  BY <2>0, <2>2, <2>3, <2>4, <2>5 DEF ShapeInv, TypeOK
<1>. QED  BY <1>1, Invariant, CopiesInvariant, PTL
=============================================================================
