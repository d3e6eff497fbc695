----------------------------- MODULE Allocator -----------------------------
(***************************************************************************)
(* FreeListMultiLevelAllocator (src/allocator.h, src/allocator.cpp): one   *)
(* thread's allocator.  Addresses and sizes are bytes.  A block is a       *)
(* FrontControl, its data, and a BackControl that points to the front.     *)
(* fc has the FrontControls in use, bc the BackControls: one that has      *)
(* become part of a block's data is not in their domain any more.          *)
(***************************************************************************)
EXTENDS Integers, FiniteSets

CONSTANTS MemAllocatedAtOnce,  \* MEM_ALLOCATED_AT_ONCE
          MaxMemLayers,        \* MAX_MEM_LAYERS
          ArenaBases,          \* bound: where operator new may put an arena
          Requests,            \* [size, alignment, struct_size] of calls of Allocate
          NULL

FrontSize == 24   \* sizeof(FrontControl): 20 bytes, rounded up
BackSize == 8     \* sizeof(BackControl)
Layers == 0 .. MaxMemLayers - 1

PowerOfTwo[k \in 0 .. MaxMemLayers] == IF k = 0 THEN 1 ELSE 2 * PowerOfTwo[k - 1]

\* The number of halvings down to 1; the same, one more unless it is a power of two.
GetLowerLog2(number) == Cardinality({k \in 1 .. MaxMemLayers : PowerOfTwo[k] <= number})
GetUpperLog2(number) == Cardinality({k \in 0 .. MaxMemLayers : PowerOfTwo[k] < number})

SizeWithAlignment(r) ==
    LET unrounded == r.size + (IF r.alignment > 8 THEN r.alignment ELSE 8) - 8
    IN  ((unrounded + 7) \div 8) * 8

ArenaData == MemAllocatedAtOnce - FrontSize - BackSize

\* Operator new returns memory that is aligned to 16 bytes and that nobody else has.
ASSUME ArenasAssumption ==
    /\ MaxMemLayers \in Nat \ {0} /\ MemAllocatedAtOnce \in Nat
    /\ ArenaData > 0 /\ MemAllocatedAtOnce % 8 = 0
    /\ ArenaBases \subseteq Nat \ {0} /\ NULL \notin Nat
    /\ \A a \in ArenaBases : a % 16 = 0
    /\ \A a, b \in ArenaBases : a < b => a + MemAllocatedAtOnce <= b

\* A request is for none or some objects of struct_size.  One that needs a higher layer
\* than an arena fills finds no block even in a new arena, and a shift of more than 127
\* does not fit the char it is stored in.
ASSUME RequestsAssumption == \A r \in Requests :
    /\ r.size \in Nat /\ r.alignment \in {2 ^ k : k \in 0 .. 7} /\ r.struct_size \in Nat
    /\ r.size = 0 \/ r.size >= r.struct_size
    /\ GetUpperLog2(SizeWithAlignment(r)) <= GetLowerLog2(ArenaData)
    /\ GetLowerLog2(ArenaData) < MaxMemLayers

VARIABLES layers,   \* layers[l]: address of a FrontControl or NULL
          fc,       \* the FrontControl at an address
          bc,       \* the BackControl at an address: front_control
          damaged,  \* memory that is not the allocator's to use has been written
          arenas,   \* base addresses of the arenas
          given     \* what consumers hold: [pointer, size, alignment, shift]

heap == [layers |-> layers, fc |-> fc, bc |-> bc, damaged |-> damaged]
vars == <<layers, fc, bc, damaged, arenas, given>>

Init ==
    /\ layers = [l \in Layers |-> NULL] /\ fc = <<>> /\ bc = <<>> /\ damaged = FALSE
    /\ arenas = {} /\ given = {}

----------------------------------------------------------------------------
(* The operations on a heap: [layers, fc, bc, damaged] *)

Smaller(m, n) == IF m < n THEN m ELSE n
LayerOf(front) == Smaller(front.source_layer, GetLowerLog2(front.data_size))
GetBackControl(h, a) == a + FrontSize + h.fc[a].data_size
Following(h, a) == GetBackControl(h, a) + BackSize

LinkOffset == [local_next |-> 6, local_prev |-> 12]

\* The bytes of a link of a FrontControl at a are now data of a free block.
IsFree(h, a, link) == \E f \in DOMAIN h.fc :
    /\ h.fc[f].owned
    /\ f + FrontSize <= a + LinkOffset[link]
    /\ a + LinkOffset[link] + 6 <= GetBackControl(h, f)

\* Set<FCLocalNext> or Set<FCLocalPrev> at an address that may be out of date.
SetLink(h, a, link, to) ==
    IF a = NULL THEN h
    ELSE IF a \in DOMAIN h.fc THEN [h EXCEPT !.fc[a][link] = to]
    ELSE [h EXCEPT !.damaged = @ \/ ~IsFree(h, a, link)]

ClearLinks(h, a) == SetLink(SetLink(h, a, "local_next", NULL), a, "local_prev", NULL)

\* The next block of the new head is not set: the list behind it is lost.
Attach(h, a) ==
    LET layer == LayerOf(h.fc[a])
        linked == SetLink(ClearLinks(h, a), h.layers[layer], "local_prev", a)
    IN  [linked EXCEPT !.layers[layer] = a]

Detach(h, a) ==
    LET layer == LayerOf(h.fc[a])
        prev == h.fc[a].local_prev
        next == h.fc[a].local_next
        unlinked == SetLink(SetLink(h, prev, "local_next", next), next, "local_prev", prev)
    IN  ClearLinks([unlinked EXCEPT !.layers[layer] = IF @ = a THEN next ELSE @], a)

\* Mutant: the BackControl of the second block still points to the second block.
JoinBackForgotten(h, a, b) ==
    LET detached == Detach(Detach(h, a), b)
        first == detached.fc[a]
        second == detached.fc[b]
        joined == [first EXCEPT
            !.data_size = @ + BackSize + FrontSize + second.data_size,
            !.first = @ \/ second.first, !.last = @ \/ second.last,
            !.owned = @ \/ second.owned]
    IN  Attach([detached EXCEPT
            !.fc = [x \in DOMAIN @ \ {b} |-> IF x = a THEN joined ELSE @[x]],
            !.bc = [x \in DOMAIN @ \ {GetBackControl(detached, a)} |-> @[x]]], a)

Join(h, a, b) ==
    LET detached == Detach(Detach(h, a), b)
        first == detached.fc[a]
        second == detached.fc[b]
        joined == [first EXCEPT
            !.data_size = @ + BackSize + FrontSize + second.data_size,
            !.first = @ \/ second.first, !.last = @ \/ second.last,
            !.owned = @ \/ second.owned]
    IN  Attach([detached EXCEPT
            !.fc = [x \in DOMAIN @ \ {b} |-> IF x = a THEN joined ELSE @[x]],
            !.bc = [x \in DOMAIN @ \ {GetBackControl(detached, a)} |->
                      IF x = GetBackControl(detached, b) THEN a ELSE @[x]]], a)

\* Mutant: the block stays in the list of the layer it was in.
SplitBlockAttached(h, a, first_size) ==
    LET detached == h
        whole == detached.fc[a]
        back == a + FrontSize + first_size
        b == back + BackSize
        first == [whole EXCEPT !.data_size = first_size, !.last = FALSE]
        second == [whole EXCEPT !.data_size = @ - first_size - BackSize - FrontSize,
                                !.first = FALSE]
        split == [detached EXCEPT
            !.fc = [x \in DOMAIN @ \cup {b} |->
                      IF x = a THEN first ELSE IF x = b THEN second ELSE @[x]],
            !.bc = [x \in DOMAIN @ \cup {back} |->
                      IF x = back THEN a ELSE IF x = GetBackControl(h, a) THEN b ELSE @[x]]]
    IN  IF h.fc[a].data_size > first_size + BackSize + FrontSize
        THEN Attach(Attach(split, a), b) ELSE h

SplitBlock(h, a, first_size) ==
    LET detached == Detach(h, a)
        whole == detached.fc[a]
        back == a + FrontSize + first_size
        b == back + BackSize
        first == [whole EXCEPT !.data_size = first_size, !.last = FALSE]
        second == [whole EXCEPT !.data_size = @ - first_size - BackSize - FrontSize,
                                !.first = FALSE]
        split == [detached EXCEPT
            !.fc = [x \in DOMAIN @ \cup {b} |->
                      IF x = a THEN first ELSE IF x = b THEN second ELSE @[x]],
            !.bc = [x \in DOMAIN @ \cup {back} |->
                      IF x = back THEN a ELSE IF x = GetBackControl(h, a) THEN b ELSE @[x]]]
    IN  IF h.fc[a].data_size > first_size + BackSize + FrontSize
        THEN Attach(Attach(split, a), b) ELSE h

\* A new arena is one block.
AddArena(h, base, layer) ==
    LET block == [data_size |-> ArenaData, local_prev |-> NULL, local_next |-> NULL,
                  first |-> TRUE, last |-> TRUE, owned |-> TRUE, source_layer |-> layer]
        back == base + MemAllocatedAtOnce - BackSize
    IN  Attach([h EXCEPT
            !.fc = [x \in DOMAIN @ \cup {base} |-> IF x = base THEN block ELSE @[x]],
            !.bc = [x \in DOMAIN @ \cup {back} |-> IF x = back THEN base ELSE @[x]]], base)

SetOwned(h, a, owned) == [h EXCEPT !.fc[a].owned = owned]

\* Mutant: the block is still marked as the allocator's.
TakeHeadOwned(h, layer, size) ==
    LET a == h.layers[layer] IN Detach(SplitBlock(h, a, size), a)

\* Take the head of a layer and cut what is not needed off it.
TakeHead(h, layer, size) ==
    LET a == h.layers[layer]
    IN  Detach(SetOwned(SplitBlock(h, a, size), a, FALSE), a)

\* Mutant: the start of the block is aligned instead of its data.
ShiftOfBlock(a, r) ==
    LET shift == (-a) % r.alignment
    IN  IF shift + r.struct_size <= SizeWithAlignment(r) THEN shift ELSE 0

\* std::align in the data of block a: it moves nothing if there is no room.
Shift(a, r) ==
    LET shift == (-(a + FrontSize)) % r.alignment
    IN  IF shift + r.struct_size <= SizeWithAlignment(r) THEN shift ELSE 0

\* Join a block that has come back with the previous and the following one.
JoinPrevious(h, a) ==
    LET previous == h.bc[a - BackSize]
    IN  IF ~h.fc[a].first /\ h.fc[previous].owned
        THEN [heap |-> Join(h, previous, a), block |-> previous]
        ELSE [heap |-> h, block |-> a]

\* Mutant: a block is joined with the previous one only.
JoinFollowingNever(h, a) == h

JoinFollowing(h, a) ==
    IF ~h.fc[a].last /\ h.fc[Following(h, a)].owned THEN Join(h, a, Following(h, a)) ELSE h

----------------------------------------------------------------------------
SetHeap(h) == layers' = h.layers /\ fc' = h.fc /\ bc' = h.bc /\ damaged' = h.damaged

Give(a, r) == given' = given \cup {[pointer |-> a + FrontSize + Shift(a, r), size |-> r.size,
                                    alignment |-> r.alignment, shift |-> Shift(a, r)]}

Allocate(r) ==
    LET size == SizeWithAlignment(r)
        layer == GetUpperLog2(size)
    IN  /\ ~damaged
        /\ \/ /\ layers[layer] # NULL /\ UNCHANGED arenas
              /\ SetHeap(TakeHead(heap, layer, size)) /\ Give(layers[layer], r)
           \/ /\ layers[layer] = NULL
              /\ \E base \in ArenaBases \ arenas :
                   /\ arenas' = arenas \cup {base}
                   /\ SetHeap(TakeHead(AddArena(heap, base, layer), layer, size))
                   /\ Give(base, r)
           \/ /\ layers[layer] = NULL /\ arenas = ArenaBases  \* std::bad_alloc
              /\ UNCHANGED vars

Deallocate(g) ==
    LET a == g.pointer - g.shift - FrontSize
        joined == JoinPrevious(SetOwned(Attach(heap, a), a, TRUE), a)
    IN  /\ ~damaged
        /\ SetHeap(JoinFollowing(joined.heap, joined.block))
        /\ given' = given \ {g} /\ UNCHANGED arenas

\* Nothing can be said of the program after it has written other memory.
Undefined == damaged /\ UNCHANGED vars

Next == (\E r \in Requests : Allocate(r)) \/ (\E g \in given : Deallocate(g)) \/ Undefined

Spec == Init /\ [][Next]_vars

----------------------------------------------------------------------------
(* Properties *)

Addresses == UNION {base .. base + MemAllocatedAtOnce - 1 : base \in arenas}

\* The shape of the state; an arena's first FrontControl never goes away.
TypeOK ==
    /\ layers \in [Layers -> DOMAIN fc \cup {NULL}]
    /\ arenas \subseteq DOMAIN fc /\ DOMAIN fc \subseteq Addresses
    /\ \A a \in DOMAIN fc : fc[a] \in
         [data_size : Nat, local_prev : Addresses \cup {NULL},
          local_next : DOMAIN fc \cup {NULL}, source_layer : Layers,
          first : BOOLEAN, last : BOOLEAN, owned : BOOLEAN]
    /\ DOMAIN bc \subseteq Addresses /\ \A b \in DOMAIN bc : bc[b] \in DOMAIN fc
    /\ damaged \in BOOLEAN

\* From the start of an arena to its end, block follows on block, and the control
\* words by which Deallocate finds the neighbours say where they are.
BlocksTile ==
    /\ DOMAIN bc = {GetBackControl(heap, a) : a \in DOMAIN fc}
    /\ \A a \in DOMAIN fc :
         /\ bc[GetBackControl(heap, a)] = a
         /\ fc[a].first <=> a \in arenas
         /\ fc[a].last <=> Following(heap, a) - MemAllocatedAtOnce \in arenas
         /\ ~fc[a].last => Following(heap, a) \in DOMAIN fc

FrontOf(g) == g.pointer - g.shift - FrontSize

\* A consumer's memory is the data of a block that is not the allocator's, and of a
\* different one for each consumer.
ConsumersApart ==
    /\ \A g \in given : /\ FrontOf(g) \in DOMAIN fc
                        /\ g.pointer + g.size <= GetBackControl(heap, FrontOf(g))
    /\ \A g, h \in given : g # h => FrontOf(g) # FrontOf(h)
    /\ {FrontOf(g) : g \in given} = {a \in DOMAIN fc : ~fc[a].owned}

\* Blocks that were returned one after another in memory have been joined: two
\* neighbours are never both free.
Coalesced == \A a \in DOMAIN fc :
    ~fc[a].last /\ fc[a].owned => ~fc[Following(heap, a)].owned

\* Whatever a layer's list starts with is free and large enough for all requests
\* that are served from that layer.
HeadsServe == \A l \in Layers : layers[l] # NULL =>
    /\ fc[layers[l]].owned
    /\ \A r \in Requests : GetUpperLog2(SizeWithAlignment(r)) = l =>
         SizeWithAlignment(r) <= fc[layers[l]].data_size

\* What a consumer sees: memory that is aligned and that no other consumer has.
Consumers == INSTANCE Heap
ImplementsHeap == Consumers!Spec

\* The allocator does not write into memory it has given away, nor over a control word
\* that is not the one it means: the links it follows are up to date.
DataUntouched == ~damaged
=============================================================================
