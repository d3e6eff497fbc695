-------------------------- MODULE AllocatorProofs --------------------------
(***************************************************************************)
(* Theorems about Allocator, for any size and number of arenas and any     *)
(* requests: blocks tile the arenas, consumers have blocks of their own,   *)
(* free neighbours are joined, and the allocator implements Heap.          *)
(***************************************************************************)
EXTENDS Allocator, WellOrder

(* The inductive invariant, of a heap h and the arenas in bases *)

\* A next block is never set: Attach clears it, and Detach copies it.
Fronts == [data_size : Nat, local_prev : Nat \cup {NULL}, local_next : {NULL},
           first : BOOLEAN, last : BOOLEAN, owned : BOOLEAN, source_layer : Layers]

IsHeap(h) ==
    /\ h = [layers |-> h.layers, fc |-> h.fc, bc |-> h.bc, damaged |-> h.damaged]
    /\ h.layers \in [Layers -> Nat \cup {NULL}]
    /\ DOMAIN h.fc \subseteq Nat /\ h.fc \in [DOMAIN h.fc -> Fronts]
    /\ DOMAIN h.bc \subseteq Nat /\ h.bc \in [DOMAIN h.bc -> Nat]

\* Whatever a layer starts with is a block that belongs there.
Heads(h) == \A l \in Layers : h.layers[l] # NULL =>
    h.layers[l] \in DOMAIN h.fc /\ LayerOf(h.fc[h.layers[l]]) = l

HeadsAreFree(h) == \A l \in Layers : h.layers[l] # NULL => h.fc[h.layers[l]].owned

Backs(h) ==
    /\ DOMAIN h.bc = {GetBackControl(h, a) : a \in DOMAIN h.fc}
    /\ \A a \in DOMAIN h.fc : h.bc[GetBackControl(h, a)] = a

Edges(h, bases) ==
    /\ bases \subseteq DOMAIN h.fc
    /\ \A a \in DOMAIN h.fc :
         /\ h.fc[a].first <=> a \in bases
         /\ h.fc[a].last <=> Following(h, a) - MemAllocatedAtOnce \in bases
         /\ ~h.fc[a].last => Following(h, a) \in DOMAIN h.fc
         /\ ~h.fc[a].first => a - BackSize \in DOMAIN h.bc

\* Blocks do not overlap and lie in arenas.
Places(h, bases) ==
    /\ \A a, b \in DOMAIN h.fc : a < b => Following(h, a) <= b
    /\ \A a \in DOMAIN h.fc :
         /\ \E base \in bases : base <= a /\ Following(h, a) <= base + MemAllocatedAtOnce
         /\ a % 8 = 0 /\ h.fc[a].data_size % 8 = 0

Tiling(h, bases) == Backs(h) /\ Edges(h, bases) /\ Places(h, bases)

Joined(h) == \A a \in DOMAIN h.fc :
    ~h.fc[a].last /\ h.fc[a].owned => ~h.fc[Following(h, a)].owned

\* What consumers have is the data of blocks that are not the allocator's.
Gifts(h, gifts) ==
    /\ \A g \in gifts :
         /\ g = [pointer |-> g.pointer, size |-> g.size, alignment |-> g.alignment,
                 shift |-> g.shift]
         /\ g.pointer \in Nat /\ g.size \in Nat /\ g.shift \in Nat
         /\ FrontOf(g) \in DOMAIN h.fc /\ g.pointer + g.size <= GetBackControl(h, FrontOf(g))
    /\ \A f, g \in gifts : f # g => FrontOf(f) # FrontOf(g)
    /\ {FrontOf(g) : g \in gifts} = {a \in DOMAIN h.fc : ~h.fc[a].owned}

InOrder(h, bases) ==
    IsHeap(h) /\ Heads(h) /\ HeadsAreFree(h) /\ Tiling(h, bases) /\ Joined(h)

IInv == arenas \subseteq ArenaBases /\ InOrder(heap, arenas) /\ Gifts(heap, given)

----------------------------------------------------------------------------
(* Numbers *)

IsPowerOfTwo(f, n) == f = [k \in 0 .. n |-> IF k = 0 THEN 1 ELSE 2 * f[k - 1]]

LEMMA PowersExist == \E f : IsPowerOfTwo(f, MaxMemLayers)
<1>. DEFINE without == {n \in Nat : ~ \E f : IsPowerOfTwo(f, n)}
<1>1. SUFFICES ASSUME without # {} PROVE FALSE
  BY ArenasAssumption
<1>2. PICK n \in without : \A m \in without : n <= m
  <2>1. without \in SUBSET Nat
    OBVIOUS
  <2>. HIDE DEF without
  <2>. QED  BY <1>1, <2>1, LeastNatural
<1>3. n \in Nat /\ ~ \E f : IsPowerOfTwo(f, n)
  BY <1>2
<1>4. CASE n = 0
  <2>. DEFINE f == [k \in 0 .. 0 |-> 1]
  <2>1. IsPowerOfTwo(f, 0)
    BY DEF IsPowerOfTwo
  <2>. QED  BY <1>3, <1>4, <2>1
<1>5. CASE n # 0
  <2>1. n - 1 \in Nat /\ n - 1 \notin without
    <3>1. n - 1 \in Nat /\ ~(n <= n - 1)
      BY <1>3, <1>5
    <3>. HIDE DEF without
    <3>. QED  BY <1>2, <3>1
  <2>2. PICK g : IsPowerOfTwo(g, n - 1)
    BY <2>1
  <2>. DEFINE f == [k \in 0 .. n |-> IF k = n THEN 2 * g[n - 1] ELSE g[k]]
  <2>3. ASSUME NEW k \in 0 .. n PROVE f[k] = IF k = 0 THEN 1 ELSE 2 * f[k - 1]
    <3>1. CASE k = n
      BY <1>3, <1>5, <3>1
    <3>2. CASE k # n
      <4>1. k \in 0 .. n - 1 /\ (k # 0 => k - 1 \in 0 .. n - 1 /\ k - 1 # n)
        BY <1>3, <3>2
      <4>2. g[k] = IF k = 0 THEN 1 ELSE 2 * g[k - 1]
        BY <2>2, <4>1 DEF IsPowerOfTwo
      <4>3. k # 0 => f[k - 1] = g[k - 1]
        BY <1>3, <4>1
      <4>. QED  BY <3>2, <4>2, <4>3
    <3>. QED  BY <3>1, <3>2
  <2>4. f = [k \in 0 .. n |-> f[k]]
    OBVIOUS
  <2>5. IsPowerOfTwo(f, n)
    <3>. HIDE DEF f
    <3>. QED  BY <2>3, <2>4 DEF IsPowerOfTwo
  <2>. QED  BY <1>3, <2>5
<1>. QED  BY <1>4, <1>5

LEMMA PowersAreNatural == PowerOfTwo[0] = 1 /\ \A k \in 0 .. MaxMemLayers : PowerOfTwo[k] \in Nat
<1>1. IsPowerOfTwo(PowerOfTwo, MaxMemLayers)
  <2>. DEFINE Is(f) == f = [k \in 0 .. MaxMemLayers |-> IF k = 0 THEN 1 ELSE 2 * f[k - 1]]
  <2>1. \E f : Is(f)
    BY PowersExist DEF IsPowerOfTwo
  <2>2. PowerOfTwo = CHOOSE f : Is(f)
    BY DEF PowerOfTwo
  <2>3. Is(PowerOfTwo)
    <3>. HIDE DEF Is
    <3>. QED  BY <2>1, <2>2
  <2>. QED  BY <2>3 DEF IsPowerOfTwo
<1>2. \A k \in 0 .. MaxMemLayers : PowerOfTwo[k] = IF k = 0 THEN 1 ELSE 2 * PowerOfTwo[k - 1]
  BY <1>1 DEF IsPowerOfTwo
<1>3. PowerOfTwo[0] = 1
  BY <1>2, ArenasAssumption
<1>. DEFINE without == {n \in Nat : n <= MaxMemLayers /\ PowerOfTwo[n] \notin Nat}
<1>4. SUFFICES ASSUME without # {} PROVE FALSE
  BY <1>3, ArenasAssumption
<1>5. PICK n \in without : \A m \in without : n <= m
  <2>1. without \in SUBSET Nat
    OBVIOUS
  <2>. HIDE DEF without
  <2>. QED  BY <1>4, <2>1, LeastNatural
<1>6. n \in 0 .. MaxMemLayers /\ n # 0 /\ PowerOfTwo[n] \notin Nat
  BY <1>3, <1>5, ArenasAssumption
<1>7. n - 1 \in Nat /\ n - 1 <= MaxMemLayers /\ n - 1 \notin without
  <2>1. n - 1 \in Nat /\ n - 1 <= MaxMemLayers /\ ~(n <= n - 1)
    BY <1>6, ArenasAssumption
  <2>. HIDE DEF without
  <2>. QED  BY <1>5, <2>1
<1>. QED  BY <1>2, <1>6, <1>7

LEMMA LogsAreNatural == \A n : GetLowerLog2(n) \in Nat /\ GetUpperLog2(n) \in Nat
<1>1. IsFiniteSet(0 .. MaxMemLayers) /\ IsFiniteSet(1 .. MaxMemLayers)
  BY ArenasAssumption, FS_Interval
<1>. TAKE n
<1>2. /\ IsFiniteSet({k \in 1 .. MaxMemLayers : PowerOfTwo[k] <= n})
      /\ IsFiniteSet({k \in 0 .. MaxMemLayers : PowerOfTwo[k] < n})
  BY <1>1, FS_Subset
<1>. QED  BY <1>2, FS_CardinalityType DEF GetLowerLog2, GetUpperLog2

\* A block of a layer serves whatever needs the layer.
LEMMA LayersServe ==
    ASSUME NEW size \in Nat, size % 8 = 0, NEW space \in Nat,
           GetUpperLog2(size) <= GetLowerLog2(space)
    PROVE  size <= space
<1>. DEFINE upper == {k \in 0 .. MaxMemLayers : PowerOfTwo[k] < size}
            lower == {k \in 1 .. MaxMemLayers : PowerOfTwo[k] <= space}
<1>1. SUFFICES ASSUME space < size PROVE FALSE
  OBVIOUS
<1>2. size > 1
  BY <1>1
<1>3. IsFiniteSet(upper) /\ IsFiniteSet(lower) /\ 0 \notin lower
  <2>1. IsFiniteSet(0 .. MaxMemLayers) /\ IsFiniteSet(1 .. MaxMemLayers)
    BY ArenasAssumption, FS_Interval
  <2>2. upper \subseteq 0 .. MaxMemLayers /\ lower \subseteq 1 .. MaxMemLayers
    OBVIOUS
  <2>3. 0 \notin lower
    OBVIOUS
  <2>. HIDE DEF upper, lower
  <2>. QED  BY <2>1, <2>2, <2>3, FS_Subset
<1>4. lower \cup {0} \subseteq upper
  BY <1>1, <1>2, PowersAreNatural, ArenasAssumption
<1>. HIDE DEF upper, lower
<1>5. Cardinality(lower \cup {0}) = Cardinality(lower) + 1 /\ Cardinality(lower) \in Nat
  BY <1>3, FS_AddElement, FS_CardinalityType
<1>6. Cardinality(lower \cup {0}) <= Cardinality(upper) /\ Cardinality(upper) \in Nat
  BY <1>3, <1>4, FS_Subset, FS_CardinalityType
<1>7. Cardinality(upper) <= Cardinality(lower)
  BY DEF GetUpperLog2, GetLowerLog2, upper, lower
<1>. QED  BY <1>5, <1>6, <1>7

LEMMA LayersAreLayers == \A front \in Fronts : LayerOf(front) \in Layers
<1>. TAKE front \in Fronts
<1>1. front.source_layer \in Layers /\ GetLowerLog2(front.data_size) \in Nat
  BY LogsAreNatural DEF Fronts
<1>. QED  BY <1>1, ArenasAssumption DEF LayerOf, Smaller, Layers

LEMMA RequestFacts ==
    ASSUME NEW r \in Requests
    PROVE  /\ SizeWithAlignment(r) \in Nat /\ SizeWithAlignment(r) % 8 = 0
           /\ GetUpperLog2(SizeWithAlignment(r)) \in Layers
           /\ GetUpperLog2(SizeWithAlignment(r)) <= GetLowerLog2(ArenaData)
           /\ SizeWithAlignment(r) <= ArenaData
<1>1. r.size \in Nat /\ r.alignment \in {1, 2, 4, 8, 16, 32, 64, 128}
  BY RequestsAssumption
<1>2. SizeWithAlignment(r) \in Nat /\ SizeWithAlignment(r) % 8 = 0
  BY <1>1 DEF SizeWithAlignment
<1>3. /\ GetUpperLog2(SizeWithAlignment(r)) <= GetLowerLog2(ArenaData)
      /\ GetLowerLog2(ArenaData) < MaxMemLayers
  BY RequestsAssumption
<1>4. GetUpperLog2(SizeWithAlignment(r)) \in Nat /\ GetLowerLog2(ArenaData) \in Nat
  BY LogsAreNatural
<1>5. GetUpperLog2(SizeWithAlignment(r)) \in Layers
  BY <1>3, <1>4, ArenasAssumption DEF Layers
<1>6. ArenaData \in Nat
  BY ArenasAssumption DEF ArenaData, FrontSize, BackSize
<1>. QED  BY <1>2, <1>3, <1>5, <1>6, LayersServe

----------------------------------------------------------------------------
(* Lists change links only *)

SameBlock(f, g) ==
    /\ f.data_size = g.data_size /\ f.source_layer = g.source_layer
    /\ f.first = g.first /\ f.last = g.last /\ f.owned = g.owned

SameBlocks(h, k) ==
    /\ DOMAIN k.fc = DOMAIN h.fc /\ k.bc = h.bc
    /\ \A a \in DOMAIN h.fc : SameBlock(h.fc[a], k.fc[a])

\* The heap k is h with other links.
Relinked(h, k) == IsHeap(k) /\ SameBlocks(h, k)

LEMMA RelinkedTwice ==
    ASSUME NEW h, NEW k, NEW i, Relinked(h, k), Relinked(k, i) PROVE Relinked(h, i)
  BY DEF Relinked, SameBlocks, SameBlock

LEMMA SetLinkRelinks ==
    ASSUME NEW h, IsHeap(h), NEW a \in Nat \cup {NULL}, NEW to \in Nat \cup {NULL}
    PROVE  /\ Relinked(h, SetLink(h, a, "local_prev", to))
           /\ SetLink(h, a, "local_prev", to).layers = h.layers
           /\ Relinked(h, SetLink(h, a, "local_next", NULL))
           /\ SetLink(h, a, "local_next", NULL).layers = h.layers
<1>1. CASE a = NULL
  BY <1>1 DEF SetLink, Relinked, SameBlocks, SameBlock
<1>2. CASE a # NULL /\ a \in DOMAIN h.fc
  <2>1. SetLink(h, a, "local_prev", to) = [h EXCEPT !.fc[a].local_prev = to]
    BY <1>2 DEF SetLink
  <2>2. SetLink(h, a, "local_next", NULL) = [h EXCEPT !.fc[a].local_next = NULL]
    BY <1>2 DEF SetLink
  <2>3. h.fc[a] \in Fronts
    BY <1>2 DEF IsHeap
  <2>4. [h.fc[a] EXCEPT !.local_prev = to] \in Fronts
    BY <2>3 DEF Fronts
  <2>5. [h.fc[a] EXCEPT !.local_next = NULL] \in Fronts
    BY <2>3 DEF Fronts
  <2>6. ASSUME NEW front \in Fronts, SameBlock(h.fc[a], front), NEW k,
               k = [h EXCEPT !.fc[a] = front]
        PROVE  Relinked(h, k) /\ k.layers = h.layers
    <3>1. /\ k.layers = h.layers /\ k.bc = h.bc /\ k.damaged = h.damaged
          /\ k.fc = [h.fc EXCEPT ![a] = front]
          /\ k = [layers |-> k.layers, fc |-> k.fc, bc |-> k.bc, damaged |-> k.damaged]
      BY <2>6 DEF IsHeap
    <3>. HIDE <2>6
    <3>2. DOMAIN k.fc = DOMAIN h.fc /\ k.fc \in [DOMAIN h.fc -> Fronts]
      BY <2>6, <3>1 DEF IsHeap
    <3>3. IsHeap(k)
      BY <3>1, <3>2 DEF IsHeap
    <3>4. \A x \in DOMAIN h.fc : SameBlock(h.fc[x], k.fc[x])
      BY <2>6, <3>1 DEF SameBlock
    <3>. QED  BY <3>1, <3>2, <3>3, <3>4 DEF Relinked, SameBlocks
  <2>7. SameBlock(h.fc[a], [h.fc[a] EXCEPT !.local_prev = to])
    BY <2>3 DEF Fronts, SameBlock
  <2>8. SameBlock(h.fc[a], [h.fc[a] EXCEPT !.local_next = NULL])
    BY <2>3 DEF Fronts, SameBlock
  <2>9. /\ Relinked(h, SetLink(h, a, "local_prev", to))
        /\ SetLink(h, a, "local_prev", to).layers = h.layers
    BY <2>1, <2>4, <2>6, <2>7
  <2>10. /\ Relinked(h, SetLink(h, a, "local_next", NULL))
         /\ SetLink(h, a, "local_next", NULL).layers = h.layers
    BY <2>2, <2>5, <2>6, <2>8
  <2>. QED  BY <2>9, <2>10
<1>3. CASE a # NULL /\ a \notin DOMAIN h.fc
  <2>1. ASSUME NEW flag, NEW k, k = [h EXCEPT !.damaged = flag]
        PROVE  Relinked(h, k) /\ k.layers = h.layers
    <3>1. /\ k.layers = h.layers /\ k.bc = h.bc /\ k.fc = h.fc
          /\ k = [layers |-> k.layers, fc |-> k.fc, bc |-> k.bc, damaged |-> k.damaged]
      BY <2>1 DEF IsHeap
    <3>2. IsHeap(k)
      BY <3>1 DEF IsHeap
    <3>. QED  BY <3>1, <3>2 DEF Relinked, SameBlocks, SameBlock
  <2>2. /\ SetLink(h, a, "local_prev", to)
             = [h EXCEPT !.damaged = h.damaged \/ ~IsFree(h, a, "local_prev")]
        /\ SetLink(h, a, "local_next", NULL)
             = [h EXCEPT !.damaged = h.damaged \/ ~IsFree(h, a, "local_next")]
    BY <1>3 DEF SetLink
  <2>. QED  BY <2>1, <2>2
<1>. QED  BY <1>1, <1>2, <1>3

LEMMA ClearLinksRelinks ==
    ASSUME NEW h, IsHeap(h), NEW a \in Nat
    PROVE  Relinked(h, ClearLinks(h, a)) /\ ClearLinks(h, a).layers = h.layers
<1>. DEFINE k == SetLink(h, a, "local_next", NULL)
<1>1. Relinked(h, k) /\ k.layers = h.layers
  BY SetLinkRelinks
<1>. HIDE DEF k
<1>2. /\ Relinked(k, SetLink(k, a, "local_prev", NULL))
      /\ SetLink(k, a, "local_prev", NULL).layers = k.layers
  BY <1>1, SetLinkRelinks DEF Relinked
<1>. QED  BY <1>1, <1>2, RelinkedTwice DEF ClearLinks, k

LEMMA SetLayerRelinks ==
    ASSUME NEW h, IsHeap(h), NEW layer \in Layers, NEW a \in Nat \cup {NULL}
    PROVE  /\ Relinked(h, [h EXCEPT !.layers[layer] = a])
           /\ [h EXCEPT !.layers[layer] = a].layers = [h.layers EXCEPT ![layer] = a]
<1>. DEFINE k == [h EXCEPT !.layers[layer] = a]
<1>1. /\ k.layers = [h.layers EXCEPT ![layer] = a] /\ k.bc = h.bc /\ k.fc = h.fc
      /\ k = [layers |-> k.layers, fc |-> k.fc, bc |-> k.bc, damaged |-> k.damaged]
  BY DEF IsHeap
<1>. HIDE DEF k
<1>2. IsHeap(k)
  BY <1>1 DEF IsHeap
<1>. QED  BY <1>1, <1>2 DEF Relinked, SameBlocks, SameBlock, k

LEMMA AttachRelinks ==
    ASSUME NEW h, IsHeap(h), NEW a \in DOMAIN h.fc
    PROVE  /\ Relinked(h, Attach(h, a))
           /\ Attach(h, a).layers = [h.layers EXCEPT ![LayerOf(h.fc[a])] = a]
<1>. DEFINE layer == LayerOf(h.fc[a])
            cleared == ClearLinks(h, a)
            linked == SetLink(cleared, h.layers[layer], "local_prev", a)
<1>1. a \in Nat /\ layer \in Layers /\ h.layers[layer] \in Nat \cup {NULL}
  BY LayersAreLayers DEF IsHeap
<1>2. Relinked(h, cleared) /\ cleared.layers = h.layers
  BY <1>1, ClearLinksRelinks
<1>. HIDE DEF layer, cleared
<1>3. Relinked(cleared, linked) /\ linked.layers = cleared.layers
  BY <1>1, <1>2, SetLinkRelinks DEF Relinked
<1>4. Attach(h, a) = [linked EXCEPT !.layers[layer] = a]
  BY DEF Attach, layer, cleared
<1>. HIDE DEF linked
<1>5. /\ Relinked(linked, Attach(h, a))
      /\ Attach(h, a).layers = [linked.layers EXCEPT ![layer] = a]
  BY <1>1, <1>3, <1>4, SetLayerRelinks DEF Relinked
<1>. QED  BY <1>2, <1>3, <1>5, RelinkedTwice DEF layer

LEMMA DetachRelinks ==
    ASSUME NEW h, IsHeap(h), NEW a \in DOMAIN h.fc
    PROVE  /\ Relinked(h, Detach(h, a))
           /\ Detach(h, a).layers =
                [h.layers EXCEPT ![LayerOf(h.fc[a])] = IF @ = a THEN NULL ELSE @]
<1>. DEFINE layer == LayerOf(h.fc[a])
            prev == h.fc[a].local_prev
            first == SetLink(h, prev, "local_next", NULL)
            unlinked == SetLink(first, NULL, "local_prev", prev)
            head == IF unlinked.layers[layer] = a THEN NULL ELSE unlinked.layers[layer]
            behead == [unlinked EXCEPT !.layers[layer] = head]
<1>1. /\ a \in Nat /\ layer \in Layers /\ h.layers[layer] \in Nat \cup {NULL}
      /\ prev \in Nat \cup {NULL} /\ h.fc[a].local_next = NULL
  BY LayersAreLayers DEF IsHeap, Fronts
<1>2. Detach(h, a) = ClearLinks(behead, a)
  BY <1>1 DEF Detach
<1>. HIDE DEF layer, prev
<1>3. Relinked(h, first) /\ first.layers = h.layers
  BY <1>1, SetLinkRelinks
<1>. HIDE DEF first
<1>4. Relinked(first, unlinked) /\ unlinked.layers = first.layers
  <2>1. IsHeap(first) /\ NULL \in Nat \cup {NULL}
    BY <1>3 DEF Relinked
  <2>. QED  BY <1>1, <2>1, SetLinkRelinks
<1>. HIDE DEF unlinked
<1>5. Relinked(unlinked, behead) /\ behead.layers = [unlinked.layers EXCEPT ![layer] = head]
  <2>1. head \in Nat \cup {NULL}
    BY <1>1, <1>3, <1>4
  <2>. HIDE DEF head
  <2>. QED  BY <1>1, <1>4, <2>1, SetLayerRelinks DEF Relinked
<1>6. behead.layers = [h.layers EXCEPT ![layer] = IF @ = a THEN NULL ELSE @]
  BY <1>3, <1>4, <1>5
<1>. HIDE DEF behead
<1>7. Relinked(behead, Detach(h, a)) /\ Detach(h, a).layers = behead.layers
  <2>1. IsHeap(behead)
    BY ONLY <1>5 DEF Relinked
  <2>. QED  BY ONLY <1>1, <1>2, <2>1, ClearLinksRelinks
<1>. QED  BY <1>3, <1>4, <1>5, <1>6, <1>7, RelinkedTwice DEF layer

LEMMA RelinkedPlaces ==
    ASSUME NEW h, NEW k, Relinked(h, k), NEW a \in DOMAIN h.fc
    PROVE  /\ a \in DOMAIN k.fc /\ SameBlock(h.fc[a], k.fc[a])
           /\ GetBackControl(k, a) = GetBackControl(h, a) /\ Following(k, a) = Following(h, a)
           /\ LayerOf(k.fc[a]) = LayerOf(h.fc[a])
  BY DEF Relinked, SameBlocks, SameBlock, GetBackControl, Following, LayerOf

\* The heap k has the blocks of h; some may be given away or have come back.
SameTiles(h, k) ==
    /\ DOMAIN k.fc = DOMAIN h.fc /\ k.bc = h.bc
    /\ \A a \in DOMAIN h.fc : /\ k.fc[a].data_size = h.fc[a].data_size
                              /\ k.fc[a].first = h.fc[a].first /\ k.fc[a].last = h.fc[a].last

LEMMA RelinkedTiles == ASSUME NEW h, NEW k, Relinked(h, k) PROVE SameTiles(h, k)
  BY DEF Relinked, SameBlocks, SameBlock, SameTiles

LEMMA SameTilesTile ==
    ASSUME NEW h, NEW k, SameTiles(h, k), NEW bases, Tiling(h, bases) PROVE Tiling(k, bases)
<1>1. DOMAIN k.fc = DOMAIN h.fc /\ k.bc = h.bc
  BY DEF SameTiles
<1>2. \A a \in DOMAIN h.fc : /\ GetBackControl(k, a) = GetBackControl(h, a)
                            /\ Following(k, a) = Following(h, a)
  BY DEF SameTiles, GetBackControl, Following
<1>3. Backs(k)
  BY <1>1, <1>2 DEF Tiling, Backs
<1>4. Edges(k, bases)
  BY <1>1, <1>2 DEF Tiling, Edges, SameTiles
<1>5. Places(k, bases)
  BY <1>1, <1>2 DEF Tiling, Places, SameTiles
<1>. QED  BY <1>3, <1>4, <1>5 DEF Tiling

LEMMA AttachKeepsHeads ==
    ASSUME NEW h, IsHeap(h), Heads(h), NEW a \in DOMAIN h.fc
    PROVE  /\ Heads(Attach(h, a))
           /\ \A l \in Layers : Attach(h, a).layers[l] \in {a, h.layers[l]}
<1>. DEFINE k == Attach(h, a)
<1>1. Relinked(h, k) /\ k.layers = [h.layers EXCEPT ![LayerOf(h.fc[a])] = a]
  BY AttachRelinks
<1>. HIDE DEF k
<1>2. \A l \in Layers : IF l = LayerOf(h.fc[a]) THEN k.layers[l] = a ELSE k.layers[l] = h.layers[l]
  BY <1>1 DEF IsHeap
<1>3. \A x \in DOMAIN h.fc : x \in DOMAIN k.fc /\ LayerOf(k.fc[x]) = LayerOf(h.fc[x])
  BY <1>1, RelinkedPlaces
<1>. QED  BY <1>2, <1>3 DEF Heads, k

LEMMA DetachKeepsHeads ==
    ASSUME NEW h, IsHeap(h), Heads(h), NEW a \in DOMAIN h.fc
    PROVE  /\ Heads(Detach(h, a))
           /\ \A l \in Layers : /\ Detach(h, a).layers[l] \in {NULL, h.layers[l]}
                                /\ Detach(h, a).layers[l] # a
<1>. DEFINE k == Detach(h, a)
<1>0. a # NULL
  BY ArenasAssumption DEF IsHeap
<1>1. /\ Relinked(h, k)
      /\ k.layers = [h.layers EXCEPT ![LayerOf(h.fc[a])] = IF @ = a THEN NULL ELSE @]
  BY DetachRelinks
<1>. HIDE DEF k
<1>2. \A l \in Layers : IF l = LayerOf(h.fc[a]) /\ h.layers[l] = a THEN k.layers[l] = NULL
                        ELSE k.layers[l] = h.layers[l]
  BY <1>1 DEF IsHeap
<1>3. \A x \in DOMAIN h.fc : x \in DOMAIN k.fc /\ LayerOf(k.fc[x]) = LayerOf(h.fc[x])
  BY <1>1, RelinkedPlaces
<1>4. Heads(k)
  BY <1>2, <1>3 DEF Heads
<1>5. \A l \in Layers : h.layers[l] = a => l = LayerOf(h.fc[a])
  BY <1>0 DEF Heads
<1>. QED  BY <1>0, <1>2, <1>4, <1>5 DEF k

----------------------------------------------------------------------------
(* Joining two blocks *)

\* In k, the block b has become part of the block a.
JoinedBlocks(h, k, a, b) ==
    /\ DOMAIN k.fc = DOMAIN h.fc \ {b}
    /\ \A x \in DOMAIN h.fc \ {a, b} : SameBlock(h.fc[x], k.fc[x])
    /\ k.fc[a].data_size = h.fc[a].data_size + BackSize + FrontSize + h.fc[b].data_size
    /\ k.fc[a].first = (h.fc[a].first \/ h.fc[b].first)
    /\ k.fc[a].last = (h.fc[a].last \/ h.fc[b].last)
    /\ k.fc[a].owned = (h.fc[a].owned \/ h.fc[b].owned)
    /\ k.bc = [x \in DOMAIN h.bc \ {GetBackControl(h, a)} |->
                IF x = GetBackControl(h, b) THEN a ELSE h.bc[x]]

WithBlocks(h, fronts, backs) == [h EXCEPT !.fc = fronts, !.bc = backs]

LEMMA BlocksSet ==
    ASSUME NEW h, IsHeap(h), NEW fronts, NEW backs
    PROVE  LET i == WithBlocks(h, fronts, backs)
           IN  /\ i = [layers |-> i.layers, fc |-> i.fc, bc |-> i.bc, damaged |-> i.damaged]
               /\ i.layers = h.layers /\ i.fc = fronts /\ i.bc = backs
<1>. DEFINE half == [h EXCEPT !.fc = fronts]
            i == WithBlocks(h, fronts, backs)
<1>1. /\ half = [layers |-> half.layers, fc |-> half.fc, bc |-> half.bc,
                 damaged |-> half.damaged]
      /\ half.layers = h.layers /\ half.fc = fronts
  BY DEF IsHeap
<1>2. i = [half EXCEPT !.bc = backs]
  BY DEF WithBlocks
<1>. HIDE DEF half, i
<1>. QED  BY <1>1, <1>2 DEF i

LEMMA JoinJoins ==
    ASSUME NEW h, IsHeap(h), Heads(h), NEW a \in DOMAIN h.fc, NEW b \in DOMAIN h.fc, a # b
    PROVE  /\ IsHeap(Join(h, a, b)) /\ Heads(Join(h, a, b))
           /\ JoinedBlocks(h, Join(h, a, b), a, b)
           /\ \A l \in Layers : /\ Join(h, a, b).layers[l] \in {NULL, a, h.layers[l]}
                                /\ Join(h, a, b).layers[l] # b
<1>. DEFINE once == Detach(h, a)
            d == Detach(once, b)
            first == d.fc[a]
            second == d.fc[b]
            joined == [first EXCEPT
                !.data_size = first.data_size + BackSize + FrontSize + second.data_size,
                !.first = first.first \/ second.first, !.last = first.last \/ second.last,
                !.owned = first.owned \/ second.owned]
            fronts == [x \in DOMAIN d.fc \ {b} |-> IF x = a THEN joined ELSE d.fc[x]]
            backs == [x \in DOMAIN d.bc \ {GetBackControl(d, a)} |->
                        IF x = GetBackControl(d, b) THEN a ELSE d.bc[x]]
            i == WithBlocks(d, fronts, backs)
            k == Attach(i, a)
<1>0. a \in Nat /\ b \in Nat /\ a # NULL /\ b # NULL
  BY ArenasAssumption DEF IsHeap
<1>1. Join(h, a, b) = k
  BY DEF Join, WithBlocks
<1>2. /\ Relinked(h, once) /\ Heads(once)
      /\ \A l \in Layers : once.layers[l] \in {NULL, h.layers[l]} /\ once.layers[l] # a
  BY DetachRelinks, DetachKeepsHeads
<1>3. b \in DOMAIN once.fc /\ IsHeap(once)
  BY <1>2, RelinkedPlaces DEF Relinked
<1>. HIDE DEF once
<1>4. /\ Relinked(once, d) /\ Heads(d)
      /\ \A l \in Layers : d.layers[l] \in {NULL, once.layers[l]} /\ d.layers[l] # b
  BY <1>2, <1>3, DetachRelinks, DetachKeepsHeads
<1>. HIDE DEF d
<1>5. /\ Relinked(h, d)
      /\ \A l \in Layers : d.layers[l] \in {NULL, h.layers[l]} /\ d.layers[l] \notin {a, b}
  BY <1>0, <1>2, <1>4, RelinkedTwice
<1>6. /\ IsHeap(d) /\ DOMAIN d.fc = DOMAIN h.fc /\ d.bc = h.bc
      /\ \A x \in DOMAIN h.fc : /\ SameBlock(h.fc[x], d.fc[x])
                                /\ GetBackControl(d, x) = GetBackControl(h, x)
  BY <1>5, RelinkedPlaces DEF Relinked, SameBlocks
<1>7. joined \in Fronts
  <2>1. first \in Fronts /\ second \in Fronts
    BY <1>6 DEF IsHeap
  <2>. HIDE DEF first, second
  <2>. DEFINE size == first.data_size + BackSize + FrontSize + second.data_size
              sized == [first EXCEPT !.data_size = size]
              firsted == [sized EXCEPT !.first = first.first \/ second.first]
              lasted == [firsted EXCEPT !.last = first.last \/ second.last]
  <2>2. size \in Nat
    BY <2>1 DEF Fronts, BackSize, FrontSize
  <2>3. joined = [lasted EXCEPT !.owned = first.owned \/ second.owned]
    OBVIOUS
  <2>. HIDE DEF size
  <2>4. sized \in Fronts
    BY <2>1, <2>2 DEF Fronts
  <2>. HIDE DEF sized
  <2>5. firsted \in Fronts
    BY <2>1, <2>4 DEF Fronts
  <2>. HIDE DEF firsted
  <2>6. lasted \in Fronts
    BY <2>1, <2>5 DEF Fronts
  <2>. HIDE DEF lasted
  <2>. QED  BY <2>1, <2>3, <2>6 DEF Fronts
<1>8. /\ joined.data_size = h.fc[a].data_size + BackSize + FrontSize + h.fc[b].data_size
      /\ joined.first = (h.fc[a].first \/ h.fc[b].first)
      /\ joined.last = (h.fc[a].last \/ h.fc[b].last)
      /\ joined.owned = (h.fc[a].owned \/ h.fc[b].owned)
  <2>1. first \in Fronts /\ SameBlock(h.fc[a], first) /\ SameBlock(h.fc[b], second)
    BY <1>6 DEF IsHeap
  <2>. HIDE DEF first, second
  <2>. QED  BY <2>1 DEF SameBlock, Fronts
<1>. HIDE DEF joined
<1>9. /\ i = [layers |-> i.layers, fc |-> i.fc, bc |-> i.bc, damaged |-> i.damaged]
      /\ i.layers = d.layers /\ i.fc = fronts /\ i.bc = backs
  <2>1. i = WithBlocks(d, fronts, backs) /\ IsHeap(d)
    BY <1>6
  <2>. HIDE DEF i, fronts, backs
  <2>. QED  BY <2>1, BlocksSet
<1>. HIDE DEF i
<1>10. JoinedBlocks(h, i, a, b)
  <2>1. DOMAIN i.fc = DOMAIN h.fc \ {b} /\ i.fc[a] = joined
    BY <1>6, <1>9
  <2>2. \A x \in DOMAIN h.fc \ {a, b} : SameBlock(h.fc[x], i.fc[x])
    BY <1>6, <1>9
  <2>3. i.bc = [x \in DOMAIN h.bc \ {GetBackControl(h, a)} |->
                  IF x = GetBackControl(h, b) THEN a ELSE h.bc[x]]
    BY <1>6, <1>9
  <2>. QED  BY <1>8, <2>1, <2>2, <2>3 DEF JoinedBlocks
<1>11. IsHeap(i)
  <2>1. DOMAIN i.fc \subseteq Nat /\ i.fc \in [DOMAIN i.fc -> Fronts]
    BY <1>6, <1>7, <1>9 DEF IsHeap
  <2>2. DOMAIN i.bc \subseteq Nat /\ i.bc \in [DOMAIN i.bc -> Nat]
    BY <1>0, <1>6, <1>9 DEF IsHeap
  <2>. QED  BY <1>6, <1>9, <2>1, <2>2 DEF IsHeap
<1>12. Heads(i)
  <2>1. ASSUME NEW l \in Layers, i.layers[l] # NULL
        PROVE  i.layers[l] \in DOMAIN i.fc /\ LayerOf(i.fc[i.layers[l]]) = l
    <3>. DEFINE x == i.layers[l]
    <3>1. x = d.layers[l] /\ x \notin {a, b} /\ x \in DOMAIN d.fc /\ LayerOf(d.fc[x]) = l
      BY <1>4, <1>5, <1>9, <2>1 DEF Heads
    <3>2. x \in DOMAIN i.fc /\ i.fc[x] = d.fc[x]
      BY <1>9, <3>1
    <3>. QED  BY <3>1, <3>2
  <2>. QED  BY <2>1 DEF Heads
<1>13. a \in DOMAIN i.fc
  BY <1>10 DEF JoinedBlocks
<1>14. /\ Relinked(i, k) /\ Heads(k) /\ \A l \in Layers : k.layers[l] \in {a, i.layers[l]}
  BY <1>11, <1>12, <1>13, AttachRelinks, AttachKeepsHeads
<1>15. JoinedBlocks(h, k, a, b)
  BY <1>10, <1>13, <1>14 DEF JoinedBlocks, Relinked, SameBlocks, SameBlock
<1>16. \A l \in Layers : k.layers[l] \in {NULL, a, h.layers[l]} /\ k.layers[l] # b
  BY <1>5, <1>9, <1>14
<1>17. IsHeap(k)
  BY <1>14 DEF Relinked
<1>. HIDE DEF k
<1>. QED  BY <1>1, <1>14, <1>15, <1>16, <1>17

----------------------------------------------------------------------------
(* Blocks tile the arenas *)

LEMMA BlockPlaces ==
    ASSUME NEW h, IsHeap(h), NEW a \in DOMAIN h.fc
    PROVE  /\ a \in Nat /\ a # NULL /\ h.fc[a].data_size \in Nat
           /\ GetBackControl(h, a) = a + 24 + h.fc[a].data_size
           /\ Following(h, a) = a + 32 + h.fc[a].data_size
           /\ GetBackControl(h, a) \in Nat /\ Following(h, a) \in Nat
           /\ Following(h, a) = GetBackControl(h, a) + 8 /\ a < Following(h, a)
<1>1. a \in Nat /\ h.fc[a].data_size \in Nat
  BY DEF IsHeap, Fronts
<1>. QED  BY <1>1, ArenasAssumption DEF GetBackControl, Following, FrontSize, BackSize

LEMMA ArenaPlaces ==
    ASSUME NEW bases, bases \subseteq ArenaBases
    PROVE  /\ MemAllocatedAtOnce \in Nat
           /\ \A x \in bases : x \in Nat
           /\ \A x, y \in bases : x < y => x + MemAllocatedAtOnce <= y
  BY ArenasAssumption

\* A block ends where its arena ends or another block of the arena starts.
LEMMA NoArenaFollows ==
    ASSUME NEW bases, bases \subseteq ArenaBases, NEW h, IsHeap(h), Tiling(h, bases),
           NEW a \in DOMAIN h.fc, Following(h, a) \in DOMAIN h.fc
    PROVE  h.fc[a].last <=> Following(h, a) \in bases
<1>. DEFINE b == Following(h, a)
<1>1. PICK x \in bases : x <= a /\ b <= x + MemAllocatedAtOnce
  BY DEF Tiling, Places
<1>2. PICK y \in bases : y <= b /\ Following(h, b) <= y + MemAllocatedAtOnce
  BY DEF Tiling, Places
<1>3. a \in Nat /\ b \in Nat /\ a < b
  BY BlockPlaces
<1>4. Following(h, b) \in Nat /\ b < Following(h, b)
  BY BlockPlaces
<1>5. h.fc[a].last <=> b - MemAllocatedAtOnce \in bases
  BY DEF Tiling, Edges
<1>. HIDE DEF b
<1>6. /\ MemAllocatedAtOnce \in Nat /\ x \in Nat /\ y \in Nat
      /\ \A z, w \in bases : z < w => z + MemAllocatedAtOnce <= w
      /\ \A z \in bases : z \in Nat
  BY ArenaPlaces
<1>7. ASSUME b \in bases PROVE b - MemAllocatedAtOnce \in bases
  <2>1. x < b
    BY <1>1, <1>3, <1>6
  <2>2. x + MemAllocatedAtOnce <= b
    BY <1>6, <1>7, <2>1
  <2>3. b - MemAllocatedAtOnce = x
    BY <1>1, <1>3, <1>6, <2>2
  <2>. QED  BY <2>3
<1>8. ASSUME b - MemAllocatedAtOnce \in bases PROVE b \in bases
  <2>. DEFINE z == b - MemAllocatedAtOnce
  <2>1. z \in Nat /\ z + MemAllocatedAtOnce = b
    BY <1>3, <1>6, <1>8
  <2>2. (z < y => b <= y) /\ (y < z => y + MemAllocatedAtOnce <= z)
    BY <1>6, <1>8, <2>1
  <2>3. y = b
    BY <1>2, <1>3, <1>4, <1>6, <2>1, <2>2
  <2>. QED  BY <2>3
<1>. QED  BY <1>5, <1>7, <1>8 DEF b

LEMMA JoinTiles ==
    ASSUME NEW bases, bases \subseteq ArenaBases,
           NEW h, IsHeap(h), Tiling(h, bases), NEW k, IsHeap(k),
           NEW a \in DOMAIN h.fc, NEW b \in DOMAIN h.fc, Following(h, a) = b, b \notin bases,
           JoinedBlocks(h, k, a, b)
    PROVE  Tiling(k, bases)
<1>1. /\ a < b /\ a \in Nat /\ b \in Nat
      /\ GetBackControl(h, a) = b - 8
      /\ \A x \in DOMAIN h.fc : /\ x \in Nat /\ Following(h, x) \in Nat /\ x < Following(h, x)
                                /\ Following(h, x) = GetBackControl(h, x) + 8
                                /\ GetBackControl(h, x) \in Nat
  BY BlockPlaces
<1>2. DOMAIN k.fc = DOMAIN h.fc \ {b}
  BY DEF JoinedBlocks
<1>3. ~h.fc[a].last /\ ~h.fc[b].first
  BY NoArenaFollows DEF Tiling, Edges
<1>4. ASSUME NEW x \in DOMAIN k.fc, x # a
      PROVE  /\ SameBlock(h.fc[x], k.fc[x])
             /\ GetBackControl(k, x) = GetBackControl(h, x) /\ Following(k, x) = Following(h, x)
  <2>1. SameBlock(h.fc[x], k.fc[x])
    BY <1>2, <1>4 DEF JoinedBlocks
  <2>. QED  BY <2>1 DEF SameBlock, GetBackControl, Following
<1>5. /\ a \in DOMAIN k.fc /\ k.fc[a].first = h.fc[a].first /\ k.fc[a].last = h.fc[b].last
      /\ k.fc[a].data_size = h.fc[a].data_size + 32 + h.fc[b].data_size
      /\ GetBackControl(k, a) = GetBackControl(h, b) /\ Following(k, a) = Following(h, b)
  <2>1. a \in DOMAIN k.fc
    BY <1>1, <1>2
  <2>2. k.fc[a].data_size = h.fc[a].data_size + 32 + h.fc[b].data_size
    <3>1. h.fc[a].data_size \in Nat /\ h.fc[b].data_size \in Nat
      BY BlockPlaces
    <3>. QED  BY <3>1 DEF JoinedBlocks, FrontSize, BackSize
  <2>3. GetBackControl(k, a) = GetBackControl(h, b) /\ Following(k, a) = Following(h, b)
    BY <2>1, <2>2, BlockPlaces
  <2>4. k.fc[a].first = h.fc[a].first /\ k.fc[a].last = h.fc[b].last
    <3>1. h.fc[a] \in Fronts /\ h.fc[b] \in Fronts
      BY DEF IsHeap
    <3>. QED  BY <1>3, <3>1 DEF JoinedBlocks, Fronts
  <2>. QED  BY <2>1, <2>2, <2>3, <2>4
<1>6. k.bc = [x \in DOMAIN h.bc \ {b - 8} |-> IF x = GetBackControl(h, b) THEN a ELSE h.bc[x]]
  BY <1>1 DEF JoinedBlocks
<1>7. \A x \in DOMAIN h.fc : x # a => Following(h, x) # b /\ GetBackControl(h, x) # b - 8
  <2>1. \A x, y \in DOMAIN h.fc : x < y => Following(h, x) <= y
    BY DEF Tiling, Places
  <2>. QED  BY <1>1, <2>1
<1>8. Backs(k)
  <2>1. /\ DOMAIN h.bc = {GetBackControl(h, x) : x \in DOMAIN h.fc}
        /\ \A x \in DOMAIN h.fc : h.bc[GetBackControl(h, x)] = x
    BY DEF Tiling, Backs
  <2>2. ASSUME NEW x \in DOMAIN k.fc
        PROVE  GetBackControl(k, x) \in DOMAIN k.bc /\ k.bc[GetBackControl(k, x)] = x
    <3>1. CASE x = a
      BY <1>1, <1>5, <1>6, <1>7, <2>1, <3>1
    <3>2. CASE x # a
      BY <1>1, <1>2, <1>4, <1>6, <1>7, <2>1, <3>2
    <3>. QED  BY <3>1, <3>2
  <2>3. ASSUME NEW p \in DOMAIN k.bc PROVE \E x \in DOMAIN k.fc : p = GetBackControl(k, x)
    <3>1. p \in DOMAIN h.bc /\ p # b - 8
      BY <1>6
    <3>2. PICK x \in DOMAIN h.fc : p = GetBackControl(h, x)
      BY <2>1, <3>1
    <3>3. x # a
      BY <1>1, <3>1, <3>2
    <3>4. CASE x = b
      BY <1>5, <3>2, <3>4
    <3>5. CASE x # b
      BY <1>2, <1>4, <3>2, <3>3, <3>5
    <3>. QED  BY <3>4, <3>5
  <2>. QED  BY <2>2, <2>3 DEF Backs
<1>9. Edges(k, bases)
  <2>1. /\ bases \subseteq DOMAIN h.fc
        /\ \A x \in DOMAIN h.fc :
             /\ h.fc[x].first <=> x \in bases
             /\ h.fc[x].last <=> Following(h, x) - MemAllocatedAtOnce \in bases
             /\ ~h.fc[x].last => Following(h, x) \in DOMAIN h.fc
             /\ ~h.fc[x].first => x - BackSize \in DOMAIN h.bc
    BY DEF Tiling, Edges
  <2>2. bases \subseteq DOMAIN k.fc
    BY <1>2, <2>1
  <2>3. ASSUME NEW x \in DOMAIN k.fc
        PROVE  /\ k.fc[x].first <=> x \in bases
               /\ k.fc[x].last <=> Following(k, x) - MemAllocatedAtOnce \in bases
               /\ ~k.fc[x].last => Following(k, x) \in DOMAIN k.fc
    <3>1. CASE x = a
      <4>1. Following(h, b) # b
        BY <1>1
      <4>. QED  BY <1>2, <1>5, <2>1, <3>1, <4>1
    <3>2. CASE x # a
      BY <1>2, <1>4, <1>7, <2>1, <3>2 DEF SameBlock
    <3>. QED  BY <3>1, <3>2
  <2>4. ASSUME NEW x \in DOMAIN k.fc, ~k.fc[x].first PROVE x - BackSize \in DOMAIN k.bc
    <3>1. x \in DOMAIN h.fc /\ x # b /\ ~h.fc[x].first
      BY <1>2, <1>4, <1>5, <2>4 DEF SameBlock
    <3>2. x - 8 # b - 8 /\ x - BackSize = x - 8
      BY <1>1, <3>1 DEF BackSize
    <3>. QED  BY <1>6, <2>1, <3>1, <3>2
  <2>. QED  BY <2>2, <2>3, <2>4 DEF Edges
<1>10. Places(k, bases)
  <2>1. /\ \A x, y \in DOMAIN h.fc : x < y => Following(h, x) <= y
        /\ \A x \in DOMAIN h.fc :
             /\ \E base \in bases : base <= x /\ Following(h, x) <= base + MemAllocatedAtOnce
             /\ x % 8 = 0 /\ h.fc[x].data_size % 8 = 0
    BY DEF Tiling, Places
  <2>2. ASSUME NEW x \in DOMAIN k.fc, NEW y \in DOMAIN k.fc, x < y PROVE Following(k, x) <= y
    <3>1. CASE x = a
      <4>1. b <= y /\ y # b
        BY <1>2, <2>1, <2>2, <3>1
      <4>2. b < y
        BY <1>1, <1>2, <4>1
      <4>. QED  BY <1>2, <1>5, <2>1, <3>1, <4>2
    <3>2. CASE x # a
      BY <1>2, <1>4, <2>1, <2>2, <3>2
    <3>. QED  BY <3>1, <3>2
  <2>3. ASSUME NEW x \in DOMAIN k.fc
        PROVE  /\ \E base \in bases : base <= x /\ Following(k, x) <= base + MemAllocatedAtOnce
               /\ x % 8 = 0 /\ k.fc[x].data_size % 8 = 0
    <3>1. CASE x = a
      <4>1. k.fc[a].data_size % 8 = 0
        <5>1. h.fc[a].data_size \in Nat /\ h.fc[b].data_size \in Nat
          BY BlockPlaces
        <5>. QED  BY <1>5, <2>1, <5>1
      <4>2. \E base \in bases : base <= a /\ Following(h, b) <= base + MemAllocatedAtOnce
        <5>1. PICK x1 \in bases : x1 <= a /\ b <= x1 + MemAllocatedAtOnce
          BY <2>1
        <5>2. PICK y1 \in bases : y1 <= b /\ Following(h, b) <= y1 + MemAllocatedAtOnce
          BY <2>1
        <5>3. /\ x1 \in Nat /\ y1 \in Nat /\ MemAllocatedAtOnce \in Nat
              /\ x1 < y1 => x1 + MemAllocatedAtOnce <= y1
              /\ y1 < x1 => y1 + MemAllocatedAtOnce <= x1
          BY ArenaPlaces
        <5>4. y1 # b
          OBVIOUS
        <5>5. y1 = x1
          BY <1>1, <5>1, <5>2, <5>3, <5>4
        <5>. QED  BY <5>1, <5>2, <5>5
      <4>. QED  BY <1>5, <2>1, <3>1, <4>1, <4>2
    <3>2. CASE x # a
      BY <1>2, <1>4, <2>1, <3>2 DEF SameBlock
    <3>. QED  BY <3>1, <3>2
  <2>. QED  BY <2>2, <2>3 DEF Places
<1>. QED  BY <1>8, <1>9, <1>10 DEF Tiling

----------------------------------------------------------------------------
(* Splitting a block *)

\* In k, the end of block a has become the block b.
SplitBlocks(h, k, a, b, size) ==
    /\ DOMAIN k.fc = DOMAIN h.fc \cup {b}
    /\ \A x \in DOMAIN h.fc \ {a} : SameBlock(h.fc[x], k.fc[x])
    /\ k.fc[a].data_size = size /\ k.fc[b].data_size = h.fc[a].data_size - size - 32
    /\ k.fc[a].first = h.fc[a].first /\ ~k.fc[a].last /\ k.fc[a].owned = h.fc[a].owned
    /\ ~k.fc[b].first /\ k.fc[b].last = h.fc[a].last /\ k.fc[b].owned = h.fc[a].owned
    /\ k.bc = [x \in DOMAIN h.bc \cup {b - 8} |->
                 IF x = b - 8 THEN a ELSE IF x = GetBackControl(h, a) THEN b ELSE h.bc[x]]

LEMMA SplitSplits ==
    ASSUME NEW h, IsHeap(h), Heads(h), NEW a \in DOMAIN h.fc, NEW size \in Nat,
           h.fc[a].data_size > size + 32, NEW b, b = a + 32 + size, b \notin DOMAIN h.fc
    PROVE  /\ IsHeap(SplitBlock(h, a, size)) /\ Heads(SplitBlock(h, a, size))
           /\ SplitBlocks(h, SplitBlock(h, a, size), a, b, size)
           /\ \A l \in Layers : SplitBlock(h, a, size).layers[l] \in {NULL, a, b, h.layers[l]}
<1>. DEFINE d == Detach(h, a)
            whole == d.fc[a]
            back == b - 8
            first == [whole EXCEPT !.data_size = size, !.last = FALSE]
            second == [whole EXCEPT !.data_size = whole.data_size - size - BackSize - FrontSize,
                                    !.first = FALSE]
            fronts == [x \in DOMAIN d.fc \cup {b} |->
                          IF x = a THEN first ELSE IF x = b THEN second ELSE d.fc[x]]
            backs == [x \in DOMAIN d.bc \cup {back} |->
                          IF x = back THEN a ELSE IF x = GetBackControl(h, a) THEN b ELSE d.bc[x]]
            i == WithBlocks(d, fronts, backs)
            j == Attach(i, a)
            k == Attach(j, b)
<1>0. /\ a \in Nat /\ b \in Nat /\ b - 8 \in Nat /\ a # b /\ h.fc[a].data_size \in Nat
      /\ a + FrontSize + size = b - 8 /\ (b - 8) + BackSize = b
      /\ h.fc[a].data_size > size + BackSize + FrontSize
  BY BlockPlaces DEF FrontSize, BackSize
<1>1. SplitBlock(h, a, size) = k
  BY <1>0 DEF SplitBlock, WithBlocks
<1>2. /\ Relinked(h, d) /\ Heads(d)
      /\ \A l \in Layers : d.layers[l] \in {NULL, h.layers[l]} /\ d.layers[l] # a
  BY DetachRelinks, DetachKeepsHeads
<1>. HIDE DEF d
<1>3. /\ IsHeap(d) /\ DOMAIN d.fc = DOMAIN h.fc /\ d.bc = h.bc
      /\ \A x \in DOMAIN h.fc : SameBlock(h.fc[x], d.fc[x])
  BY <1>2 DEF Relinked, SameBlocks
<1>4. whole \in Fronts /\ SameBlock(h.fc[a], whole)
  BY <1>3 DEF IsHeap
<1>. HIDE DEF whole
<1>5. /\ first \in Fronts /\ first.data_size = size /\ first.first = h.fc[a].first
      /\ ~first.last /\ first.owned = h.fc[a].owned
  <2>. DEFINE sized == [whole EXCEPT !.data_size = size]
  <2>1. /\ sized \in Fronts /\ sized.data_size = size /\ sized.first = whole.first
        /\ sized.owned = whole.owned
    BY <1>4 DEF Fronts
  <2>2. first = [sized EXCEPT !.last = FALSE]
    OBVIOUS
  <2>. HIDE DEF sized, first
  <2>. QED  BY <1>4, <2>1, <2>2 DEF Fronts, SameBlock
<1>6. /\ second \in Fronts /\ second.data_size = h.fc[a].data_size - size - 32
      /\ ~second.first /\ second.last = h.fc[a].last /\ second.owned = h.fc[a].owned
  <2>. DEFINE rest == whole.data_size - size - BackSize - FrontSize
              sized == [whole EXCEPT !.data_size = rest]
  <2>1. rest \in Nat /\ rest = h.fc[a].data_size - size - 32
    BY <1>0, <1>4 DEF SameBlock, BackSize, FrontSize
  <2>2. second = [sized EXCEPT !.first = FALSE]
    OBVIOUS
  <2>. HIDE DEF rest
  <2>3. /\ sized \in Fronts /\ sized.data_size = rest /\ sized.last = whole.last
        /\ sized.owned = whole.owned
    BY <1>4, <2>1 DEF Fronts
  <2>. HIDE DEF sized, second
  <2>. QED  BY <1>4, <2>1, <2>2, <2>3 DEF Fronts, SameBlock
<1>. HIDE DEF first, second
<1>7. /\ i = [layers |-> i.layers, fc |-> i.fc, bc |-> i.bc, damaged |-> i.damaged]
      /\ i.layers = d.layers /\ i.fc = fronts /\ i.bc = backs
  <2>1. i = WithBlocks(d, fronts, backs) /\ IsHeap(d)
    BY <1>3
  <2>. HIDE DEF i, fronts, backs
  <2>. QED  BY <2>1, BlocksSet
<1>. HIDE DEF i
<1>8. SplitBlocks(h, i, a, b, size)
  <2>1. /\ DOMAIN i.fc = DOMAIN h.fc \cup {b} /\ i.fc[a] = first /\ i.fc[b] = second
        /\ \A x \in DOMAIN h.fc \ {a} : SameBlock(h.fc[x], i.fc[x])
    BY <1>0, <1>3, <1>7
  <2>2. i.bc = [x \in DOMAIN h.bc \cup {b - 8} |->
                 IF x = b - 8 THEN a ELSE IF x = GetBackControl(h, a) THEN b ELSE h.bc[x]]
    BY <1>3, <1>7
  <2>. QED  BY <1>5, <1>6, <2>1, <2>2 DEF SplitBlocks
<1>9. IsHeap(i)
  <2>1. DOMAIN i.fc \subseteq Nat /\ i.fc \in [DOMAIN i.fc -> Fronts]
    BY <1>0, <1>3, <1>5, <1>6, <1>7 DEF IsHeap
  <2>2. DOMAIN i.bc \subseteq Nat /\ i.bc \in [DOMAIN i.bc -> Nat]
    BY <1>0, <1>3, <1>7 DEF IsHeap
  <2>. QED  BY <1>3, <1>7, <2>1, <2>2 DEF IsHeap
<1>10. Heads(i)
  <2>1. ASSUME NEW l \in Layers, i.layers[l] # NULL
        PROVE  i.layers[l] \in DOMAIN i.fc /\ LayerOf(i.fc[i.layers[l]]) = l
    <3>. DEFINE x == i.layers[l]
    <3>1. x = d.layers[l] /\ x # a /\ x \in DOMAIN d.fc /\ LayerOf(d.fc[x]) = l
      BY <1>2, <1>7, <2>1 DEF Heads
    <3>2. x \in DOMAIN i.fc /\ i.fc[x] = d.fc[x]
      BY <1>3, <1>7, <3>1
    <3>. QED  BY <3>1, <3>2
  <2>. QED  BY <2>1 DEF Heads
<1>11. a \in DOMAIN i.fc /\ b \in DOMAIN i.fc
  BY <1>8 DEF SplitBlocks
<1>12. Relinked(i, j) /\ Heads(j) /\ \A l \in Layers : j.layers[l] \in {a, i.layers[l]}
  BY <1>9, <1>10, <1>11, AttachRelinks, AttachKeepsHeads
<1>. HIDE DEF j
<1>13. IsHeap(j) /\ b \in DOMAIN j.fc
  BY <1>11, <1>12 DEF Relinked, SameBlocks
<1>14. Relinked(j, k) /\ Heads(k) /\ \A l \in Layers : k.layers[l] \in {b, j.layers[l]}
  BY <1>12, <1>13, AttachRelinks, AttachKeepsHeads
<1>. HIDE DEF k
<1>15. Relinked(i, k)
  BY <1>12, <1>14, RelinkedTwice
<1>16. SplitBlocks(h, k, a, b, size)
  BY <1>8, <1>11, <1>15 DEF SplitBlocks, Relinked, SameBlocks, SameBlock
<1>17. \A l \in Layers : k.layers[l] \in {NULL, a, b, h.layers[l]}
  BY <1>2, <1>7, <1>12, <1>14
<1>18. IsHeap(k)
  BY <1>15 DEF Relinked
<1>. QED  BY <1>1, <1>14, <1>16, <1>17, <1>18

LEMMA SplitTiles ==
    ASSUME NEW bases, bases \subseteq ArenaBases,
           NEW h, IsHeap(h), Tiling(h, bases), NEW k, IsHeap(k),
           NEW a \in DOMAIN h.fc, NEW size \in Nat, size % 8 = 0,
           h.fc[a].data_size > size + 32, NEW b, b = a + 32 + size,
           SplitBlocks(h, k, a, b, size)
    PROVE  Tiling(k, bases)
<1>1. /\ a \in Nat /\ b \in Nat /\ b - 8 \in Nat /\ a < b /\ b < Following(h, a)
      /\ h.fc[a].data_size \in Nat /\ Following(h, a) = a + 32 + h.fc[a].data_size
      /\ \A x \in DOMAIN h.fc : /\ x \in Nat /\ Following(h, x) \in Nat /\ x < Following(h, x)
                                /\ Following(h, x) = GetBackControl(h, x) + 8
                                /\ GetBackControl(h, x) \in Nat
  BY BlockPlaces
<1>2. DOMAIN k.fc = DOMAIN h.fc \cup {b} /\ a \in DOMAIN k.fc /\ b \in DOMAIN k.fc
  BY DEF SplitBlocks
<1>3. \A x, y \in DOMAIN h.fc : x < y => Following(h, x) <= y
  BY DEF Tiling, Places
<1>4. b \notin DOMAIN h.fc
  BY <1>1, <1>3
<1>5. \A x \in DOMAIN h.fc : Following(h, x) # b /\ GetBackControl(h, x) # b - 8
  BY <1>1, <1>3
<1>6. ASSUME NEW x \in DOMAIN h.fc, x # a
      PROVE  /\ SameBlock(h.fc[x], k.fc[x])
             /\ GetBackControl(k, x) = GetBackControl(h, x) /\ Following(k, x) = Following(h, x)
  <2>1. SameBlock(h.fc[x], k.fc[x])
    BY <1>6 DEF SplitBlocks
  <2>. QED  BY <2>1 DEF SameBlock, GetBackControl, Following
<1>7. /\ k.fc[a].data_size = size /\ k.fc[b].data_size = h.fc[a].data_size - size - 32
      /\ k.fc[a].first = h.fc[a].first /\ ~k.fc[a].last
      /\ ~k.fc[b].first /\ k.fc[b].last = h.fc[a].last
  BY DEF SplitBlocks
<1>8. /\ GetBackControl(k, a) = b - 8 /\ Following(k, a) = b
      /\ GetBackControl(k, b) = GetBackControl(h, a) /\ Following(k, b) = Following(h, a)
  BY <1>1, <1>2, <1>7, BlockPlaces
<1>9. k.bc = [x \in DOMAIN h.bc \cup {b - 8} |->
                 IF x = b - 8 THEN a ELSE IF x = GetBackControl(h, a) THEN b ELSE h.bc[x]]
  BY DEF SplitBlocks
<1>10. Backs(k)
  <2>1. /\ DOMAIN h.bc = {GetBackControl(h, x) : x \in DOMAIN h.fc}
        /\ \A x \in DOMAIN h.fc : h.bc[GetBackControl(h, x)] = x
    BY DEF Tiling, Backs
  <2>2. ASSUME NEW x \in DOMAIN k.fc
        PROVE  GetBackControl(k, x) \in DOMAIN k.bc /\ k.bc[GetBackControl(k, x)] = x
    <3>1. CASE x = a
      BY <1>8, <1>9, <3>1
    <3>2. CASE x = b
      BY <1>5, <1>8, <1>9, <2>1, <3>2
    <3>3. CASE x \notin {a, b}
      <4>1. x \in DOMAIN h.fc /\ GetBackControl(k, x) = GetBackControl(h, x)
        BY <1>2, <1>6, <3>3
      <4>2. GetBackControl(h, x) # GetBackControl(h, a)
        BY <2>1, <3>3, <4>1
      <4>. QED  BY <1>5, <1>9, <2>1, <4>1, <4>2
    <3>. QED  BY <3>1, <3>2, <3>3
  <2>3. ASSUME NEW p \in DOMAIN k.bc PROVE \E x \in DOMAIN k.fc : p = GetBackControl(k, x)
    <3>1. CASE p = b - 8
      BY <1>2, <1>8, <3>1
    <3>2. CASE p # b - 8
      <4>1. PICK x \in DOMAIN h.fc : p = GetBackControl(h, x)
        BY <1>9, <2>1, <3>2
      <4>2. CASE x = a
        BY <1>2, <1>8, <4>1, <4>2
      <4>3. CASE x # a
        BY <1>2, <1>6, <4>1, <4>3
      <4>. QED  BY <4>2, <4>3
    <3>. QED  BY <3>1, <3>2
  <2>. QED  BY <2>2, <2>3 DEF Backs
<1>11. Edges(k, bases)
  <2>1. /\ bases \subseteq DOMAIN h.fc
        /\ \A x \in DOMAIN h.fc :
             /\ h.fc[x].first <=> x \in bases
             /\ h.fc[x].last <=> Following(h, x) - MemAllocatedAtOnce \in bases
             /\ ~h.fc[x].last => Following(h, x) \in DOMAIN h.fc
             /\ ~h.fc[x].first => x - BackSize \in DOMAIN h.bc
    BY DEF Tiling, Edges
  <2>2. bases \subseteq DOMAIN k.fc
    BY <1>2, <2>1
  <2>3. b - MemAllocatedAtOnce \notin bases
    <3>1. PICK x \in bases : x <= a /\ Following(h, a) <= x + MemAllocatedAtOnce
      BY DEF Tiling, Places
    <3>2. SUFFICES ASSUME b - MemAllocatedAtOnce \in bases PROVE FALSE
      OBVIOUS
    <3>. DEFINE y == b - MemAllocatedAtOnce
    <3>3. /\ x \in Nat /\ y \in Nat /\ MemAllocatedAtOnce \in Nat
          /\ x < y => x + MemAllocatedAtOnce <= y
          /\ y < x => y + MemAllocatedAtOnce <= x
      BY <3>2, ArenaPlaces
    <3>. QED  BY <1>1, <3>1, <3>3
  <2>4. ASSUME NEW x \in DOMAIN k.fc
        PROVE  /\ k.fc[x].first <=> x \in bases
               /\ k.fc[x].last <=> Following(k, x) - MemAllocatedAtOnce \in bases
               /\ ~k.fc[x].last => Following(k, x) \in DOMAIN k.fc
    <3>1. CASE x = a
      BY <1>2, <1>7, <1>8, <2>1, <2>3, <3>1
    <3>2. CASE x = b
      BY <1>2, <1>4, <1>7, <1>8, <2>1, <3>2
    <3>3. CASE x \notin {a, b}
      BY <1>2, <1>6, <2>1, <3>3 DEF SameBlock
    <3>. QED  BY <3>1, <3>2, <3>3
  <2>5. ASSUME NEW x \in DOMAIN k.fc, ~k.fc[x].first PROVE x - BackSize \in DOMAIN k.bc
    <3>1. CASE x = b
      BY <1>9, <3>1 DEF BackSize
    <3>2. CASE x # b
      <4>1. x \in DOMAIN h.fc /\ ~h.fc[x].first
        BY <1>2, <1>6, <1>7, <2>5, <3>2 DEF SameBlock
      <4>. QED  BY <1>9, <2>1, <4>1
    <3>. QED  BY <3>1, <3>2
  <2>. QED  BY <2>2, <2>4, <2>5 DEF Edges
<1>12. Places(k, bases)
  <2>1. \A x \in DOMAIN h.fc :
          /\ \E base \in bases : base <= x /\ Following(h, x) <= base + MemAllocatedAtOnce
          /\ x % 8 = 0 /\ h.fc[x].data_size % 8 = 0
    BY DEF Tiling, Places
  <2>2. ASSUME NEW x \in DOMAIN k.fc, NEW y \in DOMAIN k.fc, x < y PROVE Following(k, x) <= y
    <3>1. CASE x = a
      <4>1. y # b => Following(h, a) <= y
        BY <1>2, <1>3, <2>2, <3>1
      <4>. QED  BY <1>1, <1>2, <1>8, <3>1, <4>1
    <3>2. CASE x = b
      <4>1. y \in DOMAIN h.fc /\ a < y
        BY <1>1, <1>2, <2>2, <3>2
      <4>. QED  BY <1>3, <1>8, <3>2, <4>1
    <3>3. CASE x \notin {a, b} /\ y = b
      <4>1. x \in DOMAIN h.fc /\ x < a
        BY <1>1, <1>2, <1>3, <2>2, <3>3
      <4>2. Following(k, x) = Following(h, x) /\ Following(h, x) <= a /\ Following(h, x) \in Nat
        BY <1>1, <1>3, <1>6, <3>3, <4>1
      <4>. QED  BY <1>1, <3>3, <4>2
    <3>4. CASE x \notin {a, b} /\ y # b
      BY <1>2, <1>3, <1>6, <2>2, <3>4
    <3>. QED  BY <3>1, <3>2, <3>3, <3>4
  <2>3. ASSUME NEW x \in DOMAIN k.fc
        PROVE  /\ \E base \in bases : base <= x /\ Following(k, x) <= base + MemAllocatedAtOnce
               /\ x % 8 = 0 /\ k.fc[x].data_size % 8 = 0
    <3>1. PICK base \in bases : base <= a /\ Following(h, a) <= base + MemAllocatedAtOnce
      BY <2>1
    <3>2. base \in Nat /\ MemAllocatedAtOnce \in Nat
      BY ArenaPlaces
    <3>3. base <= b /\ b <= base + MemAllocatedAtOnce
      BY <1>1, <3>1, <3>2
    <3>4. b % 8 = 0 /\ (h.fc[a].data_size - size - 32) % 8 = 0
      BY <1>1, <2>1
    <3>5. CASE x = a
      BY <1>7, <1>8, <2>1, <3>1, <3>3, <3>5
    <3>6. CASE x = b
      BY <1>7, <1>8, <3>1, <3>3, <3>4, <3>6
    <3>7. CASE x \notin {a, b}
      BY <1>2, <1>6, <2>1, <3>7 DEF SameBlock
    <3>. QED  BY <3>5, <3>6, <3>7
  <2>. QED  BY <2>2, <2>3 DEF Places
<1>. QED  BY <1>10, <1>11, <1>12 DEF Tiling

----------------------------------------------------------------------------
(* Taking a block *)

LEMMA SetOwnedSets ==
    ASSUME NEW h, IsHeap(h), Heads(h), NEW a \in DOMAIN h.fc, NEW owned \in BOOLEAN
    PROVE  LET k == SetOwned(h, a, owned)
           IN  /\ IsHeap(k) /\ Heads(k) /\ SameTiles(h, k) /\ k.layers = h.layers
               /\ k.fc[a].owned = owned
               /\ \A x \in DOMAIN h.fc \ {a} : k.fc[x] = h.fc[x]
<1>. DEFINE k == SetOwned(h, a, owned)
            front == [h.fc[a] EXCEPT !.owned = owned]
<1>1. /\ k.layers = h.layers /\ k.bc = h.bc
      /\ k.fc = [h.fc EXCEPT ![a] = front]
      /\ k = [layers |-> k.layers, fc |-> k.fc, bc |-> k.bc, damaged |-> k.damaged]
  BY DEF SetOwned, IsHeap
<1>2. h.fc[a] \in Fronts
  BY DEF IsHeap
<1>3. /\ front \in Fronts /\ front.owned = owned
      /\ front.data_size = h.fc[a].data_size /\ front.source_layer = h.fc[a].source_layer
      /\ front.first = h.fc[a].first /\ front.last = h.fc[a].last
  BY <1>2 DEF Fronts
<1>. HIDE DEF k, front
<1>4. /\ DOMAIN k.fc = DOMAIN h.fc /\ k.fc \in [DOMAIN h.fc -> Fronts]
      /\ k.fc[a] = front /\ \A x \in DOMAIN h.fc \ {a} : k.fc[x] = h.fc[x]
  BY <1>1, <1>3 DEF IsHeap
<1>5. IsHeap(k)
  BY <1>1, <1>4 DEF IsHeap
<1>6. SameTiles(h, k)
  BY <1>1, <1>3, <1>4 DEF SameTiles
<1>7. Heads(k)
  <2>1. \A x \in DOMAIN h.fc : LayerOf(k.fc[x]) = LayerOf(h.fc[x])
    BY <1>3, <1>4 DEF LayerOf
  <2>. QED  BY <1>1, <1>4, <2>1 DEF Heads
<1>. QED  BY <1>1, <1>3, <1>4, <1>5, <1>6, <1>7 DEF k

\* What is cut off the head a of a layer is free.
LEMMA SplittingHead ==
    ASSUME NEW bases, bases \subseteq ArenaBases,
           NEW h, IsHeap(h), Heads(h), HeadsAreFree(h), Tiling(h, bases), Joined(h),
           NEW a \in DOMAIN h.fc, h.fc[a].owned,
           NEW size \in Nat, size % 8 = 0, size <= h.fc[a].data_size
    PROVE  LET k == SplitBlock(h, a, size)
           IN  /\ IsHeap(k) /\ Heads(k) /\ HeadsAreFree(k) /\ Tiling(k, bases)
               /\ DOMAIN h.fc \subseteq DOMAIN k.fc /\ size <= k.fc[a].data_size
               /\ \A x \in DOMAIN h.fc \ {a} : SameBlock(h.fc[x], k.fc[x])
               /\ k.fc[a].owned /\ \A x \in DOMAIN k.fc \ DOMAIN h.fc : k.fc[x].owned
               /\ \A x \in DOMAIN k.fc \ {a} :
                    ~k.fc[x].last /\ k.fc[x].owned /\ Following(k, x) # a =>
                        ~k.fc[Following(k, x)].owned
<1>. DEFINE k == SplitBlock(h, a, size)
            b == a + 32 + size
<1>0. a \in Nat /\ b \in Nat /\ h.fc[a].data_size \in Nat /\ b > a
  BY BlockPlaces
<1>1. CASE ~(h.fc[a].data_size > size + 32)
  <2>1. k = h
    BY <1>0, <1>1 DEF SplitBlock, FrontSize, BackSize
  <2>. QED  BY <2>1 DEF SameBlock, Joined
<1>2. CASE h.fc[a].data_size > size + 32
  <2>0. b < Following(h, a) /\ Following(h, a) \in Nat
    BY <1>0, <1>2, BlockPlaces
  <2>1. b \notin DOMAIN h.fc
    <3>1. \A x, y \in DOMAIN h.fc : x < y => Following(h, x) <= y
      BY DEF Tiling, Places
    <3>. QED  BY <1>0, <2>0, <3>1
  <2>. HIDE DEF k
  <2>2. /\ IsHeap(k) /\ Heads(k) /\ SplitBlocks(h, k, a, b, size)
        /\ \A l \in Layers : k.layers[l] \in {NULL, a, b, h.layers[l]}
    BY <1>2, <2>1, SplitSplits DEF k
  <2>3. Tiling(k, bases)
    BY <1>2, <2>2, SplitTiles
  <2>. HIDE DEF b
  <2>4. /\ DOMAIN k.fc = DOMAIN h.fc \cup {b}
        /\ \A x \in DOMAIN h.fc \ {a} : SameBlock(h.fc[x], k.fc[x])
        /\ k.fc[a].data_size = size
        /\ k.fc[a].owned /\ k.fc[b].owned /\ k.fc[b].last = h.fc[a].last
    BY <2>2 DEF SplitBlocks
  <2>5. HeadsAreFree(k)
    <3>1. ASSUME NEW l \in Layers, k.layers[l] # NULL PROVE k.fc[k.layers[l]].owned
      <4>1. CASE k.layers[l] \in {a, b}
        BY <2>4, <4>1
      <4>2. CASE k.layers[l] \notin {a, b}
        <5>1. k.layers[l] = h.layers[l]
          BY <2>2, <3>1, <4>2
        <5>2. h.layers[l] \in DOMAIN h.fc /\ h.fc[h.layers[l]].owned
          BY <3>1, <5>1 DEF Heads, HeadsAreFree
        <5>. QED  BY <2>4, <4>2, <5>1, <5>2 DEF SameBlock
      <4>. QED  BY <4>1, <4>2
    <3>. QED  BY <3>1 DEF HeadsAreFree
  <2>6. ASSUME NEW x \in DOMAIN k.fc \ {a}, ~k.fc[x].last, k.fc[x].owned, Following(k, x) # a
        PROVE  ~k.fc[Following(k, x)].owned
    <3>1. \A y \in DOMAIN h.fc : ~h.fc[y].last => Following(h, y) \in DOMAIN h.fc
      BY DEF Tiling, Edges
    <3>2. CASE x = b
      <4>1. Following(k, b) = Following(h, a)
        <5>1. k.fc[b].data_size = h.fc[a].data_size - size - 32
          BY <2>2 DEF SplitBlocks
        <5>2. b \in DOMAIN k.fc
          BY <2>4
        <5>3. Following(k, b) = b + 32 + (h.fc[a].data_size - size - 32)
          BY <2>2, <5>1, <5>2, BlockPlaces
        <5>. QED  BY <1>0, <5>3, BlockPlaces DEF b
      <4>2. ~h.fc[a].last
        BY <2>4, <2>6, <3>2
      <4>3. /\ Following(h, a) \in DOMAIN h.fc /\ Following(h, a) # a
            /\ ~h.fc[Following(h, a)].owned
        BY <3>1, <4>2, BlockPlaces DEF Joined
      <4>. QED  BY <2>4, <3>2, <4>1, <4>3 DEF SameBlock
    <3>3. CASE x # b
      <4>1. x \in DOMAIN h.fc /\ SameBlock(h.fc[x], k.fc[x]) /\ Following(k, x) = Following(h, x)
        BY <2>4, <2>6, <3>3 DEF SameBlock, Following, GetBackControl
      <4>2. Following(h, x) \in DOMAIN h.fc /\ ~h.fc[Following(h, x)].owned
        BY <2>6, <3>1, <4>1 DEF Joined, SameBlock
      <4>. QED  BY <2>4, <2>6, <4>1, <4>2 DEF SameBlock
    <3>. QED  BY <3>2, <3>3
  <2>7. size <= k.fc[a].data_size /\ \A x \in DOMAIN k.fc \ DOMAIN h.fc : k.fc[x].owned
    BY <2>4
  <2>. QED  BY <2>2, <2>3, <2>4, <2>5, <2>6, <2>7 DEF k
<1>. QED  BY <1>1, <1>2

\* The head of a layer is given away, and nothing else.
Taken(h, k, a, size) ==
    /\ DOMAIN h.fc \subseteq DOMAIN k.fc /\ size <= k.fc[a].data_size
    /\ \A x \in DOMAIN h.fc \ {a} : SameBlock(h.fc[x], k.fc[x])
    /\ ~k.fc[a].owned /\ \A x \in DOMAIN k.fc \ DOMAIN h.fc : k.fc[x].owned

LEMMA TakeHeadTakes ==
    ASSUME NEW bases, bases \subseteq ArenaBases,
           NEW h, IsHeap(h), Heads(h), HeadsAreFree(h), Tiling(h, bases), Joined(h),
           NEW layer \in Layers, h.layers[layer] # NULL, NEW a, a = h.layers[layer],
           NEW size \in Nat, size % 8 = 0, size <= h.fc[a].data_size
    PROVE  LET k == TakeHead(h, layer, size)
           IN  /\ IsHeap(k) /\ Heads(k) /\ HeadsAreFree(k) /\ Tiling(k, bases) /\ Joined(k)
               /\ Taken(h, k, a, size)
<1>. DEFINE s == SplitBlock(h, a, size)
            given_away == FALSE
            f == SetOwned(s, a, given_away)
            k == Detach(f, a)
<1>0. a \in DOMAIN h.fc /\ h.fc[a].owned
  BY DEF Heads, HeadsAreFree
<1>1. TakeHead(h, layer, size) = k
  BY DEF TakeHead
<1>2. /\ IsHeap(s) /\ Heads(s) /\ HeadsAreFree(s) /\ Tiling(s, bases)
      /\ DOMAIN h.fc \subseteq DOMAIN s.fc /\ size <= s.fc[a].data_size
      /\ \A x \in DOMAIN h.fc \ {a} : SameBlock(h.fc[x], s.fc[x])
      /\ s.fc[a].owned /\ \A x \in DOMAIN s.fc \ DOMAIN h.fc : s.fc[x].owned
      /\ \A x \in DOMAIN s.fc \ {a} :
           ~s.fc[x].last /\ s.fc[x].owned /\ Following(s, x) # a => ~s.fc[Following(s, x)].owned
  BY <1>0, SplittingHead
<1>. HIDE DEF s
<1>3. a \in DOMAIN s.fc
  BY <1>0, <1>2
<1>4. /\ IsHeap(f) /\ Heads(f) /\ SameTiles(s, f) /\ f.layers = s.layers
      /\ ~f.fc[a].owned /\ \A x \in DOMAIN s.fc \ {a} : f.fc[x] = s.fc[x]
  <2>1. IsHeap(s) /\ Heads(s) /\ given_away \in BOOLEAN /\ ~given_away
    BY <1>2
  <2>. HIDE DEF given_away
  <2>2. /\ IsHeap(f) /\ Heads(f) /\ SameTiles(s, f) /\ f.layers = s.layers
        /\ f.fc[a].owned = given_away /\ \A x \in DOMAIN s.fc \ {a} : f.fc[x] = s.fc[x]
    BY <1>3, <2>1, SetOwnedSets
  <2>. QED  BY <2>1, <2>2
<1>. HIDE DEF f
<1>5. a \in DOMAIN f.fc /\ IsHeap(f) /\ Heads(f)
  BY <1>3, <1>4 DEF SameTiles
<1>6. /\ Relinked(f, k) /\ Heads(k)
      /\ \A l \in Layers : k.layers[l] \in {NULL, f.layers[l]} /\ k.layers[l] # a
  BY <1>5, DetachRelinks, DetachKeepsHeads
<1>. HIDE DEF k
<1>7. /\ DOMAIN k.fc = DOMAIN s.fc /\ SameTiles(s, k) /\ IsHeap(k)
      /\ ~k.fc[a].owned /\ \A x \in DOMAIN s.fc \ {a} : k.fc[x].owned = s.fc[x].owned
      /\ \A x \in DOMAIN s.fc \ {a} : SameBlock(s.fc[x], k.fc[x])
  BY <1>3, <1>4, <1>6 DEF Relinked, SameBlocks, SameBlock, SameTiles
<1>8. Tiling(k, bases)
  BY <1>2, <1>7, SameTilesTile
<1>9. HeadsAreFree(k)
  <2>1. ASSUME NEW l \in Layers, k.layers[l] # NULL PROVE k.fc[k.layers[l]].owned
    <3>1. k.layers[l] = s.layers[l] /\ k.layers[l] # a
      BY <1>4, <1>6, <2>1
    <3>2. s.layers[l] \in DOMAIN s.fc /\ s.fc[s.layers[l]].owned
      BY <1>2, <2>1, <3>1 DEF Heads, HeadsAreFree
    <3>. QED  BY <1>7, <3>1, <3>2
  <2>. QED  BY <2>1 DEF HeadsAreFree
<1>10. Joined(k)
  <2>1. ASSUME NEW x \in DOMAIN k.fc, ~k.fc[x].last, k.fc[x].owned
        PROVE  ~k.fc[Following(k, x)].owned
    <3>1. x \in DOMAIN s.fc \ {a} /\ ~s.fc[x].last /\ s.fc[x].owned
      BY <1>7, <2>1 DEF SameTiles
    <3>2. Following(k, x) = Following(s, x)
      BY <1>7, <3>1 DEF SameTiles, Following, GetBackControl
    <3>3. Following(s, x) \in DOMAIN s.fc
      BY <1>2, <3>1 DEF Tiling, Edges
    <3>. QED  BY <1>2, <1>7, <3>1, <3>2, <3>3
  <2>. QED  BY <2>1 DEF Joined
<1>11. Taken(h, k, a, size)
  <2>1. size <= k.fc[a].data_size
    BY <1>2, <1>3, <1>7 DEF SameTiles
  <2>2. \A x \in DOMAIN h.fc \ {a} : SameBlock(h.fc[x], k.fc[x])
    BY <1>2, <1>7 DEF SameBlock
  <2>3. \A x \in DOMAIN k.fc \ DOMAIN h.fc : k.fc[x].owned
    BY <1>0, <1>2, <1>7
  <2>. QED  BY <1>2, <1>7, <2>1, <2>2, <2>3 DEF Taken
<1>. QED  BY <1>1, <1>6, <1>7, <1>8, <1>9, <1>10, <1>11

----------------------------------------------------------------------------
(* A new arena *)

\* Nothing of an arena that is not in bases is used.
LEMMA ArenaIsUnused ==
    ASSUME NEW bases, bases \subseteq ArenaBases,
           NEW h, IsHeap(h), Tiling(h, bases), NEW base \in ArenaBases \ bases
    PROVE  /\ base \notin DOMAIN h.fc
           /\ \A x \in DOMAIN h.fc :
                /\ x < base => Following(h, x) <= base
                /\ base < x => base + MemAllocatedAtOnce <= x
                /\ Following(h, x) # base + MemAllocatedAtOnce
<1>1. ASSUME NEW x \in DOMAIN h.fc
      PROVE  /\ x # base
             /\ x < base => Following(h, x) <= base
             /\ base < x => base + MemAllocatedAtOnce <= x
             /\ Following(h, x) # base + MemAllocatedAtOnce
  <2>1. PICK y \in bases : y <= x /\ Following(h, x) <= y + MemAllocatedAtOnce
    BY DEF Tiling, Places
  <2>2. /\ MemAllocatedAtOnce \in Nat /\ base \in Nat /\ y \in Nat /\ y # base
        /\ base < y => base + MemAllocatedAtOnce <= y
        /\ y < base => y + MemAllocatedAtOnce <= base
    BY ArenasAssumption
  <2>3. x \in Nat /\ Following(h, x) \in Nat /\ x < Following(h, x)
    BY BlockPlaces
  <2>. QED  BY <2>1, <2>2, <2>3
<1>. QED  BY <1>1

\* In k, the arena at base is a block.
ArenaAdded(h, k, base) ==
    /\ DOMAIN k.fc = DOMAIN h.fc \cup {base}
    /\ \A x \in DOMAIN h.fc : SameBlock(h.fc[x], k.fc[x])
    /\ k.fc[base].data_size = ArenaData
    /\ k.fc[base].first /\ k.fc[base].last /\ k.fc[base].owned
    /\ k.bc = [x \in DOMAIN h.bc \cup {base + MemAllocatedAtOnce - BackSize} |->
                 IF x = base + MemAllocatedAtOnce - BackSize THEN base ELSE h.bc[x]]

LEMMA AddArenaAdds ==
    ASSUME NEW h, IsHeap(h), Heads(h), HeadsAreFree(h), NEW base \in ArenaBases,
           base \notin DOMAIN h.fc, NEW layer \in Layers, layer <= GetLowerLog2(ArenaData)
    PROVE  LET k == AddArena(h, base, layer)
           IN  /\ IsHeap(k) /\ Heads(k) /\ HeadsAreFree(k) /\ ArenaAdded(h, k, base)
               /\ k.layers[layer] = base
<1>. DEFINE block == [data_size |-> ArenaData, local_prev |-> NULL, local_next |-> NULL,
                      first |-> TRUE, last |-> TRUE, owned |-> TRUE, source_layer |-> layer]
            back == base + MemAllocatedAtOnce - BackSize
            fronts == [x \in DOMAIN h.fc \cup {base} |-> IF x = base THEN block ELSE h.fc[x]]
            backs == [x \in DOMAIN h.bc \cup {back} |-> IF x = back THEN base ELSE h.bc[x]]
            i == WithBlocks(h, fronts, backs)
            k == Attach(i, base)
<1>1. AddArena(h, base, layer) = k
  BY DEF AddArena, WithBlocks
<1>2. ArenaData \in Nat /\ base \in Nat /\ back \in Nat
  BY ArenasAssumption DEF ArenaData, FrontSize, BackSize
<1>3. /\ block \in Fronts /\ block.data_size = ArenaData /\ block.source_layer = layer
      /\ block.first /\ block.last /\ block.owned
  BY <1>2 DEF Fronts
<1>. HIDE DEF block
<1>4. LayerOf(block) = layer
  <2>1. layer \in Nat /\ GetLowerLog2(ArenaData) \in Nat
    BY LogsAreNatural DEF Layers
  <2>. QED  BY <1>3, <2>1 DEF LayerOf, Smaller
<1>5. /\ i = [layers |-> i.layers, fc |-> i.fc, bc |-> i.bc, damaged |-> i.damaged]
      /\ i.layers = h.layers /\ i.fc = fronts /\ i.bc = backs
  <2>1. i = WithBlocks(h, fronts, backs)
    OBVIOUS
  <2>. HIDE DEF i, fronts, backs
  <2>. QED  BY <2>1, BlocksSet
<1>. HIDE DEF i
<1>6. /\ DOMAIN i.fc = DOMAIN h.fc \cup {base} /\ i.fc[base] = block
      /\ \A x \in DOMAIN h.fc : i.fc[x] = h.fc[x]
  BY <1>5
<1>7. IsHeap(i)
  <2>1. DOMAIN i.fc \subseteq Nat /\ i.fc \in [DOMAIN i.fc -> Fronts]
    BY <1>2, <1>3, <1>5 DEF IsHeap
  <2>2. DOMAIN i.bc \subseteq Nat /\ i.bc \in [DOMAIN i.bc -> Nat]
    BY <1>2, <1>5 DEF IsHeap
  <2>. QED  BY <1>5, <2>1, <2>2 DEF IsHeap
<1>8. Heads(i)
  BY <1>5, <1>6 DEF Heads
<1>9. /\ Relinked(i, k) /\ Heads(k) /\ k.layers = [i.layers EXCEPT ![layer] = base]
  <2>1. base \in DOMAIN i.fc /\ LayerOf(i.fc[base]) = layer
    BY <1>4, <1>6
  <2>. QED  BY <1>7, <1>8, <2>1, AttachRelinks, AttachKeepsHeads
<1>. HIDE DEF k
<1>10. /\ DOMAIN k.fc = DOMAIN h.fc \cup {base} /\ k.bc = backs /\ IsHeap(k)
       /\ \A x \in DOMAIN h.fc : SameBlock(h.fc[x], k.fc[x])
       /\ SameBlock(block, k.fc[base])
  BY <1>5, <1>6, <1>9 DEF Relinked, SameBlocks
<1>11. ArenaAdded(h, k, base)
  BY <1>3, <1>10 DEF ArenaAdded, SameBlock
<1>12. k.layers[layer] = base /\ \A l \in Layers : l # layer => k.layers[l] = h.layers[l]
  BY <1>5, <1>9 DEF IsHeap
<1>13. HeadsAreFree(k)
  <2>1. ASSUME NEW l \in Layers, k.layers[l] # NULL PROVE k.fc[k.layers[l]].owned
    <3>1. CASE l = layer
      BY <1>3, <1>10, <1>12, <3>1 DEF SameBlock
    <3>2. CASE l # layer
      <4>1. k.layers[l] = h.layers[l] /\ h.layers[l] \in DOMAIN h.fc /\ h.fc[h.layers[l]].owned
        BY <1>12, <2>1, <3>2 DEF Heads, HeadsAreFree
      <4>. QED  BY <1>10, <4>1 DEF SameBlock
    <3>. QED  BY <3>1, <3>2
  <2>. QED  BY <2>1 DEF HeadsAreFree
<1>. QED  BY <1>1, <1>9, <1>10, <1>11, <1>12, <1>13

LEMMA ArenaTiles ==
    ASSUME NEW bases, bases \subseteq ArenaBases,
           NEW h, IsHeap(h), Tiling(h, bases), Joined(h), NEW k, IsHeap(k),
           NEW base \in ArenaBases \ bases, ArenaAdded(h, k, base)
    PROVE  Tiling(k, bases \cup {base}) /\ Joined(k)
<1>. DEFINE back == base + MemAllocatedAtOnce - BackSize
<1>1. /\ base \notin DOMAIN h.fc
      /\ \A x \in DOMAIN h.fc :
           /\ x < base => Following(h, x) <= base
           /\ base < x => base + MemAllocatedAtOnce <= x
           /\ Following(h, x) # base + MemAllocatedAtOnce
  BY ArenaIsUnused
<1>2. /\ DOMAIN k.fc = DOMAIN h.fc \cup {base} /\ k.fc[base].data_size = ArenaData
      /\ k.fc[base].first /\ k.fc[base].last /\ k.fc[base].owned
      /\ k.bc = [x \in DOMAIN h.bc \cup {back} |-> IF x = back THEN base ELSE h.bc[x]]
  BY DEF ArenaAdded
<1>3. \A x \in DOMAIN h.fc :
        /\ x \in DOMAIN k.fc /\ x # base /\ SameBlock(h.fc[x], k.fc[x])
        /\ GetBackControl(k, x) = GetBackControl(h, x) /\ Following(k, x) = Following(h, x)
  BY <1>1, <1>2 DEF ArenaAdded, SameBlock, GetBackControl, Following
<1>4. /\ base \in Nat /\ MemAllocatedAtOnce \in Nat /\ base % 8 = 0 /\ ArenaData % 8 = 0
      /\ back = base + MemAllocatedAtOnce - 8 /\ ArenaData = MemAllocatedAtOnce - 32
  <2>1. base % 16 = 0 /\ base \in Nat
    BY ArenasAssumption
  <2>2. /\ MemAllocatedAtOnce \in Nat /\ MemAllocatedAtOnce % 8 = 0
    BY ArenasAssumption
  <2>. QED  BY <2>1, <2>2 DEF ArenaData, FrontSize, BackSize
<1>5. GetBackControl(k, base) = back /\ Following(k, base) = base + MemAllocatedAtOnce
  <2>1. base \in DOMAIN k.fc
    BY <1>2
  <2>. QED  BY <1>2, <1>4, <2>1, BlockPlaces
<1>6. \A x \in DOMAIN h.fc : GetBackControl(h, x) # back
  <2>. TAKE x \in DOMAIN h.fc
  <2>. QED  BY <1>1, <1>4, BlockPlaces
<1>. HIDE DEF back
<1>7. Backs(k)
  <2>1. /\ DOMAIN h.bc = {GetBackControl(h, x) : x \in DOMAIN h.fc}
        /\ \A x \in DOMAIN h.fc : h.bc[GetBackControl(h, x)] = x
    BY DEF Tiling, Backs
  <2>2. DOMAIN k.bc = {GetBackControl(k, x) : x \in DOMAIN k.fc}
    <3>1. \A p \in DOMAIN k.bc : \E x \in DOMAIN k.fc : p = GetBackControl(k, x)
      BY <1>2, <1>3, <1>5, <2>1
    <3>2. \A x \in DOMAIN k.fc : GetBackControl(k, x) \in DOMAIN k.bc
      BY <1>2, <1>3, <1>5, <2>1
    <3>. QED  BY <3>1, <3>2
  <2>3. \A x \in DOMAIN k.fc : k.bc[GetBackControl(k, x)] = x
    BY <1>2, <1>3, <1>5, <1>6, <2>1
  <2>. QED  BY <2>2, <2>3 DEF Backs
<1>8. Edges(k, bases \cup {base})
  <2>1. /\ bases \subseteq DOMAIN h.fc
        /\ \A x \in DOMAIN h.fc :
             /\ h.fc[x].first <=> x \in bases
             /\ h.fc[x].last <=> Following(h, x) - MemAllocatedAtOnce \in bases
             /\ ~h.fc[x].last => Following(h, x) \in DOMAIN h.fc
             /\ ~h.fc[x].first => x - BackSize \in DOMAIN h.bc
    BY DEF Tiling, Edges
  <2>2. (base + MemAllocatedAtOnce) - MemAllocatedAtOnce = base
    BY <1>4
  <2>3. ASSUME NEW x \in DOMAIN k.fc
        PROVE  /\ k.fc[x].first <=> x \in bases \cup {base}
               /\ k.fc[x].last <=> Following(k, x) - MemAllocatedAtOnce \in bases \cup {base}
               /\ ~k.fc[x].last => Following(k, x) \in DOMAIN k.fc
               /\ ~k.fc[x].first => x - BackSize \in DOMAIN k.bc
    <3>1. CASE x = base
      BY <1>2, <1>5, <2>2, <3>1
    <3>2. CASE x # base
      <4>1. x \in DOMAIN h.fc
        BY <1>2, <3>2
      <4>2. Following(h, x) - MemAllocatedAtOnce # base
        BY <1>1, <1>4, <4>1, BlockPlaces
      <4>. QED  BY <1>2, <1>3, <2>1, <4>1, <4>2 DEF SameBlock
    <3>. QED  BY <3>1, <3>2
  <2>. QED  BY <1>2, <2>1, <2>3 DEF Edges
<1>9. Places(k, bases \cup {base})
  <2>1. /\ \A x, y \in DOMAIN h.fc : x < y => Following(h, x) <= y
        /\ \A x \in DOMAIN h.fc :
             /\ \E y \in bases : y <= x /\ Following(h, x) <= y + MemAllocatedAtOnce
             /\ x % 8 = 0 /\ h.fc[x].data_size % 8 = 0
    BY DEF Tiling, Places
  <2>2. \A x, y \in DOMAIN k.fc : x < y => Following(k, x) <= y
    <3>. TAKE x, y \in DOMAIN k.fc
    <3>1. CASE x = base /\ y = base
      BY <1>4, <3>1
    <3>2. CASE x = base /\ y # base
      BY <1>1, <1>2, <1>5, <3>2
    <3>3. CASE x # base /\ y = base
      BY <1>1, <1>2, <1>3, <3>3
    <3>4. CASE x # base /\ y # base
      BY <1>2, <1>3, <2>1, <3>4
    <3>. QED  BY <3>1, <3>2, <3>3, <3>4
  <2>3. ASSUME NEW x \in DOMAIN k.fc
        PROVE  /\ \E y \in bases \cup {base} :
                    y <= x /\ Following(k, x) <= y + MemAllocatedAtOnce
               /\ x % 8 = 0 /\ k.fc[x].data_size % 8 = 0
    <3>1. CASE x = base
      <4>1. base <= base /\ base + MemAllocatedAtOnce <= base + MemAllocatedAtOnce
        BY <1>4
      <4>. QED  BY <1>2, <1>4, <1>5, <3>1, <4>1
    <3>2. CASE x # base
      BY <1>2, <1>3, <2>1, <3>2 DEF SameBlock
    <3>. QED  BY <3>1, <3>2
  <2>. QED  BY <2>2, <2>3 DEF Places
<1>10. Joined(k)
  <2>1. ASSUME NEW x \in DOMAIN k.fc, ~k.fc[x].last, k.fc[x].owned
        PROVE  ~k.fc[Following(k, x)].owned
    <3>1. x \in DOMAIN h.fc /\ ~h.fc[x].last /\ h.fc[x].owned
      BY <1>2, <1>3, <2>1 DEF SameBlock
    <3>2. Following(h, x) \in DOMAIN h.fc /\ ~h.fc[Following(h, x)].owned
      BY <3>1 DEF Joined, Tiling, Edges
    <3>. QED  BY <1>3, <3>1, <3>2 DEF SameBlock
  <2>. QED  BY <2>1 DEF Joined
<1>. QED  BY <1>7, <1>8, <1>9, <1>10 DEF Tiling

----------------------------------------------------------------------------
(* What consumers get *)

\* The data of a block has room for the request where the shift leads, and the pointer
\* to an object is aligned.
LEMMA ShiftFits ==
    ASSUME NEW r \in Requests, NEW a \in Nat, a % 8 = 0
    PROVE  /\ Shift(a, r) \in Nat /\ Shift(a, r) + r.size <= SizeWithAlignment(r)
           /\ r.size > 0 => (a + 24 + Shift(a, r)) % r.alignment = 0
<1>. DEFINE raw == (-(a + 24)) % r.alignment
            size == SizeWithAlignment(r)
<1>1. /\ r.size \in Nat /\ r.struct_size \in Nat
      /\ r.alignment \in {1, 2, 4, 8, 16, 32, 64, 128}
      /\ r.size = 0 \/ r.size >= r.struct_size
  BY RequestsAssumption
<1>2. Shift(a, r) = IF raw + r.struct_size <= size THEN raw ELSE 0
  BY DEF Shift, FrontSize
<1>3. /\ size \in Nat /\ r.size <= size
      /\ r.size + r.alignment - 8 <= size
  BY <1>1 DEF SizeWithAlignment
<1>4. /\ raw \in Nat
      /\ raw = 0 \/ raw <= r.alignment - 8
      /\ (a + 24 + raw) % r.alignment = 0
  <2>1. CASE r.alignment \in {1, 2, 4, 8}
    BY <2>1
  <2>2. CASE r.alignment = 16
    BY <2>2
  <2>3. CASE r.alignment = 32
    BY <2>3
  <2>4. CASE r.alignment = 64
    BY <2>4
  <2>5. CASE r.alignment = 128
    BY <2>5
  <2>. QED  BY <1>1, <2>1, <2>2, <2>3, <2>4, <2>5
<1>5. r.alignment \in Nat
  BY <1>1
<1>. HIDE DEF raw, size
<1>6. raw + r.size <= size
  BY <1>1, <1>3, <1>4, <1>5
<1>7. CASE raw + r.struct_size <= size
  BY <1>2, <1>4, <1>6, <1>7 DEF size
<1>8. CASE ~(raw + r.struct_size <= size)
  <2>1. r.size = 0
    BY <1>1, <1>3, <1>4, <1>6, <1>8
  <2>. QED  BY <1>2, <1>3, <1>8, <2>1 DEF size
<1>. QED  BY <1>7, <1>8

Gift(a, r) == [pointer |-> a + FrontSize + Shift(a, r), size |-> r.size,
               alignment |-> r.alignment, shift |-> Shift(a, r)]

\* What Heap allows to be given to a consumer.
MayGive(g, gifts) ==
    /\ g \notin gifts /\ \A x \in gifts : Consumers!Apart(g, x)
    /\ g.size > 0 => g.pointer % g.alignment = 0

LEMMA GivingKeepsGifts ==
    ASSUME NEW bases, NEW h, IsHeap(h), NEW gifts, Gifts(h, gifts),
           NEW k, IsHeap(k), Tiling(k, bases), NEW r \in Requests, NEW a \in DOMAIN h.fc,
           h.fc[a].owned, Taken(h, k, a, SizeWithAlignment(r))
    PROVE  Gifts(k, gifts \cup {Gift(a, r)}) /\ MayGive(Gift(a, r), gifts)
<1>. DEFINE new == Gift(a, r)
<1>1. /\ a \in Nat /\ a % 8 = 0 /\ k.fc[a].data_size \in Nat
      /\ SizeWithAlignment(r) \in Nat /\ r.size \in Nat /\ a \in DOMAIN k.fc
  <2>1. a \in DOMAIN k.fc
    BY DEF Taken
  <2>. QED  BY <2>1, BlockPlaces, RequestFacts, RequestsAssumption DEF Tiling, Places
<1>2. /\ Shift(a, r) \in Nat /\ Shift(a, r) + r.size <= SizeWithAlignment(r)
      /\ r.size > 0 => (a + 24 + Shift(a, r)) % r.alignment = 0
  BY <1>1, ShiftFits
<1>3. /\ new = [pointer |-> new.pointer, size |-> new.size, alignment |-> new.alignment,
                shift |-> new.shift]
      /\ new.pointer = a + 24 + Shift(a, r) /\ new.size = r.size /\ new.shift = Shift(a, r)
  BY DEF Gift, FrontSize
<1>. HIDE DEF new
<1>4. /\ new.pointer \in Nat /\ new.size \in Nat /\ new.shift \in Nat
      /\ FrontOf(new) = a /\ a + 24 <= new.pointer
      /\ new.pointer + new.size <= GetBackControl(k, a)
  <2>1. GetBackControl(k, a) = a + 24 + k.fc[a].data_size
    BY <1>1, BlockPlaces
  <2>2. SizeWithAlignment(r) <= k.fc[a].data_size
    BY DEF Taken
  <2>. DEFINE shift == Shift(a, r)
              size == SizeWithAlignment(r)
              room == k.fc[a].data_size
  <2>3. /\ a \in Nat /\ shift \in Nat /\ size \in Nat /\ room \in Nat /\ r.size \in Nat
        /\ shift + r.size <= size /\ size <= room
    BY <1>1, <1>2, <2>2
  <2>4. /\ new.pointer = a + 24 + shift /\ new.size = r.size /\ new.shift = shift
        /\ GetBackControl(k, a) = a + 24 + room
    BY <1>3, <2>1
  <2>. HIDE DEF shift, size, room
  <2>5. /\ new.pointer \in Nat /\ new.size \in Nat /\ new.shift \in Nat
        /\ a + 24 <= new.pointer /\ new.pointer + new.size <= GetBackControl(k, a)
    BY <2>3, <2>4
  <2>6. FrontOf(new) = a
    BY <2>3, <2>4 DEF FrontOf, FrontSize
  <2>. QED  BY <2>5, <2>6
<1>5. ASSUME NEW g \in gifts
      PROVE  /\ FrontOf(g) \in DOMAIN k.fc /\ FrontOf(g) # a
             /\ g.pointer + g.size <= GetBackControl(k, FrontOf(g))
             /\ FrontOf(g) + 24 <= g.pointer /\ g.pointer + g.size \in Nat
  <2>1. /\ FrontOf(g) \in DOMAIN h.fc /\ ~h.fc[FrontOf(g)].owned
        /\ g.pointer + g.size <= GetBackControl(h, FrontOf(g))
        /\ g.pointer \in Nat /\ g.size \in Nat /\ g.shift \in Nat
    BY DEF Gifts
  <2>2. FrontOf(g) # a
    BY <2>1
  <2>3. FrontOf(g) \in DOMAIN k.fc /\ SameBlock(h.fc[FrontOf(g)], k.fc[FrontOf(g)])
    BY <2>1, <2>2 DEF Taken
  <2>4. GetBackControl(k, FrontOf(g)) = GetBackControl(h, FrontOf(g))
    BY <2>3 DEF SameBlock, GetBackControl
  <2>5. FrontOf(g) + 24 <= g.pointer
    BY <2>1 DEF FrontOf, FrontSize
  <2>. QED  BY <2>1, <2>2, <2>3, <2>4, <2>5
<1>6. new \notin gifts
  BY <1>4, <1>5
<1>7. ASSUME NEW g \in gifts PROVE Consumers!Apart(new, g)
  <2>. DEFINE x == FrontOf(g)
  <2>1. x \in DOMAIN k.fc /\ x # a /\ x \in Nat
    BY <1>5, BlockPlaces
  <2>2. /\ x < a => Following(k, x) <= a
        /\ a < x => Following(k, a) <= x
    <3>. HIDE DEF x
    <3>. QED  BY <1>1, <2>1 DEF Tiling, Places
  <2>3. /\ Following(k, x) = GetBackControl(k, x) + 8 /\ GetBackControl(k, x) \in Nat
        /\ Following(k, a) = GetBackControl(k, a) + 8 /\ GetBackControl(k, a) \in Nat
    BY <1>1, <2>1, BlockPlaces
  <2>4. /\ g.pointer + g.size <= GetBackControl(k, x)
        /\ x + 24 <= g.pointer /\ g.pointer \in Nat /\ g.size \in Nat
    BY <1>5 DEF Gifts
  <2>. HIDE DEF x
  <2>. QED  BY <1>1, <1>4, <2>1, <2>2, <2>3, <2>4 DEF Consumers!Apart
<1>8. {FrontOf(g) : g \in gifts \cup {new}} = {x \in DOMAIN k.fc : ~k.fc[x].owned}
  <2>1. {FrontOf(g) : g \in gifts} = {x \in DOMAIN h.fc : ~h.fc[x].owned}
    BY DEF Gifts
  <2>2. {x \in DOMAIN k.fc : ~k.fc[x].owned} = {x \in DOMAIN h.fc : ~h.fc[x].owned} \cup {a}
    BY DEF Taken, SameBlock
  <2>. QED  BY <1>4, <2>1, <2>2
<1>9. Gifts(k, gifts \cup {new})
  <2>. DEFINE Well(g) ==
                /\ g = [pointer |-> g.pointer, size |-> g.size, alignment |-> g.alignment,
                        shift |-> g.shift]
                /\ g.pointer \in Nat /\ g.size \in Nat /\ g.shift \in Nat
                /\ FrontOf(g) \in DOMAIN k.fc
                /\ g.pointer + g.size <= GetBackControl(k, FrontOf(g))
  <2>1. \A g \in gifts \cup {new} : Well(g)
    <3>1. ASSUME NEW g \in gifts PROVE Well(g)
      BY <1>5 DEF Gifts
    <3>2. Well(new)
      BY <1>1, <1>3, <1>4
    <3>. HIDE DEF Well
    <3>. QED  BY <3>1, <3>2
  <2>2. \A f, g \in gifts \cup {new} : f # g => FrontOf(f) # FrontOf(g)
    BY <1>4, <1>5 DEF Gifts
  <2>. QED  BY <1>8, <2>1, <2>2 DEF Gifts
<1>10. new.size > 0 => new.pointer % new.alignment = 0
  <2>1. new.alignment = r.alignment
    BY DEF Gift, new
  <2>. QED  BY <1>2, <1>3, <2>1
<1>. QED  BY <1>6, <1>7, <1>9, <1>10 DEF new, MayGive

\* The head of the layer that a request needs serves the request.
LEMMA TakingGives ==
    ASSUME NEW bases, bases \subseteq ArenaBases, NEW h, InOrder(h, bases),
           NEW gifts, Gifts(h, gifts), NEW r \in Requests, NEW layer, NEW a,
           layer = GetUpperLog2(SizeWithAlignment(r)), a = h.layers[layer], a # NULL
    PROVE  LET k == TakeHead(h, layer, SizeWithAlignment(r))
           IN  /\ InOrder(k, bases) /\ Gifts(k, gifts \cup {Gift(a, r)})
               /\ MayGive(Gift(a, r), gifts)
<1>. DEFINE size == SizeWithAlignment(r)
            k == TakeHead(h, layer, size)
<1>1. IsHeap(h) /\ Heads(h) /\ HeadsAreFree(h) /\ Tiling(h, bases) /\ Joined(h)
  BY DEF InOrder
<1>2. layer \in Layers /\ size \in Nat /\ size % 8 = 0
  BY RequestFacts
<1>3. a \in DOMAIN h.fc /\ h.fc[a].owned /\ LayerOf(h.fc[a]) = layer
  BY <1>1, <1>2 DEF Heads, HeadsAreFree
<1>4. size <= h.fc[a].data_size
  <2>1. h.fc[a].data_size \in Nat /\ h.fc[a].source_layer \in Nat
    BY <1>1, <1>3 DEF IsHeap, Fronts, Layers
  <2>2. GetLowerLog2(h.fc[a].data_size) \in Nat
    BY LogsAreNatural
  <2>3. layer <= GetLowerLog2(h.fc[a].data_size)
    BY <1>3, <2>1, <2>2 DEF LayerOf, Smaller
  <2>. QED  BY <1>2, <2>1, <2>3, LayersServe
<1>5. /\ IsHeap(k) /\ Heads(k) /\ HeadsAreFree(k) /\ Tiling(k, bases) /\ Joined(k)
      /\ Taken(h, k, a, size)
  <2>. HIDE DEF size
  <2>. QED  BY <1>1, <1>2, <1>4, TakeHeadTakes
<1>. HIDE DEF k
<1>6. Gifts(k, gifts \cup {Gift(a, r)}) /\ MayGive(Gift(a, r), gifts)
  <2>1. /\ IsHeap(h) /\ Gifts(h, gifts) /\ IsHeap(k) /\ Tiling(k, bases)
        /\ a \in DOMAIN h.fc /\ h.fc[a].owned /\ Taken(h, k, a, SizeWithAlignment(r))
    BY <1>1, <1>3, <1>5
  <2>. QED  BY <2>1, GivingKeepsGifts
<1>. QED  BY <1>5, <1>6 DEF InOrder, k

\* A new arena has a block for the request, and nothing that consumers have.
LEMMA AddingKeepsGifts ==
    ASSUME NEW bases, bases \subseteq ArenaBases, NEW h, InOrder(h, bases),
           NEW gifts, Gifts(h, gifts), NEW base \in ArenaBases \ bases,
           NEW layer \in Layers, layer <= GetLowerLog2(ArenaData)
    PROVE  LET k == AddArena(h, base, layer)
           IN  /\ InOrder(k, bases \cup {base}) /\ Gifts(k, gifts)
               /\ k.layers[layer] = base /\ base # NULL
<1>. DEFINE k == AddArena(h, base, layer)
<1>1. IsHeap(h) /\ Heads(h) /\ HeadsAreFree(h) /\ Tiling(h, bases) /\ Joined(h)
  BY DEF InOrder
<1>2. base \notin DOMAIN h.fc
  BY <1>1, ArenaIsUnused
<1>3. /\ IsHeap(k) /\ Heads(k) /\ HeadsAreFree(k) /\ ArenaAdded(h, k, base)
      /\ k.layers[layer] = base
  BY <1>1, <1>2, AddArenaAdds
<1>. HIDE DEF k
<1>4. Tiling(k, bases \cup {base}) /\ Joined(k)
  BY <1>1, <1>3, ArenaTiles
<1>5. Gifts(k, gifts)
  <2>1. {x \in DOMAIN k.fc : ~k.fc[x].owned} = {x \in DOMAIN h.fc : ~h.fc[x].owned}
    BY <1>3 DEF ArenaAdded, SameBlock
  <2>2. \A x \in DOMAIN h.fc : x \in DOMAIN k.fc /\ GetBackControl(k, x) = GetBackControl(h, x)
    BY <1>3 DEF ArenaAdded, SameBlock, GetBackControl
  <2>. QED  BY <2>1, <2>2 DEF Gifts
<1>6. base # NULL
  BY ArenasAssumption
<1>. QED  BY <1>3, <1>4, <1>5, <1>6 DEF InOrder, k

LEMMA SetHeapSets == ASSUME NEW k, IsHeap(k), SetHeap(k) PROVE heap' = k
  BY DEF SetHeap, IsHeap, heap

\* A step of Allocate gives a consumer memory that Heap allows to be given.
LEMMA AllocateGives ==
    ASSUME IInv, NEW r \in Requests, Allocate(r)
    PROVE  /\ IInv'
           /\ UNCHANGED vars \/ \E g : MayGive(g, given) /\ given' = given \cup {g}
<1>. DEFINE size == SizeWithAlignment(r)
            layer == GetUpperLog2(size)
<1>1. /\ layer \in Layers /\ layer <= GetLowerLog2(ArenaData)
      /\ arenas \subseteq ArenaBases /\ InOrder(heap, arenas) /\ Gifts(heap, given)
  BY RequestFacts DEF IInv
<1>2. \A a : Give(a, r) => given' = given \cup {Gift(a, r)}
  BY DEF Give, Gift
<1>3. ASSUME NEW bases, bases \subseteq ArenaBases, NEW h, InOrder(h, bases),
             Gifts(h, given), NEW a, a = h.layers[layer], a # NULL,
             SetHeap(TakeHead(h, layer, size)), Give(a, r), arenas' = bases
      PROVE  IInv' /\ \E g : MayGive(g, given) /\ given' = given \cup {g}
  <2>. DEFINE k == TakeHead(h, layer, size)
  <2>1. InOrder(k, bases) /\ Gifts(k, given \cup {Gift(a, r)}) /\ MayGive(Gift(a, r), given)
    <3>. DEFINE gifts == given
    <3>1. Gifts(h, gifts)
      BY <1>3
    <3>. HIDE DEF gifts
    <3>2. InOrder(k, bases) /\ Gifts(k, gifts \cup {Gift(a, r)}) /\ MayGive(Gift(a, r), gifts)
      <4>1. layer = GetUpperLog2(SizeWithAlignment(r))
        OBVIOUS
      <4>. HIDE DEF layer
      <4>. QED  BY <1>3, <3>1, <4>1, TakingGives
    <3>. QED  BY <3>2 DEF gifts
  <2>2. SetHeap(k) /\ given' = given \cup {Gift(a, r)} /\ arenas' = bases
    BY <1>2, <1>3
  <2>. HIDE DEF k
  <2>3. heap' = k
    BY <2>1, <2>2, SetHeapSets DEF InOrder
  <2>4. IInv'
    BY <1>3, <2>1, <2>2, <2>3 DEF IInv
  <2>. QED  BY <2>1, <2>2, <2>4
<1>4. CASE /\ layers[layer] # NULL /\ UNCHANGED arenas
           /\ SetHeap(TakeHead(heap, layer, size)) /\ Give(layers[layer], r)
  <2>1. layers[layer] = heap.layers[layer]
    BY DEF heap
  <2>. HIDE DEF layer, size
  <2>. QED  BY <1>1, <1>3, <1>4, <2>1
<1>5. ASSUME layers[layer] = NULL, NEW base \in ArenaBases \ arenas,
             arenas' = arenas \cup {base},
             SetHeap(TakeHead(AddArena(heap, base, layer), layer, size)), Give(base, r)
      PROVE  IInv' /\ \E g : MayGive(g, given) /\ given' = given \cup {g}
  <2>. DEFINE h == AddArena(heap, base, layer)
              bases == arenas \cup {base}
  <2>1. /\ InOrder(h, bases) /\ Gifts(h, given)
        /\ base = h.layers[layer] /\ base # NULL /\ bases \subseteq ArenaBases
    <3>. HIDE DEF layer
    <3>. QED  BY <1>1, AddingKeepsGifts
  <2>2. SetHeap(TakeHead(h, layer, size)) /\ Give(base, r) /\ arenas' = bases
    BY <1>5
  <2>. HIDE DEF h, bases, layer, size
  <2>. QED  BY <1>3, <2>1, <2>2
<1>6. CASE UNCHANGED vars
  <2>1. heap' = heap /\ arenas' = arenas /\ given' = given
    BY <1>6 DEF vars, heap
  <2>2. IInv'
    BY <1>1, <2>1 DEF IInv
  <2>. QED  BY <1>6, <2>2
<1>. QED
  <2>1. \/ /\ layers[layer] # NULL /\ UNCHANGED arenas
           /\ SetHeap(TakeHead(heap, layer, size)) /\ Give(layers[layer], r)
        \/ \E base \in ArenaBases \ arenas :
             /\ layers[layer] = NULL /\ arenas' = arenas \cup {base}
             /\ SetHeap(TakeHead(AddArena(heap, base, layer), layer, size))
             /\ Give(base, r)
        \/ UNCHANGED vars
    BY DEF Allocate
  <2>. HIDE DEF layer, size
  <2>. QED  BY <1>4, <1>5, <1>6, <2>1

----------------------------------------------------------------------------
(* What consumers give back *)

\* Consumers have in k what they have in h.
SameTaken(h, k) ==
    /\ \A x \in DOMAIN h.fc : ~h.fc[x].owned => x \in DOMAIN k.fc /\ SameBlock(h.fc[x], k.fc[x])
    /\ \A x \in DOMAIN k.fc : ~k.fc[x].owned => x \in DOMAIN h.fc /\ ~h.fc[x].owned

LEMMA SameTakenKeepsGifts ==
    ASSUME NEW h, NEW k, SameTaken(h, k), NEW gifts, Gifts(h, gifts) PROVE Gifts(k, gifts)
<1>1. {x \in DOMAIN k.fc : ~k.fc[x].owned} = {x \in DOMAIN h.fc : ~h.fc[x].owned}
  BY DEF SameTaken, SameBlock
<1>2. ASSUME NEW g \in gifts
      PROVE  /\ FrontOf(g) \in DOMAIN k.fc
             /\ GetBackControl(k, FrontOf(g)) = GetBackControl(h, FrontOf(g))
  <2>1. FrontOf(g) \in DOMAIN h.fc /\ ~h.fc[FrontOf(g)].owned
    BY DEF Gifts
  <2>2. FrontOf(g) \in DOMAIN k.fc /\ SameBlock(h.fc[FrontOf(g)], k.fc[FrontOf(g)])
    BY <2>1 DEF SameTaken
  <2>. QED  BY <2>2 DEF SameBlock, GetBackControl
<1>. QED  BY <1>1, <1>2 DEF Gifts

\* The block at x is free, and so is the next one.
Together(h, x) == ~h.fc[x].last /\ h.fc[x].owned /\ h.fc[Following(h, x)].owned

\* The block before a is the one that the control word before a points to.
LEMMA PreviousPlaces ==
    ASSUME NEW bases, NEW h, IsHeap(h), Tiling(h, bases), NEW a \in DOMAIN h.fc
    PROVE  /\ ~h.fc[a].first => /\ h.bc[a - 8] \in DOMAIN h.fc
                                /\ Following(h, h.bc[a - 8]) = a
           /\ \A x \in DOMAIN h.fc : Following(h, x) = a => h.bc[a - 8] = x
<1>1. ASSUME ~h.fc[a].first
      PROVE  h.bc[a - 8] \in DOMAIN h.fc /\ Following(h, h.bc[a - 8]) = a
  <2>1. a - 8 \in DOMAIN h.bc
    BY <1>1 DEF Tiling, Edges, BackSize
  <2>2. PICK p \in DOMAIN h.fc : GetBackControl(h, p) = a - 8
    BY <2>1 DEF Tiling, Backs
  <2>3. h.bc[a - 8] = p
    BY <2>2 DEF Tiling, Backs
  <2>4. a \in Nat /\ Following(h, p) = GetBackControl(h, p) + 8
    BY BlockPlaces
  <2>. QED  BY <2>2, <2>3, <2>4
<1>2. ASSUME NEW x \in DOMAIN h.fc, Following(h, x) = a PROVE h.bc[a - 8] = x
  <2>1. GetBackControl(h, x) = a - 8
    BY <1>2, BlockPlaces
  <2>. QED  BY <2>1 DEF Tiling, Backs
<1>. QED  BY <1>1, <1>2

\* Joining two free neighbours keeps the heap in order, but for pairs of free
\* neighbours that were there before.
LEMMA JoiningKeeps ==
    ASSUME NEW bases, bases \subseteq ArenaBases,
           NEW h, IsHeap(h), Heads(h), HeadsAreFree(h), Tiling(h, bases),
           NEW a \in DOMAIN h.fc, ~h.fc[a].last, h.fc[a].owned,
           NEW b \in DOMAIN h.fc, b = Following(h, a), h.fc[b].owned
    PROVE  LET k == Join(h, a, b)
           IN  /\ IsHeap(k) /\ Heads(k) /\ HeadsAreFree(k) /\ Tiling(k, bases)
               /\ DOMAIN k.fc = DOMAIN h.fc \ {b} /\ k.fc[a].owned /\ SameTaken(h, k)
               /\ \A x \in DOMAIN k.fc \ {a} : Together(k, x) => Together(h, x)
               /\ Together(k, a) => Together(h, b)
<1>. DEFINE k == Join(h, a, b)
<1>1. /\ \A x \in DOMAIN h.fc : x \in Nat /\ Following(h, x) \in Nat /\ x < Following(h, x)
      /\ \A x \in DOMAIN h.fc : x # NULL
  BY BlockPlaces
<1>2. a \in Nat /\ b \in Nat /\ a < b /\ a # b
  BY <1>1
<1>3. b \notin bases
  BY NoArenaFollows
<1>4. /\ IsHeap(k) /\ Heads(k) /\ JoinedBlocks(h, k, a, b)
      /\ \A l \in Layers : k.layers[l] \in {NULL, a, h.layers[l]} /\ k.layers[l] # b
  BY <1>2, JoinJoins
<1>. HIDE DEF k
<1>5. Tiling(k, bases)
  BY <1>3, <1>4, JoinTiles
<1>6. /\ DOMAIN k.fc = DOMAIN h.fc \ {b} /\ k.fc[a].owned
      /\ \A x \in DOMAIN h.fc \ {a, b} : SameBlock(h.fc[x], k.fc[x])
      /\ k.fc[a].last => h.fc[b].last
      /\ h.fc[b].last => k.fc[a].last
  BY <1>4 DEF JoinedBlocks
<1>7. SameTaken(h, k)
  BY <1>2, <1>6 DEF SameTaken, SameBlock
<1>8. HeadsAreFree(k)
  <2>1. ASSUME NEW l \in Layers, k.layers[l] # NULL PROVE k.fc[k.layers[l]].owned
    <3>1. CASE k.layers[l] = a
      BY <1>6, <3>1
    <3>2. CASE k.layers[l] # a
      <4>1. k.layers[l] = h.layers[l] /\ k.layers[l] \notin {a, b}
        BY <1>4, <2>1, <3>2
      <4>2. h.layers[l] \in DOMAIN h.fc /\ h.fc[h.layers[l]].owned
        BY <2>1, <4>1 DEF Heads, HeadsAreFree
      <4>. QED  BY <1>6, <4>1, <4>2 DEF SameBlock
    <3>. QED  BY <3>1, <3>2
  <2>. QED  BY <2>1 DEF HeadsAreFree
<1>9. ASSUME NEW x \in DOMAIN k.fc \ {a}, Together(k, x) PROVE Together(h, x)
  <2>1. x \in DOMAIN h.fc \ {a, b} /\ SameBlock(h.fc[x], k.fc[x])
    BY <1>6, <1>9
  <2>2. Following(k, x) = Following(h, x) /\ ~h.fc[x].last /\ h.fc[x].owned
    BY <1>9, <2>1 DEF Together, SameBlock, Following, GetBackControl
  <2>3. Following(h, x) \in DOMAIN h.fc
    BY <2>1, <2>2 DEF Tiling, Edges
  <2>4. h.fc[Following(h, x)].owned
    <3>1. CASE Following(h, x) \in {a, b}
      BY <3>1
    <3>2. CASE Following(h, x) \notin {a, b}
      BY <1>6, <1>9, <2>2, <2>3, <3>2 DEF Together, SameBlock
    <3>. QED  BY <3>1, <3>2
  <2>. QED  BY <2>2, <2>4 DEF Together
<1>10. ASSUME Together(k, a) PROVE Together(h, b)
  <2>1. Following(k, a) = Following(h, b)
    <3>1. k.fc[a].data_size = h.fc[a].data_size + 32 + h.fc[b].data_size
      <4>1. h.fc[a].data_size \in Nat /\ h.fc[b].data_size \in Nat
        BY BlockPlaces
      <4>. QED  BY <1>4, <4>1 DEF JoinedBlocks, FrontSize, BackSize
    <3>2. a \in DOMAIN k.fc /\ Following(k, a) = a + 32 + k.fc[a].data_size
      BY <1>2, <1>4, <1>6, BlockPlaces
    <3>3. /\ h.fc[a].data_size \in Nat /\ b = a + 32 + h.fc[a].data_size
          /\ h.fc[b].data_size \in Nat /\ Following(h, b) = b + 32 + h.fc[b].data_size
      BY BlockPlaces
    <3>. QED  BY <1>2, <3>1, <3>2, <3>3
  <2>2. ~h.fc[b].last /\ k.fc[Following(h, b)].owned
    BY <1>6, <1>10, <2>1 DEF Together
  <2>3. Following(h, b) \in DOMAIN h.fc \ {a, b}
    <3>1. Following(h, b) \in DOMAIN h.fc
      BY <2>2 DEF Tiling, Edges
    <3>2. b < Following(h, b) /\ Following(h, b) \in Nat
      BY <1>1
    <3>. QED  BY <1>2, <3>1, <3>2
  <2>. QED  BY <1>6, <2>2, <2>3 DEF Together, SameBlock
<1>. QED  BY <1>4, <1>5, <1>6, <1>7, <1>8, <1>9, <1>10 DEF k

\* The heap o has a block that has come back: it is free, and at most its neighbours
\* are to be joined with it.
LEMMA PreviousIsJoined ==
    ASSUME NEW bases, bases \subseteq ArenaBases,
           NEW h, IsHeap(h), Heads(h), HeadsAreFree(h), Tiling(h, bases),
           NEW a \in DOMAIN h.fc, h.fc[a].owned,
           \A x \in DOMAIN h.fc : Together(h, x) => x = a \/ Following(h, x) = a
    PROVE  LET k == JoinPrevious(h, a).heap
               c == JoinPrevious(h, a).block
           IN  /\ IsHeap(k) /\ Heads(k) /\ HeadsAreFree(k) /\ Tiling(k, bases)
               /\ SameTaken(h, k) /\ c \in DOMAIN k.fc /\ k.fc[c].owned
               /\ \A x \in DOMAIN k.fc : Together(k, x) => x = c
<1>. DEFINE p == h.bc[a - 8]
            k == JoinPrevious(h, a).heap
            c == JoinPrevious(h, a).block
            Kept(i, d) == /\ IsHeap(i) /\ Heads(i) /\ HeadsAreFree(i) /\ Tiling(i, bases)
                          /\ SameTaken(h, i) /\ d \in DOMAIN i.fc /\ i.fc[d].owned
                          /\ \A x \in DOMAIN i.fc : Together(i, x) => x = d
<1>1. /\ ~h.fc[a].first => p \in DOMAIN h.fc /\ Following(h, p) = a
      /\ \A x \in DOMAIN h.fc : Following(h, x) = a => p = x
  BY PreviousPlaces
<1>2. /\ ~h.fc[a].first /\ h.fc[p].owned => k = Join(h, p, a) /\ c = p
      /\ ~(~h.fc[a].first /\ h.fc[p].owned) => k = h /\ c = a
  BY DEF JoinPrevious, BackSize
<1>. HIDE DEF p, k, c
<1>3. \A x \in DOMAIN h.fc : Following(h, x) = a /\ ~h.fc[x].last => ~h.fc[a].first
  <2>1. ASSUME NEW x \in DOMAIN h.fc, Following(h, x) = a, ~h.fc[x].last
        PROVE  ~h.fc[a].first
    <3>1. a \notin bases
      BY <2>1, NoArenaFollows
    <3>. QED  BY <3>1 DEF Tiling, Edges
  <2>. QED  BY <2>1
<1>4. ASSUME ~h.fc[a].first /\ h.fc[p].owned PROVE Kept(k, c)
  <2>1. p \in DOMAIN h.fc /\ Following(h, p) = a /\ k = Join(h, p, a) /\ c = p
    BY <1>1, <1>2, <1>4
  <2>2. ~h.fc[p].last /\ p # a
    <3>1. a \notin bases
      BY <1>4 DEF Tiling, Edges
    <3>2. p < Following(h, p) /\ p \in Nat
      BY <2>1, BlockPlaces
    <3>. QED  BY <2>1, <3>1, <3>2, NoArenaFollows
  <2>3. /\ IsHeap(k) /\ Heads(k) /\ HeadsAreFree(k) /\ Tiling(k, bases)
        /\ DOMAIN k.fc = DOMAIN h.fc \ {a} /\ k.fc[p].owned /\ SameTaken(h, k)
        /\ \A x \in DOMAIN k.fc \ {p} : Together(k, x) => Together(h, x)
    BY <1>4, <2>1, <2>2, JoiningKeeps
  <2>4. ASSUME NEW x \in DOMAIN k.fc, Together(k, x) PROVE x = p
    BY <1>1, <2>3, <2>4
  <2>. QED  BY <2>1, <2>2, <2>3, <2>4
<1>5. ASSUME ~(~h.fc[a].first /\ h.fc[p].owned) PROVE Kept(k, c)
  <2>1. k = h /\ c = a
    BY <1>2, <1>5
  <2>2. SameTaken(h, h)
    BY DEF SameTaken, SameBlock
  <2>3. ASSUME NEW x \in DOMAIN h.fc, Together(h, x) PROVE x = a
    BY <1>1, <1>3, <1>5, <2>3 DEF Together
  <2>. QED  BY <2>1, <2>2, <2>3
<1>. QED  BY <1>4, <1>5 DEF k, c

LEMMA FollowingIsJoined ==
    ASSUME NEW bases, bases \subseteq ArenaBases,
           NEW h, IsHeap(h), Heads(h), HeadsAreFree(h), Tiling(h, bases),
           NEW c \in DOMAIN h.fc, h.fc[c].owned,
           \A x \in DOMAIN h.fc : Together(h, x) => x = c
    PROVE  LET k == JoinFollowing(h, c) IN InOrder(k, bases) /\ SameTaken(h, k)
<1>. DEFINE f == Following(h, c)
            k == JoinFollowing(h, c)
<1>1. k = IF ~h.fc[c].last /\ h.fc[f].owned THEN Join(h, c, f) ELSE h
  BY DEF JoinFollowing
<1>2. \A i : (\A x \in DOMAIN i.fc : ~Together(i, x)) => Joined(i)
  BY DEF Joined, Together
<1>. HIDE DEF k
<1>3. CASE ~h.fc[c].last /\ h.fc[f].owned
  <2>1. f \in DOMAIN h.fc /\ f # c /\ k = Join(h, c, f)
    <3>1. f \in DOMAIN h.fc
      BY <1>3 DEF Tiling, Edges
    <3>2. c < f /\ c \in Nat
      BY BlockPlaces
    <3>. QED  BY <1>1, <1>3, <3>1, <3>2
  <2>2. /\ IsHeap(k) /\ Heads(k) /\ HeadsAreFree(k) /\ Tiling(k, bases)
        /\ DOMAIN k.fc = DOMAIN h.fc \ {f} /\ SameTaken(h, k)
        /\ \A x \in DOMAIN k.fc \ {c} : Together(k, x) => Together(h, x)
        /\ Together(k, c) => Together(h, f)
    BY <1>3, <2>1, JoiningKeeps
  <2>3. \A x \in DOMAIN k.fc : ~Together(k, x)
    BY <2>1, <2>2
  <2>. QED  BY <1>2, <2>2, <2>3 DEF InOrder, k
<1>4. CASE ~(~h.fc[c].last /\ h.fc[f].owned)
  <2>1. k = h /\ SameTaken(h, h)
    BY <1>1, <1>4 DEF SameTaken, SameBlock
  <2>2. \A x \in DOMAIN h.fc : ~Together(h, x)
    BY <1>4 DEF Together
  <2>. QED  BY <1>2, <2>1, <2>2 DEF InOrder, k
<1>. QED  BY <1>3, <1>4

\* The heap after a block has come back.
Returned(h, a) == LET joined == JoinPrevious(SetOwned(Attach(h, a), a, TRUE), a)
                  IN  JoinFollowing(joined.heap, joined.block)

LEMMA ReturningKeeps ==
    ASSUME NEW bases, bases \subseteq ArenaBases, NEW h, InOrder(h, bases),
           NEW gifts, Gifts(h, gifts), NEW g \in gifts
    PROVE  /\ InOrder(Returned(h, FrontOf(g)), bases)
           /\ Gifts(Returned(h, FrontOf(g)), gifts \ {g})
<1>. DEFINE a == FrontOf(g)
            att == Attach(h, a)
            returned == TRUE
            o == SetOwned(att, a, returned)
            j == JoinPrevious(o, a).heap
            c == JoinPrevious(o, a).block
            k == JoinFollowing(j, c)
<1>1. /\ IsHeap(h) /\ Heads(h) /\ HeadsAreFree(h) /\ Tiling(h, bases) /\ Joined(h)
      /\ a \in DOMAIN h.fc /\ Returned(h, a) = k
  BY DEF InOrder, Gifts, Returned
<1>2. returned \in BOOLEAN /\ returned
  OBVIOUS
<1>. HIDE DEF a, returned
<1>3. /\ Relinked(h, att) /\ Heads(att) /\ \A l \in Layers : att.layers[l] \in {a, h.layers[l]}
  BY <1>1, AttachRelinks, AttachKeepsHeads
<1>. HIDE DEF att
<1>4. IsHeap(att) /\ a \in DOMAIN att.fc
  BY <1>1, <1>3, RelinkedPlaces DEF Relinked
<1>5. /\ IsHeap(o) /\ Heads(o) /\ SameTiles(att, o) /\ o.layers = att.layers
      /\ o.fc[a].owned = returned /\ \A x \in DOMAIN att.fc \ {a} : o.fc[x] = att.fc[x]
  <2>1. IsHeap(att) /\ Heads(att) /\ a \in DOMAIN att.fc /\ returned \in BOOLEAN
    BY <1>2, <1>3, <1>4
  <2>. QED  BY ONLY <2>1, SetOwnedSets
<1>. HIDE DEF o
<1>6. /\ DOMAIN o.fc = DOMAIN h.fc /\ SameTiles(h, o) /\ o.fc[a].owned
      /\ \A x \in DOMAIN h.fc \ {a} : SameBlock(h.fc[x], o.fc[x])
      /\ \A x \in DOMAIN h.fc : /\ GetBackControl(o, x) = GetBackControl(h, x)
                                /\ Following(o, x) = Following(h, x)
  <2>1. /\ DOMAIN o.fc = DOMAIN h.fc /\ SameTiles(h, o) /\ o.fc[a].owned
        /\ \A x \in DOMAIN h.fc \ {a} : SameBlock(h.fc[x], o.fc[x])
    BY <1>2, <1>3, <1>5 DEF Relinked, SameBlocks, SameBlock, SameTiles
  <2>. QED  BY <2>1 DEF SameTiles, GetBackControl, Following
<1>7. Tiling(o, bases)
  BY <1>1, <1>6, SameTilesTile
<1>8. HeadsAreFree(o)
  <2>1. ASSUME NEW l \in Layers, o.layers[l] # NULL PROVE o.fc[o.layers[l]].owned
    <3>1. CASE o.layers[l] = a
      BY <1>6, <3>1
    <3>2. CASE o.layers[l] # a
      <4>1. o.layers[l] = h.layers[l]
        BY <1>3, <1>5, <3>2
      <4>2. h.layers[l] \in DOMAIN h.fc /\ h.fc[h.layers[l]].owned
        BY <1>1, <2>1, <4>1 DEF Heads, HeadsAreFree
      <4>. QED  BY <1>6, <3>2, <4>1, <4>2 DEF SameBlock
    <3>. QED  BY <3>1, <3>2
  <2>. QED  BY <2>1 DEF HeadsAreFree
<1>9. ASSUME NEW x \in DOMAIN o.fc, Together(o, x) PROVE x = a \/ Following(o, x) = a
  <2>1. SUFFICES ASSUME x # a, Following(o, x) # a PROVE FALSE
    OBVIOUS
  <2>2. /\ x \in DOMAIN h.fc \ {a} /\ SameBlock(h.fc[x], o.fc[x])
        /\ Following(o, x) = Following(h, x)
    BY <1>6, <2>1
  <2>3. ~h.fc[x].last /\ h.fc[x].owned /\ Following(h, x) \in DOMAIN h.fc \ {a}
    BY <1>1, <1>9, <2>1, <2>2 DEF Together, SameBlock, Tiling, Edges
  <2>4. h.fc[Following(h, x)].owned
    BY <1>6, <1>9, <2>2, <2>3 DEF Together, SameBlock
  <2>5. x \in DOMAIN h.fc
    BY <2>2
  <2>. QED  BY <1>1, <2>3, <2>4, <2>5 DEF Joined
<1>10. Gifts(o, gifts \ {g})
  <2>1. {x \in DOMAIN o.fc : ~o.fc[x].owned} = {x \in DOMAIN h.fc : ~h.fc[x].owned} \ {a}
    BY <1>6 DEF SameBlock
  <2>2. {FrontOf(x) : x \in gifts \ {g}} = {FrontOf(x) : x \in gifts} \ {a}
    BY DEF Gifts, a
  <2>3. {FrontOf(x) : x \in gifts \ {g}} = {x \in DOMAIN o.fc : ~o.fc[x].owned}
    BY <2>1, <2>2 DEF Gifts
  <2>. QED  BY <1>6, <2>3 DEF Gifts
<1>11. a \in DOMAIN o.fc
  BY <1>1, <1>6
<1>12. /\ IsHeap(j) /\ Heads(j) /\ HeadsAreFree(j) /\ Tiling(j, bases)
       /\ SameTaken(o, j) /\ c \in DOMAIN j.fc /\ j.fc[c].owned
       /\ \A x \in DOMAIN j.fc : Together(j, x) => x = c
  BY <1>5, <1>6, <1>7, <1>8, <1>9, <1>11, PreviousIsJoined
<1>. HIDE DEF j, c
<1>13. InOrder(k, bases) /\ SameTaken(j, k)
  BY <1>12, FollowingIsJoined
<1>. HIDE DEF k
<1>14. Gifts(k, gifts \ {g})
  <2>1. Gifts(j, gifts \ {g})
    BY <1>10, <1>12, SameTakenKeepsGifts
  <2>. QED  BY <1>13, <2>1, SameTakenKeepsGifts
<1>. QED  BY <1>1, <1>13, <1>14 DEF a

\* A step of Deallocate takes what a consumer gives back.
LEMMA DeallocateTakes ==
    ASSUME IInv, NEW g \in given, Deallocate(g) PROVE IInv' /\ given' = given \ {g}
<1>. DEFINE k == Returned(heap, FrontOf(g))
<1>1. arenas \subseteq ArenaBases /\ InOrder(heap, arenas) /\ Gifts(heap, given)
  BY DEF IInv
<1>2. InOrder(k, arenas) /\ Gifts(k, given \ {g})
  BY <1>1, ReturningKeeps
<1>3. SetHeap(k) /\ given' = given \ {g} /\ arenas' = arenas
  BY DEF Deallocate, Returned, FrontOf
<1>. HIDE DEF k
<1>4. heap' = k
  BY <1>2, <1>3, SetHeapSets DEF InOrder
<1>. QED  BY <1>1, <1>2, <1>3, <1>4 DEF IInv

----------------------------------------------------------------------------
(* The theorems *)

LEMMA InitHolds == Init => IInv
<1>. SUFFICES ASSUME Init PROVE IInv
  OBVIOUS
<1>1. /\ layers = [l \in Layers |-> NULL] /\ DOMAIN fc = {} /\ DOMAIN bc = {}
      /\ arenas = {} /\ given = {}
  BY DEF Init
<1>2. fc \in [DOMAIN fc -> Fronts] /\ bc \in [DOMAIN bc -> Nat]
  BY <1>1 DEF Init
<1>3. heap.layers = layers /\ heap.fc = fc /\ heap.bc = bc /\ heap.damaged = damaged
  BY DEF heap
<1>4. IsHeap(heap)
  <2>1. heap = [layers |-> heap.layers, fc |-> heap.fc, bc |-> heap.bc,
                damaged |-> heap.damaged]
    BY DEF heap
  <2>. HIDE DEF heap
  <2>. QED  BY <1>1, <1>2, <1>3, <2>1 DEF IsHeap
<1>5. Heads(heap) /\ HeadsAreFree(heap)
  BY <1>1, <1>3 DEF Heads, HeadsAreFree
<1>6. Tiling(heap, arenas) /\ Joined(heap)
  BY <1>1, <1>3 DEF Tiling, Backs, Edges, Places, Joined
<1>7. Gifts(heap, given)
  BY <1>1, <1>3 DEF Gifts
<1>. QED  BY <1>1, <1>4, <1>5, <1>6, <1>7 DEF IInv, InOrder

LEMMA StepKeeps == IInv /\ [Next]_vars => IInv' /\ [Consumers!Next]_given
<1>. SUFFICES ASSUME IInv, [Next]_vars PROVE IInv' /\ [Consumers!Next]_given
  OBVIOUS
<1>1. ASSUME NEW r \in Requests, Allocate(r) PROVE IInv' /\ [Consumers!Next]_given
  <2>1. IInv' /\ (UNCHANGED vars \/ \E g : MayGive(g, given) /\ given' = given \cup {g})
    BY <1>1, AllocateGives
  <2>2. CASE UNCHANGED vars
    BY <2>1, <2>2 DEF vars
  <2>3. ASSUME NEW g, MayGive(g, given), given' = given \cup {g} PROVE Consumers!Allocate
    <3>1. g \in given' \ given
      BY <2>3 DEF MayGive
    <3>. QED  BY <2>3, <3>1 DEF Consumers!Allocate, MayGive
  <2>. QED  BY <2>1, <2>2, <2>3 DEF Consumers!Next
<1>2. ASSUME NEW g \in given, Deallocate(g) PROVE IInv' /\ [Consumers!Next]_given
  <2>1. IInv' /\ given' = given \ {g}
    BY <1>2, DeallocateTakes
  <2>. QED  BY <2>1 DEF Consumers!Next, Consumers!Deallocate
<1>3. CASE UNCHANGED vars
  <2>1. heap' = heap /\ arenas' = arenas /\ given' = given
    BY <1>3 DEF vars, heap
  <2>. QED  BY <2>1 DEF IInv
<1>4. CASE Undefined
  BY <1>3, <1>4 DEF Undefined
<1>. QED  BY <1>1, <1>2, <1>3, <1>4 DEF Next

LEMMA Invariance == Spec => []IInv
<1>1. Init => IInv
  BY InitHolds
<1>2. IInv /\ [Next]_vars => IInv'
  BY StepKeeps
<1>. QED  BY <1>1, <1>2, PTL DEF Spec

LEMMA HeapFields == heap.layers = layers /\ heap.fc = fc /\ heap.bc = bc
  BY DEF heap

\* From the start of an arena to its end, block follows on block, and the control words
\* by which Deallocate finds the neighbours say where they are.
THEOREM BlocksAlwaysTile == Spec => []BlocksTile
<1>1. IInv => BlocksTile
  BY HeapFields DEF IInv, InOrder, Tiling, Backs, Edges, BlocksTile
<1>. QED  BY <1>1, Invariance, PTL

\* Each consumer has the data of a block of its own, and no block is lost: one that is
\* not the allocator's is some consumer's.
THEOREM ConsumersAlwaysApart == Spec => []ConsumersApart
<1>1. IInv => ConsumersApart
  BY HeapFields DEF IInv, Gifts, ConsumersApart
<1>. QED  BY <1>1, Invariance, PTL

\* Deallocate leaves no two free neighbours.
THEOREM AlwaysCoalesced == Spec => []Coalesced
<1>1. IInv => Coalesced
  BY HeapFields DEF IInv, InOrder, Joined, Coalesced
<1>. QED  BY <1>1, Invariance, PTL

\* What Allocate takes from a layer is free and large enough.
THEOREM HeadsAlwaysServe == Spec => []HeadsServe
<1>1. IInv => HeadsServe
  <2>1. SUFFICES ASSUME IInv, NEW l \in Layers, layers[l] # NULL
                 PROVE  /\ fc[layers[l]].owned
                        /\ \A r \in Requests : GetUpperLog2(SizeWithAlignment(r)) = l =>
                             SizeWithAlignment(r) <= fc[layers[l]].data_size
    BY DEF HeadsServe
  <2>. DEFINE a == layers[l]
  <2>2. IsHeap(heap) /\ Heads(heap) /\ HeadsAreFree(heap)
    BY <2>1 DEF IInv, InOrder
  <2>3. a \in DOMAIN fc /\ LayerOf(fc[a]) = l /\ fc[a].owned
    BY <2>1, <2>2, HeapFields DEF Heads, HeadsAreFree
  <2>4. fc[a].data_size \in Nat /\ fc[a].source_layer \in Nat
    BY <2>2, <2>3, HeapFields DEF IsHeap, Fronts, Layers
  <2>. HIDE DEF a
  <2>5. GetLowerLog2(fc[a].data_size) \in Nat
    BY LogsAreNatural
  <2>6. l <= GetLowerLog2(fc[a].data_size)
    BY <2>3, <2>4, <2>5 DEF LayerOf, Smaller
  <2>7. ASSUME NEW r \in Requests, GetUpperLog2(SizeWithAlignment(r)) = l
        PROVE  SizeWithAlignment(r) <= fc[a].data_size
    BY <2>4, <2>6, <2>7, RequestFacts, LayersServe
  <2>. QED  BY <2>3, <2>7 DEF a
<1>. QED  BY <1>1, Invariance, PTL

\* What consumers see is a heap: memory with the alignment they asked for, of which no
\* byte is another consumer's.
THEOREM AllocatorImplementsHeap == Spec => ImplementsHeap
<1>1. Init => Consumers!Init
  BY DEF Init, Consumers!Init
<1>2. IInv /\ [Next]_vars => [Consumers!Next]_given
  BY StepKeeps
<1>. QED  BY <1>1, <1>2, Invariance, PTL DEF Spec, ImplementsHeap, Consumers!Spec
=============================================================================
