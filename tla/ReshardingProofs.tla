-------------------------- MODULE ReshardingProofs --------------------------
(***************************************************************************)
(* Theorems about MessagePassingTree and Resharding, for any tree of       *)
(* message processors, number of threads and measured durations: the       *)
(* indices that the constructors of the tree assign, whom the greedy       *)
(* distribution gives the message processors, how much load a thread may   *)
(* get, and whom a sender wakes.                                           *)
(***************************************************************************)
EXTENDS Resharding, WellOrder

(* The tree *)

Types == {EdgeTypes[i].from : i \in DOMAIN EdgeTypes}
         \cup {EdgeTypes[i].to : i \in DOMAIN EdgeTypes}
Length == Len(EdgeTypes)
EdgeType(i) == EdgeTypes[Length + 1 - i]  \* the one that is constructed as the i-th

NoPiper == [processors |-> <<>>, edges |-> <<>>]
Derived(piper, edge) ==
    [processors |-> AddMessageProcessorIfNotExists(
                        AddMessageProcessorIfNotExists(piper.processors, edge.from), edge.to),
     edges |-> Append(piper.edges, edge)]

\* The classes of the last n edges, by their definition.
IsPiper(f, n) ==
    f = [i \in 0 .. n |-> IF i = 0 THEN NoPiper ELSE Derived(f[i - 1], EdgeType(i))]

LEMMA EdgeTypesFacts ==
    /\ Length \in Nat \ {0} /\ DOMAIN EdgeTypes = 1 .. Length
    /\ \A i \in 1 .. Length : /\ Length + 1 - i \in 1 .. Length
                              /\ EdgeType(i).from \in Types /\ EdgeType(i).to \in Types
  <1>1. EdgeTypes \in Seq(Range(EdgeTypes)) /\ EdgeTypes # <<>>
    BY EdgeTypesAssumption
  <1>2. Length \in Nat \ {0} /\ DOMAIN EdgeTypes = 1 .. Length
    BY <1>1 DEF Length
  <1>3. \A i \in 1 .. Length : Length + 1 - i \in 1 .. Length
    BY <1>2
  <1>. QED  BY <1>2, <1>3 DEF EdgeType, Types

LEMMA PipersExist == \E f : IsPiper(f, Length)
<1>. DEFINE without == {n \in 0 .. Length : ~ \E f : IsPiper(f, n)}
<1>0. Length \in Nat /\ Length \in 0 .. Length
  BY EdgeTypesFacts
<1>1. SUFFICES ASSUME without # {} PROVE FALSE
  BY <1>0
<1>2. PICK n \in without : \A m \in without : n <= m
  <2>1. without \in SUBSET Nat
    OBVIOUS
  <2>. HIDE DEF without
  <2>. QED  BY <1>1, <2>1, LeastNatural
<1>3. n \in 0 .. Length /\ ~ \E f : IsPiper(f, n)
  BY <1>2
<1>4. CASE n = 0
  <2>. DEFINE f == [i \in 0 .. 0 |-> NoPiper]
  <2>1. IsPiper(f, 0)
    BY DEF IsPiper
  <2>. QED  BY <1>3, <1>4, <2>1
<1>5. CASE n # 0
  <2>1. n - 1 \in 0 .. Length /\ n - 1 \notin without
    <3>1. n - 1 \in 0 .. Length /\ ~(n <= n - 1)
      BY <1>0, <1>3, <1>5
    <3>. HIDE DEF without
    <3>. QED  BY <1>2, <3>1
  <2>2. PICK g : IsPiper(g, n - 1)
    BY <2>1
  <2>. DEFINE f == [i \in 0 .. n |-> IF i = n THEN Derived(g[n - 1], EdgeType(n)) ELSE g[i]]
  <2>3. ASSUME NEW i \in 0 .. n
        PROVE  f[i] = IF i = 0 THEN NoPiper ELSE Derived(f[i - 1], EdgeType(i))
    <3>1. CASE i = n
      BY <1>3, <1>5, <3>1
    <3>2. CASE i # n
      <4>1. i \in 0 .. n - 1 /\ i # 0 => i - 1 \in 0 .. n - 1 /\ i - 1 # n
        BY <1>3, <3>2
      <4>2. i \in 0 .. n - 1
        BY <1>3, <3>2
      <4>3. g[i] = IF i = 0 THEN NoPiper ELSE Derived(g[i - 1], EdgeType(i))
        BY <2>2, <4>2 DEF IsPiper
      <4>4. i # 0 => f[i - 1] = g[i - 1]
        BY <1>3, <4>1, <4>2
      <4>. QED  BY <3>2, <4>3, <4>4
    <3>. QED  BY <3>1, <3>2
  <2>4. f = [i \in 0 .. n |-> f[i]]
    OBVIOUS
  <2>5. IsPiper(f, n)
    <3>. HIDE DEF f
    <3>. QED  BY <2>3, <2>4 DEF IsPiper
  <2>. QED  BY <1>3, <2>5
<1>. QED  BY <1>4, <1>5

LEMMA PiperIsPiper == IsPiper(Piper, Length)
<1>. DEFINE Is(f) == f = [i \in 0 .. Len(EdgeTypes) |->
                IF i = 0 THEN [processors |-> <<>>, edges |-> <<>>]
                ELSE LET edge == EdgeTypes[Len(EdgeTypes) + 1 - i]
                     IN  [processors |-> AddMessageProcessorIfNotExists(
                                 AddMessageProcessorIfNotExists(f[i - 1].processors,
                                                                edge.from), edge.to),
                          edges |-> Append(f[i - 1].edges, edge)]]
<1>1. PICK f : IsPiper(f, Length)
  BY PipersExist
<1>2. Is(f)
  BY <1>1 DEF IsPiper, NoPiper, Derived, Length, EdgeType
<1>3. Piper = CHOOSE g : Is(g)
  BY DEF Piper
<1>4. Is(Piper)
  <2>. HIDE DEF Is
  <2>. QED  BY <1>2, <1>3
<1>. QED  BY <1>4 DEF IsPiper, NoPiper, Derived, Length, EdgeType

----------------------------------------------------------------------------
(* What is constructed *)

Distinct(processors) ==
    \A i, j \in 1 .. Len(processors) : processors[i] = processors[j] => i = j

LEMMA AddingKeepsDistinct ==
    ASSUME NEW processors \in Seq(Types), Distinct(processors), NEW type \in Types
    PROVE  LET all == AddMessageProcessorIfNotExists(processors, type)
           IN  /\ all \in Seq(Types) /\ Distinct(all) /\ Contains(all, type)
               /\ \A other : Contains(processors, other) => Contains(all, other)
<1>. DEFINE all == AddMessageProcessorIfNotExists(processors, type)
<1>1. CASE Contains(processors, type)
  BY <1>1 DEF AddMessageProcessorIfNotExists
<1>2. CASE ~Contains(processors, type)
  <2>1. all = Append(processors, type)
    BY <1>2 DEF AddMessageProcessorIfNotExists
  <2>2. /\ all \in Seq(Types) /\ Len(all) = Len(processors) + 1 /\ Len(processors) \in Nat
        /\ \A i \in 1 .. Len(processors) : all[i] = processors[i]
        /\ all[Len(processors) + 1] = type
    BY <2>1
  <2>. HIDE DEF all
  <2>3. Distinct(all)
    <3>1. \A i \in 1 .. Len(processors) : processors[i] # type
      BY <1>2 DEF Contains
    <3>. SUFFICES ASSUME NEW i \in 1 .. Len(all), NEW j \in 1 .. Len(all), all[i] = all[j]
                  PROVE  i = j
      BY DEF Distinct
    <3>. QED  BY <2>2, <3>1 DEF Distinct
  <2>4. Contains(all, type)
    BY <2>2 DEF Contains
  <2>5. ASSUME NEW other, Contains(processors, other) PROVE Contains(all, other)
    BY <2>2, <2>5 DEF Contains
  <2>. QED  BY <2>2, <2>3, <2>4, <2>5 DEF all
<1>. QED  BY <1>1, <1>2

\* The classes of the last n edges know these edges and their processors, each once.
Constructed(n) ==
    /\ Piper[n].processors \in Seq(Types) /\ Distinct(Piper[n].processors)
    /\ Piper[n].edges = [i \in 1 .. n |-> EdgeType(i)]
    /\ \A i \in 1 .. n : /\ Contains(Piper[n].processors, EdgeType(i).from)
                         /\ Contains(Piper[n].processors, EdgeType(i).to)

LEMMA EverythingConstructed == \A n \in 0 .. Length : Constructed(n)
<1>. DEFINE without == {n \in 0 .. Length : ~Constructed(n)}
<1>0. Length \in Nat
  BY EdgeTypesFacts
<1>1. SUFFICES ASSUME without # {} PROVE FALSE
  OBVIOUS
<1>2. PICK n \in without : \A m \in without : n <= m
  <2>1. without \in SUBSET Nat
    BY <1>0
  <2>. HIDE DEF without
  <2>. QED  BY <1>1, <2>1, LeastNatural
<1>3. n \in 0 .. Length /\ ~Constructed(n)
  BY <1>2
<1>4. Piper[n] = IF n = 0 THEN NoPiper ELSE Derived(Piper[n - 1], EdgeType(n))
  BY <1>3, PiperIsPiper DEF IsPiper
<1>5. CASE n = 0
  BY <1>3, <1>4, <1>5 DEF Constructed, NoPiper, Distinct
<1>6. CASE n # 0
  <2>1. Constructed(n - 1)
    <3>1. n - 1 \in 0 .. Length /\ ~(n <= n - 1)
      BY <1>0, <1>3, <1>6
    <3>2. n - 1 \notin without
      <4>. HIDE DEF without
      <4>. QED  BY <1>2, <3>1
    <3>. QED  BY <3>1, <3>2
  <2>. DEFINE some == AddMessageProcessorIfNotExists(Piper[n - 1].processors, EdgeType(n).from)
              all == AddMessageProcessorIfNotExists(some, EdgeType(n).to)
  <2>2. Piper[n].processors = all /\ Piper[n].edges = Append(Piper[n - 1].edges, EdgeType(n))
    BY <1>4, <1>6 DEF Derived
  <2>3. EdgeType(n).from \in Types /\ EdgeType(n).to \in Types
    BY <1>3, <1>6, EdgeTypesFacts
  <2>4. /\ some \in Seq(Types) /\ Distinct(some) /\ Contains(some, EdgeType(n).from)
        /\ \A other : Contains(Piper[n - 1].processors, other) => Contains(some, other)
    BY <2>1, <2>3, AddingKeepsDistinct DEF Constructed
  <2>5. /\ all \in Seq(Types) /\ Distinct(all) /\ Contains(all, EdgeType(n).to)
        /\ \A other : Contains(some, other) => Contains(all, other)
    <3>. HIDE DEF some
    <3>. QED  BY <2>3, <2>4, AddingKeepsDistinct
  <2>. HIDE DEF some, all
  <2>6. Piper[n].edges = [i \in 1 .. n |-> EdgeType(i)]
    <3>1. Append([i \in 1 .. n - 1 |-> EdgeType(i)], EdgeType(n))
             = [i \in 1 .. n |-> EdgeType(i)]
      BY <1>0, <1>3, <1>6
    <3>. QED  BY <2>1, <2>2, <3>1 DEF Constructed
  <2>7. ASSUME NEW i \in 1 .. n
        PROVE  Contains(all, EdgeType(i).from) /\ Contains(all, EdgeType(i).to)
    <3>1. CASE i = n
      BY <2>4, <2>5, <3>1
    <3>2. CASE i # n
      <4>1. i \in 1 .. n - 1
        BY <1>3, <3>2
      <4>. QED  BY <2>1, <2>4, <2>5, <4>1 DEF Constructed
    <3>. QED  BY <3>1, <3>2
  <2>. QED  BY <1>3, <2>2, <2>5, <2>6, <2>7 DEF Constructed
<1>. QED  BY <1>5, <1>6

\* The index of a message processor is its place among those constructed, whose types
\* differ; each edge has an index and leads from one index to another.
THEOREM IndicesAreRight ==
    /\ Len(Tree.processors) \in Nat /\ Len(Tree.edges) = Len(EdgeTypes)
    /\ Distinct(Tree.processors)
    /\ \A e \in Edges :
         /\ From(e) \in MPs /\ Tree.processors[From(e) + 1] = EdgeTypes[Len(EdgeTypes) - e].from
         /\ To(e) \in MPs /\ Tree.processors[To(e) + 1] = EdgeTypes[Len(EdgeTypes) - e].to
         /\ From(e) # To(e)
<1>0. Length \in Nat /\ Length \in 0 .. Length
  BY EdgeTypesFacts
<1>1. Constructed(Length) /\ Tree = Piper[Length]
  BY <1>0, EverythingConstructed DEF Tree, Length
<1>2. Len(Tree.processors) \in Nat /\ Len(Tree.edges) = Length /\ Distinct(Tree.processors)
  BY <1>0, <1>1 DEF Constructed
<1>3. ASSUME NEW type, Contains(Tree.processors, type)
      PROVE  /\ IndexOf(Tree.processors, type) \in MPs
             /\ Tree.processors[IndexOf(Tree.processors, type) + 1] = type
  <2>1. PICK i \in 1 .. Len(Tree.processors) : Tree.processors[i] = type
    BY <1>3 DEF Contains
  <2>2. i - 1 \in MPs /\ Tree.processors[(i - 1) + 1] = type
    BY <1>2, <2>1 DEF MPs
  <2>. QED  BY <2>2 DEF IndexOf, MPs
<1>4. ASSUME NEW e \in Edges
      PROVE  /\ From(e) \in MPs /\ Tree.processors[From(e) + 1] = EdgeTypes[Length - e].from
             /\ To(e) \in MPs /\ Tree.processors[To(e) + 1] = EdgeTypes[Length - e].to
             /\ From(e) # To(e)
  <2>1. e + 1 \in 1 .. Length /\ Length + 1 - (e + 1) = Length - e /\ Length - e \in 1 .. Length
    BY <1>0, <1>2 DEF Edges
  <2>2. Tree.edges[e + 1] = EdgeTypes[Length - e]
    BY <1>1, <2>1 DEF Constructed, EdgeType
  <2>3. /\ Contains(Tree.processors, EdgeTypes[Length - e].from)
        /\ Contains(Tree.processors, EdgeTypes[Length - e].to)
    BY <1>1, <2>1 DEF Constructed, EdgeType
  <2>4. EdgeTypes[Length - e].from # EdgeTypes[Length - e].to
    BY <2>1, EdgeTypesFacts, EdgeTypesAssumption
  <2>. QED  BY <1>3, <2>2, <2>3, <2>4 DEF From, To
<1>. QED  BY <1>2, <1>4 DEF Length

----------------------------------------------------------------------------
(* Distributions *)

LEMMA ThreadsFacts == NThreads \in Nat \ {0} /\ 0 \in Threads /\ IsFiniteSet(Threads)
<1>1. NThreads \in Nat \ {0}
  BY ThreadsAssumption
<1>2. IsFiniteSet(0 .. NThreads - 1)
  BY <1>1, FS_Interval
<1>. QED  BY <1>1, <1>2 DEF Threads

LEMMA MPsAreNumbers == MPs \subseteq Nat /\ \A e \in Edges : From(e) \in MPs /\ To(e) \in MPs
<1>1. Len(Tree.processors) \in Nat
  BY IndicesAreRight
<1>. QED  BY <1>1, IndicesAreRight DEF MPs

\* Each message processor has one thread.
OneThreadEach(distribution) ==
    /\ distribution \in [Threads -> SUBSET MPs]
    /\ \A mp \in MPs : \E t \in Threads : \A u \in Threads : mp \in distribution[u] <=> u = t

LEMMA InitialShardingHasOneThreadEach == OneThreadEach(InitialSharding)
<1>1. InitialSharding \in [Threads -> SUBSET MPs]
  BY DEF InitialSharding
<1>2. ASSUME NEW mp \in MPs
      PROVE  \E t \in Threads : \A u \in Threads : mp \in InitialSharding[u] <=> u = t
  <2>1. mp % NThreads \in Threads
    <3>1. mp \in Nat /\ NThreads \in Nat /\ NThreads > 0
      BY MPsAreNumbers, ThreadsFacts
    <3>. QED  BY <3>1 DEF Threads
  <2>. QED  BY <2>1 DEF InitialSharding
<1>. QED  BY <1>1, <1>2 DEF OneThreadEach

\* The pointer for an edge leads to the thread that has the receiver.
LEMMA SenderCVSHasReceiver ==
    ASSUME NEW distribution, OneThreadEach(distribution)
    PROVE  /\ SenderCVS(distribution) \in [Edges -> Threads]
           /\ \A e \in Edges : To(e) \in distribution[SenderCVS(distribution)[e]]
<1>1. ASSUME NEW e \in Edges
      PROVE  LET owners == {t \in Threads : To(e) \in distribution[t]}
             IN  owners # {} /\ Max(owners) \in owners
  <2>. DEFINE owners == {t \in Threads : To(e) \in distribution[t]}
  <2>1. PICK s \in Threads : \A u \in Threads : To(e) \in distribution[u] <=> u = s
    BY MPsAreNumbers DEF OneThreadEach
  <2>2. owners = {s}
    BY <2>1
  <2>3. Max({s}) = s
    <3>1. s >= s
      BY ThreadsFacts DEF Threads
    <3>. QED  BY <3>1 DEF Max
  <2>. QED  BY <2>2, <2>3
<1>. QED  BY <1>1 DEF SenderCVS

----------------------------------------------------------------------------
(* The inductive invariant *)

Durations == [m \in MPs |-> Duration(m)]
Load(mps) == SumFunctionOnSet(Durations, mps)

Done == {"set_sender_cvs", "returned"}

\* A message processor is still available, or has been given to the current thread, or
\* to one thread before it.
Placed(m) ==
    \/ m \in available /\ m \notin current_thread_mps /\ \A u \in Threads : m \notin conf[u]
    \/ m \notin available /\ m \in current_thread_mps /\ \A u \in Threads : m \notin conf[u]
    \/ /\ m \notin available /\ m \notin current_thread_mps
       /\ \E t \in Threads : \A u \in Threads : m \in conf[u] <=> u = t

PlaceInv ==
    /\ stage \notin Done => /\ \A m \in MPs : Placed(m)
                         /\ \A t \in Threads : t >= thread_num => conf[t] = {}
    /\ stage \in Done => OneThreadEach(conf) /\ thread_num = NThreads - 1

\* accumulated_duration is the load of the current thread.  It is more than the average
\* for a single message processor only; the threads before are alike.
LoadInv ==
    /\ accumulated_duration = Load(current_thread_mps)
    /\ stage = "thread" => current_thread_mps = {}
    /\ stage = "fill" => accumulated_duration <= AvgDuration
    /\ stage = "close" => \/ Cardinality(current_thread_mps) = 1
                       \/ accumulated_duration <= AvgDuration
    /\ \A t \in Threads : t < thread_num => \/ Cardinality(conf[t]) = 1
                                            \/ Load(conf[t]) <= AvgDuration

SenderInv == message_send_cvs = SenderCVS(IF stage = "returned" THEN conf ELSE InitialSharding)

ReshardingInv == ReshardingTypeOK /\ PlaceInv /\ LoadInv /\ SenderInv

----------------------------------------------------------------------------
(* Durations and loads *)

LEMMA SetsAreFinite == IsFiniteSet(MPs) /\ IsFiniteSet(Edges)
<1>1. Len(Tree.processors) \in Nat /\ Len(Tree.edges) \in Nat
  BY IndicesAreRight, EdgeTypesFacts DEF Length
<1>2. \A n \in Nat : IsFiniteSet(0 .. n - 1)
  BY FS_Interval
<1>. QED  BY <1>1, <1>2 DEF MPs, Edges

LEMMA EdgeSumIsNatural ==
    ASSUME edge_average \in [Edges -> 1 .. MaxDuration]
    PROVE  \A S \in SUBSET Edges : SumFunctionOnSet(edge_average, S) \in Nat
<1>. TAKE S \in SUBSET Edges
<1>1. IsFiniteSet(S) /\ \A e \in S : edge_average[e] \in Nat
  BY SetsAreFinite, FS_Subset, DurationAssumption
<1>. QED  BY <1>1, SumIsNatural, SumFunctionIsSum

LEMMA DurationsAreNatural ==
    ASSUME ReshardingTypeOK
    PROVE  Durations \in [MPs -> Nat] /\ \A m \in MPs : Durations[m] = Duration(m)
<1>1. ASSUME NEW m \in MPs PROVE Duration(m) \in Nat
  <2>1. mp_average[m] \in Nat
    BY DurationAssumption DEF ReshardingTypeOK
  <2>2. SumFunctionOnSet(edge_average, GetIncomingEdges(m)) \in Nat
    BY EdgeSumIsNatural DEF ReshardingTypeOK, GetIncomingEdges
  <2>. QED  BY <2>1, <2>2 DEF Duration
<1>. QED  BY <1>1 DEF Durations

LEMMA AvgDurationIsPositive ==
    ASSUME ReshardingTypeOK PROVE  AvgDuration \in Nat /\ AvgDuration >= 1
<1>1. SumFunction(mp_average) \in Nat
  <2>1. DOMAIN mp_average = MPs /\ \A m \in MPs : mp_average[m] \in Nat
    BY DurationAssumption DEF ReshardingTypeOK
  <2>2. SumOf(mp_average, MPs) \in Nat
    BY <2>1, SetsAreFinite, SumIsNatural
  <2>. QED  BY <2>1, <2>2, SumFunctionIsSum DEF SumFunction
<1>2. SumFunction(edge_average) \in Nat
  BY EdgeSumIsNatural DEF ReshardingTypeOK, SumFunction
<1>3. Total \div NThreads \in Nat
  BY <1>1, <1>2, ThreadsFacts DEF Total
<1>. DEFINE share == Total \div NThreads
<1>. HIDE DEF share
<1>4. \E x \in {1, share} : \A y \in {1, share} : x >= y
  <2>1. share \in Nat
    BY <1>3 DEF share
  <2>. QED  BY <2>1
<1>5. Max({1, share}) \in {1, share} /\ Max({1, share}) >= 1
  BY <1>4 DEF Max
<1>. QED  BY <1>3, <1>5 DEF AvgDuration, share

LEMMA NoLoad == Load({}) = 0
  BY SumByPick, SumFunctionIsSum, FS_EmptySet DEF Load

LEMMA LoadWithOneMore ==
    ASSUME ReshardingTypeOK, NEW mps \in SUBSET MPs, NEW m \in MPs \ mps
    PROVE  Load(mps \cup {m}) = Load(mps) + Duration(m) /\ Load(mps) \in Nat
<1>. DEFINE all == mps \cup {m}
<1>1. IsFiniteSet(all) /\ IsFiniteSet(mps) /\ m \in all /\ all \ {m} = mps
  BY SetsAreFinite, FS_Subset
<1>2. \A n \in MPs : Durations[n] \in Nat
  BY DurationsAreNatural
<1>. HIDE DEF all
<1>3. SumOf(Durations, all) = Durations[m] + SumOf(Durations, mps)
  <2>1. \A n \in all : Durations[n] \in Nat
    BY <1>2 DEF all
  <2>. QED  BY <1>1, <2>1, SumWithout
<1>4. SumOf(Durations, mps) \in Nat
  BY <1>1, <1>2, SumIsNatural
<1>5. Durations[m] = Duration(m) /\ Durations[m] \in Nat
  BY <1>2, DurationsAreNatural
<1>6. Load(mps \cup {m}) = SumOf(Durations, all) /\ Load(mps) = SumOf(Durations, mps)
  BY SumFunctionIsSum DEF Load, all
<1>. QED  BY <1>3, <1>4, <1>5, <1>6

\* Nothing else changes durations than new measurements.
LEMMA DurationsStay ==
    ASSUME UNCHANGED timers
    PROVE  Durations' = Durations /\ AvgDuration' = AvgDuration
<1>1. \A m \in MPs : Duration(m)' = Duration(m)
  BY DEF timers, Duration
<1>. QED  BY <1>1 DEF Durations, timers, AvgDuration, Total

----------------------------------------------------------------------------
(* The choices *)

LEMMA HeaviestIsAvailable == ASSUME ReshardingTypeOK, available # {} PROVE Heaviest \in available
<1>. DEFINE less == {pair \in available \X available : Before(pair[1], pair[2])}
<1>1. IsFiniteSet(available) /\ available \subseteq MPs
  BY SetsAreFinite, FS_Subset DEF ReshardingTypeOK
<1>2. \A m \in available : m \in Nat /\ Duration(m) \in Nat
  BY <1>1, DurationsAreNatural, MPsAreNumbers
<1>3. /\ \A x, y, z \in available : <<x, y>> \in less /\ <<y, z>> \in less => <<x, z>> \in less
      /\ \A x, y \in available : x # y => <<x, y>> \in less \/ <<y, x>> \in less
  BY <1>2 DEF Before
<1>4. \E m \in available : \A n \in available \ {m} : <<n, m>> \in less
  <2>. HIDE DEF less
  <2>. QED  BY <1>1, <1>3, GreatestElement
<1>5. \E m \in available : \A n \in available \ {m} : Before(n, m)
  BY <1>4
<1>. QED  BY <1>5 DEF Heaviest

LEMMA MostConnectedIsSuitable ==
    ASSUME ReshardingTypeOK, Suitable # {} PROVE  MostConnected \in Suitable
<1>. DEFINE Below(n, m) == \/ message_passing_cost[n] < message_passing_cost[m]
                           \/ message_passing_cost[n] = message_passing_cost[m] /\ Before(m, n)
            less == {pair \in Suitable \X Suitable : Below(pair[1], pair[2])}
<1>1. IsFiniteSet(Suitable) /\ Suitable \subseteq MPs
  BY SetsAreFinite, FS_Subset DEF ReshardingTypeOK, Suitable
<1>2. \A m \in Suitable : m \in Nat /\ Duration(m) \in Nat /\ message_passing_cost[m] \in Nat
  BY <1>1, DurationsAreNatural, MPsAreNumbers DEF ReshardingTypeOK
<1>3. /\ \A x, y, z \in Suitable : <<x, y>> \in less /\ <<y, z>> \in less => <<x, z>> \in less
      /\ \A x, y \in Suitable : x # y => <<x, y>> \in less \/ <<y, x>> \in less
  BY <1>2 DEF Before
<1>4. \E m \in Suitable : \A n \in Suitable \ {m} : <<n, m>> \in less
  <2>. HIDE DEF less
  <2>. QED  BY <1>1, <1>3, GreatestElement
<1>5. \E m \in Suitable : \A n \in Suitable \ {m} : Below(n, m)
  BY <1>4
<1>. QED  BY <1>5 DEF MostConnected

----------------------------------------------------------------------------
(* The steps *)

LEMMA ReshardingBegins == ReshardingInit => ReshardingInv
<1>. SUFFICES ASSUME ReshardingInit PROVE ReshardingInv
  OBVIOUS
<1>1. SenderCVS(InitialSharding) \in [Edges -> Threads]
  BY InitialShardingHasOneThreadEach, SenderCVSHasReceiver
<1>2. ReshardingTypeOK
  BY <1>1, ThreadsFacts DEF ReshardingInit, ReshardingTypeOK
<1>3. PlaceInv
  BY DEF ReshardingInit, PlaceInv, Placed, Done
<1>4. LoadInv
  <2>1. \A t \in Threads : ~(t < 0)
    BY ThreadsFacts DEF Threads
  <2>. QED  BY <2>1, NoLoad DEF ReshardingInit, LoadInv
<1>5. SenderInv
  BY DEF ReshardingInit, SenderInv
<1>. QED  BY <1>2, <1>3, <1>4, <1>5 DEF ReshardingInv

\* The current thread is given an available message processor.
LEMMA ChoiceKeepsInv ==
    ASSUME ReshardingInv, stage \in {"thread", "fill"}, stage' \in {"fill", "close"},
           NEW m \in available, ProcessMPChoice(m),
           \/ stage' = "close" /\ current_thread_mps = {}
           \/ accumulated_duration + Duration(m) <= AvgDuration
    PROVE  ReshardingInv'
<1>. USE DEF ProcessMPChoice
<1>0. ReshardingTypeOK /\ m \in MPs /\ Durations' = Durations /\ AvgDuration' = AvgDuration
  BY DurationsStay DEF ReshardingInv, ReshardingTypeOK
<1>1. m \notin current_thread_mps
  BY <1>0 DEF ReshardingInv, PlaceInv, Placed, Done
<1>2. ReshardingTypeOK'
  <2>1. accumulated_duration' \in Nat
    BY <1>0, DurationsAreNatural DEF ReshardingTypeOK
  <2>2. message_passing_cost' \in [MPs -> Nat]
    <3>1. \A n \in MPs : SumFunctionOnSet(edge_average, GetConnectingEdges(m, n)) \in Nat
      BY <1>0, EdgeSumIsNatural DEF ReshardingTypeOK, GetConnectingEdges
    <3>. QED  BY <1>0, <3>1 DEF ReshardingTypeOK
  <2>. QED  BY <1>0, <2>1, <2>2 DEF ReshardingTypeOK, timers
<1>3. PlaceInv'
  <2>1. stage \notin Done /\ stage' \notin Done
    BY DEF Done
  <2>2. ASSUME NEW n \in MPs PROVE Placed(n)'
    <3>1. Placed(n) /\ Placed(m)
      BY <1>0, <2>1 DEF ReshardingInv, PlaceInv
    <3>. QED  BY <3>1 DEF Placed
  <2>. QED  BY <2>1, <2>2 DEF ReshardingInv, PlaceInv
<1>4. LoadInv'
  <2>1. accumulated_duration' = SumFunctionOnSet(Durations, current_thread_mps')
    <3>1. accumulated_duration = Load(current_thread_mps) /\ current_thread_mps \in SUBSET MPs
      BY <1>0 DEF ReshardingInv, LoadInv, ReshardingTypeOK
    <3>2. Load(current_thread_mps \cup {m}) = Load(current_thread_mps) + Duration(m)
      BY <1>0, <1>1, <3>1, LoadWithOneMore
    <3>. QED  BY <3>1, <3>2 DEF Load
  <2>2. current_thread_mps = {} => Cardinality(current_thread_mps') = 1
    BY FS_Singleton
  <2>3. \A t \in Threads : t < thread_num =>
          Cardinality(conf[t]) = 1 \/ SumFunctionOnSet(Durations, conf[t]) <= AvgDuration
    BY DEF ReshardingInv, LoadInv, Load
  <2>. QED  BY <1>0, <2>1, <2>2, <2>3 DEF LoadInv, Load
<1>5. SenderInv'
  BY DEF ReshardingInv, SenderInv
<1>. QED  BY <1>2, <1>3, <1>4, <1>5 DEF ReshardingInv

\* GetResharding goes from one place to another without a choice.
LEMMA MovingKeepsInv ==
    ASSUME ReshardingInv, UNCHANGED <<timers, available, locals, conf, message_send_cvs>>,
           stage \in {"thread", "fill", "close"},
           stage' \in {"thread", "fill", "close", "no_processor_left", "nothing_chosen"},
           stage' = "thread" => current_thread_mps = {},
           stage' \in {"fill", "close"} => accumulated_duration <= AvgDuration
    PROVE  ReshardingInv'
<1>. USE DEF locals
<1>0. Durations' = Durations /\ AvgDuration' = AvgDuration
  BY DurationsStay
<1>1. ReshardingTypeOK'
  BY DEF ReshardingInv, ReshardingTypeOK, timers
<1>2. PlaceInv'
  <2>1. stage \notin Done /\ stage' \notin Done
    BY DEF Done
  <2>2. ASSUME NEW n \in MPs PROVE Placed(n)'
    <3>1. Placed(n)
      BY <2>1 DEF ReshardingInv, PlaceInv
    <3>. QED  BY <3>1 DEF Placed
  <2>. QED  BY <2>1, <2>2 DEF ReshardingInv, PlaceInv
<1>3. LoadInv'
  BY <1>0 DEF ReshardingInv, LoadInv, Load
<1>4. SenderInv'
  BY DEF ReshardingInv, SenderInv
<1>. QED  BY <1>1, <1>2, <1>3, <1>4 DEF ReshardingInv

LEMMA StartThreadKeepsInv == ReshardingInv /\ StartThread => ReshardingInv'
<1>. SUFFICES ASSUME ReshardingInv, StartThread PROVE ReshardingInv'
  OBVIOUS
<1>1. stage = "thread" /\ ReshardingTypeOK /\ current_thread_mps = {}
  BY DEF StartThread, ReshardingInv, LoadInv
<1>2. CASE /\ available = {} /\ stage' = "no_processor_left"
           /\ UNCHANGED <<timers, available, locals, conf, message_send_cvs>>
  BY <1>1, <1>2, MovingKeepsInv
<1>3. CASE available # {} /\ stage' = "close" /\ ProcessMPChoice(Heaviest)
  <2>1. Heaviest \in available
    BY <1>1, <1>3, HeaviestIsAvailable
  <2>. QED  BY <1>1, <1>3, <2>1, ChoiceKeepsInv
<1>4. CASE /\ stage' = "fill"
           /\ UNCHANGED <<timers, available, locals, conf, message_send_cvs>>
  <2>1. accumulated_duration = 0
    BY <1>1, NoLoad DEF ReshardingInv, LoadInv
  <2>2. accumulated_duration <= AvgDuration
    BY <1>1, <2>1, AvgDurationIsPositive
  <2>. QED  BY <1>1, <1>4, <2>2, MovingKeepsInv
<1>. QED  BY <1>2, <1>3, <1>4 DEF StartThread

LEMMA FillThreadKeepsInv == ReshardingInv /\ FillThread => ReshardingInv'
<1>. SUFFICES ASSUME ReshardingInv, FillThread PROVE ReshardingInv'
  OBVIOUS
<1>1. stage = "fill" /\ ReshardingTypeOK /\ accumulated_duration <= AvgDuration
  BY DEF FillThread, ReshardingInv, LoadInv
<1>2. CASE Suitable # {} /\ ProcessMPChoice(MostConnected) /\ UNCHANGED stage
  <2>1. MostConnected \in Suitable
    BY <1>1, <1>2, MostConnectedIsSuitable
  <2>2. MostConnected \in available
    BY <2>1 DEF Suitable
  <2>3. accumulated_duration + Duration(MostConnected) <= AvgDuration
    <3>1. Duration(MostConnected) <= AvgDuration - accumulated_duration
      <4>1. /\ Duration(MostConnected) \in Nat
            /\ AvgDuration \in Nat /\ accumulated_duration \in Nat
        BY <1>1, <2>2, DurationsAreNatural, AvgDurationIsPositive DEF ReshardingTypeOK
      <4>2. \/ Duration(MostConnected) < AvgDuration - accumulated_duration
            \/ Duration(MostConnected) = AvgDuration - accumulated_duration
        BY <2>1 DEF Suitable
      <4>. QED  BY <4>1, <4>2
    <3>. QED  BY <1>1, <2>2, <3>1, DurationsAreNatural, AvgDurationIsPositive DEF ReshardingTypeOK
  <2>. QED  BY <1>1, <1>2, <2>2, <2>3, ChoiceKeepsInv
<1>3. CASE /\ stage' = "close"
           /\ UNCHANGED <<timers, available, locals, conf, message_send_cvs>>
  BY <1>1, <1>3, MovingKeepsInv
<1>. QED  BY <1>2, <1>3 DEF FillThread

\* A thread is closed with what it was given.
LEMMA ClosingKeepsInv ==
    ASSUME ReshardingInv, CloseThread, Given # {} PROVE ReshardingInv'
<1>. DEFINE given == Given
<1>0. /\ stage = "close" /\ ReshardingTypeOK /\ thread_num \in Threads /\ stage \notin Done
      /\ \A t \in Threads : t \in Nat
  BY ThreadsFacts DEF CloseThread, ReshardingInv, ReshardingTypeOK, Done, Threads
<1>1. /\ Durations' = Durations /\ AvgDuration' = AvgDuration
      /\ UNCHANGED <<timers, available, message_send_cvs>>
  BY DurationsStay DEF CloseThread
<1>2. /\ conf' = [conf EXCEPT ![thread_num] = given]
      /\ conf \in [Threads -> SUBSET MPs] /\ given \in SUBSET MPs
  BY <1>0 DEF CloseThread, ReshardingTypeOK, Given
<1>3. conf[thread_num] = {} /\ \A m \in MPs : Placed(m)
  BY <1>0 DEF ReshardingInv, PlaceInv
<1>4. \A t \in Threads : t < thread_num => conf'[t] = conf[t]
  BY <1>0, <1>2
<1>5. CASE IsLast
  <2>1. given = current_thread_mps \cup available
    BY <1>5 DEF Given
  <2>. HIDE DEF given
  <2>2. stage' = "set_sender_cvs" /\ UNCHANGED locals
    BY <1>5 DEF CloseThread
  <2>3. OneThreadEach(conf')
    <3>1. ASSUME NEW m \in MPs
          PROVE  \E t \in Threads : \A u \in Threads : m \in conf'[u] <=> u = t
      <4>1. CASE m \in given
        <5>1. \A u \in Threads : m \notin conf[u]
          BY <1>3, <2>1, <4>1 DEF Placed
        <5>. QED  BY <1>0, <1>2, <4>1, <5>1
      <4>2. CASE m \notin given
        <5>1. PICK t \in Threads : \A u \in Threads : m \in conf[u] <=> u = t
          BY <1>3, <2>1, <4>2 DEF Placed
        <5>. QED  BY <1>0, <1>2, <1>3, <4>2, <5>1
      <4>. QED  BY <4>1, <4>2
    <3>. QED  BY <1>2, <3>1 DEF OneThreadEach
  <2>4. ReshardingTypeOK'
    BY <1>0, <1>1, <1>2, <2>2 DEF ReshardingTypeOK, locals, timers
  <2>5. PlaceInv'
    <3>1. thread_num' = NThreads - 1
      BY <1>0, <1>5, <2>2, ThreadsFacts DEF IsLast, locals
    <3>. QED  BY <2>2, <2>3, <3>1 DEF PlaceInv, Done
  <2>6. LoadInv'
    <3>1. /\ accumulated_duration = SumFunctionOnSet(Durations, current_thread_mps)
          /\ \A t \in Threads : t < thread_num =>
               Cardinality(conf[t]) = 1 \/ SumFunctionOnSet(Durations, conf[t]) <= AvgDuration
      BY DEF ReshardingInv, LoadInv, Load
    <3>. QED  BY <1>1, <1>4, <2>2, <3>1 DEF LoadInv, Load, locals
  <2>7. SenderInv'
    BY <1>0, <1>1, <2>2 DEF ReshardingInv, SenderInv
  <2>. QED  BY <2>4, <2>5, <2>6, <2>7 DEF ReshardingInv
<1>6. CASE ~IsLast
  <2>1. given = current_thread_mps
    BY <1>6 DEF Given
  <2>. HIDE DEF given
  <2>2. /\ stage' = "thread" /\ thread_num' = thread_num + 1 /\ accumulated_duration' = 0
        /\ current_thread_mps' = {} /\ message_passing_cost' = [m \in MPs |-> 0]
    BY <1>6 DEF CloseThread
  <2>3. thread_num + 1 \in Threads
    BY <1>0, <1>6, ThreadsFacts DEF IsLast, Threads
  <2>4. ReshardingTypeOK'
    BY <1>0, <1>1, <1>2, <2>2, <2>3 DEF ReshardingTypeOK, timers
  <2>5. PlaceInv'
    <3>1. \A t \in Threads : t >= thread_num + 1 => conf'[t] = {}
      <4>1. \A t \in Threads : t >= thread_num + 1 => t >= thread_num /\ t # thread_num
        BY <1>0
      <4>. QED  BY <1>0, <1>2, <4>1 DEF ReshardingInv, PlaceInv
    <3>2. ASSUME NEW m \in MPs PROVE Placed(m)'
      <4>1. CASE m \in given
        <5>1. m \notin available /\ \A u \in Threads : m \notin conf[u]
          BY <1>3, <2>1, <4>1 DEF Placed
        <5>2. \A u \in Threads : m \in conf'[u] <=> u = thread_num
          BY <1>0, <1>2, <4>1, <5>1
        <5>. QED  BY <1>0, <1>1, <2>2, <5>1, <5>2 DEF Placed
      <4>2. CASE m \notin given
        <5>1. \A u \in Threads : m \in conf'[u] <=> m \in conf[u]
          BY <1>0, <1>2, <1>3, <4>2
        <5>. QED  BY <1>1, <1>3, <2>1, <2>2, <4>2, <5>1 DEF Placed
      <4>. QED  BY <4>1, <4>2
    <3>. QED  BY <2>2, <3>1, <3>2 DEF PlaceInv, Done
  <2>6. LoadInv'
    <3>1. SumFunctionOnSet(Durations, {}) = 0
      BY NoLoad DEF Load
    <3>2. ASSUME NEW t \in Threads, t < thread_num + 1
          PROVE  \/ Cardinality(conf'[t]) = 1
                 \/ SumFunctionOnSet(Durations, conf'[t]) <= AvgDuration
      <4>1. CASE t = thread_num
        BY <1>0, <1>2, <2>1, <4>1 DEF ReshardingInv, LoadInv, Load
      <4>2. CASE t # thread_num
        <5>1. t < thread_num
          BY <1>0, <3>2, <4>2
        <5>. QED  BY <1>4, <5>1 DEF ReshardingInv, LoadInv, Load
      <4>. QED  BY <4>1, <4>2
    <3>. QED  BY <1>1, <2>2, <3>1, <3>2 DEF LoadInv, Load
  <2>7. SenderInv'
    BY <1>0, <1>1, <2>2 DEF ReshardingInv, SenderInv
  <2>. QED  BY <2>4, <2>5, <2>6, <2>7 DEF ReshardingInv
<1>. QED  BY <1>5, <1>6

LEMMA CloseThreadKeepsInv == ReshardingInv /\ CloseThread => ReshardingInv'
<1>. SUFFICES ASSUME ReshardingInv, CloseThread PROVE ReshardingInv'
  OBVIOUS
<1>1. CASE Given = {}
  <2>1. /\ stage = "close" /\ stage' = "nothing_chosen"
        /\ UNCHANGED <<timers, available, locals, conf, message_send_cvs>>
    BY <1>1 DEF CloseThread
  <2>. QED  BY <2>1, MovingKeepsInv
<1>2. CASE Given # {}
  BY <1>2, ClosingKeepsInv
<1>. QED  BY <1>1, <1>2

LEMMA SetSenderCVSKeepsInv == ReshardingInv /\ SetSenderCVS => ReshardingInv'
<1>. SUFFICES ASSUME ReshardingInv, SetSenderCVS PROVE ReshardingInv'
  OBVIOUS
<1>. USE DEF SetSenderCVS, locals
<1>1. OneThreadEach(conf) /\ conf' = conf
  BY DEF ReshardingInv, PlaceInv, Done
<1>2. ReshardingTypeOK'
  <2>1. SenderCVS(conf) \in [Edges -> Threads]
    BY <1>1, SenderCVSHasReceiver
  <2>. QED  BY <2>1 DEF ReshardingInv, ReshardingTypeOK, timers
<1>3. PlaceInv'
  BY <1>1 DEF ReshardingInv, PlaceInv, Done
<1>4. LoadInv'
  <2>1. Durations' = Durations /\ AvgDuration' = AvgDuration
    BY DurationsStay
  <2>. QED  BY <2>1 DEF ReshardingInv, LoadInv, Load
<1>5. SenderInv'
  BY DEF SenderInv
<1>. QED  BY <1>2, <1>3, <1>4, <1>5 DEF ReshardingInv

LEMMA StutteringKeepsInv == ReshardingInv /\ UNCHANGED resharding_vars => ReshardingInv'
<1>. SUFFICES ASSUME ReshardingInv, UNCHANGED resharding_vars PROVE ReshardingInv'
  OBVIOUS
<1>. USE DEF resharding_vars, locals
<1>1. ReshardingTypeOK'
  BY DEF ReshardingInv, ReshardingTypeOK, timers
<1>2. PlaceInv'
  BY DEF ReshardingInv, PlaceInv, Placed
<1>3. LoadInv'
  <2>1. Durations' = Durations /\ AvgDuration' = AvgDuration
    BY DurationsStay
  <2>. QED  BY <2>1 DEF ReshardingInv, LoadInv, Load
<1>4. SenderInv'
  BY DEF ReshardingInv, SenderInv
<1>. QED  BY <1>1, <1>2, <1>3, <1>4 DEF ReshardingInv

LEMMA ReshardingInvariance == ReshardingSpec => []ReshardingInv
<1>1. ASSUME ReshardingInv, [ReshardingNext]_resharding_vars PROVE ReshardingInv'
  <2>1. CASE UNCHANGED resharding_vars
    BY <1>1, <2>1, StutteringKeepsInv
  <2>2. CASE ReshardingNext
    BY <1>1, <2>2, StartThreadKeepsInv, FillThreadKeepsInv, CloseThreadKeepsInv,
       SetSenderCVSKeepsInv, StutteringKeepsInv DEF ReshardingNext, Ended
  <2>. QED  BY <1>1, <2>1, <2>2
<1>. QED  BY <1>1, ReshardingBegins, PTL DEF ReshardingSpec

----------------------------------------------------------------------------
(* The theorems *)

\* A new distribution gives every message processor to exactly one thread, whatever the
\* tree, the number of threads and the measured durations.
THEOREM EveryProcessorAlwaysOnce == ReshardingSpec => []EveryProcessorOnce
<1>1. ASSUME ReshardingInv PROVE EveryProcessorOnce
  <2>1. ASSUME stage = "returned", NEW m \in MPs
        PROVE  \E t \in Threads : m \in conf[t] /\ \A u \in Threads \ {t} : m \notin conf[u]
    <3>1. PICK t \in Threads : \A u \in Threads : m \in conf[u] <=> u = t
      BY <1>1, <2>1 DEF ReshardingInv, PlaceInv, Done, OneThreadEach
    <3>. QED  BY <3>1
  <2>. QED  BY <2>1 DEF EveryProcessorOnce
<1>. QED  BY <1>1, ReshardingInvariance, PTL

\* Every thread but the last has one message processor or at most the average load.
THEOREM LoadAlwaysBounded == ReshardingSpec => []LoadBounded
<1>1. ASSUME ReshardingInv PROVE LoadBounded
  <2>1. ASSUME NEW t \in 0 .. NThreads - 2
        PROVE  Cardinality(conf[t]) = 1 \/ Load(conf[t]) <= AvgDuration
    <3>1. t \in Threads /\ t < NThreads - 1 /\ thread_num \in Int /\ ReshardingTypeOK
      BY <1>1, ThreadsFacts DEF Threads, ReshardingInv, ReshardingTypeOK
    <3>2. CASE t < thread_num
      BY <1>1, <3>1, <3>2 DEF ReshardingInv, LoadInv
    <3>3. CASE ~(t < thread_num)
      <4>1. conf[t] = {}
        BY <1>1, <3>1, <3>3 DEF ReshardingInv, PlaceInv
      <4>. QED  BY <3>1, <4>1, NoLoad, AvgDurationIsPositive
    <3>. QED  BY <3>2, <3>3
  <2>. QED  BY <2>1 DEF LoadBounded, Load, Durations
<1>. QED  BY <1>1, ReshardingInvariance, PTL

\* Whoever sends on an edge wakes the thread that has the receiver.
THEOREM ReceiverAlwaysWoken == ReshardingSpec => []ReceiverIsWoken
<1>1. ASSUME ReshardingInv PROVE ReceiverIsWoken
  <2>. DEFINE current == IF stage = "returned" THEN conf ELSE InitialSharding
  <2>1. OneThreadEach(current)
    BY <1>1, InitialShardingHasOneThreadEach DEF ReshardingInv, PlaceInv, Done
  <2>2. message_send_cvs = SenderCVS(current)
    BY <1>1 DEF ReshardingInv, SenderInv
  <2>. HIDE DEF current
  <2>3. \A e \in Edges : To(e) \in current[message_send_cvs[e]]
    BY <2>1, <2>2, SenderCVSHasReceiver
  <2>. QED  BY <2>3 DEF ReceiverIsWoken, current
<1>. QED  BY <1>1, ReshardingInvariance, PTL

\* What GetResharding returns is such a distribution as the pool, which only assumes
\* that, goes on with (PoolAssumption).
THEOREM ResultIsDistribution == ReshardingSpec => [](stage = "returned" => conf \in Distributions)
<1>1. ASSUME ReshardingInv, stage = "returned" PROVE conf \in Distributions
  <2>1. OneThreadEach(conf)
    BY <1>1 DEF ReshardingInv, PlaceInv, Done
  <2>2. ASSUME NEW m \in MPs PROVE Cardinality({t \in Threads : m \in conf[t]}) = 1
    <3>1. PICK s \in Threads : \A u \in Threads : m \in conf[u] <=> u = s
      BY <2>1 DEF OneThreadEach
    <3>2. {t \in Threads : m \in conf[t]} = {s}
      BY <3>1
    <3>. QED  BY <3>2, FS_Singleton
  <2>. QED  BY <2>1, <2>2 DEF OneThreadEach, Distributions
<1>. QED  BY <1>1, ReshardingInvariance, PTL
=============================================================================
