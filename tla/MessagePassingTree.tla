------------------------- MODULE MessagePassingTree -------------------------
(***************************************************************************)
(* MessagePassingTree (src/message_passing_tree.h): the indices that the   *)
(* chain of Piper classes gives to message processors and edges, from the  *)
(* list of Edge<From, To, Message> types it is instantiated with.          *)
(***************************************************************************)
EXTENDS Integers, FiniteSets, SequencesExt

CONSTANT EdgeTypes  \* the template's arguments: [from, to, message], in their order

\* A message processor with an edge to itself, or the same edge twice, makes calls
\* of the overloaded functions ambiguous and does not compile.
ASSUME EdgeTypesAssumption ==
    /\ EdgeTypes \in Seq(Range(EdgeTypes)) \ {<<>>}
    /\ \A i \in DOMAIN EdgeTypes : EdgeTypes[i].from # EdgeTypes[i].to
    /\ \A i, j \in DOMAIN EdgeTypes : i # j => EdgeTypes[i] # EdgeTypes[j]

\* An index is a position counted from 0.
IndexOf(sequence, element) == CHOOSE i \in 0 .. Len(sequence) - 1 : sequence[i + 1] = element

AddMessageProcessorIfNotExists(processors, type) ==
    IF Contains(processors, type) THEN processors ELSE Append(processors, type)

\* The classes of the last i edges.  A base class is constructed before the class that
\* derives from it, so the last edge of the list comes first; From comes before To.
Piper[i \in 0 .. Len(EdgeTypes)] ==
    IF i = 0 THEN [processors |-> <<>>, edges |-> <<>>]
    ELSE LET edge == EdgeTypes[Len(EdgeTypes) + 1 - i]
         IN  [processors |-> AddMessageProcessorIfNotExists(
                                 AddMessageProcessorIfNotExists(Piper[i - 1].processors,
                                                                edge.from), edge.to),
              edges |-> Append(Piper[i - 1].edges, edge)]

Tree == Piper[Len(EdgeTypes)]

MPs == 0 .. Len(Tree.processors) - 1
Edges == 0 .. Len(Tree.edges) - 1

From(e) == IndexOf(Tree.processors, Tree.edges[e + 1].from)
To(e) == IndexOf(Tree.processors, Tree.edges[e + 1].to)

GetIncomingEdges(mp) == {e \in Edges : To(e) = mp}
GetOutgoingEdges(mp) == {e \in Edges : From(e) = mp}
GetConnectingEdges(first, second) == {e \in Edges : From(e) = first /\ To(e) = second}
=============================================================================
