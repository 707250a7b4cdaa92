------------------------------- MODULE Graph -------------------------------
(***************************************************************************)
(* The undirected weighted graph of src/src/common/Graph.cpp as a value:   *)
(* an adjacency list, which is a map from vertex numbers to sequences of   *)
(* edges, and the number addVertex() gives next.                           *)
(*                                                                         *)
(* adjacencyList[v] on the std::unordered_map of the code inserts v when   *)
(* it is missing: Subscripted does that.  The order in which the code      *)
(* visits the map never matters here: every list is rebuilt from one list. *)
(***************************************************************************)
EXTENDS Integers, FiniteSetsExt, SequencesExt

Edge(s, d, w) == [source |-> s, destination |-> d, weight |-> w]

\* Mutant of NewGraph: numbers new vertices from 0 again.
NewGraphFromZero(numVertices) ==
  [adjacencyList |-> [v \in 0..numVertices - 1 |-> <<>>],
   nextVertexId  |-> 0]

NewGraph(numVertices) ==
  [adjacencyList |-> [v \in 0..numVertices - 1 |-> <<>>],
   nextVertexId  |-> numVertices]

EmptyGraph == NewGraph(0)

VertexSet(g) == DOMAIN g.adjacencyList

getVertices(g) == Cardinality(VertexSet(g))

getAdjacentEdges(g, v) == IF v \in VertexSet(g) THEN g.adjacencyList[v] ELSE <<>>

Entries(g) == MapThenSumSet(LAMBDA v : Len(g.adjacencyList[v]), VertexSet(g))

\* Every edge is in two lists, so the entries are halved.
getEdges(g) == Entries(g) \div 2

Subscripted(g, vs) ==
  [g EXCEPT !.adjacencyList =
     [v \in VertexSet(g) \cup vs |-> getAdjacentEdges(g, v)]]

\* Mutant of addEdge: stores the edge in one direction.
addEdgeOneWay(g, s, d, w) ==
  [g EXCEPT !.adjacencyList =
     [v \in VertexSet(g) \cup {s, d} |->
        getAdjacentEdges(g, v) \o IF v = s THEN <<Edge(s, d, w)>> ELSE <<>>]]

addEdge(g, s, d, w) ==
  LET Pushed(v) == (IF v = s THEN <<Edge(s, d, w)>> ELSE <<>>)
                     \o (IF v = d THEN <<Edge(d, s, w)>> ELSE <<>>)
  IN  [g EXCEPT !.adjacencyList =
         [v \in VertexSet(g) \cup {s, d} |-> getAdjacentEdges(g, v) \o Pushed(v)]]

\* The new vertex takes the place of whatever was stored under its number.
addVertex(g) ==
  [adjacencyList |-> [v \in VertexSet(g) \cup {g.nextVertexId} |->
                        IF v = g.nextVertexId THEN <<>> ELSE g.adjacencyList[v]],
   nextVertexId  |-> g.nextVertexId + 1]

\* The elements of a sequence at some of its positions, in order.
Subsequence(s, positions) ==
  LET upTo[n \in 0..Len(s)] ==
        IF n = 0 THEN <<>>
        ELSE IF n \in positions THEN Append(upTo[n - 1], s[n]) ELSE upTo[n - 1]
  IN  upTo[Len(s)]

\* Where the edges to d are in a list.
EdgesTo(edges, d) == {i \in 1..Len(edges) : edges[i].destination = d}

\* std::remove_if of the edges to d, followed by erase of the tail.
WithoutEdgesTo(edges, d) == Subsequence(edges, (1..Len(edges)) \ EdgesTo(edges, d))

(***************************************************************************)
(* removeEdge(v, v) runs remove_if twice on one vector before it erases,   *)
(* and the erases are given iterators past the new end: undefined.  With   *)
(* libstdc++ the elements beyond the first new end keep their values, the  *)
(* second remove_if keeps those among them that are not loops, and the     *)
(* second erase cuts the vector where that one ended.                      *)
(***************************************************************************)
AfterLoopRemoval(edges, v) ==
  LET kept == WithoutEdgesTo(edges, v)
  IN  kept \o WithoutEdgesTo(SubSeq(edges, Len(kept) + 1, Len(edges)), v)

removeEdge(g, s, d) ==
  LET h == Subscripted(g, {s, d})
  IN  IF s = d
      THEN [h EXCEPT !.adjacencyList[s] = AfterLoopRemoval(@, s)]
      ELSE [h EXCEPT !.adjacencyList[s] = WithoutEdgesTo(@, d),
                     !.adjacencyList[d] = WithoutEdgesTo(@, s)]

(***************************************************************************)
(* removeVertex() removes the edges to v, then v, and rebuilds the map     *)
(* with the numbers above v one lower.  The new map gets a vertex when the *)
(* first of its edges is copied.                                           *)
(***************************************************************************)
Renumbered(v, removed) == IF v > removed THEN v - 1 ELSE v

removeVertex(g, v) ==
  LET kept == {u \in VertexSet(g) \ {v} : WithoutEdgesTo(g.adjacencyList[u], v) # <<>>}
      Copied(u) ==
        LET edges == WithoutEdgesTo(g.adjacencyList[u], v)
        IN  [i \in 1..Len(edges) |->
               Edge(Renumbered(u, v), Renumbered(edges[i].destination, v), edges[i].weight)]
  IN  IF v \notin VertexSet(g)
      THEN g
      ELSE [g EXCEPT !.adjacencyList =
              [n \in {Renumbered(u, v) : u \in kept} |->
                 Copied(CHOOSE u \in kept : Renumbered(u, v) = n)]]

\* The position of the first edge to d, 0 if there is none.
FirstEdgeTo(edges, d) == IF EdgesTo(edges, d) = {} THEN 0 ELSE Min(EdgesTo(edges, d))

HasEdge(g, s, d) ==
  /\ FirstEdgeTo(getAdjacentEdges(g, s), d) # 0
  /\ FirstEdgeTo(getAdjacentEdges(g, d), s) # 0

changeWeight(g, s, d, w) ==
  LET h == Subscripted(g, {s, d})
      i == FirstEdgeTo(h.adjacencyList[s], d)
      j == FirstEdgeTo(h.adjacencyList[d], s)
  IN  IF HasEdge(h, s, d)
      THEN [h EXCEPT !.adjacencyList[s][i].weight = w,
                     !.adjacencyList[d][j].weight = w]
      ELSE h

-----------------------------------------------------------------------------
(***************************************************************************)
(* What the rest of the program expects of a graph.                        *)
(***************************************************************************)

\* The weights of the edges to d, in the order of the list.
WeightsTo(edges, d) == Subsequence([i \in 1..Len(edges) |-> edges[i].weight], EdgesTo(edges, d))

WeightsBetween(g, u, v) == WeightsTo(getAdjacentEdges(g, u), v)

\* Each edge is stored for both directions, with one weight.
StoredTwice(g) ==
  /\ \A u \in VertexSet(g) : \A i \in DOMAIN g.adjacencyList[u] :
       LET e == g.adjacencyList[u][i]
       IN  e.source = u /\ e.destination \in VertexSet(g)
  /\ \A u, v \in VertexSet(g) : u # v => WeightsBetween(g, u, v) = WeightsBetween(g, v, u)
  /\ \A v \in VertexSet(g) : Len(WeightsBetween(g, v, v)) % 2 = 0
=============================================================================
