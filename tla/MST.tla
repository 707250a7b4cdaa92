-------------------------------- MODULE MST --------------------------------
(***************************************************************************)
(* Kruskal's and Prim's algorithm (src/src/common/KruskalMST.cpp and       *)
(* PrimMST.cpp), and the choice between them in MSTFactory.cpp.  One step  *)
(* is one iteration of a loop.  Nothing interferes: the command that calls *)
(* them owns the graph, see Sessions.                                      *)
(*                                                                         *)
(* An index outside an array ends the run as "outOfBounds".                *)
(***************************************************************************)
EXTENDS SpanningTrees

CONSTANT Inputs    \* the graphs findMST() may be given

VARIABLES
  graph,      \* its argument
  algorithm,  \* which findMST() runs
  phase,      \* where it is, see Phases
  mst,        \* the result so far
  parent,     \* Kruskal: the union-find array; Prim: the tree
  allEdges,   \* Kruskal: the edges not yet looked at
  visited,    \* Prim
  key,        \* Prim: the lightest edge known into each vertex
  pq,         \* Prim: the priority queue of pairs <<key, vertex>>
  neighbors   \* Prim: what is left of the list of the vertex just visited

vars ==
  <<graph, algorithm, phase, mst, parent, allEdges, visited, key, pq, neighbors>>

Phases ==
  {"create",        \* about to choose the algorithm
   "kruskal",       \* at the head of Kruskal's loop
   "prim",          \* at the head of Prim's outer loop
   "relax",         \* at the head of Prim's inner loop
   "done", "refused", "outOfBounds"}

Ended == {"done", "refused", "outOfBounds"}

Init ==
  /\ graph \in Inputs
  /\ algorithm = "none"
  /\ phase = "create"
  /\ mst = <<>> /\ parent = <<>>
  /\ allEdges = {}
  /\ visited = {} /\ key = <<>> /\ pq = {} /\ neighbors = <<>>

\* An algorithm with another name, and a graph too small, are refused by an
\* exception, which the command reports.
Refuse ==
  /\ phase = "create"
  /\ phase' = "refused"
  /\ UNCHANGED <<graph, algorithm, mst, parent, allEdges, visited, key, pq, neighbors>>

-----------------------------------------------------------------------------
(***************************************************************************)
(* Kruskal.  parent[v] is what find(v) returns, the root of v's set: path  *)
(* compression changes no root, and only roots are compared.  The sorted   *)
(* vector is a set whose lightest element is next, for sort() may order    *)
(* equal weights in any way, and an edge met twice is rejected twice.      *)
(***************************************************************************)
StartKruskal ==
  /\ phase = "create"
  /\ getVertices(graph) >= 2
  /\ algorithm' = "kruskal"
  /\ allEdges' = EntriesOf(graph, Slots(graph))
  /\ parent' = [v \in Slots(graph) |-> v]
  /\ phase' = "kruskal"
  /\ UNCHANGED <<graph, mst, visited, key, pq, neighbors>>

unionSets(e) ==
  parent' = [v \in Slots(graph) |->
               IF parent[v] = parent[e.source] THEN parent[e.destination] ELSE parent[v]]

\* Mutant of NextEdge: the edges are not sorted.
NextUnsorted(e) == e \in allEdges

NextEdge(e) == e \in allEdges /\ \A f \in allEdges : e.weight <= f.weight

\* Mutant of Enough: a tree of n vertices has n edges.
EnoughEdges(tree) == Len(tree) = getVertices(graph)

Enough(tree) == Len(tree) = getVertices(graph) - 1

KruskalTakes(e) ==
  /\ parent[e.source] # parent[e.destination]
  /\ mst' = Append(mst, e)
  /\ unionSets(e)

KruskalSkips(e) ==
  /\ parent[e.source] = parent[e.destination]
  /\ UNCHANGED <<mst, parent>>

KruskalStep ==
  /\ phase = "kruskal"
  /\ \E e \in allEdges :
       /\ NextEdge(e)
       /\ allEdges' = allEdges \ {e}
       /\ \/ /\ e.destination \in Slots(graph)
             /\ (KruskalTakes(e) \/ KruskalSkips(e))
             /\ phase' = IF Enough(mst') THEN "done" ELSE "kruskal"
          \/ /\ e.destination \notin Slots(graph)
             /\ phase' = "outOfBounds"
             /\ UNCHANGED <<mst, parent>>
  /\ UNCHANGED <<graph, algorithm, visited, key, pq, neighbors>>

KruskalEnds ==
  /\ phase = "kruskal"
  /\ allEdges = {}
  /\ phase' = "done"
  /\ UNCHANGED <<graph, algorithm, mst, parent, allEdges, visited, key, pq, neighbors>>

-----------------------------------------------------------------------------
(***************************************************************************)
(* Prim.  An entry of the queue is superseded when its vertex gets a       *)
(* lighter one; the code skips it when it comes up, for the vertex has     *)
(* been visited by then.                                                   *)
(***************************************************************************)
StartPrim ==
  /\ phase = "create"
  /\ getVertices(graph) >= 2
  /\ algorithm' = "prim"
  /\ key' = [v \in Slots(graph) |-> IF v = 0 THEN 0 ELSE MaxInt]
  /\ parent' = [v \in Slots(graph) |-> -1]
  /\ pq' = {<<0, 0>>}
  /\ phase' = "prim"
  /\ UNCHANGED <<graph, mst, allEdges, visited, neighbors>>

\* The order of std::greater on pairs: by key, then by vertex.
Before(p, q) == p[1] < q[1] \/ (p[1] = q[1] /\ p[2] <= q[2])

\* Mutant of Pop: looks at the top of the queue and leaves it there.
Peek(p) ==
  /\ p \in pq /\ \A q \in pq : Before(p, q)
  /\ UNCHANGED pq

Pop(p) ==
  /\ p \in pq /\ \A q \in pq : Before(p, q)
  /\ pq' = pq \ {p}

\* Mutant of PrimVisits: adds an edge for the vertex it starts from, too.
PrimVisitsAll(u) ==
  /\ u \notin visited
  /\ visited' = visited \cup {u}
  /\ mst' = Append(mst, Edge(parent[u], u, key[u]))
  /\ neighbors' = getAdjacentEdges(graph, u)
  /\ phase' = "relax"

PrimVisits(u) ==
  /\ u \notin visited
  /\ visited' = visited \cup {u}
  /\ mst' = IF parent[u] = -1 THEN mst ELSE Append(mst, Edge(parent[u], u, key[u]))
  /\ neighbors' = getAdjacentEdges(graph, u)
  /\ phase' = "relax"

PrimSkips(u) ==
  /\ u \in visited
  /\ UNCHANGED <<visited, mst, neighbors, phase>>

PrimStep ==
  /\ phase = "prim"
  /\ \E p \in pq : Pop(p) /\ (PrimVisits(p[2]) \/ PrimSkips(p[2]))
  /\ UNCHANGED <<graph, algorithm, parent, allEdges, key>>

PrimEnds ==
  /\ phase = "prim"
  /\ pq = {}
  /\ phase' = "done"
  /\ UNCHANGED <<graph, algorithm, mst, parent, allEdges, visited, key, pq, neighbors>>

\* Mutant of Improves: a vertex keeps the first edge that reached it.
ImprovesOnce(v, weight) == v \notin visited /\ key[v] = MaxInt /\ weight < MaxInt

Improves(v, weight) == v \notin visited /\ weight < key[v]

\* The list just scanned belongs to the vertex visited last.
PrimRelaxes(u, v, weight) ==
  \/ /\ Improves(v, weight)
     /\ parent' = [parent EXCEPT ![v] = u]
     /\ key' = [key EXCEPT ![v] = weight]
     /\ pq' = pq \cup {<<weight, v>>}
  \/ /\ ~Improves(v, weight)
     /\ UNCHANGED <<parent, key, pq>>

PrimNeighbor ==
  /\ phase = "relax"
  /\ neighbors # <<>>
  /\ neighbors' = Tail(neighbors)
  /\ LET e == Head(neighbors)
     IN  \/ /\ e.destination \in Slots(graph)
            /\ PrimRelaxes(e.source, e.destination, e.weight)
            /\ UNCHANGED phase
         \/ /\ e.destination \notin Slots(graph)
            /\ phase' = "outOfBounds"
            /\ UNCHANGED <<parent, key, pq>>
  /\ UNCHANGED <<graph, algorithm, mst, allEdges, visited>>

PrimScanned ==
  /\ phase = "relax"
  /\ neighbors = <<>>
  /\ phase' = "prim"
  /\ UNCHANGED <<graph, algorithm, mst, parent, allEdges, visited, key, pq, neighbors>>

-----------------------------------------------------------------------------
Next ==
  \/ Refuse \/ StartKruskal \/ KruskalStep \/ KruskalEnds
  \/ StartPrim \/ PrimStep \/ PrimNeighbor \/ PrimScanned \/ PrimEnds

SafeSpec == Init /\ [][Next]_vars

\* One thread runs the loops.
Spec == SafeSpec /\ WF_vars(Next)

-----------------------------------------------------------------------------
TypeOK ==
  /\ phase \in Phases
  /\ algorithm \in {"none", "kruskal", "prim"}
  /\ mst \in Seq(EntriesOf(graph, Slots(graph)))
  /\ algorithm = "kruskal" => parent \in [Slots(graph) -> Slots(graph)]
  /\ algorithm = "prim" =>
       /\ parent \in [Slots(graph) -> Slots(graph) \cup {-1}]
       /\ key \in [Slots(graph) -> Int]
  /\ allEdges \subseteq EntriesOf(graph, Slots(graph))
  /\ visited \subseteq Slots(graph)
  /\ pq \subseteq Int \X Slots(graph)
  /\ ToSet(neighbors) \subseteq EntriesOf(graph, Slots(graph))

Undirected(edges) == {[ends |-> {e.source, e.destination}, weight |-> e.weight] : e \in edges}

Forest == INSTANCE GrowingForest
            WITH edges <- Undirected(EntriesOf(graph, Slots(graph))), forest <- Undirected(ToSet(mst))

\* Both algorithms add, each time, a lightest edge across a cut that their
\* forest does not cross.
GrowsByLightest == Forest!Spec

\* findMST() returns, whatever the graph.
FindMSTReturns == <>(phase \in Ended)

(***************************************************************************)
(* The reference: of all sets of edges without a cycle that connect what   *)
(* the graph connects, one of the lightest.                                *)
(***************************************************************************)
WeightOf(es) == MapThenSumSet(LAMBDA e : e.weight, es)

TreesOf(es, vs) == {Tree(BothWays(es), v) : v \in vs}

Spans(es, all, vs) == TreesOf(es, vs) = TreesOf(all, vs)

\* The ends of the edges Prim's tree may use; Kruskal's may use all.
Reach == IF algorithm = "prim" THEN Tree(BothWays(EntriesOf(graph, Slots(graph))), 0)
                               ELSE Slots(graph)

\* Kruskal's may be complete before it meets an edge that leaves the arrays.
Oriented == {e \in EntriesOf(graph, Reach) : e.source < e.destination /\ e.destination \in Slots(graph)}

Usable == \A e \in Oriented : e.weight < MaxInt

\* The result connects what the graph connects (Prim: to vertex 0), without a
\* cycle, and no other set of edges that does is lighter: the two algorithms
\* return trees of one weight on every connected graph.  An edge of weight
\* MaxInt is none to Prim, whose keys start there.
MinimumWhenDone ==
  phase = "done" /\ (algorithm = "prim" => Usable) =>
    /\ Spans(ToSet(mst), Oriented, Reach)
    /\ Len(mst) = Cardinality(Reach) - Cardinality(TreesOf(Oriented, Reach))
    /\ \A es \in SUBSET Oriented :
         Cardinality(es) = Len(mst) /\ Spans(es, Oriented, Reach) =>
           WeightOf(ToSet(mst)) <= WeightOf(es)

\* What Sessions takes for the outcome of an algorithm is one it may have:
\* when it leaves its arrays, what its tree spans and how long it is.
AgreesWithOutcomes ==
  phase \in {"done", "outOfBounds"} =>
    [outOfBounds |-> phase = "outOfBounds",
     mst |-> IF phase = "outOfBounds" THEN NoMST
             ELSE [vertices |-> UNION {{e.source, e.destination} : e \in ToSet(mst)},
                   length   |-> Len(mst)]] \in Outcomes(graph, algorithm)
=============================================================================
