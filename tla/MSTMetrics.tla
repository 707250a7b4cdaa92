----------------------------- MODULE MSTMetrics -----------------------------
(***************************************************************************)
(* The metrics of src/src/common/MSTMetrics.cpp, as operators on the edges *)
(* that MST found, with int arithmetic: a sum beyond MaxInt is undefined,  *)
(* which `overflow` records.                                               *)
(***************************************************************************)
EXTENDS MST

Representable(n) == n \in -MaxInt - 1..MaxInt

\* The value of an int expression, and whether it is undefined.
AddInt(acc, n) ==
  [value |-> acc.value + n, overflow |-> acc.overflow \/ ~Representable(acc.value + n)]

getTotalWeight(tree) ==
  FoldLeft(LAMBDA acc, e : AddInt(acc, e.weight), [value |-> 0, overflow |-> FALSE], tree)

-----------------------------------------------------------------------------
(***************************************************************************)
(* The matrix of distances between n vertices, MaxInt where none is known: *)
(* first the edges, then the three nested loops of Floyd and Warshall, one *)
(* m for each round of the innermost.                                      *)
(***************************************************************************)
EdgeDistances(tree, n) ==
  FoldLeft(LAMBDA dist, e : [dist EXCEPT ![<<e.source, e.destination>>] = e.weight,
                                         ![<<e.destination, e.source>>] = e.weight],
           [p \in (0..n - 1) \X (0..n - 1) |-> MaxInt], tree)

\* Mutant of Relax: adds to a distance that is not known.
RelaxAny(state, i, k, j) ==
  LET sum == state.dist[<<i, k>>] + state.dist[<<k, j>>]
  IN  [dist     |-> IF sum < state.dist[<<i, j>>] THEN [state.dist EXCEPT ![<<i, j>>] = sum] ELSE state.dist,
       overflow |-> state.overflow \/ ~Representable(sum)]

Relax(state, i, k, j) ==
  LET sum == state.dist[<<i, k>>] + state.dist[<<k, j>>]
  IN  IF state.dist[<<i, k>>] = MaxInt \/ state.dist[<<k, j>>] = MaxInt
      THEN state
      ELSE [dist     |-> IF sum < state.dist[<<i, j>>] THEN [state.dist EXCEPT ![<<i, j>>] = sum]
                                                   ELSE state.dist,
            overflow |-> state.overflow \/ ~Representable(sum)]

FloydWarshall(tree, n) ==
  LET after[m \in 0..n * n * n] ==
        IF m = 0
        THEN [dist |-> EdgeDistances(tree, n), overflow |-> FALSE]
        ELSE Relax(after[m - 1], ((m - 1) \div n) % n, (m - 1) \div (n * n), (m - 1) % n)
  IN  after[n * n * n]

-----------------------------------------------------------------------------
Pairs(n) == {p \in (0..n - 1) \X (0..n - 1) : p[1] < p[2]}

\* The distances known between different vertices, by pair.
Distances(tree, n) ==
  LET after == FloydWarshall(tree, n)
      known == {p \in Pairs(n) : after.dist[p] # MaxInt}
  IN  [of |-> [p \in known |-> after.dist[p]], overflow |-> after.overflow]

\* maxDist starts at 0.
getLongestDistance(g, tree) ==
  LET dists == Distances(tree, getVertices(g))
  IN  IF tree = <<>>
      THEN [value |-> 0, overflow |-> FALSE]
      ELSE [value |-> Max({0} \cup Range(dists.of)), overflow |-> dists.overflow]

Total(f) == FoldFunction(+, 0, f)

\* The sum and the count whose quotient is returned; the sum is a double.
getAverageDistance(g, tree) ==
  LET dists == Distances(tree, getVertices(g))
  IN  IF tree = <<>>
      THEN [sum |-> 0, validPairs |-> 0, overflow |-> FALSE]
      ELSE [sum |-> Total(dists.of),
            validPairs |-> Cardinality(DOMAIN dists.of), overflow |-> dists.overflow]

\* The only one that is not given the graph: it counts on a tree of all its
\* vertices.
getShortestDistance(tree) ==
  LET dists == Distances(tree, Len(tree) + 1)
  IN  IF tree = <<>>
      THEN [value |-> 0, overflow |-> FALSE]
      ELSE [value |-> Min({MaxInt} \cup Range(dists.of)), overflow |-> dists.overflow]

calculateMetrics(g, tree) ==
  [totalWeight   |-> getTotalWeight(tree),
   averageWeight |-> getAverageDistance(g, tree),
   maxWeight     |-> getLongestDistance(g, tree),
   minWeight     |-> getShortestDistance(tree)]

-----------------------------------------------------------------------------
(***************************************************************************)
(* The reference: the path between two vertices of a tree consists of the  *)
(* edges whose removal disconnects them.                                   *)
(***************************************************************************)
Connected(es, p) == p[2] \in Tree(BothWays(es), p[1])

PathWeight(es, p) == WeightOf({e \in es : ~Connected(es \ {e}, p)})

\* The sum of four copies of the tree is an int: Floyd and Warshall's loops
\* add up to that much, when they go from a vertex to itself and back twice.
Moderate(tree) == \A e \in ToSet(tree) : e.weight >= 0 /\ 4 * WeightOf(ToSet(tree)) <= MaxInt

\* On a tree of all the vertices, with moderate weights that are not negative,
\* no sum overflows and the metrics are what they are called: the weights of
\* the longest and the shortest path, and the mean of all.
MetricsExact ==
  phase = "done" /\ Len(mst) = getVertices(graph) - 1 /\ Moderate(mst) =>
    LET es == ToSet(mst)
        pairs == Pairs(getVertices(graph))
        paths == {PathWeight(es, p) : p \in pairs}
    IN  calculateMetrics(graph, mst) =
          [totalWeight   |-> [value |-> WeightOf(es), overflow |-> FALSE],
           averageWeight |-> [sum |-> Total([p \in pairs |-> PathWeight(es, p)]),
                              validPairs |-> Cardinality(pairs), overflow |-> FALSE],
           maxWeight     |-> [value |-> Max(paths), overflow |-> FALSE],
           minWeight     |-> [value |-> Min(paths), overflow |-> FALSE]]
=============================================================================
