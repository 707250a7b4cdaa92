------------------------------- MODULE MCMST --------------------------------
(***************************************************************************)
(* Graphs on which TLC runs the algorithms of MST: all that the commands   *)
(* can build with few vertices, out of a few weights.                      *)
(***************************************************************************)
EXTENDS MSTMetrics, TLC

\* The graph that addEdge() builds from the edges in es.
Built(numVertices, es) ==
  FoldSet(LAMBDA e, g : addEdge(g, e.source, e.destination, e.weight), NewGraph(numVertices), es)

\* Four vertices, each pair joined by no edge (0) or one of weight 1, 2 or 3;
\* each weight at most twice, and 3 only in complete graphs.
Simple ==
  LET Often(w, n) == Cardinality({p \in Pairs(4) : w[p] = n})
      Weights == {w \in [Pairs(4) -> 0..3] :
                    /\ \A n \in 1..3 : Often(w, n) <= 2
                    /\ Often(w, 0) > 0 => Often(w, 3) = 0}
  IN  {Built(4, {Edge(p[1], p[2], w[p]) : p \in {p \in Pairs(4) : w[p] # 0}}) : w \in Weights}

\* Three vertices and up to three edges, loops, parallel edges, and weights at
\* the ends of the range among them.
Odd ==
  LET Candidates == {Edge(s, d, w) : s \in 0..2, d \in 0..2, w \in {-1, 1, MaxInt}}
  IN  {Built(3, es) : es \in UNION {kSubset(k, {e \in Candidates : e.source <= e.destination}) : k \in 0..3}}

\* What remove_vtx leaves of a graph.
Renumbering == {removeVertex(g, v) : g \in Simple, v \in {0, 3}}

\* The same after add_vtx has emptied the list of a number that change_weight
\* had made a vertex: edges in one direction, to a vertex that is none.
Overwritten == {removeVertex(addVertex([g EXCEPT !.nextVertexId = 3]), 1) : g \in Simple}

Small == {NewGraph(0), NewGraph(1)}

\* On these both algorithms are proved to grow by lightest edges.
ASSUME Listed == \A g \in Simple \cup Odd \cup Small : Mirrored(g)

AllInputs == Simple \cup Odd \cup Renumbering \cup Overwritten \cup Small
=============================================================================
