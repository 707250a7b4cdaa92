--------------------------- MODULE SpanningTrees ---------------------------
(***************************************************************************)
(* What comes out of the two MST algorithms of src/src/common, without     *)
(* running them: which vertices the tree spans, how many edges it has, and *)
(* whether the algorithm leaves its arrays first.  Module MST runs them    *)
(* step by step and is checked against this summary, Sessions uses it.     *)
(***************************************************************************)
EXTENDS Graph

CONSTANT MaxInt    \* std::numeric_limits<int>::max()

ASSUME MaxIntAssumption == MaxInt \in Nat \ {0}

\* Of an MST: the vertices its edges mention and how many edges there are.
NoMST == [vertices |-> {}, length |-> 0]

\* Both algorithms have arrays of getVertices() elements, indexed by vertex.
Slots(g) == 0..getVertices(g) - 1

EntriesOf(g, vs) == UNION {ToSet(getAdjacentEdges(g, v)) : v \in vs}

\* A graph as the commands keep it as long as they make sense: edges are in the
\* list of their source, and each is in the other direction, too.
Mirrored(g) ==
  /\ getVertices(g) \in Nat
  /\ \A v \in Slots(g) :
       getAdjacentEdges(g, v) \in Seq([source : {v}, destination : Int, weight : Int])
  /\ \A e \in EntriesOf(g, Slots(g)) :
       e.destination \in Slots(g) =>
         Edge(e.destination, e.source, e.weight) \in EntriesOf(g, Slots(g))

\* The vertices reached from v: the least set with v that links do not leave.
Tree(links, v) ==
  LET Closed(T) == v \in T /\ \A l \in links : l[1] \in T => l[2] \in T
  IN  CHOOSE T \in SUBSET ({v} \cup {l[2] : l \in links}) :
        Closed(T) /\ \A U \in SUBSET T : Closed(U) => U = T

OneWay(edges) == {<<e.source, e.destination>> : e \in edges}
BothWays(edges) == OneWay(edges) \cup {<<e.destination, e.source>> : e \in edges}

SpanningForest(trees) ==
  LET kept == {t \in trees : Cardinality(t) > 1}
  IN  [vertices |-> UNION kept,
       length   |-> Cardinality(UNION kept) - Cardinality(kept)]

Success(trees) == [outOfBounds |-> FALSE, mst |-> SpanningForest(trees)]
OutOfBounds == [outOfBounds |-> TRUE, mst |-> NoMST]

(***************************************************************************)
(* Kruskal's algorithm takes the edges in the lists of Slots(g), lightest  *)
(* first, equal weights in any order, until it has getVertices() - 1 of    *)
(* them.  Its union-find array has no element for an end outside.          *)
(***************************************************************************)
KruskalOutcomes(g) ==
  LET edges == EntriesOf(g, Slots(g))
      outside == {e \in edges : e.destination \notin Slots(g)}
      Forest(es) == {Tree(BothWays(es), v) : v \in Slots(g)}
      Lighter(e) == {f \in edges \ outside : f.weight < e.weight}
      AsLight(e) == {f \in edges \ outside : f.weight <= e.weight}
  IN  IF outside = {}
      THEN {Success(Forest(edges))}
      ELSE LET first == CHOOSE e \in outside : \A f \in outside : e.weight <= f.weight
           IN  (IF Slots(g) \in Forest(Lighter(first)) THEN {} ELSE {OutOfBounds})
               \cup
               (IF Slots(g) \in Forest(AsLight(first)) THEN {Success({Slots(g)})} ELSE {})

(***************************************************************************)
(* Prim's algorithm visits what it reaches from vertex 0 over edges that   *)
(* are lighter than the initial key, and looks at all edges of these.      *)
(***************************************************************************)
PrimOutcomes(g) ==
  LET usable == {e \in EntriesOf(g, Slots(g)) :
                   e.weight < MaxInt /\ e.destination \in Slots(g)}
      reached == Tree(OneWay(usable), 0)
  IN  IF \A e \in EntriesOf(g, reached) : e.destination \in Slots(g)
      THEN {Success({reached})}
      ELSE {OutOfBounds}

Outcomes(g, algorithm) ==
  IF algorithm = "prim" THEN PrimOutcomes(g) ELSE KruskalOutcomes(g)
=============================================================================
