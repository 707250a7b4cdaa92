---------------------------- MODULE GraphProofs -----------------------------
(***************************************************************************)
(* What the operations of a graph do to its set of vertices, and that they *)
(* keep it undirected: every edge in the lists of both its ends, with one  *)
(* weight.  Then sets of edges: their components, and the paths in those   *)
(* without cycles.                                                         *)
(***************************************************************************)
EXTENDS SpanningTrees, Induction, FiniteSetTheorems, TLAPS

\* A graph is a record of the two fields.
Shaped(g) == g = [adjacencyList |-> g.adjacencyList, nextVertexId |-> g.nextVertexId]

LEMMA NewGraphVertices ==
  ASSUME NEW n \in Int
  PROVE  /\ Shaped(NewGraph(n)) /\ VertexSet(NewGraph(n)) = 0..n - 1
         /\ NewGraph(n).nextVertexId = n
  BY DEF Shaped, NewGraph, VertexSet

\* A list is replaced, or all are.
LEMMA StoreVertices ==
  ASSUME NEW g, Shaped(g), NEW f
  PROVE  LET h == [g EXCEPT !.adjacencyList = f]
         IN  Shaped(h) /\ VertexSet(h) = DOMAIN f /\ h.nextVertexId = g.nextVertexId
  BY DEF Shaped, VertexSet

LEMMA StoreListVertices ==
  ASSUME NEW g, Shaped(g), NEW v, NEW x
  PROVE  LET h == [g EXCEPT !.adjacencyList[v] = x]
         IN  Shaped(h) /\ VertexSet(h) = VertexSet(g) /\ h.nextVertexId = g.nextVertexId
  BY DEF Shaped, VertexSet

LEMMA AddEdgeVertices ==
  ASSUME NEW g, Shaped(g), NEW s, NEW d, NEW w
  PROVE  /\ Shaped(addEdge(g, s, d, w))
         /\ VertexSet(addEdge(g, s, d, w)) = VertexSet(g) \cup {s, d}
         /\ addEdge(g, s, d, w).nextVertexId = g.nextVertexId
<1> DEFINE Pushed(v) == (IF v = s THEN <<Edge(s, d, w)>> ELSE <<>>)
                           \o (IF v = d THEN <<Edge(d, s, w)>> ELSE <<>>)
           New(v) == getAdjacentEdges(g, v) \o Pushed(v)
           f == [v \in VertexSet(g) \cup {s, d} |-> New(v)]
<1>1. addEdge(g, s, d, w) = [g EXCEPT !.adjacencyList = f]
  BY Zenon DEF addEdge
<1>2. DOMAIN f = VertexSet(g) \cup {s, d}
  <2> HIDE DEF New
  <2> QED
    OBVIOUS
<1> HIDE DEF f
<1> QED
  BY <1>1, <1>2, StoreVertices

LEMMA AddVertexVertices ==
  ASSUME NEW g
  PROVE  /\ Shaped(addVertex(g))
         /\ VertexSet(addVertex(g)) = VertexSet(g) \cup {g.nextVertexId}
         /\ addVertex(g).nextVertexId = g.nextVertexId + 1
  BY DEF Shaped, addVertex, VertexSet

LEMMA SubscriptedVertices ==
  ASSUME NEW g, Shaped(g), NEW vs
  PROVE  /\ Shaped(Subscripted(g, vs))
         /\ VertexSet(Subscripted(g, vs)) = VertexSet(g) \cup vs
         /\ Subscripted(g, vs).nextVertexId = g.nextVertexId
  BY DEF Shaped, Subscripted, VertexSet

LEMMA RemoveEdgeVertices ==
  ASSUME NEW g, Shaped(g), NEW s, NEW d
  PROVE  /\ Shaped(removeEdge(g, s, d))
         /\ VertexSet(removeEdge(g, s, d)) = VertexSet(g) \cup {s, d}
         /\ removeEdge(g, s, d).nextVertexId = g.nextVertexId
<1> DEFINE h == Subscripted(g, {s, d})
<1>1. /\ Shaped(h) /\ VertexSet(h) = VertexSet(g) \cup {s, d}
      /\ h.nextVertexId = g.nextVertexId
  BY SubscriptedVertices
<1> HIDE DEF h
<1>2. removeEdge(g, s, d) =
        IF s = d THEN [h EXCEPT !.adjacencyList[s] = AfterLoopRemoval(@, s)]
        ELSE [h EXCEPT !.adjacencyList[s] = WithoutEdgesTo(@, d),
                       !.adjacencyList[d] = WithoutEdgesTo(@, s)]
  BY DEF removeEdge, h
<1> DEFINE a == [h EXCEPT !.adjacencyList[s] = WithoutEdgesTo(@, d)]
<1>3. /\ Shaped(a) /\ VertexSet(a) = VertexSet(h) /\ a.nextVertexId = h.nextVertexId
  BY <1>1, StoreListVertices
<1>4. CASE s = d
  BY <1>1, <1>2, <1>4, StoreListVertices
<1>5. CASE s # d
  <2> DEFINE b == [a EXCEPT !.adjacencyList[d] = WithoutEdgesTo(h.adjacencyList[d], s)]
  <2>1. removeEdge(g, s, d) = b
    <3>1. \A x, y : [h EXCEPT !.adjacencyList[s] = x, !.adjacencyList[d] = y]
                     = [[h EXCEPT !.adjacencyList[s] = x] EXCEPT !.adjacencyList[d] = y]
      BY <1>1 DEF Shaped
    <3> QED
      BY <1>1, <1>2, <1>5, <3>1 DEF Shaped
  <2> HIDE DEF a
  <2> QED
    BY <1>1, <1>3, <2>1, StoreListVertices
<1> QED
  BY <1>4, <1>5

LEMMA ChangeWeightVertices ==
  ASSUME NEW g, Shaped(g), NEW s, NEW d, NEW w
  PROVE  /\ Shaped(changeWeight(g, s, d, w))
         /\ VertexSet(changeWeight(g, s, d, w)) = VertexSet(g) \cup {s, d}
         /\ changeWeight(g, s, d, w).nextVertexId = g.nextVertexId
<1> DEFINE h == Subscripted(g, {s, d})
<1>1. /\ Shaped(h) /\ VertexSet(h) = VertexSet(g) \cup {s, d}
      /\ h.nextVertexId = g.nextVertexId
  BY SubscriptedVertices
<1> HIDE DEF h
<1> DEFINE i == FirstEdgeTo(h.adjacencyList[s], d)
           j == FirstEdgeTo(h.adjacencyList[d], s)
           r == [h EXCEPT !.adjacencyList[s][i].weight = w, !.adjacencyList[d][j].weight = w]
<1>2. changeWeight(g, s, d, w) = IF HasEdge(h, s, d) THEN r ELSE h
  BY DEF changeWeight, h
<1>3. Shaped(r) /\ VertexSet(r) = VertexSet(h) /\ r.nextVertexId = h.nextVertexId
  <2> DEFINE a == [h EXCEPT !.adjacencyList[s][i].weight = w]
             b == [a EXCEPT !.adjacencyList[d][j].weight = w]
  <2> HIDE DEF i, j
  <2>1. r = b
    BY <1>1 DEF Shaped
  <2>2. \A g2, v, n :
          Shaped(g2) =>
            LET g3 == [g2 EXCEPT !.adjacencyList[v][n].weight = w]
            IN  Shaped(g3) /\ VertexSet(g3) = VertexSet(g2) /\ g3.nextVertexId = g2.nextVertexId
    BY DEF Shaped, VertexSet
  <2>3. Shaped(a) /\ VertexSet(a) = VertexSet(h) /\ a.nextVertexId = h.nextVertexId
    BY <1>1, <2>2
  <2> HIDE DEF a
  <2>4. Shaped(b) /\ VertexSet(b) = VertexSet(a) /\ b.nextVertexId = a.nextVertexId
    BY <2>2, <2>3
  <2> QED
    BY <2>1, <2>3, <2>4
<1> QED
  BY <1>1, <1>2, <1>3

LEMMA RemoveVertexVertices ==
  ASSUME NEW g, Shaped(g), NEW v
  PROVE  /\ Shaped(removeVertex(g, v))
         /\ \E kept \in SUBSET VertexSet(g) :
              /\ VertexSet(removeVertex(g, v)) = {Renumbered(u, v) : u \in kept}
                 \/ removeVertex(g, v) = g
              /\ v \notin kept
         /\ removeVertex(g, v).nextVertexId = g.nextVertexId
<1> DEFINE kept == {u \in VertexSet(g) \ {v} : WithoutEdgesTo(g.adjacencyList[u], v) # <<>>}
<1>1. CASE v \notin VertexSet(g)
  BY <1>1 DEF removeVertex
<1>2. CASE v \in VertexSet(g)
  <2>1. \E f : /\ removeVertex(g, v) = [g EXCEPT !.adjacencyList = f]
               /\ DOMAIN f = {Renumbered(u, v) : u \in kept}
    <3> DEFINE Copied(u) ==
                 LET edges == WithoutEdgesTo(g.adjacencyList[u], v)
                 IN  [i \in 1..Len(edges) |->
                        Edge(Renumbered(u, v), Renumbered(edges[i].destination, v), edges[i].weight)]
               f == [n \in {Renumbered(u, v) : u \in kept} |->
                       Copied(CHOOSE u \in kept : Renumbered(u, v) = n)]
    <3>1. removeVertex(g, v) = [g EXCEPT !.adjacencyList = f]
      BY <1>2, Zenon DEF removeVertex
    <3>2. DOMAIN f = {Renumbered(u, v) : u \in kept}
      <4> HIDE DEF kept, Copied
      <4> QED
        OBVIOUS
    <3> HIDE DEF f, kept
    <3> QED
      BY <3>1, <3>2
  <2>2. kept \in SUBSET VertexSet(g) /\ v \notin kept
    OBVIOUS
  <2> HIDE DEF kept
  <2>3. PICK f : /\ removeVertex(g, v) = [g EXCEPT !.adjacencyList = f]
                 /\ DOMAIN f = {Renumbered(u, v) : u \in kept}
    BY <2>1
  <2> QED
    BY <2>2, <2>3 DEF Shaped, VertexSet
<1> QED
  BY <1>1, <1>2

-----------------------------------------------------------------------------
(***************************************************************************)
(* Subsequence is given by a recursive function: here is what it does to   *)
(* the empty sequence and to one with an element more.                     *)
(***************************************************************************)
IsUpTo(s, K, n, f) ==
  f = [m \in 0..n |-> IF m = 0 THEN <<>>
                      ELSE IF m \in K THEN Append(f[m - 1], s[m]) ELSE f[m - 1]]

LEMMA UpToValues ==
  ASSUME NEW s, NEW K, NEW n \in Nat, NEW f, IsUpTo(s, K, n, f)
  PROVE  /\ f[0] = <<>>
         /\ \A m \in 1..n : f[m] = IF m \in K THEN Append(f[m - 1], s[m]) ELSE f[m - 1]
<1> DEFINE V(m) == IF m = 0 THEN <<>>
                   ELSE IF m \in K THEN Append(f[m - 1], s[m]) ELSE f[m - 1]
<1>1. f = [m \in 0..n |-> V(m)]
  BY DEF IsUpTo
<1>2. \A m \in 0..n : f[m] = V(m)
  <2> HIDE DEF V
  <2> QED
    BY <1>1
<1> QED
  BY <1>2

LEMMA UpToExists ==
  ASSUME NEW s, NEW K, NEW n \in Nat
  PROVE  \E f : IsUpTo(s, K, n, f)
<1> DEFINE D == {k \in 0..n : \E f : IsUpTo(s, K, k, f)}
<1>1. 0 \in D
  <2>1. IsUpTo(s, K, 0, [m \in 0..0 |-> <<>>])
    BY DEF IsUpTo
  <2> QED
    BY <2>1
<1>2. ASSUME NEW k \in 0..n, k \in D, k < n PROVE k + 1 \in D
  <2>1. PICK f : IsUpTo(s, K, k, f)
    BY <1>2
  <2>2. /\ f[0] = <<>>
        /\ \A m \in 1..k : f[m] = IF m \in K THEN Append(f[m - 1], s[m]) ELSE f[m - 1]
    BY <2>1, UpToValues
  <2> DEFINE last == IF k + 1 \in K THEN Append(f[k], s[k + 1]) ELSE f[k]
             g == [m \in 0..k + 1 |-> IF m = k + 1 THEN last ELSE f[m]]
             V(h, m) == IF m = 0 THEN <<>>
                        ELSE IF m \in K THEN Append(h[m - 1], s[m]) ELSE h[m - 1]
  <2>3. ASSUME NEW m \in 0..k + 1 PROVE g[m] = V(g, m)
    <3>1. CASE m = 0
      BY <2>2, <3>1
    <3>2. CASE m \in 1..k
      <4>1. m - 1 \in 0..k /\ m \in 0..k + 1 /\ m # k + 1 /\ m - 1 # k + 1 /\ m - 1 \in 0..k + 1
        BY <3>2
      <4>2. g[m] = f[m] /\ g[m - 1] = f[m - 1]
        <5> HIDE DEF last
        <5> QED
          BY <4>1
      <4> QED
        BY <2>2, <3>2, <4>2
    <3>3. CASE m = k + 1
      <4>1. k \in 0..k + 1 /\ k # k + 1 /\ k + 1 \in 0..k + 1 /\ m - 1 = k /\ m # 0
        BY <3>3
      <4>2. g[m] = last /\ g[k] = f[k]
        <5> HIDE DEF last
        <5> QED
          BY <3>3, <4>1
      <4> HIDE DEF g
      <4> QED
        BY <3>3, <4>1, <4>2
    <3> QED
      BY <3>1, <3>2, <3>3
  <2>4. g = [m \in 0..k + 1 |-> V(g, m)]
    <3>1. g = [m \in 0..k + 1 |-> g[m]]
      <4> HIDE DEF last
      <4> QED
        OBVIOUS
    <3> HIDE DEF g, V
    <3> QED
      BY <2>3, <3>1
  <2>5. IsUpTo(s, K, k + 1, g)
    BY <2>4 DEF IsUpTo
  <2> QED
    BY <1>2, <2>5
<1> HIDE DEF D
<1>3. n \in D
  BY <1>1, <1>2, UpTo
<1> QED
  BY <1>3 DEF D

\* The function depends only on the elements and positions up to where it goes.
LEMMA UpToAgrees ==
  ASSUME NEW n \in Nat, NEW s, NEW K, NEW f, IsUpTo(s, K, n, f),
         NEW m \in Nat, m >= n, NEW r, NEW J, NEW g, IsUpTo(r, J, m, g),
         \A i \in 1..n : s[i] = r[i] /\ (i \in K <=> i \in J)
  PROVE  \A i \in 0..n : f[i] = g[i]
<1>1. /\ f[0] = <<>> /\ g[0] = <<>>
      /\ \A i \in 1..n : f[i] = IF i \in K THEN Append(f[i - 1], s[i]) ELSE f[i - 1]
      /\ \A i \in 1..m : g[i] = IF i \in J THEN Append(g[i - 1], r[i]) ELSE g[i - 1]
  BY UpToValues
<1> DEFINE D == {i \in 0..n : f[i] = g[i]}
<1>2. 0 \in D
  BY <1>1
<1>3. ASSUME NEW i \in 0..n, i \in D, i < n PROVE i + 1 \in D
  <2>1. i + 1 \in 1..n /\ i + 1 \in 1..m /\ (i + 1) - 1 = i /\ i + 1 \in 0..n
    BY <1>3
  <2>2. f[i + 1] = IF i + 1 \in K THEN Append(f[i], s[i + 1]) ELSE f[i]
    BY <1>1, <2>1
  <2>3. g[i + 1] = IF i + 1 \in J THEN Append(g[i], r[i + 1]) ELSE g[i]
    BY <1>1, <2>1
  <2> QED
    BY <1>3, <2>1, <2>2, <2>3
<1> HIDE DEF D
<1>4. 0..n \subseteq D
  BY <1>2, <1>3, UpTo
<1> QED
  BY <1>4 DEF D

LEMMA SubsequenceIs ==
  ASSUME NEW s, Len(s) \in Nat, NEW K
  PROVE  \E f : IsUpTo(s, K, Len(s), f) /\ Subsequence(s, K) = f[Len(s)]
<1>1. Subsequence(s, K) = (CHOOSE f : IsUpTo(s, K, Len(s), f))[Len(s)]
  BY DEF Subsequence, IsUpTo
<1> QED
  BY <1>1, UpToExists

LEMMA SubsequenceEmpty == ASSUME NEW K PROVE Subsequence(<<>>, K) = <<>>
<1>1. Len(<<>>) = 0
  OBVIOUS
<1> QED
  BY <1>1, SubsequenceIs, UpToValues

LEMMA SubsequenceAppend ==
  ASSUME NEW T, NEW s \in Seq(T), NEW e \in T, NEW K, NEW J,
         \A i \in 1..Len(s) : i \in K <=> i \in J
  PROVE  Subsequence(Append(s, e), K) =
           IF Len(s) + 1 \in K THEN Append(Subsequence(s, J), e) ELSE Subsequence(s, J)
<1> DEFINE n == Len(s)
           r == Append(s, e)
<1>1. n \in Nat /\ Len(r) = n + 1 /\ r[n + 1] = e /\ \A i \in 1..n : s[i] = r[i]
  OBVIOUS
<1> HIDE DEF n, r
<1>2. PICK f : IsUpTo(s, J, n, f) /\ Subsequence(s, J) = f[n]
  BY <1>1, SubsequenceIs DEF n
<1>3. PICK g : IsUpTo(r, K, n + 1, g) /\ Subsequence(r, K) = g[n + 1]
  BY <1>1, SubsequenceIs
<1>4. g[n + 1] = IF n + 1 \in K THEN Append(g[n], r[n + 1]) ELSE g[n]
  <2>1. n + 1 \in 1..n + 1 /\ (n + 1) - 1 = n /\ n + 1 \in Nat
    BY <1>1
  <2>2. \A i \in 1..n + 1 : g[i] = IF i \in K THEN Append(g[i - 1], r[i]) ELSE g[i - 1]
    BY <1>3, <2>1, UpToValues
  <2> QED
    BY <2>1, <2>2
<1>5. f[n] = g[n]
  <2>1. n + 1 \in Nat /\ n + 1 >= n /\ n \in 0..n
    BY <1>1
  <2>2. \A i \in 1..n : s[i] = r[i] /\ (i \in J <=> i \in K)
    BY <1>1 DEF n
  <2>3. \A i \in 0..n : f[i] = g[i]
    BY ONLY <1>1, <1>2, <1>3, <2>1, <2>2, UpToAgrees
  <2> QED
    BY <2>1, <2>3
<1> QED
  BY <1>1, <1>2, <1>3, <1>4, <1>5 DEF n, r

-----------------------------------------------------------------------------
(***************************************************************************)
(* What a list of edges holds: the weights of the edges to each vertex. By *)
(* induction over the lists, what the code does to one does to these       *)
(* weights.                                                                *)
(***************************************************************************)
LEMMA EdgesToAppend ==
  ASSUME NEW T, NEW s \in Seq(T), NEW e \in T, NEW d
  PROVE  /\ \A i \in 1..Len(s) : i \in EdgesTo(Append(s, e), d) <=> i \in EdgesTo(s, d)
         /\ Len(s) + 1 \in EdgesTo(Append(s, e), d) <=> e.destination = d
         /\ EdgesTo(s, d) \subseteq 1..Len(s) /\ Len(s) \in Nat
  BY DEF EdgesTo

LEMMA WithoutAppend ==
  ASSUME NEW T, NEW s \in Seq(T), NEW e \in T, NEW d
  PROVE  WithoutEdgesTo(Append(s, e), d) =
           IF e.destination = d THEN WithoutEdgesTo(s, d) ELSE Append(WithoutEdgesTo(s, d), e)
<1> DEFINE K == (1..Len(s) + 1) \ EdgesTo(Append(s, e), d)
           J == (1..Len(s)) \ EdgesTo(s, d)
<1>1. Len(s) \in Nat /\ Len(Append(s, e)) = Len(s) + 1
  OBVIOUS
<1>2. WithoutEdgesTo(Append(s, e), d) = Subsequence(Append(s, e), K)
      /\ WithoutEdgesTo(s, d) = Subsequence(s, J)
  BY <1>1 DEF WithoutEdgesTo
<1>3. /\ \A i \in 1..Len(s) : i \in K <=> i \in J
      /\ Len(s) + 1 \in K <=> e.destination # d
  BY <1>1, EdgesToAppend
<1> HIDE DEF K, J
<1> QED
  BY <1>2, <1>3, SubsequenceAppend

LEMMA WithoutEmpty == ASSUME NEW d PROVE WithoutEdgesTo(<<>>, d) = <<>>
  BY SubsequenceEmpty DEF WithoutEdgesTo

\* Nothing is removed where there is nothing to remove.
LEMMA WithoutNone ==
  ASSUME NEW T, NEW d
  PROVE  \A s \in Seq(T) : EdgesTo(s, d) = {} => WithoutEdgesTo(s, d) = s
<1> DEFINE D == {s \in Seq(T) : EdgesTo(s, d) = {} => WithoutEdgesTo(s, d) = s}
<1>1. <<>> \in D
  <2>1. <<>> \in Seq(T)
    OBVIOUS
  <2> QED
    BY <2>1, WithoutEmpty
<1>2. ASSUME NEW q \in Seq(T), NEW e \in T, q \in D PROVE Append(q, e) \in D
  <2>1. /\ \A i \in 1..Len(q) : i \in EdgesTo(Append(q, e), d) <=> i \in EdgesTo(q, d)
        /\ Len(q) + 1 \in EdgesTo(Append(q, e), d) <=> e.destination = d
        /\ EdgesTo(q, d) \subseteq 1..Len(q)
    BY EdgesToAppend
  <2>2. EdgesTo(Append(q, e), d) = {} => EdgesTo(q, d) = {} /\ e.destination # d
    BY <2>1
  <2>3. WithoutEdgesTo(Append(q, e), d) =
          IF e.destination = d THEN WithoutEdgesTo(q, d) ELSE Append(WithoutEdgesTo(q, d), e)
    BY WithoutAppend
  <2>4. Append(q, e) \in Seq(T)
    OBVIOUS
  <2> QED
    BY <1>2, <2>2, <2>3, <2>4
<1> HIDE DEF D
<1>3. Seq(T) \subseteq D
  BY <1>1, <1>2, AllSequences
<1> QED
  BY <1>3 DEF D

LEMMA WeightsEmpty == ASSUME NEW d PROVE WeightsTo(<<>>, d) = <<>>
<1>1. [i \in 1..Len(<<>>) |-> <<>>[i].weight] = <<>>
  OBVIOUS
<1> QED
  BY <1>1, SubsequenceEmpty DEF WeightsTo

LEMMA WeightsAppend ==
  ASSUME NEW T, NEW s \in Seq(T), NEW e \in T, NEW d
  PROVE  WeightsTo(Append(s, e), d) =
           IF e.destination = d THEN Append(WeightsTo(s, d), e.weight) ELSE WeightsTo(s, d)
<1> DEFINE W == {x.weight : x \in T}
           ws(r) == [i \in 1..Len(r) |-> r[i].weight]
<1>1. /\ Len(s) \in Nat /\ Len(Append(s, e)) = Len(s) + 1 /\ Append(s, e)[Len(s) + 1] = e
      /\ \A i \in 1..Len(s) : s[i] \in T /\ Append(s, e)[i] = s[i]
  OBVIOUS
<1>2. ws(s) \in Seq(W) /\ e.weight \in W /\ Len(ws(s)) = Len(s)
  <2>1. e.weight \in W /\ \A i \in 1..Len(s) : s[i].weight \in W
    BY <1>1
  <2> HIDE DEF W
  <2>2. [i \in 1..Len(s) |-> s[i].weight] \in Seq(W)
    BY <1>1, <2>1
  <2>3. Len([i \in 1..Len(s) |-> s[i].weight]) = Len(s)
    BY <1>1
  <2> QED
    BY <2>1, <2>2, <2>3
<1>3. ws(Append(s, e)) = Append(ws(s), e.weight)
  <2>1. ws(Append(s, e)) = [i \in 1..Len(s) + 1 |-> IF i = Len(s) + 1 THEN e.weight ELSE s[i].weight]
    BY <1>1
  <2>2. Append(ws(s), e.weight) = [i \in 1..Len(s) + 1 |-> IF i = Len(s) + 1 THEN e.weight ELSE s[i].weight]
    BY <1>1, <1>2
  <2> QED
    BY <2>1, <2>2
<1>4. WeightsTo(Append(s, e), d) = Subsequence(ws(Append(s, e)), EdgesTo(Append(s, e), d))
      /\ WeightsTo(s, d) = Subsequence(ws(s), EdgesTo(s, d))
  BY DEF WeightsTo
<1>5. /\ \A i \in 1..Len(s) : i \in EdgesTo(Append(s, e), d) <=> i \in EdgesTo(s, d)
      /\ Len(s) + 1 \in EdgesTo(Append(s, e), d) <=> e.destination = d
  BY EdgesToAppend
<1> DEFINE K == EdgesTo(Append(s, e), d)
           J == EdgesTo(s, d)
<1> HIDE DEF ws, W, K, J
<1>6. Subsequence(Append(ws(s), e.weight), K) =
        IF Len(ws(s)) + 1 \in K THEN Append(Subsequence(ws(s), J), e.weight)
                                ELSE Subsequence(ws(s), J)
  <2> DEFINE q == ws(s)
             w == e.weight
  <2>1. q \in Seq(W) /\ w \in W /\ \A i \in 1..Len(q) : i \in K <=> i \in J
    BY <1>2, <1>5 DEF K, J
  <2> HIDE DEF q, w
  <2>2. Subsequence(Append(q, w), K) =
          IF Len(q) + 1 \in K THEN Append(Subsequence(q, J), w) ELSE Subsequence(q, J)
    BY ONLY <2>1, SubsequenceAppend
  <2> QED
    BY <2>2 DEF q, w
<1> QED
  BY <1>2, <1>3, <1>4, <1>5, <1>6 DEF K, J

\* What is left is a list of what was there.
LEMMA WithoutType ==
  ASSUME NEW T, NEW d
  PROVE  \A s \in Seq(T) : WithoutEdgesTo(s, d) \in Seq({e \in T : e.destination # d})
<1> DEFINE U == {e \in T : e.destination # d}
           D == {s \in Seq(T) : WithoutEdgesTo(s, d) \in Seq(U)}
<1>1. <<>> \in D
  <2>1. <<>> \in Seq(T) /\ <<>> \in Seq(U)
    OBVIOUS
  <2> QED
    BY <2>1, WithoutEmpty
<1>2. ASSUME NEW q \in Seq(T), NEW e \in T, q \in D PROVE Append(q, e) \in D
  <2>1. Append(q, e) \in Seq(T) /\ WithoutEdgesTo(q, d) \in Seq(U)
    BY <1>2
  <2>2. e.destination # d => Append(WithoutEdgesTo(q, d), e) \in Seq(U)
    BY <2>1
  <2>3. WithoutEdgesTo(Append(q, e), d) =
          IF e.destination = d THEN WithoutEdgesTo(q, d) ELSE Append(WithoutEdgesTo(q, d), e)
    BY WithoutAppend
  <2> QED
    BY <2>1, <2>2, <2>3
<1> HIDE DEF D
<1>3. Seq(T) \subseteq D
  BY <1>1, <1>2, AllSequences
<1> QED
  BY <1>3 DEF D

LEMMA WeightsType ==
  ASSUME NEW T, NEW W, \A e \in T : e.weight \in W, NEW d
  PROVE  \A s \in Seq(T) : WeightsTo(s, d) \in Seq(W)
<1> DEFINE D == {s \in Seq(T) : WeightsTo(s, d) \in Seq(W)}
<1>1. <<>> \in D
  <2>1. <<>> \in Seq(T) /\ <<>> \in Seq(W)
    OBVIOUS
  <2> QED
    BY <2>1, WeightsEmpty
<1>2. ASSUME NEW q \in Seq(T), NEW e \in T, q \in D PROVE Append(q, e) \in D
  <2>1. Append(q, e) \in Seq(T) /\ WeightsTo(q, d) \in Seq(W) /\ e.weight \in W
    BY <1>2
  <2>2. Append(WeightsTo(q, d), e.weight) \in Seq(W)
    BY <2>1
  <2>3. WeightsTo(Append(q, e), d) \in {Append(WeightsTo(q, d), e.weight), WeightsTo(q, d)}
    BY WeightsAppend
  <2> QED
    BY <2>1, <2>2, <2>3
<1> HIDE DEF D
<1>3. Seq(T) \subseteq D
  BY <1>1, <1>2, AllSequences
<1> QED
  BY <1>3 DEF D

\* Removing the edges to x leaves the weights of all others.
LEMMA WithoutWeights ==
  ASSUME NEW T, NEW x, NEW d
  PROVE  \A s \in Seq(T) :
           WeightsTo(WithoutEdgesTo(s, x), d) = IF d = x THEN <<>> ELSE WeightsTo(s, d)
<1> DEFINE left(s) == WeightsTo(WithoutEdgesTo(s, x), d)
           D == {s \in Seq(T) : left(s) = IF d = x THEN <<>> ELSE WeightsTo(s, d)}
<1>1. <<>> \in D
  BY WithoutEmpty, WeightsEmpty
<1>2. ASSUME NEW q \in Seq(T), NEW e \in T, q \in D PROVE Append(q, e) \in D
  <2>1. Append(q, e) \in Seq(T)
    OBVIOUS
  <2>2. WithoutEdgesTo(q, x) \in Seq(T)
    <3>1. WithoutEdgesTo(q, x) \in Seq({y \in T : y.destination # x})
      BY WithoutType
    <3> QED
      BY <3>1
  <2>3. left(Append(q, e)) =
          IF e.destination = x THEN left(q)
          ELSE IF e.destination = d THEN Append(left(q), e.weight) ELSE left(q)
    <3>1. WeightsTo(Append(WithoutEdgesTo(q, x), e), d) =
            IF e.destination = d THEN Append(left(q), e.weight) ELSE left(q)
      BY <2>2, WeightsAppend
    <3>2. WithoutEdgesTo(Append(q, e), x) =
            IF e.destination = x THEN WithoutEdgesTo(q, x) ELSE Append(WithoutEdgesTo(q, x), e)
      BY WithoutAppend
    <3> QED
      BY <3>1, <3>2
  <2>4. WeightsTo(Append(q, e), d) =
          IF e.destination = d THEN Append(WeightsTo(q, d), e.weight) ELSE WeightsTo(q, d)
    BY WeightsAppend
  <2> HIDE DEF left
  <2> QED
    BY <1>2, <2>1, <2>3, <2>4
<1> HIDE DEF D
<1>3. Seq(T) \subseteq D
  BY <1>1, <1>2, AllSequences
<1> QED
  BY <1>3 DEF D

EdgesFrom(v) == [source : {v}, destination : Int, weight : Int]
ListsOf(v) == Seq(EdgesFrom(v))

\* There is no weight exactly if there is no edge.
LEMMA NoEdgeNoWeight ==
  ASSUME NEW T, NEW d
  PROVE  \A s \in Seq(T) : WeightsTo(s, d) = <<>> <=> EdgesTo(s, d) = {}
<1> DEFINE D == {s \in Seq(T) : WeightsTo(s, d) = <<>> <=> EdgesTo(s, d) = {}}
<1>1. <<>> \in D
  <2>1. <<>> \in Seq(T) /\ EdgesTo(<<>>, d) = {}
    BY DEF EdgesTo
  <2> QED
    BY <2>1, WeightsEmpty
<1>2. ASSUME NEW q \in Seq(T), NEW e \in T, q \in D PROVE Append(q, e) \in D
  <2>1. /\ \A i \in 1..Len(q) : i \in EdgesTo(Append(q, e), d) <=> i \in EdgesTo(q, d)
        /\ Len(q) + 1 \in EdgesTo(Append(q, e), d) <=> e.destination = d
        /\ EdgesTo(q, d) \subseteq 1..Len(q) /\ Len(q) \in Nat
    BY EdgesToAppend
  <2>2. EdgesTo(Append(q, e), d) \subseteq 1..Len(q) + 1
    BY DEF EdgesTo
  <2>3. EdgesTo(Append(q, e), d) = {} <=> e.destination # d /\ EdgesTo(q, d) = {}
    BY <2>1, <2>2
  <2>4. WeightsTo(Append(q, e), d) =
          IF e.destination = d THEN Append(WeightsTo(q, d), e.weight) ELSE WeightsTo(q, d)
    BY WeightsAppend
  <2>5. Append(WeightsTo(q, d), e.weight) # <<>>
    <3> DEFINE W == {x.weight : x \in T}
    <3>1. WeightsTo(q, d) \in Seq(W) /\ e.weight \in W
      BY WeightsType
    <3> HIDE DEF W
    <3> QED
      BY <3>1
  <2>6. Append(q, e) \in Seq(T)
    OBVIOUS
  <2> QED
    BY <1>2, <2>3, <2>4, <2>5, <2>6
<1> HIDE DEF D
<1>3. Seq(T) \subseteq D
  BY <1>1, <1>2, AllSequences
<1> QED
  BY <1>3 DEF D

\* The weight of the first edge to d is set.
Weighed(e, x) == [e EXCEPT !.weight = x]
FirstIs(p, x) == [p EXCEPT ![1] = x]
FirstSet(s, d, x) == [s EXCEPT ![Min(EdgesTo(s, d))].weight = x]

LEMMA FirstSetAppend ==
  ASSUME NEW v, NEW s \in ListsOf(v), NEW e \in EdgesFrom(v),
         NEW d, NEW x \in Int, EdgesTo(Append(s, e), d) # {}
  PROVE  /\ EdgesTo(s, d) # {} => FirstSet(Append(s, e), d, x) = Append(FirstSet(s, d, x), e)
                                  /\ FirstSet(s, d, x) \in ListsOf(v)
         /\ EdgesTo(s, d) = {} => /\ FirstSet(Append(s, e), d, x) = Append(s, Weighed(e, x))
                                  /\ e.destination = d
<1> DEFINE T == EdgesFrom(v)
           r == Append(s, e)
           A == EdgesTo(s, d)
           B == EdgesTo(r, d)
<1>1. /\ \A i \in 1..Len(s) : i \in B <=> i \in A
      /\ Len(s) + 1 \in B <=> e.destination = d
      /\ A \subseteq 1..Len(s) /\ Len(s) \in Nat
  <2>1. s \in Seq(T) /\ e \in T
    BY DEF ListsOf
  <2> HIDE DEF T
  <2> QED
    BY ONLY <2>1, EdgesToAppend
<1>2. B \subseteq 1..Len(s) + 1
  BY DEF EdgesTo, ListsOf
<1>3. B # {} /\ Len(s) \in Nat
  BY <1>1 DEF r
<1>4. /\ A # {} => Min(A) = Min(B) /\ Min(A) \in 1..Len(s)
      /\ A = {} => Min(B) = Len(s) + 1 /\ Len(s) + 1 \in B
  <2> HIDE DEF A, B
  <2> QED
    BY ONLY <1>1, <1>2, <1>3, LeastKept
<1>5. s \in Seq(T) /\ r = Append(s, e)
  BY DEF ListsOf
<1>6. \A t, i : [t EXCEPT ![i].weight = x] = [t EXCEPT ![i] = [t[i] EXCEPT !.weight = x]]
  OBVIOUS
<1>10. \A t \in T : [t EXCEPT !.weight = x] \in T
  BY DEF EdgesFrom
<1>7. \A i \in 1..Len(s) : [r EXCEPT ![i].weight = x] = Append([s EXCEPT ![i].weight = x], e)
                           /\ [s EXCEPT ![i].weight = x] \in Seq(T)
  <2> TAKE i \in 1..Len(s)
  <2> DEFINE y == [s[i] EXCEPT !.weight = x]
  <2>1. s[i] \in T /\ r[i] = s[i]
    <3>1. e \in T
      BY <1>5
    <3> HIDE DEF T
    <3> QED
      BY <1>5, <3>1, AppendProperties, ElementOfSeq
  <2>2. /\ y \in T
        /\ [s EXCEPT ![i].weight = x] = [s EXCEPT ![i] = y]
        /\ [r EXCEPT ![i].weight = x] = [r EXCEPT ![i] = y]
    <3> HIDE DEF r, T
    <3> QED
      BY <1>6, <1>10, <2>1
  <2> HIDE DEF y, T, r
  <2>3. [r EXCEPT ![i] = y] = Append([s EXCEPT ![i] = y], e)
    <3>1. e \in T
      BY DEF T
    <3> QED
      BY <1>5, <2>2, <3>1, AppendSet
  <2>4. [s EXCEPT ![i] = y] \in Seq(T)
    BY <1>5, <2>2, ExceptSeq
  <2> QED
    BY <2>2, <2>3, <2>4
<1>8. [r EXCEPT ![Len(s) + 1].weight = x] = Append(s, [e EXCEPT !.weight = x])
  <2> DEFINE y == [e EXCEPT !.weight = x]
  <2>1. e \in T /\ r[Len(s) + 1] = e
    BY <1>5, AppendProperties
  <2>2. y \in T /\ [r EXCEPT ![Len(s) + 1].weight = x] = [r EXCEPT ![Len(s) + 1] = y]
    <3> HIDE DEF T, r
    <3> QED
      BY <1>6, <1>10, <2>1
  <2> HIDE DEF y, T, r
  <2>3. [r EXCEPT ![Len(s) + 1] = y] = Append(s, y)
    BY <1>5, <2>1, <2>2, AppendSet
  <2> QED
    BY <2>2, <2>3 DEF y
<1>9. FirstSet(r, d, x) = [r EXCEPT ![Min(B)].weight = x] /\ FirstSet(s, d, x) = [s EXCEPT ![Min(A)].weight = x]
  BY DEF FirstSet
<1> HIDE DEF r, A, B
<1> QED
  BY <1>1, <1>4, <1>5, <1>7, <1>8, <1>9 DEF r, A, B, ListsOf, Weighed

FirstSetEffect(v, s, d, x, b) ==
  /\ FirstSet(s, d, x) \in ListsOf(v)
  /\ WeightsTo(FirstSet(s, d, x), b) =
       IF b = d THEN FirstIs(WeightsTo(s, d), x) ELSE WeightsTo(s, b)

LEMMA FirstSetWeights ==
  ASSUME NEW v, NEW d, NEW b, NEW x \in Int
  PROVE  \A s \in ListsOf(v) : EdgesTo(s, d) # {} => FirstSetEffect(v, s, d, x, b)
<1> DEFINE T == EdgesFrom(v)
           P(s) == /\ FirstSet(s, d, x) \in Seq(T)
                   /\ WeightsTo(FirstSet(s, d, x), b) =
                        IF b = d THEN FirstIs(WeightsTo(s, d), x) ELSE WeightsTo(s, b)
           D == {s \in Seq(T) : EdgesTo(s, d) # {} => P(s)}
<1>1. <<>> \in D
  <2>1. <<>> \in Seq(T) /\ EdgesTo(<<>>, d) = {}
    BY DEF EdgesTo
  <2> QED
    BY <2>1
<1>2. ASSUME NEW q \in Seq(T), NEW e \in T, q \in D PROVE Append(q, e) \in D
  <2>1. Append(q, e) \in Seq(T) /\ e.weight \in Int /\ Weighed(e, x) \in T
        /\ Weighed(e, x).weight = x
        /\ Weighed(e, x).destination = e.destination
    <3>1. e \in EdgesFrom(v)
      OBVIOUS
    <3>2. /\ e.weight \in Int /\ Weighed(e, x) \in EdgesFrom(v)
          /\ Weighed(e, x).weight = x
          /\ Weighed(e, x).destination = e.destination
      BY <3>1 DEF EdgesFrom, Weighed
    <3> QED
      BY <3>2
  <2>2. \A a : WeightsTo(q, a) \in Seq(Int)
    <3>1. \A t \in T : t.weight \in Int
      BY DEF EdgesFrom
    <3> HIDE DEF T
    <3> QED
      BY <3>1, WeightsType
  <2>3. SUFFICES ASSUME EdgesTo(Append(q, e), d) # {} PROVE P(Append(q, e))
    BY <2>1
  <2>4. \A a : WeightsTo(Append(q, e), a) =
                 IF e.destination = a THEN Append(WeightsTo(q, a), e.weight) ELSE WeightsTo(q, a)
    <3> HIDE DEF T
    <3> QED
      BY WeightsAppend
  <2>5. /\ EdgesTo(q, d) # {} => FirstSet(Append(q, e), d, x) = Append(FirstSet(q, d, x), e)
                                  /\ FirstSet(q, d, x) \in Seq(T)
        /\ EdgesTo(q, d) = {} => /\ FirstSet(Append(q, e), d, x) = Append(q, Weighed(e, x))
                                 /\ e.destination = d
    <3>1. q \in ListsOf(v) /\ e \in EdgesFrom(v)
      BY DEF ListsOf
    <3>2. /\ EdgesTo(q, d) # {} => FirstSet(Append(q, e), d, x) = Append(FirstSet(q, d, x), e)
                                    /\ FirstSet(q, d, x) \in ListsOf(v)
          /\ EdgesTo(q, d) = {} => /\ FirstSet(Append(q, e), d, x) = Append(q, Weighed(e, x))
                                   /\ e.destination = d
      <4> HIDE DEF T, P, D
      <4>1. EdgesTo(Append(q, e), d) # {} /\ x \in Int
        BY <2>3
      <4> QED
        BY <3>1, <4>1, FirstSetAppend
    <3> QED
      BY <3>2 DEF ListsOf
  <2>6. WeightsTo(q, d) = <<>> <=> EdgesTo(q, d) = {}
    <3> HIDE DEF T
    <3> QED
      BY NoEdgeNoWeight
  <2>7. CASE EdgesTo(q, d) # {}
    <3> DEFINE f == FirstSet(q, d, x)
    <3>1. /\ f \in Seq(T) /\ FirstSet(Append(q, e), d, x) = Append(f, e)
          /\ WeightsTo(f, b) = IF b = d THEN FirstIs(WeightsTo(q, d), x) ELSE WeightsTo(q, b)
      BY <1>2, <2>5, <2>7
    <3> HIDE DEF f
    <3>2. WeightsTo(Append(f, e), b) =
            IF e.destination = b THEN Append(WeightsTo(f, b), e.weight) ELSE WeightsTo(f, b)
      <4> HIDE DEF T
      <4> QED
        BY <3>1, WeightsAppend
    <3>3. \A p \in Seq(Int), y \in Int :
            p # <<>> => Append(FirstIs(p, x), y) = FirstIs(Append(p, y), x)
      <4> TAKE p \in Seq(Int), y \in Int
      <4> HAVE p # <<>>
      <4>1. 1 \in 1..Len(p)
        BY EmptySeq
      <4> QED
        BY <4>1, AppendSet DEF FirstIs
    <3>4. Append(FirstIs(WeightsTo(q, d), x), e.weight) =
            FirstIs(Append(WeightsTo(q, d), e.weight), x)
      BY <2>1, <2>2, <2>6, <2>7, <3>3
    <3>5. Append(f, e) \in Seq(T)
      BY <3>1
    <3> HIDE DEF T
    <3> QED
      BY <2>4, <3>1, <3>2, <3>4, <3>5
  <2>8. CASE EdgesTo(q, d) = {}
    <3> DEFINE h == Weighed(e, x)
    <3>1. /\ FirstSet(Append(q, e), d, x) = Append(q, h) /\ e.destination = d
          /\ h \in T /\ h.weight = x /\ h.destination = d /\ WeightsTo(q, d) = <<>>
      BY <2>1, <2>5, <2>6, <2>8
    <3> HIDE DEF h
    <3>2. WeightsTo(Append(q, h), b) =
            IF h.destination = b THEN Append(WeightsTo(q, b), h.weight) ELSE WeightsTo(q, b)
      <4> HIDE DEF T
      <4> QED
        BY <3>1, WeightsAppend
    <3>3. Append(<<>>, x) = FirstIs(Append(<<>>, e.weight), x)
      BY DEF FirstIs
    <3>4. Append(q, h) \in Seq(T)
      BY <3>1
    <3> HIDE DEF T
    <3> QED
      BY <2>4, <3>1, <3>2, <3>3, <3>4
  <2> QED
    BY <2>7, <2>8
<1> HIDE DEF D
<1>3. Seq(T) \subseteq D
  <2> HIDE DEF T
  <2> QED
    BY <1>1, <1>2, AllSequences
<1> QED
  BY <1>3 DEF D, ListsOf, FirstSetEffect

\* A list copied by removeVertex.
CopiedList(s, n, v) ==
  [i \in 1..Len(s) |-> Edge(n, Renumbered(s[i].destination, v), s[i].weight)]

OldNumber(n, removed) == IF n >= removed THEN n + 1 ELSE n

EdgesAvoiding(u, v) == [source : {u}, destination : Int \ {v}, weight : Int]

LEMMA CopiedWeights ==
  ASSUME NEW u, NEW n, NEW v \in Int, NEW m \in Int
  PROVE  \A s \in Seq(EdgesAvoiding(u, v)) :
           /\ CopiedList(s, n, v) \in ListsOf(n)
           /\ WeightsTo(CopiedList(s, n, v), m) = WeightsTo(s, OldNumber(m, v))
<1> DEFINE T == EdgesAvoiding(u, v)
           U == EdgesFrom(n)
           P(s) == /\ CopiedList(s, n, v) \in Seq(U)
                   /\ WeightsTo(CopiedList(s, n, v), m) = WeightsTo(s, OldNumber(m, v))
           D == {s \in Seq(T) : P(s)}
<1>1. <<>> \in D
  <2>1. <<>> \in Seq(T) /\ <<>> \in Seq(U) /\ CopiedList(<<>>, n, v) = <<>>
    BY DEF CopiedList
  <2> QED
    BY <2>1, WeightsEmpty
<1>2. ASSUME NEW q \in Seq(T), NEW e \in T, q \in D PROVE Append(q, e) \in D
  <2> DEFINE h == Edge(n, Renumbered(e.destination, v), e.weight)
             k == CopiedList(q, n, v)
  <2>1. /\ Append(q, e) \in Seq(T) /\ h \in U /\ h.weight = e.weight
        /\ h.destination = m <=> e.destination = OldNumber(m, v)
    BY DEF Edge, Renumbered, OldNumber, EdgesFrom, EdgesAvoiding
  <2>2. k \in Seq(U) /\ CopiedList(Append(q, e), n, v) = Append(k, h)
    <3>1. k \in Seq(U) /\ Len(k) = Len(q)
      BY <1>2 DEF CopiedList
    <3> DEFINE E(x) == Edge(n, Renumbered(x.destination, v), x.weight)
    <3>2. CopiedList(Append(q, e), n, v) = [i \in 1..Len(q) + 1 |-> E(Append(q, e)[i])]
          /\ k = [i \in 1..Len(q) |-> E(q[i])] /\ h = E(e)
      BY DEF CopiedList
    <3> HIDE DEF E, k, h
    <3> DEFINE l == CopiedList(Append(q, e), n, v)
               t == Append(k, h)
    <3>3. /\ t \in Seq(U) /\ Len(t) = Len(q) + 1 /\ t[Len(q) + 1] = h
          /\ \A i \in 1..Len(q) : t[i] = k[i]
      <4> HIDE DEF U
      <4> QED
        BY <2>1, <3>1, AppendProperties
    <3>4. /\ Len(q) \in Nat /\ Append(q, e)[Len(q) + 1] = e
          /\ \A i \in 1..Len(q) : Append(q, e)[i] = q[i]
      BY AppendProperties
    <3> HIDE DEF l, t
    <3>5. \A i \in 1..Len(q) + 1 : l[i] = t[i]
      BY <3>2, <3>3, <3>4 DEF l
    <3>6. l = [i \in 1..Len(q) + 1 |-> t[i]]
      BY <3>2, <3>5 DEF l
    <3>7. t = [i \in 1..Len(q) + 1 |-> t[i]]
      <4> HIDE DEF U
      <4> QED
        BY <3>3, <3>4, LenProperties
    <3> QED
      BY <3>1, <3>6, <3>7 DEF l, t
  <2> HIDE DEF h, k
  <2>3. WeightsTo(Append(k, h), m) =
          IF h.destination = m THEN Append(WeightsTo(k, m), h.weight) ELSE WeightsTo(k, m)
    <3> HIDE DEF U
    <3> QED
      BY <2>1, <2>2, WeightsAppend
  <2>4. WeightsTo(Append(q, e), OldNumber(m, v)) =
          IF e.destination = OldNumber(m, v) THEN Append(WeightsTo(q, OldNumber(m, v)), e.weight)
          ELSE WeightsTo(q, OldNumber(m, v))
    <3> HIDE DEF T
    <3> QED
      BY WeightsAppend
  <2>5. WeightsTo(k, m) = WeightsTo(q, OldNumber(m, v))
    BY <1>2 DEF k
  <2>6. Append(k, h) \in Seq(U)
    BY <2>1, <2>2
  <2> HIDE DEF T, U
  <2> QED
    BY <2>1, <2>2, <2>3, <2>4, <2>5, <2>6
<1> HIDE DEF D
<1>3. Seq(T) \subseteq D
  <2> HIDE DEF T
  <2> QED
    BY <1>1, <1>2, AllSequences
<1> QED
  BY <1>3 DEF D, ListsOf

-----------------------------------------------------------------------------
(***************************************************************************)
(* What the operations do to the lists of a graph.  They keep it           *)
(* undirected, loops included, which are in one list twice; removeEdge     *)
(* does if it is not to remove one, addVertex if its number is fresh.      *)
(***************************************************************************)
ListsTyped(g) ==
  /\ VertexSet(g) \subseteq Int
  /\ \A v \in Int : getAdjacentEdges(g, v) \in ListsOf(v)

Even(p) == Len(p) % 2 = 0

SameWeights(g) ==
  \A u, v \in Int :
    WeightsBetween(g, u, v) = WeightsBetween(g, v, u) /\ Even(WeightsBetween(g, u, u))

Symmetric(g) == ListsTyped(g) /\ SameWeights(g)

\* An edge between s and d, either way.
Joins(u, v, s, d) == (u = s /\ v = d) \/ (u = d /\ v = s)

LEMMA Singles ==
  ASSUME NEW x
  PROVE  <<x>> \o <<>> = <<x>> /\ <<>> \o <<x>> = <<x>> /\ <<>> \o <<>> = <<>>
<1>1. <<x>> \in Seq({x}) /\ <<>> \in Seq({x})
  OBVIOUS
<1> QED
  BY <1>1, ConcatEmptySeq

LEMMA StoredLists ==
  ASSUME NEW g, Shaped(g), NEW f
  PROVE  LET h == [g EXCEPT !.adjacencyList = f]
         IN  \A v : getAdjacentEdges(h, v) = IF v \in DOMAIN f THEN f[v] ELSE <<>>
  BY DEF Shaped, VertexSet, getAdjacentEdges

\* h is g with another list for u.
Relisted(h, g, u, x) ==
  /\ Shaped(h) /\ VertexSet(h) = VertexSet(g)
  /\ \A v : getAdjacentEdges(h, v) = IF v = u THEN x ELSE getAdjacentEdges(g, v)

LEMMA StoredList ==
  ASSUME NEW g, Shaped(g), NEW u \in VertexSet(g), NEW x
  PROVE  Relisted([g EXCEPT !.adjacencyList[u] = x], g, u, x)
  BY DEF Shaped, VertexSet, getAdjacentEdges, Relisted

LEMMA SubscriptedLists ==
  ASSUME NEW g, Shaped(g), NEW vs
  PROVE  \A v : getAdjacentEdges(Subscripted(g, vs), v) = getAdjacentEdges(g, v)
<1> DEFINE f == [v \in VertexSet(g) \cup vs |-> getAdjacentEdges(g, v)]
<1>1. Subscripted(g, vs) = [g EXCEPT !.adjacencyList = f]
  BY DEF Subscripted
<1>2. DOMAIN f = VertexSet(g) \cup vs /\ \A v \in VertexSet(g) \cup vs : f[v] = getAdjacentEdges(g, v)
  OBVIOUS
<1>3. \A v : v \notin VertexSet(g) => getAdjacentEdges(g, v) = <<>>
  BY DEF getAdjacentEdges
<1>4. \A v : getAdjacentEdges([g EXCEPT !.adjacencyList = f], v) = IF v \in DOMAIN f THEN f[v] ELSE <<>>
  <2> HIDE DEF f
  <2> QED
    BY StoredLists
<1> HIDE DEF f
<1> QED
  BY <1>1, <1>2, <1>3, <1>4

LEMMA NewGraphSymmetric ==
  ASSUME NEW n \in Int
  PROVE  Symmetric(NewGraph(n))
<1> DEFINE g == NewGraph(n)
<1>1. VertexSet(g) \subseteq Int /\ \A v : getAdjacentEdges(g, v) = <<>>
  BY DEF NewGraph, VertexSet, getAdjacentEdges
<1> HIDE DEF g
<1>2. \A v : <<>> \in ListsOf(v)
  BY EmptySeq DEF ListsOf
<1>3. \A u, v : WeightsBetween(g, u, v) = <<>>
  BY <1>1, WeightsEmpty DEF WeightsBetween
<1>4. Even(<<>>)
  BY DEF Even
<1> QED
  BY <1>1, <1>2, <1>3, <1>4 DEF Symmetric, ListsTyped, SameWeights, g

LEMMA AddVertexSymmetric ==
  ASSUME NEW g, Symmetric(g), g.nextVertexId \in Int, g.nextVertexId \notin VertexSet(g)
  PROVE  Symmetric(addVertex(g))
<1> DEFINE h == addVertex(g)
<1>1. VertexSet(h) = VertexSet(g) \cup {g.nextVertexId}
      /\ \A v : getAdjacentEdges(h, v) = getAdjacentEdges(g, v)
  BY DEF addVertex, VertexSet, getAdjacentEdges
<1> HIDE DEF h
<1> QED
  BY <1>1 DEF Symmetric, ListsTyped, SameWeights, WeightsBetween, h

\* h is g with an edge more in the lists of s and d.
EdgeAdded(h, g, s, d, w) ==
  \A v \in Int :
    getAdjacentEdges(h, v) = IF v = s THEN Append(getAdjacentEdges(g, s), Edge(s, d, w))
                             ELSE IF v = d THEN Append(getAdjacentEdges(g, d), Edge(d, s, w))
                             ELSE getAdjacentEdges(g, v)

LEMMA AddEdgeLists ==
  ASSUME NEW g, Shaped(g), Symmetric(g), NEW s \in Int, NEW d \in Int, s # d, NEW w \in Int
  PROVE  EdgeAdded(addEdge(g, s, d, w), g, s, d, w)
<1> DEFINE Pushed(v) == (IF v = s THEN <<Edge(s, d, w)>> ELSE <<>>)
                           \o (IF v = d THEN <<Edge(d, s, w)>> ELSE <<>>)
           New(v) == getAdjacentEdges(g, v) \o Pushed(v)
           f == [v \in VertexSet(g) \cup {s, d} |-> New(v)]
<1>1. addEdge(g, s, d, w) = [g EXCEPT !.adjacencyList = f]
  BY Zenon DEF addEdge
<1>2. /\ DOMAIN f = VertexSet(g) \cup {s, d}
      /\ \A v \in VertexSet(g) \cup {s, d} : f[v] = New(v)
  <2> HIDE DEF New
  <2> QED
    OBVIOUS
<1>3. \A v : getAdjacentEdges([g EXCEPT !.adjacencyList = f], v) = IF v \in DOMAIN f THEN f[v] ELSE <<>>
  <2> HIDE DEF f
  <2> QED
    BY StoredLists
<1>4. \A v : v \notin VertexSet(g) => getAdjacentEdges(g, v) = <<>>
  BY DEF getAdjacentEdges
<1>5. ASSUME NEW v \in Int
      PROVE  New(v) = IF v = s THEN Append(getAdjacentEdges(g, s), Edge(s, d, w))
                      ELSE IF v = d THEN Append(getAdjacentEdges(g, d), Edge(d, s, w))
                      ELSE getAdjacentEdges(g, v)
  <2> DEFINE q == getAdjacentEdges(g, v)
             T == EdgesFrom(v)
  <2>1. q \in Seq(T)
    BY DEF Symmetric, ListsTyped, ListsOf
  <2>2. Pushed(v) = IF v = s THEN <<Edge(s, d, w)>> ELSE IF v = d THEN <<Edge(d, s, w)>> ELSE <<>>
    BY Singles
  <2>3. /\ v = s => Edge(s, d, w) \in T
        /\ v = d => Edge(d, s, w) \in T
    BY DEF Edge, EdgesFrom
  <2> HIDE DEF q, T, Pushed
  <2>4. \A e \in T : q \o <<e>> = Append(q, e)
    BY <2>1, AppendIsConcat
  <2>5. q \o <<>> = q
    BY <2>1, ConcatEmptySeq
  <2> QED
    BY <2>2, <2>3, <2>4, <2>5 DEF q
<1> HIDE DEF f, New
<1> QED
  BY <1>1, <1>2, <1>3, <1>4, <1>5 DEF EdgeAdded

LEMMA AddEdgeSymmetric ==
  ASSUME NEW g, Shaped(g), Symmetric(g), NEW s \in Int, NEW d \in Int, s # d, NEW w \in Int
  PROVE  Symmetric(addEdge(g, s, d, w))
<1> DEFINE h == addEdge(g, s, d, w)
           L(v) == getAdjacentEdges(g, v)
<1>1. \A v \in Int : getAdjacentEdges(h, v) =
             IF v = s THEN Append(L(s), Edge(s, d, w))
             ELSE IF v = d THEN Append(L(d), Edge(d, s, w))
             ELSE L(v)
  <2> HIDE DEF h, L
  <2>1. EdgeAdded(addEdge(g, s, d, w), g, s, d, w)
    BY AddEdgeLists
  <2> QED
    BY <2>1 DEF h, L, EdgeAdded
<1>2. VertexSet(h) = VertexSet(g) \cup {s, d}
  BY DEF VertexSet, addEdge, Shaped
<1>3. /\ Edge(s, d, w) \in EdgesFrom(s) /\ Edge(d, s, w) \in EdgesFrom(d)
      /\ Edge(s, d, w).destination = d /\ Edge(d, s, w).destination = s
      /\ Edge(s, d, w).weight = w /\ Edge(d, s, w).weight = w
  BY DEF Edge, EdgesFrom
<1>4. \A v \in Int : L(v) \in Seq(EdgesFrom(v))
  BY DEF Symmetric, ListsTyped, ListsOf
<1> HIDE DEF h, L
<1>5. \A v \in Int : \A e \in EdgesFrom(v) :
        /\ Append(L(v), e) \in Seq(EdgesFrom(v))
        /\ \A x : WeightsTo(Append(L(v), e), x) =
                    IF e.destination = x THEN Append(WeightsTo(L(v), x), e.weight) ELSE WeightsTo(L(v), x)
  BY <1>4, WeightsAppend, AppendProperties
<1>6. ListsTyped(h)
  BY <1>1, <1>2, <1>3, <1>4, <1>5 DEF Symmetric, ListsTyped, ListsOf
<1>7. \A u, v \in Int :
        WeightsBetween(h, u, v) =
          IF Joins(u, v, s, d) THEN Append(WeightsBetween(g, u, v), w) ELSE WeightsBetween(g, u, v)
  <2> TAKE u \in Int, v \in Int
  <2>1. WeightsBetween(h, u, v) = WeightsTo(getAdjacentEdges(h, u), v)
        /\ WeightsBetween(g, u, v) = WeightsTo(L(u), v)
    BY DEF WeightsBetween, L
  <2>2. CASE u = s
    <3>1. getAdjacentEdges(h, s) = Append(L(s), Edge(s, d, w))
      BY <1>1
    <3>2. WeightsTo(Append(L(s), Edge(s, d, w)), v) =
            IF d = v THEN Append(WeightsTo(L(s), v), w) ELSE WeightsTo(L(s), v)
      BY <1>3, <1>5
    <3>3. Joins(s, v, s, d) <=> v = d
      BY DEF Joins
    <3> QED
      BY ONLY <2>1, <2>2, <3>1, <3>2, <3>3
  <2>3. CASE u = d
    <3>1. getAdjacentEdges(h, d) = Append(L(d), Edge(d, s, w))
      BY <1>1
    <3>2. WeightsTo(Append(L(d), Edge(d, s, w)), v) =
            IF s = v THEN Append(WeightsTo(L(d), v), w) ELSE WeightsTo(L(d), v)
      BY <1>3, <1>5
    <3>3. Joins(d, v, s, d) <=> v = s
      BY DEF Joins
    <3> QED
      BY ONLY <2>1, <2>3, <3>1, <3>2, <3>3
  <2>4. CASE u # s /\ u # d
    BY <1>1, <2>1, <2>4 DEF Joins
  <2> QED
    BY <2>2, <2>3, <2>4
<1>8. SameWeights(h)
  <2>1. SameWeights(g) /\ (\A u, v : Joins(u, v, s, d) <=> Joins(v, u, s, d)) /\ (\A u : ~Joins(u, u, s, d))
    BY DEF Symmetric, Joins
  <2> QED
    <3>1. SUFFICES ASSUME NEW u \in Int, NEW v \in Int
                   PROVE  WeightsBetween(h, u, v) = WeightsBetween(h, v, u) /\ Even(WeightsBetween(h, u, u))
      BY DEF SameWeights
    <3>2. WeightsBetween(g, u, v) = WeightsBetween(g, v, u) /\ Even(WeightsBetween(g, u, u))
      BY <2>1 DEF SameWeights
    <3>3. Even(WeightsBetween(h, u, u))
      BY <1>7, <2>1, <3>2
    <3>4. WeightsBetween(h, u, v) = WeightsBetween(h, v, u)
      <4>1. /\ WeightsBetween(h, u, v) = IF Joins(u, v, s, d) THEN Append(WeightsBetween(g, u, v), w)
                                         ELSE WeightsBetween(g, u, v)
            /\ WeightsBetween(h, v, u) = IF Joins(v, u, s, d) THEN Append(WeightsBetween(g, v, u), w)
                                         ELSE WeightsBetween(g, v, u)
            /\ Joins(u, v, s, d) <=> Joins(v, u, s, d)
        BY <1>7, <2>1
      <4> QED
        BY ONLY <3>2, <4>1
    <3> QED
      BY <3>3, <3>4
<1> QED
  BY <1>6, <1>8 DEF Symmetric, h

\* A loop is in one list twice.
LEMMA AddLoopLists ==
  ASSUME NEW g, Shaped(g), Symmetric(g), NEW s \in Int, NEW w \in Int
  PROVE  \A v \in Int :
           getAdjacentEdges(addEdge(g, s, s, w), v) =
             IF v = s THEN Append(Append(getAdjacentEdges(g, s), Edge(s, s, w)), Edge(s, s, w))
             ELSE getAdjacentEdges(g, v)
<1> DEFINE e == Edge(s, s, w)
           Pushed(v) == (IF v = s THEN <<Edge(s, s, w)>> ELSE <<>>)
                           \o (IF v = s THEN <<Edge(s, s, w)>> ELSE <<>>)
           New(v) == getAdjacentEdges(g, v) \o Pushed(v)
           f == [v \in VertexSet(g) \cup {s, s} |-> New(v)]
<1>1. addEdge(g, s, s, w) = [g EXCEPT !.adjacencyList = f]
  BY Zenon DEF addEdge
<1>2. /\ DOMAIN f = VertexSet(g) \cup {s, s}
      /\ \A v \in VertexSet(g) \cup {s, s} : f[v] = New(v)
  <2> HIDE DEF New
  <2> QED
    OBVIOUS
<1>3. \A v : getAdjacentEdges([g EXCEPT !.adjacencyList = f], v) = IF v \in DOMAIN f THEN f[v] ELSE <<>>
  <2> HIDE DEF f
  <2> QED
    BY StoredLists
<1>4. \A v : v \notin VertexSet(g) => getAdjacentEdges(g, v) = <<>>
  BY DEF getAdjacentEdges
<1>5. ASSUME NEW v \in Int
      PROVE  New(v) = IF v = s THEN Append(Append(getAdjacentEdges(g, s), e), e)
                      ELSE getAdjacentEdges(g, v)
  <2> DEFINE q == getAdjacentEdges(g, v)
             T == EdgesFrom(v)
  <2>1. q \in Seq(T)
    BY DEF Symmetric, ListsTyped, ListsOf
  <2>2. Pushed(v) = IF v = s THEN <<e>> \o <<e>> ELSE <<>>
    BY Singles
  <2>3. v = s => e \in T
    BY DEF Edge, EdgesFrom
  <2> HIDE DEF q, T, Pushed, e
  <2>4. \A x \in T : q \o (<<x>> \o <<x>>) = Append(Append(q, x), x)
    BY <2>1
  <2>5. q \o <<>> = q
    BY <2>1, ConcatEmptySeq
  <2> QED
    BY <2>2, <2>3, <2>4, <2>5 DEF q
<1> HIDE DEF f, New
<1> QED
  BY <1>1, <1>2, <1>3, <1>4, <1>5

LEMMA AddLoopSymmetric ==
  ASSUME NEW g, Shaped(g), Symmetric(g), NEW s \in Int, NEW w \in Int
  PROVE  Symmetric(addEdge(g, s, s, w))
<1> DEFINE h == addEdge(g, s, s, w)
           q == getAdjacentEdges(g, s)
           T == EdgesFrom(s)
           e == Edge(s, s, w)
           r == Append(Append(q, e), e)
<1>1. \A v \in Int : getAdjacentEdges(h, v) = IF v = s THEN r ELSE getAdjacentEdges(g, v)
  BY AddLoopLists
<1>2. VertexSet(h) = VertexSet(g) \cup {s}
  BY DEF VertexSet, addEdge, Shaped
<1>3. e \in T /\ e.destination = s /\ e.weight = w /\ q \in Seq(T)
  BY DEF Edge, EdgesFrom, Symmetric, ListsTyped, ListsOf
<1>4. \A x : WeightsTo(q, x) \in Seq(Int)
  <2>1. \A t \in T : t.weight \in Int
    BY DEF EdgesFrom
  <2> HIDE DEF T, q
  <2> QED
    BY <1>3, <2>1, WeightsType
<1> HIDE DEF h, q, T, e
<1>5. /\ r \in Seq(T)
      /\ \A x : WeightsTo(r, x) =
                   IF x = s THEN Append(Append(WeightsTo(q, s), w), w) ELSE WeightsTo(q, x)
  <2> DEFINE p == Append(q, e)
  <2>1. p \in Seq(T) /\ r \in Seq(T)
    BY <1>3
  <2>2. \A x : WeightsTo(p, x) = IF s = x THEN Append(WeightsTo(q, x), w) ELSE WeightsTo(q, x)
    BY <1>3, WeightsAppend
  <2> HIDE DEF p
  <2>3. \A x : WeightsTo(Append(p, e), x) =
                 IF s = x THEN Append(WeightsTo(p, x), w) ELSE WeightsTo(p, x)
    BY <1>3, <2>1, WeightsAppend
  <2> QED
    BY <2>1, <2>2, <2>3 DEF p
<1> HIDE DEF r
<1>6. ListsTyped(h)
  BY <1>1, <1>2, <1>5 DEF Symmetric, ListsTyped, ListsOf, T
<1>7. \A u, v \in Int :
        WeightsBetween(h, u, v) =
          IF u = s /\ v = s THEN Append(Append(WeightsBetween(g, s, s), w), w)
          ELSE WeightsBetween(g, u, v)
  BY <1>1, <1>5 DEF WeightsBetween, q
<1>8. \A p \in Seq(Int) : Even(p) => Even(Append(Append(p, w), w))
  <2> SUFFICES ASSUME NEW p \in Seq(Int), Even(p) PROVE Even(Append(Append(p, w), w))
    OBVIOUS
  <2>1. Len(p) \in Nat /\ Len(Append(Append(p, w), w)) = Len(p) + 2
    OBVIOUS
  <2> QED
    BY <2>1 DEF Even
<1>9. WeightsBetween(g, s, s) \in Seq(Int)
  BY <1>4 DEF WeightsBetween, q
<1>10. SameWeights(h)
  <2>1. \A u, v \in Int :
          WeightsBetween(g, u, v) = WeightsBetween(g, v, u) /\ Even(WeightsBetween(g, u, u))
    BY DEF Symmetric, SameWeights
  <2>2. Even(Append(Append(WeightsBetween(g, s, s), w), w))
    BY ONLY <1>8, <1>9, <2>1, s \in Int
  <2> SUFFICES ASSUME NEW u \in Int, NEW v \in Int
               PROVE  /\ WeightsBetween(h, u, v) = WeightsBetween(h, v, u)
                      /\ Even(WeightsBetween(h, u, u))
    BY DEF SameWeights
  <2>3. CASE u = s /\ v = s
    BY ONLY <1>7, <2>2, <2>3, s \in Int
  <2>4. CASE u = s /\ v # s
    BY ONLY <1>7, <2>1, <2>2, <2>4, s \in Int, v \in Int
  <2>5. CASE u # s
    BY ONLY <1>7, <2>1, <2>5, s \in Int, u \in Int, v \in Int
  <2> QED
    BY <2>3, <2>4, <2>5
<1> QED
  BY <1>6, <1>10 DEF Symmetric, h

LEMMA RemoveEdgeSymmetric ==
  ASSUME NEW g, Shaped(g), Symmetric(g), NEW s \in Int, NEW d \in Int, s # d
  PROVE  Symmetric(removeEdge(g, s, d))
<1> DEFINE h == Subscripted(g, {s, d})
           L(v) == getAdjacentEdges(g, v)
           a == [h EXCEPT !.adjacencyList[s] = WithoutEdgesTo(L(s), d)]
           b == [a EXCEPT !.adjacencyList[d] = WithoutEdgesTo(L(d), s)]
<1>1. /\ Shaped(h) /\ VertexSet(h) = VertexSet(g) \cup {s, d}
      /\ \A v : getAdjacentEdges(h, v) = L(v)
  <2>1. Shaped(h) /\ VertexSet(h) = VertexSet(g) \cup {s, d}
    BY DEF Subscripted, Shaped, VertexSet
  <2> QED
    BY <2>1, SubscriptedLists
<1>2. h.adjacencyList[s] = L(s) /\ h.adjacencyList[d] = L(d)
  <2> HIDE DEF h
  <2> QED
    BY <1>1 DEF getAdjacentEdges
<1>3. removeEdge(g, s, d) = b
  <2>1. \A x, y : [h EXCEPT !.adjacencyList[s] = x, !.adjacencyList[d] = y]
                   = [[h EXCEPT !.adjacencyList[s] = x] EXCEPT !.adjacencyList[d] = y]
    <3> HIDE DEF h
    <3> QED
      BY <1>1 DEF Shaped
  <2>2. removeEdge(g, s, d) = [h EXCEPT !.adjacencyList[s] = WithoutEdgesTo(h.adjacencyList[s], d),
                                        !.adjacencyList[d] = WithoutEdgesTo(h.adjacencyList[d], s)]
    <3>1. removeEdge(g, s, d) = [h EXCEPT !.adjacencyList[s] = WithoutEdgesTo(@, d),
                                          !.adjacencyList[d] = WithoutEdgesTo(@, s)]
      BY DEF removeEdge
    <3> HIDE DEF h
    <3> QED
      BY <1>1, <3>1 DEF Shaped
  <2> HIDE DEF h, L
  <2> QED
    BY <1>2, <2>1, <2>2
<1> HIDE DEF h
<1>4. /\ Shaped(a) /\ VertexSet(a) = VertexSet(h)
      /\ \A v : getAdjacentEdges(a, v) = IF v = s THEN WithoutEdgesTo(L(s), d) ELSE L(v)
  <2>1. s \in VertexSet(h)
    BY <1>1
  <2> HIDE DEF L
  <2>2. Relisted(a, h, s, WithoutEdgesTo(L(s), d))
    BY <1>1, <2>1, StoredList
  <2> HIDE DEF a
  <2> QED
    BY <1>1, <2>2 DEF Relisted
<1> HIDE DEF a
<1>5. /\ VertexSet(b) = VertexSet(h)
      /\ \A v : getAdjacentEdges(b, v) = IF v = d THEN WithoutEdgesTo(L(d), s)
                                          ELSE IF v = s THEN WithoutEdgesTo(L(s), d) ELSE L(v)
  <2>1. d \in VertexSet(a)
    BY <1>1, <1>4
  <2> HIDE DEF L, b
  <2>2. /\ VertexSet(b) = VertexSet(a)
        /\ \A v : getAdjacentEdges(b, v) = IF v = d THEN WithoutEdgesTo(L(d), s) ELSE getAdjacentEdges(a, v)
    <3>1. Relisted([a EXCEPT !.adjacencyList[d] = WithoutEdgesTo(L(d), s)], a, d, WithoutEdgesTo(L(d), s))
      BY <1>4, <2>1, StoredList
    <3> QED
      BY <3>1 DEF Relisted, b
  <2> QED
    BY <1>4, <2>2
<1> HIDE DEF b
<1>6. \A v \in Int : L(v) \in Seq(EdgesFrom(v))
  BY DEF Symmetric, ListsTyped, ListsOf
<1> HIDE DEF L
<1>7. \A v \in Int, x \in Int :
        /\ WithoutEdgesTo(L(v), x) \in Seq(EdgesFrom(v))
        /\ \A y : WeightsTo(WithoutEdgesTo(L(v), x), y) = IF y = x THEN <<>> ELSE WeightsTo(L(v), y)
  <2> TAKE v \in Int, x \in Int
  <2> DEFINE T == EdgesFrom(v)
             U == {e \in T : e.destination # x}
  <2>1. WithoutEdgesTo(L(v), x) \in Seq(U)
    BY <1>6, WithoutType
  <2>2. U \subseteq T
    OBVIOUS
  <2> HIDE DEF U
  <2>3. WithoutEdgesTo(L(v), x) \in Seq(T)
    BY <2>1, <2>2, SeqMonotonic
  <2> QED
    BY <1>6, <2>3, WithoutWeights
<1>8. ListsTyped(b)
  BY <1>1, <1>5, <1>6, <1>7 DEF Symmetric, ListsTyped, ListsOf
<1>9. \A u, v \in Int :
        WeightsBetween(b, u, v) = IF Joins(u, v, s, d) THEN <<>> ELSE WeightsBetween(g, u, v)
  <2> TAKE u \in Int, v \in Int
  <2>1. WeightsBetween(b, u, v) = WeightsTo(getAdjacentEdges(b, u), v)
        /\ WeightsBetween(g, u, v) = WeightsTo(L(u), v)
    BY DEF WeightsBetween, L
  <2>2. CASE u = s
    <3>1. getAdjacentEdges(b, s) = WithoutEdgesTo(L(s), d)
      BY <1>5
    <3>2. WeightsTo(WithoutEdgesTo(L(s), d), v) = IF v = d THEN <<>> ELSE WeightsTo(L(s), v)
      BY <1>7
    <3>3. Joins(s, v, s, d) <=> v = d
      BY DEF Joins
    <3> QED
      BY ONLY <2>1, <2>2, <3>1, <3>2, <3>3
  <2>3. CASE u = d
    <3>1. getAdjacentEdges(b, d) = WithoutEdgesTo(L(d), s)
      BY <1>5
    <3>2. WeightsTo(WithoutEdgesTo(L(d), s), v) = IF v = s THEN <<>> ELSE WeightsTo(L(d), v)
      BY <1>7
    <3>3. Joins(d, v, s, d) <=> v = s
      BY DEF Joins
    <3> QED
      BY ONLY <2>1, <2>3, <3>1, <3>2, <3>3
  <2>4. CASE u # s /\ u # d
    BY <1>5, <2>1, <2>4 DEF Joins
  <2> QED
    BY <2>2, <2>3, <2>4
<1>10. SameWeights(b)
  BY <1>9 DEF Symmetric, SameWeights, Joins
<1> QED
  BY <1>3, <1>8, <1>10 DEF Symmetric

\* The same lists, and maybe more vertices.
LEMMA SameListsSymmetric ==
  ASSUME NEW g, Symmetric(g), NEW h, VertexSet(h) \subseteq Int,
         \A v : getAdjacentEdges(h, v) = getAdjacentEdges(g, v)
  PROVE  Symmetric(h)
  BY DEF Symmetric, ListsTyped, SameWeights, WeightsBetween

LEMMA ListOf == ASSUME NEW g, NEW v \in VertexSet(g) PROVE g.adjacencyList[v] = getAdjacentEdges(g, v)
  BY DEF getAdjacentEdges

\* Where there is no loop, removing one changes nothing.
LEMMA RemoveNoLoopSymmetric ==
  ASSUME NEW g, Shaped(g), Symmetric(g), NEW s \in Int, WeightsBetween(g, s, s) = <<>>
  PROVE  Symmetric(removeEdge(g, s, s))
<1> DEFINE h == Subscripted(g, {s, s})
           q == getAdjacentEdges(g, s)
           T == EdgesFrom(s)
           a == [h EXCEPT !.adjacencyList[s] = q]
<1>1. /\ Shaped(h) /\ VertexSet(h) = VertexSet(g) \cup {s}
      /\ \A v : getAdjacentEdges(h, v) = getAdjacentEdges(g, v)
  <2>1. Shaped(h) /\ VertexSet(h) = VertexSet(g) \cup {s}
    BY DEF Subscripted, Shaped, VertexSet
  <2> QED
    BY <2>1, SubscriptedLists
<1>2. q \in Seq(T) /\ VertexSet(g) \subseteq Int
  BY DEF Symmetric, ListsTyped, ListsOf
<1> HIDE DEF T
<1>3. EdgesTo(q, s) = {}
  <2>1. WeightsTo(q, s) = <<>>
    BY DEF WeightsBetween
  <2> HIDE DEF q
  <2> QED
    BY <1>2, <2>1, NoEdgeNoWeight
<1>4. AfterLoopRemoval(q, s) = q
  <2> HIDE DEF q
  <2>1. WithoutEdgesTo(q, s) = q
    BY <1>2, <1>3, WithoutNone
  <2>2. SubSeq(q, Len(q) + 1, Len(q)) = <<>>
    BY <1>2
  <2>3. q \o <<>> = q
    BY <1>2, ConcatEmptySeq
  <2> QED
    BY <2>1, <2>2, <2>3, WithoutEmpty DEF AfterLoopRemoval
<1>5. removeEdge(g, s, s) = [h EXCEPT !.adjacencyList[s] = AfterLoopRemoval(@, s)]
  BY DEF removeEdge
<1> HIDE DEF h
<1>6. h.adjacencyList[s] = q /\ s \in VertexSet(h)
  BY <1>1, ListOf
<1>7. removeEdge(g, s, s) = a
  BY <1>1, <1>4, <1>5, <1>6 DEF Shaped
<1>8. Relisted(a, h, s, q)
  <2> HIDE DEF q
  <2> QED
    BY <1>1, <1>6, StoredList
<1> HIDE DEF a
<1>9. VertexSet(a) \subseteq Int /\ \A v : getAdjacentEdges(a, v) = getAdjacentEdges(g, v)
  BY <1>1, <1>2, <1>8 DEF Relisted
<1> QED
  BY <1>7, <1>9, SameListsSymmetric

\* changeWeight stores two lists.
Relist(h, u, x) == [h EXCEPT !.adjacencyList[u] = x]
ElementWeighed(q, i, w) == [q EXCEPT ![i].weight = w]
BothWeighed(h, s, i, d, j, w) ==
  [h EXCEPT !.adjacencyList[s][i].weight = w, !.adjacencyList[d][j].weight = w]

LEMMA TwoWeights ==
  ASSUME NEW h, Shaped(h), NEW s, NEW d, s # d, NEW w, NEW i, NEW j
  PROVE  BothWeighed(h, s, i, d, j, w)
           = Relist(Relist(h, s, ElementWeighed(h.adjacencyList[s], i, w)), d,
                    ElementWeighed(h.adjacencyList[d], j, w))
  BY DEF Shaped, Relist, ElementWeighed, BothWeighed

LEMMA ChangeWeightSymmetric ==
  ASSUME NEW g, Shaped(g), Symmetric(g), NEW s \in Int, NEW d \in Int, s # d, NEW w \in Int
  PROVE  Symmetric(changeWeight(g, s, d, w))
<1> DEFINE h == Subscripted(g, {s, d})
           L(v) == getAdjacentEdges(g, v)
           x == FirstSet(L(s), d, w)
           y == FirstSet(L(d), s, w)
           a == [h EXCEPT !.adjacencyList[s] = x]
           b == [a EXCEPT !.adjacencyList[d] = y]
<1>1. /\ Shaped(h) /\ VertexSet(h) = VertexSet(g) \cup {s, d}
      /\ \A v : getAdjacentEdges(h, v) = L(v)
  <2>1. Shaped(h) /\ VertexSet(h) = VertexSet(g) \cup {s, d}
    BY DEF Subscripted, Shaped, VertexSet
  <2> QED
    BY <2>1, SubscriptedLists
<1>2. changeWeight(g, s, d, w) =
        IF HasEdge(h, s, d)
        THEN [h EXCEPT !.adjacencyList[s][FirstEdgeTo(h.adjacencyList[s], d)].weight = w,
                       !.adjacencyList[d][FirstEdgeTo(h.adjacencyList[d], s)].weight = w]
        ELSE h
  BY DEF changeWeight
<1> HIDE DEF h
<1>3. h.adjacencyList[s] = L(s) /\ h.adjacencyList[d] = L(d) /\ VertexSet(h) \subseteq Int
  <2> HIDE DEF L
  <2> QED
    BY <1>1, ListOf DEF Symmetric, ListsTyped
<1>4. CASE ~HasEdge(h, s, d)
  BY <1>1, <1>2, <1>3, <1>4, SameListsSymmetric
<1>5. CASE HasEdge(h, s, d)
  <2>1. EdgesTo(L(s), d) # {} /\ EdgesTo(L(d), s) # {}
    <3>1. FirstEdgeTo(L(s), d) # 0 /\ FirstEdgeTo(L(d), s) # 0
      BY <1>1, <1>5 DEF HasEdge
    <3> HIDE DEF L
    <3> QED
      BY <3>1 DEF FirstEdgeTo
  <2>2. changeWeight(g, s, d, w) = b
    <3> DEFINE i == Min(EdgesTo(L(s), d))
               j == Min(EdgesTo(L(d), s))
    <3>1. FirstEdgeTo(h.adjacencyList[s], d) = i /\ FirstEdgeTo(h.adjacencyList[d], s) = j
      <4> HIDE DEF L
      <4> QED
        BY <1>3, <2>1 DEF FirstEdgeTo
    <3>2. changeWeight(g, s, d, w) = BothWeighed(h, s, i, d, j, w)
      <4> HIDE DEF i, j
      <4> QED
        BY <1>2, <1>5, <3>1 DEF BothWeighed
    <3>3. BothWeighed(h, s, i, d, j, w)
            = Relist(Relist(h, s, ElementWeighed(h.adjacencyList[s], i, w)), d,
                     ElementWeighed(h.adjacencyList[d], j, w))
      <4> HIDE DEF i, j
      <4> QED
        BY <1>1, TwoWeights
    <3>4. x = ElementWeighed(h.adjacencyList[s], i, w) /\ y = ElementWeighed(h.adjacencyList[d], j, w)
      <4> HIDE DEF L
      <4> QED
        BY <1>3 DEF FirstSet, ElementWeighed
    <3>5. b = Relist(Relist(h, s, x), d, y)
      BY DEF Relist
    <3> HIDE DEF i, j, x, y, b
    <3> QED
      BY <3>2, <3>3, <3>4, <3>5
  <2> HIDE DEF x, y
  <2>3. Relisted(a, h, s, x)
    BY <1>1, StoredList
  <2> HIDE DEF a
  <2>4. Relisted(b, a, d, y)
    <3>1. Shaped(a) /\ d \in VertexSet(a)
      BY <1>1, <2>3 DEF Relisted
    <3> QED
      BY ONLY <3>1, StoredList
  <2> HIDE DEF b
  <2>5. /\ VertexSet(b) \subseteq Int
        /\ getAdjacentEdges(b, s) = x /\ getAdjacentEdges(b, d) = y
        /\ \A v : v # s /\ v # d => getAdjacentEdges(b, v) = L(v)
    BY <1>1, <1>3, <2>3, <2>4 DEF Relisted
  <2>6. L(s) \in ListsOf(s) /\ L(d) \in ListsOf(d)
    BY DEF Symmetric, ListsTyped
  <2> HIDE DEF L
  <2>7. /\ x \in ListsOf(s)
        /\ \A v : WeightsTo(x, v) = IF v = d THEN FirstIs(WeightsTo(L(s), d), w) ELSE WeightsTo(L(s), v)
    <3> DEFINE q == L(s)
    <3>1. q \in ListsOf(s) /\ EdgesTo(q, d) # {}
      BY <2>1, <2>6
    <3> HIDE DEF q
    <3>2. ASSUME NEW v
          PROVE  /\ FirstSet(q, d, w) \in ListsOf(s)
                 /\ WeightsTo(FirstSet(q, d, w), v) =
                      IF v = d THEN FirstIs(WeightsTo(q, d), w) ELSE WeightsTo(q, v)
      <4>1. FirstSetEffect(s, q, d, w, v)
        BY <3>1, FirstSetWeights
      <4> QED
        BY <4>1 DEF FirstSetEffect
    <3> QED
      BY <3>2 DEF x, q
  <2>8. /\ y \in ListsOf(d)
        /\ \A v : WeightsTo(y, v) = IF v = s THEN FirstIs(WeightsTo(L(d), s), w) ELSE WeightsTo(L(d), v)
    <3> DEFINE q == L(d)
    <3>1. q \in ListsOf(d) /\ EdgesTo(q, s) # {}
      BY <2>1, <2>6
    <3> HIDE DEF q
    <3>2. ASSUME NEW v
          PROVE  /\ FirstSet(q, s, w) \in ListsOf(d)
                 /\ WeightsTo(FirstSet(q, s, w), v) =
                      IF v = s THEN FirstIs(WeightsTo(q, s), w) ELSE WeightsTo(q, v)
      <4>1. FirstSetEffect(d, q, s, w, v)
        BY <3>1, FirstSetWeights
      <4> QED
        BY <4>1 DEF FirstSetEffect
    <3> QED
      BY <3>2 DEF y, q
  <2>9. ListsTyped(b)
    BY <2>5, <2>7, <2>8 DEF Symmetric, ListsTyped, L
  <2>10. \A u, v : WeightsBetween(b, u, v) =
                     IF Joins(u, v, s, d) THEN FirstIs(WeightsBetween(g, u, v), w)
                     ELSE WeightsBetween(g, u, v)
    <3> TAKE u, v
    <3>1. WeightsBetween(b, u, v) = WeightsTo(getAdjacentEdges(b, u), v)
          /\ WeightsBetween(g, u, v) = WeightsTo(L(u), v)
      BY DEF WeightsBetween, L
    <3>2. CASE u = s
      <4>1. Joins(s, v, s, d) <=> v = d
        BY DEF Joins
      <4> QED
        BY <2>5, <2>7, <3>1, <3>2, <4>1
    <3>3. CASE u = d
      <4>1. Joins(d, v, s, d) <=> v = s
        BY DEF Joins
      <4> QED
        BY <2>5, <2>8, <3>1, <3>3, <4>1
    <3>4. CASE u # s /\ u # d
      BY <2>5, <3>1, <3>4 DEF Joins
    <3> QED
      BY <3>2, <3>3, <3>4
  <2>11. SameWeights(b)
    <3>1. SUFFICES ASSUME NEW u \in Int, NEW v \in Int
                   PROVE  WeightsBetween(b, u, v) = WeightsBetween(b, v, u) /\ Even(WeightsBetween(b, u, u))
      BY DEF SameWeights
    <3>2. WeightsBetween(g, u, v) = WeightsBetween(g, v, u) /\ Even(WeightsBetween(g, u, u))
      BY DEF SameWeights, Symmetric
    <3>3. ~Joins(u, u, s, d) /\ (Joins(u, v, s, d) <=> Joins(v, u, s, d))
      BY DEF Joins
    <3>4. Even(WeightsBetween(b, u, u))
      BY <2>10, <3>2, <3>3
    <3>5. WeightsBetween(b, u, v) = WeightsBetween(b, v, u)
      <4>1. /\ WeightsBetween(b, u, v) = IF Joins(u, v, s, d) THEN FirstIs(WeightsBetween(g, u, v), w)
                                         ELSE WeightsBetween(g, u, v)
            /\ WeightsBetween(b, v, u) = IF Joins(v, u, s, d) THEN FirstIs(WeightsBetween(g, v, u), w)
                                         ELSE WeightsBetween(g, v, u)
        BY <2>10
      <4> QED
        BY ONLY <3>2, <3>3, <4>1
    <3> QED
      BY <3>4, <3>5
  <2> QED
    BY <2>2, <2>9, <2>11 DEF Symmetric
<1> QED
  BY <1>4, <1>5

LEMMA FirstPosition ==
  ASSUME NEW v, NEW q \in ListsOf(v), NEW d, FirstEdgeTo(q, d) # 0
  PROVE  FirstEdgeTo(q, d) \in 1..Len(q)
<1>1. EdgesTo(q, d) # {} /\ FirstEdgeTo(q, d) = Min(EdgesTo(q, d))
  BY DEF FirstEdgeTo
<1>2. EdgesTo(q, d) \subseteq 1..Len(q) /\ EdgesTo(q, d) \in SUBSET Nat
  BY DEF EdgesTo
<1> QED
  BY <1>1, <1>2, HasLeast

\* The weight of a loop is stored twice, in one edge.
LEMMA SameWeightTwice ==
  ASSUME NEW h, Shaped(h), NEW s \in VertexSet(h), NEW v, h.adjacencyList[s] \in ListsOf(v),
         NEW w, NEW i \in 1..Len(h.adjacencyList[s])
  PROVE  BothWeighed(h, s, i, s, i, w) = Relist(h, s, ElementWeighed(h.adjacencyList[s], i, w))
<1> DEFINE q == h.adjacencyList[s]
           x == ElementWeighed(q, i, w)
           a == Relist(h, s, x)
<1>1. BothWeighed(h, s, i, s, i, w) = Relist(h, s, ElementWeighed(x, i, w))
  <2>1. BothWeighed(h, s, i, s, i, w) = Relist(a, s, ElementWeighed(a.adjacencyList[s], i, w))
    BY DEF Shaped, Relist, ElementWeighed, BothWeighed
  <2>2. a.adjacencyList[s] = x
    <3> HIDE DEF x
    <3> QED
      BY DEF Shaped, VertexSet, Relist
  <2>3. \A y : Relist(a, s, y) = Relist(h, s, y)
    <3> HIDE DEF x
    <3> QED
      BY DEF Shaped, VertexSet, Relist
  <2> QED
    BY <2>1, <2>2, <2>3
<1>2. q \in Seq(EdgesFrom(v)) /\ i \in DOMAIN q
  BY DEF ListsOf
<1>3. q[i] \in EdgesFrom(v)
  <2> HIDE DEF q
  <2> QED
    BY <1>2
<1> HIDE DEF q
<1>4. ElementWeighed(x, i, w) = x
  BY <1>2, <1>3 DEF ElementWeighed, EdgesFrom
<1> QED
  BY <1>1, <1>4 DEF q

LEMMA ChangeLoopSymmetric ==
  ASSUME NEW g, Shaped(g), Symmetric(g), NEW s \in Int, NEW w \in Int
  PROVE  Symmetric(changeWeight(g, s, s, w))
<1> DEFINE h == Subscripted(g, {s, s})
           q == getAdjacentEdges(g, s)
           x == FirstSet(q, s, w)
           b == [h EXCEPT !.adjacencyList[s] = x]
<1>1. /\ Shaped(h) /\ VertexSet(h) = VertexSet(g) \cup {s}
      /\ \A v : getAdjacentEdges(h, v) = getAdjacentEdges(g, v)
  <2>1. Shaped(h) /\ VertexSet(h) = VertexSet(g) \cup {s}
    BY DEF Subscripted, Shaped, VertexSet
  <2> QED
    BY <2>1, SubscriptedLists
<1>2. changeWeight(g, s, s, w) =
        IF HasEdge(h, s, s)
        THEN BothWeighed(h, s, FirstEdgeTo(h.adjacencyList[s], s),
                            s, FirstEdgeTo(h.adjacencyList[s], s), w)
        ELSE h
  BY DEF changeWeight, BothWeighed
<1> HIDE DEF h
<1>3. h.adjacencyList[s] = q /\ s \in VertexSet(h) /\ VertexSet(h) \subseteq Int
  BY <1>1, ListOf DEF Symmetric, ListsTyped
<1>4. q \in ListsOf(s)
  BY DEF Symmetric, ListsTyped
<1>5. CASE ~HasEdge(h, s, s)
  BY <1>1, <1>2, <1>3, <1>5, SameListsSymmetric
<1>6. CASE HasEdge(h, s, s)
  <2>1. EdgesTo(q, s) # {}
    <3>1. FirstEdgeTo(q, s) # 0
      BY <1>1, <1>6 DEF HasEdge
    <3> HIDE DEF q
    <3> QED
      BY <3>1 DEF FirstEdgeTo
  <2> HIDE DEF q
  <2>2. changeWeight(g, s, s, w) = b
    <3> DEFINE i == Min(EdgesTo(q, s))
    <3>1. FirstEdgeTo(h.adjacencyList[s], s) = i
      BY <1>3, <2>1 DEF FirstEdgeTo
    <3>2. i \in 1..Len(q)
      <4>1. FirstEdgeTo(q, s) # 0
        BY <1>1, <1>6 DEF HasEdge, q
      <4>2. FirstEdgeTo(q, s) \in 1..Len(q)
        BY <1>4, <4>1, FirstPosition
      <4> QED
        BY <1>3, <3>1, <4>2
    <3>3. x = ElementWeighed(h.adjacencyList[s], i, w)
      BY <1>3 DEF FirstSet, ElementWeighed
    <3> HIDE DEF i, x
    <3>4. changeWeight(g, s, s, w) = BothWeighed(h, s, i, s, i, w)
      BY <1>2, <1>6, <3>1
    <3>5. BothWeighed(h, s, i, s, i, w) = Relist(h, s, x)
      BY <1>1, <1>3, <1>4, <3>2, <3>3, SameWeightTwice
    <3> QED
      BY <3>4, <3>5 DEF Relist
  <2>3. \A v : FirstSetEffect(s, q, s, w, v)
    BY <1>4, <2>1, FirstSetWeights
  <2> HIDE DEF x
  <2>4. Relisted(b, h, s, x)
    BY <1>1, <1>3, StoredList
  <2> HIDE DEF b
  <2>5. /\ VertexSet(b) \subseteq Int
        /\ \A v : getAdjacentEdges(b, v) = IF v = s THEN x ELSE getAdjacentEdges(g, v)
    BY <1>1, <1>3, <2>4 DEF Relisted
  <2>6. /\ x \in ListsOf(s)
        /\ \A v : WeightsTo(x, v) = IF v = s THEN FirstIs(WeightsTo(q, s), w) ELSE WeightsTo(q, v)
    BY <2>3 DEF FirstSetEffect, x
  <2>7. ListsTyped(b)
    BY <2>5, <2>6 DEF Symmetric, ListsTyped
  <2>8. \A u, v \in Int :
          WeightsBetween(b, u, v) = IF u = s /\ v = s THEN FirstIs(WeightsBetween(g, s, s), w)
                                    ELSE WeightsBetween(g, u, v)
    BY <2>5, <2>6 DEF WeightsBetween, q
  <2>9. Even(FirstIs(WeightsBetween(g, s, s), w))
    <3>1. \A t \in EdgesFrom(s) : t.weight \in Int
      BY DEF EdgesFrom
    <3>2. WeightsBetween(g, s, s) \in Seq(Int)
      BY <1>4, <3>1, WeightsType DEF WeightsBetween, q, ListsOf
    <3>3. \A p \in Seq(Int) : Len(FirstIs(p, w)) = Len(p)
      BY DEF FirstIs
    <3>4. Even(WeightsBetween(g, s, s))
      BY DEF Symmetric, SameWeights
    <3> QED
      BY <3>2, <3>3, <3>4 DEF Even
  <2>10. SameWeights(b)
    BY <2>8, <2>9 DEF Symmetric, SameWeights
  <2> QED
    BY <2>2, <2>7, <2>10 DEF Symmetric
<1> QED
  BY <1>5, <1>6

-----------------------------------------------------------------------------
\* Every list of removeVertex's new map is copied from the list of the vertex
\* that had the number before.
LEMMA RemoveVertexLists ==
  ASSUME NEW g, Shaped(g), ListsTyped(g), NEW v \in VertexSet(g)
  PROVE  /\ VertexSet(removeVertex(g, v)) \subseteq Int
         /\ \A n \in Int :
              getAdjacentEdges(removeVertex(g, v), n) =
                CopiedList(WithoutEdgesTo(getAdjacentEdges(g, OldNumber(n, v)), v), n, v)
<1> DEFINE left(u) == WithoutEdgesTo(g.adjacencyList[u], v)
           kept == {u \in VertexSet(g) \ {v} : left(u) # <<>>}
           Copied(u) == LET edges == left(u)
                        IN  [i \in 1..Len(edges) |->
                               Edge(Renumbered(u, v), Renumbered(edges[i].destination, v), edges[i].weight)]
           f == [n \in {Renumbered(u, v) : u \in kept} |->
                   Copied(CHOOSE u \in kept : Renumbered(u, v) = n)]
<1>1. removeVertex(g, v) = [g EXCEPT !.adjacencyList = f]
  BY Zenon DEF removeVertex
<1>2. \A u : Copied(u) = CopiedList(left(u), Renumbered(u, v), v)
  BY DEF CopiedList
<1>3. kept \subseteq Int /\ v \notin kept /\ v \in Int /\ VertexSet(g) \subseteq Int
  BY DEF ListsTyped
<1>4. /\ DOMAIN f = {Renumbered(u, v) : u \in kept}
      /\ \A n \in {Renumbered(u, v) : u \in kept} :
           f[n] = Copied(CHOOSE u \in kept : Renumbered(u, v) = n)
  <2> HIDE DEF kept, Copied
  <2> QED
    OBVIOUS
<1> HIDE DEF kept, Copied, f
<1>5. \A n : getAdjacentEdges(removeVertex(g, v), n) = IF n \in DOMAIN f THEN f[n] ELSE <<>>
  BY <1>1, StoredLists
<1>6. VertexSet(removeVertex(g, v)) = DOMAIN f
  BY <1>1 DEF Shaped, VertexSet
<1>7. \A u \in kept, n \in Int : Renumbered(u, v) \in Int /\ (Renumbered(u, v) = n <=> u = OldNumber(n, v))
  BY <1>3 DEF Renumbered, OldNumber
<1>8. ASSUME NEW n \in Int
      PROVE  getAdjacentEdges(removeVertex(g, v), n) =
               CopiedList(WithoutEdgesTo(getAdjacentEdges(g, OldNumber(n, v)), v), n, v)
  <2> DEFINE u == OldNumber(n, v)
  <2>1. CASE u \in kept
    <3>1. Renumbered(u, v) = n /\ \A t \in kept : Renumbered(t, v) = n <=> t = u
      BY <1>7, <2>1
    <3>2. (CHOOSE t \in kept : Renumbered(t, v) = n) = u
      BY <2>1, <3>1
    <3>3. n \in DOMAIN f /\ f[n] = Copied(u)
      <4> HIDE DEF u
      <4>1. n \in {Renumbered(t, v) : t \in kept}
        BY <2>1, <3>1
      <4> QED
        BY <1>4, <3>2, <4>1
    <3>4. g.adjacencyList[u] = getAdjacentEdges(g, u)
      BY <2>1, ListOf DEF kept
    <3> HIDE DEF u
    <3> QED
      BY <1>2, <1>5, <3>1, <3>3, <3>4 DEF u
  <2>2. CASE u \notin kept
    <3>1. n \notin DOMAIN f
      BY <1>4, <1>7, <2>2
    <3>2. u # v
      BY <1>3 DEF OldNumber
    <3>3. WithoutEdgesTo(getAdjacentEdges(g, u), v) = <<>>
      <4>1. CASE u \in VertexSet(g)
        <5> HIDE DEF u
        <5> QED
          BY <2>2, <3>2, <4>1, ListOf DEF kept
      <4>2. CASE u \notin VertexSet(g)
        <5> HIDE DEF u
        <5> QED
          BY <4>2, WithoutEmpty DEF getAdjacentEdges
      <4> QED
        BY <4>1, <4>2
    <3>4. CopiedList(<<>>, n, v) = <<>>
      BY DEF CopiedList
    <3> HIDE DEF u
    <3> QED
      BY <1>5, <3>1, <3>3, <3>4 DEF u
  <2> QED
    BY <2>1, <2>2
<1>9. DOMAIN f \subseteq Int
  BY <1>4, <1>7
<1> QED
  BY <1>6, <1>8, <1>9

LEMMA RemoveVertexSymmetric ==
  ASSUME NEW g, Shaped(g), Symmetric(g), NEW v \in Int
  PROVE  Symmetric(removeVertex(g, v))
<1>1. CASE v \notin VertexSet(g)
  BY <1>1 DEF removeVertex
<1>2. CASE v \in VertexSet(g)
  <2> DEFINE h == removeVertex(g, v)
             L(u) == getAdjacentEdges(g, u)
             left(u) == WithoutEdgesTo(L(u), v)
  <2>1. /\ VertexSet(h) \subseteq Int
        /\ \A n \in Int : getAdjacentEdges(h, n) = CopiedList(left(OldNumber(n, v)), n, v)
    BY <1>2, RemoveVertexLists DEF Symmetric
  <2>2. \A n \in Int : OldNumber(n, v) \in Int /\ OldNumber(n, v) # v
    BY DEF OldNumber
  <2>3. \A u \in Int : L(u) \in Seq(EdgesFrom(u))
    BY DEF Symmetric, ListsTyped, ListsOf
  <2> HIDE DEF h, L
  <2>4. ASSUME NEW u \in Int
        PROVE  /\ left(u) \in Seq(EdgesAvoiding(u, v))
               /\ \A x : x # v => WeightsTo(left(u), x) = WeightsTo(L(u), x)
    <3> DEFINE T == EdgesFrom(u)
    <3>1. left(u) \in Seq({e \in T : e.destination # v})
      BY <2>3, WithoutType
    <3>2. {e \in T : e.destination # v} = EdgesAvoiding(u, v)
      BY DEF EdgesFrom, EdgesAvoiding
    <3>3. \A x : x # v => WeightsTo(left(u), x) = WeightsTo(L(u), x)
      BY <2>3, WithoutWeights
    <3> QED
      BY <3>1, <3>2, <3>3
  <2> HIDE DEF left
  <2>5. ASSUME NEW n \in Int
        PROVE  /\ getAdjacentEdges(h, n) \in ListsOf(n)
               /\ \A m \in Int : WeightsBetween(h, n, m) = WeightsBetween(g, OldNumber(n, v), OldNumber(m, v))
    <3> DEFINE u == OldNumber(n, v)
    <3>1. u \in Int
      BY <2>2
    <3> HIDE DEF u
    <3>2. ASSUME NEW m \in Int
          PROVE  /\ CopiedList(left(u), n, v) \in ListsOf(n)
                 /\ WeightsTo(CopiedList(left(u), n, v), m) = WeightsTo(left(u), OldNumber(m, v))
      BY <2>4, <3>1, CopiedWeights
    <3>3. ASSUME NEW m \in Int
          PROVE  WeightsBetween(h, n, m) = WeightsBetween(g, u, OldNumber(m, v))
      <4>1. WeightsTo(left(u), OldNumber(m, v)) = WeightsTo(L(u), OldNumber(m, v))
        BY <2>2, <2>4, <3>1
      <4> QED
        BY <2>1, <3>2, <4>1 DEF WeightsBetween, L, u
    <3> QED
      BY <2>1, <3>2, <3>3 DEF u
  <2>6. ListsTyped(h)
    BY <2>1, <2>5 DEF ListsTyped
  <2>7. SameWeights(h)
    <3> SUFFICES ASSUME NEW n \in Int, NEW m \in Int
                 PROVE  WeightsBetween(h, n, m) = WeightsBetween(h, m, n) /\ Even(WeightsBetween(h, n, n))
      BY DEF SameWeights
    <3> DEFINE a == OldNumber(n, v)
               b == OldNumber(m, v)
    <3>1. a \in Int /\ b \in Int
      BY <2>2
    <3>2. /\ WeightsBetween(h, n, m) = WeightsBetween(g, a, b)
          /\ WeightsBetween(h, m, n) = WeightsBetween(g, b, a)
          /\ WeightsBetween(h, n, n) = WeightsBetween(g, a, a)
      BY <2>5
    <3> HIDE DEF a, b
    <3> QED
      BY <3>1, <3>2 DEF SameWeights, Symmetric
  <2> QED
    BY <2>6, <2>7 DEF Symmetric, h
<1> QED
  BY <1>1, <1>2

-----------------------------------------------------------------------------
\* Such a graph is stored as the rest of the program expects.
LEMMA SymmetricStoredTwice ==
  ASSUME NEW g, Symmetric(g)
  PROVE  StoredTwice(g)
<1>1. VertexSet(g) \subseteq Int /\ SameWeights(g)
  BY DEF Symmetric, ListsTyped
<1>2. ASSUME NEW u \in VertexSet(g), NEW i \in DOMAIN g.adjacencyList[u]
      PROVE  LET e == g.adjacencyList[u][i]
             IN  e.source = u /\ e.destination \in VertexSet(g)
  <2> DEFINE q == g.adjacencyList[u]
             e == q[i]
             d == e.destination
  <2>1. u \in Int /\ q = getAdjacentEdges(g, u)
    BY <1>1, ListOf
  <2>2. q \in Seq(EdgesFrom(u))
    BY <2>1 DEF Symmetric, ListsTyped, ListsOf
  <2>3. i \in 1..Len(q) /\ e \in EdgesFrom(u)
    <3> HIDE DEF q
    <3>1. DOMAIN q = 1..Len(q)
      BY <2>2, LenProperties
    <3> QED
      BY <2>2, <3>1, ElementOfSeq DEF q
  <2>4. e.source = u /\ d \in Int
    <3> HIDE DEF e
    <3> QED
      BY <2>3 DEF EdgesFrom
  <2>5. EdgesTo(q, d) # {}
    BY <2>3 DEF EdgesTo
  <2> HIDE DEF q, e, d
  <2>6. WeightsTo(q, d) # <<>>
    BY <2>2, <2>5, NoEdgeNoWeight
  <2>7. WeightsBetween(g, d, u) # <<>>
    BY <1>1, <2>1, <2>4, <2>6 DEF SameWeights, WeightsBetween
  <2>8. d \in VertexSet(g)
    BY <2>7, WeightsEmpty DEF WeightsBetween, getAdjacentEdges
  <2> QED
    BY <2>4, <2>8 DEF q, e, d
<1>3. \A u, v \in VertexSet(g) : u # v => WeightsBetween(g, u, v) = WeightsBetween(g, v, u)
  BY <1>1 DEF SameWeights
<1>4. \A v \in VertexSet(g) : Len(WeightsBetween(g, v, v)) % 2 = 0
  BY <1>1 DEF SameWeights, Even
<1> QED
  BY <1>2, <1>3, <1>4 DEF StoredTwice

\* The converse: what StoredTwice says of the vertices holds of all numbers.
LEMMA StoredTwiceSymmetric ==
  ASSUME NEW g, ListsTyped(g), StoredTwice(g)
  PROVE  Symmetric(g)
<1> DEFINE V == VertexSet(g)
<1>1. \A u : u \notin V => getAdjacentEdges(g, u) = <<>>
  BY DEF getAdjacentEdges
<1>2. \A u, v : u \notin V => WeightsBetween(g, u, v) = <<>>
  BY <1>1, WeightsEmpty DEF WeightsBetween
<1>3. ASSUME NEW u \in V, NEW v \in Int, v \notin V
      PROVE  WeightsBetween(g, u, v) = <<>>
  <2> DEFINE q == getAdjacentEdges(g, u)
  <2>1. q \in Seq(EdgesFrom(u)) /\ q = g.adjacencyList[u]
    BY ListOf DEF ListsTyped, ListsOf
  <2>2. \A i \in DOMAIN q : q[i].destination \in V
    BY <2>1 DEF StoredTwice
  <2> HIDE DEF q
  <2>3. EdgesTo(q, v) = {}
    BY <1>3, <2>1, <2>2 DEF EdgesTo
  <2>4. WeightsTo(q, v) = <<>>
    BY <2>1, <2>3, NoEdgeNoWeight
  <2> QED
    BY <2>4 DEF WeightsBetween, q
<1>4. \A u, v \in V : WeightsBetween(g, u, v) = WeightsBetween(g, v, u)
  BY DEF StoredTwice
<1>5. \A u \in V : Even(WeightsBetween(g, u, u))
  BY DEF StoredTwice, Even
<1>6. Even(<<>>)
  BY DEF Even
<1> HIDE DEF V
<1> QED
  BY <1>2, <1>3, <1>4, <1>5, <1>6 DEF Symmetric, SameWeights

-----------------------------------------------------------------------------
(***************************************************************************)
(* A graph that is kept undirected is one that the algorithms are right    *)
(* about: what is in the list of one end is in the list of the other.      *)
(***************************************************************************)
LEMMA ToSetEmpty == ToSet(<<>>) = {}
  BY DEF ToSet

LEMMA ToSetAppend ==
  ASSUME NEW T, NEW s \in Seq(T), NEW x \in T
  PROVE  ToSet(Append(s, x)) = ToSet(s) \cup {x} /\ Append(s, x) \in Seq(T)
<1>1. /\ Len(s) \in Nat /\ DOMAIN s = 1..Len(s)
      /\ DOMAIN Append(s, x) = 1..Len(s) + 1
      /\ Append(s, x)[Len(s) + 1] = x
      /\ \A i \in 1..Len(s) : Append(s, x)[i] = s[i]
      /\ Append(s, x) \in Seq(T)
  OBVIOUS
<1>2. 1..Len(s) + 1 = 1..Len(s) \cup {Len(s) + 1}
  BY <1>1
<1> QED
  BY <1>1, <1>2 DEF ToSet

LEMMA WeightsListed ==
  ASSUME NEW T, NEW d
  PROVE  \A s \in Seq(T) :
           ToSet(WeightsTo(s, d)) = {e.weight : e \in {x \in ToSet(s) : x.destination = d}}
<1> DEFINE W == {x.weight : x \in T}
           Listed(s) == {e.weight : e \in {x \in ToSet(s) : x.destination = d}}
           D == {s \in Seq(T) : ToSet(WeightsTo(s, d)) = Listed(s)}
<1>1. <<>> \in D
  <2>1. <<>> \in Seq(T) /\ Listed(<<>>) = {}
    BY ToSetEmpty
  <2> QED
    BY <2>1, WeightsEmpty, ToSetEmpty
<1>2. ASSUME NEW q \in Seq(T), NEW e \in T, q \in D PROVE Append(q, e) \in D
  <2>1. ToSet(Append(q, e)) = ToSet(q) \cup {e} /\ Append(q, e) \in Seq(T)
    BY ToSetAppend
  <2>2. WeightsTo(q, d) \in Seq(W) /\ e.weight \in W
    BY WeightsType
  <2>3. ToSet(Append(WeightsTo(q, d), e.weight)) = ToSet(WeightsTo(q, d)) \cup {e.weight}
    <3> HIDE DEF W
    <3> QED
      BY <2>2, ToSetAppend
  <2>4. Listed(Append(q, e)) = IF e.destination = d THEN Listed(q) \cup {e.weight} ELSE Listed(q)
    BY <2>1
  <2>5. WeightsTo(Append(q, e), d) =
          IF e.destination = d THEN Append(WeightsTo(q, d), e.weight) ELSE WeightsTo(q, d)
    BY WeightsAppend
  <2>6. ToSet(WeightsTo(q, d)) = Listed(q)
    BY <1>2
  <2> HIDE DEF Listed, W
  <2>7. ToSet(WeightsTo(Append(q, e), d)) = Listed(Append(q, e))
    BY <2>3, <2>4, <2>5, <2>6
  <2> QED
    BY <2>1, <2>7
<1> HIDE DEF D
<1>3. Seq(T) \subseteq D
  BY <1>1, <1>2, AllSequences
<1> QED
  BY <1>3 DEF D

LEMMA SymmetricMirrored ==
  ASSUME NEW g, Symmetric(g), IsFiniteSet(VertexSet(g))
  PROVE  Mirrored(g)
<1>1. getVertices(g) \in Nat /\ Slots(g) \subseteq Int
  BY FS_CardinalityType DEF getVertices, Slots
<1>2. \A v \in Int : getAdjacentEdges(g, v) \in Seq(EdgesFrom(v))
  BY DEF Symmetric, ListsTyped, ListsOf
<1>3. ASSUME NEW e \in EntriesOf(g, Slots(g)), e.destination \in Slots(g)
      PROVE  Edge(e.destination, e.source, e.weight) \in EntriesOf(g, Slots(g))
  <2>1. PICK u \in Slots(g) : e \in ToSet(getAdjacentEdges(g, u))
    BY DEF EntriesOf
  <2> DEFINE q == getAdjacentEdges(g, u)
             d == e.destination
             r == getAdjacentEdges(g, d)
  <2>2. u \in Int /\ d \in Int /\ q \in Seq(EdgesFrom(u)) /\ r \in Seq(EdgesFrom(d))
    BY <1>1, <1>2, <1>3
  <2>3. e.source = u
    <3> HIDE DEF q
    <3>1. \E i \in 1..Len(q) : q[i] = e
      BY <2>1, <2>2 DEF ToSet, q
    <3>2. e \in EdgesFrom(u)
      BY <2>2, <3>1
    <3> QED
      BY <3>2 DEF EdgesFrom
  <2>4. WeightsTo(q, d) = WeightsTo(r, u)
    BY <2>2 DEF Symmetric, SameWeights, WeightsBetween
  <2>5. e.weight \in ToSet(WeightsTo(q, d))
    <3>1. ToSet(WeightsTo(q, d)) = {x.weight : x \in {y \in ToSet(q) : y.destination = d}}
      <4> HIDE DEF q, d
      <4> QED
        BY <2>2, WeightsListed
    <3> QED
      BY <2>1, <3>1
  <2>6. PICK f \in ToSet(r) : f.destination = u /\ f.weight = e.weight
    <3>1. ToSet(WeightsTo(r, u)) = {x.weight : x \in {y \in ToSet(r) : y.destination = u}}
      <4> HIDE DEF r
      <4> QED
        BY <2>2, WeightsListed
    <3> HIDE DEF r, q, d
    <3> QED
      BY <2>4, <2>5, <3>1
  <2>7. f = Edge(d, u, e.weight)
    <3> HIDE DEF r, d
    <3>1. \E i \in 1..Len(r) : r[i] = f
      BY <2>2 DEF ToSet
    <3>2. f \in EdgesFrom(d)
      BY <2>2, <3>1
    <3> QED
      BY <2>6, <3>2 DEF EdgesFrom, Edge
  <2> QED
    BY <1>3, <2>3, <2>7 DEF EntriesOf
<1> QED
  BY <1>1, <1>2, <1>3 DEF Mirrored, EdgesFrom
-----------------------------------------------------------------------------
(***************************************************************************)
(* Whatever the commands name, loops and vertices that do not exist        *)
(* included, every list holds edges of its vertex with integers in them.   *)
(***************************************************************************)
LEMMA AddVertexTyped ==
  ASSUME NEW g, ListsTyped(g), g.nextVertexId \in Int
  PROVE  ListsTyped(addVertex(g))
<1> DEFINE h == addVertex(g)
<1>1. VertexSet(h) = VertexSet(g) \cup {g.nextVertexId}
      /\ \A v : getAdjacentEdges(h, v) = IF v = g.nextVertexId THEN <<>> ELSE getAdjacentEdges(g, v)
  BY DEF addVertex, VertexSet, getAdjacentEdges
<1> HIDE DEF h
<1>2. \A v : <<>> \in ListsOf(v)
  BY EmptySeq DEF ListsOf
<1> QED
  BY <1>1, <1>2 DEF ListsTyped, h

LEMMA AddEdgeTyped ==
  ASSUME NEW g, Shaped(g), ListsTyped(g), NEW s \in Int, NEW d \in Int, NEW w \in Int
  PROVE  ListsTyped(addEdge(g, s, d, w))
<1> DEFINE Pushed(v) == (IF v = s THEN <<Edge(s, d, w)>> ELSE <<>>)
                           \o (IF v = d THEN <<Edge(d, s, w)>> ELSE <<>>)
           New(v) == getAdjacentEdges(g, v) \o Pushed(v)
           f == [v \in VertexSet(g) \cup {s, d} |-> New(v)]
           h == [g EXCEPT !.adjacencyList = f]
<1>1. addEdge(g, s, d, w) = h
  BY Zenon DEF addEdge
<1>2. /\ DOMAIN f = VertexSet(g) \cup {s, d}
      /\ \A v \in VertexSet(g) \cup {s, d} : f[v] = New(v)
  <2> HIDE DEF New
  <2> QED
    OBVIOUS
<1>3. \A v \in Int : New(v) \in ListsOf(v)
  <2> TAKE v \in Int
  <2> DEFINE T == EdgesFrom(v)
             p == IF v = s THEN <<Edge(s, d, w)>> ELSE <<>>
             q == IF v = d THEN <<Edge(d, s, w)>> ELSE <<>>
  <2>1. p \in Seq(T) /\ q \in Seq(T)
    <3>1. (v = s => Edge(s, d, w) \in T) /\ (v = d => Edge(d, s, w) \in T)
      BY DEF Edge, EdgesFrom
    <3> HIDE DEF T
    <3>2. \A e \in T : <<e>> \in Seq(T)
      OBVIOUS
    <3>3. <<>> \in Seq(T)
      OBVIOUS
    <3> QED
      BY <3>1, <3>2, <3>3
  <2>2. getAdjacentEdges(g, v) \in Seq(T)
    BY DEF ListsTyped, ListsOf
  <2>3. New(v) = getAdjacentEdges(g, v) \o (p \o q)
    OBVIOUS
  <2> HIDE DEF T, p, q
  <2>4. p \o q \in Seq(T)
    BY <2>1, ConcatProperties
  <2> HIDE DEF New
  <2>5. New(v) \in Seq(T)
    BY <2>2, <2>3, <2>4, ConcatProperties
  <2> QED
    BY <2>5 DEF ListsOf, T
<1> HIDE DEF f, New
<1>4. VertexSet(h) = DOMAIN f /\ \A v : getAdjacentEdges(h, v) = IF v \in DOMAIN f THEN f[v] ELSE <<>>
  BY StoredLists DEF Shaped, VertexSet
<1>5. \A v : <<>> \in ListsOf(v)
  BY EmptySeq DEF ListsOf
<1> HIDE DEF h
<1> QED
  BY <1>1, <1>2, <1>3, <1>4, <1>5 DEF ListsTyped

LEMMA RelistTyped ==
  ASSUME NEW g, Shaped(g), ListsTyped(g), NEW u \in VertexSet(g), NEW x \in ListsOf(u)
  PROVE  /\ Shaped(Relist(g, u, x)) /\ ListsTyped(Relist(g, u, x))
         /\ VertexSet(Relist(g, u, x)) = VertexSet(g)
<1>1. Relisted(Relist(g, u, x), g, u, x)
  BY StoredList DEF Relist
<1> QED
  BY <1>1 DEF Relisted, ListsTyped

LEMMA SubscriptedTyped ==
  ASSUME NEW g, Shaped(g), ListsTyped(g), NEW vs \in SUBSET Int
  PROVE  LET h == Subscripted(g, vs)
         IN  /\ Shaped(h) /\ ListsTyped(h) /\ vs \subseteq VertexSet(h)
             /\ \A v \in VertexSet(h) : h.adjacencyList[v] \in ListsOf(v)
<1> DEFINE h == Subscripted(g, vs)
<1>1. /\ Shaped(h) /\ VertexSet(h) = VertexSet(g) \cup vs
      /\ \A v : getAdjacentEdges(h, v) = getAdjacentEdges(g, v)
  BY SubscriptedVertices, SubscriptedLists
<1> HIDE DEF h
<1>2. VertexSet(h) \subseteq Int /\ ListsTyped(h)
  BY <1>1 DEF ListsTyped
<1>3. \A v \in VertexSet(h) : h.adjacencyList[v] \in ListsOf(v)
  BY <1>2, ListOf DEF ListsTyped
<1> QED
  BY <1>1, <1>2, <1>3 DEF h

LEMMA WithoutTyped ==
  ASSUME NEW v, NEW q \in ListsOf(v), NEW d
  PROVE  WithoutEdgesTo(q, d) \in ListsOf(v)
<1> DEFINE T == EdgesFrom(v)
           U == {e \in T : e.destination # d}
<1>1. WithoutEdgesTo(q, d) \in Seq(U)
  BY WithoutType DEF ListsOf
<1>2. U \subseteq T
  OBVIOUS
<1> HIDE DEF U
<1> QED
  BY <1>1, <1>2, SeqMonotonic DEF ListsOf

LEMMA LoopRemovalTyped ==
  ASSUME NEW v, NEW q \in ListsOf(v)
  PROVE  AfterLoopRemoval(q, v) \in ListsOf(v)
<1> DEFINE kept == WithoutEdgesTo(q, v)
           rest == SubSeq(q, Len(kept) + 1, Len(q))
<1>1. kept \in ListsOf(v) /\ Len(kept) \in Nat /\ Len(q) \in Nat
  BY WithoutTyped DEF ListsOf
<1>2. rest \in ListsOf(v)
  <2> HIDE DEF kept
  <2> DEFINE T == EdgesFrom(v)
  <2>1. q \in Seq(T)
    BY DEF ListsOf
  <2> HIDE DEF T
  <2>2. SubSeq(q, Len(kept) + 1, Len(q)) \in Seq(T)
    BY <1>1, <2>1
  <2> QED
    BY <2>2 DEF ListsOf, T
<1> HIDE DEF rest, kept
<1>3. kept \o WithoutEdgesTo(rest, v) \in ListsOf(v)
  BY <1>1, <1>2, WithoutTyped, ConcatProperties DEF ListsOf
<1> QED
  BY <1>3 DEF AfterLoopRemoval, kept, rest

LEMMA RemoveEdgeTyped ==
  ASSUME NEW g, Shaped(g), ListsTyped(g), NEW s \in Int, NEW d \in Int
  PROVE  ListsTyped(removeEdge(g, s, d))
<1> DEFINE h == Subscripted(g, {s, d})
           x == WithoutEdgesTo(h.adjacencyList[s], d)
           y == WithoutEdgesTo(h.adjacencyList[d], s)
           z == AfterLoopRemoval(h.adjacencyList[s], s)
<1>1. removeEdge(g, s, d) =
        IF s = d THEN [h EXCEPT !.adjacencyList[s] = AfterLoopRemoval(@, s)]
        ELSE [h EXCEPT !.adjacencyList[s] = WithoutEdgesTo(@, d),
                       !.adjacencyList[d] = WithoutEdgesTo(@, s)]
  BY DEF removeEdge
<1>2. /\ Shaped(h) /\ ListsTyped(h) /\ s \in VertexSet(h) /\ d \in VertexSet(h)
      /\ h.adjacencyList[s] \in ListsOf(s) /\ h.adjacencyList[d] \in ListsOf(d)
  BY SubscriptedTyped
<1> HIDE DEF h
<1>3. x \in ListsOf(s) /\ y \in ListsOf(d) /\ z \in ListsOf(s)
  BY <1>2, WithoutTyped, LoopRemovalTyped
<1>4. removeEdge(g, s, d) = IF s = d THEN Relist(h, s, z) ELSE Relist(Relist(h, s, x), d, y)
  <2>1. \A a, b : [h EXCEPT !.adjacencyList[s] = a, !.adjacencyList[d] = b] = Relist(Relist(h, s, a), d, b)
    BY <1>2 DEF Shaped, Relist
  <2>2. [h EXCEPT !.adjacencyList[s] = AfterLoopRemoval(@, s)] = Relist(h, s, z)
    BY DEF Relist
  <2>3. s # d => [h EXCEPT !.adjacencyList[s] = WithoutEdgesTo(@, d),
                           !.adjacencyList[d] = WithoutEdgesTo(@, s)]
                   = [h EXCEPT !.adjacencyList[s] = x, !.adjacencyList[d] = y]
    BY <1>2 DEF Shaped
  <2> QED
    BY <1>1, <2>1, <2>2, <2>3
<1> HIDE DEF x, y, z
<1>5. ListsTyped(Relist(h, s, z))
  BY <1>2, <1>3, RelistTyped
<1>6. ListsTyped(Relist(Relist(h, s, x), d, y))
  <2> DEFINE a == Relist(h, s, x)
  <2>1. Shaped(a) /\ ListsTyped(a) /\ d \in VertexSet(a)
    BY <1>2, <1>3, RelistTyped
  <2> HIDE DEF a
  <2>2. ListsTyped(Relist(a, d, y))
    BY <1>3, <2>1, RelistTyped
  <2> QED
    BY <2>2 DEF a
<1> QED
  BY <1>4, <1>5, <1>6

\* One weight of a list is stored.
LEMMA WeighedTyped ==
  ASSUME NEW g, Shaped(g), ListsTyped(g), NEW u \in VertexSet(g),
         NEW w \in Int, NEW i \in 1..Len(g.adjacencyList[u])
  PROVE  LET h == Relist(g, u, ElementWeighed(g.adjacencyList[u], i, w))
         IN  /\ Shaped(h) /\ ListsTyped(h) /\ VertexSet(h) = VertexSet(g)
             /\ \A v \in VertexSet(g) : Len(h.adjacencyList[v]) = Len(g.adjacencyList[v])
<1> DEFINE q == g.adjacencyList[u]
           T == EdgesFrom(u)
           x == ElementWeighed(q, i, w)
<1>1. q \in Seq(T)
  BY ListOf DEF ListsTyped, ListsOf
<1>2. q[i] \in T
  <2> HIDE DEF T
  <2> QED
    BY <1>1, ElementOfSeq
<1>3. [q[i] EXCEPT !.weight = w] \in T
  BY <1>2 DEF EdgesFrom
<1>4. x = [q EXCEPT ![i] = [q[i] EXCEPT !.weight = w]]
  BY DEF ElementWeighed
<1> HIDE DEF q, T, x
<1>5. x \in Seq(T) /\ Len(x) = Len(q)
  BY <1>1, <1>3, <1>4, ExceptSeq DEF q
<1>6. x \in ListsOf(u)
  BY <1>5 DEF ListsOf, T
<1>7. /\ Shaped(Relist(g, u, x)) /\ ListsTyped(Relist(g, u, x))
      /\ VertexSet(Relist(g, u, x)) = VertexSet(g)
  BY <1>6, RelistTyped
<1>8. \A v \in VertexSet(g) : Relist(g, u, x).adjacencyList[v] = IF v = u THEN x ELSE g.adjacencyList[v]
  BY DEF Relist, Shaped, VertexSet
<1> QED
  BY <1>5, <1>7, <1>8 DEF q, x

LEMMA ChangeWeightTyped ==
  ASSUME NEW g, Shaped(g), ListsTyped(g), NEW s \in Int, NEW d \in Int, NEW w \in Int
  PROVE  ListsTyped(changeWeight(g, s, d, w))
<1> DEFINE h == Subscripted(g, {s, d})
           i == FirstEdgeTo(h.adjacencyList[s], d)
           j == FirstEdgeTo(h.adjacencyList[d], s)
           a == Relist(h, s, ElementWeighed(h.adjacencyList[s], i, w))
           b == Relist(a, d, ElementWeighed(a.adjacencyList[d], j, w))
<1>1. changeWeight(g, s, d, w) = IF HasEdge(h, s, d) THEN BothWeighed(h, s, i, d, j, w) ELSE h
  BY DEF changeWeight, BothWeighed
<1>2. /\ Shaped(h) /\ ListsTyped(h) /\ s \in VertexSet(h) /\ d \in VertexSet(h)
      /\ h.adjacencyList[s] \in ListsOf(s) /\ h.adjacencyList[d] \in ListsOf(d)
  BY SubscriptedTyped
<1> HIDE DEF h
<1>3. CASE ~HasEdge(h, s, d)
  BY <1>1, <1>2, <1>3
<1>4. CASE HasEdge(h, s, d)
  <2>1. i # 0 /\ j # 0
    BY <1>2, <1>4 DEF HasEdge, getAdjacentEdges
  <2>2. i \in 1..Len(h.adjacencyList[s]) /\ j \in 1..Len(h.adjacencyList[d])
    BY <1>2, <2>1, FirstPosition
  <2> HIDE DEF i, j
  <2>3. BothWeighed(h, s, i, d, j, w) = b
    BY <1>2 DEF BothWeighed, Relist, ElementWeighed, Shaped
  <2>4. /\ Shaped(a) /\ ListsTyped(a) /\ VertexSet(a) = VertexSet(h)
        /\ \A v \in VertexSet(h) : Len(a.adjacencyList[v]) = Len(h.adjacencyList[v])
    BY <1>2, <2>2, WeighedTyped
  <2> HIDE DEF a
  <2>5. ListsTyped(b)
    BY <1>2, <2>2, <2>4, WeighedTyped
  <2> QED
    BY <1>1, <1>4, <2>3, <2>5
<1> QED
  BY <1>3, <1>4

LEMMA RemoveVertexTyped ==
  ASSUME NEW g, Shaped(g), ListsTyped(g), NEW v \in Int
  PROVE  ListsTyped(removeVertex(g, v))
<1>1. CASE v \notin VertexSet(g)
  BY <1>1 DEF removeVertex
<1>2. CASE v \in VertexSet(g)
  <2> DEFINE h == removeVertex(g, v)
             left(u) == WithoutEdgesTo(getAdjacentEdges(g, u), v)
  <2>1. /\ VertexSet(h) \subseteq Int
        /\ \A n \in Int : getAdjacentEdges(h, n) = CopiedList(left(OldNumber(n, v)), n, v)
    BY <1>2, RemoveVertexLists
  <2>2. ASSUME NEW u \in Int PROVE left(u) \in Seq(EdgesAvoiding(u, v))
    <3> DEFINE T == EdgesFrom(u)
    <3>1. getAdjacentEdges(g, u) \in Seq(T)
      BY DEF ListsTyped, ListsOf
    <3>2. left(u) \in Seq({e \in T : e.destination # v})
      BY <3>1, WithoutType
    <3>3. {e \in T : e.destination # v} = EdgesAvoiding(u, v)
      BY DEF EdgesFrom, EdgesAvoiding
    <3> QED
      BY <3>2, <3>3
  <2> HIDE DEF h, left
  <2>3. ASSUME NEW n \in Int PROVE getAdjacentEdges(h, n) \in ListsOf(n)
    <3>1. OldNumber(n, v) \in Int
      BY DEF OldNumber
    <3>2. CopiedList(left(OldNumber(n, v)), n, v) \in ListsOf(n)
      BY <2>2, <3>1, CopiedWeights
    <3> QED
      BY <2>1, <3>2
  <2> QED
    BY <2>1, <2>3 DEF ListsTyped, h
<1> QED
  BY <1>1, <1>2

LEMMA ImageFinite ==
  ASSUME NEW S, IsFiniteSet(S), NEW f
  PROVE  IsFiniteSet({f[x] : x \in S})
<1> DEFINE T == {f[x] : x \in S}
           g == [x \in S |-> f[x]]
<1>1. g \in Surjection(S, T)
  BY DEF Surjection
<1> HIDE DEF T, g
<1> QED
  BY <1>1, FS_Surjection DEF T

-----------------------------------------------------------------------------
(***************************************************************************)
(* Trees.  Tree(links, v) is the least set with v that links do not leave; *)
(* over the links of a set of edges, the connected component of v.         *)
(***************************************************************************)
LEMMA TreeHolds ==
  ASSUME NEW links, NEW v
  PROVE  /\ v \in Tree(links, v) /\ Tree(links, v) \subseteq {v} \cup {l[2] : l \in links}
         /\ \A l \in links : l[1] \in Tree(links, v) => l[2] \in Tree(links, v)
         /\ \A U : v \in U /\ (\A l \in links : l[1] \in U => l[2] \in U) => Tree(links, v) \subseteq U
<1> DEFINE A == {v} \cup {l[2] : l \in links}
           Closed(T) == v \in T /\ \A l \in links : l[1] \in T => l[2] \in T
           P(T) == Closed(T) /\ \A U \in SUBSET T : Closed(U) => U = T
           M == {x \in A : \A T \in SUBSET A : Closed(T) => x \in T}
<1>1. Tree(links, v) = CHOOSE T \in SUBSET A : P(T)
  BY DEF Tree
<1>2. v \in A /\ \A l \in links : l[2] \in A
  OBVIOUS
<1> HIDE DEF A
<1>3. M \in SUBSET A /\ Closed(M)
  BY <1>2
<1>4. \A U \in SUBSET M : Closed(U) => U = M
  OBVIOUS
<1>5. \E T \in SUBSET A : P(T)
  <2> HIDE DEF M, Closed
  <2> QED
    BY <1>3, <1>4
<1>6. Tree(links, v) \in SUBSET A /\ P(Tree(links, v))
  <2> HIDE DEF P
  <2> QED
    BY <1>1, <1>5
<1> DEFINE X == Tree(links, v)
<1>7. ASSUME NEW U, Closed(U) PROVE X \subseteq U
  <2>1. Closed(X \cap U) /\ X \cap U \in SUBSET X
    BY <1>6, <1>7
  <2> DEFINE I == X \cap U
  <2>2. \A V \in SUBSET X : Closed(V) => V = X
    BY <1>6
  <2>3. I = X
    <3> HIDE DEF X, Closed, I
    <3> QED
      BY <2>1, <2>2 DEF I
  <2> QED
    BY <2>3
<1> QED
  BY <1>6, <1>7 DEF A

Component(es, v) == Tree(BothWays(es), v)

LEMMA ComponentHolds ==
  ASSUME NEW es, NEW v
  PROVE  /\ v \in Component(es, v)
         /\ \A e \in es : e.source \in Component(es, v) <=> e.destination \in Component(es, v)
<1>1. \A e \in es : <<e.source, e.destination>> \in BothWays(es)
                    /\ <<e.destination, e.source>> \in BothWays(es)
  BY DEF BothWays, OneWay
<1> DEFINE C == Component(es, v)
<1>2. v \in C /\ \A l \in BothWays(es) : l[1] \in C => l[2] \in C
  BY TreeHolds DEF Component
<1> HIDE DEF C
<1>3. ASSUME NEW e \in es PROVE e.source \in C <=> e.destination \in C
  <2> DEFINE there == <<e.source, e.destination>>
             back == <<e.destination, e.source>>
  <2>1. (there[1] \in C => there[2] \in C) /\ (back[1] \in C => back[2] \in C)
    BY <1>1, <1>2
  <2> QED
    BY <2>1
<1> QED
  BY <1>2, <1>3 DEF C

LEMMA ComponentWithin ==
  ASSUME NEW es, NEW U, NEW v \in U, \A e \in es : e.source \in U <=> e.destination \in U
  PROVE  Component(es, v) \subseteq U
<1>1. \A l \in BothWays(es) :
        \E e \in es : l = <<e.source, e.destination>> \/ l = <<e.destination, e.source>>
  BY DEF BothWays, OneWay
<1>2. \A l \in BothWays(es) : l[1] \in U => l[2] \in U
  BY <1>1
<1> QED
  BY <1>2, TreeHolds DEF Component

LEMMA ComponentMore ==
  ASSUME NEW fs, NEW es \in SUBSET fs, NEW v
  PROVE  Component(es, v) \subseteq Component(fs, v)
  BY ComponentHolds, ComponentWithin

LEMMA ComponentSame ==
  ASSUME NEW es, NEW v, NEW u \in Component(es, v)
  PROVE  Component(es, u) = Component(es, v)
<1>1. \A x, y : x \in Component(es, y) => Component(es, x) \subseteq Component(es, y)
  BY ComponentHolds, ComponentWithin
<1> DEFINE U == {x \in Component(es, v) : v \in Component(es, x)}
<1>2. ASSUME NEW e \in es PROVE e.source \in U <=> e.destination \in U
  <2>1. /\ e.source \in Component(es, e.destination)
        /\ e.destination \in Component(es, e.source)
    BY ComponentHolds
  <2>2. Component(es, e.source) = Component(es, e.destination)
    BY <1>1, <2>1
  <2> QED
    BY <2>2, ComponentHolds
<1>3. v \in U
  BY ComponentHolds
<1> HIDE DEF U
<1>4. Component(es, v) \subseteq U
  BY <1>2, <1>3, ComponentWithin
<1>5. v \in Component(es, u)
  BY <1>4 DEF U
<1> QED
  BY <1>1, <1>5

\* In the set without f, its ends lie in the components of the two ends.
LEMMA LinkJoins ==
  ASSUME NEW P, NEW f \in P, NEW u, NEW w,
         w \in Component(P, u), w \notin Component(P \ {f}, u)
  PROVE  \/ f.source \in Component(P \ {f}, u) /\ f.destination \in Component(P \ {f}, w)
         \/ f.destination \in Component(P \ {f}, u) /\ f.source \in Component(P \ {f}, w)
<1> DEFINE R == P \ {f}
           A == Component(R, u)
           B == Component(R, w)
<1>1. /\ u \in A /\ \A e \in R : e.source \in A <=> e.destination \in A
      /\ w \in B /\ \A e \in R : e.source \in B <=> e.destination \in B
  BY ComponentHolds
<1>2. \A x : ~(x \in A /\ x \in B)
  <2> SUFFICES ASSUME NEW x, x \in A, x \in B PROVE FALSE
    OBVIOUS
  <2>1. Component(R, x) = A /\ Component(R, x) = B
    BY ComponentSame
  <2> QED
    BY <1>1, <2>1
<1>3. ~(f.source \in A <=> f.destination \in A)
  <2> SUFFICES ASSUME f.source \in A <=> f.destination \in A PROVE FALSE
    OBVIOUS
  <2> HIDE DEF A
  <2>1. \A e \in P : e.source \in A <=> e.destination \in A
    BY <1>1
  <2>2. Component(P, u) \subseteq A
    BY <1>1, <2>1, ComponentWithin
  <2> QED
    BY <2>2 DEF A
<1>4. ~(f.source \in B <=> f.destination \in B)
  <2> SUFFICES ASSUME f.source \in B <=> f.destination \in B PROVE FALSE
    OBVIOUS
  <2> HIDE DEF B
  <2>1. \A e \in P : e.source \in B <=> e.destination \in B
    BY <1>1
  <2>2. Component(P, w) \subseteq B
    BY <1>1, <2>1, ComponentWithin
  <2>3. Component(P, w) = Component(P, u) /\ u \in Component(P, u)
    BY ComponentSame, ComponentHolds
  <2> QED
    BY <1>1, <1>2, <2>2, <2>3 DEF A
<1> HIDE DEF A, B
<1>5. \/ f.source \in A /\ f.destination \in B
      \/ f.destination \in A /\ f.source \in B
  BY <1>2, <1>3, <1>4
<1> QED
  BY <1>5 DEF A, B

-----------------------------------------------------------------------------
(***************************************************************************)
(* Paths in trees.  The path between two vertices consists of the edges    *)
(* whose removal disconnects them.  Every edge has two sides, on one of    *)
(* which a vertex is, and it is on a path if its ends are on different     *)
(* ones.                                                                   *)
(***************************************************************************)
Acyclic(es) == \A e \in es : e.destination \notin Component(es \ {e}, e.source)

IsTree(es, V) ==
  /\ IsFiniteSet(es) /\ Acyclic(es)
  /\ \A e \in es : e.source \in V /\ e.destination \in V /\ e.weight \in Nat
  /\ \A u, v \in V : v \in Component(es, u)

Path(es, i, j) == {e \in es : j \notin Component(es \ {e}, i)}

Side(es, e, x) == x \in Component(es \ {e}, e.source)

LEMMA AcyclicAdd ==
  ASSUME NEW es, Acyclic(es), NEW e, e.destination \notin Component(es, e.source)
  PROVE  Acyclic(es \cup {e})
<1> SUFFICES ASSUME NEW f \in es \cup {e},
                    f.destination \in Component((es \cup {e}) \ {f}, f.source)
             PROVE  FALSE
  BY DEF Acyclic
<1>1. e \notin es
  BY ComponentHolds
<1>2. f # e
  <2>1. (es \cup {e}) \ {e} \in SUBSET es
    OBVIOUS
  <2> QED
    BY <2>1, ComponentMore
<1> DEFINE P == (es \cup {e}) \ {f}
           R == es \ {f}
           u == f.source
           w == f.destination
<1>3. f \in es /\ e \in P /\ P \ {e} = R /\ R \in SUBSET es
  BY <1>1, <1>2
<1>4. w \notin Component(R, u)
  BY <1>3 DEF Acyclic
<1>5. w \in Component(P, u)
  OBVIOUS
<1>6. w \in Component(es, u)
  BY <1>3, ComponentHolds
<1> HIDE DEF P, R, u, w
<1>7. \/ e.source \in Component(R, u) /\ e.destination \in Component(R, w)
      \/ e.destination \in Component(R, u) /\ e.source \in Component(R, w)
  BY <1>3, <1>4, <1>5, LinkJoins
<1>8. \A x : Component(R, x) \subseteq Component(es, x)
  BY <1>3, ComponentMore
<1>9. Component(es, w) = Component(es, u)
  BY <1>6, ComponentSame
<1>10. e.source \in Component(es, u) /\ e.destination \in Component(es, u)
  BY <1>7, <1>8, <1>9
<1>11. Component(es, e.source) = Component(es, u)
  BY <1>10, ComponentSame
<1> QED
  BY <1>10, <1>11

LEMMA SidesOf ==
  ASSUME NEW es, NEW V, IsTree(es, V), NEW e \in es
  PROVE  \A i, j \in V : e \in Path(es, i, j) <=> ~(Side(es, e, i) <=> Side(es, e, j))
<1> DEFINE R == es \ {e}
           A == Component(R, e.source)
           B == Component(R, e.destination)
<1>1. V \subseteq A \cup B
  <2>1. /\ e.source \in A /\ \A f \in R : f.source \in A <=> f.destination \in A
        /\ e.destination \in B /\ \A f \in R : f.source \in B <=> f.destination \in B
    BY ComponentHolds
  <2> DEFINE U == A \cup B
  <2>2. e.source \in U /\ \A f \in es : f.source \in U <=> f.destination \in U
    BY <2>1
  <2> HIDE DEF U
  <2>3. Component(es, e.source) \subseteq U
    BY <2>2, ComponentWithin
  <2>4. V \subseteq Component(es, e.source)
    BY DEF IsTree
  <2> QED
    BY <2>3, <2>4 DEF U
<1>2. \A x, y : y \in Component(R, x) => Component(R, y) = Component(R, x)
  BY ComponentSame
<1>3. \A x : x \in Component(R, x)
  BY ComponentHolds
<1> TAKE i, j \in V
<1>4. Side(es, e, i) <=> i \in A
  BY DEF Side
<1>5. Side(es, e, j) <=> j \in A
  BY DEF Side
<1>6. e \in Path(es, i, j) <=> j \notin Component(R, i)
  BY DEF Path
<1> HIDE DEF R
<1> QED
  BY <1>1, <1>2, <1>3, <1>4, <1>5, <1>6

\* The ends of an edge are on one side of every other edge, and on different
\* sides of itself.
LEMMA EndsSides ==
  ASSUME NEW es, NEW V, IsTree(es, V), NEW e \in es
  PROVE  /\ Side(es, e, e.source) /\ ~Side(es, e, e.destination)
         /\ \A f \in es : f # e => (Side(es, f, e.source) <=> Side(es, f, e.destination))
<1>1. Side(es, e, e.source)
  BY ComponentHolds DEF Side
<1>2. ~Side(es, e, e.destination)
  BY DEF Side, IsTree, Acyclic
<1>3. ASSUME NEW f \in es, f # e PROVE Side(es, f, e.source) <=> Side(es, f, e.destination)
  <2>1. e \in es \ {f}
    BY <1>3
  <2> QED
    BY <2>1, ComponentHolds DEF Side
<1> QED
  BY <1>1, <1>2, <1>3

LEMMA PathOfEdge ==
  ASSUME NEW es, NEW V, IsTree(es, V), NEW e \in es
  PROVE  /\ Path(es, e.source, e.destination) = {e} /\ Path(es, e.destination, e.source) = {e}
         /\ e.source # e.destination
<1>1. e.source \in V /\ e.destination \in V
  BY DEF IsTree
<1>2. \A f \in es : f \in Path(es, e.source, e.destination) <=> f = e
  BY <1>1, SidesOf, EndsSides
<1>3. \A f \in es : f \in Path(es, e.destination, e.source) <=> f = e
  BY <1>1, SidesOf, EndsSides
<1>4. \A i, j : Path(es, i, j) \subseteq es
  BY DEF Path
<1>5. e.source # e.destination
  BY EndsSides
<1> QED
  BY <1>2, <1>3, <1>4, <1>5

\* The first edge of a path.
LEMMA FirstEdge ==
  ASSUME NEW es, NEW V, IsTree(es, V), NEW i \in V, NEW j \in V, i # j
  PROVE  \E e \in Path(es, i, j) : \E v \in V :
           \/ e.source = i /\ e.destination = v
           \/ e.source = v /\ e.destination = i
<1> DEFINE R == {e \in es : e.source # i /\ e.destination # i}
           C == Component(R, j)
<1>1. j \in C /\ \A e \in R : e.source \in C <=> e.destination \in C
  BY ComponentHolds
<1>2. i \notin C
  <2> DEFINE U == {x \in C : x # i}
  <2>1. j \in U /\ \A e \in R : e.source \in U <=> e.destination \in U
    BY <1>1
  <2> HIDE DEF U
  <2>2. Component(R, j) \subseteq U
    BY <2>1, ComponentWithin
  <2> QED
    BY <2>2 DEF U
<1>3. PICK e \in es : ~(e.source \in C <=> e.destination \in C)
  <2> SUFFICES ASSUME \A e \in es : e.source \in C <=> e.destination \in C PROVE FALSE
    OBVIOUS
  <2> HIDE DEF C
  <2>1. Component(es, j) \subseteq C
    BY <1>1, ComponentWithin
  <2>2. i \in Component(es, j)
    BY DEF IsTree
  <2> QED
    BY <1>2, <2>1, <2>2
<1>4. e \notin R
  BY <1>1, <1>3
<1>5. PICK v \in V : /\ v \in C
                     /\ \/ e.source = i /\ e.destination = v
                        \/ e.source = v /\ e.destination = i
  BY <1>2, <1>3, <1>4 DEF IsTree
<1>6. e \in Path(es, i, j)
  <2> SUFFICES ASSUME j \in Component(es \ {e}, i) PROVE FALSE
    BY DEF Path
  <2>1. R \in SUBSET (es \ {e})
    BY <1>4
  <2>2. v \in Component(es \ {e}, j)
    BY <1>5, <2>1, ComponentMore
  <2>3. Component(es \ {e}, j) = Component(es \ {e}, i)
    BY ComponentSame
  <2>4. v \in Component(es \ {e}, i)
    BY <2>2, <2>3
  <2>5. i \in Component(es \ {e}, v)
    BY <2>4, ComponentSame, ComponentHolds
  <2> QED
    BY <1>5, <2>4, <2>5 DEF IsTree, Acyclic
<1> QED
  BY <1>5, <1>6

\* Of two edges, one side of each lies within a side of the other: no four
\* vertices are on all combinations of their sides.
LEMMA SidesNested ==
  ASSUME NEW es, NEW V, IsTree(es, V), NEW e \in es, NEW f \in es, e # f,
         NEW x \in V, NEW y \in V, Side(es, e, x) <=> Side(es, e, y),
         ~(Side(es, e, x) <=> Side(es, e, f.source))
  PROVE  Side(es, f, x) <=> Side(es, f, y)
<1> DEFINE R == es \ {e}
           C == Component(R, x)
           N == Component(es \ {e, f}, x)
<1>1. y \in C /\ f.source \notin C /\ f.destination \notin C
  <2>1. f.source \in V
    BY DEF IsTree
  <2>2. e \notin Path(es, x, y) /\ e \in Path(es, x, f.source)
    BY <2>1, SidesOf
  <2>3. y \in C /\ f.source \notin C
    BY <2>2 DEF Path
  <2>4. f \in R
    OBVIOUS
  <2> HIDE DEF R
  <2>5. f.source \in C <=> f.destination \in C
    BY <2>4, ComponentHolds
  <2> QED
    BY <2>3, <2>5
<1>2. x \in N /\ \A g \in es \ {e, f} : g.source \in N <=> g.destination \in N
  BY ComponentHolds
<1>3. N \subseteq C
  <2>1. es \ {e, f} \in SUBSET R
    OBVIOUS
  <2> HIDE DEF R
  <2> QED
    BY <2>1, ComponentMore
<1>4. \A g \in R : g.source \in N <=> g.destination \in N
  BY <1>1, <1>2, <1>3
<1>5. C \subseteq N
  <2> HIDE DEF N, R
  <2> QED
    BY <1>2, <1>4, ComponentWithin
<1>6. y \in Component(es \ {f}, x)
  <2>1. es \ {e, f} \in SUBSET (es \ {f})
    OBVIOUS
  <2>2. N \subseteq Component(es \ {f}, x)
    BY <2>1, ComponentMore
  <2> QED
    BY <1>1, <1>5, <2>2
<1>7. f \notin Path(es, x, y)
  BY <1>6 DEF Path
<1> QED
  BY <1>7, SidesOf

-----------------------------------------------------------------------------
(***************************************************************************)
(* Vertices inside a path, and the weight of a path: it is the distance,   *)
(* and the sum of the weights of its parts.                                *)
(***************************************************************************)
Inside(es, V, i, j) == {v \in V \ {i, j} : Path(es, i, v) \cap Path(es, v, j) = {}}

LEMMA PathSides ==
  ASSUME NEW es, NEW V, IsTree(es, V)
  PROVE  \A i, j \in V : \A e : e \in Path(es, i, j) <=> e \in es /\ ~(Side(es, e, i) <=> Side(es, e, j))
<1>1. \A i, j : Path(es, i, j) \subseteq es
  BY DEF Path
<1> QED
  BY <1>1, SidesOf

LEMMA PathReversed ==
  ASSUME NEW es, NEW V, IsTree(es, V)
  PROVE  \A i, j \in V : Path(es, i, j) = Path(es, j, i) /\ Path(es, i, i) = {}
<1> TAKE i, j \in V
<1>1. \A e : e \in Path(es, i, j) <=> e \in Path(es, j, i)
  BY PathSides
<1>2. \A e : e \notin Path(es, i, i)
  BY PathSides
<1> QED
  BY <1>1, <1>2

LEMMA PathNotEmpty ==
  ASSUME NEW es, NEW V, IsTree(es, V), NEW i \in V, NEW j \in V, i # j
  PROVE  Path(es, i, j) # {}
BY FirstEdge

LEMMA InsidePart ==
  ASSUME NEW es, NEW V, IsTree(es, V), NEW i \in V, NEW j \in V, NEW k \in Inside(es, V, i, j)
  PROVE  /\ Inside(es, V, i, k) \subseteq Inside(es, V, i, j)
         /\ Inside(es, V, k, j) \subseteq Inside(es, V, i, j)
<1> DEFINE S(e, x) == Side(es, e, x)
<1>1. \A a, b \in V : \A e \in es : e \in Path(es, a, b) <=> ~(S(e, a) <=> S(e, b))
  BY PathSides
<1>2. \A a, b : Path(es, a, b) \subseteq es
  BY DEF Path
<1> HIDE DEF S
<1>3. k \in V /\ k # i /\ k # j /\ Path(es, i, k) \cap Path(es, k, j) = {}
  BY DEF Inside
<1>4. ASSUME NEW v \in Inside(es, V, i, k) PROVE v \in Inside(es, V, i, j)
  <2>1. v \in V /\ v # i /\ v # k /\ Path(es, i, v) \cap Path(es, v, k) = {}
    BY <1>4 DEF Inside
  <2>2. Path(es, i, v) \cap Path(es, v, j) = {}
    BY <1>1, <1>2, <1>3, <2>1
  <2>3. v # j
    <3>1. Path(es, k, j) # {}
      BY <1>3, PathNotEmpty
    <3> QED
      BY <1>1, <1>2, <1>3, <2>1, <3>1
  <2> QED
    BY <2>1, <2>2, <2>3 DEF Inside
<1>5. ASSUME NEW v \in Inside(es, V, k, j) PROVE v \in Inside(es, V, i, j)
  <2>1. v \in V /\ v # j /\ v # k /\ Path(es, k, v) \cap Path(es, v, j) = {}
    BY <1>5 DEF Inside
  <2>2. Path(es, i, v) \cap Path(es, v, j) = {}
    BY <1>1, <1>2, <1>3, <2>1
  <2>3. v # i
    <3>1. Path(es, i, k) # {}
      BY <1>3, PathNotEmpty
    <3> QED
      BY <1>1, <1>2, <1>3, <2>1, <3>1
  <2> QED
    BY <2>1, <2>2, <2>3 DEF Inside
<1> QED
  BY <1>4, <1>5

\* A detour over k passes everything on the path.
LEMMA InsideDetour ==
  ASSUME NEW es, NEW V, IsTree(es, V), NEW i \in V, NEW j \in V, NEW k \in V
  PROVE  Inside(es, V, i, j) \subseteq Inside(es, V, i, k) \cup Inside(es, V, k, j) \cup {k}
<1> SUFFICES ASSUME NEW v \in Inside(es, V, i, j), v # k,
                    v \notin Inside(es, V, i, k), v \notin Inside(es, V, k, j)
             PROVE  FALSE
  OBVIOUS
<1>1. v \in V /\ v # i /\ v # j /\ Path(es, i, v) \cap Path(es, v, j) = {}
  BY DEF Inside
<1>2. PICK e \in es : e \in Path(es, i, v) /\ e \in Path(es, v, k)
  BY <1>1 DEF Inside, Path
<1>3. PICK f \in es : f \in Path(es, k, v) /\ f \in Path(es, v, j)
  BY <1>1 DEF Inside, Path
<1>4. /\ (Side(es, e, v) <=> Side(es, e, j)) /\ (Side(es, e, i) <=> Side(es, e, k))
      /\ ~(Side(es, e, v) <=> Side(es, e, i))
  BY <1>1, <1>2, PathSides
<1>5. /\ (Side(es, f, v) <=> Side(es, f, i)) /\ (Side(es, f, j) <=> Side(es, f, k))
      /\ ~(Side(es, f, v) <=> Side(es, f, j))
  BY <1>1, <1>3, PathSides
<1>6. e # f
  BY <1>4, <1>5
<1>7. CASE Side(es, e, f.source) <=> Side(es, e, v)
  BY <1>4, <1>5, <1>6, <1>7, SidesNested
<1>8. CASE ~(Side(es, e, f.source) <=> Side(es, e, v))
  BY <1>1, <1>4, <1>5, <1>6, <1>8, SidesNested
<1> QED
  BY <1>7, <1>8

Joined(e, i, j) == (e.source = i /\ e.destination = j) \/ (e.source = j /\ e.destination = i)

\* With nothing inside a path it is an edge.
LEMMA NothingInside ==
  ASSUME NEW es, NEW V, IsTree(es, V), NEW i \in V, NEW j \in V, i # j
  PROVE  Inside(es, V, i, j) = {} <=> \E e \in es : Joined(e, i, j)
<1>1. ASSUME Inside(es, V, i, j) = {} PROVE \E e \in es : Joined(e, i, j)
  <2>1. PICK e \in Path(es, i, j), v \in V : Joined(e, i, v)
    BY FirstEdge DEF Joined
  <2>2. e \in es
    BY DEF Path
  <2>3. Path(es, i, v) = {e} /\ v # i
    BY <2>1, <2>2, PathOfEdge DEF Joined
  <2>4. e \notin Path(es, v, j)
    BY <2>1, <2>2, <2>3, PathSides
  <2>5. v \notin V \ {i, j}
    BY <1>1, <2>3, <2>4 DEF Inside
  <2> QED
    BY <2>1, <2>2, <2>3, <2>5
<1>2. ASSUME NEW e \in es, Joined(e, i, j), NEW v \in Inside(es, V, i, j) PROVE FALSE
  <2>1. Path(es, i, j) = {e}
    BY <1>2, PathOfEdge DEF Joined
  <2>2. v \in V /\ v # i /\ v # j /\ Path(es, i, v) \cap Path(es, v, j) = {}
    BY <1>2 DEF Inside
  <2>3. Path(es, i, v) # {} /\ Path(es, v, j) # {}
    BY <2>2, PathNotEmpty
  <2>4. \A f \in Path(es, i, v) \cup Path(es, v, j) : f \in Path(es, i, j)
    BY <2>2, PathSides
  <2> QED
    BY <2>1, <2>2, <2>3, <2>4
<1> QED
  BY <1>1, <1>2
=============================================================================
