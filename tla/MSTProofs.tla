----------------------------- MODULE MSTProofs ------------------------------
(***************************************************************************)
(* On graphs of any size that list each edge at both its ends, with any    *)
(* weights: both algorithms grow a forest by lightest edges, return edges  *)
(* of the graph that are of the least weight when they are a tree of all   *)
(* vertices, and return what the contract of their sizes says; and the     *)
(* metrics of such a tree are exact when its weights are moderate.         *)
(***************************************************************************)
EXTENDS MSTMetrics, GraphProofs

AllEntries == EntriesOf(graph, Slots(graph))

Uncut(f, S) == f.source \in S <=> f.destination \in S

-----------------------------------------------------------------------------
\* Sequences and sets of edges.
LEMMA ToSetHeadTail ==
  ASSUME NEW T, NEW s \in Seq(T), s # <<>>
  PROVE  /\ Head(s) \in ToSet(s) /\ Tail(s) \in Seq(T)
         /\ ToSet(s) = {Head(s)} \cup ToSet(Tail(s))
<1>1. /\ Len(s) \in Nat \ {0} /\ DOMAIN s = 1..Len(s)
      /\ Tail(s) \in Seq(T) /\ DOMAIN Tail(s) = 1..Len(s) - 1
      /\ Head(s) = s[1]
      /\ \A i \in 1..Len(s) - 1 : Tail(s)[i] = s[i + 1]
  OBVIOUS
<1>2. \A i \in 1..Len(s) : i = 1 \/ (i - 1 \in 1..Len(s) - 1 /\ Tail(s)[i - 1] = s[i])
  BY <1>1
<1>3. \A i \in 1..Len(s) - 1 : i + 1 \in 1..Len(s)
  BY <1>1
<1>4. 1 \in 1..Len(s)
  BY <1>1
<1>5. Head(s) \in ToSet(s)
  BY <1>1, <1>4 DEF ToSet
<1>6. ASSUME NEW x \in ToSet(Tail(s)) PROVE x \in ToSet(s)
  <2>1. PICK i \in 1..Len(s) - 1 : x = Tail(s)[i]
    BY <1>1 DEF ToSet
  <2> QED
    BY <2>1, <1>1, <1>3 DEF ToSet
<1>7. ASSUME NEW x \in ToSet(s), x # Head(s) PROVE x \in ToSet(Tail(s))
  <2>1. PICK i \in 1..Len(s) : x = s[i]
    BY <1>1 DEF ToSet
  <2>2. i - 1 \in 1..Len(s) - 1 /\ Tail(s)[i - 1] = x
    BY <1>1, <1>2, <1>7, <2>1
  <2> QED
    BY <2>2, <1>1 DEF ToSet
<1> QED
  BY <1>1, <1>5, <1>6, <1>7

LEMMA ElementOf ==
  ASSUME NEW T, NEW s \in Seq(T), NEW x \in ToSet(s)
  PROVE  x \in T
<1>1. PICK i \in DOMAIN s : x = s[i]
  BY DEF ToSet
<1>2. i \in 1..Len(s)
  OBVIOUS
<1> QED
  BY <1>1, <1>2

LEMMA SeqOver ==
  ASSUME NEW T, NEW U, NEW s \in Seq(T), \A i \in 1..Len(s) : s[i] \in U
  PROVE  s \in Seq(U)
<1>1. Len(s) \in Nat /\ s = [i \in 1..Len(s) |-> s[i]]
  OBVIOUS
<1>2. s \in [1..Len(s) -> U]
  BY <1>1
<1> QED
  BY <1>1, <1>2

LEMMA EntriesSplit ==
  ASSUME NEW g, NEW vs, NEW v
  PROVE  EntriesOf(g, vs \cup {v}) = EntriesOf(g, vs) \cup ToSet(getAdjacentEdges(g, v))
<1> DEFINE L(u) == ToSet(getAdjacentEdges(g, u))
<1>1. \A us : EntriesOf(g, us) = UNION {L(u) : u \in us}
  BY DEF EntriesOf
<1> HIDE DEF L
<1>2. \A us, e : e \in UNION {L(u) : u \in us} <=> \E u \in us : e \in L(u)
  OBVIOUS
<1>3. \A e : e \in EntriesOf(g, vs \cup {v}) <=> e \in EntriesOf(g, vs) \/ e \in L(v)
  BY <1>1, <1>2
<1> QED
  BY <1>3 DEF L

\* What Mirrored says of one entry.
LEMMA EntryOfMirrored ==
  ASSUME NEW g, Mirrored(g), NEW v \in Slots(g), NEW e \in ToSet(getAdjacentEdges(g, v))
  PROVE  /\ e = Edge(e.source, e.destination, e.weight)
         /\ e.source = v /\ e.destination \in Int /\ e.weight \in Int
         /\ e \in EntriesOf(g, Slots(g))
<1>1. e \in [source : {v}, destination : Int, weight : Int]
  <2>1. getAdjacentEdges(g, v) \in Seq([source : {v}, destination : Int, weight : Int])
    BY DEF Mirrored
  <2> QED
    BY <2>1, ElementOf
<1>2. e \in EntriesOf(g, Slots(g))
  BY DEF EntriesOf
<1> QED
  BY <1>1, <1>2 DEF Edge

(***************************************************************************)
(* An edge across a cut that the forest does not cross, and that no other  *)
(* edge across it undercuts, is one that GrowingForest may add.            *)
(***************************************************************************)
LEMMA LightestAcross ==
  ASSUME NEW E, NEW M, M \subseteq E, NEW e \in E, NEW S,
         ~Uncut(e, S),
         \A f \in M : Uncut(f, S),
         \A f \in E : Uncut(f, S) \/ e.weight <= f.weight
  PROVE  \E u \in Undirected(E) \ Undirected(M) :
           /\ Undirected(M \cup {e}) = Undirected(M) \cup {u}
           /\ \E T \in SUBSET UNION {x.ends : x \in Undirected(E)} :
                /\ Forest!Crosses(u, T)
                /\ \A f \in Undirected(M) : ~Forest!Crosses(f, T)
                /\ \A f \in Undirected(E) : Forest!Crosses(f, T) => u.weight <= f.weight
<1> DEFINE U(f) == [ends |-> {f.source, f.destination}, weight |-> f.weight]
           Touched == UNION {x.ends : x \in Undirected(E)}
           T == S \cap Touched
<1>1. \A F : Undirected(F) = {U(f) : f \in F}
  BY DEF Undirected
<1>2. ASSUME NEW f \in E PROVE Forest!Crosses(U(f), T) <=> ~Uncut(f, S)
  <2>1. U(f) \in Undirected(E) /\ U(f).ends = {f.source, f.destination}
    BY <1>1
  <2>2. {f.source, f.destination} \subseteq Touched
    BY <2>1
  <2> HIDE DEF Touched
  <2>3. f.source \in T <=> f.source \in S
    BY <2>2
  <2>4. f.destination \in T <=> f.destination \in S
    BY <2>2
  <2> HIDE DEF T
  <2> QED
    BY <2>1, <2>3, <2>4 DEF Forest!Crosses, Uncut
<1>3. T \in SUBSET Touched
  OBVIOUS
<1>4. \A f : U(f).weight = f.weight
  OBVIOUS
<1> HIDE DEF U, T
<1>5. U(e) \in Undirected(E) /\ Forest!Crosses(U(e), T)
  BY <1>1, <1>2
<1>6. \A f \in Undirected(M) : ~Forest!Crosses(f, T)
  BY <1>1, <1>2
<1>7. \A f \in Undirected(E) : Forest!Crosses(f, T) => U(e).weight <= f.weight
  BY <1>1, <1>2, <1>4
<1>8. Undirected(M \cup {e}) = Undirected(M) \cup {U(e)}
  BY <1>1
<1>9. U(e) \notin Undirected(M)
  BY <1>5, <1>6
<1> QED
  BY <1>3, <1>5, <1>6, <1>7, <1>8, <1>9

-----------------------------------------------------------------------------
(***************************************************************************)
(* The invariants.  Kruskal: the forest, and every edge already looked at, *)
(* lies within one set of the union-find structure.                        *)
(***************************************************************************)
Together(f) == f.destination \in Slots(graph) /\ parent[f.source] = parent[f.destination]

KruskalInv ==
  phase = "kruskal" =>
    /\ parent \in [Slots(graph) -> Slots(graph)]
    /\ allEdges \subseteq AllEntries
    /\ mst \in Seq(AllEntries)
    /\ \A f \in ToSet(mst) : Together(f)
    /\ \A f \in AllEntries \ allEdges : Together(f)

(***************************************************************************)
(* Prim: a vertex not visited yet that has a parent is in the queue with   *)
(* its key, and the edges seen so far are at least as heavy as the keys of *)
(* the vertices they lead to.                                              *)
(***************************************************************************)
Running == phase \in {"prim", "relax"}

PrimTypes ==
  Running =>
    /\ mst \in Seq(AllEntries)
    /\ visited \subseteq Slots(graph)
    /\ key \in [Slots(graph) -> Int]
    /\ parent \in [Slots(graph) -> Slots(graph) \cup {-1}]
    /\ pq \subseteq Int \X Slots(graph)
    /\ phase = "relax" => neighbors \in Seq(EntriesOf(graph, visited))

FirstVisit ==
  Running =>
    \/ 0 \in visited
    \/ /\ phase = "prim" /\ visited = {} /\ pq = {<<0, 0>>}
       /\ \A v \in Slots(graph) : parent[v] = -1

KeysInv ==
  Running =>
    /\ \A v \in Slots(graph) : v # 0 => key[v] <= MaxInt
    /\ \A v \in Slots(graph) \ visited : parent[v] = -1 => v = 0 \/ key[v] = MaxInt
    /\ \A p \in pq : key[p[2]] <= p[1]

ParentsInv ==
  Running =>
    \A v \in Slots(graph) \ visited :
      parent[v] # -1 =>
        /\ parent[v] \in visited
        /\ Edge(parent[v], v, key[v]) \in AllEntries
        /\ <<key[v], v>> \in pq

TreeInv ==
  Running => \A f \in ToSet(mst) : f.source \in visited /\ f.destination \in visited

Scanned(f) ==
  /\ f.destination \in Slots(graph)
  /\ f.destination \in visited \/ key[f.destination] <= f.weight

ScanInv ==
  Running =>
    \A f \in EntriesOf(graph, visited) :
      Scanned(f) \/ (phase = "relax" /\ f \in ToSet(neighbors))

PrimInv == PrimTypes /\ FirstVisit /\ KeysInv /\ ParentsInv /\ TreeInv /\ ScanInv

Inv ==
  /\ Mirrored(graph)
  /\ phase = "create" => mst = <<>> /\ visited = {}
  /\ KruskalInv
  /\ PrimInv

\* An entry belongs to the vertex in whose list it is.
LEMMA EntryOwner ==
  ASSUME Mirrored(graph), NEW vs \in SUBSET Slots(graph), NEW e \in EntriesOf(graph, vs)
  PROVE  /\ e = Edge(e.source, e.destination, e.weight)
         /\ e.source \in vs /\ e.destination \in Int /\ e.weight \in Int
         /\ e \in AllEntries
         /\ e \in ToSet(getAdjacentEdges(graph, e.source))
<1>1. PICK v \in vs : e \in ToSet(getAdjacentEdges(graph, v))
  BY DEF EntriesOf
<1>2. v \in Slots(graph)
  OBVIOUS
<1> QED
  BY <1>1, <1>2, EntryOfMirrored DEF AllEntries

LEMMA EntryAt ==
  ASSUME Mirrored(graph), NEW e \in AllEntries, NEW vs, e.source \in vs
  PROVE  e \in EntriesOf(graph, vs)
<1>1. e \in ToSet(getAdjacentEdges(graph, e.source))
  BY EntryOwner DEF AllEntries
<1> QED
  BY <1>1 DEF EntriesOf

LEMMA AllEntriesOwner ==
  ASSUME Mirrored(graph), NEW e \in AllEntries
  PROVE  /\ e = Edge(e.source, e.destination, e.weight)
         /\ e.source \in Slots(graph) /\ e.destination \in Int /\ e.weight \in Int
  BY EntryOwner DEF AllEntries

-----------------------------------------------------------------------------
LEMMA InitInv == ASSUME \A g \in Inputs : Mirrored(g) PROVE Init => Inv
  BY DEF Init, Inv, KruskalInv, PrimInv, PrimTypes, FirstVisit, KeysInv, ParentsInv,
         TreeInv, ScanInv, Running

\* The steps that end a run, and those of Kruskal's algorithm.
LEMMA KruskalKeepsInv ==
  ASSUME Inv, Refuse \/ StartKruskal \/ KruskalStep \/ KruskalEnds \/ PrimEnds
  PROVE  Inv'
<1> USE DEF Inv, PrimInv, PrimTypes, FirstVisit, KeysInv, ParentsInv, TreeInv, ScanInv, Running
<1>1. CASE Refuse \/ KruskalEnds \/ PrimEnds
  BY <1>1 DEF Refuse, KruskalEnds, PrimEnds, KruskalInv
<1>2. CASE StartKruskal
  <2>1. /\ phase' = "kruskal" /\ mst' = <<>> /\ graph' = graph
        /\ parent' \in [Slots(graph) -> Slots(graph)]
        /\ allEdges' = AllEntries
    BY <1>2 DEF StartKruskal, AllEntries
  <2>2. <<>> \in Seq(AllEntries) /\ AllEntries' = AllEntries
    BY <2>1 DEF AllEntries
  <2> QED
    BY <2>1, <2>2, ToSetEmpty DEF KruskalInv
<1>3. CASE KruskalStep
  <2>1. PICK e \in allEdges :
          /\ allEdges' = allEdges \ {e}
          /\ \/ /\ e.destination \in Slots(graph)
                /\ (KruskalTakes(e) \/ KruskalSkips(e))
             \/ phase' = "outOfBounds" /\ UNCHANGED <<mst, parent>>
    BY <1>3 DEF KruskalStep
  <2>2. phase = "kruskal" /\ graph' = graph /\ phase' \in {"kruskal", "done", "outOfBounds"}
    BY <1>3 DEF KruskalStep
  <2>3. AllEntries' = AllEntries /\ e \in AllEntries /\ e.source \in Slots(graph)
    BY <2>1, <2>2, AllEntriesOwner DEF AllEntries, KruskalInv
  <2>4. CASE phase' # "kruskal"
    BY <2>2, <2>4 DEF KruskalInv
  <2>5. CASE e.destination \in Slots(graph) /\ KruskalTakes(e)
    <3>1. parent' = [v \in Slots(graph) |->
                       IF parent[v] = parent[e.source] THEN parent[e.destination] ELSE parent[v]]
      BY <2>5 DEF KruskalTakes, unionSets
    <3>2. parent' \in [Slots(graph) -> Slots(graph)]
      BY <3>1, <2>2, <2>5 DEF KruskalInv
    <3>3. ASSUME NEW f \in AllEntries, Together(f) PROVE Together(f)'
      BY <3>1, <3>3, <2>2, AllEntriesOwner DEF Together
    <3>4. Together(e)'
      BY <3>1, <2>2, <2>3, <2>5 DEF Together
    <3>5. ToSet(mst') = ToSet(mst) \cup {e} /\ mst' \in Seq(AllEntries)
      BY <2>2, <2>3, <2>5, ToSetAppend DEF KruskalTakes, KruskalInv
    <3>6. \A f \in ToSet(mst) : f \in AllEntries
      BY <2>2, ElementOf DEF KruskalInv
    <3> QED
      BY <2>1, <2>2, <2>3, <3>2, <3>3, <3>4, <3>5, <3>6 DEF KruskalInv
  <2>6. CASE phase' = "kruskal" /\ e.destination \in Slots(graph) /\ KruskalSkips(e)
    <3>1. UNCHANGED <<mst, parent>> /\ parent[e.source] = parent[e.destination]
      BY <2>6 DEF KruskalSkips
    <3>2. \A f : Together(f)' <=> Together(f)
      BY <3>1, <2>2 DEF Together
    <3>3. Together(e)
      BY <2>6, <3>1 DEF Together
    <3> QED
      BY <2>1, <2>2, <2>3, <3>1, <3>2, <3>3 DEF KruskalInv
  <2> QED
    BY <2>1, <2>4, <2>5, <2>6
<1> QED
  BY <1>1, <1>2, <1>3

\* What PrimStep pops is the least entry; its key is the vertex's if that is
\* in the queue as well.
LEMMA PopIsLeast ==
  ASSUME Inv, phase = "prim", NEW p \in pq, Pop(p)
  PROVE  /\ p[1] \in Int /\ p[2] \in Slots(graph) /\ p = <<p[1], p[2]>>
         /\ \A q \in pq : p[1] <= q[1]
         /\ p[2] \notin visited /\ parent[p[2]] # -1 => p[1] = key[p[2]]
<1> USE DEF Inv, PrimInv, PrimTypes, KeysInv, ParentsInv, Running
<1>1. p[1] \in Int /\ p[2] \in Slots(graph) /\ p = <<p[1], p[2]>>
  OBVIOUS
<1>2. \A q \in pq : q[1] \in Int /\ p[1] <= q[1]
  BY <1>1 DEF Pop, Before
<1>3. ASSUME p[2] \notin visited, parent[p[2]] # -1 PROVE p[1] = key[p[2]]
  <2>1. <<key[p[2]], p[2]>> \in pq
    BY <1>1, <1>3
  <2>2. p[1] <= key[p[2]]
    BY <1>2, <2>1
  <2>3. key[p[2]] <= p[1] /\ key[p[2]] \in Int
    BY <1>1
  <2> QED
    BY <1>1, <2>2, <2>3
<1> QED
  BY <1>1, <1>2, <1>3

\* A visit: the vertex moves to the tree, and its list is about to be scanned.
LEMMA VisitKeepsInv ==
  ASSUME Inv, PrimStep, NEW p \in pq, Pop(p), PrimVisits(p[2])
  PROVE  Inv'
<1> DEFINE u == p[2]
<1> USE DEF Inv, PrimInv, PrimTypes, FirstVisit, KeysInv, ParentsInv, TreeInv, ScanInv, Running
<1>1. /\ phase = "prim" /\ phase' = "relax"
      /\ UNCHANGED <<graph, parent, key>>
      /\ pq' = pq \ {p} /\ u \notin visited /\ visited' = visited \cup {u}
      /\ mst' = IF parent[u] = -1 THEN mst ELSE Append(mst, Edge(parent[u], u, key[u]))
      /\ neighbors' = getAdjacentEdges(graph, u)
  BY DEF PrimStep, PrimVisits, Pop
<1>2. u \in Slots(graph)
  BY <1>1, PopIsLeast
<1>3. AllEntries' = AllEntries
  BY <1>1 DEF AllEntries
<1>4. EntriesOf(graph, visited') = EntriesOf(graph, visited) \cup ToSet(neighbors')
  BY <1>1, EntriesSplit
<1>5. PrimTypes'
  <2>1. mst' \in Seq(AllEntries)
    <3>1. CASE parent[u] = -1
      BY <1>1, <3>1
    <3>2. CASE parent[u] # -1
      BY <1>1, <1>2, <3>2, ToSetAppend
    <3> QED
      BY <3>1, <3>2
  <2>2. neighbors' \in Seq(EntriesOf(graph, visited'))
    <3>1. neighbors' \in Seq([source : {u}, destination : Int, weight : Int])
      BY <1>1, <1>2 DEF Mirrored
    <3>2. \A i \in 1..Len(neighbors') : neighbors'[i] \in EntriesOf(graph, visited')
      BY <1>4, <3>1 DEF ToSet
    <3> QED
      BY <3>1, <3>2, SeqOver
  <2> QED
    BY <1>1, <1>2, <1>3, <2>1, <2>2
<1>6. FirstVisit'
  <2>1. CASE 0 \in visited
    BY <1>1, <2>1
  <2>2. CASE visited = {} /\ p = <<0, 0>>
    BY <1>1, <2>2
  <2> QED
    BY <1>1, <2>1, <2>2
<1>7. KeysInv'
  BY <1>1
<1>8. ParentsInv'
  BY <1>1, <1>2, <1>3
<1>9. TreeInv'
  <2>1. CASE parent[u] = -1
    BY <1>1, <2>1
  <2>2. CASE parent[u] # -1
    <3>1. /\ mst \in Seq(AllEntries) /\ mst' = Append(mst, Edge(parent[u], u, key[u]))
          /\ Edge(parent[u], u, key[u]) \in AllEntries /\ parent[u] \in visited
      BY <1>1, <1>2, <2>2
    <3>2. ToSet(mst') = ToSet(mst) \cup {Edge(parent[u], u, key[u])}
      BY ONLY <3>1, ToSetAppend
    <3> QED
      BY <1>1, <3>1, <3>2 DEF Edge
  <2> QED
    BY <2>1, <2>2
<1>10. ScanInv'
  BY <1>1, <1>4 DEF Scanned
<1> QED
  BY <1>1, <1>5, <1>6, <1>7, <1>8, <1>9, <1>10 DEF KruskalInv

\* An entry of a vertex visited before is skipped: no vertex outside the tree
\* is queued under it.
LEMMA SkipKeepsInv ==
  ASSUME Inv, PrimStep, NEW p \in pq, Pop(p), PrimSkips(p[2])
  PROVE  Inv'
<1> USE DEF Inv, PrimInv, PrimTypes, FirstVisit, KeysInv, ParentsInv, TreeInv, ScanInv, Running
<1>1. /\ phase = "prim" /\ phase' = "prim" /\ UNCHANGED <<graph, parent, key, visited, mst>>
      /\ pq' = pq \ {p} /\ p[2] \in visited
  BY DEF PrimStep, PrimSkips, Pop
<1>2. AllEntries' = AllEntries
  BY <1>1 DEF AllEntries
<1>3. visited # {} /\ ScanInv'
  BY <1>1 DEF Scanned
<1> QED
  BY <1>1, <1>2, <1>3 DEF KruskalInv

LEMMA PrimStartKeepsInv ==
  ASSUME Inv, StartPrim
  PROVE  Inv'
<1> USE DEF Inv, PrimInv, PrimTypes, FirstVisit, KeysInv, ParentsInv, TreeInv, ScanInv, Running
<1>1. /\ phase' = "prim" /\ UNCHANGED <<graph, mst, visited>> /\ mst = <<>> /\ visited = {}
      /\ key' = [v \in Slots(graph) |-> IF v = 0 THEN 0 ELSE MaxInt]
      /\ parent' = [v \in Slots(graph) |-> -1]
      /\ pq' = {<<0, 0>>}
  BY DEF StartPrim
<1>2. 0 \in Slots(graph)
  BY DEF StartPrim, Mirrored, Slots
<1>3. EntriesOf(graph, {}) = {}
  BY DEF EntriesOf
<1>4. PrimTypes'
  BY <1>1, <1>2, MaxIntAssumption DEF AllEntries
<1>5. KeysInv'
  BY <1>1, <1>2, MaxIntAssumption
<1> QED
  BY <1>1, <1>3, <1>4, <1>5, ToSetEmpty DEF KruskalInv

\* One entry of the list: the key of its destination is lowered, or the entry
\* is at least as heavy.
LEMMA NeighborKeepsInv ==
  ASSUME Inv, PrimNeighbor
  PROVE  Inv'
<1>e. PICK e : e = Head(neighbors)
  OBVIOUS
<1> USE DEF Inv, PrimInv, PrimTypes, FirstVisit, KeysInv, ParentsInv, TreeInv, ScanInv, Running
<1>1. /\ phase = "relax" /\ neighbors # <<>> /\ neighbors' = Tail(neighbors)
      /\ UNCHANGED <<graph, mst, visited>> /\ phase' \in {"relax", "outOfBounds"}
  BY DEF PrimNeighbor
<1>2. /\ e \in EntriesOf(graph, visited) /\ neighbors' \in Seq(EntriesOf(graph, visited))
      /\ ToSet(neighbors) = {e} \cup ToSet(neighbors')
  <2>1. neighbors \in Seq(EntriesOf(graph, visited))
    BY <1>1
  <2>2. e \in ToSet(neighbors) /\ Tail(neighbors) \in Seq(EntriesOf(graph, visited))
        /\ ToSet(neighbors) = {e} \cup ToSet(Tail(neighbors))
    BY <1>e, <1>1, <2>1, ToSetHeadTail
  <2>3. e \in EntriesOf(graph, visited)
    BY <2>1, <2>2, ElementOf
  <2> QED
    BY <1>1, <2>2, <2>3
<1>3. /\ e = Edge(e.source, e.destination, e.weight)
      /\ e.source \in visited /\ e.weight \in Int /\ e \in AllEntries
  BY <1>1, <1>2, EntryOwner
<1>4. AllEntries' = AllEntries
  BY <1>1 DEF AllEntries
<1>5. CASE phase' = "outOfBounds"
  BY <1>1, <1>5 DEF KruskalInv
<1>6. CASE /\ phase' = "relax" /\ e.destination \in Slots(graph)
           /\ Improves(e.destination, e.weight)
           /\ parent' = [parent EXCEPT ![e.destination] = e.source]
           /\ key' = [key EXCEPT ![e.destination] = e.weight]
           /\ pq' = pq \cup {<<e.weight, e.destination>>}
  <2> DEFINE d == e.destination
             w == e.weight
  <2>1. /\ d \in Slots(graph) /\ d \notin visited /\ w < key[d] /\ d # 0
        /\ key'[d] = w /\ parent'[d] = e.source
        /\ \A v \in Slots(graph) : v # d => key'[v] = key[v] /\ parent'[v] = parent[v]
    BY <1>1, <1>6 DEF Improves
  <2>2. w < MaxInt /\ w \in Int
    BY <1>1, <1>3, <2>1, MaxIntAssumption
  <2>3. \A v \in Slots(graph) : key[v] \in Int /\ key'[v] \in Int /\ key'[v] <= key[v]
    BY <1>1, <1>3, <2>1
  <2>4. PrimTypes'
    BY <1>1, <1>2, <1>3, <1>4, <1>6
  <2>5. KeysInv'
    <3>1. ASSUME NEW v \in Slots(graph), v # 0 PROVE key'[v] <= MaxInt
      <4>1. key[v] <= MaxInt
        BY <1>1, <3>1
      <4>2. key[v] \in Int /\ key'[v] \in Int /\ key'[v] <= key[v]
        BY <2>3
      <4> QED
        BY ONLY <4>1, <4>2, MaxIntAssumption
    <3>2. \A v \in Slots(graph) \ visited : parent'[v] = -1 => v = 0 \/ key'[v] = MaxInt
      <4>1. parent'[d] # -1
        BY <1>1, <1>3, <2>1 DEF Slots
      <4>2. \A v \in Slots(graph) \ visited : parent[v] = -1 => v = 0 \/ key[v] = MaxInt
        BY <1>1
      <4> QED
        BY ONLY <2>1, <4>1, <4>2
    <3>3. \A q \in pq : q[1] \in Int /\ q[2] \in Slots(graph) /\ key[q[2]] <= q[1]
      BY <1>1
    <3>4. \A q \in pq : key'[q[2]] <= q[1]
      BY <2>3, <3>3
    <3>5. key'[<<w, d>>[2]] <= <<w, d>>[1]
      BY <2>1, <2>2
    <3> QED
      BY <1>1, <1>6, <3>1, <3>2, <3>4, <3>5
  <2>6. ParentsInv'
    BY <1>1, <1>3, <1>4, <1>6, <2>1
  <2>7. ScanInv'
    <3>1. Scanned(e)'
      <4>1. key'[d] <= w
        BY ONLY <2>1, <2>2
      <4> QED
        BY <1>1, <2>1, <4>1 DEF Scanned
    <3>2. ASSUME NEW f \in EntriesOf(graph, visited), Scanned(f) PROVE Scanned(f)'
      <4>1. f.weight \in Int
        BY <1>1, EntryOwner
      <4> QED
        BY <1>1, <2>3, <3>2, <4>1 DEF Scanned
    <3>3. \A f \in EntriesOf(graph, visited) : Scanned(f) \/ f \in ToSet(neighbors)
      BY <1>1
    <3>4. \A f \in EntriesOf(graph, visited) : Scanned(f)' \/ f \in ToSet(neighbors')
      BY ONLY <1>2, <3>1, <3>2, <3>3
    <3> QED
      BY <1>1, <1>6, <3>4
  <2> QED
    BY <1>1, <2>4, <2>5, <2>6, <2>7 DEF KruskalInv
<1>7. CASE /\ phase' = "relax" /\ e.destination \in Slots(graph)
           /\ ~Improves(e.destination, e.weight)
           /\ UNCHANGED <<parent, key, pq>>
  <2>1. Scanned(e)
    BY <1>1, <1>3, <1>7 DEF Scanned, Improves
  <2>2. \A f : Scanned(f)' <=> Scanned(f)
    BY <1>1, <1>7 DEF Scanned
  <2>3. ScanInv'
    BY <1>1, <1>2, <2>1, <2>2
  <2> QED
    BY <1>1, <1>2, <1>4, <1>7, <2>3 DEF KruskalInv
<1> QED
  BY <1>e, <1>1, <1>5, <1>6, <1>7 DEF PrimNeighbor, PrimRelaxes

LEMMA ScannedKeepsInv ==
  ASSUME Inv, PrimScanned
  PROVE  Inv'
<1> USE DEF Inv, PrimInv, PrimTypes, FirstVisit, KeysInv, ParentsInv, TreeInv, ScanInv, Running
<1>1. /\ phase = "relax" /\ phase' = "prim" /\ neighbors = <<>>
      /\ UNCHANGED <<graph, mst, visited, parent, key, pq>>
  BY DEF PrimScanned
<1>2. AllEntries' = AllEntries
  BY <1>1 DEF AllEntries
<1>3. ScanInv'
  BY <1>1, ToSetEmpty DEF Scanned
<1> QED
  BY <1>1, <1>2, <1>3 DEF KruskalInv

LEMMA NextKeepsInv == Inv /\ [Next]_vars => Inv'
<1> SUFFICES ASSUME Inv, [Next]_vars PROVE Inv'
  OBVIOUS
<1>1. CASE UNCHANGED vars
  BY <1>1
  DEF vars, Inv, KruskalInv, PrimInv, PrimTypes, FirstVisit, KeysInv, ParentsInv, TreeInv,
      ScanInv, Running, AllEntries, Together, Scanned
<1>2. CASE PrimStep
  <2>1. PICK p \in pq : Pop(p) /\ (PrimVisits(p[2]) \/ PrimSkips(p[2]))
    BY <1>2 DEF PrimStep
  <2> QED
    BY <1>2, <2>1, VisitKeepsInv, SkipKeepsInv
<1> QED
  BY <1>1, <1>2, KruskalKeepsInv, PrimStartKeepsInv, NeighborKeepsInv, ScannedKeepsInv DEF Next

-----------------------------------------------------------------------------
\* e is a lightest edge across a cut that the forest does not cross.
Lightest(e, S) ==
  /\ e \in AllEntries /\ ~Uncut(e, S)
  /\ \A f \in ToSet(mst) : Uncut(f, S)
  /\ \A f \in AllEntries : Uncut(f, S) \/ e.weight <= f.weight

\* A step of Kruskal's algorithm adds a lightest edge across the cut around the
\* set that its source is in.
LEMMA KruskalCut ==
  ASSUME Inv, NEW e \in allEdges, phase = "kruskal",
         NextEdge(e), e.destination \in Slots(graph), KruskalTakes(e)
  PROVE  \E S : Lightest(e, S)
<1> DEFINE S == {v \in Slots(graph) : parent[v] = parent[e.source]}
<1>1. /\ allEdges \subseteq AllEntries /\ mst \in Seq(AllEntries)
      /\ \A f \in ToSet(mst) : Together(f)
      /\ \A f \in AllEntries \ allEdges : Together(f)
  BY DEF Inv, KruskalInv
<1>2. \A f \in AllEntries : f.source \in Slots(graph)
  BY AllEntriesOwner DEF Inv
<1>3. \A f \in AllEntries : Together(f) => Uncut(f, S)
  BY <1>2 DEF Together, Uncut
<1>4. ToSet(mst) \subseteq AllEntries
  BY <1>1, ElementOf
<1>5. e \in AllEntries /\ ~Uncut(e, S)
  BY <1>1, <1>2 DEF KruskalTakes, Uncut
<1>6. \A f \in AllEntries : Uncut(f, S) \/ e.weight <= f.weight
  BY <1>1, <1>3 DEF NextEdge
<1> HIDE DEF S
<1> QED
  BY <1>1, <1>3, <1>4, <1>5, <1>6 DEF Lightest

\* A visit adds a lightest edge across the cut around the vertices visited.
LEMMA PrimCut ==
  ASSUME Inv, phase = "prim", NEW p \in pq, Pop(p), PrimVisits(p[2]), parent[p[2]] # -1
  PROVE  Lightest(Edge(parent[p[2]], p[2], key[p[2]]), visited)
<1> DEFINE u == p[2]
           e == Edge(parent[u], u, key[u])
<1> USE DEF Inv, PrimInv, PrimTypes, FirstVisit, KeysInv, ParentsInv, TreeInv, ScanInv, Running
<1>1. /\ u \in Slots(graph) \ visited /\ p[1] = key[u] /\ key[u] \in Int
      /\ \A q \in pq : p[1] <= q[1]
  BY PopIsLeast DEF PrimVisits
<1>2. /\ parent[u] \in visited /\ e \in AllEntries
      /\ e.source \in visited /\ e.destination \notin visited /\ e.weight = key[u]
  BY <1>1 DEF Edge
<1>3. 0 \in visited /\ u # 0 /\ key[u] <= MaxInt
  BY <1>1, <1>2
<1>4. ASSUME NEW f \in AllEntries, f.source \in visited, f.destination \notin visited
      PROVE  e.weight <= f.weight
  <2>1. f \in EntriesOf(graph, visited) /\ f.weight \in Int
    <3>1. PICK v \in Slots(graph) : f \in ToSet(getAdjacentEdges(graph, v))
      BY DEF AllEntries, EntriesOf
    <3>2. f.source = v /\ f.weight \in Int
      BY <3>1, EntryOfMirrored
    <3> QED
      BY <1>4, <3>1, <3>2 DEF EntriesOf
  <2>2. f.destination \in Slots(graph) /\ key[f.destination] <= f.weight
    BY <1>4, <2>1 DEF Scanned
  <2>3. key[u] <= key[f.destination]
    <3>1. CASE parent[f.destination] = -1
      BY <1>3, <1>4, <2>2, <3>1
    <3>2. CASE parent[f.destination] # -1
      <4>1. <<key[f.destination], f.destination>> \in pq
        BY <1>4, <2>2, <3>2
      <4> QED
        BY ONLY <1>1, <4>1
    <3> QED
      BY <3>1, <3>2
  <2> QED
    BY <1>1, <1>2, <2>1, <2>2, <2>3
<1>5. ASSUME NEW f \in AllEntries PROVE Uncut(f, visited) \/ e.weight <= f.weight
  <2>1. CASE f.source \notin visited /\ f.destination \in visited
    <3> DEFINE b == Edge(f.destination, f.source, f.weight)
    <3>1. b \in AllEntries
      BY <2>1 DEF Mirrored, AllEntries
    <3>2. b.source = f.destination /\ b.destination = f.source /\ b.weight = f.weight
      BY DEF Edge
    <3> HIDE DEF b
    <3> QED
      BY <1>4, <2>1, <3>1, <3>2
  <2> QED
    BY <1>4, <2>1 DEF Uncut
<1>6. \A f \in ToSet(mst) : Uncut(f, visited)
  BY DEF Uncut
<1>7. ~Uncut(e, visited)
  BY <1>2 DEF Uncut
<1> QED
  BY <1>2, <1>5, <1>6, <1>7 DEF Lightest

LEMMA StepCut ==
  ASSUME Inv, [Next]_vars
  PROVE  /\ UNCHANGED graph
         /\ \/ UNCHANGED mst
            \/ /\ phase \in {"kruskal", "prim"} /\ mst \in Seq(AllEntries)
               /\ \E e \in AllEntries : mst' = Append(mst, e) /\ \E S : Lightest(e, S)
<1>1. UNCHANGED graph
  BY DEF Next, vars, Refuse, StartKruskal, KruskalStep, KruskalEnds, StartPrim, PrimStep,
         PrimNeighbor, PrimScanned, PrimEnds
<1>2. CASE KruskalStep
  <2>1. PICK e \in allEdges :
          /\ phase = "kruskal" /\ NextEdge(e)
          /\ \/ e.destination \in Slots(graph) /\ (KruskalTakes(e) \/ KruskalSkips(e))
             \/ UNCHANGED mst
    BY <1>2 DEF KruskalStep
  <2>2. mst \in Seq(AllEntries)
    BY <2>1 DEF Inv, KruskalInv
  <2>3. CASE e.destination \in Slots(graph) /\ KruskalTakes(e)
    <3>1. PICK S : Lightest(e, S)
      BY <2>1, <2>3, KruskalCut
    <3>2. e \in AllEntries /\ mst' = Append(mst, e)
      BY <2>3, <3>1 DEF Lightest, KruskalTakes
    <3> QED
      BY <1>1, <2>1, <2>2, <3>1, <3>2
  <2> QED
    BY <1>1, <2>1, <2>3 DEF KruskalSkips
<1>3. CASE PrimStep
  <2>1. PICK p \in pq : phase = "prim" /\ Pop(p) /\ (PrimVisits(p[2]) \/ PrimSkips(p[2]))
    BY <1>3 DEF PrimStep
  <2>2. mst \in Seq(AllEntries)
    BY <2>1 DEF Inv, PrimInv, PrimTypes, Running
  <2>3. CASE PrimVisits(p[2]) /\ parent[p[2]] # -1
    <3> DEFINE e == Edge(parent[p[2]], p[2], key[p[2]])
    <3>1. Lightest(e, visited)
      BY <2>1, <2>3, PrimCut
    <3>2. e \in AllEntries /\ mst' = Append(mst, e)
      BY <2>3, <3>1 DEF Lightest, PrimVisits
    <3> HIDE DEF e
    <3> QED
      BY <1>1, <2>1, <2>2, <3>1, <3>2
  <2> QED
    BY <1>1, <2>1, <2>3 DEF PrimVisits, PrimSkips
<1> QED
  BY <1>1, <1>2, <1>3
  DEF Next, vars, Refuse, StartKruskal, KruskalEnds, StartPrim, PrimNeighbor, PrimScanned, PrimEnds

LEMMA LightestGrows ==
  ASSUME NEW e \in AllEntries, NEW S, Lightest(e, S),
         mst \in Seq(AllEntries), mst' = Append(mst, e), UNCHANGED graph
  PROVE  Forest!AddLightest
<1>1. ToSet(mst) \subseteq AllEntries /\ ToSet(mst') = ToSet(mst) \cup {e}
  BY ElementOf, ToSetAppend
<1>2. /\ \A f \in ToSet(mst) : Uncut(f, S)
      /\ \A f \in AllEntries : Uncut(f, S) \/ e.weight <= f.weight
      /\ ToSet(mst) \subseteq AllEntries /\ e \in AllEntries /\ ~Uncut(e, S)
  BY <1>1 DEF Lightest
<1>3. PICK u \in Undirected(AllEntries) \ Undirected(ToSet(mst)) :
        /\ Undirected(ToSet(mst) \cup {e}) = Undirected(ToSet(mst)) \cup {u}
        /\ \E T \in SUBSET UNION {x.ends : x \in Undirected(AllEntries)} :
             /\ Forest!Crosses(u, T)
             /\ \A f \in Undirected(ToSet(mst)) : ~Forest!Crosses(f, T)
             /\ \A f \in Undirected(AllEntries) : Forest!Crosses(f, T) => u.weight <= f.weight
  BY ONLY <1>2, LightestAcross
<1> QED
  BY <1>1, <1>3 DEF Forest!AddLightest, Forest!Touched, AllEntries

LEMMA StepGrows ==
  Inv /\ [Next]_vars =>
    [Forest!AddLightest]_<<Undirected(AllEntries), Undirected(ToSet(mst))>>
<1> SUFFICES ASSUME Inv, [Next]_vars
             PROVE  \/ Forest!AddLightest
                    \/ UNCHANGED <<Undirected(AllEntries), Undirected(ToSet(mst))>>
  OBVIOUS
<1>1. CASE UNCHANGED mst
  BY <1>1, StepCut DEF AllEntries
<1>2. CASE ~UNCHANGED mst
  BY <1>2, StepCut, LightestGrows
<1> QED
  BY <1>1, <1>2

\* Both algorithms, on any graphs that list each edge at both its ends, only
\* ever add a lightest edge across a cut their forest does not cross.
THEOREM GrowsByLightestCorrect ==
  ASSUME \A g \in Inputs : Mirrored(g)
  PROVE  SafeSpec => GrowsByLightest
<1>1. Init => Inv
  BY InitInv
<1>2. Init => Forest!Init
  BY ToSetEmpty DEF Init, Forest!Init, Undirected
<1>3. SafeSpec => []Inv
  BY <1>1, NextKeepsInv, PTL DEF SafeSpec
<1> QED
  BY <1>2, <1>3, StepGrows, PTL DEF SafeSpec, GrowsByLightest, Forest!Spec, AllEntries

-----------------------------------------------------------------------------
(***************************************************************************)
(* Type correctness.  That Prim's tree consists of edges of the graph, put *)
(* together from its parent and key arrays, rests on ParentsInv.           *)
(***************************************************************************)
\* What the arrays and the queue hold does not depend on mst.
ArraysTyped ==
  /\ phase \in Phases
  /\ algorithm \in {"none", "kruskal", "prim"}
  /\ algorithm = "kruskal" => parent \in [Slots(graph) -> Slots(graph)]
  /\ algorithm = "prim" =>
       /\ parent \in [Slots(graph) -> Slots(graph) \cup {-1}]
       /\ key \in [Slots(graph) -> Int]
  /\ allEdges \subseteq AllEntries
  /\ visited \subseteq Slots(graph)
  /\ pq \subseteq Int \X Slots(graph)
  /\ ToSet(neighbors) \subseteq AllEntries

\* Which algorithm runs at which label.
LabelsInv ==
  /\ phase = "create" => algorithm = "none"
  /\ phase = "kruskal" => algorithm = "kruskal"
  /\ phase \in {"prim", "relax"} => algorithm = "prim"
  /\ phase \in {"done", "outOfBounds"} => algorithm # "none"

TypeInv == Inv /\ LabelsInv /\ ArraysTyped /\ mst \in Seq(AllEntries)

LEMMA KruskalTyped ==
  ASSUME TypeInv, StartKruskal \/ KruskalStep \/ KruskalEnds \/ Refuse
  PROVE  LabelsInv' /\ ArraysTyped' /\ mst' \in Seq(AllEntries)
<1> USE DEF LabelsInv, ArraysTyped, Phases
<1>1. CASE StartKruskal
  BY <1>1 DEF TypeInv, StartKruskal, AllEntries
<1>2. CASE KruskalStep
  <2>1. PICK e \in allEdges :
          /\ allEdges' = allEdges \ {e}
          /\ \/ /\ e.destination \in Slots(graph)
                /\ KruskalTakes(e) \/ KruskalSkips(e)
                /\ phase' \in {"done", "kruskal"}
             \/ phase' = "outOfBounds" /\ UNCHANGED <<mst, parent>>
    BY <1>2 DEF KruskalStep
  <2>2. e \in AllEntries /\ algorithm = "kruskal" /\ parent \in [Slots(graph) -> Slots(graph)]
    BY <1>2 DEF TypeInv, KruskalStep
  <2>3. KruskalTakes(e) /\ e.destination \in Slots(graph) => parent' \in [Slots(graph) -> Slots(graph)]
    BY <2>2 DEF KruskalTakes, unionSets
  <2>4. mst' \in Seq(AllEntries)
    BY <2>1, <2>2, ToSetAppend DEF TypeInv, KruskalTakes, KruskalSkips
  <2>5. parent' \in [Slots(graph) -> Slots(graph)]
    BY <2>1, <2>2, <2>3 DEF KruskalSkips
  <2>6. UNCHANGED <<graph, algorithm, visited, key, pq, neighbors, AllEntries>>
        /\ phase' \in {"done", "kruskal", "outOfBounds"}
    BY <1>2, <2>1 DEF KruskalStep, AllEntries
  <2> QED
    BY <2>1, <2>2, <2>4, <2>5, <2>6 DEF TypeInv
<1>3. CASE KruskalEnds \/ Refuse
  BY <1>3 DEF TypeInv, KruskalEnds, Refuse, AllEntries
<1> QED
  BY <1>1, <1>2, <1>3

LEMMA PrimTyped ==
  ASSUME TypeInv, StartPrim \/ PrimStep \/ PrimNeighbor \/ PrimScanned \/ PrimEnds
  PROVE  LabelsInv' /\ ArraysTyped' /\ mst' \in Seq(AllEntries)
<1> USE DEF LabelsInv, ArraysTyped, Phases
<1>1. CASE StartPrim
  <2>1. 0 \in Slots(graph)
    BY <1>1 DEF TypeInv, Inv, Mirrored, StartPrim, Slots
  <2> QED
    BY <1>1, <2>1, MaxIntAssumption DEF TypeInv, StartPrim, AllEntries
<1>2. CASE PrimStep
  <2>1. PICK p \in pq : phase = "prim" /\ Pop(p) /\ (PrimVisits(p[2]) \/ PrimSkips(p[2]))
    BY <1>2 DEF PrimStep
  <2> DEFINE u == p[2]
  <2>2. /\ u \in Slots(graph) /\ pq' \subseteq pq
        /\ UNCHANGED <<graph, algorithm, parent, allEdges, key, AllEntries>>
    BY <1>2, <2>1 DEF TypeInv, PrimStep, Pop, AllEntries
  <2>3. CASE PrimVisits(u)
    <3>1. parent[u] # -1 => Edge(parent[u], u, key[u]) \in AllEntries
      BY <2>1, <2>2, <2>3 DEF TypeInv, Inv, PrimInv, ParentsInv, Running, PrimVisits
    <3>2. mst' \in Seq(AllEntries)
      BY <3>1, <2>3, ToSetAppend DEF TypeInv, PrimVisits
    <3>3. ToSet(neighbors') \subseteq AllEntries
      BY <2>2, <2>3 DEF PrimVisits, AllEntries, EntriesOf
    <3> QED
      BY <2>1, <2>2, <2>3, <3>2, <3>3 DEF TypeInv, PrimVisits
  <2>4. CASE PrimSkips(u)
    BY <2>1, <2>2, <2>4 DEF TypeInv, PrimSkips
  <2> QED
    BY <2>1, <2>3, <2>4
<1>3. CASE PrimNeighbor
  <2> DEFINE e == Head(neighbors)
  <2>1. /\ neighbors \in Seq(EntriesOf(graph, visited)) /\ neighbors # <<>>
        /\ algorithm = "prim" /\ visited \in SUBSET Slots(graph)
    BY <1>3 DEF TypeInv, Inv, PrimInv, PrimTypes, Running, PrimNeighbor
  <2>2. e \in EntriesOf(graph, visited) /\ ToSet(Tail(neighbors)) \subseteq ToSet(neighbors)
    BY <2>1, ToSetHeadTail, ElementOf
  <2>3. e.source \in Slots(graph) /\ e.weight \in Int
    BY <2>1, <2>2, EntryOwner DEF TypeInv, Inv
  <2>4. UNCHANGED <<graph, algorithm, mst, allEdges, visited, AllEntries>>
        /\ neighbors' = Tail(neighbors) /\ phase' \in {"relax", "outOfBounds"}
    BY <1>3 DEF PrimNeighbor, AllEntries
  <2>5. CASE e.destination \in Slots(graph) /\ PrimRelaxes(e.source, e.destination, e.weight)
    BY <2>1, <2>2, <2>3, <2>4, <2>5 DEF TypeInv, PrimRelaxes
  <2>6. CASE UNCHANGED <<parent, key, pq>>
    BY <2>1, <2>2, <2>4, <2>6 DEF TypeInv
  <2> QED
    BY <1>3, <2>5, <2>6 DEF PrimNeighbor
<1>4. CASE PrimScanned \/ PrimEnds
  BY <1>4 DEF TypeInv, PrimScanned, PrimEnds, AllEntries
<1> QED
  BY <1>1, <1>2, <1>3, <1>4

LEMMA InitTypeInv == ASSUME \A g \in Inputs : Mirrored(g) PROVE Init => TypeInv
  BY InitInv, ToSetEmpty DEF Init, TypeInv, LabelsInv, ArraysTyped, Phases

LEMMA TypeInvKept == TypeInv /\ [Next]_vars => TypeInv'
<1> SUFFICES ASSUME TypeInv, [Next]_vars PROVE TypeInv'
  OBVIOUS
<1>1. Inv' /\ UNCHANGED AllEntries
  <2>1. UNCHANGED graph
    BY DEF Next, vars, Refuse, StartKruskal, KruskalStep, KruskalEnds, StartPrim, PrimStep,
           PrimNeighbor, PrimScanned, PrimEnds
  <2> QED
    BY <2>1, NextKeepsInv DEF TypeInv, AllEntries
<1>2. CASE UNCHANGED vars
  BY <1>1, <1>2 DEF TypeInv, LabelsInv, ArraysTyped, vars
<1>3. CASE Next
  BY <1>1, <1>3, KruskalTyped, PrimTyped DEF Next, TypeInv
<1> QED
  BY <1>2, <1>3

\* On any graphs that list each edge at both its ends, the arrays hold vertices
\* and weights only, and the result consists of edges of the graph: Prim's,
\* made of what its arrays held when it visited a vertex, too.
THEOREM MSTTypeCorrect ==
  ASSUME \A g \in Inputs : Mirrored(g)
  PROVE  SafeSpec => []TypeOK
<1>1. Init => TypeInv
  BY InitTypeInv
<1>2. TypeInv /\ [Next]_vars => TypeInv'
  BY TypeInvKept
<1>3. TypeInv => TypeOK
  BY DEF TypeInv, ArraysTyped, TypeOK, AllEntries
<1> QED
  BY <1>1, <1>2, <1>3, PTL DEF SafeSpec

-----------------------------------------------------------------------------
(***************************************************************************)
(* Sums of weights.  MapThenSumSet takes the elements of a set in an order *)
(* that CHOOSE fixes; on finite sets the order does not matter.            *)
(***************************************************************************)
First(s) == CHOOSE x \in s : TRUE

SumFrom(f, s) == IF s = {} THEN 0 ELSE First(s).weight + f[s \ {First(s)}]

LEMMA SumExists ==
  ASSUME NEW S, IsFiniteSet(S)
  PROVE  \E f : f = [s \in SUBSET S |-> SumFrom(f, s)]
<1> DEFINE n == Cardinality(S)
           Upto(k) == {s \in SUBSET S : Cardinality(s) <= k}
           K == {k \in 0..n : \E f : f = [s \in Upto(k) |-> SumFrom(f, s)]}
<1>1. \A s \in SUBSET S : IsFiniteSet(s) /\ Cardinality(s) \in 0..n
  BY FS_Subset, FS_CardinalityType
<1>2. n \in Nat
  BY FS_CardinalityType
<1>3. \A s : s # {} => First(s) \in s
  BY DEF First
<1>4. ASSUME NEW k \in Nat, NEW s \in Upto(k + 1), s # {}
      PROVE  s \ {First(s)} \in Upto(k)
  <2>1. IsFiniteSet(s) /\ Cardinality(s) \in 0..n /\ First(s) \in s /\ Cardinality(s) <= k + 1
    BY <1>1, <1>3, <1>4
  <2>2. Cardinality(s \ {First(s)}) = Cardinality(s) - 1
    BY <2>1, FS_RemoveElement
  <2>3. Cardinality(s \ {First(s)}) <= k
    BY <1>2, <1>4, <2>1, <2>2
  <2> QED
    BY <2>3, <1>4
<1>5. 0 \in K
  <2> DEFINE f == [s \in Upto(0) |-> 0]
  <2>1. \A s \in Upto(0) : s = {}
    <3> TAKE s \in Upto(0)
    <3>1. IsFiniteSet(s) /\ Cardinality(s) = 0
      BY <1>1, <1>2
    <3> QED
      BY <3>1, FS_EmptySet
  <2>2. f = [s \in Upto(0) |-> SumFrom(f, s)]
    BY <2>1 DEF SumFrom
  <2>3. 0 \in 0..n
    BY <1>2
  <2> HIDE DEF f, Upto
  <2> QED
    BY <2>2, <2>3
<1>6. ASSUME NEW k \in 0..n, k \in K, k < n PROVE k + 1 \in K
  <2>1. PICK f : f = [s \in Upto(k) |-> SumFrom(f, s)]
    BY <1>6
  <2> DEFINE g == [s \in Upto(k + 1) |-> SumFrom(f, s)]
  <2>2. k \in Nat /\ k + 1 \in 0..n
    BY <1>2, <1>6
  <2>3. \A s \in Upto(k) : s \in Upto(k + 1)
    BY <1>1, <1>2, <2>2
  <2> HIDE DEF Upto
  <2>4. \A s \in Upto(k) : g[s] = f[s]
    BY <2>1, <2>3
  <2>5. ASSUME NEW s \in Upto(k + 1) PROVE g[s] = SumFrom(g, s)
    BY <1>4, <2>2, <2>4 DEF SumFrom
  <2>6. g = [s \in Upto(k + 1) |-> SumFrom(g, s)]
    <3>1. g = [s \in Upto(k + 1) |-> g[s]]
      OBVIOUS
    <3> HIDE DEF g
    <3> QED
      BY <2>5, <3>1
  <2> HIDE DEF g
  <2> QED
    BY <2>2, <2>6
<1>7. n \in K
  <2> HIDE DEF K, n
  <2> QED
    BY <1>2, <1>5, <1>6, UpTo
<1>8. Upto(n) = SUBSET S
  BY <1>1
<1> QED
  BY <1>7, <1>8

LEMMA SumUnique ==
  ASSUME NEW S, IsFiniteSet(S), NEW T \in SUBSET S, NEW f, NEW g,
         \A s \in SUBSET S : f[s] = SumFrom(f, s), \A s \in SUBSET T : g[s] = SumFrom(g, s)
  PROVE  \A s \in SUBSET T : f[s] = g[s]
<1> DEFINE D == {s \in SUBSET T : f[s] = g[s]}
<1>1. ASSUME NEW s \in SUBSET T, \A U \in SUBSET s : U # s => U \in D PROVE s \in D
  <2>1. f[s] = SumFrom(f, s) /\ g[s] = SumFrom(g, s)
    OBVIOUS
  <2>2. s # {} => f[s \ {First(s)}] = g[s \ {First(s)}]
    <3> SUFFICES ASSUME s # {} PROVE s \ {First(s)} \in D
      OBVIOUS
    <3>1. First(s) \in s
      BY DEF First
    <3> QED
      BY <1>1, <3>1
  <2> QED
    BY <2>1, <2>2 DEF SumFrom
<1>2. IsFiniteSet(T)
  BY FS_Subset
<1> HIDE DEF D
<1>3. SUBSET T \subseteq D
  BY <1>1, <1>2, AllSubsets
<1> QED
  BY <1>3 DEF D

LEMMA WeightOfFirst ==
  ASSUME NEW S, IsFiniteSet(S)
  PROVE  /\ S = {} => WeightOf(S) = 0
         /\ S # {} => /\ First(S) \in S
                      /\ WeightOf(S) = First(S).weight + WeightOf(S \ {First(S)})
<1> DEFINE Sum(T) == CHOOSE f : f = [s \in SUBSET T |-> SumFrom(f, s)]
<1>1. \A T : WeightOf(T) = Sum(T)[T]
  BY DEF WeightOf, MapThenSumSet, MapThenFoldSet, First, SumFrom
<1>2. ASSUME NEW T \in SUBSET S PROVE Sum(T) = [s \in SUBSET T |-> SumFrom(Sum(T), s)]
  <2>1. IsFiniteSet(T)
    BY FS_Subset
  <2>2. \E f : f = [s \in SUBSET T |-> SumFrom(f, s)]
    BY <2>1, SumExists
  <2> QED
    BY <2>2
<1> HIDE DEF Sum
<1>3. WeightOf(S) = SumFrom(Sum(S), S)
  <2>1. S \in SUBSET S
    OBVIOUS
  <2>2. Sum(S)[S] = SumFrom(Sum(S), S)
    BY <1>2, <2>1
  <2> QED
    BY <1>1, <2>2
<1>4. ASSUME S # {}
      PROVE  First(S) \in S /\ Sum(S)[S \ {First(S)}] = WeightOf(S \ {First(S)})
  <2>1. First(S) \in S
    BY <1>4 DEF First
  <2> DEFINE T == S \ {First(S)}
  <2>2. T \in SUBSET S /\ S \in SUBSET S /\ T \in SUBSET T
    OBVIOUS
  <2> HIDE DEF T
  <2>3. Sum(S)[T] = Sum(T)[T]
    <3> DEFINE f == Sum(S)
               g == Sum(T)
    <3>1. \A s \in SUBSET S : f[s] = SumFrom(f, s)
      BY <1>2, <2>2
    <3>2. \A s \in SUBSET T : g[s] = SumFrom(g, s)
      BY <1>2, <2>2
    <3> HIDE DEF f, g
    <3>3. \A s \in SUBSET T : f[s] = g[s]
      BY ONLY <2>2, <3>1, <3>2, IsFiniteSet(S), SumUnique
    <3> QED
      BY <2>2, <3>3 DEF f, g
  <2> QED
    BY <1>1, <2>1, <2>3 DEF T
<1> QED
  BY <1>3, <1>4 DEF SumFrom

LEMMA WeightOfSubsets ==
  ASSUME NEW S, IsFiniteSet(S), \A e \in S : e.weight \in Int
  PROVE  \A T \in SUBSET S :
           /\ WeightOf(T) \in Int
           /\ \A x \in T : WeightOf(T) = x.weight + WeightOf(T \ {x})
<1> DEFINE Good(T) == /\ WeightOf(T) \in Int
                      /\ \A x \in T : WeightOf(T) = x.weight + WeightOf(T \ {x})
           D == {T \in SUBSET S : Good(T)}
<1>1. ASSUME NEW T \in SUBSET S, \A U \in SUBSET T : U # T => U \in D PROVE T \in D
  <2>1. IsFiniteSet(T)
    BY FS_Subset
  <2>2. CASE T = {}
    <3>1. WeightOf(T) = 0
      BY <2>1, <2>2, WeightOfFirst
    <3>2. WeightOf(T) \in Int
      BY <3>1
    <3> QED
      BY <2>2, <3>2
  <2>3. CASE T # {}
    <3> DEFINE c == First(T)
    <3>1. c \in T /\ WeightOf(T) = c.weight + WeightOf(T \ {c})
      BY <2>1, <2>3, WeightOfFirst
    <3> HIDE DEF c
    <3>2. ASSUME NEW x \in T PROVE Good(T \ {x})
      BY <1>1
    <3>3. WeightOf(T) \in Int
      BY <3>1, <3>2
    <3>4. ASSUME NEW x \in T, x # c PROVE WeightOf(T) = x.weight + WeightOf(T \ {x})
      <4>1. WeightOf(T \ {c}) = x.weight + WeightOf((T \ {c}) \ {x})
        BY <3>1, <3>2, <3>4
      <4>2. WeightOf(T \ {x}) = c.weight + WeightOf((T \ {x}) \ {c})
        BY <3>1, <3>2, <3>4
      <4>3. (T \ {c}) \ {x} = (T \ {x}) \ {c}
        OBVIOUS
      <4>4. WeightOf((T \ {x}) \ {c}) \in Int
        <5>1. (T \ {x}) \ {c} \in SUBSET T /\ (T \ {x}) \ {c} # T
          BY <3>4
        <5> QED
          BY <1>1, <5>1
      <4>5. c.weight \in Int /\ x.weight \in Int
        BY <3>1, <3>4
      <4> DEFINE rest == WeightOf((T \ {x}) \ {c})
                 without == WeightOf(T \ {x})
                 whole == WeightOf(T)
      <4>6. whole = c.weight + (x.weight + rest) /\ without = c.weight + rest
        BY <3>1, <4>1, <4>2, <4>3
      <4>7. rest \in Int
        BY <4>4
      <4> HIDE DEF rest, without, whole
      <4>8. whole = x.weight + without
        BY ONLY <4>5, <4>6, <4>7
      <4> QED
        BY <4>8 DEF without, whole
    <3> QED
      BY <3>1, <3>3, <3>4
  <2> QED
    BY <2>2, <2>3
<1> HIDE DEF D
<1>2. SUBSET S \subseteq D
  BY <1>1, AllSubsets
<1> QED
  BY <1>2 DEF D

\* An element more.
LEMMA WeightOfAdd ==
  ASSUME NEW S, IsFiniteSet(S), \A e \in S : e.weight \in Int, NEW x, x \notin S, x.weight \in Int
  PROVE  WeightOf(S \cup {x}) = WeightOf(S) + x.weight /\ WeightOf(S) \in Int
<1> DEFINE T == S \cup {x}
<1>1. IsFiniteSet(T) /\ x \in T /\ T \in SUBSET T /\ T \ {x} = S /\ S \in SUBSET T
  BY FS_AddElement
<1>2. \A e \in T : e.weight \in Int
  OBVIOUS
<1> HIDE DEF T
<1>3. WeightOf(T) = x.weight + WeightOf(S) /\ WeightOf(S) \in Int
  BY <1>1, <1>2, WeightOfSubsets
<1> QED
  BY <1>3 DEF T

-----------------------------------------------------------------------------
(***************************************************************************)
(* The cut property.  An edge that is lightest across a cut can take the   *)
(* place of another that crosses it, in any set of edges that connects its *)
(* ends, without disconnecting anything.  Which one: take the least part   *)
(* of the set that still connects the two ends; something in it crosses    *)
(* the cut, and without that they are apart.                               *)
(***************************************************************************)
LEMMA CrossingLink ==
  ASSUME NEW M, IsFiniteSet(M), NEW u, NEW w \in Component(M, u), NEW S, ~(u \in S <=> w \in S)
  PROVE  \E P \in SUBSET M : \E f \in P :
           ~Uncut(f, S) /\ w \in Component(P, u) /\ w \notin Component(P \ {f}, u)
<1> DEFINE Q == {P \in SUBSET M : w \in Component(P, u)}
<1>1. PICK P \in SUBSET M : P \in Q /\ \A R \in SUBSET P : R # P => R \notin Q
  <2>1. M \in Q
    OBVIOUS
  <2> HIDE DEF Q
  <2> QED
    BY <2>1, HasMinimal
<1>2. PICK f \in P : ~Uncut(f, S)
  <2> SUFFICES ASSUME \A f \in P : Uncut(f, S) PROVE FALSE
    OBVIOUS
  <2> DEFINE C == Component(P, u)
             U == {x \in C : x \in S <=> u \in S}
  <2>1. u \in C /\ \A f \in P : f.source \in C <=> f.destination \in C
    BY ComponentHolds
  <2> HIDE DEF C
  <2>2. u \in U /\ \A f \in P : f.source \in U <=> f.destination \in U
    BY <2>1 DEF Uncut
  <2>3. w \notin U /\ w \in C
    BY <1>1 DEF C
  <2> HIDE DEF U
  <2>4. C \subseteq U
    BY <2>2, ComponentWithin DEF C
  <2> QED
    BY <2>3, <2>4
<1>3. w \notin Component(P \ {f}, u)
  BY <1>1, <1>2
<1> QED
  BY <1>1, <1>2, <1>3

LEMMA Exchange ==
  ASSUME NEW M, IsFiniteSet(M), NEW e, NEW S, ~Uncut(e, S),
         e.destination \in Component(M, e.source)
  PROVE  \E f \in M : /\ ~Uncut(f, S)
                      /\ \A v : Component((M \ {f}) \cup {e}, v) = Component(M, v)
<1> DEFINE u == e.source
           w == e.destination
<1>1. PICK P \in SUBSET M :
        \E f \in P : ~Uncut(f, S) /\ w \in Component(P, u) /\ w \notin Component(P \ {f}, u)
  BY CrossingLink DEF Uncut
<1>f. PICK f \in P : ~Uncut(f, S) /\ w \in Component(P, u) /\ w \notin Component(P \ {f}, u)
  BY <1>1
<1> DEFINE N == (M \ {f}) \cup {e}
<1>2. /\ Component(P \ {f}, u) \subseteq Component(N, u)
      /\ Component(P \ {f}, w) \subseteq Component(N, w)
  <2>1. P \ {f} \in SUBSET N
    OBVIOUS
  <2> HIDE DEF N
  <2> QED
    BY <2>1, ComponentMore
<1>3. Component(N, u) = Component(N, w)
  <2>1. e \in N
    OBVIOUS
  <2> HIDE DEF N
  <2>2. w \in Component(N, u)
    BY <2>1, ComponentHolds
  <2> QED
    BY <2>2, ComponentSame
<1>4. f.source \in Component(N, u) /\ f.destination \in Component(N, u)
  BY <1>f, <1>2, <1>3, LinkJoins
<1>5. ASSUME NEW v PROVE Component(N, v) = Component(M, v)
  <2>1. Component(M, v) \subseteq Component(N, v)
    <3> DEFINE C == Component(N, v)
    <3>1. v \in C /\ \A x \in N : x.source \in C <=> x.destination \in C
      BY ComponentHolds
    <3>2. f.source \in C <=> f.destination \in C
      <4>1. \A x \in Component(N, u) : Component(N, x) = Component(N, u)
        BY ComponentSame
      <4>2. \A x \in C : Component(N, x) = C
        BY ComponentSame
      <4>3. \A x : x \in Component(N, x)
        BY ComponentHolds
      <4> HIDE DEF C, N
      <4> QED
        BY <1>4, <4>1, <4>2, <4>3
    <3>3. \A x \in M : x \in N \/ x = f
      OBVIOUS
    <3> HIDE DEF C, N
    <3>4. \A x \in M : x.source \in C <=> x.destination \in C
      BY <3>1, <3>2, <3>3
    <3>5. Component(M, v) \subseteq C
      BY <3>1, <3>4, ComponentWithin
    <3> QED
      BY <3>5 DEF C
  <2>2. Component(N, v) \subseteq Component(M, v)
    <3> DEFINE C == Component(M, v)
    <3>1. v \in C /\ \A x \in M : x.source \in C <=> x.destination \in C
      BY ComponentHolds
    <3>2. u \in C <=> w \in C
      <4>1. Component(M, w) = Component(M, u)
        BY ComponentSame
      <4>2. \A x \in C : Component(M, x) = C
        BY ComponentSame
      <4>3. \A x : x \in Component(M, x)
        BY ComponentHolds
      <4> HIDE DEF C
      <4> QED
        BY <4>1, <4>2, <4>3
    <3> HIDE DEF C
    <3>3. \A x \in N : x.source \in C <=> x.destination \in C
      BY <3>1, <3>2
    <3> HIDE DEF N
    <3>4. Component(N, v) \subseteq C
      BY <3>1, <3>3, ComponentWithin
    <3> QED
      BY <3>4 DEF C
  <2> QED
    BY <2>1, <2>2
<1> QED
  BY <1>f, <1>5

Connects(C, es) == \A f \in C : f.destination \in Component(es, f.source)

\* The edges F are part of a lightest set that connects what C connects: any
\* such set can be turned into one with F, of as many edges and no heavier.
Optimal(C, F) ==
  \A es \in SUBSET C : Connects(C, es) =>
    \E M \in SUBSET C :
      /\ F \subseteq M /\ Connects(C, M)
      /\ Cardinality(M) = Cardinality(es) /\ WeightOf(M) <= WeightOf(es)

LEMMA CutProperty ==
  ASSUME NEW C, IsFiniteSet(C), \A f \in C : f.weight \in Int,
         NEW F \in SUBSET C, Optimal(C, F), NEW c \in C, NEW S, ~Uncut(c, S),
         \A f \in F : Uncut(f, S),
         \A f \in C : Uncut(f, S) \/ c.weight <= f.weight
  PROVE  Optimal(C, F \cup {c})
<1> SUFFICES ASSUME NEW es \in SUBSET C, Connects(C, es)
             PROVE  \E M \in SUBSET C :
                      /\ F \cup {c} \subseteq M /\ Connects(C, M)
                      /\ Cardinality(M) = Cardinality(es) /\ WeightOf(M) <= WeightOf(es)
  BY DEF Optimal
<1>1. PICK M \in SUBSET C :
        /\ F \subseteq M /\ Connects(C, M)
        /\ Cardinality(M) = Cardinality(es) /\ WeightOf(M) <= WeightOf(es)
  BY DEF Optimal
<1>2. CASE c \in M
  BY <1>1, <1>2
<1>3. CASE c \notin M
  <2>1. IsFiniteSet(M) /\ c.destination \in Component(M, c.source)
    BY <1>1, FS_Subset DEF Connects
  <2>2. PICK f \in M : /\ ~Uncut(f, S)
                       /\ \A v : Component((M \ {f}) \cup {c}, v) = Component(M, v)
    BY <2>1, Exchange
  <2> DEFINE R == M \ {f}
             N == R \cup {c}
  <2>3. N \in SUBSET C /\ F \cup {c} \subseteq N
    BY <1>1, <2>2
  <2>4. Connects(C, N)
    BY <1>1, <2>2 DEF Connects
  <2>5. Cardinality(N) = Cardinality(es)
    <3>1. IsFiniteSet(R) /\ Cardinality(R) = Cardinality(M) - 1 /\ c \notin R
      BY <1>3, <2>1, FS_RemoveElement
    <3> HIDE DEF R
    <3>2. Cardinality(N) = Cardinality(R) + 1
      BY <3>1, FS_AddElement
    <3> QED
      BY <1>1, <2>1, <3>1, <3>2, FS_CardinalityType
  <2>6. WeightOf(N) <= WeightOf(es)
    <3>1. IsFiniteSet(R) /\ f \notin R /\ c \notin R /\ R \cup {f} = M
          /\ (\A x \in R : x.weight \in Int) /\ f.weight \in Int /\ c.weight \in Int
      BY <1>3, <2>1, <2>2, FS_RemoveElement
    <3> HIDE DEF R
    <3>2. WeightOf(M) = WeightOf(R) + f.weight /\ WeightOf(R) \in Int
      BY <3>1, WeightOfAdd
    <3>3. WeightOf(N) = WeightOf(R) + c.weight
      BY <3>1, WeightOfAdd
    <3>4. c.weight <= f.weight
      BY <2>2
    <3>5. WeightOf(es) \in Int
      <4>1. es \in SUBSET C
        OBVIOUS
      <4> QED
        BY <4>1, WeightOfSubsets
    <3> DEFINE a == c.weight
               b == f.weight
               r == WeightOf(R)
               m == WeightOf(M)
               n == WeightOf(N)
               t == WeightOf(es)
    <3>6. m = r + b /\ n = r + a /\ a <= b /\ m <= t
          /\ a \in Int /\ b \in Int /\ r \in Int /\ t \in Int
      BY <1>1, <3>1, <3>2, <3>3, <3>4, <3>5
    <3> HIDE DEF a, b, r, m, n, t
    <3>7. n <= t
      BY ONLY <3>6
    <3> QED
      BY <3>7 DEF n, t
  <2> QED
    BY <2>3, <2>4, <2>5, <2>6
<1> QED
  BY <1>2, <1>3

LEMMA OptimalIsLightest ==
  ASSUME NEW C, IsFiniteSet(C), NEW F, Optimal(C, F),
         NEW es \in SUBSET C, Connects(C, es), Cardinality(es) = Cardinality(F)
  PROVE  WeightOf(F) <= WeightOf(es)
<1>1. PICK M \in SUBSET C :
        /\ F \subseteq M
        /\ Cardinality(M) = Cardinality(es) /\ WeightOf(M) <= WeightOf(es)
  BY DEF Optimal
<1>2. IsFiniteSet(M)
  BY FS_Subset
<1>3. F = M
  BY <1>1, <1>2, FS_Subset
<1> QED
  BY <1>1, <1>3

-----------------------------------------------------------------------------
(***************************************************************************)
(* The result is part of a lightest set of candidates.  Every edge is      *)
(* listed twice; what can be chosen is the one of the two that goes up.    *)
(***************************************************************************)
LEMMA ToSetFinite ==
  ASSUME NEW T, NEW s \in Seq(T)
  PROVE  IsFiniteSet(ToSet(s))
<1>1. Len(s) \in Nat /\ DOMAIN s = 1..Len(s) /\ IsFiniteSet(1..Len(s))
  <2>1. Len(s) \in Nat /\ DOMAIN s = 1..Len(s)
    OBVIOUS
  <2> QED
    BY <2>1, FS_Interval
<1>2. ToSet(s) = {s[i] : i \in 1..Len(s)}
  BY <1>1 DEF ToSet
<1> QED
  BY <1>1, <1>2, ImageFinite

LEMMA EntriesFinite ==
  ASSUME NEW g, Mirrored(g)
  PROVE  IsFiniteSet(Slots(g)) /\ IsFiniteSet(EntriesOf(g, Slots(g)))
<1> DEFINE L == [v \in Slots(g) |-> ToSet(getAdjacentEdges(g, v))]
           lists == {L[v] : v \in Slots(g)}
<1>1. IsFiniteSet(Slots(g))
  BY FS_Interval DEF Slots, Mirrored
<1>2. \A v \in Slots(g) : IsFiniteSet(L[v])
  BY ToSetFinite DEF Mirrored
<1>3. EntriesOf(g, Slots(g)) = UNION lists
  BY DEF EntriesOf
<1>4. IsFiniteSet(lists)
  <2> HIDE DEF L
  <2> QED
    BY <1>1, ImageFinite
<1>5. \A T \in lists : IsFiniteSet(T)
  BY <1>2
<1> HIDE DEF lists
<1> QED
  BY <1>1, <1>3, <1>4, <1>5, FS_UNION

Candidates ==
  {e \in AllEntries : e.source \in Reach /\ e.source < e.destination /\ e.destination \in Slots(graph)}

Ascending(e) ==
  IF e.source < e.destination THEN e ELSE Edge(e.destination, e.source, e.weight)

Chosen == {Ascending(e) : e \in ToSet(mst)}

MinimalInv ==
  /\ mst \in Seq(AllEntries)
  /\ Chosen \subseteq Candidates
  /\ Cardinality(Chosen) = Len(mst)
  /\ WeightOf(Chosen) = WeightOf(ToSet(mst))
  /\ Optimal(Candidates, Chosen)

LEMMA CandidatesFinite ==
  ASSUME Mirrored(graph)
  PROVE  /\ IsFiniteSet(Candidates) /\ \A f \in Candidates : f \in AllEntries /\ f.weight \in Int
         /\ \A e \in AllEntries : Ascending(e).weight = e.weight /\ e.weight \in Int
         /\ \A e, S : Uncut(Ascending(e), S) <=> Uncut(e, S)
<1>1. IsFiniteSet(Candidates)
  BY EntriesFinite, FS_Subset DEF Candidates, AllEntries
<1>2. \A f \in Candidates : f \in AllEntries /\ f.weight \in Int
  BY AllEntriesOwner DEF Candidates
<1>3. \A e \in AllEntries : Ascending(e).weight = e.weight /\ e.weight \in Int
  BY AllEntriesOwner DEF Ascending, Edge
<1>4. \A e, S : Uncut(Ascending(e), S) <=> Uncut(e, S)
  BY DEF Ascending, Uncut, Edge
<1> QED
  BY <1>1, <1>2, <1>3, <1>4

LEMMA NothingChosen ==
  ASSUME Mirrored(graph), mst = <<>>
  PROVE  MinimalInv
<1>1. ToSet(mst) = {} /\ Chosen = {}
  BY ToSetEmpty DEF Chosen
<1>2. Optimal(Candidates, {})
  <2> SUFFICES ASSUME NEW es \in SUBSET Candidates, Connects(Candidates, es)
               PROVE  \E M \in SUBSET Candidates :
                        /\ {} \subseteq M /\ Connects(Candidates, M)
                        /\ Cardinality(M) = Cardinality(es) /\ WeightOf(M) <= WeightOf(es)
    BY DEF Optimal
  <2>1. WeightOf(es) \in Int
    BY CandidatesFinite, WeightOfSubsets
  <2> QED
    BY <2>1
<1>3. Cardinality({}) = 0 /\ Len(mst) = 0 /\ mst \in Seq(AllEntries)
  BY FS_EmptySet
<1> QED
  BY <1>1, <1>2, <1>3 DEF MinimalInv

LEMMA MinimalStep ==
  ASSUME Mirrored(graph), MinimalInv, NEW e \in AllEntries, NEW S, Lightest(e, S),
         Ascending(e) \in Candidates, mst' = Append(mst, e), UNCHANGED <<graph, algorithm>>
  PROVE  MinimalInv'
<1> DEFINE c == Ascending(e)
<1>1. Candidates' = Candidates /\ AllEntries' = AllEntries
  BY DEF Candidates, AllEntries, Reach
<1>2. /\ ToSet(mst') = ToSet(mst) \cup {e} /\ mst' \in Seq(AllEntries)
      /\ Len(mst') = Len(mst) + 1 /\ Len(mst) \in Nat
      /\ \A f \in ToSet(mst) : f \in AllEntries
  <2>1. mst \in Seq(AllEntries)
    BY DEF MinimalInv
  <2>2. ToSet(mst') = ToSet(mst) \cup {e} /\ mst' \in Seq(AllEntries)
    BY ONLY <2>1, mst' = Append(mst, e), e \in AllEntries, ToSetAppend
  <2>3. Len(mst') = Len(mst) + 1 /\ Len(mst) \in Nat
    BY ONLY <2>1, mst' = Append(mst, e), e \in AllEntries
  <2>4. \A f \in ToSet(mst) : f \in AllEntries
    BY ONLY <2>1, ElementOf
  <2> QED
    BY <2>2, <2>3, <2>4
<1>3. Chosen' = Chosen \cup {c}
  BY <1>2 DEF Chosen
<1>4. /\ ~Uncut(c, S) /\ \A f \in Chosen : Uncut(f, S)
      /\ \A f \in Candidates : Uncut(f, S) \/ c.weight <= f.weight
  BY CandidatesFinite DEF Lightest, Chosen
<1>5. c \notin Chosen /\ e \notin ToSet(mst)
  BY <1>4 DEF Lightest
<1>6. IsFiniteSet(Chosen) /\ Chosen \in SUBSET Candidates
  BY CandidatesFinite, FS_Subset DEF MinimalInv
<1>7. Optimal(Candidates, Chosen \cup {c})
  <2>1. /\ IsFiniteSet(Candidates) /\ \A f \in Candidates : f.weight \in Int
        /\ Optimal(Candidates, Chosen) /\ c \in Candidates
    BY CandidatesFinite DEF MinimalInv
  <2> HIDE DEF c
  <2> QED
    BY ONLY <1>4, <1>6, <2>1, CutProperty
<1>8. Cardinality(Chosen \cup {c}) = Len(mst')
  BY <1>2, <1>5, <1>6, FS_AddElement DEF MinimalInv
<1>9. WeightOf(Chosen \cup {c}) = WeightOf(ToSet(mst'))
  <2>1. WeightOf(Chosen \cup {c}) = WeightOf(Chosen) + c.weight
    <3>1. (\A f \in Chosen : f.weight \in Int) /\ c.weight \in Int
      BY <1>6, CandidatesFinite
    <3> HIDE DEF c
    <3> QED
      BY ONLY <1>5, <1>6, <3>1, WeightOfAdd
  <2>2. WeightOf(ToSet(mst) \cup {e}) = WeightOf(ToSet(mst)) + e.weight
    <3>1. IsFiniteSet(ToSet(mst))
      BY ToSetFinite DEF MinimalInv
    <3>2. (\A f \in ToSet(mst) : f.weight \in Int) /\ e.weight \in Int
      BY <1>2, CandidatesFinite
    <3> DEFINE M == ToSet(mst)
    <3>3. e \notin M /\ IsFiniteSet(M) /\ (\A f \in M : f.weight \in Int) /\ e.weight \in Int
      BY <1>5, <3>1, <3>2
    <3> HIDE DEF M
    <3>4. WeightOf(M \cup {e}) = WeightOf(M) + e.weight
      BY ONLY <3>3, WeightOfAdd
    <3> QED
      BY <3>4 DEF M
  <2> QED
    BY <1>2, <2>1, <2>2, CandidatesFinite DEF MinimalInv
<1> QED
  BY <1>1, <1>2, <1>3, <1>6, <1>7, <1>8, <1>9 DEF MinimalInv

-----------------------------------------------------------------------------
(***************************************************************************)
(* Prim's tree.  The vertices visited are those its edges connect with 0,  *)
(* one more than the edges; at the end no edge lighter than the initial    *)
(* key leaves them.                                                        *)
(***************************************************************************)
LEMMA ComponentGrows ==
  ASSUME NEW es, NEW v, NEW e, e.source \in Component(es, v),
         \A f \in es : f.source \in Component(es, v) /\ f.destination \in Component(es, v)
  PROVE  Component(es \cup {e}, v) = Component(es, v) \cup {e.destination}
<1> DEFINE C == Component(es, v)
           N == Component(es \cup {e}, v)
           U == C \cup {e.destination}
<1>1. v \in C /\ v \in N
      /\ \A f \in es \cup {e} : f.source \in N <=> f.destination \in N
  BY ComponentHolds
<1>2. C \subseteq N
  <2>1. es \in SUBSET (es \cup {e})
    OBVIOUS
  <2> QED
    BY <2>1, ComponentMore
<1>3. N \subseteq U
  <2>1. v \in U /\ \A f \in es \cup {e} : f.source \in U <=> f.destination \in U
    BY <1>1
  <2> HIDE DEF U, C
  <2> QED
    BY <2>1, ComponentWithin
<1> HIDE DEF C, N
<1>4. U \subseteq N
  BY <1>1, <1>2 DEF C
<1> QED
  BY <1>3, <1>4 DEF C, N

Light == {e \in AllEntries : e.weight < MaxInt /\ e.destination \in Slots(graph)}

PrimReached ==
  algorithm = "prim" =>
    /\ visited \subseteq Tree(OneWay(Light), 0)
    /\ \A f \in ToSet(mst) : f.source \in visited /\ f.destination \in visited
    /\ 0 \in visited \/ (visited = {} /\ mst = <<>>)
    /\ 0 \in visited => Cardinality(visited) = Len(mst) + 1 /\ Component(ToSet(mst), 0) = visited

PrimQueued ==
  Running =>
    /\ \A p \in pq : p[2] = 0 \/ p[2] \in visited \/ parent[p[2]] # -1
    /\ \A v \in Slots(graph) \ visited : parent[v] # -1 => key[v] < MaxInt

PrimFinished ==
  algorithm = "prim" =>
    /\ phase = "done" =>
         /\ 0 \in visited
         /\ \A f \in EntriesOf(graph, visited) :
              /\ f.destination \in Slots(graph)
              /\ f.destination \in visited \/ MaxInt <= f.weight
    /\ phase = "outOfBounds" =>
         \E f \in EntriesOf(graph, visited) : f.destination \notin Slots(graph)

PrimGrowth == PrimReached /\ PrimQueued /\ PrimFinished

LEMMA VisitReaches ==
  ASSUME TypeInv, PrimReached, PrimQueued, PrimStep, NEW p \in pq, Pop(p), PrimVisits(p[2])
  PROVE  PrimReached'
<1> DEFINE u == p[2]
<1>1. /\ phase = "prim" /\ algorithm = "prim" /\ u \in Slots(graph) \ visited
      /\ visited' = visited \cup {u} /\ UNCHANGED <<graph, AllEntries, Light>>
      /\ mst' = IF parent[u] = -1 THEN mst ELSE Append(mst, Edge(parent[u], u, key[u]))
  BY PopIsLeast DEF PrimStep, PrimVisits, TypeInv, LabelsInv, AllEntries, Light
<1>2. visited \subseteq Slots(graph) /\ mst \in Seq(AllEntries)
  BY DEF TypeInv, ArraysTyped
<1>3. CASE 0 \notin visited
  <2>1. u = 0 /\ parent[u] = -1 /\ mst = <<>> /\ visited = {}
    BY <1>1, <1>3 DEF PrimReached, TypeInv, Inv, PrimInv, FirstVisit, Running
  <2>2. visited' = {0} /\ mst' = <<>> /\ ToSet(mst') = {}
    BY <1>1, <2>1, ToSetEmpty
  <2>3. 0 \in Tree(OneWay(Light), 0)
    BY TreeHolds
  <2>4. Component({}, 0) = {0}
    BY ComponentHolds, ComponentWithin
  <2>5. Cardinality({0}) = 1 /\ Len(<<>>) = 0
    BY FS_Singleton
  <2>6. /\ visited' \subseteq Tree(OneWay(Light'), 0) /\ 0 \in visited' /\ ToSet(mst') = {}
        /\ Cardinality(visited') = Len(mst') + 1 /\ Component(ToSet(mst'), 0) = visited'
    <3>1. visited' \subseteq Tree(OneWay(Light'), 0)
      <4>1. Light' = Light
        BY <1>1
      <4> QED
        BY ONLY <4>1, <2>2, <2>3
    <3>2. Cardinality(visited') = Len(mst') + 1
      BY ONLY <2>2, <2>5
    <3>3. Component(ToSet(mst'), 0) = visited'
      BY ONLY <2>2, <2>4
    <3> QED
      BY <2>2, <3>1, <3>2, <3>3
  <2> QED
    BY <2>6 DEF PrimReached
<1>4. CASE 0 \in visited
  <2> DEFINE e == Edge(parent[u], u, key[u])
             M == ToSet(mst)
  <2>1. parent[u] # -1 /\ key[u] < MaxInt
    BY <1>1, <1>4 DEF PrimQueued, Running
  <2>2. /\ parent[u] \in visited /\ e \in AllEntries /\ mst' = Append(mst, e)
        /\ e.source = parent[u] /\ e.destination = u /\ e.weight = key[u]
    BY <1>1, <2>1 DEF TypeInv, Inv, PrimInv, ParentsInv, Running, Edge
  <2>3. e \in Light
    BY <1>1, <2>1, <2>2 DEF Light
  <2> HIDE DEF e
  <2>4. /\ visited \subseteq Tree(OneWay(Light), 0)
        /\ \A f \in M : f.source \in visited /\ f.destination \in visited
        /\ Cardinality(visited) = Len(mst) + 1 /\ Component(M, 0) = visited
    BY <1>1, <1>4 DEF PrimReached
  <2>5. u \in Tree(OneWay(Light), 0)
    <3> DEFINE l == <<e.source, e.destination>>
    <3>1. l \in OneWay(Light) /\ l[1] = parent[u] /\ l[2] = u
      BY <2>2, <2>3 DEF OneWay
    <3> HIDE DEF l
    <3> QED
      BY <2>2, <2>4, <3>1, TreeHolds
  <2>6. ToSet(mst') = M \cup {e} /\ Len(mst') = Len(mst) + 1 /\ Len(mst) \in Nat
    BY ONLY <1>2, <2>2, ToSetAppend
  <2> HIDE DEF M
  <2>7. Component(M \cup {e}, 0) = visited \cup {u}
    <3>1. /\ e.source \in Component(M, 0)
          /\ \A f \in M : f.source \in Component(M, 0) /\ f.destination \in Component(M, 0)
      BY <2>2, <2>4
    <3>2. Component(M \cup {e}, 0) = Component(M, 0) \cup {e.destination}
      <4>1. \A r : /\ e.source \in Component(M, r)
                   /\ \A f \in M : f.source \in Component(M, r) /\ f.destination \in Component(M, r)
                   => Component(M \cup {e}, r) = Component(M, r) \cup {e.destination}
        BY ComponentGrows
      <4> QED
        BY ONLY <3>1, <4>1
    <3> QED
      BY <2>2, <2>4, <3>2
  <2>8. Cardinality(visited \cup {u}) = Cardinality(visited) + 1
    <3>1. IsFiniteSet(visited)
      BY <1>2, EntriesFinite, FS_Subset DEF TypeInv, Inv
    <3> QED
      BY <1>1, <3>1, FS_AddElement
  <2>9. \A f \in M \cup {e} : f.source \in visited \cup {u} /\ f.destination \in visited \cup {u}
    BY <2>2, <2>4
  <2>10. Cardinality(visited \cup {u}) = Len(mst') + 1
    BY <2>4, <2>6, <2>8
  <2> QED
    BY <1>1, <1>4, <2>4, <2>5, <2>6, <2>7, <2>9, <2>10 DEF PrimReached
<1> QED
  BY <1>3, <1>4

LEMMA PrimGrowthStep ==
  ASSUME TypeInv, PrimGrowth, Next
  PROVE  PrimGrowth'
<1>1. CASE Refuse \/ StartKruskal \/ KruskalStep \/ KruskalEnds
  BY <1>1 DEF Refuse, StartKruskal, KruskalStep, KruskalEnds, TypeInv, LabelsInv, PrimGrowth,
              PrimReached, PrimQueued, PrimFinished, Running
<1>2. CASE StartPrim
  <2>1. /\ phase' = "prim" /\ visited' = {} /\ mst' = <<>> /\ pq' = {<<0, 0>>}
        /\ graph' = graph /\ parent' = [v \in Slots(graph) |-> -1]
    BY <1>2 DEF StartPrim, TypeInv, Inv
  <2>2. ToSet(<<>>) = {}
    BY ToSetEmpty
  <2>3. PrimReached'
    BY <2>1, <2>2 DEF PrimReached
  <2>4. PrimQueued'
    BY <2>1 DEF PrimQueued
  <2> QED
    BY <2>1, <2>3, <2>4 DEF PrimGrowth, PrimFinished
<1>3. CASE PrimStep
  <2>1. PICK p \in pq : Pop(p) /\ (PrimVisits(p[2]) \/ PrimSkips(p[2]))
    BY <1>3 DEF PrimStep
  <2>2. /\ phase = "prim" /\ phase' \in {"prim", "relax"} /\ pq' \subseteq pq
        /\ visited \subseteq visited'
        /\ UNCHANGED <<graph, algorithm, parent, key, AllEntries, Light>>
    BY <1>3, <2>1 DEF PrimStep, Pop, PrimVisits, PrimSkips, AllEntries, Light
  <2>3. PrimQueued'
    BY <2>2 DEF PrimGrowth, PrimQueued, Running
  <2>4. PrimReached'
    <3>1. CASE PrimSkips(p[2])
      BY <2>2, <3>1 DEF PrimGrowth, PrimReached, PrimSkips
    <3> QED
      BY <1>3, <2>1, <3>1, VisitReaches DEF PrimGrowth
  <2> QED
    BY <2>2, <2>3, <2>4 DEF PrimGrowth, PrimFinished
<1>4. CASE PrimNeighbor
  <2> DEFINE e == Head(neighbors)
  <2>1. /\ phase = "relax" /\ algorithm = "prim" /\ phase' \in {"relax", "outOfBounds"}
        /\ UNCHANGED <<graph, algorithm, mst, visited, AllEntries, Light>>
    BY <1>4 DEF PrimNeighbor, TypeInv, LabelsInv, AllEntries, Light
  <2>2. e \in EntriesOf(graph, visited) /\ 0 \in visited /\ visited \in SUBSET Slots(graph)
    <3>1. /\ neighbors \in Seq(EntriesOf(graph, visited)) /\ neighbors # <<>>
          /\ 0 \in visited /\ visited \in SUBSET Slots(graph)
      BY <1>4, <2>1 DEF TypeInv, Inv, PrimInv, PrimTypes, FirstVisit, Running, PrimNeighbor
    <3> QED
      BY <3>1, ToSetHeadTail, ElementOf
  <2>3. PrimReached'
    BY <2>1 DEF PrimGrowth, PrimReached
  <2>4. PrimFinished'
    BY <1>4, <2>1, <2>2 DEF PrimFinished, PrimNeighbor
  <2>5. CASE phase' = "outOfBounds"
    BY <2>3, <2>4, <2>5 DEF PrimGrowth, PrimQueued, Running
  <2>6. CASE phase' = "relax"
    <3>1. /\ e.destination \in Slots(graph)
          /\ PrimRelaxes(e.source, e.destination, e.weight)
      BY <1>4, <2>6 DEF PrimNeighbor
    <3>2. e.source \in Slots(graph) /\ e.weight \in Int /\ e.source # -1
      <4>1. e.source \in Slots(graph) /\ e.weight \in Int
        BY <2>2, EntryOwner DEF TypeInv, Inv
      <4> QED
        BY <4>1 DEF Slots, TypeInv, Inv, Mirrored
    <3> DEFINE v == e.destination
               w == e.weight
               s == e.source
    <3> HIDE DEF e
    <3>3. /\ key \in [Slots(graph) -> Int] /\ parent \in [Slots(graph) -> Slots(graph) \cup {-1}]
          /\ pq \subseteq Int \X Slots(graph)
          /\ \A p \in pq : p[2] = 0 \/ p[2] \in visited \/ parent[p[2]] # -1
          /\ \A x \in Slots(graph) \ visited : parent[x] # -1 => key[x] < MaxInt
      BY <2>1 DEF TypeInv, ArraysTyped, PrimGrowth, PrimQueued, Running
    <3>4. CASE Improves(v, w)
      <4>1. /\ parent' = [parent EXCEPT ![v] = s] /\ key' = [key EXCEPT ![v] = w]
            /\ pq' = pq \cup {<<w, v>>}
        BY <3>1, <3>4 DEF PrimRelaxes
      <4>2. w < MaxInt
        <5>1. v # 0 /\ w < key[v] /\ key[v] <= MaxInt /\ key[v] \in Int
          BY <2>1, <2>2, <3>1, <3>3, <3>4 DEF Improves, TypeInv, Inv, PrimInv, KeysInv, Running
        <5> QED
          BY ONLY <5>1, <3>2, MaxIntAssumption
      <4>3. \A x \in Slots(graph) : parent'[x] = IF x = v THEN s ELSE parent[x]
        BY <3>1, <3>3, <4>1
      <4>4. \A x \in Slots(graph) : key'[x] = IF x = v THEN w ELSE key[x]
        BY <3>1, <3>3, <4>1
      <4>5. ASSUME NEW p \in pq' PROVE p[2] = 0 \/ p[2] \in visited \/ parent'[p[2]] # -1
        <5>1. CASE p \in pq
          <6>1. p[2] \in Slots(graph)
            BY <3>3, <5>1
          <6> QED
            BY <3>2, <3>3, <4>3, <5>1, <6>1
        <5>2. CASE p = <<w, v>>
          BY <3>1, <3>2, <4>3, <5>2
        <5> QED
          BY <4>1, <5>1, <5>2
      <4>6. \A x \in Slots(graph) \ visited : parent'[x] # -1 => key'[x] < MaxInt
        BY <3>3, <4>2, <4>3, <4>4
      <4> QED
        BY <2>1, <2>3, <2>4, <4>5, <4>6 DEF PrimGrowth, PrimQueued
    <3>5. CASE ~Improves(v, w)
      <4>1. UNCHANGED <<parent, key, pq>>
        BY <3>1, <3>5 DEF PrimRelaxes
      <4> QED
        BY <2>1, <2>3, <2>4, <3>3, <4>1 DEF PrimGrowth, PrimQueued
    <3> QED
      BY <3>4, <3>5
  <2> QED
    BY <2>1, <2>5, <2>6
<1>5. CASE PrimScanned
  BY <1>5 DEF PrimScanned, PrimGrowth, PrimReached, PrimQueued, PrimFinished, Running,
              AllEntries, Light
<1>6. CASE PrimEnds
  <2>1. /\ phase = "prim" /\ pq = {} /\ phase' = "done"
        /\ UNCHANGED <<graph, algorithm, mst, visited, AllEntries, Light>>
    BY <1>6 DEF PrimEnds, AllEntries, Light
  <2>2. PrimReached' /\ PrimQueued'
    BY <2>1 DEF PrimGrowth, PrimReached, PrimQueued, Running
  <2>3. 0 \in visited
    BY <2>1 DEF TypeInv, Inv, PrimInv, FirstVisit, Running
  <2>4. ASSUME NEW f \in EntriesOf(graph, visited)
        PROVE  /\ f.destination \in Slots(graph)
               /\ f.destination \in visited \/ MaxInt <= f.weight
    <3>1. Scanned(f)
      BY <2>1 DEF TypeInv, Inv, PrimInv, ScanInv, Running
    <3>2. CASE f.destination \notin visited
      <4>1. f.destination \in Slots(graph) \ visited /\ key[f.destination] <= f.weight
        BY <3>1, <3>2 DEF Scanned
      <4>2. parent[f.destination] = -1
        BY <2>1, <4>1 DEF TypeInv, Inv, PrimInv, ParentsInv, Running
      <4>3. key[f.destination] = MaxInt
        BY <2>1, <2>3, <4>1, <4>2 DEF TypeInv, Inv, PrimInv, KeysInv, Running
      <4> QED
        BY <4>1, <4>3
    <3> QED
      BY <3>1, <3>2 DEF Scanned
  <2> QED
    BY <2>1, <2>2, <2>3, <2>4 DEF PrimGrowth, PrimFinished
<1> QED
  BY <1>1, <1>2, <1>3, <1>4, <1>5, <1>6 DEF Next

-----------------------------------------------------------------------------
(***************************************************************************)
(* Kruskal's forest.  Two vertices are in one set of the union-find        *)
(* structure when edges chosen so far connect them, and every edge chosen  *)
(* has made one set of two.  An edge that leaves the arrays stays in the   *)
(* queue until it ends the run, so it is no lighter than any edge taken.   *)
(***************************************************************************)
\* p gives two vertices of V one value exactly when the edges es connect them.
Sorts(p, V, es) == \A u, v \in V : p[u] = p[v] <=> v \in Component(es, u)

LEMMA JoinClasses ==
  ASSUME NEW V, NEW p, NEW q, NEW M, NEW e, e.source \in V, e.destination \in V,
         \A f \in M : f.source \in V /\ f.destination \in V,
         Sorts(p, V, M),
         \A v \in V : q[v] = IF p[v] = p[e.source] THEN p[e.destination] ELSE p[v]
  PROVE  Sorts(q, V, M \cup {e})
<1> DEFINE N(u) == Component(M \cup {e}, u)
<1>1. \A u : /\ u \in N(u) /\ Component(M, u) \subseteq N(u)
             /\ \A f \in M \cup {e} : f.source \in N(u) <=> f.destination \in N(u)
             /\ \A v \in N(u) : N(v) = N(u)
  <2>1. M \in SUBSET (M \cup {e})
    OBVIOUS
  <2> QED
    BY <2>1, ComponentHolds, ComponentMore, ComponentSame
<1>2. \A u, U : u \in U /\ (\A f \in M \cup {e} : f.source \in U <=> f.destination \in U) => N(u) \subseteq U
  BY ComponentWithin
<1> HIDE DEF N
<1>3. ASSUME NEW u \in V PROVE \A v \in N(u) : q[u] = q[v]
  <2> DEFINE U == {x \in V : q[x] = q[u]}
  <2>1. ASSUME NEW f \in M PROVE f.source \in U <=> f.destination \in U
    <3>1. f.source \in V /\ f.destination \in V /\ f.destination \in Component(M, f.source)
      BY ComponentHolds
    <3>2. p[f.source] = p[f.destination]
      BY <3>1 DEF Sorts
    <3> QED
      BY <3>1, <3>2
  <2>2. e.source \in U <=> e.destination \in U
    OBVIOUS
  <2>3. u \in U
    OBVIOUS
  <2>4. N(u) \subseteq U
    <3> HIDE DEF U
    <3> QED
      BY <1>2, <2>1, <2>2, <2>3
  <2> QED
    BY <2>4
<1>4. ASSUME NEW u \in V, NEW v \in V, p[u] = p[e.source], p[v] = p[e.destination]
      PROVE  N(u) = N(v)
  <2>1. e.source \in N(u) /\ e.destination \in N(v)
    BY <1>1, <1>4 DEF Sorts
  <2>2. e.source \in N(e.source) /\ e.destination \in N(e.source)
    BY <1>1
  <2> QED
    BY <1>1, <2>1, <2>2
<1>5. ASSUME NEW u \in V, NEW v \in V, q[u] = q[v] PROVE v \in N(u)
  <2>1. CASE p[u] = p[v]
    BY <1>1, <2>1 DEF Sorts
  <2>2. CASE p[u] # p[v]
    <3>1. \/ p[u] = p[e.source] /\ p[v] = p[e.destination]
          \/ p[v] = p[e.source] /\ p[u] = p[e.destination]
      BY <1>5, <2>2
    <3> QED
      BY <1>1, <1>4, <3>1
  <2> QED
    BY <2>1, <2>2
<1> QED
  BY <1>3, <1>5 DEF N, Sorts

LEMMA SlotsCounted ==
  ASSUME NEW g, Mirrored(g)
  PROVE  IsFiniteSet(Slots(g)) /\ Cardinality(Slots(g)) = getVertices(g) /\ getVertices(g) \in Nat
<1> DEFINE n == getVertices(g)
<1>1. n \in Nat /\ n - 1 \in Int /\ Slots(g) = 0..n - 1
  BY DEF Mirrored, Slots
<1> HIDE DEF n
<1>2. IsFiniteSet(0..n - 1) /\ Cardinality(0..n - 1) = IF 0 > n - 1 THEN 0 ELSE (n - 1) - 0 + 1
  BY <1>1, FS_Interval
<1> QED
  BY <1>1, <1>2 DEF n

Classes == {parent[v] : v \in Slots(graph)}

Outside == {f \in AllEntries : f.destination \notin Slots(graph)}

KruskalTrees ==
  algorithm = "kruskal" =>
    /\ Cardinality(Classes) = getVertices(graph) - Len(mst)
    /\ Sorts(parent, Slots(graph), ToSet(mst))
    /\ \A f \in ToSet(mst) : f.destination \in Slots(graph) /\ \A g \in Outside : f.weight <= g.weight

KruskalFinished ==
  algorithm = "kruskal" =>
    /\ phase = "kruskal" => ~Enough(mst)
    /\ phase = "done" => Enough(mst) \/ \A f \in AllEntries : Together(f)
    /\ phase = "outOfBounds" =>
         /\ ~Enough(mst)
         /\ \E g \in Outside : \A f \in AllEntries : f.weight < g.weight => Together(f)

KruskalGrowth == KruskalTrees /\ KruskalFinished

LEMMA TakeJoins ==
  ASSUME TypeInv, KruskalTrees, KruskalStep, NEW e \in allEdges, NextEdge(e),
         e.destination \in Slots(graph), KruskalTakes(e)
  PROVE  KruskalTrees'
<1> DEFINE M == ToSet(mst)
           a == parent[e.source]
           b == parent[e.destination]
<1>1. /\ phase = "kruskal" /\ algorithm = "kruskal" /\ mst \in Seq(AllEntries)
      /\ e \in AllEntries /\ e.source \in Slots(graph) /\ e.weight \in Int
      /\ UNCHANGED <<graph, algorithm, AllEntries, Outside>>
  <2>1. /\ phase = "kruskal" /\ algorithm = "kruskal" /\ mst \in Seq(AllEntries) /\ e \in AllEntries
        /\ UNCHANGED <<graph, algorithm, AllEntries, Outside>>
    BY DEF KruskalStep, TypeInv, LabelsInv, ArraysTyped, AllEntries, Outside
  <2> QED
    BY <2>1, AllEntriesOwner DEF TypeInv, Inv
<1>2. /\ Cardinality(Classes) = getVertices(graph) - Len(mst)
      /\ Sorts(parent, Slots(graph), M)
      /\ \A f \in M : f.destination \in Slots(graph) /\ \A g \in Outside : f.weight <= g.weight
  BY <1>1 DEF KruskalTrees
<1>3. /\ a # b /\ mst' = Append(mst, e)
      /\ \A v \in Slots(graph) : parent'[v] = IF parent[v] = a THEN b ELSE parent[v]
  BY DEF KruskalTakes, unionSets
<1>4. ToSet(mst') = M \cup {e} /\ Len(mst') = Len(mst) + 1 /\ Len(mst) \in Nat
  BY ONLY <1>1, <1>3, ToSetAppend
<1>5. \A f \in M : f.source \in Slots(graph) /\ f.destination \in Slots(graph)
  <2>1. \A f \in M : f \in AllEntries
    BY <1>1, ElementOf
  <2> QED
    BY <1>2, <2>1, AllEntriesOwner DEF TypeInv, Inv
<1>6. Sorts(parent', Slots(graph), M \cup {e})
  <2> HIDE DEF M
  <2> QED
    BY <1>1, <1>2, <1>3, <1>5, JoinClasses
<1>7. Classes' = Classes \ {a}
  <2>1. Classes' = {parent'[v] : v \in Slots(graph)}
    BY <1>1 DEF Classes
  <2> QED
    BY <1>1, <1>3, <2>1 DEF Classes
<1>8. Cardinality(Classes') = getVertices(graph) - Len(mst')
  <2>1. IsFiniteSet(Slots(graph)) /\ getVertices(graph) \in Nat
    BY SlotsCounted DEF TypeInv, Inv
  <2>2. IsFiniteSet(Classes) /\ a \in Classes
    BY <1>1, <2>1, ImageFinite DEF Classes
  <2>3. Cardinality(Classes \ {a}) = Cardinality(Classes) - 1
    BY ONLY <2>2, FS_RemoveElement
  <2> QED
    BY <1>2, <1>4, <1>7, <2>1, <2>3
<1>9. \A g \in Outside : e.weight <= g.weight
  <2>1. \A g \in Outside : ~Together(g) /\ g \in AllEntries
    BY DEF Outside, Together
  <2>2. \A g \in Outside : g \in allEdges
    BY <1>1, <2>1 DEF TypeInv, Inv, KruskalInv
  <2> QED
    BY <2>2 DEF NextEdge
<1>10. \A f \in M \cup {e} : f.destination \in Slots(graph) /\ \A g \in Outside : f.weight <= g.weight
  BY <1>2, <1>9
<1> HIDE DEF M
<1> QED
  BY <1>1, <1>4, <1>6, <1>8, <1>10 DEF KruskalTrees

LEMMA KruskalGrowthStep ==
  ASSUME TypeInv, KruskalGrowth, Next
  PROVE  KruskalGrowth'
<1>1. CASE Refuse \/ StartPrim \/ PrimStep \/ PrimNeighbor \/ PrimScanned \/ PrimEnds
  BY <1>1 DEF Refuse, StartPrim, PrimStep, PrimNeighbor, PrimScanned, PrimEnds, TypeInv, LabelsInv,
              KruskalGrowth, KruskalTrees, KruskalFinished
<1>2. CASE StartKruskal
  <2>1. /\ phase' = "kruskal" /\ graph' = graph /\ mst' = <<>> /\ ToSet(<<>>) = {}
        /\ \A v \in Slots(graph) : parent'[v] = v
        /\ getVertices(graph) >= 2
    BY <1>2, ToSetEmpty DEF StartKruskal, TypeInv, Inv
  <2>2. Sorts(parent', Slots(graph), {})
    <3>1. \A u : Component({}, u) = {u}
      BY ComponentHolds, ComponentWithin
    <3> QED
      BY <2>1, <3>1 DEF Sorts
  <2>3. Classes' = Slots(graph)
    <3>1. Classes' = {parent'[v] : v \in Slots(graph)}
      BY <2>1 DEF Classes
    <3> QED
      BY <2>1, <3>1
  <2>4. Cardinality(Slots(graph)) = getVertices(graph) /\ getVertices(graph) \in Nat
    BY SlotsCounted DEF TypeInv, Inv
  <2>5. Len(<<>>) = 0 /\ getVertices(graph) - 1 # 0
    BY <2>1, <2>4
  <2>6. KruskalTrees'
    <3>1. Cardinality(Classes') = getVertices(graph') - Len(mst')
      BY <2>1, <2>3, <2>4, <2>5
    <3>2. ToSet(mst') = {} /\ Slots(graph') = Slots(graph)
      BY <2>1
    <3> QED
      BY <2>2, <3>1, <3>2 DEF KruskalTrees
  <2> QED
    BY <2>1, <2>5, <2>6 DEF KruskalGrowth, KruskalFinished, Enough
<1>3. CASE KruskalStep
  <2>1. PICK e \in allEdges :
          /\ NextEdge(e)
          /\ \/ /\ e.destination \in Slots(graph)
                /\ KruskalTakes(e) \/ KruskalSkips(e)
                /\ phase' = IF Enough(mst') THEN "done" ELSE "kruskal"
             \/ /\ e.destination \notin Slots(graph)
                /\ phase' = "outOfBounds"
                /\ UNCHANGED <<mst, parent>>
    BY <1>3 DEF KruskalStep
  <2>2. /\ phase = "kruskal" /\ algorithm = "kruskal"
        /\ UNCHANGED <<graph, algorithm, AllEntries, Outside>>
    BY <1>3 DEF KruskalStep, TypeInv, LabelsInv, AllEntries, Outside
  <2>3. CASE e.destination \in Slots(graph)
    <3>1. KruskalTrees'
      <4>1. CASE KruskalTakes(e)
        BY <1>3, <2>1, <2>3, <4>1, TakeJoins DEF KruskalGrowth
      <4>2. CASE KruskalSkips(e)
        BY <2>2, <4>2 DEF KruskalGrowth, KruskalTrees, KruskalSkips, Classes
      <4> QED
        BY <2>1, <2>3, <4>1, <4>2
    <3>2. /\ phase' \in {"done", "kruskal"}
          /\ phase' = "done" <=> Enough(mst)'
      BY <2>1, <2>2, <2>3 DEF Enough
    <3> QED
      BY <3>1, <3>2 DEF KruskalGrowth, KruskalFinished
  <2>4. CASE e.destination \notin Slots(graph)
    <3>1. phase' = "outOfBounds" /\ UNCHANGED <<mst, parent>>
      BY <2>1, <2>4
    <3>2. KruskalTrees'
      BY <2>2, <3>1 DEF KruskalGrowth, KruskalTrees, Classes
    <3>3. ~Enough(mst)'
      BY <2>2, <3>1 DEF KruskalGrowth, KruskalFinished, Enough
    <3>4. /\ allEdges \subseteq AllEntries
          /\ \A f \in AllEntries \ allEdges : Together(f)
      BY <2>2 DEF TypeInv, Inv, KruskalInv
    <3>5. e \in Outside /\ e.weight \in Int
      BY <2>4, <3>4, AllEntriesOwner DEF Outside, TypeInv, Inv
    <3>6. \A f \in AllEntries : f.weight < e.weight => Together(f)
      <4>1. \A f \in AllEntries : f.weight \in Int
        BY AllEntriesOwner DEF TypeInv, Inv
      <4>2. \A f \in allEdges : e.weight <= f.weight
        BY <2>1 DEF NextEdge
      <4> QED
        BY <3>4, <3>5, <4>1, <4>2
    <3>7. \A f : Together(f)' <=> Together(f)
      BY <2>2, <3>1 DEF Together
    <3> QED
      BY <2>2, <3>1, <3>2, <3>3, <3>5, <3>6, <3>7 DEF KruskalGrowth, KruskalFinished
  <2> QED
    BY <2>3, <2>4
<1>4. CASE KruskalEnds
  <2>1. /\ phase = "kruskal" /\ phase' = "done" /\ allEdges = {}
        /\ UNCHANGED <<graph, algorithm, mst, parent, AllEntries, Outside, Classes>>
    BY <1>4 DEF KruskalEnds, AllEntries, Outside, Classes
  <2>2. \A f \in AllEntries : Together(f)
    BY <2>1 DEF TypeInv, Inv, KruskalInv
  <2>3. \A f : Together(f)' <=> Together(f)
    BY <2>1 DEF Together
  <2> QED
    BY <2>1, <2>2, <2>3 DEF KruskalGrowth, KruskalTrees, KruskalFinished
<1> QED
  BY <1>1, <1>2, <1>3, <1>4 DEF Next

-----------------------------------------------------------------------------
(***************************************************************************)
(* The result is a lightest one.  Each step adds a candidate that is       *)
(* lightest across a cut, so the candidates chosen stay part of a lightest *)
(* set that connects; at the end they connect by themselves.               *)
(***************************************************************************)
LEMMA LightWithin == Tree(OneWay(Light), 0) \subseteq Component(AllEntries, 0)
<1> DEFINE C == Component(AllEntries, 0)
<1>1. 0 \in C /\ \A e \in AllEntries : e.source \in C <=> e.destination \in C
  BY ComponentHolds
<1>2. \A l \in OneWay(Light) : \E e \in AllEntries : l = <<e.source, e.destination>>
  BY DEF OneWay, Light
<1>3. \A l \in OneWay(Light) : l[1] \in C => l[2] \in C
  <2> HIDE DEF C
  <2> QED
    BY <1>1, <1>2
<1> HIDE DEF C
<1>4. Tree(OneWay(Light), 0) \subseteq C
  BY <1>1, <1>3, TreeHolds
<1> QED
  BY <1>4 DEF C

WithinReach ==
  \A e \in ToSet(mst) : e.source \in Reach /\ e.destination \in Reach /\ e.destination \in Slots(graph)

LEMMA EdgesWithinReach ==
  TypeInv /\ PrimReached /\ KruskalTrees /\ algorithm # "none" => WithinReach
<1> SUFFICES ASSUME TypeInv, PrimReached, KruskalTrees, algorithm # "none", NEW e \in ToSet(mst)
             PROVE  e.source \in Reach /\ e.destination \in Reach /\ e.destination \in Slots(graph)
  BY DEF WithinReach
<1>1. e \in AllEntries /\ e.source \in Slots(graph)
  BY ElementOf, AllEntriesOwner DEF TypeInv, Inv
<1>2. CASE algorithm = "prim"
  <2>1. Reach = Component(AllEntries, 0)
    BY <1>2 DEF Reach, Component, AllEntries
  <2>2. e.source \in visited /\ e.destination \in visited /\ visited \subseteq Reach
    BY <1>2, <2>1, LightWithin DEF PrimReached
  <2> QED
    BY <1>1, <2>2 DEF TypeInv, ArraysTyped
<1>3. CASE algorithm = "kruskal"
  <2>1. Reach = Slots(graph)
    BY <1>3 DEF Reach
  <2> QED
    BY <1>1, <1>3, <2>1 DEF KruskalTrees
<1> QED
  BY <1>2, <1>3 DEF TypeInv, ArraysTyped

LEMMA AscendingIsCandidate ==
  ASSUME Mirrored(graph), NEW e \in AllEntries, e.source # e.destination,
         e.source \in Reach, e.destination \in Reach, e.destination \in Slots(graph)
  PROVE  Ascending(e) \in Candidates
<1>1. e.source \in Slots(graph) /\ e.source \in Int /\ e.destination \in Int
  BY AllEntriesOwner DEF Slots, Mirrored
<1>2. CASE e.source < e.destination
  BY <1>2 DEF Ascending, Candidates
<1>3. CASE ~(e.source < e.destination)
  <2> DEFINE r == Edge(e.destination, e.source, e.weight)
  <2>1. r \in AllEntries
    BY DEF Mirrored, AllEntries
  <2>2. r.source = e.destination /\ r.destination = e.source /\ Ascending(e) = r
    BY <1>3 DEF Edge, Ascending
  <2>3. r.source < r.destination
    BY <1>1, <1>3, <2>2
  <2> HIDE DEF r
  <2> QED
    BY <1>1, <2>1, <2>2, <2>3 DEF Candidates
<1> QED
  BY <1>2, <1>3

MSTInv == TypeInv /\ PrimGrowth /\ KruskalGrowth /\ MinimalInv

\* Two of the facts above, of the state after a step.
LEMMA AfterStep ==
  /\ (Mirrored(graph) /\ mst = <<>> => MinimalInv)'
  /\ (TypeInv /\ PrimReached /\ KruskalTrees /\ algorithm # "none" => WithinReach)'
<1>1. Mirrored(graph) /\ mst = <<>> => MinimalInv
  BY NothingChosen
<1>2. TypeInv /\ PrimReached /\ KruskalTrees /\ algorithm # "none" => WithinReach
  BY EdgesWithinReach
<1> QED
  BY <1>1, <1>2, PTL

LEMMA MinimalKept ==
  ASSUME MSTInv, Next, TypeInv', PrimGrowth', KruskalGrowth'
  PROVE  MinimalInv'
<1>1. /\ UNCHANGED graph
      /\ \/ UNCHANGED mst
         \/ /\ phase \in {"kruskal", "prim"} /\ mst \in Seq(AllEntries)
            /\ \E e \in AllEntries : mst' = Append(mst, e) /\ \E S : Lightest(e, S)
  BY StepCut DEF MSTInv, TypeInv
<1>2. CASE StartKruskal \/ StartPrim
  <2>1. mst' = <<>> /\ Mirrored(graph')
    BY <1>1, <1>2 DEF StartKruskal, StartPrim, MSTInv, TypeInv, Inv
  <2> QED
    BY <2>1, AfterStep
<1>3. CASE ~(StartKruskal \/ StartPrim)
  <2>1. UNCHANGED <<graph, algorithm>>
    BY <1>1, <1>3 DEF Next, Refuse, KruskalStep, KruskalEnds, PrimStep, PrimNeighbor, PrimScanned,
                      PrimEnds
  <2>2. UNCHANGED <<AllEntries, Reach, Candidates>>
    BY <2>1 DEF AllEntries, Reach, Candidates
  <2>3. CASE UNCHANGED mst
    <3>1. Chosen' = Chosen
      BY <2>3 DEF Chosen
    <3> QED
      BY <2>2, <2>3, <3>1 DEF MSTInv, MinimalInv
  <2>4. CASE ~UNCHANGED mst
    <3>1. PICK e \in AllEntries : mst' = Append(mst, e) /\ \E S : Lightest(e, S)
      BY <1>1, <2>4
    <3>2. PICK S : Lightest(e, S)
      BY <3>1
    <3>3. algorithm # "none"
      BY <1>1, <2>4 DEF MSTInv, TypeInv, LabelsInv
    <3>4. e \in ToSet(mst')
      BY <1>1, <2>4, <3>1, ToSetAppend
    <3>5. e.source \in Reach /\ e.destination \in Reach /\ e.destination \in Slots(graph)
      <4>1. WithinReach'
        BY <2>1, <3>3, AfterStep DEF PrimGrowth, KruskalGrowth
      <4> QED
        BY <2>1, <2>2, <3>4, <4>1 DEF WithinReach
    <3>6. e.source # e.destination
      BY <3>2 DEF Lightest, Uncut
    <3>7. Ascending(e) \in Candidates
      BY <3>5, <3>6, AscendingIsCandidate DEF MSTInv, TypeInv, Inv
    <3> QED
      BY <2>1, <3>1, <3>2, <3>7, MinimalStep DEF MSTInv, TypeInv, Inv
  <2> QED
    BY <2>3, <2>4
<1> QED
  BY <1>2, <1>3

LEMMA InitMSTInv == ASSUME \A g \in Inputs : Mirrored(g) PROVE Init => MSTInv
<1> SUFFICES ASSUME Init PROVE MSTInv
  OBVIOUS
<1>1. TypeInv
  BY InitTypeInv
<1>2. MinimalInv
  BY <1>1, NothingChosen DEF Init, TypeInv, Inv
<1> QED
  BY <1>1, <1>2 DEF Init, MSTInv, PrimGrowth, PrimReached, PrimQueued, PrimFinished, Running,
                    KruskalGrowth, KruskalTrees, KruskalFinished

LEMMA MSTInvKept == MSTInv /\ [Next]_vars => MSTInv'
<1> SUFFICES ASSUME MSTInv, [Next]_vars PROVE MSTInv'
  OBVIOUS
<1>1. TypeInv'
  BY TypeInvKept DEF MSTInv
<1>2. CASE Next
  <2>1. PrimGrowth' /\ KruskalGrowth'
    BY <1>2, PrimGrowthStep, KruskalGrowthStep DEF MSTInv
  <2> QED
    BY <1>1, <1>2, <2>1, MinimalKept DEF MSTInv
<1>3. CASE UNCHANGED vars
  <2>1. /\ UNCHANGED <<graph, algorithm, phase, mst, parent, visited, key, pq>>
        /\ UNCHANGED <<AllEntries, Reach, Candidates, Chosen, Light, Outside, Classes>>
        /\ \A f : Together(f)' <=> Together(f)
    BY <1>3 DEF vars, AllEntries, Reach, Candidates, Chosen, Light, Outside, Classes, Together
  <2>2. PrimGrowth'
    BY <2>1 DEF MSTInv, PrimGrowth, PrimReached, PrimQueued, PrimFinished, Running
  <2>3. KruskalGrowth'
    BY <2>1 DEF MSTInv, KruskalGrowth, KruskalTrees, KruskalFinished, Enough
  <2>4. MinimalInv'
    BY <2>1 DEF MSTInv, MinimalInv
  <2> QED
    BY <1>1, <2>2, <2>3, <2>4 DEF MSTInv
<1> QED
  BY <1>2, <1>3

-----------------------------------------------------------------------------
\* Edges that connect what a set of edges connects have its components.
LEMMA ConnectsSame ==
  ASSUME NEW C, NEW es \in SUBSET C, Connects(C, es), NEW v
  PROVE  Component(es, v) = Component(C, v)
<1> DEFINE T == Component(es, v)
<1>1. ASSUME NEW f \in C PROVE f.source \in T <=> f.destination \in T
  <2>1. f.destination \in Component(es, f.source)
    BY DEF Connects
  <2>2. /\ Component(es, f.destination) = Component(es, f.source)
        /\ f.source \in Component(es, f.source)
    BY <2>1, ComponentSame, ComponentHolds
  <2>3. \A x \in T : Component(es, x) = T
    BY ComponentSame
  <2> HIDE DEF T
  <2> QED
    BY <2>1, <2>2, <2>3
<1>2. v \in T
  BY ComponentHolds
<1> HIDE DEF T
<1>3. Component(C, v) \subseteq T
  BY <1>1, <1>2, ComponentWithin
<1>4. T \subseteq Component(C, v)
  BY ComponentMore DEF T
<1> QED
  BY <1>3, <1>4 DEF T

\* Functions that tell the same elements apart have as many values.
LEMMA AsManyValues ==
  ASSUME NEW S, IsFiniteSet(S), NEW f, NEW g, \A u, v \in S : f[u] = f[v] <=> g[u] = g[v]
  PROVE  Cardinality({f[v] : v \in S}) = Cardinality({g[v] : v \in S})
<1> DEFINE F == {f[v] : v \in S}
           G == {g[v] : v \in S}
           At(x) == CHOOSE v \in S : f[v] = x
           h == [x \in F |-> g[At(x)]]
<1>1. \A x \in F : At(x) \in S /\ f[At(x)] = x
  OBVIOUS
<1>2. \A v \in S : f[v] \in F /\ g[v] \in G
  OBVIOUS
<1>3. \A v \in S : g[At(f[v])] = g[v]
  BY <1>1, <1>2
<1>4. \A y \in G : \E v \in S : y = g[v]
  OBVIOUS
<1>5. IsFiniteSet(F)
  BY ImageFinite
<1> HIDE DEF F, G, At
<1>6. h \in [F -> G]
  BY <1>1, <1>2
<1>7. \A x, y \in F : h[x] = h[y] => x = y
  BY <1>1
<1>8. \A y \in G : \E x \in F : h[x] = y
  BY <1>2, <1>3, <1>4
<1> HIDE DEF h
<1>9. h \in Bijection(F, G)
  BY <1>6, <1>7, <1>8 DEF Bijection, Injection, Surjection, IsInjective
<1>10. Cardinality(F) = Cardinality(G)
  BY <1>5, <1>9, FS_Bijection DEF ExistsBijection
<1> QED
  BY <1>10 DEF F, G

\* Of the final states of each algorithm: its result connects what can be
\* connected, and has an edge less than vertices in every component.
Finished ==
  /\ Oriented = Candidates
  /\ Connects(Candidates, ToSet(mst))
  /\ Len(mst) = Cardinality(Reach) - Cardinality(TreesOf(ToSet(mst), Reach))

LEMMA OrientedIsCandidates ==
  ASSUME Mirrored(graph), Reach \subseteq Slots(graph)
  PROVE  Oriented = Candidates
<1>1. EntriesOf(graph, Reach) = {e \in AllEntries : e.source \in Reach}
  <2>1. \A e \in EntriesOf(graph, Reach) : e \in AllEntries /\ e.source \in Reach
    BY EntryOwner
  <2>2. ASSUME NEW e \in AllEntries, e.source \in Reach PROVE e \in EntriesOf(graph, Reach)
    BY <2>2, EntryAt
  <2> QED
    BY <2>1, <2>2
<1> QED
  BY <1>1 DEF Oriented, Candidates

LEMMA PrimIsFinished ==
  ASSUME TypeInv, PrimGrowth, phase = "done", algorithm = "prim", Usable
  PROVE  Finished
<1> DEFINE M == ToSet(mst)
<1>1. Mirrored(graph) /\ Reach = Component(AllEntries, 0)
  BY DEF TypeInv, Inv, Reach, Component, AllEntries
<1>2. /\ 0 \in visited /\ visited \subseteq Slots(graph) /\ visited \subseteq Reach
      /\ Cardinality(visited) = Len(mst) + 1 /\ Component(M, 0) = visited
      /\ \A f \in EntriesOf(graph, visited) :
           /\ f.destination \in Slots(graph)
           /\ f.destination \in visited \/ MaxInt <= f.weight
  BY <1>1, LightWithin DEF TypeInv, ArraysTyped, PrimGrowth, PrimReached, PrimFinished
<1>3. \A f \in AllEntries : f.source \in Reach <=> f.destination \in Reach
  BY <1>1, ComponentHolds
<1>4. ASSUME NEW f \in AllEntries, f.source \in visited PROVE f.destination \in visited
  <2>1. f \in EntriesOf(graph, visited) /\ f.weight \in Int
        /\ f.source \in Slots(graph) /\ f.destination \in Int
    BY <1>1, <1>4, EntryAt, AllEntriesOwner
  <2>2. f.destination \in Slots(graph) /\ f.source \in Int
    BY <1>1, <1>2, <2>1 DEF Slots, Mirrored
  <2>3. f.source \in Reach /\ f.destination \in Reach
    BY <1>2, <1>3, <1>4
  <2>4. CASE f.source < f.destination
    <3>1. f \in EntriesOf(graph, Reach)
      BY <1>1, <2>3, EntryAt
    <3>2. f.weight < MaxInt
      BY <2>2, <2>4, <3>1 DEF Usable, Oriented
    <3> QED
      BY <1>2, <2>1, <3>2, MaxIntAssumption
  <2>5. CASE f.destination < f.source
    <3> DEFINE r == Edge(f.destination, f.source, f.weight)
    <3>1. r \in AllEntries
      BY <1>1, <2>2 DEF Mirrored, AllEntries
    <3>2. r.source = f.destination /\ r.destination = f.source /\ r.weight = f.weight
      BY DEF Edge
    <3> HIDE DEF r
    <3>3. r \in EntriesOf(graph, Reach)
      BY <1>1, <2>3, <3>1, <3>2, EntryAt
    <3>4. r.weight < MaxInt
      BY <2>1, <2>5, <3>2, <3>3 DEF Usable, Oriented
    <3> QED
      BY <1>2, <2>1, <3>2, <3>4, MaxIntAssumption
  <2>6. CASE f.source = f.destination
    BY <1>4, <2>6
  <2> QED
    BY <2>1, <2>2, <2>4, <2>5, <2>6
<1>5. ASSUME NEW f \in AllEntries, f.destination \in visited PROVE f.source \in visited
  <2> DEFINE r == Edge(f.destination, f.source, f.weight)
  <2>1. r \in AllEntries
    BY <1>1, <1>2, <1>5 DEF Mirrored, AllEntries
  <2>2. r.source = f.destination /\ r.destination = f.source
    BY DEF Edge
  <2> HIDE DEF r
  <2> QED
    BY <1>4, <1>5, <2>1, <2>2
<1>6. Reach = visited
  BY <1>1, <1>2, <1>4, <1>5, ComponentWithin
<1>7. Oriented = Candidates
  BY <1>1, <1>2, <1>6, OrientedIsCandidates
<1>8. \A v \in visited : Component(M, v) = visited
  BY <1>2, ComponentSame
<1>9. Connects(Candidates, M)
  BY <1>4, <1>6, <1>8 DEF Connects, Candidates
<1>10. TreesOf(M, Reach) = {visited}
  BY <1>2, <1>6, <1>8 DEF TreesOf, Component
<1>11. Cardinality({visited}) = 1 /\ Len(mst) \in Nat
  <2>1. Cardinality({visited}) = 1
    BY FS_Singleton
  <2>2. mst \in Seq(AllEntries)
    BY DEF TypeInv
  <2> QED
    BY <2>1, <2>2
<1> QED
  BY <1>2, <1>6, <1>7, <1>9, <1>10, <1>11 DEF Finished

\* With an edge less than vertices, the sets of the union-find structure are one.
LEMMA EnoughIsOne ==
  ASSUME TypeInv, KruskalGrowth, algorithm = "kruskal", Enough(mst)
  PROVE  \A u, v \in Slots(graph) : parent[u] = parent[v]
<1>1. /\ IsFiniteSet(Slots(graph)) /\ getVertices(graph) \in Nat
      /\ Cardinality(Classes) = getVertices(graph) - Len(mst)
  BY SlotsCounted DEF TypeInv, Inv, KruskalGrowth, KruskalTrees
<1>2. IsFiniteSet(Classes)
  BY <1>1, ImageFinite DEF Classes
<1>3. Cardinality(Classes) = 1
  BY <1>1 DEF Enough
<1>4. PICK x : Classes = {x}
  BY <1>2, <1>3, FS_Singleton
<1> QED
  BY <1>4 DEF Classes

LEMMA KruskalIsFinished ==
  ASSUME TypeInv, KruskalGrowth, phase = "done", algorithm = "kruskal"
  PROVE  Finished
<1> DEFINE M == ToSet(mst)
           C == [v \in Slots(graph) |-> Component(M, v)]
<1>1. /\ Mirrored(graph) /\ Reach = Slots(graph)
      /\ IsFiniteSet(Slots(graph)) /\ Cardinality(Slots(graph)) = getVertices(graph)
      /\ getVertices(graph) \in Nat /\ Len(mst) \in Nat
  BY SlotsCounted DEF TypeInv, Inv, Reach
<1>2. /\ Cardinality(Classes) = getVertices(graph) - Len(mst)
      /\ Sorts(parent, Slots(graph), M)
      /\ Enough(mst) \/ \A f \in AllEntries : Together(f)
  BY DEF KruskalGrowth, KruskalTrees, KruskalFinished
<1>3. Oriented = Candidates
  BY <1>1, OrientedIsCandidates
<1>4. Enough(mst) => \A u, v \in Slots(graph) : parent[u] = parent[v]
  BY EnoughIsOne
<1>5. ASSUME NEW f \in Candidates PROVE parent[f.source] = parent[f.destination]
  <2>1. f \in AllEntries /\ f.source \in Slots(graph) /\ f.destination \in Slots(graph)
    BY <1>1 DEF Candidates
  <2> QED
    BY <1>2, <1>4, <2>1 DEF Together
<1>6. Connects(Candidates, M)
  BY <1>1, <1>2, <1>5 DEF Connects, Sorts, Candidates
<1>7. \A u, v \in Slots(graph) : parent[u] = parent[v] <=> C[u] = C[v]
  <2>1. \A u, v \in Slots(graph) : v \in Component(M, u) <=> Component(M, u) = Component(M, v)
    BY ComponentSame, ComponentHolds
  <2> QED
    BY <1>2, <2>1 DEF Sorts
<1>8. TreesOf(M, Reach) = {C[v] : v \in Slots(graph)}
  BY <1>1 DEF TreesOf, Component
<1> HIDE DEF C
<1>9. Cardinality({C[v] : v \in Slots(graph)}) = Cardinality(Classes)
  BY <1>1, <1>7, AsManyValues DEF Classes
<1> QED
  BY <1>1, <1>2, <1>3, <1>6, <1>8, <1>9 DEF Finished

LEMMA FinishedIsMinimum ==
  ASSUME MSTInv, Finished
  PROVE  /\ Spans(ToSet(mst), Oriented, Reach)
         /\ Len(mst) = Cardinality(Reach) - Cardinality(TreesOf(Oriented, Reach))
         /\ \A es \in SUBSET Oriented :
              Cardinality(es) = Len(mst) /\ Spans(es, Oriented, Reach) =>
                WeightOf(ToSet(mst)) <= WeightOf(es)
<1> DEFINE M == ToSet(mst)
<1>1. /\ Oriented = Candidates /\ Connects(Candidates, M) /\ Chosen \in SUBSET Candidates
      /\ Len(mst) = Cardinality(Reach) - Cardinality(TreesOf(M, Reach))
      /\ Cardinality(Chosen) = Len(mst) /\ WeightOf(Chosen) = WeightOf(M)
      /\ Optimal(Candidates, Chosen) /\ IsFiniteSet(Candidates)
  BY CandidatesFinite DEF Finished, MSTInv, TypeInv, Inv, MinimalInv
<1>2. \A v : Component(M, v) = Component(Chosen, v)
  <2> DEFINE Ends(e, l) == l = <<e.source, e.destination>> \/ l = <<e.destination, e.source>>
  <2>1. \A es, l : l \in BothWays(es) <=> \E e \in es : Ends(e, l)
    <3>1. \A es, l : l \in BothWays(es) <=> \/ \E e \in es : l = <<e.source, e.destination>>
                                            \/ \E e \in es : l = <<e.destination, e.source>>
      BY DEF BothWays, OneWay
    <3> QED
      BY <3>1
  <2>2. \A e, l : Ends(Ascending(e), l) <=> Ends(e, l)
    BY DEF Ascending, Edge
  <2> HIDE DEF Ends
  <2>3. \A l : (\E e \in Chosen : Ends(e, l)) <=> \E e \in M : Ends(e, l)
    BY <2>2 DEF Chosen
  <2>4. \A l : l \in BothWays(Chosen) <=> l \in BothWays(M)
    BY <2>1, <2>3
  <2>5. BothWays(Chosen) = BothWays(M)
    BY <2>4 DEF BothWays
  <2> QED
    BY <2>5 DEF Component
<1> HIDE DEF M
<1>3. \A v : Component(M, v) = Component(Candidates, v)
  <2>1. Connects(Candidates, Chosen)
    BY <1>1, <1>2 DEF Connects
  <2> QED
    BY <1>1, <1>2, <2>1, ConnectsSame
<1>4. TreesOf(M, Reach) = TreesOf(Candidates, Reach)
  BY <1>3 DEF TreesOf, Component
<1>5. ASSUME NEW es \in SUBSET Candidates, Cardinality(es) = Len(mst), Spans(es, Candidates, Reach)
      PROVE  WeightOf(M) <= WeightOf(es)
  <2>1. Connects(Candidates, es)
    <3> SUFFICES ASSUME NEW f \in Candidates PROVE f.destination \in Component(es, f.source)
      BY DEF Connects
    <3>1. f.source \in Reach
      BY DEF Candidates
    <3>2. PICK v \in Reach : Component(es, f.source) = Component(Candidates, v)
      BY <1>5, <3>1 DEF Spans, TreesOf, Component
    <3>3. f.source \in Component(Candidates, v)
      BY <3>2, ComponentHolds
    <3> QED
      BY <3>2, <3>3, ComponentHolds
  <2> QED
    BY <1>1, <1>5, <2>1, OptimalIsLightest
<1> QED
  BY <1>1, <1>4, <1>5 DEF Spans, M

\* On any graphs that list each edge at both its ends, what an algorithm returns
\* connects what the graph connects (Prim: to vertex 0), has no cycle, and no
\* set of as many edges that connects the same is lighter.
THEOREM MinimumWhenDoneCorrect ==
  ASSUME \A g \in Inputs : Mirrored(g)
  PROVE  SafeSpec => []MinimumWhenDone
<1>1. Init => MSTInv
  BY InitMSTInv
<1>2. MSTInv /\ [Next]_vars => MSTInv'
  BY MSTInvKept
<1>3. MSTInv => MinimumWhenDone
  <2> SUFFICES ASSUME MSTInv, phase = "done", algorithm = "prim" => Usable PROVE Finished
    BY FinishedIsMinimum DEF MinimumWhenDone
  <2>1. algorithm \in {"prim", "kruskal"}
    BY DEF MSTInv, TypeInv, LabelsInv, ArraysTyped
  <2> QED
    BY <2>1, PrimIsFinished, KruskalIsFinished DEF MSTInv
<1> QED
  BY <1>1, <1>2, <1>3, PTL DEF SafeSpec

-----------------------------------------------------------------------------
(***************************************************************************)
(* What Sessions takes for the outcome.  The trees of a forest without     *)
(* loops that have an edge are those of more than one vertex; the others   *)
(* are single vertices, and count once as vertices and once as trees.      *)
(***************************************************************************)
LEMMA TreeOfEdges ==
  ASSUME NEW M, NEW V, IsFiniteSet(V),
         \A f \in M : f.source \in V /\ f.destination \in V /\ f.source # f.destination,
         NEW v \in V
  PROVE  /\ Component(M, v) \subseteq V /\ Cardinality(Component(M, v)) \in Nat
         /\ Cardinality(Component(M, v)) > 1 <=> \E f \in M : v \in {f.source, f.destination}
         /\ ~(Cardinality(Component(M, v)) > 1) => Component(M, v) = {v}
<1> DEFINE C == Component(M, v)
<1>1. C \subseteq V
  BY ComponentWithin
<1>2. v \in C /\ \A f \in M : f.source \in C <=> f.destination \in C
  BY ComponentHolds
<1>3. IsFiniteSet(C) /\ Cardinality(C) \in Nat
  BY <1>1, FS_Subset, FS_CardinalityType
<1>4. ASSUME NEW f \in M, v \in {f.source, f.destination} PROVE Cardinality(C) > 1
  <2> DEFINE Q == {f.source}
             y == f.destination
             P == Q \cup {y}
  <2>1. P \in SUBSET C
    <3> HIDE DEF C
    <3> QED
      BY <1>2, <1>4
  <2>2. IsFiniteSet(Q) /\ Cardinality(Q) = 1 /\ y \notin Q
    BY FS_Singleton
  <2> HIDE DEF Q, y
  <2>3. Cardinality(P) = Cardinality(Q) + 1
    BY ONLY <2>2, FS_AddElement
  <2> HIDE DEF P, C
  <2>4. Cardinality(P) <= Cardinality(C)
    BY <1>3, <2>1, FS_Subset
  <2> QED
    BY <1>3, <2>2, <2>3, <2>4
<1>5. ASSUME \A f \in M : v \notin {f.source, f.destination} PROVE C = {v}
  <2>1. C \subseteq {v}
    BY <1>5, ComponentWithin
  <2> HIDE DEF C
  <2> QED
    BY <1>2, <2>1
<1>6. C = {v} => Cardinality(C) = 1
  BY FS_Singleton
<1> HIDE DEF C
<1>7. /\ C \subseteq V /\ Cardinality(C) \in Nat
      /\ Cardinality(C) > 1 <=> \E f \in M : v \in {f.source, f.destination}
      /\ ~(Cardinality(C) > 1) => C = {v}
  BY <1>1, <1>3, <1>4, <1>5, <1>6
<1> QED
  BY <1>7 DEF C

LEMMA ForestOf ==
  ASSUME NEW M, NEW V, IsFiniteSet(V),
         \A f \in M : f.source \in V /\ f.destination \in V /\ f.source # f.destination
  PROVE  SpanningForest(TreesOf(M, V)) =
           [vertices |-> UNION {{f.source, f.destination} : f \in M},
            length   |-> Cardinality(V) - Cardinality(TreesOf(M, V))]
<1> DEFINE C == [v \in V |-> Component(M, v)]
           trees == {C[v] : v \in V}
           kept == {t \in trees : Cardinality(t) > 1}
           Touched == UNION {{f.source, f.destination} : f \in M}
           rest == V \ Touched
           single == [v \in V |-> {v}]
           singles == {single[v] : v \in rest}
<1>1. TreesOf(M, V) = trees
  BY DEF TreesOf, Component
<1>2. /\ Touched \subseteq V
      /\ \A v \in V : v \in Touched <=> \E f \in M : v \in {f.source, f.destination}
  OBVIOUS
<1>3. /\ \A v \in V : C[v] \subseteq V /\ Cardinality(C[v]) \in Nat
      /\ \A v \in V : Cardinality(C[v]) > 1 <=> v \in Touched
      /\ \A v \in V : v \notin Touched => C[v] = {v}
  <2>1. ASSUME NEW v \in V
        PROVE  /\ Component(M, v) \subseteq V /\ Cardinality(Component(M, v)) \in Nat
               /\ Cardinality(Component(M, v)) > 1 <=> \E f \in M : v \in {f.source, f.destination}
               /\ ~(Cardinality(Component(M, v)) > 1) => Component(M, v) = {v}
    BY TreeOfEdges
  <2> HIDE DEF Touched
  <2> QED
    BY <1>2, <2>1
<1>4. \A v \in V : v \in C[v] /\ \A u \in C[v] : u \in V => C[u] = C[v]
  BY ComponentHolds, ComponentSame
<1>5. \A v \in V : C[v] \in trees
  OBVIOUS
<1>6. \A t \in trees : \E v \in V : t = C[v]
  OBVIOUS
<1>7. \A v \in V : single[v] = {v}
  OBVIOUS
<1>8. SpanningForest(trees) = [vertices |-> UNION kept,
                               length   |-> Cardinality(UNION kept) - Cardinality(kept)]
  BY DEF SpanningForest
<1> HIDE DEF C, Touched, trees
<1>9. UNION kept = Touched
  <2>1. ASSUME NEW t \in kept, NEW u \in t PROVE u \in Touched
    <3>1. PICK v \in V : t = C[v]
      BY <1>6
    <3>2. u \in V /\ C[u] = t
      BY <1>3, <1>4, <2>1, <3>1
    <3> QED
      BY <1>3, <3>2
  <2>2. ASSUME NEW u \in Touched PROVE \E t \in kept : u \in t
    BY <1>2, <1>3, <1>4, <1>5
  <2> QED
    BY <2>1, <2>2
<1>10. trees = kept \cup singles
  <2>1. ASSUME NEW t \in trees, t \notin kept PROVE t \in singles
    BY <1>3, <1>6, <1>7, <2>1
  <2>2. ASSUME NEW t \in singles PROVE t \in trees
    <3>1. PICK v \in rest : t = single[v]
      OBVIOUS
    <3>2. t = C[v] /\ v \in V
      BY <1>3, <1>7, <3>1
    <3> QED
      BY <1>5, <3>2
  <2> QED
    BY <2>1, <2>2
<1>11. kept \cap singles = {}
  <2> SUFFICES ASSUME NEW t \in kept, t \in singles PROVE FALSE
    OBVIOUS
  <2>1. PICK v \in rest : t = single[v]
    OBVIOUS
  <2>2. t = C[v] /\ v \in V /\ v \notin Touched
    BY <1>3, <1>7, <2>1
  <2> QED
    BY <1>3, <2>2
<1>12. IsFiniteSet(trees) /\ IsFiniteSet(rest)
  <2>1. trees = {C[v] : v \in V}
    BY DEF trees
  <2> QED
    BY <2>1, ImageFinite, FS_Difference
<1>13. IsFiniteSet(kept) /\ IsFiniteSet(singles)
  BY <1>10, <1>12, FS_Subset
<1>14. Cardinality(singles) = Cardinality(rest)
  <2> DEFINE id == [v \in V |-> v]
  <2>1. \A u, v \in rest : single[u] = single[v] <=> id[u] = id[v]
    OBVIOUS
  <2>2. {id[v] : v \in rest} = rest
    OBVIOUS
  <2> HIDE DEF id, single, rest
  <2>3. Cardinality({single[v] : v \in rest}) = Cardinality({id[v] : v \in rest})
    BY <1>12, <2>1, AsManyValues
  <2> QED
    BY <2>2, <2>3
<1> HIDE DEF kept, singles
<1>15. /\ Cardinality(trees) = Cardinality(kept) + Cardinality(singles)
       /\ Cardinality(kept) \in Nat /\ Cardinality(singles) \in Nat
  <2>1. Cardinality(kept \cup singles) =
          Cardinality(kept) + Cardinality(singles) - Cardinality(kept \cap singles)
    BY <1>13, FS_Union
  <2>2. Cardinality(kept \cap singles) = 0
    BY <1>11, FS_EmptySet
  <2> QED
    BY <1>10, <1>13, <2>1, <2>2, FS_CardinalityType
<1>16. Cardinality(rest) = Cardinality(V) - Cardinality(Touched) /\ Cardinality(V) \in Nat
       /\ Cardinality(Touched) \in Nat
  <2>1. Cardinality(rest) = Cardinality(V) - Cardinality(V \cap Touched)
    BY FS_Difference
  <2>2. V \cap Touched = Touched /\ IsFiniteSet(Touched)
    BY <1>2, FS_Subset
  <2> QED
    BY <2>1, <2>2, FS_CardinalityType
<1>17. Cardinality(Touched) - Cardinality(kept) = Cardinality(V) - Cardinality(trees)
  BY <1>14, <1>15, <1>16
<1>18. SpanningForest(trees) =
         [vertices |-> Touched, length |-> Cardinality(V) - Cardinality(trees)]
  BY <1>8, <1>9, <1>17
<1> QED
  BY <1>1, <1>18 DEF Touched

LEMMA HasLightest ==
  ASSUME NEW S, IsFiniteSet(S), S # {}, \A e \in S : e.weight \in Int
  PROVE  \E e \in S : \A f \in S : e.weight <= f.weight
<1> DEFINE D == {T \in SUBSET S : T = {} \/ \E e \in T : \A f \in T : e.weight <= f.weight}
<1>1. ASSUME NEW T \in SUBSET S, \A U \in SUBSET T : U # T => U \in D
      PROVE  T \in D
  <2>1. CASE T = {}
    BY <2>1
  <2>2. CASE T # {}
    <3>1. PICK x \in T : TRUE
      BY <2>2
    <3>2. T \ {x} \in D
      BY <1>1
    <3>3. CASE T \ {x} = {}
      BY <3>1, <3>3
    <3>4. CASE T \ {x} # {}
      <4>1. PICK y \in T \ {x} : \A f \in T \ {x} : y.weight <= f.weight
        BY <3>2, <3>4
      <4>2. \A f \in T : f.weight \in Int
        OBVIOUS
      <4>3. CASE x.weight <= y.weight
        BY <3>1, <4>1, <4>2, <4>3
      <4>4. CASE ~(x.weight <= y.weight)
        BY <3>1, <4>1, <4>2, <4>4
      <4> QED
        BY <4>3, <4>4
    <3> QED
      BY <3>3, <3>4
  <2> QED
    BY <2>1, <2>2
<1> HIDE DEF D
<1>2. SUBSET S \subseteq D
  BY <1>1, AllSubsets
<1>3. S \in D
  BY <1>2
<1> QED
  BY <1>3 DEF D

\* The forest of an algorithm is the one it is summarised by.
Summary == [vertices |-> UNION {{e.source, e.destination} : e \in ToSet(mst)}, length |-> Len(mst)]

LEMMA SummaryOf ==
  ASSUME MSTInv, NEW V, IsFiniteSet(V),
         \A f \in ToSet(mst) : f.source \in V /\ f.destination \in V,
         Len(mst) = Cardinality(V) - Cardinality(TreesOf(ToSet(mst), V))
  PROVE  SpanningForest(TreesOf(ToSet(mst), V)) = Summary
<1> DEFINE M == ToSet(mst)
<1>1. \A f \in M : f.source # f.destination
  <2> SUFFICES ASSUME NEW f \in M PROVE f.source # f.destination
    OBVIOUS
  <2>1. Ascending(f) \in Candidates
    BY DEF MSTInv, MinimalInv, Chosen
  <2>2. Ascending(f).source < Ascending(f).destination
    BY <2>1 DEF Candidates
  <2>3. f \in AllEntries
    BY ElementOf DEF MSTInv, TypeInv
  <2>4. f.source \in Int /\ f.destination \in Int
    BY <2>3, AllEntriesOwner DEF MSTInv, TypeInv, Inv, Slots, Mirrored
  <2> QED
    BY <2>2, <2>4 DEF Ascending, Edge
<1> HIDE DEF M
<1>2. SpanningForest(TreesOf(M, V)) =
        [vertices |-> UNION {{f.source, f.destination} : f \in M},
         length   |-> Cardinality(V) - Cardinality(TreesOf(M, V))]
  BY <1>1, ForestOf DEF M
<1> QED
  BY <1>2 DEF Summary, M

LEMMA PrimAgrees ==
  ASSUME MSTInv, algorithm = "prim", phase \in {"done", "outOfBounds"}
  PROVE  IF phase = "done" THEN [outOfBounds |-> FALSE, mst |-> Summary] \in Outcomes(graph, algorithm)
                           ELSE OutOfBounds \in Outcomes(graph, algorithm)
<1> DEFINE reached == Tree(OneWay(Light), 0)
           M == ToSet(mst)
<1>1. /\ Mirrored(graph) /\ visited \subseteq Slots(graph) /\ visited \subseteq reached
      /\ \A f \in M : f.source \in visited /\ f.destination \in visited
  BY DEF MSTInv, TypeInv, Inv, ArraysTyped, PrimGrowth, PrimReached
<1>2. Outcomes(graph, algorithm) =
        IF \A e \in EntriesOf(graph, reached) : e.destination \in Slots(graph)
        THEN {Success({reached})} ELSE {OutOfBounds}
  BY DEF Outcomes, PrimOutcomes, Light, AllEntries
<1>3. CASE phase = "outOfBounds"
  <2>1. PICK f \in EntriesOf(graph, visited) : f.destination \notin Slots(graph)
    BY <1>3 DEF MSTInv, PrimGrowth, PrimFinished
  <2>2. f \in EntriesOf(graph, reached)
    BY <1>1 DEF EntriesOf
  <2> QED
    BY <1>2, <1>3, <2>1, <2>2
<1>4. CASE phase = "done"
  <2>1. /\ 0 \in visited /\ Cardinality(visited) = Len(mst) + 1 /\ Component(M, 0) = visited
        /\ \A f \in EntriesOf(graph, visited) :
             /\ f.destination \in Slots(graph)
             /\ f.destination \in visited \/ MaxInt <= f.weight
    BY <1>4 DEF MSTInv, PrimGrowth, PrimReached, PrimFinished
  <2>2. \A l \in OneWay(Light) : l[1] \in visited => l[2] \in visited
    <3> SUFFICES ASSUME NEW f \in Light, f.source \in visited PROVE f.destination \in visited
      BY DEF OneWay
    <3>1. f \in EntriesOf(graph, visited) /\ f.weight \in Int /\ f.weight < MaxInt
      BY <1>1, EntryAt, AllEntriesOwner DEF Light
    <3> QED
      BY <2>1, <3>1, MaxIntAssumption
  <2>3. reached = visited
    <3>1. reached \subseteq visited
      BY <2>1, <2>2, TreeHolds
    <3> HIDE DEF reached
    <3> QED
      BY <1>1, <3>1
  <2>4. \A v \in visited : Component(M, v) = visited
    BY <2>1, ComponentSame
  <2>5. TreesOf(M, visited) = {visited}
    BY <2>1, <2>4 DEF TreesOf, Component
  <2>6. IsFiniteSet(visited) /\ Cardinality({visited}) = 1 /\ Len(mst) \in Nat
    <3>1. IsFiniteSet(visited)
      BY <1>1, SlotsCounted, FS_Subset
    <3>2. Cardinality({visited}) = 1
      BY FS_Singleton
    <3>3. mst \in Seq(AllEntries)
      BY DEF MSTInv, TypeInv
    <3> QED
      BY <3>1, <3>2, <3>3
  <2>7. SpanningForest({visited}) = Summary
    <3>1. Len(mst) = Cardinality(visited) - Cardinality(TreesOf(M, visited))
      BY <2>1, <2>5, <2>6
    <3>2. SpanningForest(TreesOf(M, visited)) = Summary
      BY <1>1, <2>6, <3>1, SummaryOf
    <3> QED
      BY <2>5, <3>2
  <2> HIDE DEF reached
  <2>8. Outcomes(graph, algorithm) = {Success({visited})}
    BY <1>2, <2>1, <2>3
  <2>9. Success({visited}) = [outOfBounds |-> FALSE, mst |-> Summary]
    BY <2>7 DEF Success
  <2> QED
    BY <1>4, <2>8, <2>9
<1> QED
  BY <1>3, <1>4

LEMMA KruskalAgrees ==
  ASSUME MSTInv, algorithm = "kruskal", phase \in {"done", "outOfBounds"}
  PROVE  IF phase = "done" THEN [outOfBounds |-> FALSE, mst |-> Summary] \in Outcomes(graph, algorithm)
                           ELSE OutOfBounds \in Outcomes(graph, algorithm)
<1> DEFINE M == ToSet(mst)
           V == Slots(graph)
           first == CHOOSE e \in Outside : \A f \in Outside : e.weight <= f.weight
           Lighter == {f \in AllEntries \ Outside : f.weight < first.weight}
           AsLight == {f \in AllEntries \ Outside : f.weight <= first.weight}
<1>1. Outcomes(graph, algorithm) =
        IF Outside = {} THEN {Success(TreesOf(AllEntries, V))}
        ELSE (IF V \in TreesOf(Lighter, V) THEN {} ELSE {OutOfBounds})
             \cup (IF V \in TreesOf(AsLight, V) THEN {Success({V})} ELSE {})
  BY DEF Outcomes, KruskalOutcomes, Outside, AllEntries, TreesOf
<1>2. /\ Mirrored(graph) /\ Reach = V /\ mst \in Seq(AllEntries) /\ Len(mst) \in Nat
      /\ IsFiniteSet(V) /\ Cardinality(V) = getVertices(graph) /\ getVertices(graph) \in Nat
      /\ IsFiniteSet(AllEntries)
  <2>1. /\ Mirrored(graph) /\ Reach = V /\ mst \in Seq(AllEntries)
    BY DEF MSTInv, TypeInv, Inv, Reach
  <2>2. Len(mst) \in Nat
    BY <2>1
  <2> QED
    BY <2>1, <2>2, SlotsCounted, EntriesFinite DEF AllEntries
<1>3. \A f \in AllEntries : f.source \in V /\ f.weight \in Int
  BY <1>2, AllEntriesOwner
<1>4. /\ \A f \in M : f \in AllEntries /\ f.source \in V /\ f.destination \in V
      /\ \A f \in M, g \in Outside : f.weight <= g.weight
      /\ Sorts(parent, V, M)
      /\ Cardinality(Classes) = getVertices(graph) - Len(mst)
  <2>1. \A f \in M : f \in AllEntries
    BY <1>2, ElementOf
  <2> QED
    BY <1>3, <2>1 DEF MSTInv, KruskalGrowth, KruskalTrees
<1>5. Outside # {} => /\ first \in Outside /\ first.weight \in Int
                      /\ \A f \in Outside : first.weight <= f.weight
  <2>1. IsFiniteSet(Outside) /\ \A f \in Outside : f.weight \in Int
    BY <1>2, <1>3, FS_Subset DEF Outside
  <2>2. Outside # {} => \E e \in Outside : \A f \in Outside : e.weight <= f.weight
    BY <2>1, HasLightest
  <2> QED
    BY <2>1, <2>2
<1> HIDE DEF first, V, M
<1>6. \A f \in AllEntries : f \in Outside <=> f.destination \notin V
  BY DEF Outside, V
<1>7. CASE phase = "outOfBounds"
  <2>1. PICK g \in Outside : \A f \in AllEntries : f.weight < g.weight => Together(f)
    BY <1>7 DEF MSTInv, KruskalGrowth, KruskalFinished
  <2>2. ~Enough(mst)
    BY <1>7 DEF MSTInv, KruskalGrowth, KruskalFinished
  <2>3. ASSUME NEW f \in Lighter PROVE parent[f.source] = parent[f.destination]
                                       /\ f.source \in V /\ f.destination \in V
    <3>1. f.weight < g.weight
      BY <1>3, <1>5, <2>1 DEF Outside
    <3> QED
      BY <1>3, <1>6, <2>1, <3>1 DEF Together
  <2>4. ASSUME V \in TreesOf(Lighter, V) PROVE FALSE
    <3>1. PICK v \in V : Component(Lighter, v) = V
      BY <2>4 DEF TreesOf, Component
    <3> DEFINE U == {x \in V : parent[x] = parent[v]}
    <3>2. v \in U /\ \A f \in Lighter : f.source \in U <=> f.destination \in U
      BY <2>3
    <3> HIDE DEF U, Lighter
    <3>3. V \subseteq U
      BY <3>1, <3>2, ComponentWithin
    <3>4. Classes = {parent[v]}
      BY <3>3 DEF U, Classes, V
    <3>5. Cardinality(Classes) = 1
      BY <3>4, FS_Singleton
    <3> QED
      BY <1>2, <1>4, <2>2, <3>5 DEF Enough
  <2> QED
    BY <1>1, <1>7, <2>1, <2>4
<1>8. CASE phase = "done"
  <2>1. Finished
    BY <1>8, KruskalIsFinished DEF MSTInv
  <2>2. Len(mst) = Cardinality(V) - Cardinality(TreesOf(M, V))
    BY <1>2, <2>1 DEF Finished, M
  <2>3. SpanningForest(TreesOf(M, V)) = Summary
    BY <1>2, <1>4, <2>2, SummaryOf DEF M
  <2>4. CASE Outside = {}
    <3>1. Connects(AllEntries, M)
      <4> SUFFICES ASSUME NEW f \in AllEntries PROVE f.destination \in Component(M, f.source)
        BY DEF Connects
      <4>1. f.source \in V /\ f.destination \in V
        BY <1>3, <1>6, <2>4
      <4>2. parent[f.source] = parent[f.destination]
        BY <1>8, <4>1, EnoughIsOne DEF MSTInv, KruskalGrowth, KruskalFinished, Together, V
      <4> QED
        BY <1>4, <4>1, <4>2 DEF Sorts
    <3>2. M \in SUBSET AllEntries
      BY <1>4
    <3>3. TreesOf(M, V) = TreesOf(AllEntries, V)
      <4>1. \A v : Component(M, v) = Component(AllEntries, v)
        BY <3>1, <3>2, ConnectsSame
      <4> QED
        BY <4>1 DEF TreesOf, Component
    <3> QED
      BY <1>1, <1>8, <2>3, <2>4, <3>3 DEF Success
  <2>5. CASE Outside # {}
    <3>1. Enough(mst)
      BY <1>6, <1>8, <2>5 DEF MSTInv, KruskalGrowth, KruskalFinished, Together, V, Outside
    <3>2. \A u, v \in V : v \in Component(M, u)
      BY <1>4, <3>1, EnoughIsOne DEF MSTInv, Sorts, V
    <3>3. \A v \in V : Component(M, v) = V
      <4>1. \A v \in V : Component(M, v) \subseteq V
        BY <1>4, ComponentWithin
      <4> QED
        BY <3>2, <4>1
    <3>4. PICK v \in V : TRUE
      <4>1. Outside \subseteq AllEntries
        BY DEF Outside
      <4> QED
        BY <1>3, <2>5, <4>1
    <3>5. TreesOf(M, V) = {V}
      BY <3>3, <3>4 DEF TreesOf, Component
    <3>6. V \in TreesOf(AsLight, V)
      <4>1. M \in SUBSET AsLight
        BY <1>4, <1>5, <1>6, <2>5
      <4>2. \A f \in AsLight : f.source \in V /\ f.destination \in V
        BY <1>3, <1>6
      <4> HIDE DEF AsLight
      <4>3. Component(M, v) \subseteq Component(AsLight, v)
        BY <4>1, ComponentMore
      <4>4. Component(AsLight, v) \subseteq V
        BY <4>2, ComponentWithin
      <4>5. Component(AsLight, v) = V
        BY <3>3, <4>3, <4>4
      <4> QED
        BY <4>5 DEF TreesOf, Component
    <3>7. Success({V}) = [outOfBounds |-> FALSE, mst |-> Summary]
      BY <2>3, <3>5 DEF Success
    <3> QED
      BY <1>1, <1>8, <2>5, <3>6, <3>7
  <2> QED
    BY <2>4, <2>5
<1> QED
  BY <1>7, <1>8

\* On any graphs that list each edge at both its ends, the outcome that Sessions
\* takes from the graph alone is the one the algorithm has: whether it leaves
\* its arrays, which vertices its tree has and how many edges.
THEOREM AgreesWithOutcomesCorrect ==
  ASSUME \A g \in Inputs : Mirrored(g)
  PROVE  SafeSpec => []AgreesWithOutcomes
<1>1. Init => MSTInv
  BY InitMSTInv
<1>2. MSTInv /\ [Next]_vars => MSTInv'
  BY MSTInvKept
<1>3. MSTInv => AgreesWithOutcomes
  <2> SUFFICES ASSUME MSTInv, phase \in {"done", "outOfBounds"}
               PROVE  [outOfBounds |-> phase = "outOfBounds",
                       mst |-> IF phase = "outOfBounds" THEN NoMST ELSE Summary]
                        \in Outcomes(graph, algorithm)
    BY DEF AgreesWithOutcomes, Summary
  <2>1. algorithm \in {"prim", "kruskal"}
    BY DEF MSTInv, TypeInv, LabelsInv, ArraysTyped
  <2>2. IF phase = "done" THEN [outOfBounds |-> FALSE, mst |-> Summary] \in Outcomes(graph, algorithm)
                          ELSE OutOfBounds \in Outcomes(graph, algorithm)
    BY <2>1, PrimAgrees, KruskalAgrees
  <2> QED
    BY <2>2 DEF OutOfBounds
<1> QED
  BY <1>1, <1>2, <1>3, PTL DEF SafeSpec

-----------------------------------------------------------------------------
(***************************************************************************)
(* The weight of a path: it is the distance, and the sum of the weights of *)
(* its parts.                                                              *)
(***************************************************************************)
LEMMA WeightOfUnion ==
  ASSUME NEW S, IsFiniteSet(S), \A e \in S : e.weight \in Nat
  PROVE  \A A, B \in SUBSET S : A \cap B = {} => WeightOf(A \cup B) = WeightOf(A) + WeightOf(B)
<1> TAKE A \in SUBSET S
<1>1. \A T \in SUBSET S : WeightOf(T) \in Int /\ \A x \in T : WeightOf(T) = x.weight + WeightOf(T \ {x})
  BY WeightOfSubsets
<1>2. WeightOf({}) = 0
  BY FS_EmptySet, WeightOfFirst
<1> DEFINE D == {B \in SUBSET S : A \cap B = {} => WeightOf(A \cup B) = WeightOf(A) + WeightOf(B)}
<1>3. ASSUME NEW T \in SUBSET S, \A U \in SUBSET T : U # T => U \in D PROVE T \in D
  <2>1. CASE T = {}
    <3>1. A \cup T = A /\ WeightOf(A) \in Int
      BY <1>1, <2>1
    <3> QED
      BY <1>2, <2>1, <3>1
  <2>2. ASSUME T # {}, A \cap T = {} PROVE WeightOf(A \cup T) = WeightOf(A) + WeightOf(T)
    <3>1. PICK x \in T : TRUE
      BY <2>2
    <3>2. T \ {x} \in D /\ A \cap (T \ {x}) = {}
      BY <1>3, <2>2, <3>1
    <3>3. (A \cup T) \ {x} = A \cup (T \ {x}) /\ A \cup T \in SUBSET S
      BY <2>2, <3>1
    <3>4. WeightOf(A \cup T) = x.weight + WeightOf(A \cup (T \ {x}))
      BY <1>1, <3>1, <3>3
    <3>5. WeightOf(T) = x.weight + WeightOf(T \ {x})
      BY <1>1, <3>1
    <3>6. WeightOf(A \cup (T \ {x})) = WeightOf(A) + WeightOf(T \ {x})
      BY <3>2
    <3>7. WeightOf(A) \in Int /\ WeightOf(T \ {x}) \in Int /\ x.weight \in Int
      <4>1. T \ {x} \in SUBSET S /\ A \in SUBSET S
        OBVIOUS
      <4> QED
        BY <1>1, <3>1, <4>1
    <3> QED
      BY <3>4, <3>5, <3>6, <3>7
  <2> QED
    BY <2>1, <2>2
<1> HIDE DEF D
<1>4. SUBSET S \subseteq D
  BY <1>3, AllSubsets
<1> QED
  BY <1>4 DEF D

\* Less is no heavier.
LEMMA WeightOfPart ==
  ASSUME NEW S, IsFiniteSet(S), \A e \in S : e.weight \in Nat
  PROVE  \A B \in SUBSET S : WeightOf(B) \in Nat /\ \A A \in SUBSET B : WeightOf(A) <= WeightOf(B)
<1>1. \A T \in SUBSET S : WeightOf(T) \in Int /\ \A x \in T : WeightOf(T) = x.weight + WeightOf(T \ {x})
  BY WeightOfSubsets
<1> DEFINE D == {T \in SUBSET S : WeightOf(T) \in Nat}
<1>2. ASSUME NEW T \in SUBSET S, \A U \in SUBSET T : U # T => U \in D PROVE T \in D
  <2>1. CASE T = {}
    BY <2>1, FS_EmptySet, WeightOfFirst
  <2>2. CASE T # {}
    <3>1. PICK x \in T : TRUE
      BY <2>2
    <3>2. WeightOf(T \ {x}) \in Nat /\ x.weight \in Nat
      BY <1>2, <3>1
    <3>3. WeightOf(T) = x.weight + WeightOf(T \ {x})
      BY <1>1, <3>1
    <3> QED
      BY <3>2, <3>3
  <2> QED
    BY <2>1, <2>2
<1> HIDE DEF D
<1>3. SUBSET S \subseteq D
  BY <1>2, AllSubsets
<1>4. \A T \in SUBSET S : WeightOf(T) \in Nat
  BY <1>3 DEF D
<1>5. ASSUME NEW B \in SUBSET S, NEW A \in SUBSET B PROVE WeightOf(A) <= WeightOf(B)
  <2>1. A \in SUBSET S /\ B \ A \in SUBSET S /\ A \cap (B \ A) = {} /\ A \cup (B \ A) = B
    OBVIOUS
  <2>2. WeightOf(B) = WeightOf(A) + WeightOf(B \ A)
    BY <2>1, WeightOfUnion
  <2>3. WeightOf(A) \in Nat /\ WeightOf(B \ A) \in Nat
    BY <1>4, <2>1
  <2> QED
    BY <2>2, <2>3
<1> QED
  BY <1>4, <1>5

Dist(es, i, j) == WeightOf(Path(es, i, j))

LEMMA DistOf ==
  ASSUME NEW es, NEW V, IsTree(es, V)
  PROVE  /\ WeightOf(es) \in Nat
         /\ \A i, j \in V : /\ Dist(es, i, j) \in Nat /\ Dist(es, i, j) <= WeightOf(es)
                            /\ Dist(es, i, j) = Dist(es, j, i)
         /\ \A e \in es : \A i, j \in V : Joined(e, i, j) => Dist(es, i, j) = e.weight
<1>1. IsFiniteSet(es) /\ \A e \in es : e.weight \in Nat
  BY DEF IsTree
<1>2. \A B \in SUBSET es : WeightOf(B) \in Nat /\ WeightOf(B) <= WeightOf(es)
  BY <1>1, WeightOfPart
<1>3. \A i, j : Path(es, i, j) \in SUBSET es
  BY DEF Path
<1>4. ASSUME NEW e \in es PROVE WeightOf({e}) = e.weight
  <2>1. {e} \in SUBSET es /\ {e} \ {e} = {}
    OBVIOUS
  <2>2. WeightOf({e}) = e.weight + WeightOf({})
    BY <1>1, <2>1, WeightOfSubsets
  <2>3. WeightOf({}) = 0 /\ e.weight \in Nat
    BY <1>1, FS_EmptySet, WeightOfFirst
  <2> QED
    BY <2>2, <2>3
<1>5. ASSUME NEW e \in es, NEW i \in V, NEW j \in V, Joined(e, i, j) PROVE Dist(es, i, j) = e.weight
  <2>1. Path(es, i, j) = {e}
    BY <1>5, PathOfEdge DEF Joined
  <2> QED
    BY <1>4, <2>1 DEF Dist
<1>6. \A i, j \in V : Dist(es, i, j) = Dist(es, j, i)
  BY PathReversed DEF Dist
<1> QED
  BY <1>2, <1>3, <1>5, <1>6 DEF Dist

LEMMA DistDetour ==
  ASSUME NEW es, NEW V, IsTree(es, V), NEW i \in V, NEW j \in V, NEW k \in V
  PROVE  /\ Dist(es, i, j) <= Dist(es, i, k) + Dist(es, k, j)
         /\ k \in Inside(es, V, i, j) => Dist(es, i, j) = Dist(es, i, k) + Dist(es, k, j)
<1> DEFINE A == Path(es, i, k)
           B == Path(es, k, j)
           C == Path(es, i, j)
<1>1. IsFiniteSet(es) /\ \A e \in es : e.weight \in Nat
  BY DEF IsTree
<1>2. A \in SUBSET es /\ B \in SUBSET es /\ C \in SUBSET es
  BY DEF Path
<1>3. C \subseteq A \cup B /\ (A \cap B = {} => C = A \cup B)
  BY PathSides
<1>4. k \in Inside(es, V, i, j) => A \cap B = {}
  BY DEF Inside
<1> HIDE DEF A, B, C
<1>5. A \cap B = {} => WeightOf(C) = WeightOf(A) + WeightOf(B)
  BY <1>1, <1>2, <1>3, WeightOfUnion
<1>6. WeightOf(C) <= WeightOf(A) + WeightOf(B)
  <2>1. WeightOf(A \cup (B \ A)) = WeightOf(A) + WeightOf(B \ A)
    BY <1>1, <1>2, WeightOfUnion
  <2>2. A \cup (B \ A) \in SUBSET es /\ C \in SUBSET (A \cup (B \ A)) /\ B \ A \in SUBSET B
    BY <1>2, <1>3
  <2>3. WeightOf(C) <= WeightOf(A \cup (B \ A)) /\ WeightOf(B \ A) <= WeightOf(B)
    BY <1>1, <1>2, <2>2, WeightOfPart
  <2>4. WeightOf(A) \in Nat /\ WeightOf(B) \in Nat /\ WeightOf(C) \in Nat /\ WeightOf(B \ A) \in Nat
    <3>1. B \ A \in SUBSET es
      BY <1>2
    <3> QED
      BY <1>1, <1>2, <3>1, WeightOfPart
  <2> QED
    BY <2>1, <2>3, <2>4
<1> QED
  BY <1>4, <1>5, <1>6 DEF Dist, A, B, C

-----------------------------------------------------------------------------
(***************************************************************************)
(* Floyd and Warshall's loops.  Round m + 1 is for row i and column j of   *)
(* the matrix, by way of k, where m has the digits k, i and j to the base  *)
(* n; a row and a column have been treated by way of the vertices Passed.  *)
(***************************************************************************)
Matrix(n) == [(0..n - 1) \X (0..n - 1) -> Int]

Rounds(n) == [dist : Matrix(n), overflow : BOOLEAN]

LEMMA RelaxTyped ==
  ASSUME NEW n \in Nat, NEW s \in Rounds(n), NEW i \in 0..n - 1, NEW k \in 0..n - 1, NEW j \in 0..n - 1
  PROVE  Relax(s, i, k, j) \in Rounds(n)
<1> DEFINE sum == s.dist[<<i, k>>] + s.dist[<<k, j>>]
           put == [s.dist EXCEPT ![<<i, j>>] = sum]
           over == s.overflow \/ ~Representable(sum)
<1>1. s.dist \in Matrix(n) /\ s.overflow \in BOOLEAN
  BY DEF Rounds
<1>2. sum \in Int
  <2>1. \A a, b \in 0..n - 1 : s.dist[<<a, b>>] \in Int
    BY <1>1 DEF Matrix
  <2> QED
    BY <2>1
<1>3. put \in Matrix(n) /\ over \in BOOLEAN
  <2> HIDE DEF sum
  <2> QED
    BY <1>1, <1>2 DEF Matrix
<1>4. Relax(s, i, k, j) = s \/ Relax(s, i, k, j) = [dist |-> put, overflow |-> over]
      \/ Relax(s, i, k, j) = [dist |-> s.dist, overflow |-> over]
  BY DEF Relax
<1> HIDE DEF put, over
<1> QED
  BY <1>1, <1>3, <1>4 DEF Rounds

Round(n, k, i, j) == (k * n + i) * n + j

Passed(n, m, a, b) == {v \in 0..n - 1 : Round(n, v, a, b) < m}

LEMMA PassedAfter ==
  ASSUME NEW n \in Nat \ {0}, NEW k \in 0..n - 1, NEW i \in 0..n - 1, NEW j \in 0..n - 1,
         NEW a \in 0..n - 1, NEW b \in 0..n - 1
  PROVE  LET m == Round(n, k, i, j)
         IN  /\ 0..k - 1 \subseteq Passed(n, m, a, b) /\ Passed(n, m, a, b) \subseteq 0..k
             /\ Passed(n, m + 1, a, b) = IF a = i /\ b = j THEN 0..k ELSE Passed(n, m, a, b)
             /\ k \notin Passed(n, m, i, j)
<1> DEFINE m == (k * n + i) * n + j
           Of(v) == (v * n + a) * n + b
<1>1. m \in Int /\ \A v \in 0..n - 1 : Of(v) \in Int
  OBVIOUS
<1>2. ASSUME NEW v \in 0..n - 1, v < k PROVE Of(v) < m
  <2>1. v * n + a < k * n + i
    BY <1>2, LessDigit
  <2> QED
    BY <2>1, LessDigit
<1>3. ASSUME NEW v \in 0..n - 1, k < v PROVE m < Of(v)
  <2>1. k * n + i < v * n + a
    BY <1>3, LessDigit
  <2> QED
    BY <2>1, LessDigit
<1>4. Of(k) = m => a = i /\ b = j
  <2> SUFFICES ASSUME Of(k) = m PROVE a = i /\ b = j
    OBVIOUS
  <2> DEFINE x == k * n + a
             y == k * n + i
  <2>1. x \in Int /\ y \in Int /\ x * n + b = y * n + j
    OBVIOUS
  <2>2. ~(x < y) /\ ~(y < x)
    <3> HIDE DEF x, y
    <3>1. x < y => x * n + b < y * n + j
      BY <2>1, LessDigit
    <3>2. y < x => y * n + j < x * n + b
      BY <2>1, LessDigit
    <3>3. x * n + b \in Int
      BY <2>1
    <3> QED
      BY <2>1, <3>1, <3>2, <3>3
  <2>3. x = y
    <3> HIDE DEF x, y
    <3> QED
      BY <2>1, <2>2
  <2>4. a = i
    BY <2>3
  <2>5. b = j
    <3> HIDE DEF x, y
    <3>1. x * n \in Int
      BY <2>1
    <3> QED
      BY <2>1, <2>3, <3>1
  <2> QED
    BY <2>4, <2>5
<1>5. a = i /\ b = j => Of(k) = m
  OBVIOUS
<1>6. \A x : Passed(n, x, a, b) = {v \in 0..n - 1 : Of(v) < x}
  BY DEF Passed, Round
<1> HIDE DEF Of
<1>7. 0..k - 1 \subseteq Passed(n, m, a, b) /\ Passed(n, m, a, b) \subseteq 0..k
  BY <1>1, <1>2, <1>3, <1>6
<1>8. ASSUME a = i, b = j PROVE Passed(n, m + 1, a, b) = 0..k /\ k \notin Passed(n, m, a, b)
  <2>1. ASSUME NEW v \in 0..n - 1 PROVE Of(v) < m + 1 <=> v <= k
    <3>1. Of(v) \in Int /\ (v = k => Of(v) = m) /\ (v < k => Of(v) < m) /\ (k < v => m < Of(v))
      BY <1>1, <1>2, <1>3, <1>5, <1>8
    <3> QED
      BY <1>1, <3>1
  <2>2. ~(Of(k) < m)
    <3>1. Of(k) = m
      BY <1>5, <1>8
    <3> QED
      BY <1>1, <3>1
  <2>3. Passed(n, m + 1, a, b) = {v \in 0..n - 1 : v <= k}
    BY <1>6, <2>1
  <2>4. {v \in 0..n - 1 : v <= k} = 0..k
    OBVIOUS
  <2>5. k \notin Passed(n, m, a, b)
    BY <1>6, <2>2
  <2> QED
    BY <2>3, <2>4, <2>5
<1>9. ASSUME ~(a = i /\ b = j) PROVE Passed(n, m + 1, a, b) = Passed(n, m, a, b)
  <2>1. \A v \in 0..n - 1 : Of(v) # m
    BY <1>1, <1>2, <1>3, <1>4, <1>9
  <2>2. \A v \in 0..n - 1 : Of(v) < m + 1 <=> Of(v) < m
    BY <1>1, <2>1
  <2> QED
    BY <1>6, <2>2
<1>10. k \notin Passed(n, m, i, j)
  BY <1>1 DEF Passed, Round
<1> QED
  BY <1>7, <1>8, <1>9, <1>10 DEF Round

\* Before the first round, and after the last.
LEMMA PassedEnds ==
  ASSUME NEW n \in Nat \ {0}
  PROVE  \A a, b \in 0..n - 1 : Passed(n, 0, a, b) = {} /\ Passed(n, n * n * n, a, b) = 0..n - 1
<1> TAKE a, b \in 0..n - 1
<1>1. ASSUME NEW v \in 0..n - 1 PROVE 0 <= (v * n + a) * n + b /\ (v * n + a) * n + b < n * n * n
  <2>1. v * n + a < n * n + 0
    BY LessDigit
  <2>2. (v * n + a) * n + b < (n * n) * n + 0
    BY <2>1, LessDigit
  <2>3. 0 <= v * n + a
    <3>1. 0 <= v * n
      OBVIOUS
    <3> QED
      BY <3>1
  <2>4. 0 <= (v * n + a) * n
    <3> DEFINE x == v * n + a
    <3>1. x \in Nat
      BY <2>3
    <3> HIDE DEF x
    <3> QED
      BY <3>1 DEF x
  <2> QED
    BY <2>2, <2>4
<1>2. \A v \in 0..n - 1 : (v * n + a) * n + b \in Int
  OBVIOUS
<1> QED
  BY <1>1, <1>2 DEF Passed, Round

\* What the matrix holds: the distance where all that is inside the path has
\* been passed, and nothing elsewhere.  On the diagonal it is a way there and
\* back.
Exact(es, n, m, s) ==
  /\ s \in Rounds(n) /\ ~s.overflow
  /\ \A a, b \in 0..n - 1 : a # b =>
       s.dist[<<a, b>>] = IF Inside(es, 0..n - 1, a, b) \subseteq Passed(n, m, a, b)
                          THEN Dist(es, a, b) ELSE MaxInt
  /\ \A a \in 0..n - 1 :
       s.dist[<<a, a>>] = MaxInt \/ s.dist[<<a, a>>] \in 0..2 * WeightOf(es)

\* The sums the loops compute are small enough, even on the diagonal.
SmallTree(es, n) == IsTree(es, 0..n - 1) /\ 4 * WeightOf(es) <= MaxInt

LEMMA Known ==
  ASSUME NEW n \in Nat \ {0}, NEW es, SmallTree(es, n), NEW m, NEW s, Exact(es, n, m, s),
         NEW a \in 0..n - 1, NEW b \in 0..n - 1
  PROVE  LET x == s.dist[<<a, b>>]
         IN  /\ x \in Int
             /\ x # MaxInt => x \in 0..2 * WeightOf(es)
             /\ a # b => (x # MaxInt <=> Inside(es, 0..n - 1, a, b) \subseteq Passed(n, m, a, b))
             /\ a # b /\ x # MaxInt => x = Dist(es, a, b)
             /\ a # b /\ x = MaxInt => ~(Inside(es, 0..n - 1, a, b) \subseteq Passed(n, m, a, b))
<1> DEFINE W == WeightOf(es)
           x == s.dist[<<a, b>>]
           d == Dist(es, a, b)
           P == Inside(es, 0..n - 1, a, b) \subseteq Passed(n, m, a, b)
<1>1. W \in Nat /\ d \in Nat /\ d <= W /\ 4 * W <= MaxInt /\ MaxInt \in Nat \ {0}
  BY DistOf, MaxIntAssumption DEF SmallTree
<1>2. x \in Int
  BY DEF Exact, Rounds, Matrix
<1>3. a # b => x = IF P THEN d ELSE MaxInt
  BY DEF Exact
<1>4. a = b => x = MaxInt \/ x \in 0..2 * W
  BY DEF Exact
<1> HIDE DEF W, x, d, P
<1>5. d # MaxInt /\ d \in 0..2 * W
  BY <1>1
<1> QED
  BY <1>2, <1>3, <1>4, <1>5 DEF W, x, d, P

LEMMA RelaxExact ==
  ASSUME NEW n \in Nat \ {0}, NEW es, SmallTree(es, n), NEW k \in 0..n - 1, NEW i \in 0..n - 1,
         NEW j \in 0..n - 1, NEW m \in Nat, m = Round(n, k, i, j), NEW s, Exact(es, n, m, s)
  PROVE  Exact(es, n, m + 1, Relax(s, i, k, j))
<1> DEFINE V == 0..n - 1
           In(a, b) == Inside(es, V, a, b)
           P(a, b) == Passed(n, m, a, b)
           Q(a, b) == Passed(n, m + 1, a, b)
           d(a, b) == Dist(es, a, b)
           old(a, b) == s.dist[<<a, b>>]
           W == WeightOf(es)
           r == Relax(s, i, k, j)
           new(a, b) == r.dist[<<a, b>>]
           sum == old(i, k) + old(k, j)
<1>1. /\ \A a, b \in V : /\ 0..k - 1 \subseteq P(a, b) /\ P(a, b) \subseteq 0..k
                         /\ Q(a, b) = IF a = i /\ b = j THEN 0..k ELSE P(a, b)
      /\ k \notin P(i, j)
  <2>1. ASSUME NEW a \in V, NEW b \in V
        PROVE  /\ 0..k - 1 \subseteq P(a, b) /\ P(a, b) \subseteq 0..k
               /\ Q(a, b) = IF a = i /\ b = j THEN 0..k ELSE P(a, b)
               /\ k \notin P(i, j)
    <3>1. /\ 0..k - 1 \subseteq Passed(n, Round(n, k, i, j), a, b)
          /\ Passed(n, Round(n, k, i, j), a, b) \subseteq 0..k
      BY PassedAfter
    <3>2. Passed(n, Round(n, k, i, j) + 1, a, b) = IF a = i /\ b = j THEN 0..k ELSE Passed(n, Round(n, k, i, j), a, b)
      BY PassedAfter
    <3>3. k \notin Passed(n, Round(n, k, i, j), i, j)
      BY PassedAfter
    <3> QED
      BY <3>1, <3>2, <3>3
  <2> QED
    BY <2>1
<1>2. IsTree(es, V) /\ W \in Nat /\ 4 * W <= MaxInt /\ MaxInt \in Nat \ {0}
  BY DistOf, MaxIntAssumption DEF SmallTree
<1>3. \A a, b \in V : /\ old(a, b) \in Int
                      /\ old(a, b) # MaxInt => old(a, b) \in 0..2 * W
                      /\ a # b => (old(a, b) # MaxInt <=> In(a, b) \subseteq P(a, b))
                      /\ a # b /\ old(a, b) # MaxInt => old(a, b) = d(a, b)
  <2> TAKE a, b \in V
  <2>1. LET x == s.dist[<<a, b>>]
        IN  /\ x \in Int
            /\ x # MaxInt => x \in 0..2 * WeightOf(es)
            /\ a # b => (x # MaxInt <=> Inside(es, 0..n - 1, a, b) \subseteq Passed(n, m, a, b))
            /\ a # b /\ x # MaxInt => x = Dist(es, a, b)
    BY Known
  <2> QED
    BY <2>1
<1>4. \A a, b \in V : d(a, b) \in 0..W /\ d(a, b) = d(b, a)
  <2> HIDE DEF V
  <2> QED
    BY <1>2, DistOf
<1>5. /\ \A a, b, c \in V : d(a, b) <= d(a, c) + d(c, b)
      /\ \A a, b \in V : \A c \in In(a, b) : c \in V /\ c # a /\ c # b /\ d(a, b) = d(a, c) + d(c, b)
  <2> HIDE DEF V
  <2> QED
    BY <1>2, DistDetour DEF Inside
<1>6. /\ \A a, b \in V : \A c \in In(a, b) : In(a, c) \subseteq In(a, b) /\ In(c, b) \subseteq In(a, b)
      /\ \A a, b, c \in V : In(a, b) \subseteq In(a, c) \cup In(c, b) \cup {c}
      /\ \A a, b \in V : In(a, b) \subseteq V /\ a \notin In(a, b) /\ b \notin In(a, b)
  <2> HIDE DEF V
  <2>1. \A a, b \in V : \A c \in Inside(es, V, a, b) :
          Inside(es, V, a, c) \subseteq Inside(es, V, a, b) /\ Inside(es, V, c, b) \subseteq Inside(es, V, a, b)
    BY <1>2, InsidePart
  <2>2. \A a, b, c \in V : Inside(es, V, a, b) \subseteq Inside(es, V, a, c) \cup Inside(es, V, c, b) \cup {c}
    BY <1>2, InsideDetour
  <2>3. \A a, b : Inside(es, V, a, b) \subseteq V /\ a \notin Inside(es, V, a, b) /\ b \notin Inside(es, V, a, b)
    BY DEF Inside
  <2> QED
    BY <2>1, <2>2, <2>3
<1>7. s \in Rounds(n) /\ ~s.overflow /\ r \in Rounds(n)
  BY RelaxTyped DEF Exact
<1>8. \/ (old(i, k) = MaxInt \/ old(k, j) = MaxInt) /\ r = s
      \/ /\ old(i, k) # MaxInt /\ old(k, j) # MaxInt
         /\ r.overflow = (s.overflow \/ ~Representable(sum))
         /\ \/ sum < old(i, j) /\ r.dist = [s.dist EXCEPT ![<<i, j>>] = sum]
            \/ ~(sum < old(i, j)) /\ r.dist = s.dist
  BY DEF Relax
<1> HIDE DEF r
<1>9. \A a, b \in V : ~(a = i /\ b = j) => new(a, b) = old(a, b)
  BY <1>7, <1>8 DEF Rounds, Matrix
<1>10. new(i, j) = IF old(i, k) # MaxInt /\ old(k, j) # MaxInt /\ sum < old(i, j) THEN sum ELSE old(i, j)
  BY <1>7, <1>8 DEF Rounds, Matrix
<1> HIDE DEF V, In, P, Q, d, old, new, W
<1>11. i \in V /\ k \in V /\ j \in V
  BY DEF V
<1>12. old(i, k) # MaxInt /\ old(k, j) # MaxInt => sum \in 0..4 * W
  BY <1>2, <1>3, <1>11
<1>13. ~r.overflow
  <2>1. old(i, k) # MaxInt /\ old(k, j) # MaxInt => Representable(sum)
    BY <1>2, <1>12 DEF Representable
  <2> QED
    BY <1>7, <1>8, <2>1
<1>14. ASSUME i = j PROVE new(i, i) = MaxInt \/ new(i, i) \in 0..2 * W
  <2>1. CASE k = i
    BY <1>2, <1>3, <1>10, <1>11, <1>14, <2>1
  <2>2. CASE k # i
    <3>1. old(i, k) # MaxInt /\ old(k, j) # MaxInt => sum \in 0..2 * W
      BY <1>2, <1>3, <1>4, <1>11, <1>14, <2>2
    <3> QED
      BY <1>3, <1>10, <1>11, <1>14, <3>1
  <2> QED
    BY <2>1, <2>2
<1>15. ASSUME i # j PROVE new(i, j) = IF In(i, j) \subseteq Q(i, j) THEN d(i, j) ELSE MaxInt
  <2>1. Q(i, j) = 0..k /\ old(i, j) = IF In(i, j) \subseteq P(i, j) THEN d(i, j) ELSE MaxInt
    BY <1>1, <1>3, <1>11, <1>15
  <2>2. \A a, b \in V : In(a, b) \subseteq 0..k /\ k \notin In(a, b) <=> In(a, b) \subseteq 0..k - 1
    BY DEF V
  <2>3. CASE k = i \/ k = j
    <3>1. k \notin In(i, j)
      BY <1>6, <1>11, <2>3
    <3>2. In(i, j) \subseteq Q(i, j) <=> In(i, j) \subseteq P(i, j)
      BY <1>1, <1>11, <2>1, <2>2, <3>1
    <3>3. old(i, k) # MaxInt /\ old(k, j) # MaxInt => ~(sum < old(i, j))
      <4>1. CASE k = i
        BY <1>2, <1>3, <1>11, <4>1
      <4>2. CASE k = j
        BY <1>2, <1>3, <1>11, <4>2
      <4> QED
        BY <2>3, <4>1, <4>2
    <3> QED
      BY <1>10, <2>1, <3>2, <3>3
  <2>4. CASE k # i /\ k # j
    <3>1. old(i, k) # MaxInt <=> In(i, k) \subseteq 0..k - 1
      BY <1>1, <1>3, <1>6, <1>11, <2>2, <2>4
    <3>2. old(k, j) # MaxInt <=> In(k, j) \subseteq 0..k - 1
      BY <1>1, <1>3, <1>6, <1>11, <2>2, <2>4
    <3>3. old(i, k) # MaxInt => old(i, k) = d(i, k)
      BY <1>3, <1>11, <2>4
    <3>4. old(k, j) # MaxInt => old(k, j) = d(k, j)
      BY <1>3, <1>11, <2>4
    <3>5. CASE k \in In(i, j)
      <4>1. ~(In(i, j) \subseteq P(i, j)) /\ old(i, j) = MaxInt /\ d(i, j) = d(i, k) + d(k, j)
        BY <1>1, <1>5, <1>11, <2>1, <3>5
      <4>2. CASE In(i, j) \subseteq 0..k
        <5>1. In(i, k) \subseteq 0..k - 1 /\ In(k, j) \subseteq 0..k - 1
          BY <1>6, <1>11, <2>2, <3>5, <4>2
        <5>2. sum = d(i, j) /\ sum < MaxInt
          BY <1>2, <1>4, <1>11, <3>1, <3>2, <3>3, <3>4, <4>1, <5>1
        <5> QED
          BY <1>10, <2>1, <3>1, <3>2, <4>1, <4>2, <5>1, <5>2
      <4>3. CASE ~(In(i, j) \subseteq 0..k)
        <5>1. ~(In(i, k) \subseteq 0..k - 1 /\ In(k, j) \subseteq 0..k - 1)
          <6>1. In(i, j) \subseteq In(i, k) \cup In(k, j) \cup {k}
            BY <1>6, <1>11
          <6>2. 0..k - 1 \subseteq 0..k /\ k \in 0..k
            OBVIOUS
          <6> QED
            BY <4>3, <6>1, <6>2
        <5> QED
          BY <1>10, <2>1, <3>1, <3>2, <4>1, <4>3, <5>1
      <4> QED
        BY <4>2, <4>3
    <3>6. CASE k \notin In(i, j)
      <4>1. In(i, j) \subseteq Q(i, j) <=> In(i, j) \subseteq P(i, j)
        BY <1>1, <1>11, <2>1, <2>2, <3>6
      <4>2. old(i, k) # MaxInt /\ old(k, j) # MaxInt => ~(sum < old(i, j))
        <5> SUFFICES ASSUME old(i, k) # MaxInt, old(k, j) # MaxInt PROVE ~(sum < old(i, j))
          OBVIOUS
        <5>1. In(i, j) \subseteq 0..k - 1
          <6>1. In(i, j) \subseteq In(i, k) \cup In(k, j) \cup {k}
            BY <1>6, <1>11
          <6> QED
            BY <3>1, <3>2, <3>6, <6>1
        <5>2. old(i, j) = d(i, j)
          BY <1>1, <1>11, <2>1, <5>1
        <5>3. sum = d(i, k) + d(k, j)
          BY <3>3, <3>4
        <5>4. d(i, j) <= d(i, k) + d(k, j)
          BY <1>5, <1>11
        <5> HIDE DEF sum
        <5>5. d(i, j) \in Int /\ d(i, k) \in Int /\ d(k, j) \in Int
          BY <1>4, <1>11
        <5> QED
          BY <5>2, <5>3, <5>4, <5>5
      <4> QED
        BY <1>10, <2>1, <4>1, <4>2
    <3> QED
      BY <3>5, <3>6
  <2> QED
    BY <2>3, <2>4
<1>16. \A a, b \in V : a # b => new(a, b) = IF In(a, b) \subseteq Q(a, b) THEN d(a, b) ELSE MaxInt
  <2> TAKE a, b \in V
  <2>1. CASE a = i /\ b = j
    BY <1>15, <2>1
  <2>2. CASE ~(a = i /\ b = j)
    <3>1. Q(a, b) = P(a, b) /\ new(a, b) = old(a, b)
      BY <1>1, <1>9, <2>2
    <3>2. a # b => old(a, b) = IF In(a, b) \subseteq P(a, b) THEN d(a, b) ELSE MaxInt
      BY <1>3
    <3> QED
      BY <3>1, <3>2
  <2> QED
    BY <2>1, <2>2
<1>17. \A a \in V : new(a, a) = MaxInt \/ new(a, a) \in 0..2 * W
  <2> TAKE a \in V
  <2>1. CASE a = i /\ a = j
    BY <1>14, <2>1
  <2>2. CASE ~(a = i /\ a = j)
    BY <1>3, <1>9, <2>2
  <2> QED
    BY <2>1, <2>2
<1> QED
  BY <1>7, <1>13, <1>16, <1>17 DEF Exact, V, In, Q, d, new, W, r

-----------------------------------------------------------------------------
(***************************************************************************)
(* The total weight and the edges' matrix are folds: what each is on the   *)
(* first k edges follows from what it is on the first k - 1.               *)
(***************************************************************************)
Sums == [value : Int, overflow : BOOLEAN]

LEMMA AddTyped ==
  ASSUME NEW acc \in Sums, NEW w \in Int
  PROVE  AddInt(acc, w) \in Sums
<1>1. acc.value + w \in Int /\ (acc.overflow \/ ~Representable(acc.value + w)) \in BOOLEAN
  BY DEF Sums
<1> QED
  BY <1>1 DEF AddInt, Sums

LEMMA TotalWeightUp ==
  ASSUME NEW T, \A e \in T : e.weight \in Int, NEW tree \in Seq(T)
  PROVE  \E g \in [0..Len(tree) -> Sums] :
           /\ g[0] = [value |-> 0, overflow |-> FALSE]
           /\ \A k \in 1..Len(tree) : g[k] = AddInt(g[k - 1], tree[k].weight)
           /\ getTotalWeight(tree) = g[Len(tree)]
<1> DEFINE n == Len(tree)
           base == [value |-> 0, overflow |-> FALSE]
           From(f, s) == IF s = {} THEN base
                         ELSE AddInt(f[s \ {Max(s)}], tree[Max(s)].weight)
           h == CHOOSE f : f = [s \in SUBSET (1..n) |-> From(f, s)]
           F == [p \in (1..n) \X Sums |-> AddInt(p[2], tree[p[1]].weight)]
<1>1. n \in Nat /\ DOMAIN tree = 1..n /\ \A k \in 1..n : tree[k].weight \in Int
  OBVIOUS
<1>2. getTotalWeight(tree) = h[1..n]
  <2>1. getTotalWeight(tree) = LET k == CHOOSE f : f = [s \in SUBSET (DOMAIN tree) |-> From(f, s)] IN k[DOMAIN tree]
    BY DEF getTotalWeight, FoldLeft, MapThenFoldSet
  <2> QED
    BY <1>1, <2>1
<1>3. base \in Sums
  BY DEF Sums
<1>4. F \in Steps(n, Sums)
  BY <1>1, AddTyped DEF Steps
<1>5. \E f : f = [s \in SUBSET (1..n) |-> From(f, s)]
  <2>1. PICK f : Folds(f, n, Sums, base, F)
    <3> HIDE DEF base, F, n
    <3> QED
      BY <1>1, <1>3, <1>4, FoldExists
  <2>2. ASSUME NEW s \in SUBSET (1..n) PROVE f[s] = From(f, s)
    <3>1. CASE s = {}
      BY <2>1, <3>1 DEF Folds
    <3>2. CASE s # {}
      <4>1. Max(s) \in 1..n
        BY <1>1, <3>2, MaxUpTo
      <4>2. f[s \ {Max(s)}] \in Sums
        BY <2>1 DEF Folds
      <4>3. F[<<Max(s), f[s \ {Max(s)}]>>] = AddInt(f[s \ {Max(s)}], tree[Max(s)].weight)
        BY <4>1, <4>2
      <4> QED
        BY <2>1, <3>2, <4>3 DEF Folds
    <3> QED
      BY <3>1, <3>2
  <2> HIDE DEF From
  <2>3. f = [s \in SUBSET (1..n) |-> From(f, s)]
    BY <2>1, <2>2 DEF Folds
  <2> QED
    BY <2>3
<1>6. h = [s \in SUBSET (1..n) |-> From(h, s)]
  <2> HIDE DEF From
  <2> QED
    BY <1>5
<1> DEFINE g == [k \in 0..n |-> h[1..k]]
<1> HIDE DEF h
<1>7. g[0] = base
  <2>1. 1..0 = {} /\ {} \in SUBSET (1..n) /\ 0 \in 0..n
    BY <1>1
  <2>2. h[{}] = From(h, {})
    BY <1>6, <2>1
  <2> QED
    BY <2>1, <2>2
<1>8. ASSUME NEW k \in 1..n PROVE g[k] = AddInt(g[k - 1], tree[k].weight)
  <2>1. 1..k \in SUBSET (1..n) /\ 1..k # {} /\ Max(1..k) = k /\ (1..k) \ {Max(1..k)} = 1..k - 1
    BY <1>1, UpToPrefix
  <2>2. h[1..k] = From(h, 1..k)
    BY <1>6, <2>1
  <2>3. k \in 0..n /\ k - 1 \in 0..n
    BY <1>1
  <2>4. From(h, 1..k) = AddInt(h[1..k - 1], tree[k].weight)
    BY <2>1
  <2> QED
    BY <2>2, <2>3, <2>4
<1>9. g[n] = h[1..n]
  BY <1>1
<1> HIDE DEF g
<1>10. \A k \in 0..n : g[k] \in Sums
  <2> DEFINE D == {k \in 0..n : g[k] \in Sums}
  <2>1. 0 \in D
    BY <1>1, <1>3, <1>7
  <2>2. ASSUME NEW k \in 0..n, k \in D, k < n PROVE k + 1 \in D
    <3>1. k + 1 \in 1..n /\ (k + 1) - 1 = k /\ k + 1 \in 0..n
      BY <1>1, <2>2
    <3>2. g[k + 1] = AddInt(g[k], tree[k + 1].weight)
      BY <1>8, <3>1
    <3>3. g[k + 1] \in Sums
      BY <1>1, <2>2, <3>1, <3>2, AddTyped
    <3> QED
      BY <3>1, <3>3
  <2> HIDE DEF D
  <2>3. 0..n \subseteq D
    BY <1>1, <2>1, <2>2, UpTo
  <2> QED
    BY <2>3 DEF D
<1>11. g \in [0..n -> Sums]
  BY <1>10 DEF g
<1> QED
  BY <1>2, <1>7, <1>8, <1>9, <1>11

WithEdge(dist, e) == [dist EXCEPT ![<<e.source, e.destination>>] = e.weight,
                                  ![<<e.destination, e.source>>] = e.weight]

Unknown(n) == [p \in (0..n - 1) \X (0..n - 1) |-> MaxInt]

LEMMA WithEdgeTyped ==
  ASSUME NEW n \in Nat, NEW dist \in Matrix(n), NEW e, e.weight \in Int
  PROVE  WithEdge(dist, e) \in Matrix(n)
BY DEF WithEdge, Matrix

LEMMA EdgeDistancesUp ==
  ASSUME NEW T, \A e \in T : e.weight \in Int, NEW tree \in Seq(T), NEW v \in Nat
  PROVE  \E g \in [0..Len(tree) -> Matrix(v)] :
           /\ g[0] = Unknown(v)
           /\ \A k \in 1..Len(tree) : g[k] = WithEdge(g[k - 1], tree[k])
           /\ EdgeDistances(tree, v) = g[Len(tree)]
<1> DEFINE n == Len(tree)
           base == Unknown(v)
           X == Matrix(v)
           From(f, s) == IF s = {} THEN base
                         ELSE WithEdge(f[s \ {Max(s)}], tree[Max(s)])
           h == CHOOSE f : f = [s \in SUBSET (1..n) |-> From(f, s)]
           F == [p \in (1..n) \X X |-> WithEdge(p[2], tree[p[1]])]
<1>1. n \in Nat /\ DOMAIN tree = 1..n /\ \A k \in 1..n : tree[k].weight \in Int
  OBVIOUS
<1>2. EdgeDistances(tree, v) = h[1..n]
  <2>1. EdgeDistances(tree, v) = LET k == CHOOSE f : f = [s \in SUBSET (DOMAIN tree) |-> From(f, s)] IN k[DOMAIN tree]
    BY DEF EdgeDistances, WithEdge, Unknown, FoldLeft, MapThenFoldSet
  <2> QED
    BY <1>1, <2>1
<1>3. base \in X
  BY MaxIntAssumption DEF Unknown, Matrix
<1> HIDE DEF X
<1>4. F \in Steps(n, X)
  BY <1>1, WithEdgeTyped DEF Steps, X
<1>5. \E f : f = [s \in SUBSET (1..n) |-> From(f, s)]
  <2>1. PICK f : Folds(f, n, X, base, F)
    <3> HIDE DEF base, F, n
    <3> QED
      BY <1>1, <1>3, <1>4, FoldExists
  <2>2. ASSUME NEW s \in SUBSET (1..n) PROVE f[s] = From(f, s)
    <3>1. CASE s = {}
      BY <2>1, <3>1 DEF Folds
    <3>2. CASE s # {}
      <4>1. Max(s) \in 1..n
        BY <1>1, <3>2, MaxUpTo
      <4>2. f[s \ {Max(s)}] \in X
        BY <2>1 DEF Folds
      <4>3. F[<<Max(s), f[s \ {Max(s)}]>>] = WithEdge(f[s \ {Max(s)}], tree[Max(s)])
        BY <4>1, <4>2
      <4> QED
        BY <2>1, <3>2, <4>3 DEF Folds
    <3> QED
      BY <3>1, <3>2
  <2> HIDE DEF From
  <2>3. f = [s \in SUBSET (1..n) |-> From(f, s)]
    BY <2>1, <2>2 DEF Folds
  <2> QED
    BY <2>3
<1>6. h = [s \in SUBSET (1..n) |-> From(h, s)]
  <2> HIDE DEF From
  <2> QED
    BY <1>5
<1> DEFINE g == [k \in 0..n |-> h[1..k]]
<1> HIDE DEF h
<1>7. g[0] = base
  <2>1. 1..0 = {} /\ {} \in SUBSET (1..n) /\ 0 \in 0..n
    BY <1>1
  <2>2. h[{}] = From(h, {})
    BY <1>6, <2>1
  <2> QED
    BY <2>1, <2>2
<1>8. ASSUME NEW k \in 1..n PROVE g[k] = WithEdge(g[k - 1], tree[k])
  <2>1. 1..k \in SUBSET (1..n) /\ 1..k # {} /\ Max(1..k) = k /\ (1..k) \ {Max(1..k)} = 1..k - 1
    BY <1>1, UpToPrefix
  <2>2. h[1..k] = From(h, 1..k)
    BY <1>6, <2>1
  <2>3. k \in 0..n /\ k - 1 \in 0..n
    BY <1>1
  <2>4. From(h, 1..k) = WithEdge(h[1..k - 1], tree[k])
    BY <2>1
  <2> QED
    BY <2>2, <2>3, <2>4
<1>9. g[n] = h[1..n]
  BY <1>1
<1> HIDE DEF g
<1>10. \A k \in 0..n : g[k] \in X
  <2> DEFINE D == {k \in 0..n : g[k] \in X}
  <2>1. 0 \in D
    BY <1>1, <1>3, <1>7
  <2>2. ASSUME NEW k \in 0..n, k \in D, k < n PROVE k + 1 \in D
    <3>1. k + 1 \in 1..n /\ (k + 1) - 1 = k /\ k + 1 \in 0..n
      BY <1>1, <2>2
    <3>2. g[k + 1] = WithEdge(g[k], tree[k + 1])
      BY <1>8, <3>1
    <3>3. g[k + 1] \in X
      BY <1>1, <2>2, <3>1, <3>2, WithEdgeTyped DEF X
    <3> QED
      BY <3>1, <3>3
  <2> HIDE DEF D
  <2>3. 0..n \subseteq D
    BY <1>1, <2>1, <2>2, UpTo
  <2> QED
    BY <2>3 DEF D
<1>11. g \in [0..n -> X]
  BY <1>10 DEF g
<1> QED
  BY <1>2, <1>7, <1>8, <1>9, <1>11 DEF X

LEMMA TotalWeightExact ==
  ASSUME NEW T, \A e \in T : e.weight \in Nat, NEW tree \in Seq(T),
         \A a, b \in DOMAIN tree : tree[a] = tree[b] => a = b,
         WeightOf(ToSet(tree)) <= MaxInt
  PROVE  getTotalWeight(tree) = [value |-> WeightOf(ToSet(tree)), overflow |-> FALSE]
<1> DEFINE n == Len(tree)
           es == ToSet(tree)
           P(k) == {tree[a] : a \in 1..k}
           sum(k) == [value |-> WeightOf(P(k)), overflow |-> FALSE]
<1>1. n \in Nat /\ DOMAIN tree = 1..n /\ \A k \in 1..n : tree[k] \in T /\ tree[k].weight \in Nat
  OBVIOUS
<1>2. P(n) = es /\ \A k \in 0..n : P(k) \in SUBSET es
  <2>1. es = {tree[a] : a \in 1..n}
    BY <1>1 DEF ToSet
  <2> HIDE DEF es
  <2> QED
    BY <1>1, <2>1
<1>3. IsFiniteSet(es) /\ \A e \in es : e.weight \in Nat
  <2>1. IsFiniteSet(es)
    BY ToSetFinite
  <2>3. es = {tree[a] : a \in 1..n}
    BY <1>2
  <2>4. \A e \in es : e.weight \in Nat
    <3> HIDE DEF es
    <3> QED
      BY <1>1, <2>3
  <2> QED
    BY <2>1, <2>4
<1>4. PICK g \in [0..n -> Sums] :
        /\ g[0] = [value |-> 0, overflow |-> FALSE]
        /\ \A k \in 1..n : g[k] = AddInt(g[k - 1], tree[k].weight)
        /\ getTotalWeight(tree) = g[n]
  <2>1. \A e \in T : e.weight \in Int
    OBVIOUS
  <2> QED
    BY <2>1, TotalWeightUp
<1>5. \A k \in 0..n : WeightOf(P(k)) \in Nat /\ WeightOf(P(k)) <= MaxInt
  <2>1. \A B \in SUBSET es : WeightOf(B) \in Nat /\ WeightOf(B) <= WeightOf(es)
    <3> HIDE DEF es
    <3> QED
      BY <1>3, WeightOfPart
  <2>2. es \in SUBSET es /\ WeightOf(es) <= MaxInt
    OBVIOUS
  <2> HIDE DEF es, P
  <2> QED
    BY <1>2, <2>1, <2>2, MaxIntAssumption
<1> DEFINE D == {k \in 0..n : g[k] = sum(k)}
<1>6. 0 \in D
  <2>1. P(0) = {}
    OBVIOUS
  <2>2. WeightOf({}) = 0
    BY FS_EmptySet, WeightOfFirst
  <2> HIDE DEF P, es
  <2>3. sum(0) = [value |-> 0, overflow |-> FALSE]
    BY <2>1, <2>2
  <2> HIDE DEF sum, n
  <2>4. 0 \in 0..n /\ g[0] = sum(0)
    BY <1>1, <1>4, <2>3
  <2> QED
    BY <2>4
<1>7. ASSUME NEW k \in 0..n, k \in D, k < n PROVE k + 1 \in D
  <2>1. k + 1 \in 1..n /\ (k + 1) - 1 = k /\ k + 1 \in 0..n
    BY <1>1, <1>7
  <2> DEFINE e == tree[k + 1]
  <2>2. P(k + 1) = P(k) \cup {e}
    <3>1. 1..k + 1 = (1..k) \cup {k + 1}
      BY <1>1
    <3> QED
      BY <3>1
  <2>3. e \notin P(k)
    <3>1. \A a \in 1..k : a \in DOMAIN tree /\ a # k + 1
      BY <1>1, <1>7
    <3> QED
      BY <1>1, <2>1, <3>1
  <2>4. e \in es /\ IsFiniteSet(P(k)) /\ \A x \in P(k) : x.weight \in Int
    <3>1. P(k) \in SUBSET es
      BY <1>2
    <3>2. e \in es
      BY <1>1, <2>1 DEF ToSet
    <3> HIDE DEF P, es
    <3>3. IsFiniteSet(P(k))
      BY <1>3, <3>1, FS_Subset
    <3> QED
      BY <1>3, <3>1, <3>2, <3>3
  <2>5. e.weight \in Nat
    BY <1>1, <2>1
  <2> HIDE DEF P, e
  <2>6. WeightOf(P(k + 1)) = WeightOf(P(k)) + e.weight
    BY <2>2, <2>3, <2>4, <2>5, WeightOfAdd
  <2>7. g[k + 1] = AddInt(sum(k), e.weight)
    BY <1>4, <1>7, <2>1 DEF e
  <2>8. WeightOf(P(k + 1)) \in Nat /\ WeightOf(P(k + 1)) <= MaxInt
    BY <1>5, <2>1
  <2>9. Representable(WeightOf(P(k)) + e.weight)
    BY <2>6, <2>8, MaxIntAssumption DEF Representable
  <2>10. g[k + 1] = sum(k + 1)
    BY <2>6, <2>7, <2>9 DEF AddInt
  <2> QED
    BY <2>1, <2>10
<1>8. n \in D
  <2> HIDE DEF D, n
  <2>1. 0..n \subseteq D
    BY <1>1, <1>6, <1>7, UpTo
  <2>2. n \in 0..n
    BY <1>1
  <2> QED
    BY <2>1, <2>2
<1>9. getTotalWeight(tree) = sum(n)
  BY <1>4, <1>8 DEF D
<1>10. WeightOf(P(n)) = WeightOf(es)
  BY <1>2
<1> HIDE DEF P, es
<1>11. getTotalWeight(tree) = [value |-> WeightOf(es), overflow |-> FALSE]
  BY <1>9, <1>10
<1> QED
  BY <1>11 DEF es

LEMMA WithEdgeAt ==
  ASSUME NEW n \in Nat, NEW dist \in Matrix(n), NEW e,
         e.source \in 0..n - 1, e.destination \in 0..n - 1, NEW a \in 0..n - 1, NEW b \in 0..n - 1
  PROVE  WithEdge(dist, e)[<<a, b>>] = IF Joined(e, a, b) THEN e.weight ELSE dist[<<a, b>>]
<1> DEFINE u == e.source
           v == e.destination
           first == [dist EXCEPT ![<<u, v>>] = e.weight]
<1>1. <<u, v>> \in (0..n - 1) \X (0..n - 1) /\ <<v, u>> \in (0..n - 1) \X (0..n - 1)
      /\ <<a, b>> \in (0..n - 1) \X (0..n - 1)
  OBVIOUS
<1>2. DOMAIN dist = (0..n - 1) \X (0..n - 1)
  BY DEF Matrix
<1>3. first[<<a, b>>] = IF u = a /\ v = b THEN e.weight ELSE dist[<<a, b>>]
  BY <1>1, <1>2
<1>4. WithEdge(dist, e)[<<a, b>>] = IF v = a /\ u = b THEN e.weight ELSE first[<<a, b>>]
  <2>1. WithEdge(dist, e) = [first EXCEPT ![<<v, u>>] = e.weight] /\ DOMAIN first = DOMAIN dist
    BY DEF WithEdge
  <2> HIDE DEF first
  <2> QED
    BY <1>1, <1>2, <2>1
<1> HIDE DEF first
<1> QED
  BY <1>3, <1>4 DEF Joined

LEMMA EdgesExact ==
  ASSUME NEW n \in Nat \ {0}, NEW T, NEW tree \in Seq(T), NEW es, es = ToSet(tree), SmallTree(es, n)
  PROVE  Exact(es, n, 0, [dist |-> EdgeDistances(tree, n), overflow |-> FALSE])
<1> DEFINE N == Len(tree)
           V == 0..n - 1
           Has(k, a, b) == \E i \in 1..k : Joined(tree[i], a, b)
<1>1. N \in Nat /\ DOMAIN tree = 1..N /\ es = {tree[i] : i \in 1..N} /\ tree \in Seq(es)
  <2>1. N \in Nat /\ DOMAIN tree = 1..N
    OBVIOUS
  <2>2. es = {tree[i] : i \in 1..N}
    BY <2>1 DEF ToSet
  <2>3. \A i \in 1..N : tree[i] \in es
    BY <2>2
  <2> QED
    BY <2>1, <2>2, <2>3
<1>2. IsTree(es, V)
  BY DEF SmallTree
<1>3. \A e \in es : e.source \in V /\ e.destination \in V /\ e.weight \in Int /\ e.source # e.destination
  <2> TAKE e \in es
  <2>1. e.source \in V /\ e.destination \in V /\ e.weight \in Nat
    BY <1>2 DEF IsTree
  <2>2. e.destination \notin Component(es \ {e}, e.source)
    BY <1>2 DEF IsTree, Acyclic
  <2>3. e.source \in Component(es \ {e}, e.source)
    BY ComponentHolds
  <2> QED
    BY <2>1, <2>2, <2>3
<1>4. \A e \in es : \A a, b \in V : Joined(e, a, b) => Dist(es, a, b) = e.weight
  <2> HIDE DEF V
  <2> QED
    BY <1>2, DistOf
<1>5. \A a, b \in V : a # b => (Inside(es, V, a, b) = {} <=> \E e \in es : Joined(e, a, b))
  <2> HIDE DEF V
  <2> QED
    BY <1>2, NothingInside
<1>6. \A a, b \in V : Passed(n, 0, a, b) = {}
  BY PassedEnds
<1>7. PICK g \in [0..N -> Matrix(n)] :
        /\ g[0] = Unknown(n)
        /\ \A k \in 1..N : g[k] = WithEdge(g[k - 1], tree[k])
        /\ EdgeDistances(tree, n) = g[N]
  <2>1. \A e \in es : e.weight \in Int
    BY <1>3
  <2> QED
    BY <1>1, <2>1, EdgeDistancesUp
<1> DEFINE Good(k) == \A a, b \in V : g[k][<<a, b>>] = IF Has(k, a, b) THEN Dist(es, a, b) ELSE MaxInt
           D == {k \in 0..N : Good(k)}
<1>8. 0 \in D
  <2>1. \A a, b \in V : ~Has(0, a, b)
    OBVIOUS
  <2>2. \A a, b \in V : g[0][<<a, b>>] = MaxInt
    BY <1>7 DEF Unknown
  <2> HIDE DEF Has, V
  <2> QED
    BY <1>1, <2>1, <2>2
<1>9. ASSUME NEW k \in 0..N, k \in D, k < N PROVE k + 1 \in D
  <2> DEFINE e == tree[k + 1]
  <2>1. k + 1 \in 1..N /\ (k + 1) - 1 = k /\ k + 1 \in 0..N
    BY <1>1, <1>9
  <2>2. e \in es /\ g[k] \in Matrix(n) /\ g[k + 1] = WithEdge(g[k], e)
    BY <1>1, <1>7, <2>1
  <2>3. \A a, b : Has(k + 1, a, b) <=> Has(k, a, b) \/ Joined(e, a, b)
    <3>1. 1..k + 1 = (1..k) \cup {k + 1}
      BY <1>1
    <3> QED
      BY <3>1
  <2> HIDE DEF e
  <2>4. ASSUME NEW a \in V, NEW b \in V
        PROVE  g[k + 1][<<a, b>>] = IF Has(k + 1, a, b) THEN Dist(es, a, b) ELSE MaxInt
    <3>1. g[k + 1][<<a, b>>] = IF Joined(e, a, b) THEN e.weight ELSE g[k][<<a, b>>]
      <4>1. e.source \in 0..n - 1 /\ e.destination \in 0..n - 1
        BY <1>3, <2>2
      <4> QED
        BY <2>2, <4>1, WithEdgeAt
    <3>2. g[k][<<a, b>>] = IF Has(k, a, b) THEN Dist(es, a, b) ELSE MaxInt
      BY <1>9
    <3>3. Joined(e, a, b) => Dist(es, a, b) = e.weight
      BY <1>4, <2>2
    <3> HIDE DEF Has
    <3> QED
      BY <2>3, <3>1, <3>2, <3>3
  <2> HIDE DEF Has
  <2> QED
    BY <2>1, <2>4
<1>10. N \in D
  <2> HIDE DEF D, N
  <2>1. 0..N \subseteq D
    BY <1>1, <1>8, <1>9, UpTo
  <2>2. N \in 0..N
    BY <1>1
  <2> QED
    BY <2>1, <2>2
<1>11. \A a, b : Has(N, a, b) <=> \E e \in es : Joined(e, a, b)
  BY <1>1
<1> HIDE DEF Has
<1>12. \A a, b \in V : g[N][<<a, b>>] = IF \E e \in es : Joined(e, a, b) THEN Dist(es, a, b) ELSE MaxInt
  BY <1>10, <1>11 DEF D
<1>13. \A a \in V : ~\E e \in es : Joined(e, a, a)
  BY <1>3 DEF Joined
<1>14. [dist |-> g[N], overflow |-> FALSE] \in Rounds(n)
  BY <1>1 DEF Rounds
<1> DEFINE s == [dist |-> g[N], overflow |-> FALSE]
<1>15. \A a, b \in V : a # b => s.dist[<<a, b>>] =
          IF Inside(es, V, a, b) \subseteq Passed(n, 0, a, b) THEN Dist(es, a, b) ELSE MaxInt
  <2> HIDE DEF V
  <2>1. \A a, b \in V : Inside(es, V, a, b) \subseteq Passed(n, 0, a, b) <=> Inside(es, V, a, b) = {}
    BY <1>6 DEF V
  <2> QED
    BY <1>5, <1>12, <2>1
<1>16. \A a \in V : s.dist[<<a, a>>] = MaxInt
  BY <1>12, <1>13
<1>17. s \in Rounds(n) /\ ~s.overflow
  BY <1>14
<1> HIDE DEF s
<1>18. Exact(es, n, 0, s)
  BY <1>15, <1>16, <1>17 DEF Exact
<1> QED
  BY <1>7, <1>18 DEF s

Final(es, n, s) ==
  s.overflow = FALSE /\ \A a, b \in 0..n - 1 : a # b => s.dist[<<a, b>>] = Dist(es, a, b)

LEMMA FloydWarshallExact ==
  ASSUME NEW n \in Nat \ {0}, NEW T, NEW tree \in Seq(T), NEW es, es = ToSet(tree), SmallTree(es, n)
  PROVE  Final(es, n, FloydWarshall(tree, n))
<1> DEFINE N == n * n * n
           X == Rounds(n)
           base == [dist |-> EdgeDistances(tree, n), overflow |-> FALSE]
           To(s, m) == Relax(s, ((m - 1) \div n) % n, (m - 1) \div (n * n), (m - 1) % n)
           From(f, m) == IF m = 0 THEN base ELSE To(f[m - 1], m)
           h == CHOOSE f : f = [m \in 0..N |-> From(f, m)]
           F == [p \in X \X (1..N) |-> To(p[1], p[2])]
<1>1. N \in Nat
  OBVIOUS
<1>2. FloydWarshall(tree, n) = h[N]
  BY DEF FloydWarshall
<1>3. Exact(es, n, 0, base)
  BY EdgesExact
<1>4. base \in X
  BY <1>3 DEF Exact
<1>5. ASSUME NEW m \in 1..N
      PROVE  /\ (m - 1) \div (n * n) \in 0..n - 1 /\ ((m - 1) \div n) % n \in 0..n - 1 /\ (m - 1) % n \in 0..n - 1
             /\ m - 1 = Round(n, (m - 1) \div (n * n), ((m - 1) \div n) % n, (m - 1) % n)
  <2>1. m - 1 \in 0..n * n * n - 1
    BY <1>1
  <2> QED
    BY <2>1, Digits DEF Round
<1>6. F \in [X \X (1..N) -> X]
  <2>1. ASSUME NEW s \in X, NEW m \in 1..N PROVE To(s, m) \in X
    <3>1. (m - 1) \div (n * n) \in 0..n - 1 /\ ((m - 1) \div n) % n \in 0..n - 1 /\ (m - 1) % n \in 0..n - 1
      BY <1>5
    <3> QED
      BY <3>1, RelaxTyped
  <2> HIDE DEF X, To, N
  <2> QED
    BY <2>1
<1> HIDE DEF base, X, To, N
<1>7. \E f : f = [m \in 0..N |-> From(f, m)]
  <2>1. PICK f : Iterated(f, N, X, base, F)
    <3> HIDE DEF F
    <3> QED
      BY <1>1, <1>4, <1>6, Iterates
  <2>2. ASSUME NEW m \in 0..N PROVE f[m] = From(f, m)
    <3>1. CASE m = 0
      BY <2>1, <3>1 DEF Iterated
    <3>2. CASE m # 0
      <4>1. m \in 1..N /\ m - 1 \in 0..N
        BY <1>1, <3>2
      <4>2. f[m - 1] \in X
        BY <2>1, <4>1 DEF Iterated
      <4>3. F[<<f[m - 1], m>>] = To(f[m - 1], m)
        BY <4>1, <4>2
      <4> QED
        BY <2>1, <3>2, <4>1, <4>3 DEF Iterated
    <3> QED
      BY <3>1, <3>2
  <2> HIDE DEF From
  <2>3. f = [m \in 0..N |-> From(f, m)]
    BY <2>1, <2>2 DEF Iterated
  <2> QED
    BY <2>3
<1>8. h = [m \in 0..N |-> From(h, m)]
  <2> HIDE DEF From
  <2> QED
    BY <1>7
<1> HIDE DEF h
<1>9. h[0] = base /\ \A m \in 1..N : m - 1 \in 0..N /\ h[m] = To(h[m - 1], m)
  <2>1. 0 \in 0..N /\ \A m \in 1..N : m - 1 \in 0..N /\ m \in 0..N /\ m # 0
    BY <1>1
  <2>2. h[0] = From(h, 0)
    BY <1>8, <2>1
  <2>3. \A m \in 1..N : h[m] = From(h, m)
    BY <1>8, <2>1
  <2> QED
    BY <2>1, <2>2, <2>3
<1> DEFINE D == {m \in 0..N : Exact(es, n, m, h[m])}
<1>10. 0 \in D
  BY <1>1, <1>3, <1>9
<1>11. ASSUME NEW m \in 0..N, m \in D, m < N PROVE m + 1 \in D
  <2>1. m \in Nat /\ m + 1 \in 1..N /\ m + 1 \in 0..N /\ (m + 1) - 1 = m
    BY <1>1, <1>11
  <2> DEFINE k == m \div (n * n)
             i == (m \div n) % n
             j == m % n
  <2>2. k \in 0..n - 1 /\ i \in 0..n - 1 /\ j \in 0..n - 1 /\ m = Round(n, k, i, j)
    BY <1>5, <2>1
  <2>3. h[m + 1] = Relax(h[m], i, k, j)
    BY <1>9, <2>1 DEF To
  <2>4. Exact(es, n, m, h[m])
    BY <1>11
  <2> HIDE DEF k, i, j
  <2>5. Exact(es, n, m + 1, Relax(h[m], i, k, j))
    BY <2>1, <2>2, <2>4, RelaxExact
  <2> QED
    BY <2>1, <2>3, <2>5
<1>12. N \in D
  <2> HIDE DEF D
  <2>1. 0..N \subseteq D
    BY <1>1, <1>10, <1>11, UpTo
  <2>2. N \in 0..N
    BY <1>1
  <2> QED
    BY <2>1, <2>2
<1>13. Exact(es, n, N, h[N])
  BY <1>12
<1>14. \A a, b \in 0..n - 1 : Passed(n, N, a, b) = 0..n - 1
  BY PassedEnds DEF N
<1>15. \A a, b \in 0..n - 1 : Inside(es, 0..n - 1, a, b) \subseteq 0..n - 1
  BY DEF Inside
<1>16. \A a, b \in 0..n - 1 : a # b => h[N].dist[<<a, b>>] = Dist(es, a, b)
  BY <1>13, <1>14, <1>15 DEF Exact
<1>17. h[N].overflow = FALSE
  BY <1>13 DEF Exact, Rounds
<1> QED
  BY <1>2, <1>16, <1>17 DEF Final

-----------------------------------------------------------------------------
(***************************************************************************)
(* The metrics of a tree of all vertices.                                  *)
(***************************************************************************)
LEMMA MaxWithLeast ==
  ASSUME NEW R, IsFiniteSet(R), R # {}, R \subseteq Int, NEW least \in Int, \A y \in R : least <= y
  PROVE  Max({least} \cup R) = Max(R)
<1> DEFINE S == {least} \cup R
<1>1. IsFiniteSet(S) /\ S # {} /\ S \subseteq Int
  <2>1. S = R \cup {least}
    OBVIOUS
  <2>2. IsFiniteSet(R \cup {least})
    BY FS_AddElement
  <2> QED
    BY <2>1, <2>2
<1> DEFINE x == Max(R)
           z == Max(S)
<1>2. x \in R /\ \A y \in R : x >= y
  BY MaxMin
<1>3. z \in S /\ \A y \in S : z >= y
  <2> HIDE DEF S
  <2> QED
    BY <1>1, MaxMin
<1> HIDE DEF x, z
<1>4. x >= z /\ z >= x
  BY <1>2, <1>3
<1>5. x = z
  BY <1>2, <1>3, <1>4
<1> QED
  BY <1>5 DEF x, z, S

LEMMA MinWithGreatest ==
  ASSUME NEW R, IsFiniteSet(R), R # {}, R \subseteq Int, NEW most \in Int, \A y \in R : y <= most
  PROVE  Min({most} \cup R) = Min(R)
<1> DEFINE S == {most} \cup R
<1>1. IsFiniteSet(S) /\ S # {} /\ S \subseteq Int
  <2>1. S = R \cup {most}
    OBVIOUS
  <2>2. IsFiniteSet(R \cup {most})
    BY FS_AddElement
  <2> QED
    BY <2>1, <2>2
<1> DEFINE x == Min(R)
           z == Min(S)
<1>2. x \in R /\ \A y \in R : x <= y
  BY MaxMin
<1>3. z \in S /\ \A y \in S : z <= y
  <2> HIDE DEF S
  <2> QED
    BY <1>1, MaxMin
<1> HIDE DEF x, z
<1>4. x <= z /\ z <= x
  BY <1>2, <1>3
<1>5. x = z
  BY <1>2, <1>3, <1>4
<1> QED
  BY <1>5 DEF x, z, S

PathWeights(es, n) == [p \in Pairs(n) |-> PathWeight(es, p)]

LEMMA DistancesExact ==
  ASSUME NEW n \in Nat \ {0}, NEW T, NEW tree \in Seq(T), NEW es, es = ToSet(tree), SmallTree(es, n)
  PROVE  /\ Distances(tree, n).of = PathWeights(es, n)
         /\ Distances(tree, n).overflow = FALSE
         /\ \A p \in Pairs(n) : PathWeight(es, p) \in Nat /\ PathWeight(es, p) < MaxInt
<1> DEFINE after == FloydWarshall(tree, n)
           known == {p \in Pairs(n) : after.dist[p] # MaxInt}
<1>1. after.overflow = FALSE /\ \A a, b \in 0..n - 1 : a # b => after.dist[<<a, b>>] = Dist(es, a, b)
  <2>1. Final(es, n, FloydWarshall(tree, n))
    BY FloydWarshallExact
  <2> QED
    BY <2>1 DEF Final
<1>2. WeightOf(es) \in Nat /\ \A a, b \in 0..n - 1 : Dist(es, a, b) \in Nat /\ Dist(es, a, b) <= WeightOf(es)
  <2> DEFINE V == 0..n - 1
  <2>1. IsTree(es, V)
    BY DEF SmallTree
  <2> HIDE DEF V
  <2>2. WeightOf(es) \in Nat /\ \A a, b \in V : Dist(es, a, b) \in Nat /\ Dist(es, a, b) <= WeightOf(es)
    BY <2>1, DistOf
  <2> QED
    BY <2>2 DEF V
<1>3. ASSUME NEW p \in Pairs(n)
      PROVE  /\ after.dist[p] = PathWeight(es, p)
             /\ PathWeight(es, p) \in Nat /\ PathWeight(es, p) < MaxInt
  <2>1. p[1] \in 0..n - 1 /\ p[2] \in 0..n - 1 /\ p[1] # p[2] /\ p = <<p[1], p[2]>>
    BY DEF Pairs
  <2>2. PathWeight(es, p) = Dist(es, p[1], p[2])
    BY DEF PathWeight, Connected, Dist, Path, Component
  <2>3. Dist(es, p[1], p[2]) \in Nat /\ Dist(es, p[1], p[2]) <= WeightOf(es)
    BY <1>2, <2>1
  <2>4. after.dist[<<p[1], p[2]>>] = Dist(es, p[1], p[2])
    BY <1>1, <2>1
  <2>5. 4 * WeightOf(es) <= MaxInt /\ MaxInt \in Nat \ {0}
    BY MaxIntAssumption DEF SmallTree
  <2>6. Dist(es, p[1], p[2]) < MaxInt
    BY <1>2, <2>3, <2>5
  <2> QED
    BY <2>1, <2>2, <2>3, <2>4, <2>6
<1> HIDE DEF after
<1>4. known = Pairs(n)
  <2>1. \A p \in Pairs(n) : after.dist[p] # MaxInt
    BY <1>3, MaxIntAssumption
  <2> QED
    BY <2>1
<1>5. Distances(tree, n) = [of |-> [p \in known |-> after.dist[p]], overflow |-> after.overflow]
  BY DEF Distances, after
<1>6. [p \in known |-> after.dist[p]] = PathWeights(es, n)
  BY <1>3, <1>4 DEF PathWeights
<1> QED
  BY <1>1, <1>3, <1>5, <1>6

TreeMetrics(es, n) ==
  [totalWeight   |-> [value |-> WeightOf(es), overflow |-> FALSE],
   averageWeight |-> [sum |-> Total(PathWeights(es, n)),
                      validPairs |-> Cardinality(Pairs(n)), overflow |-> FALSE],
   maxWeight     |-> [value |-> Max({PathWeight(es, p) : p \in Pairs(n)}), overflow |-> FALSE],
   minWeight     |-> [value |-> Min({PathWeight(es, p) : p \in Pairs(n)}), overflow |-> FALSE]]

LEMMA MetricsOfTree ==
  ASSUME NEW g, NEW n \in Nat, n >= 2, getVertices(g) = n, NEW T, NEW tree \in Seq(T), NEW es,
         es = ToSet(tree), IsTree(es, 0..n - 1), Moderate(tree), Len(tree) = n - 1,
         \A a, b \in DOMAIN tree : tree[a] = tree[b] => a = b
  PROVE  calculateMetrics(g, tree) = TreeMetrics(es, n)
<1> DEFINE paths == {PathWeight(es, p) : p \in Pairs(n)}
           of == PathWeights(es, n)
<1>1. tree # <<>> /\ Len(tree) + 1 = n /\ \E e \in es : TRUE
  <2>1. Len(tree) # 0 /\ Len(tree) + 1 = n /\ 1 \in DOMAIN tree
    OBVIOUS
  <2> QED
    BY <2>1 DEF ToSet
<1>2. SmallTree(es, n)
  BY <1>1 DEF SmallTree, Moderate
<1>3. \A e \in es : e.weight \in Nat
  BY DEF IsTree
<1>4. getTotalWeight(tree) = [value |-> WeightOf(es), overflow |-> FALSE]
  <2>1. tree \in Seq(es)
    <3>1. \A i \in DOMAIN tree : tree[i] \in es
      BY DEF ToSet
    <3> QED
      BY <3>1
  <2>2. WeightOf(es) <= MaxInt
    <3>1. WeightOf(es) \in Nat
      <4> DEFINE V == 0..n - 1
      <4>1. IsTree(es, V)
        OBVIOUS
      <4> HIDE DEF V
      <4> QED
        BY <4>1, DistOf
    <3> QED
      BY <1>2, <3>1, MaxIntAssumption DEF SmallTree
  <2> QED
    BY <1>3, <2>1, <2>2, TotalWeightExact
<1>5. /\ Distances(tree, n).of = of /\ Distances(tree, n).overflow = FALSE
      /\ \A p \in Pairs(n) : PathWeight(es, p) \in Nat /\ PathWeight(es, p) < MaxInt
  <2>1. n \in Nat \ {0}
    OBVIOUS
  <2> QED
    BY <1>2, <2>1, DistancesExact
<1>6. Range(of) = paths /\ DOMAIN of = Pairs(n)
  BY DEF PathWeights, Range
<1>7. paths # {} /\ paths \subseteq 0..MaxInt /\ paths \subseteq Int /\ IsFiniteSet(paths)
  <2>1. <<0, 1>> \in Pairs(n)
    BY DEF Pairs
  <2>2. paths \subseteq 0..MaxInt
    BY <1>5, MaxIntAssumption
  <2>3. IsFiniteSet(0..MaxInt)
    BY MaxIntAssumption, FS_Interval
  <2>4. paths # {}
    BY <2>1
  <2> HIDE DEF paths
  <2>5. IsFiniteSet(paths)
    BY <2>2, <2>3, FS_Subset
  <2> QED
    BY <2>2, <2>4, <2>5, MaxIntAssumption
<1>8. Max({0} \cup paths) = Max(paths)
  <2> HIDE DEF paths
  <2>1. 0 \in Int /\ \A y \in paths : 0 <= y
    BY <1>7, MaxIntAssumption
  <2> QED
    BY <1>7, <2>1, MaxWithLeast
<1>9. Min({MaxInt} \cup paths) = Min(paths)
  <2> HIDE DEF paths
  <2>1. MaxInt \in Int /\ \A y \in paths : y <= MaxInt
    BY <1>7, MaxIntAssumption
  <2> QED
    BY <1>7, <2>1, MinWithGreatest
<1> HIDE DEF paths, of
<1>10. getLongestDistance(g, tree) = [value |-> Max(paths), overflow |-> FALSE]
  BY <1>1, <1>5, <1>6, <1>8 DEF getLongestDistance
<1>11. getShortestDistance(tree) = [value |-> Min(paths), overflow |-> FALSE]
  BY <1>1, <1>5, <1>6, <1>9 DEF getShortestDistance
<1>12. getAverageDistance(g, tree) =
         [sum |-> Total(of), validPairs |-> Cardinality(Pairs(n)), overflow |-> FALSE]
  BY <1>1, <1>5, <1>6 DEF getAverageDistance
<1>13. calculateMetrics(g, tree) =
         [totalWeight   |-> [value |-> WeightOf(es), overflow |-> FALSE],
          averageWeight |-> [sum |-> Total(of), validPairs |-> Cardinality(Pairs(n)), overflow |-> FALSE],
          maxWeight     |-> [value |-> Max(paths), overflow |-> FALSE],
          minWeight     |-> [value |-> Min(paths), overflow |-> FALSE]]
  BY <1>4, <1>10, <1>11, <1>12 DEF calculateMetrics
<1> QED
  BY <1>13 DEF paths, of, TreeMetrics

-----------------------------------------------------------------------------
(***************************************************************************)
(* The result is a tree of all vertices when it has an edge less than      *)
(* there are: it never has a cycle, for it gets edges across a cut that it *)
(* does not cross.                                                         *)
(***************************************************************************)
LongInv ==
  /\ Acyclic(ToSet(mst))
  /\ algorithm # "none" => getVertices(graph) >= 2

LEMMA LongKept ==
  ASSUME Inv, LongInv, [Next]_vars
  PROVE  LongInv'
<1>1. algorithm' # "none" => getVertices(graph') >= 2
  <2>1. UNCHANGED graph
    BY StepCut
  <2>2. algorithm' = algorithm \/ getVertices(graph) >= 2
    BY DEF Next, vars, Refuse, StartKruskal, KruskalStep, KruskalEnds, StartPrim, PrimStep,
           PrimNeighbor, PrimScanned, PrimEnds
  <2> QED
    BY <2>1, <2>2 DEF LongInv
<1>2. Acyclic(ToSet(mst'))
  <2>1. CASE UNCHANGED mst
    BY <2>1 DEF LongInv
  <2>2. CASE ~UNCHANGED mst
    <3>1. mst \in Seq(AllEntries)
      BY <2>2, StepCut
    <3>2. PICK e \in AllEntries : mst' = Append(mst, e) /\ \E S : Lightest(e, S)
      BY <2>2, StepCut
    <3>3. PICK S : Lightest(e, S)
      BY <3>2
    <3> DEFINE M == ToSet(mst)
               u == e.source
               v == e.destination
    <3>4. ToSet(mst') = M \cup {e}
      BY ONLY <3>1, <3>2, ToSetAppend
    <3>5. Acyclic(M) /\ (\A f \in M : f.source \in S <=> f.destination \in S) /\ ~(u \in S <=> v \in S)
      BY <3>3 DEF LongInv, Lightest, Uncut
    <3> HIDE DEF M, u, v
    <3>6. v \notin Component(M, u)
      <4>1. u \in S => Component(M, u) \subseteq S
        BY <3>5, ComponentWithin
      <4>2. v \in S => Component(M, v) \subseteq S
        BY <3>5, ComponentWithin
      <4>3. u \in Component(M, u) /\ (v \in Component(M, u) => Component(M, v) = Component(M, u))
        BY ComponentHolds, ComponentSame
      <4> QED
        BY <3>5, <4>1, <4>2, <4>3
    <3>7. Acyclic(M \cup {e})
      BY <3>5, <3>6, AcyclicAdd DEF u, v
    <3> QED
      BY <3>4, <3>7
  <2> QED
    BY <2>1, <2>2
<1> QED
  BY <1>1, <1>2 DEF LongInv

LEMMA InitLong == Init => LongInv
<1> SUFFICES ASSUME Init PROVE LongInv
  OBVIOUS
<1>1. ToSet(mst) = {} /\ algorithm = "none"
  BY ToSetEmpty DEF Init
<1> QED
  BY <1>1 DEF LongInv, Acyclic

LEMMA NoRepetition ==
  ASSUME MinimalInv
  PROVE  \A a, b \in DOMAIN mst : mst[a] = mst[b] => a = b
<1> DEFINE N == Len(mst)
           f == [i \in 1..N |-> Ascending(mst[i])]
<1>1. N \in Nat /\ DOMAIN mst = 1..N /\ Cardinality(Chosen) = N
  BY DEF MinimalInv
<1>2. Chosen = {Ascending(mst[i]) : i \in 1..N}
  BY <1>1 DEF Chosen, ToSet
<1>3. f \in Surjection(1..N, Chosen)
  <2>1. \A i \in 1..N : f[i] \in Chosen
    BY <1>2
  <2>2. \A y \in Chosen : \E i \in 1..N : f[i] = y
    BY <1>2
  <2>3. f \in [1..N -> Chosen]
    BY <2>1
  <2> HIDE DEF f
  <2> QED
    BY <2>2, <2>3 DEF Surjection
<1>4. IsFiniteSet(1..N) /\ Cardinality(1..N) = N
  <2> HIDE DEF N
  <2>1. IsFiniteSet(1..N) /\ Cardinality(1..N) = IF 1 > N THEN 0 ELSE N - 1 + 1
    BY <1>1, FS_Interval
  <2> QED
    BY <1>1, <2>1
<1>5. f \in Injection(1..N, Chosen)
  <2> HIDE DEF f, N
  <2> QED
    BY <1>1, <1>3, <1>4, FS_Surjection
<1>6. \A a, b \in 1..N : f[a] = f[b] => a = b
  <2> HIDE DEF f, N
  <2> QED
    BY <1>5 DEF Injection, IsInjective
<1> QED
  BY <1>1, <1>6

LEMMA ResultIsTree ==
  ASSUME MSTInv, LongInv, phase = "done", Len(mst) = getVertices(graph) - 1,
         \A e \in ToSet(mst) : e.weight >= 0
  PROVE  /\ IsTree(ToSet(mst), 0..getVertices(graph) - 1)
         /\ getVertices(graph) \in Nat /\ getVertices(graph) >= 2 /\ mst \in Seq(AllEntries)
<1> DEFINE M == ToSet(mst)
           n == getVertices(graph)
           V == Slots(graph)
<1>1. /\ Mirrored(graph) /\ mst \in Seq(AllEntries) /\ algorithm \in {"kruskal", "prim"}
      /\ PrimReached /\ PrimFinished /\ KruskalTrees /\ TypeInv
  BY DEF MSTInv, TypeInv, Inv, LabelsInv, ArraysTyped, PrimGrowth, KruskalGrowth
<1>2. /\ n \in Nat /\ n >= 2 /\ V = 0..n - 1 /\ IsFiniteSet(V) /\ Cardinality(V) = n
  BY <1>1, SlotsCounted DEF LongInv, Slots
<1>3. IsFiniteSet(M)
  BY <1>1, ToSetFinite
<1>4. ASSUME NEW e \in M PROVE e.source \in V /\ e.destination \in V /\ e.weight \in Nat
  <2>1. e \in AllEntries
    BY <1>1, ElementOf
  <2>2. e.source \in V /\ e.weight \in Int
    BY <1>1, <2>1, AllEntriesOwner
  <2>3. e.destination \in V
    BY <1>1, EdgesWithinReach DEF WithinReach
  <2> QED
    BY <2>2, <2>3
<1>5. ASSUME NEW u \in V, NEW v \in V PROVE v \in Component(M, u)
  <2>1. CASE algorithm = "kruskal"
    <3>1. parent[u] = parent[v]
      BY <2>1, EnoughIsOne DEF Enough, MSTInv
    <3> QED
      BY <1>1, <2>1, <3>1 DEF KruskalTrees, Sorts
  <2>2. CASE algorithm = "prim"
    <3>1. Cardinality(visited) = n /\ Component(M, 0) = visited /\ visited \subseteq V
      BY <1>1, <1>2, <2>2 DEF PrimReached, PrimFinished, TypeInv, ArraysTyped
    <3>2. visited = V
      BY <1>2, <3>1, FS_Subset
    <3>3. Component(M, u) = Component(M, 0)
      BY <3>1, <3>2, ComponentSame
    <3> QED
      BY <3>1, <3>2, <3>3
  <2> QED
    BY <1>1, <2>1, <2>2
<1>6. Acyclic(M)
  BY DEF LongInv
<1> HIDE DEF M
<1>7. IsTree(M, V)
  BY <1>3, <1>4, <1>5, <1>6 DEF IsTree
<1> QED
  BY <1>1, <1>2, <1>7 DEF M

\* On any graphs that list each edge at both its ends: when an algorithm returns
\* a tree of all vertices, with weights of which four times the sum is an int,
\* Floyd and Warshall's loops never overflow and end with the weight of the
\* path between any two vertices, and the metrics the command prints are the
\* sum of the edges, the longest and the shortest path, and the sum and the
\* number of the paths whose quotient is the average.
THEOREM MetricsExactCorrect ==
  ASSUME \A g \in Inputs : Mirrored(g)
  PROVE  SafeSpec => []MetricsExact
<1>1. Init => MSTInv /\ LongInv
  BY InitMSTInv, InitLong
<1>2. MSTInv /\ LongInv /\ [Next]_vars => (MSTInv /\ LongInv)'
  BY MSTInvKept, LongKept DEF MSTInv, TypeInv
<1>3. MSTInv /\ LongInv => MetricsExact
  <2> SUFFICES ASSUME MSTInv, LongInv, phase = "done", Len(mst) = getVertices(graph) - 1, Moderate(mst)
               PROVE  LET es == ToSet(mst)
                          pairs == Pairs(getVertices(graph))
                          paths == {PathWeight(es, p) : p \in pairs}
                      IN  calculateMetrics(graph, mst) =
                            [totalWeight   |-> [value |-> WeightOf(es), overflow |-> FALSE],
                             averageWeight |-> [sum |-> Total([p \in pairs |-> PathWeight(es, p)]),
                                                validPairs |-> Cardinality(pairs), overflow |-> FALSE],
                             maxWeight     |-> [value |-> Max(paths), overflow |-> FALSE],
                             minWeight     |-> [value |-> Min(paths), overflow |-> FALSE]]
    BY DEF MetricsExact
  <2> DEFINE es == ToSet(mst)
             n == getVertices(graph)
  <2>1. /\ IsTree(es, 0..n - 1) /\ n \in Nat /\ n >= 2 /\ mst \in Seq(AllEntries)
    BY ResultIsTree DEF Moderate
  <2>2. \A a, b \in DOMAIN mst : mst[a] = mst[b] => a = b
    BY NoRepetition DEF MSTInv
  <2>3. /\ es = ToSet(mst) /\ getVertices(graph) = n
        /\ Moderate(mst) /\ Len(mst) = n - 1
    OBVIOUS
  <2> HIDE DEF es, n
  <2>4. calculateMetrics(graph, mst) = TreeMetrics(es, n)
    BY <2>1, <2>2, <2>3, MetricsOfTree
  <2> QED
    BY <2>4 DEF TreeMetrics, PathWeights, es, n
<1> QED
  BY <1>1, <1>2, <1>3, PTL DEF SafeSpec
=============================================================================
