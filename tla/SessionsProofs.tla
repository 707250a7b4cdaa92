--------------------------- MODULE SessionsProofs ---------------------------
(***************************************************************************)
(* For any number of clients, whatever they send: the graph lock is held   *)
(* by one session at a time and given back on every path, a command is     *)
(* isolated from the other sessions, and every variable keeps its type.    *)
(* Edges stay in the lists of both their ends, and the numbering without   *)
(* gaps, but for the steps named; if requests make sense, edges always do. *)
(***************************************************************************)
EXTENDS Sessions, GraphProofs

-----------------------------------------------------------------------------
\* A step inside a command leaves the lock alone and the session in it.
LEMMA CommandStepEffect ==
  ASSUME NEW c \in Clients, CommandStep(c)
  PROVE  /\ InCommand(c)
         /\ UNCHANGED isGraphBusy
         /\ pc' = pc \/ \E label \in HandlerPc : Goto(c, label)
<1> USE DEF InCommand, HandlerPc, Handling, InHandler, Refuse, GiveUp
<1>1. ASSUME handleInitCommand(c) \/ InitReadsEdgeCount(c) \/ InitReadsEdge(c)
      PROVE  /\ InCommand(c)
             /\ UNCHANGED isGraphBusy
             /\ pc' = pc \/ \E label \in HandlerPc : Goto(c, label)
  BY <1>1 DEF handleInitCommand, InitReadsEdgeCount, InitReadsEdge
<1>2. ASSUME \/ handleAddVertexCommand(c)
             \/ AddVertexReadsTarget(c) \/ AddVertexReadsWeight(c)
      PROVE  /\ InCommand(c)
             /\ UNCHANGED isGraphBusy
             /\ pc' = pc \/ \E label \in HandlerPc : Goto(c, label)
  BY <1>2 DEF handleAddVertexCommand, AddVertexReadsTarget, AddVertexReadsWeight, OutOfIntRange
<1>3. ASSUME \/ handleAddEdgeCommand(c) \/ handleRemoveEdgeCommand(c)
             \/ handleRemoveVertexCommand(c) \/ handleChangeWeightCommand(c)
             \/ handlePrintGraphCommand(c)
      PROVE  /\ InCommand(c)
             /\ UNCHANGED isGraphBusy
             /\ pc' = pc \/ \E label \in HandlerPc : Goto(c, label)
  BY <1>3 DEF handleAddEdgeCommand, handleRemoveEdgeCommand, handleRemoveVertexCommand,
     handleChangeWeightCommand, handlePrintGraphCommand
<1>4. ASSUME handleMetricCommand(c) \/ handleMSTCommand(c) \/ MSTReadsChoice(c)
      PROVE  /\ InCommand(c)
             /\ UNCHANGED isGraphBusy
             /\ pc' = pc \/ \E label \in HandlerPc : Goto(c, label)
  BY <1>4 DEF handleMetricCommand, handleMSTCommand, MSTReadsChoice, BringDown
<1> QED BY <1>1, <1>2, <1>3, <1>4 DEF CommandStep

\* No other step of a session touches the graph or the last MST.
LEMMA OutsideCommandEffect ==
  ASSUME NEW c \in Clients,
         \/ StartSession(c) \/ TestExit(c) \/ ReadRequest(c)
         \/ acquireGraphLock(c) \/ releaseGraphLock(c)
         \/ Disconnect(c) \/ Shutdown \/ UNCHANGED vars
  PROVE  UNCHANGED data
BY DEF StartSession, TestExit, ReadRequest, acquireGraphLock, releaseGraphLock,
   Disconnect, Shutdown, vars, data

-----------------------------------------------------------------------------
LockInv ==
  /\ pc \in [Clients -> SessionPc]
  /\ isGraphBusy \in BOOLEAN
  /\ LockHeldByOne

LEMMA LockInvInit == Init => LockInv
BY DEF Init, LockInv, LockHeldByOne, InCommand, SessionPc, HandlerPc

LEMMA LockInvStep == LockInv /\ [Next]_vars => LockInv'
<1> SUFFICES ASSUME LockInv, [Next]_vars PROVE LockInv'
  OBVIOUS
<1> USE DEF LockInv, LockHeldByOne, InCommand
<1>1. ASSUME NEW c \in Clients, StartSession(c) \/ TestExit(c) \/ ReadRequest(c)
      PROVE  LockInv'
  <2>1. UNCHANGED isGraphBusy
    BY <1>1 DEF StartSession, TestExit, ReadRequest
  <2>2. /\ pc[c] \in SessionPc \ HandlerPc
        /\ \E label \in SessionPc \ HandlerPc : Goto(c, label)
    BY <1>1 DEF StartSession, TestExit, ReadRequest, SessionPc, HandlerPc
  <2> QED BY <2>1, <2>2 DEF Goto
<1>2. ASSUME NEW c \in Clients, acquireGraphLock(c) PROVE LockInv'
  <2>1. pc[c] = "acquire"
    BY <1>2 DEF acquireGraphLock
  <2>2. CASE isGraphBusy' = isGraphBusy /\ Goto(c, "loop")
    BY <2>1, <2>2 DEF Goto, SessionPc, HandlerPc
  <2>3. CASE ~isGraphBusy /\ isGraphBusy' = TRUE /\ Goto(c, "handle")
    BY <2>1, <2>3 DEF Goto, SessionPc, HandlerPc
  <2> QED BY <1>2, <2>2, <2>3 DEF acquireGraphLock
<1>3. ASSUME NEW c \in Clients, CommandStep(c) PROVE LockInv'
  <2>1. /\ pc[c] \in HandlerPc
        /\ UNCHANGED isGraphBusy
        /\ pc' = pc \/ \E label \in HandlerPc : Goto(c, label)
    BY <1>3, CommandStepEffect
  <2> QED BY <2>1 DEF Goto, SessionPc
<1>4. ASSUME NEW c \in Clients, releaseGraphLock(c) PROVE LockInv'
  BY <1>4 DEF releaseGraphLock, Goto, SessionPc, HandlerPc
<1>5. CASE Shutdown \/ (\E c \in Clients : Disconnect(c)) \/ UNCHANGED vars
  BY <1>5 DEF Shutdown, Disconnect, vars
<1> QED BY <1>1, <1>2, <1>3, <1>4, <1>5 DEF Next, SessionStep

LEMMA LockInvCorrect == SafeSpec => []LockInv
BY LockInvInit, LockInvStep, PTL DEF SafeSpec

\* isGraphBusy is set exactly while one session is inside a command.
THEOREM LockHeldByOneCorrect == SafeSpec => []LockHeldByOne
<1>1. LockInv => LockHeldByOne
  BY DEF LockInv
<1> QED BY <1>1, LockInvCorrect, PTL

-----------------------------------------------------------------------------
\* While a session is inside a command, only its own steps change the graph
\* or the last MST, however long it waits for its client.
THEOREM CommandIsolatedCorrect == SafeSpec => CommandIsolated
<1>1. ASSUME LockInv, [Next]_vars, NEW c \in Clients, InCommand(c)
      PROVE  UNCHANGED data \/ CommandStep(c)
  <2>1. ASSUME NEW d \in Clients, CommandStep(d) PROVE CommandStep(c)
    <3>1. InCommand(d)
      BY <2>1, CommandStepEffect
    <3>2. d = c
      BY <1>1, <3>1 DEF LockInv, LockHeldByOne
    <3> QED BY <2>1, <3>2
  <2> QED BY <1>1, <2>1, OutsideCommandEffect DEF Next, SessionStep
<1>2. LockInv /\ [Next]_vars =>
        [\A c \in Clients : InCommand(c) => UNCHANGED data \/ CommandStep(c)]_vars
  BY <1>1
<1> QED BY <1>2, LockInvCorrect, PTL DEF SafeSpec, CommandIsolated

-----------------------------------------------------------------------------
(***************************************************************************)
(* What a handler keeps over a read of its client still holds of the graph *)
(* when it goes on.  For add_vtx this rests on the numbers: as long as     *)
(* requests make sense no vertex has the next one, so that the new vertex  *)
(* is one more.                                                            *)
(***************************************************************************)
LocalTypes == [size : Int, left : Int, index : Int, target : Int]

DataInv ==
  /\ Shaped(sharedGraph)
  /\ IsFiniteSet(VertexSet(sharedGraph))
  /\ sharedGraph.nextVertexId \in Int
  /\ careless \in BOOLEAN
  /\ ~careless => /\ sharedGraph.nextVertexId \in Nat
                  /\ VertexSet(sharedGraph) \subseteq 0..sharedGraph.nextVertexId - 1
  /\ local \in [Clients -> LocalTypes]

LocalOf(c) ==
  /\ pc[c] \in {"initEdges", "initEdge"} => VertexSet(sharedGraph) = 0..local[c].size - 1
  /\ ~careless /\ pc[c] \in {"addVtxTarget", "addVtxWeight"} =>
       getVertices(sharedGraph) = local[c].index + 1
  /\ pc[c] = "addVtxWeight" => local[c].target \in 0..local[c].index - 1

\* What a step of a command does to the numbering.
NumberingKept(c) ==
  Contiguous(sharedGraph) =>
    \/ Contiguous(sharedGraph')
    \/ Handling(c, "remove_vtx") \/ Handling(c, "change_weight")
    \/ Handling(c, "add_vtx") /\ sharedGraph.nextVertexId < 0
    \/ pc[c] = "addVtxWeight" /\ local[c].index \notin VertexSet(sharedGraph)

\* What a step of a command keeps.
Kept(c) == DataInv' /\ LocalOf(c)' /\ NumberingKept(c)

StepContext(c) == LockInv /\ DataInv /\ LocalOf(c)

\* The graph may be replaced by one with other lists, or with further vertices
\* that had numbers before.
LEMMA SameNumbers ==
  ASSUME NEW c \in Clients, StepContext(c), NEW label \in SessionPc, Goto(c, label) \/ pc' = pc,
         local' \in [Clients -> LocalTypes], careless' \in BOOLEAN,
         ~careless' => ~careless,
         Shaped(sharedGraph'), sharedGraph'.nextVertexId = sharedGraph.nextVertexId,
         NEW vs, IsFiniteSet(vs), VertexSet(sharedGraph') = VertexSet(sharedGraph) \cup vs,
         ~careless' => vs \subseteq 0..sharedGraph.nextVertexId - 1,
         LocalOf(c)', NumberingKept(c)
  PROVE  Kept(c)
<1>1. IsFiniteSet(VertexSet(sharedGraph'))
  BY FS_Union DEF StepContext, DataInv
<1>2. DataInv'
  BY <1>1 DEF StepContext, DataInv
<1> QED
  BY <1>2 DEF Kept

LEMMA Released ==
  ASSUME NEW c \in Clients, StepContext(c), Goto(c, "release")
  PROVE  LocalOf(c)'
  BY DEF StepContext, LockInv, Goto, LocalOf

\* Nothing but the session's state changes.
LEMMA NothingChanged ==
  ASSUME NEW c \in Clients, StepContext(c), UNCHANGED <<sharedGraph, local, careless>>,
         \/ pc' = pc
         \/ \E label \in {"release", "mstChoice"} : Goto(c, label)
  PROVE  Kept(c)
<1>1. LocalOf(c)'
  BY DEF StepContext, LockInv, Goto, LocalOf
<1> QED
  BY <1>1 DEF StepContext, Kept, DataInv, NumberingKept

LEMMA Below ==
  ASSUME NEW n \in Int
  PROVE  IsFiniteSet(0..n - 1) /\ (n \in Nat => Cardinality(0..n - 1) = n)
<1>1. 0 \in Int /\ n - 1 \in Int
  OBVIOUS
<1>2. IsFiniteSet(0..n - 1) /\ Cardinality(0..n - 1) = IF 0 > n - 1 THEN 0 ELSE (n - 1) - 0 + 1
  BY ONLY <1>1, FS_Interval
<1> QED
  BY ONLY <1>2, n \in Int

LEMMA PairFinite == ASSUME NEW x, NEW y PROVE IsFiniteSet({x, y})
<1>1. IsFiniteSet({x})
  BY FS_Singleton
<1>2. {x, y} = {x} \cup {y}
  OBVIOUS
<1> QED
  BY <1>1, <1>2, FS_AddElement

\* Handlers take a number below the number of vertices for a vertex, and it is
\* one as long as the numbers are those from 0.
LEMMA InRangeVertex ==
  ASSUME Contiguous(sharedGraph), sharedGraph.nextVertexId \in Int, NEW v \in Int, InRange(v)
  PROVE  v \in VertexSet(sharedGraph)
<1> DEFINE n == sharedGraph.nextVertexId
<1>1. VertexSet(sharedGraph) = 0..n - 1 /\ n \in Int
  BY DEF Contiguous
<1>2. v >= 0 /\ v < Cardinality(VertexSet(sharedGraph))
  BY DEF InRange, getVertices
<1> HIDE DEF n
<1>3. CASE n \in Nat
  <2>1. Cardinality(VertexSet(sharedGraph)) = n
    BY <1>1, <1>3, Below
  <2> QED
    BY <1>1, <1>2, <2>1
<1>4. CASE n \notin Nat
  <2>1. VertexSet(sharedGraph) = {}
    BY <1>1, <1>4
  <2>2. Cardinality(VertexSet(sharedGraph)) = 0
    BY <2>1, FS_EmptySet
  <2> QED
    BY <1>2, <2>2
<1> QED
  BY <1>3, <1>4

LEMMA InitKeeps ==
  ASSUME NEW c \in Clients, StepContext(c), handleInitCommand(c)
  PROVE  Kept(c)
<1>1. CASE Refuse(c)
  BY <1>1, NothingChanged DEF Refuse, data
<1>2. ASSUME NEW n \in InitSizes, NEW label \in {"release", "initEdges"},
             sharedGraph' = NewGraph(n), Goto(c, label), SetLocal(c, "size", n),
             careless' = (careless \/ n < 0)
      PROVE  Kept(c)
  <2>1. n \in Int
    BY SessionsAssumption
  <2>2. /\ Shaped(sharedGraph') /\ VertexSet(sharedGraph') = 0..n - 1
        /\ sharedGraph'.nextVertexId = n
    BY <1>2, <2>1, NewGraphVertices
  <2>3. IsFiniteSet(0..n - 1)
    BY <2>1, Below
  <2>4. local' \in [Clients -> LocalTypes] /\ local'[c].size = n
    BY <1>2, <2>1 DEF StepContext, DataInv, SetLocal, LocalTypes
  <2>5. DataInv'
    <3>1. careless' \in BOOLEAN /\ (~careless' => n \in Nat)
      <4>1. careless \in BOOLEAN
        BY DEF StepContext, DataInv
      <4>2. careless' \in BOOLEAN /\ (~careless' => ~(n < 0))
        BY <1>2, <4>1, Zenon
      <4> QED
        BY ONLY <2>1, <4>2
    <3> QED
      BY ONLY <2>1, <2>2, <2>3, <2>4, <3>1 DEF DataInv
  <2>6. LocalOf(c)'
    BY <1>2, <2>2, <2>4 DEF StepContext, LockInv, Goto, LocalOf
  <2>7. NumberingKept(c)
    BY <2>2 DEF NumberingKept, Contiguous
  <2> QED
    BY <2>5, <2>6, <2>7 DEF Kept
<1> QED
  BY <1>1, <1>2 DEF handleInitCommand

LEMMA EdgeCountKeeps ==
  ASSUME NEW c \in Clients, StepContext(c), InitReadsEdgeCount(c)
  PROVE  Kept(c)
<1>1. CASE Refuse(c) \/ GiveUp(c)
  BY <1>1, NothingChanged DEF Refuse, GiveUp, data
<1>2. ASSUME NEW n \in 0..MaxAnnounced, SetLocal(c, "left", n),
             Goto(c, "release") \/ Goto(c, "initEdge"),
             UNCHANGED <<sharedGraph, careless>>
      PROVE  Kept(c)
  <2>1. n \in Int
    BY SessionsAssumption
  <2>2. local' \in [Clients -> LocalTypes] /\ local'[c].size = local[c].size
    BY <1>2, <2>1 DEF StepContext, DataInv, SetLocal, LocalTypes
  <2>3. LocalOf(c)'
    BY <1>2, <2>2 DEF StepContext, LockInv, Goto, LocalOf, InitReadsEdgeCount
  <2> QED
    BY <1>2, <2>2, <2>3 DEF StepContext, Kept, DataInv, NumberingKept
<1> QED
  BY <1>1, <1>2 DEF InitReadsEdgeCount, data

LEMMA EdgeKeeps ==
  ASSUME NEW c \in Clients, StepContext(c), InitReadsEdge(c)
  PROVE  Kept(c)
<1>1. CASE NoLine(c) /\ Goto(c, "release") /\ UNCHANGED <<data, local, careless>>
  BY <1>1, NothingChanged DEF data
<1>2. ASSUME SetLocal(c, "left", local[c].left - 1),
             Goto(c, "release") \/ Goto(c, "initEdge"),
             \/ UNCHANGED <<sharedGraph, careless>>
             \/ \E s, d \in VertexNumbers, w \in EdgeWeights :
                  /\ {s, d} \subseteq 0..local[c].size - 1
                  /\ NamesEdge(c, s, d)
                  /\ sharedGraph' = addEdge(sharedGraph, s, d, w)
      PROVE  Kept(c)
  <2>1. local' \in [Clients -> LocalTypes] /\ local'[c].size = local[c].size
    BY <1>2 DEF StepContext, DataInv, SetLocal, LocalTypes
  <2>2. VertexSet(sharedGraph) = 0..local[c].size - 1
    BY DEF StepContext, LocalOf, InitReadsEdge
  <2>3. /\ Shaped(sharedGraph') /\ sharedGraph'.nextVertexId = sharedGraph.nextVertexId
        /\ VertexSet(sharedGraph') = VertexSet(sharedGraph)
        /\ careless' \in BOOLEAN /\ (~careless' => ~careless)
    <3>1. Shaped(sharedGraph) /\ careless \in BOOLEAN
      BY DEF StepContext, DataInv
    <3>2. CASE UNCHANGED <<sharedGraph, careless>>
      BY <3>1, <3>2
    <3>3. ASSUME NEW s, NEW d, NEW w, {s, d} \subseteq 0..local[c].size - 1,
                 NamesEdge(c, s, d), sharedGraph' = addEdge(sharedGraph, s, d, w)
          PROVE  /\ Shaped(sharedGraph')
                 /\ sharedGraph'.nextVertexId = sharedGraph.nextVertexId
                 /\ VertexSet(sharedGraph') = VertexSet(sharedGraph)
                 /\ careless' \in BOOLEAN /\ (~careless' => ~careless)
      <4>1. /\ Shaped(sharedGraph')
            /\ sharedGraph'.nextVertexId = sharedGraph.nextVertexId
            /\ VertexSet(sharedGraph') = VertexSet(sharedGraph) \cup {s, d}
        BY <3>1, <3>3, AddEdgeVertices
      <4>2. careless' \in BOOLEAN /\ (~careless' => ~careless)
        BY <3>1, <3>3 DEF NamesEdge
      <4> QED
        BY <2>2, <3>3, <4>1, <4>2
    <3> QED
      BY <1>2, <3>2, <3>3
  <2>4. LocalOf(c)'
    BY <1>2, <2>1, <2>2, <2>3 DEF StepContext, LockInv, Goto, LocalOf
  <2> QED
    BY <2>1, <2>3, <2>4 DEF StepContext, Kept, DataInv, NumberingKept, Contiguous
<1> QED
  BY <1>1, <1>2 DEF InitReadsEdge

LEMMA NewVertexKeeps ==
  ASSUME NEW c \in Clients, StepContext(c), handleAddVertexCommand(c)
  PROVE  Kept(c)
<1> DEFINE g == sharedGraph
           V == VertexSet(g)
<1>1. /\ Shaped(g') /\ VertexSet(g') = V \cup {g.nextVertexId}
      /\ g'.nextVertexId = g.nextVertexId + 1 /\ UNCHANGED careless
  BY AddVertexVertices DEF handleAddVertexCommand
<1>2. /\ Cardinality(V) \in Nat /\ IsFiniteSet(VertexSet(g'))
      /\ g.nextVertexId \notin V => Cardinality(VertexSet(g')) = Cardinality(V) + 1
  <2>1. IsFiniteSet(V)
    BY DEF StepContext, DataInv
  <2> QED
    BY ONLY <1>1, <2>1, FS_CardinalityType, FS_AddElement
<1>3. local' \in [Clients -> LocalTypes] /\ local'[c].index = Cardinality(V)
  BY <1>2 DEF handleAddVertexCommand, getVertices, StepContext, DataInv, SetLocal, LocalTypes
<1>4. ~careless => g.nextVertexId \in Nat /\ g.nextVertexId \notin V
  BY DEF StepContext, DataInv
<1>5. DataInv'
  BY <1>1, <1>2, <1>3 DEF StepContext, DataInv
<1>6. LocalOf(c)'
  BY <1>1, <1>2, <1>3, <1>4
  DEF handleAddVertexCommand, StepContext, LockInv, Goto, LocalOf, getVertices
<1>7. NumberingKept(c)
  <2>1. g.nextVertexId \in Int /\ Handling(c, "add_vtx")
    BY DEF StepContext, DataInv, handleAddVertexCommand
  <2>2. g.nextVertexId >= 0 /\ V = 0..g.nextVertexId - 1 =>
          VertexSet(g') = 0..g'.nextVertexId - 1
    BY <1>1, <2>1
  <2> QED
    BY <2>1, <2>2 DEF NumberingKept, Contiguous
<1> QED
  BY <1>5, <1>6, <1>7 DEF Kept

LEMMA TargetKeeps ==
  ASSUME NEW c \in Clients, StepContext(c), AddVertexReadsTarget(c)
  PROVE  Kept(c)
<1>1. CASE Refuse(c) \/ GiveUp(c) \/ OutOfIntRange(c)
  BY <1>1, NothingChanged DEF Refuse, GiveUp, OutOfIntRange, data
<1>2. ASSUME NEW v \in VertexNumbers, v \in 0..local[c].index - 1, NamesVertex(c, v),
             SetLocal(c, "target", v), Goto(c, "addVtxWeight"), UNCHANGED data
      PROVE  Kept(c)
  <2>1. local' \in [Clients -> LocalTypes] /\ local'[c].target = v
        /\ local'[c].index = local[c].index
    BY <1>2, SessionsAssumption DEF StepContext, DataInv, SetLocal, LocalTypes
  <2>2. careless' \in BOOLEAN /\ (~careless' => ~careless) /\ sharedGraph' = sharedGraph
    BY <1>2 DEF StepContext, DataInv, NamesVertex, data
  <2>3. LocalOf(c)'
    BY <1>2, <2>1, <2>2 DEF StepContext, LockInv, Goto, LocalOf, AddVertexReadsTarget
  <2> QED
    BY <2>1, <2>2, <2>3 DEF StepContext, Kept, DataInv, NumberingKept
<1> QED
  BY <1>1, <1>2 DEF AddVertexReadsTarget

LEMMA WeightKeeps ==
  ASSUME NEW c \in Clients, StepContext(c), AddVertexReadsWeight(c)
  PROVE  Kept(c)
<1>1. CASE Refuse(c) \/ GiveUp(c) \/ OutOfIntRange(c)
  BY <1>1, NothingChanged DEF Refuse, GiveUp, OutOfIntRange, data
<1>2. ASSUME NEW w, sharedGraph' = addEdge(sharedGraph, local[c].index, local[c].target, w),
             Goto(c, "release"), UNCHANGED <<local, careless>>
      PROVE  Kept(c)
  <2> DEFINE n == sharedGraph.nextVertexId
             vs == {local[c].index, local[c].target}
  <2>1. ~careless => vs \subseteq 0..n - 1
    <3> SUFFICES ASSUME ~careless PROVE vs \subseteq 0..n - 1
      OBVIOUS
    <3>1. /\ n \in Nat /\ VertexSet(sharedGraph) \subseteq 0..n - 1
          /\ local[c].index \in Int /\ local[c].target \in Int
      BY DEF StepContext, DataInv, LocalTypes
    <3>2. /\ Cardinality(VertexSet(sharedGraph)) = local[c].index + 1
          /\ local[c].target \in 0..local[c].index - 1
      BY DEF StepContext, LocalOf, AddVertexReadsWeight, getVertices
    <3>3. IsFiniteSet(0..n - 1) /\ Cardinality(0..n - 1) = n
      <4>1. \A m \in Nat : m \in Int /\ IsFiniteSet(0..m - 1) /\ Cardinality(0..m - 1) = m
        BY Below
      <4> HIDE DEF n
      <4> QED
        BY ONLY <3>1, <4>1
    <3>4. Cardinality(VertexSet(sharedGraph)) <= n
      BY <3>1, <3>3, FS_Subset
    <3> HIDE DEF n
    <3> QED
      BY <3>1, <3>2, <3>4
  <2>2. /\ Shaped(sharedGraph') /\ sharedGraph'.nextVertexId = n
        /\ VertexSet(sharedGraph') = VertexSet(sharedGraph) \cup vs
    BY <1>2, AddEdgeVertices DEF StepContext, DataInv
  <2>3. IsFiniteSet(vs)
    BY PairFinite
  <2>4. LocalOf(c)'
    BY <1>2, Released
  <2>5. "release" \in SessionPc
    BY DEF SessionPc, HandlerPc
  <2>6. NumberingKept(c)
    <3> SUFFICES ASSUME Contiguous(sharedGraph), local[c].index \in VertexSet(sharedGraph)
                 PROVE  Contiguous(sharedGraph')
      BY DEF NumberingKept, AddVertexReadsWeight
    <3>1. n \in Int /\ VertexSet(sharedGraph) = 0..n - 1 /\ local[c].target \in 0..local[c].index - 1
      BY DEF StepContext, DataInv, LocalOf, AddVertexReadsWeight, Contiguous
    <3> HIDE DEF n
    <3>2. vs \subseteq 0..n - 1
      BY <3>1
    <3> HIDE DEF vs
    <3> QED
      BY <2>2, <3>1, <3>2 DEF Contiguous
  <2> HIDE DEF vs, n
  <2> QED
    BY <1>2, <2>1, <2>2, <2>3, <2>4, <2>5, <2>6, SameNumbers DEF StepContext, DataInv, n
<1> QED
  BY <1>1, <1>2 DEF AddVertexReadsWeight

\* An edge between vertices is added, removed or changed.
LEMMA EdgeOfVertices ==
  ASSUME NEW c \in Clients, StepContext(c), NEW s \in Int, NEW d \in Int, NamesEdge(c, s, d),
         Goto(c, "release"), UNCHANGED local,
         \/ sharedGraph' = sharedGraph
         \/ /\ Shaped(sharedGraph') /\ sharedGraph'.nextVertexId = sharedGraph.nextVertexId
            /\ VertexSet(sharedGraph') = VertexSet(sharedGraph) \cup {s, d}
            /\ (InRange(s) /\ InRange(d)) \/ Handling(c, "change_weight")
  PROVE  Kept(c)
<1>1. PICK vs : /\ vs \in {{}, {s, d}}
                /\ Shaped(sharedGraph') /\ sharedGraph'.nextVertexId = sharedGraph.nextVertexId
                /\ VertexSet(sharedGraph') = VertexSet(sharedGraph) \cup vs
  BY DEF StepContext, DataInv
<1>2. careless \in BOOLEAN
  BY DEF StepContext, DataInv
<1>3. /\ careless' \in BOOLEAN /\ (~careless' => ~careless)
      /\ ~careless' => {s, d} \subseteq VertexSet(sharedGraph)
  BY <1>2, Zenon DEF NamesEdge
<1>4. ~careless' => vs \subseteq 0..sharedGraph.nextVertexId - 1
  <2> SUFFICES ASSUME ~careless' PROVE vs \subseteq 0..sharedGraph.nextVertexId - 1
    OBVIOUS
  <2>1. VertexSet(sharedGraph) \subseteq 0..sharedGraph.nextVertexId - 1
    BY <1>3 DEF StepContext, DataInv
  <2> QED
    BY <1>1, <1>3, <2>1
<1>5. IsFiniteSet(vs)
  <2>1. IsFiniteSet({}) /\ IsFiniteSet({s, d})
    BY ONLY PairFinite, FS_EmptySet
  <2> QED
    BY ONLY <1>1, <2>1
<1>6. "release" \in SessionPc /\ local' \in [Clients -> LocalTypes]
  BY DEF SessionPc, HandlerPc, StepContext, DataInv
<1>7. LocalOf(c)'
  BY Released
<1>8. NumberingKept(c)
  <2> SUFFICES ASSUME Contiguous(sharedGraph), ~Handling(c, "change_weight")
               PROVE  Contiguous(sharedGraph')
    BY DEF NumberingKept
  <2>1. CASE sharedGraph' = sharedGraph
    BY <2>1
  <2>2. CASE /\ InRange(s) /\ InRange(d) /\ sharedGraph'.nextVertexId = sharedGraph.nextVertexId
             /\ VertexSet(sharedGraph') = VertexSet(sharedGraph) \cup {s, d}
    <3>1. {s, d} \subseteq VertexSet(sharedGraph)
      BY <2>2, InRangeVertex DEF StepContext, DataInv
    <3> QED
      BY <2>2, <3>1 DEF Contiguous
  <2> QED
    BY <2>1, <2>2
<1> QED
  BY <1>1, <1>3, <1>4, <1>5, <1>6, <1>7, <1>8, SameNumbers

LEMMA EditsKeep ==
  ASSUME NEW c \in Clients, StepContext(c),
         \/ handleAddEdgeCommand(c) \/ handleRemoveEdgeCommand(c)
         \/ handleChangeWeightCommand(c)
  PROVE  Kept(c)
<1>1. Shaped(sharedGraph)
  BY DEF StepContext, DataInv
<1>2. CASE handleAddEdgeCommand(c)
  <2>1. PICK s \in Int, d \in Int, w \in EdgeWeights :
               /\ NamesEdge(c, s, d)
               /\ \/ sharedGraph' = sharedGraph
                  \/ /\ sharedGraph' = addEdge(sharedGraph, s, d, w)
                     /\ InRange(s) /\ InRange(d)
    BY <1>2, SessionsAssumption DEF handleAddEdgeCommand
  <2>2. Goto(c, "release") /\ UNCHANGED local
    BY <1>2 DEF handleAddEdgeCommand
  <2> QED
    BY <1>1, <2>1, <2>2, AddEdgeVertices, EdgeOfVertices
<1>3. CASE handleRemoveEdgeCommand(c)
  <2>1. PICK s \in Int, d \in Int :
               /\ NamesEdge(c, s, d)
               /\ \/ sharedGraph' = sharedGraph
                  \/ /\ sharedGraph' = removeEdge(sharedGraph, s, d)
                     /\ InRange(s) /\ InRange(d)
    BY <1>3, SessionsAssumption DEF handleRemoveEdgeCommand
  <2>2. Goto(c, "release") /\ UNCHANGED local
    BY <1>3 DEF handleRemoveEdgeCommand
  <2> QED
    BY <1>1, <2>1, <2>2, RemoveEdgeVertices, EdgeOfVertices
<1>4. CASE handleChangeWeightCommand(c)
  <2>1. CASE Refuse(c)
    BY <2>1, NothingChanged DEF Refuse, data
  <2>2. ASSUME NEW s \in Int, NEW d \in Int, NEW w, NamesEdge(c, s, d),
               sharedGraph' = changeWeight(sharedGraph, s, d, w),
               Goto(c, "release"), UNCHANGED local
        PROVE  Kept(c)
    <3>1. Handling(c, "change_weight")
      BY <1>4 DEF handleChangeWeightCommand
    <3> QED
      BY <1>1, <2>2, <3>1, ChangeWeightVertices, EdgeOfVertices
  <2> QED
    BY <1>4, <2>1, <2>2, SessionsAssumption DEF handleChangeWeightCommand
<1> QED
  BY <1>2, <1>3, <1>4

\* Renumbering keeps the numbers below the next one.
LEMMA RenumberedVertices ==
  ASSUME NEW kept, IsFiniteSet(kept), NEW v
  PROVE  /\ IsFiniteSet({Renumbered(u, v) : u \in kept})
         /\ \A n \in Nat : v \in 0..n - 1 /\ kept \subseteq 0..n - 1 =>
              {Renumbered(u, v) : u \in kept} \subseteq 0..n - 1
<1> DEFINE T == {Renumbered(u, v) : u \in kept}
           f == [u \in kept |-> Renumbered(u, v)]
<1>1. f \in Surjection(kept, T)
  <2>1. f \in [kept -> T] /\ \A t \in T : \E u \in kept : f[u] = t
    <3> HIDE DEF Renumbered
    <3> QED
      OBVIOUS
  <2> QED
    BY <2>1 DEF Surjection
<1>2. IsFiniteSet(T)
  <2> HIDE DEF f, T
  <2> QED
    BY <1>1, FS_Surjection
<1>3. ASSUME NEW n \in Nat, v \in 0..n - 1, kept \subseteq 0..n - 1, NEW u \in kept
      PROVE  Renumbered(u, v) \in 0..n - 1
  BY <1>3 DEF Renumbered
<1> QED
  BY <1>2, <1>3

LEMMA RemoveVertexKeeps ==
  ASSUME NEW c \in Clients, StepContext(c), handleRemoveVertexCommand(c)
  PROVE  Kept(c)
<1>1. CASE Refuse(c)
  BY <1>1, NothingChanged DEF Refuse, data
<1>2. ASSUME NEW v, NamesVertex(c, v), Goto(c, "release"), UNCHANGED local,
             sharedGraph' \in {removeVertex(sharedGraph, v), sharedGraph}
      PROVE  Kept(c)
  <2> DEFINE V == VertexSet(sharedGraph)
             n == sharedGraph.nextVertexId
  <2>1. /\ Shaped(sharedGraph) /\ IsFiniteSet(V) /\ n \in Int /\ careless \in BOOLEAN
        /\ ~careless => n \in Nat /\ V \subseteq 0..n - 1
    BY DEF StepContext, DataInv
  <2>2. /\ careless' \in BOOLEAN /\ (~careless' => ~careless)
        /\ ~careless' => v \in V
    BY <1>2, <2>1, Zenon DEF NamesVertex
  <2>3. /\ Shaped(sharedGraph') /\ sharedGraph'.nextVertexId = n
        /\ \/ VertexSet(sharedGraph') = V
           \/ \E kept \in SUBSET V :
                VertexSet(sharedGraph') = {Renumbered(u, v) : u \in kept}
    BY <1>2, <2>1, RemoveVertexVertices
  <2> HIDE DEF n, V
  <2>4. /\ IsFiniteSet(VertexSet(sharedGraph'))
        /\ ~careless' => VertexSet(sharedGraph') \subseteq 0..n - 1
    <3>1. CASE VertexSet(sharedGraph') = V
      BY <2>1, <2>2, <3>1
    <3>2. ASSUME NEW kept \in SUBSET V,
                 VertexSet(sharedGraph') = {Renumbered(u, v) : u \in kept}
          PROVE  /\ IsFiniteSet(VertexSet(sharedGraph'))
                 /\ ~careless' => VertexSet(sharedGraph') \subseteq 0..n - 1
      <4>1. IsFiniteSet(kept)
        BY <2>1, FS_Subset
      <4>2. ~careless' => n \in Nat /\ v \in 0..n - 1 /\ kept \subseteq 0..n - 1
        BY <2>1, <2>2
      <4> QED
        <5>1. /\ IsFiniteSet({Renumbered(u, v) : u \in kept})
              /\ \A m \in Nat : v \in 0..m - 1 /\ kept \subseteq 0..m - 1 =>
                   {Renumbered(u, v) : u \in kept} \subseteq 0..m - 1
          BY ONLY <4>1, RenumberedVertices
        <5> QED
          BY ONLY <3>2, <4>2, <5>1
    <3> QED
      BY <2>3, <3>1, <3>2
  <2>5. DataInv'
    BY <1>2, <2>1, <2>2, <2>3, <2>4 DEF StepContext, DataInv
  <2>6. LocalOf(c)'
    BY <1>2, Released
  <2> QED
    BY <2>5, <2>6 DEF Kept, NumberingKept, handleRemoveVertexCommand
<1> QED
  BY <1>1, <1>2 DEF handleRemoveVertexCommand

LEMMA OthersKeep ==
  ASSUME NEW c \in Clients, StepContext(c),
         \/ handlePrintGraphCommand(c) \/ handleMSTCommand(c) \/ MSTReadsChoice(c)
         \/ handleMetricCommand(c)
  PROVE  Kept(c)
<1>1. CASE handlePrintGraphCommand(c) \/ handleMSTCommand(c)
  BY <1>1, NothingChanged DEF handlePrintGraphCommand, handleMSTCommand, Refuse, data
<1>2. CASE MSTReadsChoice(c)
  BY <1>2, NothingChanged DEF MSTReadsChoice, GiveUp, Refuse, BringDown, data
<1>3. CASE handleMetricCommand(c)
  BY <1>3, NothingChanged DEF handleMetricCommand, Refuse, BringDown, data
<1> QED
  BY <1>1, <1>2, <1>3

LEMMA CommandKeeps ==
  ASSUME NEW c \in Clients, StepContext(c), CommandStep(c)
  PROVE  Kept(c)
  BY InitKeeps, EdgeCountKeeps, EdgeKeeps, NewVertexKeeps, TargetKeeps, WeightKeeps,
     EditsKeep, RemoveVertexKeeps, OthersKeep
  DEF CommandStep

-----------------------------------------------------------------------------
LocalsInv == LockInv /\ DataInv /\ \A c \in Clients : LocalOf(c)

LEMMA LocalsInvInit == Init => LocalsInv
<1> SUFFICES ASSUME Init PROVE LocalsInv
  OBVIOUS
<1>1. /\ Shaped(sharedGraph) /\ VertexSet(sharedGraph) = 0..0 - 1
      /\ sharedGraph.nextVertexId = 0
  BY NewGraphVertices DEF Init, EmptyGraph
<1>2. IsFiniteSet(VertexSet(sharedGraph))
  BY <1>1, Below
<1>3. DataInv
  <2>1. careless = FALSE /\ local \in [Clients -> LocalTypes]
    BY DEF Init, NoLocals, LocalTypes
  <2> QED
    <3>1. /\ sharedGraph.nextVertexId \in Nat /\ sharedGraph.nextVertexId \in Int
          /\ VertexSet(sharedGraph) \subseteq 0..sharedGraph.nextVertexId - 1
      BY ONLY <1>1
    <3>2. careless \in BOOLEAN
      BY ONLY <2>1
    <3> QED
      BY ONLY <1>1, <1>2, <2>1, <3>1, <3>2, Zenon DEF DataInv
<1> QED
  BY <1>3, LockInvInit DEF Init, LocalsInv, LocalOf

\* What the sessions do outside commands leaves the graph and the locals of
\* commands alone.
LEMMA OutsideKeeps ==
  ASSUME LocalsInv, LockInv', NEW c \in Clients,
         \/ StartSession(c) \/ TestExit(c) \/ ReadRequest(c) \/ acquireGraphLock(c)
         \/ releaseGraphLock(c) \/ Disconnect(c) \/ Shutdown \/ UNCHANGED vars
  PROVE  LocalsInv' /\ UNCHANGED sharedGraph
<1>1. UNCHANGED <<sharedGraph, careless>>
  BY DEF StartSession, TestExit, ReadRequest, acquireGraphLock, releaseGraphLock, Disconnect,
     Shutdown, vars, data
<1>2. local' = local \/ (local' = [local EXCEPT ![c] = NoLocals] /\ Goto(c, "loop"))
  BY DEF StartSession, TestExit, ReadRequest, acquireGraphLock, releaseGraphLock, Disconnect,
     Shutdown, vars
<1>3. \/ pc' = pc
      \/ \E label \in {"loop", "read", "closed", "acquire", "handle"} : Goto(c, label)
  BY DEF StartSession, TestExit, ReadRequest, acquireGraphLock, releaseGraphLock, Disconnect,
     Shutdown, vars
<1>4. DataInv'
  BY <1>1, <1>2 DEF LocalsInv, DataInv, NoLocals, LocalTypes
<1>5. ASSUME NEW d \in Clients PROVE LocalOf(d)'
  BY <1>1, <1>2, <1>3 DEF LocalsInv, LockInv, DataInv, LocalOf, Goto
<1> QED
  BY <1>1, <1>4, <1>5 DEF LocalsInv

LEMMA CommandKeepsLocals ==
  ASSUME LocalsInv, LockInv', NEW c \in Clients, CommandStep(c)
  PROVE  LocalsInv' /\ NumberingKept(c)
<1>1. Kept(c)
  BY CommandKeeps DEF LocalsInv, StepContext
<1>2. ASSUME NEW d \in Clients, d # c PROVE LocalOf(d)'
  <2>1. pc[d] \notin HandlerPc
    BY <1>2, CommandStepEffect DEF LocalsInv, LockInv, LockHeldByOne, InCommand
  <2>2. pc'[d] = pc[d]
    BY <1>2, CommandStepEffect DEF LocalsInv, LockInv, Goto
  <2> QED
    BY <2>1, <2>2 DEF LocalOf, HandlerPc
<1> QED
  BY <1>1, <1>2 DEF LocalsInv, Kept

LEMMA LocalsInvStep == LocalsInv /\ [Next]_vars => LocalsInv'
<1> SUFFICES ASSUME LocalsInv, [Next]_vars PROVE LocalsInv'
  OBVIOUS
<1>1. LockInv'
  BY LockInvStep DEF LocalsInv
<1>2. CASE UNCHANGED vars
  BY <1>2 DEF LocalsInv, LockInv, LockHeldByOne, InCommand, DataInv, LocalOf, vars, data
<1>3. CASE Next
  <2>1. CASE Shutdown
    BY <2>1 DEF Shutdown, LocalsInv, LockInv, LockHeldByOne, InCommand, DataInv, LocalOf, data
  <2>2. ASSUME NEW c \in Clients, SessionStep(c) \/ Disconnect(c) PROVE LocalsInv'
    BY <1>1, <2>2, OutsideKeeps, CommandKeepsLocals DEF SessionStep
  <2> QED
    BY <1>3, <2>1, <2>2 DEF Next
<1> QED
  BY <1>2, <1>3

LEMMA LocalsInvCorrect == SafeSpec => []LocalsInv
  BY LocalsInvInit, LocalsInvStep, PTL DEF SafeSpec

\* However many clients there are and whatever they send, what init and add_vtx
\* computed from the graph still holds after they waited for their client.
THEOREM LocalsFreshCorrect == SafeSpec => []LocalsFresh
<1>1. LocalsInv => LocalsFresh
  BY DEF LocalsInv, LocalOf, LocalsFresh
<1> QED
  BY <1>1, LocalsInvCorrect, PTL

\* On graphs of any size, whatever clients ask for, only the four steps that
\* ContiguityKept names break the numbering of the vertices.
THEOREM ContiguityKeptCorrect == SafeSpec => ContiguityKept
<1> DEFINE Breaks == \E c \in Clients :
             \/ Handling(c, "remove_vtx") \/ Handling(c, "change_weight")
             \/ Handling(c, "add_vtx") /\ sharedGraph.nextVertexId < 0
             \/ pc[c] = "addVtxWeight" /\ local[c].index \notin VertexSet(sharedGraph)
<1>1. ASSUME LocalsInv, [Next]_vars, Contiguous(sharedGraph)
      PROVE  Contiguous(sharedGraph') \/ Breaks
  <2>1. LockInv'
    BY <1>1, LockInvStep DEF LocalsInv
  <2>2. ASSUME NEW c \in Clients, CommandStep(c)
        PROVE  Contiguous(sharedGraph') \/ Breaks
    BY <1>1, <2>1, <2>2, CommandKeepsLocals DEF NumberingKept
  <2>3. UNCHANGED sharedGraph => Contiguous(sharedGraph')
    BY <1>1
  <2> QED
    BY <1>1, <2>2, <2>3, OutsideCommandEffect DEF Next, SessionStep, vars, data, Shutdown
<1>2. LocalsInv /\ [Next]_vars =>
        [Contiguous(sharedGraph) => Contiguous(sharedGraph') \/ Breaks]_vars
  <2> HIDE DEF Breaks
  <2> QED
    BY <1>1
<1> QED
  BY <1>2, LocalsInvCorrect, PTL DEF SafeSpec, ContiguityKept

-----------------------------------------------------------------------------
(***************************************************************************)
(* The graph stays undirected: what each command does to it is a lemma of  *)
(* GraphProofs.  Two commands may end that, and only once a request has    *)
(* made little sense: remove_edge of a loop, and add_vtx with a number a   *)
(* vertex has.                                                             *)
(***************************************************************************)
GraphInv == ~careless => Symmetric(sharedGraph)

Unbalances(c) ==
  \/ /\ Handling(c, "remove_edge")
     /\ \E v \in VertexSet(sharedGraph) : WeightsBetween(sharedGraph, v, v) # <<>>
  \/ Handling(c, "add_vtx") /\ sharedGraph.nextVertexId \in VertexSet(sharedGraph)

StaysSymmetric(c) == Symmetric(sharedGraph') \/ (Unbalances(c) /\ careless')

\* An edge is added or changed, a loop included.
LEMMA EdgeStored ==
  ASSUME NEW g, Shaped(g), Symmetric(g), NEW s \in Int, NEW d \in Int, NEW w \in Int
  PROVE  Symmetric(addEdge(g, s, d, w)) /\ Symmetric(changeWeight(g, s, d, w))
<1>1. CASE s = d
  BY <1>1, AddLoopSymmetric, ChangeLoopSymmetric
<1>2. CASE s # d
  BY <1>2, AddEdgeSymmetric, ChangeWeightSymmetric
<1> QED
  BY <1>1, <1>2

LEMMA InitSymmetric ==
  ASSUME NEW c \in Clients, Symmetric(sharedGraph), handleInitCommand(c)
  PROVE  Symmetric(sharedGraph')
<1>1. CASE Refuse(c)
  BY <1>1 DEF Refuse, data
<1>2. ASSUME NEW n \in InitSizes, sharedGraph' = NewGraph(n) PROVE Symmetric(sharedGraph')
  BY <1>2, NewGraphSymmetric, SessionsAssumption
<1> QED
  BY <1>1, <1>2 DEF handleInitCommand

LEMMA AddingSymmetric ==
  ASSUME NEW c \in Clients, StepContext(c), Symmetric(sharedGraph),
         \/ InitReadsEdge(c) \/ AddVertexReadsWeight(c) \/ handleAddEdgeCommand(c)
         \/ handleChangeWeightCommand(c)
  PROVE  Symmetric(sharedGraph')
<1>1. \/ sharedGraph' = sharedGraph
      \/ \E s, d, w \in Int : sharedGraph' \in {addEdge(sharedGraph, s, d, w),
                                                changeWeight(sharedGraph, s, d, w)}
  <2>1. CASE AddVertexReadsWeight(c)
    <3>1. local[c].index \in Int /\ local[c].target \in Int
      BY DEF StepContext, DataInv, LocalTypes
    <3> QED
      BY <2>1, <3>1, SessionsAssumption
      DEF AddVertexReadsWeight, GiveUp, Refuse, OutOfIntRange, data
  <2>2. CASE InitReadsEdge(c)
    BY <2>2, SessionsAssumption DEF InitReadsEdge, data
  <2>3. CASE handleAddEdgeCommand(c)
    BY <2>3, SessionsAssumption DEF handleAddEdgeCommand
  <2>4. CASE handleChangeWeightCommand(c)
    BY <2>4, SessionsAssumption DEF handleChangeWeightCommand, Refuse, data
  <2> QED
    BY <2>1, <2>2, <2>3, <2>4
<1>2. Shaped(sharedGraph)
  BY DEF StepContext, DataInv
<1> QED
  BY <1>1, <1>2, EdgeStored

LEMMA NewVertexSymmetric ==
  ASSUME NEW c \in Clients, StepContext(c), Symmetric(sharedGraph), handleAddVertexCommand(c)
  PROVE  StaysSymmetric(c)
<1> DEFINE n == sharedGraph.nextVertexId
<1>1. /\ Handling(c, "add_vtx") /\ UNCHANGED careless
      /\ sharedGraph' = addVertex(sharedGraph)
  BY DEF handleAddVertexCommand
<1>2. n \in Int /\ (~careless => n \notin VertexSet(sharedGraph)) /\ careless \in BOOLEAN
  BY DEF StepContext, DataInv
<1>3. CASE n \notin VertexSet(sharedGraph)
  BY <1>1, <1>2, <1>3, AddVertexSymmetric DEF StaysSymmetric
<1>4. CASE n \in VertexSet(sharedGraph)
  BY <1>1, <1>2, <1>4 DEF StaysSymmetric, Unbalances
<1> QED
  BY <1>3, <1>4

LEMMA EdgeRemovedSymmetric ==
  ASSUME NEW c \in Clients, StepContext(c), Symmetric(sharedGraph), handleRemoveEdgeCommand(c)
  PROVE  StaysSymmetric(c)
<1>1. PICK s \in Int, d \in Int :
        NamesEdge(c, s, d) /\ sharedGraph' \in {sharedGraph, removeEdge(sharedGraph, s, d)}
  BY SessionsAssumption DEF handleRemoveEdgeCommand
<1>2. Shaped(sharedGraph) /\ Handling(c, "remove_edge")
  BY DEF StepContext, DataInv, handleRemoveEdgeCommand
<1>3. CASE s # d \/ WeightsBetween(sharedGraph, s, s) = <<>>
  BY <1>1, <1>2, <1>3, RemoveEdgeSymmetric, RemoveNoLoopSymmetric DEF StaysSymmetric
<1>4. CASE s = d /\ WeightsBetween(sharedGraph, s, s) # <<>>
  <2>1. careless'
    BY <1>1, <1>4 DEF NamesEdge
  <2>2. s \in VertexSet(sharedGraph)
    BY <1>4, WeightsEmpty DEF WeightsBetween, getAdjacentEdges
  <2> QED
    BY <1>2, <1>4, <2>1, <2>2 DEF StaysSymmetric, Unbalances
<1> QED
  BY <1>3, <1>4

LEMMA VertexRemovedSymmetric ==
  ASSUME NEW c \in Clients, StepContext(c), Symmetric(sharedGraph), handleRemoveVertexCommand(c)
  PROVE  Symmetric(sharedGraph')
<1>1. \/ sharedGraph' = sharedGraph
      \/ \E v \in Int : sharedGraph' = removeVertex(sharedGraph, v)
  BY SessionsAssumption DEF handleRemoveVertexCommand, Refuse, data
<1>2. Shaped(sharedGraph)
  BY DEF StepContext, DataInv
<1> QED
  BY <1>1, <1>2, RemoveVertexSymmetric

LEMMA OthersSymmetric ==
  ASSUME NEW c \in Clients,
         \/ InitReadsEdgeCount(c) \/ AddVertexReadsTarget(c)
         \/ handlePrintGraphCommand(c) \/ handleMSTCommand(c) \/ MSTReadsChoice(c)
         \/ handleMetricCommand(c)
  PROVE  sharedGraph' = sharedGraph
<1>1. CASE InitReadsEdgeCount(c) \/ AddVertexReadsTarget(c)
  BY <1>1 DEF InitReadsEdgeCount, AddVertexReadsTarget, Refuse, GiveUp, OutOfIntRange, data
<1>2. CASE handlePrintGraphCommand(c) \/ handleMSTCommand(c) \/ handleMetricCommand(c)
  BY <1>2 DEF handlePrintGraphCommand, handleMSTCommand, handleMetricCommand, Refuse, BringDown, data
<1>3. CASE MSTReadsChoice(c)
  BY <1>3 DEF MSTReadsChoice, Refuse, GiveUp, BringDown, data
<1> QED
  BY <1>1, <1>2, <1>3

LEMMA CommandSymmetric ==
  ASSUME NEW c \in Clients, StepContext(c), Symmetric(sharedGraph), CommandStep(c)
  PROVE  StaysSymmetric(c)
BY InitSymmetric, AddingSymmetric, NewVertexSymmetric, EdgeRemovedSymmetric,
   VertexRemovedSymmetric, OthersSymmetric
DEF CommandStep, StaysSymmetric

\* A request that made little sense is not forgotten.
LEMMA CarelessStays ==
  ASSUME NEW c \in Clients, CommandStep(c), careless
  PROVE  careless'
<1>1. \A s, d : NamesEdge(c, s, d) => careless'
  BY DEF NamesEdge
<1>2. \A v : NamesVertex(c, v) => careless'
  BY DEF NamesVertex
<1>3. CASE handleInitCommand(c) \/ InitReadsEdgeCount(c) \/ InitReadsEdge(c)
  BY <1>1, <1>3 DEF handleInitCommand, InitReadsEdgeCount, InitReadsEdge, Refuse, GiveUp
<1>4. CASE handleAddVertexCommand(c) \/ AddVertexReadsTarget(c) \/ AddVertexReadsWeight(c)
  BY <1>2, <1>4
  DEF handleAddVertexCommand, AddVertexReadsTarget, AddVertexReadsWeight, Refuse, GiveUp, OutOfIntRange
<1>5. CASE handleAddEdgeCommand(c) \/ handleRemoveEdgeCommand(c)
  BY <1>1, <1>5 DEF handleAddEdgeCommand, handleRemoveEdgeCommand
<1>6. CASE handleRemoveVertexCommand(c) \/ handleChangeWeightCommand(c)
  BY <1>1, <1>2, <1>6 DEF handleRemoveVertexCommand, handleChangeWeightCommand, Refuse
<1>7. CASE handlePrintGraphCommand(c) \/ handleMetricCommand(c) \/ handleMSTCommand(c)
  BY <1>7 DEF handlePrintGraphCommand, handleMetricCommand, handleMSTCommand, Refuse, BringDown
<1>8. CASE MSTReadsChoice(c)
  BY <1>8 DEF MSTReadsChoice, Refuse, GiveUp, BringDown
<1> QED
  BY <1>3, <1>4, <1>5, <1>6, <1>7, <1>8 DEF CommandStep

LEMMA GraphInvStep == LocalsInv /\ GraphInv /\ [Next]_vars => GraphInv'
<1> SUFFICES ASSUME LocalsInv, GraphInv, [Next]_vars PROVE GraphInv'
  OBVIOUS
<1>1. ASSUME NEW c \in Clients, CommandStep(c) PROVE GraphInv'
  <2> SUFFICES ASSUME ~careless' PROVE Symmetric(sharedGraph')
    BY DEF GraphInv
  <2>1. StepContext(c)
    BY DEF StepContext, LocalsInv
  <2>2. Symmetric(sharedGraph)
    BY <1>1, CarelessStays DEF GraphInv
  <2> QED
    BY <1>1, <2>1, <2>2, CommandSymmetric DEF StaysSymmetric
<1>2. ASSUME NEW c \in Clients,
             \/ StartSession(c) \/ TestExit(c) \/ ReadRequest(c)
             \/ acquireGraphLock(c) \/ releaseGraphLock(c) \/ Disconnect(c)
      PROVE  GraphInv'
  BY <1>2 DEF GraphInv, StartSession, TestExit, ReadRequest, acquireGraphLock,
     releaseGraphLock, Disconnect, data
<1>3. CASE Shutdown \/ UNCHANGED vars
  BY <1>3 DEF GraphInv, Shutdown, vars, data
<1> QED
  BY <1>1, <1>2, <1>3 DEF Next, SessionStep

\* On graphs of any size, as long as requests make sense: each edge is in the
\* lists of both its ends with one weight, whatever is added, changed, removed
\* and renumbered, and addVertex() takes no number twice.
THEOREM GraphIntactCorrect == SafeSpec => []GraphIntact
<1>1. Init => GraphInv
  BY NewGraphSymmetric DEF Init, GraphInv, EmptyGraph
<1>2. LocalsInv /\ GraphInv => GraphIntact
  <2> SUFFICES ASSUME LocalsInv, GraphInv, ~careless
               PROVE  /\ StoredTwice(sharedGraph)
                      /\ \A v \in VertexSet(sharedGraph) : v < sharedGraph.nextVertexId
    BY DEF GraphIntact
  <2>1. StoredTwice(sharedGraph)
    BY SymmetricStoredTwice DEF GraphInv
  <2>2. \A v \in VertexSet(sharedGraph) : v < sharedGraph.nextVertexId
    BY DEF LocalsInv, DataInv
  <2> QED
    BY <2>1, <2>2
<1> QED
  BY <1>1, <1>2, LocalsInvCorrect, GraphInvStep, PTL DEF SafeSpec

\* What the theorems about the algorithms assume of their inputs is what the
\* sessions keep: as long as requests make sense, the graph that createMST() is
\* called with lists every edge at both its ends.
THEOREM AlgorithmsGetMirrored == SafeSpec => [](~careless => Mirrored(sharedGraph))
<1>1. Init => GraphInv
  BY NewGraphSymmetric DEF Init, GraphInv, EmptyGraph
<1>2. LocalsInv /\ GraphInv => (~careless => Mirrored(sharedGraph))
  BY SymmetricMirrored DEF LocalsInv, DataInv, GraphInv
<1> QED
  BY <1>1, <1>2, LocalsInvCorrect, GraphInvStep, PTL DEF SafeSpec
-----------------------------------------------------------------------------
(***************************************************************************)
(* What the algorithms return: a forest has no more trees than vertices,   *)
(* so the number of its edges is one.                                      *)
(***************************************************************************)
ForestType == [vertices : SUBSET Int, length : Nat]

LEMMA ForestTyped ==
  ASSUME NEW links, IsFiniteSet(links), \A l \in links : l[2] \in Int,
         NEW vs \in SUBSET Int, IsFiniteSet(vs)
  PROVE  SpanningForest({Tree(links, v) : v \in vs}) \in ForestType
<1> DEFINE trees == {Tree(links, v) : v \in vs}
           kept == {t \in trees : Cardinality(t) > 1}
           ends == {l[2] : l \in links}
           root == [t \in kept |-> CHOOSE v \in vs : t = Tree(links, v)]
<1>1. ends \subseteq Int /\ IsFiniteSet(ends)
  <2> DEFINE f == [l \in links |-> l[2]]
  <2>1. {f[l] : l \in links} = ends
    OBVIOUS
  <2> HIDE DEF f, ends
  <2>2. IsFiniteSet(ends)
    BY <2>1, ImageFinite
  <2> QED
    BY <2>2 DEF ends
<1>2. \A v \in vs : v \in Tree(links, v) /\ Tree(links, v) \subseteq vs \cup ends
  <2> TAKE v \in vs
  <2>1. v \in Tree(links, v) /\ Tree(links, v) \subseteq {v} \cup ends
    BY TreeHolds
  <2> QED
    BY <2>1
<1> HIDE DEF ends
<1>3. UNION kept \subseteq vs \cup ends /\ UNION kept \subseteq Int
  BY <1>1, <1>2
<1>4. IsFiniteSet(UNION kept)
  <2>1. IsFiniteSet(vs \cup ends)
    BY <1>1, FS_Union
  <2> HIDE DEF kept
  <2> QED
    BY <1>3, <2>1, FS_Subset
<1>5. ASSUME NEW t \in kept PROVE root[t] \in t /\ t = Tree(links, root[t])
  <2>1. \E v \in vs : t = Tree(links, v)
    OBVIOUS
  <2>2. root[t] \in vs /\ t = Tree(links, root[t])
    <3> HIDE DEF kept
    <3> QED
      BY <2>1
  <2> HIDE DEF root
  <2> QED
    BY <1>2, <2>2
<1>6. root \in Injection(kept, UNION kept)
  <2>1. root = [t \in kept |-> root[t]]
    <3> HIDE DEF kept
    <3> QED
      OBVIOUS
  <2> HIDE DEF root, kept
  <2>2. root \in [kept -> UNION kept]
    BY <1>5, <2>1
  <2>3. \A a, b \in kept : root[a] = root[b] => a = b
    BY <1>5
  <2> QED
    BY <2>2, <2>3 DEF Injection, IsInjective
<1> HIDE DEF root
<1>7. Cardinality(UNION kept) \in Nat /\ Cardinality(kept) \in Nat
      /\ Cardinality(kept) <= Cardinality(UNION kept)
  <2> HIDE DEF kept
  <2> QED
    BY <1>4, <1>6, FS_Injection, FS_CardinalityType
<1>8. SpanningForest(trees) =
        [vertices |-> UNION kept, length |-> Cardinality(UNION kept) - Cardinality(kept)]
  BY DEF SpanningForest
<1> HIDE DEF kept, trees
<1>9. SpanningForest(trees) \in ForestType
  BY <1>3, <1>7, <1>8 DEF ForestType
<1> QED
  BY <1>9 DEF trees

LEMMA ForestOf ==
  ASSUME NEW vs \in SUBSET Int, NEW n \in Nat
  PROVE  [vertices |-> vs, length |-> n] \in ForestType
BY DEF ForestType

LEMMA OneTreeTyped ==
  ASSUME NEW t \in SUBSET Int, IsFiniteSet(t)
  PROVE  SpanningForest({t}) \in ForestType
<1> DEFINE kept == {x \in {t} : Cardinality(x) > 1}
<1>1. SpanningForest({t}) =
        [vertices |-> UNION kept, length |-> Cardinality(UNION kept) - Cardinality(kept)]
  BY DEF SpanningForest
<1>2. Cardinality(t) \in Nat
  BY FS_CardinalityType
<1>3. CASE Cardinality(t) > 1
  <2>1. kept = {t} /\ UNION kept = t /\ Cardinality(kept) = 1
    BY <1>3, FS_Singleton
  <2> HIDE DEF kept
  <2> DEFINE n == Cardinality(t) - 1
  <2>2. SpanningForest({t}) = [vertices |-> t, length |-> n]
    BY <1>1, <2>1
  <2>3. n \in Nat
    BY <1>2, <1>3
  <2> HIDE DEF n
  <2> QED
    BY <2>2, <2>3, ForestOf
<1>4. CASE ~(Cardinality(t) > 1)
  <2>1. kept = {} /\ UNION kept = {} /\ Cardinality({}) = 0
    BY <1>4, FS_EmptySet
  <2> HIDE DEF kept
  <2>2. SpanningForest({t}) = [vertices |-> {}, length |-> 0]
    BY <1>1, <2>1
  <2> QED
    BY <2>2 DEF ForestType
<1> QED
  BY <1>3, <1>4

LEMMA EntriesTyped ==
  ASSUME NEW g, ListsTyped(g), NEW vs \in SUBSET Int, IsFiniteSet(vs)
  PROVE  IsFiniteSet(EntriesOf(g, vs)) /\ EntriesOf(g, vs) \subseteq EdgeType
<1> DEFINE f == [v \in vs |-> ToSet(getAdjacentEdges(g, v))]
<1>1. ASSUME NEW v \in vs PROVE IsFiniteSet(f[v]) /\ f[v] \subseteq EdgeType
  <2> DEFINE q == getAdjacentEdges(g, v)
             T == EdgesFrom(v)
             at == [i \in 1..Len(q) |-> q[i]]
  <2>1. q \in Seq(T) /\ f[v] = ToSet(q)
    BY DEF ListsTyped, ListsOf
  <2>2. T \subseteq EdgeType
    BY DEF EdgesFrom, EdgeType
  <2> HIDE DEF q, T, f
  <2>3. Len(q) \in Nat /\ DOMAIN q = 1..Len(q) /\ \A i \in 1..Len(q) : q[i] \in T
    BY <2>1, LenProperties, ElementOfSeq
  <2>4. {at[i] : i \in 1..Len(q)} = ToSet(q)
    BY <2>3 DEF ToSet
  <2>5. IsFiniteSet(1..Len(q))
    BY <2>3, FS_Interval
  <2> HIDE DEF at
  <2>6. IsFiniteSet(ToSet(q))
    BY <2>4, <2>5, ImageFinite
  <2>7. ToSet(q) \subseteq T
    BY <2>3 DEF ToSet
  <2> QED
    BY <2>1, <2>2, <2>6, <2>7
<1>2. EntriesOf(g, vs) = UNION {f[v] : v \in vs}
  BY DEF EntriesOf
<1> HIDE DEF f
<1>3. IsFiniteSet({f[v] : v \in vs})
  BY ImageFinite
<1>4. IsFiniteSet(UNION {f[v] : v \in vs})
  BY <1>1, <1>3, FS_UNION
<1> QED
  BY <1>1, <1>2, <1>4

LEMMA LinksTyped ==
  ASSUME NEW es, IsFiniteSet(es), es \subseteq EdgeType
  PROVE  /\ IsFiniteSet(OneWay(es)) /\ \A l \in OneWay(es) : l[2] \in Int
         /\ IsFiniteSet(BothWays(es)) /\ \A l \in BothWays(es) : l[2] \in Int
<1> DEFINE there == [e \in es |-> <<e.source, e.destination>>]
           back == [e \in es |-> <<e.destination, e.source>>]
<1>1. {there[e] : e \in es} = OneWay(es)
  BY DEF OneWay
<1>2. OneWay(es) \cup {back[e] : e \in es} = BothWays(es)
  BY DEF BothWays
<1>3. (\A l \in OneWay(es) : l[2] \in Int) /\ (\A l \in BothWays(es) : l[2] \in Int)
  BY DEF OneWay, BothWays, EdgeType
<1> HIDE DEF there, back
<1>4. IsFiniteSet(OneWay(es)) /\ IsFiniteSet({back[e] : e \in es})
  BY <1>1, <1>2, ImageFinite
<1> QED
  BY <1>2, <1>3, <1>4, FS_Union

\* Whatever comes out of an algorithm, in any graph, is a forest's.
LEMMA OutcomeTyped ==
  ASSUME NEW g, ListsTyped(g), IsFiniteSet(VertexSet(g)), NEW algorithm,
         NEW outcome \in Outcomes(g, algorithm)
  PROVE  outcome.mst \in ForestType
<1> DEFINE slots == Slots(g)
           edges == EntriesOf(g, slots)
<1>1. slots \in SUBSET Int /\ IsFiniteSet(slots)
  <2>1. getVertices(g) \in Nat
    BY FS_CardinalityType DEF getVertices
  <2> QED
    BY <2>1, FS_Interval DEF Slots
<1> HIDE DEF slots
<1>2. IsFiniteSet(edges) /\ edges \subseteq EdgeType
  BY <1>1, EntriesTyped
<1> HIDE DEF edges
<1>3. OutOfBounds.mst \in ForestType
  BY DEF OutOfBounds, NoMST, ForestType
<1>4. \A trees : Success(trees).mst = SpanningForest(trees)
  BY DEF Success
<1>5. CASE outcome \in KruskalOutcomes(g)
  <2> DEFINE forest == {Tree(BothWays(edges), v) : v \in slots}
  <2>1. outcome \in {Success(forest), OutOfBounds, Success({slots})}
    BY <1>5 DEF KruskalOutcomes, edges, slots
  <2>2. SpanningForest(forest) \in ForestType
    BY <1>1, <1>2, LinksTyped, ForestTyped
  <2>3. SpanningForest({slots}) \in ForestType
    BY <1>1, OneTreeTyped
  <2> HIDE DEF forest
  <2> QED
    BY <1>3, <1>4, <2>1, <2>2, <2>3
<1>6. CASE outcome \in PrimOutcomes(g)
  <2> DEFINE usable == {e \in edges : e.weight < MaxInt /\ e.destination \in slots}
             reached == Tree(OneWay(usable), 0)
  <2>1. outcome \in {Success({reached}), OutOfBounds}
    BY <1>6 DEF PrimOutcomes, edges, slots
  <2>2. IsFiniteSet(usable) /\ usable \subseteq EdgeType
    BY <1>2, FS_Subset
  <2> HIDE DEF usable
  <2> DEFINE links == OneWay(usable)
             ends == {l[2] : l \in links}
             f == [l \in links |-> l[2]]
  <2>3. IsFiniteSet(links) /\ \A l \in links : l[2] \in Int
    BY <2>2, LinksTyped
  <2>4. reached \subseteq {0} \cup ends
    BY TreeHolds
  <2> HIDE DEF reached, links
  <2>5. {f[l] : l \in links} = ends /\ ends \subseteq Int
    BY <2>3
  <2> HIDE DEF f, ends
  <2>6. IsFiniteSet(ends \cup {0})
    <3>1. IsFiniteSet(ends)
      BY <2>3, <2>5, ImageFinite
    <3> QED
      BY <3>1, FS_AddElement
  <2>7. IsFiniteSet(reached) /\ reached \in SUBSET Int
    <3>1. reached \in SUBSET (ends \cup {0}) /\ ends \cup {0} \subseteq Int
      BY <2>4, <2>5
    <3> QED
      BY <2>6, <3>1, FS_Subset
  <2>8. SpanningForest({reached}) \in ForestType
    BY <2>7, OneTreeTyped
  <2> QED
    BY <1>3, <1>4, <2>1, <2>8
<1> QED
  BY <1>5, <1>6 DEF Outcomes
-----------------------------------------------------------------------------
(***************************************************************************)
(* Type correctness of the sessions.  init's count of edges stays positive *)
(* while it waits for one; every list of the graph holds edges of integers *)
(* whatever the requests are.                                              *)
(***************************************************************************)
ControlTyped ==
  /\ shouldExit \in BOOLEAN
  /\ cmd \in [Clients -> Requests \cup {NoRequest}]
  /\ requests \in 0..MaxRequests
  /\ peer \in [Clients -> {"open", "leaving", "closed"}]
  /\ process \in {"up", "SIGPIPE", "terminate", "outOfBounds", "noFirstEdge"}

LocalTyped ==
  /\ local \in [Clients -> Locals]
  /\ \A c \in Clients : pc[c] = "initEdge" => local[c].left > 0

DataTyped ==
  /\ ListsTyped(sharedGraph)
  /\ lastMST \in ForestType

\* What a step of a command does to the rest of the server.
LEMMA CommandControl ==
  ASSUME NEW c \in Clients, ControlTyped, CommandStep(c)
  PROVE  ControlTyped'
<1> USE DEF Refuse, GiveUp, InHandler, sendResponse, Line, NoLine, Quiet
<1> DEFINE Control ==
             /\ UNCHANGED <<shouldExit, cmd, requests>>
             /\ peer' = peer \/ peer' = [peer EXCEPT ![c] = IF @ = "leaving" THEN "closed" ELSE @]
             /\ \/ process' = process
                \/ process' \in {"up", "SIGPIPE", "terminate", "outOfBounds", "noFirstEdge"}
<1>1. CASE handleInitCommand(c) \/ InitReadsEdgeCount(c) \/ InitReadsEdge(c)
  <2>1. Control
    BY <1>1 DEF handleInitCommand, InitReadsEdgeCount, InitReadsEdge
  <2> QED
    BY <2>1 DEF ControlTyped
<1>2. CASE handleAddVertexCommand(c) \/ AddVertexReadsTarget(c) \/ AddVertexReadsWeight(c)
  <2>1. Control
    BY <1>2 DEF handleAddVertexCommand, AddVertexReadsTarget, AddVertexReadsWeight, OutOfIntRange
  <2> QED
    BY <2>1 DEF ControlTyped
<1>3. CASE \/ handleAddEdgeCommand(c) \/ handleRemoveEdgeCommand(c)
           \/ handleRemoveVertexCommand(c) \/ handleChangeWeightCommand(c)
           \/ handlePrintGraphCommand(c)
  <2>1. Control
    BY <1>3 DEF handleAddEdgeCommand, handleRemoveEdgeCommand, handleRemoveVertexCommand,
       handleChangeWeightCommand, handlePrintGraphCommand
  <2> QED
    BY <2>1 DEF ControlTyped
<1>4. CASE handleMetricCommand(c) \/ handleMSTCommand(c) \/ MSTReadsChoice(c)
  <2>1. Control
    BY <1>4 DEF handleMetricCommand, handleMSTCommand, MSTReadsChoice, BringDown
  <2> QED
    BY <2>1 DEF ControlTyped
<1> QED
  BY <1>1, <1>2, <1>3, <1>4 DEF CommandStep

LEMMA OutsideControl ==
  ASSUME NEW c \in Clients, ControlTyped,
         \/ StartSession(c) \/ TestExit(c) \/ ReadRequest(c) \/ acquireGraphLock(c)
         \/ releaseGraphLock(c) \/ Disconnect(c) \/ Shutdown \/ UNCHANGED vars
  PROVE  ControlTyped'
<1> USE DEF ControlTyped, sendResponse, Line, NoLine, Quiet
<1>1. CASE StartSession(c) \/ TestExit(c) \/ Disconnect(c) \/ Shutdown \/ UNCHANGED vars
  BY <1>1 DEF StartSession, TestExit, Disconnect, Shutdown, vars
<1>2. CASE acquireGraphLock(c) \/ releaseGraphLock(c)
  BY <1>2 DEF acquireGraphLock, releaseGraphLock
<1>3. CASE ReadRequest(c)
  <2>1. /\ UNCHANGED shouldExit
        /\ peer' \in [Clients -> {"open", "leaving", "closed"}]
        /\ process' \in {"up", "SIGPIPE", "terminate", "outOfBounds", "noFirstEdge"}
    BY <1>3 DEF ReadRequest
  <2>2. requests' \in 0..MaxRequests
    <3>1. requests' = requests \/ (requests < MaxRequests /\ requests' = requests + 1)
      BY <1>3 DEF ReadRequest
    <3> QED
      BY <3>1, SessionsAssumption
  <2>3. cmd' \in [Clients -> Requests \cup {NoRequest}]
    <3>1. cmd' = cmd \/ \E r \in Requests : cmd' = [cmd EXCEPT ![c] = r]
      BY <1>3 DEF ReadRequest
    <3> QED
      BY <3>1
  <2> QED
    BY <2>1, <2>2, <2>3
<1> QED
  BY <1>1, <1>2, <1>3

LEMMA CommandLocals ==
  ASSUME NEW c \in Clients, StepContext(c), LocalTyped, CommandStep(c)
  PROVE  LocalTyped'
<1> USE DEF InHandler, Handling
<1>1. pc \in [Clients -> SessionPc] /\ local \in [Clients -> Locals]
  BY DEF StepContext, LockInv, LocalTyped
<1>2. ASSUME UNCHANGED local, pc' = pc \/ \E label : Goto(c, label) /\ label # "initEdge"
      PROVE  LocalTyped'
  BY <1>1, <1>2 DEF LocalTyped, Goto
<1>3. ASSUME NEW label, Goto(c, label), label # "initEdge",
             NEW field, NEW x, SetLocal(c, field, x),
             \/ field \in {"size", "target"} /\ x \in Int
             \/ field \in {"left", "index"} /\ x \in Nat
      PROVE  LocalTyped'
  <2>1. local' \in [Clients -> Locals] /\ \A d \in Clients \ {c} : local'[d] = local[d]
    BY <1>1, <1>3 DEF SetLocal, Locals
  <2> QED
    BY <1>1, <1>3, <2>1 DEF LocalTyped, Goto
<1>4. ASSUME NEW x \in Nat, x > 0, Goto(c, "initEdge"), SetLocal(c, "left", x)
      PROVE  LocalTyped'
  <2>1. local' \in [Clients -> Locals] /\ local'[c].left = x
        /\ \A d \in Clients \ {c} : local'[d] = local[d]
    BY <1>1, <1>4 DEF SetLocal, Locals
  <2> QED
    BY <1>1, <1>4, <2>1 DEF LocalTyped, Goto
<1>5. CASE handleInitCommand(c)
  <2>1. CASE Refuse(c)
    BY <1>2, <2>1 DEF Refuse
  <2>2. ASSUME NEW n \in InitSizes, Goto(c, IF n = 1 THEN "release" ELSE "initEdges"),
               SetLocal(c, "size", n)
        PROVE  LocalTyped'
    BY <1>3, <2>2, SessionsAssumption
  <2> QED
    BY <1>5, <2>1, <2>2 DEF handleInitCommand
<1>6. CASE InitReadsEdgeCount(c)
  <2>1. CASE Refuse(c) \/ GiveUp(c)
    BY <1>2, <2>1 DEF Refuse, GiveUp
  <2>2. ASSUME NEW n \in 0..MaxAnnounced, SetLocal(c, "left", n),
               Goto(c, IF n = 0 THEN "release" ELSE "initEdge")
        PROVE  LocalTyped'
    <3>1. n \in Nat
      BY SessionsAssumption
    <3>2. CASE n = 0
      BY <1>3, <2>2, <3>1, <3>2
    <3>3. CASE n # 0
      BY <1>4, <2>2, <3>1, <3>3
    <3> QED
      BY <3>2, <3>3
  <2> QED
    BY <1>6, <2>1, <2>2 DEF InitReadsEdgeCount
<1>7. CASE InitReadsEdge(c)
  <2>1. CASE Goto(c, "release") /\ UNCHANGED local
    BY <1>2, <2>1
  <2>2. CASE /\ SetLocal(c, "left", local[c].left - 1)
             /\ Goto(c, IF local[c].left = 1 THEN "release" ELSE "initEdge")
    <3>1. local[c].left \in Nat /\ local[c].left > 0
      BY <1>1, <1>7 DEF LocalTyped, InitReadsEdge, Locals
    <3> DEFINE n == local[c].left - 1
    <3>2. n \in Nat /\ (n = 0 <=> local[c].left = 1)
      BY <3>1
    <3>3. SetLocal(c, "left", n) /\ Goto(c, IF n = 0 THEN "release" ELSE "initEdge")
      BY <2>2, <3>2
    <3> HIDE DEF n
    <3>4. CASE n = 0
      BY <1>3, <3>2, <3>3, <3>4
    <3>5. CASE n # 0
      BY <1>4, <3>2, <3>3, <3>5
    <3> QED
      BY <3>4, <3>5
  <2> QED
    BY <1>7, <2>1, <2>2 DEF InitReadsEdge
<1>8. CASE handleAddVertexCommand(c)
  <2>1. getVertices(sharedGraph) \in Nat
    BY FS_CardinalityType DEF StepContext, DataInv, getVertices
  <2>2. Goto(c, "addVtxTarget") /\ SetLocal(c, "index", getVertices(sharedGraph))
    BY <1>8 DEF handleAddVertexCommand
  <2> QED
    BY <1>3, <2>1, <2>2
<1>9. CASE AddVertexReadsTarget(c)
  <2>1. CASE Refuse(c) \/ GiveUp(c) \/ OutOfIntRange(c)
    BY <1>2, <2>1 DEF Refuse, GiveUp, OutOfIntRange
  <2>2. ASSUME NEW v \in VertexNumbers, SetLocal(c, "target", v), Goto(c, "addVtxWeight")
        PROVE  LocalTyped'
    BY <1>3, <2>2, SessionsAssumption
  <2> QED
    BY <1>9, <2>1, <2>2 DEF AddVertexReadsTarget
<1>10. CASE \/ AddVertexReadsWeight(c) \/ handleAddEdgeCommand(c) \/ handleRemoveEdgeCommand(c)
            \/ handleRemoveVertexCommand(c) \/ handleChangeWeightCommand(c)
            \/ handlePrintGraphCommand(c) \/ handleMetricCommand(c) \/ handleMSTCommand(c)
            \/ MSTReadsChoice(c)
  <2>1. UNCHANGED local /\ (pc' = pc \/ Goto(c, "release") \/ Goto(c, "mstChoice"))
    BY <1>10 DEF AddVertexReadsWeight, handleAddEdgeCommand, handleRemoveEdgeCommand,
       handleRemoveVertexCommand, handleChangeWeightCommand, handlePrintGraphCommand,
       handleMetricCommand, handleMSTCommand, MSTReadsChoice, Refuse, GiveUp, OutOfIntRange,
       BringDown
  <2> QED
    BY <1>2, <2>1
<1> QED
  BY <1>5, <1>6, <1>7, <1>8, <1>9, <1>10 DEF CommandStep

LEMMA OutsideLocals ==
  ASSUME NEW c \in Clients, LockInv, LocalTyped,
         \/ StartSession(c) \/ TestExit(c) \/ ReadRequest(c) \/ acquireGraphLock(c)
         \/ releaseGraphLock(c) \/ Disconnect(c) \/ Shutdown \/ UNCHANGED vars
  PROVE  LocalTyped'
<1>1. pc \in [Clients -> SessionPc]
  BY DEF LockInv
<1>2. CASE releaseGraphLock(c)
  <2>1. NoLocals \in Locals
    BY DEF NoLocals, Locals
  <2> QED
    BY <1>1, <1>2, <2>1 DEF LocalTyped, releaseGraphLock, Goto
<1>3. CASE \/ StartSession(c) \/ TestExit(c) \/ ReadRequest(c) \/ acquireGraphLock(c)
           \/ Disconnect(c) \/ Shutdown \/ UNCHANGED vars
  <2>1. UNCHANGED local
        /\ (pc' = pc \/ \E label \in {"loop", "closed", "read", "acquire", "handle"} : Goto(c, label))
    BY <1>3 DEF StartSession, TestExit, ReadRequest, acquireGraphLock, Disconnect, Shutdown, vars
  <2> QED
    BY <1>1, <2>1 DEF LocalTyped, Goto
<1> QED
  BY <1>2, <1>3

LEMMA CommandData ==
  ASSUME NEW c \in Clients, StepContext(c), DataTyped, CommandStep(c)
  PROVE  DataTyped'
<1> DEFINE g == sharedGraph
<1>1. /\ Shaped(g) /\ ListsTyped(g) /\ IsFiniteSet(VertexSet(g)) /\ g.nextVertexId \in Int
      /\ lastMST \in ForestType
  BY DEF StepContext, DataInv, DataTyped
<1>2. VertexNumbers \subseteq Int /\ EdgeWeights \subseteq Int /\ InitSizes \subseteq Int
  BY SessionsAssumption
<1>3. CASE UNCHANGED data
  BY <1>1, <1>3 DEF data, DataTyped
<1>4. ASSUME UNCHANGED lastMST,
             \/ g' = g
             \/ \E n \in Int : g' = NewGraph(n)
             \/ g' = addVertex(g)
             \/ \E s, d, w \in Int : g' = addEdge(g, s, d, w)
             \/ \E s, d \in Int : g' = removeEdge(g, s, d)
             \/ \E v \in Int : g' = removeVertex(g, v)
             \/ \E s, d, w \in Int : g' = changeWeight(g, s, d, w)
      PROVE  DataTyped'
  <2>1. \A n \in Int : ListsTyped(NewGraph(n))
    BY NewGraphSymmetric DEF Symmetric
  <2>2. ListsTyped(g')
    BY <1>1, <1>4, <2>1, AddVertexTyped, AddEdgeTyped, RemoveEdgeTyped, RemoveVertexTyped,
       ChangeWeightTyped
  <2> QED
    BY <1>1, <1>4, <2>2 DEF DataTyped
<1>5. CASE handleInitCommand(c) \/ InitReadsEdgeCount(c) \/ InitReadsEdge(c)
  BY <1>2, <1>3, <1>4, <1>5
  DEF handleInitCommand, InitReadsEdgeCount, InitReadsEdge, Refuse, GiveUp, data
<1>6. CASE handleAddVertexCommand(c) \/ AddVertexReadsTarget(c)
  BY <1>2, <1>3, <1>4, <1>6
  DEF handleAddVertexCommand, AddVertexReadsTarget, OutOfIntRange, Refuse, GiveUp
<1>7. CASE AddVertexReadsWeight(c)
  <2>1. local[c].index \in Int /\ local[c].target \in Int
    BY DEF StepContext, DataInv, LocalTypes
  <2> QED
    BY <1>2, <1>3, <1>4, <1>7, <2>1 DEF AddVertexReadsWeight, OutOfIntRange, Refuse, GiveUp
<1>8. CASE handleAddEdgeCommand(c) \/ handleRemoveEdgeCommand(c)
  BY <1>2, <1>4, <1>8 DEF handleAddEdgeCommand, handleRemoveEdgeCommand
<1>9. CASE handleRemoveVertexCommand(c) \/ handleChangeWeightCommand(c)
  BY <1>2, <1>3, <1>4, <1>9 DEF handleRemoveVertexCommand, handleChangeWeightCommand, Refuse
<1>10. CASE handlePrintGraphCommand(c) \/ handleMSTCommand(c) \/ handleMetricCommand(c)
  BY <1>3, <1>4, <1>10 DEF handlePrintGraphCommand, handleMSTCommand, handleMetricCommand, Refuse, BringDown
<1>11. CASE MSTReadsChoice(c)
  <2>1. CASE UNCHANGED data
    BY <1>3, <2>1
  <2>2. CASE UNCHANGED <<sharedGraph, lastMST>>
    BY <1>4, <2>2
  <2>3. ASSUME NEW algorithm, NEW outcome \in Outcomes(g, algorithm), lastMST' = outcome.mst,
               UNCHANGED sharedGraph
        PROVE  DataTyped'
    <3>1. lastMST' \in ForestType
      BY <1>1, <2>3, OutcomeTyped
    <3> QED
      BY <1>1, <2>3, <3>1 DEF DataTyped
  <2> QED
    BY <1>11, <2>1, <2>2, <2>3 DEF MSTReadsChoice, Refuse, GiveUp, BringDown
<1> QED
  BY <1>5, <1>6, <1>7, <1>8, <1>9, <1>10, <1>11 DEF CommandStep

TypeInv == LocalsInv /\ ControlTyped /\ LocalTyped /\ DataTyped

LEMMA TypeInvInit == Init => TypeInv
<1> SUFFICES ASSUME Init PROVE TypeInv
  OBVIOUS
<1>1. ControlTyped
  <2>1. requests \in 0..MaxRequests
    BY SessionsAssumption DEF Init
  <2>2. cmd \in [Clients -> Requests \cup {NoRequest}]
    BY DEF Init
  <2> QED
    BY <2>1, <2>2 DEF Init, ControlTyped
<1>2. LocalTyped
  BY DEF Init, LocalTyped, NoLocals, Locals
<1>3. DataTyped
  BY NewGraphSymmetric DEF Init, DataTyped, EmptyGraph, Symmetric, NoMST, ForestType
<1> QED
  BY <1>1, <1>2, <1>3, LocalsInvInit DEF TypeInv

LEMMA TypeInvStep == TypeInv /\ [Next]_vars => TypeInv'
<1> SUFFICES ASSUME TypeInv, [Next]_vars PROVE TypeInv'
  OBVIOUS
<1>1. LocalsInv'
  BY LocalsInvStep DEF TypeInv
<1>2. ASSUME NEW c \in Clients, CommandStep(c) PROVE TypeInv'
  <2>1. StepContext(c)
    BY DEF StepContext, TypeInv, LocalsInv
  <2> QED
    BY <1>1, <1>2, <2>1, CommandControl, CommandLocals, CommandData DEF TypeInv
<1>3. ASSUME NEW c \in Clients,
             \/ StartSession(c) \/ TestExit(c) \/ ReadRequest(c) \/ acquireGraphLock(c)
             \/ releaseGraphLock(c) \/ Disconnect(c) \/ Shutdown \/ UNCHANGED vars
      PROVE  TypeInv'
  <2>1. DataTyped'
    <3>1. UNCHANGED data
      BY <1>3, OutsideCommandEffect
    <3> QED
      BY <3>1 DEF TypeInv, DataTyped, data
  <2> QED
    BY <1>1, <1>3, <2>1, OutsideControl, OutsideLocals DEF TypeInv, LocalsInv
<1>4. CASE Shutdown \/ UNCHANGED vars
  BY <1>1, <1>4 DEF TypeInv, ControlTyped, LocalTyped, DataTyped, Shutdown, vars, data
<1> QED
  BY <1>2, <1>3, <1>4 DEF Next, SessionStep

\* Whatever the clients send, loops, vertices that do not exist and numbers
\* that do not parse included, every variable keeps its type: lists hold edges,
\* init's count of edges to come never goes below zero, and the forest an
\* algorithm returns has a length.
THEOREM SessionsTypeCorrect == SafeSpec => []TypeOK
<1>1. TypeInv => TypeOK
  <2> SUFFICES ASSUME TypeInv PROVE TypeOK
    OBVIOUS
  <2>1. ASSUME NEW v \in VertexSet(sharedGraph)
        PROVE  v \in Int /\ sharedGraph.adjacencyList[v] \in Seq(EdgeType)
    <3> DEFINE q == sharedGraph.adjacencyList[v]
               T == EdgesFrom(v)
    <3>1. v \in Int /\ q \in Seq(T)
      BY ListOf DEF TypeInv, DataTyped, ListsTyped, ListsOf
    <3>2. T \subseteq EdgeType
      BY <3>1 DEF EdgesFrom, EdgeType
    <3> HIDE DEF q, T
    <3>3. q \in Seq(EdgeType)
      BY <3>1, <3>2, SeqMonotonic
    <3> QED
      BY <3>1, <3>3 DEF q
  <2> QED
    BY <2>1
    DEF TypeInv, LocalsInv, LockInv, DataInv, ControlTyped, LocalTyped, DataTyped, ForestType, TypeOK
<1> QED
  BY <1>1, TypeInvInit, TypeInvStep, PTL DEF SafeSpec

\* Whatever clients ask for, on graphs of any size: an edge that is in the lists
\* of both its ends stays so, but for the two steps that DirectionsKept names.
THEOREM DirectionsKeptCorrect == SafeSpec => DirectionsKept
<1> DEFINE Broken == \E c \in Clients :
             \/ /\ Handling(c, "remove_edge")
                /\ \E v \in VertexSet(sharedGraph) : WeightsBetween(sharedGraph, v, v) # <<>>
             \/ /\ Handling(c, "add_vtx")
                /\ sharedGraph.nextVertexId \in VertexSet(sharedGraph)
<1>1. ASSUME TypeInv, [Next]_vars, StoredTwice(sharedGraph)
      PROVE  StoredTwice(sharedGraph') \/ Broken
  <2>1. Symmetric(sharedGraph)
    BY <1>1, StoredTwiceSymmetric DEF TypeInv, DataTyped
  <2>2. ASSUME NEW c \in Clients, CommandStep(c)
        PROVE  StoredTwice(sharedGraph') \/ Broken
    <3>1. StepContext(c)
      BY <1>1 DEF StepContext, TypeInv, LocalsInv
    <3>2. StaysSymmetric(c)
      BY <2>1, <2>2, <3>1, CommandSymmetric
    <3> QED
      BY <3>2, SymmetricStoredTwice DEF StaysSymmetric, Unbalances
  <2>3. UNCHANGED sharedGraph => StoredTwice(sharedGraph')
    BY <1>1
  <2> QED
    BY <1>1, <2>2, <2>3, OutsideCommandEffect DEF Next, SessionStep, vars, data, Shutdown
<1>2. TypeInv /\ [Next]_vars =>
        [StoredTwice(sharedGraph) => StoredTwice(sharedGraph') \/ Broken]_vars
  <2> HIDE DEF Broken
  <2> QED
    BY <1>1
<1> QED
  BY <1>2, TypeInvInit, TypeInvStep, PTL DEF SafeSpec, DirectionsKept
=============================================================================
