------------------------------ MODULE Sessions ------------------------------
(***************************************************************************)
(* Client sessions of src/src/server/Server.cpp: handleClient() and the    *)
(* command handlers, run by one pool worker per connected client, on the   *)
(* graph they share.                                                       *)
(*                                                                         *)
(* The handlers are serialised by isGraphBusy, a flag under                *)
(* sharedGraphMutex: a session that finds it set replies an error and goes *)
(* back to its command loop, one that sets it keeps it while it reads      *)
(* further lines from its client.  The graph itself is read and written    *)
(* with no mutex held.                                                     *)
(*                                                                         *)
(* Granularity.  A step runs from one point where a session may block or   *)
(* be overtaken to the next: a read() of the client, a critical section of *)
(* sharedGraphMutex, or, for the handlers that read nothing more, their    *)
(* body between the two.                                                   *)
(***************************************************************************)
EXTENDS SpanningTrees

CONSTANTS
  Clients,          \* the accepted connections
  VertexNumbers,    \* the vertex numbers clients type
  EdgeWeights,      \* the weights clients type
  InitSizes,        \* the numbers of vertices clients ask `init` for
  MaxRequests,      \* bound on the graph commands of all sessions
  MaxAnnounced      \* bound on the edges announced to `init`

ASSUME SessionsAssumption ==
  /\ VertexNumbers \subseteq Int
  /\ EdgeWeights \subseteq Int
  /\ InitSizes \subseteq Int
  /\ MaxRequests \in Nat /\ MaxAnnounced \in Nat

VARIABLES
  sharedGraph,   \* the graph, see Graph
  lastMST,       \* what matters of the last MST: see NoMST
  isGraphBusy,   \* the graph lock
  shouldExit,    \* set by Server::shutdown
  pc,            \* where each session is
  cmd,           \* the request each session is handling
  local,         \* the locals of its handler that outlive a read()
  requests,      \* how many graph commands the sessions have read
  peer,          \* each client's end of its connection
  process,       \* "up", or what brought the server down
  careless       \* history: has a request made little sense? see NamesEdge

data == <<sharedGraph, lastMST>>
vars ==
  <<data, isGraphBusy, shouldExit, pc, cmd, local, requests, peer, process,
    careless>>

-----------------------------------------------------------------------------
(***************************************************************************)
(* Requests.  A request is well formed when its arguments parse.           *)
(***************************************************************************)
WithArguments ==
  {"init", "add_edge", "remove_edge", "remove_vtx", "metric", "change_weight"}

GraphCommands == WithArguments \cup {"add_vtx", "mst", "print_graph"}

Requests ==
  {r \in [name : GraphCommands, wellFormed : BOOLEAN] :
     r.name \in WithArguments \ {"metric"} \/ r.wellFormed}

NoRequest == [name |-> "none", wellFormed |-> TRUE]

\* The labels at which a session is inside a handler, owning the graph.
HandlerPc ==
  {"handle",         \* has set isGraphBusy
   "initEdges",      \* init: waits for the line "edges <n>"
   "initEdge",       \* init: waits for the next edge
   "addVtxTarget",   \* add_vtx: waits for the vertex to connect to
   "addVtxWeight",   \* add_vtx: waits for the weight
   "mstChoice",      \* mst: waits for "prim" or "kruskal"
   "release"}        \* about to clear isGraphBusy

SessionPc ==
  HandlerPc \cup
  {"queued",         \* the task is in the pool's queue
   "loop",           \* about to test shouldExit
   "read",           \* waits for a request
   "acquire",        \* about to try the graph lock
   "closed"}         \* handleClient() has returned

Locals == [size : Int, left : Nat, index : Nat, target : Int]
NoLocals == [size |-> 0, left |-> 0, index |-> 0, target |-> 0]

\* The metrics index matrices of n by n with vertex numbers.
InArray(vs, n) == vs \subseteq 0..n - 1

-----------------------------------------------------------------------------
Init ==
  /\ sharedGraph = EmptyGraph
  /\ lastMST = NoMST
  /\ isGraphBusy = FALSE
  /\ shouldExit = FALSE
  /\ pc = [c \in Clients |-> "queued"]
  /\ cmd = [c \in Clients |-> NoRequest]
  /\ local = [c \in Clients |-> NoLocals]
  /\ requests = 0
  /\ peer = [c \in Clients |-> "open"]
  /\ process = "up"
  /\ careless = FALSE

Goto(c, label) == pc' = [pc EXCEPT ![c] = label]

(***************************************************************************)
(* The connection.  A client may close its end at any time; it may leave   *)
(* one line the server has not read.  A write to a closed connection       *)
(* succeeds until the peer's reset has arrived, and raises SIGPIPE then.   *)
(***************************************************************************)
Disconnect(c) ==
  /\ peer[c] = "open"
  /\ \E p \in {"leaving", "closed"} : peer' = [peer EXCEPT ![c] = p]
  /\ UNCHANGED <<data, isGraphBusy, shouldExit, pc, cmd, local, requests, process,
                 careless>>

\* read() returns a line, or at most 0.
Line(c) ==
  /\ peer[c] # "closed"
  /\ peer' = [peer EXCEPT ![c] = IF @ = "leaving" THEN "closed" ELSE @]

NoLine(c) == peer[c] = "closed" /\ UNCHANGED peer

sendResponse(c) ==
  \/ process' = "up"
  \/ peer[c] # "open" /\ process' = "SIGPIPE"

Quiet == UNCHANGED process

-----------------------------------------------------------------------------
(***************************************************************************)
(* handleClient().                                                         *)
(***************************************************************************)
StartSession(c) ==
  /\ pc[c] = "queued"
  /\ sendResponse(c)
  /\ Goto(c, "loop")
  /\ UNCHANGED <<data, isGraphBusy, shouldExit, cmd, local, requests, peer, careless>>

\* Mutant of TestExit: the loop does not look at shouldExit.
TestNothing(c) ==
  /\ pc[c] = "loop"
  /\ Goto(c, "read")
  /\ UNCHANGED <<data, isGraphBusy, shouldExit, cmd, local, requests, peer, process,
                 careless>>

TestExit(c) ==
  /\ pc[c] = "loop"
  /\ Goto(c, IF shouldExit THEN "closed" ELSE "read")
  /\ UNCHANGED <<data, isGraphBusy, shouldExit, cmd, local, requests, peer, process,
                 careless>>

ReadRequest(c) ==
  /\ pc[c] = "read"
  /\ \/ NoLine(c) /\ Goto(c, "closed") /\ Quiet /\ UNCHANGED <<cmd, requests>>
     \/ /\ Line(c)
        /\ \/ \* a command on the graph
              /\ \E r \in Requests :
                   cmd' = [cmd EXCEPT ![c] = r]
              /\ requests < MaxRequests
              /\ requests' = requests + 1
              /\ Goto(c, "acquire")
              /\ Quiet
           \/ \* an empty line, "menu", or an unknown command
              /\ Goto(c, "loop")
              /\ Quiet \/ sendResponse(c)
              /\ UNCHANGED <<cmd, requests>>
           \/ \* "exit"
              /\ Goto(c, "closed")
              /\ sendResponse(c)
              /\ UNCHANGED <<cmd, requests>>
  /\ UNCHANGED <<data, isGraphBusy, shouldExit, local, careless>>

\* Mutant of acquireGraphLock: does not look at isGraphBusy.
AcquireUnchecked(c) ==
  /\ pc[c] = "acquire"
  /\ isGraphBusy' = TRUE
  /\ Goto(c, "handle")
  /\ Quiet
  /\ UNCHANGED <<data, shouldExit, cmd, local, requests, peer, careless>>

acquireGraphLock(c) ==
  /\ pc[c] = "acquire"
  /\ \/ /\ isGraphBusy
        /\ sendResponse(c)
        /\ Goto(c, "loop")
        /\ cmd' = [cmd EXCEPT ![c] = NoRequest]
        /\ UNCHANGED isGraphBusy
     \/ /\ ~isGraphBusy
        /\ isGraphBusy' = TRUE
        /\ Goto(c, "handle")
        /\ Quiet
        /\ UNCHANGED cmd
  /\ UNCHANGED <<data, shouldExit, local, requests, peer, careless>>

\* Nobody waits on graphCV, which releaseGraphLock() notifies.
releaseGraphLock(c) ==
  /\ pc[c] = "release"
  /\ isGraphBusy' = FALSE
  /\ Goto(c, "loop")
  /\ cmd' = [cmd EXCEPT ![c] = NoRequest]
  /\ local' = [local EXCEPT ![c] = NoLocals]
  /\ UNCHANGED <<data, shouldExit, requests, peer, process, careless>>

-----------------------------------------------------------------------------
(***************************************************************************)
(* The command handlers, from the acquired lock to its release.            *)
(***************************************************************************)
Handling(c, name) == pc[c] = "handle" /\ cmd[c].name = name

InHandler == UNCHANGED <<isGraphBusy, shouldExit, cmd, requests>>

\* The handler replies, changes nothing more and goes on to release the lock.
Refuse(c) ==
  /\ sendResponse(c)
  /\ Goto(c, "release")
  /\ UNCHANGED <<data, local, careless>>

\* A read() inside the handler fails: it releases the lock without a reply.
\* Mutant of GiveUp: returns to the command loop with the lock held.
GiveUpHolding(c) ==
  /\ NoLine(c)
  /\ Goto(c, "loop")
  /\ Quiet
  /\ UNCHANGED <<data, local, careless>>

GiveUp(c) ==
  /\ NoLine(c)
  /\ Goto(c, "release")
  /\ Quiet
  /\ UNCHANGED <<data, local, careless>>

SetLocal(c, field, value) == local' = [local EXCEPT ![c][field] = value]

InRange(v) == v >= 0 /\ v < getVertices(sharedGraph)

\* The request makes little sense if it names a vertex that does not exist or
\* an edge from a vertex to itself, or if its arguments did not parse; so does
\* `init` with a negative size, after which add_vtx adds the vertex -1.
NamesVertex(c, v) ==
  careless' = (careless \/ v \notin VertexSet(sharedGraph) \/ ~cmd[c].wellFormed)

NamesEdge(c, s, d) ==
  careless' = (\/ careless
               \/ ~({s, d} \subseteq VertexSet(sharedGraph))
               \/ s = d
               \/ ~cmd[c].wellFormed)

handleInitCommand(c) ==
  /\ Handling(c, "init")
  /\ \/ ~cmd[c].wellFormed /\ Refuse(c)
     \/ /\ cmd[c].wellFormed
        /\ \E numVertices \in InitSizes :
             /\ sharedGraph' = NewGraph(numVertices)
             /\ Goto(c, IF numVertices = 1 THEN "release" ELSE "initEdges")
             /\ SetLocal(c, "size", numVertices)
             /\ careless' = (careless \/ numVertices < 0)
        /\ sendResponse(c)
        /\ UNCHANGED lastMST
  /\ UNCHANGED peer
  /\ InHandler

\* Mutant of InitReadsEdgeCount: reads an edge before it counts.
InitReadsAnEdge(c) ==
  /\ pc[c] = "initEdges"
  /\ \/ GiveUp(c)
     \/ Line(c) /\ Refuse(c)
     \/ /\ Line(c)
        /\ \E numEdges \in 0..MaxAnnounced : SetLocal(c, "left", numEdges)
        /\ Goto(c, "initEdge")
        /\ sendResponse(c)
        /\ UNCHANGED <<data, careless>>
  /\ InHandler

InitReadsEdgeCount(c) ==
  /\ pc[c] = "initEdges"
  /\ \/ GiveUp(c)
     \/ Line(c) /\ Refuse(c)                    \* not "edges <n>"
     \/ /\ Line(c)
        /\ \E numEdges \in 0..MaxAnnounced :
             /\ SetLocal(c, "left", numEdges)
             /\ Goto(c, IF numEdges = 0 THEN "release" ELSE "initEdge")
        /\ sendResponse(c)
        /\ UNCHANGED <<data, careless>>
  /\ InHandler

\* A line that holds no edge, or an edge out of range, counts as one of the n.
InitReadsEdge(c) ==
  /\ pc[c] = "initEdge"
  /\ \/ /\ NoLine(c)
        /\ Goto(c, "release")
        /\ UNCHANGED <<data, local, careless>>
     \/ /\ Line(c)
        /\ \/ UNCHANGED <<sharedGraph, careless>>
           \/ \E s, d \in VertexNumbers, w \in EdgeWeights :
                /\ {s, d} \subseteq 0..local[c].size - 1
                /\ NamesEdge(c, s, d)
                /\ sharedGraph' = addEdge(sharedGraph, s, d, w)
        /\ SetLocal(c, "left", local[c].left - 1)
        /\ Goto(c, IF local[c].left = 1 THEN "release" ELSE "initEdge")
        /\ UNCHANGED lastMST
  /\ sendResponse(c)
  /\ InHandler

\* Mutants of handleAddVertexCommand: gives the graph back before it waits for
\* the client; computes the index after it has added the vertex.
AddVertexUnlocked(c) ==
  /\ Handling(c, "add_vtx")
  /\ SetLocal(c, "index", getVertices(sharedGraph))
  /\ sharedGraph' = addVertex(sharedGraph)
  /\ sendResponse(c)
  /\ Goto(c, "addVtxTarget")
  /\ isGraphBusy' = FALSE
  /\ UNCHANGED <<lastMST, peer, careless, shouldExit, cmd, requests>>

AddVertexIndexLate(c) ==
  /\ Handling(c, "add_vtx")
  /\ sharedGraph' = addVertex(sharedGraph)
  /\ SetLocal(c, "index", getVertices(sharedGraph'))
  /\ sendResponse(c)
  /\ Goto(c, "addVtxTarget")
  /\ UNCHANGED <<lastMST, peer, careless>>
  /\ InHandler

handleAddVertexCommand(c) ==
  /\ Handling(c, "add_vtx")
  /\ SetLocal(c, "index", getVertices(sharedGraph))
  /\ sharedGraph' = addVertex(sharedGraph)
  /\ sendResponse(c)
  /\ Goto(c, "addVtxTarget")
  /\ UNCHANGED <<lastMST, peer, careless>>
  /\ InHandler

\* std::stoi throws out_of_range for a number that is no int; only
\* invalid_argument is caught, and the worker's thread terminates the server.
OutOfIntRange(c) ==
  /\ process' = "terminate"
  /\ UNCHANGED <<data, pc, local, careless>>

AddVertexReadsTarget(c) ==
  /\ pc[c] = "addVtxTarget"
  /\ \/ GiveUp(c)
     \/ Line(c) /\ OutOfIntRange(c)
     \/ Line(c) /\ Refuse(c)                    \* no number, or no vertex
     \/ /\ Line(c)
        /\ \E v \in VertexNumbers :
             /\ v \in 0..local[c].index - 1
             /\ NamesVertex(c, v)
             /\ SetLocal(c, "target", v)
        /\ sendResponse(c)
        /\ Goto(c, "addVtxWeight")
        /\ UNCHANGED data
  /\ InHandler

AddVertexReadsWeight(c) ==
  /\ pc[c] = "addVtxWeight"
  /\ \/ GiveUp(c)
     \/ Line(c) /\ OutOfIntRange(c)
     \/ Line(c) /\ Refuse(c)                    \* no number
     \/ /\ Line(c)
        /\ \E w \in EdgeWeights :
             sharedGraph' = addEdge(sharedGraph, local[c].index, local[c].target, w)
        /\ sendResponse(c)
        /\ Goto(c, "release")
        /\ UNCHANGED <<lastMST, local, careless>>
  /\ InHandler

(***************************************************************************)
(* add_edge and remove_edge do not test whether their arguments parsed: if *)
(* not, the variables are read uninitialised and may hold anything.        *)
(***************************************************************************)
handleAddEdgeCommand(c) ==
  /\ Handling(c, "add_edge")
  /\ \E s, d \in VertexNumbers, w \in EdgeWeights :
       /\ NamesEdge(c, s, d)
       /\ sharedGraph' = IF InRange(s) /\ InRange(d)
                         THEN addEdge(sharedGraph, s, d, w)
                         ELSE sharedGraph
  /\ sendResponse(c)
  /\ Goto(c, "release")
  /\ UNCHANGED <<lastMST, local, peer>>
  /\ InHandler

handleRemoveEdgeCommand(c) ==
  /\ Handling(c, "remove_edge")
  /\ \E s, d \in VertexNumbers :
       /\ NamesEdge(c, s, d)
       /\ sharedGraph' = IF InRange(s) /\ InRange(d)
                         THEN removeEdge(sharedGraph, s, d)
                         ELSE sharedGraph
  /\ sendResponse(c)
  /\ Goto(c, "release")
  /\ UNCHANGED <<lastMST, local, peer>>
  /\ InHandler

handleRemoveVertexCommand(c) ==
  /\ Handling(c, "remove_vtx")
  /\ \/ ~cmd[c].wellFormed /\ Refuse(c)
     \/ /\ cmd[c].wellFormed
        /\ \E v \in VertexNumbers :
             /\ NamesVertex(c, v)
             /\ sharedGraph' = IF InRange(v) THEN removeVertex(sharedGraph, v)
                                              ELSE sharedGraph
        /\ sendResponse(c)
        /\ Goto(c, "release")
        /\ UNCHANGED <<lastMST, local>>
  /\ UNCHANGED peer
  /\ InHandler

handleChangeWeightCommand(c) ==
  /\ Handling(c, "change_weight")
  /\ \/ ~cmd[c].wellFormed /\ Refuse(c)
     \/ /\ cmd[c].wellFormed
        /\ \E s, d \in VertexNumbers, w \in EdgeWeights :
             /\ NamesEdge(c, s, d)
             /\ sharedGraph' = changeWeight(sharedGraph, s, d, w)
        /\ sendResponse(c)
        /\ Goto(c, "release")
        /\ UNCHANGED <<lastMST, local>>
  /\ UNCHANGED peer
  /\ InHandler

handlePrintGraphCommand(c) ==
  /\ Handling(c, "print_graph")
  /\ Refuse(c)
  /\ UNCHANGED peer
  /\ InHandler

handleMSTCommand(c) ==
  /\ Handling(c, "mst")
  /\ \/ getEdges(sharedGraph) = 0 /\ Refuse(c)
     \/ /\ getEdges(sharedGraph) # 0
        /\ sendResponse(c)
        /\ Goto(c, "mstChoice")
        /\ UNCHANGED <<data, local, careless>>
  /\ UNCHANGED peer
  /\ InHandler

(***************************************************************************)
(* What follows an index out of bounds is undefined, and the reply reads   *)
(* the first edge of the MST, through a null pointer if there is none: the *)
(* model stops at both.                                                    *)
(***************************************************************************)
BringDown(cause) ==
  /\ process' = cause
  /\ UNCHANGED <<sharedGraph, pc, local, careless>>

MSTReadsChoice(c) ==
  /\ pc[c] = "mstChoice"
  /\ \/ GiveUp(c)
     \/ Line(c) /\ Refuse(c)      \* neither name, or less than two vertices
     \/ /\ Line(c)
        /\ getVertices(sharedGraph) >= 2
        /\ \E algorithm \in {"prim", "kruskal"} : \E outcome \in Outcomes(sharedGraph, algorithm) :
             \/ /\ outcome.outOfBounds
                /\ BringDown("outOfBounds")
                /\ UNCHANGED lastMST
             \/ /\ ~outcome.outOfBounds
                /\ lastMST' = outcome.mst
                /\ \/ outcome.mst.length = 0 /\ BringDown("noFirstEdge")
                   \/ /\ outcome.mst.length # 0
                      /\ sendResponse(c)
                      /\ Goto(c, "release")
                      /\ UNCHANGED <<sharedGraph, local, careless>>
  /\ InHandler

\* The size of the distance matrix of each metric.
MatrixSize(metric) ==
  IF metric = "shortest_path" THEN lastMST.length + 1 ELSE getVertices(sharedGraph)

handleMetricCommand(c) ==
  /\ Handling(c, "metric")
  /\ \/ Refuse(c)        \* no vertices, no MST, unknown metric; or total_weight
     \/ /\ getVertices(sharedGraph) # 0
        /\ lastMST # NoMST
        /\ \E metric \in {"longest_path", "average_path", "shortest_path"} :
             \/ InArray(lastMST.vertices, MatrixSize(metric)) /\ Refuse(c)
             \/ /\ ~InArray(lastMST.vertices, MatrixSize(metric))
                /\ BringDown("outOfBounds")
                /\ UNCHANGED lastMST
  /\ UNCHANGED peer
  /\ InHandler

-----------------------------------------------------------------------------
Shutdown ==
  /\ shouldExit' = TRUE
  /\ UNCHANGED <<data, isGraphBusy, pc, cmd, local, requests, peer, process,
                 careless>>

CommandStep(c) ==
  \/ handleInitCommand(c) \/ InitReadsEdgeCount(c) \/ InitReadsEdge(c)
  \/ handleAddVertexCommand(c) \/ AddVertexReadsTarget(c) \/ AddVertexReadsWeight(c)
  \/ handleAddEdgeCommand(c) \/ handleRemoveEdgeCommand(c)
  \/ handleRemoveVertexCommand(c) \/ handleChangeWeightCommand(c)
  \/ handlePrintGraphCommand(c) \/ handleMetricCommand(c)
  \/ handleMSTCommand(c) \/ MSTReadsChoice(c)

SessionStep(c) ==
  \/ StartSession(c) \/ TestExit(c) \/ ReadRequest(c)
  \/ acquireGraphLock(c) \/ CommandStep(c) \/ releaseGraphLock(c)

Next ==
  /\ process = "up"
  /\ \/ Shutdown
     \/ \E c \in Clients : SessionStep(c) \/ Disconnect(c)

SafeSpec == Init /\ [][Next]_vars

(***************************************************************************)
(* A worker is scheduled when it can go on, and a client the server waits  *)
(* for sends a line or closes its end: read() has no timeout, so without   *)
(* this last assumption a session may hold the graph for ever.             *)
(***************************************************************************)
Spec == SafeSpec /\ \A c \in Clients : WF_vars(SessionStep(c))

-----------------------------------------------------------------------------
EdgeType == [source : Int, destination : Int, weight : Int]

TypeOK ==
  /\ sharedGraph.nextVertexId \in Int
  /\ \A v \in VertexSet(sharedGraph) :
       v \in Int /\ sharedGraph.adjacencyList[v] \in Seq(EdgeType)
  /\ lastMST \in [vertices : SUBSET Int, length : Nat]
  /\ isGraphBusy \in BOOLEAN
  /\ shouldExit \in BOOLEAN
  /\ pc \in [Clients -> SessionPc]
  /\ cmd \in [Clients -> Requests \cup {NoRequest}]
  /\ local \in [Clients -> Locals]
  /\ requests \in 0..MaxRequests
  /\ peer \in [Clients -> {"open", "leaving", "closed"}]
  /\ process \in {"up", "SIGPIPE", "terminate", "outOfBounds", "noFirstEdge"}
  /\ careless \in BOOLEAN

(***************************************************************************)
(* The graph lock.                                                         *)
(***************************************************************************)
InCommand(c) == pc[c] \in HandlerPc

\* isGraphBusy is set exactly while one session is inside a command: no two
\* sessions ever are, and no early return of a handler leaves it set.
LockHeldByOne ==
  /\ isGraphBusy <=> \E c \in Clients : InCommand(c)
  /\ \A c, d \in Clients : InCommand(c) /\ InCommand(d) => c = d

\* While a session is inside a command, waiting for its client included, every
\* change of the graph or of the last MST is a step of that command.
CommandIsolated ==
  [][\A c \in Clients : InCommand(c) => UNCHANGED data \/ CommandStep(c)]_vars

\* What a handler computed from the graph before it read from its client
\* still holds of the graph when it goes on.
LocalsFresh ==
  \A c \in Clients :
    /\ pc[c] \in {"initEdges", "initEdge"} =>
         VertexSet(sharedGraph) = 0..local[c].size - 1
    /\ pc[c] \in {"addVtxTarget", "addVtxWeight"} /\ ~careless =>
         getVertices(sharedGraph) = local[c].index + 1

\* Every command ends and gives the graph back, unless the server is down.
LockReleased == isGraphBusy ~> (~isGraphBusy \/ process # "up")

\* After shutdown() every session ends, so the pool's workers can be joined.
SessionsEnd ==
  shouldExit ~> (process # "up" \/ \A c \in Clients : pc[c] = "closed")

(***************************************************************************)
(* The graph.                                                              *)
(***************************************************************************)
\* As long as requests make sense, each edge is in the lists of both its ends
\* with one weight, and the next vertex gets a number no vertex has.
GraphIntact ==
  ~careless =>
    /\ StoredTwice(sharedGraph)
    /\ \A v \in VertexSet(sharedGraph) : v < sharedGraph.nextVertexId

\* The vertices are 0..n-1 and n is the next number, which is what handlers,
\* algorithms and addVertex() each assume.
Contiguous(g) == VertexSet(g) = 0..g.nextVertexId - 1

\* Whatever clients ask for, loops and vertices that do not exist included, an
\* edge that is in the lists of both its ends stays so, until remove_edge is
\* run while a vertex has an edge to itself, or add_vtx gives a number again.
DirectionsKept ==
  [][StoredTwice(sharedGraph) =>
       \/ StoredTwice(sharedGraph')
       \/ \E c \in Clients :
            \/ /\ Handling(c, "remove_edge")
               /\ \E v \in VertexSet(sharedGraph) : WeightsBetween(sharedGraph, v, v) # <<>>
            \/ /\ Handling(c, "add_vtx")
               /\ sharedGraph.nextVertexId \in VertexSet(sharedGraph)]_vars

\* Whatever clients ask for, only these break the numbering for all that follow:
\* remove_vtx, change_weight, which inserts the numbers it is given, add_vtx
\* after `init` with a negative size, and add_vtx that connects the vertex it
\* takes for the new one, which has another number.
ContiguityKept ==
  [][Contiguous(sharedGraph) =>
       \/ Contiguous(sharedGraph')
       \/ \E c \in Clients :
            \/ Handling(c, "remove_vtx") \/ Handling(c, "change_weight")
            \/ Handling(c, "add_vtx") /\ sharedGraph.nextVertexId < 0
            \/ pc[c] = "addVtxWeight" /\ local[c].index \notin VertexSet(sharedGraph)]_vars

(***************************************************************************)
(* Promises of the documentation that the code does not keep.              *)
(***************************************************************************)
\* "If the client disconnects [...] the loop exits and the client socket is
\* closed": no client's disconnection brings the server down.
SurvivesDisconnect == process # "SIGPIPE"

\* The MST and its metrics can be computed on every graph that requests that
\* make sense can build.
NumbersInArrays == ~careless => process # "outOfBounds"
=============================================================================
