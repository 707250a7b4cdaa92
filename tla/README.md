# Verification of the MST server

TLA+ models of the C++ program in this repository: a server on which several
clients edit one weighted graph and ask for minimum spanning trees, over a
leader-follower thread pool. TLC checks the models on small instances; TLAPS
proves the main safety properties for every value of the constants.

Paths below are relative to the repository's root.

## The system

| Component | State | Operations | Interacts with |
|---|---|---|---|
| `ThreadPool` (`src/utils`) | `tasks`, `stop`, `currentLeader`, two mutexes and condition variables, the worker threads | `enqueue`, `exit`, `becomeLeader`, `promoteNewLeader`, `workerThread` | runs the sessions of `Server`; called by `run` and `shutdown` |
| Sessions (`Server::handleClient` and the handlers) | `sharedGraph`, `lastMST`, `isGraphBusy`, locals of handlers that wait for their client | one per request: `init`, `add_vtx`, `add_edge`, `remove_edge`, `remove_vtx`, `change_weight`, `mst`, `metric`, `print_graph`, `menu`, `exit` | one worker per client; shares the graph under `isGraphBusy` |
| Lifecycle (`Server::run`, `shutdown`, `main.cpp`) | `serverSocket`, `shouldExit`, `globalServerPtr` | accept and enqueue; console `exit`; SIGINT/SIGTERM; destructors | main thread, console thread, signal handler; `sharedGraphMutex` |
| Output (`cout_mutex` in `Server.cpp`) | `cout_mutex`, `sharedGraphMutex`, the clients' receive buffers | logging, `sendResponse`, the busy reply | every session, the accept loop, `shutdown` |
| `Graph` (`src/common`) | adjacency list, `nextVertexId` | add, remove, change, count | only through sessions |
| `KruskalMST`, `PrimMST`, `MSTFactory`, `MSTMetrics` (`src/common`) | none between calls; arrays and queues of a call | `createMST`, `findMST`, four metrics | called by the `mst` and `metric` handlers |
| `Client`, `client_main.cpp` | socket, the last command, `std::cin` | send a request, collect replies for 100 ms, react to words in them, prompt | one session of the server |

What is hard in it:

- wake-ups: two condition variables, one of them notified from four places,
  with `notify_one` used where only a protocol in another mutex makes it enough;
- shutdown: three callers of `ThreadPool::exit`, an accept loop in the middle of
  three critical sections, workers waiting for clients, destructors;
- a hand-made lock, `isGraphBusy`, held over reads of the client and released
  on some twenty paths;
- two mutexes held during writes to a client that may not read;
- a dialogue without framing: the client knows a reply by 100 ms of silence and
  its kind by words in it; the server takes for a line what one `read` returns;
- a graph whose vertex numbers, vertex count and next number drift apart, and
  algorithms that index arrays with those numbers;
- partial failure: clients that leave at any point, numbers that do not parse.

Correctness, per component: the pool loses no task and no wake-up, runs each
task once and stops only when drained; sessions exclude each other, see an
unchanging graph during a command and always give it back; the graph stores
each edge in both directions; the algorithms return minimum spanning forests
and the metrics measure them; client and session mean the same request when
one asks and the other answers; the process uses the pool only while it runs,
and ends when told to.

## Modules

| Module | What it is |
|---|---|
| `TaskPool` | What a pool promises: FIFO start, once each, leave only when stopped and empty. Abstract. |
| `ThreadPool` | `src/utils/ThreadPool.cpp`, one action per critical section. `Pool == INSTANCE TaskPool` is the refinement. |
| `Graph` | `src/common/Graph.cpp` as operators on a record `[adjacencyList, nextVertexId]`. |
| `SpanningTrees` | What comes out of the two algorithms, without running them: which vertices, how many edges, or an index out of bounds. |
| `Sessions` | `handleClient` and the handlers of `src/server/Server.cpp`, on `Graph` and `SpanningTrees`. |
| `GrowingForest` | What an algorithm for minimum spanning trees does: add a lightest edge across a cut. Abstract. |
| `MST` | `KruskalMST.cpp`, `PrimMST.cpp`, `MSTFactory.cpp`, one step per loop iteration. `Forest == INSTANCE GrowingForest` is the refinement. |
| `MSTMetrics` | `MSTMetrics.cpp` as operators, with `int` overflow, on the trees `MST` finds. |
| `Lifecycle` | `run`, `shutdown`, `main.cpp`, composed with `TaskPool` (its actions are conjuncts of Lifecycle's). |
| `Output` | The two mutexes of `Server.cpp` and every thread that locks them. |
| `Protocol` | `Client` composed with one session over a network. |
| `ThreadPoolProofs`, `SessionsProofs`, `GraphProofs`, `LifecycleProofs`, `OutputProofs`, `MSTProofs`, `ProtocolProofs` | Theorems and proofs. |
| `Induction` | Induction over numbers and sequences as statements about sets, for the proofs. |
| `MCThreadPool`, `MCSessions`, `MCLifecycle`, `MCMST`, `MCOutput` | Constants, inputs and symmetry for TLC. |

A definition whose comment calls it a mutant of the one below it is a wrong
variant of the code: putting it in the other's place must make a property fail.
No specification uses them.

### ThreadPool and the code

`pc[w]` is where worker `w` is in `workerThread()`; a condition variable is the
set of workers whose `pc` says they sleep on it. A critical section that cannot
block is one action. The exception is the worker that sees `stop`: it calls
`promoteNewLeader()` inside `queueMutex`, so it keeps that mutex until then
(`QueueMutexFree`). Spurious wake-ups are steps, and no fairness makes them
happen. The pool's user is one thread: `Enqueue` requires that `exit()` has not
begun, which `Lifecycle` shows of the only caller (`NoEnqueueAfterStop`).

### Sessions and the code

A step runs from one place where a session can block or be overtaken to the
next: a `read()`, a critical section of `sharedGraphMutex`, or a handler's body
between the two. `cmd[c]` is a request: its name, and whether its arguments
parse; the numbers themselves are chosen when the handler uses them.
`peer[c]` is the client's end of the connection, which may close at any time,
possibly leaving one last line. A reply is a write that succeeds or, if the
client has left, may raise SIGPIPE. `process` records what brought the server
down; nothing happens after that. `local[c]` holds the locals that outlive a
`read()`. Arguments that `add_edge` and `remove_edge` read uninitialised may be
any number. Of the last MST the model keeps its vertices and length, which
decide every index the handlers use; they come from `SpanningTrees!Outcomes`.
`careless` is a history variable: has a request named a vertex that does not
exist, a loop, a negative number of vertices, or numbers that do not parse? It
separates what goes wrong by itself from what follows from odd input: the run
`find_out_of_bounds` and the theorem about `GraphIntact` are of clients that make
sense, `DirectionsKept` and `ContiguityKept` of all.

`Graph` was also compared with the compiled `Graph.cpp` on random call
sequences, loops included: removing a loop is undefined behaviour in the code,
and the model does what libstdc++ does.

### The algorithms and the code

`phase` is the loop `MST` is in. Kruskal's `parent[v]` is what `find(v)`
returns: path compression changes no root, and only roots are compared. The
sorted vector is a set whose lightest edge is next, for `sort` may order equal
weights in any way. Prim's queue is a set of pairs; an entry that a lighter one
has superseded stays in it and is skipped when it comes up. An index outside an
array ends the run as `outOfBounds`. Nothing interferes: the session that calls
`findMST` owns the graph (`CommandIsolated`).

`Sessions` does not run the algorithms; it takes from `SpanningTrees` what may
come out of them. `AgreesWithOutcomes` checks that summary against `MST`, also
on the inconsistent graphs that `remove_vtx`, `change_weight` and `add_vtx`
leave behind. The metrics are evaluated on each tree found; a sum that is not
an `int` sets `overflow`.

### Lifecycle and the code

`mainPc` is the main thread in `run()` and `main()`, `down[c]` each caller of
`ThreadPool::exit` (console, signal handler, the pool's destructor), with
`joinIndex[c]` its place in the join loop. A session is reduced to its loop,
its reads and its use of `sharedGraphMutex`. `MutexFree` says that nobody keeps
that mutex: the main thread does (`locked`) in its five critical sections, a
session does while it writes the busy reply. The main thread enters a section
in one step (`MainLocks`) and leaves it in another (`UnlockMutex`), so that a
signal can come between. A signal runs the handler on the main thread, whose
own steps end there, its mutex still held. `Signals` is `TRUE` for one signal;
later ones are not modelled, nor is one inside a critical section of
`ThreadPool`.

### Output and the code

`sendResponse` writes under `cout_mutex`, and `acquireGraphLock` sends the busy
reply under `sharedGraphMutex`, so one client that does not read can hold up
every other thread. `window[c]` says whether client `c` has room for a reply,
is full, or gone; a write waits while it is full. A critical section in which
nothing can block is one action; the two that can, the write and the busy
reply, record who holds the mutex. The commands are reduced to whether they
read again and when they release the graph. Here `console` may join once all
sessions are closed; the order of the joins is in `Lifecycle`.

### Protocol and the code

A line is a kind, by how the server takes it (`Lines`), a reply the words the
client looks for (`Texts`); replies written in one go that the client cannot
tell apart are one. Each carries whether the client has sent another line since
(`fresh`), which no program reads. `Joined` is what the server makes of lines
that one `read` returns together: for some commands the rest is lost, for
others the name is glued to it. `onTime` chooses the network: one whose silence
always means that the server has answered everything (`Quiescent`), or one where
100 ms may pass at any moment. `cin` fails for ever at a word where a number is
expected, after which every `getline` returns at once, and at the end of input:
if the last line has no line break, `getline` still returns it, and the next one
leaves it in place as the command.
A count of 0 stands for the negative ones too: the server does the same for
both. The session may be told that the graph is busy at any command.

## Runs

Bounds: `MaxRequests` counts the graph commands of all sessions, `MaxAnnounced`
the edges announced to `init`, `MaxLines` the lines all clients send (`Output`),
`MaxEdges` the edges a user announces and `MaxInFlight` the lines on their way to
the server (`Protocol`), `MaxInt` stands for `INT_MAX`; the rest are the sizes of
sets.

| Run | Instance | Shows |
|---|---|---|
| `pool` | 4 workers (as in the server), 3 tasks | exclusive leader, tasks accounted for, no stranded follower or leader, `exit` drains; `ThreadPool` implements `TaskPool`, with its fairness, even if tasks block for ever; if they end, `exit` returns and every task runs |
| `sessions_lock` | 2 clients, 2 vertices, 3 commands | the graph lock excludes, isolates, and keeps locals valid |
| `sessions_graph` | 1 client, 3 vertices, `init` with -1, 1 or 3, weights 1 and 2, 3 commands | after any requests, odd ones included, edges stay in the lists of both their ends and the numbers 0..n-1, except through the steps that `DirectionsKept` and `ContiguityKept` name |
| `sessions_live` | 2 clients, 2 commands | the lock is given back, sessions end after shutdown |
| `lifecycle` | 2 workers, 3 clients, 1 signal | no enqueue after stop, destruction after the last worker, no two joins at once, a console shutdown completes |
| `mst` | 1446 graphs of up to 4 vertices, `MaxInt` 20 | both algorithms implement `GrowingForest`, return, and return a minimum spanning forest; `Sessions`' summary of them is right; metrics of moderate trees are exact |
| `protocol` | 2 edges, 2 lines in flight | on a network in time replies match requests and questions what the server waits for; on any network the graph is given back |
| `output` | 2 clients, 3 lines | `cout_mutex` is innermost, no mutex is kept for ever, `shutdown` ends |

Why these are enough to meet the interesting cases. With four workers and three
tasks several followers sleep while others run, one overtakes the one that was
notified, and the queue holds more than one task. Two sessions are all that
exclusion needs; three commands let a second session enter every gap of a
first. Three commands build a graph (`init` reads an edge, too) and change it
twice, which meets every exception of both properties: without any one of them
TLC finds the property violated. With two workers and three clients one session
waits in the queue when shutdown begins.

The graphs of `mst` are all those of four vertices with weights 1 to 3, each at
most twice and 3 only in complete ones (`Simple`); those of three vertices with
up to three edges, loops, parallel edges and the weights -1 and `MaxInt` among
them (`Odd`); what `remove_vtx` leaves of the first (`Renumbering`), and what a
later `add_vtx` can make of that (`Overwritten`): lists for vertices that are
none, edges stored once. Four vertices are the fewest on which Kruskal's forest
has two trees to join and Prim's keys improve twice, and ties decide between
several minimum trees. `MaxInt` is 20 so that most trees, of weight 3 to 5,
are moderate and some overflow.

In `protocol` two edges give `init` a first, a middle state and a last one, and
two lines in flight are two lines in one read, or one that overtakes a late
reply. In `output` three lines let one client own the graph, the other be told
that it is busy without reading that, and one more write wait behind it.

Symmetry is used in `sessions_lock` only, which has no liveness. Deadlock is
checked in `pool`; elsewhere the models stop by design: all requests spent, the
algorithm, the process or the dialogue ended.

### Divergences from the documentation

Each run checks one promise and finds it broken.

| Run | Promise | What the code does |
|---|---|---|
| `find_sigpipe` | a disconnected client ends its session (readme.md:176) | a write to it kills the server (Server.cpp:818) |
| `find_out_of_bounds` | metrics of the MST (readme.md:106) | vertex numbers beyond the arrays (MSTMetrics.cpp:131) |
| `find_signal` | the handler shuts down, then exits (readme.md:314) | may lock a mutex that its own thread holds in `run` (main.cpp:15) |
| `find_late_reply` | delayed responses are handled gracefully (readme.md:153) | a reply after 100 ms of silence is taken for the next one (Client.cpp:189) |

Further behaviour of the code that the models contain and no such run is about:

- `remove_vtx` removes all isolated vertices with the one it names (Graph.cpp:92);
- `add_vtx` announces the number of vertices as the index of the new one
  (Server.cpp:388-389), which it is not after `remove_vtx`;
- `add_vtx` with a number beyond `int` terminates the server (Server.cpp:413, 442);
- `init` takes a negative number of vertices (Server.cpp:297);
- `mst` on a graph whose MST is empty reads `mst[0]` (Server.cpp:696);
- `change_weight` adds the numbers it is given as vertices (Graph.cpp:106), and a
  later `add_vtx` may empty the list of one of them (Graph.cpp:38);
- removing a loop duplicates other edges of its vertex (Graph.cpp:61), as far as
  it is defined;
- `add_edge` and `remove_edge` use uninitialised numbers (Server.cpp:482, 525);
- an edge of weight `INT_MAX` is none to Prim's algorithm (PrimMST.cpp:48);
- the metrics' sums overflow for large weights (MSTMetrics.cpp:44);
- a signal while main destroys the server uses it through a dangling
  `globalServerPtr` (main.cpp:63), and one during the console's shutdown joins a
  thread that is being joined (ThreadPool.cpp:126);
- a client without edges to add goes back to its prompt while the server waits
  for their number, and takes the next command for it (Client.cpp:97);
- at the end of its input the client repeats its last command (client_main.cpp:25).

## Fairness

- `ThreadPool`: weak fairness of each worker's own steps and of the rest of
  `exit()`: runnable threads are scheduled. Not of enqueueing, of spurious
  wake-ups, nor of tasks ending: `ExitReturns` and `EveryTaskRuns` have that as
  a premise (`TasksEnd`).
- `Sessions`: weak fairness of each session. A session at a `read()` can only
  go on when its client sends a line or closes, so this assumes that clients
  do; the code has no timeout, and without the assumption a silent client
  keeps the graph for ever.
- `Lifecycle`: weak fairness of the main thread, of shutdown once begun, of the
  workers and their sessions (with the same assumption on clients). Not of the
  console command, of signals or of new connections. Weak fairness is enough
  for `sharedGraphMutex`, for after `shouldExit` sessions stop competing for it.
- `Output`: weak fairness of each session, of the main thread, of a shutdown
  once begun, and of each client: one that is sent more than it has room for
  reads or leaves in the end. The code does not enforce that, and one client
  that does neither blocks every session, the accept loop and `shutdown`. The
  lines are bounded, so no session can overtake another for ever.
- `MST`: weak fairness of `Next`: one thread runs the loops.
- `Protocol`: weak fairness of the client and of the session. The user answers
  every question, if only by the end of the input.

## Proofs

Assumptions: `PoolAssumption`, `SessionsAssumption`, `LifecycleAssumption`,
`OutputAssumption`, `ProtocolAssumption`, `MaxIntAssumption`, all about constants
and checked by TLC on each instance. The theorems of `MSTProofs` assume besides
that every input lists each edge at both its ends (`Mirrored`). `Listed` in `MCMST`
checks that the inputs `Simple`, `Odd` and `Small` do, and
`AlgorithmsGetMirrored` proves it of the graph the sessions keep while requests
make sense.

**ThreadPool.** Typing is strengthened by which labels hold a task
(`TypeInv`). `LeaderExclusive` is inductive on it: the leader's labels are
exactly `currentLeader`'s. `NoStrandedFollower` and `NoStrandedLeader` follow
in turn: at most one thread waits on `condition`, so waking one is waking all.
`TasksAccounted` is inductive by itself. `ExitDrains` needs to know that a
worker that returns has seen the flag and an empty queue, and that no task comes
after the flag. `PoolRefines` maps every step to a step of `TaskPool` or to a
stutter.

**Sessions.** `LockHeldByOne` is inductive; every handler step is summarised by
one lemma (`CommandStepEffect`: it keeps the lock and stays inside the command)
and every other session step by another (`OutsideCommandEffect`).
`CommandIsolated` follows: a step of another session outside a command changes
no data, and no other is inside one. `LocalsFresh` and `ContiguityKept` are about
what the graph is, so they need `GraphProofs`: what each operation of `Graph`
does to the set of vertices. `LocalsInv` adds to the lock that this set is
finite, that no vertex reaches the next number while requests have been
sensible, and what each handler's locals say of it. A handler that waits keeps
the lock, so no other session can falsify that. `ContiguityKept` needs no more
than these sets: it holds of any requests.

`DirectionsKept` is about what is in the lists. A graph whose lists hold edges of
their vertex only stores every edge twice exactly if it is `Symmetric`
(`SymmetricStoredTwice`, `StoredTwiceSymmetric`): the lists of any two vertices hold the same weights for
each other, in one order, and a loop is twice in the one list. Each operation of
`Graph` keeps that, loops included, which is an induction over the lists it
filters and copies; only the removal of a loop does not, and `addVertex`, when it
empties a list in use. The prover cannot instantiate a theorem with a predicate,
so `Induction` says it with sets: a set that has the empty sequence and, with a
sequence, all its extensions by one element, has all sequences. `GraphIntact`
follows, for clients whose requests make sense: they name no loop, and new numbers
are then fresh. No run checks it; the theorem gives `AlgorithmsGetMirrored`.

`TypeOK` holds after odd requests, too: every operation keeps the lists lists of
edges whatever its arguments (`ListsTyped`), `init` waits for an edge only while
its count is positive, and a forest has a length because a vertex of each tree
names the tree, so there are no more trees than vertices.

**Lifecycle.** `SocketInv` says that the socket is closed before any caller
stops the pool, and open and `sharedGraphMutex` locked while `run()` holds an
accepted connection; this gives `NoEnqueueAfterStop`. `PoolInv` says what a worker that has left implies
(stopped, nothing pending) and where a submitted session can be; it needs
`SocketInv`, for nothing may be submitted after a worker has left. `JoinInv`
says that a join loop has seen every worker it passed leave. Together they give
`DestroyedAfterWorkers`; and as the destructor runs only after the console
thread has been joined, `OneJoinAtATime`.
`LifecycleUsesPool` says that for the pool every step of the process is one of
`TaskPool`, or none, so what `ThreadPool` is shown to implement is what it uses.

**Output.** `TypeOK` is inductive because it says who holds each mutex at which
label. `CoutInnermost` adds that only sessions ever hold one between steps.

**MST.** For each edge an algorithm adds, the proof names the cut: for Kruskal
the union-find set of the edge's source; for Prim the vertices visited. `KruskalInv`
says that both ends of an edge taken from the sorted vector, added or not, are in
one set, so what crosses the cut is still to come, and no lighter. `PrimInv` says
that an edge of a visited vertex leads to a visited one or is no lighter than the
key of its other end (`ScanInv`), and that a key is the weight of an edge from a
visited vertex and is in the queue (`ParentsInv`), so the top of the queue is
lightest. `TypeOK` follows from `ParentsInv`, which says that the edges the result
is made of are the graph's.

That a forest grown so is a minimum one is the cut property, a theorem about
graphs (`CutProperty`). Edges are `Optimal` if every set of edges that connects
what the graph connects can be turned into one that has them, with as many edges
and no heavier. An edge that is lightest across a cut which they do not cross can
be added: in the least part of the other set that still connects its ends some
edge crosses the cut, and it takes that one's place (`Exchange`). So each step keeps
`MinimalInv`: what has been taken so far is `Optimal`, as many edges as the result
has, and of its weight. This needs a theory of the operators it is stated in:
`Component` (the vertices connected with one: the least set that edges do not
leave, which `Tree` of `SpanningTrees` chooses), and `WeightOf`, which takes the
elements of a set in an order that only `CHOOSE` knows (`WeightOfAdd`).

At the end the result must connect everything, which is what the two loops stop
for. `PrimGrowth` says that the visited vertices are those that the result's edges
connect with vertex 0, and that what waits in the queue has been reached over
edges lighter than the initial key. `KruskalGrowth` says that two vertices are in
one union-find set exactly if the result's edges connect them, and that there are
as many sets as vertices less edges: so `getVertices() - 1` edges leave one set.
`MinimumWhenDoneCorrect` combines these, and `AgreesWithOutcomesCorrect` counts: a
forest has as many edges as its trees have vertices, less one for each
(`ForestOf`), and Kruskal leaves its array at the lightest edge that leads outside,
unless lighter ones make one tree of all.

**MSTMetrics.** `MetricsExact` is about one state, but needs three theories.
First, paths in trees (`GraphProofs`): the path between two vertices consists of the
edges whose removal disconnects them, so an edge is on it if the two are on
different sides of the edge (`PathSides`), and of any two edges one side of each
lies within a side of the other (`SidesNested`). A detour over a third vertex is
never lighter, and exactly as heavy when it is `Inside` the path (`DistDetour`); a
path with nothing inside is an edge. Second, Floyd and Warshall's loops: `Exact` says what the
matrix holds after m rounds: the distance of two vertices if the loops have
passed all that is inside their path (`Passed`), nothing if not, and on the
diagonal at most twice the weight of the tree. `RelaxExact` shows that a round
keeps it, and that what it adds is at most four times that weight: that is where
`Moderate` comes from. Third, the recursive functions the model computes with,
which `Induction` shows to exist (`Iterates`, `FoldExists`), so that the rounds and
the folds over the edges can be followed one by one.

The result is a tree of all vertices when it has an edge less than there are:
it never has a cycle, because an edge joins two sides of a cut that the others do
not cross (`LongInv`), and `PrimGrowth` or `KruskalGrowth` says that it reaches
everything (`ResultIsTree`). `MaxIntAssumption` says that `MaxInt`, the code's
`numeric_limits<int>::max()`, is positive; with 0 the mark for "no distance" would be
the distance of two vertices that an edge of weight 0 joins.

**Protocol.** `ReplyMatches` needs that, on a network in time, nothing under way
is stale (`OnlyFresh`) and that the client asks its user only in quiet
(`AsksInQuiet`): then a new line makes nothing stale. `InStep` needs more: at
most one line or answer is under way (`OneAtATime`), the words on their way or
heard tell the state the session is in (`WordsTellState`, `CommandAnswered`), and
both programs count the same edges at every point of an exchange (`CountsAgree`).
`TypeOK` needs what the loops of both programs know: the client asks for an edge
only while some remain, and the session is in its loop exactly while it expects one.

Only model-checked:

- all liveness (`PoolSpec`'s fairness, `ExitReturns`, `EveryTaskRuns`,
  `LockReleased`, `SessionsEnd`, `ShutdownCompletes`, `FindMSTReturns`,
  `GraphGivenBack`, `MutexesReleased`, `ShutdownReturns`), which the prover does
  not treat.

## Not modelled

- Half a line: a line or a reply is never cut in pieces by the network.
- What is only text: `toString`, `printGraph`, the menu, the wording of replies.
- Failures of `socket`, `bind`, `listen`, `inet_pton` and `connect`, which end a
  program before it talks to anybody.
- Signals after the first, and a signal delivered to another thread than main.
- Tests, build files, generated coverage and valgrind reports.

## Plan

Every invariant and action property that a passing run checks is proved, of
`PoolSpec` the safety part. What could still be added: `Protocol` with two clients,
so that the reply that the graph is busy is followed from the session that
holds the lock to the client that shows it.
