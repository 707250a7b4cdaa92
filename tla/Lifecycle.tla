----------------------------- MODULE Lifecycle ------------------------------
(***************************************************************************)
(* The server process of src/src/main.cpp and src/src/server/Server.cpp:   *)
(* the accept loop of Server::run on the main thread, the console thread,  *)
(* the signal handler, Server::shutdown, and the end of main.  The workers *)
(* are those of TaskPool, what ThreadPool is shown to implement; a task is *)
(* the session of one accepted connection.                                 *)
(*                                                                         *)
(* Granularity.  A critical section of sharedGraphMutex is one action,     *)
(* unless something in it can block or be interrupted.  The main thread    *)
(* may be interrupted by a signal in any of its sections, so it gives the  *)
(* mutex back in a step of its own; a session that is told the graph is    *)
(* busy keeps the mutex while it writes that reply.                        *)
(***************************************************************************)
EXTENDS Integers, Sequences

CONSTANTS
  PoolSize,      \* the pool's threads, 4 in Server's constructor
  Connections,   \* the clients that may connect
  NoConnection,  \* a worker that runs no session
  Signals        \* may SIGINT or SIGTERM arrive? once, on the main thread

ASSUME LifecycleAssumption ==
  /\ PoolSize \in Nat \ {0}
  /\ NoConnection \notin Connections
  /\ Signals \in BOOLEAN

Workers == 1..PoolSize

\* Who calls ThreadPool::exit(): the console thread and the signal handler,
\* both through Server::shutdown(), and the destructor of the pool.
Callers == {"console", "handler", "destructor"}

VARIABLES
  pending, submitted, running, finished, stopped, gone,   \* see TaskPool
  backlog,     \* connections the kernel holds for accept()
  socketOpen,  \* serverSocket # -1
  shouldExit,
  mainPc,      \* where the main thread is, when no handler runs on it
  watched,     \* run(): was the socket open when `maxfd` was computed?
  accepted,    \* run(): clientSocket
  locked,      \* the main thread's lock_guard holds sharedGraphMutex
  session,     \* where each session is
  down,        \* where each caller is in shutdown() and exit()
  joinIndex,   \* the worker each caller's join loop is at
  joined,      \* workers whose std::thread is no longer joinable
  process      \* "up", "exited", or what brought it down

Pool == INSTANCE TaskPool WITH Tasks <- Connections, NoTask <- NoConnection

poolVars == <<pending, submitted, running, finished, stopped, gone>>
runVars == <<mainPc, watched, accepted, locked>>
downVars == <<down, joinIndex, joined>>
vars ==
  <<poolVars, backlog, socketOpen, shouldExit, runVars, session, downVars,
    process>>

MainPc ==
  {"test",       \* about to test shouldExit
   "watch",      \* about to put serverSocket into readfds
   "measure",    \* about to read it once more, for maxfd
   "select",     \* in select()
   "accept",     \* select() found something: about to lock and accept
   "enqueue",    \* has accepted, in the same section
   "close",      \* has left the loop
   "join",       \* in inputThread.join()
   "destroy",    \* in the destructor of Server, or its members'
   "destroyed",  \* about to reset globalServerPtr
   "returned"}

DownPc == {"idle", "close", "stop", "join", "joining", "done"}

SessionPc == {"none", "loop", "read", "acquire", "busyReply"}

Init ==
  /\ Pool!Init
  /\ backlog = {}
  /\ socketOpen = TRUE
  /\ shouldExit = FALSE
  /\ mainPc = "test" /\ watched = FALSE /\ accepted = NoConnection /\ locked = FALSE
  /\ session = [t \in Connections |-> "none"]
  /\ down = [c \in Callers |-> "idle"]
  /\ joinIndex = [c \in Callers |-> 1]
  /\ joined = {}
  /\ process = "up"

MutexFree ==
  /\ ~locked
  /\ \A t \in Connections : session[t] # "busyReply"

-----------------------------------------------------------------------------
(***************************************************************************)
(* Clients and their sessions.                                             *)
(***************************************************************************)
Connect(t) ==
  /\ socketOpen
  /\ t \notin backlog \cup submitted \cup {accepted}
  /\ backlog' = backlog \cup {t}
  /\ UNCHANGED <<poolVars, socketOpen, shouldExit, runVars, session, downVars, process>>

InSession(w, label) == running[w] # NoConnection /\ session[running[w]] = label

SessionGoes(w, label) ==
  /\ session' = [session EXCEPT ![running[w]] = label]
  /\ UNCHANGED poolVars

HandleClient(w) ==
  /\ Pool!Start(w)
  /\ session' = [session EXCEPT ![Head(pending)] = "loop"]

TestExit(w) ==
  /\ InSession(w, "loop")
  /\ \/ ~shouldExit /\ SessionGoes(w, "read")
     \/ shouldExit /\ Pool!Finish(w) /\ UNCHANGED session

\* The client sends something, or has closed its end.
ReadRequest(w) ==
  /\ InSession(w, "read")
  /\ \/ SessionGoes(w, "loop")          \* an empty or an unknown request
     \/ SessionGoes(w, "acquire")
     \/ Pool!Finish(w) /\ UNCHANGED session

\* If the graph is free the command runs without the mutex, see Sessions.
AcquireGraphLock(w) ==
  /\ InSession(w, "acquire")
  /\ MutexFree
  /\ SessionGoes(w, "loop") \/ SessionGoes(w, "busyReply")

WriteBusyReply(w) ==
  /\ InSession(w, "busyReply")
  /\ SessionGoes(w, "loop")

SessionStep(w) ==
  /\ TestExit(w) \/ ReadRequest(w) \/ AcquireGraphLock(w) \/ WriteBusyReply(w)
  /\ UNCHANGED <<backlog, socketOpen, shouldExit, runVars, downVars, process>>

WorkerStarts ==
  /\ \E w \in Workers : HandleClient(w)
  /\ UNCHANGED <<backlog, socketOpen, shouldExit, runVars, downVars, process>>

WorkerLeaves(w) ==
  /\ Pool!Leave(w)
  /\ UNCHANGED <<backlog, socketOpen, shouldExit, runVars, session, downVars, process>>

-----------------------------------------------------------------------------
(***************************************************************************)
(* Server::shutdown() and ThreadPool::exit().                              *)
(***************************************************************************)
DownGoes(c, label) == down' = [down EXCEPT ![c] = label]

\* Mutant of SetShouldExit: forgets the flag.
SetNothing(c) ==
  /\ DownGoes(c, "close")
  /\ UNCHANGED <<poolVars, backlog, socketOpen, shouldExit, runVars, session,
                 joinIndex, joined>>

SetShouldExit(c) ==
  /\ shouldExit' = TRUE
  /\ DownGoes(c, "close")
  /\ UNCHANGED <<poolVars, backlog, socketOpen, runVars, session, joinIndex, joined>>

\* Mutant of CloseSocket: does not lock sharedGraphMutex.
CloseSocketUnlocked(c) ==
  /\ down[c] = "close"
  /\ socketOpen' = FALSE
  /\ backlog' = {}
  /\ DownGoes(c, "stop")
  /\ UNCHANGED <<poolVars, shouldExit, runVars, session, joinIndex, joined, process>>

\* What is still in the backlog is reset by the kernel.
CloseSocket(c) ==
  /\ down[c] = "close"
  /\ MutexFree
  /\ socketOpen' = FALSE
  /\ backlog' = {}
  /\ DownGoes(c, "stop")
  /\ UNCHANGED <<poolVars, shouldExit, runVars, session, joinIndex, joined, process>>

StopPool(c) ==
  /\ down[c] = "stop"
  /\ Pool!Stop
  /\ DownGoes(c, "join")
  /\ UNCHANGED <<backlog, socketOpen, shouldExit, runVars, session, joinIndex, joined, process>>

\* if (worker.joinable()) worker.join(): to join a thread that another thread
\* is joining fails with an exception that nothing catches.
JoinWorker(c) ==
  /\ down[c] = "join"
  /\ joinIndex[c] \in Workers
  /\ \/ /\ joinIndex[c] \in joined
        /\ joinIndex' = [joinIndex EXCEPT ![c] = @ + 1]
        /\ UNCHANGED <<down, process>>
     \/ /\ joinIndex[c] \notin joined
        /\ \/ /\ \E d \in Callers : down[d] = "joining" /\ joinIndex[d] = joinIndex[c]
              /\ process' = "terminate"
              /\ UNCHANGED down
           \/ /\ ~\E d \in Callers : down[d] = "joining" /\ joinIndex[d] = joinIndex[c]
              /\ DownGoes(c, "joining")
              /\ UNCHANGED process
        /\ UNCHANGED joinIndex
  /\ UNCHANGED <<poolVars, backlog, socketOpen, shouldExit, runVars, session, joined>>

JoinReturns(c) ==
  /\ down[c] = "joining"
  /\ joinIndex[c] \in gone
  /\ joined' = joined \cup {joinIndex[c]}
  /\ joinIndex' = [joinIndex EXCEPT ![c] = @ + 1]
  /\ DownGoes(c, "join")
  /\ UNCHANGED <<poolVars, backlog, socketOpen, shouldExit, runVars, session, process>>

\* The join loop is over.  After shutdown() the handler calls std::exit, the
\* console thread ends; the destructor returns to main.
ExitReturns(c) ==
  /\ down[c] = "join"
  /\ joinIndex[c] > PoolSize
  /\ DownGoes(c, "done")
  /\ process' = IF c = "handler" THEN "exited" ELSE process
  /\ mainPc' = IF c = "destructor" THEN "destroyed" ELSE mainPc
  /\ UNCHANGED <<poolVars, backlog, socketOpen, shouldExit, watched, accepted, locked,
                 session, joinIndex, joined>>

DownStep(c) ==
  CloseSocket(c) \/ StopPool(c) \/ JoinWorker(c) \/ JoinReturns(c) \/ ExitReturns(c)

\* The operator types `exit`; on any other line, and at the end of the input,
\* the console thread calls getline again.
ConsoleExit ==
  /\ down["console"] = "idle"
  /\ SetShouldExit("console")
  /\ UNCHANGED process

HandlerRuns == down["handler"] # "idle"

\* A signal is handled on the main thread, wherever that is.  Until main has
\* reset globalServerPtr the handler uses the server through it.
Signal ==
  /\ Signals
  /\ ~HandlerRuns
  /\ mainPc # "returned"
  /\ process' = IF mainPc \in {"destroy", "destroyed"} THEN "dangling" ELSE process
  /\ SetShouldExit("handler")

-----------------------------------------------------------------------------
(***************************************************************************)
(* Server::run() and the end of main().                                    *)
(***************************************************************************)
MainSets(label) ==
  /\ mainPc' = label
  /\ UNCHANGED <<poolVars, shouldExit, session, downVars, process>>

MainGoes(label) == MainSets(label) /\ UNCHANGED locked

\* Enters a section and does what it does.  A signal before that is, for the
\* other threads, one after it.
MainLocks(label) ==
  /\ MutexFree
  /\ locked' = TRUE
  /\ MainSets(label)

\* The end of a section's scope; the one of Accept holds the enqueue too.
UnlockMutex ==
  /\ locked
  /\ mainPc # "enqueue"
  /\ locked' = FALSE
  /\ MainSets(mainPc)
  /\ UNCHANGED <<backlog, socketOpen, watched, accepted>>

TestShouldExit ==
  /\ mainPc = "test"
  /\ MainGoes(IF shouldExit THEN "close" ELSE "watch")
  /\ UNCHANGED <<backlog, socketOpen, watched, accepted>>

WatchSocket ==
  /\ mainPc = "watch"
  /\ MainLocks(IF socketOpen THEN "measure" ELSE "close")
  /\ UNCHANGED <<backlog, socketOpen, watched, accepted>>

\* With maxfd = -1 select() looks at no descriptor and times out.
MeasureMaxfd ==
  /\ mainPc = "measure"
  /\ watched' = socketOpen
  /\ MainLocks("select")
  /\ UNCHANGED <<backlog, socketOpen, accepted>>

\* If shutdown() closes the socket meanwhile, select() fails, times out, or
\* has seen a connection before.
Select ==
  /\ mainPc = "select"
  /\ \/ watched /\ (backlog # {} \/ ~socketOpen) /\ MainGoes("accept")
     \/ ~(watched /\ backlog # {}) /\ MainGoes("test")
     \/ watched /\ ~socketOpen /\ MainGoes("close")
  /\ UNCHANGED <<backlog, socketOpen, watched, accepted>>

\* Mutant of Accept: enqueues whatever accept() returns.
AcceptUnchecked ==
  /\ mainPc = "accept"
  /\ socketOpen
  /\ MainLocks("enqueue")
  /\ UNCHANGED <<backlog, accepted, socketOpen, watched>>

\* Without a connection: accept() fails, and the loop goes on if it was only
\* interrupted.  On a closed socket FD_ISSET(-1, ...), which is undefined,
\* finds nothing, or accept(-1) fails.
Accept ==
  /\ mainPc = "accept"
  /\ \/ /\ socketOpen
        /\ \E t \in backlog : accepted' = t /\ backlog' = backlog \ {t}
        /\ MainLocks("enqueue")
     \/ /\ MainLocks("test") \/ MainLocks("close")
        /\ UNCHANGED <<backlog, accepted>>
  /\ UNCHANGED <<socketOpen, watched>>

EnqueueSession ==
  /\ mainPc = "enqueue"
  /\ Pool!Submit(accepted)
  /\ mainPc' = "test"
  /\ accepted' = NoConnection
  /\ UNCHANGED <<backlog, socketOpen, shouldExit, watched, locked, session, downVars, process>>

LeaveRun ==
  /\ mainPc = "close"
  /\ socketOpen' = FALSE
  /\ backlog' = {}
  /\ MainLocks("join")
  /\ UNCHANGED <<watched, accepted>>

\* Mutant of JoinConsole: does not wait for the console thread.
DetachConsole ==
  /\ mainPc = "join"
  /\ MainGoes("destroy")
  /\ UNCHANGED <<backlog, socketOpen, watched, accepted>>

JoinConsole ==
  /\ mainPc = "join"
  /\ down["console"] = "done"
  /\ MainGoes("destroy")
  /\ UNCHANGED <<backlog, socketOpen, watched, accepted>>

\* ~ThreadPool() calls exit(), after ~Server() and most members are done.
DestroyPool ==
  /\ mainPc = "destroy"
  /\ down["destructor"] = "idle"
  /\ DownGoes("destructor", "stop")
  /\ UNCHANGED <<poolVars, backlog, socketOpen, shouldExit, runVars, session,
                 joinIndex, joined, process>>

ResetServerPtr ==
  /\ mainPc = "destroyed"
  /\ MainGoes("returned")
  /\ UNCHANGED <<backlog, socketOpen, watched, accepted>>

MainStep ==
  /\ ~HandlerRuns
  /\ \/ EnqueueSession \/ UnlockMutex
     \/ /\ ~locked
        /\ \/ TestShouldExit \/ WatchSocket \/ MeasureMaxfd \/ Select \/ Accept \/ LeaveRun
           \/ JoinConsole \/ DestroyPool \/ DownStep("destructor") \/ ResetServerPtr

-----------------------------------------------------------------------------
Next ==
  /\ process = "up"
  /\ \/ MainStep
     \/ ConsoleExit \/ Signal
     \/ DownStep("console") \/ DownStep("handler")
     \/ WorkerStarts
     \/ \E w \in Workers : SessionStep(w) \/ WorkerLeaves(w)
     \/ \E t \in Connections : Connect(t)

SafeSpec == Init /\ [][Next]_vars

(***************************************************************************)
(* Every thread that can go on does, and a client the server waits for     *)
(* sends something, reads its reply, or leaves.  Neither the operator nor  *)
(* a signal need ever come.                                                *)
(***************************************************************************)
Spec ==
  /\ SafeSpec
  /\ WF_vars(MainStep)
  /\ WF_vars(DownStep("console"))
  /\ WF_vars(DownStep("handler"))
  /\ WF_vars(WorkerStarts)
  /\ \A w \in Workers : WF_vars(SessionStep(w)) /\ WF_vars(WorkerLeaves(w))

-----------------------------------------------------------------------------
TypeOK ==
  /\ pending \in Seq(Connections)
  /\ submitted \subseteq Connections
  /\ running \in [Workers -> Connections \cup {NoConnection}]
  /\ finished \subseteq Connections
  /\ stopped \in BOOLEAN
  /\ gone \subseteq Workers
  /\ backlog \subseteq Connections
  /\ socketOpen \in BOOLEAN
  /\ shouldExit \in BOOLEAN
  /\ mainPc \in MainPc
  /\ watched \in BOOLEAN
  /\ accepted \in Connections \cup {NoConnection}
  /\ locked \in BOOLEAN
  /\ session \in [Connections -> SessionPc]
  /\ down \in [Callers -> DownPc]
  /\ joinIndex \in [Callers -> 1..PoolSize + 1]
  /\ joined \subseteq Workers
  /\ process \in {"up", "exited", "terminate", "dangling"}

\* An accepted connection is never handed to a pool that has been stopped,
\* which would strand it: run() accepts and enqueues in one critical section,
\* on a socket that shutdown() closes under the same mutex before exit().
NoEnqueueAfterStop == mainPc = "enqueue" => ~stopped

\* When the server begins to be destroyed every worker has left, so no session
\* uses its mutexes or its graph any more, and every session has been served.
DestroyedAfterWorkers ==
  mainPc \in {"destroy", "destroyed", "returned"} =>
    gone = Workers /\ finished = submitted

\* No worker is joined by two threads at once, which would end the process:
\* the destructor's exit() comes after the console's.  Only the handler of a
\* signal breaks it, for it may interrupt main while the console joins.
OneJoinAtATime ==
  \/ HandlerRuns
  \/ /\ process # "terminate"
     /\ \A c, d \in Callers : down[c] = "joining" /\ down[d] = "joining" => c = d

\* Once the operator types `exit`, main returns, unless a signal interferes.
ShutdownCompletes == down["console"] # "idle" ~> mainPc = "returned" \/ HandlerRuns

(***************************************************************************)
(* Promises of the documentation that the code does not keep.              *)
(***************************************************************************)
\* The handler calls shutdown() "to gracefully shut it down before exiting the
\* program": once a signal is handled, the process ends.
SignalEndsProcess == HandlerRuns ~> process # "up"
=============================================================================
