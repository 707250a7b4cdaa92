-------------------------- MODULE LifecycleProofs ---------------------------
(***************************************************************************)
(* For any number of workers and connections, with signals or without: the *)
(* accept loop never uses a stopped pool, and main destroys a server only  *)
(* after its last worker has left and its last session has been served.    *)
(***************************************************************************)
EXTENDS Lifecycle, TLAPS

\* The main thread's own steps, outside exit().
RunStep ==
  \/ TestShouldExit \/ WatchSocket \/ MeasureMaxfd \/ Select
  \/ Accept \/ EnqueueSession \/ UnlockMutex \/ LeaveRun
  \/ JoinConsole \/ DestroyPool \/ ResetServerPtr

\* Who takes a step, without the conditions on when.
LEMMA NextCases ==
  ASSUME [Next]_vars
  PROVE  \/ RunStep
         \/ ConsoleExit
         \/ Signal
         \/ \E c \in Callers : DownStep(c)
         \/ WorkerStarts
         \/ \E w \in Workers : SessionStep(w) \/ WorkerLeaves(w)
         \/ \E t \in Connections : Connect(t)
         \/ UNCHANGED vars
<1>1. {"console", "handler", "destructor"} \subseteq Callers
  BY DEF Callers
<1> QED BY <1>1 DEF Next, MainStep, RunStep

-----------------------------------------------------------------------------
(***************************************************************************)
(* Typing: run() enqueues a connection, never an unset clientSocket.       *)
(***************************************************************************)
TypeInv ==
  /\ TypeOK
  /\ mainPc = "enqueue" => accepted \in Connections

LEMMA TypeInvInit == Init => TypeInv
<1> SUFFICES ASSUME Init PROVE TypeInv
  OBVIOUS
<1>1. pending \in Seq(Connections)
  BY DEF Init, Pool!Init
<1>2. joinIndex \in [Callers -> 1..PoolSize + 1]
  BY LifecycleAssumption DEF Init
<1> QED BY <1>1, <1>2 DEF Init, Pool!Init, TypeInv, TypeOK, MainPc, DownPc, SessionPc

LEMMA TypeInvStep == TypeInv /\ [Next]_vars => TypeInv'
<1> SUFFICES ASSUME TypeInv, [Next]_vars PROVE TypeInv'
  OBVIOUS
<1> USE DEF TypeInv, TypeOK, poolVars, runVars, downVars
<1>1. ASSUME RunStep PROVE TypeInv'
  <2>1. CASE TestShouldExit \/ WatchSocket \/ MeasureMaxfd \/ Select
    BY <2>1
    DEF TestShouldExit, WatchSocket, MeasureMaxfd, Select, MainSets, MainGoes, MainLocks, MainPc
  <2>2. CASE Accept
    BY <2>2 DEF Accept, MainSets, MainGoes, MainLocks, MainPc
  <2>3. CASE EnqueueSession
    BY <2>3 DEF EnqueueSession, Pool!Submit, MainPc
  <2>4. CASE UnlockMutex \/ LeaveRun \/ JoinConsole \/ ResetServerPtr
    BY <2>4
    DEF UnlockMutex, LeaveRun, JoinConsole, ResetServerPtr, MainSets, MainGoes, MainLocks, MainPc
  <2>5. CASE DestroyPool
    BY <2>5 DEF DestroyPool, DownGoes, DownPc
  <2> QED BY <1>1, <2>1, <2>2, <2>3, <2>4, <2>5 DEF RunStep
<1>2. ASSUME ConsoleExit \/ Signal PROVE TypeInv'
  BY <1>2 DEF ConsoleExit, Signal, SetShouldExit, DownGoes, DownPc
<1>3. ASSUME NEW c \in Callers, DownStep(c) PROVE TypeInv'
  <2>1. CASE CloseSocket(c) \/ StopPool(c)
    BY <2>1 DEF CloseSocket, StopPool, Pool!Stop, DownGoes, DownPc
  <2>2. CASE JoinWorker(c) \/ JoinReturns(c)
    <3>1. joinIndex[c] \in Workers
      BY <2>2 DEF JoinWorker, JoinReturns
    <3>2. joinIndex[c] + 1 \in 1..PoolSize + 1
      BY <3>1, LifecycleAssumption DEF Workers
    <3> QED BY <2>2, <3>1, <3>2 DEF JoinWorker, JoinReturns, DownGoes, DownPc
  <2>3. CASE ExitReturns(c)
    BY <2>3 DEF ExitReturns, DownGoes, DownPc, MainPc
  <2> QED BY <1>3, <2>1, <2>2, <2>3 DEF DownStep
<1>4. ASSUME NEW w \in Workers, HandleClient(w), WorkerStarts PROVE TypeInv'
  <2>1. Head(pending) \in Connections /\ Tail(pending) \in Seq(Connections)
    BY <1>4 DEF HandleClient, Pool!Start
  <2> QED BY <1>4, <2>1 DEF WorkerStarts, HandleClient, Pool!Start, SessionPc
<1>5. ASSUME NEW w \in Workers, SessionStep(w) PROVE TypeInv'
  <2>1. ASSUME NEW label \in SessionPc, SessionGoes(w, label) PROVE TypeInv'
    BY <1>5, <2>1 DEF SessionStep, SessionGoes
  <2>2. CASE Pool!Finish(w) /\ UNCHANGED session
    BY <1>5, <2>2 DEF SessionStep, Pool!Finish
  <2> QED
    BY <1>5, <2>1, <2>2
    DEF SessionStep, TestExit, ReadRequest, AcquireGraphLock, WriteBusyReply, SessionPc
<1>6. ASSUME NEW w \in Workers, WorkerLeaves(w) PROVE TypeInv'
  BY <1>6 DEF WorkerLeaves, Pool!Leave
<1>7. ASSUME NEW t \in Connections, Connect(t) PROVE TypeInv'
  BY <1>7 DEF Connect
<1>8. CASE UNCHANGED vars
  BY <1>8 DEF vars
<1> QED
  BY <1>1, <1>2, <1>3, <1>4, <1>5, <1>6, <1>7, <1>8, NextCases DEF WorkerStarts

LEMMA TypeInvCorrect == SafeSpec => []TypeInv
BY TypeInvInit, TypeInvStep, PTL DEF SafeSpec

-----------------------------------------------------------------------------
(***************************************************************************)
(* The socket is closed before any caller stops the pool, and cannot be    *)
(* closed while run() holds a connection it has accepted.                  *)
(***************************************************************************)
SocketInv ==
  /\ mainPc = "enqueue" => socketOpen /\ locked
  /\ stopped => ~socketOpen
  /\ \A c \in Callers : down[c] \notin {"idle", "close"} => ~socketOpen
  /\ mainPc \in {"join", "destroy", "destroyed", "returned"} => ~socketOpen

LEMMA SocketInvInit == Init => SocketInv
BY DEF Init, Pool!Init, SocketInv

LEMMA SocketInvStep == TypeInv /\ SocketInv /\ [Next]_vars => SocketInv'
<1> SUFFICES ASSUME TypeInv, SocketInv, [Next]_vars PROVE SocketInv'
  OBVIOUS
<1> USE DEF SocketInv, TypeInv, TypeOK, poolVars, runVars, downVars
<1>1. ASSUME RunStep PROVE SocketInv'
  <2>1. CASE TestShouldExit \/ WatchSocket \/ MeasureMaxfd \/ Select
    BY <2>1
    DEF TestShouldExit, WatchSocket, MeasureMaxfd, Select, MainSets, MainGoes, MainLocks
  <2>2. CASE Accept
    BY <2>2 DEF Accept, MainSets, MainGoes, MainLocks
  <2>3. CASE EnqueueSession
    BY <2>3 DEF EnqueueSession, Pool!Submit
  <2>4. CASE UnlockMutex \/ LeaveRun \/ JoinConsole \/ ResetServerPtr
    BY <2>4
    DEF UnlockMutex, LeaveRun, JoinConsole, ResetServerPtr, MainSets, MainGoes, MainLocks
  <2>5. CASE DestroyPool
    BY <2>5 DEF DestroyPool, DownGoes
  <2> QED BY <1>1, <2>1, <2>2, <2>3, <2>4, <2>5 DEF RunStep
<1>2. ASSUME ConsoleExit \/ Signal PROVE SocketInv'
  BY <1>2 DEF ConsoleExit, Signal, SetShouldExit, HandlerRuns, DownGoes
<1>3. ASSUME NEW c \in Callers, DownStep(c) PROVE SocketInv'
  <2>1. CASE CloseSocket(c)
    BY <2>1 DEF CloseSocket, MutexFree, DownGoes
  <2>2. CASE StopPool(c)
    BY <2>2 DEF StopPool, Pool!Stop, DownGoes
  <2>3. CASE JoinWorker(c) \/ JoinReturns(c)
    BY <2>3 DEF JoinWorker, JoinReturns, DownGoes
  <2>4. CASE ExitReturns(c)
    BY <2>4 DEF ExitReturns, DownGoes
  <2> QED BY <1>3, <2>1, <2>2, <2>3, <2>4 DEF DownStep
<1>4. CASE WorkerStarts
  BY <1>4 DEF WorkerStarts, HandleClient, Pool!Start
<1>5. ASSUME NEW w \in Workers, SessionStep(w) PROVE SocketInv'
  <2>1. UNCHANGED stopped
    BY <1>5 DEF SessionStep, TestExit, ReadRequest, AcquireGraphLock, WriteBusyReply,
                SessionGoes, Pool!Finish
  <2> QED BY <1>5, <2>1 DEF SessionStep
<1>6. ASSUME NEW w \in Workers, WorkerLeaves(w) PROVE SocketInv'
  BY <1>6 DEF WorkerLeaves, Pool!Leave
<1>7. ASSUME NEW t \in Connections, Connect(t) PROVE SocketInv'
  BY <1>7 DEF Connect
<1>8. CASE UNCHANGED vars
  BY <1>8 DEF vars
<1> QED BY <1>1, <1>2, <1>3, <1>4, <1>5, <1>6, <1>7, <1>8, NextCases

\* The one caller of ThreadPool::enqueue never calls it on a stopped pool.
THEOREM NoEnqueueAfterStopCorrect == SafeSpec => []NoEnqueueAfterStop
<1>1. SocketInv => NoEnqueueAfterStop
  BY DEF SocketInv, NoEnqueueAfterStop
<1> QED BY <1>1, TypeInvCorrect, SocketInvInit, SocketInvStep, PTL DEF SafeSpec

\* Every variable has its type, and so has what run() is about to enqueue.
THEOREM LifecycleTypeCorrect == SafeSpec => []TypeOK
<1>1. TypeInv => TypeOK
  BY DEF TypeInv
<1> QED BY <1>1, TypeInvCorrect, PTL

-----------------------------------------------------------------------------
(***************************************************************************)
(* Which actions touch the pool, and how.                                  *)
(***************************************************************************)
LEMMA PoolEffect ==
  ASSUME [Next]_vars
  PROVE  \/ mainPc = "enqueue" /\ Pool!Submit(accepted)
         \/ \E w \in Workers : Pool!Start(w) \/ Pool!Finish(w) \/ Pool!Leave(w)
         \/ Pool!Stop
         \/ UNCHANGED poolVars
<1> USE DEF poolVars
<1>1. ASSUME RunStep
      PROVE  (mainPc = "enqueue" /\ Pool!Submit(accepted)) \/ UNCHANGED poolVars
  <2>1. CASE EnqueueSession
    BY <2>1 DEF EnqueueSession
  <2>2. CASE ~EnqueueSession
    BY <1>1, <2>2
    DEF RunStep, TestShouldExit, WatchSocket, MeasureMaxfd, Select, Accept, UnlockMutex, LeaveRun,
        JoinConsole, DestroyPool, ResetServerPtr, MainSets, MainGoes, MainLocks
  <2> QED BY <2>1, <2>2
<1>2. ASSUME ConsoleExit \/ Signal PROVE UNCHANGED poolVars
  BY <1>2 DEF ConsoleExit, Signal, SetShouldExit
<1>3. ASSUME NEW c \in Callers, DownStep(c) PROVE Pool!Stop \/ UNCHANGED poolVars
  BY <1>3 DEF DownStep, CloseSocket, StopPool, JoinWorker, JoinReturns, ExitReturns
<1>4. ASSUME WorkerStarts PROVE \E w \in Workers : Pool!Start(w)
  BY <1>4 DEF WorkerStarts, HandleClient
<1>5. ASSUME NEW w \in Workers, SessionStep(w) PROVE Pool!Finish(w) \/ UNCHANGED poolVars
  BY <1>5 DEF SessionStep, TestExit, ReadRequest, AcquireGraphLock, WriteBusyReply, SessionGoes
<1>6. ASSUME NEW w \in Workers, WorkerLeaves(w) PROVE Pool!Leave(w)
  BY <1>6 DEF WorkerLeaves
<1>7. ASSUME NEW t \in Connections, Connect(t) PROVE UNCHANGED poolVars
  BY <1>7 DEF Connect
<1>8. CASE UNCHANGED vars
  BY <1>8 DEF vars
<1> QED BY <1>1, <1>2, <1>3, <1>4, <1>5, <1>6, <1>7, <1>8, NextCases

-----------------------------------------------------------------------------
(***************************************************************************)
(* A worker leaves only a stopped pool with nothing pending, and stays     *)
(* away; a session is pending, running or finished.                        *)
(***************************************************************************)
Queued(t) == \E i \in 1..Len(pending) : pending[i] = t

PoolInv ==
  /\ gone # {} => stopped /\ pending = <<>>
  /\ \A w \in gone : running[w] = NoConnection
  /\ finished \subseteq submitted
  /\ \A w \in Workers : running[w] # NoConnection => running[w] \in submitted
  /\ \A i \in 1..Len(pending) : pending[i] \in submitted
  /\ \A t \in submitted :
       t \in finished \/ Queued(t) \/ \E w \in Workers : running[w] = t

LEMMA PoolInvInit == Init => PoolInv
BY DEF Init, Pool!Init, PoolInv

LEMMA PoolInvStep ==
  TypeInv /\ SocketInv /\ PoolInv /\ [Next]_vars => PoolInv'
<1> SUFFICES ASSUME TypeInv, SocketInv, PoolInv, [Next]_vars PROVE PoolInv'
  OBVIOUS
<1> USE DEF PoolInv, Queued
<1>t. /\ pending \in Seq(Connections)
      /\ running \in [Workers -> Connections \cup {NoConnection}]
      /\ gone \subseteq Workers
  BY DEF TypeInv, TypeOK
<1>1. ASSUME mainPc = "enqueue", Pool!Submit(accepted) PROVE PoolInv'
  <2>1. gone = {}
    BY <1>1 DEF SocketInv
  <2>2. accepted \in Connections
    BY <1>1 DEF TypeInv
  <2>3. /\ Len(pending') = Len(pending) + 1
        /\ pending'[Len(pending) + 1] = accepted
        /\ \A i \in 1..Len(pending) : pending'[i] = pending[i]
    BY <1>1, <1>t, <2>2 DEF Pool!Submit
  <2>4. Len(pending) \in Nat
    BY <1>t
  <2>5. \A i \in 1..Len(pending') : pending'[i] \in submitted'
    BY <1>1, <2>3, <2>4 DEF Pool!Submit
  <2>6. \A t \in submitted' :
          t \in finished' \/ Queued(t)' \/ \E w \in Workers : running'[w] = t
    BY <1>1, <2>3, <2>4 DEF Pool!Submit
  <2> QED BY <1>1, <2>1, <2>5, <2>6 DEF Pool!Submit
<1>2. ASSUME NEW w \in Workers, Pool!Start(w) PROVE PoolInv'
  <2>1. /\ pending # <<>> /\ gone = {} /\ running[w] = NoConnection
        /\ pending' = Tail(pending)
        /\ running' = [running EXCEPT ![w] = pending[1]]
        /\ UNCHANGED <<submitted, finished, stopped, gone>>
    BY <1>2, <1>t DEF Pool!Start, Pool!Idle
  <2>2. /\ Len(pending) \in Nat \ {0} /\ Len(pending') = Len(pending) - 1
        /\ \A i \in 1..Len(pending') : pending'[i] = pending[i + 1]
    BY <2>1, <1>t
  <2>3. pending[1] \in submitted /\ pending[1] # NoConnection
    BY <2>2, <1>t, LifecycleAssumption
  <2>4. \A i \in 1..Len(pending') : pending'[i] \in submitted'
    BY <2>1, <2>2
  <2>5. ASSUME NEW t \in submitted
        PROVE  t \in finished' \/ Queued(t)' \/ \E x \in Workers : running'[x] = t
    <3>1. ASSUME NEW i \in 1..Len(pending), pending[i] = t, i # 1 PROVE Queued(t)'
      <4>1. i - 1 \in 1..Len(pending') /\ pending'[i - 1] = t
        BY <3>1, <2>2
      <4> QED BY <4>1
    <3>2. ASSUME t = pending[1] PROVE running'[w] = t
      BY <3>2, <2>1, <1>t
    <3>3. ASSUME NEW x \in Workers, running[x] = t PROVE running'[x] = t \/ t = NoConnection
      BY <3>3, <2>1, <1>t
    <3>4. t # NoConnection
      BY LifecycleAssumption DEF TypeInv, TypeOK
    <3> QED BY <2>1, <3>1, <3>2, <3>3, <3>4
  <2>6. \A x \in Workers : running'[x] # NoConnection => running'[x] \in submitted'
    BY <2>1, <2>3, <1>t
  <2> QED BY <2>1, <2>4, <2>5, <2>6
<1>3. ASSUME NEW w \in Workers, Pool!Finish(w) PROVE PoolInv'
  <2>1. running[w] \in submitted
    BY <1>3 DEF Pool!Finish
  <2> QED BY <1>3, <2>1, <1>t DEF Pool!Finish
<1>4. ASSUME NEW w \in Workers, Pool!Leave(w) PROVE PoolInv'
  BY <1>4, <1>t DEF Pool!Leave, Pool!Idle
<1>5. CASE Pool!Stop
  BY <1>5 DEF Pool!Stop
<1>6. CASE UNCHANGED poolVars
  BY <1>6 DEF poolVars
<1> QED BY <1>1, <1>2, <1>3, <1>4, <1>5, <1>6, PoolEffect

-----------------------------------------------------------------------------
(***************************************************************************)
(* A caller whose join loop has passed a worker has seen it leave, be it   *)
(* in its own join() or in another caller's.                               *)
(***************************************************************************)
JoinInv ==
  /\ joined \subseteq gone
  /\ \A c \in Callers : \A w \in Workers : w < joinIndex[c] => w \in joined
  /\ \A c \in Callers : down[c] = "done" => joinIndex[c] > PoolSize
  /\ mainPc \in {"destroy", "destroyed", "returned"} \/ down["destructor"] # "idle"
       => down["console"] = "done"

LEMMA JoinInvInit == Init => JoinInv
<1>1. Init => "console" \in Callers /\ \A c \in Callers : down[c] = "idle" /\ joinIndex[c] = 1
  BY DEF Init, Callers
<1>2. "destructor" \in Callers
  BY DEF Callers
<1> QED BY <1>1, <1>2 DEF Init, Pool!Init, JoinInv, Workers

LEMMA JoinInvStep == TypeInv /\ JoinInv /\ [Next]_vars => JoinInv'
<1> SUFFICES ASSUME TypeInv, JoinInv, [Next]_vars PROVE JoinInv'
  OBVIOUS
<1> USE DEF JoinInv, downVars, runVars
<1>t. /\ down \in [Callers -> DownPc] /\ joinIndex \in [Callers -> 1..PoolSize + 1]
      /\ "console" \in Callers /\ "handler" \in Callers /\ "destructor" \in Callers
  BY DEF TypeInv, TypeOK, Callers
<1>g. gone \subseteq gone'
  BY PoolEffect
  DEF Pool!Submit, Pool!Start, Pool!Finish, Pool!Leave, Pool!Stop, poolVars
<1>1. ASSUME RunStep PROVE JoinInv'
  <2>1. UNCHANGED <<joinIndex, joined>>
    BY <1>1
    DEF RunStep, TestShouldExit, WatchSocket, MeasureMaxfd, Select, Accept, EnqueueSession,
        UnlockMutex, LeaveRun, JoinConsole, DestroyPool, ResetServerPtr, MainSets, MainGoes,
        MainLocks
  <2>2. CASE DestroyPool
    BY <1>g, <1>t, <2>1, <2>2 DEF DestroyPool, DownGoes
  <2>3. CASE ~DestroyPool
    <3>1. UNCHANGED down
      BY <1>1, <2>3
      DEF RunStep, TestShouldExit, WatchSocket, MeasureMaxfd, Select, Accept,
          EnqueueSession, UnlockMutex, LeaveRun, JoinConsole, ResetServerPtr, MainSets, MainGoes,
          MainLocks
    <3>2. mainPc' \in {"destroy", "destroyed", "returned"} => down["console"] = "done"
      BY <1>1, <2>3
      DEF RunStep, TestShouldExit, WatchSocket, MeasureMaxfd, Select, Accept,
          EnqueueSession, UnlockMutex, LeaveRun, JoinConsole, ResetServerPtr, MainSets, MainGoes,
          MainLocks
    <3> QED BY <1>g, <2>1, <3>1, <3>2
  <2> QED BY <2>2, <2>3
<1>2. ASSUME ConsoleExit \/ Signal PROVE JoinInv'
  BY <1>2, <1>g, <1>t DEF ConsoleExit, Signal, SetShouldExit, HandlerRuns, DownGoes
<1>3. ASSUME NEW c \in Callers, DownStep(c) PROVE JoinInv'
  <2>1. CASE CloseSocket(c) \/ StopPool(c)
    BY <1>g, <1>t, <2>1 DEF CloseSocket, StopPool, DownGoes
  <2>2. CASE JoinWorker(c)
    BY <1>g, <1>t, <2>2 DEF JoinWorker, DownGoes, Workers
  <2>3. CASE JoinReturns(c)
    BY <1>g, <1>t, <2>3 DEF JoinReturns, DownGoes, Workers
  <2>4. CASE ExitReturns(c)
    BY <1>g, <1>t, <2>4 DEF ExitReturns, DownGoes
  <2> QED BY <1>3, <2>1, <2>2, <2>3, <2>4 DEF DownStep
<1>4. CASE WorkerStarts
  BY <1>4, <1>g DEF WorkerStarts
<1>5. ASSUME NEW w \in Workers, SessionStep(w) PROVE JoinInv'
  BY <1>5, <1>g DEF SessionStep
<1>6. ASSUME NEW w \in Workers, WorkerLeaves(w) PROVE JoinInv'
  BY <1>6, <1>g DEF WorkerLeaves
<1>7. ASSUME NEW t \in Connections, Connect(t) PROVE JoinInv'
  BY <1>7, <1>g DEF Connect
<1>8. CASE UNCHANGED vars
  BY <1>8, <1>g DEF vars
<1> QED BY <1>1, <1>2, <1>3, <1>4, <1>5, <1>6, <1>7, <1>8, NextCases

\* main destroys the server, its mutexes and its graph, only when no worker is
\* left to use them and every accepted session has been served.
THEOREM DestroyedAfterWorkersCorrect == SafeSpec => []DestroyedAfterWorkers
<1>1. TypeInv /\ PoolInv /\ JoinInv => DestroyedAfterWorkers
  <2> SUFFICES ASSUME TypeInv, PoolInv, JoinInv,
                      mainPc \in {"destroy", "destroyed", "returned"}
               PROVE  gone = Workers /\ finished = submitted
    BY DEF DestroyedAfterWorkers
  <2>1. joinIndex["console"] > PoolSize /\ "console" \in Callers
    BY DEF JoinInv, Callers
  <2>2. joinIndex["console"] \in Nat
    BY <2>1, LifecycleAssumption DEF TypeInv, TypeOK
  <2>3. \A w \in Workers : w < joinIndex["console"]
    BY <2>1, <2>2, LifecycleAssumption DEF Workers
  <2>4. gone = Workers
    BY <2>1, <2>3 DEF JoinInv, TypeInv, TypeOK
  <2>5. 1 \in Workers
    BY LifecycleAssumption DEF Workers
  <2>6. pending = <<>> /\ \A w \in Workers : running[w] = NoConnection
    BY <2>4, <2>5 DEF PoolInv
  <2>7. \A t \in submitted : t \in finished
    BY <2>6, LifecycleAssumption DEF PoolInv, Queued, TypeInv, TypeOK
  <2> QED BY <2>4, <2>7 DEF PoolInv
<1> QED
  BY <1>1, TypeInvInit, TypeInvStep, SocketInvInit, SocketInvStep,
     PoolInvInit, PoolInvStep, JoinInvInit, JoinInvStep, PTL
  DEF SafeSpec

-----------------------------------------------------------------------------
(***************************************************************************)
(* Without a signal only two threads ever call exit(), and the destructor  *)
(* calls it when the console thread is done.                               *)
(***************************************************************************)
LEMMA OneJoinInit == Init => OneJoinAtATime
BY DEF Init, OneJoinAtATime, HandlerRuns, Callers

LEMMA OneJoinStep ==
  TypeInv /\ JoinInv /\ OneJoinAtATime /\ [Next]_vars => OneJoinAtATime'
<1> SUFFICES ASSUME TypeInv, JoinInv, OneJoinAtATime, [Next]_vars, ~HandlerRuns'
             PROVE  /\ process' # "terminate"
                    /\ \A c, d \in Callers :
                         down'[c] = "joining" /\ down'[d] = "joining" => c = d
  BY DEF OneJoinAtATime
<1>t. /\ down \in [Callers -> DownPc]
      /\ Callers = {"console", "handler", "destructor"}
  BY DEF TypeInv, TypeOK, Callers
<1>1. ASSUME UNCHANGED down, UNCHANGED process PROVE OneJoinAtATime'
  BY <1>1 DEF OneJoinAtATime, HandlerRuns
<1>2. CASE RunStep
  <2>1. CASE DestroyPool
    <3>1. /\ process' = process /\ down' = [down EXCEPT !["destructor"] = "stop"]
      BY <2>1 DEF DestroyPool, DownGoes
    <3> QED BY <1>t, <3>1 DEF OneJoinAtATime, HandlerRuns
  <2>2. CASE ~DestroyPool
    BY <1>1, <1>2, <2>2
    DEF RunStep, TestShouldExit, WatchSocket, MeasureMaxfd, Select, Accept, EnqueueSession,
        UnlockMutex, LeaveRun, JoinConsole, ResetServerPtr, MainSets, MainGoes,
        MainLocks, downVars, OneJoinAtATime
  <2> QED BY <2>1, <2>2
<1>3. CASE ConsoleExit
  BY <1>3, <1>t DEF ConsoleExit, SetShouldExit, DownGoes, OneJoinAtATime, HandlerRuns
<1>4. CASE Signal
  BY <1>4, <1>t DEF Signal, SetShouldExit, DownGoes, HandlerRuns
<1>5. ASSUME NEW c \in Callers, DownStep(c)
      PROVE  /\ process' # "terminate"
             /\ \A d, e \in Callers :
                  down'[d] = "joining" /\ down'[e] = "joining" => d = e
  <2>1. c # "handler" /\ down["handler"] = "idle"
    BY <1>5, <1>t
    DEF HandlerRuns, DownStep, CloseSocket, StopPool, JoinWorker, JoinReturns, ExitReturns, DownGoes
  <2>2. \A d \in Callers \ {c} : down[d] # "joining"
    BY <1>5, <2>1, <1>t
    DEF JoinInv, DownStep, CloseSocket, StopPool, JoinWorker, JoinReturns, ExitReturns
  <2>3. process' # "terminate" /\ \A d \in Callers \ {c} : down'[d] = down[d]
    <3>1. process # "terminate"
      BY <2>1 DEF OneJoinAtATime, HandlerRuns
    <3>2. CASE JoinWorker(c)
      BY <3>1, <3>2, <2>2, <1>t DEF JoinWorker, DownGoes
    <3>3. CASE CloseSocket(c) \/ StopPool(c) \/ JoinReturns(c) \/ ExitReturns(c)
      BY <3>1, <3>3, <1>t DEF CloseSocket, StopPool, JoinReturns, ExitReturns, DownGoes
    <3> QED BY <1>5, <3>2, <3>3 DEF DownStep
  <2> QED BY <2>2, <2>3
<1>6. CASE WorkerStarts \/ \E w \in Workers : SessionStep(w) \/ WorkerLeaves(w)
  BY <1>1, <1>6 DEF WorkerStarts, SessionStep, WorkerLeaves, downVars, OneJoinAtATime
<1>7. CASE \E t \in Connections : Connect(t)
  BY <1>1, <1>7 DEF Connect, downVars, OneJoinAtATime
<1>8. CASE UNCHANGED vars
  BY <1>1, <1>8 DEF vars, downVars, OneJoinAtATime
<1> QED BY <1>2, <1>3, <1>4, <1>5, <1>6, <1>7, <1>8, NextCases

\* No two threads join one worker, and the exception that this would throw does
\* not end the process, unless a signal has come.
THEOREM OneJoinAtATimeCorrect == SafeSpec => []OneJoinAtATime
BY TypeInvInit, TypeInvStep, JoinInvInit, JoinInvStep, OneJoinInit, OneJoinStep, PTL
DEF SafeSpec

-----------------------------------------------------------------------------
\* For the pool, every step of the process is a step of the abstract pool that
\* ThreadPool implements, or none: what run() enqueues is a connection, and
\* shutdown() and the destructors only ever stop it.
THEOREM LifecycleUsesPool == SafeSpec => Pool!SafeSpec
<1>1. Init => Pool!Init
  BY DEF Init
<1>2. TypeInv /\ [Next]_vars => [Pool!Next]_(Pool!poolVars)
  <2> SUFFICES ASSUME TypeInv, [Next]_vars PROVE Pool!Next \/ UNCHANGED poolVars
    BY DEF Pool!poolVars, poolVars
  <2>1. mainPc = "enqueue" => accepted \in Connections
    BY DEF TypeInv
  <2> QED
    BY <2>1, PoolEffect DEF Pool!Next
<1> QED BY <1>1, <1>2, TypeInvCorrect, PTL DEF SafeSpec, Pool!SafeSpec
=============================================================================
