------------------------------- MODULE Output -------------------------------
(***************************************************************************)
(* The two mutexes of src/src/server/Server.cpp and who waits for whom:    *)
(* cout_mutex, which every session locks to log and, in sendResponse(), to *)
(* write to its client, and sharedGraphMutex, which acquireGraphLock()     *)
(* keeps while it writes the reply that the graph is busy.  A write blocks *)
(* when the client does not read and its buffer is full, so a slow reader  *)
(* makes all sessions wait, and the accept loop and shutdown() with them.  *)
(*                                                                         *)
(* A critical section in which nothing can block is one action.  What the  *)
(* commands do to the graph is in Sessions, the socket and the pool are in *)
(* Lifecycle.                                                              *)
(***************************************************************************)
EXTENDS Naturals

CONSTANTS
  Clients,    \* the clients, each with a worker
  Nobody,     \* holds a mutex that is free
  Main, Console,
  MaxLines    \* bound on the lines all clients send

ASSUME OutputAssumption ==
  /\ Nobody \notin Clients \cup {Main, Console}
  /\ Main \notin Clients /\ Console \notin Clients /\ Main # Console
  /\ MaxLines \in Nat

VARIABLES
  coutMutex, sharedGraphMutex,   \* who holds them
  isGraphBusy,
  shouldExit,
  pc,        \* where each session is
  then,      \* where it goes after the reply it is sending
  window,    \* each client: has it "room" for a reply, is it "full", or "gone"?
  lines,     \* the lines read so far
  main, console   \* where these threads are

vars ==
  <<coutMutex, sharedGraphMutex, isGraphBusy, shouldExit, pc, then, window, lines,
    main, console>>

Threads == Clients \cup {Main, Console}

Init ==
  /\ coutMutex = Nobody /\ sharedGraphMutex = Nobody
  /\ isGraphBusy = FALSE
  /\ shouldExit = FALSE
  /\ pc = [c \in Clients |-> "send"] /\ then = [c \in Clients |-> "loop"]
  /\ window = [c \in Clients |-> "room"]
  /\ lines = 0
  /\ main = "loop" /\ console = "getline"

Goto(c, label) == pc' = [pc EXCEPT ![c] = label]

\* A session sends a reply and goes on at the label.
Send(c, label) ==
  /\ Goto(c, "send")
  /\ then' = [then EXCEPT ![c] = label]

Locks == UNCHANGED <<coutMutex, sharedGraphMutex>>
Others == UNCHANGED <<shouldExit, main, console>>

-----------------------------------------------------------------------------
(***************************************************************************)
(* A session.                                                              *)
(***************************************************************************)
TestExit(c) ==
  /\ pc[c] = "loop"
  /\ Goto(c, IF shouldExit THEN "closed" ELSE "read")
  /\ Locks /\ Others /\ UNCHANGED <<isGraphBusy, then, window, lines>>

NextLine == lines < MaxLines /\ lines' = lines + 1

Leaves(c) == window' = [window EXCEPT ![c] = "gone"] /\ UNCHANGED lines

ReadRequest(c) ==
  /\ pc[c] = "read"
  /\ \/ Leaves(c) /\ Goto(c, "closed")
     \/ window[c] # "gone" /\ NextLine /\ Goto(c, "log") /\ UNCHANGED window
  /\ Locks /\ Others /\ UNCHANGED <<isGraphBusy, then>>

\* "Debug: Received request" and "Parsed command".
LogRequest(c) ==
  /\ pc[c] = "log"
  /\ coutMutex = Nobody
  /\ \/ Goto(c, "loop") /\ UNCHANGED then       \* an empty line
     \/ Goto(c, "acquire") /\ UNCHANGED then
     \/ \E label \in {"loop", "closed"} : Send(c, label)
  /\ Locks /\ Others /\ UNCHANGED <<isGraphBusy, window, lines>>

\* A handler replies and, some of them, waits for a further line.
acquireGraphLock(c) ==
  /\ pc[c] = "acquire"
  /\ sharedGraphMutex = Nobody
  /\ \/ /\ isGraphBusy
        /\ sharedGraphMutex' = c
        /\ Send(c, "unlock")
        /\ UNCHANGED isGraphBusy
     \/ /\ ~isGraphBusy
        /\ isGraphBusy' = TRUE
        /\ \E label \in {"wait", "release"} : Send(c, label)
        /\ UNCHANGED sharedGraphMutex
  /\ Others /\ UNCHANGED <<coutMutex, window, lines>>

\* When no edge comes any more init still replies, to a client that is gone.
ReadMore(c) ==
  /\ pc[c] = "wait"
  /\ \/ /\ Leaves(c)
        /\ \/ Goto(c, "release") /\ UNCHANGED then
           \/ Send(c, "release")
     \/ /\ window[c] # "gone" /\ NextLine /\ UNCHANGED window
        /\ \E label \in {"wait", "release"} : Send(c, label)
  /\ Locks /\ Others /\ UNCHANGED isGraphBusy

sendResponse(c) ==
  /\ pc[c] = "send"
  /\ coutMutex = Nobody
  /\ coutMutex' = c
  /\ Goto(c, "write")
  /\ Others /\ UNCHANGED <<sharedGraphMutex, isGraphBusy, then, window, lines>>

\* Mutant of WriteReturns: an early return leaves cout_mutex locked.
WriteReturnsLocked(c) ==
  /\ pc[c] = "write"
  /\ window[c] # "full"
  /\ \/ UNCHANGED window
     \/ window[c] = "room" /\ window' = [window EXCEPT ![c] = "full"]
  /\ coutMutex' = IF window[c] = "gone" THEN coutMutex ELSE Nobody
  /\ Goto(c, then[c])
  /\ Others /\ UNCHANGED <<sharedGraphMutex, isGraphBusy, then, lines>>

\* write() to a client that has gone fails, or raises SIGPIPE: see Sessions.
WriteReturns(c) ==
  /\ pc[c] = "write"
  /\ window[c] # "full"
  /\ \/ UNCHANGED window
     \/ window[c] = "room" /\ window' = [window EXCEPT ![c] = "full"]
  /\ coutMutex' = Nobody
  /\ Goto(c, then[c])
  /\ Others /\ UNCHANGED <<sharedGraphMutex, isGraphBusy, then, lines>>

\* Mutant of Unlock: the mutex is not released with the function's scope.
UnlockNothing(c) ==
  /\ pc[c] = "unlock"
  /\ Goto(c, "loop")
  /\ Others /\ UNCHANGED <<coutMutex, sharedGraphMutex, isGraphBusy, then, window, lines>>

\* The end of acquireGraphLock() after the busy reply.
Unlock(c) ==
  /\ pc[c] = "unlock"
  /\ sharedGraphMutex' = Nobody
  /\ Goto(c, "loop")
  /\ Others /\ UNCHANGED <<coutMutex, isGraphBusy, then, window, lines>>

releaseGraphLock(c) ==
  /\ pc[c] = "release"
  /\ sharedGraphMutex = Nobody
  /\ isGraphBusy' = FALSE
  /\ Goto(c, "loop")
  /\ Locks /\ Others /\ UNCHANGED <<then, window, lines>>

SessionStep(c) ==
  \/ TestExit(c) \/ ReadRequest(c) \/ LogRequest(c) \/ acquireGraphLock(c)
  \/ ReadMore(c) \/ sendResponse(c) \/ WriteReturns(c) \/ Unlock(c)
  \/ releaseGraphLock(c)

\* The client reads what has come, or closes its end.
ClientActs(c) ==
  /\ window[c] = "full"
  /\ \E w \in {"room", "gone"} : window' = [window EXCEPT ![c] = w]
  /\ Locks /\ Others /\ UNCHANGED <<isGraphBusy, pc, then, lines>>

-----------------------------------------------------------------------------
(***************************************************************************)
(* The main thread: run() locks sharedGraphMutex in each of its sections,  *)
(* also to close the socket when it is told to leave.                      *)
(***************************************************************************)
Session == UNCHANGED <<isGraphBusy, pc, then, window, lines>>

TestShouldExit ==
  /\ main = "loop"
  /\ main' = IF shouldExit THEN "close" ELSE "watch"
  /\ Locks /\ Session /\ UNCHANGED <<shouldExit, console>>

\* After the second section select() may have found no connection to accept.
RunSection ==
  /\ sharedGraphMutex = Nobody
  /\ \/ main = "watch" /\ main' \in {"measure", "close"}
     \/ main = "measure" /\ main' \in {"accept", "loop"}
     \/ main = "accept" /\ main' \in {"loop", "close"}
  /\ Locks /\ Session /\ UNCHANGED <<shouldExit, console>>

LeaveRun ==
  /\ main = "close"
  /\ sharedGraphMutex = Nobody
  /\ main' = "join"
  /\ Locks /\ Session /\ UNCHANGED <<shouldExit, console>>

JoinConsole ==
  /\ main = "join"
  /\ console = "done"
  /\ main' = "returned"
  /\ Locks /\ Session /\ UNCHANGED <<shouldExit, console>>

MainStep == TestShouldExit \/ RunSection \/ LeaveRun \/ JoinConsole

(***************************************************************************)
(* The console thread: lockCout() and unlockCout(), then shutdown(), which *)
(* logs under cout_mutex, closes the socket under sharedGraphMutex, and    *)
(* joins the workers.                                                      *)
(***************************************************************************)
ConsoleExit ==
  /\ console = "getline"
  /\ console' = "announce"
  /\ Locks /\ Session /\ UNCHANGED <<shouldExit, main>>

Announce ==
  /\ console = "announce"
  /\ coutMutex = Nobody
  /\ console' = "log"
  /\ shouldExit' = TRUE
  /\ Locks /\ Session /\ UNCHANGED main

\* Mutant of LogShutdown: one scope holds both mutexes.
LogShutdownNested ==
  /\ console = "log"
  /\ coutMutex = Nobody
  /\ coutMutex' = Console
  /\ console' = "close"
  /\ Session /\ UNCHANGED <<sharedGraphMutex, shouldExit, main>>

LogShutdown ==
  /\ console = "log"
  /\ coutMutex = Nobody
  /\ console' = "close"
  /\ Locks /\ Session /\ UNCHANGED <<shouldExit, main>>

CloseSocket ==
  /\ console = "close"
  /\ sharedGraphMutex = Nobody
  /\ coutMutex' = IF coutMutex = Console THEN Nobody ELSE coutMutex
  /\ console' = "join"
  /\ Session /\ UNCHANGED <<sharedGraphMutex, shouldExit, main>>

JoinWorkers ==
  /\ console = "join"
  /\ \A c \in Clients : pc[c] = "closed"
  /\ console' = "done"
  /\ Locks /\ Session /\ UNCHANGED <<shouldExit, main>>

ShutdownStep == Announce \/ LogShutdown \/ CloseSocket \/ JoinWorkers

-----------------------------------------------------------------------------
Next ==
  \/ \E c \in Clients : SessionStep(c) \/ ClientActs(c)
  \/ MainStep \/ ConsoleExit \/ ShutdownStep

SafeSpec == Init /\ [][Next]_vars

(***************************************************************************)
(* Threads that can go on do, and each client answers or leaves, and reads *)
(* what it is sent: without that last assumption, which the code does not  *)
(* enforce, one client blocks everything.                                  *)
(***************************************************************************)
Spec ==
  /\ SafeSpec
  /\ \A c \in Clients : WF_vars(SessionStep(c)) /\ WF_vars(ClientActs(c))
  /\ WF_vars(MainStep) /\ WF_vars(ShutdownStep)

-----------------------------------------------------------------------------
SessionPc ==
  {"loop", "read", "log", "acquire", "wait", "send", "write", "unlock", "release", "closed"}

\* The labels at which a session holds a mutex.
Writing(c) == pc[c] = "write"
ReplyingBusy(c) == pc[c] \in {"send", "write", "unlock"} /\ (pc[c] = "unlock" \/ then[c] = "unlock")

TypeOK ==
  /\ coutMutex \in Threads \cup {Nobody}
  /\ sharedGraphMutex \in Threads \cup {Nobody}
  /\ isGraphBusy \in BOOLEAN /\ shouldExit \in BOOLEAN
  /\ pc \in [Clients -> SessionPc]
  /\ then \in [Clients -> {"loop", "closed", "unlock", "wait", "release"}]
  /\ window \in [Clients -> {"room", "full", "gone"}]
  /\ lines \in 0..MaxLines
  /\ main \in {"loop", "watch", "measure", "accept", "close", "join", "returned"}
  /\ console \in {"getline", "announce", "log", "close", "join", "done"}
  /\ \A c \in Clients : coutMutex = c <=> Writing(c)
  /\ \A c \in Clients : sharedGraphMutex = c <=> ReplyingBusy(c)

\* Is the thread about to lock sharedGraphMutex?
WantsShared(t) ==
  \/ t \in Clients /\ pc[t] \in {"acquire", "release"}
  \/ t = Main /\ main \in {"watch", "measure", "accept", "close"}
  \/ t = Console /\ console = "close"

\* Is it about to lock cout_mutex?
WantsCout(t) ==
  \/ t \in Clients /\ pc[t] \in {"log", "send"}
  \/ t = Console /\ console \in {"announce", "log"}

\* The busy reply takes cout_mutex inside sharedGraphMutex; so nobody takes
\* them the other way round, and no two threads wait for each other.
CoutInnermost == \A t \in Threads : coutMutex = t => ~WantsShared(t) /\ ~WantsCout(t)

\* While clients read what they are sent no mutex is kept for ever, though
\* sessions write to their clients with one or both of them locked.
MutexesReleased ==
  /\ coutMutex # Nobody ~> coutMutex = Nobody
  /\ sharedGraphMutex # Nobody ~> sharedGraphMutex = Nobody

\* Under the same assumption shutdown() ends, and main with it.
ShutdownReturns == console # "getline" ~> main = "returned"
=============================================================================
