---------------------------- MODULE OutputProofs ----------------------------
(***************************************************************************)
(* Proofs about Output: who holds which mutex, and that the two are never  *)
(* taken in both orders, for any number of clients.                        *)
(***************************************************************************)
EXTENDS Output, TLAPS

\* Only sessions keep a mutex from one step to the next.
HeldBySessions ==
  /\ coutMutex \in Clients \cup {Nobody}
  /\ sharedGraphMutex \in Clients \cup {Nobody}

Inv == TypeOK /\ HeldBySessions

LEMMA InitInv == Init => Inv
<1> SUFFICES ASSUME Init PROVE Inv
  OBVIOUS
<1>1. /\ coutMutex = Nobody /\ sharedGraphMutex = Nobody
      /\ pc \in [Clients -> SessionPc]
      /\ then \in [Clients -> {"loop", "closed", "unlock", "wait", "release"}]
      /\ window \in [Clients -> {"room", "full", "gone"}]
  BY DEF Init, SessionPc
<1>2. ASSUME NEW c \in Clients
      PROVE  pc[c] = "send" /\ then[c] = "loop" /\ c # Nobody
  BY OutputAssumption DEF Init
<1>3. \A c \in Clients : /\ coutMutex = c <=> Writing(c)
                         /\ sharedGraphMutex = c <=> ReplyingBusy(c)
  BY <1>1, <1>2 DEF Writing, ReplyingBusy
<1>4. /\ isGraphBusy \in BOOLEAN /\ shouldExit \in BOOLEAN
      /\ main = "loop" /\ console = "getline"
  BY DEF Init
<1>5. lines \in 0..MaxLines
  BY OutputAssumption DEF Init
<1> QED
  BY <1>1, <1>3, <1>4, <1>5 DEF Inv, TypeOK, HeldBySessions

\* A session's own step, split by whether it may touch a mutex.
LEMMA SessionKeepsInv ==
  ASSUME Inv, NEW c \in Clients, SessionStep(c)
  PROVE  Inv'
<1> USE OutputAssumption
        DEF Inv, TypeOK, HeldBySessions, Threads, SessionPc, Writing, ReplyingBusy,
            Goto, Locks, Others
<1>1. CASE TestExit(c)
  BY <1>1 DEF TestExit
<1>2. CASE ReadRequest(c)
  BY <1>2 DEF ReadRequest, Leaves, NextLine
<1>3. CASE LogRequest(c)
  BY <1>3 DEF LogRequest, Send
<1>4. CASE acquireGraphLock(c)
  <2>1. CASE isGraphBusy
    BY <1>4, <2>1 DEF acquireGraphLock, Send
  <2>2. CASE ~isGraphBusy
    <3>1. PICK label \in {"wait", "release"} :
            /\ pc' = [pc EXCEPT ![c] = "send"]
            /\ then' = [then EXCEPT ![c] = label]
      BY <1>4, <2>2 DEF acquireGraphLock, Send
    <3>2. isGraphBusy' \in BOOLEAN
      BY <1>4, <2>2 DEF acquireGraphLock
    <3>3. pc[c] = "acquire" /\ UNCHANGED <<coutMutex, sharedGraphMutex, window, lines>>
          /\ UNCHANGED <<shouldExit, main, console>>
      BY <1>4, <2>2 DEF acquireGraphLock
    <3> QED
      BY <3>1, <3>2, <3>3
  <2> QED
    BY <2>1, <2>2
<1>5. CASE ReadMore(c)
  BY <1>5 DEF ReadMore, Send, Leaves, NextLine
<1>6. CASE sendResponse(c)
  BY <1>6 DEF sendResponse
<1>7. CASE WriteReturns(c)
  BY <1>7 DEF WriteReturns
<1>8. CASE Unlock(c)
  BY <1>8 DEF Unlock
<1>9. CASE releaseGraphLock(c)
  BY <1>9 DEF releaseGraphLock
<1> QED
  BY <1>1, <1>2, <1>3, <1>4, <1>5, <1>6, <1>7, <1>8, <1>9 DEF SessionStep

\* The other threads release what they lock before they go on.
LEMMA OthersKeepInv ==
  ASSUME Inv,
         \/ \E c \in Clients : ClientActs(c)
         \/ MainStep \/ ConsoleExit \/ ShutdownStep
  PROVE  Inv'
<1> USE OutputAssumption
        DEF Inv, TypeOK, HeldBySessions, Threads, SessionPc, Writing, ReplyingBusy,
            Locks, Others, Session
<1>1. CASE \E c \in Clients : ClientActs(c)
  BY <1>1 DEF ClientActs
<1>2. CASE MainStep
  BY <1>2 DEF MainStep, TestShouldExit, RunSection, LeaveRun, JoinConsole
<1>3. CASE ConsoleExit
  BY <1>3 DEF ConsoleExit
<1>4. CASE ShutdownStep
  BY <1>4 DEF ShutdownStep, Announce, LogShutdown, CloseSocket, JoinWorkers
<1> QED
  BY <1>1, <1>2, <1>3, <1>4

LEMMA InvInvariant == SafeSpec => []Inv
<1>1. Inv /\ [Next]_vars => Inv'
  <2>1. CASE Next
    BY <2>1, SessionKeepsInv, OthersKeepInv DEF Next
  <2>2. CASE UNCHANGED vars
    BY <2>2 DEF vars, Inv, TypeOK, HeldBySessions, Writing, ReplyingBusy
  <2> QED
    BY <2>1, <2>2
<1> QED
  BY InitInv, <1>1, PTL DEF SafeSpec

\* Every variable keeps its type, and a session holds a mutex exactly at the
\* labels between its lock and its unlock.
THEOREM OutputTypeCorrect == SafeSpec => []TypeOK
<1>1. Inv => TypeOK
  BY DEF Inv
<1> QED
  BY InvInvariant, <1>1, PTL

\* cout_mutex is the inner one: whoever has it waits for no mutex.
THEOREM CoutInnermostCorrect == SafeSpec => []CoutInnermost
<1>1. Inv => CoutInnermost
  BY OutputAssumption
     DEF Inv, TypeOK, HeldBySessions, CoutInnermost, WantsShared, WantsCout, Writing, Threads
<1> QED
  BY InvInvariant, <1>1, PTL
=============================================================================
