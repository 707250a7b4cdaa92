------------------------------ MODULE TaskPool ------------------------------
(***************************************************************************)
(* What a thread pool promises its user, with no leader, no mutex and no   *)
(* condition variable: submitted tasks are started once each, in the order *)
(* of submission, by workers that run one task at a time; once the pool is *)
(* stopped a worker leaves only when nothing is pending.                   *)
(*                                                                         *)
(* This is the abstract specification that ThreadPool (the leader-follower *)
(* implementation of src/src/utils/ThreadPool.cpp) is shown to implement.  *)
(***************************************************************************)
EXTENDS Sequences

CONSTANTS Workers, Tasks, NoTask

VARIABLES
  pending,     \* submitted tasks that no worker has started, oldest first
  submitted,   \* every task ever submitted
  running,     \* the task each worker is running, or NoTask
  finished,    \* tasks that have run to completion
  stopped,     \* has the pool been told to stop?
  gone         \* workers that have left

poolVars == <<pending, submitted, running, finished, stopped, gone>>

Idle(w) == w \notin gone /\ running[w] = NoTask

Init ==
  /\ pending = <<>>
  /\ submitted = {}
  /\ running = [w \in Workers |-> NoTask]
  /\ finished = {}
  /\ stopped = FALSE
  /\ gone = {}

Submit(t) ==
  /\ ~stopped
  /\ t \notin submitted
  /\ submitted' = submitted \cup {t}
  /\ pending' = Append(pending, t)
  /\ UNCHANGED <<running, finished, stopped, gone>>

Start(w) ==
  /\ Idle(w)
  /\ pending # <<>>
  /\ running' = [running EXCEPT ![w] = Head(pending)]
  /\ pending' = Tail(pending)
  /\ UNCHANGED <<submitted, finished, stopped, gone>>

Finish(w) ==
  /\ running[w] # NoTask
  /\ finished' = finished \cup {running[w]}
  /\ running' = [running EXCEPT ![w] = NoTask]
  /\ UNCHANGED <<pending, submitted, stopped, gone>>

Stop ==
  /\ stopped' = TRUE
  /\ UNCHANGED <<pending, submitted, running, finished, gone>>

Leave(w) ==
  /\ Idle(w)
  /\ stopped
  /\ pending = <<>>
  /\ gone' = gone \cup {w}
  /\ UNCHANGED <<pending, submitted, running, finished, stopped>>

Next ==
  \/ \E t \in Tasks : Submit(t)
  \/ \E w \in Workers : Start(w) \/ Finish(w) \/ Leave(w)
  \/ Stop

SafeSpec == Init /\ [][Next]_poolVars

(***************************************************************************)
(* Nothing is assumed of the tasks, which may block for ever: the pool     *)
(* promises that a pending task is started while some worker is idle, and  *)
(* that an idle worker leaves a stopped, drained pool.                     *)
(***************************************************************************)
Fairness ==
  /\ WF_poolVars(\E w \in Workers : Start(w))
  /\ \A w \in Workers : WF_poolVars(Leave(w))

Spec == SafeSpec /\ Fairness
=============================================================================
