----------------------------- MODULE ThreadPool -----------------------------
(***************************************************************************)
(* The leader-follower thread pool of src/src/utils/ThreadPool.cpp.        *)
(*                                                                         *)
(* A worker first becomes the leader, then waits for a task as the only    *)
(* thread on `condition`, promotes a new leader and only then runs the     *)
(* task it took.  exit() sets `stop`, notifies both condition variables    *)
(* and joins every worker.                                                 *)
(*                                                                         *)
(* Granularity.  A critical section is one action when nothing in it can   *)
(* block: all sections of leaderMutex, and those of queueMutex except the  *)
(* one of a worker that sees the stop flag, which calls promoteNewLeader   *)
(* with queueMutex held.  That worker keeps queueMutex from TakeTask to    *)
(* PromoteNewLeader, which QueueMutexFree expresses.                       *)
(*                                                                         *)
(* A condition variable is the set of workers asleep on it, told by their  *)
(* pc.  A thread that is woken, by a notification or spuriously, goes back *)
(* to lock the mutex and evaluate its predicate again.                     *)
(***************************************************************************)
EXTENDS Naturals, Sequences

CONSTANTS
  Workers,    \* the threads of `workers`
  Tasks,      \* the tasks the user may submit, one per accepted client
  NoThread,   \* std::thread::id()
  NoTask      \* a worker's local `task` before it takes one

ASSUME PoolAssumption ==
  /\ Workers # {}
  /\ NoThread \notin Workers
  /\ NoTask \notin Tasks

VARIABLES
  tasks,          \* the task queue
  stop,           \* the stop flag
  currentLeader,  \* the leader's thread id, or NoThread
  task,           \* each worker's local task
  pc,             \* where each worker is in workerThread()
  callerPc,       \* where the pool's user is in exit()
  submitted,      \* history: tasks enqueue() was called with
  finished        \* history: tasks whose call has returned

vars == <<tasks, stop, currentLeader, task, pc, callerPc, submitted, finished>>

WorkerPc ==
  {"becomeLeader",      \* about to lock leaderMutex in becomeLeader()
   "leaderWait",        \* asleep on leaderCondition
   "takeTask",          \* leader, about to lock queueMutex
   "taskWait",          \* leader, asleep on condition
   "promote",           \* holds a task, about to promote a new leader
   "promoteAndReturn",  \* holds queueMutex, about to promote and return
   "runTask",           \* executing task()
   "returned"}          \* workerThread() has returned

CallerPc == {"idle", "notifyTask", "notifyLeader", "join"}

Init ==
  /\ tasks = <<>>
  /\ stop = FALSE
  /\ currentLeader = NoThread
  /\ task = [w \in Workers |-> NoTask]
  /\ pc = [w \in Workers |-> "becomeLeader"]
  /\ callerPc = "idle"
  /\ submitted = {}
  /\ finished = {}

QueueMutexFree == \A w \in Workers : pc[w] # "promoteAndReturn"

(***************************************************************************)
(* Condition variables: newpc is the pc once the caller's own step is      *)
(* taken.  NotifyOne wakes some sleeper if there is one, NotifyAll all.    *)
(***************************************************************************)
Asleep(label, w) == pc[w] = label

NotifyOne(newpc, label, resume) ==
  IF \E w \in Workers : Asleep(label, w)
  THEN \E w \in Workers : Asleep(label, w) /\ pc' = [newpc EXCEPT ![w] = resume]
  ELSE pc' = newpc

NotifyAll(label, resume) ==
  pc' = [w \in Workers |-> IF Asleep(label, w) THEN resume ELSE pc[w]]

(***************************************************************************)
(* The pool's user.  Server::run is the only caller of enqueue(), and has  *)
(* made its last call before exit() starts: accept and enqueue form one    *)
(* critical section of sharedGraphMutex on the open server socket, which   *)
(* Server::shutdown closes under that mutex before it calls exit().        *)
(* Hence callerPc = "idle" and ~stop in the guard; enqueue() itself tests  *)
(* nothing.  exit() is called by shutdown() and again by the destructor.   *)
(***************************************************************************)
UserMayEnqueue == callerPc = "idle" /\ ~stop

\* Mutant of Enqueue: notifies nobody.
EnqueueSilently(t) ==
  /\ UserMayEnqueue
  /\ t \notin submitted
  /\ QueueMutexFree
  /\ tasks' = Append(tasks, t)
  /\ submitted' = submitted \cup {t}
  /\ UNCHANGED <<stop, currentLeader, task, pc, callerPc, finished>>

Enqueue(t) ==
  /\ UserMayEnqueue
  /\ t \notin submitted
  /\ QueueMutexFree
  /\ tasks' = Append(tasks, t)
  /\ submitted' = submitted \cup {t}
  /\ NotifyOne(pc, "taskWait", "takeTask")
  /\ UNCHANGED <<stop, currentLeader, task, callerPc, finished>>

ExitSetStop ==
  /\ callerPc = "idle"
  /\ QueueMutexFree
  /\ stop' = TRUE
  /\ callerPc' = "notifyTask"
  /\ UNCHANGED <<tasks, currentLeader, task, pc, submitted, finished>>

\* Mutant of ExitNotifyTask: the leader asleep on `condition` is not notified.
ExitNotifyNobody ==
  /\ callerPc = "notifyTask"
  /\ callerPc' = "notifyLeader"
  /\ UNCHANGED <<tasks, stop, currentLeader, task, pc, submitted, finished>>

ExitNotifyTask ==
  /\ callerPc = "notifyTask"
  /\ NotifyAll("taskWait", "takeTask")
  /\ callerPc' = "notifyLeader"
  /\ UNCHANGED <<tasks, stop, currentLeader, task, submitted, finished>>

ExitNotifyLeader ==
  /\ callerPc = "notifyLeader"
  /\ NotifyAll("leaderWait", "becomeLeader")
  /\ callerPc' = "join"
  /\ UNCHANGED <<tasks, stop, currentLeader, task, submitted, finished>>

\* The join loop ends when every worker has returned.
ExitJoin ==
  /\ callerPc = "join"
  /\ \A w \in Workers : pc[w] = "returned"
  /\ callerPc' = "idle"
  /\ UNCHANGED <<tasks, stop, currentLeader, task, pc, submitted, finished>>

-----------------------------------------------------------------------------
(***************************************************************************)
(* The workers.                                                            *)
(***************************************************************************)
\* Mutant of CanLead: the wait in becomeLeader() without its predicate.
CanLeadAlways(w) == w \in Workers

CanLead(w) == currentLeader \in {NoThread, w}

BecomeLeader(w) ==
  /\ pc[w] = "becomeLeader"
  /\ \/ /\ CanLead(w)
        /\ currentLeader' = w
        /\ pc' = [pc EXCEPT ![w] = "takeTask"]
     \/ /\ ~CanLead(w)
        /\ pc' = [pc EXCEPT ![w] = "leaderWait"]
        /\ UNCHANGED currentLeader
  /\ UNCHANGED <<tasks, stop, task, callerPc, submitted, finished>>

\* Mutants of TakeTask: runs an empty task when it should return; does not pop
\* the task; returns as soon as `stop` is set; takes the newest task first.
TakeNothing(w) ==
  /\ pc[w] = "takeTask"
  /\ QueueMutexFree
  /\ tasks = <<>> /\ stop
  /\ pc' = [pc EXCEPT ![w] = "promote"]
  /\ UNCHANGED <<tasks, stop, currentLeader, task, callerPc, submitted, finished>>

TakeWithoutPop(w) ==
  /\ pc[w] = "takeTask"
  /\ QueueMutexFree
  /\ tasks # <<>>
  /\ task' = [task EXCEPT ![w] = Head(tasks)]
  /\ pc' = [pc EXCEPT ![w] = "promote"]
  /\ UNCHANGED <<tasks, stop, currentLeader, callerPc, submitted, finished>>

ReturnOnStop(w) ==
  /\ pc[w] = "takeTask"
  /\ QueueMutexFree
  /\ stop
  /\ pc' = [pc EXCEPT ![w] = "promoteAndReturn"]
  /\ UNCHANGED <<tasks, stop, currentLeader, task, callerPc, submitted, finished>>

TakeNewest(w) ==
  /\ pc[w] = "takeTask"
  /\ QueueMutexFree
  /\ tasks # <<>>
  /\ task' = [task EXCEPT ![w] = tasks[Len(tasks)]]
  /\ tasks' = SubSeq(tasks, 1, Len(tasks) - 1)
  /\ pc' = [pc EXCEPT ![w] = "promote"]
  /\ UNCHANGED <<stop, currentLeader, callerPc, submitted, finished>>

TakeTask(w) ==
  /\ pc[w] = "takeTask"
  /\ QueueMutexFree
  /\ \/ /\ tasks # <<>>
        /\ task' = [task EXCEPT ![w] = Head(tasks)]
        /\ tasks' = Tail(tasks)
        /\ pc' = [pc EXCEPT ![w] = "promote"]
     \/ /\ tasks = <<>> /\ ~stop
        /\ pc' = [pc EXCEPT ![w] = "taskWait"]
        /\ UNCHANGED <<task, tasks>>
     \/ /\ tasks = <<>> /\ stop
        /\ pc' = [pc EXCEPT ![w] = "promoteAndReturn"]
        /\ UNCHANGED <<task, tasks>>
  /\ UNCHANGED <<stop, currentLeader, callerPc, submitted, finished>>

AfterPromote(w) == IF pc[w] = "promote" THEN "runTask" ELSE "returned"

\* Mutant of PromoteNewLeader: notifies no follower.
PromoteSilently(w) ==
  /\ pc[w] \in {"promote", "promoteAndReturn"}
  /\ currentLeader' = NoThread
  /\ pc' = [pc EXCEPT ![w] = AfterPromote(w)]
  /\ UNCHANGED <<tasks, stop, task, callerPc, submitted, finished>>

PromoteNewLeader(w) ==
  /\ pc[w] \in {"promote", "promoteAndReturn"}
  /\ currentLeader' = NoThread
  /\ NotifyOne([pc EXCEPT ![w] = AfterPromote(w)], "leaderWait", "becomeLeader")
  /\ UNCHANGED <<tasks, stop, task, callerPc, submitted, finished>>

RunTask(w) ==
  /\ pc[w] = "runTask"
  /\ finished' = finished \cup {task[w]}
  /\ task' = [task EXCEPT ![w] = NoTask]
  /\ pc' = [pc EXCEPT ![w] = "becomeLeader"]
  /\ UNCHANGED <<tasks, stop, currentLeader, callerPc, submitted>>

\* std::condition_variable may wake a thread nobody notified.
SpuriousWakeup(w) ==
  /\ \/ Asleep("leaderWait", w) /\ pc' = [pc EXCEPT ![w] = "becomeLeader"]
     \/ Asleep("taskWait", w) /\ pc' = [pc EXCEPT ![w] = "takeTask"]
  /\ UNCHANGED <<tasks, stop, currentLeader, task, callerPc, submitted, finished>>

PoolStep(w) == BecomeLeader(w) \/ TakeTask(w) \/ PromoteNewLeader(w)

ExitStep == ExitNotifyTask \/ ExitNotifyLeader \/ ExitJoin

Next ==
  \/ \E t \in Tasks : Enqueue(t)
  \/ ExitSetStop
  \/ ExitStep
  \/ \E w \in Workers : PoolStep(w) \/ RunTask(w) \/ SpuriousWakeup(w)

SafeSpec == Init /\ [][Next]_vars

(***************************************************************************)
(* A runnable thread is eventually scheduled, and exit() once entered goes *)
(* on.  Nothing makes the user call the pool, a sleeping thread wake up,   *)
(* or a task (a whole client session) end.                                 *)
(***************************************************************************)
Spec ==
  /\ SafeSpec
  /\ \A w \in Workers : WF_vars(PoolStep(w))
  /\ WF_vars(ExitStep)

-----------------------------------------------------------------------------
TypeOK ==
  /\ tasks \in Seq(Tasks)
  /\ stop \in BOOLEAN
  /\ currentLeader \in Workers \cup {NoThread}
  /\ task \in [Workers -> Tasks \cup {NoTask}]
  /\ pc \in [Workers -> WorkerPc]
  /\ callerPc \in CallerPc
  /\ submitted \subseteq Tasks
  /\ finished \subseteq Tasks

(***************************************************************************)
(* Safety.                                                                 *)
(***************************************************************************)
LeaderPc == {"takeTask", "taskWait", "promote", "promoteAndReturn"}

Leading(w) == pc[w] \in LeaderPc

\* Between becomeLeader() and promoteNewLeader() a worker is the current
\* leader, so no two workers are there together: at most one thread ever
\* waits on `condition`, which is why enqueue() may notify just one.
LeaderExclusive == \A w \in Workers : Leading(w) <=> currentLeader = w

Queued(t) == \E i \in 1..Len(tasks) : tasks[i] = t

HeldBy(t, w) == task[w] = t

\* A task passed to enqueue() is in the queue once, or held by exactly one
\* worker that is about to run it or runs it, or has been run: the queue, the
\* local `task` and the promotion between them neither lose nor repeat one.
TasksAccounted ==
  /\ \A t \in Tasks : t \in submitted <=>
       Queued(t) \/ t \in finished \/ \E w \in Workers : HeldBy(t, w)
  /\ \A t \in finished : ~Queued(t) /\ \A w \in Workers : ~HeldBy(t, w)
  /\ \A w \in Workers : ~Queued(task[w])
  /\ \A w, x \in Workers : task[w] = task[x] => w = x \/ task[w] = NoTask
  /\ \A i, j \in 1..Len(tasks) : tasks[i] = tasks[j] => i = j

\* No follower sleeps on leaderCondition while the leadership is vacant,
\* unless a thread is on its way to take it: promoteNewLeader()'s single
\* notification is never lost, even when another thread overtakes the one
\* that was notified.
NoStrandedFollower ==
  currentLeader = NoThread /\ (\E w \in Workers : Asleep("leaderWait", w))
    => \E w \in Workers : pc[w] = "becomeLeader"

\* The leader never sleeps on `condition` with a task in the queue, nor with
\* the stop flag set once exit() has notified it.
NoStrandedLeader ==
  \A w \in Workers : Asleep("taskWait", w) =>
    tasks = <<>> /\ (stop => callerPc = "notifyTask")

\* When exit() has returned, every worker has returned and every task that
\* was ever enqueued has run to completion.
ExitDrains ==
  stop /\ callerPc = "idle" =>
    /\ \A w \in Workers : pc[w] = "returned"
    /\ finished = submitted

(***************************************************************************)
(* Liveness.                                                               *)
(***************************************************************************)
\* What the pool cannot promise by itself: that the tasks it runs end.
TasksEnd == \A w \in Workers : WF_vars(RunTask(w))

\* If tasks end, exit() returns: its join loop waits for no worker in vain.
ExitReturns == TasksEnd => (stop ~> (stop /\ callerPc = "idle"))

\* If tasks end, every task enqueue() was given is run to completion.
EveryTaskRuns == TasksEnd => \A t \in Tasks : t \in submitted ~> t \in finished

(***************************************************************************)
(* The pool implements TaskPool.                                           *)
(***************************************************************************)
Pool == INSTANCE TaskPool WITH
          pending <- tasks,
          running <- task,
          stopped <- stop,
          gone <- {w \in Workers : pc[w] = "returned"}

PoolSpec == Pool!Spec
PoolSafeSpec == Pool!SafeSpec
=============================================================================
