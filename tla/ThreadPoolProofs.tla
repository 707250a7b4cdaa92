-------------------------- MODULE ThreadPoolProofs --------------------------
(***************************************************************************)
(* For any number of workers and tasks: the safety properties of           *)
(* ThreadPool and its refinement of TaskPool's safety part.                *)
(*                                                                         *)
(* The invariants are proved in layers, each inductive relative to the     *)
(* ones before it: typing; exclusive leadership; no lost wakeup; where a   *)
(* task may be; what a returning worker knows.                             *)
(***************************************************************************)
EXTENDS ThreadPool, TLAPS

-----------------------------------------------------------------------------
(***************************************************************************)
(* Notification only moves sleepers of one condition variable.             *)
(***************************************************************************)

\* What NotifyOne does to the pcs: at most one sleeper resumes, it is one if
\* there was any, and every other worker has the pc it was given.
LEMMA NotifyOneEffect ==
  ASSUME TypeOK, NEW newpc \in [Workers -> WorkerPc],
         NEW label \in WorkerPc, NEW resume \in WorkerPc, resume # label,
         \A w \in Workers : pc[w] = label => newpc[w] = label,
         NotifyOne(newpc, label, resume)
  PROVE  /\ pc' \in [Workers -> WorkerPc]
         /\ \/ /\ \A w \in Workers : pc[w] # label
               /\ pc' = newpc
            \/ \E x \in Workers :
                 /\ pc[x] = label
                 /\ pc' = [newpc EXCEPT ![x] = resume]
  BY DEF NotifyOne, Asleep, TypeOK

\* The promotion ends the promoter's leadership and wakes at most one
\* follower, and one if any sleeps.
LEMMA PromoteEffect ==
  ASSUME TypeOK, NEW w \in Workers, PromoteNewLeader(w)
  PROVE  \/ /\ \A x \in Workers : pc[x] # "leaderWait"
            /\ pc' = [pc EXCEPT ![w] = AfterPromote(w)]
         \/ \E x \in Workers :
              /\ x # w /\ pc[x] = "leaderWait"
              /\ pc' = [pc EXCEPT ![w] = AfterPromote(w), ![x] = "becomeLeader"]
<1> DEFINE newpc == [pc EXCEPT ![w] = AfterPromote(w)]
<1>1. newpc \in [Workers -> WorkerPc]
  BY DEF TypeOK, AfterPromote, WorkerPc
<1>2. \A x \in Workers : pc[x] = "leaderWait" => newpc[x] = "leaderWait"
  BY DEF PromoteNewLeader, TypeOK
<1>3. pc[w] # "leaderWait"
  BY DEF PromoteNewLeader
<1> HIDE DEF newpc
<1>4. NotifyOne(newpc, "leaderWait", "becomeLeader")
  BY DEF PromoteNewLeader, newpc
<1>5. \/ (\A x \in Workers : pc[x] # "leaderWait") /\ pc' = newpc
      \/ \E x \in Workers : pc[x] = "leaderWait" /\ pc' = [newpc EXCEPT ![x] = "becomeLeader"]
  BY <1>1, <1>2, <1>4, NotifyOneEffect DEF WorkerPc
<1> QED BY <1>3, <1>5 DEF newpc

-----------------------------------------------------------------------------
(***************************************************************************)
(* Typing, and which workers hold a task.                                  *)
(***************************************************************************)

\* A worker's local `task` is set from the moment it pops the queue until the
\* call returns.
HoldsTask(w) == pc[w] \in {"promote", "runTask"}

TaskHolders ==
  \A w \in Workers : /\ HoldsTask(w) => task[w] \in Tasks
                     /\ ~HoldsTask(w) => task[w] = NoTask

TypeInv == TypeOK /\ TaskHolders

LEMMA TypeInvInit == Init => TypeInv
<1> SUFFICES ASSUME Init PROVE TypeInv
  OBVIOUS
<1>1. tasks \in Seq(Tasks)
  BY DEF Init
<1>2. TypeOK
  BY <1>1, Zenon DEF Init, TypeOK, WorkerPc, CallerPc
<1>3. TaskHolders
  BY DEF Init, TaskHolders, HoldsTask
<1> QED BY <1>2, <1>3 DEF TypeInv

LEMMA TypeInvStep == TypeInv /\ [Next]_vars => TypeInv'
<1> SUFFICES ASSUME TypeInv, [Next]_vars PROVE TypeInv'
  OBVIOUS
<1> USE DEF TypeInv, TypeOK, TaskHolders, HoldsTask
<1>1. ASSUME NEW t \in Tasks, Enqueue(t) PROVE TypeInv'
  <2>1. NotifyOne(pc, "taskWait", "takeTask")
    BY <1>1 DEF Enqueue
  <2>2. pc' = pc \/ \E x \in Workers : pc[x] = "taskWait" /\ pc' = [pc EXCEPT ![x] = "takeTask"]
    BY <2>1, NotifyOneEffect DEF WorkerPc
  <2> QED BY <1>1, <2>2 DEF Enqueue, WorkerPc
<1>2. ASSUME ExitSetStop PROVE TypeInv'
  BY <1>2 DEF ExitSetStop, CallerPc
<1>3. ASSUME ExitNotifyTask PROVE TypeInv'
  BY <1>3 DEF ExitNotifyTask, NotifyAll, Asleep, CallerPc, WorkerPc
<1>4. ASSUME ExitNotifyLeader PROVE TypeInv'
  BY <1>4 DEF ExitNotifyLeader, NotifyAll, Asleep, CallerPc, WorkerPc
<1>5. ASSUME ExitJoin PROVE TypeInv'
  BY <1>5 DEF ExitJoin, CallerPc
<1>6. ASSUME NEW w \in Workers, BecomeLeader(w) PROVE TypeInv'
  BY <1>6 DEF BecomeLeader, WorkerPc
<1>7. ASSUME NEW w \in Workers, TakeTask(w) PROVE TypeInv'
  BY <1>7 DEF TakeTask, WorkerPc
<1>8. ASSUME NEW w \in Workers, PromoteNewLeader(w) PROVE TypeInv'
  <2>1. CASE pc' = [pc EXCEPT ![w] = AfterPromote(w)]
    BY <1>8, <2>1 DEF PromoteNewLeader, AfterPromote, WorkerPc
  <2>2. ASSUME NEW x \in Workers, x # w, pc[x] = "leaderWait",
               pc' = [pc EXCEPT ![w] = AfterPromote(w), ![x] = "becomeLeader"]
        PROVE  TypeInv'
    BY <1>8, <2>2 DEF PromoteNewLeader, AfterPromote, WorkerPc
  <2> QED BY <1>8, <2>1, <2>2, PromoteEffect
<1>9. ASSUME NEW w \in Workers, RunTask(w) PROVE TypeInv'
  BY <1>9 DEF RunTask, WorkerPc
<1>10. ASSUME NEW w \in Workers, SpuriousWakeup(w) PROVE TypeInv'
  BY <1>10 DEF SpuriousWakeup, Asleep, WorkerPc
<1>11. CASE UNCHANGED vars
  BY <1>11 DEF vars
<1> QED
  BY <1>1, <1>2, <1>3, <1>4, <1>5, <1>6, <1>7, <1>8, <1>9, <1>10, <1>11
  DEF Next, ExitStep, PoolStep

LEMMA TypeInvCorrect == SafeSpec => []TypeInv
BY TypeInvInit, TypeInvStep, PTL DEF SafeSpec

\* Every reachable state of the pool is of the declared types.
THEOREM TypeCorrect == SafeSpec => []TypeOK
<1>1. TypeInv => TypeOK
  BY DEF TypeInv
<1> QED BY <1>1, TypeInvCorrect, PTL
-----------------------------------------------------------------------------
(***************************************************************************)
(* Exclusive leadership.                                                   *)
(***************************************************************************)
LEMMA LeaderExclusiveInit == Init => LeaderExclusive
BY PoolAssumption DEF Init, LeaderExclusive, Leading, LeaderPc

LEMMA LeaderExclusiveStep ==
  TypeInv /\ LeaderExclusive /\ [Next]_vars => LeaderExclusive'
<1> SUFFICES ASSUME TypeInv, LeaderExclusive, [Next]_vars PROVE LeaderExclusive'
  OBVIOUS
<1>0. TypeOK
  BY DEF TypeInv
<1>t. /\ currentLeader \in Workers \cup {NoThread}
      /\ pc \in [Workers -> WorkerPc]
  BY <1>0 DEF TypeOK
<1> USE DEF LeaderExclusive, Leading, LeaderPc
<1>1. ASSUME NEW t \in Tasks, Enqueue(t) PROVE LeaderExclusive'
  <2>1. NotifyOne(pc, "taskWait", "takeTask")
    BY <1>1 DEF Enqueue
  <2>2. pc' = pc \/ \E x \in Workers : pc[x] = "taskWait" /\ pc' = [pc EXCEPT ![x] = "takeTask"]
    BY <2>1, <1>0, <1>t, NotifyOneEffect DEF WorkerPc
  <2> QED BY <1>1, <1>t, <2>2 DEF Enqueue
<1>2. ASSUME ExitSetStop PROVE LeaderExclusive'
  BY <1>2 DEF ExitSetStop
<1>3. ASSUME ExitNotifyTask PROVE LeaderExclusive'
  BY <1>3, <1>t DEF ExitNotifyTask, NotifyAll, Asleep
<1>4. ASSUME ExitNotifyLeader PROVE LeaderExclusive'
  BY <1>4, <1>t DEF ExitNotifyLeader, NotifyAll, Asleep
<1>5. ASSUME ExitJoin PROVE LeaderExclusive'
  BY <1>5 DEF ExitJoin
<1>6. ASSUME NEW w \in Workers, BecomeLeader(w) PROVE LeaderExclusive'
  BY <1>6, <1>t, PoolAssumption DEF BecomeLeader, CanLead
<1>7. ASSUME NEW w \in Workers, TakeTask(w) PROVE LeaderExclusive'
  BY <1>7, <1>t DEF TakeTask
<1>8. ASSUME NEW w \in Workers, PromoteNewLeader(w) PROVE LeaderExclusive'
  <2>1. currentLeader = w /\ currentLeader' = NoThread
    BY <1>8 DEF PromoteNewLeader
  <2>2. AfterPromote(w) \notin LeaderPc
    BY DEF AfterPromote
  <2>3. CASE pc' = [pc EXCEPT ![w] = AfterPromote(w)]
    BY <1>t, <2>1, <2>2, <2>3, PoolAssumption
  <2>4. ASSUME NEW x \in Workers, x # w, pc[x] = "leaderWait",
               pc' = [pc EXCEPT ![w] = AfterPromote(w), ![x] = "becomeLeader"]
        PROVE  LeaderExclusive'
    BY <1>t, <2>1, <2>2, <2>4, PoolAssumption
  <2> QED BY <1>0, <1>8, <2>3, <2>4, PromoteEffect
<1>9. ASSUME NEW w \in Workers, RunTask(w) PROVE LeaderExclusive'
  BY <1>9, <1>t DEF RunTask
<1>10. ASSUME NEW w \in Workers, SpuriousWakeup(w) PROVE LeaderExclusive'
  BY <1>10, <1>t DEF SpuriousWakeup, Asleep
<1>11. CASE UNCHANGED vars
  BY <1>11 DEF vars
<1> QED
  BY <1>1, <1>2, <1>3, <1>4, <1>5, <1>6, <1>7, <1>8, <1>9, <1>10, <1>11
  DEF Next, ExitStep, PoolStep

\* At most one worker is between becomeLeader() and promoteNewLeader(), and
\* it is the one currentLeader names.
THEOREM LeaderExclusiveCorrect == SafeSpec => []LeaderExclusive
BY TypeInvCorrect, LeaderExclusiveInit, LeaderExclusiveStep, PTL DEF SafeSpec

-----------------------------------------------------------------------------
(***************************************************************************)
(* No wakeup is lost.                                                      *)
(***************************************************************************)
LEMMA NoStrandedFollowerStep ==
  TypeInv /\ LeaderExclusive /\ NoStrandedFollower /\ [Next]_vars
    => NoStrandedFollower'
<1> SUFFICES ASSUME TypeInv, LeaderExclusive, NoStrandedFollower, [Next]_vars
             PROVE  NoStrandedFollower'
  OBVIOUS
<1>0. TypeOK
  BY DEF TypeInv
<1>t. pc \in [Workers -> WorkerPc]
  BY <1>0 DEF TypeOK
<1> USE DEF NoStrandedFollower, Asleep
<1>1. ASSUME NEW t \in Tasks, Enqueue(t) PROVE NoStrandedFollower'
  <2>1. NotifyOne(pc, "taskWait", "takeTask")
    BY <1>1 DEF Enqueue
  <2>2. pc' = pc \/ \E x \in Workers : pc[x] = "taskWait" /\ pc' = [pc EXCEPT ![x] = "takeTask"]
    BY <2>1, <1>0, <1>t, NotifyOneEffect DEF WorkerPc
  <2> QED BY <1>1, <1>t, <2>2 DEF Enqueue
<1>2. ASSUME ExitSetStop PROVE NoStrandedFollower'
  BY <1>2 DEF ExitSetStop
<1>3. ASSUME ExitNotifyTask PROVE NoStrandedFollower'
  BY <1>3, <1>t DEF ExitNotifyTask, NotifyAll
<1>4. ASSUME ExitNotifyLeader PROVE NoStrandedFollower'
  BY <1>4, <1>t DEF ExitNotifyLeader, NotifyAll
<1>5. ASSUME ExitJoin PROVE NoStrandedFollower'
  BY <1>5 DEF ExitJoin
<1>6. ASSUME NEW w \in Workers, BecomeLeader(w) PROVE NoStrandedFollower'
  BY <1>6, <1>t, PoolAssumption DEF BecomeLeader, CanLead
<1>7. ASSUME NEW w \in Workers, TakeTask(w) PROVE NoStrandedFollower'
  <2>1. currentLeader = w
    BY <1>7 DEF TakeTask, LeaderExclusive, Leading, LeaderPc
  <2> QED BY <1>7, <2>1, PoolAssumption DEF TakeTask
<1>8. ASSUME NEW w \in Workers, PromoteNewLeader(w) PROVE NoStrandedFollower'
  <2>1. CASE /\ \A x \in Workers : pc[x] # "leaderWait"
             /\ pc' = [pc EXCEPT ![w] = AfterPromote(w)]
    BY <1>t, <2>1 DEF AfterPromote
  <2>2. ASSUME NEW x \in Workers, x # w, pc[x] = "leaderWait",
               pc' = [pc EXCEPT ![w] = AfterPromote(w), ![x] = "becomeLeader"]
        PROVE  NoStrandedFollower'
    BY <1>t, <2>2
  <2> QED BY <1>0, <1>8, <2>1, <2>2, PromoteEffect
<1>9. ASSUME NEW w \in Workers, RunTask(w) PROVE NoStrandedFollower'
  BY <1>9, <1>t DEF RunTask
<1>10. ASSUME NEW w \in Workers, SpuriousWakeup(w) PROVE NoStrandedFollower'
  BY <1>10, <1>t DEF SpuriousWakeup
<1>11. CASE UNCHANGED vars
  BY <1>11 DEF vars
<1> QED
  BY <1>1, <1>2, <1>3, <1>4, <1>5, <1>6, <1>7, <1>8, <1>9, <1>10, <1>11
  DEF Next, ExitStep, PoolStep

\* A follower never sleeps on while nobody leads or is about to lead: the one
\* notification of promoteNewLeader() is enough.
THEOREM NoStrandedFollowerCorrect == SafeSpec => []NoStrandedFollower
<1>1. Init => NoStrandedFollower
  BY DEF Init, NoStrandedFollower, Asleep
<1> QED
  BY <1>1, TypeInvCorrect, LeaderExclusiveCorrect, NoStrandedFollowerStep, PTL
  DEF SafeSpec

LEMMA NoStrandedLeaderStep ==
  TypeInv /\ LeaderExclusive /\ NoStrandedLeader /\ [Next]_vars
    => NoStrandedLeader'
<1> SUFFICES ASSUME TypeInv, LeaderExclusive, NoStrandedLeader, [Next]_vars
             PROVE  NoStrandedLeader'
  OBVIOUS
<1>0. TypeOK
  BY DEF TypeInv
<1>t. pc \in [Workers -> WorkerPc]
  BY <1>0 DEF TypeOK
<1>x. ASSUME NEW w \in Workers, NEW x \in Workers,
             pc[w] \in LeaderPc, pc[x] = "taskWait"
      PROVE  w = x
  BY <1>x, PoolAssumption DEF LeaderExclusive, Leading, LeaderPc
<1> USE DEF NoStrandedLeader, Asleep
<1>1. ASSUME NEW t \in Tasks, Enqueue(t) PROVE NoStrandedLeader'
  <2>1. NotifyOne(pc, "taskWait", "takeTask")
    BY <1>1 DEF Enqueue
  <2>2. \/ (\A x \in Workers : pc[x] # "taskWait") /\ pc' = pc
        \/ \E x \in Workers : pc[x] = "taskWait" /\ pc' = [pc EXCEPT ![x] = "takeTask"]
    BY <2>1, <1>0, <1>t, NotifyOneEffect DEF WorkerPc
  <2>3. \A x \in Workers : pc'[x] # "taskWait"
    BY <1>t, <1>x, <2>2 DEF LeaderPc
  <2> QED BY <2>3
<1>2. ASSUME ExitSetStop PROVE NoStrandedLeader'
  BY <1>2 DEF ExitSetStop
<1>3. ASSUME ExitNotifyTask PROVE NoStrandedLeader'
  BY <1>3, <1>t DEF ExitNotifyTask, NotifyAll
<1>4. ASSUME ExitNotifyLeader PROVE NoStrandedLeader'
  BY <1>4, <1>t DEF ExitNotifyLeader, NotifyAll
<1>5. ASSUME ExitJoin PROVE NoStrandedLeader'
  BY <1>5 DEF ExitJoin
<1>6. ASSUME NEW w \in Workers, BecomeLeader(w) PROVE NoStrandedLeader'
  BY <1>6, <1>t DEF BecomeLeader
<1>7. ASSUME NEW w \in Workers, TakeTask(w) PROVE NoStrandedLeader'
  <2>1. \A x \in Workers \ {w} : pc[x] # "taskWait" /\ pc'[x] = pc[x]
    BY <1>7, <1>t, <1>x DEF TakeTask, LeaderPc
  <2>2. pc'[w] = "taskWait" => tasks' = <<>> /\ ~stop'
    BY <1>7, <1>t DEF TakeTask
  <2> QED BY <2>1, <2>2
<1>8. ASSUME NEW w \in Workers, PromoteNewLeader(w) PROVE NoStrandedLeader'
  <2>1. \A x \in Workers : pc'[x] = "taskWait" => pc[x] = "taskWait"
    BY <1>0, <1>8, <1>t, PromoteEffect DEF AfterPromote
  <2> QED BY <1>8, <2>1 DEF PromoteNewLeader
<1>9. ASSUME NEW w \in Workers, RunTask(w) PROVE NoStrandedLeader'
  BY <1>9, <1>t DEF RunTask
<1>10. ASSUME NEW w \in Workers, SpuriousWakeup(w) PROVE NoStrandedLeader'
  BY <1>10, <1>t DEF SpuriousWakeup
<1>11. CASE UNCHANGED vars
  BY <1>11 DEF vars
<1> QED
  BY <1>1, <1>2, <1>3, <1>4, <1>5, <1>6, <1>7, <1>8, <1>9, <1>10, <1>11
  DEF Next, ExitStep, PoolStep

\* The leader never sleeps with work in the queue, nor through exit().
THEOREM NoStrandedLeaderCorrect == SafeSpec => []NoStrandedLeader
<1>1. Init => NoStrandedLeader
  BY DEF Init, NoStrandedLeader, Asleep
<1> QED
  BY <1>1, TypeInvCorrect, LeaderExclusiveCorrect, NoStrandedLeaderStep, PTL
  DEF SafeSpec

-----------------------------------------------------------------------------
(***************************************************************************)
(* No task is lost or run twice.                                           *)
(***************************************************************************)
LEMMA QueuedAfterAppend ==
  ASSUME NEW s \in Seq(Tasks), NEW t \in Tasks, NEW u
  PROVE  (\E i \in 1..Len(Append(s, t)) : Append(s, t)[i] = u)
           <=> (\E i \in 1..Len(s) : s[i] = u) \/ u = t
<1>1. /\ Len(s) \in Nat
      /\ Len(Append(s, t)) = Len(s) + 1
      /\ \A i \in 1..Len(s) : Append(s, t)[i] = s[i]
      /\ Append(s, t)[Len(s) + 1] = t
  OBVIOUS
<1> QED BY <1>1

Distinct(s) == \A i, j \in 1..Len(s) : s[i] = s[j] => i = j

LEMMA QueuedAfterTail ==
  ASSUME NEW s \in Seq(Tasks), s # <<>>, Distinct(s), NEW u
  PROVE  /\ (\E i \in 1..Len(Tail(s)) : Tail(s)[i] = u)
              <=> (\E i \in 1..Len(s) : s[i] = u) /\ u # Head(s)
         /\ Distinct(Tail(s))
<1>1. /\ Len(s) \in Nat /\ Len(s) >= 1
      /\ Len(Tail(s)) = Len(s) - 1
      /\ \A i \in 1..Len(s) - 1 : Tail(s)[i] = s[i + 1]
      /\ Head(s) = s[1]
  OBVIOUS
<1>2. Distinct(Tail(s))
  BY <1>1 DEF Distinct
<1>3. ASSUME NEW i \in 1..Len(Tail(s)), Tail(s)[i] = u
      PROVE  (\E j \in 1..Len(s) : s[j] = u) /\ u # Head(s)
  BY <1>1, <1>3 DEF Distinct
<1>4. ASSUME NEW i \in 1..Len(s), s[i] = u, u # Head(s)
      PROVE  \E j \in 1..Len(Tail(s)) : Tail(s)[j] = u
  <2>1. i - 1 \in 1..Len(Tail(s)) /\ Tail(s)[i - 1] = u
    BY <1>1, <1>4
  <2> QED BY <2>1
<1> QED BY <1>2, <1>3, <1>4

LEMMA TasksAccountedStep ==
  TypeInv /\ TasksAccounted /\ [Next]_vars => TasksAccounted'
<1> SUFFICES ASSUME TypeInv, TasksAccounted, [Next]_vars PROVE TasksAccounted'
  OBVIOUS
<1>t. /\ tasks \in Seq(Tasks)
      /\ task \in [Workers -> Tasks \cup {NoTask}]
      /\ NoTask \notin Tasks
      /\ finished \subseteq Tasks /\ submitted \subseteq Tasks
  BY PoolAssumption DEF TypeInv, TypeOK
<1>d. Distinct(tasks)
  BY DEF TasksAccounted, Distinct
<1>1. ASSUME NEW t \in Tasks, Enqueue(t) PROVE TasksAccounted'
  <2>1. \A u : Queued(u)' <=> Queued(u) \/ u = t
    BY <1>1, <1>t, QueuedAfterAppend DEF Enqueue, Queued
  <2>2. ~Queued(t) /\ t \notin finished /\ \A w \in Workers : ~HeldBy(t, w)
    BY <1>1 DEF Enqueue, TasksAccounted
  <2>3. Distinct(tasks)'
    <3>1. /\ Len(tasks) \in Nat
          /\ Len(tasks') = Len(tasks) + 1
          /\ \A i \in 1..Len(tasks) : tasks'[i] = tasks[i] /\ tasks'[i] # t
          /\ tasks'[Len(tasks) + 1] = t
      BY <1>1, <1>t, <2>2 DEF Enqueue, Queued
    <3> QED BY <1>d, <3>1 DEF Distinct
  <2>4. UNCHANGED <<task, finished>> /\ submitted' = submitted \cup {t}
    BY <1>1 DEF Enqueue
  <2> QED BY <1>t, <2>1, <2>2, <2>3, <2>4 DEF TasksAccounted, Distinct, HeldBy
<1>2. ASSUME NEW w \in Workers, TakeTask(w), tasks # <<>> PROVE TasksAccounted'
  <2>1. /\ tasks' = Tail(tasks)
        /\ task' = [task EXCEPT ![w] = Head(tasks)]
        /\ UNCHANGED <<submitted, finished>>
    BY <1>2 DEF TakeTask
  <2>2. task[w] = NoTask
    BY <1>2 DEF TakeTask, TypeInv, TaskHolders, HoldsTask
  <2>3. /\ \A u : Queued(u)' <=> Queued(u) /\ u # Head(tasks)
        /\ Distinct(tasks)'
    BY <1>2, <1>t, <1>d, <2>1, QueuedAfterTail DEF Queued, Distinct
  <2>4. Head(tasks) \in Tasks /\ Queued(Head(tasks))
    BY <1>2, <1>t DEF Queued
  <2>5. \A x \in Workers : task'[x] = IF x = w THEN Head(tasks) ELSE task[x]
    BY <1>t, <2>1
  <2> QED
    BY <1>t, <2>1, <2>2, <2>3, <2>4, <2>5 DEF TasksAccounted, Distinct, HeldBy
<1>3. ASSUME NEW w \in Workers, RunTask(w) PROVE TasksAccounted'
  <2>1. /\ finished' = finished \cup {task[w]}
        /\ \A x \in Workers : task'[x] = IF x = w THEN NoTask ELSE task[x]
        /\ UNCHANGED <<tasks, submitted>>
    BY <1>3, <1>t DEF RunTask
  <2>2. task[w] \in Tasks
    BY <1>3 DEF RunTask, TypeInv, TaskHolders, HoldsTask
  <2>3. \A u : Queued(u)' <=> Queued(u)
    BY <2>1 DEF Queued
  <2>4. ~Queued(NoTask)
    BY <1>t DEF Queued
  <2> QED
    BY <1>t, <1>d, <2>1, <2>2, <2>3, <2>4 DEF TasksAccounted, HeldBy, Distinct
<1>4. CASE UNCHANGED <<tasks, task, submitted, finished>>
  BY <1>4 DEF TasksAccounted, Queued, HeldBy
<1>5. ASSUME NEW w \in Workers, TakeTask(w), tasks = <<>>
      PROVE  UNCHANGED <<tasks, task, submitted, finished>>
  BY <1>5 DEF TakeTask
<1>6. ASSUME \/ ExitSetStop \/ ExitStep \/ UNCHANGED vars
             \/ \E w \in Workers : BecomeLeader(w) \/ PromoteNewLeader(w) \/ SpuriousWakeup(w)
      PROVE  UNCHANGED <<tasks, task, submitted, finished>>
  BY <1>6 DEF ExitSetStop, ExitStep, ExitNotifyTask, ExitNotifyLeader, ExitJoin,
     BecomeLeader, PromoteNewLeader, SpuriousWakeup, vars
<1> QED BY <1>1, <1>2, <1>3, <1>4, <1>5, <1>6 DEF Next, PoolStep

\* Every task passed to enqueue() is queued once, held by one worker, or has
\* been run, and nothing else is.
THEOREM TasksAccountedCorrect == SafeSpec => []TasksAccounted
<1>1. Init => TasksAccounted
  BY PoolAssumption DEF Init, TasksAccounted, Queued, HeldBy
<1> QED BY <1>1, TypeInvCorrect, TasksAccountedStep, PTL DEF SafeSpec

-----------------------------------------------------------------------------
(***************************************************************************)
(* exit() drains the queue.  Only the leader that saw the stop flag and an *)
(* empty queue returns, and from then on no task can be enqueued, so the   *)
(* queue stays empty.                                                      *)
(***************************************************************************)
Returning(w) == pc[w] \in {"promoteAndReturn", "returned"}

DrainInv ==
  /\ callerPc # "idle" => stop
  /\ \A w \in Workers : Returning(w) => stop /\ tasks = <<>>
  /\ stop /\ callerPc = "idle" => \A w \in Workers : pc[w] = "returned"

LEMMA DrainInvStep == TypeInv /\ DrainInv /\ [Next]_vars => DrainInv'
<1> SUFFICES ASSUME TypeInv, DrainInv, [Next]_vars PROVE DrainInv'
  OBVIOUS
<1>0. TypeOK
  BY DEF TypeInv
<1>t. pc \in [Workers -> WorkerPc] /\ callerPc \in CallerPc
  BY <1>0 DEF TypeOK
<1> USE DEF DrainInv, Returning
<1>1. ASSUME NEW t \in Tasks, Enqueue(t) PROVE DrainInv'
  <2>1. ~stop /\ UNCHANGED <<stop, callerPc>>
    BY <1>1 DEF Enqueue, UserMayEnqueue
  <2>2. NotifyOne(pc, "taskWait", "takeTask")
    BY <1>1 DEF Enqueue
  <2>3. pc' = pc \/ \E x \in Workers : pc[x] = "taskWait" /\ pc' = [pc EXCEPT ![x] = "takeTask"]
    BY <2>2, <1>0, <1>t, NotifyOneEffect DEF WorkerPc
  <2>4. \A w \in Workers : ~Returning(w)'
    BY <1>t, <2>1, <2>3
  <2> QED BY <2>1, <2>4
<1>2. ASSUME ExitSetStop PROVE DrainInv'
  BY <1>2 DEF ExitSetStop
<1>3. ASSUME ExitNotifyTask PROVE DrainInv'
  BY <1>3, <1>t DEF ExitNotifyTask, NotifyAll, Asleep
<1>4. ASSUME ExitNotifyLeader PROVE DrainInv'
  BY <1>4, <1>t DEF ExitNotifyLeader, NotifyAll, Asleep
<1>5. ASSUME ExitJoin PROVE DrainInv'
  BY <1>5 DEF ExitJoin
<1>6. ASSUME NEW w \in Workers, BecomeLeader(w) PROVE DrainInv'
  BY <1>6, <1>t DEF BecomeLeader
<1>7. ASSUME NEW w \in Workers, TakeTask(w) PROVE DrainInv'
  BY <1>7, <1>t DEF TakeTask
<1>8. ASSUME NEW w \in Workers, PromoteNewLeader(w) PROVE DrainInv'
  <2>1. UNCHANGED <<tasks, stop, callerPc>> /\ pc[w] \in {"promote", "promoteAndReturn"}
    BY <1>8 DEF PromoteNewLeader
  <2>2. \A x \in Workers : Returning(x)' => Returning(x)
    BY <1>0, <1>t, <1>8, <2>1, PromoteEffect DEF AfterPromote
  <2>3. ~(stop /\ callerPc = "idle")
    BY <2>1
  <2> QED BY <2>1, <2>2, <2>3
<1>9. ASSUME NEW w \in Workers, RunTask(w) PROVE DrainInv'
  BY <1>9, <1>t DEF RunTask
<1>10. ASSUME NEW w \in Workers, SpuriousWakeup(w) PROVE DrainInv'
  BY <1>10, <1>t DEF SpuriousWakeup, Asleep
<1>11. CASE UNCHANGED vars
  BY <1>11 DEF vars
<1> QED
  BY <1>1, <1>2, <1>3, <1>4, <1>5, <1>6, <1>7, <1>8, <1>9, <1>10, <1>11
  DEF Next, ExitStep, PoolStep

LEMMA DrainInvCorrect == SafeSpec => []DrainInv
<1>1. Init => DrainInv
  BY DEF Init, DrainInv, Returning
<1> QED BY <1>1, TypeInvCorrect, DrainInvStep, PTL DEF SafeSpec

\* Once exit() has returned, every worker has returned and every task ever
\* passed to enqueue() has run to completion.
THEOREM ExitDrainsCorrect == SafeSpec => []ExitDrains
<1>1. TypeInv /\ DrainInv /\ TasksAccounted => ExitDrains
  <2> SUFFICES ASSUME TypeInv, DrainInv, TasksAccounted, stop, callerPc = "idle"
               PROVE  (\A w \in Workers : pc[w] = "returned") /\ finished = submitted
    BY DEF ExitDrains
  <2>1. \A w \in Workers : pc[w] = "returned"
    BY DEF DrainInv
  <2>2. tasks = <<>>
    BY <2>1, PoolAssumption DEF DrainInv, Returning
  <2>3. \A t \in Tasks : ~Queued(t) /\ \A w \in Workers : ~HeldBy(t, w)
    BY <2>1, <2>2, PoolAssumption
    DEF Queued, HeldBy, TypeInv, TaskHolders, HoldsTask
  <2>4. \A t \in Tasks : t \in submitted <=> t \in finished
    BY <2>3 DEF TasksAccounted
  <2> QED BY <2>1, <2>4 DEF TypeInv, TypeOK
<1> QED BY <1>1, TypeInvCorrect, DrainInvCorrect, TasksAccountedCorrect, PTL

-----------------------------------------------------------------------------
(***************************************************************************)
(* The pool implements TaskPool: enqueue() submits, popping the queue      *)
(* starts a task, the call's return finishes it, setting the flag stops    *)
(* the pool and the promotion of a returning leader is its leaving;        *)
(* leadership and the condition variables are stuttering.                  *)
(***************************************************************************)
LEMMA PoolStepRefines == TypeInv /\ DrainInv /\ [Next]_vars => [Pool!Next]_(Pool!poolVars)
<1> SUFFICES ASSUME TypeInv, DrainInv, [Next]_vars
             PROVE  [Pool!Next]_(Pool!poolVars)
  OBVIOUS
<1>0. TypeOK
  BY DEF TypeInv
<1>t. /\ pc \in [Workers -> WorkerPc]
      /\ task \in [Workers -> Tasks \cup {NoTask}]
      /\ NoTask \notin Tasks
  BY <1>0, PoolAssumption DEF TypeOK
<1> DEFINE gone == {w \in Workers : pc[w] = "returned"}
<1>s. ASSUME UNCHANGED <<tasks, submitted, task, finished, stop, gone>>
      PROVE  UNCHANGED Pool!poolVars
  BY <1>s DEF Pool!poolVars
<1>1. ASSUME NEW t \in Tasks, Enqueue(t) PROVE Pool!Submit(t)
  <2>1. NotifyOne(pc, "taskWait", "takeTask")
    BY <1>1 DEF Enqueue
  <2>2. pc' = pc \/ \E x \in Workers : pc[x] = "taskWait" /\ pc' = [pc EXCEPT ![x] = "takeTask"]
    BY <2>1, <1>0, <1>t, NotifyOneEffect DEF WorkerPc
  <2>3. gone' = gone
    BY <1>t, <2>2
  <2> QED BY <1>1, <2>3 DEF Enqueue, UserMayEnqueue, Pool!Submit
<1>2. ASSUME ExitSetStop PROVE Pool!Stop
  BY <1>2 DEF ExitSetStop, Pool!Stop
<1>3. ASSUME ExitStep PROVE UNCHANGED Pool!poolVars
  <2>1. gone' = gone
    BY <1>3, <1>t DEF ExitStep, ExitNotifyTask, ExitNotifyLeader, ExitJoin, NotifyAll, Asleep
  <2>2. UNCHANGED <<tasks, submitted, task, finished, stop>>
    BY <1>3 DEF ExitStep, ExitNotifyTask, ExitNotifyLeader, ExitJoin
  <2> QED BY <1>s, <2>1, <2>2
<1>4. ASSUME NEW w \in Workers, BecomeLeader(w) \/ SpuriousWakeup(w)
      PROVE  UNCHANGED Pool!poolVars
  <2>1. gone' = gone
    BY <1>4, <1>t DEF BecomeLeader, SpuriousWakeup, Asleep
  <2>2. UNCHANGED <<tasks, submitted, task, finished, stop>>
    BY <1>4 DEF BecomeLeader, SpuriousWakeup
  <2> QED BY <1>s, <2>1, <2>2
<1>5. ASSUME NEW w \in Workers, TakeTask(w)
      PROVE  Pool!Start(w) \/ UNCHANGED Pool!poolVars
  <2>1. gone' = gone
    BY <1>5, <1>t DEF TakeTask
  <2>2. task[w] = NoTask /\ w \notin gone
    BY <1>5 DEF TakeTask, TypeInv, TaskHolders, HoldsTask
  <2>3. CASE tasks # <<>>
    BY <1>5, <2>1, <2>2, <2>3 DEF TakeTask, Pool!Start, Pool!Idle
  <2>4. CASE tasks = <<>>
    <3>1. UNCHANGED <<tasks, submitted, task, finished, stop>>
      BY <1>5, <2>4 DEF TakeTask
    <3> QED BY <1>s, <2>1, <3>1
  <2> QED BY <2>3, <2>4
<1>6. ASSUME NEW w \in Workers, PromoteNewLeader(w)
      PROVE  Pool!Leave(w) \/ UNCHANGED Pool!poolVars
  <2>1. UNCHANGED <<tasks, submitted, task, finished, stop>>
    BY <1>6 DEF PromoteNewLeader
  <2>2. CASE pc[w] = "promote"
    <3>1. gone' = gone
      BY <1>0, <1>t, <1>6, <2>2, PromoteEffect DEF AfterPromote
    <3> QED BY <1>s, <2>1, <3>1
  <2>3. CASE pc[w] = "promoteAndReturn"
    <3>1. gone' = gone \cup {w}
      BY <1>0, <1>t, <1>6, <2>3, PromoteEffect DEF AfterPromote
    <3>2. task[w] = NoTask /\ w \notin gone
      BY <2>3 DEF TypeInv, TaskHolders, HoldsTask
    <3>3. stop /\ tasks = <<>>
      BY <2>3 DEF DrainInv, Returning
    <3> QED BY <2>1, <3>1, <3>2, <3>3 DEF Pool!Leave, Pool!Idle
  <2> QED BY <1>6, <2>2, <2>3 DEF PromoteNewLeader
<1>7. ASSUME NEW w \in Workers, RunTask(w) PROVE Pool!Finish(w)
  <2>1. gone' = gone
    BY <1>7, <1>t DEF RunTask
  <2>2. task[w] # NoTask
    BY <1>7, <1>t DEF RunTask, TypeInv, TaskHolders, HoldsTask
  <2> QED BY <1>7, <2>1, <2>2 DEF RunTask, Pool!Finish
<1>8. CASE UNCHANGED vars
  BY <1>8 DEF vars, Pool!poolVars
<1> QED
  BY <1>1, <1>2, <1>3, <1>4, <1>5, <1>6, <1>7, <1>8
  DEF Next, PoolStep, Pool!Next

\* Every behaviour of the leader-follower pool is one TaskPool allows: tasks
\* are started once each in the order of submission, and a worker leaves
\* only a stopped and drained pool.
THEOREM PoolRefines == SafeSpec => PoolSafeSpec
<1>1. Init => Pool!Init
  <2> SUFFICES ASSUME Init PROVE Pool!Init
    OBVIOUS
  <2>1. {w \in Workers : pc[w] = "returned"} = {}
    BY DEF Init
  <2> QED BY <2>1 DEF Init, Pool!Init
<1> QED
  BY <1>1, TypeInvCorrect, DrainInvCorrect, PoolStepRefines, PTL
  DEF SafeSpec, PoolSafeSpec, Pool!SafeSpec
=============================================================================
