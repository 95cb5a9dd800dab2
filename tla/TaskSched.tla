------------------------------ MODULE TaskSched ------------------------------
(***************************************************************************)
(* The refinement mapping from Task to Sched: the abstract lists are read  *)
(* off the pointers.  A wake-up takes effect when wake_up_queue starts     *)
(* (what its loop has not moved yet counts as moved), a block when         *)
(* schedule() switches away from the task.                                 *)
(***************************************************************************)
EXTENDS Task, Sequences, FiniteSets

\* Every process takes two pages of the machine's memory.
ASSUME TaskFinite == IsFiniteSet(Task)

\* The tasks met when `next' is followed from x, until it leads to `end' or
\* to NULL, or for as many steps as there are tasks.
Walk(next, x, end) ==
  LET w[n \in 0..Cardinality(AllTask)] ==
        [y \in Link |-> IF n = 0 \/ y = NULL THEN <<>>
                        ELSE <<y>> \o (IF next[y] = end THEN <<>> ELSE w[n - 1][next[y]])]
  IN  w[Cardinality(AllTask)][x]

\* The run list as schedule() goes round it, from the idle task.
RunOrder == Walk(run_next, idle_task, idle_task)

\* The queue q, oldest first; the task that do_block has just put on it, at
\* the end, counts as ready until schedule() has taken it off the run list.
Blocking(q) == pc = "schedule" /\ state[current] # "RUNNING" /\ queue[current] = q

QueueOrder(q) == Walk(queue_next, first[q], first[q])

WakeOrder == Walk(queue_next, wt, first[keyboard_queue])

ReadyList ==
  Tail(RunOrder) \o (IF pc = "waking" THEN WakeOrder ELSE <<>>)

WaitingList ==
  [q \in Queue |->
     IF pc = "waking" /\ q = keyboard_queue THEN <<>>
     ELSE IF Blocking(q) THEN SubSeq(QueueOrder(q), 1, Len(QueueOrder(q)) - 1)
     ELSE QueueOrder(q)]

Abstract == INSTANCE Sched WITH ready <- ReadyList, waiting <- WaitingList

-----------------------------------------------------------------------------
(* Following the pointers finds every task of a list, once, and comes to   *)
(* an end.                                                                 *)

\* s is the list from x to `end': these tasks, each once.
IsOrder(next, x, end, S, s) ==
  /\ s \in Seq(AllTask)
  /\ S = {s[i] : i \in 1..Len(s)}
  /\ \A i, j \in 1..Len(s) : s[i] = s[j] => i = j
  /\ IF x = NULL THEN s = <<>> ELSE s # <<>> /\ s[1] = x
  /\ \A i \in 1..Len(s) :
       IF i = Len(s) THEN next[s[i]] \in {end, NULL}
                     ELSE next[s[i]] = s[i + 1] /\ s[i + 1] \notin {end, NULL}

\* The run list and the queues can be read off the pointers in their order,
\* also in the middle of a wake-up, and a task that blocks is the last of its
\* queue.
ListsInOrder ==
  /\ IsOrder(run_next, idle_task, idle_task, OnRunList, RunOrder)
  /\ \A q \in Queue :
       ~(pc = "waking" /\ q = keyboard_queue)
         => IsOrder(queue_next, first[q], first[q], Waiters(q), QueueOrder(q))
  /\ pc = "waking"
       => IsOrder(queue_next, wt, first[keyboard_queue], Waiters(keyboard_queue), WakeOrder)
  /\ \A t \in Task : state[t] # "RUNNING" => queue[t] \in Queue
  /\ \A q \in Queue :
       Blocking(q) => QueueOrder(q)[Len(QueueOrder(q))] = current

-----------------------------------------------------------------------------
\* The pointer code with its locks and interrupts does what Sched says: list
\* order, first-in first-out queues, a wake-up that moves every waiter, and
\* nobody switched to out of turn.
ImplementsSched == Abstract!Spec

\* schedule(), called from the timer, never leaves the processor with one task
\* while another is runnable.
YieldsFairly == Abstract!Fairness
=============================================================================
