----------------------------- MODULE Task_proofs -----------------------------
(***************************************************************************)
(* The invariants of Task, for every set of processes and every timeslice; *)
(* and that Task implements Sched, for every finite set of processes.      *)
(***************************************************************************)
EXTENDS TaskSched, FiniteSetTheorems, SequenceTheorems, TLAPS

-----------------------------------------------------------------------------
(* Rings.                                                                  *)

\* A pointer over the elements of T.
Ptr(T) == T \cup {NULL}

(* Inserting keeps pointers pointers, links the new element to the anchor *)
(* and leaves the links of elements outside the ring alone.               *)
LEMMA InsertFrame ==
  ASSUME NEW T, NULL \notin T,
         NEW next \in [T -> Ptr(T)], NEW prev \in [T -> Ptr(T)],
         NEW S \in SUBSET T, NEW a, NEW x \in T \ S,
         IsRing(next, prev, S, a)
  PROVE  /\ InsertNext(next, prev, a, x) \in [T -> Ptr(T)]
         /\ InsertPrev(next, prev, a, x) \in [T -> Ptr(T)]
         /\ InsertNext(next, prev, a, x)[x] = a
         /\ \A y \in S : next[y] # NULL => InsertNext(next, prev, a, x)[y] # NULL
         /\ \A y \in T \ (S \cup {x}) :
              /\ InsertNext(next, prev, a, x)[y] = next[y]
              /\ InsertPrev(next, prev, a, x)[y] = prev[y]
  BY DEF IsRing, Linked, InsertNext, InsertPrev, Ptr

(* Inserting before the anchor keeps one ring, with the new element.       *)
LEMMA InsertRing ==
  ASSUME NEW T, NULL \notin T,
         NEW next \in [T -> Ptr(T)], NEW prev \in [T -> Ptr(T)],
         NEW S \in SUBSET T, NEW a, NEW x \in T \ S,
         IsRing(next, prev, S, a)
  PROVE  IsRing(InsertNext(next, prev, a, x), InsertPrev(next, prev, a, x),
                S \cup {x}, a)
<1> DEFINE n == InsertNext(next, prev, a, x)
           p == InsertPrev(next, prev, a, x)
           z == IF next[a] = NULL THEN a ELSE prev[a]
<1>1. /\ n \in [T -> Ptr(T)] /\ p \in [T -> Ptr(T)]
      /\ z \in S
      /\ n[x] = a /\ n[z] = x
      /\ \A y \in T \ {x, z} : n[y] = next[y]
      /\ p[x] = z /\ p[a] = x
      /\ \A y \in T \ {x, a} : p[y] = prev[y]
  BY DEF IsRing, Linked, InsertNext, InsertPrev, Ptr
<1>2. a \in S
  BY DEF IsRing
<1>3. CASE S = {a} /\ next[a] = NULL /\ prev[a] = NULL
  <2> HIDE DEF n, p
  <2>1. z = a
    BY <1>3
  <2>2. Linked(n, p, S \cup {x})
    BY <1>1, <1>3, <2>1 DEF Linked
  <2>3. Connected(n, S \cup {x}, a)
    BY <1>1, <1>3, <2>1 DEF Connected
  <2>4. QED
    BY <1>2, <2>2, <2>3 DEF IsRing, n, p
<1>4. CASE Linked(next, prev, S) /\ Connected(next, S, a)
  <2>1. z = prev[a] /\ next[z] = a
    BY <1>2, <1>4 DEF Linked
  <2> HIDE DEF n, p, z
  <2>2. \A y \in S \ {a} : prev[y] # z
    BY <1>2, <1>4, <2>1 DEF Linked
  <2>3. Linked(n, p, S \cup {x})
    <3> SUFFICES ASSUME NEW y \in S \cup {x}
                 PROVE  /\ n[y] \in S \cup {x} /\ p[n[y]] = y
                        /\ p[y] \in S \cup {x} /\ n[p[y]] = y
      BY DEF Linked
    <3>1. CASE y = x
      BY <3>1, <1>1, <1>2
    <3>2. CASE y \in S
      <4>1. n[y] \in S \cup {x} /\ p[n[y]] = y
        <5>1. CASE y = z
          BY <5>1, <1>1
        <5>2. CASE y # z
          <6>1. n[y] = next[y] /\ next[y] \in S /\ prev[next[y]] = y
            BY <5>2, <3>2, <1>1, <1>4 DEF Linked
          <6>2. next[y] # a
            BY <6>1, <5>2, <2>1
          <6>3. QED
            BY <6>1, <6>2, <1>1
        <5>3. QED
          BY <5>1, <5>2
      <4>2. p[y] \in S \cup {x} /\ n[p[y]] = y
        <5>1. CASE y = a
          BY <5>1, <1>1
        <5>2. CASE y # a
          BY <5>2, <3>2, <1>1, <1>4, <2>2 DEF Linked
        <5>3. QED
          BY <5>1, <5>2
      <4>3. QED
        BY <4>1, <4>2
    <3>3. QED
      BY <3>1, <3>2
  <2>4. Connected(n, S \cup {x}, a)
    <3> SUFFICES ASSUME NEW C \in SUBSET (S \cup {x}),
                        a \in C, \A y \in C : n[y] \in C
                 PROVE  C = S \cup {x}
      BY DEF Connected
    <3>1. \A y \in C \ {x} : next[y] \in C \ {x}
      <4> SUFFICES ASSUME NEW y \in C \ {x}
                   PROVE  next[y] \in C \ {x}
        OBVIOUS
      <4>1. CASE y = z
        BY <4>1, <2>1, <1>2
      <4>2. CASE y # z
        <5>1. n[y] = next[y] /\ next[y] \in S
          BY <4>2, <1>1, <1>4 DEF Linked
        <5>2. QED
          BY <5>1
      <4>3. QED
        BY <4>1, <4>2
    <3>2. C \ {x} = S
      <4>1. C \ {x} \in SUBSET S /\ a \in C \ {x}
        BY <1>2
      <4>2. QED
        BY <4>1, <3>1, <1>4 DEF Connected
    <3>3. x \in C
      BY <3>2, <1>1
    <3>4. QED
      BY <3>2, <3>3
  <2>5. QED
    BY <1>2, <2>3, <2>4 DEF IsRing, n, p
<1>5. QED
  BY <1>3, <1>4 DEF IsRing

-----------------------------------------------------------------------------
(* A ring of more than its anchor is linked, and only the anchor can be    *)
(* its own neighbour.                                                      *)
LEMMA RingLinked ==
  ASSUME NEW T, NULL \notin T,
         NEW next \in [T -> Ptr(T)], NEW prev \in [T -> Ptr(T)],
         NEW S \in SUBSET T, NEW a, NEW x \in S \ {a},
         IsRing(next, prev, S, a)
  PROVE  /\ Linked(next, prev, S) /\ Connected(next, S, a)
         /\ next[x] \in S /\ next[x] # x
         /\ prev[x] \in S /\ prev[x] # x
<1>1. Linked(next, prev, S) /\ Connected(next, S, a) /\ a \in S
  BY DEF IsRing
<1>2. next[x] # x
  <2> SUFFICES ASSUME next[x] = x
               PROVE  FALSE
    OBVIOUS
  <2>1. \A y \in S \ {x} : next[y] \in S \ {x}
    BY <1>1 DEF Linked
  <2>2. S \ {x} = S
    BY <2>1, <1>1 DEF Connected
  <2>3. QED
    BY <2>2
<1>3. QED
  BY <1>1, <1>2 DEF Linked

(* Removing an element other than the anchor keeps one ring, without it.   *)
LEMMA RemoveRing ==
  ASSUME NEW T, NULL \notin T,
         NEW next \in [T -> Ptr(T)], NEW prev \in [T -> Ptr(T)],
         NEW S \in SUBSET T, NEW a, NEW x \in S \ {a},
         IsRing(next, prev, S, a)
  PROVE  /\ RemoveNext(next, prev, x) \in [T -> Ptr(T)]
         /\ RemovePrev(next, prev, x) \in [T -> Ptr(T)]
         /\ IsRing(RemoveNext(next, prev, x), RemovePrev(next, prev, x), S \ {x}, a)
         /\ Linked(RemoveNext(next, prev, x), RemovePrev(next, prev, x), S \ {x})
<1> DEFINE n == RemoveNext(next, prev, x)
           p == RemovePrev(next, prev, x)
<1>1. /\ Linked(next, prev, S) /\ Connected(next, S, a)
      /\ next[x] \in S /\ next[x] # x
      /\ prev[x] \in S /\ prev[x] # x
      /\ a \in S
  BY RingLinked DEF IsRing
<1>2. /\ n \in [T -> Ptr(T)] /\ p \in [T -> Ptr(T)]
      /\ n[x] = NULL /\ p[x] = NULL
      /\ n[prev[x]] = next[x] /\ p[next[x]] = prev[x]
      /\ \A y \in T \ {x, prev[x]} : n[y] = next[y]
      /\ \A y \in T \ {x, next[x]} : p[y] = prev[y]
  BY <1>1 DEF RemoveNext, RemovePrev, Ptr
<1> HIDE DEF n, p
<1>3. Linked(n, p, S \ {x})
  <2> SUFFICES ASSUME NEW y \in S \ {x}
               PROVE  /\ n[y] \in S \ {x} /\ p[n[y]] = y
                      /\ p[y] \in S \ {x} /\ n[p[y]] = y
    BY DEF Linked
  <2>1. n[y] \in S \ {x} /\ p[n[y]] = y
    <3>1. CASE y = prev[x]
      BY <3>1, <1>1, <1>2
    <3>2. CASE y # prev[x]
      <4>1. n[y] = next[y] /\ next[y] \in S /\ prev[next[y]] = y
        BY <3>2, <1>1, <1>2 DEF Linked
      <4>2. next[y] # x /\ next[y] # next[x]
        BY <4>1, <3>2, <1>1 DEF Linked
      <4>3. QED
        BY <4>1, <4>2, <1>2
    <3>3. QED
      BY <3>1, <3>2
  <2>2. p[y] \in S \ {x} /\ n[p[y]] = y
    <3>1. CASE y = next[x]
      BY <3>1, <1>1, <1>2
    <3>2. CASE y # next[x]
      <4>1. p[y] = prev[y] /\ prev[y] \in S /\ next[prev[y]] = y
        BY <3>2, <1>1, <1>2 DEF Linked
      <4>2. prev[y] # x /\ prev[y] # prev[x]
        BY <4>1, <3>2, <1>1 DEF Linked
      <4>3. QED
        BY <4>1, <4>2, <1>2
    <3>3. QED
      BY <3>1, <3>2
  <2>3. QED
    BY <2>1, <2>2
<1>4. Connected(n, S \ {x}, a)
  <2> SUFFICES ASSUME NEW C \in SUBSET (S \ {x}),
                      a \in C, \A y \in C : n[y] \in C
               PROVE  C = S \ {x}
    BY DEF Connected
  <2>1. CASE prev[x] \in C
    <3> DEFINE D == C \cup {x}
    <3>1. next[x] \in C
      BY <2>1, <1>2
    <3>2. \A y \in D : next[y] \in D
      <4> SUFFICES ASSUME NEW y \in C, y # prev[x]
                   PROVE  next[y] \in C
        BY <3>1, <1>1 DEF Linked
      <4>1. QED
        BY <1>2
    <3>3. D = S
      BY <3>2, <1>1 DEF Connected
    <3>4. QED
      BY <3>3
  <2>2. CASE prev[x] \notin C
    <3>1. \A y \in C : next[y] \in C
      BY <2>2, <1>2
    <3>2. C = S
      BY <3>1, <1>1 DEF Connected
    <3>3. QED
      BY <3>2
  <2>3. QED
    BY <2>1, <2>2
<1>5. QED
  BY <1>1, <1>2, <1>3, <1>4 DEF IsRing, n, p

-----------------------------------------------------------------------------
(* The scheduler.                                                          *)

(* The task structures hold pointers, so the lemmas on rings apply.        *)
LEMMA Pointers == Link = Ptr(AllTask) /\ NULL \notin AllTask
  BY TaskAssumption DEF Link, Ptr, AllTask

(* With the null links of a lone idle_task, the task list is a ring as     *)
(* create_process takes one.                                               *)
LEMMA TaskRing ==
  ASSUME TaskListOK
  PROVE  IsRing(task_next, task_prev, Created \cup {idle_task}, idle_task)
  BY DEF TaskListOK, IsRing

\* IInv holds at the start.
LEMMA InitIInv == Init => IInv
<1> SUFFICES ASSUME Init
             PROVE  IInv
  OBVIOUS
<1> USE TaskAssumption, QueueAssumption, SliceAssumption
<1>1. TypeOK
  <2>1. need_resched \in [AllTask -> BOOLEAN]
    BY DEF Init
  <2>2. timeslice \in [AllTask -> 0..(Wrap - 1)]
    BY DEF Init
  <2>3. QED
    BY <2>1, <2>2 DEF Init, TypeOK, AllTask, Queue, Link, Handler
<1>2. LockBalanced
  BY DEF Init, LockBalanced
<1>3. Created = {} /\ OnRunList = {idle_task} /\ \A q \in Queue : Waiters(q) = {}
  BY DEF Init, Created, OnRunList, Runnable, Waiters, AllTask
<1>4. RunListOK
  BY <1>3 DEF Init, RunListOK, IsRing, AllTask
<1>5. TaskListOK
  BY <1>3 DEF Init, TaskListOK, AllTask
<1>6. WaitQueuesOK
  BY <1>3 DEF Init, WaitQueuesOK
<1>7. TimesliceBounded
  BY DEF Init, TimesliceBounded
<1>8. QED
  BY <1>1, <1>2, <1>4, <1>5, <1>6, <1>7 DEF IInv

-----------------------------------------------------------------------------
(* Facts about single actions.                                             *)

(* create_process: the new task was on no list; now it is on two.          *)
LEMMA CreateLists ==
  ASSUME IInv, NEW t \in Task, CreateProcess(t)
  PROVE  /\ t \in AllTask \ Created
         /\ Created' = Created \cup {t}
         /\ OnRunList' = OnRunList \cup {t}
         /\ t \notin OnRunList
         /\ OnRunList \subseteq AllTask
         /\ \A q \in Queue : Waiters(q)' = Waiters(q)
         /\ task_next' \in [AllTask -> Link] /\ task_prev' \in [AllTask -> Link]
         /\ run_next' \in [AllTask -> Link] /\ run_prev' \in [AllTask -> Link]
<1> USE TaskAssumption, Pointers
<1>1. t \in AllTask /\ t \notin Created /\ t # idle_task /\ t # current
  BY DEF CreateProcess, Creates, AllTask, LinkTask, LinkRun
<1>2. Created \cup {idle_task} \subseteq AllTask
  BY DEF Created, AllTask
<1>3. /\ task_next' \in [AllTask -> Link] /\ task_prev' \in [AllTask -> Link]
      /\ task_next'[t] = idle_task
      /\ \A y \in Created \cup {idle_task} :
            task_next[y] # NULL => task_next'[y] # NULL
      /\ \A y \in AllTask \ (Created \cup {idle_task, t}) : task_next'[y] = task_next[y]
  <2>1. IsRing(task_next, task_prev, Created \cup {idle_task}, idle_task)
    BY TaskRing DEF IInv
  <2>2. /\ task_next \in [AllTask -> Ptr(AllTask)]
        /\ task_prev \in [AllTask -> Ptr(AllTask)]
    BY DEF IInv, TypeOK
  <2>3. t \in AllTask \ (Created \cup {idle_task})
    BY <1>1
  <2>4. /\ task_next' = InsertNext(task_next, task_prev, idle_task, t)
        /\ task_prev' = InsertPrev(task_next, task_prev, idle_task, t)
    BY DEF CreateProcess, LinkTask, LinkRun
  <2>5. QED
    BY <1>2, <2>1, <2>2, <2>3, <2>4, InsertFrame
<1>4. Created' = Created \cup {t}
  BY <1>1, <1>3 DEF Created, AllTask
<1>5. state' = [state EXCEPT ![t] = "RUNNING"] /\ state \in [AllTask -> {"RUNNING", "INTERRUPTABLE"}]
  BY DEF CreateProcess, IInv, TypeOK, LinkTask, LinkRun
<1>6. pc = "run" /\ pc' = "run" /\ current' = current
  BY DEF CreateProcess, Running, LinkTask, LinkRun
<1>7. OnRunList' = OnRunList \cup {t}
  BY <1>1, <1>4, <1>5, <1>6 DEF OnRunList, Runnable, AllTask, Created
<1>8. t \notin OnRunList /\ OnRunList \subseteq AllTask
  BY <1>1, <1>6 DEF OnRunList, Runnable, Created, AllTask
<1>9. ASSUME NEW q \in Queue PROVE Waiters(q)' = Waiters(q)
  <2>1. queue' = [queue EXCEPT ![t] = NULL] /\ queue \in [AllTask -> Queue \cup {NULL}]
    BY DEF CreateProcess, IInv, TypeOK, LinkTask, LinkRun
  <2>2. QED
    BY <1>1, <1>4, <1>5, <2>1 DEF Waiters, Created, AllTask
<1>10. run_next' \in [AllTask -> Link] /\ run_prev' \in [AllTask -> Link]
  <2>1. IsRing(run_next, run_prev, OnRunList, idle_task)
    BY DEF IInv, RunListOK
  <2>2. /\ run_next \in [AllTask -> Ptr(AllTask)]
        /\ run_prev \in [AllTask -> Ptr(AllTask)]
    BY DEF IInv, TypeOK
  <2>3. /\ run_next' = InsertNext(run_next, run_prev, idle_task, t)
        /\ run_prev' = InsertPrev(run_next, run_prev, idle_task, t)
    BY DEF CreateProcess, LinkTask, LinkRun
  <2>4. QED
    BY <1>1, <1>8, <2>1, <2>2, <2>3, InsertFrame
<1>11. QED
  BY <1>1, <1>3, <1>4, <1>7, <1>8, <1>9, <1>10

(* wake_up_queue's loop: the task it wakes was on no run list, and leaves  *)
(* the set of waiters of the keyboard queue and no other.                  *)
LEMMA WakeLists ==
  ASSUME IInv, WakeUp
  PROVE  /\ wt \in Waiters(keyboard_queue)
         /\ wt \in AllTask \ OnRunList
         /\ OnRunList \subseteq AllTask
         /\ OnRunList' = OnRunList \cup {wt}
         /\ Created' = Created
         /\ Waiters(keyboard_queue)' = Waiters(keyboard_queue) \ {wt}
         /\ Waiters(block_queue)' = Waiters(block_queue)
         /\ run_next' \in [AllTask -> Link] /\ run_prev' \in [AllTask -> Link]
<1> USE TaskAssumption, QueueAssumption, Pointers
<1>1. wt \in Waiters(keyboard_queue)
  BY DEF WakeUp, IInv, WaitQueuesOK, IsChain, Queue, LinkRun
<1>2. wt \in Task /\ wt \in Created /\ state[wt] = "INTERRUPTABLE" /\ queue[wt] = keyboard_queue
  BY <1>1 DEF Waiters, Created
<1>3. /\ state' = [state EXCEPT ![wt] = "RUNNING"]
      /\ state \in [AllTask -> {"RUNNING", "INTERRUPTABLE"}]
      /\ pc = "waking" /\ pc' = pc /\ current' = current
      /\ task_next' = task_next /\ queue' = queue
  BY DEF WakeUp, IInv, TypeOK, taskVars, LinkRun
<1>4. Created' = Created
  BY <1>3 DEF Created
<1>5. wt \in AllTask \ OnRunList /\ OnRunList \subseteq AllTask
  BY <1>2, <1>3 DEF OnRunList, Runnable, Created, AllTask
<1>6. OnRunList' = OnRunList \cup {wt}
  BY <1>2, <1>3, <1>4 DEF OnRunList, Runnable, Created, AllTask
<1>7. /\ Waiters(keyboard_queue)' = Waiters(keyboard_queue) \ {wt}
      /\ Waiters(block_queue)' = Waiters(block_queue)
  BY <1>2, <1>3, <1>4 DEF Waiters, Created, AllTask
<1>8. run_next' \in [AllTask -> Link] /\ run_prev' \in [AllTask -> Link]
  <2>1. IsRing(run_next, run_prev, OnRunList, idle_task)
    BY DEF IInv, RunListOK
  <2>2. /\ run_next \in [AllTask -> Ptr(AllTask)]
        /\ run_prev \in [AllTask -> Ptr(AllTask)]
    BY DEF IInv, TypeOK
  <2>3. /\ run_next' = InsertNext(run_next, run_prev, idle_task, wt)
        /\ run_prev' = InsertPrev(run_next, run_prev, idle_task, wt)
    BY DEF WakeUp, LinkRun
  <2>4. QED
    BY <1>5, <2>1, <2>2, <2>3, InsertFrame
<1>9. QED
  BY <1>1, <1>4, <1>5, <1>6, <1>7, <1>8

(* block(): the current process joins the waiters of one queue; it is not  *)
(* on any queue before.                                                    *)
LEMMA BlockLists ==
  ASSUME IInv, NEW q \in Queue, Block(q)
  PROVE  /\ current \in Created /\ current # idle_task
         /\ \A r \in Queue : current \notin Waiters(r)
         /\ Created' = Created
         /\ OnRunList' = OnRunList
         /\ Waiters(q)' = Waiters(q) \cup {current}
         /\ \A r \in Queue \ {q} : Waiters(r)' = Waiters(r)
         /\ Waiters(q) \subseteq AllTask
         /\ queue_next' \in [AllTask -> Link] /\ queue_prev' \in [AllTask -> Link]
<1> USE TaskAssumption, QueueAssumption, Pointers
<1>1. /\ pc = "run" /\ pc' = "schedule" /\ current' = current
      /\ current # idle_task
      /\ task_next' = task_next
      /\ state' = [state EXCEPT ![current] = "INTERRUPTABLE"]
      /\ queue' = [queue EXCEPT ![current] = q]
  BY DEF Block, MayBlock, Running, taskVars, SaveAll, Enqueue
<1>2. /\ state \in [AllTask -> {"RUNNING", "INTERRUPTABLE"}]
      /\ queue \in [AllTask -> Queue \cup {NULL}]
      /\ queue_next \in [AllTask -> Link] /\ queue_prev \in [AllTask -> Link]
  BY DEF IInv, TypeOK
<1>3. current \in Created /\ state[current] = "RUNNING"
  BY <1>1 DEF IInv, RunListOK
<1>4. \A r \in Queue : current \notin Waiters(r)
  BY <1>3 DEF Waiters
<1>5. Created' = Created
  BY <1>1 DEF Created
<1>6. OnRunList' = OnRunList
  BY <1>1, <1>2, <1>3, <1>5 DEF OnRunList, Runnable, Created, AllTask
<1>7. /\ Waiters(q)' = Waiters(q) \cup {current}
      /\ \A r \in Queue \ {q} : Waiters(r)' = Waiters(r)
  BY <1>1, <1>2, <1>3, <1>5 DEF Waiters, Created, AllTask
<1>8. Waiters(q) \subseteq AllTask
  BY DEF Waiters, Created, AllTask
<1>9. queue_next' \in [AllTask -> Link] /\ queue_prev' \in [AllTask -> Link]
  <2>1. CASE first[q] = NULL
    BY <2>1, <1>2 DEF Block, SaveAll, Enqueue
  <2>2. CASE first[q] # NULL
    <3>1. IsRing(queue_next, queue_prev, Waiters(q), first[q])
      BY <2>2, <1>1 DEF IInv, WaitQueuesOK
    <3>2. /\ queue_next' = InsertNext(queue_next, queue_prev, first[q], current)
          /\ queue_prev' = InsertPrev(queue_next, queue_prev, first[q], current)
      BY <2>2 DEF Block, SaveAll, Enqueue
    <3>3. current \in AllTask \ Waiters(q)
      BY <1>3, <1>4 DEF Created, AllTask
    <3>4. QED
      BY <1>2, <1>8, <3>1, <3>2, <3>3, InsertFrame
  <2>3. QED
    BY <2>1, <2>2
<1>10. QED
  BY <1>1, <1>3, <1>4, <1>5, <1>6, <1>7, <1>8, <1>9

(* schedule(): a process that blocked leaves the run list, a runnable one  *)
(* stays, and the task it switches to is on the list that results.         *)
LEMMA ScheduleLists ==
  ASSUME IInv, Schedule
  PROVE  /\ Created' = Created
         /\ \A q \in Queue : Waiters(q)' = Waiters(q)
         /\ OnRunList' = Runnable \cup {idle_task}
         /\ IsRing(run_next', run_prev', OnRunList', idle_task)
         /\ \A t \in Task \ OnRunList' : run_next'[t] = NULL /\ run_prev'[t] = NULL
         /\ run_next' \in [AllTask -> Link] /\ run_prev' \in [AllTask -> Link]
         /\ current' \in OnRunList'
         /\ Runnable' = Runnable
         /\ current' = idle_task => Runnable = {}
<1> USE TaskAssumption, Pointers
<1>1. /\ pc = "schedule" /\ pc' = "restore"
      /\ state' = state /\ task_next' = task_next /\ queue' = queue
      /\ current' = NextTask(current, run_next[current], run_next'[idle_task])
  BY DEF Schedule, taskVars, waitVars, NewSlice
<1>2. /\ state \in [AllTask -> {"RUNNING", "INTERRUPTABLE"}]
      /\ run_next \in [AllTask -> Ptr(AllTask)]
      /\ run_prev \in [AllTask -> Ptr(AllTask)]
      /\ current \in AllTask
  BY DEF IInv, TypeOK
<1>3. /\ IsRing(run_next, run_prev, OnRunList, idle_task)
      /\ \A t \in Task \ OnRunList : run_next[t] = NULL /\ run_prev[t] = NULL
      /\ state[idle_task] = "RUNNING"
      /\ current \in Created \cup {idle_task}
  BY DEF IInv, RunListOK
<1>4. /\ Created' = Created /\ Runnable' = Runnable
      /\ \A q \in Queue : Waiters(q)' = Waiters(q)
      /\ OnRunList' = Runnable \cup {idle_task}
  BY <1>1 DEF Created, Runnable, Waiters, OnRunList
<1>5. OnRunList = Runnable \cup {idle_task, current} /\ OnRunList \subseteq AllTask
  BY <1>1, <1>2 DEF OnRunList, Runnable, Created, AllTask
<1>6. idle_task \notin Runnable
  BY DEF Runnable, Created
<1>7. CASE state[current] # "RUNNING"
  <2>1. current \in OnRunList \ {idle_task} /\ current \notin Runnable
    BY <1>7, <1>3, <1>5 DEF Runnable
  <2>2. OnRunList' = OnRunList \ {current}
    BY <2>1, <1>4, <1>5
  <2>3. /\ run_next' = RemoveNext(run_next, run_prev, current)
        /\ run_prev' = RemovePrev(run_next, run_prev, current)
    BY <1>7 DEF Schedule, NewSlice
  <2>4. /\ run_next' \in [AllTask -> Link] /\ run_prev' \in [AllTask -> Link]
        /\ run_next'[current] = NULL /\ run_prev'[current] = NULL
        /\ \A y \in AllTask \ OnRunList :
              run_next'[y] = run_next[y] /\ run_prev'[y] = run_prev[y]
        /\ IsRing(run_next', run_prev', OnRunList', idle_task)
        /\ Linked(run_next', run_prev', OnRunList')
    <3> DEFINE n == RemoveNext(run_next, run_prev, current)
               p == RemovePrev(run_next, run_prev, current)
    <3>1. /\ n \in [AllTask -> Ptr(AllTask)] /\ p \in [AllTask -> Ptr(AllTask)]
          /\ n[current] = NULL /\ p[current] = NULL
          /\ \A y \in AllTask \ OnRunList : n[y] = run_next[y] /\ p[y] = run_prev[y]
          /\ IsRing(n, p, OnRunList \ {current}, idle_task)
          /\ Linked(n, p, OnRunList \ {current})
      <4>1. OnRunList \in SUBSET AllTask
        BY <1>5
      <4>2. /\ n \in [AllTask -> Ptr(AllTask)] /\ p \in [AllTask -> Ptr(AllTask)]
            /\ IsRing(n, p, OnRunList \ {current}, idle_task)
            /\ Linked(n, p, OnRunList \ {current})
        BY <1>2, <1>3, <4>1, <2>1, RemoveRing
      <4>3. run_next[current] \in OnRunList /\ run_prev[current] \in OnRunList
        BY <1>2, <1>3, <4>1, <2>1, RingLinked
      <4>4. /\ n[current] = NULL /\ p[current] = NULL
            /\ \A y \in AllTask \ OnRunList : n[y] = run_next[y] /\ p[y] = run_prev[y]
        BY <1>2, <2>1, <4>1, <4>3 DEF RemoveNext, RemovePrev
      <4>5. QED
        BY <4>2, <4>4
    <3> HIDE DEF n, p
    <3>2. run_next' = n /\ run_prev' = p
      BY <2>3 DEF n, p
    <3>3. QED
      BY <3>1, <3>2, <2>2
  <2>5. \A t \in Task \ OnRunList' : run_next'[t] = NULL /\ run_prev'[t] = NULL
    BY <1>3, <2>2, <2>4 DEF AllTask
  <2>6. run_next[current] \in OnRunList /\ run_next[current] # current
    <3>1. current \in OnRunList \ {idle_task} /\ OnRunList \in SUBSET AllTask
      BY <1>5, <2>1
    <3>2. QED
      BY <1>2, <1>3, <3>1, RingLinked
  <2>7. run_next'[idle_task] \in OnRunList'
    BY <2>4 DEF Linked, IsRing
  <2>8. current' \in OnRunList'
    BY <1>1, <2>1, <2>2, <2>6, <2>7 DEF NextTask
  <2>9. current' = idle_task => Runnable = {}
    <3> SUFFICES ASSUME current' = idle_task
                 PROVE  OnRunList' = {idle_task}
      BY <1>4, <1>6
    <3>1. run_next'[idle_task] = idle_task
      BY <1>1, <1>5, <2>1, <2>2, <2>7 DEF NextTask
    <3>2. QED
      BY <3>1, <2>4, <2>7 DEF IsRing, Connected
  <2>10. QED
    BY <1>4, <2>4, <2>5, <2>8, <2>9
<1>8. CASE state[current] = "RUNNING"
  <2>1. run_next' = run_next /\ run_prev' = run_prev
    BY <1>8 DEF Schedule, runVars, NewSlice
  <2>2. OnRunList' = OnRunList
    BY <1>8, <1>3, <1>4, <1>5 DEF Runnable
  <2>3. OnRunList = {idle_task} \/ Linked(run_next, run_prev, OnRunList)
    BY <1>3 DEF IsRing
  <2>4. current' \in OnRunList'
    <3>1. CASE run_next[idle_task] = NULL
      <4>1. OnRunList = {idle_task}
        BY <3>1, <2>3, <1>5 DEF Linked
      <4>2. QED
        BY <4>1, <3>1, <2>1, <2>2, <1>1, <1>5 DEF NextTask
    <3>2. CASE run_next[idle_task] # NULL
      <4>1. Linked(run_next, run_prev, OnRunList)
        BY <3>2, <1>3 DEF IsRing
      <4>2. QED
        BY <4>1, <3>2, <2>1, <2>2, <1>1, <1>5 DEF NextTask, Linked
    <3>3. QED
      BY <3>1, <3>2
  <2>5. current' = idle_task => Runnable = {}
    <3> SUFFICES ASSUME current' = idle_task, Runnable # {}
                 PROVE  FALSE
      OBVIOUS
    <3>1. PICK r \in Runnable : TRUE
      OBVIOUS
    <3>2. r \in OnRunList \ {idle_task}
      BY <3>1, <1>5, <1>6
    <3>3. /\ Linked(run_next, run_prev, OnRunList)
          /\ Connected(run_next, OnRunList, idle_task)
      BY <3>2, <1>2, <1>3, <1>5, RingLinked
    <3>4. run_next[idle_task] = idle_task
      BY <3>3, <2>1, <1>1, <1>5 DEF NextTask, Linked
    <3>5. OnRunList = {idle_task}
      BY <3>4, <3>3, <1>5 DEF Connected
    <3>6. QED
      BY <3>2, <3>5
  <2>6. QED
    BY <1>2, <1>3, <1>4, <2>1, <2>2, <2>4, <2>5
<1>9. QED
  BY <1>7, <1>8

-----------------------------------------------------------------------------
(* Each part of the invariant is preserved by every step.                  *)

\* No step breaks the types.
LEMMA TypeStep == IInv /\ [Next]_vars => TypeOK'
<1> SUFFICES ASSUME IInv, [Next]_vars
             PROVE  TypeOK'
  OBVIOUS
<1> USE TaskAssumption, QueueAssumption, SliceAssumption
<1>0. TypeOK /\ LockBalanced
  BY DEF IInv
<1>1. ASSUME NEW h \in Handler, Interrupt(h) PROVE TypeOK'
  <2>1. eflags' \in [AllTask -> BOOLEAN] /\ iflag' \in BOOLEAN
    BY <1>0, <1>1 DEF Interrupt, TypeOK, SaveAll
  <2>2. kernel_lock' \in Nat /\ pc' \in Handler
    BY <1>0, <1>1 DEF Interrupt, TypeOK, SaveAll
  <2>3. QED
    BY <1>0, <1>1, <2>1, <2>2 DEF Interrupt, TypeOK, taskVars, runVars, waitVars,
           SaveAll
<1>2. CASE TimerInt
  <2>1. timeslice[current] \in 0..(Wrap - 1)
    BY <1>0 DEF TypeOK
  <2>2. (timeslice[current] - 1) % Wrap \in 0..(Wrap - 1)
    BY <2>1
  <2>3. timeslice' \in [AllTask -> 0..(Wrap - 1)]
    BY <1>0, <1>2, <2>2 DEF TimerInt, TypeOK, Tick, Expired
  <2>4. (need_resched[current] \/ timeslice[current] = 0) \in BOOLEAN
    OBVIOUS
  <2>5. need_resched' \in [AllTask -> BOOLEAN]
    BY <1>0, <1>2, <2>4 DEF TimerInt, TypeOK, Tick, Expired
  <2>6. QED
    BY <1>0, <1>2, <2>3, <2>5 DEF TimerInt, TypeOK, taskVars, runVars, waitVars,
           cpuVars, Tick, Expired
<1>3. CASE KeyboardInt
  <2>1. first[keyboard_queue] \in Link
    BY <1>0 DEF TypeOK, Queue
  <2>2. QED
    BY <1>0, <1>3, <2>1 DEF KeyboardInt, TypeOK, taskVars, runVars, waitVars, cpuVars
<1>4. CASE WakeUp
  <2>1. run_next' \in [AllTask -> Link] /\ run_prev' \in [AllTask -> Link] /\ wt \in AllTask
    BY <1>4, WakeLists
  <2>2. NULL \in Link /\ queue_next[wt] \in Link
    BY <1>0, <2>1 DEF TypeOK, Link
  <2>3. QED
    BY <1>0, <1>4, <2>1, <2>2 DEF WakeUp, TypeOK, taskVars, cpuVars, LinkRun
<1>5. CASE WakeDone
  BY <1>0, <1>5 DEF WakeDone, TypeOK, taskVars, runVars, cpuVars, Link
<1>6. CASE RetFromIntr
  BY <1>0, <1>6 DEF RetFromIntr, TypeOK, taskVars, runVars, waitVars, cpuVars
<1>7. CASE Schedule
  <2>1. /\ run_next' \in [AllTask -> Link] /\ run_prev' \in [AllTask -> Link]
        /\ current' \in Runnable \cup {idle_task}
    BY <1>7, ScheduleLists
  <2>2. current' \in AllTask
    BY <2>1 DEF Runnable, Created, AllTask
  <2>3. need_resched' \in [AllTask -> BOOLEAN]
    BY <1>0, <1>7 DEF Schedule, TypeOK, NewSlice
  <2>4. timeslice' \in [AllTask -> 0..(Wrap - 1)]
    <3>1. Slice \in 0..(Wrap - 1)
      OBVIOUS
    <3>2. QED
      BY <3>1, <1>0, <1>7 DEF Schedule, TypeOK, NewSlice
  <2>5. QED
    BY <1>0, <1>7, <2>1, <2>2, <2>3, <2>4 DEF Schedule, TypeOK, taskVars, waitVars,
           cpuVars, NewSlice
<1>8. CASE Restore
  <2>1. kernel_lock' = 0
    BY <1>0, <1>8 DEF Restore, LockBalanced
  <2>2. (reload[current] \/ ~eflags[current]) \in BOOLEAN
    OBVIOUS
  <2>3. iflag' \in BOOLEAN /\ reload' \in [AllTask -> BOOLEAN]
    BY <1>0, <1>8, <2>1, <2>2 DEF Restore, TypeOK
  <2>4. QED
    BY <1>0, <1>8, <2>1, <2>3 DEF Restore, TypeOK, taskVars, runVars, waitVars
<1>9. CASE LoadFlags
  BY <1>0, <1>9 DEF LoadFlags, TypeOK, taskVars, runVars, waitVars
<1>10. CASE LockedCall
  BY <1>0, <1>10 DEF LockedCall, TypeOK, taskVars, runVars, waitVars
<1>11. CASE Printk
  BY <1>0, <1>11 DEF Printk, TypeOK, taskVars, runVars, waitVars
<1>12. CASE SystemIdle
  BY <1>0, <1>12 DEF SystemIdle, TypeOK, taskVars, runVars, waitVars, cpuVars
<1>13. ASSUME NEW t \in Task, CreateProcess(t) PROVE TypeOK'
  <2>1. /\ task_next' \in [AllTask -> Link] /\ task_prev' \in [AllTask -> Link]
        /\ run_next' \in [AllTask -> Link] /\ run_prev' \in [AllTask -> Link]
    BY <1>13, CreateLists
  <2>2. need_resched' \in [AllTask -> BOOLEAN]
    BY <1>0, <1>13 DEF CreateProcess, TypeOK, LinkTask, LinkRun
  <2>3. Slice \in 0..(Wrap - 1) /\ NULL \in Link
    BY DEF Link
  <2>4. NewProcessIF \in BOOLEAN
    BY DEF NewProcessIF, Bit
  <2>5. eflags' \in [AllTask -> BOOLEAN] /\ iflag' \in BOOLEAN
    BY <1>0, <1>13, <2>4 DEF CreateProcess, TypeOK, LinkTask, LinkRun
  <2>6. timeslice' \in [AllTask -> 0..(Wrap - 1)]
    BY <1>0, <1>13, <2>3 DEF CreateProcess, TypeOK, LinkTask, LinkRun
  <2>7. QED
    BY <1>0, <1>13, <2>1, <2>2, <2>3, <2>5, <2>6 DEF CreateProcess, TypeOK,
           LinkTask, LinkRun
<1>14. ASSUME NEW q \in Queue, Block(q) PROVE TypeOK'
  <2>1. queue_next' \in [AllTask -> Link] /\ queue_prev' \in [AllTask -> Link]
    BY <1>14, BlockLists
  <2>2. first' \in [Queue -> Link]
    BY <1>0, <1>14 DEF Block, TypeOK, Link, SaveAll, Enqueue
  <2>3. QED
    <3>1. pc' = "schedule" /\ kernel_lock' \in Nat /\ queue' \in [AllTask -> Queue \cup {NULL}]
      BY <1>0, <1>14 DEF Block, TypeOK, SaveAll, Enqueue
    <3>2. eflags' \in [AllTask -> BOOLEAN] /\ iflag' \in BOOLEAN
      BY <1>0, <1>14 DEF Block, TypeOK, SaveAll, Enqueue
    <3>3. QED
      BY <1>0, <1>14, <2>1, <2>2, <3>1, <3>2 DEF Block, TypeOK, taskVars, runVars,
             SaveAll, Enqueue
<1>15. CASE Syscall
  <2>1. eflags' \in [AllTask -> BOOLEAN] /\ iflag' \in BOOLEAN
    BY <1>0, <1>15 DEF Syscall, TypeOK, SaveAll
  <2>2. kernel_lock' \in Nat
    BY <1>0, <1>15 DEF Syscall, TypeOK, SaveAll
  <2>3. QED
    BY <1>0, <1>15, <2>1, <2>2 DEF Syscall, TypeOK, taskVars, runVars, waitVars,
           SaveAll
<1>16. CASE SyscallGetch
  BY <1>0, <1>16 DEF SyscallGetch, TypeOK, taskVars, runVars, waitVars
<1>17. CASE SyscallReturn
  <2>1. eflags' \in [AllTask -> BOOLEAN] /\ iflag' \in BOOLEAN
    BY <1>0, <1>17 DEF SyscallReturn, TypeOK, SaveAll
  <2>2. kernel_lock' \in Nat /\ syscall' \in [AllTask -> {"none", "if_on", "if_off"}]
    BY <1>0, <1>17 DEF SyscallReturn, TypeOK, SaveAll
  <2>3. QED
    BY <1>0, <1>17, <2>1, <2>2 DEF SyscallReturn, TypeOK, taskVars, runVars,
           waitVars, SaveAll
<1>18. CASE UNCHANGED vars
  BY <1>0, <1>18 DEF vars, TypeOK, taskVars, runVars, waitVars, cpuVars
<1>19. QED
  BY <1>1, <1>2, <1>3, <1>4, <1>5, <1>6, <1>7, <1>8, <1>9, <1>10, <1>11, <1>12,
     <1>13, <1>14, <1>15, <1>16, <1>17, <1>18 DEF Next, Kernel

\* The lock stays balanced.
LEMMA LockStep == IInv /\ [Next]_vars => LockBalanced'
<1> SUFFICES ASSUME IInv, [Next]_vars
             PROVE  LockBalanced'
  OBVIOUS
<1>0. TypeOK /\ LockBalanced
  BY DEF IInv
<1>1. ASSUME NEW h \in Handler, Interrupt(h) PROVE LockBalanced'
  BY <1>0, <1>1 DEF Interrupt, LockBalanced, Handler, SaveAll
<1>2. CASE TimerInt \/ KeyboardInt \/ WakeUp \/ WakeDone \/ RetFromIntr \/ Schedule
  BY <1>0, <1>2 DEF TimerInt, KeyboardInt, WakeUp, WakeDone, RetFromIntr, Schedule,
         LockBalanced, cpuVars, Tick, Expired, LinkRun, NewSlice
<1>3. CASE Restore
  BY <1>0, <1>3 DEF Restore, LockBalanced
<1>4. CASE LoadFlags \/ LockedCall \/ Printk \/ SystemIdle \/ Syscall \/ SyscallGetch \/ SyscallReturn
  BY <1>0, <1>4 DEF LoadFlags, LockedCall, Printk, SystemIdle, Syscall,
         SyscallGetch, SyscallReturn, Running, LockBalanced, cpuVars, SaveAll
<1>5. ASSUME NEW t \in Task, CreateProcess(t) PROVE LockBalanced'
  BY <1>0, <1>5 DEF CreateProcess, Running, LockBalanced, LinkTask, LinkRun
<1>6. ASSUME NEW q \in Queue, Block(q) PROVE LockBalanced'
  BY <1>0, <1>6 DEF Block, Running, LockBalanced, SaveAll, Enqueue
<1>7. CASE UNCHANGED vars
  BY <1>0, <1>7 DEF vars, cpuVars, LockBalanced
<1>8. QED
  BY <1>1, <1>2, <1>3, <1>4, <1>5, <1>6, <1>7 DEF Next, Kernel

(* Steps that touch no list and block nobody keep the run list.            *)
LEMMA RunListFrame ==
  ASSUME IInv,
         UNCHANGED <<current, state, task_next, run_next, run_prev>>,
         pc # "schedule"
  PROVE  RunListOK'
<1>1. Created' = Created /\ Runnable' = Runnable
  BY DEF Created, Runnable
<1>2. current \in Created \cup {idle_task} /\ state[current] = "RUNNING"
  BY DEF IInv, RunListOK
<1>3. OnRunList' = OnRunList
  BY <1>1, <1>2 DEF OnRunList, Runnable
<1>4. QED
  BY <1>1, <1>2, <1>3 DEF IInv, RunListOK

\* The run list stays a ring.
LEMMA RunListStep == IInv /\ [Next]_vars => RunListOK'
<1> SUFFICES ASSUME IInv, [Next]_vars
             PROVE  RunListOK'
  OBVIOUS
<1> USE TaskAssumption, Pointers
<1>1. ASSUME NEW h \in Handler, Interrupt(h) PROVE RunListOK'
  BY <1>1, RunListFrame DEF Interrupt, taskVars, runVars, SaveAll
<1>2. CASE TimerInt \/ KeyboardInt \/ WakeDone \/ RetFromIntr \/ Restore
  BY <1>2, RunListFrame DEF TimerInt, KeyboardInt, WakeDone, RetFromIntr, Restore,
         taskVars, runVars, Tick, Expired
<1>3. CASE LoadFlags \/ LockedCall \/ Printk \/ SystemIdle \/ Syscall \/ SyscallGetch \/ SyscallReturn
  BY <1>3, RunListFrame DEF LoadFlags, LockedCall, Printk, SystemIdle, Syscall,
         SyscallGetch, SyscallReturn, Running, taskVars, runVars, SaveAll
<1>4. CASE WakeUp
  <2>1. /\ wt \in AllTask \ OnRunList /\ OnRunList \in SUBSET AllTask
        /\ OnRunList' = OnRunList \cup {wt} /\ Created' = Created
    BY <1>4, WakeLists
  <2>2. /\ IsRing(run_next, run_prev, OnRunList, idle_task)
        /\ run_next \in [AllTask -> Ptr(AllTask)]
        /\ run_prev \in [AllTask -> Ptr(AllTask)]
        /\ state \in [AllTask -> {"RUNNING", "INTERRUPTABLE"}]
    BY DEF IInv, RunListOK, TypeOK
  <2>3. /\ run_next' = InsertNext(run_next, run_prev, idle_task, wt)
        /\ run_prev' = InsertPrev(run_next, run_prev, idle_task, wt)
    BY <1>4 DEF WakeUp, LinkRun
  <2>4. IsRing(run_next', run_prev', OnRunList', idle_task)
    BY <2>1, <2>2, <2>3, InsertRing
  <2>5. \A y \in AllTask \ (OnRunList \cup {wt}) :
           run_next'[y] = run_next[y] /\ run_prev'[y] = run_prev[y]
    BY <2>1, <2>2, <2>3, InsertFrame
  <2>6. \A t \in Task \ OnRunList' : run_next'[t] = NULL /\ run_prev'[t] = NULL
    BY <2>1, <2>5 DEF IInv, RunListOK, AllTask
  <2>7. /\ state' = [state EXCEPT ![wt] = "RUNNING"]
        /\ current' = current /\ pc' = pc /\ pc = "waking"
    BY <1>4 DEF WakeUp, LinkRun
  <2>8. /\ state'[idle_task] = "RUNNING" /\ state'[current'] = "RUNNING"
        /\ current' \in Created' \cup {idle_task}
    BY <2>1, <2>2, <2>7 DEF IInv, RunListOK, TypeOK, AllTask
  <2>9. QED
    BY <2>4, <2>6, <2>7, <2>8 DEF RunListOK
<1>5. CASE Schedule
  <2>1. /\ Created' = Created
        /\ OnRunList' = Runnable \cup {idle_task}
        /\ IsRing(run_next', run_prev', OnRunList', idle_task)
        /\ \A t \in Task \ OnRunList' : run_next'[t] = NULL /\ run_prev'[t] = NULL
        /\ current' \in OnRunList'
    BY <1>5, ScheduleLists
  <2>2. state' = state /\ state[idle_task] = "RUNNING"
    BY <1>5 DEF Schedule, IInv, RunListOK, NewSlice
  <2>3. state[current'] = "RUNNING" /\ current' \in Created' \cup {idle_task}
    BY <2>1, <2>2 DEF Runnable
  <2>4. QED
    BY <2>1, <2>2, <2>3 DEF RunListOK
<1>6. ASSUME NEW t \in Task, CreateProcess(t) PROVE RunListOK'
  <2>1. /\ t \in AllTask \ OnRunList /\ OnRunList \in SUBSET AllTask
        /\ OnRunList' = OnRunList \cup {t} /\ Created' = Created \cup {t}
    BY <1>6, CreateLists
  <2>2. /\ IsRing(run_next, run_prev, OnRunList, idle_task)
        /\ run_next \in [AllTask -> Ptr(AllTask)]
        /\ run_prev \in [AllTask -> Ptr(AllTask)]
        /\ state \in [AllTask -> {"RUNNING", "INTERRUPTABLE"}]
    BY DEF IInv, RunListOK, TypeOK
  <2>3. /\ run_next' = InsertNext(run_next, run_prev, idle_task, t)
        /\ run_prev' = InsertPrev(run_next, run_prev, idle_task, t)
    BY <1>6 DEF CreateProcess, LinkTask, LinkRun
  <2>4. IsRing(run_next', run_prev', OnRunList', idle_task)
    BY <2>1, <2>2, <2>3, InsertRing
  <2>5. \A y \in AllTask \ (OnRunList \cup {t}) :
           run_next'[y] = run_next[y] /\ run_prev'[y] = run_prev[y]
    <3>1. \A y \in AllTask \ (OnRunList \cup {t}) :
            /\ InsertNext(run_next, run_prev, idle_task, t)[y] = run_next[y]
            /\ InsertPrev(run_next, run_prev, idle_task, t)[y] = run_prev[y]
      BY <2>1, <2>2, InsertFrame
    <3>2. QED
      BY <2>3, <3>1, Zenon
  <2>6. \A y \in Task \ OnRunList' : run_next'[y] = NULL /\ run_prev'[y] = NULL
    BY <2>1, <2>5 DEF IInv, RunListOK, AllTask
  <2>7. /\ state' = [state EXCEPT ![t] = "RUNNING"]
        /\ current' = current /\ pc' = pc /\ pc = "run"
    BY <1>6 DEF CreateProcess, Running, LinkTask, LinkRun
  <2>8. /\ state'[idle_task] = "RUNNING" /\ state'[current'] = "RUNNING"
        /\ current' \in Created' \cup {idle_task}
    BY <2>1, <2>2, <2>7 DEF IInv, RunListOK, TypeOK, AllTask
  <2>9. QED
    BY <2>4, <2>6, <2>7, <2>8 DEF RunListOK
<1>7. ASSUME NEW q \in Queue, Block(q) PROVE RunListOK'
  <2>1. current # idle_task /\ Created' = Created /\ OnRunList' = OnRunList
    BY <1>7, BlockLists
  <2>2. /\ state' = [state EXCEPT ![current] = "INTERRUPTABLE"]
        /\ run_next' = run_next /\ run_prev' = run_prev
        /\ current' = current /\ pc' = "schedule"
    BY <1>7 DEF Block, runVars, SaveAll, Enqueue
  <2>3. state'[idle_task] = "RUNNING"
    BY <2>1, <2>2 DEF IInv, RunListOK, TypeOK, AllTask
  <2>4. QED
    BY <2>1, <2>2, <2>3 DEF IInv, RunListOK
<1>8. CASE UNCHANGED vars
  <2>1. UNCHANGED <<current, state, task_next, run_next, run_prev, pc>>
    BY <1>8 DEF vars, taskVars, runVars
  <2>2. Created' = Created /\ OnRunList' = OnRunList
    BY <2>1 DEF Created, OnRunList, Runnable
  <2>3. QED
    BY <2>1, <2>2 DEF IInv, RunListOK
<1>9. QED
  BY <1>1, <1>2, <1>3, <1>4, <1>5, <1>6, <1>7, <1>8 DEF Next, Kernel

\* So does the list of tasks.
LEMMA TaskListStep == IInv /\ [Next]_vars => TaskListOK'
<1> SUFFICES ASSUME IInv, [Next]_vars
             PROVE  TaskListOK'
  OBVIOUS
<1> USE TaskAssumption, Pointers
<1>1. CASE UNCHANGED taskVars
  <2>1. task_next' = task_next /\ task_prev' = task_prev /\ Created' = Created
    BY <1>1 DEF taskVars, Created
  <2>2. QED
    BY <2>1 DEF IInv, TaskListOK
<1>2. ASSUME NEW t \in Task, CreateProcess(t) PROVE TaskListOK'
  <2>1. t \in AllTask \ (Created \cup {idle_task}) /\ Created' = Created \cup {t}
    BY <1>2, CreateLists
  <2>2. /\ IsRing(task_next, task_prev, Created \cup {idle_task}, idle_task)
        /\ task_next \in [AllTask -> Ptr(AllTask)]
        /\ task_prev \in [AllTask -> Ptr(AllTask)]
        /\ Created \cup {idle_task} \in SUBSET AllTask
    BY TaskRing DEF IInv, TypeOK, Created, AllTask
  <2>3. /\ task_next' = InsertNext(task_next, task_prev, idle_task, t)
        /\ task_prev' = InsertPrev(task_next, task_prev, idle_task, t)
    BY <1>2 DEF CreateProcess, LinkTask, LinkRun
  <2>4. IsRing(task_next', task_prev', (Created \cup {idle_task}) \cup {t}, idle_task)
    BY <2>1, <2>2, <2>3, InsertRing
  <2>5. (Created \cup {idle_task}) \cup {t} = Created' \cup {idle_task}
    BY <2>1
  <2>6. Created' # {} /\ Created' \cup {idle_task} # {idle_task}
    BY <2>1
  <2>7. QED
    BY <2>4, <2>5, <2>6 DEF TaskListOK, IsRing
<1>3. QED
  BY <1>1, <1>2 DEF Next, Kernel, vars, Interrupt, TimerInt, KeyboardInt, WakeUp,
         WakeDone, RetFromIntr, Schedule, Restore, LoadFlags, LockedCall, Printk,
         SystemIdle, Syscall, SyscallGetch, SyscallReturn, Block, SaveAll, Tick,
         Expired, LinkRun, NewSlice, Enqueue

\* The timeslice stays in its range.
LEMMA TimesliceStep == IInv /\ [Next]_vars => TimesliceBounded'
<1> SUFFICES ASSUME IInv, [Next]_vars
             PROVE  TimesliceBounded'
  OBVIOUS
<1> USE TaskAssumption, SliceAssumption
<1>0. TypeOK /\ TimesliceBounded /\ RunListOK
  BY DEF IInv
<1>a. timeslice \in [AllTask -> 0..(Wrap - 1)] /\ need_resched \in [AllTask -> BOOLEAN]
  BY <1>0 DEF TypeOK
<1>b. ASSUME UNCHANGED timeslice, pc \notin {"ret_from_intr", "schedule"}
      PROVE  TimesliceBounded'
  BY <1>b, <1>0 DEF TimesliceBounded
<1>1. ASSUME NEW h \in Handler, Interrupt(h) PROVE TimesliceBounded'
  BY <1>1, <1>b DEF Interrupt, SaveAll
<1>2. CASE TimerInt
  <2>1. current \in AllTask /\ timeslice[current] \in 0..(Wrap - 1) /\ timeslice[current] <= Slice
    BY <1>0, <1>2, <1>a DEF TimesliceBounded, TypeOK, TimerInt, Tick, Expired
  <2>2. timeslice[current] # 0 => (timeslice[current] - 1) % Wrap <= Slice
    BY <2>1
  <2>3. timeslice[current] = 0 => need_resched'[current]
    BY <1>2, <1>a, <2>1 DEF TimerInt, Tick, Expired
  <2>4. \A t \in AllTask \ {current} : timeslice'[t] = timeslice[t] /\ timeslice[t] <= Slice
    BY <1>0, <1>2, <1>a DEF TimerInt, TimesliceBounded, Tick, Expired
  <2>5. /\ timeslice'[current] = (timeslice[current] - 1) % Wrap
        /\ current' = current /\ state' = state /\ pc' = "ret_from_intr"
    BY <1>2, <1>a, <2>1 DEF TimerInt, Tick, Expired
  <2>6. state[current] = "RUNNING"
    BY <1>0, <1>2 DEF RunListOK, TimerInt, Tick, Expired
  <2>7. QED
    BY <2>1, <2>2, <2>3, <2>4, <2>5, <2>6 DEF TimesliceBounded
<1>3. CASE KeyboardInt \/ WakeUp \/ WakeDone \/ Restore
  BY <1>3, <1>b DEF KeyboardInt, WakeUp, WakeDone, Restore, LinkRun
<1>4. CASE RetFromIntr
  <2>1. /\ UNCHANGED <<current, state, need_resched, timeslice>>
        /\ pc' = IF need_resched[current] THEN "schedule" ELSE "restore"
    BY <1>4 DEF RetFromIntr
  <2>2. QED
    BY <1>0, <2>1 DEF TimesliceBounded
<1>5. CASE Schedule
  <2>1. \A t \in AllTask \ {current} : timeslice[t] <= Slice
    BY <1>0 DEF TimesliceBounded
  <2>2. CASE state[current] = "RUNNING"
    <3>1. timeslice' = [timeslice EXCEPT ![current] = Slice]
      BY <2>2, <1>5 DEF Schedule, NewSlice
    <3>2. QED
      BY <2>1, <3>1, <1>a DEF TimesliceBounded
  <2>3. CASE state[current] # "RUNNING"
    <3>1. timeslice' = timeslice
      BY <2>3, <1>5 DEF Schedule, NewSlice
    <3>2. QED
      BY <3>1, <2>3, <1>0 DEF TimesliceBounded
  <2>4. QED
    BY <2>2, <2>3
<1>6. CASE LoadFlags \/ LockedCall \/ Printk \/ Syscall \/ SyscallGetch \/ SyscallReturn
  BY <1>6, <1>b DEF LoadFlags, LockedCall, Printk, Syscall, SyscallGetch,
         SyscallReturn, Running, SaveAll
<1>7. CASE SystemIdle
  <2>1. \A t \in AllTask : timeslice[t] <= Slice
    BY <1>7, <1>0 DEF SystemIdle, Running, TimesliceBounded
  <2>2. timeslice' = [timeslice EXCEPT ![current] = 0]
    BY <1>7 DEF SystemIdle
  <2>3. QED
    BY <2>1, <2>2, <1>a DEF TimesliceBounded
<1>8. ASSUME NEW t \in Task, CreateProcess(t) PROVE TimesliceBounded'
  <2>1. \A u \in AllTask : timeslice[u] <= Slice
    BY <1>8, <1>0 DEF CreateProcess, Running, TimesliceBounded, LinkTask, LinkRun
  <2>2. timeslice' = [timeslice EXCEPT ![t] = Slice]
    BY <1>8 DEF CreateProcess, LinkTask, LinkRun
  <2>3. QED
    BY <2>1, <2>2, <1>a DEF TimesliceBounded
<1>9. ASSUME NEW q \in Queue, Block(q) PROVE TimesliceBounded'
  BY <1>9, <1>b DEF Block, Running, SaveAll, Enqueue
<1>10. CASE UNCHANGED vars
  BY <1>10, <1>0 DEF vars, TimesliceBounded
<1>11. QED
  BY <1>1, <1>2, <1>3, <1>4, <1>5, <1>6, <1>7, <1>8, <1>9, <1>10 DEF Next, Kernel

-----------------------------------------------------------------------------
(* The wait queues.                                                        *)

(* Steps that leave the queues and the states alone keep the queues.       *)
LEMMA WaitFrame ==
  ASSUME IInv,
         UNCHANGED <<state, task_next, queue, queue_next, queue_prev, first>>,
         pc # "waking", pc' # "waking"
  PROVE  WaitQueuesOK'
<1>1. \A q \in Queue : Waiters(q)' = Waiters(q)
  BY DEF Waiters, Created
<1>2. QED
  BY <1>1 DEF IInv, WaitQueuesOK

(* When wake_up_queue starts, the ring of the queue is the chain it will   *)
(* follow, from the first task around to it.                               *)
LEMMA WaitKeyboardInt ==
  ASSUME IInv, KeyboardInt
  PROVE  WaitQueuesOK'
<1> USE TaskAssumption, QueueAssumption
<1> DEFINE S == Waiters(keyboard_queue)
           f == first[keyboard_queue]
<1>1. /\ pc = "keyboard" /\ pc' = "waking" /\ wt' = f
      /\ UNCHANGED <<state, task_next, queue, queue_next, queue_prev, first>>
  BY DEF KeyboardInt, waitVars, taskVars
<1>2. \A q \in Queue : Waiters(q)' = Waiters(q)
  BY <1>1 DEF Waiters, Created
<1>3. IF f = NULL THEN S = {} ELSE IsRing(queue_next, queue_prev, S, f)
  BY <1>1 DEF IInv, WaitQueuesOK, Queue
<1>4. NULL \notin S
  BY DEF Waiters, Created
<1> HIDE DEF S, f
<1>5. /\ f = NULL => S = {}
      /\ f # NULL => f \in S
      /\ \A x \in S : /\ queue_next[x] \in S \cup {f, NULL}
                      /\ \A y \in S : queue_next[x] = queue_next[y] => x = y
  BY <1>3, <1>4 DEF IsRing, Linked
<1>6. ASSUME NEW C \in SUBSET S, f \in C,
             \A x \in C : queue_next[x] \in (S \ {f}) => queue_next[x] \in C
      PROVE  C = S
  <2>1. f # NULL /\ IsRing(queue_next, queue_prev, S, f)
    BY <1>3, <1>4, <1>6
  <2>2. CASE S = {f}
    BY <2>2, <1>6
  <2>3. CASE Linked(queue_next, queue_prev, S) /\ Connected(queue_next, S, f)
    <3>1. \A x \in C : queue_next[x] \in C
      BY <2>3, <1>6 DEF Linked
    <3>2. QED
      BY <3>1, <2>3, <1>6 DEF Connected
  <2>4. QED
    BY <2>1, <2>2, <2>3 DEF IsRing
<1>7. IsChain(Waiters(keyboard_queue), first[keyboard_queue])'
  <2>1. /\ Waiters(keyboard_queue)' = S /\ first'[keyboard_queue] = f
        /\ queue_next' = queue_next /\ wt' = f
    BY <1>1, <1>2 DEF S, f, Queue
  <2>2. QED
    BY <2>1, <1>5, <1>6 DEF IsChain
<1>8. ASSUME NEW q \in Queue \ {keyboard_queue}
      PROVE  (IF first[q] = NULL THEN Waiters(q) = {}
              ELSE IsRing(queue_next, queue_prev, Waiters(q), first[q]))'
  BY <1>1, <1>2 DEF IInv, WaitQueuesOK
<1>9. \A t \in AllTask : (\A q \in Queue : t \notin Waiters(q)') =>
                          queue_next'[t] = NULL /\ queue_prev'[t] = NULL
  BY <1>1, <1>2 DEF IInv, WaitQueuesOK
<1>10. QED
  BY <1>1, <1>7, <1>8, <1>9 DEF WaitQueuesOK

(* One turn of the loop takes the head off the chain.  If that was the     *)
(* last link, nobody is left.                                              *)
LEMMA WaitWakeUp ==
  ASSUME IInv, WakeUp
  PROVE  WaitQueuesOK'
<1> USE TaskAssumption, QueueAssumption
<1> DEFINE S == Waiters(keyboard_queue)
           f == first[keyboard_queue]
           n == queue_next[wt]
<1>1. /\ wt \in S /\ wt \in AllTask
      /\ Waiters(keyboard_queue)' = S \ {wt}
      /\ Waiters(block_queue)' = Waiters(block_queue)
  BY WakeLists
<1>2. /\ pc = "waking" /\ pc' = "waking" /\ first' = first
      /\ queue_next' = [queue_next EXCEPT ![wt] = NULL]
      /\ queue_prev' = [queue_prev EXCEPT ![wt] = NULL]
      /\ wt' = IF n = f THEN NULL ELSE n
      /\ queue_next \in [AllTask -> Link] /\ queue_prev \in [AllTask -> Link]
  BY DEF WakeUp, IInv, TypeOK, LinkRun
<1>3. IsChain(S, f)
  BY <1>2 DEF IInv, WaitQueuesOK, Queue
<1>4. S \subseteq AllTask /\ NULL \notin S /\ \A x \in S : queue[x] = keyboard_queue
  BY DEF Waiters, Created, AllTask
<1>5. \A x \in AllTask \ {wt} : queue_next'[x] = queue_next[x] /\ queue_prev'[x] = queue_prev[x]
  BY <1>2
<1>6. queue_next'[wt] = NULL /\ queue_prev'[wt] = NULL
  BY <1>1, <1>2
<1>7. IsChain(Waiters(keyboard_queue), first[keyboard_queue])'
  <2> HIDE DEF S, f, n
  <2> DEFINE R == S \ {wt}
  <2>1. CASE n \in {f, NULL}
    <3>1. wt' = NULL
      BY <2>1, <1>2
    <3>2. n \notin S \ {f}
      BY <2>1, <1>4
    <3>3. {wt} = S
      <4>1. {wt} \in SUBSET S /\ wt \in {wt}
        BY <1>1
      <4>2. \A x \in {wt} : queue_next[x] \in (S \ {f}) => queue_next[x] \in {wt}
        BY <3>2 DEF n
      <4>3. QED
        BY <4>1, <4>2, <1>3 DEF IsChain
    <3>4. Waiters(keyboard_queue)' = {}
      BY <3>3, <1>1
    <3>5. QED
      BY <3>1, <3>4 DEF IsChain
  <2>2. CASE n \notin {f, NULL}
    <3>1. wt' = n /\ n \in S
      BY <2>2, <1>1, <1>2, <1>3 DEF IsChain, n
    <3>2. n # wt /\ n \in R
      BY <2>2, <3>1, <1>1, <1>3 DEF IsChain, n
    <3>3. f \notin R
      BY <1>3 DEF IsChain
    <3>4. ASSUME NEW x \in R
          PROVE  /\ queue_next'[x] \in R \cup {f, NULL}
                 /\ queue_next'[x] # n
                 /\ \A y \in R : queue_next'[x] = queue_next'[y] => x = y
      <4>1. x \in S /\ x # wt /\ x \in AllTask /\ queue_next'[x] = queue_next[x]
        BY <1>4, <1>5
      <4>2. queue_next[x] # n
        BY <4>1, <1>1, <1>3 DEF IsChain, n
      <4>3. queue_next[x] \in R \cup {f, NULL}
        BY <4>1, <1>3 DEF IsChain
      <4>4. \A y \in R : queue_next'[y] = queue_next[y]
        BY <1>4, <1>5
      <4>5. QED
        BY <4>1, <4>2, <4>3, <4>4, <1>3 DEF IsChain
    <3>5. ASSUME NEW C \in SUBSET R, n \in C,
                 \A x \in C : queue_next'[x] \in (R \ {f}) => queue_next'[x] \in C
          PROVE  C = R
      <4> DEFINE D == C \cup {wt}
      <4>1. D \in SUBSET S /\ wt \in D
        BY <1>1
      <4>2. ASSUME NEW x \in D, queue_next[x] \in (S \ {f})
            PROVE  queue_next[x] \in D
        <5>1. CASE x = wt
          BY <5>1, <3>5 DEF n
        <5>2. CASE x # wt
          <6>1. x \in C /\ queue_next'[x] = queue_next[x]
            BY <5>2, <1>4, <1>5
          <6>2. CASE queue_next[x] = wt
            BY <6>2
          <6>3. CASE queue_next[x] # wt
            BY <6>1, <6>3, <4>2, <3>5
          <6>4. QED
            BY <6>2, <6>3
        <5>3. QED
          BY <5>1, <5>2
      <4>3. D = S
        BY <4>1, <4>2, <1>3 DEF IsChain
      <4>4. QED
        BY <4>3
    <3>6. /\ Waiters(keyboard_queue)' = R /\ first'[keyboard_queue] = f
          /\ wt' = n /\ n # NULL
      BY <1>1, <1>2, <2>2, <3>1 DEF f
    <3> HIDE DEF R
    <3>7. QED
      BY <2>2, <3>2, <3>3, <3>4, <3>5, <3>6 DEF IsChain
  <2>3. QED
    BY <2>1, <2>2
<1>8. IF first'[block_queue] = NULL THEN Waiters(block_queue)' = {}
      ELSE IsRing(queue_next', queue_prev', Waiters(block_queue)', first'[block_queue])
  <2> DEFINE B == Waiters(block_queue)
  <2>1. IF first[block_queue] = NULL THEN B = {}
        ELSE IsRing(queue_next, queue_prev, B, first[block_queue])
    BY DEF IInv, WaitQueuesOK, Queue
  <2>2. \A x \in B : x \in AllTask \ {wt}
    BY <1>1, <1>4 DEF Waiters, Created, AllTask
  <2> HIDE DEF B
  <2>3. \A x \in B : queue_next'[x] = queue_next[x] /\ queue_prev'[x] = queue_prev[x]
    BY <2>2, <1>5
  <2>4. Waiters(block_queue)' = B /\ first'[block_queue] = first[block_queue]
    BY <1>1, <1>2 DEF B
  <2>5. QED
    BY <2>1, <2>3, <2>4 DEF IsRing, Linked, Connected
<1>9. \A t \in AllTask : (\A q \in Queue : t \notin Waiters(q)') =>
                          queue_next'[t] = NULL /\ queue_prev'[t] = NULL
  <2> SUFFICES ASSUME NEW t \in AllTask, \A q \in Queue : t \notin Waiters(q)', t # wt
               PROVE  queue_next'[t] = NULL /\ queue_prev'[t] = NULL
    BY <1>6
  <2>1. \A q \in Queue : t \notin Waiters(q)
    BY <1>1 DEF Queue
  <2>2. QED
    BY <2>1, <1>5 DEF IInv, WaitQueuesOK
<1>10. QED
  BY <1>2, <1>7, <1>8, <1>9 DEF WaitQueuesOK, Queue

(* do_block puts the process at the end of its queue's ring and leaves the *)
(* other queues alone.                                                     *)
LEMMA WaitBlock ==
  ASSUME IInv, NEW q \in Queue, Block(q)
  PROVE  WaitQueuesOK'
<1> USE TaskAssumption, QueueAssumption, Pointers
<1>1. /\ current \in Created
      /\ \A r \in Queue : current \notin Waiters(r)
      /\ Waiters(q)' = Waiters(q) \cup {current}
      /\ \A r \in Queue \ {q} : Waiters(r)' = Waiters(r)
      /\ Waiters(q) \in SUBSET AllTask
  BY BlockLists
<1>2. pc = "run" /\ pc' = "schedule" /\ current \in AllTask
  BY <1>1 DEF Block, Running, Created, AllTask, SaveAll, Enqueue
<1>3. /\ queue_next \in [AllTask -> Ptr(AllTask)]
      /\ queue_prev \in [AllTask -> Ptr(AllTask)]
      /\ first \in [Queue -> Link]
  BY DEF IInv, TypeOK
<1>4. queue_next[current] = NULL /\ queue_prev[current] = NULL
  BY <1>1, <1>2 DEF IInv, WaitQueuesOK
<1>5. /\ first'[q] # NULL
      /\ IsRing(queue_next', queue_prev', Waiters(q)', first'[q])
      /\ \A x \in AllTask \ (Waiters(q) \cup {current}) :
           queue_next'[x] = queue_next[x] /\ queue_prev'[x] = queue_prev[x]
  <2>1. CASE first[q] = NULL
    <3>1. Waiters(q) = {}
      BY <2>1, <1>2 DEF IInv, WaitQueuesOK
    <3>2. /\ first' = [first EXCEPT ![q] = current]
          /\ queue_next' = queue_next /\ queue_prev' = queue_prev
      BY <2>1 DEF Block, SaveAll, Enqueue
    <3>3. first'[q] = current
      BY <3>2, <1>3
    <3>4. QED
      BY <1>1, <1>2, <1>4, <3>1, <3>2, <3>3 DEF IsRing
  <2>2. CASE first[q] # NULL
    <3>1. IsRing(queue_next, queue_prev, Waiters(q), first[q])
      BY <2>2, <1>2 DEF IInv, WaitQueuesOK
    <3>2. /\ first' = first
          /\ queue_next' = InsertNext(queue_next, queue_prev, first[q], current)
          /\ queue_prev' = InsertPrev(queue_next, queue_prev, first[q], current)
      BY <2>2 DEF Block, SaveAll, Enqueue
    <3>3. current \in AllTask \ Waiters(q)
      BY <1>1, <1>2
    <3>4. IsRing(queue_next', queue_prev', Waiters(q) \cup {current}, first[q])
      BY <1>1, <1>3, <3>1, <3>2, <3>3, InsertRing
    <3>5. \A x \in AllTask \ (Waiters(q) \cup {current}) :
             queue_next'[x] = queue_next[x] /\ queue_prev'[x] = queue_prev[x]
      <4> DEFINE a == first[q]
                 W == Waiters(q)
      <4>1. /\ W \in SUBSET AllTask /\ current \in AllTask \ W
            /\ IsRing(queue_next, queue_prev, W, a)
        BY <1>1, <3>1, <3>3
      <4>2. /\ queue_next' = InsertNext(queue_next, queue_prev, a, current)
            /\ queue_prev' = InsertPrev(queue_next, queue_prev, a, current)
        BY <3>2
      <4> HIDE DEF a, W
      <4>3. \A x \in AllTask \ (W \cup {current}) :
               queue_next'[x] = queue_next[x] /\ queue_prev'[x] = queue_prev[x]
        BY <1>3, <4>1, <4>2 DEF InsertNext, InsertPrev, IsRing, Linked
      <4>4. QED
        BY <4>3 DEF W
    <3>6. QED
      BY <1>1, <2>2, <3>2, <3>4, <3>5
  <2>3. QED
    BY <2>1, <2>2
<1>6. ASSUME NEW r \in Queue \ {q}
      PROVE  IF first'[r] = NULL THEN Waiters(r)' = {}
             ELSE IsRing(queue_next', queue_prev', Waiters(r)', first'[r])
  <2> DEFINE B == Waiters(r)
  <2>1. IF first[r] = NULL THEN B = {} ELSE IsRing(queue_next, queue_prev, B, first[r])
    BY <1>2 DEF IInv, WaitQueuesOK
  <2>2. \A x \in B : x \in AllTask \ (Waiters(q) \cup {current})
    BY <1>1 DEF Waiters, Created, AllTask
  <2>3. Waiters(r)' = B
    BY <1>1
  <2>4. first'[r] = first[r]
    BY <1>3 DEF Block, SaveAll, Enqueue
  <2> HIDE DEF B
  <2>5. \A x \in B : queue_next'[x] = queue_next[x] /\ queue_prev'[x] = queue_prev[x]
    BY <2>2, <1>5
  <2>6. QED
    BY <2>1, <2>3, <2>4, <2>5 DEF IsRing, Linked, Connected
<1>7. \A t \in AllTask : (\A r \in Queue : t \notin Waiters(r)') =>
                          queue_next'[t] = NULL /\ queue_prev'[t] = NULL
  <2> SUFFICES ASSUME NEW t \in AllTask, \A r \in Queue : t \notin Waiters(r)'
               PROVE  queue_next'[t] = NULL /\ queue_prev'[t] = NULL
    OBVIOUS
  <2>1. t \notin Waiters(q) \cup {current} /\ \A r \in Queue : t \notin Waiters(r)
    BY <1>1
  <2>2. QED
    BY <2>1, <1>5 DEF IInv, WaitQueuesOK
<1>8. QED
  BY <1>2, <1>5, <1>6, <1>7 DEF WaitQueuesOK

\* The wait queues stay rings.
LEMMA WaitStep == IInv /\ [Next]_vars => WaitQueuesOK'
<1> SUFFICES ASSUME IInv, [Next]_vars
             PROVE  WaitQueuesOK'
  OBVIOUS
<1> USE TaskAssumption, QueueAssumption
<1>1. ASSUME NEW h \in Handler, Interrupt(h) PROVE WaitQueuesOK'
  BY <1>1, WaitFrame DEF Interrupt, taskVars, waitVars, Handler, SaveAll
<1>2. CASE TimerInt \/ RetFromIntr \/ Schedule \/ Restore
  BY <1>2, WaitFrame DEF TimerInt, RetFromIntr, Schedule, Restore, taskVars,
         waitVars, Tick, Expired, NewSlice
<1>3. CASE KeyboardInt
  BY <1>3, WaitKeyboardInt
<1>4. CASE WakeUp
  BY <1>4, WaitWakeUp
<1>5. CASE WakeDone
  <2>1. /\ pc = "waking" /\ pc' # "waking" /\ wt = NULL
        /\ first' = [first EXCEPT ![keyboard_queue] = NULL]
        /\ UNCHANGED <<state, task_next, queue, queue_next, queue_prev>>
    BY <1>5 DEF WakeDone, taskVars
  <2>2. \A q \in Queue : Waiters(q)' = Waiters(q)
    BY <2>1 DEF Waiters, Created
  <2>3. Waiters(keyboard_queue) = {}
    BY <2>1 DEF IInv, WaitQueuesOK, IsChain, Queue
  <2>4. first'[keyboard_queue] = NULL /\ \A q \in Queue \ {keyboard_queue} : first'[q] = first[q]
    BY <2>1 DEF IInv, TypeOK, Queue
  <2>5. QED
    BY <2>1, <2>2, <2>3, <2>4 DEF IInv, WaitQueuesOK
<1>6. CASE LoadFlags \/ LockedCall \/ Printk \/ SystemIdle \/ Syscall \/ SyscallGetch \/ SyscallReturn
  BY <1>6, WaitFrame DEF LoadFlags, LockedCall, Printk, SystemIdle, Syscall,
         SyscallGetch, SyscallReturn, Running, taskVars, waitVars, SaveAll
<1>7. ASSUME NEW t \in Task, CreateProcess(t) PROVE WaitQueuesOK'
  <2>1. t \in AllTask \ Created /\ \A q \in Queue : Waiters(q)' = Waiters(q)
    BY <1>7, CreateLists
  <2>2. \A q \in Queue : t \notin Waiters(q)
    BY <2>1 DEF Waiters
  <2>3. queue_next[t] = NULL /\ queue_prev[t] = NULL
    BY <2>1, <2>2 DEF IInv, WaitQueuesOK
  <2>4. /\ pc = "run" /\ pc' = "run" /\ first' = first
        /\ queue_next' = queue_next /\ queue_prev' = queue_prev
    BY <1>7, <2>1, <2>3 DEF CreateProcess, Running, IInv, TypeOK, LinkTask, LinkRun
  <2>5. QED
    BY <2>1, <2>4 DEF IInv, WaitQueuesOK
<1>8. ASSUME NEW q \in Queue, Block(q) PROVE WaitQueuesOK'
  BY <1>8, WaitBlock
<1>9. CASE UNCHANGED vars
  <2>1. UNCHANGED <<state, task_next, queue, queue_next, queue_prev, first, wt, pc>>
    BY <1>9 DEF vars, taskVars, waitVars
  <2>2. \A q \in Queue : Waiters(q)' = Waiters(q)
    BY <2>1 DEF Waiters, Created
  <2>3. \A q \in Queue : IsChain(Waiters(q), first[q])' = IsChain(Waiters(q), first[q])
    BY <2>1, <2>2 DEF IsChain
  <2>4. QED
    BY <2>1, <2>2, <2>3 DEF IInv, WaitQueuesOK
<1>10. QED
  BY <1>1, <1>2, <1>3, <1>4, <1>5, <1>6, <1>7, <1>8, <1>9 DEF Next, Kernel

-----------------------------------------------------------------------------
(* The theorems.                                                           *)

(* IInv is an invariant of the scheduler: it holds after start_kernel has  *)
(* released the lock and no interrupt, switch or call breaks it.           *)
THEOREM Invariant == Spec => []IInv
<1>1. Init => IInv
  BY InitIInv
<1>2. IInv /\ [Next]_vars => IInv'
  BY TypeStep, LockStep, RunListStep, TaskListStep, WaitStep, TimesliceStep DEF IInv
<1>3. QED
  BY <1>1, <1>2, PTL DEF Spec

(* Every field of every task structure keeps its type; no list ever holds  *)
(* anything but a task or a null pointer.                                  *)
THEOREM TypeCorrect == Spec => []TypeOK
<1>1. IInv => TypeOK
  BY DEF IInv
<1>2. QED
  BY <1>1, Invariant, PTL

(* lock_kernel and unlock_kernel balance over every path through entry.S   *)
(* and schedule(), whichever task is resumed.                              *)
THEOREM LockDiscipline == Spec => []LockBalanced
<1>1. IInv => LockBalanced
  BY DEF IInv
<1>2. QED
  BY <1>1, Invariant, PTL

(* The run list of kernel/task.c is one ring with exactly the runnable     *)
(* tasks.                                                                  *)
THEOREM RunListCorrect == Spec => []RunListOK
<1>1. IInv => RunListOK
  BY DEF IInv
<1>2. QED
  BY <1>1, Invariant, PTL

(* From the first create_process on, the list of all tasks, which          *)
(* show_tasks() walks from an interrupt, is one ring without a null link,  *)
(* with every process create_process has made; before, idle_task has the   *)
(* null links it was born with.                                            *)
THEOREM TaskListCorrect == Spec => []TaskListOK
<1>1. IInv => TaskListOK
  BY DEF IInv
<1>2. QED
  BY <1>1, Invariant, PTL

(* Every wait queue is one ring with exactly its waiters, and wake_up_queue *)
(* in the middle of its loop still reaches all that it has not woken.      *)
THEOREM WaitQueuesCorrect == Spec => []WaitQueuesOK
<1>1. IInv => WaitQueuesOK
  BY DEF IInv
<1>2. QED
  BY <1>1, Invariant, PTL

(* The wrapped timeslice of do_timer_int never outlives the interrupt.     *)
THEOREM TimesliceCorrect == Spec => []TimesliceBounded
<1>1. IInv => TimesliceBounded
  BY DEF IInv
<1>2. QED
  BY <1>1, Invariant, PTL

(* schedule() chooses the idle task only when nothing is runnable.         *)
THEOREM IdleLast == Spec => IdleIsLast
<1> DEFINE Choice == pc = "schedule" => IF Runnable' = {} THEN current' = idle_task
                                                        ELSE current' \in Runnable'
<1>1. IInv /\ [Next]_vars => [Choice]_vars
  <2> SUFFICES ASSUME IInv, Next, pc = "schedule"
               PROVE  Choice
    OBVIOUS
  <2>1. Schedule
    BY DEF Next, Kernel, Interrupt, TimerInt, KeyboardInt, WakeUp, WakeDone,
           RetFromIntr, Restore, LoadFlags, LockedCall, Printk, SystemIdle,
           Syscall, SyscallGetch, SyscallReturn, CreateProcess, Block, Running,
           SaveAll, Tick, Expired, LinkRun, LinkTask, Enqueue
  <2>2. /\ current' \in Runnable \cup {idle_task} /\ Runnable' = Runnable
        /\ current' = idle_task => Runnable = {}
    BY <2>1, ScheduleLists
  <2>3. QED
    BY <2>2
<1>2. QED
  BY <1>1, Invariant, PTL DEF Spec, IdleIsLast

-----------------------------------------------------------------------------
(* Reading a list off the pointers.                                        *)

\* A set of numbers with 0 and every successor has them all.
LEMMA Induction ==
  ASSUME NEW T, T \subseteq Nat, 0 \in T, \A n \in T : n + 1 \in T
  PROVE  Nat \subseteq T
<1> DEFINE U == Nat \ T
           L == {ss \in Nat \X Nat : ss[1] < ss[2]}
<1> SUFFICES ASSUME U # {}
             PROVE  FALSE
  OBVIOUS
<1>1. IsWellFoundedOn(L, Nat)
  BY NatLessThanWellFounded DEF OpToRel
<1>2. U \subseteq Nat
  OBVIOUS
<1>3. PICK x \in U : \A y \in U : ~(<<y, x>> \in L)
  <2> HIDE DEF L, U
  <2>1. QED
    BY <1>1, <1>2, WFMin
<1>4. x # 0 /\ x - 1 \in Nat /\ x - 1 \notin T
  BY Z3
<1>5. <<x - 1, x>> \in L
  BY <1>4
<1>6. QED
  BY <1>3, <1>4, <1>5

-----------------------------------------------------------------------------
(* The walk along a list.                                                  *)

\* What the walk from y finds in n steps, rest being what it finds in one
\* step less from every task.
Found(next, end, rest, n, y) ==
  IF n = 0 \/ y = NULL THEN <<>>
  ELSE <<y>> \o (IF next[y] = end THEN <<>> ELSE rest[next[y]])

\* w is the walk's recursive function, up to m steps.
IsWalk(next, end, w, m) ==
  w = [n \in 0..m |-> [y \in Link |-> Found(next, end, w[n - 1], n, y)]]

HasWalk(next, end, m) == \E w : IsWalk(next, end, w, m)

\* The recursive function of Walk exists, for any number of steps.
LEMMA WalkExists ==
  ASSUME NEW next, NEW end, NEW N \in Nat
  PROVE  HasWalk(next, end, N)
<1> DEFINE T == {m \in Nat : HasWalk(next, end, m)}
<1>1. HasWalk(next, end, 0)
  <2> DEFINE w == [n \in 0..0 |-> [y \in Link |-> <<>>]]
  <2>1. \A n \in 0..0 : n = 0
    OBVIOUS
  <2>2. w = [n \in 0..0 |-> [y \in Link |-> Found(next, end, w[n - 1], n, y)]]
    BY <2>1 DEF Found
  <2>3. QED
    BY <2>2 DEF HasWalk, IsWalk
<1>2. ASSUME NEW m \in T
      PROVE  m + 1 \in T
  <2>1. PICK w : IsWalk(next, end, w, m)
    BY DEF HasWalk
  <2> DEFINE v == [n \in 0..(m + 1) |->
                     [y \in Link |-> Found(next, end, w[n - 1], n, y)]]
  <2>2. m \in Nat
    OBVIOUS
  <2>3. ASSUME NEW n \in 0..(m + 1), NEW y \in Link
        PROVE  Found(next, end, w[n - 1], n, y) = Found(next, end, v[n - 1], n, y)
    <3>1. CASE n = 0
      BY <3>1 DEF Found
    <3>2. CASE n # 0
      <4>1. n - 1 \in 0..m /\ n - 1 \in 0..(m + 1)
        BY <2>2, <3>2
      <4>2. w[n - 1] = [z \in Link |-> Found(next, end, w[n - 1 - 1], n - 1, z)]
        BY <2>1, <4>1 DEF IsWalk
      <4>3. v[n - 1] = [z \in Link |-> Found(next, end, w[n - 1 - 1], n - 1, z)]
        BY <4>1
      <4>4. QED
        BY <4>2, <4>3
    <3>3. QED
      BY <3>1, <3>2
  <2>4. v = [n \in 0..(m + 1) |-> [y \in Link |-> Found(next, end, v[n - 1], n, y)]]
    <3> DEFINE u == [n \in 0..(m + 1) |-> [y \in Link |-> Found(next, end, v[n - 1], n, y)]]
    <3>1. ASSUME NEW n \in 0..(m + 1)
          PROVE  v[n] = u[n]
      <4>1. v[n] = [y \in Link |-> Found(next, end, w[n - 1], n, y)]
        OBVIOUS
      <4>2. u[n] = [y \in Link |-> Found(next, end, v[n - 1], n, y)]
        OBVIOUS
      <4> HIDE DEF v, u
      <4>3. QED
        BY <4>1, <4>2, <2>3
    <3>2. v = [n \in 0..(m + 1) |-> v[n]] /\ u = [n \in 0..(m + 1) |-> u[n]]
      OBVIOUS
    <3> HIDE DEF v, u
    <3>3. v = u
      BY <3>1, <3>2
    <3>4. QED
      BY <3>3 DEF u
  <2> HIDE DEF v
  <2>5. HasWalk(next, end, m + 1)
    BY <2>4 DEF HasWalk, IsWalk
  <2>6. QED
    BY <2>2, <2>5
<1>3. Nat \subseteq T
  <2>1. T \subseteq Nat /\ 0 \in T
    BY <1>1
  <2> HIDE DEF T
  <2>2. \A m \in T : m + 1 \in T
    BY <1>2
  <2>3. QED
    BY <2>1, <2>2, Induction
<1>4. QED
  BY <1>3

\* There are as many tasks as Cardinality says.
LEMMA TaskCount == IsFiniteSet(AllTask) /\ Cardinality(AllTask) \in Nat
<1>1. IsFiniteSet(Task \cup {idle_task})
  BY TaskFinite, FS_AddElement
<1>2. QED
  BY <1>1, FS_CardinalityType DEF AllTask

\* What Walk finds, step by step.
LEMMA WalkSteps ==
  ASSUME NEW next, NEW end
  PROVE  \E w : /\ \A x : Walk(next, x, end) = w[Cardinality(AllTask)][x]
                /\ \A n \in 0..Cardinality(AllTask) : \A y \in Link :
                     w[n][y] = Found(next, end, w[n - 1], n, y)
<1> DEFINE N == Cardinality(AllTask)
           c == CHOOSE w :
                  w = [n \in 0..N |->
                        [y \in Link |->
                           IF n = 0 \/ y = NULL THEN <<>>
                           ELSE <<y>> \o (IF next[y] = end THEN <<>> ELSE w[n - 1][next[y]])]]
<1>1. \A x : Walk(next, x, end) = c[N][x]
  BY DEF Walk
<1>2. PICK w : IsWalk(next, end, w, N)
  BY TaskCount, WalkExists DEF HasWalk
<1>3. w = [n \in 0..N |->
            [y \in Link |->
               IF n = 0 \/ y = NULL THEN <<>>
               ELSE <<y>> \o (IF next[y] = end THEN <<>> ELSE w[n - 1][next[y]])]]
  BY <1>2, Zenon DEF IsWalk, Found
<1>4. c = [n \in 0..N |->
            [y \in Link |->
               IF n = 0 \/ y = NULL THEN <<>>
               ELSE <<y>> \o (IF next[y] = end THEN <<>> ELSE c[n - 1][next[y]])]]
  BY <1>3, Zenon
<1> HIDE DEF c
<1>5. \A n \in 0..N : \A y \in Link : c[n][y] = Found(next, end, c[n - 1], n, y)
  <2> SUFFICES ASSUME NEW n \in 0..N, NEW y \in Link
               PROVE  c[n][y] = Found(next, end, c[n - 1], n, y)
    OBVIOUS
  <2>1. c[n] = [z \in Link |->
                  IF n = 0 \/ z = NULL THEN <<>>
                  ELSE <<z>> \o (IF next[z] = end THEN <<>> ELSE c[n - 1][next[z]])]
    BY <1>4, Zenon
  <2>2. c[n][y] = IF n = 0 \/ y = NULL THEN <<>>
                  ELSE <<y>> \o (IF next[y] = end THEN <<>> ELSE c[n - 1][next[y]])
    BY <2>1, Zenon
  <2>3. QED
    BY <2>2, Zenon DEF Found
<1>6. QED
  BY <1>1, <1>5

\* A list has no more elements than there are tasks.
LEMMA OrderLength ==
  ASSUME NEW next, NEW x, NEW end, NEW S, NEW s, IsOrder(next, x, end, S, s)
  PROVE  Len(s) \in Nat /\ Len(s) <= Cardinality(AllTask)
<1>1. s \in Seq(AllTask) /\ \A i, j \in 1..Len(s) : s[i] = s[j] => i = j
  BY DEF IsOrder
<1>2. Len(s) \in Nat /\ s \in [1..Len(s) -> AllTask]
  BY <1>1
<1>3. s \in Injection(1..Len(s), AllTask)
  BY <1>1, <1>2 DEF Injection, IsInjective
<1>4. Cardinality(1..Len(s)) <= Cardinality(AllTask)
  BY <1>3, TaskCount, FS_Injection
<1>5. Cardinality(1..Len(s)) = Len(s)
  <2>1. 1 \in Int /\ Len(s) \in Int
    BY <1>2
  <2>2. Cardinality(1..Len(s)) = IF 1 > Len(s) THEN 0 ELSE Len(s) - 1 + 1
    BY <2>1, FS_Interval
  <2>3. QED
    BY <1>2, <2>2
<1>6. QED
  BY <1>2, <1>4, <1>5

(* Walk returns the list that there is to be read off.                     *)
LEMMA WalkIsOrder ==
  ASSUME NEW next, NEW x \in Link, NEW end, NEW S, NEW s,
         IsOrder(next, x, end, S, s)
  PROVE  Walk(next, x, end) = s
<1> DEFINE N == Cardinality(AllTask)
           L == Len(s)
<1>1. /\ s \in Seq(AllTask) /\ L \in Nat /\ L <= N /\ N \in Nat
      /\ \A j \in 1..L : s[j] \in AllTask /\ s[j] # NULL /\ s[j] \in Link
  <2>1. s \in Seq(AllTask) /\ L \in Nat /\ L <= N /\ N \in Nat
    <3>1. s \in Seq(AllTask)
      BY DEF IsOrder
    <3>2. L \in Nat /\ L <= N
      BY OrderLength
    <3>3. QED
      BY <3>1, <3>2, TaskCount
  <2>2. ASSUME NEW j \in 1..L
        PROVE  s[j] \in AllTask
    BY <2>1
  <2>3. AllTask \subseteq Link /\ NULL \notin AllTask
    BY TaskAssumption DEF Link, AllTask
  <2>4. QED
    BY <2>1, <2>2, <2>3
<1>2. /\ IF x = NULL THEN s = <<>> ELSE s # <<>> /\ s[1] = x
      /\ \A j \in 1..L : IF j = L THEN next[s[j]] \in {end, NULL}
                         ELSE next[s[j]] = s[j + 1] /\ s[j + 1] \notin {end, NULL}
  BY DEF IsOrder
<1>3. PICK w : /\ \A y : Walk(next, y, end) = w[N][y]
               /\ \A n \in 0..N : \A y \in Link : w[n][y] = Found(next, end, w[n - 1], n, y)
  BY WalkSteps
<1>4. NULL \in Link
  BY DEF Link
<1> DEFINE T == {m \in Nat : m <= N =>
                   /\ w[m][NULL] = <<>>
                   /\ \A j \in 1..L : L - j + 1 <= m => w[m][s[j]] = SubSeq(s, j, L)}
<1>5. 0 \in T
  <2>1. 0 \in 0..N /\ \A j \in 1..L : ~(L - j + 1 <= 0)
    BY <1>1
  <2>2. w[0][NULL] = Found(next, end, w[0 - 1], 0, NULL)
    BY <1>3, <1>4, <2>1
  <2>3. QED
    BY <2>1, <2>2 DEF Found
<1>6. ASSUME NEW m \in T
      PROVE  m + 1 \in T
  <2> SUFFICES ASSUME m + 1 <= N
               PROVE  /\ w[m + 1][NULL] = <<>>
                      /\ \A j \in 1..L : L - j + 1 <= m + 1 => w[m + 1][s[j]] = SubSeq(s, j, L)
    OBVIOUS
  <2>1. /\ m \in Nat /\ m + 1 \in 0..N /\ m + 1 # 0 /\ m + 1 - 1 = m /\ m <= N
        /\ w[m][NULL] = <<>>
        /\ \A j \in 1..L : L - j + 1 <= m => w[m][s[j]] = SubSeq(s, j, L)
    BY <1>1
  <2>2. \A y \in Link : w[m + 1][y] = Found(next, end, w[m], m + 1, y)
    BY <1>3, <2>1
  <2>3. w[m + 1][NULL] = <<>>
    BY <1>4, <2>2 DEF Found
  <2>4. ASSUME NEW j \in 1..L, L - j + 1 <= m + 1
        PROVE  w[m + 1][s[j]] = SubSeq(s, j, L)
    <3>1. w[m + 1][s[j]] = <<s[j]>> \o (IF next[s[j]] = end THEN <<>> ELSE w[m][next[s[j]]])
      <4>1. s[j] \in Link /\ s[j] # NULL
        BY <1>1
      <4>2. w[m + 1][s[j]] = Found(next, end, w[m], m + 1, s[j])
        BY <2>2, <4>1
      <4>3. QED
        BY <2>1, <4>1, <4>2, Zenon DEF Found
    <3>2. SubSeq(s, j, L) = <<s[j]>> \o SubSeq(s, j + 1, L)
      BY <1>1, SubSeqRecursiveFirst
    <3>3. CASE j = L
      <4>1. next[s[j]] \in {end, NULL}
        BY <1>2, <3>3
      <4>2. (IF next[s[j]] = end THEN <<>> ELSE w[m][next[s[j]]]) = <<>>
        BY <2>1, <4>1
      <4>3. SubSeq(s, j + 1, L) = <<>>
        BY <1>1, <3>3, SubSeqEmpty
      <4>4. QED
        BY <3>1, <3>2, <4>2, <4>3
    <3>4. CASE j # L
      <4>1. next[s[j]] = s[j + 1] /\ s[j + 1] \notin {end, NULL}
        BY <1>2, <3>4
      <4>2. j + 1 \in 1..L /\ L - (j + 1) + 1 <= m
        BY <1>1, <2>1, <2>4, <3>4
      <4>3. w[m][s[j + 1]] = SubSeq(s, j + 1, L)
        BY <2>1, <4>2
      <4>4. (IF next[s[j]] = end THEN <<>> ELSE w[m][next[s[j]]]) = SubSeq(s, j + 1, L)
        BY <4>1, <4>3
      <4>5. QED
        BY <3>1, <3>2, <4>4
    <3>5. QED
      BY <3>3, <3>4
  <2>5. QED
    BY <2>3, <2>4
<1>7. N \in T
  <2>1. T \subseteq Nat
    OBVIOUS
  <2> HIDE DEF T
  <2>2. \A m \in T : m + 1 \in T
    BY <1>6
  <2>3. Nat \subseteq T
    BY <1>5, <2>1, <2>2, Induction
  <2>4. QED
    BY <1>1, <2>3
<1>8. w[N][NULL] = <<>> /\ \A j \in 1..L : L - j + 1 <= N => w[N][s[j]] = SubSeq(s, j, L)
  BY <1>1, <1>7
<1>9. CASE x = NULL
  BY <1>2, <1>3, <1>8, <1>9
<1>10. CASE x # NULL
  <2>1. 1 \in 1..L /\ s[1] = x /\ L - 1 + 1 <= N
    BY <1>1, <1>2, <1>10
  <2>2. w[N][x] = SubSeq(s, 1, L)
    BY <1>8, <2>1
  <2>3. SubSeq(s, 1, L) = s
    BY <1>1, SubSeqFull
  <2>4. QED
    BY <1>3, <2>2, <2>3
<1>11. QED
  BY <1>9, <1>10

-----------------------------------------------------------------------------
(* Operations on lists that are read off.                                  *)

(* Links that agree on the elements give the same list.                    *)
LEMMA OrderFrame ==
  ASSUME NEW next, NEW n, NEW x, NEW end, NEW S, NEW s,
         IsOrder(next, x, end, S, s), \A y \in S : n[y] = next[y]
  PROVE  IsOrder(n, x, end, S, s)
<1>1. \A i \in 1..Len(s) : s[i] \in S
  BY DEF IsOrder
<1>2. \A i \in 1..Len(s) : n[s[i]] = next[s[i]]
  BY <1>1
<1>3. QED
  BY <1>2 DEF IsOrder

(* In a ring the task before the anchor is the last one of the list.       *)
LEMMA LastOfRing ==
  ASSUME NEW next, NEW prev, NEW S \in SUBSET AllTask, NEW a, NEW s,
         IsRing(next, prev, S, a), IsOrder(next, a, a, S, s)
  PROVE  /\ Len(s) \in Nat \ {0}
         /\ s[Len(s)] = IF next[a] = NULL THEN a ELSE prev[a]
<1> DEFINE L == Len(s)
<1>1. a \in S /\ a # NULL /\ NULL \notin S
  BY TaskAssumption DEF IsRing, AllTask
<1>2. s \in Seq(AllTask) /\ s # <<>> /\ s[1] = a
  BY <1>1 DEF IsOrder
<1>3. L \in Nat \ {0} /\ 1 \in 1..L /\ L \in 1..L
  BY <1>2
<1>4. next[s[L]] \in {a, NULL} /\ s[L] \in S
  BY <1>3 DEF IsOrder
<1>5. CASE S = {a} /\ next[a] = NULL
  BY <1>3, <1>4, <1>5
<1>6. CASE Linked(next, prev, S)
  <2>1. next[s[L]] \in S /\ prev[next[s[L]]] = s[L] /\ next[a] \in S
    BY <1>1, <1>4, <1>6 DEF Linked
  <2>2. next[s[L]] = a /\ next[a] # NULL
    BY <1>1, <1>4, <2>1
  <2>3. QED
    BY <1>3, <2>1, <2>2
<1>7. QED
  BY <1>5, <1>6 DEF IsRing

(* A new element comes last.                                               *)
LEMMA InsertOrder ==
  ASSUME NEW next \in [AllTask -> Link], NEW prev \in [AllTask -> Link],
         NEW S \in SUBSET AllTask, NEW a, NEW s, NEW x \in AllTask \ S,
         IsRing(next, prev, S, a), IsOrder(next, a, a, S, s)
  PROVE  IsOrder(InsertNext(next, prev, a, x), a, a, S \cup {x}, Append(s, x))
<1> DEFINE L == Len(s)
           r == Append(s, x)
           z == IF next[a] = NULL THEN a ELSE prev[a]
           n == InsertNext(next, prev, a, x)
<1>1. a \in S /\ a # NULL /\ NULL \notin AllTask /\ x \in AllTask /\ x \notin S
  BY TaskAssumption DEF IsRing, AllTask
<1>2. s \in Seq(AllTask) /\ s # <<>> /\ s[1] = a
  BY <1>1 DEF IsOrder
<1>3. L \in Nat \ {0} /\ s[L] = z
  BY LastOfRing
<1>4. /\ r \in Seq(AllTask) /\ Len(r) = L + 1 /\ r[L + 1] = x
      /\ \A i \in 1..L : r[i] = s[i]
  BY <1>1, <1>2
<1>5. S = {s[i] : i \in 1..L}
  BY DEF IsOrder
<1>6. /\ n[x] = a /\ n[z] = x
      /\ \A y \in S \ {z} : n[y] = next[y]
  <2>1. z \in S /\ z \in AllTask /\ a \in AllTask
    BY <1>1, <1>3, <1>5
  <2>2. QED
    BY <1>1, <2>1 DEF InsertNext
<1> HIDE DEF r, n, z
<1>7. \A i \in 1..Len(r) : \/ i \in 1..L /\ r[i] = s[i] /\ r[i] \in S
                           \/ i = L + 1 /\ r[i] = x
  <2> SUFFICES ASSUME NEW i \in 1..Len(r)
               PROVE  \/ i \in 1..L /\ r[i] = s[i] /\ r[i] \in S
                      \/ i = L + 1 /\ r[i] = x
    OBVIOUS
  <2>1. i \in 1..L \/ i = L + 1
    BY <1>3, <1>4
  <2>2. \A k \in 1..L : s[k] \in S
    BY <1>5
  <2>3. QED
    BY <1>4, <2>1, <2>2
<1>8. S \cup {x} = {r[i] : i \in 1..Len(r)}
  <2>1. \A i \in 1..Len(r) : r[i] \in S \cup {x}
    BY <1>7
  <2>2. \A y \in S \cup {x} : \E i \in 1..Len(r) : y = r[i]
    <3>1. x = r[L + 1] /\ L + 1 \in 1..Len(r)
      BY <1>3, <1>4
    <3>2. \A i \in 1..L : i \in 1..Len(r) /\ s[i] = r[i]
      BY <1>3, <1>4
    <3>3. QED
      BY <1>5, <3>1, <3>2
  <2>3. QED
    BY <2>1, <2>2
<1>9. ASSUME NEW i \in 1..Len(r), NEW j \in 1..Len(r), r[i] = r[j]
      PROVE  i = j
  <2>1. \A k, l \in 1..L : s[k] = s[l] => k = l
    BY DEF IsOrder
  <2>2. QED
    BY <1>1, <1>7, <1>9, <2>1
<1>10. ASSUME NEW i \in 1..Len(r)
       PROVE  IF i = Len(r) THEN n[r[i]] \in {a, NULL}
              ELSE n[r[i]] = r[i + 1] /\ r[i + 1] \notin {a, NULL}
  <2>1. CASE i = L + 1
    BY <1>4, <1>6, <2>1
  <2>2. CASE i = L
    <3>1. r[i] = z /\ r[i + 1] = x /\ i # Len(r)
      BY <1>3, <1>4, <2>2
    <3>2. QED
      BY <1>1, <1>6, <3>1
  <2>3. CASE i # L /\ i # L + 1
    <3>1. i \in 1..L /\ i + 1 \in 1..L /\ i # Len(r) /\ L \in 1..L
      BY <1>3, <1>4, <2>3
    <3>2. r[i] = s[i] /\ r[i + 1] = s[i + 1] /\ s[i] \in S /\ s[i] # s[L]
      <4>1. \A k, l \in 1..L : s[k] = s[l] => k = l
        BY DEF IsOrder
      <4>2. QED
        BY <1>4, <1>5, <2>3, <3>1, <4>1
    <3>3. next[s[i]] = s[i + 1] /\ s[i + 1] \notin {a, NULL}
      BY <2>3, <3>1 DEF IsOrder
    <3>4. n[s[i]] = next[s[i]]
      BY <1>3, <1>6, <3>2
    <3>5. QED
      BY <3>1, <3>2, <3>3, <3>4
  <2>4. QED
    BY <2>1, <2>2, <2>3
<1>11. r # <<>> /\ r[1] = a
  BY <1>2, <1>3, <1>4
<1>12. IsOrder(n, a, a, S \cup {x}, r)
  <2>1. \A i, j \in 1..Len(r) : r[i] = r[j] => i = j
    BY <1>9
  <2>2. \A i \in 1..Len(r) :
          IF i = Len(r) THEN n[r[i]] \in {a, NULL}
          ELSE n[r[i]] = r[i + 1] /\ r[i + 1] \notin {a, NULL}
    BY <1>10
  <2>3. QED
    BY <1>1, <1>4, <1>8, <1>11, <2>1, <2>2, Zenon DEF IsOrder
<1>13. QED
  BY <1>12 DEF r, n

\* A sequence without its i-th element.
Cut(s, i) == SubSeq(s, 1, i - 1) \o SubSeq(s, i + 1, Len(s))

LEMMA CutIndex ==
  ASSUME NEW T, NEW s \in Seq(T), NEW i \in 1..Len(s)
  PROVE  /\ Cut(s, i) \in Seq(T) /\ Len(Cut(s, i)) = Len(s) - 1
         /\ \A k \in 1..(i - 1) : Cut(s, i)[k] = s[k]
         /\ \A k \in i..(Len(s) - 1) : Cut(s, i)[k] = s[k + 1]
<1> DEFINE L == Len(s)
           p == SubSeq(s, 1, i - 1)
           q == SubSeq(s, i + 1, L)
<1>1. L \in Nat /\ i \in Nat /\ 1 <= i /\ i <= L
  OBVIOUS
<1>2. p \in Seq(T) /\ Len(p) = i - 1 /\ \A k \in 1..(i - 1) : p[k] = s[k]
  <2>1. 1 \in Int /\ i - 1 \in Int /\ \A k \in 1..(i - 1) : s[k] \in T
    BY <1>1
  <2>2. /\ p \in Seq(T)
        /\ Len(p) = IF 1 <= i - 1 THEN i - 1 - 1 + 1 ELSE 0
        /\ \A k \in 1..(i - 1 - 1 + 1) : p[k] = s[1 + k - 1]
    BY <2>1, SubSeqProperties
  <2> HIDE DEF p
  <2>3. QED
    BY <1>1, <2>2
<1>3. q \in Seq(T) /\ Len(q) = L - i /\ \A k \in 1..(L - i) : q[k] = s[i + k]
  <2>1. i + 1 \in Int /\ L \in Int /\ \A k \in (i + 1)..L : s[k] \in T
    BY <1>1
  <2>2. /\ q \in Seq(T)
        /\ Len(q) = IF i + 1 <= L THEN L - (i + 1) + 1 ELSE 0
        /\ \A k \in 1..(L - (i + 1) + 1) : q[k] = s[i + 1 + k - 1]
    BY <2>1, SubSeqProperties
  <2> HIDE DEF q
  <2>3. QED
    BY <1>1, <2>2
<1> HIDE DEF p, q
<1>4. /\ p \o q \in Seq(T) /\ Len(p \o q) = L - 1
      /\ \A k \in 1..(i - 1) : (p \o q)[k] = p[k]
      /\ \A k \in 1..(L - i) : (p \o q)[i - 1 + k] = q[k]
  <2>1. /\ p \o q \in Seq(T) /\ Len(p \o q) = Len(p) + Len(q)
        /\ \A k \in 1..(Len(p) + Len(q)) :
             (p \o q)[k] = IF k <= Len(p) THEN p[k] ELSE q[k - Len(p)]
    BY <1>2, <1>3, ConcatProperties
  <2>2. Len(p \o q) = L - 1
    BY <1>1, <1>2, <1>3, <2>1
  <2>3. ASSUME NEW k \in 1..(i - 1)
        PROVE  (p \o q)[k] = p[k]
    <3>1. k \in 1..(Len(p) + Len(q)) /\ k <= Len(p)
      BY <1>1, <1>2, <1>3
    <3>2. QED
      BY <2>1, <3>1
  <2>4. ASSUME NEW k \in 1..(L - i)
        PROVE  (p \o q)[i - 1 + k] = q[k]
    <3>1. /\ i - 1 + k \in 1..(Len(p) + Len(q)) /\ ~(i - 1 + k <= Len(p))
          /\ i - 1 + k - Len(p) = k
      BY <1>1, <1>2, <1>3
    <3>2. QED
      BY <2>1, <3>1
  <2>5. QED
    BY <2>1, <2>2, <2>3, <2>4
<1>5. Cut(s, i) = p \o q
  BY DEF p, q, Cut
<1>6. ASSUME NEW k \in 1..(i - 1)
      PROVE  Cut(s, i)[k] = s[k]
  BY <1>2, <1>4, <1>5
<1>7. ASSUME NEW k \in i..(L - 1)
      PROVE  Cut(s, i)[k] = s[k + 1]
  <2>1. k - i + 1 \in 1..(L - i) /\ i - 1 + (k - i + 1) = k /\ i + (k - i + 1) = k + 1
    BY <1>1
  <2>2. (p \o q)[i - 1 + (k - i + 1)] = q[k - i + 1] /\ q[k - i + 1] = s[i + (k - i + 1)]
    BY <1>3, <1>4, <2>1
  <2>3. QED
    BY <1>5, <2>1, <2>2
<1>8. QED
  BY <1>4, <1>5, <1>6, <1>7

(* An element other than the anchor leaves; the others keep their order.   *)
LEMMA RemoveOrder ==
  ASSUME NEW next \in [AllTask -> Link], NEW prev \in [AllTask -> Link],
         NEW S \in SUBSET AllTask, NEW a, NEW s, NEW i \in 1..Len(s),
         IsRing(next, prev, S, a), IsOrder(next, a, a, S, s), s[i] # a
  PROVE  IsOrder(RemoveNext(next, prev, s[i]), a, a, S \ {s[i]}, Cut(s, i))
<1> DEFINE L == Len(s)
           r == Cut(s, i)
           n == RemoveNext(next, prev, s[i])
<1>1. a \in S /\ a # NULL /\ NULL \notin AllTask
  BY TaskAssumption DEF IsRing, AllTask
<1>2. s \in Seq(AllTask) /\ s # <<>> /\ s[1] = a
  BY <1>1 DEF IsOrder
<1>3. L \in Nat /\ i \in 2..L
  BY <1>2
<1>4. S = {s[k] : k \in 1..L} /\ \A k, l \in 1..L : s[k] = s[l] => k = l
  BY DEF IsOrder
<1>5. \A k \in 1..L : /\ s[k] \in S /\ s[k] \in AllTask
                      /\ IF k = L THEN next[s[k]] \in {a, NULL}
                         ELSE next[s[k]] = s[k + 1] /\ s[k + 1] \notin {a, NULL}
  BY <1>4 DEF IsOrder
<1>6. prev[s[i]] = s[i - 1]
  <2>1. i - 1 \in 1..L /\ i - 1 # L /\ i - 1 + 1 = i
    BY <1>3
  <2>2. next[s[i - 1]] = s[i] /\ s[i - 1] \in S
    BY <1>5, <2>1
  <2>3. s[i] \in S /\ S # {a}
    BY <1>5
  <2>4. Linked(next, prev, S)
    BY <2>3 DEF IsRing
  <2>5. QED
    BY <2>2, <2>4 DEF Linked
<1>7. /\ n[s[i - 1]] = next[s[i]]
      /\ \A k \in 1..L : k # i /\ k # i - 1 => n[s[k]] = next[s[k]]
  <2>1. i - 1 \in 1..L /\ i - 1 # i
    BY <1>3
  <2>2. s[i - 1] # s[i] /\ s[i - 1] \in AllTask /\ s[i] \in AllTask
    BY <1>4, <1>5, <2>1
  <2>3. \A k \in 1..L : k # i /\ k # i - 1 => s[k] # s[i] /\ s[k] # s[i - 1]
    BY <1>4, <2>1
  <2>4. QED
    BY <1>5, <1>6, <2>2, <2>3 DEF RemoveNext
<1>8. /\ r \in Seq(AllTask) /\ Len(r) = L - 1
      /\ \A k \in 1..(i - 1) : r[k] = s[k]
      /\ \A k \in i..(L - 1) : r[k] = s[k + 1]
  <2>1. s \in Seq(AllTask)
    BY <1>2
  <2>2. QED
    BY <2>1, CutIndex
<1> HIDE DEF n, r
<1>9. S \ {s[i]} = {r[k] : k \in 1..Len(r)}
  <2>1. \A k \in 1..Len(r) : r[k] \in S \ {s[i]}
    <3> SUFFICES ASSUME NEW k \in 1..Len(r)
                 PROVE  r[k] \in S \ {s[i]}
      OBVIOUS
    <3>1. /\ k \in 1..L /\ k + 1 \in 1..L
          /\ (k \in 1..(i - 1) /\ k # i) \/ (k \in i..(L - 1) /\ k + 1 # i)
      BY <1>3, <1>8
    <3>2. QED
      BY <1>4, <1>5, <1>8, <3>1
  <2>2. ASSUME NEW y \in S \ {s[i]}
        PROVE  \E k \in 1..Len(r) : y = r[k]
    <3>1. PICK k \in 1..L : y = s[k]
      BY <1>4
    <3>2. CASE k < i
      <4>1. k \in 1..(L - 1) /\ k \in 1..(i - 1)
        BY <1>3, <3>2
      <4>2. QED
        BY <1>8, <3>1, <4>1
    <3>3. CASE ~(k < i)
      <4>1. k - 1 \in 1..(L - 1) /\ k - 1 \in i..(L - 1) /\ k - 1 + 1 = k
        BY <1>3, <3>1, <3>3
      <4>2. r[k - 1] = s[k]
        BY <1>8, <4>1
      <4>3. QED
        BY <1>8, <3>1, <4>1, <4>2
    <3>4. QED
      BY <3>2, <3>3
  <2> DEFINE R == S \ {s[i]}
  <2> HIDE DEF R
  <2>3. (\A k \in 1..Len(r) : r[k] \in R) /\ \A y \in R : \E k \in 1..Len(r) : y = r[k]
    BY <2>1, <2>2 DEF R
  <2>4. R = {r[k] : k \in 1..Len(r)}
    BY <2>3
  <2>5. QED
    BY <2>4 DEF R
<1>10. ASSUME NEW k \in 1..Len(r), NEW l \in 1..Len(r), r[k] = r[l]
       PROVE  k = l
  <2>1. /\ k \in 1..L /\ k + 1 \in 1..L /\ l \in 1..L /\ l + 1 \in 1..L
        /\ (k < i => k \in 1..(i - 1)) /\ (~(k < i) => k \in i..(L - 1))
        /\ (l < i => l \in 1..(i - 1)) /\ (~(l < i) => l \in i..(L - 1))
    BY <1>3, <1>8
  <2>2. r[k] = (IF k < i THEN s[k] ELSE s[k + 1]) /\ r[l] = (IF l < i THEN s[l] ELSE s[l + 1])
    BY <1>8, <2>1
  <2>3. (IF k < i THEN k ELSE k + 1) = (IF l < i THEN l ELSE l + 1)
    BY <1>4, <1>10, <2>1, <2>2
  <2>4. QED
    BY <1>3, <2>1, <2>3
<1>11. ASSUME NEW k \in 1..Len(r)
       PROVE  IF k = Len(r) THEN n[r[k]] \in {a, NULL}
              ELSE n[r[k]] = r[k + 1] /\ r[k + 1] \notin {a, NULL}
  <2>1. k \in 1..(L - 1) /\ k \in 1..L /\ k + 1 \in 1..L /\ k # L
    BY <1>3, <1>8
  <2>2. CASE k = i - 1 /\ k = Len(r)
    <3>0. k \in 1..(i - 1) /\ i = L
      BY <1>3, <1>8, <2>1, <2>2
    <3>1. r[k] = s[i - 1] /\ i = L
      BY <1>8, <2>2, <3>0
    <3>2. next[s[i]] \in {a, NULL}
      BY <1>5, <3>1
    <3>3. QED
      BY <1>7, <2>2, <3>1, <3>2
  <2>3. CASE k = i - 1 /\ k # Len(r)
    <3>0. k \in 1..(i - 1) /\ i # L /\ i \in 1..L /\ i \in i..(L - 1) /\ k + 1 = i
      BY <1>3, <1>8, <2>1, <2>3
    <3>1. r[k] = s[i - 1] /\ i # L /\ i \in 1..L
      BY <1>8, <2>3, <3>0
    <3>2. r[k + 1] = s[i + 1]
      BY <1>8, <3>0
    <3>3. next[s[i]] = s[i + 1] /\ s[i + 1] \notin {a, NULL}
      BY <1>5, <3>1
    <3>4. QED
      BY <1>7, <2>3, <3>1, <3>2, <3>3
  <2>4. CASE k < i - 1
    <3>1. k \in 1..(i - 1) /\ k + 1 \in 1..(i - 1) /\ k # i /\ k # i - 1 /\ k # Len(r)
      BY <1>3, <1>8, <2>1, <2>4
    <3>2. r[k] = s[k] /\ r[k + 1] = s[k + 1]
      BY <1>8, <3>1
    <3>3. QED
      BY <1>5, <1>7, <2>1, <3>1, <3>2
  <2>5. CASE ~(k < i) /\ k = Len(r)
    <3>0. k \in i..(L - 1) /\ k + 1 = L /\ k + 1 # i /\ k + 1 # i - 1
      BY <1>3, <1>8, <2>1, <2>5
    <3>1. r[k] = s[k + 1] /\ k + 1 = L /\ k + 1 # i /\ k + 1 # i - 1
      BY <1>8, <3>0
    <3>2. next[s[k + 1]] \in {a, NULL}
      BY <1>5, <2>1, <3>1
    <3>3. QED
      BY <1>7, <2>1, <2>5, <3>1, <3>2
  <2>6. CASE ~(k < i) /\ k # Len(r)
    <3>1. /\ k + 1 # i /\ k + 1 # i - 1 /\ k + 1 # L
          /\ k \in i..(L - 1) /\ k + 1 \in i..(L - 1)
      BY <1>3, <1>8, <2>1, <2>6
    <3>2. r[k] = s[k + 1] /\ r[k + 1] = s[k + 1 + 1]
      BY <1>8, <3>1
    <3>3. next[s[k + 1]] = s[k + 1 + 1] /\ s[k + 1 + 1] \notin {a, NULL}
      BY <1>5, <2>1, <3>1
    <3>4. QED
      BY <1>7, <2>1, <2>6, <3>1, <3>2, <3>3
  <2>7. QED
    BY <1>3, <2>1, <2>2, <2>3, <2>4, <2>5, <2>6
<1>12. r # <<>> /\ r[1] = a
  <2>1. 1 \in 1..(i - 1) /\ L - 1 # 0
    BY <1>3
  <2>2. r[1] = s[1] /\ Len(r) # 0
    BY <1>8, <2>1
  <2>3. r # <<>>
    BY <2>2
  <2>4. QED
    BY <1>2, <2>2, <2>3
<1>13. IsOrder(n, a, a, S \ {s[i]}, r)
  <2>1. \A k, l \in 1..Len(r) : r[k] = r[l] => k = l
    BY <1>10
  <2>2. \A k \in 1..Len(r) :
          IF k = Len(r) THEN n[r[k]] \in {a, NULL}
          ELSE n[r[k]] = r[k + 1] /\ r[k + 1] \notin {a, NULL}
    BY <1>11
  <2>3. QED
    BY <1>1, <1>8, <1>9, <1>12, <2>1, <2>2, Zenon DEF IsOrder
<1>14. QED
  BY <1>13 DEF n, r

(* The first element leaves; the list of the others starts behind it.      *)
LEMMA HeadOrder ==
  ASSUME NEW next \in [AllTask -> Link], NEW S \in SUBSET AllTask, NEW x \in AllTask,
         NEW end, NEW s, IsOrder(next, x, end, S, s)
  PROVE  IsOrder([next EXCEPT ![x] = NULL],
                 IF next[x] = end THEN NULL ELSE next[x], end, S \ {x}, Tail(s))
<1> DEFINE L == Len(s)
           r == Tail(s)
           n == [next EXCEPT ![x] = NULL]
           y == IF next[x] = end THEN NULL ELSE next[x]
<1>1. NULL \notin AllTask /\ x # NULL
  BY TaskAssumption DEF AllTask
<1>2. s \in Seq(AllTask) /\ s # <<>> /\ s[1] = x
  BY <1>1 DEF IsOrder
<1>3. L \in Nat /\ L >= 1
  BY <1>2
<1>4. /\ r \in Seq(AllTask) /\ Len(r) = L - 1
      /\ \A k \in 1..(L - 1) : r[k] = s[k + 1]
  BY <1>2
<1>5. S = {s[k] : k \in 1..L} /\ \A k, l \in 1..L : s[k] = s[l] => k = l
  BY DEF IsOrder
<1>6. \A k \in 1..L : /\ s[k] \in S /\ s[k] \in AllTask
                      /\ IF k = L THEN next[s[k]] \in {end, NULL}
                         ELSE next[s[k]] = s[k + 1] /\ s[k + 1] \notin {end, NULL}
  BY <1>5 DEF IsOrder
<1>7. \A z \in AllTask \ {x} : n[z] = next[z]
  OBVIOUS
<1> HIDE DEF r, n
<1>8. \A k \in 1..(L - 1) : /\ k \in 1..L /\ k + 1 \in 1..L
                            /\ s[k + 1] # x /\ s[k + 1] \in S \ {x}
                            /\ n[r[k]] = next[s[k + 1]]
  <2> SUFFICES ASSUME NEW k \in 1..(L - 1)
               PROVE  /\ k \in 1..L /\ k + 1 \in 1..L
                      /\ s[k + 1] # x /\ s[k + 1] \in S \ {x}
                      /\ n[r[k]] = next[s[k + 1]]
    OBVIOUS
  <2>1. k \in 1..L /\ k + 1 \in 1..L /\ 1 \in 1..L /\ k + 1 # 1
    BY <1>3
  <2>2. s[k + 1] # x
    BY <1>2, <1>5, <2>1
  <2>3. QED
    BY <1>4, <1>6, <1>7, <2>1, <2>2
<1>9. S \ {x} = {r[k] : k \in 1..Len(r)}
  <2>1. \A k \in 1..Len(r) : r[k] \in S \ {x}
    BY <1>4, <1>8
  <2>2. ASSUME NEW z \in S \ {x}
        PROVE  \E k \in 1..Len(r) : z = r[k]
    <3>1. PICK k \in 1..L : z = s[k]
      BY <1>5
    <3>2. k # 1
      BY <1>2, <3>1
    <3>3. k - 1 \in 1..(L - 1) /\ k - 1 + 1 = k
      BY <1>3, <3>2
    <3>4. QED
      BY <1>4, <3>1, <3>3
  <2> DEFINE R == S \ {x}
  <2> HIDE DEF R
  <2>3. (\A k \in 1..Len(r) : r[k] \in R) /\ \A z \in R : \E k \in 1..Len(r) : z = r[k]
    BY <2>1, <2>2 DEF R
  <2>4. R = {r[k] : k \in 1..Len(r)}
    BY <2>3
  <2>5. QED
    BY <2>4 DEF R
<1>10. ASSUME NEW k \in 1..Len(r), NEW l \in 1..Len(r), r[k] = r[l]
       PROVE  k = l
  <2>1. k \in 1..(L - 1) /\ l \in 1..(L - 1) /\ k + 1 \in 1..L /\ l + 1 \in 1..L
    BY <1>3, <1>4
  <2>2. k + 1 = l + 1
    BY <1>4, <1>5, <1>10, <2>1
  <2>3. QED
    BY <2>1, <2>2
<1>11. IF y = NULL THEN r = <<>> ELSE r # <<>> /\ r[1] = y
  <2>1. CASE L = 1
    <3>1. next[x] \in {end, NULL}
      BY <1>2, <1>3, <1>6, <2>1
    <3>2. y = NULL /\ Len(r) = 0
      BY <1>4, <2>1, <3>1
    <3>3. QED
      BY <1>4, <3>2
  <2>2. CASE L # 1
    <3>0. L \in Nat /\ L >= 2
      BY <1>3, <2>2, Z3
    <3> HIDE DEF L
    <3>1. 1 \in 1..L /\ 1 # L /\ 1 \in 1..(L - 1) /\ L - 1 # 0
      BY <3>0
    <3>2. next[s[1]] = s[1 + 1] /\ s[1 + 1] \notin {end, NULL} /\ r[1] = s[1 + 1]
      BY <1>4, <1>6, <3>1
    <3>3. y = r[1] /\ y # NULL
      BY <1>2, <3>2
    <3>4. r # <<>>
      BY <1>4, <3>1
    <3>5. QED
      BY <3>3, <3>4
  <2>3. QED
    BY <2>1, <2>2
<1>12. ASSUME NEW k \in 1..Len(r)
       PROVE  IF k = Len(r) THEN n[r[k]] \in {end, NULL}
              ELSE n[r[k]] = r[k + 1] /\ r[k + 1] \notin {end, NULL}
  <2>1. k \in 1..(L - 1) /\ (k = Len(r) <=> k + 1 = L) /\ (k # Len(r) => k + 1 \in 1..(L - 1))
    BY <1>3, <1>4
  <2>2. k + 1 \in 1..L /\ n[r[k]] = next[s[k + 1]]
    BY <1>8, <2>1
  <2>3. CASE k = Len(r)
    BY <1>6, <2>1, <2>2, <2>3
  <2>4. CASE k # Len(r)
    <3>1. next[s[k + 1]] = s[k + 1 + 1] /\ s[k + 1 + 1] \notin {end, NULL}
      BY <1>6, <2>1, <2>2, <2>4
    <3>2. r[k + 1] = s[k + 1 + 1]
      BY <1>4, <2>1, <2>4
    <3>3. QED
      BY <2>2, <2>4, <3>1, <3>2
  <2>5. QED
    BY <2>3, <2>4
<1> HIDE DEF y
<1>13. IsOrder(n, y, end, S \ {x}, r)
  <2>1. \A k, l \in 1..Len(r) : r[k] = r[l] => k = l
    BY <1>10
  <2>2. \A k \in 1..Len(r) :
          IF k = Len(r) THEN n[r[k]] \in {end, NULL}
          ELSE n[r[k]] = r[k + 1] /\ r[k + 1] \notin {end, NULL}
    BY <1>12
  <2>3. r \in Seq(AllTask)
    BY <1>4
  <2>4. QED
    BY <1>9, <1>11, <2>1, <2>2, <2>3, Zenon DEF IsOrder
<1>14. QED
  BY <1>13 DEF n, r, y

-----------------------------------------------------------------------------
(* The lists of the scheduler.                                             *)

\* The list behind the idle task, and nothing woken behind it.
LEMMA TailConcat ==
  ASSUME NEW next, NEW x, NEW end, NEW S, NEW s, IsOrder(next, x, end, S, s), x # NULL
  PROVE  Tail(s) \in Seq(AllTask) /\ Tail(s) \o <<>> = Tail(s)
<1>1. s \in Seq(AllTask) /\ s # <<>>
  BY DEF IsOrder
<1>2. Tail(s) \in Seq(AllTask)
  BY <1>1
<1>3. QED
  BY <1>2, ConcatEmptySeq

(* A step that changes no list, wakes nobody and blocks nobody.            *)
LEMMA QuietStep ==
  ASSUME IInv, ListsInOrder,
         UNCHANGED <<current, state, task_next, run_next, queue, queue_next, first>>,
         pc \notin {"schedule", "waking"}, pc' # "waking"
  PROVE  ListsInOrder' /\ UNCHANGED <<ReadyList, WaitingList, current>>
<1>1. Created' = Created /\ Runnable' = Runnable /\ \A q \in Queue : Waiters(q)' = Waiters(q)
  BY DEF Created, Runnable, Waiters
<1>2. current \in Created \cup {idle_task} /\ state[current] = "RUNNING"
  BY DEF IInv, RunListOK
<1>3. OnRunList' = OnRunList
  BY <1>1, <1>2 DEF OnRunList, Runnable
<1>4. RunOrder' = RunOrder /\ \A q \in Queue : QueueOrder(q)' = QueueOrder(q)
  BY DEF RunOrder, QueueOrder
<1>5. \A q \in Queue : ~Blocking(q) /\ ~Blocking(q)'
  BY <1>2 DEF Blocking
<1>6. ListsInOrder'
  BY <1>1, <1>3, <1>4, <1>5 DEF ListsInOrder
<1>7. ReadyList' = ReadyList
  BY <1>4 DEF ReadyList
<1>8. WaitingList' = WaitingList
  BY <1>4, <1>5 DEF WaitingList
<1>9. QED
  BY <1>6, <1>7, <1>8

(* What is on the lists is a task, and none is in two lists.               *)
LEMMA ListSets ==
  ASSUME IInv
  PROVE  /\ OnRunList \in SUBSET AllTask /\ Created \in SUBSET Task
         /\ \A q \in Queue : Waiters(q) \in SUBSET AllTask
         /\ run_next \in [AllTask -> Link] /\ run_prev \in [AllTask -> Link]
         /\ queue_next \in [AllTask -> Link] /\ queue_prev \in [AllTask -> Link]
         /\ first \in [Queue -> Link] /\ wt \in Link
         /\ idle_task \in AllTask /\ idle_task \in Link /\ idle_task # NULL
         /\ NULL \in Link /\ NULL \notin AllTask /\ AllTask \subseteq Link
         /\ IsRing(run_next, run_prev, OnRunList, idle_task)
<1>1. idle_task \in AllTask /\ idle_task # NULL /\ NULL \in Link /\ NULL \notin AllTask /\ AllTask \subseteq Link
  BY TaskAssumption DEF AllTask, Link
<1>2. Created \in SUBSET Task /\ \A q \in Queue : Waiters(q) \in SUBSET AllTask
  BY DEF Created, Waiters, AllTask
<1>3. OnRunList \in SUBSET AllTask
  <2>1. current \in AllTask
    BY DEF IInv, TypeOK
  <2>2. QED
    BY <2>1 DEF OnRunList, Runnable, Created, AllTask
<1>4. QED
  BY <1>1, <1>2, <1>3 DEF IInv, TypeOK, RunListOK

(* wake_up_queue starts: the whole queue moves at once.                    *)
LEMMA KeyboardIntStep ==
  ASSUME IInv, ListsInOrder, KeyboardInt
  PROVE  ListsInOrder' /\ Abstract!Wake(keyboard_queue)
<1> USE QueueAssumption
<1>1. /\ pc = "keyboard" /\ pc' = "waking" /\ wt' = first[keyboard_queue]
      /\ UNCHANGED <<current, state, task_next, run_next, queue, queue_next, first>>
  BY DEF KeyboardInt, taskVars, runVars, waitVars
<1>2. Created' = Created /\ Runnable' = Runnable /\ \A q \in Queue : Waiters(q)' = Waiters(q)
  BY <1>1 DEF Created, Runnable, Waiters
<1>3. OnRunList' = OnRunList
  BY <1>1, <1>2 DEF OnRunList, Runnable
<1>4. /\ RunOrder' = RunOrder /\ WakeOrder' = QueueOrder(keyboard_queue)
      /\ \A q \in Queue : QueueOrder(q)' = QueueOrder(q)
  BY <1>1 DEF RunOrder, QueueOrder, WakeOrder
<1>5. (\A q \in Queue : ~Blocking(q) /\ ~Blocking(q)') /\ keyboard_queue \in Queue
  BY <1>1 DEF Blocking, Queue
<1>6. ListsInOrder'
  BY <1>1, <1>2, <1>3, <1>4, <1>5 DEF ListsInOrder
<1>7. ReadyList = Tail(RunOrder) /\ ReadyList' = Tail(RunOrder) \o QueueOrder(keyboard_queue)
  <2>1. IsOrder(run_next, idle_task, idle_task, OnRunList, RunOrder) /\ idle_task # NULL
    BY ListSets DEF ListsInOrder
  <2>2. Tail(RunOrder) \o <<>> = Tail(RunOrder)
    BY <2>1, TailConcat
  <2>3. QED
    BY <1>1, <1>4, <2>2 DEF ReadyList
<1>8. WaitingList = [q \in Queue |-> QueueOrder(q)]
  BY <1>1, <1>5 DEF WaitingList
<1>9. WaitingList' = [q \in Queue |-> IF q = keyboard_queue THEN <<>> ELSE QueueOrder(q)]
  BY <1>1, <1>4, <1>5 DEF WaitingList
<1>10. QED
  BY <1>1, <1>5, <1>6, <1>7, <1>8, <1>9 DEF Abstract!Wake

(* One element moves from the front of a list to the end of the other.     *)
LEMMA Moved ==
  ASSUME NEW r \in Seq(AllTask), r # <<>>, NEW c \in Seq(AllTask), c # <<>>
  PROVE  Tail(Append(r, c[1])) \o Tail(c) = Tail(r) \o c
<1> DEFINE R == Len(r)
           C == Len(c)
           p == Tail(Append(r, c[1]))
           q == Tail(c)
           t == Tail(r)
<1>1. R \in Nat /\ R >= 1 /\ C \in Nat /\ C >= 1 /\ c[1] \in AllTask
  BY Z3
<1>2. /\ p \in Seq(AllTask) /\ Len(p) = R
      /\ \A k \in 1..R : p[k] = IF k = R THEN c[1] ELSE r[k + 1]
  <2> DEFINE m == Append(r, c[1])
  <2>1. /\ m \in Seq(AllTask) /\ Len(m) = R + 1 /\ m # <<>>
        /\ \A k \in 1..R : m[k] = r[k]
        /\ m[R + 1] = c[1]
    BY <1>1
  <2> HIDE DEF m
  <2>2. /\ Tail(m) \in Seq(AllTask) /\ Len(Tail(m)) = R
        /\ \A k \in 1..R : Tail(m)[k] = m[k + 1]
    BY <1>1, <2>1
  <2>3. \A k \in 1..R : m[k + 1] = IF k = R THEN c[1] ELSE r[k + 1]
    BY <1>1, <2>1
  <2>4. QED
    BY <2>2, <2>3 DEF m
<1>3. /\ q \in Seq(AllTask) /\ Len(q) = C - 1
      /\ \A k \in 1..(C - 1) : q[k] = c[k + 1]
  BY <1>1
<1>4. /\ t \in Seq(AllTask) /\ Len(t) = R - 1
      /\ \A k \in 1..(R - 1) : t[k] = r[k + 1]
  BY <1>1
<1> HIDE DEF p, q, t
<1>5. /\ p \o q \in Seq(AllTask) /\ Len(p \o q) = R + (C - 1)
      /\ \A k \in 1..(R + (C - 1)) : (p \o q)[k] = IF k <= R THEN p[k] ELSE q[k - R]
  <2>1. /\ p \o q \in Seq(AllTask) /\ Len(p \o q) = Len(p) + Len(q)
        /\ \A k \in 1..(Len(p) + Len(q)) :
              (p \o q)[k] = IF k <= Len(p) THEN p[k] ELSE q[k - Len(p)]
    <3>1. p \in Seq(AllTask) /\ q \in Seq(AllTask)
      BY <1>2, <1>3
    <3>2. QED
      BY <3>1, ConcatProperties
  <2>2. QED
    BY <1>2, <1>3, <2>1, Zenon
<1>6. /\ t \o c \in Seq(AllTask) /\ Len(t \o c) = R - 1 + C
      /\ \A k \in 1..(R - 1 + C) : (t \o c)[k] = IF k <= R - 1 THEN t[k] ELSE c[k - (R - 1)]
  <2>1. /\ t \o c \in Seq(AllTask) /\ Len(t \o c) = Len(t) + Len(c)
        /\ \A k \in 1..(Len(t) + Len(c)) :
              (t \o c)[k] = IF k <= Len(t) THEN t[k] ELSE c[k - Len(t)]
    BY <1>4, ConcatProperties
  <2>2. QED
    BY <1>4, <2>1, Zenon
<1> HIDE DEF R, C
<1>7. ASSUME NEW k \in 1..(R + (C - 1))
      PROVE  (p \o q)[k] = (t \o c)[k]
  <2>1. k \in 1..(R - 1 + C)
    BY <1>1
  <2>2. CASE k <= R - 1
    <3>1. k \in 1..R /\ k \in 1..(R - 1) /\ k <= R /\ k # R
      BY <1>1, <2>2
    <3>2. QED
      BY <1>2, <1>4, <1>5, <1>6, <2>1, <2>2, <3>1
  <2>3. CASE k = R
    <3>1. k \in 1..R /\ k <= R /\ ~(k <= R - 1) /\ k - (R - 1) = 1
      BY <1>1, <2>3
    <3>2. QED
      BY <1>2, <1>5, <1>6, <2>1, <2>3, <3>1
  <2>4. CASE k > R
    <3>1. k - R \in 1..(C - 1) /\ ~(k <= R) /\ ~(k <= R - 1) /\ k - (R - 1) = k - R + 1
      BY <1>1, <2>4
    <3>2. QED
      BY <1>3, <1>5, <1>6, <2>1, <3>1
  <2>5. k <= R - 1 \/ k = R \/ k > R
    BY <1>1
  <2>6. QED
    BY <2>2, <2>3, <2>4, <2>5
<1>8. Len(p \o q) = Len(t \o c)
  BY <1>1, <1>5, <1>6
<1>9. p \o q = t \o c
  <2> DEFINE x == p \o q
             y == t \o c
  <2>1. /\ x \in Seq(AllTask) /\ y \in Seq(AllTask) /\ Len(x) = Len(y)
        /\ \A k \in 1..Len(x) : x[k] = y[k]
    BY <1>5, <1>6, <1>7, <1>8
  <2> HIDE DEF x, y
  <2>2. x = y
    BY <2>1
  <2>3. QED
    BY <2>2 DEF x, y
<1>10. QED
  BY <1>9 DEF p, q, t

(* One turn of wake_up_queue's loop: the task it moves was counted as      *)
(* moved already.                                                          *)
LEMMA WakeUpStep ==
  ASSUME IInv, ListsInOrder, WakeUp
  PROVE  ListsInOrder' /\ UNCHANGED <<ReadyList, WaitingList, current>>
<1> USE QueueAssumption
<1> DEFINE K == Waiters(keyboard_queue)
           f == first[keyboard_queue]
<1>1. /\ wt \in K /\ wt \in AllTask \ OnRunList
      /\ OnRunList' = OnRunList \cup {wt} /\ Created' = Created
      /\ Waiters(keyboard_queue)' = K \ {wt}
      /\ Waiters(block_queue)' = Waiters(block_queue)
      /\ run_next' \in [AllTask -> Link]
  BY WakeLists
<1>2. /\ pc = "waking" /\ pc' = "waking" /\ first' = first /\ queue' = queue /\ current' = current
      /\ queue_next' = [queue_next EXCEPT ![wt] = NULL]
      /\ run_next' = InsertNext(run_next, run_prev, idle_task, wt)
      /\ wt' = IF queue_next[wt] = f THEN NULL ELSE queue_next[wt]
      /\ state' = [state EXCEPT ![wt] = "RUNNING"]
      /\ state \in [AllTask -> {"RUNNING", "INTERRUPTABLE"}]
  BY DEF WakeUp, IInv, TypeOK, LinkRun
<1>3. /\ IsOrder(run_next, idle_task, idle_task, OnRunList, RunOrder)
      /\ IsOrder(queue_next, wt, f, K, WakeOrder)
      /\ IsOrder(queue_next, first[block_queue], first[block_queue], Waiters(block_queue),
                 QueueOrder(block_queue))
  BY <1>2 DEF ListsInOrder, Queue
<1>4. RunOrder' = Append(RunOrder, wt)
      /\ IsOrder(run_next', idle_task, idle_task, OnRunList', RunOrder')
  <2>1. IsOrder(run_next', idle_task, idle_task, OnRunList \cup {wt}, Append(RunOrder, wt))
    BY <1>1, <1>2, <1>3, ListSets, InsertOrder
  <2>2. Walk(run_next', idle_task, idle_task) = Append(RunOrder, wt)
    BY <2>1, ListSets, WalkIsOrder
  <2>3. QED
    BY <1>1, <2>1, <2>2 DEF RunOrder
<1>5. WakeOrder' = Tail(WakeOrder)
      /\ IsOrder(queue_next', wt', first'[keyboard_queue], Waiters(keyboard_queue)', WakeOrder')
  <2>1. K \in SUBSET AllTask /\ queue_next \in [AllTask -> Link]
    BY ListSets DEF Queue
  <2> HIDE DEF K, f
  <2>2. IsOrder(queue_next', wt', f, K \ {wt}, Tail(WakeOrder))
    BY <1>1, <1>2, <1>3, <2>1, HeadOrder
  <2>3. wt' \in Link
    BY <1>1, <1>2, <2>1 DEF Link
  <2>4. Walk(queue_next', wt', f) = Tail(WakeOrder)
    BY <2>2, <2>3, WalkIsOrder
  <2>5. first'[keyboard_queue] = f
    BY <1>2 DEF f
  <2>6. QED
    BY <1>1, <2>2, <2>4, <2>5 DEF WakeOrder
<1>6. QueueOrder(block_queue)' = QueueOrder(block_queue)
      /\ IsOrder(queue_next', first'[block_queue], first'[block_queue],
                 Waiters(block_queue)', QueueOrder(block_queue)')
  <2> DEFINE B == Waiters(block_queue)
             b == first[block_queue]
  <2>1. B \in SUBSET AllTask /\ wt \notin B /\ b \in Link /\ queue_next \in [AllTask -> Link]
    BY <1>1, ListSets DEF Queue, Waiters
  <2> HIDE DEF B, b
  <2>2. \A y \in B : queue_next'[y] = queue_next[y]
    BY <1>2, <2>1
  <2>3. IsOrder(queue_next, b, b, B, QueueOrder(block_queue))
    BY <1>3 DEF B, b
  <2>4. IsOrder(queue_next', b, b, B, QueueOrder(block_queue))
    BY <2>2, <2>3, OrderFrame
  <2>5. Walk(queue_next', b, b) = QueueOrder(block_queue)
    BY <2>1, <2>4, WalkIsOrder
  <2>6. first'[block_queue] = b /\ Waiters(block_queue)' = B
    BY <1>1, <1>2 DEF b, B
  <2>7. QED
    BY <2>4, <2>5, <2>6 DEF QueueOrder
<1>7. \A q \in Queue : ~Blocking(q) /\ ~Blocking(q)'
  BY <1>2 DEF Blocking
<1>8. \A t \in Task : state'[t] # "RUNNING" => queue'[t] \in Queue
  <2>1. \A t \in Task : state'[t] # "RUNNING" => state[t] # "RUNNING"
    BY <1>1, <1>2 DEF AllTask
  <2>2. QED
    BY <1>2, <2>1 DEF ListsInOrder
<1>9. ListsInOrder'
  <2>1. \A q \in Queue : q # keyboard_queue => q = block_queue
    BY DEF Queue
  <2>2. QED
    BY <1>2, <1>4, <1>5, <1>6, <1>7, <1>8, <2>1 DEF ListsInOrder, Queue
<1>10. ReadyList' = ReadyList
  <2>1. RunOrder \in Seq(AllTask) /\ RunOrder # <<>> /\ WakeOrder \in Seq(AllTask)
    BY <1>3, ListSets DEF IsOrder
  <2>2. wt # NULL
    BY <1>1, ListSets
  <2>3. WakeOrder # <<>> /\ WakeOrder[1] = wt
    BY <1>3, <2>2 DEF IsOrder
  <2>4. Tail(Append(RunOrder, wt)) \o Tail(WakeOrder) = Tail(RunOrder) \o WakeOrder
    BY <2>1, <2>3, Moved
  <2>5. QED
    BY <1>2, <1>4, <1>5, <2>4 DEF ReadyList
<1>11. WaitingList' = WaitingList
  <2>1. \A q \in Queue : q # keyboard_queue => QueueOrder(q)' = QueueOrder(q)
    BY <1>6 DEF Queue
  <2>2. QED
    BY <1>2, <1>7, <2>1 DEF WaitingList
<1>12. QED
  BY <1>2, <1>9, <1>10, <1>11

\* A list that starts nowhere is empty.
LEMMA NullOrder ==
  ASSUME NEW next, NEW end
  PROVE  /\ Walk(next, NULL, end) = <<>>
         /\ IsOrder(next, NULL, end, {}, <<>>)
<1>1. <<>> \in Seq(AllTask) /\ 1..Len(<<>>) = {}
  OBVIOUS
<1>2. IsOrder(next, NULL, end, {}, <<>>)
  BY <1>1 DEF IsOrder
<1>3. NULL \in Link
  BY DEF Link
<1>4. QED
  BY <1>2, <1>3, WalkIsOrder

(* The end of wake_up_queue: the queue was counted as empty already.       *)
LEMMA WakeDoneStep ==
  ASSUME IInv, ListsInOrder, WakeDone
  PROVE  ListsInOrder' /\ UNCHANGED <<ReadyList, WaitingList, current>>
<1> USE QueueAssumption
<1>1. /\ pc = "waking" /\ pc' = "ret_from_intr" /\ wt = NULL
      /\ first' = [first EXCEPT ![keyboard_queue] = NULL]
      /\ UNCHANGED <<current, state, task_next, run_next, queue, queue_next>>
  BY DEF WakeDone, taskVars, runVars
<1>2. Created' = Created /\ Runnable' = Runnable /\ \A q \in Queue : Waiters(q)' = Waiters(q)
  BY <1>1 DEF Created, Runnable, Waiters
<1>3. OnRunList' = OnRunList
  BY <1>1, <1>2 DEF OnRunList, Runnable
<1>4. /\ first'[keyboard_queue] = NULL
      /\ \A q \in Queue : q # keyboard_queue => first'[q] = first[q]
  BY <1>1, ListSets DEF Queue
<1>5. WakeOrder = <<>> /\ Waiters(keyboard_queue) = {}
  <2>1. WakeOrder = <<>>
    BY <1>1, NullOrder DEF WakeOrder
  <2>2. Waiters(keyboard_queue) = {}
    BY <1>1 DEF IInv, WaitQueuesOK, IsChain, Queue
  <2>3. QED
    BY <2>1, <2>2
<1>6. /\ RunOrder' = RunOrder /\ QueueOrder(keyboard_queue)' = <<>>
      /\ \A q \in Queue : q # keyboard_queue => QueueOrder(q)' = QueueOrder(q)
  <2>1. RunOrder' = RunOrder
    BY <1>1 DEF RunOrder
  <2>2. QueueOrder(keyboard_queue)' = <<>>
    BY <1>1, <1>4, NullOrder DEF QueueOrder
  <2>3. \A q \in Queue : q # keyboard_queue => QueueOrder(q)' = QueueOrder(q)
    BY <1>1, <1>4 DEF QueueOrder
  <2>4. QED
    BY <2>1, <2>2, <2>3
<1>7. \A q \in Queue : ~Blocking(q) /\ ~Blocking(q)'
  BY <1>1 DEF Blocking
<1>8. ListsInOrder'
  <2>1. IsOrder(run_next', idle_task, idle_task, OnRunList', RunOrder')
    BY <1>1, <1>3, <1>6 DEF ListsInOrder
  <2>2. ASSUME NEW q \in Queue
        PROVE  IsOrder(queue_next', first'[q], first'[q], Waiters(q)', QueueOrder(q)')
    <3>1. CASE q = keyboard_queue
      BY <1>2, <1>4, <1>5, <1>6, <3>1, NullOrder
    <3>2. CASE q # keyboard_queue
      BY <1>1, <1>2, <1>4, <1>6, <3>2 DEF ListsInOrder
    <3>3. QED
      BY <3>1, <3>2
  <2>3. \A t \in Task : state'[t] # "RUNNING" => queue'[t] \in Queue
    BY <1>1 DEF ListsInOrder
  <2>4. QED
    BY <1>1, <1>7, <2>1, <2>2, <2>3 DEF ListsInOrder
<1>9. ReadyList' = ReadyList
  BY <1>1, <1>5, <1>6 DEF ReadyList
<1>10. WaitingList' = WaitingList
  BY <1>1, <1>6, <1>7 DEF WaitingList
<1>11. QED
  BY <1>1, <1>8, <1>9, <1>10

(* The tasks on the abstract lists.                                        *)
LEMMA TailSet ==
  ASSUME NEW next, NEW x \in AllTask, NEW end, NEW S, NEW s, IsOrder(next, x, end, S, s)
  PROVE  {Tail(s)[i] : i \in DOMAIN Tail(s)} \subseteq S
<1>1. s \in Seq(AllTask) /\ s # <<>>
  BY TaskAssumption DEF IsOrder, AllTask
<1>2. Tail(s) \in Seq(AllTask) /\ DOMAIN Tail(s) = 1..(Len(s) - 1) /\ Len(s) \in Nat
      /\ \A i \in 1..(Len(s) - 1) : Tail(s)[i] = s[i + 1]
  BY <1>1
<1>3. \A i \in 1..Len(s) : s[i] \in S
  BY DEF IsOrder
<1>4. \A i \in 1..(Len(s) - 1) : i + 1 \in 1..Len(s)
  BY <1>2
<1>5. QED
  BY <1>2, <1>3, <1>4

(* Appending commutes with taking the first element off.                   *)
LEMMA TailAppend ==
  ASSUME NEW r \in Seq(AllTask), r # <<>>, NEW x \in AllTask
  PROVE  Tail(Append(r, x)) = Append(Tail(r), x)
<1> DEFINE R == Len(r)
           m == Append(r, x)
           t == Tail(r)
<1>1. R \in Nat /\ R >= 1
  BY Z3
<1>2. /\ m \in Seq(AllTask) /\ Len(m) = R + 1 /\ m # <<>>
      /\ \A k \in 1..R : m[k] = r[k]
      /\ m[R + 1] = x
  BY <1>1
<1>3. /\ t \in Seq(AllTask) /\ Len(t) = R - 1
      /\ \A k \in 1..(R - 1) : t[k] = r[k + 1]
  BY <1>1
<1> HIDE DEF m, t
<1> DEFINE p == Tail(m)
           q == Append(t, x)
<1>4. /\ p \in Seq(AllTask) /\ Len(p) = R
      /\ \A k \in 1..R : p[k] = m[k + 1]
  BY <1>1, <1>2
<1>5. /\ q \in Seq(AllTask) /\ Len(q) = R
      /\ \A k \in 1..(R - 1) : q[k] = t[k]
      /\ q[R] = x
  BY <1>1, <1>3
<1> HIDE DEF p, q, R
<1>6. ASSUME NEW k \in 1..R
      PROVE  p[k] = q[k]
  <2>1. CASE k = R
    BY <1>2, <1>4, <1>5, <2>1
  <2>2. CASE k # R
    <3>1. k \in 1..(R - 1) /\ k + 1 \in 1..R
      BY <1>1, <2>2
    <3>2. QED
      BY <1>2, <1>3, <1>4, <1>5, <3>1
  <2>3. QED
    BY <2>1, <2>2
<1>7. p = q
  BY <1>4, <1>5, <1>6
<1>8. QED
  BY <1>7 DEF p, q, m, t

(* create_process puts the new process at the end of the list.             *)
LEMMA CreateStep ==
  ASSUME IInv, ListsInOrder, NEW t \in Task, CreateProcess(t)
  PROVE  ListsInOrder' /\ Abstract!Create(t)
<1>1. /\ t \in AllTask \ Created /\ t \notin OnRunList
      /\ OnRunList' = OnRunList \cup {t}
      /\ \A q \in Queue : Waiters(q)' = Waiters(q)
      /\ run_next' \in [AllTask -> Link]
  BY CreateLists
<1>2. /\ pc = "run" /\ pc' = "run" /\ first' = first /\ current' = current
      /\ queue_next' = [queue_next EXCEPT ![t] = NULL]
      /\ run_next' = InsertNext(run_next, run_prev, idle_task, t)
      /\ state' = [state EXCEPT ![t] = "RUNNING"]
      /\ queue' = [queue EXCEPT ![t] = NULL]
      /\ state \in [AllTask -> {"RUNNING", "INTERRUPTABLE"}]
      /\ queue \in [AllTask -> Queue \cup {NULL}]
  BY DEF CreateProcess, IInv, TypeOK, LinkRun, LinkTask, Running
<1>3. /\ IsOrder(run_next, idle_task, idle_task, OnRunList, RunOrder)
      /\ \A q \in Queue : IsOrder(queue_next, first[q], first[q], Waiters(q), QueueOrder(q))
  BY <1>2 DEF ListsInOrder
<1>4. RunOrder' = Append(RunOrder, t)
      /\ IsOrder(run_next', idle_task, idle_task, OnRunList', RunOrder')
  <2>1. IsOrder(run_next', idle_task, idle_task, OnRunList \cup {t}, Append(RunOrder, t))
    BY <1>1, <1>2, <1>3, ListSets, InsertOrder
  <2>2. Walk(run_next', idle_task, idle_task) = Append(RunOrder, t)
    BY <2>1, ListSets, WalkIsOrder
  <2>3. QED
    BY <1>1, <2>1, <2>2 DEF RunOrder
<1>5. queue_next' = queue_next
  <2>1. \A q \in Queue : t \notin Waiters(q)
    BY <1>1 DEF Waiters
  <2>2. queue_next[t] = NULL
    BY <1>1, <2>1 DEF IInv, WaitQueuesOK
  <2>3. QED
    BY <1>2, <2>2, ListSets
<1>6. \A q \in Queue : QueueOrder(q)' = QueueOrder(q)
  BY <1>2, <1>5 DEF QueueOrder
<1>7. \A q \in Queue : ~Blocking(q) /\ ~Blocking(q)'
  BY <1>2 DEF Blocking
<1>8. \A u \in Task : state'[u] # "RUNNING" => queue'[u] \in Queue
  <2>1. \A u \in Task : state'[u] # "RUNNING" => state[u] # "RUNNING" /\ queue'[u] = queue[u]
    BY <1>1, <1>2 DEF AllTask
  <2>2. QED
    BY <2>1 DEF ListsInOrder
<1>9. ListsInOrder'
  BY <1>1, <1>2, <1>3, <1>4, <1>5, <1>6, <1>7, <1>8 DEF ListsInOrder
<1>10. ReadyList = Tail(RunOrder) /\ ReadyList' = Append(Tail(RunOrder), t)
  <2>1. RunOrder \in Seq(AllTask) /\ RunOrder # <<>>
    BY <1>3, ListSets DEF IsOrder
  <2>2. /\ Tail(RunOrder) \o <<>> = Tail(RunOrder)
        /\ Tail(RunOrder') \o <<>> = Tail(RunOrder')
    BY <1>3, <1>4, ListSets, TailConcat
  <2>3. Tail(RunOrder') = Append(Tail(RunOrder), t)
    BY <1>1, <1>4, <2>1, TailAppend
  <2>4. QED
    BY <1>2, <2>2, <2>3 DEF ReadyList
<1>11. WaitingList = [q \in Queue |-> QueueOrder(q)] /\ WaitingList' = WaitingList
  <2>1. WaitingList = [q \in Queue |-> QueueOrder(q)]
    BY <1>2, <1>7 DEF WaitingList
  <2>2. WaitingList' = [q \in Queue |-> QueueOrder(q)]
    BY <1>2, <1>6, <1>7 DEF WaitingList
  <2>3. QED
    BY <2>1, <2>2
<1>12. t \notin Abstract!Elements(ReadyList)
  <2>1. {Tail(RunOrder)[i] : i \in DOMAIN Tail(RunOrder)} \subseteq OnRunList
    BY <1>3, ListSets, TailSet
  <2>2. QED
    BY <1>1, <1>10, <2>1 DEF Abstract!Elements
<1>13. t \notin Abstract!Asleep
  <2>1. ASSUME NEW q \in Queue
        PROVE  t \notin Abstract!Elements(WaitingList[q])
    <3>1. Waiters(q) = {QueueOrder(q)[i] : i \in 1..Len(QueueOrder(q))}
      BY <1>3 DEF IsOrder
    <3>2. DOMAIN QueueOrder(q) = 1..Len(QueueOrder(q))
      <4>1. QueueOrder(q) \in Seq(AllTask)
        BY <1>3 DEF IsOrder
      <4>2. QED
        BY <4>1
    <3>3. t \notin Waiters(q)
      BY <1>1 DEF Waiters
    <3>4. WaitingList[q] = QueueOrder(q)
      BY <1>11
    <3>5. QED
      BY <3>1, <3>2, <3>3, <3>4 DEF Abstract!Elements
  <2>2. QED
    BY <2>1 DEF Abstract!Asleep
<1>14. QED
  BY <1>2, <1>9, <1>10, <1>11, <1>12, <1>13 DEF Abstract!Create

\* What is in front of the last element.
LEMMA FrontAppend ==
  ASSUME NEW s \in Seq(AllTask), NEW x \in AllTask
  PROVE  /\ SubSeq(Append(s, x), 1, Len(Append(s, x)) - 1) = s
         /\ Append(s, x)[Len(Append(s, x))] = x
<1> DEFINE L == Len(s)
           m == Append(s, x)
<1>1. L \in Nat
  OBVIOUS
<1>2. /\ m \in Seq(AllTask) /\ Len(m) = L + 1
      /\ \A k \in 1..L : m[k] = s[k]
      /\ m[L + 1] = x
  BY <1>1
<1> HIDE DEF m
<1> DEFINE p == SubSeq(m, 1, L)
<1>3. p \in Seq(AllTask) /\ Len(p) = L /\ \A k \in 1..L : p[k] = s[k]
  <2>1. 1 \in Int /\ L \in Int /\ \A k \in 1..L : m[k] \in AllTask
    BY <1>1, <1>2
  <2>2. /\ p \in Seq(AllTask) /\ Len(p) = IF 1 <= L THEN L - 1 + 1 ELSE 0
        /\ \A k \in 1..(L - 1 + 1) : p[k] = m[1 + k - 1]
    BY <2>1, SubSeqProperties
  <2> HIDE DEF p
  <2>3. QED
    BY <1>1, <1>2, <2>2
<1> HIDE DEF p
<1>4. p = s
  BY <1>3
<1>5. Len(m) - 1 = L
  BY <1>1, <1>2
<1>6. QED
  BY <1>2, <1>4, <1>5 DEF m, p

(* do_block puts the process at the end of its queue; it still counts as   *)
(* ready, because it is on the run list until schedule().                  *)
LEMMA BlockStep ==
  ASSUME IInv, ListsInOrder, NEW q \in Queue, Block(q)
  PROVE  ListsInOrder' /\ UNCHANGED <<ReadyList, WaitingList, current>>
<1> DEFINE W == Waiters(q)
           s == QueueOrder(q)
<1>1. /\ current \in Created /\ current # idle_task
      /\ \A r \in Queue : current \notin Waiters(r)
      /\ OnRunList' = OnRunList
      /\ Waiters(q)' = W \cup {current}
      /\ \A r \in Queue \ {q} : Waiters(r)' = Waiters(r)
      /\ queue_next' \in [AllTask -> Link]
  BY BlockLists
<1>2. /\ pc = "run" /\ pc' = "schedule" /\ current' = current /\ run_next' = run_next
      /\ state' = [state EXCEPT ![current] = "INTERRUPTABLE"]
      /\ queue' = [queue EXCEPT ![current] = q]
      /\ state \in [AllTask -> {"RUNNING", "INTERRUPTABLE"}]
      /\ queue \in [AllTask -> Queue \cup {NULL}]
      /\ current \in AllTask /\ current \in Link
  BY <1>1, ListSets DEF Block, SaveAll, Enqueue, IInv, TypeOK, runVars, Running, AllTask
<1>3. /\ IsOrder(run_next, idle_task, idle_task, OnRunList, RunOrder)
      /\ \A r \in Queue : IsOrder(queue_next, first[r], first[r], Waiters(r), QueueOrder(r))
  BY <1>2 DEF ListsInOrder
<1>4. /\ IsOrder(queue_next', first'[q], first'[q], W \cup {current}, Append(s, current))
      /\ first'[q] \in Link
      /\ \A x \in AllTask \ (W \cup {current}) : queue_next'[x] = queue_next[x]
      /\ \A r \in Queue \ {q} : first'[r] = first[r]
  <2>1. CASE first[q] = NULL
    <3>1. first' = [first EXCEPT ![q] = current] /\ queue_next' = queue_next
      BY <2>1 DEF Block, SaveAll, Enqueue
    <3>2. first'[q] = current /\ \A r \in Queue \ {q} : first'[r] = first[r]
      BY <3>1, ListSets
    <3>3. W = {} /\ s = <<>>
      <4>1. s = <<>>
        BY <2>1, NullOrder DEF QueueOrder
      <4>2. W = {}
        BY <2>1, <1>2 DEF IInv, WaitQueuesOK
      <4>3. QED
        BY <4>1, <4>2
    <3>4. queue_next[current] = NULL
      BY <1>1, <1>2 DEF IInv, WaitQueuesOK
    <3>5. IsOrder(queue_next, current, current, {current}, <<current>>)
      <4>1. <<current>> \in Seq(AllTask) /\ Len(<<current>>) = 1 /\ <<current>>[1] = current
        BY <1>2
      <4>2. current # NULL
        BY <1>2, ListSets
      <4>3. {current} = {<<current>>[i] : i \in 1..Len(<<current>>)}
        BY <4>1
      <4>4. \A i, j \in 1..Len(<<current>>) : <<current>>[i] = <<current>>[j] => i = j
        BY <4>1
      <4>5. \A i \in 1..Len(<<current>>) :
              IF i = Len(<<current>>) THEN queue_next[<<current>>[i]] \in {current, NULL}
              ELSE /\ queue_next[<<current>>[i]] = <<current>>[i + 1]
                   /\ <<current>>[i + 1] \notin {current, NULL}
        BY <3>4, <4>1
      <4>6. <<current>> # <<>>
        OBVIOUS
      <4>7. QED
        BY <4>1, <4>2, <4>3, <4>4, <4>5, <4>6, Zenon DEF IsOrder
    <3>6. Append(s, current) = <<current>> /\ W \cup {current} = {current}
      BY <3>3
    <3>7. QED
      BY <1>2, <3>1, <3>2, <3>5, <3>6
  <2>2. CASE first[q] # NULL
    <3>1. IsRing(queue_next, queue_prev, W, first[q])
      BY <2>2, <1>2 DEF IInv, WaitQueuesOK
    <3>2. first' = first /\ queue_next' = InsertNext(queue_next, queue_prev, first[q], current)
      BY <2>2 DEF Block, SaveAll, Enqueue
    <3>3. /\ current \in AllTask \ W /\ W \in SUBSET AllTask
          /\ queue_next \in [AllTask -> Link] /\ queue_prev \in [AllTask -> Link]
      BY <1>1, <1>2, ListSets
    <3> HIDE DEF W, s
    <3> DEFINE a == first[q]
    <3>4. /\ a \in Link /\ IsRing(queue_next, queue_prev, W, a)
          /\ queue_next' = InsertNext(queue_next, queue_prev, a, current)
      BY <3>1, <3>2, ListSets
    <3>5. IsOrder(queue_next, a, a, W, s)
      BY <1>3 DEF W, s
    <3> HIDE DEF a
    <3>6. IsOrder(queue_next', a, a, W \cup {current}, Append(s, current))
      BY <3>3, <3>4, <3>5, InsertOrder
    <3>7. \A x \in AllTask \ (W \cup {current}) : queue_next'[x] = queue_next[x]
      BY <3>3, <3>4 DEF InsertNext, IsRing, Linked
    <3>8. QED
      BY <3>2, <3>4, <3>6, <3>7 DEF a
  <2>3. QED
    BY <2>1, <2>2
<1>5. /\ QueueOrder(q)' = Append(s, current)
      /\ IsOrder(queue_next', first'[q], first'[q], Waiters(q)', QueueOrder(q)')
  <2>1. Walk(queue_next', first'[q], first'[q]) = Append(s, current)
    BY <1>4, WalkIsOrder
  <2>2. QueueOrder(q)' = Append(s, current)
    BY <2>1 DEF QueueOrder
  <2>3. QED
    BY <1>1, <1>4, <2>2
<1>6. ASSUME NEW r \in Queue, r # q
      PROVE  /\ QueueOrder(r)' = QueueOrder(r)
             /\ IsOrder(queue_next', first'[r], first'[r], Waiters(r)', QueueOrder(r)')
  <2> DEFINE B == Waiters(r)
             b == first[r]
  <2>1. \A y \in B : y \in AllTask \ (W \cup {current})
    BY <1>1, <1>6, ListSets DEF Waiters
  <2>2. IsOrder(queue_next, b, b, B, QueueOrder(r)) /\ b \in Link
    BY <1>3, ListSets
  <2> HIDE DEF B, b
  <2>3. \A y \in B : queue_next'[y] = queue_next[y]
    BY <1>4, <2>1
  <2>4. IsOrder(queue_next', b, b, B, QueueOrder(r))
    BY <2>2, <2>3, OrderFrame
  <2>5. Walk(queue_next', b, b) = QueueOrder(r)
    BY <2>2, <2>4, WalkIsOrder
  <2>6. first'[r] = b /\ Waiters(r)' = B
    BY <1>1, <1>4, <1>6 DEF b, B
  <2>7. QueueOrder(r)' = QueueOrder(r)
    BY <2>5, <2>6 DEF QueueOrder
  <2>8. QED
    BY <2>4, <2>6, <2>7
<1>7. /\ \A r \in Queue : ~Blocking(r)
      /\ \A r \in Queue : Blocking(r)' <=> r = q
  <2>1. state'[current] # "RUNNING" /\ queue'[current] = q
    BY <1>2
  <2>2. QED
    BY <1>2, <2>1 DEF Blocking
<1>8. s \in Seq(AllTask)
  BY <1>3 DEF IsOrder
<1>9. RunOrder' = RunOrder
  BY <1>2 DEF RunOrder
<1>10. \A t \in Task : state'[t] # "RUNNING" => queue'[t] \in Queue
  <2>1. \A t \in Task : t # current => state'[t] = state[t] /\ queue'[t] = queue[t]
    BY <1>2 DEF AllTask
  <2>2. queue'[current] = q
    BY <1>2
  <2>3. QED
    BY <2>1, <2>2 DEF ListsInOrder
<1>11. ListsInOrder'
  <2>1. IsOrder(run_next', idle_task, idle_task, OnRunList', RunOrder')
    BY <1>1, <1>2, <1>3, <1>9
  <2>2. \A r \in Queue : IsOrder(queue_next', first'[r], first'[r], Waiters(r)', QueueOrder(r)')
    BY <1>5, <1>6
  <2>3. QueueOrder(q)'[Len(QueueOrder(q)')] = current'
    BY <1>2, <1>5, <1>8, FrontAppend
  <2>4. QED
    BY <1>2, <1>7, <1>10, <2>1, <2>2, <2>3 DEF ListsInOrder
<1>12. ReadyList' = ReadyList
  BY <1>2, <1>9 DEF ReadyList
<1>13. WaitingList' = WaitingList
  <2>1. WaitingList = [r \in Queue |-> QueueOrder(r)]
    BY <1>2, <1>7 DEF WaitingList
  <2>2. \A r \in Queue : WaitingList'[r] = QueueOrder(r)
    <3>1. SubSeq(QueueOrder(q)', 1, Len(QueueOrder(q)') - 1) = QueueOrder(q)
      BY <1>2, <1>5, <1>8, FrontAppend
    <3>2. \A r \in Queue : r # q => QueueOrder(r)' = QueueOrder(r)
      BY <1>6
    <3>3. QED
      BY <1>2, <1>7, <3>1, <3>2 DEF WaitingList
  <2>3. WaitingList' = [r \in Queue |-> WaitingList'[r]]
    BY DEF WaitingList
  <2>4. QED
    BY <2>1, <2>2, <2>3
<1>14. QED
  BY <1>2, <1>11, <1>12, <1>13

\* The remainder that takes the last position back to the first.
LEMMA Cyclic ==
  ASSUME NEW n \in Nat \ {0}, NEW i \in 1..n
  PROVE  i % n = IF i = n THEN 0 ELSE i
<1>1. i \in Nat /\ 1 <= i /\ i <= n
  OBVIOUS
<1>2. CASE i = n
  BY <1>2
<1>3. CASE i # n
  <2>1. i < n
    BY <1>1, <1>3
  <2>2. QED
    BY <1>1, <1>3, <2>1
<1>4. QED
  BY <1>2, <1>3

(* Whose turn it is behind the i-th element of a list.                     *)
LEMMA TurnAfter ==
  ASSUME NEW T, NEW s \in Seq(T), NEW i \in 1..Len(s),
         \A k, l \in 1..Len(s) : s[k] = s[l] => k = l
  PROVE  /\ s[i] \in Abstract!Elements(s)
         /\ Abstract!Position(s, s[i]) = i
         /\ Abstract!After(s, s[i]) = IF i = Len(s) THEN s[1] ELSE s[i + 1]
<1> DEFINE L == Len(s)
<1>1. L \in Nat \ {0} /\ DOMAIN s = 1..L /\ s # <<>>
  BY Z3
<1>2. s[i] \in Abstract!Elements(s)
  BY <1>1 DEF Abstract!Elements
<1>3. Abstract!Position(s, s[i]) = i
  <2>1. i \in DOMAIN s /\ s[i] = s[i] /\ \A j \in DOMAIN s : s[j] = s[i] => j = i
    BY <1>1
  <2>2. QED
    BY <2>1, Zenon DEF Abstract!Position
<1>4. Abstract!After(s, s[i]) = s[(i % L) + 1]
  BY <1>1, <1>2, <1>3 DEF Abstract!After
<1>5. i % L = IF i = L THEN 0 ELSE i
  BY <1>1, Cyclic
<1>6. QED
  BY <1>2, <1>3, <1>4, <1>5

(* In a ring NextTask follows the list behind the anchor cyclically.       *)
LEMMA NextInRing ==
  ASSUME NEW next \in [AllTask -> Link], NEW prev, NEW S \in SUBSET AllTask, NEW s,
         NEW x \in S,
         IsRing(next, prev, S, idle_task), IsOrder(next, idle_task, idle_task, S, s)
  PROVE  /\ NextTask(x, next[x], next[idle_task]) = Abstract!After(Tail(s), x)
         /\ Len(s) \in Nat \ {0} /\ s \in Seq(AllTask) /\ s[1] = idle_task
         /\ \A k, l \in 1..Len(s) : s[k] = s[l] => k = l
         /\ S = {s[k] : k \in 1..Len(s)}
<1> DEFINE L == Len(s)
           t == Tail(s)
<1>1. NULL \notin AllTask /\ idle_task # NULL
  BY TaskAssumption DEF AllTask
<1>2. /\ s \in Seq(AllTask) /\ s # <<>> /\ s[1] = idle_task
      /\ \A k, l \in 1..L : s[k] = s[l] => k = l
      /\ S = {s[k] : k \in 1..L}
  BY <1>1 DEF IsOrder
<1>3. \A k \in 1..L : /\ s[k] \in S
                      /\ IF k = L THEN next[s[k]] \in {idle_task, NULL}
                         ELSE next[s[k]] = s[k + 1] /\ s[k + 1] \notin {idle_task, NULL}
  BY <1>2 DEF IsOrder
<1>4. /\ t \in Seq(AllTask) /\ Len(t) = L - 1
      /\ \A k \in 1..(L - 1) : t[k] = s[k + 1]
  BY <1>2
<1>5. L \in Nat \ {0}
  BY <1>2, Z3
<1> HIDE DEF L, t
<1>6. \A k, l \in 1..Len(t) : t[k] = t[l] => k = l
  <2> SUFFICES ASSUME NEW k \in 1..Len(t), NEW l \in 1..Len(t), t[k] = t[l]
               PROVE  k = l
    OBVIOUS
  <2>1. /\ k \in 1..(L - 1) /\ l \in 1..(L - 1) /\ k + 1 \in 1..L /\ l + 1 \in 1..L
    BY <1>4, <1>5
  <2>2. k + 1 = l + 1
    BY <1>2, <1>4, <2>1
  <2>3. QED
    BY <2>1, <2>2
<1>7. NextTask(x, next[x], next[idle_task]) = Abstract!After(t, x)
  <2>1. CASE x = idle_task /\ L = 1
    <3>1. next[idle_task] \in {idle_task, NULL}
      BY <1>2, <1>3, <1>5, <2>1
    <3>2. t = <<>>
      BY <1>4, <2>1
    <3>3. QED
      BY <1>1, <2>1, <3>1, <3>2 DEF NextTask, Abstract!After
  <2>2. CASE x = idle_task /\ L # 1
    <3>1. 1 \in 1..L /\ 1 # L /\ 1 \in 1..(L - 1) /\ Len(t) # 0
      BY <1>4, <1>5, <2>2
    <3>2. next[idle_task] = s[1 + 1] /\ s[1 + 1] # NULL /\ t[1] = s[1 + 1]
      BY <1>2, <1>3, <1>4, <3>1
    <3>3. t # <<>> /\ Head(t) = t[1]
      BY <1>4, <3>1
    <3>4. idle_task \notin Abstract!Elements(t)
      <4>1. \A k \in 1..(L - 1) : k + 1 \in 1..L /\ k + 1 # 1
        BY <1>5
      <4>2. \A k \in 1..(L - 1) : t[k] # idle_task
        BY <1>2, <1>4, <3>1, <4>1
      <4>3. DOMAIN t = 1..(L - 1)
        BY <1>4
      <4>4. QED
        BY <4>2, <4>3 DEF Abstract!Elements
    <3>5. QED
      BY <2>2, <3>2, <3>3, <3>4 DEF NextTask, Abstract!After
  <2>3. CASE x # idle_task
    <3>1. PICK i \in 1..L : x = s[i]
      BY <1>2
    <3>2. /\ i # 1 /\ i - 1 \in 1..(L - 1) /\ i - 1 \in 1..Len(t) /\ i - 1 + 1 = i
          /\ 1 \in 1..L /\ 1 # L /\ 1 \in 1..(L - 1)
          /\ (i - 1 = Len(t) <=> i = L)
      BY <1>2, <1>4, <1>5, <2>3, <3>1
    <3>3. t[i - 1] = x
      BY <1>4, <3>1, <3>2
    <3>4. Abstract!After(t, x) = IF i = L THEN t[1] ELSE t[i - 1 + 1]
      BY <1>4, <1>6, <3>2, <3>3, TurnAfter
    <3>5. next[idle_task] = t[1] /\ t[1] # NULL
      BY <1>2, <1>3, <1>4, <3>2
    <3>6. CASE i = L
      <4>1. Linked(next, prev, S)
        BY <2>3 DEF IsRing
      <4>2. next[x] \in S /\ next[x] \in {idle_task, NULL}
        BY <1>3, <3>1, <3>6, <4>1 DEF Linked
      <4>3. next[x] = idle_task
        BY <1>1, <4>2
      <4>4. QED
        BY <3>4, <3>5, <3>6, <4>3 DEF NextTask
    <3>7. CASE i # L
      <4>1. i \in 1..(L - 1)
        BY <1>5, <3>7
      <4>2. next[x] = s[i + 1] /\ s[i + 1] # idle_task /\ t[i] = s[i + 1]
        BY <1>3, <1>4, <3>1, <3>7, <4>1
      <4>3. QED
        BY <2>3, <3>2, <3>4, <3>7, <4>2 DEF NextTask
    <3>8. QED
      BY <3>6, <3>7
  <2>4. QED
    BY <2>1, <2>2, <2>3
<1>8. QED
  BY <1>2, <1>5, <1>7 DEF L, t

\* Cutting an element out of a list that has lost its first one.
LEMMA TailCut ==
  ASSUME NEW s \in Seq(AllTask), NEW i \in 2..Len(s)
  PROVE  Tail(Cut(s, i)) = Cut(Tail(s), i - 1)
<1> DEFINE L == Len(s)
           c == Cut(s, i)
           t == Tail(s)
<1>1. L \in Nat /\ L >= 2 /\ i \in 1..L
  BY Z3
<1>2. /\ c \in Seq(AllTask) /\ Len(c) = L - 1
      /\ \A k \in 1..(i - 1) : c[k] = s[k]
      /\ \A k \in i..(L - 1) : c[k] = s[k + 1]
  BY <1>1, CutIndex
<1>3. /\ t \in Seq(AllTask) /\ Len(t) = L - 1
      /\ \A k \in 1..(L - 1) : t[k] = s[k + 1]
  <2>1. s # <<>>
    BY <1>1
  <2>2. QED
    BY <2>1
<1> HIDE DEF c, t, L
<1> DEFINE p == Tail(c)
           q == Cut(t, i - 1)
<1>4. /\ p \in Seq(AllTask) /\ Len(p) = L - 2
      /\ \A k \in 1..(L - 2) : p[k] = c[k + 1]
  <2>1. c # <<>> /\ L - 1 - 1 = L - 2
    BY <1>1, <1>2
  <2>2. /\ p \in Seq(AllTask) /\ Len(p) = Len(c) - 1
        /\ \A k \in 1..(Len(c) - 1) : p[k] = c[k + 1]
    BY <1>2, <2>1
  <2>3. QED
    BY <1>2, <2>1, <2>2
<1>5. /\ q \in Seq(AllTask) /\ Len(q) = L - 2
      /\ \A k \in 1..(i - 2) : q[k] = t[k]
      /\ \A k \in (i - 1)..(L - 2) : q[k] = t[k + 1]
  <2>1. i - 1 \in 1..Len(t) /\ L - 1 - 1 = L - 2 /\ i - 1 - 1 = i - 2
    BY <1>1, <1>3
  <2>2. /\ q \in Seq(AllTask) /\ Len(q) = Len(t) - 1
        /\ \A k \in 1..(i - 1 - 1) : q[k] = t[k]
        /\ \A k \in (i - 1)..(Len(t) - 1) : q[k] = t[k + 1]
    BY <1>3, <2>1, CutIndex
  <2>3. QED
    BY <1>3, <2>1, <2>2
<1> HIDE DEF p, q
<1>6. ASSUME NEW k \in 1..(L - 2)
      PROVE  p[k] = q[k]
  <2>1. CASE k < i - 1
    <3>1. k \in 1..(i - 2) /\ k + 1 \in 1..(i - 1) /\ k \in 1..(L - 1)
      BY <1>1, <2>1
    <3>2. QED
      BY <1>2, <1>3, <1>4, <1>5, <3>1
  <2>2. CASE ~(k < i - 1)
    <3>1. k \in (i - 1)..(L - 2) /\ k + 1 \in i..(L - 1) /\ k + 1 \in 1..(L - 1)
      BY <1>1, <2>2
    <3>2. QED
      BY <1>2, <1>3, <1>4, <1>5, <3>1
  <2>3. QED
    BY <2>1, <2>2
<1>7. p = q
  BY <1>4, <1>5, <1>6
<1>8. QED
  BY <1>7 DEF p, q, c, t

\* A sequence is what is in front of its last element, and that element.
LEMMA FrontLast ==
  ASSUME NEW s \in Seq(AllTask), s # <<>>
  PROVE  Append(SubSeq(s, 1, Len(s) - 1), s[Len(s)]) = s
<1> DEFINE L == Len(s)
           f == SubSeq(s, 1, L - 1)
<1>1. L \in Nat /\ L \in 1..L /\ 1 \in 1..L
  BY Z3
<1>2. f \in Seq(AllTask) /\ s[L] \in AllTask
  <2>1. 1 \in Int /\ L - 1 \in Int /\ \A k \in 1..(L - 1) : s[k] \in AllTask
    BY <1>1
  <2>2. f \in Seq(AllTask)
    BY <2>1, SubSeqProperties
  <2>3. QED
    BY <1>1, <2>2
<1>3. SubSeq(s, 1, L) = f \o <<s[L]>>
  BY <1>1, SubSeqRecursiveSecond
<1>4. SubSeq(s, 1, L) = s
  BY SubSeqFull
<1> HIDE DEF f
<1>5. f \o <<s[L]>> = Append(f, s[L])
  BY <1>2
<1>6. QED
  BY <1>3, <1>4, <1>5 DEF f

(* What every call of schedule() leaves alone.                             *)
LEMMA ScheduleFrame ==
  ASSUME IInv, ListsInOrder, Schedule
  PROVE  /\ pc = "schedule" /\ pc' = "restore" /\ current \in OnRunList
         /\ current' = NextTask(current, run_next[current], run_next'[idle_task])
         /\ OnRunList' = Runnable \cup {idle_task}
         /\ UNCHANGED <<state, queue>>
         /\ \A q \in Queue : QueueOrder(q)' = QueueOrder(q) /\ ~Blocking(q)'
         /\ \A q \in Queue : IsOrder(queue_next', first'[q], first'[q], Waiters(q)', QueueOrder(q)')
         /\ IsOrder(run_next, idle_task, idle_task, OnRunList, RunOrder)
         /\ ReadyList = Tail(RunOrder)
         /\ WaitingList' = [q \in Queue |-> QueueOrder(q)]
<1>1. /\ pc = "schedule" /\ pc' = "restore"
      /\ current' = NextTask(current, run_next[current], run_next'[idle_task])
      /\ UNCHANGED <<state, queue, queue_next, first>>
  BY DEF Schedule, waitVars, NewSlice
<1>2. current \in OnRunList
  BY <1>1 DEF OnRunList
<1>3. OnRunList' = Runnable \cup {idle_task} /\ \A q \in Queue : Waiters(q)' = Waiters(q)
  BY ScheduleLists
<1>4. \A q \in Queue : QueueOrder(q)' = QueueOrder(q) /\ ~Blocking(q)'
  BY <1>1 DEF QueueOrder, Blocking
<1>5. /\ IsOrder(run_next, idle_task, idle_task, OnRunList, RunOrder)
      /\ \A q \in Queue : IsOrder(queue_next, first[q], first[q], Waiters(q), QueueOrder(q))
  BY <1>1 DEF ListsInOrder
<1>6. \A q \in Queue : IsOrder(queue_next', first'[q], first'[q], Waiters(q)', QueueOrder(q)')
  BY <1>1, <1>3, <1>4, <1>5
<1>7. ReadyList = Tail(RunOrder)
  <2>1. Tail(RunOrder) \o <<>> = Tail(RunOrder)
    BY <1>5, ListSets, TailConcat
  <2>2. QED
    BY <1>1, <2>1 DEF ReadyList
<1>8. WaitingList' = [q \in Queue |-> QueueOrder(q)]
  BY <1>1, <1>4 DEF WaitingList
<1>9. QED
  BY <1>1, <1>2, <1>3, <1>4, <1>5, <1>6, <1>7, <1>8

\* The ready list after schedule().
LEMMA ReadyAfter ==
  ASSUME IsOrder(run_next, idle_task, idle_task, OnRunList, RunOrder)', pc' = "restore"
  PROVE  ReadyList' = Tail(RunOrder')
<1>1. Tail(RunOrder') \o <<>> = Tail(RunOrder')
  BY TaskAssumption, TailConcat
<1>2. QED
  BY <1>1 DEF ReadyList

(* schedule() for a process that stays runnable: the next one's turn.      *)
LEMMA YieldStep ==
  ASSUME IInv, ListsInOrder, Schedule, state[current] = "RUNNING"
  PROVE  ListsInOrder' /\ Abstract!Yield
<1>1. /\ pc = "schedule" /\ pc' = "restore" /\ current \in OnRunList
      /\ current' = NextTask(current, run_next[current], run_next'[idle_task])
      /\ OnRunList' = Runnable \cup {idle_task}
      /\ UNCHANGED <<state, queue>>
      /\ \A q \in Queue : QueueOrder(q)' = QueueOrder(q) /\ ~Blocking(q)'
      /\ \A q \in Queue : IsOrder(queue_next', first'[q], first'[q], Waiters(q)', QueueOrder(q)')
      /\ IsOrder(run_next, idle_task, idle_task, OnRunList, RunOrder)
      /\ ReadyList = Tail(RunOrder)
      /\ WaitingList' = [q \in Queue |-> QueueOrder(q)]
  BY ScheduleFrame
<1>2. run_next' = run_next
  BY DEF Schedule, runVars, NewSlice
<1>3. OnRunList' = OnRunList
  <2>1. current \in Runnable \cup {idle_task}
    BY <1>1 DEF IInv, RunListOK, Runnable
  <2>2. QED
    BY <1>1, <2>1 DEF OnRunList
<1>4. RunOrder' = RunOrder
  BY <1>2 DEF RunOrder
<1>5. IsOrder(run_next', idle_task, idle_task, OnRunList', RunOrder')
  BY <1>1, <1>2, <1>3, <1>4
<1>6. ListsInOrder'
  BY <1>1, <1>5 DEF ListsInOrder
<1>7. ReadyList' = ReadyList
  BY <1>1, <1>4, <1>5, ReadyAfter
<1>8. WaitingList' = WaitingList
  <2>1. \A q \in Queue : ~Blocking(q)
    BY DEF Blocking
  <2>2. WaitingList = [q \in Queue |-> QueueOrder(q)]
    BY <1>1, <2>1 DEF WaitingList
  <2>3. QED
    BY <1>1, <2>2
<1>9. current' = Abstract!After(ReadyList, current)
  <2>1. NextTask(current, run_next[current], run_next[idle_task]) = Abstract!After(Tail(RunOrder), current)
    BY <1>1, ListSets, NextInRing
  <2>2. QED
    BY <1>1, <1>2, <2>1
<1>10. QED
  BY <1>6, <1>7, <1>8, <1>9 DEF Abstract!Yield

(* schedule() for a process that blocked: it leaves the list and joins the *)
(* end of its queue.                                                       *)
LEMMA SwitchStep ==
  ASSUME IInv, ListsInOrder, Schedule, state[current] # "RUNNING"
  PROVE  ListsInOrder' /\ \E q \in Queue : Abstract!Block(q)
<1> DEFINE r == RunOrder
           L == Len(r)
           t == Tail(r)
           q == queue[current]
           s == QueueOrder(q)
<1>1. /\ pc = "schedule" /\ pc' = "restore" /\ current \in OnRunList
      /\ current' = NextTask(current, run_next[current], run_next'[idle_task])
      /\ OnRunList' = Runnable \cup {idle_task}
      /\ UNCHANGED <<state, queue>>
      /\ \A x \in Queue : QueueOrder(x)' = QueueOrder(x) /\ ~Blocking(x)'
      /\ \A x \in Queue : IsOrder(queue_next', first'[x], first'[x], Waiters(x)', QueueOrder(x)')
      /\ IsOrder(run_next, idle_task, idle_task, OnRunList, RunOrder)
      /\ ReadyList = Tail(RunOrder)
      /\ WaitingList' = [x \in Queue |-> QueueOrder(x)]
  BY ScheduleFrame
<1>2. current \in Created /\ current \in Task /\ current # idle_task /\ current \in AllTask
  <2>1. current \in Created \cup {idle_task} /\ state[idle_task] = "RUNNING"
    BY DEF IInv, RunListOK
  <2>2. QED
    BY <2>1 DEF Created, AllTask
<1>3. q \in Queue
  BY <1>2 DEF ListsInOrder
<1>4. OnRunList' = OnRunList \ {current}
  <2>1. current \notin Runnable \cup {idle_task}
    BY <1>2 DEF Runnable
  <2>2. QED
    BY <1>1, <2>1 DEF OnRunList
<1>5. run_next' = RemoveNext(run_next, run_prev, current)
  BY DEF Schedule
<1>6. /\ Abstract!After(t, current) = NextTask(current, run_next[current], run_next[idle_task])
      /\ L \in Nat \ {0} /\ r \in Seq(AllTask) /\ r[1] = idle_task
      /\ \A k, l \in 1..L : r[k] = r[l] => k = l
      /\ OnRunList = {r[k] : k \in 1..L}
  BY <1>1, ListSets, NextInRing
<1>7. PICK i \in 1..L : r[i] = current
  BY <1>1, <1>6
<1>8. i \in 2..L
  BY <1>2, <1>6, <1>7
<1>9. /\ IsOrder(run_next', idle_task, idle_task, OnRunList', Cut(r, i))
      /\ RunOrder' = Cut(r, i)
  <2>1. /\ IsRing(run_next, run_prev, OnRunList, idle_task) /\ OnRunList \in SUBSET AllTask
        /\ run_next \in [AllTask -> Link] /\ run_prev \in [AllTask -> Link]
        /\ idle_task \in Link
    BY ListSets
  <2>2. IsOrder(RemoveNext(run_next, run_prev, r[i]), idle_task, idle_task,
                OnRunList \ {r[i]}, Cut(r, i))
    BY <1>1, <1>2, <1>7, <2>1, RemoveOrder
  <2>3. IsOrder(run_next', idle_task, idle_task, OnRunList', Cut(r, i))
    BY <1>4, <1>5, <1>7, <2>2
  <2>4. Walk(run_next', idle_task, idle_task) = Cut(r, i)
    BY <2>1, <2>3, WalkIsOrder
  <2>5. QED
    BY <2>3, <2>4 DEF RunOrder
<1>10. ListsInOrder'
  <2>1. IsOrder(run_next', idle_task, idle_task, OnRunList', RunOrder')
    BY <1>9
  <2>2. \A x \in Task : state'[x] # "RUNNING" => queue'[x] \in Queue
    BY <1>1 DEF ListsInOrder
  <2>3. QED
    BY <1>1, <2>1, <2>2 DEF ListsInOrder
<1>11. /\ t \in Seq(AllTask) /\ Len(t) = L - 1
       /\ \A k \in 1..(L - 1) : t[k] = r[k + 1]
  <2>1. r # <<>>
    BY <1>6
  <2>2. QED
    BY <1>6, <2>1
<1> HIDE DEF L, t, r, s, q
<1>12. /\ i - 1 \in 1..Len(t) /\ t[i - 1] = current
       /\ \A k, l \in 1..Len(t) : t[k] = t[l] => k = l
  <2>1. i - 1 \in 1..(L - 1) /\ i - 1 + 1 = i
    BY <1>6, <1>8
  <2>2. t[i - 1] = current
    BY <1>7, <1>11, <2>1
  <2>3. ASSUME NEW k \in 1..Len(t), NEW l \in 1..Len(t), t[k] = t[l]
        PROVE  k = l
    <3>1. /\ k \in 1..(L - 1) /\ l \in 1..(L - 1) /\ k + 1 \in 1..L /\ l + 1 \in 1..L
      BY <1>6, <1>11
    <3>2. k + 1 = l + 1
      BY <1>6, <1>11, <2>3, <3>1
    <3>3. QED
      BY <3>1, <3>2
  <2>4. QED
    BY <1>11, <2>1, <2>2, <2>3
<1>13. /\ current \in Abstract!Elements(t)
       /\ Abstract!Position(t, current) = i - 1
       /\ Abstract!After(t, current) = IF i - 1 = Len(t) THEN t[1] ELSE t[i - 1 + 1]
  BY <1>11, <1>12, TurnAfter
<1>14. ReadyList = t /\ ReadyList' = Abstract!Without(t, current)
  <2>1. ReadyList = t
    BY <1>1 DEF t, r
  <2>2. ReadyList' = Tail(Cut(r, i))
    BY <1>1, <1>9, ReadyAfter
  <2>3. Tail(Cut(r, i)) = Cut(t, i - 1)
    BY <1>6, <1>8, TailCut DEF t, L
  <2>4. Cut(t, i - 1) = Abstract!Without(t, current)
    BY <1>13, Zenon DEF Cut, Abstract!Without
  <2>5. QED
    BY <2>1, <2>2, <2>3, <2>4
<1>15. WaitingList' = [WaitingList EXCEPT ![q] = Append(@, current)]
  <2>1. WaitingList = [x \in Queue |-> IF x = q THEN SubSeq(s, 1, Len(s) - 1) ELSE QueueOrder(x)]
    BY <1>1 DEF WaitingList, Blocking, q, s
  <2>2. IsOrder(queue_next, first[q], first[q], Waiters(q), s)
    BY <1>1, <1>3 DEF ListsInOrder, s
  <2>3. current \in Waiters(q)
    <3>1. state[current] = "INTERRUPTABLE"
      BY <1>2 DEF IInv, TypeOK
    <3>2. QED
      BY <1>2, <3>1 DEF Waiters, q
  <2>4. s \in Seq(AllTask) /\ s # <<>>
    <3>1. s \in Seq(AllTask) /\ Waiters(q) = {s[k] : k \in 1..Len(s)}
      BY <2>2 DEF IsOrder
    <3>2. s # <<>>
      BY <2>3, <3>1
    <3>3. QED
      BY <3>1, <3>2
  <2>5. s[Len(s)] = current
    BY <1>1, <1>3 DEF ListsInOrder, Blocking, q, s
  <2>6. Append(SubSeq(s, 1, Len(s) - 1), current) = s
    BY <2>4, <2>5, FrontLast
  <2>7. WaitingList' = [x \in Queue |-> IF x = q THEN s ELSE QueueOrder(x)]
    BY <1>1 DEF s
  <2>8. QED
    BY <1>3, <2>1, <2>6, <2>7
<1>16. /\ IF i = L THEN run_next[current] = idle_task
                   ELSE run_next[current] = r[i + 1] /\ r[i + 1] \notin {idle_task, NULL}
  <2>1. i = L => run_next[current] \in {idle_task, NULL}
    BY <1>1, <1>7 DEF IsOrder, L, r
  <2>2. i # L => run_next[current] = r[i + 1] /\ r[i + 1] \notin {idle_task, NULL}
    BY <1>1, <1>7 DEF IsOrder, L, r
  <2>3. run_next[current] # NULL
    <3>1. OnRunList # {idle_task}
      BY <1>1, <1>2
    <3>2. Linked(run_next, run_prev, OnRunList)
      BY <3>1, ListSets DEF IsRing
    <3>3. run_next[current] \in OnRunList
      BY <1>1, <3>2 DEF Linked
    <3>4. QED
      BY <3>3, ListSets
  <2>4. QED
    BY <2>1, <2>2, <2>3
<1>17. current' = IF Abstract!After(t, current) = current THEN idle_task
                  ELSE Abstract!After(t, current)
  <2>1. CASE i # L
    <3>1. i \in 1..(L - 1) /\ i + 1 \in 1..L /\ i + 1 # i /\ i - 1 # Len(t) /\ i - 1 + 1 = i
      BY <1>6, <1>8, <1>11, <2>1
    <3>2. Abstract!After(t, current) = r[i + 1] /\ r[i + 1] # current
      BY <1>6, <1>7, <1>11, <1>13, <3>1
    <3>3. QED
      BY <1>1, <1>2, <1>16, <2>1, <3>2 DEF NextTask
  <2>2. CASE i = L
    <3>1. i - 1 = Len(t) /\ 1 \in 1..(L - 1) /\ 2 \in 1..L
      BY <1>6, <1>8, <1>11, <2>2
    <3>2. Abstract!After(t, current) = r[2]
      <4>1. t[1] = r[1 + 1] /\ 1 + 1 = 2
        BY <1>11, <3>1
      <4>2. QED
        BY <1>13, <3>1, <4>1
    <3>3. current' = IF run_next'[idle_task] # NULL THEN run_next'[idle_task] ELSE idle_task
      BY <1>1, <1>16, <2>2 DEF NextTask
    <3> DEFINE c == Cut(r, i)
    <3>4. /\ Len(c) = L - 1
          /\ \A k \in 1..(i - 1) : c[k] = r[k]
      BY <1>6, CutIndex DEF L
    <3> HIDE DEF c
    <3>5. 1 \in 1..(i - 1) /\ 1 \in 1..Len(c)
      BY <1>8, <3>1, <3>4
    <3>6. c[1] = idle_task
      BY <1>6, <3>4, <3>5
    <3>7. \A k \in 1..Len(c) :
             IF k = Len(c) THEN run_next'[c[k]] \in {idle_task, NULL}
             ELSE run_next'[c[k]] = c[k + 1] /\ c[k + 1] \notin {idle_task, NULL}
      BY <1>9 DEF IsOrder, c
    <3>8. CASE L = 2
      <4>1. run_next'[idle_task] \in {idle_task, NULL}
        BY <3>4, <3>5, <3>6, <3>7, <3>8
      <4>2. r[2] = current
        BY <1>7, <2>2, <3>8
      <4>3. QED
        BY <3>2, <3>3, <4>1, <4>2
    <3>9. CASE L # 2
      <4>1. 1 # Len(c) /\ 2 \in 1..(i - 1) /\ 1 + 1 = 2 /\ i # 2
        BY <1>6, <1>8, <2>2, <3>4, <3>9
      <4>2. run_next'[idle_task] = r[2] /\ r[2] # NULL
        BY <3>4, <3>5, <3>6, <3>7, <4>1
      <4>3. r[2] # current
        BY <1>6, <1>7, <3>1, <4>1
      <4>4. QED
        BY <3>2, <3>3, <4>2, <4>3
    <3>10. QED
      BY <3>8, <3>9
  <2>3. QED
    BY <2>1, <2>2
<1>18. Abstract!Block(q)
  BY <1>13, <1>14, <1>15, <1>17, Zenon DEF Abstract!Block
<1>19. QED
  BY <1>3, <1>10, <1>18

-----------------------------------------------------------------------------
(* At the start nobody is ready and nobody waits.                          *)
LEMMA ListsInit ==
  ASSUME Init, IInv
  PROVE  ListsInOrder /\ Abstract!Init
<1>1. /\ pc = "run" /\ current = idle_task
      /\ run_next = [t \in AllTask |-> NULL]
      /\ first = [q \in Queue |-> NULL]
      /\ state = [t \in AllTask |-> "RUNNING"]
      /\ task_next = [t \in AllTask |-> NULL]
  BY DEF Init
<1>2. OnRunList = {idle_task} /\ \A q \in Queue : Waiters(q) = {}
  BY <1>1 DEF OnRunList, Runnable, Waiters, Created, AllTask
<1> DEFINE one == <<idle_task>>
<1>3. one \in Seq(AllTask) /\ Len(one) = 1 /\ one[1] = idle_task /\ one # <<>> /\ Tail(one) = <<>>
  BY ListSets
<1>4. IsOrder(run_next, idle_task, idle_task, {idle_task}, one)
  <2>1. run_next[idle_task] = NULL /\ idle_task # NULL
    BY <1>1, ListSets
  <2> HIDE DEF one
  <2>2. {idle_task} = {one[i] : i \in 1..Len(one)}
    BY <1>3
  <2>3. \A i, j \in 1..Len(one) : one[i] = one[j] => i = j
    BY <1>3
  <2>4. \A i \in 1..Len(one) :
          IF i = Len(one) THEN run_next[one[i]] \in {idle_task, NULL}
          ELSE run_next[one[i]] = one[i + 1] /\ one[i + 1] \notin {idle_task, NULL}
    BY <1>3, <2>1
  <2>5. QED
    BY <1>3, <2>1, <2>2, <2>3, <2>4, Zenon DEF IsOrder
<1> HIDE DEF one
<1>5. RunOrder = one
  BY <1>4, ListSets, WalkIsOrder DEF RunOrder
<1>6. \A q \in Queue : QueueOrder(q) = <<>> /\ first[q] = NULL
  BY <1>1, NullOrder DEF QueueOrder
<1>7. \A q \in Queue : ~Blocking(q)
  BY <1>1 DEF Blocking
<1>8. ListsInOrder
  <2>1. \A t \in Task : state[t] = "RUNNING"
    BY <1>1 DEF AllTask
  <2>2. QED
    BY <1>1, <1>2, <1>4, <1>5, <1>6, <1>7, <2>1, NullOrder DEF ListsInOrder
<1>9. ReadyList = <<>>
  BY <1>1, <1>3, <1>5 DEF ReadyList
<1>10. WaitingList = [q \in Queue |-> <<>>]
  BY <1>1, <1>6, <1>7 DEF WaitingList
<1>11. QED
  BY <1>1, <1>8, <1>9, <1>10 DEF Abstract!Init

(* Every step of the pointer code is a step of Sched, or does not show.    *)
LEMMA ListsStep ==
  ASSUME IInv, ListsInOrder, [Next]_vars
  PROVE  ListsInOrder' /\ [Abstract!Next]_(Abstract!vars)
<1>1. ASSUME NEW h \in Handler, Interrupt(h)
      PROVE  ListsInOrder' /\ UNCHANGED <<ReadyList, WaitingList, current>>
  BY <1>1, QuietStep DEF Interrupt, taskVars, runVars, waitVars, SaveAll, Handler
<1>2. CASE TimerInt \/ RetFromIntr \/ Restore
  <2>1. ListsInOrder' /\ UNCHANGED <<ReadyList, WaitingList, current>>
    BY <1>2, QuietStep DEF TimerInt, RetFromIntr, Restore, taskVars, runVars, waitVars,
           Tick, Expired
  <2>2. QED
    BY <2>1 DEF Abstract!vars
<1>3. CASE LoadFlags \/ LockedCall \/ Printk \/ SystemIdle \/ Syscall \/ SyscallGetch \/ SyscallReturn
  <2>1. ListsInOrder' /\ UNCHANGED <<ReadyList, WaitingList, current>>
    BY <1>3, QuietStep DEF LoadFlags, LockedCall, Printk, SystemIdle, Syscall,
           SyscallGetch, SyscallReturn, Running, taskVars, runVars, waitVars, SaveAll
  <2>2. QED
    BY <2>1 DEF Abstract!vars
<1>4. CASE KeyboardInt
  <2>1. ListsInOrder' /\ Abstract!Wake(keyboard_queue) /\ keyboard_queue \in Queue
    BY <1>4, KeyboardIntStep DEF Queue
  <2>2. QED
    BY <2>1 DEF Abstract!Next
<1>5. CASE WakeUp
  BY <1>5, WakeUpStep DEF Abstract!vars
<1>6. CASE WakeDone
  BY <1>6, WakeDoneStep DEF Abstract!vars
<1>7. CASE Schedule
  BY <1>7, YieldStep, SwitchStep DEF Abstract!Next
<1>8. ASSUME NEW t \in Task, CreateProcess(t)
      PROVE  ListsInOrder' /\ Abstract!Next
  BY <1>8, CreateStep DEF Abstract!Next
<1>9. ASSUME NEW q \in Queue, Block(q)
      PROVE  ListsInOrder' /\ UNCHANGED <<ReadyList, WaitingList, current>>
  BY <1>9, BlockStep
<1>10. CASE UNCHANGED vars
  <2>1. UNCHANGED <<current, state, task_next, run_next, queue, queue_next, first, wt, pc>>
    BY <1>10 DEF vars, taskVars, runVars, waitVars
  <2>2. /\ Created' = Created /\ Runnable' = Runnable
        /\ \A q \in Queue : Waiters(q)' = Waiters(q) /\ Blocking(q)' = Blocking(q)
    BY <2>1 DEF Created, Runnable, Waiters, Blocking
  <2>3. /\ RunOrder' = RunOrder /\ WakeOrder' = WakeOrder /\ OnRunList' = OnRunList
        /\ \A q \in Queue : QueueOrder(q)' = QueueOrder(q)
    BY <2>1, <2>2 DEF RunOrder, WakeOrder, QueueOrder, OnRunList
  <2>4. ListsInOrder'
    <3>1. IsOrder(run_next', idle_task, idle_task, OnRunList', RunOrder')
      BY <2>1, <2>3 DEF ListsInOrder
    <3>2. \A q \in Queue :
             ~(pc' = "waking" /\ q = keyboard_queue)
               => IsOrder(queue_next', first'[q], first'[q], Waiters(q)', QueueOrder(q)')
      BY <2>1, <2>2, <2>3 DEF ListsInOrder
    <3>3. pc' = "waking"
             => IsOrder(queue_next', wt', first'[keyboard_queue], Waiters(keyboard_queue)',
                        WakeOrder')
      BY <2>1, <2>2, <2>3 DEF ListsInOrder, Queue
    <3>4. \A t \in Task : state'[t] # "RUNNING" => queue'[t] \in Queue
      BY <2>1 DEF ListsInOrder
    <3>5. \A q \in Queue :
             Blocking(q)' => QueueOrder(q)'[Len(QueueOrder(q)')] = current'
      BY <2>1, <2>2, <2>3 DEF ListsInOrder
    <3>6. QED
      BY <3>1, <3>2, <3>3, <3>4, <3>5 DEF ListsInOrder
  <2>5. UNCHANGED <<ReadyList, WaitingList, current>>
    BY <2>1, <2>2, <2>3 DEF ReadyList, WaitingList
  <2>6. QED
    BY <2>4, <2>5 DEF Abstract!vars
<1>11. QED
  BY <1>1, <1>2, <1>3, <1>4, <1>5, <1>6, <1>7, <1>8, <1>9, <1>10
     DEF Next, Kernel, Abstract!vars

(* The lists the pointers stand for are well defined at every moment.      *)
THEOREM ListOrderCorrect == Spec => []ListsInOrder
<1>1. Init => ListsInOrder
  BY InitIInv, ListsInit
<1>2. IInv /\ ListsInOrder /\ [Next]_vars => ListsInOrder'
  BY ListsStep
<1>3. QED
  BY <1>1, <1>2, Invariant, PTL DEF Spec

(* Task implements Sched.                                                  *)
THEOREM SchedImplemented == Spec => ImplementsSched
<1>1. Init => Abstract!Init
  BY InitIInv, ListsInit
<1>2. IInv /\ ListsInOrder /\ [Next]_vars => [Abstract!Next]_(Abstract!vars)
  BY ListsStep
<1>3. QED
  BY <1>1, <1>2, Invariant, ListOrderCorrect, PTL DEF Spec, ImplementsSched, Abstract!Spec
=============================================================================
