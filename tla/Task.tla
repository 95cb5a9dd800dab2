-------------------------------- MODULE Task --------------------------------
(***************************************************************************)
(* Processes, the run list and the wait queues of bootperl: kernel/task.c, *)
(* with the interrupt entry and exit of kernel/entry.S, the kernel lock of *)
(* include/asm/lock.h, the timer interrupt of kernel/clock.c and the two   *)
(* processes of init/main.c (the idle task, which is the boot thread, and  *)
(* init).                                                                  *)
(*                                                                         *)
(* There is one processor, so a step is a stretch of code that runs with   *)
(* interrupts off, or one instruction that turns them on.  `pc' is where   *)
(* the processor is: "run" is process code, every other value a place in   *)
(* the kernel's interrupt path, reached with the lock held.  Task pointers *)
(* are the tasks themselves and NULL.                                      *)
(***************************************************************************)
EXTENDS Integers, Ring

CONSTANTS
  Task,            \* every process create_process is called for
  init,            \* the one that runs kernel_init; it creates the others
  idle_task,       \* the statically allocated task 0
  keyboard_queue,  \* the queue getch blocks on, woken by the keyboard
  block_queue,     \* kernel_init's own queue, which nobody wakes
  Slice,           \* timer ticks of a timeslice (100 in the code)
  Wrap             \* timeslice is unsigned: one past its largest value

ASSUME TaskAssumption ==
  /\ init \in Task
  /\ idle_task \notin Task
  /\ NULL \notin Task \cup {idle_task}

ASSUME QueueAssumption ==
  /\ keyboard_queue # block_queue
  /\ NULL \notin {keyboard_queue, block_queue}

ASSUME SliceAssumption ==
  /\ Slice \in Nat \ {0}
  /\ Wrap \in Nat
  /\ Wrap > Slice

VARIABLES
  current,       \* the running task
  state,         \* task -> "RUNNING" or "INTERRUPTABLE"
  need_resched,  \* task -> reschedule on the way out of an interrupt?
  timeslice,     \* task -> ticks left
  task_next, task_prev,   \* the list of all tasks
  run_next, run_prev,     \* the list of runnable tasks, idle_task included
  queue,                  \* task -> the queue it blocked on last
  queue_next, queue_prev, \* the links of the wait queues
  first,         \* queue -> its first waiter
  wt,            \* t in wake_up_queue: the next task to wake
  kernel_lock,   \* _kernel_lock, the nesting depth of lock_kernel
  iflag,         \* the processor's interrupt flag
  eflags,        \* task -> the interrupt flag in its saved frame
  reload,        \* task -> is it about to load a saved IF of 0 (iret, popf)?
  syscall,       \* task -> "none", or while getch() runs for its int $0x40,
                 \* the interrupt flag that was saved: "if_on" or "if_off"
  booted,        \* has start_kernel reached system_idle?
  pc

runVars  == <<run_next, run_prev>>
taskVars == <<task_next, task_prev>>
waitVars == <<queue, queue_next, queue_prev, first>>
cpuVars  == <<kernel_lock, iflag, eflags, reload, syscall>>
vars == <<current, state, need_resched, timeslice, taskVars, runVars, waitVars,
          wt, cpuVars, booted, pc>>

AllTask == Task \cup {idle_task}
Queue   == {keyboard_queue, block_queue}
Link    == AllTask \cup {NULL}
Handler == {"timer", "keyboard"}

\* Bit b of the word w.
Bit(w, b) == (w \div 2^b) % 2 = 1

\* create_process stores 9 << 1 as the eflags of a new process; the interrupt
\* flag is bit 9.
NewProcessIF == Bit(9 * 2, 9)

\* The processes create_process has put on the task list.
Created == {t \in Task : task_next[t] # NULL}

\* The processes that want the processor.
Runnable == {t \in Created : state[t] = "RUNNING"}

\* The processes blocked on q.
Waiters(q) == {t \in Created : state[t] = "INTERRUPTABLE" /\ queue[t] = q}

-----------------------------------------------------------------------------
(* start_kernel has just called unlock_kernel for the first time: it runs  *)
(* as the idle task, which has no links yet.  init_syscalls has executed   *)
(* two int $0x40, so the idle task has been through ret_from_intr and,     *)
(* being born with need_resched set, through schedule(), which cleared     *)
(* that and gave it a timeslice.                                           *)

Init ==
  /\ current = idle_task
  /\ state = [t \in AllTask |-> "RUNNING"]
  /\ need_resched = [t \in AllTask |-> FALSE]
  /\ timeslice = [t \in AllTask |-> IF t = idle_task THEN Slice ELSE 0]
  /\ task_next = [t \in AllTask |-> NULL] /\ task_prev = task_next
  /\ run_next = [t \in AllTask |-> NULL] /\ run_prev = run_next
  /\ queue = [t \in AllTask |-> NULL]
  /\ queue_next = [t \in AllTask |-> NULL] /\ queue_prev = queue_next
  /\ first = [q \in Queue |-> NULL]
  /\ wt = NULL
  /\ kernel_lock = 0
  /\ iflag = TRUE
  /\ eflags = [t \in AllTask |-> FALSE]
  /\ reload = [t \in AllTask |-> FALSE]
  /\ syscall = [t \in AllTask |-> "none"]
  /\ booted = FALSE
  /\ pc = "run"

-----------------------------------------------------------------------------
(* The interrupt path.                                                     *)

\* Mutant: SAVE_ALL without LOCK.
SaveAll_NoLock(if) ==
  /\ eflags' = [eflags EXCEPT ![current] = if]
  /\ iflag' = FALSE
  /\ UNCHANGED kernel_lock

\* SAVE_ALL and LOCK: the flags are pushed, with `if' for IF, and cleared, and
\* the lock is taken.
SaveAll(if) ==
  /\ eflags' = [eflags EXCEPT ![current] = if]
  /\ iflag' = FALSE
  /\ kernel_lock' = kernel_lock + 1

\* The processor takes an interrupt.
Interrupt(h) ==
  /\ pc = "run" /\ iflag
  /\ SaveAll(iflag)
  /\ pc' = h
  /\ UNCHANGED <<current, state, need_resched, timeslice, taskVars, runVars,
                 waitVars, wt, reload, syscall, booted>>

\* Mutant: the timeslice is signed.
Tick_Signed(n) == n - 1

\* `timeslice--', unsigned.
Tick(n) == (n - 1) % Wrap

\* Mutant: `if (--timeslice < 0)', which an unsigned value never is.
Expired_Negative(n) == Tick(n) < 0

\* `timeslice-- == 0'.
Expired(n) == n = 0

\* do_timer_int.
TimerInt ==
  /\ pc = "timer"
  /\ timeslice' = [timeslice EXCEPT ![current] = Tick(@)]
  /\ need_resched' = [need_resched EXCEPT ![current] = @ \/ Expired(timeslice[current])]
  /\ pc' = "ret_from_intr"
  /\ UNCHANGED <<current, state, taskVars, runVars, waitVars, wt, cpuVars, booted>>

\* do_keyboard_int ends in wake_up_queue(&keyboard_queue), which starts with
\* the first waiter.
KeyboardInt ==
  /\ pc = "keyboard"
  /\ wt' = first[keyboard_queue]
  /\ pc' = "waking"
  /\ UNCHANGED <<current, state, need_resched, timeslice, taskVars, runVars,
                 waitVars, cpuVars, booted>>

\* Mutant: a task joins the run list behind idle_task, that is, in front.
LinkRun_InFront(t) ==
  LET a == IF run_next[idle_task] = NULL THEN idle_task ELSE run_next[idle_task]
  IN  /\ run_next' = InsertNext(run_next, run_prev, a, t)
      /\ run_prev' = InsertPrev(run_next, run_prev, a, t)

\* A task joins the run list, at its end.
LinkRun(t) ==
  /\ run_next' = InsertNext(run_next, run_prev, idle_task, t)
  /\ run_prev' = InsertPrev(run_next, run_prev, idle_task, t)

\* One turn of wake_up_queue's loop, with its call of wake_up.
WakeUp ==
  /\ pc = "waking" /\ wt # NULL
  /\ queue_next' = [queue_next EXCEPT ![wt] = NULL]
  /\ queue_prev' = [queue_prev EXCEPT ![wt] = NULL]
  /\ state' = [state EXCEPT ![wt] = "RUNNING"]
  /\ LinkRun(wt)
  /\ wt' = IF queue_next[wt] = first[keyboard_queue] THEN NULL ELSE queue_next[wt]
  /\ UNCHANGED <<current, need_resched, timeslice, taskVars, queue, first,
                 cpuVars, booted, pc>>

\* The end of wake_up_queue.
WakeDone ==
  /\ pc = "waking" /\ wt = NULL
  /\ first' = [first EXCEPT ![keyboard_queue] = NULL]
  /\ pc' = "ret_from_intr"
  /\ UNCHANGED <<current, state, need_resched, timeslice, taskVars, runVars,
                 queue, queue_next, queue_prev, wt, cpuVars, booted>>

RetFromIntr ==
  /\ pc = "ret_from_intr"
  /\ pc' = IF need_resched[current] THEN "schedule" ELSE "restore"
  /\ UNCHANGED <<current, state, need_resched, timeslice, taskVars, runVars,
                 waitVars, wt, cpuVars, booted>>

\* Mutant: the idle task has its turn on the list like any other.
NextTask_InTurn(prev, next, idle_next) ==
  IF next = NULL THEN idle_task ELSE next

\* The task schedule() switches to: `next' is read before prev is unlinked,
\* idle_task.run_next after.
NextTask(prev, next, idle_next) ==
  IF prev = idle_task \/ next = idle_task
    THEN IF idle_next # NULL THEN idle_next ELSE idle_task
    ELSE next

\* Mutant: the timeslice of the last turn is kept.
NewSlice_Kept(t) ==
  /\ need_resched' = [need_resched EXCEPT ![t] = FALSE]
  /\ UNCHANGED timeslice

\* A task that goes on running gets a new timeslice.
NewSlice(t) ==
  /\ need_resched' = [need_resched EXCEPT ![t] = FALSE]
  /\ timeslice' = [timeslice EXCEPT ![t] = Slice]

Schedule ==
  /\ pc = "schedule"
  /\ IF state[current] # "RUNNING"
       THEN /\ run_next' = RemoveNext(run_next, run_prev, current)
            /\ run_prev' = RemovePrev(run_next, run_prev, current)
            /\ UNCHANGED <<need_resched, timeslice>>
       ELSE NewSlice(current) /\ UNCHANGED runVars
  /\ current' = NextTask(current, run_next[current], run_next'[idle_task])
  /\ pc' = "restore"
  /\ UNCHANGED <<state, taskVars, waitVars, wt, cpuVars, booted>>

\* The common exit: decrement the lock, sti if that made it 0, iret.  When
\* the frame's flags have IF clear there is an instant, between the two, in
\* which an interrupt is still taken.
Restore ==
  /\ pc = "restore"
  /\ kernel_lock' = kernel_lock - 1
  /\ IF kernel_lock' = 0
       THEN /\ iflag' = TRUE
            /\ reload' = [reload EXCEPT ![current] = @ \/ ~eflags[current]]
       ELSE /\ iflag' = eflags[current]
            /\ UNCHANGED reload
  /\ eflags' = [eflags EXCEPT ![current] = FALSE]   \* the frame is gone
  /\ pc' = "run"
  /\ UNCHANGED <<current, state, need_resched, timeslice, taskVars, runVars,
                 waitVars, wt, syscall, booted>>

-----------------------------------------------------------------------------
(* Process code.                                                           *)

\* The current task is at an instruction of its own.
Running == pc = "run" /\ ~reload[current]

\* The iret or popf that follows the sti loads the saved flags, IF clear.
LoadFlags ==
  /\ pc = "run" /\ reload[current]
  /\ iflag' = FALSE
  /\ reload' = [reload EXCEPT ![current] = FALSE]
  /\ UNCHANGED <<current, state, need_resched, timeslice, taskVars, runVars,
                 waitVars, wt, kernel_lock, eflags, syscall, booted, pc>>

\* A call that takes and releases the lock (kalloc, puts): unlock_kernel does
\* sti when it releases the last level, whatever IF was.
LockedCall ==
  /\ Running
  /\ iflag' = (kernel_lock = 0)
  /\ UNCHANGED <<current, state, need_resched, timeslice, taskVars, runVars,
                 waitVars, wt, kernel_lock, eflags, reload, syscall, booted, pc>>

\* A call of printk with IF clear: unlock_flags does the sti of unlock_kernel
\* first and the popf after it.
Printk ==
  /\ Running /\ ~iflag
  /\ kernel_lock = 0
  /\ iflag' = TRUE
  /\ reload' = [reload EXCEPT ![current] = TRUE]
  /\ UNCHANGED <<current, state, need_resched, timeslice, taskVars, runVars,
                 waitVars, wt, kernel_lock, eflags, syscall, booted, pc>>

\* start_kernel creates init and kernel_init creates the others.
Creates(p, t) ==
  \/ p = idle_task /\ ~booted /\ t = init
  \/ p = init /\ t # init

\* Mutant: the task that was last is not linked to the new one.
LinkTask_Unlinked(t) ==
  /\ task_next' = [task_next EXCEPT ![t] = idle_task]
  /\ task_prev' = InsertPrev(task_next, task_prev, idle_task, t)

\* A new task joins the task list, at its end.
LinkTask(t) ==
  /\ task_next' = InsertNext(task_next, task_prev, idle_task, t)
  /\ task_prev' = InsertPrev(task_next, task_prev, idle_task, t)

\* The locked part of create_process.  need_resched is not assigned: it is
\* whatever the allocated memory held.
CreateProcess(t) ==
  /\ Running
  /\ t \notin Created /\ Creates(current, t)
  /\ timeslice' = [timeslice EXCEPT ![t] = Slice]
  /\ \E b \in BOOLEAN : need_resched' = [need_resched EXCEPT ![t] = b]
  /\ state' = [state EXCEPT ![t] = "RUNNING"]
  /\ queue' = [queue EXCEPT ![t] = NULL]
  /\ queue_next' = [queue_next EXCEPT ![t] = NULL]
  /\ queue_prev' = [queue_prev EXCEPT ![t] = NULL]
  /\ LinkTask(t)
  /\ LinkRun(t)
  /\ eflags' = [eflags EXCEPT ![t] = NewProcessIF]
  /\ reload' = [reload EXCEPT ![t] = FALSE]
  /\ syscall' = [syscall EXCEPT ![t] = "none"]
  /\ iflag' = (kernel_lock = 0)
  /\ UNCHANGED <<current, first, wt, kernel_lock, booted, pc>>

\* system_idle: the rest of the idle task's life is an empty loop.
SystemIdle ==
  /\ Running /\ current = idle_task
  /\ ~booted /\ init \in Created
  /\ booted' = TRUE
  /\ timeslice' = [timeslice EXCEPT ![current] = 0]
  /\ UNCHANGED <<current, state, need_resched, taskVars, runVars, waitVars, wt,
                 cpuVars, pc>>

\* A system call that only prints, or an unknown one: handle_syscall runs with
\* the lock held and returns like an interrupt.
Syscall ==
  /\ Running /\ current \in Task \ {init} /\ syscall[current] = "none"
  /\ SaveAll(iflag)
  /\ pc' = "ret_from_intr"
  /\ UNCHANGED <<current, state, need_resched, timeslice, taskVars, runVars,
                 waitVars, wt, reload, syscall, booted>>

\* System calls 1 and 12: handle_syscall gives the lock back before getch().
SyscallGetch ==
  /\ Running /\ current \in Task \ {init} /\ syscall[current] = "none"
  /\ syscall' = [syscall EXCEPT ![current] = IF iflag THEN "if_on" ELSE "if_off"]
  /\ iflag' = (kernel_lock = 0)
  /\ UNCHANGED <<current, state, need_resched, timeslice, taskVars, runVars,
                 waitVars, wt, kernel_lock, eflags, reload, booted, pc>>

\* getch() has returned: handle_syscall takes the lock again and returns.
SyscallReturn ==
  /\ Running /\ syscall[current] # "none"
  /\ SaveAll(syscall[current] = "if_on")
  /\ syscall' = [syscall EXCEPT ![current] = "none"]
  /\ pc' = "ret_from_intr"
  /\ UNCHANGED <<current, state, need_resched, timeslice, taskVars, runVars,
                 waitVars, wt, reload, booted>>

\* kernel_init blocks on its own queue when it has created the others; they
\* block in getch, which only handle_syscall calls; the idle task never does.
MayBlock(q) ==
  IF current = init THEN q = block_queue /\ Created = Task
                    ELSE /\ current # idle_task /\ q = keyboard_queue
                         /\ syscall[current] # "none"

\* Mutant: every task that blocks becomes the first of the queue.
Enqueue_AsFirst(q) ==
  /\ first' = [first EXCEPT ![q] = current]
  /\ UNCHANGED <<queue_next, queue_prev>>

\* The current task joins the queue q, at its end.
Enqueue(q) ==
  IF first[q] = NULL
    THEN /\ first' = [first EXCEPT ![q] = current]
         /\ UNCHANGED <<queue_next, queue_prev>>
    ELSE /\ queue_next' = InsertNext(queue_next, queue_prev, first[q], current)
         /\ queue_prev' = InsertPrev(queue_next, queue_prev, first[q], current)
         /\ UNCHANGED first

\* block(): a pretended interrupt, with do_block in place of a handler.
Block(q) ==
  /\ Running /\ MayBlock(q)
  /\ SaveAll(iflag)
  /\ state' = [state EXCEPT ![current] = "INTERRUPTABLE"]
  /\ need_resched' = [need_resched EXCEPT ![current] = TRUE]
  /\ queue' = [queue EXCEPT ![current] = q]
  /\ Enqueue(q)
  /\ pc' = "schedule"
  /\ UNCHANGED <<current, timeslice, taskVars, runVars, wt, reload, syscall, booted>>

-----------------------------------------------------------------------------
Kernel ==
  \/ TimerInt \/ KeyboardInt \/ WakeUp \/ WakeDone
  \/ RetFromIntr \/ Schedule \/ Restore

Next ==
  \/ \E h \in Handler : Interrupt(h)
  \/ Kernel
  \/ LoadFlags \/ LockedCall \/ Printk \/ SystemIdle
  \/ Syscall \/ SyscallGetch \/ SyscallReturn
  \/ \E t \in Task : CreateProcess(t)
  \/ \E q \in Queue : Block(q)

Spec == Init /\ [][Next]_vars

\* Kernel code runs to its end.  The timer's request stays latched in the
\* interrupt controller until an instant with IF set, so it is taken if there
\* are such instants again and again.  Process code that runs with IF clear
\* reaches kalloc or puts: kernel_init calls create_process, perl_main prints.
Fairness ==
  /\ WF_vars(Kernel)
  /\ WF_vars(LoadFlags)
  /\ SF_vars(Interrupt("timer"))
  /\ WF_vars(~iflag /\ LockedCall)

FairSpec == Spec /\ Fairness

-----------------------------------------------------------------------------
(* Properties.                                                             *)

TypeOK ==
  /\ current \in AllTask
  /\ state \in [AllTask -> {"RUNNING", "INTERRUPTABLE"}]
  /\ need_resched \in [AllTask -> BOOLEAN]
  /\ timeslice \in [AllTask -> 0..(Wrap - 1)]
  /\ task_next \in [AllTask -> Link] /\ task_prev \in [AllTask -> Link]
  /\ run_next \in [AllTask -> Link] /\ run_prev \in [AllTask -> Link]
  /\ queue \in [AllTask -> Queue \cup {NULL}]
  /\ queue_next \in [AllTask -> Link] /\ queue_prev \in [AllTask -> Link]
  /\ first \in [Queue -> Link]
  /\ wt \in Link
  /\ kernel_lock \in Nat
  /\ iflag \in BOOLEAN
  /\ eflags \in [AllTask -> BOOLEAN]
  /\ reload \in [AllTask -> BOOLEAN]
  /\ syscall \in [AllTask -> {"none", "if_on", "if_off"}]
  /\ booted \in BOOLEAN
  /\ pc \in Handler \cup {"run", "waking", "ret_from_intr", "schedule", "restore"}

\* The lock counts what it should: process code never holds it when it is
\* resumed, whichever task the switch resumed and however that task had gone
\* to sleep; the interrupt path holds it exactly once, with interrupts off.
\* (start_kernel asserts the first part once, after its set-up.)
LockBalanced ==
  /\ kernel_lock = IF pc = "run" THEN 0 ELSE 1
  /\ pc # "run" => ~iflag

\* The tasks that are on the run list: the runnable ones, idle_task and, from
\* do_block until schedule() unlinks it, the task that is blocking.
OnRunList ==
  Runnable \cup {idle_task} \cup (IF pc = "schedule" THEN {current} ELSE {})

\* The run list is one ring through idle_task and holds exactly the tasks that
\* want the processor; no other task has a link left; the task that has the
\* processor is one of them, and the idle task never blocks.
RunListOK ==
  /\ IsRing(run_next, run_prev, OnRunList, idle_task)
  /\ \A t \in Task \ OnRunList : run_next[t] = NULL /\ run_prev[t] = NULL
  /\ state[idle_task] = "RUNNING"
  /\ current \in Created \cup {idle_task}
  /\ pc # "schedule" => state[current] = "RUNNING"

\* show_tasks(), called from the keyboard interrupt, follows task_next from
\* idle_task until it is back.  From the first create_process on that ends, and
\* has shown every process created so far: the list is one ring through
\* idle_task without a null link.  Before, idle_task itself has the null link
\* it was born with, which show_tasks() would follow.
TaskListOK ==
  IF Created = {}
    THEN task_next[idle_task] = NULL /\ task_prev[idle_task] = NULL
    ELSE /\ Linked(task_next, task_prev, Created \cup {idle_task})
         /\ Connected(task_next, Created \cup {idle_task}, idle_task)

\* What is left of a queue in the middle of wake_up_queue: following
\* queue_next from wt, up to the old first task or a null link, visits every
\* task still blocked on it, once.
IsChain(S, end) ==
  /\ wt = NULL => S = {}
  /\ wt # NULL => wt \in S
  /\ wt # end => end \notin S
  /\ \A x \in S : /\ queue_next[x] \in S \cup {end, NULL}
                  /\ queue_next[x] = wt => wt = end
                  /\ \A y \in S : queue_next[x] = queue_next[y] => x = y
  /\ \A C \in SUBSET S :
       (wt \in C /\ \A x \in C : queue_next[x] \in (S \ {end}) => queue_next[x] \in C)
         => C = S

\* Every wait queue is one ring with exactly the tasks blocked on it (while
\* the keyboard handler wakes it, the chain of those still to be woken), so
\* that a wake-up finds every waiter; no other task has a link left.
WaitQueuesOK ==
  /\ \A q \in Queue :
       IF pc = "waking" /\ q = keyboard_queue
         THEN IsChain(Waiters(q), first[q])
         ELSE IF first[q] = NULL
                THEN Waiters(q) = {}
                ELSE IsRing(queue_next, queue_prev, Waiters(q), first[q])
  /\ \A t \in AllTask : (\A q \in Queue : t \notin Waiters(q)) =>
                          queue_next[t] = NULL /\ queue_prev[t] = NULL

\* The unsigned timeslice is decremented past 0, but only by the interrupt
\* that reschedules the task, and schedule() resets it: the wrapped value does
\* not survive the interrupt, and no process is given 2^32 ticks.
TimesliceBounded ==
  \A t \in AllTask :
    \/ timeslice[t] <= Slice
    \/ /\ t = current /\ need_resched[t] /\ state[t] = "RUNNING"
       /\ pc \in {"ret_from_intr", "schedule"}

\* The inductive invariant: each of the list properties needs the others.
IInv ==
  /\ TypeOK
  /\ LockBalanced
  /\ RunListOK
  /\ TaskListOK
  /\ WaitQueuesOK
  /\ TimesliceBounded

\* schedule() gives the processor to the idle task only when no process wants
\* it, and otherwise to one that does.
IdleIsLast ==
  [][pc = "schedule" => IF Runnable' = {} THEN current' = idle_task
                                          ELSE current' \in Runnable']_vars

\* Round robin under the timer starves nobody: a runnable process runs.
EveryRunnableRuns ==
  \A t \in Task : t \in Runnable ~> current = t

\* create_process: `regs->eflags = 9 << 1; /* bit 9: set=if on */'.  Process
\* code that does not hold the lock runs with interrupts on.
ProcessesInterruptible == Running /\ kernel_lock = 0 => iflag
=============================================================================
