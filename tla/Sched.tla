-------------------------------- MODULE Sched --------------------------------
(***************************************************************************)
(* What kernel/task.c promises, without pointers, locks or interrupts:     *)
(* runnable processes are served in the order of one list, new and woken   *)
(* ones join it at the end, each wait queue is first-in first-out, and a   *)
(* wake-up empties it.                                                     *)
(***************************************************************************)
EXTENDS Integers, Sequences

CONSTANTS Task, Queue, idle_task

VARIABLES
  ready,    \* the processes that can run, in list order
  waiting,  \* queue -> the processes asleep on it, oldest first
  current

vars == <<ready, waiting, current>>

Elements(list) == {list[i] : i \in DOMAIN list}

Asleep == UNION {Elements(waiting[q]) : q \in Queue}

Init ==
  /\ ready = <<>>
  /\ waiting = [q \in Queue |-> <<>>]
  /\ current = idle_task

Position(list, t) == CHOOSE i \in DOMAIN list : list[i] = t

\* Whose turn it is after t: the process behind it on the list, cyclically;
\* the first one if t is not on the list (the idle task); the idle task if
\* the list is empty.
After(list, t) ==
  IF list = <<>> THEN idle_task
  ELSE IF t \in Elements(list) THEN list[(Position(list, t) % Len(list)) + 1]
  ELSE Head(list)

Without(list, t) ==
  LET i == Position(list, t)
  IN  SubSeq(list, 1, i - 1) \o SubSeq(list, i + 1, Len(list))

Create(t) ==
  /\ UNCHANGED current
  /\ ready' = Append(ready, t)
  /\ UNCHANGED waiting
  /\ t \notin Elements(ready) \cup Asleep

Yield ==
  /\ current' = After(ready, current)
  /\ UNCHANGED <<ready, waiting>>

\* The idle task is on no list: it never blocks.
Block(q) ==
  /\ current \in Elements(ready)
  /\ waiting' = [waiting EXCEPT ![q] = Append(@, current)]
  /\ ready' = Without(ready, current)
  /\ LET turn == After(ready, current)
     IN  current' = IF turn = current THEN idle_task ELSE turn

Wake(q) ==
  /\ UNCHANGED current
  /\ ready' = ready \o waiting[q]
  /\ waiting' = [waiting EXCEPT ![q] = <<>>]

Next ==
  \/ \E t \in Task : Create(t)
  \/ Yield
  \/ \E q \in Queue : Block(q) \/ Wake(q)

Spec == Init /\ [][Next]_vars

\* Nobody keeps the processor while somebody else could use it.
Fairness == WF_vars(Yield)
=============================================================================
