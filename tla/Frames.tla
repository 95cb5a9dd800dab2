------------------------------- MODULE Frames -------------------------------
(***************************************************************************)
(* The kernel stacks below Input: what the entry and exit code of          *)
(* kernel/entry.S pushes and pops, the pointer current->regs to the        *)
(* registers of an interrupted task, and the system calls of               *)
(* kernel/syscall.c that store their result through it.                    *)
(*                                                                         *)
(* A stack is a sequence of what is on it, the bottom first: the registers *)
(* of an interrupt, of a system call or of a pretended interrupt ("block") *)
(* and what switch_to leaves of a task that does not run.  A pointer into  *)
(* a stack is a position; what is popped leaves the pointer dangling, and  *)
(* what is pushed next is what it then points to.                          *)
(***************************************************************************)
EXTENDS Input, Sequences

VARIABLES
  stack,  \* task -> its kernel stack
  regs,   \* task -> the position its regs field points to, 0 if null
  ebp     \* the register, from ret_from_intr to restore

frameVars == <<stack, regs, ebp>>

Top(s)    == s[Len(s)]
Popped(s) == SubSeq(s, 1, Len(s) - 1)

\* Registers pushed for a reason, with IF as it was; eax has the value of the
\* task's own computation until a system call stores its result.
Registers(kind, if, old) == [kind |-> kind, if |-> if, eax |-> "own", regs |-> old]

FrameInit ==
  /\ InputInit
  /\ stack = [t \in AllTask |-> <<>>]
  /\ regs = [t \in AllTask |-> 0]
  /\ ebp = NULL

-----------------------------------------------------------------------------
(* Entry.                                                                  *)

\* Mutant: the flags are pushed behind the cli of LOCK_KERNEL.
Pushed_BehindCli(kind) ==
  [stack EXCEPT ![current] = Append(@, Registers(kind, FALSE, regs[current]))]

Pushed(kind) ==
  [stack EXCEPT ![current] = Append(@, Registers(kind, iflag, regs[current]))]

\* SAVE_REGS: the old current->regs is pushed, the new one points to the
\* registers that were pushed before it.
SaveRegs == [regs EXCEPT ![current] = Len(stack[current]) + 1]

\* `current->regs->eax = retval' with the stacks s and the pointers p; a
\* pointer that dangles hits nobody's registers.
StoreResult(s, p) ==
  IF p[current] \in DOMAIN s[current]
    THEN [s EXCEPT ![current][p[current]].eax = "result"] ELSE s

EnterInterrupt(h) ==
  /\ Interrupt(h) /\ UNCHANGED inputVars
  /\ stack' = Pushed("interrupt") /\ regs' = SaveRegs
  /\ UNCHANGED ebp

\* handle_syscall for a call that does not sleep.
EnterSyscall ==
  /\ Syscall /\ UNCHANGED inputVars
  /\ regs' = SaveRegs
  /\ stack' = StoreResult(Pushed("syscall"), regs')
  /\ UNCHANGED ebp

\* ... and for one that calls getch().
EnterGetch ==
  /\ Getch
  /\ stack' = Pushed("syscall") /\ regs' = SaveRegs
  /\ UNCHANGED ebp

\* getch() has returned, maybe long after: the result goes where current->regs
\* points by now.
LeaveGetch ==
  /\ GetchReturn
  /\ stack' = StoreResult(stack, regs)
  /\ UNCHANGED <<regs, ebp>>

\* Mutant: block_lowlevel does SAVE_REGS like the other entries.
BlockRegs_Saved == SaveRegs

\* block_lowlevel does not touch current->regs: its exit does not pop it.
BlockRegs == regs

EnterBlock ==
  /\ \/ GetchBlock
     \/ Block(block_queue) /\ UNCHANGED inputVars
  /\ stack' = Pushed("block") /\ regs' = BlockRegs
  /\ UNCHANGED ebp

\* create_process: registers for restore to load, and t->regs points to them.
NewStack(t) ==
  /\ CreateProcess(t) /\ UNCHANGED inputVars
  /\ stack' = [stack EXCEPT ![t] = <<Registers("new", NewProcessIF, 0)>>]
  /\ regs' = [regs EXCEPT ![t] = 1]
  /\ UNCHANGED ebp

-----------------------------------------------------------------------------
(* Exit.                                                                   *)

\* ret_from_intr: `store the old current in ebp'.
LoadEbp ==
  /\ RetFromIntr /\ UNCHANGED inputVars
  /\ ebp' = current
  /\ UNCHANGED <<stack, regs>>

\* switch_to leaves on the old stack what schedule() will return with, ebp
\* among it, and takes it from the new one.  A new process has nothing there:
\* the exchange of ebp with the word for restore makes ebp 0.
SwitchTo ==
  /\ Schedule /\ UNCHANGED <<inputVars, regs>>
  /\ IF current' = current THEN UNCHANGED <<stack, ebp>>
     ELSE LET next == Top(stack[current'])
              left == [kind |-> "switch", ebp |-> ebp]
          IN  /\ ebp' = IF next.kind = "new" THEN NULL ELSE next.ebp
              /\ stack' = [stack EXCEPT
                             ![current] = Append(@, left),
                             ![current'] = IF next.kind = "new" THEN @ ELSE Popped(@)]

\* restore pops the old pointer through ebp, 0x18 into address 0 if that is
\* null; the exit of block_lowlevel does not.
PoppedRegs(top) ==
  IF top.kind = "block" \/ ebp = NULL THEN regs ELSE [regs EXCEPT ![ebp] = top.regs]

\* RESTORE_ALL and iret.
Leave ==
  /\ Restore /\ UNCHANGED inputVars
  /\ regs' = PoppedRegs(Top(stack[current]))
  /\ stack' = [stack EXCEPT ![current] = Popped(@)]
  /\ ebp' = NULL

\* What neither pushes nor pops.
NoFrame ==
  /\ \/ KeyLetter \/ KeyOther
     \/ GetBufferTest \/ GetBufferRead \/ GetBufferStart \/ GetBufferSize
     \/ /\ TimerInt \/ WakeUp \/ WakeDone \/ LoadFlags \/ LockedCall \/ Printk
           \/ SystemIdle
        /\ UNCHANGED inputVars
  /\ UNCHANGED frameVars

FrameNext ==
  \/ \E h \in Handler : EnterInterrupt(h)
  \/ EnterSyscall \/ EnterGetch \/ LeaveGetch \/ EnterBlock
  \/ \E t \in Task : NewStack(t)
  \/ LoadEbp \/ SwitchTo \/ Leave \/ NoFrame

FrameSpec == FrameInit /\ [][FrameNext]_<<allVars, frameVars>>
FrameFairSpec == FrameSpec /\ InputFairness

-----------------------------------------------------------------------------
\* The stack of a task without what switch_to left on it.
Frames(t) ==
  IF stack[t] # <<>> /\ Top(stack[t]).kind = "switch" THEN Popped(stack[t]) ELSE stack[t]

\* Is the task in process code, or else waiting to be resumed in the kernel?
InProcess(t) == t = current /\ pc = "run"

\* What a task has on its stack is what it has entered and not left: whichever
\* task's code took the interrupt, whichever switched, and however the task
\* went to sleep, it is resumed where it was; and the one flag per task that
\* the scheduler model keeps is that of the registers on top.
StackBalanced ==
  \A t \in Created \cup {idle_task} :
    LET inner == IF syscall[t] = "none" THEN 0 ELSE 1
    IN  /\ IF InProcess(t) THEN Len(stack[t]) = inner
           ELSE /\ Len(Frames(t)) = inner + 1
                /\ IF t = current THEN Top(stack[t]).kind # "switch"
                                  ELSE Top(stack[t]).kind \in {"switch", "new"}
                /\ Top(Frames(t)).if = eflags[t]
        /\ inner = 1 => Frames(t)[1].if = (syscall[t] = "if_on")

\* A system call that returns has its result in eax, wherever getch() slept
\* and whatever interrupted it; and no register of interrupted code is ever
\* overwritten with a result.
ResultsInPlace ==
  /\ \A t \in AllTask : \A i \in DOMAIN Frames(t) :
       Frames(t)[i].eax = "result" => Frames(t)[i].kind = "syscall"
  /\ pc \in {"ret_from_intr", "schedule", "restore"} /\ Top(stack[current]).kind = "syscall"
       => Top(stack[current]).eax = "result"
=============================================================================
