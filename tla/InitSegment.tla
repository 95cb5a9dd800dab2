----------------------------- MODULE InitSegment -----------------------------
(***************************************************************************)
(* The init segment, on top of Task: start_kernel is in it (__initfunc)    *)
(* and runs on as the idle task after it has created init, until it calls  *)
(* system_idle, which is not; kernel_init gives the segment to the         *)
(* allocator before it creates the other processes.                        *)
(***************************************************************************)
EXTENDS Task

VARIABLE init_freed  \* has kernel_init called mem_free(&__init_begin, ...)?

SegmentInit == Init /\ init_freed = FALSE

\* mem_free takes no lock.
FreeInitSegment ==
  /\ Running /\ current = init /\ ~init_freed
  /\ init_freed' = TRUE
  /\ UNCHANGED vars

\* kernel_init creates processes and blocks behind its mem_free.
KernelInit ==
  /\ current = init => init_freed
  /\ \/ \E t \in Task : CreateProcess(t)
     \/ \E q \in Queue : Block(q)
  /\ UNCHANGED init_freed

OtherSteps ==
  /\ \/ \E h \in Handler : Interrupt(h)
     \/ Kernel
     \/ LoadFlags \/ LockedCall \/ Printk \/ SystemIdle
     \/ Syscall \/ SyscallGetch \/ SyscallReturn
  /\ UNCHANGED init_freed

SegmentNext == FreeInitSegment \/ KernelInit \/ OtherSteps
SegmentSpec == SegmentInit /\ [][SegmentNext]_<<vars, init_freed>>

-----------------------------------------------------------------------------
\* start_kernel: `We gracefully enter a sort of idle loop'.  It gets there
\* through code that is still its own: nobody frees the init segment while
\* the idle task executes in it.
StartKernelIntact == init_freed => booted
=============================================================================
