-------------------------------- MODULE Input --------------------------------
(***************************************************************************)
(* Keyboard input: the ring buffer of kernel/keyboard.c, filled by the     *)
(* keyboard interrupt and emptied by getch() on behalf of a process, on    *)
(* top of the processes, queues and interrupts of Task.                    *)
(*                                                                         *)
(* get_buffer() runs with interrupts on and its variables are not          *)
(* volatile, so it is modelled instruction by instruction, and each update *)
(* may use the value in memory or the one still in a register.             *)
(***************************************************************************)
EXTENDS Task

CONSTANTS
  reader,      \* the process that reads the keyboard
  BufferSize,  \* BUFFER_SIZE, 16384 in the code
  MaxKeys      \* bound: characters typed in a behaviour

ASSUME InputAssumption ==
  /\ reader \in Task \ {init}
  /\ BufferSize \in Nat \ {0}
  /\ MaxKeys \in Nat

VARIABLES
  buffer,        \* slot -> the character in it
  buffer_start, buffer_size,
  where,         \* where the reader is in getch()
  r_start, r_size,  \* the values it has loaded into registers
  c,             \* the character it has loaded
  typed,         \* characters typed so far: the n-th one is the number n
  got,           \* the last character getch() returned
  \* What became of the characters, to state NothingLost:
  disturbed,     \* one came in inside get_buffer(), and the ring has not been empty since
  sound,         \* how many at the ring's front were typed before such a one
  lost           \* how many were lost between the last one returned and the front

bufferVars == <<buffer, buffer_start, buffer_size>>
readerVars == <<where, r_start, r_size, c, got>>
historyVars == <<disturbed, sound, lost>>
inputVars  == <<bufferVars, readerVars, typed, historyVars>>
allVars    == <<vars, inputVars>>

Slot == 0..(BufferSize - 1)

InputInit ==
  /\ Init
  /\ buffer = [i \in Slot |-> 0]
  /\ buffer_start = 0 /\ buffer_size = 0
  /\ where = "out"
  /\ r_start = 0 /\ r_size = 0 /\ c = 0
  /\ typed = 0 /\ got = 0
  /\ disturbed = FALSE /\ sound = 0 /\ lost = 0

InGetBuffer == where \in {"read", "start", "size"}

-----------------------------------------------------------------------------
\* The slot behind the last character.
EndSlot == (buffer_start + buffer_size) % BufferSize

\* Mutant: a full ring is not told from one with room.
AddBuffer_NoLimit(ch) ==
  /\ buffer' = [buffer EXCEPT ![EndSlot] = ch]
  /\ buffer_size' = buffer_size + 1
  /\ UNCHANGED buffer_start

\* Mutant: the start stays when the ring is full.
AddBuffer_NoAdvance(ch) ==
  /\ buffer' = [buffer EXCEPT ![EndSlot] = ch]
  /\ buffer_size' = IF buffer_size < BufferSize THEN buffer_size + 1 ELSE buffer_size
  /\ UNCHANGED buffer_start

\* add_buffer: a full ring drops its oldest character.
AddBuffer(ch) ==
  /\ buffer' = [buffer EXCEPT ![EndSlot] = ch]
  /\ IF buffer_size < BufferSize
       THEN buffer_size' = buffer_size + 1 /\ UNCHANGED buffer_start
       ELSE buffer_start' = buffer_start + 1 /\ UNCHANGED buffer_size

\* What a character does to those in front of it: at a full ring the first of
\* them is lost, which the reader does not notice before it has loaded c.
Record ==
  IF buffer_size < BufferSize
    THEN /\ disturbed' = (disturbed \/ InGetBuffer)
         /\ sound' = IF disturbed' THEN sound ELSE sound + 1
         /\ UNCHANGED lost
    ELSE /\ disturbed' = (disturbed \/ where \in {"start", "size"})
         /\ sound' = IF disturbed' /\ sound > 0 THEN sound - 1 ELSE sound
         /\ lost' = lost + 1

\* A key that stands for a character (key_letter without ctrl).
KeyLetter ==
  /\ KeyboardInt
  /\ typed < MaxKeys
  /\ typed' = typed + 1
  /\ AddBuffer(typed + 1)
  /\ Record
  /\ UNCHANGED readerVars

\* Mutant: only a key that stands for a character wakes anybody.
KeyOther_NoWake ==
  /\ pc = "keyboard"
  /\ pc' = "ret_from_intr"
  /\ UNCHANGED <<current, state, need_resched, timeslice, taskVars, runVars,
                 waitVars, wt, cpuVars, booted, inputVars>>

\* Any other key, and every key that is released: the handler wakes the
\* waiting processes all the same.
KeyOther == KeyboardInt /\ UNCHANGED inputVars

-----------------------------------------------------------------------------
\* The reader executes an instruction of getch(), in system call 1 or 12.
AtReader(w) == Running /\ current = reader /\ where = w

Getch ==
  /\ AtReader("out") /\ SyscallGetch
  /\ where' = "check"
  /\ UNCHANGED <<bufferVars, r_start, r_size, c, got, typed, historyVars>>

\* Mutant: the ring is read although it is empty.
GetBufferTest_Dropped ==
  /\ AtReader("check")
  /\ where' = "read" /\ r_size' = buffer_size
  /\ UNCHANGED <<vars, bufferVars, r_start, c, got, typed, historyVars>>

\* `if (buffer_size == 0) return 0', and getch() then blocks.
GetBufferTest ==
  /\ AtReader("check")
  /\ IF buffer_size = 0
       THEN /\ where' = "block"
            /\ disturbed' = FALSE /\ sound' = 0 /\ lost' = typed - got
            /\ UNCHANGED r_size
       ELSE /\ where' = "read"
            /\ r_size' = buffer_size
            /\ UNCHANGED historyVars
  /\ UNCHANGED <<vars, bufferVars, r_start, c, got, typed>>

\* `c = buffer[buffer_start & BUFFER_MASK]'.
GetBufferRead ==
  /\ AtReader("read")
  /\ c' = buffer[buffer_start % BufferSize]
  /\ r_start' = buffer_start
  /\ where' = "start"
  /\ lost' = 0
  /\ UNCHANGED <<vars, bufferVars, r_size, got, typed, disturbed, sound>>

\* `buffer_start++'.  From the register it takes back what was lost to overruns
\* since then; the slots of the second and later ones hold new characters.
GetBufferStart ==
  /\ AtReader("start")
  /\ \E s \in {buffer_start, r_start} :
       /\ buffer_start' = s + 1
       /\ lost' = s - r_start
       /\ sound' = IF s + 1 < buffer_start THEN 0 ELSE sound
  /\ where' = "size"
  /\ UNCHANGED <<vars, buffer, buffer_size, r_start, r_size, c, got, typed, disturbed>>

\* `buffer_size--'; getch() returns the character, or blocks if it is 0.
GetBufferSize ==
  /\ AtReader("size")
  /\ \E n \in {buffer_size, r_size} : buffer_size' = n - 1
  /\ IF c = 0 THEN where' = "block" /\ UNCHANGED got
              ELSE where' = "return" /\ got' = c
  /\ sound' = IF sound > 0 THEN sound - 1 ELSE 0
  /\ UNCHANGED <<vars, buffer, buffer_start, r_start, r_size, c, typed, disturbed, lost>>

GetchBlock ==
  /\ AtReader("block") /\ Block(keyboard_queue)
  /\ where' = "check"
  /\ UNCHANGED <<bufferVars, r_start, r_size, c, got, typed, historyVars>>

GetchReturn ==
  /\ AtReader("return") /\ SyscallReturn
  /\ where' = "out"
  /\ UNCHANGED <<bufferVars, r_start, r_size, c, got, typed, historyVars>>

GetchStep ==
  \/ GetBufferTest \/ GetBufferRead \/ GetBufferStart \/ GetBufferSize
  \/ GetchBlock \/ GetchReturn

\* Everything else Task does, which leaves the input variables alone.
Elsewhere ==
  /\ \/ \E h \in Handler : Interrupt(h)
     \/ TimerInt \/ WakeUp \/ WakeDone \/ RetFromIntr \/ Schedule \/ Restore
     \/ LoadFlags \/ LockedCall \/ Printk \/ SystemIdle \/ Syscall
     \/ \E t \in Task : CreateProcess(t)
     \/ Block(block_queue)
  /\ UNCHANGED inputVars

InputNext == KeyLetter \/ KeyOther \/ Getch \/ GetchStep \/ Elsewhere

InputSpec == InputInit /\ [][InputNext]_allVars

\* The fairness of Task; besides, a process that is given the processor again
\* and again gets through its code, and the keyboard goes on sending codes.
InputFairness ==
  /\ WF_allVars(Kernel /\ InputNext)
  /\ WF_allVars(LoadFlags /\ InputNext)
  /\ SF_allVars(Interrupt("timer") /\ InputNext)
  /\ WF_allVars(~iflag /\ LockedCall /\ InputNext)
  /\ SF_allVars(GetchStep)
  /\ SF_allVars(Interrupt("keyboard") /\ InputNext)

InputFairSpec == InputSpec /\ InputFairness

-----------------------------------------------------------------------------
InputTypeOK ==
  /\ typed \in 0..MaxKeys
  /\ buffer \in [Slot -> 0..typed]
  /\ buffer_start \in Nat /\ buffer_size \in Nat
  /\ where \in {"out", "check", "read", "start", "size", "block", "return"}
  /\ r_start \in Nat /\ r_size \in Nat
  /\ c \in 0..typed /\ got \in 0..typed
  /\ disturbed \in BOOLEAN /\ sound \in Nat /\ lost \in Nat

\* Whatever interrupts get_buffer() where, and whichever registers its stores
\* use, the count stays within the ring: it neither exceeds BUFFER_SIZE nor
\* goes below 0, which as an unsigned value would make garbage readable.
RingBounded == buffer_size \in 0..BufferSize

\* Only a character that comes in inside get_buffer() can be lost, repeated or
\* misplaced, with those typed behind it: those in front of it stay in order and
\* without a gap.  Overruns take the oldest characters, one each.  As long as
\* nothing came in there since the ring was last empty, the ring holds exactly
\* the characters typed and not returned yet, but for those.
NothingLost ==
  ~InGetBuffer =>
    /\ sound <= buffer_size
    /\ \A i \in 0..(sound - 1) :
         buffer[(buffer_start + i) % BufferSize] = got + lost + 1 + i
    /\ ~disturbed => sound = buffer_size /\ typed = got + lost + buffer_size

\* A character in the ring reaches a process that waits for one, even one
\* that went to sleep on a stale test: at the latest the next code from the
\* keyboard, of whatever key, wakes it to test again.  (Stale slots that hold no
\* character yet send it to sleep again until they have been used up.)
ReaderServed ==
  (where \in {"check", "block"} /\ buffer_size > 0)
    ~> (where = "return" \/ buffer_size = 0)

\* do_keyboard_int: `/* wake up sleeping processes */'.  When the handler is
\* done, no process sleeps in getch() although there is a character for it.
NobodySleepsOnInput ==
  pc = "run" /\ reader \in Waiters(keyboard_queue) => buffer_size = 0
=============================================================================
