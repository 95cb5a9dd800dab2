-------------------------------- MODULE Boot --------------------------------
(***************************************************************************)
(* From power-on to the first process: Loader, or a Multiboot loader in    *)
(* its place, then how much memory there is (memsize in boot/second.S,     *)
(* kernel/setup.c) and how fast the processor is (calibrate_delay in       *)
(* init/main.c with the delay loop of kernel/delay.c).                     *)
(*                                                                         *)
(* The machine's memory and speed are unknown until they are asked for.    *)
(***************************************************************************)
EXTENDS Loader

CONSTANTS
  RamSizes,   \* memory of the machine, in K
  Speeds,     \* delay loops between two ticks of the timer
  FirstBits,  \* loops_per_jiffy starts as 1 << FirstBits (12 in the code)
  LPS_PREC,   \* bits of precision (8 in the code)
  WordBits,   \* bits of an unsigned long (32)
  Latency     \* loops that fit between a tick and the start of a delay, at most

ASSUME BootAssumption ==
  /\ RamSizes \subseteq Nat \ 0..1023 /\ Speeds \subseteq Nat \ {0}
  /\ {FirstBits, LPS_PREC, WordBits, Latency} \subseteq Nat
  /\ FirstBits < WordBits

VARIABLES
  ram, speed,     \* the machine
  memory_end,     \* in K
  loops_per_jiffy, loopbit, lps_precision

startVars == <<ram, speed, memory_end, loops_per_jiffy, loopbit, lps_precision>>
vars == <<loaderVars, startVars>>

Init ==
  /\ LoaderInit
  /\ ram = 0 /\ speed = 0 /\ memory_end = 0
  /\ loops_per_jiffy = 0 /\ loopbit = 0 /\ lps_precision = 0

-----------------------------------------------------------------------------
(* Memory.                                                                 *)

\* 1 << n.
Bit(n) == FoldLeft(LAMBDA p, i : 2 * p, 1, [i \in 1..n |-> i])

\* Bitwise and of two numbers of 20 bits.
Units == <<1, 2, 4, 8, 16, 32, 64, 128, 256, 512, 1024, 2048, 4096, 8192, 16384,
           32768, 65536, 131072, 262144, 524288>>

And(a, b) ==
  FoldLeft(LAMBDA s, u : s + ((a \div u) % 2) * ((b \div u) % 2) * u, 0, Units)

\* The BIOS: K from 1M to 16M, blocks of 64K above 16M, and what the older
\* call says, 64M less 1K at most.
Ax(r) == Least(r, 16384) - 1024
Bx(r) == IF r > 16384 THEN (r - 16384) \div 64 ELSE 0
Old(r) == Least(r - 1024, 65535)

\* MEM_SIZE: `and', of K above 1M and K above 16M.
memsize(r) == And(Bx(r) * 64, Ax(r))

\* Mutant: the megabyte below is shifted along, `((1 << 10) + size) << 10'.
setup_trad_Shifted(size, oldsize) ==
  LET end == 1024 + oldsize
      alt == (1024 + size) * 1024
  IN  IF alt > end THEN alt ELSE end

\* setup_trad: the larger of the two; memory_end is kept in K here.
setup_trad(size, oldsize) ==
  LET end == 1024 + oldsize
      alt == 1024 + size
  IN  IF alt > end THEN alt ELSE end

\* setup_grub: mem_upper, which counts from 1M.
setup_grub(mem_upper) == mem_upper

\* start_kernel up to calibrate_delay; loops_per_jiffy starts anew.
StartKernel(end) ==
  /\ memory_end' = end
  /\ \E s \in Speeds : speed' = s
  /\ loops_per_jiffy' = Bit(FirstBits)
  /\ lps_precision' = LPS_PREC
  /\ pc' = "double"
  /\ UNCHANGED loopbit

\* launch: the old BIOS has only the old call.
Launch ==
  /\ pc = "launch"
  /\ \E r \in RamSizes :
       /\ ram' = r
       /\ \/ StartKernel(setup_trad(memsize(r), Old(r)))
          \/ StartKernel(setup_trad(0, Old(r)))
  /\ UNCHANGED <<image, si, diskVars, bp, addr, map, moff, bsmith_counter, trouble>>

\* A Multiboot loader has put the kernel into memory.
Multiboot ==
  /\ pc = "bootsect" /\ si = 1 /\ second = <<>>
  /\ \E r \in RamSizes : ram' = r /\ StartKernel(setup_grub(r - 1024))
  /\ UNCHANGED <<image, si, diskVars, bp, addr, map, moff, bsmith_counter, trouble>>

-----------------------------------------------------------------------------
(* The delay loop.                                                         *)

Word == Bit(WordBits)

\* How often __loop_delay goes round: it counts down until the sign changes.
__delay(loops) == IF loops <= Word \div 2 THEN loops + 1 ELSE 1

\* Does the timer tick during a delay that starts right after a tick?
Ticks(loops, late) == __delay(loops) + late >= speed

\* One turn of the first loop: twice as long, until a tick comes or the shift
\* leaves nothing.
Double ==
  /\ pc = "double"
  /\ LET n == (loops_per_jiffy * 2) % Word
     IN  \E late \in 0..Latency :
           IF n = 0 \/ Ticks(n, late)
             THEN /\ loops_per_jiffy' = n \div 2
                  /\ loopbit' = n \div 2
                  /\ pc' = "approximate"
             ELSE loops_per_jiffy' = n /\ UNCHANGED <<loopbit, pc>>
  /\ UNCHANGED <<image, si, diskVars, bp, addr, map, moff, bsmith_counter, trouble,
                 ram, speed, memory_end, lps_precision>>

\* Mutant: the bit is kept although the delay was too long.
TryBit_Kept(n, bit, tick) == n + bit

\* loops_per_jiffy |= loopbit, and back if that was too long.
TryBit(n, bit, tick) == IF tick THEN n ELSE n + bit

Approximate ==
  /\ pc = "approximate"
  /\ lps_precision' = lps_precision - 1
  /\ IF lps_precision # 0
       THEN LET bit == loopbit \div 2
            IN  /\ loopbit' = bit
                /\ IF bit = 0
                     THEN pc' = "run" /\ UNCHANGED loops_per_jiffy
                     ELSE /\ \E late \in 0..Latency :
                               loops_per_jiffy' =
                                 TryBit(loops_per_jiffy, bit,
                                        Ticks(loops_per_jiffy + bit, late))
                          /\ UNCHANGED pc
       ELSE pc' = "run" /\ UNCHANGED <<loopbit, loops_per_jiffy>>
  /\ UNCHANGED <<image, si, diskVars, bp, addr, map, moff, bsmith_counter, trouble,
                 ram, speed, memory_end>>

\* The machine is up, or has stopped.
Over == pc \in {"run", "dead"} /\ UNCHANGED vars

StartUp == Launch \/ Double \/ Approximate

Next ==
  \/ LoaderNext /\ UNCHANGED startVars
  \/ Multiboot \/ StartUp \/ Over

\* Code goes on; the boot sector, which tries for ever, is assumed to find a
\* disk that can be read in the end.
Spec ==
  /\ Init /\ [][Next]_vars
  /\ WF_vars((SecondStart \/ SecondStage) /\ UNCHANGED startVars)
  /\ WF_vars(StartUp)
  /\ SF_vars(BootsectRead /\ UNCHANGED startVars)

-----------------------------------------------------------------------------
\* The memory the kernel hands out exists, whichever of the BIOS's answers it
\* believes and whoever loaded it.
MemoryWithinRam == memory_end <= ram

\* `A little better than 1%': on a processor not slower than the first guess,
\* and not too fast for a word, the result is below the true value, by no more
\* than the bits of precision leave open (and the loops lost at a tick).
Calibrated ==
  pc = "run" /\ speed > Bit(FirstBits) /\ speed <= Word \div 2 =>
    /\ loops_per_jiffy < speed
    /\ (speed - loops_per_jiffy - Latency - 2) * Bit(LPS_PREC) <= loops_per_jiffy

\* Whatever the disk does once the second stage runs, booting comes to an end.
BootEnds == <>(pc \in {"run", "dead"})
=============================================================================
