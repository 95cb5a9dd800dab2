----------------------------- MODULE Boot_proofs -----------------------------
(***************************************************************************)
(* From the image to the delay loop, for every size of the files build is  *)
(* given, of the machine's memory and of its speed: the loader puts the    *)
(* kernel where it belongs or gives up for a reason, the kernel takes no   *)
(* memory that is not there, and calibrate_delay is as precise as it says. *)
(***************************************************************************)
EXTENDS Boot, SequenceTheorems, TLAPS

-----------------------------------------------------------------------------
(* Powers of two.                                                          *)

\* One turn of Bit.
BitOp(e, p, i) == 2 * p
Positive(e, p) == p \in Nat \ {0}

BitFold == INSTANCE Fold_proofs WITH Op <- BitOp, Good <- Positive

\* A bit is twice the one before.
LEMMA BitValue ==
  /\ Bit(0) = 1
  /\ \A n \in Nat : Bit(n) \in Nat \ {0} /\ Bit(n + 1) = 2 * Bit(n)
<1> DEFINE up(n) == [i \in 1..n |-> i]
<1>1. \A n : Bit(n) = BitFold!Result(0, 1, up(n))
  BY Zenon DEF Bit, BitOp, BitFold!Result, FoldLeft, MapThenFoldSet, Max,
     BitFold!Highest
<1>2. \A n \in Nat : up(n) \in Seq(Int)
  OBVIOUS
<1>3. up(0) = <<>>
  OBVIOUS
<1>4. ASSUME NEW n \in Nat
      PROVE  up(n + 1) = Append(up(n), n + 1)
  OBVIOUS
<1> HIDE DEF up
<1>5. Bit(0) = 1
  BY <1>1, <1>3, BitFold!FoldEmpty
<1>6. ASSUME NEW n \in Nat
      PROVE  Bit(n) \in Nat \ {0}
  <2>1. \A e, p, i : Positive(e, p) /\ i \in Int => Positive(e, BitOp(e, p, i))
    BY DEF Positive, BitOp
  <2>2. Positive(0, 1)
    BY DEF Positive
  <2>3. Positive(0, BitFold!Result(0, 1, up(n)))
    BY <1>2, <2>1, <2>2, BitFold!FoldInvariant
  <2>4. QED
    BY <1>1, <2>3 DEF Positive
<1>7. ASSUME NEW n \in Nat
      PROVE  Bit(n + 1) = 2 * Bit(n)
  <2>1. n + 1 \in Int
    OBVIOUS
  <2>2. BitFold!Result(0, 1, Append(up(n), n + 1)) = BitOp(0, BitFold!Result(0, 1, up(n)), n + 1)
    BY <1>2, <2>1, BitFold!FoldAppend
  <2>3. QED
    BY <1>1, <1>4, <2>2 DEF BitOp
<1>8. QED
  BY <1>5, <1>6, <1>7

\* The bits grow.
LEMMA BitGrows ==
  ASSUME NEW m \in Nat, NEW n \in Nat, m <= n
  PROVE  Bit(m) <= Bit(n)
<1> DEFINE T == {d \in Nat : Bit(m) <= Bit(m + d)}
<1>1. T \subseteq Nat /\ 0 \in T
  BY BitValue
<1>2. ASSUME NEW d \in T
      PROVE  d + 1 \in T
  <2>1. m + d \in Nat /\ m + (d + 1) = m + d + 1
    OBVIOUS
  <2>2. Bit(m + d) \in Nat /\ Bit(m + d + 1) = 2 * Bit(m + d) /\ Bit(m) \in Nat
    BY <2>1, BitValue
  <2>3. Bit(m) <= Bit(m + d)
    OBVIOUS
  <2>4. Bit(m) <= Bit(m + (d + 1))
    BY <2>1, <2>2, <2>3
  <2>5. QED
    BY <2>4
<1>3. Nat \subseteq T
  <2> HIDE DEF T
  <2>1. \A d \in T : d + 1 \in T
    BY <1>2
  <2>2. QED
    BY <1>1, <2>1, BitFold!Induction
<1>4. n - m \in T /\ m + (n - m) = n
  BY <1>3
<1>5. QED
  BY <1>4

-----------------------------------------------------------------------------
(* Memory.                                                                 *)

\* One turn of And; e holds the two numbers.
AndOp(e, s, u) == s + ((e.a \div u) % 2) * ((e.b \div u) % 2) * u

AndFold == INSTANCE Fold_proofs WITH Op <- AndOp, Good <- Positive

\* A number modulo twice m.
LEMMA ModTwice ==
  ASSUME NEW b \in Nat, NEW m \in Nat \ {0}
  PROVE  b % (2 * m) = (b % m) + ((b \div m) % 2) * m
<1> DEFINE q == b \div m
           r == b % m
           h == q \div 2
           d == q % 2
<1>1. q \in Nat /\ r \in 0..(m - 1) /\ b = m * q + r
  OBVIOUS
<1>2. h \in Nat /\ d \in {0, 1} /\ q = 2 * h + d
  BY <1>1
<1> HIDE DEF q, r, h, d
<1>3. d * m \in {0, m}
  BY <1>2
<1>4. m * q = (2 * m) * h + d * m
  BY <1>2
<1>5. r + d * m \in 0..(2 * m - 1) /\ b = (2 * m) * h + (r + d * m)
  <2>1. d * m \in Nat /\ d * m <= m
    BY <1>3
  <2>2. r \in Nat /\ r <= m - 1
    BY <1>1
  <2>3. r + d * m \in 0..(2 * m - 1)
    BY <2>1, <2>2
  <2>4. (2 * m) * h \in Nat
    BY <1>2
  <2>5. QED
    BY <1>1, <1>4, <2>1, <2>2, <2>3, <2>4
<1>6. b % (2 * m) = r + d * m
  <2> DEFINE k == 2 * m  c == r + d * m
  <2>1. k \in Nat \ {0} /\ c \in 0..(k - 1) /\ b = k * h + c
    BY <1>5
  <2> HIDE DEF k, c
  <2>2. b % k = c
    BY <1>2, <2>1
  <2>3. QED
    BY <2>2 DEF k, c
<1>7. QED
  BY <1>6 DEF q, r, h, d

\* `and' gives nothing that is not in its second operand.
LEMMA AndBelow ==
  ASSUME NEW a \in Nat, NEW b \in Nat
  PROVE  And(a, b) \in Nat /\ And(a, b) <= b
<1> DEFINE e == [a |-> a, b |-> b]
<1>1. And(a, b) = AndFold!Result(e, 0, Units)
  BY Zenon DEF And, AndOp, AndFold!Result, FoldLeft, MapThenFoldSet, Max,
     AndFold!Highest
<1>2. e.a = a /\ e.b = b
  OBVIOUS
<1> HIDE DEF e
<1>3. Units \in Seq(Nat) /\ Len(Units) = 20 /\ Units[1] = 1
  BY DEF Units
<1>4. \A k \in 1..19 : Units[k + 1] = 2 * Units[k]
  BY DEF Units
<1>5. \A k \in 1..20 : Units[k] \in Nat \ {0}
  BY DEF Units
<1>6. PICK r : AndFold!IsRun(e, r, 0, Units)
  BY <1>3, AndFold!FoldRun DEF AndFold!HasRun
<1>7. ASSUME NEW k \in 1..20, NEW s \in Nat, s <= b % Units[k]
      PROVE  /\ AndOp(e, s, Units[k]) \in Nat
             /\ AndOp(e, s, Units[k]) <= b % (2 * Units[k])
  <2> DEFINE m == Units[k]
             x == (a \div m) % 2
             y == (b \div m) % 2
  <2>1. m \in Nat \ {0}
    BY <1>5
  <2> HIDE DEF m
  <2>2. x \in {0, 1} /\ y \in {0, 1}
    BY <2>1
  <2>3. b % (2 * m) = (b % m) + y * m
    BY <2>1, ModTwice
  <2> HIDE DEF x, y
  <2>4. x * y * m \in Nat /\ x * y * m <= y * m /\ y * m \in Nat /\ b % m \in Nat
    BY <2>1, <2>2
  <2>5. AndOp(e, s, m) = s + x * y * m
    BY <1>2 DEF AndOp, x, y
  <2>6. s <= b % m
    BY <1>7 DEF m
  <2>7. AndOp(e, s, m) \in Nat /\ AndOp(e, s, m) <= b % (2 * m)
    BY <2>3, <2>4, <2>5, <2>6
  <2>8. QED
    BY <2>7 DEF m
<1> DEFINE T == {k \in Nat : k < 20 => r[k + 1] \in Nat /\ r[k + 1] <= b % (2 * Units[k + 1])}
<1>8. T \subseteq Nat /\ 0 \in T
  <2>1. r[0] = 0 /\ r[1] = AndOp(e, r[0], Units[1])
    <3>1. r[0] = 0 /\ \A k \in 1..20 : r[k] = AndOp(e, r[k - 1], Units[k])
      BY <1>3, <1>6 DEF AndFold!IsRun
    <3>2. 1 \in 1..20 /\ 1 - 1 = 0
      OBVIOUS
    <3>3. QED
      BY <3>1, <3>2
  <2>2. 0 <= b % Units[1]
    BY <1>3
  <2>3. r[1] \in Nat /\ r[1] <= b % (2 * Units[1])
    BY <1>7, <2>1, <2>2
  <2>4. QED
    BY <2>3
<1>9. ASSUME NEW k \in T
      PROVE  k + 1 \in T
  <2> SUFFICES ASSUME k + 1 < 20
               PROVE  r[k + 2] \in Nat /\ r[k + 2] <= b % (2 * Units[k + 2])
    OBVIOUS
  <2>1. /\ k + 1 \in 1..19 /\ k + 2 \in 1..20 /\ k + 2 - 1 = k + 1
        /\ k + 1 + 1 = k + 2
    OBVIOUS
  <2>2. r[k + 1] \in Nat /\ r[k + 1] <= b % (2 * Units[k + 1])
    OBVIOUS
  <2>3. r[k + 2] = AndOp(e, r[k + 1], Units[k + 2])
    <3>1. k + 2 \in 1..Len(Units)
      BY <1>3, <2>1
    <3>2. r[k + 2] = AndOp(e, r[k + 2 - 1], Units[k + 2])
      BY <1>6, <3>1 DEF AndFold!IsRun
    <3>3. QED
      BY <2>1, <3>2, Zenon
  <2>4. Units[k + 2] = 2 * Units[k + 1]
    BY <1>4, <2>1
  <2>5. QED
    BY <1>7, <2>1, <2>2, <2>3, <2>4
<1>10. Nat \subseteq T
  <2> HIDE DEF T
  <2>1. \A k \in T : k + 1 \in T
    BY <1>9
  <2>2. QED
    BY <1>8, <2>1, AndFold!Induction
<1>11. r[20] \in Nat /\ r[20] <= b % (2 * Units[20])
  <2>1. 19 \in T
    BY <1>10
  <2>2. QED
    BY <2>1
<1>12. b % (2 * Units[20]) <= b /\ b % (2 * Units[20]) \in Nat
  <2> DEFINE m == 2 * Units[20]
  <2>1. m \in Nat \ {0}
    BY <1>5
  <2> HIDE DEF m
  <2>2. b % m <= b /\ b % m \in Nat
    BY <2>1
  <2>3. QED
    BY <2>2 DEF m
<1>13. r[20] = And(a, b)
  BY <1>1, <1>3, <1>6 DEF AndFold!IsRun
<1>14. r[20] <= b
  BY <1>11, <1>12
<1>15. QED
  BY <1>11, <1>13, <1>14

\* The loader's steps stay in its own code.
LEMMA LoaderStays ==
  LoaderNext => pc' \in {"bootsect", "loadmap", "load", "sread", "move", "launch", "dead"}
<1> SUFFICES ASSUME LoaderNext
             PROVE  pc' \in {"bootsect", "loadmap", "load", "sread", "move", "launch", "dead"}
  OBVIOUS
<1>1. CASE BootsectRead \/ BootsectError
  BY <1>1 DEF BootsectRead, BootsectError
<1>2. CASE SecondStart
  BY <1>2 DEF SecondStart
<1>3. CASE Int13Retry \/ MapRead \/ MapLost \/ SectorsLost \/ SectorsRead
  BY <1>3 DEF Int13Retry, MapRead, MapLost, SectorsLost, SectorsRead
<1>4. CASE Load
  BY <1>4 DEF Load
<1>5. CASE Move \/ MoveLost
  BY <1>5 DEF Move, MoveLost
<1>6. QED
  BY <1>1, <1>2, <1>3, <1>4, <1>5 DEF LoaderNext, SecondStage

\* No step takes more memory than there is: setup_trad's two values, from the
\* `and' of two answers of the BIOS or from the older one, both end in it.
LEMMA MemoryStep == MemoryWithinRam /\ [Next]_vars => MemoryWithinRam'
<1> SUFFICES ASSUME MemoryWithinRam, [Next]_vars
             PROVE  MemoryWithinRam'
  OBVIOUS
<1>1. ASSUME UNCHANGED <<ram, memory_end>>
      PROVE  MemoryWithinRam'
  BY <1>1 DEF MemoryWithinRam
<1>2. CASE Multiboot
  <2>1. PICK r \in RamSizes : ram' = r /\ memory_end' = r - 1024
    BY <1>2 DEF Multiboot, StartKernel, setup_grub
  <2>2. QED
    BY <2>1, BootAssumption DEF MemoryWithinRam
<1>3. CASE Launch
  <2>1. PICK r \in RamSizes : /\ ram' = r
                              /\ \/ memory_end' = setup_trad(memsize(r), Old(r))
                                 \/ memory_end' = setup_trad(0, Old(r))
    BY <1>3 DEF Launch, StartKernel
  <2>2. r \in Nat /\ r >= 1024
    BY BootAssumption
  <2>3. 1024 + Old(r) <= r /\ Old(r) \in Nat
    BY <2>2 DEF Old, Least
  <2>4. Ax(r) \in Nat /\ 1024 + Ax(r) <= r
    BY <2>2 DEF Ax, Least
  <2>5. Bx(r) * 64 \in Nat
    BY <2>2 DEF Bx
  <2>6. memsize(r) \in Nat /\ memsize(r) <= Ax(r)
    BY <2>4, <2>5, AndBelow DEF memsize
  <2>7. \A size \in Nat : 1024 + size <= r => setup_trad(size, Old(r)) <= r
    BY <2>2, <2>3 DEF setup_trad
  <2>8. memory_end' <= r
    <3>1. 1024 + memsize(r) <= r
      BY <2>2, <2>4, <2>6
    <3>2. setup_trad(memsize(r), Old(r)) <= r /\ setup_trad(0, Old(r)) <= r
      BY <2>2, <2>6, <2>7, <3>1
    <3>3. QED
      BY <2>1, <3>2
  <2>9. QED
    BY <2>1, <2>8 DEF MemoryWithinRam
<1>4. CASE Double \/ Approximate
  BY <1>1, <1>4 DEF Double, Approximate
<1>5. CASE LoaderNext /\ UNCHANGED startVars
  BY <1>1, <1>5 DEF startVars
<1>6. CASE Over \/ UNCHANGED vars
  BY <1>1, <1>6 DEF Over, vars, startVars
<1>7. QED
  BY <1>2, <1>3, <1>4, <1>5, <1>6 DEF Next, StartUp

(* The kernel never takes memory the machine does not have, whichever of   *)
(* the BIOS's answers it believes and whoever loaded it: for every size of *)
(* memory from 1M on.                                                      *)
THEOREM MemoryWithinRamCorrect == Spec => []MemoryWithinRam
<1>1. Init => MemoryWithinRam
  BY DEF Init, MemoryWithinRam
<1>2. QED
  BY <1>1, MemoryStep, PTL DEF Spec

-----------------------------------------------------------------------------
(* The delay loop.                                                         *)

\* The processors that Calibrated is about.
Fit == speed > Bit(FirstBits) /\ speed <= Word \div 2

\* The inductive invariant: what the first loop leaves to the second, and what
\* every turn of the second keeps.  The value is a power of two at first; from
\* then on the last bit tried bounds what is missing.
CalibrateInv ==
  /\ speed \in Nat
  /\ pc = "double" =>
       /\ lps_precision = LPS_PREC
       /\ \E k \in Nat : k < WordBits /\ loops_per_jiffy = Bit(k)
       /\ Fit => loops_per_jiffy < speed
  /\ pc = "approximate" /\ Fit =>
       /\ lps_precision \in 0..LPS_PREC
       /\ \E j \in Nat : loopbit = Bit(j)
       /\ loops_per_jiffy \in Nat /\ loops_per_jiffy < speed
       /\ speed <= loops_per_jiffy + loopbit + 1 + Latency
       /\ loops_per_jiffy + loopbit <= Word \div 2
       /\ loopbit * Bit(LPS_PREC - lps_precision) <= loops_per_jiffy
  /\ Calibrated

\* The numbers of the machine.
LEMMA Numbers ==
  /\ FirstBits \in Nat /\ LPS_PREC \in Nat /\ WordBits \in Nat \ {0} /\ Latency \in Nat
  /\ FirstBits < WordBits /\ Speeds \subseteq Nat \ {0}
  /\ Word \in Nat \ {0} /\ Word \div 2 = Bit(WordBits - 1) /\ Word = 2 * Bit(WordBits - 1)
  /\ Bit(WordBits - 1) \in Nat \ {0}
<1>1. /\ FirstBits \in Nat /\ LPS_PREC \in Nat /\ WordBits \in Nat \ {0} /\ Latency \in Nat
      /\ FirstBits < WordBits /\ Speeds \subseteq Nat \ {0}
  BY BootAssumption
<1>2. WordBits - 1 \in Nat /\ WordBits - 1 + 1 = WordBits
  BY <1>1
<1>3. Bit(WordBits) = 2 * Bit(WordBits - 1) /\ Bit(WordBits - 1) \in Nat \ {0}
  BY <1>2, BitValue
<1>4. QED
  BY <1>1, <1>3 DEF Word

\* start_kernel begins with the first guess.
LEMMA CalibrateStart ==
  ASSUME CalibrateInv, NEW end, StartKernel(end)
  PROVE  CalibrateInv'
<1>1. /\ speed' \in Nat \ {0} /\ pc' = "double" /\ lps_precision' = LPS_PREC
      /\ loops_per_jiffy' = Bit(FirstBits)
  BY Numbers DEF StartKernel
<1>2. Fit' => loops_per_jiffy' < speed'
  BY <1>1, Numbers, BitValue DEF Fit
<1>3. \E k \in Nat : k < WordBits /\ loops_per_jiffy' = Bit(k)
  BY <1>1, Numbers
<1>4. Calibrated'
  BY <1>1 DEF Calibrated
<1>5. QED
  BY <1>1, <1>2, <1>3, <1>4 DEF CalibrateInv

\* A turn of the first loop: the bit is shifted out, or the tick was seen, or
\* the delay was still too short.
LEMMA CalibrateDouble ==
  ASSUME CalibrateInv, Double
  PROVE  CalibrateInv'
<1> DEFINE n == (loops_per_jiffy * 2) % Word
<1>1. PICK k \in Nat : k < WordBits /\ loops_per_jiffy = Bit(k)
  BY DEF CalibrateInv, Double
<1>2. /\ speed \in Nat /\ lps_precision = LPS_PREC /\ pc = "double"
      /\ Fit => loops_per_jiffy < speed
  BY DEF CalibrateInv, Double
<1>3. PICK late \in 0..Latency :
        IF n = 0 \/ Ticks(n, late)
          THEN loops_per_jiffy' = n \div 2 /\ loopbit' = n \div 2 /\ pc' = "approximate"
          ELSE loops_per_jiffy' = n /\ UNCHANGED <<loopbit, pc>>
  BY DEF Double
<1>4. UNCHANGED <<speed, lps_precision>>
  BY DEF Double
<1>5. late \in Nat /\ late <= Latency
  BY Numbers
<1>6. Bit(k + 1) = 2 * Bit(k) /\ Bit(k) \in Nat \ {0} /\ k + 1 \in Nat
  BY BitValue
<1> HIDE DEF n
<1>7. CASE k + 1 = WordBits
  <2>1. n = 0 /\ loops_per_jiffy = Word \div 2
    BY <1>1, <1>6, <1>7, Numbers DEF n
  <2>2. ~Fit
    BY <1>1, <1>2, <1>6, <2>1, Numbers DEF Fit
  <2>3. ~Fit' /\ pc' = "approximate"
    BY <1>3, <1>4, <2>1, <2>2 DEF Fit
  <2>4. QED
    BY <1>2, <1>4, <2>3 DEF CalibrateInv, Calibrated
<1>8. CASE k + 1 < WordBits
  <2>1. Bit(k + 1) <= Word \div 2
    <3>1. k + 1 <= WordBits - 1 /\ WordBits - 1 \in Nat
      BY <1>6, <1>8, Numbers
    <3>2. QED
      BY <1>6, <3>1, BitGrows, Numbers
  <2>2. n = Bit(k + 1) /\ n \in Nat \ {0} /\ n \div 2 = loops_per_jiffy
    BY <1>1, <1>6, <2>1, Numbers DEF n
  <2>3. Ticks(n, late) <=> n + 1 + late >= speed
    BY <1>2, <1>5, <2>1, <2>2 DEF Ticks, __delay
  <2>4. CASE Ticks(n, late)
    <3>1. loops_per_jiffy' = loops_per_jiffy /\ loopbit' = loops_per_jiffy /\ pc' = "approximate"
      BY <1>3, <2>2, <2>4
    <3>2. ASSUME Fit'
          PROVE  /\ lps_precision' \in 0..LPS_PREC
                 /\ \E j \in Nat : loopbit' = Bit(j)
                 /\ loops_per_jiffy' \in Nat /\ loops_per_jiffy' < speed'
                 /\ speed' <= loops_per_jiffy' + loopbit' + 1 + Latency
                 /\ loops_per_jiffy' + loopbit' <= Word \div 2
                 /\ loopbit' * Bit(LPS_PREC - lps_precision') <= loops_per_jiffy'
      <4>1. loops_per_jiffy < speed
        BY <1>2, <1>4, <3>2 DEF Fit
      <4>2. lps_precision' \in 0..LPS_PREC /\ LPS_PREC - lps_precision' = 0
        BY <1>2, <1>4, Numbers
      <4>3. \E j \in Nat : loopbit' = Bit(j)
        BY <1>1, <3>1
      <4>4. loops_per_jiffy \in Nat /\ n = 2 * loops_per_jiffy
        BY <1>1, <1>6, <2>2
      <4>5. speed <= n + 1 + late
        BY <1>2, <1>5, <2>2, <2>3, <2>4
      <4>6. speed' <= loops_per_jiffy' + loopbit' + 1 + Latency
        BY <1>2, <1>4, <1>5, <3>1, <4>4, <4>5, Numbers
      <4>7. loops_per_jiffy' + loopbit' <= Word \div 2
        BY <2>1, <2>2, <3>1, <4>4
      <4>8. loopbit' * Bit(LPS_PREC - lps_precision') <= loops_per_jiffy'
        BY <3>1, <4>2, <4>4, BitValue
      <4>9. QED
        BY <1>4, <3>1, <4>1, <4>2, <4>3, <4>4, <4>6, <4>7, <4>8
    <3>3. QED
      BY <1>2, <1>4, <3>1, <3>2 DEF CalibrateInv, Calibrated
  <2>5. CASE ~Ticks(n, late)
    <3>1. loops_per_jiffy' = n /\ pc' = "double"
      BY <1>2, <1>3, <2>2, <2>5
    <3>2. loops_per_jiffy' < speed'
      BY <1>2, <1>4, <1>5, <2>2, <2>3, <2>5, <3>1
    <3>3. \E i \in Nat : i < WordBits /\ loops_per_jiffy' = Bit(i)
      BY <1>6, <1>8, <2>2, <3>1
    <3>4. QED
      BY <1>2, <1>4, <3>1, <3>2, <3>3 DEF CalibrateInv, Calibrated
  <2>6. QED
    BY <2>4, <2>5
<1>9. QED
  BY <1>1, <1>7, <1>8, Numbers

\* A turn of the second loop: the bit is kept exactly if the delay is still too
\* short with it, so what is missing is less than the bit.
LEMMA CalibrateApproximate ==
  ASSUME CalibrateInv, Approximate
  PROVE  CalibrateInv'
<1>1. /\ speed \in Nat /\ speed' = speed /\ pc = "approximate"
      /\ lps_precision' = lps_precision - 1
  BY DEF CalibrateInv, Approximate
<1>2. pc' \in {"approximate", "run"}
  BY DEF Approximate
<1>3. CASE ~Fit
  <2>1. ~Fit'
    BY <1>1, <1>3 DEF Fit
  <2>2. Calibrated'
    BY <2>1 DEF Calibrated, Fit
  <2>3. QED
    BY <1>1, <1>2, <2>1, <2>2 DEF CalibrateInv
<1>4. CASE Fit
  <2>1. /\ lps_precision \in 0..LPS_PREC
        /\ loops_per_jiffy \in Nat /\ loops_per_jiffy < speed
        /\ speed <= loops_per_jiffy + loopbit + 1 + Latency
        /\ loops_per_jiffy + loopbit <= Word \div 2
        /\ loopbit * Bit(LPS_PREC - lps_precision) <= loops_per_jiffy
    BY <1>1, <1>4 DEF CalibrateInv
  <2>2. PICK j \in Nat : loopbit = Bit(j)
    BY <1>1, <1>4 DEF CalibrateInv
  <2>3. loopbit \in Nat \ {0}
    BY <2>2, BitValue
  <2> DEFINE d == LPS_PREC - lps_precision
  <2>4. d \in 0..LPS_PREC /\ Bit(d) \in Nat \ {0} /\ Bit(d + 1) = 2 * Bit(d)
    BY <2>1, Numbers, BitValue
  <2>5. CASE lps_precision = 0
    <3>1. pc' = "run" /\ loops_per_jiffy' = loops_per_jiffy
      BY <2>5 DEF Approximate
    <3>2. d = LPS_PREC
      BY <2>5, Numbers
    <3>3. loopbit * Bit(LPS_PREC) <= loops_per_jiffy /\ Bit(LPS_PREC) \in Nat
      BY <2>1, <2>4, <3>2
    <3>4. (speed - loops_per_jiffy - Latency - 2) * Bit(LPS_PREC) <= loops_per_jiffy
      <4> DEFINE x == speed - loops_per_jiffy - Latency - 2
                 p == Bit(LPS_PREC)
      <4>1. x \in Int /\ x <= loopbit /\ p \in Nat
        BY <1>1, <2>1, <2>3, <3>3, Numbers
      <4> HIDE DEF x, p
      <4>2. x * p <= loopbit * p
        BY <2>3, <4>1
      <4>3. x * p \in Int /\ loopbit * p \in Int
        BY <2>3, <4>1
      <4>4. loopbit * p <= loops_per_jiffy
        BY <3>3 DEF p
      <4>5. x * p <= loops_per_jiffy
        BY <2>1, <4>2, <4>3, <4>4
      <4>6. QED
        BY <4>5 DEF x, p
    <3>5. Calibrated'
      BY <1>1, <2>1, <3>1, <3>4 DEF Calibrated
    <3>6. QED
      BY <1>1, <3>1, <3>5 DEF CalibrateInv
  <2>6. CASE lps_precision # 0
    <3> DEFINE bit == loopbit \div 2
    <3>1. loopbit' = bit
      BY <2>6 DEF Approximate
    <3>2. CASE bit = 0
      <4>1. pc' = "run" /\ loops_per_jiffy' = loops_per_jiffy
        BY <2>6, <3>2 DEF Approximate
      <4>2. loopbit = 1
        BY <2>3, <3>2
      <4>3. (speed - loops_per_jiffy - Latency - 2) * Bit(LPS_PREC) <= loops_per_jiffy
        <5> DEFINE x == speed - loops_per_jiffy - Latency - 2
                   p == Bit(LPS_PREC)
        <5>1. x \in Int /\ x <= 0 /\ p \in Nat
          <6>1. p \in Nat
            BY Numbers, BitValue
          <6>2. x \in Int /\ x <= 0
            BY <1>1, <2>1, <4>2, Numbers
          <6>3. QED
            BY <6>1, <6>2
        <5> HIDE DEF x, p
        <5>2. x * p <= 0 /\ x * p \in Int
          BY <5>1
        <5>3. x * p <= loops_per_jiffy
          BY <2>1, <5>2
        <5>4. QED
          BY <5>3 DEF x, p
      <4>4. Calibrated'
        BY <1>1, <2>1, <4>1, <4>3 DEF Calibrated
      <4>5. QED
        BY <1>1, <4>1, <4>4 DEF CalibrateInv
    <3>3. CASE bit # 0
      <4>1. PICK late \in 0..Latency :
              loops_per_jiffy' = TryBit(loops_per_jiffy, bit, Ticks(loops_per_jiffy + bit, late))
        BY <2>6, <3>3 DEF Approximate
      <4>2. pc' = "approximate"
        BY <1>1, <2>6, <3>3 DEF Approximate
      <4>3. j # 0
        BY <2>2, <3>3, BitValue
      <4>4. bit = Bit(j - 1) /\ bit \in Nat \ {0} /\ loopbit = 2 * bit /\ j - 1 \in Nat
        <5>1. j - 1 \in Nat /\ j - 1 + 1 = j
          BY <4>3
        <5>2. Bit(j) = 2 * Bit(j - 1) /\ Bit(j - 1) \in Nat \ {0}
          BY <5>1, BitValue
        <5>3. QED
          BY <2>2, <5>1, <5>2
      <4> HIDE DEF bit
      <4>5. Ticks(loops_per_jiffy + bit, late) <=> loops_per_jiffy + bit + 1 + late >= speed
        <5>1. loops_per_jiffy + bit <= Word \div 2
          BY <2>1, <4>4, Numbers
        <5>2. QED
          BY <5>1, Zenon DEF Ticks, __delay
      <4>6. late \in Nat /\ late <= Latency
        BY Numbers
      <4>7. lps_precision' \in 0..LPS_PREC /\ LPS_PREC - lps_precision' = d + 1
        BY <1>1, <2>1, <2>6, Numbers
      <4>8. /\ loops_per_jiffy' \in Nat /\ loops_per_jiffy' < speed
            /\ loops_per_jiffy <= loops_per_jiffy'
            /\ speed <= loops_per_jiffy' + bit + 1 + Latency
            /\ loops_per_jiffy' + bit <= Word \div 2
        <5>1. CASE Ticks(loops_per_jiffy + bit, late)
          <6>1. loops_per_jiffy' = loops_per_jiffy
            BY <4>1, <5>1 DEF TryBit
          <6>2. QED
            BY <1>1, <2>1, <4>4, <4>5, <4>6, <5>1, <6>1, Numbers
        <5>2. CASE ~Ticks(loops_per_jiffy + bit, late)
          <6>1. loops_per_jiffy' = loops_per_jiffy + bit
            BY <4>1, <5>2 DEF TryBit
          <6>2. QED
            BY <1>1, <2>1, <4>4, <4>5, <4>6, <5>2, <6>1, Numbers
        <5>3. QED
          BY <5>1, <5>2
      <4>9. bit * Bit(d + 1) <= loops_per_jiffy
        <5> DEFINE p == Bit(d)
        <5>1. p \in Nat /\ Bit(d + 1) = 2 * p /\ (2 * bit) * p <= loops_per_jiffy
          BY <2>1, <2>4, <4>4
        <5> HIDE DEF p
        <5>2. bit * (2 * p) = (2 * bit) * p
          BY <4>4, <5>1
        <5>3. QED
          BY <5>1, <5>2
      <4>10. bit * Bit(d + 1) <= loops_per_jiffy'
        <5> DEFINE q == bit * Bit(d + 1)
        <5>1. q \in Int /\ q <= loops_per_jiffy
          BY <2>4, <4>4, <4>9
        <5> HIDE DEF q
        <5>2. q <= loops_per_jiffy'
          BY <2>1, <4>8, <5>1
        <5>3. QED
          BY <5>2 DEF q
      <4>11. loopbit' * Bit(LPS_PREC - lps_precision') <= loops_per_jiffy'
        BY <3>1, <4>7, <4>10, Zenon
      <4>12. \E i \in Nat : loopbit' = Bit(i)
        BY <3>1, <4>4
      <4>13. Calibrated'
        BY <4>2 DEF Calibrated
      <4> HIDE DEF d
      <4>14. QED
        BY <1>1, <3>1, <4>2, <4>7, <4>8, <4>11, <4>12, <4>13 DEF CalibrateInv
    <3>4. QED
      BY <3>2, <3>3
  <2>7. QED
    BY <2>5, <2>6
<1>5. QED
  BY <1>3, <1>4

\* No other step touches the delay loop.
LEMMA CalibrateStep == CalibrateInv /\ [Next]_vars => CalibrateInv'
<1> SUFFICES ASSUME CalibrateInv, [Next]_vars
             PROVE  CalibrateInv'
  OBVIOUS
<1>1. CASE Multiboot \/ Launch
  BY <1>1, CalibrateStart DEF Multiboot, Launch
<1>2. CASE Double
  BY <1>2, CalibrateDouble
<1>3. CASE Approximate
  BY <1>3, CalibrateApproximate
<1>4. CASE LoaderNext /\ UNCHANGED startVars
  <2>1. speed' = speed /\ pc' # "double" /\ pc' # "approximate" /\ pc' # "run"
    BY <1>4, LoaderStays DEF startVars
  <2>2. QED
    BY <2>1 DEF CalibrateInv, Calibrated
<1>5. CASE Over \/ UNCHANGED vars
  BY <1>5 DEF Over, vars, startVars, loaderVars, CalibrateInv, Calibrated, Fit
<1>6. QED
  BY <1>1, <1>2, <1>3, <1>4, <1>5 DEF Next, StartUp

(* `A little better than 1%': for every speed from the first guess to half  *)
(* a word, calibrate_delay ends below the true value, by no more than the  *)
(* bits of precision and the loops lost at a tick leave open; the word has *)
(* any number of bits.                                                     *)
THEOREM CalibratedCorrect == Spec => []Calibrated
<1>1. Init => CalibrateInv
  BY DEF Init, LoaderInit, CalibrateInv, Calibrated
<1>2. CalibrateInv => Calibrated
  BY DEF CalibrateInv
<1>3. QED
  BY <1>1, <1>2, CalibrateStep, PTL DEF Spec

-----------------------------------------------------------------------------
(* Addresses.                                                              *)

Rec == [track : Nat, head : 0..(HEADS - 1), sector : 1..SPT, num : Nat]

\* The logical block of an address, and its place in the cylinder.
Lba(a) == (a.track * HEADS + a.head) * SPT + a.sector - 1
Within(a) == SPT * a.head + a.sector - 1

\* The numbers of the disk.
LEMMA Geometry ==
  /\ SPT \in Nat \ {0} /\ SPT > 1 /\ HEADS \in Nat \ {0}
  /\ TRACKS \in Nat \ {0} /\ CHUNKS \in Nat \ {0}
  /\ SectorSize \in Nat \ {0} /\ MapSectors = 2
  /\ HEADS * SPT \in Nat \ {0} /\ HEADS * SPT <= CHUNKS
  /\ BsmithCounter > TRACKS + 1
<1>1. /\ SPT \in Nat \ {0} /\ SPT > 1 /\ HEADS \in Nat \ {0}
      /\ TRACKS \in Nat \ {0} /\ CHUNKS \in Nat \ {0}
  BY LoaderAssumption
<1>2. HEADS * SPT \in Nat \ {0}
  BY <1>1
<1>3. QED
  BY <1>1, <1>2, LoaderAssumption DEF MapSectors

\* A place in a cylinder, and the cylinders before it.
LEMMA Cylinder ==
  ASSUME NEW a \in Rec
  PROVE  /\ Within(a) \in 0..(HEADS * SPT - 1)
         /\ Lba(a) = a.track * (HEADS * SPT) + Within(a)
         /\ Lba(a) \in Nat
<1> DEFINE t == a.track  h == a.head  s == a.sector
<1>1. t \in Nat /\ h \in 0..(HEADS - 1) /\ s \in 1..SPT
  BY DEF Rec
<1> HIDE DEF t, h, s
<1>2. h + 1 <= HEADS /\ SPT * (h + 1) = SPT * h + SPT
  BY <1>1, Geometry
<1>3. SPT * (h + 1) <= SPT * HEADS
  BY <1>1, <1>2, Geometry
<1>4. SPT * HEADS = HEADS * SPT
  BY Geometry
<1>5. SPT * h \in Nat
  BY <1>1, Geometry
<1>6. SPT * h + s - 1 \in 0..(HEADS * SPT - 1)
  BY <1>1, <1>2, <1>3, <1>4, <1>5, Geometry
<1>7. (t * HEADS + h) * SPT = t * (HEADS * SPT) + SPT * h
  BY <1>1, Geometry
<1>8. t * (HEADS * SPT) \in Nat
  BY <1>1, Geometry
<1>9. (t * HEADS + h) * SPT + s - 1 = t * (HEADS * SPT) + (SPT * h + s - 1)
  <2> DEFINE x == (t * HEADS + h) * SPT  y == t * (HEADS * SPT)  z == SPT * h
  <2>1. x = y + z /\ y \in Int /\ z \in Int /\ s \in Int
    BY <1>1, <1>5, <1>7, <1>8
  <2> HIDE DEF x, y, z
  <2>2. x + s - 1 = y + (z + s - 1)
    BY <2>1
  <2>3. QED
    BY <2>2 DEF x, y, z
<1>10. QED
  BY <1>6, <1>8, <1>9 DEF Lba, Within, t, h, s

\* inc_sector, the `cheat' with sectors that count from 1: the address is
\* valid, and as many blocks further on as it was asked for.
LEMMA IncSector ==
  ASSUME NEW a \in Rec, NEW n \in Nat
  PROVE  /\ inc_sector(a, n) \in Rec
         /\ Lba(inc_sector(a, n)) = Lba(a) + n
<1> DEFINE t == a.track  h == a.head  s == a.sector + n
           q == (s - 1) \div SPT  p == (s - 1) % SPT
           g == h + q
           u == g \div HEADS  v == g % HEADS
<1>1. t \in Nat /\ h \in 0..(HEADS - 1) /\ a.sector \in 1..SPT /\ s \in Nat \ {0}
  BY DEF Rec
<1>2. CASE s <= SPT
  <2>1. inc_sector(a, n) = [a EXCEPT !.sector = s]
    BY <1>2 DEF inc_sector
  <2>2. s \in 1..SPT
    BY <1>1, <1>2, Geometry
  <2> HIDE DEF t, h
  <2> DEFINE b == [a EXCEPT !.sector = s]
  <2>3. b \in Rec /\ b.track = t /\ b.head = h /\ b.sector = s
    BY <2>2 DEF Rec, t, h
  <2> HIDE DEF b, s
  <2>4. Lba(b) = (t * HEADS + h) * SPT + s - 1
    BY <2>3 DEF Lba
  <2>5. Lba(a) = (t * HEADS + h) * SPT + a.sector - 1
    BY DEF Lba, t, h
  <2>6. (t * HEADS + h) * SPT \in Nat
    BY <1>1, Geometry
  <2>7. s = a.sector + n
    BY DEF s
  <2> DEFINE x == (t * HEADS + h) * SPT
  <2> HIDE DEF x
  <2>8. x + s - 1 = x + a.sector - 1 + n
    BY <1>1, <2>6, <2>7 DEF x
  <2>9. QED
    BY <2>1, <2>3, <2>4, <2>5, <2>8 DEF b, x
<1>3. CASE ~(s <= SPT)
  <2> DEFINE b == [a EXCEPT !.sector = p + 1, !.head = v, !.track = t + u]
  <2>1. inc_sector(a, n) = b
    BY <1>3, Zenon DEF inc_sector
  <2>2. q \in Nat /\ p \in 0..(SPT - 1) /\ s - 1 = SPT * q + p
    <3> DEFINE m == s - 1
    <3>1. m \in Nat
      BY <1>1
    <3> HIDE DEF m
    <3>2. m \div SPT \in Nat /\ m % SPT \in 0..(SPT - 1) /\ m = SPT * (m \div SPT) + (m % SPT)
      BY <3>1, Geometry
    <3>3. QED
      BY <3>2 DEF m
  <2>3. g \in Nat
    BY <1>1, <2>2
  <2>4. u \in Nat /\ v \in 0..(HEADS - 1) /\ g = HEADS * u + v
    <3> HIDE DEF g
    <3>1. QED
      BY <2>3, Geometry
  <2>5. p + 1 \in 1..SPT /\ t + u \in Nat
    <3>1. t \in Nat
      BY <1>1
    <3> HIDE DEF t, p, q, u, v, s, h, g
    <3>2. QED
      BY <3>1, <2>2, <2>4, Geometry
  <2> HIDE DEF t, p, q, u, v, s, h
  <2>6. b \in Rec /\ b.track = t + u /\ b.head = v /\ b.sector = p + 1
    <3> DEFINE b1 == [a EXCEPT !.sector = p + 1]
               b2 == [b1 EXCEPT !.head = v]
    <3>1. b1 \in Rec /\ b1.track = a.track /\ b1.sector = p + 1
      BY <2>5 DEF Rec
    <3> HIDE DEF b1
    <3>2. b2 \in Rec /\ b2.track = a.track /\ b2.sector = p + 1 /\ b2.head = v
      BY <2>4, <3>1 DEF Rec
    <3> HIDE DEF b2
    <3>3. [b2 EXCEPT !.track = t + u] \in Rec
      BY <2>5, <3>2 DEF Rec
    <3>4. /\ [b2 EXCEPT !.track = t + u].track = t + u
          /\ [b2 EXCEPT !.track = t + u].head = v
          /\ [b2 EXCEPT !.track = t + u].sector = p + 1
      BY <3>2 DEF Rec
    <3>5. QED
      BY <3>3, <3>4 DEF b1, b2
  <2>7. Lba(b) = ((t + u) * HEADS + v) * SPT + (p + 1) - 1
    BY <2>6, Zenon DEF Lba
  <2>8. Lba(a) = (t * HEADS + h) * SPT + a.sector - 1
    BY DEF Lba, t, h
  <2>9. ((t + u) * HEADS + v) * SPT = (t * HEADS + h) * SPT + SPT * q
    <3>1. (t + u) * HEADS + v = t * HEADS + (h + q)
      <4>1. (t + u) * HEADS = t * HEADS + HEADS * u
        BY <1>1, <2>4, Geometry
      <4>2. t * HEADS \in Nat /\ HEADS * u \in Nat
        BY <1>1, <2>4, Geometry
      <4>3. h + q = HEADS * u + v
        BY <2>4 DEF g
      <4>4. QED
        BY <1>1, <2>2, <2>4, <4>1, <4>2, <4>3
    <3> DEFINE x == t * HEADS
    <3>2. x \in Nat
      BY <1>1, Geometry
    <3> HIDE DEF x
    <3>3. (x + (h + q)) * SPT = (x + h) * SPT + SPT * q
      BY <1>1, <2>2, <3>2, Geometry
    <3>4. QED
      BY <3>1, <3>3 DEF x
  <2>10. (t * HEADS + h) * SPT \in Nat /\ SPT * q \in Nat
    BY <1>1, <2>2, Geometry
  <2>11. s = a.sector + n
    BY DEF s
  <2> DEFINE x == (t * HEADS + h) * SPT  y == SPT * q
  <2>12. x \in Nat /\ y \in Nat /\ s - 1 = y + p
    BY <2>2, <2>10
  <2> HIDE DEF x, y
  <2>13. x + y + (p + 1) - 1 = x + a.sector - 1 + n
    BY <1>1, <2>2, <2>11, <2>12
  <2>14. Lba(b) = x + y + (p + 1) - 1
    BY <2>7, <2>9 DEF x, y
  <2>15. Lba(a) = x + a.sector - 1
    BY <2>8 DEF x
  <2> HIDE DEF b
  <2>16. Lba(b) = Lba(a) + n
    BY <2>13, <2>14, <2>15, Zenon
  <2>17. QED
    BY <2>1, <2>6, <2>16, Zenon
<1>4. QED
  BY <1>2, <1>3

-----------------------------------------------------------------------------
(* The records build writes.                                               *)

\* One turn of Patch; e holds the part and how many sectors it has.
PatchStep(part, n, s) ==
  LET chunk == IF part = "kernel" THEN KernelChunk(s.next) ELSE SecondChunk
      num == Least(n - s.i, chunk)
  IN  IF s.i >= n THEN s
      ELSE [next |-> inc_sector(s.next, num),
            i    |-> s.i + chunk,
            recs |-> Append(s.recs, [s.next EXCEPT !.num = num])]

PatchOp(e, s, k) == PatchStep(e.part, e.n, s)

PatchFold == INSTANCE Fold_proofs WITH Op <- PatchOp, Good <- Positive

Begin(from) == [next |-> from, i |-> 0, recs |-> <<>>]

\* r is what Patch has after every turn.
PatchRuns(r, part, from, n) ==
  /\ r[0] = Begin(from)
  /\ \A k \in 1..n : r[k] = PatchStep(part, n, r[k - 1])
  /\ Patch(part, from, n) = r[n]

\* Patch is the last value of such a run.
LEMMA PatchRun ==
  ASSUME NEW part, NEW from, NEW n \in Nat
  PROVE  \E r : PatchRuns(r, part, from, n)
<1> DEFINE e == [part |-> part, n |-> n]
           up == [k \in 1..n |-> k]
<1>1. e.part = part /\ e.n = n
  OBVIOUS
<1>2. up \in Seq(Int) /\ Len(up) = n /\ \A k \in 1..n : up[k] = k
  OBVIOUS
<1>3. Patch(part, from, n) =
        FoldLeft(LAMBDA s, k : PatchStep(part, n, s), Begin(from), up)
  BY Zenon DEF Patch, PatchStep, Begin
<1>4. FoldLeft(LAMBDA s, k : PatchStep(part, n, s), Begin(from), up) =
        FoldLeft(LAMBDA s, k : PatchStep(e.part, e.n, s), Begin(from), up)
  <2> HIDE DEF up, e
  <2>1. QED
    BY <1>1, SMT
<1> HIDE DEF e, up
<1>5. FoldLeft(LAMBDA s, k : PatchStep(e.part, e.n, s), Begin(from), up)
        = PatchFold!Result(e, Begin(from), up)
  BY Zenon DEF PatchOp, PatchFold!Result, FoldLeft, MapThenFoldSet, Max,
     PatchFold!Highest
<1>6. PICK r : PatchFold!IsRun(e, r, Begin(from), up)
  BY <1>2, PatchFold!FoldRun DEF PatchFold!HasRun
<1>7. r[0] = Begin(from) /\ r[n] = PatchFold!Result(e, Begin(from), up)
  BY <1>2, <1>6 DEF PatchFold!IsRun
<1>8. ASSUME NEW k \in 1..n
      PROVE  r[k] = PatchStep(part, n, r[k - 1])
  <2>1. r[k] = PatchOp(e, r[k - 1], up[k])
    BY <1>2, <1>6 DEF PatchFold!IsRun
  <2>2. QED
    BY <1>1, <2>1, Zenon DEF PatchOp
<1>9. QED
  BY <1>3, <1>4, <1>5, <1>7, <1>8, Zenon DEF PatchRuns

\* The second stage is one record.
LEMMA PatchSecond ==
  ASSUME NEW from, NEW n \in Nat \ {0}, n <= CHUNKS
  PROVE  /\ Patch("second", from, n).next = inc_sector(from, n)
         /\ Patch("second", from, n).recs = <<[from EXCEPT !.num = n]>>
<1> DEFINE f == [next |-> inc_sector(from, n), i |-> CHUNKS,
                 recs |-> <<[from EXCEPT !.num = n]>>]
<1>1. PICK r : PatchRuns(r, "second", from, n)
  BY PatchRun
<1>2. PatchStep("second", n, Begin(from)) = f
  <2> DEFINE b == Begin(from)
  <2>1. b.next = from /\ b.i = 0 /\ b.recs = <<>>
    BY DEF Begin
  <2> HIDE DEF b
  <2>2. Least(n - 0, CHUNKS) = n /\ ~(0 >= n) /\ 0 + CHUNKS = CHUNKS
    BY Geometry DEF Least
  <2>3. Append(<<>>, [from EXCEPT !.num = n]) = <<[from EXCEPT !.num = n]>>
    OBVIOUS
  <2>4. "second" # "kernel"
    OBVIOUS
  <2>5. PatchStep("second", n, b) = f
    BY <2>1, <2>2, <2>3, <2>4, Zenon DEF PatchStep, SecondChunk
  <2>6. QED
    BY <2>5 DEF b
<1>3. PatchStep("second", n, f) = f
  <2>1. f.i = CHUNKS /\ CHUNKS >= n
    BY Geometry
  <2> HIDE DEF f
  <2>2. QED
    BY <2>1, Zenon DEF PatchStep
<1> DEFINE T == {k \in Nat : k < n => r[k + 1] = f}
<1> HIDE DEF f
<1>4. T \subseteq Nat /\ 0 \in T
  <2>1. 1 \in 1..n /\ 1 - 1 = 0
    OBVIOUS
  <2>2. r[1] = PatchStep("second", n, r[1 - 1])
    BY <1>1, <2>1 DEF PatchRuns
  <2>3. r[0] = Begin(from)
    BY <1>1 DEF PatchRuns
  <2>4. r[1] = f
    BY <1>2, <2>1, <2>2, <2>3, Zenon
  <2>5. QED
    BY <2>4
<1>5. ASSUME NEW k \in T
      PROVE  k + 1 \in T
  <2> SUFFICES ASSUME k + 1 < n
               PROVE  r[k + 1 + 1] = f
    OBVIOUS
  <2>1. k + 1 + 1 \in 1..n /\ k + 1 + 1 - 1 = k + 1 /\ r[k + 1] = f
    OBVIOUS
  <2>2. r[k + 1 + 1] = PatchStep("second", n, r[k + 1 + 1 - 1])
    BY <1>1, <2>1 DEF PatchRuns
  <2>3. QED
    BY <1>3, <2>1, <2>2, Zenon
<1>6. Nat \subseteq T
  <2> HIDE DEF T
  <2>1. \A k \in T : k + 1 \in T
    BY <1>5
  <2>2. QED
    BY <1>4, <2>1, PatchFold!Induction
<1>7. r[n] = f
  <2>1. n - 1 \in T /\ n - 1 + 1 = n
    BY <1>6
  <2>2. QED
    BY <2>1
<1>8. Patch("second", from, n) = f
  BY <1>1, <1>7, Zenon DEF PatchRuns
<1>9. QED
  BY <1>8 DEF f

\* Where the j-th of the records begins, the one behind the last included, if
\* they follow one another from l on.
Start(recs, l, j) == IF j = 1 THEN l ELSE Lba(recs[j - 1]) + recs[j - 1].num

\* The records follow one another, none leaves its cylinder, and they need no
\* more of them than there are cylinders.
Chained(recs, l) ==
  /\ recs \in Seq(Rec)
  /\ \A j \in 1..Len(recs) :
       /\ Lba(recs[j]) = Start(recs, l, j)
       /\ Within(recs[j]) + recs[j].num <= HEADS * SPT
       /\ recs[j].track >= j - 1

\* What holds at every turn for the records of a kernel of n sectors from l on.
PatchGood(l, n, s) ==
  /\ s.next \in Rec /\ s.i \in Nat
  /\ Chained(s.recs, l)
  /\ Lba(s.next) = l + Least(s.i, n)
  /\ Start(s.recs, l, Len(s.recs) + 1) = Lba(s.next)
  /\ s.i < n => s.next.track >= Len(s.recs)

\* A chunk of the kernel is the rest of the cylinder.
LEMMA ChunkIsRest ==
  ASSUME NEW a \in Rec
  PROVE  /\ KernelChunk(a) = HEADS * SPT - Within(a)
         /\ KernelChunk(a) \in Nat \ {0}
<1> DEFINE C == HEADS * SPT  x == SPT * a.head
<1>1. C \in Nat \ {0} /\ C <= CHUNKS /\ CHUNKS \in Nat
  BY Geometry
<1>2. x \in Nat /\ a.sector \in Nat
  BY Geometry DEF Rec
<1>3. Within(a) \in 0..(C - 1) /\ Within(a) = x + a.sector - 1
  BY Cylinder DEF Within
<1>4. KernelChunk(a) = Least(C - (x + a.sector) + 1, CHUNKS)
  BY DEF KernelChunk
<1> HIDE DEF C, x
<1>5. C - (x + a.sector) + 1 = C - Within(a) /\ C - Within(a) <= CHUNKS
      /\ C - Within(a) \in Nat \ {0}
  BY <1>1, <1>2, <1>3
<1>6. Least(C - Within(a), CHUNKS) = C - Within(a)
  BY <1>1, <1>5 DEF Least
<1>7. KernelChunk(a) = C - Within(a)
  BY <1>4, <1>5, <1>6
<1>8. QED
  BY <1>5, <1>7 DEF C

\* Past the end of its cylinder, an address is on a later one.
LEMMA NextCylinder ==
  ASSUME NEW a \in Rec
  PROVE  inc_sector(a, HEADS * SPT - Within(a)).track >= a.track + 1
<1> DEFINE C == HEADS * SPT  w == Within(a)  b == inc_sector(a, C - w)
<1>1. C \in Nat \ {0} /\ w \in 0..(C - 1) /\ Lba(a) = a.track * C + w
  BY Geometry, Cylinder
<1>2. a.track \in Nat
  BY DEF Rec
<1> HIDE DEF C, w
<1>3. C - w \in Nat
  BY <1>1
<1>4. b \in Rec /\ Lba(b) = Lba(a) + (C - w)
  BY <1>3, IncSector
<1> HIDE DEF b
<1>5. b.track \in Nat /\ Within(b) \in 0..(C - 1) /\ Lba(b) = b.track * C + Within(b)
  BY <1>4, Cylinder DEF Rec, C
<1> DEFINE t == a.track  u == b.track
<1>6. t \in Nat /\ u \in Nat
  BY <1>2, <1>5
<1>7. u * C + Within(b) = t * C + C
  <2> DEFINE x == t * C
  <2>1. x \in Nat
    BY <1>1, <1>6
  <2>2. Lba(a) = x + w /\ Lba(b) = u * C + Within(b)
    BY <1>1, <1>5
  <2> HIDE DEF x
  <2>3. x + w + (C - w) = x + C
    BY <1>1, <2>1
  <2>4. QED
    BY <1>4, <2>2, <2>3 DEF x
<1> HIDE DEF t, u
<1>8. ASSUME u <= t
      PROVE  FALSE
  <2>1. u * C <= t * C
    BY <1>1, <1>6, <1>8
  <2> DEFINE x == t * C  y == u * C
  <2>2. x \in Nat /\ y \in Nat /\ y <= x /\ y + Within(b) = x + C
    BY <1>1, <1>6, <1>7, <2>1
  <2> HIDE DEF x, y
  <2>3. QED
    BY <1>1, <1>5, <2>2
<1>9. u >= t + 1
  BY <1>6, <1>8
<1>10. QED
  BY <1>9 DEF b, t, u, C, w

\* Another record behind them.
LEMMA ChainGrows ==
  ASSUME NEW l \in Nat, NEW recs, NEW a \in Rec, Chained(recs, l),
         Lba(a) = Start(recs, l, Len(recs) + 1),
         Within(a) + a.num <= HEADS * SPT, a.track >= Len(recs)
  PROVE  /\ Chained(Append(recs, a), l)
         /\ Len(Append(recs, a)) = Len(recs) + 1
         /\ Start(Append(recs, a), l, Len(recs) + 2) = Lba(a) + a.num
<1> DEFINE m == Len(recs)  more == Append(recs, a)
<1>1. recs \in Seq(Rec) /\ m \in Nat
  BY DEF Chained
<1>2. /\ more \in Seq(Rec) /\ Len(more) = m + 1
      /\ \A j \in 1..m : more[j] = recs[j]
      /\ more[m + 1] = a
  BY <1>1
<1> HIDE DEF m, more
<1>3. ASSUME NEW j \in 1..(m + 1)
      PROVE  Start(more, l, j) = Start(recs, l, j)
  <2>1. CASE j = 1
    BY <2>1 DEF Start
  <2>2. CASE j # 1
    <3>1. j - 1 \in 1..m
      BY <1>1, <2>2
    <3>2. more[j - 1] = recs[j - 1]
      BY <1>2, <3>1
    <3>3. QED
      BY <3>2, Zenon DEF Start
  <2>3. QED
    BY <2>1, <2>2
<1>4. ASSUME NEW j \in 1..(m + 1)
      PROVE  /\ Lba(more[j]) = Start(more, l, j)
             /\ Within(more[j]) + more[j].num <= HEADS * SPT
             /\ more[j].track >= j - 1
  <2>1. CASE j = m + 1
    <3>1. j - 1 = m
      BY <1>1, <2>1
    <3>2. more[j] = a /\ Start(more, l, j) = Start(recs, l, m + 1)
      BY <1>2, <1>3, <2>1
    <3>3. Lba(a) = Start(recs, l, m + 1) /\ a.track >= m
      BY DEF m
    <3>4. a.track >= j - 1
      BY <3>1, <3>3, Zenon
    <3>5. Lba(more[j]) = Start(more, l, j)
      BY <3>2, <3>3, Zenon
    <3>6. QED
      BY <3>2, <3>4, <3>5
  <2>2. CASE j # m + 1
    <3>1. j \in 1..m
      BY <1>1, <2>2
    <3>2. more[j] = recs[j] /\ Start(more, l, j) = Start(recs, l, j)
      BY <1>2, <1>3, <3>1
    <3>3. /\ Lba(recs[j]) = Start(recs, l, j)
          /\ Within(recs[j]) + recs[j].num <= HEADS * SPT
          /\ recs[j].track >= j - 1
      BY <3>1 DEF Chained, m
    <3>4. QED
      BY <3>2, <3>3, Zenon
  <2>3. QED
    BY <2>1, <2>2
<1>5. Chained(more, l)
  BY <1>2, <1>4 DEF Chained
<1>6. Start(more, l, m + 2) = Lba(a) + a.num
  <2>1. m + 2 # 1 /\ (m + 2) - 1 = m + 1
    BY <1>1
  <2>2. more[(m + 2) - 1] = a
    BY <1>2, <2>1, Zenon
  <2>3. Start(more, l, m + 2) = Lba(more[(m + 2) - 1]) + more[(m + 2) - 1].num
    BY <2>1, Zenon DEF Start
  <2>4. QED
    BY <2>2, <2>3, Zenon
<1>7. QED
  BY <1>2, <1>5, <1>6 DEF m, more

\* A turn of Patch writes a record that ends with its cylinder, if not before.
LEMMA PatchTurn ==
  ASSUME NEW l \in Nat, NEW n \in Nat, NEW s, PatchGood(l, n, s)
  PROVE  /\ PatchGood(l, n, PatchStep("kernel", n, s))
         /\ s.i < n => PatchStep("kernel", n, s).i >= s.i + 1
         /\ ~(s.i < n) => PatchStep("kernel", n, s) = s
<1>1. /\ s.next \in Rec /\ s.i \in Nat
      /\ Chained(s.recs, l)
      /\ Lba(s.next) = l + Least(s.i, n)
      /\ Start(s.recs, l, Len(s.recs) + 1) = Lba(s.next)
      /\ s.i < n => s.next.track >= Len(s.recs)
  BY DEF PatchGood
<1>2. CASE ~(s.i < n)
  <2>1. s.i >= n
    BY <1>1, <1>2
  <2>2. PatchStep("kernel", n, s) = s
    BY <2>1, Zenon DEF PatchStep
  <2>3. QED
    BY <1>2, <2>2
<1>3. CASE s.i < n
  <2> DEFINE chunk == KernelChunk(s.next)
             num == Least(n - s.i, chunk)
             a == [s.next EXCEPT !.num = num]
             next == inc_sector(s.next, num)
             t == PatchStep("kernel", n, s)
  <2>1. t.next = next /\ t.i = s.i + chunk /\ t.recs = Append(s.recs, a)
    <3>1. ~(s.i >= n)
      BY <1>1, <1>3
    <3>2. t = [next |-> next, i |-> s.i + chunk, recs |-> Append(s.recs, a)]
      BY <3>1, Zenon DEF PatchStep
    <3> HIDE DEF t, next, chunk, a
    <3>3. QED
      BY <3>2
  <2>2. chunk = HEADS * SPT - Within(s.next) /\ chunk \in Nat \ {0}
    BY <1>1, ChunkIsRest
  <2>3. num \in Nat /\ num <= chunk /\ num <= n - s.i
    <3> HIDE DEF chunk
    <3>1. QED
      BY <1>1, <1>3, <2>2 DEF Least
  <2>4. Lba(next) = Lba(s.next) + num /\ next \in Rec
    <3> HIDE DEF num
    <3>1. QED
      BY <1>1, <2>3, IncSector
  <2>5. a \in Rec /\ Lba(a) = Lba(s.next) /\ Within(a) = Within(s.next)
        /\ a.num = num /\ a.track = s.next.track
    <3> HIDE DEF num
    <3>1. a \in Rec /\ a.num = num /\ a.track = s.next.track /\ a.head = s.next.head
          /\ a.sector = s.next.sector
      BY <1>1, <2>3 DEF Rec
    <3> HIDE DEF a
    <3>2. QED
      BY <3>1, Zenon DEF Lba, Within
  <2>6. Within(s.next) \in Nat /\ Lba(s.next) \in Nat
    BY <1>1, Cylinder
  <2> HIDE DEF t, a, next
  <2>7. Within(a) + a.num <= HEADS * SPT
    <3> DEFINE C == HEADS * SPT
    <3>1. C \in Nat
      BY Geometry
    <3> HIDE DEF num, chunk, C
    <3>2. num <= C - Within(a)
      BY <2>2, <2>3, <2>5 DEF C
    <3>3. Within(a) + num <= C
      BY <2>3, <2>5, <2>6, <3>1, <3>2
    <3>4. QED
      BY <2>5, <3>3 DEF C
  <2>8. /\ Chained(Append(s.recs, a), l)
        /\ Len(Append(s.recs, a)) = Len(s.recs) + 1
        /\ Start(Append(s.recs, a), l, Len(s.recs) + 2) = Lba(a) + a.num
    <3>1. Lba(a) = Start(s.recs, l, Len(s.recs) + 1) /\ a.track >= Len(s.recs)
      BY <1>1, <1>3, <2>5
    <3>2. QED
      BY <1>1, <2>5, <2>7, <3>1, ChainGrows
  <2>9. Len(s.recs) \in Nat
    BY <1>1 DEF Chained
  <2>10. Lba(t.next) = l + Least(t.i, n)
    <3> HIDE DEF chunk
    <3>1. Lba(s.next) = l + s.i
      BY <1>1, <1>3 DEF Least
    <3>2. s.i + num = Least(s.i + chunk, n)
      BY <1>1, <1>3, <2>2 DEF Least
    <3> HIDE DEF num
    <3>3. Lba(next) = l + (s.i + num)
      BY <1>1, <2>3, <2>4, <3>1
    <3>4. QED
      BY <2>1, <3>2, <3>3
  <2>11. Start(t.recs, l, Len(t.recs) + 1) = Lba(t.next)
    <3>1. Len(s.recs) + 1 + 1 = Len(s.recs) + 2
      BY <2>9
    <3> HIDE DEF num
    <3>2. QED
      BY <2>1, <2>4, <2>5, <2>8, <3>1
  <2>12. t.i < n => t.next.track >= Len(t.recs)
    <3> SUFFICES ASSUME t.i < n
                 PROVE  t.next.track >= Len(t.recs)
      OBVIOUS
    <3>1. num = chunk
      <4> HIDE DEF chunk
      <4>1. s.i + chunk < n
        BY <2>1
      <4>2. QED
        BY <1>1, <2>2, <4>1 DEF Least
    <3>2. next = inc_sector(s.next, HEADS * SPT - Within(s.next))
      BY <2>2, <3>1 DEF next
    <3>3. next.track >= s.next.track + 1
      BY <1>1, <3>2, NextCylinder
    <3>4. s.next.track \in Nat /\ next.track \in Nat
      BY <1>1, <2>4 DEF Rec
    <3> HIDE DEF num, chunk
    <3>5. next.track >= Len(s.recs) + 1
      BY <1>1, <1>3, <2>9, <3>3, <3>4
    <3>6. QED
      BY <2>1, <2>8, <3>5
  <2>13. t.i \in Nat /\ t.i >= s.i + 1
    <3> HIDE DEF chunk
    <3>1. QED
      BY <1>1, <2>1, <2>2
  <2> HIDE DEF chunk, num
  <2>14. PatchGood(l, n, t)
    BY <2>1, <2>4, <2>8, <2>10, <2>11, <2>12, <2>13 DEF PatchGood
  <2>15. QED
    BY <1>3, <2>13, <2>14 DEF t
<1>4. QED
  BY <1>2, <1>3

\* The records of the kernel cover it, and the address behind them.
LEMMA PatchKernel ==
  ASSUME NEW from \in Rec, NEW n \in Nat
  PROVE  /\ PatchGood(Lba(from), n, Patch("kernel", from, n))
         /\ Start(Patch("kernel", from, n).recs, Lba(from),
                  Len(Patch("kernel", from, n).recs) + 1) = Lba(from) + n
<1> DEFINE l == Lba(from)
<1>1. l \in Nat
  BY Cylinder
<1>2. PICK r : PatchRuns(r, "kernel", from, n)
  BY PatchRun
<1> DEFINE T == {k \in Nat : k <= n => /\ PatchGood(l, n, r[k])
                                       /\ r[k].i < n => r[k].i >= k}
<1>3. T \subseteq Nat /\ 0 \in T
  <2>1. r[0] = Begin(from)
    BY <1>2 DEF PatchRuns
  <2> DEFINE b == Begin(from)
  <2>2. b.next = from /\ b.i = 0 /\ b.recs = <<>>
    BY DEF Begin
  <2> HIDE DEF b, l
  <2>3. Len(<<>>) = 0 /\ <<>> \in Seq(Rec) /\ Least(0, n) = 0
    BY DEF Least
  <2>4. Chained(<<>>, l)
    BY <2>3 DEF Chained
  <2>5. Start(<<>>, l, 1) = l
    BY DEF Start
  <2>6. from.track \in Nat /\ l = Lba(from)
    BY DEF Rec, l
  <2>7. PatchGood(l, n, b)
    BY <1>1, <2>2, <2>3, <2>4, <2>5, <2>6 DEF PatchGood
  <2>8. b.i >= 0
    BY <2>2
  <2>9. QED
    BY <2>1, <2>7, <2>8 DEF b
<1>4. ASSUME NEW k \in T
      PROVE  k + 1 \in T
  <2> HIDE DEF l
  <2> SUFFICES ASSUME k + 1 <= n
               PROVE  /\ PatchGood(l, n, r[k + 1])
                      /\ r[k + 1].i < n => r[k + 1].i >= k + 1
    OBVIOUS
  <2>1. k \in Nat /\ k + 1 \in 1..n /\ k + 1 - 1 = k /\ k <= n
    OBVIOUS
  <2>2. PatchGood(l, n, r[k]) /\ (r[k].i < n => r[k].i >= k)
    BY <2>1
  <2>3. r[k + 1] = PatchStep("kernel", n, r[k])
    <3>1. r[k + 1] = PatchStep("kernel", n, r[k + 1 - 1])
      BY <1>2, <2>1 DEF PatchRuns
    <3>2. QED
      BY <2>1, <3>1, Zenon
  <2>4. /\ PatchGood(l, n, r[k + 1])
        /\ r[k].i < n => r[k + 1].i >= r[k].i + 1
        /\ ~(r[k].i < n) => r[k + 1] = r[k]
    BY <1>1, <2>2, <2>3, PatchTurn
  <2>5. r[k].i \in Nat /\ r[k + 1].i \in Nat
    BY <2>2, <2>4 DEF PatchGood
  <2>6. QED
    BY <2>1, <2>2, <2>4, <2>5
<1>5. Nat \subseteq T
  <2> HIDE DEF T
  <2>1. \A k \in T : k + 1 \in T
    BY <1>4
  <2>2. QED
    BY <1>3, <2>1, PatchFold!Induction
<1> HIDE DEF l
<1>6. PatchGood(l, n, r[n]) /\ (r[n].i < n => r[n].i >= n)
  <2>1. n \in T
    BY <1>5
  <2>2. QED
    BY <2>1
<1>7. Patch("kernel", from, n) = r[n]
  BY <1>2 DEF PatchRuns
<1>8. Start(r[n].recs, l, Len(r[n].recs) + 1) = l + n
  <2>1. r[n].i \in Nat /\ Lba(r[n].next) = l + Least(r[n].i, n)
        /\ Start(r[n].recs, l, Len(r[n].recs) + 1) = Lba(r[n].next)
    BY <1>6 DEF PatchGood
  <2>2. ~(r[n].i < n)
    BY <1>6, <2>1
  <2>3. Least(r[n].i, n) = n
    BY <2>1, <2>2 DEF Least
  <2>4. QED
    BY <2>1, <2>3
<1>9. QED
  BY <1>6, <1>7, <1>8 DEF l

-----------------------------------------------------------------------------
(* The image.                                                              *)

Part(name, len) == [i \in 1..len |-> <<name, i - 1>>]

\* The sectors of a part.
LEMMA PartIs ==
  ASSUME NEW name \in {"bootsect", "second", "map", "kernel"}, NEW len \in Nat
  PROVE  /\ Part(name, len) \in Seq({"bootsect", "second", "map", "kernel"} \X Nat)
         /\ Len(Part(name, len)) = len
         /\ \A i \in 1..len : Part(name, len)[i] = <<name, i - 1>>
<1>1. \A i \in 1..len : <<name, i - 1>> \in {"bootsect", "second", "map", "kernel"} \X Nat
  OBVIOUS
<1>2. QED
  BY <1>1 DEF Part

\* Where the parts are.
LEMMA DiskParts ==
  ASSUME NEW n \in Nat \ {0}, NEW k \in Nat, NEW disk,
         disk = Part("bootsect", 1) \o Part("second", n) \o Part("map", 2) \o Part("kernel", k)
  PROVE  /\ DOMAIN disk = 1..(n + k + 3)
         /\ disk[2] = <<"second", 0>>
         /\ disk[n + 2] = <<"map", 0>>
         /\ \A i \in 1..k : disk[n + 3 + i] = <<"kernel", i - 1>>
<1> DEFINE S == {"bootsect", "second", "map", "kernel"} \X Nat
           a == Part("bootsect", 1)
           b == Part("second", n)
           c == Part("map", 2)
           d == Part("kernel", k)
<1>1. /\ a \in Seq(S) /\ Len(a) = 1
      /\ b \in Seq(S) /\ Len(b) = n /\ b[1] = <<"second", 0>>
      /\ c \in Seq(S) /\ Len(c) = 2 /\ c[1] = <<"map", 0>>
      /\ d \in Seq(S) /\ Len(d) = k /\ \A i \in 1..k : d[i] = <<"kernel", i - 1>>
  <2>1. a \in Seq(S) /\ Len(a) = 1
    BY PartIs
  <2>2. b \in Seq(S) /\ Len(b) = n /\ b[1] = <<"second", 0>>
    <3>1. b \in Seq(S) /\ Len(b) = n /\ \A i \in 1..n : b[i] = <<"second", i - 1>>
      BY PartIs
    <3>2. 1 - 1 = 0 /\ 1 \in 1..n
      OBVIOUS
    <3> HIDE DEF b, S
    <3>3. QED
      BY <3>1, <3>2, Zenon
  <2>3. c \in Seq(S) /\ Len(c) = 2 /\ c[1] = <<"map", 0>>
    <3>1. c \in Seq(S) /\ Len(c) = 2 /\ \A i \in 1..2 : c[i] = <<"map", i - 1>>
      BY PartIs
    <3>2. 1 - 1 = 0 /\ 1 \in 1..2
      OBVIOUS
    <3> HIDE DEF c, S
    <3>3. QED
      BY <3>1, <3>2, Zenon
  <2>4. d \in Seq(S) /\ Len(d) = k /\ \A i \in 1..k : d[i] = <<"kernel", i - 1>>
    BY PartIs
  <2>5. QED
    BY <2>1, <2>2, <2>3, <2>4
<1> HIDE DEF a, b, c, d, S
<1> DEFINE ab == a \o b
<1>2. /\ ab \in Seq(S) /\ Len(ab) = 1 + n
      /\ \A i \in 1..n : ab[1 + i] = b[i]
  <2>1. a \in Seq(S) /\ b \in Seq(S)
    BY <1>1
  <2>2. /\ a \o b \in Seq(S) /\ Len(a \o b) = Len(a) + Len(b)
        /\ \A i \in 1..Len(a) : (a \o b)[i] = a[i]
        /\ \A i \in 1..Len(b) : (a \o b)[Len(a) + i] = b[i]
    BY <2>1
  <2> DEFINE z == a \o b
  <2> HIDE DEF z
  <2>3. QED
    BY <1>1, <2>2 DEF z
<1> HIDE DEF ab
<1> DEFINE abc == ab \o c
<1>3. /\ abc \in Seq(S) /\ Len(abc) = 1 + n + 2
      /\ \A i \in 1..(1 + n) : abc[i] = ab[i]
      /\ \A i \in 1..2 : abc[1 + n + i] = c[i]
  <2>1. ab \in Seq(S) /\ c \in Seq(S)
    BY <1>1, <1>2
  <2>2. /\ ab \o c \in Seq(S) /\ Len(ab \o c) = Len(ab) + Len(c)
        /\ \A i \in 1..Len(ab) : (ab \o c)[i] = ab[i]
        /\ \A i \in 1..Len(c) : (ab \o c)[Len(ab) + i] = c[i]
    BY <2>1
  <2> DEFINE z == ab \o c
  <2> HIDE DEF z
  <2>3. QED
    BY <1>1, <1>2, <2>2 DEF z
<1> HIDE DEF abc
<1>4. /\ abc \o d \in Seq(S) /\ Len(abc \o d) = 1 + n + 2 + k
      /\ \A i \in 1..(1 + n + 2) : (abc \o d)[i] = abc[i]
      /\ \A i \in 1..k : (abc \o d)[1 + n + 2 + i] = d[i]
  <2>1. abc \in Seq(S) /\ d \in Seq(S)
    BY <1>1, <1>3
  <2>2. /\ abc \o d \in Seq(S) /\ Len(abc \o d) = Len(abc) + Len(d)
        /\ \A i \in 1..Len(abc) : (abc \o d)[i] = abc[i]
        /\ \A i \in 1..Len(d) : (abc \o d)[Len(abc) + i] = d[i]
    BY <2>1
  <2> DEFINE z == abc \o d
  <2> HIDE DEF z
  <2>3. QED
    BY <1>1, <1>3, <2>2 DEF z
<1>5. (abc \o d)[2] = <<"second", 0>>
  <2>1. 2 \in 1..(1 + n + 2) /\ 2 \in 1..(1 + n) /\ 1 \in 1..n /\ 1 + 1 = 2
    OBVIOUS
  <2>2. (abc \o d)[2] = abc[2] /\ abc[2] = ab[2]
    BY <1>3, <1>4, <2>1
  <2>3. ab[2] = b[1]
    BY <1>2, <2>1
  <2>4. QED
    BY <1>1, <2>2, <2>3
<1>6. (abc \o d)[n + 2] = <<"map", 0>>
  <2>1. n + 2 \in 1..(1 + n + 2) /\ 1 \in 1..2 /\ n + 2 = 1 + n + 1
    OBVIOUS
  <2>2. (abc \o d)[n + 2] = abc[n + 2]
    BY <1>4, <2>1
  <2>3. abc[1 + n + 1] = c[1]
    BY <1>3, <2>1
  <2>4. QED
    BY <1>1, <2>1, <2>2, <2>3
<1>7. disk = abc \o d
  BY DEF abc, ab, a, b, c, d
<1>8. DOMAIN (abc \o d) = 1..(n + k + 3)
  BY <1>4
<1>9. ASSUME NEW i \in 1..k
      PROVE  (abc \o d)[n + 3 + i] = <<"kernel", i - 1>>
  <2>1. n + 3 + i = 1 + n + 2 + i
    OBVIOUS
  <2>2. QED
    BY <1>1, <1>4, <2>1
<1>10. QED
  BY <1>5, <1>6, <1>7, <1>8, <1>9

\* Sector i + 1 of the kernel is block KernelStart + i.
KernelStart(im) == Lba(im.mapaddr) + MapSectors

\* What the loader needs to know of the image.
GoodImage(im) ==
  /\ im.kernel \in Nat
  /\ Len(im.secaddr) = 1 /\ Lba(im.secaddr[1]) = 1 /\ im.secaddr[1].num \in Nat \ {0}
  /\ im.mapaddr \in Rec /\ Readable(im.mapaddr) /\ im.mapaddr.num = MapSectors
  /\ 2 \in DOMAIN im.disk /\ im.disk[2] = <<"second", 0>>
  /\ Lba(im.mapaddr) + 1 \in DOMAIN im.disk
  /\ im.disk[Lba(im.mapaddr) + 1] = <<"map", 0>>
  /\ \A i \in 1..im.kernel :
       /\ KernelStart(im) + i \in DOMAIN im.disk
       /\ im.disk[KernelStart(im) + i] = <<"kernel", i - 1>>
  /\ Chained(im.map, KernelStart(im))
  /\ Start(im.map, KernelStart(im), Len(im.map) + 1) = KernelStart(im) + im.kernel

\* The kernel has a first sector.
LEMMA KernelStartNat ==
  ASSUME NEW im, GoodImage(im)
  PROVE  KernelStart(im) \in Nat /\ im.kernel \in Nat
<1>1. im.mapaddr \in Rec /\ im.kernel \in Nat
  BY DEF GoodImage
<1>2. Lba(im.mapaddr) \in Nat
  BY <1>1, Cylinder
<1>3. QED
  BY <1>1, <1>2, Geometry DEF KernelStart

\* A file never needs more sectors than its bound allows.
LEMMA SectorsBound ==
  ASSUME NEW size \in Nat
  PROVE  /\ Sectors(size) \in Nat \ {0}
         /\ size <= MaxSecond => Sectors(size) <= MaxSecond \div SectorSize + 1
<1>1. SectorSize \in Nat \ {0} /\ MaxSecond \in Nat
  BY LoaderAssumption
<1> DEFINE q == size \div SectorSize  p == MaxSecond \div SectorSize
<1>2. /\ q \in Nat /\ SectorSize * q <= size
      /\ p \in Nat /\ MaxSecond < SectorSize * p + SectorSize
  BY <1>1
<1> HIDE DEF q, p
<1>3. ASSUME size <= MaxSecond, q >= p + 1
      PROVE  FALSE
  <2>1. SectorSize * q >= SectorSize * (p + 1)
    BY <1>1, <1>2, <1>3
  <2>2. SectorSize * (p + 1) = SectorSize * p + SectorSize
    BY <1>1, <1>2
  <2> DEFINE x == SectorSize * q  y == SectorSize * p
  <2>3. x \in Nat /\ y \in Nat /\ x >= y + SectorSize /\ x <= size /\ MaxSecond < y + SectorSize
    BY <1>1, <1>2, <2>1, <2>2
  <2> HIDE DEF x, y
  <2>4. QED
    BY <1>1, <1>3, <2>3
<1>4. size <= MaxSecond => q <= p
  BY <1>2, <1>3
<1>5. Sectors(size) = q + 1
  BY DEF Sectors, q
<1>6. q + 1 \in Nat \ {0} /\ (size <= MaxSecond => q + 1 <= p + 1)
  BY <1>2, <1>4
<1>7. QED
  BY <1>5, <1>6 DEF p

\* The records of build are good for the files it is given.
LEMMA ImageIsGood ==
  ASSUME NEW s \in SecondSizes, NEW k \in KernelSizes
  PROVE  GoodImage(Image(s, k))
<1> DEFINE n == Sectors(s)
           m == Sectors(k)
           from == [track |-> 0, head |-> 0, sector |-> 2, num |-> 0]
           sec == Patch("second", from, n)
           kern == Patch("kernel", inc_sector(sec.next, MapSectors), m)
           im == Image(s, k)
<1>1. /\ im.secaddr = sec.recs
      /\ im.mapaddr = [sec.next EXCEPT !.num = MapSectors]
      /\ im.map = kern.recs
      /\ im.kernel = m
      /\ im.disk = Part("bootsect", 1) \o Part("second", n)
                     \o Part("map", MapSectors) \o Part("kernel", m)
  <2>1. im = [secaddr |-> sec.recs,
              mapaddr |-> [sec.next EXCEPT !.num = MapSectors],
              map     |-> kern.recs,
              kernel  |-> m,
              disk    |-> Part("bootsect", 1) \o Part("second", n)
                            \o Part("map", MapSectors) \o Part("kernel", m)]
    BY Zenon DEF Image, Part
  <2> HIDE DEF im, sec, kern, n, m
  <2>2. QED
    BY <2>1
<1>2. s \in 0..MaxSecond /\ k \in Nat /\ MaxSecond \in Nat
  BY LoaderAssumption
<1>3. /\ n \in Nat \ {0} /\ m \in Nat \ {0}
      /\ n <= MaxSecond \div SectorSize + 1
  BY <1>2, SectorsBound
<1>4. n + 3 <= HEADS * SPT
  <2>1. MaxSecond \div SectorSize \in Nat
    BY <1>2, LoaderAssumption
  <2>2. 1 + (MaxSecond \div SectorSize + 1) + 2 <= HEADS * SPT
    BY LoaderAssumption DEF MapSectors
  <2> DEFINE p == MaxSecond \div SectorSize  C == HEADS * SPT
  <2>3. C \in Nat
    BY Geometry
  <2> HIDE DEF p, C, n
  <2>4. n + 3 <= C
    BY <1>3, <2>1, <2>2, <2>3 DEF p, C
  <2>5. QED
    BY <2>4 DEF C
<1>5. from \in Rec /\ Lba(from) = 1
  <2>1. 2 \in 1..SPT /\ 0 \in 0..(HEADS - 1)
    BY Geometry
  <2>2. from.track = 0 /\ from.head = 0 /\ from.sector = 2
    OBVIOUS
  <2>3. from \in Rec
    BY <2>1 DEF Rec
  <2> HIDE DEF from
  <2>4. Lba(from) = (0 * HEADS + 0) * SPT + 2 - 1
    BY <2>2 DEF Lba
  <2>5. (0 * HEADS + 0) * SPT = 0
    BY Geometry
  <2>6. QED
    BY <2>3, <2>4, <2>5
<1>6. n <= CHUNKS
  <2> HIDE DEF n
  <2> DEFINE C == HEADS * SPT
  <2>1. C \in Nat /\ C <= CHUNKS /\ CHUNKS \in Nat /\ n + 3 <= C
    BY <1>4, Geometry
  <2> HIDE DEF C
  <2>2. QED
    BY <1>3, <2>1
<1> HIDE DEF im, n, m, from
<1>7. /\ sec.next = inc_sector(from, n)
      /\ sec.recs = <<[from EXCEPT !.num = n]>>
  BY <1>3, <1>6, PatchSecond
<1> HIDE DEF sec
<1>8. sec.next \in Rec /\ Lba(sec.next) = n + 1
  BY <1>3, <1>5, <1>7, IncSector
<1> DEFINE a == [sec.next EXCEPT !.num = MapSectors]
<1>9. a \in Rec /\ Lba(a) = n + 1 /\ a.num = 2
  <2>1. /\ a \in Rec /\ a.num = 2 /\ a.track = sec.next.track
        /\ a.head = sec.next.head /\ a.sector = sec.next.sector
    BY <1>8, Geometry DEF Rec
  <2> HIDE DEF a
  <2>2. QED
    BY <1>8, <2>1, Zenon DEF Lba
<1> HIDE DEF a
<1>10. Readable(a)
  <2> DEFINE C == HEADS * SPT  t == a.track  w == Within(a)
  <2>1. t \in Nat /\ a.sector \in 1..SPT
    BY <1>9 DEF Rec
  <2>2. C \in Nat \ {0} /\ w \in 0..(C - 1) /\ n + 1 = t * C + w
    BY <1>9, Cylinder, Geometry
  <2>3. n + 3 <= C
    BY <1>4
  <2>4. TRACKS \in Nat \ {0} /\ w = SPT * a.head + a.sector - 1
    BY Geometry DEF Within
  <2> HIDE DEF C, t, w
  <2>5. t = 0
    <3> SUFFICES ASSUME t >= 1
                 PROVE  FALSE
      BY <2>1
    <3>1. t * C >= C /\ t * C \in Nat
      BY <2>1, <2>2
    <3> DEFINE x == t * C
    <3>2. x >= C /\ x \in Nat /\ n + 1 = x + w
      BY <2>2, <3>1
    <3> HIDE DEF x
    <3>3. QED
      BY <1>3, <2>2, <2>3, <3>2
  <2>6. w = n + 1
    BY <1>3, <2>2, <2>5
  <2>7. w + a.num <= C
    BY <1>3, <1>9, <2>2, <2>3, <2>6
  <2>8. SPT * a.head + a.sector - 1 + a.num <= HEADS * SPT
    BY <2>4, <2>7 DEF C
  <2>9. a.track < TRACKS
    BY <2>4, <2>5 DEF t
  <2>10. QED
    BY <2>1, <2>8, <2>9 DEF Readable
<1> DEFINE b == inc_sector(sec.next, MapSectors)
<1>11. b \in Rec /\ Lba(b) = n + 3
  <2>1. MapSectors = 2
    BY Geometry
  <2>2. b \in Rec /\ Lba(b) = Lba(sec.next) + 2
    BY <1>8, <2>1, IncSector
  <2> HIDE DEF b
  <2>3. QED
    BY <1>3, <1>8, <2>2
<1>12. PatchGood(Lba(b), m, kern) /\ Start(kern.recs, Lba(b), Len(kern.recs) + 1) = Lba(b) + m
  BY <1>3, <1>11, PatchKernel
<1> HIDE DEF b, kern
<1>13. Chained(kern.recs, n + 3) /\ Start(kern.recs, n + 3, Len(kern.recs) + 1) = n + 3 + m
  BY <1>11, <1>12 DEF PatchGood
<1>14. im.mapaddr = a /\ KernelStart(im) = n + 3
  <2>1. im.mapaddr = a
    BY <1>1 DEF a
  <2>2. n + 1 + 2 = n + 3
    BY <1>3
  <2>3. QED
    BY <1>9, <2>1, <2>2, Geometry DEF KernelStart
<1>15. /\ DOMAIN im.disk = 1..(n + m + 3)
       /\ im.disk[2] = <<"second", 0>>
       /\ im.disk[n + 2] = <<"map", 0>>
       /\ \A i \in 1..m : im.disk[n + 3 + i] = <<"kernel", i - 1>>
  <2>1. im.disk = Part("bootsect", 1) \o Part("second", n)
                     \o Part("map", 2) \o Part("kernel", m)
    BY <1>1, Geometry
  <2>2. QED
    BY <1>3, <2>1, DiskParts
<1>16. Len(im.secaddr) = 1 /\ Lba(im.secaddr[1]) = 1 /\ im.secaddr[1].num = n
  <2> DEFINE f == [from EXCEPT !.num = n]
  <2>1. /\ f.num = n /\ f.track = from.track /\ f.head = from.head
        /\ f.sector = from.sector
    BY <1>5 DEF Rec
  <2> HIDE DEF f
  <2>2. Lba(f) = Lba(from)
    BY <2>1, Zenon DEF Lba
  <2>3. im.secaddr = <<f>>
    BY <1>1, <1>7 DEF f
  <2>4. Len(<<f>>) = 1 /\ <<f>>[1] = f
    OBVIOUS
  <2>5. QED
    BY <1>5, <2>1, <2>2, <2>3, <2>4
<1>17. \A i \in 1..im.kernel :
         /\ KernelStart(im) + i \in DOMAIN im.disk
         /\ im.disk[KernelStart(im) + i] = <<"kernel", i - 1>>
  <2>1. im.kernel = m
    BY <1>1
  <2>2. \A i \in 1..m : n + 3 + i \in 1..(n + m + 3)
    BY <1>3
  <2>3. QED
    BY <1>14, <1>15, <2>1, <2>2
<1>18. /\ 2 \in DOMAIN im.disk /\ n + 2 \in DOMAIN im.disk
  BY <1>3, <1>15
<1>19. Lba(im.mapaddr) + 1 = n + 2
  BY <1>3, <1>9, <1>14
<1>20. QED
  <2>1. im.kernel \in Nat /\ im.secaddr[1].num \in Nat \ {0} /\ im.mapaddr.num = MapSectors
    BY <1>1, <1>3, <1>9, <1>14, <1>16, Geometry
  <2>2. im.map = kern.recs /\ im.kernel = m
    BY <1>1
  <2>3. GoodImage(im)
    BY <1>9, <1>10, <1>13, <1>14, <1>15, <1>16, <1>17, <1>18, <1>19, <2>1, <2>2 DEF GoodImage
  <2>4. QED
    BY <2>3 DEF im

-----------------------------------------------------------------------------
(* The loader.                                                             *)

\* The sectors of the kernel before the m-th record.
Behind(im, m) == Start(im.map, KernelStart(im), m) - KernelStart(im)

\* Above 1M, they are in their place, and the next one goes behind them.
Loaded(im, above, dest, m) ==
  /\ dest = SectorSize * Behind(im, m)
  /\ \A i \in 0..(im.kernel - 1) : i < Behind(im, m) => above[i * SectorSize] = <<"kernel", i>>

\* What the loader has done at each of its steps, as long as the hardware has
\* not failed for good.
Fine ==
  /\ DOMAIN high = {i * SectorSize : i \in 0..(image.kernel - 1)}
  /\ pc = "bootsect" =>
       /\ si \in {1, 2}
       /\ si = 2 => second # <<>> /\ second[1] = <<"second", 0>>
  /\ pc \in {"bootsect", "loadmap"} =>
       moff = 1 /\ gdt_dest = 0 /\ bsmith_counter = BsmithCounter
  /\ pc = "loadmap" => addr = image.mapaddr
  /\ pc \in {"load", "sread", "move"} =>
       /\ map = image.map
       /\ moff \in 1..(Len(map) + 1)
       /\ bsmith_counter = BsmithCounter - (moff - 1)
  /\ pc = "load" => Loaded(image, high, gdt_dest, moff)
  /\ pc \in {"sread", "move"} =>
       moff # 1 /\ addr = map[moff - 1] /\ Loaded(image, high, gdt_dest, moff - 1)
  /\ pc = "move" => buffer = Data(addr)
  /\ pc = "launch" => Loaded(image, high, gdt_dest, Len(image.map) + 1)
  /\ pc = "dead" => TooBig

LoaderInv == trouble \in BOOLEAN /\ GoodImage(image) /\ (trouble \/ Fine)

\* What Data reads, the first sector above all.
LEMMA DataIs ==
  ASSUME NEW a, a.num \in Nat
  PROVE  /\ \E S : Data(a) \in Seq(S)
         /\ Len(Data(a)) = a.num /\ DOMAIN Data(a) = 1..a.num
         /\ \A i \in 1..a.num : Lba(a) + i \in DOMAIN image.disk =>
              Data(a)[i] = image.disk[Lba(a) + i]
<1> DEFINE n == a.num  l == Lba(a)  d == Data(a)
           S == {d[i] : i \in 1..n}
<1>1. d = [i \in 1..n |-> IF l + i \in DOMAIN image.disk THEN image.disk[l + i] ELSE Blank]
  BY Zenon DEF Data, Lba
<1>2. n \in Nat
  OBVIOUS
<1> HIDE DEF n, l, d
<1>3. \A i \in 1..n : l + i \in DOMAIN image.disk => d[i] = image.disk[l + i]
  BY <1>1
<1>4. d = [i \in 1..n |-> d[i]]
  BY <1>1
<1>5. d \in [1..n -> S]
  BY <1>4
<1> HIDE DEF S
<1>6. d \in Seq(S) /\ Len(d) = n /\ DOMAIN d = 1..n
  BY <1>2, <1>5
<1>7. QED
  BY <1>3, <1>6 DEF n, l, d

\* The sector that says what has been read.
LEMMA FirstOfData ==
  ASSUME NEW a, a.num \in Nat \ {0}, Lba(a) + 1 \in DOMAIN image.disk
  PROVE  /\ Data(a) # <<>>
         /\ Data(a)[1] = image.disk[Lba(a) + 1]
<1>1. Len(Data(a)) = a.num /\ a.num # 0
  BY DataIs
<1>2. 1 \in 1..a.num
  OBVIOUS
<1>3. QED
  BY <1>1, <1>2, DataIs

\* The machine is switched on.
LEMMA FineStart == LoaderInit => LoaderInv
<1> SUFFICES ASSUME LoaderInit
             PROVE  LoaderInv
  OBVIOUS
<1>1. GoodImage(image)
  BY ImageIsGood DEF LoaderInit
<1>2. /\ pc = "bootsect" /\ si = 1 /\ moff = 1 /\ gdt_dest = 0
      /\ bsmith_counter = BsmithCounter /\ trouble = FALSE
      /\ DOMAIN high = {i * SectorSize : i \in 0..(image.kernel - 1)}
  BY DEF LoaderInit
<1>3. Fine
  BY <1>2 DEF Fine
<1>4. QED
  BY <1>1, <1>2, <1>3 DEF LoaderInv

\* The boot sector: it goes on only when the second stage has been read.
LEMMA FineBootsect ==
  ASSUME GoodImage(image), Fine, BootsectRead \/ BootsectError \/ SecondStart
  PROVE  Fine'
<1>1. UNCHANGED <<image, moff, bsmith_counter, high, gdt_dest>> /\ pc = "bootsect"
  BY DEF BootsectRead, BootsectError, SecondStart, diskVars
<1>2. /\ DOMAIN high = {i * SectorSize : i \in 0..(image.kernel - 1)}
      /\ si \in {1, 2}
      /\ si = 2 => second # <<>> /\ second[1] = <<"second", 0>>
      /\ moff = 1 /\ gdt_dest = 0 /\ bsmith_counter = BsmithCounter
  BY <1>1 DEF Fine
<1>3. /\ Len(image.secaddr) = 1 /\ Lba(image.secaddr[1]) = 1
      /\ image.secaddr[1].num \in Nat \ {0}
      /\ 2 \in DOMAIN image.disk /\ image.disk[2] = <<"second", 0>>
  BY DEF GoodImage
<1>4. CASE BootsectRead
  <2>1. pc' = pc /\ si' = si + 1 /\ si <= Len(image.secaddr)
        /\ second' = SubSeq(second, 1, si - 1) \o Data(image.secaddr[si])
    BY <1>4 DEF BootsectRead
  <2>2. si = 1
    BY <1>2, <1>3, <2>1
  <2> DEFINE d == Data(image.secaddr[1])
  <2>3. d # <<>> /\ d[1] = <<"second", 0>>
    <3>1. Lba(image.secaddr[1]) + 1 = 2
      BY <1>3
    <3>2. QED
      BY <1>3, <3>1, FirstOfData
  <2>4. second' = d
    <3> DEFINE a == image.secaddr[1]
    <3>1. SubSeq(second, 1, si - 1) = <<>>
      BY <2>2, SubSeqEmpty
    <3>2. PICK S : d \in Seq(S)
      BY <1>3, DataIs
    <3> HIDE DEF d
    <3>3. <<>> \o d = d
      BY <3>2, ConcatEmptySeq
    <3>4. QED
      BY <2>1, <2>2, <3>1, <3>3 DEF d
  <2> HIDE DEF d
  <2>5. si' = 2
    BY <2>1, <2>2
  <2>6. QED
    BY <1>1, <1>2, <2>1, <2>3, <2>4, <2>5 DEF Fine
<1>5. CASE BootsectError
  <2>1. pc' = pc /\ si' = 1
    BY <1>5 DEF BootsectError
  <2>2. QED
    BY <1>1, <1>2, <2>1 DEF Fine
<1>6. CASE SecondStart
  <2>1. si > Len(image.secaddr) /\ addr' = image.mapaddr
        /\ pc' = IF second # <<>> /\ second[1] = <<"second", 0>> THEN "loadmap" ELSE "dead"
    BY <1>6 DEF SecondStart
  <2>2. pc' = "loadmap"
    BY <1>2, <1>3, <2>1
  <2>3. QED
    BY <1>1, <1>2, <2>1, <2>2 DEF Fine
<1>7. QED
  BY <1>4, <1>5, <1>6

\* Reading the map: only the hardware can keep it from the loader.
LEMMA FineMap ==
  ASSUME GoodImage(image), Fine, ~trouble', Int13Retry \/ MapRead \/ MapLost
  PROVE  Fine'
<1>1. UNCHANGED <<image, moff, bsmith_counter, high, gdt_dest, addr>>
  BY DEF Int13Retry, MapRead, MapLost, diskVars
<1>2. DOMAIN high = {i * SectorSize : i \in 0..(image.kernel - 1)}
  BY DEF Fine
<1>3. CASE Int13Retry
  <2>1. pc' = pc /\ map' = map /\ pc \in {"loadmap", "sread"}
    BY <1>3 DEF Int13Retry
  <2>2. CASE pc = "loadmap"
    <3>1. moff = 1 /\ gdt_dest = 0 /\ bsmith_counter = BsmithCounter /\ addr = image.mapaddr
      BY <2>2 DEF Fine
    <3>2. QED
      BY <1>1, <1>2, <2>1, <2>2, <3>1 DEF Fine
  <2>3. CASE pc = "sread"
    <3>1. /\ map = image.map /\ moff \in 1..(Len(map) + 1)
          /\ bsmith_counter = BsmithCounter - (moff - 1)
          /\ moff # 1 /\ addr = map[moff - 1] /\ Loaded(image, high, gdt_dest, moff - 1)
      BY <2>3 DEF Fine
    <3>2. pc' = "sread"
      BY <2>1, <2>3
    <3>3. QED
      BY <1>1, <1>2, <2>1, <3>1, <3>2 DEF Fine
  <2>4. QED
    BY <2>1, <2>2, <2>3
<1>4. CASE MapRead \/ MapLost
  <2>1. pc = "loadmap" /\ pc' = "load"
    BY <1>4 DEF MapRead, MapLost
  <2>2. moff = 1 /\ gdt_dest = 0 /\ bsmith_counter = BsmithCounter /\ addr = image.mapaddr
    BY <2>1 DEF Fine
  <2>3. /\ Readable(addr) /\ addr.num \in Nat \ {0}
        /\ Lba(addr) + 1 \in DOMAIN image.disk
        /\ image.disk[Lba(addr) + 1] = <<"map", 0>>
    BY <2>2, Geometry DEF GoodImage
  <2>4. ~MapLost
    <3> SUFFICES ASSUME MapLost
                 PROVE  FALSE
      OBVIOUS
    <3>1. trouble' = (trouble \/ Readable(addr))
      BY DEF MapLost
    <3>2. QED
      BY <2>3, <3>1, Zenon
  <2>5. MapRead
    BY <1>4, <2>4
  <2>6. map' = image.map
    <3>1. Data(addr)[1] = <<"map", 0>>
      BY <2>3, FirstOfData
    <3>2. QED
      BY <2>5, <3>1, Zenon DEF MapRead
  <2>7. Len(image.map) \in Nat
    BY DEF GoodImage, Chained
  <2>8. Behind(image, 1) = 0
    <3>1. KernelStart(image) \in Nat
      BY KernelStartNat
    <3>2. Start(image.map, KernelStart(image), 1) = KernelStart(image)
      BY DEF Start
    <3>3. QED
      BY <3>1, <3>2 DEF Behind
  <2>9. Loaded(image, high, gdt_dest, 1)
    <3>1. image.kernel \in Nat
      BY DEF GoodImage
    <3>2. gdt_dest = SectorSize * 0
      BY <2>2, Geometry
    <3>3. QED
      BY <2>8, <3>1, <3>2 DEF Loaded
  <2>10. moff' = 1 /\ moff' \in 1..(Len(map') + 1) /\ bsmith_counter' = BsmithCounter - (moff' - 1)
    <3>1. moff' = 1 /\ 1 \in 1..(Len(map') + 1)
      BY <1>1, <2>2, <2>6, <2>7
    <3>2. BsmithCounter = BsmithCounter - (1 - 1)
      BY LoaderAssumption
    <3>3. bsmith_counter' = BsmithCounter
      BY <1>1, <2>2
    <3>4. QED
      BY <3>1, <3>2, <3>3, Zenon
  <2>11. Loaded(image', high', gdt_dest', moff')
    BY <1>1, <2>9, <2>10, Zenon
  <2>12. map' = image'.map
    BY <1>1, <2>6
  <2>13. DOMAIN high' = {i * SectorSize : i \in 0..(image'.kernel - 1)}
    BY <1>1, <1>2
  <2>14. QED
    BY <2>1, <2>10, <2>11, <2>12, <2>13 DEF Fine
<1>5. QED
  BY <1>3, <1>4

\* The next record: they cannot run out, and the limit is for more records than
\* there are cylinders.
LEMMA FineLoad ==
  ASSUME GoodImage(image), Fine, Load
  PROVE  Fine'
<1>1. /\ UNCHANGED <<image, high, gdt_dest, map>> /\ pc = "load"
      /\ bsmith_counter' = bsmith_counter - 1
  BY DEF Load, diskVars
<1>2. /\ DOMAIN high = {i * SectorSize : i \in 0..(image.kernel - 1)}
      /\ map = image.map /\ moff \in 1..(Len(map) + 1)
      /\ bsmith_counter = BsmithCounter - (moff - 1) /\ Loaded(image, high, gdt_dest, moff)
  BY <1>1 DEF Fine
<1>3. Chained(map, KernelStart(image)) /\ map \in Seq(Rec) /\ Len(map) \in Nat
  BY <1>2 DEF GoodImage, Chained
<1>5. BsmithDies => TooBig
  <2> SUFFICES ASSUME BsmithDies, ~TooBig
               PROVE  FALSE
    OBVIOUS
  <2>1. bsmith_counter = 1
    BY DEF BsmithDies
  <2>2. \A i \in 1..Len(map) : map[i].track < TRACKS
    <3>1. DOMAIN map = 1..Len(map)
      BY <1>3
    <3>2. QED
      BY <1>2, <3>1 DEF TooBig
  <2>3. Len(map) <= TRACKS
    <3>1. CASE Len(map) = 0
      BY <3>1, Geometry
    <3>2. CASE Len(map) # 0
      <4> DEFINE n == Len(map)  t == map[n].track
      <4>1. n \in 1..Len(map)
        BY <1>3, <3>2
      <4>2. t >= n - 1 /\ t < TRACKS
        BY <1>3, <2>2, <4>1 DEF Chained
      <4>3. t \in Nat /\ n \in Nat /\ TRACKS \in Nat
        <5>1. map[n] \in Rec
          BY <1>3, <4>1
        <5>2. t \in Nat
          BY <5>1 DEF Rec
        <5>3. QED
          BY <1>3, <5>2, Geometry
      <4> HIDE DEF n, t
      <4>4. n <= TRACKS
        BY <4>2, <4>3
      <4>5. QED
        BY <4>4 DEF n
    <3>3. QED
      BY <3>1, <3>2
  <2>4. moff \in Nat /\ moff <= TRACKS + 1
    BY <1>2, <1>3, <2>3, Geometry
  <2>5. BsmithCounter \in Nat /\ BsmithCounter > TRACKS + 1
    BY LoaderAssumption
  <2>6. QED
    BY <1>2, <2>1, <2>4, <2>5, Geometry
<1>6. TooBig' <=> TooBig
  BY <1>1 DEF TooBig
<1>7. DOMAIN high' = {i * SectorSize : i \in 0..(image'.kernel - 1)}
  BY <1>1, <1>2
<1>8. pc' = "dead" => Fine'
  <2> SUFFICES ASSUME pc' = "dead"
               PROVE  Fine'
    OBVIOUS
  <2>1. BsmithDies
    BY DEF Load
  <2>2. TooBig'
    BY <1>5, <1>6, <2>1
  <2>3. QED
    BY <1>7, <2>2 DEF Fine
<1>9. CASE moff <= Len(map) /\ addr' = map[moff] /\ moff' = moff + 1 /\ pc' = "sread"
  <2>1. /\ moff' \in 1..(Len(map') + 1) /\ moff' # 1 /\ moff' - 1 = moff
        /\ bsmith_counter' = BsmithCounter - (moff' - 1)
    BY <1>1, <1>2, <1>3, <1>9, LoaderAssumption
  <2>2. Loaded(image', high', gdt_dest', moff' - 1)
    BY <1>1, <1>2, <2>1, Zenon
  <2>3. addr' = map'[moff' - 1]
    BY <1>1, <1>9, <2>1, Zenon
  <2>4. map' = image'.map
    BY <1>1, <1>2
  <2>5. pc' = "sread"
    BY <1>9
  <2>6. QED
    BY <1>7, <2>1, <2>2, <2>3, <2>4, <2>5 DEF Fine
<1>10. CASE moff > Len(map) /\ pc' = "launch"
  <2>1. moff = Len(image.map) + 1
    BY <1>2, <1>3, <1>10
  <2>2. Loaded(image', high', gdt_dest', Len(image'.map) + 1)
    BY <1>1, <1>2, <2>1, Zenon
  <2>3. pc' = "launch"
    BY <1>10
  <2>4. QED
    BY <1>7, <2>2, <2>3 DEF Fine
<1>11. QED
  BY <1>8, <1>9, <1>10 DEF Load

\* Reading a record: only one past the last cylinder cannot be read.
LEMMA FineRead ==
  ASSUME GoodImage(image), Fine, ~trouble', SectorsRead \/ SectorsLost
  PROVE  Fine'
<1>1. UNCHANGED <<image, high, gdt_dest, map, moff, bsmith_counter, addr>> /\ pc = "sread"
  BY DEF SectorsRead, SectorsLost, diskVars
<1>2. /\ DOMAIN high = {i * SectorSize : i \in 0..(image.kernel - 1)}
      /\ map = image.map /\ moff \in 1..(Len(map) + 1)
      /\ bsmith_counter = BsmithCounter - (moff - 1)
      /\ moff # 1 /\ addr = map[moff - 1] /\ Loaded(image, high, gdt_dest, moff - 1)
  BY <1>1 DEF Fine
<1>3. CASE SectorsRead
  <2>1. pc' = "move" /\ buffer' = Data(addr)
    BY <1>3 DEF SectorsRead
  <2>2. Data(addr)' = Data(addr)
    BY <1>1, Zenon DEF Data
  <2>3. QED
    BY <1>1, <1>2, <2>1, <2>2 DEF Fine
<1>4. CASE SectorsLost
  <2>1. pc' = "dead" /\ trouble' = (trouble \/ Readable(addr))
    BY <1>4 DEF SectorsLost
  <2>2. ~Readable(addr)
    BY <2>1, Zenon
  <2>3. Chained(map, KernelStart(image)) /\ map \in Seq(Rec) /\ Len(map) \in Nat
    BY <1>2 DEF GoodImage, Chained
  <2>4. moff - 1 \in 1..Len(map) /\ DOMAIN map = 1..Len(map)
    BY <1>2, <2>3
  <2>5. addr \in Rec /\ Within(addr) + addr.num <= HEADS * SPT
    BY <1>2, <2>3, <2>4 DEF Chained
  <2>6. ~(addr.track < TRACKS)
    BY <2>2, <2>5 DEF Readable, Within, Rec
  <2>7. TooBig
    BY <1>2, <2>4, <2>6 DEF TooBig
  <2>8. TooBig'
    BY <1>1, <2>7 DEF TooBig
  <2>9. QED
    BY <1>1, <1>2, <2>1, <2>8 DEF Fine
<1>5. QED
  BY <1>3, <1>4

(* The addition in two parts adds: the carry of the lower 16 bits is not   *)
(* lost, whatever offset it starts from.                                   *)
LEMMA AddWordAdds ==
  ASSUME NEW d \in Int, NEW n \in Nat, n < LowWrap
  PROVE  AddWord(d, n) = d + n
<1> DEFINE L == LowWrap
           q == d \div L
           r == d % L
           low == r + n
           carry == IF low >= L THEN 1 ELSE 0
<1>1. L \in Nat \ {0}
  <2>1. L \in Nat
    BY LoaderAssumption
  <2> HIDE DEF L
  <2>2. QED
    BY <2>1 DEF L
<1>2. AddWord(d, n) = (q + carry) * L + (low % L)
  BY DEF AddWord
<1> HIDE DEF L
<1>3. q \in Int /\ r \in 0..(L - 1) /\ d = L * q + r
  BY <1>1
<1>4. n \in 0..(L - 1)
  BY <1>1 DEF L
<1> HIDE DEF q, r
<1>5. low \in Nat /\ low = r + n /\ low < 2 * L
  BY <1>1, <1>3, <1>4
<1> HIDE DEF low
<1>6. carry \in {0, 1} /\ low % L = low - carry * L
  <2>1. CASE low < L
    <3>1. carry = 0
      BY <1>1, <1>5, <2>1
    <3>2. low % L = low
      BY <1>1, <1>5, <2>1
    <3>3. QED
      BY <1>1, <1>5, <3>1, <3>2
  <2>2. CASE low >= L
    <3>1. carry = 1
      BY <2>2
    <3>2. low - L \in 0..(L - 1) /\ low = L * 1 + (low - L)
      BY <1>1, <1>5, <2>2
    <3>3. low % L = low - L
      BY <1>1, <1>5, <3>2
    <3>4. QED
      BY <1>1, <1>5, <3>1, <3>3
  <2>3. QED
    BY <1>1, <1>5, <2>1, <2>2
<1> HIDE DEF carry
<1>7. (q + carry) * L = L * q + carry * L
  BY <1>1, <1>3, <1>6
<1>8. L * q \in Int /\ carry * L \in Int /\ low % L \in Int
  BY <1>1, <1>3, <1>5, <1>6
<1>9. AddWord(d, n) = L * q + low
  BY <1>2, <1>5, <1>6, <1>7, <1>8
<1>10. QED
  BY <1>3, <1>5, <1>8, <1>9

\* The block move puts a record's sectors behind the ones before it.
LEMMA MovedBehind ==
  ASSUME GoodImage(image), Move, NEW m \in 1..Len(image.map),
         DOMAIN high = {i * SectorSize : i \in 0..(image.kernel - 1)},
         buffer = Data(image.map[m]), Loaded(image, high, gdt_dest, m)
  PROVE  Loaded(image, high', gdt_dest', m + 1)
<1> DEFINE a == image.map[m]  b == Behind(image, m)  n == a.num
           s == KernelStart(image)  S == SectorSize
<1>1. S \in Nat \ {0} /\ s \in Nat /\ image.kernel \in Nat
  BY KernelStartNat, Geometry
<1>2. Chained(image.map, s) /\ image.map \in Seq(Rec)
  BY DEF GoodImage, Chained
<1>3. a \in Rec /\ n \in Nat /\ Lba(a) \in Nat
  <2>1. a \in Rec
    BY <1>2
  <2>2. QED
    BY <2>1, Cylinder DEF Rec
<1>4. Lba(a) = s + b /\ b \in Int
  <2>1. Lba(a) = Start(image.map, s, m)
    BY <1>2 DEF Chained
  <2>2. b = Start(image.map, s, m) - s
    BY DEF Behind
  <2> HIDE DEF a, b, s
  <2>3. QED
    BY <1>1, <1>3, <2>1, <2>2
<1>5. Behind(image, m + 1) = b + n
  <2>1. m + 1 # 1 /\ (m + 1) - 1 = m
    OBVIOUS
  <2>2. Start(image.map, s, m + 1) = Lba(a) + n
    BY <2>1, Zenon DEF Start
  <2>3. Behind(image, m + 1) = Start(image.map, s, m + 1) - s
    BY DEF Behind
  <2> HIDE DEF a, b, s, n
  <2>4. QED
    BY <1>1, <1>3, <1>4, <2>2, <2>3
<1>6. gdt_dest = S * b
  BY DEF Loaded
<1>7. Len(buffer) = n /\ DOMAIN buffer = 1..n
      /\ \A x \in 1..n : Lba(a) + x \in DOMAIN image.disk => buffer[x] = image.disk[Lba(a) + x]
  BY <1>3, DataIs
<1>8. \A i \in 1..image.kernel :
        s + i \in DOMAIN image.disk /\ image.disk[s + i] = <<"kernel", i - 1>>
  BY DEF GoodImage
<1>9. /\ gdt_dest' = gdt_dest + Len(buffer) * (S \div 2) + Len(buffer) * (S \div 2)
      /\ high' = [o \in DOMAIN high |->
                    LET i == (o - gdt_dest) \div S + 1
                    IN  IF o >= gdt_dest /\ i \in DOMAIN buffer THEN buffer[i] ELSE high[o]]
  <2> DEFINE w == Len(buffer) * (S \div 2)
  <2>1. n <= CHUNKS
    <3>1. Within(a) + n <= HEADS * SPT
      BY <1>2 DEF Chained
    <3>2. Within(a) \in Nat
      BY <1>3, Cylinder
    <3> HIDE DEF a, n
    <3>3. QED
      BY <1>3, <3>1, <3>2, Geometry
  <2>2. S \div 2 \in Nat /\ CHUNKS * (S \div 2) < LowWrap /\ LowWrap \in Nat
    BY <1>1, LoaderAssumption
  <2>3. w \in Nat /\ w < LowWrap
    <3> DEFINE h == S \div 2
    <3>1. n * h <= CHUNKS * h /\ n * h \in Nat
      <4> HIDE DEF n, h
      <4>1. QED
        BY <1>3, <2>1, <2>2, Geometry DEF h
    <3>2. w = n * h
      BY <1>7
    <3> HIDE DEF n, h, w
    <3>3. CHUNKS * h < LowWrap /\ CHUNKS * h \in Nat
      BY <2>2, Geometry DEF h
    <3>4. QED
      BY <2>2, <3>1, <3>2, <3>3
  <2>4. gdt_dest \in Int
    <3> HIDE DEF b
    <3>1. QED
      BY <1>1, <1>4, <1>6
  <2>5. gdt_dest' = AddWord(AddWord(gdt_dest, w), w)
    BY DEF Move, DestAfterMove, WordCount
  <2> HIDE DEF w
  <2>6. AddWord(gdt_dest, w) = gdt_dest + w
    BY <2>3, <2>4, AddWordAdds
  <2>7. AddWord(gdt_dest + w, w) = gdt_dest + w + w
    <3>1. gdt_dest + w \in Int
      BY <2>3, <2>4
    <3>2. QED
      BY <2>3, <3>1, AddWordAdds
  <2>8. gdt_dest' = gdt_dest + Len(buffer) * (S \div 2) + Len(buffer) * (S \div 2)
    BY <2>5, <2>6, <2>7 DEF w
  <2>9. QED
    BY <2>8 DEF Move
<1> HIDE DEF a, b, n, s
<1>10. gdt_dest' = S * (b + n)
  <2>1. S = (S \div 2) + (S \div 2) /\ S \div 2 \in Nat
    <3>1. S \in Nat /\ S % 2 = 0
      BY LoaderAssumption
    <3> HIDE DEF S
    <3>2. QED
      BY <3>1
  <2> DEFINE h == S \div 2
  <2>2. h \in Nat /\ S = h + h
    BY <2>1
  <2> HIDE DEF h, S
  <2>3. n * h + n * h = S * n
    BY <1>3, <2>2
  <2>4. S * (b + n) = S * b + S * n
    BY <1>1, <1>3, <1>4
  <2>5. gdt_dest' = S * b + n * h + n * h
    BY <1>6, <1>7, <1>9 DEF h
  <2> DEFINE x == S * b  y == n * h  z == S * n
  <2>6. x \in Int /\ y \in Int /\ z \in Int
    BY <1>1, <1>3, <1>4, <2>2
  <2>7. gdt_dest' = x + y + y /\ y + y = z /\ S * (b + n) = x + z
    BY <2>3, <2>4, <2>5
  <2> HIDE DEF x, y, z
  <2>8. QED
    BY <2>6, <2>7
<1>11. ASSUME NEW i \in 0..(image.kernel - 1), i < b + n
       PROVE  high'[i * S] = <<"kernel", i>>
  <2> DEFINE o == i * S
  <2>1. o \in DOMAIN high
    OBVIOUS
  <2>2. i \in Int /\ i >= 0 /\ o \in Int
    BY <1>1
  <2> HIDE DEF S
  <2>3. (o - gdt_dest) \div S = i - b
    <3> DEFINE d == i - b
    <3>1. d \in Int
      BY <1>4, <2>2
    <3>2. i * S - S * b = S * d
      BY <1>1, <1>4, <2>2
    <3> HIDE DEF d
    <3>3. (S * d) \div S = d
      BY <1>1, <3>1
    <3>4. QED
      BY <1>6, <3>2, <3>3 DEF d
  <2>4. o >= gdt_dest <=> i >= b
    <3>1. CASE i >= b
      <4>1. i * S >= b * S
        BY <1>1, <1>4, <2>2, <3>1
      <4>2. b * S = S * b
        BY <1>1, <1>4
      <4>3. QED
        BY <1>6, <3>1, <4>1, <4>2
    <3>2. CASE ~(i >= b)
      <4>1. i + 1 <= b
        BY <1>4, <2>2, <3>2
      <4>2. (i + 1) * S <= b * S
        BY <1>1, <1>4, <2>2, <4>1
      <4>3. (i + 1) * S = i * S + S /\ b * S = S * b
        BY <1>1, <1>4, <2>2
      <4> DEFINE x == i * S  y == S * b
      <4>4. x \in Int /\ y \in Int /\ x + S <= y
        BY <1>1, <1>4, <2>2, <4>2, <4>3
      <4> HIDE DEF x, y
      <4>5. ~(x >= y)
        BY <1>1, <4>4
      <4>6. QED
        BY <1>6, <3>2, <4>5 DEF x, y
    <3>3. QED
      BY <3>1, <3>2
  <2> HIDE DEF o
  <2>5. high'[o] = IF i >= b /\ i - b + 1 \in 1..n THEN buffer[i - b + 1] ELSE high[o]
    BY <1>7, <1>9, <2>1, <2>3, <2>4
  <2>6. CASE i >= b
    <3> DEFINE x == i - b + 1
    <3>1. x \in 1..n
      BY <1>3, <1>4, <1>11, <2>2, <2>6
    <3>2. Lba(a) + x = s + (i + 1) /\ i + 1 \in 1..image.kernel /\ (i + 1) - 1 = i
      BY <1>1, <1>4, <2>2
    <3>3. buffer[x] = <<"kernel", i>>
      BY <1>7, <1>8, <3>1, <3>2
    <3>4. QED
      BY <2>5, <2>6, <3>1, <3>3 DEF o
  <2>7. CASE ~(i >= b)
    <3>1. i < b
      BY <1>4, <2>2, <2>7
    <3>2. high[i * SectorSize] = <<"kernel", i>>
      BY <3>1 DEF Loaded, b
    <3>3. high'[o] = high[o]
      BY <2>5, <2>7
    <3>4. QED
      BY <3>2, <3>3 DEF o, S
  <2>8. QED
    BY <2>6, <2>7
<1>12. QED
  BY <1>5, <1>10, <1>11 DEF Loaded

\* The block move.
LEMMA FineMove ==
  ASSUME GoodImage(image), Fine, ~trouble', Move \/ MoveLost
  PROVE  Fine'
<1>1. Move
  BY DEF MoveLost
<1>2. UNCHANGED <<image, map, moff, bsmith_counter>> /\ pc = "move" /\ pc' = "load"
  BY <1>1 DEF Move
<1>3. /\ DOMAIN high = {i * SectorSize : i \in 0..(image.kernel - 1)}
      /\ map = image.map /\ moff \in 1..(Len(map) + 1)
      /\ bsmith_counter = BsmithCounter - (moff - 1)
      /\ moff # 1 /\ addr = map[moff - 1] /\ Loaded(image, high, gdt_dest, moff - 1)
      /\ buffer = Data(addr)
  BY <1>2 DEF Fine
<1>4. Len(map) \in Nat
  BY <1>3 DEF GoodImage, Chained
<1>5. moff - 1 \in 1..Len(image.map) /\ (moff - 1) + 1 = moff
  BY <1>3, <1>4
<1>6. Loaded(image, high', gdt_dest', moff)
  <2>1. Loaded(image, high', gdt_dest', (moff - 1) + 1)
    BY <1>1, <1>3, <1>5, MovedBehind
  <2>2. QED
    BY <1>5, <2>1
<1>7. DOMAIN high' = DOMAIN high
  BY <1>1 DEF Move
<1>8. Loaded(image', high', gdt_dest', moff')
  BY <1>2, <1>6
<1>9. DOMAIN high' = {i * SectorSize : i \in 0..(image'.kernel - 1)}
  BY <1>2, <1>3, <1>7
<1>10. /\ map' = image'.map /\ moff' \in 1..(Len(map') + 1)
       /\ bsmith_counter' = BsmithCounter - (moff' - 1)
  BY <1>2, <1>3
<1>11. QED
  BY <1>2, <1>8, <1>9, <1>10 DEF Fine

\* Trouble stays.
LEMMA TroubleStays ==
  ASSUME trouble \in BOOLEAN, [Next]_vars
  PROVE  trouble' \in BOOLEAN /\ (trouble => trouble') /\ UNCHANGED image
<1>1. CASE LoaderNext
  <2>1. CASE BootsectRead \/ BootsectError \/ SecondStart
    BY <2>1 DEF BootsectRead, BootsectError, SecondStart
  <2>2. CASE Int13Retry \/ MapRead \/ Load \/ SectorsRead \/ Move
    BY <2>2 DEF Int13Retry, MapRead, Load, SectorsRead, Move
  <2>3. CASE MapLost \/ SectorsLost
    <3>1. trouble' = (trouble \/ Readable(addr)) /\ UNCHANGED image
      BY <2>3, Zenon DEF MapLost, SectorsLost
    <3>2. QED
      BY <3>1, Zenon
  <2>4. CASE MoveLost
    BY <2>4 DEF MoveLost
  <2>5. QED
    BY <1>1, <2>1, <2>2, <2>3, <2>4 DEF LoaderNext, SecondStage
<1>2. CASE Multiboot \/ StartUp
  BY <1>2 DEF Multiboot, StartUp, Launch, Double, Approximate
<1>3. CASE Over \/ UNCHANGED vars
  BY <1>3 DEF Over, vars, loaderVars
<1>4. QED
  BY <1>1, <1>2, <1>3 DEF Next

\* Every step keeps the loader's invariant.
LEMMA LoaderStep == LoaderInv /\ [Next]_vars => LoaderInv'
<1> SUFFICES ASSUME LoaderInv, [Next]_vars
             PROVE  LoaderInv'
  OBVIOUS
<1>1. trouble \in BOOLEAN /\ GoodImage(image) /\ (trouble \/ Fine)
  BY DEF LoaderInv
<1>2. trouble' \in BOOLEAN /\ (trouble => trouble') /\ UNCHANGED image
  BY <1>1, TroubleStays
<1>3. GoodImage(image)'
  BY <1>1, <1>2 DEF GoodImage, Readable
<1>4. ASSUME ~trouble'
      PROVE  Fine'
  <2>1. Fine
    BY <1>1, <1>2, <1>4
  <2>2. CASE BootsectRead \/ BootsectError \/ SecondStart
    BY <1>1, <2>1, <2>2, FineBootsect
  <2>3. CASE Int13Retry \/ MapRead \/ MapLost
    BY <1>1, <1>4, <2>1, <2>3, FineMap
  <2>4. CASE Load
    BY <1>1, <2>1, <2>4, FineLoad
  <2>5. CASE SectorsRead \/ SectorsLost
    BY <1>1, <1>4, <2>1, <2>5, FineRead
  <2>6. CASE Move \/ MoveLost
    BY <1>1, <1>4, <2>1, <2>6, FineMove
  <2>7. CASE Multiboot \/ StartUp
    <3>1. UNCHANGED high /\ pc' \in {"double", "approximate", "run"}
      BY <2>7 DEF Multiboot, StartUp, Launch, StartKernel, Double, Approximate, diskVars
    <3>2. DOMAIN high = {i * SectorSize : i \in 0..(image.kernel - 1)}
      BY <2>1 DEF Fine
    <3>3. QED
      BY <1>2, <3>1, <3>2 DEF Fine
  <2>8. CASE Over \/ UNCHANGED vars
    <3>1. UNCHANGED loaderVars
      BY <2>8 DEF Over, vars
    <3>2. Fine' <=> Fine
      BY <3>1 DEF loaderVars, Fine, Data, TooBig
    <3>3. QED
      BY <2>1, <3>2
  <2>9. QED
    BY <2>2, <2>3, <2>4, <2>5, <2>6, <2>7, <2>8 DEF Next, LoaderNext, SecondStage
<1>5. QED
  BY <1>2, <1>3, <1>4 DEF LoaderInv

\* The loader's invariant holds.
LEMMA LoaderIsFine == Spec => []LoaderInv
<1>1. Init => LoaderInv
  BY FineStart DEF Init
<1>2. QED
  BY <1>1, LoaderStep, PTL DEF Spec

(* second.S starts the kernel of the image, every sector in its place, for *)
(* every size of the two files, every disk geometry and every error of the *)
(* BIOS, unless the map was lost for good.                                 *)
THEOREM KernelLoadedCorrect == Spec => []KernelLoaded
<1>1. LoaderInv => KernelLoaded
  <2> SUFFICES ASSUME LoaderInv, pc = "launch", ~trouble,
                      NEW i \in 0..(image.kernel - 1)
               PROVE  high[i * SectorSize] = <<"kernel", i>>
    BY DEF KernelLoaded
  <2>1. GoodImage(image) /\ Fine
    BY DEF LoaderInv
  <2>2. Loaded(image, high, gdt_dest, Len(image.map) + 1)
    BY <2>1 DEF Fine
  <2>3. Behind(image, Len(image.map) + 1) = image.kernel
    <3> DEFINE s == KernelStart(image)  k == image.kernel
    <3>1. s \in Nat /\ k \in Nat
      BY <2>1, KernelStartNat
    <3>2. Start(image.map, s, Len(image.map) + 1) = s + k
      BY <2>1 DEF GoodImage
    <3> HIDE DEF s, k
    <3>3. (s + k) - s = k
      BY <3>1
    <3>4. QED
      BY <3>2, <3>3, Zenon DEF Behind, s, k
  <2>4. image.kernel \in Nat
    BY <2>1 DEF GoodImage
  <2>5. QED
    BY <2>2, <2>3, <2>4 DEF Loaded
<1>2. QED
  BY <1>1, LoaderIsFine, PTL

(* second.S gives up only if the hardware fails for good or the image is   *)
(* larger than the disk: no record asks for what cannot be read with one   *)
(* call, and bsmith_counter never ends the loading.                        *)
THEOREM GivesUpOnErrorsCorrect == Spec => []GivesUpOnErrors
<1>1. LoaderInv => GivesUpOnErrors
  BY DEF LoaderInv, Fine, GivesUpOnErrors
<1>2. QED
  BY <1>1, LoaderIsFine, PTL
==============================================================================
