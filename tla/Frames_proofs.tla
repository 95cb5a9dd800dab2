---------------------------- MODULE Frames_proofs ----------------------------
(***************************************************************************)
(* Input implements Task and Frames implements Input: the keyboard and the *)
(* stacks are added to the kernel model and take nothing away from it, so  *)
(* what is proved of the scheduler holds with them.                        *)
(*                                                                         *)
(* What the ring holds is what was typed, as far as it was not typed while *)
(* get_buffer() was taking a character out; and the stacks hold what the   *)
(* entry and exit code takes them to hold, so a result goes to the call    *)
(* that it belongs to.                                                     *)
(***************************************************************************)
EXTENDS Frames, Task_proofs, SequenceTheorems

-----------------------------------------------------------------------------
(* The keyboard buffer.                                                    *)

\* A step of Input is a step of Task.
LEMMA InputStep == InputNext => [Next]_vars
<1> SUFFICES ASSUME InputNext
             PROVE  [Next]_vars
  OBVIOUS
<1> USE QueueAssumption DEF Next, Kernel
<1>1. CASE KeyLetter \/ KeyOther
  BY <1>1 DEF KeyLetter, KeyOther
<1>2. CASE Getch
  BY <1>2 DEF Getch
<1>3. CASE GetBufferTest \/ GetBufferRead \/ GetBufferStart \/ GetBufferSize
  BY <1>3 DEF GetBufferTest, GetBufferRead, GetBufferStart, GetBufferSize
<1>4. CASE GetchBlock \/ GetchReturn
  BY <1>4 DEF GetchBlock, GetchReturn, Queue
<1>5. CASE Elsewhere
  BY <1>5 DEF Elsewhere, Queue
<1>6. QED
  BY <1>1, <1>2, <1>3, <1>4, <1>5 DEF InputNext, GetchStep

(* Every step of the kernel with its keyboard is a step of the scheduler   *)
(* model or does not concern it.                                           *)
THEOREM InputImplementsTask == InputSpec => Spec
<1>1. InputInit => Init
  BY DEF InputInit
<1>2. [InputNext]_allVars => [Next]_vars
  BY InputStep DEF allVars
<1>3. QED
  BY <1>1, <1>2, PTL DEF InputSpec, Spec

(* So every queue getch() sleeps on is intact under the real callers too.  *)
THEOREM InputWaitQueues == InputSpec => []WaitQueuesOK
  BY InputImplementsTask, WaitQueuesCorrect, PTL

-----------------------------------------------------------------------------
\* Once get_buffer() has seen a character, the handler can only add more, and
\* move the start on.
RingInv ==
  /\ buffer_size \in 0..BufferSize
  /\ r_size \in Nat
  /\ InGetBuffer => r_size >= 1 /\ r_size <= buffer_size
  /\ buffer_start \in Nat /\ r_start \in Nat
  /\ where = "start" => r_start <= buffer_start

\* No step breaks RingInv.
LEMMA RingInvStep == RingInv /\ [InputNext]_allVars => RingInv'
<1> SUFFICES ASSUME RingInv, [InputNext]_allVars
             PROVE  RingInv'
  OBVIOUS
<1> USE InputAssumption DEF RingInv, InGetBuffer
<1>1. CASE KeyLetter
  BY <1>1 DEF KeyLetter, AddBuffer, readerVars
<1>2. CASE KeyOther
  BY <1>2 DEF KeyOther, inputVars, bufferVars, readerVars
<1>3. CASE Getch
  BY <1>3 DEF Getch, bufferVars
<1>4. CASE GetBufferTest
  BY <1>4 DEF GetBufferTest, AtReader, bufferVars
<1>5. CASE GetBufferRead
  BY <1>5 DEF GetBufferRead, AtReader, bufferVars
<1>6. CASE GetBufferStart
  BY <1>6 DEF GetBufferStart, AtReader
<1>7. CASE GetBufferSize
  BY <1>7 DEF GetBufferSize, AtReader
<1>8. CASE GetchBlock \/ GetchReturn
  BY <1>8 DEF GetchBlock, GetchReturn, bufferVars
<1>9. CASE Elsewhere
  BY <1>9 DEF Elsewhere, inputVars, bufferVars, readerVars
<1>10. CASE UNCHANGED allVars
  BY <1>10 DEF allVars, inputVars, bufferVars, readerVars
<1>11. QED
  BY <1>1, <1>2, <1>3, <1>4, <1>5, <1>6, <1>7, <1>8, <1>9, <1>10 DEF InputNext, GetchStep

(* The count of the input ring stays between 0 and BUFFER_SIZE whatever    *)
(* interrupts get_buffer(), for every size of the ring.                    *)
THEOREM RingBoundedCorrect == InputSpec => []RingBounded
<1>1. InputInit => RingInv
  BY InputAssumption DEF InputInit, RingInv, InGetBuffer
<1>2. RingInv => RingBounded
  BY DEF RingInv, RingBounded
<1>3. QED
  BY <1>1, <1>2, RingInvStep, PTL DEF InputSpec

-----------------------------------------------------------------------------
\* An index modulo BUFFER_SIZE is a slot.
LEMMA SlotOf == ASSUME NEW n \in Nat PROVE n % BufferSize \in Slot
  BY InputAssumption DEF Slot

\* No step breaks the types.
LEMMA InputTypeStep == InputTypeOK /\ RingInv /\ [InputNext]_allVars => InputTypeOK'
<1> SUFFICES ASSUME InputTypeOK, RingInv, [InputNext]_allVars
             PROVE  InputTypeOK'
  OBVIOUS
<1> USE InputAssumption DEF InputTypeOK
<1>1. CASE KeyLetter
  <2>1. typed' = typed + 1 /\ typed' \in 0..MaxKeys
    BY <1>1 DEF KeyLetter
  <2>2. EndSlot \in Slot
    <3>1. buffer_start + buffer_size \in Nat
      OBVIOUS
    <3>2. QED
      BY <3>1, SlotOf, Zenon DEF EndSlot
  <2>3. 0..typed \subseteq 0..typed' /\ typed' \in 0..typed'
    BY <2>1
  <2>4. buffer' \in [Slot -> 0..typed']
    <3>1. buffer' = [buffer EXCEPT ![EndSlot] = typed']
      BY <1>1, <2>1 DEF KeyLetter, AddBuffer
    <3>2. QED
      BY <2>2, <2>3, <3>1
  <2>5. buffer_start' \in Nat /\ buffer_size' \in Nat
    BY <1>1 DEF KeyLetter, AddBuffer
  <2>6. disturbed' \in BOOLEAN /\ sound' \in Nat /\ lost' \in Nat
    <3>1. disturbed' \in BOOLEAN
      BY <1>1 DEF KeyLetter, Record
    <3>2. sound' \in {sound, sound + 1} \/ (sound > 0 /\ sound' = sound - 1)
      BY <1>1 DEF KeyLetter, Record
    <3>3. lost' \in {lost, lost + 1}
      BY <1>1 DEF KeyLetter, Record
    <3>4. QED
      BY <3>1, <3>2, <3>3
  <2>7. UNCHANGED <<where, r_start, r_size, c, got>>
    BY <1>1 DEF KeyLetter, readerVars
  <2>8. c' \in 0..typed' /\ got' \in 0..typed'
    BY <2>3, <2>7
  <2>9. QED
    BY <2>1, <2>4, <2>5, <2>6, <2>7, <2>8
<1>2. CASE KeyOther
  BY <1>2 DEF KeyOther, inputVars, bufferVars, readerVars, historyVars
<1>3. CASE Getch
  BY <1>3 DEF Getch, bufferVars, historyVars
<1>4. CASE GetBufferTest
  <2>1. typed - got \in Nat
    OBVIOUS
  <2>2. CASE buffer_size = 0
    BY <1>4, <2>1, <2>2 DEF GetBufferTest, bufferVars
  <2>3. CASE buffer_size # 0
    BY <1>4, <2>3 DEF GetBufferTest, bufferVars, historyVars
  <2>4. QED
    BY <2>2, <2>3
<1>5. CASE GetBufferRead
  <2>1. buffer[buffer_start % BufferSize] \in 0..typed
    BY SlotOf
  <2>2. QED
    BY <1>5, <2>1 DEF GetBufferRead, bufferVars
<1>6. CASE GetBufferStart
  <2>1. PICK s \in {buffer_start, r_start} :
          /\ buffer_start' = s + 1 /\ lost' = s - r_start
          /\ sound' = IF s + 1 < buffer_start THEN 0 ELSE sound
    BY <1>6 DEF GetBufferStart
  <2>2. lost' \in Nat
    BY <1>6, <2>1 DEF GetBufferStart, AtReader, RingInv
  <2>3. QED
    BY <1>6, <2>1, <2>2 DEF GetBufferStart
<1>7. CASE GetBufferSize
  BY <1>7 DEF GetBufferSize, AtReader, RingInv, InGetBuffer
<1>8. CASE GetchBlock \/ GetchReturn
  BY <1>8 DEF GetchBlock, GetchReturn, bufferVars, historyVars
<1>9. CASE Elsewhere
  BY <1>9 DEF Elsewhere, inputVars, bufferVars, readerVars, historyVars
<1>10. CASE UNCHANGED allVars
  BY <1>10 DEF allVars, inputVars, bufferVars, readerVars, historyVars
<1>11. QED
  BY <1>1, <1>2, <1>3, <1>4, <1>5, <1>6, <1>7, <1>8, <1>9, <1>10 DEF InputNext, GetchStep

(* The ring of kernel/keyboard.c, and the registers of the get_buffer() it *)
(* interrupts, keep their types; no count becomes negative.                *)
THEOREM InputTypeCorrect == InputSpec => []InputTypeOK
<1>1. InputInit => InputTypeOK /\ RingInv
  <2> SUFFICES ASSUME InputInit PROVE InputTypeOK /\ RingInv
    OBVIOUS
  <2>1. typed = 0 /\ buffer \in [Slot -> 0..typed]
    BY InputAssumption DEF InputInit
  <2>2. RingInv
    BY InputAssumption DEF InputInit, RingInv, InGetBuffer
  <2>3. buffer_start \in Nat /\ buffer_size \in Nat /\ r_start \in Nat /\ r_size \in Nat
    BY DEF InputInit
  <2>4. c \in 0..typed /\ got \in 0..typed /\ typed \in 0..MaxKeys
    BY InputAssumption DEF InputInit
  <2>5. where = "out" /\ disturbed \in BOOLEAN /\ sound \in Nat /\ lost \in Nat
    BY DEF InputInit
  <2>6. QED
    BY <2>1, <2>2, <2>3, <2>4, <2>5 DEF InputTypeOK
<1>2. QED
  BY <1>1, RingInvStep, InputTypeStep, PTL DEF InputSpec

-----------------------------------------------------------------------------
\* No multiple of BUFFER_SIZE lies strictly between 0 and it.
LEMMA NoMultiple ==
  ASSUME NEW k \in Int
  PROVE  ~(0 < BufferSize * k /\ BufferSize * k < BufferSize)
<1>1. CASE k <= 0
  BY <1>1, InputAssumption
<1>2. CASE k >= 1
  BY <1>2, InputAssumption
<1>3. QED
  BY <1>1, <1>2

(* Fewer than BUFFER_SIZE positions in a row are different slots.          *)
LEMMA SlotsDiffer ==
  ASSUME NEW m \in Nat, NEW n \in Nat, m < n, n < m + BufferSize
  PROVE  m % BufferSize # n % BufferSize
<1> SUFFICES ASSUME m % BufferSize = n % BufferSize
             PROVE  FALSE
  OBVIOUS
<1>1. n - m = BufferSize * (n \div BufferSize - m \div BufferSize)
  BY InputAssumption
<1>2. n \div BufferSize - m \div BufferSize \in Int
  BY InputAssumption
<1>3. 0 < n - m /\ n - m < BufferSize
  BY InputAssumption
<1>4. QED
  BY <1>1, <1>2, <1>3, NoMultiple

\* The inductive invariant behind NothingLost: what is sound in the ring at every
\* instruction of get_buffer(), and how far its registers are behind.  Between
\* the load of c and the store of buffer_start the slot of c is still counted,
\* and buffer_size counts it one instruction longer.
LostInv ==
  /\ sound <= buffer_size
  /\ ~disturbed => sound = buffer_size
  /\ InGetBuffer => sound <= r_size
  /\ InGetBuffer /\ ~disturbed => r_size = buffer_size
  /\ where \notin {"start", "size"} =>
       /\ \A i \in 0..(sound - 1) :
            buffer[(buffer_start + i) % BufferSize] = got + lost + 1 + i
       /\ ~disturbed => typed = got + lost + buffer_size
  /\ where = "start" =>
       /\ \A i \in 0..(sound - 1) : buffer[(buffer_start + i) % BufferSize] = c + lost + i
       /\ lost = buffer_start - r_start
  /\ where = "size" =>
       \A i \in 0..(sound - 2) : buffer[(buffer_start + i) % BufferSize] = c + lost + 1 + i
  /\ where \in {"start", "size"} =>
       /\ sound > 0 => c > 0
       /\ ~disturbed => lost = 0 /\ typed = c + buffer_size - 1

\* A new character does not touch the n slots from the one at m on, if that is
\* at or behind the start and there is room for them in front of the new one.
LEMMA SlotsKept ==
  ASSUME InputTypeOK, RingInv, KeyLetter, NEW m \in Nat, NEW n \in Nat,
         buffer_start <= m, m + n <= buffer_start + buffer_size,
         m > buffer_start \/ buffer_size < BufferSize
  PROVE  \A i \in 0..(n - 1) :
           buffer'[(m + i) % BufferSize] = buffer[(m + i) % BufferSize]
<1> USE InputAssumption
<1>1. /\ buffer_start \in Nat /\ buffer_size \in 0..BufferSize /\ BufferSize \in Nat \ {0}
      /\ DOMAIN buffer = Slot /\ buffer' = [buffer EXCEPT ![EndSlot] = typed + 1]
  BY DEF InputTypeOK, RingInv, KeyLetter, AddBuffer
<1> SUFFICES ASSUME NEW i \in 0..(n - 1)
             PROVE  buffer'[(m + i) % BufferSize] = buffer[(m + i) % BufferSize]
  OBVIOUS
<1>2. /\ m + i \in Nat /\ buffer_start + buffer_size \in Nat
      /\ m + i < buffer_start + buffer_size
      /\ buffer_start + buffer_size < m + i + BufferSize
  BY <1>1
<1>3. (m + i) % BufferSize # EndSlot
  BY <1>2, SlotsDiffer DEF EndSlot
<1>4. QED
  BY <1>1, <1>3

\* A character keeps LostInv.
LEMMA LostKeyLetter == ASSUME InputTypeOK, RingInv, LostInv, KeyLetter PROVE LostInv'
<1> USE InputAssumption
<1>1. /\ buffer_start \in Nat /\ buffer_size \in Nat /\ buffer_size <= BufferSize
      /\ BufferSize \in Nat \ {0} /\ c \in Nat /\ got \in Nat /\ typed \in Nat
      /\ sound \in Nat /\ lost \in Nat /\ r_size \in Nat /\ r_start \in Nat
      /\ disturbed \in BOOLEAN /\ DOMAIN buffer = Slot
  BY DEF InputTypeOK, RingInv
<1>2. /\ typed' = typed + 1 /\ buffer' = [buffer EXCEPT ![EndSlot] = typed + 1]
      /\ UNCHANGED <<where, r_start, r_size, c, got>>
  BY DEF KeyLetter, AddBuffer, readerVars
<1>3. EndSlot \in Slot /\ buffer'[EndSlot] = typed + 1
  <2>1. buffer_start + buffer_size \in Nat
    BY <1>1
  <2>2. EndSlot \in Slot
    BY <2>1, SlotOf DEF EndSlot
  <2>3. QED
    BY <1>1, <1>2, <2>2
<1>4. CASE buffer_size < BufferSize
  <2>1. /\ buffer_size' = buffer_size + 1 /\ buffer_start' = buffer_start /\ lost' = lost
        /\ disturbed' = (disturbed \/ InGetBuffer)
        /\ sound' = IF disturbed' THEN sound ELSE sound + 1
    BY <1>4 DEF KeyLetter, AddBuffer, Record
  <2>2. \A i \in 0..(sound - 1) : buffer'[(buffer_start + i) % BufferSize]
                                    = buffer[(buffer_start + i) % BufferSize]
    <3>1. buffer_start + sound <= buffer_start + buffer_size
      BY <1>1 DEF LostInv
    <3>2. QED
      BY <1>1, <1>4, <3>1, SlotsKept
  <2>3. CASE disturbed'
    <3>1. sound' = sound
      BY <2>1, <2>3
    <3>2. /\ sound' <= buffer_size' /\ (InGetBuffer => sound' <= r_size')
          /\ where = "start" => lost' = buffer_start' - r_start'
          /\ where \in {"start", "size"} /\ sound' > 0 => c' > 0
      BY <1>1, <1>2, <2>1, <3>1 DEF LostInv
    <3>3. where \notin {"start", "size"} =>
            \A i \in 0..(sound - 1) :
              buffer'[(buffer_start + i) % BufferSize] = got + lost + 1 + i
      BY <2>2 DEF LostInv
    <3>4. where = "start" =>
            \A i \in 0..(sound - 1) :
              buffer'[(buffer_start + i) % BufferSize] = c + lost + i
      BY <2>2 DEF LostInv
    <3>5. where = "size" =>
            \A i \in 0..(sound - 2) :
              buffer'[(buffer_start + i) % BufferSize] = c + lost + 1 + i
      <4>1. \A i \in 0..(sound - 2) : i \in 0..(sound - 1)
        BY <1>1
      <4>2. QED
        BY <2>2, <4>1 DEF LostInv
    <3>6. QED
      BY <1>2, <2>1, <2>3, <3>1, <3>2, <3>3, <3>4, <3>5 DEF LostInv, InGetBuffer
  <2>4. CASE ~disturbed'
    <3>1. /\ ~disturbed /\ ~InGetBuffer /\ sound' = sound + 1
          /\ sound = buffer_size /\ typed = got + lost + buffer_size
      BY <2>1, <2>4 DEF LostInv, InGetBuffer
    <3>2. ASSUME NEW i \in 0..sound
          PROVE  buffer'[(buffer_start + i) % BufferSize] = got + lost + 1 + i
      <4>1. CASE i = sound
        BY <1>1, <1>3, <3>1, <4>1 DEF EndSlot
      <4>2. CASE i # sound
        <5>1. i \in 0..(sound - 1)
          BY <1>1, <4>2
        <5>2. buffer[(buffer_start + i) % BufferSize] = got + lost + 1 + i
          BY <3>1, <5>1 DEF LostInv, InGetBuffer
        <5>3. QED
          BY <2>2, <5>1, <5>2
      <4>3. QED
        BY <4>1, <4>2
    <3>3. sound' - 1 = sound /\ typed' = got + lost + buffer_size'
      BY <1>1, <1>2, <2>1, <3>1
    <3>4. QED
      BY <1>1, <1>2, <2>1, <3>1, <3>2, <3>3 DEF LostInv, InGetBuffer
  <2>5. QED
    BY <2>3, <2>4
<1>5. CASE buffer_size = BufferSize
  <2>1. /\ buffer_size' = buffer_size /\ buffer_start' = buffer_start + 1 /\ lost' = lost + 1
        /\ disturbed' = (disturbed \/ where \in {"start", "size"})
        /\ sound' = IF disturbed' /\ sound > 0 THEN sound - 1 ELSE sound
    BY <1>1, <1>5 DEF KeyLetter, AddBuffer, Record
  <2>2. \A i \in 0..(sound - 2) : buffer'[(buffer_start + 1 + i) % BufferSize]
                                    = buffer[(buffer_start + (i + 1)) % BufferSize]
    <3>1. CASE sound = 0
      BY <3>1
    <3>2. CASE sound # 0
      <4>1. /\ buffer_start + 1 \in Nat /\ sound - 1 \in Nat
            /\ buffer_start + 1 + (sound - 1) <= buffer_start + buffer_size
            /\ buffer_start <= buffer_start + 1 /\ buffer_start + 1 > buffer_start
            /\ sound - 1 - 1 = sound - 2
        BY <1>1, <3>2 DEF LostInv
      <4>2. \A i \in 0..(sound - 2) : buffer'[(buffer_start + 1 + i) % BufferSize]
                                        = buffer[(buffer_start + 1 + i) % BufferSize]
        BY <4>1, SlotsKept
      <4>3. \A i \in 0..(sound - 2) : buffer_start + 1 + i = buffer_start + (i + 1)
        BY <1>1
      <4>4. QED
        BY <4>2, <4>3
    <3>3. QED
      BY <3>1, <3>2
  <2>3. \A i \in 0..(sound - 2) : i + 1 \in 0..(sound - 1)
    BY <1>1
  <2>4. CASE where \in {"start", "size"}
    <3>1. disturbed' /\ sound' = (IF sound > 0 THEN sound - 1 ELSE 0) /\ where' = where
      <4>1. disturbed' /\ where' = where
        BY <1>2, <2>1, <2>4
      <4>2. sound' = (IF sound > 0 THEN sound - 1 ELSE sound)
        BY <2>1, <4>1
      <4>3. QED
        BY <1>1, <4>1, <4>2
    <3>2. sound' - 1 <= sound - 2 \/ sound' = 0
      BY <1>1, <3>1
    <3>3. CASE where = "start"
      <4>1. ASSUME NEW i \in 0..(sound' - 1)
            PROVE  buffer'[(buffer_start' + i) % BufferSize] = c + lost' + i
        <5>1. i \in 0..(sound - 2)
          BY <1>1, <3>1
        <5>2. buffer[(buffer_start + (i + 1)) % BufferSize] = c + lost + (i + 1)
          BY <2>3, <3>3, <5>1 DEF LostInv
        <5>3. c + lost + (i + 1) = c + lost' + i
          BY <1>1, <2>1
        <5>4. QED
          BY <2>1, <2>2, <5>1, <5>2, <5>3
      <4>2. lost' = buffer_start' - r_start'
        BY <1>1, <1>2, <2>1, <3>3 DEF LostInv
      <4>3. sound' <= buffer_size' /\ sound' <= r_size' /\ (sound' > 0 => c' > 0)
        BY <1>1, <1>2, <2>1, <3>1, <3>3 DEF LostInv, InGetBuffer
      <4>4. QED
        BY <1>2, <3>1, <3>3, <4>1, <4>2, <4>3 DEF LostInv, InGetBuffer
    <3>4. CASE where = "size"
      <4>1. ASSUME NEW i \in 0..(sound' - 2)
            PROVE  buffer'[(buffer_start' + i) % BufferSize] = c + lost' + 1 + i
        <5>1. i \in 0..(sound - 2) /\ i + 1 \in 0..(sound - 2)
          BY <1>1, <3>1
        <5>2. buffer[(buffer_start + (i + 1)) % BufferSize] = c + lost + 1 + (i + 1)
          BY <3>4, <5>1 DEF LostInv
        <5>3. c + lost + 1 + (i + 1) = c + lost' + 1 + i
          BY <1>1, <2>1
        <5>4. QED
          BY <2>1, <2>2, <5>1, <5>2, <5>3
      <4>2. sound' <= buffer_size' /\ sound' <= r_size' /\ (sound' > 0 => c' > 0)
        BY <1>1, <1>2, <2>1, <3>1, <3>4 DEF LostInv, InGetBuffer
      <4>3. QED
        BY <1>2, <3>1, <3>4, <4>1, <4>2 DEF LostInv, InGetBuffer
    <3>5. QED
      BY <2>4, <3>3, <3>4
  <2>5. CASE where \notin {"start", "size"}
    <3>1. where' = where /\ disturbed' = disturbed
      BY <1>1, <1>2, <2>1, <2>5
    <3>2. ASSUME NEW i \in 0..(sound - 2)
          PROVE  buffer'[(buffer_start' + i) % BufferSize] = got + lost' + 1 + i
      <4>1. buffer[(buffer_start + (i + 1)) % BufferSize] = got + lost + 1 + (i + 1)
        BY <2>3, <2>5 DEF LostInv
      <4>2. got + lost + 1 + (i + 1) = got + lost' + 1 + i
        BY <1>1, <2>1
      <4>3. QED
        BY <2>1, <2>2, <4>1, <4>2
    <3>3. CASE disturbed
      <4>1. sound' = (IF sound > 0 THEN sound - 1 ELSE 0)
        <5>1. sound' = (IF sound > 0 THEN sound - 1 ELSE sound)
          BY <2>1, <3>1, <3>3
        <5>2. QED
          BY <1>1, <5>1
      <4>2. \A i \in 0..(sound' - 1) : i \in 0..(sound - 2)
        BY <1>1, <4>1
      <4>3. sound' <= buffer_size' /\ (InGetBuffer => sound' <= r_size')
        BY <1>1, <1>2, <2>1, <4>1 DEF LostInv
      <4>4. QED
        BY <1>2, <2>5, <3>1, <3>2, <3>3, <4>2, <4>3 DEF LostInv, InGetBuffer
    <3>4. CASE ~disturbed
      <4>1. /\ sound' = sound /\ sound = BufferSize /\ typed = got + lost + buffer_size
        BY <1>1, <1>5, <2>1, <2>5, <3>1, <3>4 DEF LostInv
      <4>2. (buffer_start' + (sound - 1)) % BufferSize = EndSlot
        <5>1. buffer_start' + (sound - 1) = buffer_start + buffer_size
          BY <1>1, <1>5, <2>1, <4>1
        <5>2. QED
          BY <5>1 DEF EndSlot
      <4>3. ASSUME NEW i \in 0..(sound - 1)
            PROVE  buffer'[(buffer_start' + i) % BufferSize] = got + lost' + 1 + i
        <5>1. CASE i = sound - 1
          BY <1>1, <1>3, <1>5, <2>1, <4>1, <4>2, <5>1
        <5>2. CASE i # sound - 1
          <6>1. i \in 0..(sound - 2)
            BY <1>1, <5>2
          <6>2. QED
            BY <3>2, <6>1
        <5>3. QED
          BY <5>1, <5>2
      <4>4. typed' = got + lost' + buffer_size'
        BY <1>1, <1>2, <2>1, <4>1
      <4>5. /\ sound' <= buffer_size' /\ sound' = buffer_size'
            /\ InGetBuffer => sound' <= r_size' /\ r_size' = buffer_size'
        BY <1>1, <1>2, <1>5, <2>1, <3>4, <4>1 DEF LostInv
      <4>6. QED
        BY <1>2, <2>5, <3>1, <3>4, <4>1, <4>3, <4>4, <4>5 DEF LostInv, InGetBuffer
    <3>5. QED
      BY <1>1, <3>3, <3>4
  <2>6. QED
    BY <2>4, <2>5
<1>6. QED
  BY <1>1, <1>4, <1>5

\* The three stores of get_buffer() keep LostInv.
LEMMA LostGetBuffer ==
  ASSUME InputTypeOK, RingInv, LostInv, GetBufferRead \/ GetBufferStart \/ GetBufferSize
  PROVE  LostInv'
<1> USE InputAssumption
<1>1. /\ buffer_start \in Nat /\ buffer_size \in Nat
      /\ c \in Nat /\ got \in Nat /\ typed \in Nat
      /\ sound \in Nat /\ lost \in Nat /\ r_size \in Nat /\ r_start \in Nat
      /\ disturbed \in BOOLEAN
  BY DEF InputTypeOK
<1>2. CASE GetBufferRead
  <2>1. /\ where = "read" /\ where' = "start" /\ c' = buffer[buffer_start % BufferSize]
        /\ r_start' = buffer_start /\ lost' = 0
        /\ UNCHANGED <<buffer, buffer_start, buffer_size, r_size, got, typed, disturbed, sound>>
    BY <1>2 DEF GetBufferRead, AtReader, bufferVars
  <2>2. sound > 0 => c' = got + lost + 1
    <3>1. sound > 0 => buffer[(buffer_start + 0) % BufferSize] = got + lost + 1 + 0
      BY <1>1, <2>1 DEF LostInv
    <3>2. buffer_start + 0 = buffer_start /\ got + lost + 1 + 0 = got + lost + 1
      BY <1>1
    <3>3. QED
      BY <2>1, <3>1, <3>2
  <2>3. ASSUME NEW i \in 0..(sound - 1)
        PROVE  buffer[(buffer_start + i) % BufferSize] = c' + 0 + i
    <3>1. buffer[(buffer_start + i) % BufferSize] = got + lost + 1 + i
      BY <2>1 DEF LostInv
    <3>2. sound > 0
      BY <1>1
    <3>3. QED
      BY <1>1, <2>2, <3>1, <3>2
  <2>4. ~disturbed => sound > 0 /\ typed = c' + buffer_size - 1
    BY <1>1, <2>1, <2>2 DEF LostInv, RingInv, InGetBuffer
  <2>5. QED
    BY <1>1, <2>1, <2>2, <2>3, <2>4 DEF LostInv, InGetBuffer
<1>3. CASE GetBufferStart
  <2>1. PICK s \in {buffer_start, r_start} :
          /\ buffer_start' = s + 1 /\ lost' = s - r_start
          /\ sound' = IF s + 1 < buffer_start THEN 0 ELSE sound
    BY <1>3 DEF GetBufferStart
  <2>2. /\ where = "start" /\ where' = "size"
        /\ UNCHANGED <<buffer, buffer_size, r_start, r_size, c, got, typed, disturbed>>
    BY <1>3 DEF GetBufferStart, AtReader
  <2>3. lost = buffer_start - r_start
    BY <2>2 DEF LostInv
  <2>4. sound' \in {0, sound} /\ (~disturbed => sound' = sound /\ lost' = 0)
    BY <1>1, <2>1, <2>2, <2>3 DEF LostInv
  <2>5. ASSUME NEW i \in 0..(sound' - 2)
        PROVE  buffer[(buffer_start' + i) % BufferSize] = c + lost' + 1 + i
    <3>1. sound' = sound /\ s + 1 >= buffer_start
      BY <1>1, <2>1
    <3>2. CASE s = buffer_start
      <4>1. i + 1 \in 0..(sound - 1)
        BY <1>1, <3>1
      <4>2. buffer[(buffer_start + (i + 1)) % BufferSize] = c + lost + (i + 1)
        BY <2>2, <4>1 DEF LostInv
      <4>3. buffer_start + (i + 1) = buffer_start' + i /\ c + lost + (i + 1) = c + lost' + 1 + i
        BY <1>1, <2>1, <2>3, <3>2
      <4>4. QED
        BY <4>2, <4>3
    <3>3. CASE s # buffer_start
      <4>1. s = r_start /\ buffer_start = r_start + 1 /\ lost = 1 /\ lost' = 0
            /\ buffer_start' = buffer_start
        BY <1>1, <2>1, <2>2, <2>3, <3>1, <3>3 DEF RingInv
      <4>2. i \in 0..(sound - 1)
        BY <1>1, <3>1
      <4>3. buffer[(buffer_start + i) % BufferSize] = c + lost + i
        BY <2>2, <4>2 DEF LostInv
      <4>4. c + lost + i = c + lost' + 1 + i
        BY <1>1, <4>1
      <4>5. QED
        BY <4>1, <4>3, <4>4
    <3>4. QED
      BY <3>2, <3>3
  <2>6. /\ sound' <= buffer_size /\ sound' <= r_size /\ (~disturbed => sound' = buffer_size)
        /\ (~disturbed => r_size = buffer_size /\ typed = c + buffer_size - 1)
        /\ (sound' > 0 => c > 0)
    BY <1>1, <2>2, <2>4 DEF LostInv, InGetBuffer
  <2>7. QED
    BY <2>2, <2>4, <2>5, <2>6 DEF LostInv, InGetBuffer
<1>4. CASE GetBufferSize
  <2>1. PICK n \in {buffer_size, r_size} : buffer_size' = n - 1
    BY <1>4 DEF GetBufferSize
  <2>2. /\ where = "size" /\ where' \in {"block", "return"}
        /\ sound' = (IF sound > 0 THEN sound - 1 ELSE 0)
        /\ c > 0 => got' = c
        /\ UNCHANGED <<buffer, buffer_start, r_start, r_size, c, typed, disturbed, lost>>
    BY <1>1, <1>4 DEF GetBufferSize, AtReader
  <2>3. sound <= n /\ n >= 1 /\ n \in Nat
    BY <1>1, <2>1, <2>2 DEF LostInv, RingInv, InGetBuffer
  <2>4. ASSUME NEW i \in 0..(sound' - 1)
        PROVE  buffer[(buffer_start + i) % BufferSize] = got' + lost + 1 + i
    <3>1. sound > 0 /\ i \in 0..(sound - 2)
      BY <1>1, <2>2
    <3>2. got' = c
      BY <2>2, <3>1 DEF LostInv
    <3>3. QED
      BY <2>2, <3>1, <3>2 DEF LostInv
  <2>5. ~disturbed => sound' = buffer_size' /\ typed = got' + lost + buffer_size'
    <3>1. SUFFICES ASSUME ~disturbed
                   PROVE  sound' = buffer_size' /\ typed = got' + lost + buffer_size'
      OBVIOUS
    <3>2. /\ sound = buffer_size /\ r_size = buffer_size /\ n = buffer_size
          /\ lost = 0 /\ typed = c + buffer_size - 1
      BY <2>1, <2>2, <3>1 DEF LostInv, InGetBuffer
    <3>3. sound > 0 /\ got' = c
      BY <1>1, <2>2, <2>3, <3>2 DEF LostInv
    <3>4. QED
      BY <1>1, <2>1, <2>2, <3>2, <3>3
  <2>6. sound' <= buffer_size'
    BY <1>1, <2>1, <2>2, <2>3
  <2>7. QED
    BY <2>2, <2>4, <2>5, <2>6 DEF LostInv, InGetBuffer
<1>5. QED
  BY <1>2, <1>3, <1>4

\* No step breaks LostInv.
LEMMA LostInvStep ==
  InputTypeOK /\ RingInv /\ LostInv /\ [InputNext]_allVars => LostInv'
<1> SUFFICES ASSUME InputTypeOK, RingInv, LostInv, [InputNext]_allVars
             PROVE  LostInv'
  OBVIOUS
<1> USE InputAssumption
<1>1. CASE KeyLetter
  BY <1>1, LostKeyLetter
<1>2. CASE KeyOther \/ Elsewhere \/ UNCHANGED allVars
  <2>1. UNCHANGED inputVars
    BY <1>2 DEF KeyOther, Elsewhere, allVars
  <2>2. QED
    BY <2>1 DEF LostInv, InGetBuffer, inputVars, bufferVars, readerVars, historyVars
<1>3. CASE Getch \/ GetchBlock \/ GetchReturn
  <2>1. /\ where \in {"out", "block", "return"} /\ where' \in {"check", "out"}
        /\ UNCHANGED <<bufferVars, r_start, r_size, c, got, typed, historyVars>>
    BY <1>3 DEF Getch, GetchBlock, GetchReturn, AtReader
  <2>2. QED
    BY <2>1 DEF LostInv, InGetBuffer, bufferVars, historyVars
<1>4. CASE GetBufferTest
  <2>1. /\ where = "check"
        /\ UNCHANGED <<buffer, buffer_start, buffer_size, r_start, c, got, typed>>
    BY <1>4 DEF GetBufferTest, AtReader, bufferVars
  <2>2. CASE buffer_size = 0
    <3>1. where' = "block" /\ ~disturbed' /\ sound' = 0 /\ lost' = typed - got
      BY <1>4, <2>2 DEF GetBufferTest
    <3>2. QED
      BY <2>1, <2>2, <3>1 DEF LostInv, InGetBuffer, InputTypeOK
  <2>3. CASE buffer_size # 0
    <3>1. where' = "read" /\ r_size' = buffer_size /\ UNCHANGED historyVars
      BY <1>4, <2>3 DEF GetBufferTest
    <3>2. QED
      BY <2>1, <3>1 DEF LostInv, InGetBuffer, historyVars
  <2>4. QED
    BY <2>2, <2>3
<1>5. CASE GetBufferRead \/ GetBufferStart \/ GetBufferSize
  BY <1>5, LostGetBuffer
<1>6. QED
  BY <1>1, <1>2, <1>3, <1>4, <1>5 DEF InputNext, GetchStep

(* Wherever get_buffer() is interrupted, the characters typed before stay  *)
(* in the ring in order, but for those that an overrun takes; as long as   *)
(* none comes in there, the ring holds exactly the characters typed and    *)
(* not returned yet: for every BUFFER_SIZE.                                *)
THEOREM NothingLostCorrect == InputSpec => []NothingLost
<1>1. InputInit => LostInv
  BY DEF InputInit, LostInv, InGetBuffer
<1>2. InputTypeOK /\ LostInv => NothingLost
  BY DEF LostInv, NothingLost, InGetBuffer
<1>3. InputInit => RingInv
  BY InputAssumption DEF InputInit, RingInv, InGetBuffer
<1>4. QED
  BY <1>1, <1>2, <1>3, InputTypeCorrect, RingInvStep, LostInvStep, PTL DEF InputSpec

-----------------------------------------------------------------------------
(* The stacks.                                                             *)

\* A step with frames is a step of Input.
LEMMA FrameStep == FrameNext => InputNext
<1> SUFFICES ASSUME FrameNext
             PROVE  InputNext
  OBVIOUS
<1> USE DEF InputNext, GetchStep
<1>1. CASE \E h \in Handler : EnterInterrupt(h)
  BY <1>1 DEF EnterInterrupt, Elsewhere
<1>2. CASE EnterSyscall
  BY <1>2 DEF EnterSyscall, Elsewhere
<1>3. CASE EnterGetch \/ LeaveGetch
  BY <1>3 DEF EnterGetch, LeaveGetch
<1>4. CASE EnterBlock
  BY <1>4 DEF EnterBlock, Elsewhere
<1>5. CASE \E t \in Task : NewStack(t)
  BY <1>5 DEF NewStack, Elsewhere
<1>6. CASE LoadEbp \/ SwitchTo \/ Leave
  BY <1>6 DEF LoadEbp, SwitchTo, Leave, Elsewhere
<1>7. CASE NoFrame
  BY <1>7 DEF NoFrame, Elsewhere
<1>8. QED
  BY <1>1, <1>2, <1>3, <1>4, <1>5, <1>6, <1>7 DEF FrameNext

(* Every step of the entry and exit code with its stacks is a step of the  *)
(* kernel with its keyboard.                                               *)
THEOREM FramesImplementInput == FrameSpec => InputSpec
<1>1. FrameInit => InputInit
  BY DEF FrameInit
<1>2. [FrameNext]_<<allVars, frameVars>> => [InputNext]_allVars
  BY FrameStep
<1>3. QED
  BY <1>1, <1>2, PTL DEF FrameSpec, InputSpec

(* So a task that is resumed from a switch was on an intact run list, and  *)
(* the lock was balanced, on these stacks too.                             *)
THEOREM FramesLockDiscipline == FrameSpec => []LockBalanced
  BY FramesImplementInput, InputImplementsTask, LockDiscipline, PTL

(* And the kernel as a whole, getch() and the stacks included, serves its  *)
(* processes as Sched says.                                                *)
THEOREM FramesImplementSched == FrameSpec => ImplementsSched
  BY FramesImplementInput, InputImplementsTask, SchedImplemented, PTL

-----------------------------------------------------------------------------
(* The shape of the stacks.                                                *)

\* Registers that were pushed: only those of a system call may have a result.
Regs ==
  {f \in [kind : {"interrupt", "syscall", "block", "new"}, if : BOOLEAN,
          eax : {"own", "result"}, regs : Nat] :
     f.eax = "result" => f.kind = "syscall"}

\* What switch_to leaves.
Left == [kind : {"switch"}, ebp : Link]

Stack == Seq(Regs \cup Left)

\* System calls under way for the value sc of syscall[t].
Depth(sc) == IF sc = "none" THEN 0 ELSE 1

\* The registers at the bottom while getch() runs for a system call.
Outer(s, sc) ==
  sc # "none" => s[1] \in Regs /\ s[1].kind = "syscall" /\ s[1].if = (sc = "if_on")

\* A stack s in process code; r is the position in t->regs.
ProcessStack(s, r, sc) ==
  /\ s \in Stack /\ Len(s) = Depth(sc)
  /\ Outer(s, sc)
  /\ sc # "none" => r = 1

\* A stack in the kernel: one more set of registers, with the flags ef; what is
\* popped into t->regs, or stays there, points to the system call.
KernelStack(s, r, sc, ef) ==
  /\ s \in Stack /\ Len(s) = Depth(sc) + 1
  /\ Outer(s, sc)
  /\ Top(s) \in Regs /\ Top(s).if = ef
  /\ Top(s).kind = "syscall" => sc = "none" /\ Top(s).eax = "result"
  /\ Top(s).kind = "new" => sc = "none"
  /\ sc # "none" => IF Top(s).kind = "block" THEN r = 1 ELSE Top(s).regs = 1

\* The stack of a task t that does not run: one switch_to has left, or new.
SuspendedStack(t, s, r, sc, ef) ==
  \/ /\ s \in Stack /\ Len(s) > 1 /\ Top(s) \in Left
     /\ KernelStack(Popped(s), r, sc, ef)
     /\ Top(Popped(s)).kind # "new"
     /\ Top(Popped(s)).kind # "block" => Top(s).ebp = t
  \/ KernelStack(s, r, sc, ef) /\ Top(s).kind = "new"

StackOK(t) ==
  IF t # current THEN SuspendedStack(t, stack[t], regs[t], syscall[t], eflags[t])
  ELSE IF pc = "run" THEN ProcessStack(stack[t], regs[t], syscall[t])
  ELSE KernelStack(stack[t], regs[t], syscall[t], eflags[t])

Alive == Created \cup {idle_task}

\* The inductive invariant: every stack has its shape, and ebp is what restore
\* needs to pop the old t->regs into the right task.
FrameInv ==
  /\ stack \in [AllTask -> Stack] /\ regs \in [AllTask -> Nat] /\ ebp \in Link
  /\ \A t \in Alive : StackOK(t)
  /\ \A t \in Task \ Created : stack[t] = <<>>
  /\ pc \in {"schedule", "restore"} /\ Top(stack[current]).kind \in {"interrupt", "syscall"}
       => ebp = current
  /\ pc # "run" /\ Top(stack[current]).kind = "new" => pc = "restore" /\ ebp = NULL

\* What pushing does.
LEMMA PushStack ==
  ASSUME NEW s \in Stack, NEW f \in Regs \cup Left
  PROVE  /\ Append(s, f) \in Stack /\ Len(Append(s, f)) = Len(s) + 1
         /\ Top(Append(s, f)) = f /\ Popped(Append(s, f)) = s
         /\ \A i \in 1..Len(s) : Append(s, f)[i] = s[i]
<1>1. /\ Append(s, f) \in Stack /\ Len(Append(s, f)) = Len(s) + 1
      /\ Top(Append(s, f)) = f
      /\ \A i \in 1..Len(s) : Append(s, f)[i] = s[i]
  BY DEF Stack, Top
<1>2. /\ Popped(Append(s, f)) \in Stack /\ Len(Popped(Append(s, f))) = Len(s)
      /\ \A i \in 1..Len(s) : Popped(Append(s, f))[i] = s[i]
  BY <1>1 DEF Stack, Popped
<1>3. Popped(Append(s, f)) = s
  BY <1>2, SeqEqual DEF Stack
<1>4. QED
  BY <1>1, <1>3

\* What popping does.
LEMMA PopStack ==
  ASSUME NEW s \in Stack, Len(s) > 0
  PROVE  /\ Popped(s) \in Stack /\ Len(Popped(s)) = Len(s) - 1
         /\ \A i \in 1..(Len(s) - 1) : Popped(s)[i] = s[i]
         /\ Top(s) \in Regs \cup Left
<1>1. s \in Seq(Regs \cup Left) /\ Len(s) \in Nat
  BY DEF Stack
<1>2. Top(s) \in Regs \cup Left
  BY <1>1 DEF Top
<1>3. /\ Popped(s) \in Stack /\ Len(Popped(s)) = Len(s) - 1
      /\ \A i \in 1..(Len(s) - 1) : Popped(s)[i] = s[i]
  <2>1. /\ 1 \in 1..(Len(s) + 1) /\ Len(s) - 1 \in 0..Len(s)
        /\ Len(s) - 1 - 1 + 1 = Len(s) - 1
    BY <1>1
  <2>2. /\ SubSeq(s, 1, Len(s) - 1) \in Seq(Regs \cup Left)
        /\ Len(SubSeq(s, 1, Len(s) - 1))
             = IF 1 <= Len(s) - 1 THEN Len(s) - 1 - 1 + 1 ELSE 0
        /\ \A i \in 1..(Len(s) - 1 - 1 + 1) : SubSeq(s, 1, Len(s) - 1)[i] = s[1 + i - 1]
    BY <1>1, <2>1, SubSeqProperties
  <2>3. QED
    BY <1>1, <2>1, <2>2 DEF Popped, Stack
<1>4. QED
  BY <1>2, <1>3

\* An entry is not what __switch_to leaves on a stack.
LEMMA NoSwitch == \A f \in Regs : f.kind # "switch" /\ f \notin Left
  BY DEF Regs, Left

(* An entry pushes registers on the stack of a process.                    *)
LEMMA EnterStack ==
  ASSUME NEW s, NEW r, NEW sc, ProcessStack(s, r, sc),
         NEW f \in Regs, NEW r2,
         f.kind = "interrupt" => f.regs = r,
         f.kind = "block" => r2 = r,
         f.kind \in {"interrupt", "block"}
  PROVE  KernelStack(Append(s, f), r2, sc, f.if)
<1> USE DEF ProcessStack
<1>1. /\ Append(s, f) \in Stack /\ Len(Append(s, f)) = Len(s) + 1
      /\ Top(Append(s, f)) = f
      /\ \A i \in 1..Len(s) : Append(s, f)[i] = s[i]
  BY PushStack
<1>2. sc # "none" => Append(s, f)[1] = s[1]
  BY <1>1 DEF Depth
<1>3. Outer(Append(s, f), sc)
  BY <1>2 DEF Outer
<1>4. QED
  BY <1>1, <1>3 DEF KernelStack, Depth

(* An exit pops them.                                                      *)
LEMMA LeaveStack ==
  ASSUME NEW s, NEW r, NEW sc, NEW ef, KernelStack(s, r, sc, ef),
         NEW r2,
         r2 = IF Top(s).kind = "block" THEN r ELSE IF Top(s).kind = "new" THEN r ELSE Top(s).regs
  PROVE  ProcessStack(Popped(s), r2, sc)
<1> USE DEF KernelStack
<1>1. Len(s) > 0
  BY DEF Depth
<1>2. /\ Popped(s) \in Stack /\ Len(Popped(s)) = Len(s) - 1
      /\ \A i \in 1..(Len(s) - 1) : Popped(s)[i] = s[i]
  BY <1>1, PopStack
<1>3. sc # "none" => Popped(s)[1] = s[1]
  BY <1>2 DEF Depth
<1>4. Outer(Popped(s), sc)
  BY <1>3 DEF Outer
<1>5. QED
  BY <1>2, <1>4 DEF ProcessStack, Depth

(* A task other than the running one is as it was.                         *)
LEMMA OthersKept ==
  ASSUME FrameInv, NEW t \in Alive, t # current, t # current',
         stack'[t] = stack[t], regs'[t] = regs[t],
         syscall'[t] = syscall[t], eflags'[t] = eflags[t]
  PROVE  StackOK(t)'
  BY DEF FrameInv, StackOK

\* What IInv says of the tasks there are.
LEMMA Tasks == IInv => /\ current \in Alive /\ Alive \subseteq AllTask
                       /\ NULL \notin AllTask /\ idle_task \notin Task
                       /\ Alive \cap (Task \ Created) = {}
                       /\ AllTask \subseteq Link /\ NULL \in Link
  BY TaskAssumption DEF IInv, RunListOK, Alive, Created, AllTask, Link

(* A step that changes the stack and the pointer of the running task only. *)
LEMMA StepOfCurrent ==
  ASSUME FrameInv, IInv, current' = current, Created' = Created,
         NEW s, s \in Stack, stack' = [stack EXCEPT ![current] = s],
         NEW r, r \in Nat, regs' = [regs EXCEPT ![current] = r],
         ebp' \in Link,
         \A t \in AllTask \ {current} : syscall'[t] = syscall[t] /\ eflags'[t] = eflags[t],
         IF pc' = "run" THEN ProcessStack(s, r, syscall'[current])
                        ELSE KernelStack(s, r, syscall'[current], eflags'[current]),
         pc' \in {"schedule", "restore"} /\ Top(s).kind \in {"interrupt", "syscall"}
           => ebp' = current,
         pc' # "run" /\ Top(s).kind = "new" => pc' = "restore" /\ ebp' = NULL
  PROVE  FrameInv'
<1> USE Tasks
<1>1. stack'[current] = s /\ regs'[current] = r
  BY DEF FrameInv
<1>2. \A t \in AllTask \ {current} : stack'[t] = stack[t] /\ regs'[t] = regs[t]
  BY DEF FrameInv
<1>3. stack' \in [AllTask -> Stack] /\ regs' \in [AllTask -> Nat]
  BY DEF FrameInv
<1>4. Alive' = Alive
  BY DEF Alive
<1>5. ASSUME NEW t \in Alive PROVE StackOK(t)'
  <2>1. CASE t = current
    BY <1>1, <2>1 DEF StackOK
  <2>2. CASE t # current
    BY <1>2, <2>2, OthersKept
  <2>3. QED
    BY <2>1, <2>2
<1>6. \A t \in Task \ Created : stack'[t] = <<>>
  BY <1>2 DEF FrameInv, AllTask
<1>7. QED
  BY <1>1, <1>3, <1>4, <1>5, <1>6 DEF FrameInv

(* In process code the running task's stack has the shape of one.          *)
LEMMA InProcessCode ==
  ASSUME FrameInv, IInv, pc = "run"
  PROVE  /\ ProcessStack(stack[current], regs[current], syscall[current])
         /\ stack[current] \in Stack /\ regs[current] \in Nat
         /\ iflag \in BOOLEAN /\ ebp \in Link
         /\ syscall[current] \in {"none", "if_on", "if_off"}
         /\ current \in AllTask
  BY Tasks DEF FrameInv, StackOK, IInv, TypeOK

\* SAVE_ALL saves the flags of the running task.
LEMMA SaveAllEffect ==
  ASSUME IInv, NEW b \in BOOLEAN, SaveAll(b)
  PROVE  /\ eflags'[current] = b
         /\ \A t \in AllTask \ {current} : eflags'[t] = eflags[t]
  BY Tasks DEF SaveAll, IInv, TypeOK

\* do_irq is entered.
LEMMA FrameInterrupt ==
  ASSUME FrameInv, IInv, NEW h \in Handler, EnterInterrupt(h)
  PROVE  FrameInv'
<1> DEFINE f == Registers("interrupt", iflag, regs[current])
           s == Append(stack[current], f)
           r == Len(stack[current]) + 1
<1>1. pc = "run" /\ iflag
  BY DEF EnterInterrupt, Interrupt
<1> USE InProcessCode, <1>1, Tasks
<1>2. f \in Regs /\ f.kind = "interrupt" /\ f.if = iflag /\ f.regs = regs[current]
  BY DEF Registers, Regs
<1>3. s \in Stack /\ Top(s) = f /\ r \in Nat
  <2>1. r \in Nat
    BY DEF Stack
  <2>2. QED
    BY <1>2, <2>1, PushStack
<1>4. stack' = [stack EXCEPT ![current] = s] /\ regs' = [regs EXCEPT ![current] = r]
  BY DEF EnterInterrupt, Pushed, SaveRegs, FrameInv
<1>5. /\ current' = current /\ Created' = Created /\ syscall' = syscall
      /\ pc' \in {"timer", "keyboard"} /\ ebp' = ebp
  BY DEF EnterInterrupt, Interrupt, taskVars, Created, Handler
<1>6. /\ eflags'[current] = iflag
      /\ \A t \in AllTask \ {current} : eflags'[t] = eflags[t]
  BY SaveAllEffect DEF EnterInterrupt, Interrupt
<1>7. KernelStack(s, r, syscall[current], iflag)
  <2> HIDE DEF f, r
  <2>1. QED
    BY <1>2, EnterStack
<1> HIDE DEF f, s, r
<1>8. QED
  BY <1>2, <1>3, <1>4, <1>5, <1>6, <1>7, StepOfCurrent

\* A process calls schedule.
LEMMA FrameBlock ==
  ASSUME FrameInv, IInv, EnterBlock
  PROVE  FrameInv'
<1> DEFINE f == Registers("block", iflag, regs[current])
           s == Append(stack[current], f)
           r == regs[current]
<1>0. PICK q \in Queue : Block(q)
  BY DEF EnterBlock, GetchBlock, Queue
<1>1. pc = "run"
  BY <1>0 DEF Block, Running
<1> USE InProcessCode, <1>1, Tasks
<1>2. f \in Regs /\ f.kind = "block" /\ f.if = iflag
  BY DEF Registers, Regs
<1>3. s \in Stack /\ Top(s) = f /\ r \in Nat
  BY <1>2, PushStack DEF Stack
<1>4. stack' = [stack EXCEPT ![current] = s] /\ regs' = [regs EXCEPT ![current] = r]
  BY DEF EnterBlock, Pushed, BlockRegs, FrameInv
<1>5. /\ current' = current /\ Created' = Created /\ syscall' = syscall
      /\ pc' = "schedule" /\ ebp' = ebp
  BY <1>0 DEF EnterBlock, Block, taskVars, Created
<1>6. /\ eflags'[current] = iflag
      /\ \A t \in AllTask \ {current} : eflags'[t] = eflags[t]
  BY <1>0, SaveAllEffect DEF Block
<1>7. KernelStack(s, r, syscall[current], iflag)
  <2> HIDE DEF f, r
  <2>1. QED
    BY <1>2, EnterStack DEF r
<1> HIDE DEF f, s, r
<1>8. QED
  BY <1>2, <1>3, <1>4, <1>5, <1>6, <1>7, StepOfCurrent

(* handle_syscall without getch(): the result goes into the registers that *)
(* have just been pushed.                                                  *)
LEMMA FrameSyscall ==
  ASSUME FrameInv, IInv, EnterSyscall
  PROVE  FrameInv'
<1> DEFINE f == Registers("syscall", iflag, regs[current])
           g == [f EXCEPT !.eax = "result"]
           s == <<g>>
<1>1. pc = "run" /\ syscall[current] = "none"
  BY DEF EnterSyscall, Syscall, Running
<1> USE InProcessCode, <1>1, Tasks
<1>2. /\ f \in Regs /\ g \in Regs /\ g.kind = "syscall" /\ g.if = iflag
      /\ g.eax = "result"
  BY DEF Registers, Regs
<1>3. stack[current] = <<>>
  BY DEF ProcessStack, Depth, Stack
<1>4. regs' = [regs EXCEPT ![current] = 1]
  BY <1>3 DEF EnterSyscall, SaveRegs
<1>5. stack' = [stack EXCEPT ![current] = s]
  <2>1. regs'[current] = 1
    BY <1>4 DEF FrameInv
  <2>2. Pushed("syscall") = [stack EXCEPT ![current] = <<f>>]
    BY <1>3 DEF Pushed, FrameInv
  <2>3. Pushed("syscall")[current] = <<f>>
    BY <2>2 DEF FrameInv
  <2>4. StoreResult(Pushed("syscall"), regs')
          = [Pushed("syscall") EXCEPT ![current] = [<<f>> EXCEPT ![1] = g]]
    BY <2>1, <2>3 DEF StoreResult
  <2>5. [<<f>> EXCEPT ![1] = g] = s
    OBVIOUS
  <2> HIDE DEF f, g, s
  <2>6. QED
    BY <2>2, <2>4, <2>5 DEF EnterSyscall, FrameInv
<1>6. /\ current' = current /\ Created' = Created /\ syscall' = syscall
      /\ pc' = "ret_from_intr" /\ ebp' = ebp
  BY DEF EnterSyscall, Syscall, taskVars, Created
<1>7. /\ eflags'[current] = iflag
      /\ \A t \in AllTask \ {current} : eflags'[t] = eflags[t]
  BY SaveAllEffect DEF EnterSyscall, Syscall
<1>8. s \in Stack /\ Len(s) = 1 /\ Top(s) = g
  <2> HIDE DEF g
  <2>1. QED
    BY <1>2 DEF Stack, Top
<1> HIDE DEF f, g, s
<1>9. KernelStack(s, 1, syscall[current], iflag)
  BY <1>2, <1>8 DEF KernelStack, Depth, Outer
<1>10. QED
  BY <1>2, <1>4, <1>5, <1>6, <1>7, <1>8, <1>9, StepOfCurrent

\* getch is entered through int $0x20.
LEMMA FrameGetch ==
  ASSUME FrameInv, IInv, EnterGetch
  PROVE  FrameInv'
<1> DEFINE f == Registers("syscall", iflag, regs[current])
           s == <<f>>
<1>1. pc = "run" /\ syscall[current] = "none"
  BY DEF EnterGetch, Getch, SyscallGetch, Running
<1> USE InProcessCode, <1>1, Tasks
<1>2. f \in Regs /\ f.kind = "syscall" /\ f.if = iflag
  BY DEF Registers, Regs
<1>3. stack[current] = <<>>
  BY DEF ProcessStack, Depth, Stack
<1>4. stack' = [stack EXCEPT ![current] = s] /\ regs' = [regs EXCEPT ![current] = 1]
  BY <1>3 DEF EnterGetch, SaveRegs, Pushed, FrameInv
<1>5. /\ current' = current /\ Created' = Created /\ eflags' = eflags
      /\ pc' = "run" /\ ebp' = ebp
      /\ syscall' = [syscall EXCEPT ![current] = IF iflag THEN "if_on" ELSE "if_off"]
  BY DEF EnterGetch, Getch, SyscallGetch, taskVars, Created
<1>6. /\ syscall'[current] = IF iflag THEN "if_on" ELSE "if_off"
      /\ \A t \in AllTask \ {current} : syscall'[t] = syscall[t]
  BY <1>5 DEF IInv, TypeOK
<1> HIDE DEF f
<1>7. s \in Stack /\ Len(s) = 1 /\ s[1] = f
  BY <1>2 DEF Stack
<1>8. ProcessStack(s, 1, syscall'[current])
  BY <1>2, <1>6, <1>7 DEF ProcessStack, Depth, Outer
<1> HIDE DEF s
<1>9. QED
  BY <1>4, <1>5, <1>6, <1>7, <1>8, StepOfCurrent

(* handle_syscall after getch(): current->regs points to the registers of  *)
(* the call, however often the task was interrupted or slept in between.   *)
LEMMA FrameLeaveGetch ==
  ASSUME FrameInv, IInv, LeaveGetch
  PROVE  FrameInv'
<1> DEFINE f == stack[current][1]
           g == [f EXCEPT !.eax = "result"]
           s == <<g>>
<1>1. pc = "run" /\ syscall[current] # "none"
  BY DEF LeaveGetch, GetchReturn, SyscallReturn, Running
<1> USE InProcessCode, <1>1, Tasks
<1>2. /\ f \in Regs /\ f.kind = "syscall" /\ f.if = (syscall[current] = "if_on")
      /\ Len(stack[current]) = 1 /\ regs[current] = 1
  BY DEF ProcessStack, Outer, Depth
<1>3. g \in Regs /\ g.kind = "syscall" /\ g.if = f.if /\ g.eax = "result"
  BY <1>2 DEF Regs
<1>4. stack' = [stack EXCEPT ![current] = s]
  <2>1. stack[current] = <<f>>
    BY <1>2 DEF Stack
  <2>2. 1 \in DOMAIN stack[current]
    BY <2>1
  <2>3. StoreResult(stack, regs) = [stack EXCEPT ![current] = [stack[current] EXCEPT ![1] = g]]
    BY <1>2, <2>2 DEF StoreResult, FrameInv
  <2>4. [<<f>> EXCEPT ![1] = g] = s
    OBVIOUS
  <2> HIDE DEF f, g, s
  <2>5. QED
    BY <2>1, <2>3, <2>4 DEF LeaveGetch
<1>5. /\ current' = current /\ Created' = Created
      /\ pc' = "ret_from_intr" /\ ebp' = ebp /\ regs' = regs
      /\ syscall' = [syscall EXCEPT ![current] = "none"]
  BY DEF LeaveGetch, GetchReturn, SyscallReturn, taskVars, Created
<1>6. /\ syscall'[current] = "none"
      /\ \A t \in AllTask \ {current} : syscall'[t] = syscall[t]
  BY <1>5 DEF IInv, TypeOK
<1>7. /\ eflags'[current] = (syscall[current] = "if_on")
      /\ \A t \in AllTask \ {current} : eflags'[t] = eflags[t]
  BY SaveAllEffect DEF LeaveGetch, GetchReturn, SyscallReturn
<1>8. regs' = [regs EXCEPT ![current] = 1]
  BY <1>2, <1>5 DEF FrameInv
<1> HIDE DEF f, g
<1>9. s \in Stack /\ Len(s) = 1 /\ Top(s) = g
  BY <1>3 DEF Stack, Top
<1>10. KernelStack(s, 1, syscall'[current], eflags'[current])
  BY <1>2, <1>3, <1>6, <1>7, <1>9 DEF KernelStack, Depth, Outer
<1> HIDE DEF s
<1>11. QED
  BY <1>3, <1>4, <1>5, <1>6, <1>7, <1>8, <1>9, <1>10, StepOfCurrent

\* create_process prepares a stack.
LEMMA FrameNewStack ==
  ASSUME FrameInv, IInv, NEW t \in Task, NewStack(t)
  PROVE  FrameInv'
<1> DEFINE f == Registers("new", NewProcessIF, 0)
<1> USE Tasks
<1>1. t \in AllTask /\ t \notin Created /\ t # current /\ t # idle_task /\ pc = "run"
  BY TaskAssumption DEF NewStack, CreateProcess, Running, Creates, AllTask, Alive
<1>2. Created' = Created \cup {t}
  BY CreateLists DEF NewStack
<1>3. /\ current' = current /\ pc' = pc /\ ebp' = ebp
      /\ stack' = [stack EXCEPT ![t] = <<f>>] /\ regs' = [regs EXCEPT ![t] = 1]
      /\ syscall' = [syscall EXCEPT ![t] = "none"]
      /\ eflags' = [eflags EXCEPT ![t] = NewProcessIF]
  BY DEF NewStack, CreateProcess
<1>4. f \in Regs /\ f.kind = "new" /\ f.if = NewProcessIF
  <2>1. NewProcessIF \in BOOLEAN
    BY DEF NewProcessIF, Bit
  <2>2. QED
    BY <2>1 DEF Registers, Regs
<1> HIDE DEF f
<1>5. <<f>> \in Stack /\ Len(<<f>>) = 1 /\ Top(<<f>>) = f
  BY <1>4 DEF Stack, Top
<1>6. KernelStack(<<f>>, 1, "none", NewProcessIF)
  BY <1>4, <1>5 DEF KernelStack, Depth, Outer
<1>7. /\ stack'[t] = <<f>> /\ regs'[t] = 1 /\ syscall'[t] = "none"
      /\ eflags'[t] = NewProcessIF
  BY <1>1, <1>3 DEF FrameInv, IInv, TypeOK
<1>8. StackOK(t)'
  BY <1>1, <1>3, <1>4, <1>5, <1>6, <1>7 DEF StackOK, SuspendedStack
<1>9. \A u \in AllTask \ {t} : /\ stack'[u] = stack[u] /\ regs'[u] = regs[u]
                               /\ syscall'[u] = syscall[u] /\ eflags'[u] = eflags[u]
  BY <1>3 DEF FrameInv, IInv, TypeOK
<1>10. ASSUME NEW u \in Alive PROVE StackOK(u)'
  <2>1. u # t /\ u \in AllTask /\ StackOK(u)
    BY <1>1 DEF Alive, FrameInv
  <2>2. QED
    BY <2>1, <1>3, <1>9 DEF StackOK
<1>11. Alive' = Alive \cup {t}
  BY <1>2 DEF Alive
<1>12. stack' \in [AllTask -> Stack] /\ regs' \in [AllTask -> Nat] /\ ebp' \in Link
  BY <1>3, <1>5 DEF FrameInv
<1>13. \A u \in Task \ Created' : stack'[u] = <<>>
  BY <1>2, <1>9 DEF FrameInv, AllTask
<1>14. QED
  BY <1>1, <1>3, <1>8, <1>10, <1>11, <1>12, <1>13 DEF FrameInv

(* A step that leaves the stacks, and the flags in them, alone.            *)
LEMMA FrameKept ==
  ASSUME FrameInv, IInv, current' = current, Created' = Created,
         UNCHANGED <<stack, regs, syscall, eflags>>, ebp' \in Link,
         pc = "run" <=> pc' = "run",
         pc' \in {"schedule", "restore"} => ebp' = current,
         pc' # "run" => pc # "restore"
  PROVE  FrameInv'
<1> USE Tasks
<1>1. \A t \in Alive : StackOK(t)'
  BY DEF FrameInv, StackOK
<1>2. Alive' = Alive
  BY DEF Alive
<1>3. QED
  BY <1>1, <1>2 DEF FrameInv

\* movl %esp,%ebp behind an interrupt.
LEMMA FrameLoadEbp ==
  ASSUME FrameInv, IInv, LoadEbp
  PROVE  FrameInv'
<1>1. /\ current' = current /\ Created' = Created /\ ebp' = current
      /\ UNCHANGED <<stack, regs, syscall, eflags>>
      /\ pc = "ret_from_intr" /\ pc' \in {"schedule", "restore"}
  BY DEF LoadEbp, RetFromIntr, taskVars, Created, cpuVars
<1>2. QED
  BY <1>1, Tasks, FrameKept

\* Steps that leave the stacks alone.
LEMMA FrameNoFrame ==
  ASSUME FrameInv, IInv, NoFrame
  PROVE  FrameInv'
<1>1. UNCHANGED <<stack, regs, ebp>>
  BY DEF NoFrame, frameVars
<1>2. CASE KeyLetter \/ KeyOther \/ TimerInt \/ WakeUp \/ WakeDone
  <2>1. /\ current' = current /\ Created' = Created /\ UNCHANGED <<syscall, eflags>>
        /\ pc \in {"timer", "keyboard", "waking"}
        /\ pc' \in {"waking", "ret_from_intr"}
    BY <1>2 DEF KeyLetter, KeyOther, KeyboardInt, TimerInt, WakeUp, WakeDone, taskVars,
                cpuVars, Created
  <2>2. QED
    BY <1>1, <2>1, FrameKept DEF FrameInv
<1>3. CASE \/ GetBufferTest \/ GetBufferRead \/ GetBufferStart \/ GetBufferSize
           \/ LoadFlags \/ LockedCall \/ Printk \/ SystemIdle
  <2>1. /\ current' = current /\ Created' = Created /\ UNCHANGED <<syscall, eflags>>
        /\ pc = "run" /\ pc' = "run"
    BY <1>3 DEF GetBufferTest, GetBufferRead, GetBufferStart, GetBufferSize, AtReader,
                Running, LoadFlags, LockedCall, Printk, SystemIdle, vars, taskVars,
                cpuVars, Created
  <2>2. QED
    BY <1>1, <2>1, FrameKept DEF FrameInv
<1>4. QED
  BY <1>2, <1>3 DEF NoFrame

\* RESTORE_ALL and iret.
LEMMA FrameLeave ==
  ASSUME FrameInv, IInv, Leave
  PROVE  FrameInv'
<1> DEFINE s == stack[current]
           r == IF Top(s).kind \in {"block", "new"} THEN regs[current] ELSE Top(s).regs
<1> USE Tasks
<1>1. /\ current' = current /\ Created' = Created /\ syscall' = syscall
      /\ pc = "restore" /\ pc' = "run" /\ ebp' = NULL
      /\ stack' = [stack EXCEPT ![current] = Popped(s)]
      /\ regs' = PoppedRegs(Top(s))
      /\ eflags' = [eflags EXCEPT ![current] = FALSE]
  BY DEF Leave, Restore, taskVars, Created
<1>2. KernelStack(s, regs[current], syscall[current], eflags[current])
  BY <1>1 DEF FrameInv, StackOK
<1>3. Top(s) \in Regs /\ regs[current] \in Nat /\ r \in Nat /\ Len(s) > 0 /\ s \in Stack
  BY <1>2 DEF KernelStack, Regs, FrameInv, Depth
<1>4. regs' = [regs EXCEPT ![current] = r]
  <2>1. CASE Top(s).kind \in {"block", "new"}
    BY <1>1, <2>1 DEF FrameInv, PoppedRegs
  <2>2. CASE Top(s).kind \in {"interrupt", "syscall"}
    BY <1>1, <2>2 DEF FrameInv, PoppedRegs
  <2>3. QED
    BY <1>3, <2>1, <2>2 DEF Regs
<1>5. Popped(s) \in Stack /\ ProcessStack(Popped(s), r, syscall[current])
  BY <1>2, <1>3, LeaveStack, PopStack
<1>6. \A t \in AllTask \ {current} : syscall'[t] = syscall[t] /\ eflags'[t] = eflags[t]
  BY <1>1 DEF IInv, TypeOK
<1> HIDE DEF s, r
<1>7. QED
  BY <1>1, <1>3, <1>4, <1>5, <1>6, StepOfCurrent

(* switch_to: the old task's stack is left as that of a task that does not *)
(* run, the new one's is taken up again.                                   *)
LEMMA FrameSwitchTo ==
  ASSUME FrameInv, IInv, IInv', SwitchTo
  PROVE  FrameInv'
<1> USE Tasks
<1>1. /\ Created' = Created /\ UNCHANGED <<syscall, eflags, regs>>
      /\ pc = "schedule" /\ pc' = "restore"
  BY DEF SwitchTo, Schedule, taskVars, cpuVars, Created
<1>2. Alive' = Alive
  BY <1>1 DEF Alive
<1>3. current' \in Alive
  BY <1>1, <1>2 DEF IInv, RunListOK, Alive
<1>4. CASE current' = current
  <2>1. UNCHANGED <<stack, ebp>>
    BY <1>4 DEF SwitchTo
  <2>2. \A t \in Alive : StackOK(t)'
    BY <1>1, <1>4, <2>1 DEF FrameInv, StackOK
  <2>3. QED
    BY <1>1, <1>2, <1>4, <2>1, <2>2 DEF FrameInv
<1>5. CASE current' # current
  <2> DEFINE s == stack[current]
             n == stack[current']
             left == [kind |-> "switch", ebp |-> ebp]
             s2 == Append(s, left)
             n2 == IF Top(n).kind = "new" THEN n ELSE Popped(n)
  <2>1. /\ ebp' = IF Top(n).kind = "new" THEN NULL ELSE Top(n).ebp
        /\ stack' = [stack EXCEPT ![current] = s2, ![current'] = n2]
    BY <1>5 DEF SwitchTo
  <2>2. stack'[current] = s2 /\ stack'[current'] = n2
        /\ \A t \in AllTask \ {current, current'} : stack'[t] = stack[t]
    BY <1>3, <1>5, <2>1 DEF FrameInv
  <2>3. /\ KernelStack(s, regs[current], syscall[current], eflags[current])
        /\ Top(s).kind # "new"
        /\ Top(s).kind \in {"interrupt", "syscall"} => ebp = current
        /\ s \in Stack /\ Len(s) > 0
    BY <1>1 DEF FrameInv, StackOK, KernelStack, Depth
  <2>4. left \in Left /\ left.ebp = ebp
    BY DEF Left, FrameInv
  <2>5. SuspendedStack(current, s2, regs[current], syscall[current], eflags[current])
        /\ s2 \in Stack
    <3> HIDE DEF left, s
    <3>1. /\ s2 \in Stack /\ Len(s2) = Len(s) + 1 /\ Top(s2) = left /\ Popped(s2) = s
      BY <2>3, <2>4, PushStack
    <3>2. Top(s).kind # "block" => ebp = current
      BY <2>3 DEF KernelStack, Regs
    <3>3. Len(s) \in Nat
      BY <2>3 DEF Stack
    <3> HIDE DEF s2
    <3>4. QED
      BY <2>3, <2>4, <3>1, <3>2, <3>3 DEF SuspendedStack
  <2>6. SuspendedStack(current', n, regs[current'], syscall[current'], eflags[current'])
    BY <1>3, <1>5 DEF FrameInv, StackOK
  <2>7. /\ n2 \in Stack
        /\ KernelStack(n2, regs[current'], syscall[current'], eflags[current'])
        /\ Top(n2).kind \in {"interrupt", "syscall"} => ebp' = current'
        /\ Top(n2).kind = "new" => ebp' = NULL
        /\ ebp' \in Link
    <3> HIDE DEF n
    <3>1. CASE Top(n).kind = "new"
      <4>1. n \in Stack
        BY <2>6 DEF SuspendedStack, KernelStack
      <4>2. Top(n) \notin Left
        BY <3>1 DEF Left
      <4>3. QED
        BY <2>1, <2>6, <3>1, <4>1, <4>2 DEF SuspendedStack
    <3>2. CASE Top(n).kind # "new"
      <4>1. /\ Top(n) \in Left /\ KernelStack(Popped(n), regs[current'], syscall[current'], eflags[current'])
            /\ Top(Popped(n)).kind # "new"
            /\ Top(Popped(n)).kind # "block" => Top(n).ebp = current'
        BY <2>6, <3>2 DEF SuspendedStack
      <4>2. Popped(n) \in Stack
        BY <4>1 DEF KernelStack
      <4>3. Top(n).ebp \in Link
        BY <4>1 DEF Left
      <4>4. QED
        BY <2>1, <3>2, <4>1, <4>2, <4>3
    <3>3. QED
      BY <3>1, <3>2
  <2> HIDE DEF s, n, left, s2, n2
  <2>8. ASSUME NEW t \in Alive PROVE StackOK(t)'
    <3>1. CASE t = current
      BY <1>1, <1>5, <2>2, <2>5, <3>1 DEF StackOK
    <3>2. CASE t = current'
      BY <1>1, <2>2, <2>7, <3>2 DEF StackOK
    <3>3. CASE t # current /\ t # current'
      BY <1>1, <2>2, <3>3, OthersKept
    <3>4. QED
      BY <3>1, <3>2, <3>3
  <2>9. stack' \in [AllTask -> Stack]
    BY <1>3, <2>1, <2>5, <2>7 DEF FrameInv
  <2>10. \A t \in Task \ Created : stack'[t] = <<>>
    BY <1>3, <2>2 DEF FrameInv, AllTask
  <2>11. QED
    BY <1>1, <1>2, <2>2, <2>7, <2>8, <2>9, <2>10 DEF FrameInv
<1>6. QED
  BY <1>4, <1>5

\* No step breaks FrameInv.
LEMMA FrameInvStep ==
  FrameInv /\ IInv /\ IInv' /\ [FrameNext]_<<allVars, frameVars>> => FrameInv'
<1> SUFFICES ASSUME FrameInv, IInv, IInv', [FrameNext]_<<allVars, frameVars>>
             PROVE  FrameInv'
  OBVIOUS
<1>1. CASE FrameNext
  BY <1>1, FrameInterrupt, FrameSyscall, FrameGetch, FrameLeaveGetch, FrameBlock,
     FrameNewStack, FrameLoadEbp, FrameSwitchTo, FrameLeave, FrameNoFrame DEF FrameNext
<1>2. CASE UNCHANGED <<allVars, frameVars>>
  <2>1. /\ UNCHANGED <<stack, regs, ebp, current, pc, syscall, eflags>>
        /\ Created' = Created /\ Alive' = Alive
    BY <1>2 DEF allVars, frameVars, vars, cpuVars, taskVars, Created, Alive
  <2>2. \A t \in Alive : StackOK(t)'
    BY <2>1 DEF FrameInv, StackOK
  <2>3. QED
    BY <2>1, <2>2 DEF FrameInv
<1>3. QED
  BY <1>1, <1>2

\* FrameInv holds at the start.
LEMMA FrameInvInit == FrameInit /\ IInv => FrameInv
<1> SUFFICES ASSUME FrameInit, IInv
             PROVE  FrameInv
  OBVIOUS
<1> USE Tasks
<1>1. /\ current = idle_task /\ pc = "run" /\ Alive = {idle_task}
      /\ syscall[idle_task] = "none" /\ stack[idle_task] = <<>>
  BY DEF FrameInit, InputInit, Init, Alive, Created, AllTask
<1>2. <<>> \in Stack /\ Len(<<>>) = 0
  BY DEF Stack
<1>3. StackOK(idle_task)
  BY <1>1, <1>2 DEF StackOK, ProcessStack, Depth, Outer
<1>4. stack \in [AllTask -> Stack] /\ regs \in [AllTask -> Nat] /\ ebp \in Link
  BY <1>2 DEF FrameInit
<1>5. \A t \in Task \ Created : stack[t] = <<>>
  BY DEF FrameInit, AllTask
<1>6. QED
  BY <1>1, <1>3, <1>4, <1>5 DEF FrameInv

(* The stacks keep their shape in every step of the entry and exit code,   *)
(* of switch_to and of the system calls.                                   *)
THEOREM FrameInvariant == FrameSpec => [](IInv /\ FrameInv)
<1>1. FrameSpec => []IInv
  BY FramesImplementInput, InputImplementsTask, Invariant, PTL
<1>2. QED
  BY <1>1, FrameInvInit, FrameInvStep, PTL DEF FrameSpec

(* Frames(t) is the stack without what switch_to left.                     *)
LEMMA FramesOf ==
  ASSUME IInv, FrameInv, NEW t \in Alive
  PROVE  IF InProcess(t)
           THEN Frames(t) = stack[t] /\ ProcessStack(Frames(t), regs[t], syscall[t])
           ELSE /\ KernelStack(Frames(t), regs[t], syscall[t], eflags[t])
                /\ IF t = current THEN Frames(t) = stack[t]
                   ELSE Top(stack[t]).kind \in {"switch", "new"}
<1> USE Tasks
<1>1. stack[t] \in Stack /\ StackOK(t)
  BY DEF FrameInv
<1>2. CASE InProcess(t)
  <2>1. ProcessStack(stack[t], regs[t], syscall[t])
    BY <1>1, <1>2 DEF StackOK, InProcess
  <2>2. CASE syscall[t] = "none"
    <3>1. stack[t] = <<>>
      BY <2>1, <2>2, EmptySeq DEF ProcessStack, Depth, Stack
    <3>2. QED
      BY <1>2, <2>1, <3>1 DEF Frames
  <2>3. CASE syscall[t] # "none"
    <3>1. Top(stack[t]) \in Regs
      BY <2>1, <2>3 DEF ProcessStack, Depth, Outer, Top
    <3>2. QED
      BY <1>2, <2>1, <3>1, NoSwitch DEF Frames
  <2>4. QED
    BY <2>2, <2>3
<1>3. CASE t = current /\ pc # "run"
  <2>1. KernelStack(stack[t], regs[t], syscall[t], eflags[t])
    BY <1>1, <1>3 DEF StackOK
  <2>2. Frames(t) = stack[t]
    BY <2>1, NoSwitch DEF Frames, KernelStack
  <2>3. QED
    BY <1>3, <2>1, <2>2 DEF InProcess
<1>4. CASE t # current
  <2>1. SuspendedStack(t, stack[t], regs[t], syscall[t], eflags[t])
    BY <1>1, <1>4 DEF StackOK
  <2>2. CASE Top(stack[t]).kind = "new"
    <3>1. Top(stack[t]) \notin Left
      BY <2>2 DEF Left
    <3>2. KernelStack(stack[t], regs[t], syscall[t], eflags[t]) /\ Frames(t) = stack[t]
      BY <2>1, <2>2, <3>1 DEF SuspendedStack, Frames
    <3>3. QED
      BY <1>4, <2>2, <3>2 DEF InProcess
  <2>3. CASE Top(stack[t]).kind # "new"
    <3>1. /\ Len(stack[t]) > 1 /\ Top(stack[t]) \in Left
          /\ KernelStack(Popped(stack[t]), regs[t], syscall[t], eflags[t])
      BY <2>1, <2>3 DEF SuspendedStack
    <3>2. stack[t] # <<>> /\ Top(stack[t]).kind = "switch"
      BY <3>1 DEF Left
    <3>3. QED
      BY <1>4, <3>1, <3>2 DEF Frames, InProcess
  <2>4. QED
    BY <2>2, <2>3
<1>5. QED
  BY <1>2, <1>3, <1>4 DEF InProcess

(* What a task has on its stack is what it has entered and not left, with  *)
(* the flags of the scheduler model on top: whichever task took the        *)
(* interrupt or the switch, restore pops the frame that belongs to it.     *)
THEOREM StackBalancedCorrect == FrameSpec => []StackBalanced
<1>1. IInv /\ FrameInv => StackBalanced
  <2> SUFFICES ASSUME IInv, FrameInv, NEW t \in Alive
               PROVE  LET inner == IF syscall[t] = "none" THEN 0 ELSE 1
                      IN  /\ IF InProcess(t) THEN Len(stack[t]) = inner
                             ELSE /\ Len(Frames(t)) = inner + 1
                                  /\ IF t = current THEN Top(stack[t]).kind # "switch"
                                                    ELSE Top(stack[t]).kind \in {"switch", "new"}
                                  /\ Top(Frames(t)).if = eflags[t]
                          /\ inner = 1 => Frames(t)[1].if = (syscall[t] = "if_on")
    BY DEF StackBalanced, Alive
  <2>1. CASE InProcess(t)
    <3>1. Frames(t) = stack[t] /\ ProcessStack(Frames(t), regs[t], syscall[t])
      BY <2>1, FramesOf
    <3>2. QED
      BY <2>1, <3>1 DEF ProcessStack, Depth, Outer
  <2>2. CASE ~InProcess(t)
    BY <2>2, FramesOf, NoSwitch DEF KernelStack, Depth, Outer
  <2>3. QED
    BY <2>1, <2>2
<1>2. QED
  BY <1>1, FrameInvariant, PTL

(* The result of a system call is in the eax that it returns with, however *)
(* long getch() slept and whoever ran meanwhile; and no interrupted code   *)
(* finds a result in its eax.                                              *)
THEOREM ResultsInPlaceCorrect == FrameSpec => []ResultsInPlace
<1>1. IInv /\ FrameInv => ResultsInPlace
  <2> SUFFICES ASSUME IInv, FrameInv
               PROVE  ResultsInPlace
    OBVIOUS
  <2> USE Tasks
  <2>1. ASSUME NEW t \in AllTask, NEW i \in DOMAIN Frames(t),
               Frames(t)[i].eax = "result"
        PROVE  Frames(t)[i].kind = "syscall"
    <3>1. CASE t \in Alive
      <4>1. Frames(t)[i] \in Regs
        BY <2>1, <3>1, FramesOf DEF ProcessStack, KernelStack, Depth, Outer, Top, Stack
      <4>2. QED
        BY <2>1, <4>1 DEF Regs
    <3>2. CASE t \notin Alive
      <4>1. stack[t] = <<>>
        BY <3>2 DEF Alive, AllTask, FrameInv
      <4>2. QED
        BY <2>1, <4>1 DEF Frames
    <3>3. QED
      BY <3>1, <3>2
  <2>2. ASSUME pc \in {"ret_from_intr", "schedule", "restore"},
               Top(stack[current]).kind = "syscall"
        PROVE  Top(stack[current]).eax = "result"
    BY <2>2, FramesOf DEF KernelStack, InProcess
  <2>3. QED
    BY <2>1, <2>2 DEF ResultsInPlace
<1>2. QED
  BY <1>1, FrameInvariant, PTL
=============================================================================
