----------------------------- MODULE Irq_proofs -----------------------------
(***************************************************************************)
(* The masks of kernel/i8259.c and handle_irq, for every set of request    *)
(* lines and every set of handlers.                                        *)
(***************************************************************************)
EXTENDS Irq, TLAPS

\* What ack_irq's EOIs take out of service for line i.
Serves(i) == IF Slave(i) THEN {i, 2} ELSE {i}

\* The inductive invariant: the masks agree; only what is being handled and
\* not yet acknowledged is in service; only an acknowledged line is masked
\* although it has handlers.
IrqInv ==
  /\ irq_handlers \in [Irq -> Seq(Handler)]
  /\ cached_irq_mask \subseteq Irq /\ imr = cached_irq_mask
  /\ irr \subseteq Irq
  /\ irq \in Irq \cup {None}
  /\ acked \in BOOLEAN
  /\ todo \in Seq(Handler)
  /\ isr \subseteq IF irq # None /\ ~acked THEN Serves(irq) ELSE {}
  /\ irq = None => ~acked
  /\ \A i \in Irq : irq_handlers[i] # <<>> /\ i \in cached_irq_mask => i = irq /\ acked

\* IrqInv holds at the start.
LEMMA IrqInvInit == Init => IrqInv
<1> SUFFICES ASSUME Init
             PROVE  IrqInv
  OBVIOUS
<1>1. <<>> \in Seq(Handler)
  OBVIOUS
<1>2. irq_handlers \in [Irq -> Seq(Handler)] /\ todo \in Seq(Handler)
  BY <1>1 DEF Init
<1>3. acked \in BOOLEAN /\ ~acked
  BY DEF Init
<1>4. \A i \in Irq : irq_handlers[i] = <<>>
  BY DEF Init
<1>5. irq = None /\ isr = {} /\ irr = {} /\ cached_irq_mask = Irq /\ imr = Irq
  BY DEF Init
<1>6. QED
  BY <1>2, <1>3, <1>4, <1>5 DEF IrqInv

(* Writing one byte of the mask is enough: the other byte has not changed. *)
LEMMA MaskWritten ==
  ASSUME imr = cached_irq_mask, cached_irq_mask \subseteq Irq, NEW i \in Irq,
         \/ cached_irq_mask' = cached_irq_mask \cup {i}
         \/ cached_irq_mask' = cached_irq_mask \ {i},
         OutMask(i, cached_irq_mask')
  PROVE  imr' = cached_irq_mask' /\ cached_irq_mask' \subseteq Irq
<1>1. i \in Half(i) /\ Half(i) \subseteq Irq
  BY DEF Half
<1>2. QED
  BY <1>1 DEF OutMask

\* No step breaks IrqInv.
LEMMA IrqInvStep == IrqInv /\ [Next]_vars => IrqInv'
<1> SUFFICES ASSUME IrqInv, [Next]_vars
             PROVE  IrqInv'
  OBVIOUS
<1> USE IrqAssumption DEF IrqInv
<1>1. ASSUME NEW i \in Irq, Raise(i) PROVE IrqInv'
  BY <1>1 DEF Raise
<1>2. ASSUME NEW i \in Irq, Deliver(i) PROVE IrqInv'
  BY <1>2 DEF Deliver, Serves
<1>3. ASSUME NEW i \in Irq, Spurious(i) PROVE IrqInv'
  <2>1. isr = {} /\ irq' \in {7, 15} /\ irq' # None /\ acked' = FALSE
    BY <1>3 DEF Spurious
  <2>2. isr' \subseteq Serves(irq')
    <3>1. CASE Slave(i)
      <4>1. irq' = 15 /\ isr' = {2}
        BY <1>3, <2>1, <3>1 DEF Spurious
      <4>2. QED
        BY <4>1 DEF Serves, Slave
    <3>2. CASE ~Slave(i)
      BY <1>3, <2>1, <3>2 DEF Spurious
    <3>3. QED
      BY <3>1, <3>2
  <2>3. irr' \subseteq Irq
    BY <1>3 DEF Spurious
  <2>4. QED
    BY <1>3, <2>1, <2>2, <2>3 DEF Spurious
<1>4. ASSUME NEW h \in Handler, NEW i \in Irq, register_irq_handler(h, i) PROVE IrqInv'
  <2>1. imr' = cached_irq_mask' /\ cached_irq_mask' \subseteq Irq
    BY <1>4, MaskWritten DEF register_irq_handler
  <2>2. irq_handlers' \in [Irq -> Seq(Handler)]
    BY <1>4 DEF register_irq_handler
  <2>3. QED
    BY <1>4, <2>1, <2>2 DEF register_irq_handler
<1>5. CASE ack_irq
  <2>1. irq \in Irq
    BY <1>5 DEF ack_irq
  <2>2. imr' = cached_irq_mask' /\ cached_irq_mask' \subseteq Irq
    BY <1>5, <2>1, MaskWritten DEF ack_irq
  <2>3. isr' = {}
    BY <1>5 DEF ack_irq, Eoi, Serves
  <2>4. QED
    BY <1>5, <2>1, <2>2, <2>3 DEF ack_irq
<1>6. CASE CallHandler
  BY <1>6 DEF CallHandler, picVars
<1>7. CASE HandleDone
  <2>1. irq \in Irq
    BY <1>7 DEF HandleDone
  <2>2. imr' = cached_irq_mask' /\ cached_irq_mask' \subseteq Irq
    BY <1>7, <2>1, MaskWritten DEF HandleDone
  <2>3. QED
    BY <1>7, <2>1, <2>2 DEF HandleDone
<1>8. CASE UNCHANGED vars
  BY <1>8 DEF vars, picVars
<1>9. QED
  BY <1>1, <1>2, <1>3, <1>4, <1>5, <1>6, <1>7, <1>8 DEF Next, Kernel

(* The controllers' masks, the cached mask and the handlers agree before   *)
(* and after every interrupt, and at every step of its entry code.         *)
THEOREM IrqInvariant == Spec => []IrqInv
  BY IrqInvInit, IrqInvStep, PTL DEF Spec

(* disable_irq, enable_irq and ack_irq each write the byte of one          *)
(* controller; the two always mask what the cached mask says.              *)
THEOREM MaskCachedCorrect == Spec => []MaskCached
<1>1. IrqInv => MaskCached
  BY DEF IrqInv, MaskCached
<1>2. QED
  BY <1>1, IrqInvariant, PTL

(* No sequence of interrupts, spurious ones and those of the slave         *)
(* included, leaves a line in service, or one with a handler masked.       *)
THEOREM NoLineLostCorrect == Spec => []NoLineLost
<1>1. IrqInv => NoLineLost
  BY DEF IrqInv, NoLineLost
<1>2. QED
  BY <1>1, IrqInvariant, PTL
=============================================================================
