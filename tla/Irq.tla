--------------------------------- MODULE Irq ---------------------------------
(***************************************************************************)
(* Interrupt requests: the handler lists of kernel/irq.c and the masks of  *)
(* kernel/i8259.c, with the pair of 8259A controllers they program (its    *)
(* request, in-service and mask registers: external).                      *)
(*                                                                         *)
(* handle_irq runs with the lock held and interrupts off, but a device may *)
(* ask again at any time.                                                  *)
(***************************************************************************)
EXTENDS Integers, Sequences, SequencesExt

CONSTANTS
  Irq,      \* the request lines that are modelled
  Handler,  \* every struct irq_handler
  None      \* no request is being handled

ASSUME IrqAssumption ==
  /\ Irq \subseteq 0..15 /\ {2, 7, 15} \subseteq Irq
  /\ None \notin Irq

VARIABLES
  irq_handlers,     \* line -> the list of its handlers
  cached_irq_mask,  \* the lines the kernel takes to be masked
  spurious_mask,    \* the lines a spurious interrupt was reported for
  imr, irr, isr,    \* the controllers: lines masked, requesting, in service
  irq,              \* the request being handled, or None
  acked,            \* has ack_irq been called for it?
  todo              \* the handlers handle_irq has still to call

picVars == <<imr, irr, isr>>
vars == <<irq_handlers, cached_irq_mask, spurious_mask, picVars, irq, acked, todo>>

\* init_irq_vectors and init_8259A have run.
Init ==
  /\ irq_handlers = [i \in Irq |-> <<>>]
  /\ cached_irq_mask = Irq
  /\ spurious_mask = {}
  /\ imr = Irq /\ irr = {} /\ isr = {}
  /\ irq = None /\ acked = FALSE
  /\ todo = <<>>

-----------------------------------------------------------------------------
(* The controllers.                                                        *)

Slave(i) == i >= 8

\* The lines of the controller that has line i.
Half(i) == {j \in Irq : Slave(j) <=> Slave(i)}

\* The place of a line in the order of priorities: the slave hangs on line 2.
Rank(i) == IF Slave(i) THEN 16 + i ELSE IF i > 2 THEN 32 + i ELSE i

\* The lines whose request would reach the processor.
Unmasked == {i \in irr : i \notin imr /\ (Slave(i) => 2 \notin imr)}
Deliverable(i) ==
  /\ i \in Unmasked
  /\ \A j \in Unmasked \cup isr : j = i \/ Rank(i) < Rank(j)

\* A device asks for service; the request is latched, masked or not.
Raise(i) ==
  /\ irr' = irr \cup {i}
  /\ UNCHANGED <<irq_handlers, cached_irq_mask, spurious_mask, imr, isr, irq, acked, todo>>

\* Mutant: the mask of the other controller is written.
OutMask_OtherHalf(i, mask) == imr' = (imr \cap Half(i)) \cup (mask \ Half(i))

\* outb of the mask byte of the controller that has line i.
OutMask(i, mask) == imr' = (imr \ Half(i)) \cup (mask \cap Half(i))

-----------------------------------------------------------------------------
(* The kernel.                                                             *)

\* Mutant: no specific EOI is sent to the master for a line of the slave.
Eoi_SlaveOnly(i) == isr' = isr \ {i}

\* Mutant: no EOI at all.
Eoi_Missing(i) == UNCHANGED isr

\* Mutant: a spurious line gets no EOI, as if nothing were in service for it.
Eoi_SkipSpurious(i) ==
  isr' = isr \ (IF i \notin isr THEN {} ELSE IF Slave(i) THEN {i, 2} ELSE {i})

\* The specific EOIs at the end of ack_irq.
Eoi(i) == isr' = isr \ (IF Slave(i) THEN {i, 2} ELSE {i})

register_irq_handler(h, i) ==
  /\ irq = None
  /\ \A j \in Irq : ~Contains(irq_handlers[j], h)
  /\ irq_handlers' = [irq_handlers EXCEPT ![i] = <<h>> \o @]
  /\ cached_irq_mask' = cached_irq_mask \ {i}
  /\ OutMask(i, cached_irq_mask')
  /\ UNCHANGED <<spurious_mask, irr, isr, irq, acked, todo>>

\* The processor takes the request of line i.  (A slave's is in service at
\* line 2 of the master too.)
Deliver(i) ==
  /\ irq = None /\ Deliverable(i)
  /\ irr' = irr \ {i}
  /\ isr' = isr \cup (IF Slave(i) THEN {i, 2} ELSE {i})
  /\ irq' = i
  /\ acked' = FALSE
  /\ UNCHANGED <<irq_handlers, cached_irq_mask, spurious_mask, imr, todo>>

\* A request goes away before the processor acknowledges it: its controller
\* gives the vector of its last line, 7 or 15, which is not in service there.
\* (The master has acknowledged its line 2 for the slave all the same.)
Spurious(i) ==
  /\ irq = None /\ Deliverable(i)
  /\ irr' = irr \ {i}
  /\ irq' = IF Slave(i) THEN 15 ELSE 7
  /\ isr' = IF Slave(i) THEN isr \cup {2} ELSE isr
  /\ acked' = FALSE
  /\ UNCHANGED <<irq_handlers, cached_irq_mask, spurious_mask, imr, todo>>

\* ack_irq: note a spurious interrupt, mask the line, send EOI.
ack_irq ==
  /\ irq # None /\ ~acked
  /\ spurious_mask' = IF irq \in cached_irq_mask THEN spurious_mask \cup {irq}
                                                 ELSE spurious_mask
  /\ cached_irq_mask' = cached_irq_mask \cup {irq}
  /\ OutMask(irq, cached_irq_mask')
  /\ Eoi(irq)
  /\ acked' = TRUE
  /\ todo' = irq_handlers[irq]
  /\ UNCHANGED <<irq_handlers, irr, irq>>

\* One turn of handle_irq's loop.
CallHandler ==
  /\ todo # <<>>
  /\ todo' = Tail(todo)
  /\ UNCHANGED <<irq_handlers, cached_irq_mask, spurious_mask, picVars, irq, acked>>

\* The end of handle_irq: enable_irq(irq).
HandleDone ==
  /\ irq # None /\ acked /\ todo = <<>>
  /\ cached_irq_mask' = cached_irq_mask \ {irq}
  /\ OutMask(irq, cached_irq_mask')
  /\ irq' = None /\ acked' = FALSE
  /\ UNCHANGED <<irq_handlers, spurious_mask, irr, isr, todo>>

Kernel == ack_irq \/ CallHandler \/ HandleDone

Next ==
  \/ \E i \in Irq : Raise(i) \/ Deliver(i) \/ Spurious(i)
  \/ \E h \in Handler, i \in Irq : register_irq_handler(h, i)
  \/ Kernel

Spec == Init /\ [][Next]_vars

\* The kernel's code runs to its end, and a request that can be delivered
\* again and again is.
FairSpec ==
  /\ Spec
  /\ WF_vars(Kernel)
  /\ \A i \in Irq : SF_vars(Deliver(i))

-----------------------------------------------------------------------------
\* disable_irq, enable_irq and ack_irq write one byte of the mask, the one of
\* the controller concerned: the controllers always mask what the kernel's
\* cached mask says they do.
MaskCached == imr = cached_irq_mask

\* When no interrupt is being handled, spurious ones included, nothing is left
\* in service in either controller and every line with a handler is open: none
\* of the masking and acknowledging in handle_irq closes a line for good.  (A
\* spurious 15 still leaves the master waiting for the end of line 2.)
NoLineLost ==
  irq = None =>
    /\ isr = {}
    /\ \A i \in Irq : irq_handlers[i] # <<>> => i \notin imr

\* A request on a line of the master that has a handler is handled (or goes
\* away), also one that comes while its line is masked, provided the lines
\* that take precedence come to rest again and again.
RequestsServed ==
  \A i \in Irq :
    (~Slave(i) /\ []<>(irq = None /\ \A j \in irr : Rank(j) >= Rank(i)))
      => ((i \in irr /\ irq_handlers[i] # <<>>) ~> (irq = i \/ i \notin irr))

\* init_irq_vectors: `IRQs are not enabled until they are registered so we know
\* about spurious ones'.
OnlyRegisteredEnabled ==
  \A i \in Irq : i \notin imr => irq_handlers[i] # <<>>
=============================================================================
