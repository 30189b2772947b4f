------------------------------ MODULE alt_irq -------------------------------
(***************************************************************************)
(* Interrupts under the HAL: the dispatch loop (HAL/src/alt_irq_handler.c, *)
(* entered from alt_irq_entry.S), registration (alt_iic_isr_register.c),   *)
(* the critical sections of sys/alt_irq.h and the nesting of handlers of   *)
(* priv/alt_legacy_irq.h.  The smaller the number, the more urgent the     *)
(* interrupt.  A function that runs with interrupts off from its first     *)
(* write to its last is one step; devices raise requests at any time and   *)
(* hold them until code clears them through their registers.               *)
(***************************************************************************)
EXTENDS Integers, Sequences, SequencesExt, FiniteSetsExt

CONSTANTS
  NIRQ,             \* interrupts of the controller, 32 on a Nios II
  NestedCalls,      \* may code enable and disable single interrupts while a
                    \* handler below it is interruptible?
  MAX_SECTIONS,     \* bound: critical sections of one context, nested
  MAX_DEPTH         \* bound: handlers interrupting one another

ASSUME IrqAssumption ==
  /\ NIRQ \in Nat \ {0} /\ NestedCalls \in BOOLEAN
  /\ MAX_SECTIONS \in Nat /\ MAX_DEPTH \in Nat

IRQ == 0 .. NIRQ - 1

VARIABLES
  PIE,                \* bit of the status register: interrupts are taken
  ienable,            \* the controller's register
  alt_irq_active, alt_priority_mask,
  registered,         \* the interrupts i with alt_irq[i].handler # NULL
  request,            \* the lines that devices hold up
  contexts            \* the program and the handlers on top of it

irqVars ==
  <<PIE, ienable, alt_irq_active, alt_priority_mask, registered, request, contexts>>

\* A context: the interrupt it handles (NIRQ: none, the program), the values of
\* PIE that its open critical sections will restore, and the mask it will
\* restore when it is interruptible.
NoMask == {NIRQ}
Context == [irq : 0 .. NIRQ, saved : Seq({0, 1}), old : (SUBSET IRQ) \cup {NoMask}]
ContextOf(i) == [irq |-> i, saved |-> << >>, old |-> NoMask]

Current == Last(contexts)
Running(c) == [contexts EXCEPT ![Len(contexts)] = c]
Outside == Current.saved = << >>
InHandler == Current.irq # NIRQ

ipending == ienable \cap request

-----------------------------------------------------------------------------
\* alt_irq_init(): the controller is cleared, then interrupts are allowed.
IrqInit ==
  /\ PIE = 1 /\ ienable = {}
  /\ alt_irq_active = {} /\ alt_priority_mask = IRQ /\ registered = {}
  /\ request = {}
  /\ contexts = <<ContextOf(NIRQ)>>

Raise(i) ==
  /\ i \notin request /\ request' = request \cup {i}
  /\ UNCHANGED <<PIE, ienable, alt_irq_active, alt_priority_mask, registered, contexts>>

\* Running code answers the device.
Clear(i) ==
  /\ i \in request /\ request' = request \ {i}
  /\ UNCHANGED <<PIE, ienable, alt_irq_active, alt_priority_mask, registered, contexts>>

\* Bug: the least urgent interrupt first.
MutNextIrq == Max(ipending)

NextIrq == Min(ipending)

\* The exception: status is saved with PIE = 1, and alt_irq_handler() begins.
alt_irq_entry ==
  /\ PIE = 1 /\ ipending # {} /\ Len(contexts) <= MAX_DEPTH
  /\ PIE' = 0
  /\ contexts' = Append(contexts, ContextOf(NextIrq))
  /\ UNCHANGED <<ienable, alt_irq_active, alt_priority_mask, registered, request>>

\* A handler returns to the loop of alt_irq_handler(), which reads the pending
\* interrupts again and leaves the exception when there are none.
HandlerReturns ==
  /\ InHandler /\ Outside /\ Current.old = NoMask
  /\ IF ipending # {} THEN contexts' = Running(ContextOf(NextIrq)) /\ UNCHANGED PIE
     ELSE contexts' = Front(contexts) /\ PIE' = 1
  /\ UNCHANGED <<ienable, alt_irq_active, alt_priority_mask, registered, request>>

\* Critical sections.
alt_irq_disable_all ==
  /\ Len(Current.saved) < MAX_SECTIONS
  /\ contexts' = Running([Current EXCEPT !.saved = Append(@, PIE)])
  /\ PIE' = 0
  /\ UNCHANGED <<ienable, alt_irq_active, alt_priority_mask, registered, request>>

\* Bug: interrupts are on after every section.
MutRestored == 1

Restored == Last(Current.saved)

alt_irq_enable_all ==
  /\ ~Outside
  /\ PIE' = Restored
  /\ contexts' = Running([Current EXCEPT !.saved = Front(@)])
  /\ UNCHANGED <<ienable, alt_irq_active, alt_priority_mask, registered, request>>

\* Single interrupts.  What is written to the controller does not depend on
\* alt_priority_mask.
MayChange == NestedCalls \/ alt_priority_mask = IRQ

\* Bug: a handler is taken out, its interrupt stays on.
MutActivated(i, isr) == alt_irq_active \cup {i}

Activated(i, isr) == IF isr THEN alt_irq_active \cup {i} ELSE alt_irq_active \ {i}

\* isr: a handler is given, not NULL.
alt_iic_isr_register(i, isr) ==
  /\ MayChange
  /\ registered' = IF isr THEN registered \cup {i} ELSE registered \ {i}
  /\ alt_irq_active' = Activated(i, isr)
  /\ ienable' = alt_irq_active'
  /\ UNCHANGED <<PIE, alt_priority_mask, request, contexts>>

\* Nobody enables an interrupt that has no handler.
alt_irq_enable(i) ==
  /\ MayChange /\ i \in registered
  /\ alt_irq_active' = alt_irq_active \cup {i}
  /\ ienable' = alt_irq_active'
  /\ UNCHANGED <<PIE, alt_priority_mask, registered, request, contexts>>

alt_irq_disable(i) ==
  /\ MayChange
  /\ alt_irq_active' = alt_irq_active \ {i}
  /\ ienable' = alt_irq_active'
  /\ UNCHANGED <<PIE, alt_priority_mask, registered, request, contexts>>

MoreUrgent(i) == 0 .. i - 1

\* A handler lets more urgent ones interrupt it, once it is outside critical
\* sections, and takes that back before it returns.
alt_irq_interruptible ==
  /\ InHandler /\ Outside /\ Current.old = NoMask
  /\ alt_priority_mask' = MoreUrgent(Current.irq)
  /\ ienable' = alt_irq_active \cap alt_priority_mask'
  /\ PIE' = 1
  /\ contexts' = Running([Current EXCEPT !.old = alt_priority_mask])
  /\ UNCHANGED <<alt_irq_active, registered, request>>

alt_irq_non_interruptible ==
  /\ InHandler /\ Outside /\ Current.old # NoMask
  /\ PIE' = 0
  /\ alt_priority_mask' = Current.old
  /\ ienable' = alt_priority_mask' \cap alt_irq_active
  /\ contexts' = Running([Current EXCEPT !.old = NoMask])
  /\ UNCHANGED <<alt_irq_active, registered, request>>

IrqNext ==
  \/ \E i \in IRQ : Raise(i) \/ Clear(i)
  \/ alt_irq_entry
  \/ HandlerReturns
  \/ alt_irq_disable_all
  \/ alt_irq_enable_all
  \/ \E i \in IRQ, isr \in BOOLEAN : alt_iic_isr_register(i, isr)
  \/ \E i \in IRQ : alt_irq_enable(i) \/ alt_irq_disable(i)
  \/ alt_irq_interruptible
  \/ alt_irq_non_interruptible

\* The processor takes an interrupt as soon as it may; critical sections and
\* handlers end.
Leaves == Len(Current.saved) = 1 /\ alt_irq_enable_all

IrqFairness ==
  /\ SF_irqVars(alt_irq_entry) /\ SF_irqVars(HandlerReturns)
  /\ WF_irqVars(alt_irq_enable_all) /\ SF_irqVars(Leaves)
  /\ SF_irqVars(alt_irq_non_interruptible)

IrqSpec == IrqInit /\ [][IrqNext]_irqVars /\ IrqFairness

-----------------------------------------------------------------------------
IrqTypeOK ==
  /\ PIE \in {0, 1}
  /\ ienable \subseteq IRQ /\ alt_irq_active \subseteq IRQ /\ alt_priority_mask \subseteq IRQ
  /\ registered \subseteq IRQ /\ request \subseteq IRQ
  /\ contexts \in Seq(Context) /\ contexts # << >>

Begins == Len(contexts') > Len(contexts)

\* "used to allow higer priority interrupts to interrupt the current ISR"
\* (alt_legacy_irq.h, lines 103 to 104): no handler is interrupted by itself or
\* by a less urgent one.
PriorityKept == [][Begins => Last(contexts').irq < Current.irq]_irqVars

\* Nothing interrupts a critical section, however sections and the calls in
\* them are nested, nor a handler that does not allow it; and one that does is
\* interrupted by more urgent ones only.
Undisturbed ==
  [][Begins => /\ Outside /\ (InHandler => Current.old # NoMask)
               /\ Last(contexts').irq < Current.irq]_irqVars

\* alt_irq_handler() calls no handler that has been taken out or disabled,
\* though handlers and the program do both while interrupts are pending.
HandlerThere ==
  [][alt_irq_entry \/ (HandlerReturns /\ Len(contexts') = Len(contexts))
       => Last(contexts').irq \in registered \cap alt_irq_active]_irqVars

\* The most urgent interrupt gets its handler, even when less urgent ones are
\* raised over and over.
UrgentServed ==
  0 \in request \cap alt_irq_active ~> Current.irq = 0 \/ 0 \notin request \cap alt_irq_active
=============================================================================
