---------------------------- MODULE alt_irqProofs ----------------------------
(***************************************************************************)
(* For any number of interrupts, of nested sections and of handlers on top *)
(* of one another: no handler runs that has been taken out, and nothing    *)
(* disturbs a critical section or a handler more urgent than itself, as    *)
(* long as nobody enables or disables single interrupts while a handler is *)
(* interruptible.                                                          *)
(***************************************************************************)
EXTENDS alt_irq, WellFoundedInduction, TLAPS

\* Every interrupt the controller lets through has a handler.
Covered == ienable \subseteq alt_irq_active /\ alt_irq_active \subseteq registered

\* Handlers run on top of the program.
ProgramBelow(s) == \A k \in 1 .. Len(s) : s[k].irq = NIRQ <=> k = 1

HandlerInv == IrqTypeOK /\ ProgramBelow(contexts) /\ Covered

-----------------------------------------------------------------------------
(* Some interrupt is the most urgent one.                                  *)
LEMMA LeastIsMember ==
  ASSUME NEW S, S \subseteq Nat, S # {}
  PROVE  Min(S) \in S
<1> DEFINE R == {ss \in Nat \X Nat : ss[1] < ss[2]}
<1>1. IsWellFoundedOn(R, Nat)
  BY NatLessThanWellFounded, Zenon DEF OpToRel
<1> HIDE DEF R
<1>2. PICK x \in S : \A y \in S : <<y, x>> \notin R
  BY <1>1, WFMin, Zenon
<1>3. \A y \in S : ~(y < x)
  BY <1>2 DEF R
<1>4. \A y \in S : x =< y
  BY <1>3
<1>5. \E z \in S : \A y \in S : z =< y
  BY <1>4
<1> QED BY <1>5 DEF Min

LEMMA NextIrqPending ==
  ASSUME HandlerInv, ipending # {}
  PROVE  NextIrq \in ipending /\ NextIrq \in IRQ
<1>1. ipending \subseteq Nat /\ ipending \subseteq IRQ
  BY IrqAssumption DEF HandlerInv, IrqTypeOK, ipending, IRQ
<1> QED BY <1>1, LeastIsMember DEF NextIrq

(* The sequences of contexts and of saved bits.                            *)
LEMMA SequenceOperators ==
  ASSUME NEW T, NEW s \in Seq(T)
  PROVE  /\ \A e \in T : /\ Append(s, e) \in Seq(T) /\ Append(s, e) # << >>
                         /\ Len(Append(s, e)) = Len(s) + 1
                         /\ Append(s, e)[Len(s) + 1] = e
                         /\ \A k \in 1 .. Len(s) : Append(s, e)[k] = s[k]
         /\ s # << >> =>
              /\ Len(s) \in Nat \ {0} /\ Last(s) = s[Len(s)] /\ Last(s) \in T
              /\ Front(s) \in Seq(T) /\ Len(Front(s)) = Len(s) - 1
              /\ \A k \in 1 .. Len(s) - 1 : Front(s)[k] = s[k]
              /\ \A e \in T : /\ [s EXCEPT ![Len(s)] = e] \in Seq(T)
                              /\ Len([s EXCEPT ![Len(s)] = e]) = Len(s)
                              /\ [s EXCEPT ![Len(s)] = e][Len(s)] = e
                              /\ \A k \in 1 .. Len(s) - 1 : [s EXCEPT ![Len(s)] = e][k] = s[k]
<1>1. ASSUME NEW e \in T
      PROVE  /\ Append(s, e) \in Seq(T) /\ Append(s, e) # << >>
             /\ Len(Append(s, e)) = Len(s) + 1
             /\ Append(s, e)[Len(s) + 1] = e
             /\ \A k \in 1 .. Len(s) : Append(s, e)[k] = s[k]
  OBVIOUS
<1>2. ASSUME s # << >>
      PROVE  /\ Len(s) \in Nat \ {0} /\ Last(s) = s[Len(s)] /\ Last(s) \in T
             /\ Front(s) \in Seq(T) /\ Len(Front(s)) = Len(s) - 1
             /\ \A k \in 1 .. Len(s) - 1 : Front(s)[k] = s[k]
  BY <1>2 DEF Last, Front
<1>3. ASSUME s # << >>, NEW e \in T
      PROVE  /\ [s EXCEPT ![Len(s)] = e] \in Seq(T)
             /\ Len([s EXCEPT ![Len(s)] = e]) = Len(s)
             /\ [s EXCEPT ![Len(s)] = e][Len(s)] = e
             /\ \A k \in 1 .. Len(s) - 1 : [s EXCEPT ![Len(s)] = e][k] = s[k]
  BY <1>3
<1> QED BY <1>1, <1>2, <1>3

-----------------------------------------------------------------------------
LEMMA ContextOfType == \A i \in 0 .. NIRQ : ContextOf(i) \in Context
<1>1. << >> \in Seq({0, 1})
  OBVIOUS
<1>2. NoMask \in (SUBSET IRQ) \cup {NoMask}
  OBVIOUS
<1> QED BY <1>1, <1>2 DEF ContextOf, Context

LEMMA ChangedType ==
  ASSUME NEW c \in Context
  PROVE  /\ \A s \in Seq({0, 1}) : /\ [c EXCEPT !.saved = s] \in Context
                                  /\ [c EXCEPT !.saved = s].irq = c.irq
         /\ \A m \in (SUBSET IRQ) \cup {NoMask} : /\ [c EXCEPT !.old = m] \in Context
                                               /\ [c EXCEPT !.old = m].irq = c.irq
BY DEF Context

LEMMA CurrentType ==
  ASSUME IrqTypeOK
  PROVE  /\ Current \in Context
         /\ Current.saved \in Seq({0, 1}) /\ Current.irq \in 0 .. NIRQ
         /\ Current.old \in (SUBSET IRQ) \cup {NoMask}
<1>1. Current \in Context
  BY SequenceOperators DEF IrqTypeOK, Current
<1> QED BY <1>1 DEF Context

(* The innermost context changes, and only that.                           *)
LEMMA RunningType ==
  ASSUME IrqTypeOK, ProgramBelow(contexts), NEW c \in Context,
         c.irq = Current.irq \/ (InHandler /\ c.irq \in IRQ)
  PROVE  /\ Running(c) \in Seq(Context) /\ Running(c) # << >>
         /\ Len(Running(c)) = Len(contexts) /\ Last(Running(c)) = c
         /\ \A k \in 1 .. Len(contexts) - 1 : Running(c)[k] = contexts[k]
         /\ ProgramBelow(Running(c))
<1>1. /\ Len(Running(c)) = Len(contexts) /\ Running(c) \in Seq(Context)
      /\ Len(contexts) \in Nat \ {0} /\ Current = contexts[Len(contexts)]
      /\ Running(c)[Len(contexts)] = c
      /\ \A k \in 1 .. Len(contexts) - 1 : Running(c)[k] = contexts[k]
  <2>1. contexts \in Seq(Context) /\ contexts # << >>
    BY DEF IrqTypeOK
  <2>2. Len(contexts) \in Nat \ {0} /\ Current = contexts[Len(contexts)]
    BY <2>1, SequenceOperators DEF Current
  <2> QED BY <2>1, <2>2 DEF Running
<1>2. c.irq = NIRQ <=> Len(contexts) = 1
  <2>1. Current.irq = NIRQ <=> Len(contexts) = 1
    BY <1>1 DEF ProgramBelow
  <2> QED BY <2>1, IrqAssumption DEF InHandler, IRQ
<1>3. ProgramBelow(Running(c))
  BY <1>1, <1>2 DEF ProgramBelow
<1> QED BY <1>1, <1>3 DEF Last

(* A handler begins.                                                       *)
LEMMA InterruptedType ==
  ASSUME IrqTypeOK, ProgramBelow(contexts), NEW i \in IRQ
  PROVE  LET s == Append(contexts, ContextOf(i))
         IN  /\ s \in Seq(Context) /\ s # << >> /\ ProgramBelow(s)
             /\ Len(s) = Len(contexts) + 1 /\ Last(s) = ContextOf(i)
             /\ \A k \in 1 .. Len(contexts) : s[k] = contexts[k]
<1> DEFINE s == Append(contexts, ContextOf(i))
<1>1. ContextOf(i) \in Context /\ ContextOf(i).irq # NIRQ
  BY ContextOfType, IrqAssumption DEF IRQ, ContextOf
<1>2. /\ s \in Seq(Context) /\ s # << >> /\ Len(s) = Len(contexts) + 1
      /\ s[Len(contexts) + 1] = ContextOf(i) /\ Len(contexts) \in Nat \ {0}
      /\ \A k \in 1 .. Len(contexts) : s[k] = contexts[k]
  BY <1>1, SequenceOperators DEF IrqTypeOK
<1> HIDE DEF s
<1>3. ProgramBelow(s)
  BY <1>1, <1>2 DEF ProgramBelow
<1> QED BY <1>2, <1>3 DEF s, Last

(* The last handler returns.                                               *)
LEMMA LeftType ==
  ASSUME IrqTypeOK, ProgramBelow(contexts), InHandler
  PROVE  /\ Front(contexts) \in Seq(Context) /\ Front(contexts) # << >>
         /\ ProgramBelow(Front(contexts))
         /\ Len(Front(contexts)) = Len(contexts) - 1 /\ Len(contexts) \in Nat
         /\ \A k \in 1 .. Len(contexts) - 1 : Front(contexts)[k] = contexts[k]
<1>1. /\ Front(contexts) \in Seq(Context) /\ Len(Front(contexts)) = Len(contexts) - 1
      /\ \A k \in 1 .. Len(contexts) - 1 : Front(contexts)[k] = contexts[k]
      /\ Len(contexts) \in Nat \ {0} /\ Current = contexts[Len(contexts)]
  <2>1. contexts \in Seq(Context) /\ contexts # << >>
    BY DEF IrqTypeOK
  <2> QED BY <2>1, SequenceOperators DEF Current
<1>2. Len(contexts) # 1
  BY <1>1 DEF InHandler, ProgramBelow
<1>3. ProgramBelow(Front(contexts)) /\ Front(contexts) # << >>
  BY <1>1, <1>2 DEF ProgramBelow
<1> QED BY <1>1, <1>3

LEMMA HandlerInit == IrqInit => HandlerInv
<1> SUFFICES ASSUME IrqInit PROVE HandlerInv
  OBVIOUS
<1>1. contexts \in Seq(Context) /\ contexts # << >>
  BY ContextOfType, IrqAssumption DEF IrqInit
<1>2. ProgramBelow(contexts)
  <2>1. Len(contexts) = 1 /\ contexts[1].irq = NIRQ
    BY DEF IrqInit, ContextOf
  <2> QED BY <2>1 DEF ProgramBelow
<1> QED BY <1>1, <1>2 DEF IrqInit, HandlerInv, IrqTypeOK, Covered

LEMMA HandlerNext == HandlerInv /\ [IrqNext]_irqVars => HandlerInv'
<1> SUFFICES ASSUME HandlerInv, [IrqNext]_irqVars PROVE HandlerInv'
  OBVIOUS
<1>t. IrqTypeOK /\ ProgramBelow(contexts) /\ Covered
  BY DEF HandlerInv
<1>c. ASSUME contexts' = contexts PROVE ProgramBelow(contexts')
  BY <1>t, <1>c
<1> USE DEF HandlerInv, Covered
<1>1. ASSUME NEW i \in IRQ, Raise(i) \/ Clear(i) PROVE HandlerInv'
  BY <1>1, <1>t, <1>c DEF Raise, Clear, IrqTypeOK
<1>2. CASE alt_irq_entry
  <2>1. contexts' \in Seq(Context) /\ contexts' # << >> /\ ProgramBelow(contexts')
    BY <1>2, <1>t, NextIrqPending, InterruptedType DEF alt_irq_entry
  <2> QED BY <1>2, <1>t, <2>1 DEF alt_irq_entry, IrqTypeOK
<1>3. CASE HandlerReturns
  <2>1. CASE ipending # {}
    <3>1. ContextOf(NextIrq) \in Context /\ ContextOf(NextIrq).irq \in IRQ
      BY <2>1, NextIrqPending, ContextOfType, IrqAssumption DEF IRQ, ContextOf
    <3>2. contexts' = Running(ContextOf(NextIrq)) /\ InHandler
      BY <1>3, <2>1 DEF HandlerReturns
    <3>3. contexts' \in Seq(Context) /\ contexts' # << >> /\ ProgramBelow(contexts')
      BY <1>t, <3>1, <3>2, RunningType
    <3> QED BY <1>3, <1>t, <2>1, <3>3 DEF HandlerReturns, IrqTypeOK
  <2>2. CASE ipending = {}
    <3>1. contexts' \in Seq(Context) /\ contexts' # << >> /\ ProgramBelow(contexts')
      BY <1>3, <1>t, <2>2, LeftType DEF HandlerReturns
    <3> QED BY <1>3, <1>t, <2>2, <3>1 DEF HandlerReturns, IrqTypeOK
  <2> QED BY <2>1, <2>2
<1>4. CASE alt_irq_disable_all
  <2>1. Append(Current.saved, PIE) \in Seq({0, 1})
    BY <1>t, CurrentType, SequenceOperators DEF IrqTypeOK
  <2>2. contexts' \in Seq(Context) /\ contexts' # << >> /\ ProgramBelow(contexts')
    BY <1>4, <1>t, <2>1, CurrentType, ChangedType, RunningType DEF alt_irq_disable_all
  <2> QED BY <1>4, <1>t, <2>2 DEF alt_irq_disable_all, IrqTypeOK
<1>5. CASE alt_irq_enable_all
  <2>1. Front(Current.saved) \in Seq({0, 1}) /\ Restored \in {0, 1}
    BY <1>5, <1>t, CurrentType, SequenceOperators DEF alt_irq_enable_all, Outside, Restored
  <2>2. contexts' \in Seq(Context) /\ contexts' # << >> /\ ProgramBelow(contexts')
    BY <1>5, <1>t, <2>1, CurrentType, ChangedType, RunningType DEF alt_irq_enable_all
  <2> QED BY <1>5, <1>t, <2>1, <2>2 DEF alt_irq_enable_all, IrqTypeOK
<1>6. ASSUME NEW i \in IRQ, NEW isr \in BOOLEAN, alt_iic_isr_register(i, isr)
      PROVE  HandlerInv'
  BY <1>6, <1>t, <1>c DEF alt_iic_isr_register, Activated, IrqTypeOK
<1>7. ASSUME NEW i \in IRQ, alt_irq_enable(i) \/ alt_irq_disable(i) PROVE HandlerInv'
  BY <1>7, <1>t, <1>c DEF alt_irq_enable, alt_irq_disable, IrqTypeOK
<1>8. CASE alt_irq_interruptible
  <2>1. alt_priority_mask' \subseteq IRQ
    BY <1>8, <1>t, CurrentType, IrqAssumption DEF alt_irq_interruptible, MoreUrgent, IRQ
  <2>2. contexts' \in Seq(Context) /\ contexts' # << >> /\ ProgramBelow(contexts')
    BY <1>8, <1>t, CurrentType, ChangedType, RunningType DEF alt_irq_interruptible, IrqTypeOK
  <2> QED BY <1>8, <1>t, <2>1, <2>2 DEF alt_irq_interruptible, IrqTypeOK
<1>9. CASE alt_irq_non_interruptible
  <2>1. alt_priority_mask' \subseteq IRQ
    <3>1. Current.old \in SUBSET IRQ
      BY <1>9, <1>t, CurrentType DEF alt_irq_non_interruptible
    <3> QED BY <1>9, <3>1 DEF alt_irq_non_interruptible
  <2>2. contexts' \in Seq(Context) /\ contexts' # << >> /\ ProgramBelow(contexts')
    BY <1>9, <1>t, CurrentType, ChangedType, RunningType DEF alt_irq_non_interruptible
  <2> QED BY <1>9, <1>t, <2>1, <2>2 DEF alt_irq_non_interruptible, IrqTypeOK
<1>10. CASE UNCHANGED irqVars
  BY <1>10, <1>t, <1>c DEF irqVars, IrqTypeOK
<1> QED BY <1>1, <1>2, <1>3, <1>4, <1>5, <1>6, <1>7, <1>8, <1>9, <1>10 DEF IrqNext

(* No register of the interrupts leaves its range.                         *)
THEOREM IrqTypeCorrect == IrqSpec => []IrqTypeOK
<1>1. HandlerInv => IrqTypeOK BY DEF HandlerInv
<1> QED BY <1>1, HandlerInit, HandlerNext, PTL DEF IrqSpec

(* alt_irq_handler() calls no handler that has been taken out or disabled, *)
(* whatever code does to single interrupts and whenever it does so.        *)
THEOREM HandlerThereCorrect == IrqSpec => HandlerThere
<1> DEFINE Dispatch ==
      alt_irq_entry \/ (HandlerReturns /\ Len(contexts') = Len(contexts))
        => Last(contexts').irq \in registered \cap alt_irq_active
<1>1. ASSUME HandlerInv, alt_irq_entry PROVE Dispatch
  <2>1. NextIrq \in registered \cap alt_irq_active /\ NextIrq \in IRQ
    BY <1>1, NextIrqPending DEF alt_irq_entry, HandlerInv, Covered, ipending
  <2>2. Last(contexts') = ContextOf(NextIrq)
    BY <1>1, <2>1, InterruptedType DEF alt_irq_entry, HandlerInv
  <2> QED BY <2>1, <2>2 DEF ContextOf
<1>2. ASSUME HandlerInv, HandlerReturns, Len(contexts') = Len(contexts) PROVE Dispatch
  <2>1. ipending # {}
    BY <1>2, LeftType DEF HandlerReturns, HandlerInv
  <2>2. NextIrq \in registered \cap alt_irq_active /\ NextIrq \in IRQ
    BY <1>2, <2>1, NextIrqPending DEF HandlerInv, Covered, ipending
  <2>3. ContextOf(NextIrq) \in Context /\ ContextOf(NextIrq).irq \in IRQ
    BY <2>2, ContextOfType, IrqAssumption DEF IRQ, ContextOf
  <2>4. Last(contexts') = ContextOf(NextIrq)
    BY <1>2, <2>1, <2>3, RunningType DEF HandlerReturns, HandlerInv
  <2> QED BY <2>2, <2>4 DEF ContextOf
<1>3. HandlerInv /\ [IrqNext]_irqVars => [Dispatch]_irqVars
  BY <1>1, <1>2
<1> QED BY <1>3, HandlerInit, HandlerNext, PTL DEF IrqSpec, HandlerThere

-----------------------------------------------------------------------------
\* A context that lets itself be interrupted, outside its critical sections.
Open(c) == c.irq = NIRQ \/ c.old # NoMask

\* Each context below another has let itself be interrupted, and each that is
\* interruptible will restore the mask of the one below it.
Nested(s) ==
  /\ \A k \in 1 .. Len(s) - 1 : s[k].saved = << >> /\ Open(s[k])
  /\ \A k \in 2 .. Len(s) : s[k].old # NoMask => s[k].old = MoreUrgent(s[k - 1].irq)

\* Interrupts are on, and will be on at the end of a section, only where the
\* context is open; of nested sections only the outermost turns them on.
StatusFits ==
  /\ PIE = 1 => Outside /\ Open(Current)
  /\ \A k \in 1 .. Len(Current.saved) : Current.saved[k] = 1 => k = 1 /\ Open(Current)

MaskFits ==
  alt_priority_mask =
    MoreUrgent(IF Open(Current) THEN Current.irq ELSE contexts[Len(contexts) - 1].irq)

EnableFits == ienable = alt_irq_active \cap alt_priority_mask

NestInv == HandlerInv /\ Nested(contexts) /\ StatusFits /\ MaskFits /\ EnableFits

(* The masks of the program and of a handler.                              *)
LEMMA Masks == MoreUrgent(NIRQ) = IRQ /\ \A m \in SUBSET IRQ : m # NoMask
BY IrqAssumption DEF MoreUrgent, IRQ, NoMask

LEMMA CurrentIs ==
  ASSUME HandlerInv
  PROVE  /\ Len(contexts) \in Nat \ {0} /\ Current = contexts[Len(contexts)]
         /\ InHandler <=> Len(contexts) > 1
<1>1. contexts \in Seq(Context) /\ contexts # << >>
  BY DEF HandlerInv, IrqTypeOK
<1>2. Len(contexts) \in Nat \ {0} /\ Current = contexts[Len(contexts)]
  BY <1>1, SequenceOperators DEF Current
<1> QED BY <1>2 DEF HandlerInv, ProgramBelow, InHandler

(* A step of the innermost context.                                        *)
LEMMA NestedRunning ==
  ASSUME HandlerInv, Nested(contexts), NEW c \in Context, contexts' = Running(c),
         c.irq = Current.irq \/ (InHandler /\ c.irq \in IRQ),
         InHandler /\ c.old # NoMask => c.old = MoreUrgent(contexts[Len(contexts) - 1].irq)
  PROVE  /\ Nested(contexts') /\ Current' = c /\ Len(contexts') = Len(contexts)
         /\ InHandler => contexts'[Len(contexts) - 1] = contexts[Len(contexts) - 1]
<1>1. /\ Len(contexts') = Len(contexts) /\ Last(contexts') = c
      /\ \A k \in 1 .. Len(contexts) - 1 : contexts'[k] = contexts[k]
  BY RunningType DEF HandlerInv
<1>2. contexts'[Len(contexts)] = c /\ Len(contexts) \in Nat \ {0}
  BY <1>1, CurrentIs DEF Last
<1>3. InHandler <=> Len(contexts) > 1
  BY CurrentIs
<1>4. \A k \in 1 .. Len(contexts') - 1 : contexts'[k].saved = << >> /\ Open(contexts'[k])
  BY <1>1, <1>2 DEF Nested
<1>5. ASSUME NEW k \in 2 .. Len(contexts'), contexts'[k].old # NoMask
      PROVE  contexts'[k].old = MoreUrgent(contexts'[k - 1].irq)
  <2>1. CASE k = Len(contexts)
    BY <1>1, <1>2, <1>3, <1>5, <2>1
  <2>2. CASE k # Len(contexts)
    BY <1>1, <1>2, <1>5, <2>2 DEF Nested
  <2> QED BY <2>1, <2>2
<1> QED BY <1>1, <1>2, <1>3, <1>4, <1>5 DEF Nested, Current

LEMMA NestInit == IrqInit => NestInv
<1> SUFFICES ASSUME IrqInit PROVE NestInv
  OBVIOUS
<1>1. contexts = <<ContextOf(NIRQ)>> /\ Len(contexts) = 1
  BY DEF IrqInit
<1>2. Current = ContextOf(NIRQ) /\ Open(Current) /\ Current.irq = NIRQ /\ Current.saved = << >>
  BY <1>1 DEF Current, Last, Open, ContextOf
<1>3. Nested(contexts)
  BY <1>1 DEF Nested
<1>4. StatusFits
  BY <1>2 DEF StatusFits, Outside
<1>5. MaskFits
  BY <1>2, Masks DEF MaskFits, IrqInit
<1> QED BY <1>3, <1>4, <1>5, HandlerInit DEF NestInv, EnableFits, IrqInit

(* A new handler: closed, in no section, above an open context.            *)
LEMMA EntryNests ==
  ASSUME NestInv, HandlerInv', alt_irq_entry
  PROVE  NestInv'
<1>1. HandlerInv /\ Nested(contexts) /\ MaskFits /\ EnableFits /\ Outside /\ Open(Current)
  BY DEF NestInv, StatusFits, alt_irq_entry
<1>2. /\ Len(contexts') = Len(contexts) + 1 /\ Last(contexts') = ContextOf(NextIrq)
      /\ \A k \in 1 .. Len(contexts) : contexts'[k] = contexts[k]
      /\ NextIrq \in IRQ
  BY <1>1, NextIrqPending, InterruptedType DEF alt_irq_entry, HandlerInv
<1>3. Len(contexts) \in Nat \ {0} /\ Current = contexts[Len(contexts)]
  BY <1>1, CurrentIs
<1>4. /\ Current' = ContextOf(NextIrq) /\ contexts'[Len(contexts')] = ContextOf(NextIrq)
      /\ Current'.saved = << >> /\ ~Open(Current') /\ Current'.old = NoMask
  BY <1>2, IrqAssumption DEF Current, Last, Open, ContextOf, IRQ
<1>5. Nested(contexts')
  <2>1. \A k \in 1 .. Len(contexts') - 1 : contexts'[k].saved = << >> /\ Open(contexts'[k])
    BY <1>1, <1>2, <1>3 DEF Nested, Outside
  <2>2. \A k \in 2 .. Len(contexts') : contexts'[k].old # NoMask
          => contexts'[k].old = MoreUrgent(contexts'[k - 1].irq)
    <3>1. TAKE k \in 2 .. Len(contexts')
    <3>2. CASE k = Len(contexts')
      BY <1>4, <3>2
    <3>3. CASE k # Len(contexts')
      BY <1>1, <1>2, <1>3, <3>3 DEF Nested
    <3> QED BY <3>2, <3>3
  <2> QED BY <2>1, <2>2 DEF Nested
<1>6. StatusFits'
  BY <1>4 DEF alt_irq_entry, StatusFits, Outside
<1>7. MaskFits'
  <2>1. Len(contexts') - 1 = Len(contexts) /\ contexts'[Len(contexts)] = Current
    BY <1>2, <1>3
  <2> QED BY <1>1, <1>4, <2>1 DEF MaskFits, alt_irq_entry
<1>8. EnableFits'
  BY <1>1 DEF EnableFits, alt_irq_entry
<1> QED BY <1>5, <1>6, <1>7, <1>8 DEF NestInv

(* The dispatcher goes on to the next handler or leaves the exception.     *)
LEMMA ReturnNests ==
  ASSUME NestInv, HandlerInv', HandlerReturns
  PROVE  NestInv'
<1>1. /\ HandlerInv /\ Nested(contexts) /\ StatusFits /\ MaskFits /\ EnableFits
      /\ InHandler /\ Outside /\ Current.old = NoMask /\ ~Open(Current)
  BY DEF NestInv, HandlerReturns, InHandler, Open
<1>2. Len(contexts) \in Nat /\ Len(contexts) > 1 /\ Current = contexts[Len(contexts)]
  BY <1>1, CurrentIs
<1>3. EnableFits'
  BY <1>1 DEF EnableFits, HandlerReturns
<1>4. CASE ipending # {}
  <2>1. NextIrq \in IRQ /\ ContextOf(NextIrq) \in Context
    BY <1>1, <1>4, NextIrqPending, ContextOfType, IrqAssumption DEF IRQ
  <2>2. /\ ContextOf(NextIrq).irq = NextIrq /\ ContextOf(NextIrq).saved = << >>
        /\ ContextOf(NextIrq).old = NoMask /\ ~Open(ContextOf(NextIrq))
    BY <2>1, IrqAssumption DEF ContextOf, Open, IRQ
  <2>3. contexts' = Running(ContextOf(NextIrq)) /\ PIE' = PIE
    BY <1>4 DEF HandlerReturns
  <2>4. /\ Nested(contexts') /\ Current' = ContextOf(NextIrq)
        /\ Len(contexts') = Len(contexts)
        /\ contexts'[Len(contexts) - 1] = contexts[Len(contexts) - 1]
    BY <1>1, <2>1, <2>2, <2>3, NestedRunning
  <2>5. StatusFits'
    BY <1>1, <2>2, <2>3, <2>4 DEF StatusFits, Outside
  <2>6. MaskFits'
    BY <1>1, <2>2, <2>4 DEF MaskFits, HandlerReturns
  <2> QED BY <1>3, <2>4, <2>5, <2>6 DEF NestInv
<1>5. CASE ipending = {}
  <2>1. /\ Len(contexts') = Len(contexts) - 1
        /\ \A k \in 1 .. Len(contexts) - 1 : contexts'[k] = contexts[k]
    BY <1>1, <1>5, LeftType DEF HandlerReturns, HandlerInv
  <2>2. Current' = contexts[Len(contexts) - 1]
    BY <1>2, <2>1 DEF Current, Last
  <2>3. Current'.saved = << >> /\ Open(Current')
    BY <1>1, <1>2, <2>2 DEF Nested
  <2>4. Nested(contexts')
    <3>1. \A k \in 1 .. Len(contexts') - 1 : contexts'[k].saved = << >> /\ Open(contexts'[k])
      BY <1>1, <1>2, <2>1 DEF Nested
    <3>2. \A k \in 2 .. Len(contexts') : contexts'[k].old # NoMask
            => contexts'[k].old = MoreUrgent(contexts'[k - 1].irq)
      BY <1>1, <1>2, <2>1 DEF Nested
    <3> QED BY <3>1, <3>2 DEF Nested
  <2>5. StatusFits'
    BY <2>3 DEF StatusFits, Outside
  <2>6. MaskFits'
    BY <1>1, <2>2, <2>3 DEF MaskFits, HandlerReturns
  <2> QED BY <1>3, <2>4, <2>5, <2>6 DEF NestInv
<1> QED BY <1>4, <1>5

(* Critical sections: only the end of the outermost restores an open       *)
(* context's interrupts.                                                   *)
LEMMA SectionNests ==
  ASSUME NestInv, HandlerInv', alt_irq_disable_all \/ alt_irq_enable_all
  PROVE  NestInv'
<1>1. /\ HandlerInv /\ Nested(contexts) /\ StatusFits /\ MaskFits /\ EnableFits /\ IrqTypeOK
      /\ PIE \in {0, 1}
  BY DEF NestInv, HandlerInv, IrqTypeOK
<1>2. Len(contexts) \in Nat \ {0} /\ Current = contexts[Len(contexts)]
      /\ (InHandler <=> Len(contexts) > 1)
  BY <1>1, CurrentIs
<1>3. Current \in Context /\ Current.saved \in Seq({0, 1})
  BY <1>1, CurrentType
<1>4. InHandler /\ Current.old # NoMask
        => Current.old = MoreUrgent(contexts[Len(contexts) - 1].irq)
  BY <1>1, <1>2 DEF Nested
<1>5. EnableFits'
  BY <1>1 DEF EnableFits, alt_irq_disable_all, alt_irq_enable_all
<1>6. PICK new \in Seq({0, 1}) :
        /\ contexts' = Running([Current EXCEPT !.saved = new])
        /\ PIE' = 1 => new = << >> /\ Open(Current)
        /\ \A k \in 1 .. Len(new) : new[k] = 1 => k = 1 /\ Open(Current)
  <2>1. CASE alt_irq_disable_all
    <3> DEFINE new == Append(Current.saved, PIE)
    <3>1. /\ new \in Seq({0, 1}) /\ Len(new) = Len(Current.saved) + 1
          /\ new[Len(Current.saved) + 1] = PIE /\ Len(Current.saved) \in Nat
          /\ \A k \in 1 .. Len(Current.saved) : new[k] = Current.saved[k]
      BY <1>1, <1>3, SequenceOperators
    <3>2. contexts' = Running([Current EXCEPT !.saved = new]) /\ PIE' = 0
      BY <2>1 DEF alt_irq_disable_all
    <3> HIDE DEF new
    <3>3. ASSUME NEW k \in 1 .. Len(new), new[k] = 1 PROVE k = 1 /\ Open(Current)
      <4>1. CASE k = Len(new)
        BY <1>1, <1>3, <3>1, <3>3, <4>1 DEF StatusFits, Outside
      <4>2. CASE k # Len(new)
        BY <1>1, <3>1, <3>3, <4>2 DEF StatusFits
      <4> QED BY <4>1, <4>2
    <3>4. \A k \in 1 .. Len(new) : new[k] = 1 => k = 1 /\ Open(Current)
      BY <3>3
    <3>5. PIE' = 1 => new = << >> /\ Open(Current)
      BY <3>2
    <3> QED BY <3>1, <3>2, <3>4, <3>5
  <2>2. CASE alt_irq_enable_all
    <3> DEFINE new == Front(Current.saved)
    <3>1. Current.saved # << >>
      BY <2>2 DEF alt_irq_enable_all, Outside
    <3>2. /\ new \in Seq({0, 1}) /\ Len(new) = Len(Current.saved) - 1
          /\ Len(Current.saved) \in Nat \ {0}
          /\ Restored = Current.saved[Len(Current.saved)]
          /\ \A k \in 1 .. Len(Current.saved) - 1 : new[k] = Current.saved[k]
      BY <1>3, <3>1, SequenceOperators DEF Restored
    <3>3. contexts' = Running([Current EXCEPT !.saved = new]) /\ PIE' = Restored
      BY <2>2 DEF alt_irq_enable_all
    <3> HIDE DEF new
    <3>4. PIE' = 1 => new = << >> /\ Open(Current)
      <4> SUFFICES ASSUME PIE' = 1 PROVE new = << >> /\ Open(Current)
        OBVIOUS
      <4>1. Current.saved[Len(Current.saved)] = 1
        BY <3>2, <3>3
      <4>2. Len(Current.saved) = 1 /\ Open(Current)
        <5>1. Len(Current.saved) \in 1 .. Len(Current.saved)
          BY <3>2
        <5> QED BY <1>1, <4>1, <5>1 DEF StatusFits
      <4>3. Len(new) = 0
        BY <3>2, <4>2
      <4>4. new = << >>
        BY <3>2, <4>3
      <4> QED BY <4>2, <4>4
    <3>5. \A k \in 1 .. Len(new) : new[k] = 1 => k = 1 /\ Open(Current)
      BY <1>1, <3>2 DEF StatusFits
    <3> QED BY <3>2, <3>3, <3>4, <3>5
  <2> QED BY <2>1, <2>2
<1>7. DEFINE c == [Current EXCEPT !.saved = new]
<1>8. /\ c \in Context /\ c.irq = Current.irq /\ c.old = Current.old /\ c.saved = new
      /\ (Open(c) <=> Open(Current))
  BY <1>3, ChangedType DEF Context, Open
<1>9. contexts' = Running(c)
  BY <1>6
<1> HIDE DEF c
<1>10. /\ Nested(contexts') /\ Current' = c /\ Len(contexts') = Len(contexts)
       /\ InHandler => contexts'[Len(contexts) - 1] = contexts[Len(contexts) - 1]
  BY <1>1, <1>4, <1>8, <1>9, NestedRunning
<1>11. StatusFits'
  BY <1>6, <1>8, <1>10 DEF StatusFits, Outside
<1>12. MaskFits'
  <2>1. alt_priority_mask' = alt_priority_mask
    BY DEF alt_irq_disable_all, alt_irq_enable_all
  <2>2. ~Open(Current) => InHandler
    BY DEF Open, InHandler
  <2> QED BY <1>1, <1>8, <1>10, <2>1, <2>2 DEF MaskFits
<1> QED BY <1>5, <1>10, <1>11, <1>12 DEF NestInv

(* A handler becomes interruptible and ends it: the mask is first its own, *)
(* then again that of the context below.                                   *)
LEMMA InterruptibleNests ==
  ASSUME NestInv, HandlerInv', alt_irq_interruptible \/ alt_irq_non_interruptible
  PROVE  NestInv'
<1>1. /\ HandlerInv /\ Nested(contexts) /\ StatusFits /\ MaskFits /\ EnableFits /\ IrqTypeOK
      /\ alt_priority_mask \in SUBSET IRQ /\ InHandler /\ Outside /\ Current.saved = << >>
  BY DEF NestInv, HandlerInv, IrqTypeOK, alt_irq_interruptible, alt_irq_non_interruptible,
         Outside
<1>2. Len(contexts) \in Nat /\ Len(contexts) > 1 /\ Current = contexts[Len(contexts)]
  BY <1>1, CurrentIs
<1>3. Current \in Context
  BY <1>1, CurrentType
<1>4. EnableFits'
  BY DEF EnableFits, alt_irq_interruptible, alt_irq_non_interruptible
<1>5. CASE alt_irq_interruptible
  <2> DEFINE c == [Current EXCEPT !.old = alt_priority_mask]
  <2>1. /\ c \in Context /\ c.irq = Current.irq /\ c.old = alt_priority_mask
        /\ c.saved = << >> /\ Open(c)
    BY <1>1, <1>3, ChangedType, Masks DEF Context, Open
  <2>2. /\ contexts' = Running(c) /\ alt_priority_mask' = MoreUrgent(Current.irq)
        /\ Current.old = NoMask
    BY <1>5 DEF alt_irq_interruptible
  <2> HIDE DEF c
  <2>3. alt_priority_mask = MoreUrgent(contexts[Len(contexts) - 1].irq)
    BY <1>1, <2>2 DEF MaskFits, Open, InHandler
  <2>4. Nested(contexts') /\ Current' = c
    BY <1>1, <2>1, <2>2, <2>3, NestedRunning
  <2>5. StatusFits'
    BY <2>1, <2>4 DEF StatusFits, Outside
  <2>6. MaskFits'
    BY <2>1, <2>2, <2>4 DEF MaskFits
  <2> QED BY <1>4, <2>4, <2>5, <2>6 DEF NestInv
<1>6. CASE alt_irq_non_interruptible
  <2> DEFINE c == [Current EXCEPT !.old = NoMask]
  <2>1. /\ c \in Context /\ c.irq = Current.irq /\ c.old = NoMask /\ c.saved = << >>
        /\ ~Open(c)
    BY <1>1, <1>3, ChangedType DEF Context, Open, InHandler
  <2>2. /\ contexts' = Running(c) /\ alt_priority_mask' = Current.old /\ PIE' = 0
        /\ Current.old # NoMask
    BY <1>6 DEF alt_irq_non_interruptible
  <2> HIDE DEF c
  <2>3. alt_priority_mask' = MoreUrgent(contexts[Len(contexts) - 1].irq)
    BY <1>1, <1>2, <2>2 DEF Nested
  <2>4. /\ Nested(contexts') /\ Current' = c /\ Len(contexts') = Len(contexts)
        /\ contexts'[Len(contexts) - 1] = contexts[Len(contexts) - 1]
    BY <1>1, <2>1, <2>2, NestedRunning
  <2>5. StatusFits'
    BY <2>1, <2>2, <2>4 DEF StatusFits, Outside
  <2>6. MaskFits'
    BY <2>1, <2>3, <2>4 DEF MaskFits
  <2> QED BY <1>4, <2>4, <2>5, <2>6 DEF NestInv
<1> QED BY <1>5, <1>6

(* Single interrupts change only while no handler is interruptible.        *)
LEMMA NestNext == NestInv /\ NestedCalls = FALSE /\ [IrqNext]_irqVars => NestInv'
<1> SUFFICES ASSUME NestInv, NestedCalls = FALSE, [IrqNext]_irqVars PROVE NestInv'
  OBVIOUS
<1>i. HandlerInv'
  BY HandlerNext DEF NestInv
<1>s. /\ Nested(contexts) /\ StatusFits /\ MaskFits /\ EnableFits
      /\ alt_irq_active \subseteq IRQ
  BY DEF NestInv, HandlerInv, IrqTypeOK
<1>k. ASSUME contexts' = contexts, PIE' = PIE, alt_priority_mask' = alt_priority_mask
      PROVE  Nested(contexts') /\ StatusFits' /\ MaskFits'
  BY <1>s, <1>k DEF StatusFits, MaskFits, Outside, Current
<1>1. ASSUME NEW i \in IRQ, Raise(i) \/ Clear(i) PROVE NestInv'
  BY <1>1, <1>i, <1>s, <1>k DEF Raise, Clear, NestInv, EnableFits
<1>2. CASE alt_irq_entry
  BY <1>2, <1>i, EntryNests
<1>3. CASE HandlerReturns
  BY <1>3, <1>i, ReturnNests
<1>4. CASE alt_irq_disable_all \/ alt_irq_enable_all
  BY <1>4, <1>i, SectionNests
<1>5. ASSUME NEW i \in IRQ, NEW isr \in BOOLEAN, alt_iic_isr_register(i, isr)
      PROVE  NestInv'
  <2>1. alt_priority_mask = IRQ /\ alt_irq_active' \subseteq IRQ
    BY <1>5, <1>s DEF alt_iic_isr_register, MayChange, Activated
  <2> QED BY <1>5, <1>i, <1>k, <2>1 DEF alt_iic_isr_register, NestInv, EnableFits
<1>6. ASSUME NEW i \in IRQ, alt_irq_enable(i) \/ alt_irq_disable(i) PROVE NestInv'
  <2>1. alt_priority_mask = IRQ /\ alt_irq_active' \subseteq IRQ
    BY <1>6, <1>s DEF alt_irq_enable, alt_irq_disable, MayChange
  <2> QED BY <1>6, <1>i, <1>k, <2>1 DEF alt_irq_enable, alt_irq_disable, NestInv, EnableFits
<1>7. CASE alt_irq_interruptible \/ alt_irq_non_interruptible
  BY <1>7, <1>i, InterruptibleNests
<1>8. CASE UNCHANGED irqVars
  BY <1>8, <1>i, <1>s, <1>k DEF irqVars, NestInv, EnableFits
<1> QED BY <1>1, <1>2, <1>3, <1>4, <1>5, <1>6, <1>7, <1>8 DEF IrqNext

(* Nothing interrupts a critical section, nor a handler that does not      *)
(* allow it; and one that does is interrupted by more urgent ones only.    *)
THEOREM UndisturbedCorrect == NestedCalls = FALSE => (IrqSpec => Undisturbed)
<1> SUFFICES ASSUME NestedCalls = FALSE PROVE IrqSpec => Undisturbed
  OBVIOUS
<1> DEFINE Allowed ==
      Begins => /\ Outside /\ (InHandler => Current.old # NoMask)
                /\ Last(contexts').irq < Current.irq
<1>1. ASSUME NestInv, alt_irq_entry PROVE Allowed
  <2>1. HandlerInv /\ Outside /\ Open(Current)
    BY <1>1 DEF NestInv, StatusFits, alt_irq_entry
  <2>2. NextIrq \in alt_priority_mask /\ NextIrq \in IRQ
    BY <1>1, <2>1, NextIrqPending DEF NestInv, EnableFits, ipending, alt_irq_entry
  <2>3. NextIrq \in MoreUrgent(Current.irq) /\ Current.irq \in 0 .. NIRQ
    BY <1>1, <2>1, <2>2, CurrentType DEF NestInv, MaskFits, HandlerInv
  <2>4. NextIrq < Current.irq
    BY <2>3, IrqAssumption DEF MoreUrgent
  <2>5. Last(contexts').irq = NextIrq
    BY <1>1, <2>1, <2>2, InterruptedType DEF alt_irq_entry, HandlerInv, ContextOf
  <2> QED BY <2>1, <2>4, <2>5 DEF Open, InHandler
<1>2. ASSUME NestInv, [IrqNext]_irqVars, ~alt_irq_entry PROVE ~Begins
  <2>1. Len(contexts) \in Nat /\ HandlerInv /\ IrqTypeOK /\ ProgramBelow(contexts)
    BY <1>2, CurrentIs DEF NestInv, HandlerInv
  <2>2. CASE contexts' = contexts
    BY <2>1, <2>2 DEF Begins
  <2>3. ASSUME NEW c, contexts' = Running(c) PROVE ~Begins
    <3>1. Len(contexts') = Len(contexts)
      BY <2>1, <2>3 DEF Running, IrqTypeOK
    <3> QED BY <2>1, <3>1 DEF Begins
  <2>4. CASE contexts' = Front(contexts) /\ InHandler
    BY <2>1, <2>4, LeftType DEF Begins
  <2>5. \/ contexts' = contexts \/ \E c : contexts' = Running(c)
        \/ contexts' = Front(contexts) /\ InHandler
    BY <1>2 DEF IrqNext, Raise, Clear, HandlerReturns, alt_irq_disable_all,
      alt_irq_enable_all, alt_iic_isr_register, alt_irq_enable, alt_irq_disable,
      alt_irq_interruptible, alt_irq_non_interruptible, irqVars
  <2> QED BY <2>2, <2>3, <2>4, <2>5
<1>3. NestInv /\ [IrqNext]_irqVars => [Allowed]_irqVars
  BY <1>1, <1>2
<1>4. NestInv /\ [IrqNext]_irqVars => NestInv'
  BY NestNext
<1> QED BY <1>3, <1>4, NestInit, PTL DEF IrqSpec, Undisturbed
=============================================================================
