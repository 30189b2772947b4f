---------------------------- MODULE MChello_world ----------------------------
(* The program with a block of three words, HALF = 2 and 5-bit addresses; and *)
(* the dispatch of interrupts, with which it has no state in common, for      *)
(* three interrupts all of which may interrupt one another.  A behaviour is   *)
(* one of either.                                                             *)
EXTENDS hello_world, alt_irq

VARIABLE part

MCCpuAccess == {NoIO, IORD(7)} \cup {Configuration[p] : p \in DOMAIN Configuration}

MCInit == HelloInit /\ IrqInit /\ part \in {"program", "interrupts"}

Main == part = "program" /\ HelloNext /\ UNCHANGED <<part, irqVars>>
Interrupts == part = "interrupts" /\ IrqNext /\ UNCHANGED <<part, allVars>>

MCSpec ==
  /\ MCInit /\ [][Main \/ Interrupts]_<<part, allVars, irqVars>>
  /\ part = "program" => HelloFairness
  /\ part = "interrupts" => IrqFairness
=============================================================================
