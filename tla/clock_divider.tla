---------------------------- MODULE clock_divider ----------------------------
(***************************************************************************)
(* clock_divider.v: divides the 50 MHz clock by 2 * TOGGLE_VALUE.          *)
(***************************************************************************)
EXTENDS Integers

CONSTANTS TOGGLE_VALUE,   \* 25000000 in the code
          COUNT           \* how many values the 26 bits of count have

\* 25000000 fits into 26 bits.
ASSUME DividerAssumption ==
  TOGGLE_VALUE \in Nat \ {0} /\ COUNT \in Nat /\ TOGGLE_VALUE <= COUNT

VARIABLES count, clk_out,
          edges     \* history: edges of clk_50 since the reset, modulo a period

dividerVars == <<count, clk_out, edges>>

Period == 2 * TOGGLE_VALUE

DividerInit == count = 0 /\ clk_out = 0 /\ edges = 0

Elapse == edges' = (edges + 1) % Period

\* Bugs: a comparison one edge late; a reset that leaves clk_out as it is.
MutCountUp ==
  /\ count # TOGGLE_VALUE
  /\ count' = (count + 1) % COUNT
  /\ UNCHANGED clk_out

MutDividerReset == count' = 0 /\ edges' = 0 /\ UNCHANGED clk_out

Toggle ==
  /\ count = TOGGLE_VALUE - 1
  /\ clk_out' = 1 - clk_out
  /\ count' = 0

CountUp ==
  /\ count # TOGGLE_VALUE - 1
  /\ count' = (count + 1) % COUNT
  /\ UNCHANGED clk_out

\* The reset is asynchronous; it may come between any two edges.
DividerReset == count' = 0 /\ clk_out' = 0 /\ edges' = 0

DividerNext == ((Toggle \/ CountUp) /\ Elapse) \/ DividerReset

DividerSpec == DividerInit /\ [][DividerNext]_dividerVars

-----------------------------------------------------------------------------
DividerTypeOK ==
  /\ count \in 0 .. TOGGLE_VALUE - 1
  /\ clk_out \in {0, 1}
  /\ edges \in 0 .. Period - 1

\* clk_out is a square wave: TOGGLE_VALUE edges low, TOGGLE_VALUE edges high,
\* without drift however long the divider runs and whenever it was reset.
Accurate == clk_out = 1 <=> edges >= TOGGLE_VALUE
=============================================================================
