----------------------------- MODULE MCcircuits -----------------------------
(* The circuits that stand on their own: the FIFO and the control slave of the *)
(* DMA with inputs they need not meet in their place, and the designs of the   *)
(* laboratories, which nothing connects (DE2_TOP instantiates none).  A        *)
(* behaviour exercises one of them, its part.                                  *)
(*                                                                             *)
(* FIFO: 3-bit positions (HALF = 4), two distinguishable words.                *)
(* clock_divider: 60 of 64 values, as 25 000 000 is to 2^26.                 *)
(* median_filter: two pixel values.  All of it is comparisons, minima and    *)
(* maxima, which commute with a threshold: if it errs on some window of      *)
(* 8-bit pixels it errs on a window of zeros and ones.  The VIEW replaces    *)
(* the windows in the pipeline by their medians.                             *)
(* image_to_grayscale: colours at both ends of the range and where products  *)
(* pass a power of two, brightnesses on both sides of the clamp (the         *)
(* weighed sum of white contributes 63).                                     *)
EXTENDS FIFO, MCcontrol_slave, clock_divider

CONSTANTS w1, w2, Shades, Colours, Brightnesses

VARIABLES part,
  current_state, asked, shown,
  r1, r2, r3, cand1, cand2, cand3, median_out, window1, window2, window3,
  gray_out, out_valid, pixel

\* Pixels, colours and brightnesses have eight bits.
ASSUME ByteAssumption ==
  Shades \subseteq 0 .. 255 /\ Colours \subseteq 0 .. 255 /\ Brightnesses \subseteq 0 .. 255

fsm == INSTANCE fsm_student_ID
filter == INSTANCE median_filter WITH Pixel <- Shades
grey == INSTANCE image_to_grayscale

numberVars == <<current_state, asked, shown>>
medianVars == <<r1, r2, r3, cand1, cand2, cand3, median_out, window1, window2, window3>>
greyVars == <<gray_out, out_valid, pixel>>
all == <<part, fifoVars, controlVars, dividerVars, numberVars, medianVars, greyVars>>

MCData == {w1, w2}
MCColours == {0, 1, 109, 128, 254, 255}
MCBrightnesses == {0, 80, 192, 193, 255}

MCInit ==
  /\ part \in {"fifo", "slave", "divider", "number", "median", "grey"}
  /\ Init /\ ControlInit /\ DividerInit /\ fsm!Init /\ filter!Init /\ grey!Init

\* A step of the part called name leaves the others' variables alone.
Only(name, others) == part = name /\ UNCHANGED <<part, others>>

Buffer  == Only("fifo", <<controlVars, dividerVars, numberVars, medianVars, greyVars>>) /\ Next
Slave   == Only("slave", <<fifoVars, dividerVars, numberVars, medianVars, greyVars>>) /\ ControlNext
Divider == Only("divider", <<fifoVars, controlVars, numberVars, medianVars, greyVars>>) /\ DividerNext
Number  == Only("number", <<fifoVars, controlVars, dividerVars, medianVars, greyVars>>) /\ fsm!Next
Median  == Only("median", <<fifoVars, controlVars, dividerVars, numberVars, greyVars>>) /\ filter!Next
Grey    == Only("grey", <<fifoVars, controlVars, dividerVars, numberVars, medianVars>>) /\ grey!Next

\* The clock of the state machine runs.
NumberEdge ==
  /\ Only("number", <<fifoVars, controlVars, dividerVars, medianVars, greyVars>>)
  /\ \E start \in {0, 1}, user_input \in fsm!Digit : fsm!Edge(start, user_input)

MCSpec == MCInit /\ [][Buffer \/ Slave \/ Divider \/ Number \/ Median \/ Grey]_all /\ WF_all(NumberEdge)

MedianOf(p) == CHOOSE v \in Shades : filter!IsMedian(v, p)
Medians == <<part, fifoVars, controlVars, dividerVars, numberVars, greyVars,
             r1, r2, r3, cand1, cand2, cand3, median_out,
             IF part = "median" THEN <<MedianOf(window1), MedianOf(window2), MedianOf(window3)>>
             ELSE << >> >>

\* No register leaves its range, in the FIFO, in the control slave or in the
\* divider, whose counter is compared for equality and would miss its end.
RegistersFit == TypeOK /\ ControlTypeOK /\ DividerTypeOK

\* Runs of the state machine show the number (fsm_student_ID), and end.
ShowsNumber == fsm!ShowsNumber
RunEnds == fsm!RunEnds

\* Every window's median leaves the pipeline (median_filter).
MedianOfWindow == filter!MedianOfWindow

\* No wire loses a bit that counts (image_to_grayscale).
NoOverflow == grey!NoOverflow
=============================================================================
