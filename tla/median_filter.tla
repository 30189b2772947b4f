---------------------------- MODULE median_filter ----------------------------
(***************************************************************************)
(* median_filter.v: a pipeline of three stages that takes a window of nine *)
(* pixels on every clock edge.  Stage 1 sorts the three rows, stage 2      *)
(* picks three candidates, stage 3 is their median.                        *)
(***************************************************************************)
EXTENDS Integers, FiniteSets

CONSTANT Pixel      \* the values of a pixel, 0 .. 255 in the code

VARIABLES
  r1, r2, r3,                \* r1_min, r1_med, r1_max and so on, as records
  cand1, cand2, cand3,
  median_out,
  window1, window2, window3  \* history: the windows the three stages hold

stageVars == <<r1, r2, r3, cand1, cand2, cand3, median_out>>
vars == <<stageVars, window1, window2, window3>>

Window == [1 .. 9 -> Pixel]
Black  == [k \in 1 .. 9 |-> 0]

Lesser(a, b)  == IF a > b THEN b ELSE a
Greater(a, b) == IF a > b THEN a ELSE b

\* Three compare-and-swap steps: a with b, b with c, a with b.
sort3_func(a, b, c) ==
  LET low == Lesser(a, b)
      high == Greater(a, b)
      mid == Lesser(high, c)
  IN [min |-> Lesser(low, mid), med |-> Greater(low, mid), max |-> Greater(high, c)]

\* The lines of decisions of stage 2.
MaxOfMins ==
  IF r1.min >= r2.min /\ r1.min >= r3.min THEN r1.min
  ELSE IF r2.min >= r1.min /\ r2.min >= r3.min THEN r2.min ELSE r3.min

\* Bug: the largest of the maxima instead of the smallest.
MutMinOfMaxs ==
  IF r1.max >= r2.max /\ r1.max >= r3.max THEN r1.max
  ELSE IF r2.max >= r1.max /\ r2.max >= r3.max THEN r2.max ELSE r3.max

MinOfMaxs ==
  IF r1.max <= r2.max /\ r1.max <= r3.max THEN r1.max
  ELSE IF r2.max <= r1.max /\ r2.max <= r3.max THEN r2.max ELSE r3.max

-----------------------------------------------------------------------------
Zero3 == [min |-> 0, med |-> 0, max |-> 0]

Init ==
  /\ r1 = Zero3 /\ r2 = Zero3 /\ r3 = Zero3
  /\ cand1 = 0 /\ cand2 = 0 /\ cand3 = 0 /\ median_out = 0
  /\ window1 = Black /\ window2 = Black /\ window3 = Black

\* All stages sample the registers before the edge.
Edge(p) ==
  /\ r1' = sort3_func(p[1], p[2], p[3])
  /\ r2' = sort3_func(p[4], p[5], p[6])
  /\ r3' = sort3_func(p[7], p[8], p[9])
  /\ cand1' = sort3_func(r1.med, r2.med, r3.med).med
  /\ cand2' = MaxOfMins
  /\ cand3' = MinOfMaxs
  /\ median_out' = sort3_func(cand1, cand2, cand3).med
  /\ window1' = p /\ window2' = window1 /\ window3' = window2

Reset ==
  /\ r1' = Zero3 /\ r2' = Zero3 /\ r3' = Zero3
  /\ cand1' = 0 /\ cand2' = 0 /\ cand3' = 0 /\ median_out' = 0
  /\ window1' = Black /\ window2' = Black /\ window3' = Black

Next == (\E p \in Window : Edge(p)) \/ Reset

Spec == Init /\ [][Next]_vars

-----------------------------------------------------------------------------
\* The median of nine pixels by its definition: at most four are smaller and
\* at most four are greater.
IsMedian(v, p) ==
  /\ \E k \in 1 .. 9 : p[k] = v
  /\ Cardinality({k \in 1 .. 9 : p[k] < v}) <= 4
  /\ Cardinality({k \in 1 .. 9 : p[k] > v}) <= 4

\* A new window may arrive on every edge; the output is the median of the
\* one that arrived three edges before, or black after a reset.
MedianOfWindow == IsMedian(median_out, window3)
=============================================================================
