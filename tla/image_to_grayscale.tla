------------------------- MODULE image_to_grayscale -------------------------
(***************************************************************************)
(* image_to_grayscale.v: weighs the colours of a pixel, adds a brightness  *)
(* and clamps the result; one pixel per clock edge, registered output.     *)
(* Intermediate results have the widths of the wires they are assigned to. *)
(***************************************************************************)
EXTENDS Integers

CONSTANTS Colours,        \* the values r_in, g_in and b_in take, of 0 .. 255
          Brightnesses    \* the values brightness takes, of 0 .. 255

VARIABLES gray_out, out_valid,
          pixel       \* history: the inputs of the edge before

vars == <<gray_out, out_valid, pixel>>

Pixel == [r : Colours, g : Colours, b : Colours, brightness : Brightnesses]

Wire(width, value) == value % 2^width

acc(p) == Wire(18, Wire(16, p.r * 77) + Wire(16, p.g * 150) + Wire(16, p.b * 29))

\* Bits 17 to 10; the weights call for bits 15 to 8 (FullRange).
gray_base(p) == Wire(18, acc(p) + 128) \div 1024

gray_bright(p) == Wire(10, gray_base(p) + p.brightness)

\* Bug: no clamp.
MutGrayFinal(p) == Wire(8, gray_bright(p))

gray_final(p) == IF gray_bright(p) > 255 THEN 255 ELSE Wire(8, gray_bright(p))

-----------------------------------------------------------------------------
NoPixel == [r |-> 0, g |-> 0, b |-> 0, brightness |-> 0]

Init == gray_out = 0 /\ out_valid = 0 /\ pixel = NoPixel

Edge(p, in_valid) ==
  /\ gray_out' = gray_final(p)
  /\ out_valid' = in_valid
  /\ pixel' = p

Reset == gray_out' = 0 /\ out_valid' = 0 /\ pixel' = NoPixel

Next == (\E p \in Pixel, in_valid \in {0, 1} : Edge(p, in_valid)) \/ Reset

Spec == Init /\ [][Next]_vars

-----------------------------------------------------------------------------
Luminance(p) == 77 * p.r + 150 * p.g + 29 * p.b

Clamped(value) == IF value > 255 THEN 255 ELSE value

\* The widths suffice ("use wider intermediates to avoid overflow", line 9):
\* whatever the colours, neither the weighed sum nor what is added to it loses
\* a bit on its wire, the bits selected from it fit into those of gray_base,
\* and a pixel that gets too bright leaves as white.
NoOverflow ==
  out_valid = 1 =>
    /\ acc(pixel) = Luminance(pixel)
    /\ acc(pixel) + 128 < 2^18
    /\ gray_base(pixel) < 2^8
    /\ gray_out = Clamped(gray_base(pixel) + pixel.brightness)

\* The output is the grey value "(0-255)" of line 5: the weights are 256ths
\* ("0.299 * 256", lines 11 to 13), so it is the weighed sum divided by 256,
\* rounded, brightened and clamped, and white stays white.
FullRange ==
  out_valid = 1 =>
    gray_out = Clamped((Luminance(pixel) + 128) \div 256 + pixel.brightness)
=============================================================================
