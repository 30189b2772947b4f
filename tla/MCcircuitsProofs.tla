-------------------------- MODULE MCcircuitsProofs --------------------------
(***************************************************************************)
(* The circuits that stand on their own, for every value of their          *)
(* constants: the divider divides by every TOGGLE_VALUE that fits into     *)
(* count, the filter is right for all windows of 8-bit pixels, the         *)
(* converter for all 8-bit colours and brightnesses, the state machine for *)
(* every way to start it.  MCcircuits.cfg checks the same on a few values. *)
(***************************************************************************)
EXTENDS MCcircuits, FIFOProofs, control_slaveProofs, FiniteSetTheorems, SequenceTheorems

-----------------------------------------------------------------------------
(***************************************************************************)
(* clock_divider.                                                          *)
(***************************************************************************)

\* count is the time since the last change of clk_out.
CountTellsTime ==
  edges = IF clk_out = 1 THEN TOGGLE_VALUE + count ELSE count

DividerInv == DividerTypeOK /\ CountTellsTime

(* The two remainders the code computes: one below the divisor is the      *)
(* number itself, one at the divisor is 0.                                 *)
LEMMA Remainder ==
  ASSUME NEW n \in Nat, NEW m \in Nat, m > 0
  PROVE  /\ n < m => n % m = n
         /\ n = m => n % m = 0
OBVIOUS

(* Counting starts at 0.                                                   *)
LEMMA DividerInitInv == DividerInit => DividerInv
BY DividerAssumption DEF DividerInit, DividerInv, DividerTypeOK, CountTellsTime, Period

(* A reset starts it over.                                                 *)
LEMMA DividerResetInv == DividerReset => DividerInv'
BY DividerAssumption DEF DividerReset, DividerInv, DividerTypeOK, CountTellsTime, Period

(* Within a half period count moves with the edges and never reaches the   *)
(* width of its register.                                                  *)
LEMMA CountUpInv == DividerInv /\ CountUp /\ Elapse => DividerInv'
<1> SUFFICES ASSUME DividerInv, CountUp, Elapse PROVE DividerInv'
  OBVIOUS
<1> USE DividerAssumption DEF DividerInv, DividerTypeOK, CountTellsTime, Period
<1>1. count + 1 \in Nat /\ count + 1 < TOGGLE_VALUE /\ count + 1 < COUNT
  BY DEF CountUp
<1>2. count' = count + 1
  BY <1>1, Remainder DEF CountUp
<1>3. edges + 1 \in Nat /\ edges + 1 < Period
  BY <1>1
<1>4. edges' = edges + 1
  BY <1>3, Remainder DEF Elapse
<1>5. clk_out' = clk_out
  BY DEF CountUp
<1> QED BY <1>1, <1>2, <1>3, <1>4, <1>5

(* A half period ends: either half of the period or all of it has passed.  *)
LEMMA ToggleInv == DividerInv /\ Toggle /\ Elapse => DividerInv'
<1> SUFFICES ASSUME DividerInv, Toggle, Elapse PROVE DividerInv'
  OBVIOUS
<1> USE DividerAssumption DEF DividerInv, DividerTypeOK, CountTellsTime, Period
<1>1. count' = 0 /\ clk_out' = 1 - clk_out
  BY DEF Toggle
<1>2. CASE clk_out = 0
  <2>1. edges + 1 = TOGGLE_VALUE /\ TOGGLE_VALUE < Period
    BY <1>2 DEF Toggle
  <2>2. edges' = TOGGLE_VALUE
    BY <2>1, Remainder DEF Elapse
  <2> QED BY <1>1, <1>2, <2>2
<1>3. CASE clk_out = 1
  <2>1. edges + 1 = Period
    BY <1>3 DEF Toggle
  <2>2. edges' = 0
    BY <2>1, Remainder DEF Elapse
  <2> QED BY <1>1, <1>3, <2>2
<1> QED BY <1>2, <1>3 DEF DividerTypeOK

(* Every step keeps the invariant.                                         *)
LEMMA DividerNextInv == DividerInv /\ [DividerNext]_dividerVars => DividerInv'
<1> SUFFICES ASSUME DividerInv, [DividerNext]_dividerVars PROVE DividerInv'
  OBVIOUS
<1>1. CASE Toggle /\ Elapse BY <1>1, ToggleInv
<1>2. CASE CountUp /\ Elapse BY <1>2, CountUpInv
<1>3. CASE DividerReset BY <1>3, DividerResetInv
<1>4. CASE UNCHANGED dividerVars
  BY <1>4 DEF DividerInv, DividerTypeOK, CountTellsTime, Period, dividerVars
<1> QED BY <1>1, <1>2, <1>3, <1>4 DEF DividerNext

(* count stays below TOGGLE_VALUE: the comparison is always met and the    *)
(* register never wraps.                                                   *)
THEOREM DividerTypeCorrect == DividerSpec => []DividerTypeOK
<1>1. DividerInv => DividerTypeOK BY DEF DividerInv
<1> QED BY <1>1, DividerInitInv, DividerNextInv, PTL DEF DividerSpec

(* clk_out is an exact square wave of period 2 * TOGGLE_VALUE.             *)
THEOREM AccurateCorrect == DividerSpec => []Accurate
<1>1. DividerInv => Accurate
  BY DividerAssumption DEF DividerInv, DividerTypeOK, CountTellsTime, Accurate
<1> QED BY <1>1, DividerInitInv, DividerNextInv, PTL DEF DividerSpec
-----------------------------------------------------------------------------
(***************************************************************************)
(* image_to_grayscale.                                                     *)
(***************************************************************************)

(* The output register holds the result for the pixel of the edge before.  *)
GreyInv ==
  /\ pixel \in [r : 0 .. 255, g : 0 .. 255, b : 0 .. 255, brightness : 0 .. 255]
  /\ out_valid = 1 => gray_out = grey!gray_final(pixel)

(* A value below the capacity of a wire passes it as it is.                *)
LEMMA WireKeeps ==
  ASSUME NEW value \in Nat
  PROVE  /\ value < 256 => grey!Wire(8, value) = value
         /\ value < 1024 => grey!Wire(10, value) = value
         /\ value < 65536 => grey!Wire(16, value) = value
         /\ value < 262144 => grey!Wire(18, value) = value
<1>1. 2^8 = 256 /\ 2^10 = 1024 /\ 2^16 = 65536 /\ 2^18 = 262144
  OBVIOUS
<1>2. \A limit \in Nat : value < limit => value % limit = value
  OBVIOUS
<1> QED BY <1>1, <1>2 DEF grey!Wire

(* One weighed colour fits into the 16 bits of its wire.                   *)
LEMMA Weighed ==
  ASSUME NEW colour \in Nat, colour <= 255, NEW weight \in {29, 77, 150}
  PROVE  /\ colour * weight \in Nat /\ weight * colour = colour * weight
         /\ colour * weight <= 255 * weight /\ colour * weight < 65536
<1>1. CASE weight = 29 BY <1>1
<1>2. CASE weight = 77 BY <1>2
<1>3. CASE weight = 150 BY <1>3
<1> QED BY <1>1, <1>2, <1>3

(* Bits 17 to 10 of the rounded sum: 63 for white.                         *)
LEMMA Shifted ==
  ASSUME NEW sum \in Nat, sum <= 65280
  PROVE  (sum + 128) \div 1024 \in Nat /\ (sum + 128) \div 1024 <= 63
OBVIOUS

(* None of the wires loses a bit of an 8-bit pixel.                        *)
LEMMA WiresSuffice ==
  ASSUME NEW p \in [r : 0 .. 255, g : 0 .. 255, b : 0 .. 255, brightness : 0 .. 255]
  PROVE  /\ grey!acc(p) = grey!Luminance(p)
         /\ grey!acc(p) + 128 < 2^18
         /\ grey!gray_base(p) < 2^8
         /\ grey!gray_final(p) = grey!Clamped(grey!gray_base(p) + p.brightness)
<1>0. /\ p.r \in 0 .. 255 /\ p.g \in 0 .. 255 /\ p.b \in 0 .. 255 /\ p.brightness \in 0 .. 255
  OBVIOUS
<1>1. PICK brightness \in Nat : p.brightness = brightness /\ brightness <= 255
  BY <1>0
<1>2. PICK red \in Nat : red = p.r * 77 /\ 77 * p.r = red /\ red <= 19635
  <2>1. p.r \in Nat /\ p.r <= 255 BY <1>0
  <2> QED BY <2>1, Weighed
<1>3. PICK green \in Nat : green = p.g * 150 /\ 150 * p.g = green /\ green <= 38250
  <2>1. p.g \in Nat /\ p.g <= 255 BY <1>0
  <2> QED BY <2>1, Weighed
<1>4. PICK blue \in Nat : blue = p.b * 29 /\ 29 * p.b = blue /\ blue <= 7395
  <2>1. p.b \in Nat /\ p.b <= 255 BY <1>0
  <2> QED BY <2>1, Weighed
<1>5. PICK sum \in Nat : sum = red + green + blue /\ sum <= 65280
  BY <1>2, <1>3, <1>4
<1>6. grey!Luminance(p) = sum
  BY <1>2, <1>3, <1>4, <1>5 DEF grey!Luminance
<1>7. grey!acc(p) = sum
  <2>1. /\ grey!Wire(16, red) = red /\ grey!Wire(16, green) = green
        /\ grey!Wire(16, blue) = blue
    BY <1>2, <1>3, <1>4, WireKeeps
  <2>2. grey!Wire(18, sum) = sum
    BY <1>5, WireKeeps
  <2> QED BY <1>2, <1>3, <1>4, <1>5, <2>1, <2>2 DEF grey!acc
<1>8. PICK base \in Nat : base = (sum + 128) \div 1024 /\ base <= 63
  BY <1>5, Shifted
<1>9. grey!gray_base(p) = base
  <2>1. sum + 128 \in Nat /\ sum + 128 < 262144 BY <1>5
  <2>2. grey!Wire(18, sum + 128) = sum + 128
    BY <2>1, WireKeeps
  <2> QED BY <1>7, <1>8, <2>2 DEF grey!gray_base
<1>10. grey!gray_bright(p) = base + brightness
  <2>1. base + brightness \in Nat /\ base + brightness < 1024 BY <1>1, <1>8
  <2>2. grey!Wire(10, base + brightness) = base + brightness
    BY <2>1, WireKeeps
  <2> QED BY <1>1, <1>9, <2>2 DEF grey!gray_bright
<1>11. grey!gray_final(p) = IF base + brightness > 255 THEN 255 ELSE base + brightness
  <2>1. base + brightness \in Nat BY <1>1, <1>8
  <2>2. base + brightness <= 255 => grey!Wire(8, base + brightness) = base + brightness
    BY <2>1, WireKeeps
  <2> QED BY <1>10, <2>1, <2>2 DEF grey!gray_final
<1>12. grey!gray_final(p) = grey!Clamped(grey!gray_base(p) + p.brightness)
  BY <1>1, <1>9, <1>11 DEF grey!Clamped
<1>13. grey!gray_base(p) < 2^8
  <2>1. 2^8 = 256 OBVIOUS
  <2> QED BY <1>8, <1>9, <2>1
<1>14. grey!acc(p) + 128 < 2^18
  <2>1. 2^18 = 262144 OBVIOUS
  <2> QED BY <1>5, <1>7, <2>1
<1> QED BY <1>6, <1>7, <1>12, <1>13, <1>14

(* The widths suffice (line 9): whatever the colours, the weighed sum and  *)
(* what is added to it lose no bit, the bits selected from it fit into     *)
(* gray_base, and a pixel that gets too bright leaves as white.  Which     *)
(* bits are selected is another question (FullRange).                      *)
THEOREM NoOverflowCorrect == grey!Spec => []NoOverflow
<1>1. grey!Init => GreyInv
  BY DEF grey!Init, grey!NoPixel, GreyInv
<1>2. GreyInv /\ [grey!Next]_(grey!vars) => GreyInv'
  <2> SUFFICES ASSUME GreyInv, [grey!Next]_(grey!vars) PROVE GreyInv'
    OBVIOUS
  <2>1. ASSUME NEW p \in grey!Pixel, NEW in_valid \in {0, 1}, grey!Edge(p, in_valid)
        PROVE  GreyInv'
    <3>1. p \in [r : 0 .. 255, g : 0 .. 255, b : 0 .. 255, brightness : 0 .. 255]
      BY ByteAssumption DEF grey!Pixel
    <3>2. pixel' = p /\ gray_out' = grey!gray_final(p)
      BY <2>1 DEF grey!Edge
    <3> QED BY <3>1, <3>2 DEF GreyInv, grey!gray_final, grey!gray_bright, grey!gray_base,
                              grey!acc, grey!Wire
  <2>2. CASE grey!Reset BY <2>2 DEF grey!Reset, grey!NoPixel, GreyInv
  <2>3. CASE UNCHANGED grey!vars
    BY <2>3 DEF grey!vars, GreyInv, grey!gray_final, grey!gray_bright, grey!gray_base,
                grey!acc, grey!Wire
  <2> QED BY <2>1, <2>2, <2>3 DEF grey!Next
<1>3. GreyInv => NoOverflow
  BY WiresSuffice DEF GreyInv, NoOverflow, grey!NoOverflow
<1> QED BY <1>1, <1>2, <1>3, PTL DEF grey!Spec

-----------------------------------------------------------------------------
(***************************************************************************)
(* fsm_student_ID.                                                         *)
(***************************************************************************)

(* The digits are those of the number, and a run begins at the first place *)
(* of the digit asked for.                                                 *)
LEMMA DigitsAreID ==
  /\ Len(fsm!ID) = 8 /\ fsm!ID \in Seq(Nat)
  /\ \A s \in 0 .. 7 : fsm!DigitOf(s) = fsm!ID[s + 1]
<1>1. fsm!ID = <<2, 3, 5, 2, 0, 2, 0, 0>> BY DEF fsm!ID
<1> QED BY <1>1 DEF fsm!DigitOf

(* The first places of the four digits the number has; 1 for the others.   *)
LEMMA FirstIs ==
  ASSUME NEW d \in Nat
  PROVE  fsm!FirstOf(d) = CASE d = 2 -> 1 [] d = 3 -> 2 [] d = 5 -> 3 [] d = 0 -> 5 [] OTHER -> 1
<1>1. fsm!ID = <<2, 3, 5, 2, 0, 2, 0, 0>> /\ DOMAIN fsm!ID = 1 .. 8
  BY DEF fsm!ID
<1>2. {fsm!ID[k] : k \in DOMAIN fsm!ID} = {0, 2, 3, 5}
  BY <1>1
<1> DEFINE First(k) == fsm!ID[k] = d /\ \A m \in 1 .. k - 1 : fsm!ID[m] # d
<1>3. CASE d \notin {0, 2, 3, 5} BY <1>2, <1>3 DEF fsm!FirstOf
<1>4. ASSUME d \in {0, 2, 3, 5}, NEW n \in 1 .. 8, First(n)
      PROVE  fsm!FirstOf(d) = n
  <2>1. \A k \in DOMAIN fsm!ID : First(k) <=> k = n
    BY <1>1, <1>4
  <2>2. fsm!FirstOf(d) = CHOOSE k \in DOMAIN fsm!ID : First(k)
    BY <1>2, <1>4 DEF fsm!FirstOf
  <2> HIDE DEF First
  <2> QED BY <1>1, <2>1, <2>2
<1>5. CASE d = 2 BY <1>1, <1>4, <1>5
<1>6. CASE d = 3 BY <1>1, <1>4, <1>6
<1>7. CASE d = 5 BY <1>1, <1>4, <1>7
<1>8. CASE d = 0 BY <1>1, <1>4, <1>8
<1> QED BY <1>3, <1>5, <1>6, <1>7, <1>8

(* In state s the digits from the first one to the one of s are shown;     *)
(* before the first run none is, and after a run all are.                  *)
Shown(first, last) ==
  /\ shown \in Seq(Nat) /\ first \in 1 .. last /\ Len(shown) = last - first + 1
  /\ \A k \in 1 .. Len(shown) : shown[k] = fsm!ID[first + k - 1]

NumberInv ==
  /\ current_state \in 0 .. 7 \cup {fsm!IDLE} /\ asked \in Nat
  /\ current_state \in 0 .. 7 => Shown(fsm!FirstOf(asked), current_state + 1)
  /\ current_state = fsm!IDLE /\ shown # << >> => Shown(fsm!FirstOf(asked), 8)

(* A start goes to the state of the first place of the digit asked for.    *)
LEMMA StartIs ==
  ASSUME NEW user_input \in Nat, current_state = fsm!IDLE
  PROVE  /\ fsm!next_state(1, user_input) \in 0 .. 7
         /\ fsm!FirstOf(user_input) = fsm!next_state(1, user_input) + 1
<1> USE DEF fsm!next_state, fsm!IDLE
<1>1. CASE user_input = 2 BY <1>1, FirstIs
<1>2. CASE user_input = 3 BY <1>2, FirstIs
<1>3. CASE user_input = 5 BY <1>3, FirstIs
<1>4. CASE user_input = 0 BY <1>4, FirstIs
<1>5. CASE user_input \notin {0, 2, 3, 5} BY <1>5, FirstIs
<1> QED BY <1>1, <1>2, <1>3, <1>4, <1>5

(* A start shows the first digit, and every edge after it the next one.    *)
LEMMA EdgeShows ==
  ASSUME NumberInv, NEW start \in {0, 1}, NEW user_input \in fsm!Digit,
         fsm!Edge(start, user_input)
  PROVE  NumberInv'
<1>1. fsm!IDLE = 15 /\ user_input \in Nat
  BY DEF fsm!IDLE, fsm!Digit
<1>0. fsm!FirstOf(asked)' = fsm!FirstOf(asked') /\ fsm!ID' = fsm!ID /\ fsm!IDLE' = fsm!IDLE
  BY DEF fsm!FirstOf, fsm!ID, fsm!IDLE
<1>2. CASE current_state = fsm!IDLE /\ start = 1
  <2>1. PICK next \in 0 .. 7 : next = fsm!next_state(1, user_input) /\ fsm!FirstOf(user_input) = next + 1
    BY <1>1, <1>2, StartIs
  <2>2. current_state' = next /\ asked' = user_input /\ shown' = <<fsm!DigitOf(next)>>
    <3>1. current_state' = next BY <1>2, <2>1 DEF fsm!Edge
    <3>2. asked' = user_input /\ shown' = <<fsm!DigitOf(current_state')>>
      BY <1>1, <1>2 DEF fsm!Edge
    <3> QED BY <3>1, <3>2
  <2>3. PICK digit \in Nat : digit = fsm!DigitOf(next) /\ digit = fsm!ID[next + 1]
    BY DigitsAreID DEF fsm!DigitOf
  <2>4. shown' = <<digit>> /\ shown' \in Seq(Nat) /\ Len(shown') = 1 /\ shown'[1] = digit
    BY <2>2, <2>3
  <2>5. \A k \in 1 .. Len(shown') : shown'[k] = fsm!ID[next + 1 + k - 1]
    <3>1. \A k \in 1 .. Len(shown') : k = 1 BY <2>4
    <3>2. next + 1 + 1 - 1 = next + 1 OBVIOUS
    <3> QED BY <2>3, <2>4, <3>1, <3>2
  <2>6. Shown(fsm!FirstOf(asked), current_state + 1)'
    <3>1. fsm!FirstOf(asked)' = next + 1 /\ current_state' + 1 = next + 1
      BY <1>0, <2>1, <2>2
    <3>2. next + 1 \in 1 .. next + 1 /\ Len(shown') = (next + 1) - (next + 1) + 1
      BY <2>4
    <3> QED BY <1>0, <2>4, <2>5, <3>1, <3>2 DEF Shown
  <2> QED BY <1>0, <1>1, <2>2, <2>6 DEF NumberInv
<1>3. CASE current_state = fsm!IDLE /\ start = 0
  <2>1. current_state' = fsm!IDLE /\ UNCHANGED <<asked, shown>>
    BY <1>1, <1>3 DEF fsm!Edge, fsm!next_state
  <2> QED BY <1>0, <1>1, <1>3, <2>1 DEF Shown, NumberInv
<1>4. CASE current_state \in 0 .. 6
  <2>1. current_state' = current_state + 1 /\ asked' = asked /\ current_state # fsm!IDLE
    BY <1>1, <1>4 DEF fsm!Edge, fsm!next_state
  <2>2. PICK f \in Nat : f = fsm!FirstOf(asked) /\ f \in 1 .. current_state + 1
    BY <1>4 DEF NumberInv, Shown
  <2>3. Shown(f, current_state + 1) BY <1>4, <2>2 DEF NumberInv
  <2>4. PICK n \in Nat : n = Len(shown) /\ n = current_state + 2 - f
    <3>1. Len(shown) = (current_state + 1) - f + 1 BY <1>4, <2>2, <2>3 DEF Shown
    <3> QED BY <1>4, <2>2, <3>1
  <2>5. PICK digit \in Nat : digit = fsm!DigitOf(current_state + 1) /\ digit = fsm!ID[current_state + 2]
    <3>1. fsm!DigitOf(current_state + 1) \in Nat BY DEF fsm!DigitOf
    <3>2. current_state + 1 \in 0 .. 7 /\ (current_state + 1) + 1 = current_state + 2 BY <1>4
    <3> QED BY <3>1, <3>2, DigitsAreID
  <2>6. shown' = Append(shown, digit)
    <3>1. Len(shown) # fsm!Longest BY <1>4, <2>4 DEF fsm!Longest
    <3>2. current_state' # fsm!IDLE BY <1>1, <1>4, <2>1
    <3> QED BY <2>1, <2>5, <3>1, <3>2 DEF fsm!Edge
  <2>7. shown \in Seq(Nat) /\ \A k \in 1 .. n : shown[k] = fsm!ID[f + k - 1]
    BY <2>3, <2>4 DEF Shown
  <2>8. /\ shown' \in Seq(Nat) /\ Len(shown') = n + 1 /\ shown'[n + 1] = digit
        /\ \A k \in 1 .. n : shown'[k] = shown[k]
    <3>1. PICK longer : longer = Append(shown, digit)
      OBVIOUS
    <3>2. /\ longer \in Seq(Nat) /\ Len(longer) = Len(shown) + 1
          /\ longer[Len(shown) + 1] = digit
          /\ \A k \in 1 .. Len(shown) : longer[k] = shown[k]
      BY <2>7, <3>1, AppendProperties
    <3>3. shown' = longer BY <2>6, <3>1
    <3> QED BY <2>4, <3>2, <3>3
  <2>9. ASSUME NEW k \in 1 .. n + 1 PROVE shown'[k] = fsm!ID[f + k - 1]
    <3>1. CASE k \in 1 .. n BY <2>7, <2>8, <3>1
    <3>2. CASE k = n + 1
      <4>1. f + k - 1 = current_state + 2 BY <1>4, <2>2, <2>4, <3>2
      <4> QED BY <2>5, <2>8, <3>2, <4>1
    <3> QED BY <2>4, <3>1, <3>2
  <2>10. Shown(fsm!FirstOf(asked), current_state + 1)'
    <3>1. fsm!FirstOf(asked)' = f /\ current_state' + 1 = current_state + 2
      BY <1>0, <1>4, <2>1, <2>2
    <3>2. f \in 1 .. current_state + 2 /\ n + 1 = (current_state + 2) - f + 1
      BY <1>4, <2>2, <2>4
    <3> QED BY <1>0, <2>8, <2>9, <3>1, <3>2 DEF Shown
  <2>11. current_state' \in 0 .. 7 /\ current_state' # 15 BY <1>4, <2>1
  <2> QED BY <1>0, <1>1, <2>1, <2>10, <2>11 DEF NumberInv
<1>5. CASE current_state = 7
  <2>1. current_state' = fsm!IDLE /\ UNCHANGED <<asked, shown>>
    BY <1>1, <1>5 DEF fsm!Edge, fsm!next_state
  <2>2. Shown(fsm!FirstOf(asked), 8) BY <1>5 DEF NumberInv
  <2>3. Shown(fsm!FirstOf(asked), 8)' BY <1>0, <2>1, <2>2 DEF Shown
  <2> QED BY <1>0, <1>1, <2>1, <2>3 DEF NumberInv
<1>6. current_state = 7 \/ current_state \in 0 .. 6 \/ current_state = fsm!IDLE
  BY DEF NumberInv
<1> QED BY <1>2, <1>3, <1>4, <1>5, <1>6

(* A run shows the student number from the digit asked for on, without a   *)
(* gap and to its end, whatever start and user_input do meanwhile          *)
(* (fsm_student_ID.v, the case statement of next_state), unless it is      *)
(* asked for 0.                                                            *)
THEOREM ShowsNumberCorrect == fsm!Spec => []ShowsNumber
<1>1. fsm!Init => NumberInv
  BY DEF fsm!Init, NumberInv, fsm!IDLE
<1>2. NumberInv /\ [fsm!Next]_(fsm!vars) => NumberInv'
  <2>1. NumberInv /\ fsm!Reset => NumberInv'
    BY DEF fsm!Reset, NumberInv, fsm!IDLE
  <2>2. NumberInv /\ UNCHANGED fsm!vars => NumberInv'
    BY DEF fsm!vars, NumberInv, Shown
  <2> QED BY <2>1, <2>2, EdgeShows DEF fsm!Next
<1>3. NumberInv => ShowsNumber
  <2> SUFFICES ASSUME NumberInv, shown # << >>, asked # 0 PROVE ShowsNumber
    BY DEF ShowsNumber, fsm!ShowsNumber
  <2>1. PICK last \in Nat : last = (IF current_state \in 0 .. 7 THEN current_state + 1 ELSE 8) /\ last <= 8
    OBVIOUS
  <2>2. PICK f \in Nat : f = fsm!FirstOf(asked) /\ 1 <= f /\ f <= last
    <3>1. Shown(fsm!FirstOf(asked), last) BY <2>1 DEF NumberInv
    <3> QED BY <2>1, <3>1 DEF Shown
  <2>3. Shown(f, last) BY <2>1, <2>2 DEF NumberInv
  <2>4. PICK n \in Nat : /\ n = Len(shown) /\ n = last - f + 1
                         /\ shown \in Seq(Nat)
                         /\ \A k \in 1 .. n : shown[k] = fsm!ID[f + k - 1]
    <3>1. last - f + 1 \in Nat BY <2>2
    <3> QED BY <2>3, <3>1 DEF Shown
  <2>5. PICK rest : rest = SubSeq(fsm!ID, f, Len(fsm!ID))
    OBVIOUS
  <2>6. /\ rest \in Seq(Nat) /\ Len(rest) = 8 - f + 1
        /\ \A k \in 1 .. 8 - f + 1 : rest[k] = fsm!ID[f + k - 1]
    <3>1. rest = SubSeq(fsm!ID, f, 8) /\ f <= 8
      BY <2>1, <2>2, <2>5, DigitsAreID
    <3>2. \A k \in f .. 8 : fsm!ID[k] \in Nat
      <4>1. \A k \in f .. 8 : k \in 1 .. Len(fsm!ID) BY <2>2, DigitsAreID
      <4> QED BY <4>1, DigitsAreID, ElementOfSeq
    <3> QED BY <3>1, <3>2, SubSeqProperties
  <2>7. n <= 8 - f + 1 /\ \A k \in 1 .. n : shown[k] = rest[k]
    <3>1. n <= 8 - f + 1 BY <2>1, <2>2, <2>4
    <3>2. \A k \in 1 .. n : k \in 1 .. 8 - f + 1 BY <2>2, <3>1
    <3> QED BY <2>4, <2>6, <3>1, <3>2
  <2>8. fsm!IsPrefix(shown, rest)
    <3>1. \A k \in 1 .. n : shown[k] \in Nat /\ rest[k] \in Nat
      BY <2>4, <2>6, <2>7, ElementOfSeq
    <3>2. PICK s, t : s = SubSeq(shown, 1, n) /\ t = SubSeq(rest, 1, n)
      OBVIOUS
    <3>3. /\ s \in Seq(Nat) /\ Len(s) = n /\ \A k \in 1 .. n : s[k] = shown[k]
      BY <2>4, <3>1, <3>2, SubSeqProperties
    <3>4. /\ t \in Seq(Nat) /\ Len(t) = n /\ \A k \in 1 .. n : t[k] = rest[k]
      BY <2>4, <3>1, <3>2, SubSeqProperties
    <3>5. s = t BY <2>7, <3>3, <3>4, SeqEqual
    <3> QED BY <2>4, <2>6, <2>7, <3>2, <3>5 DEF fsm!IsPrefix
  <2>9. last = 8 <=> shown = rest
    <3>1. last = 8 <=> n = 8 - f + 1 BY <2>1, <2>2, <2>4
    <3>2. n = 8 - f + 1 => shown = rest BY <2>4, <2>6, <2>7, SeqEqual
    <3> QED BY <2>4, <2>6, <3>1, <3>2
  <2>10. current_state \in 0 .. 7 => fsm!output_digit = fsm!Last(shown)
    <3> SUFFICES ASSUME current_state \in 0 .. 7 PROVE fsm!output_digit = fsm!Last(shown)
      OBVIOUS
    <3>1. n \in 1 .. n /\ f + n - 1 = current_state + 1 BY <2>1, <2>2, <2>4
    <3>2. shown[n] = fsm!ID[current_state + 1] BY <2>4, <3>1
    <3> QED BY <2>4, <3>2, DigitsAreID DEF fsm!output_digit, fsm!Last
  <2>11. fsm!active <=> current_state \in 0 .. 7 BY DEF fsm!active
  <2>12. fsm!Done <=> current_state = 7 BY DEF fsm!Done
  <2>13. fsm!active /\ fsm!Done <=> fsm!active /\ shown = rest
    BY <2>1, <2>9, <2>11, <2>12
  <2>14. ~fsm!active => shown = rest
    BY <2>1, <2>9, <2>11
  <2>15. fsm!active => fsm!output_digit = fsm!Last(shown)
    BY <2>10, <2>11
  <2> QED BY <2>2, <2>5, <2>8, <2>13, <2>14, <2>15
          DEF ShowsNumber, fsm!ShowsNumber
<1> QED BY <1>1, <1>2, <1>3, PTL DEF fsm!Spec

-----------------------------------------------------------------------------
(***************************************************************************)
(* median_filter.                                                          *)
(***************************************************************************)

(* The candidates of a window, and its output, from the window itself.     *)
LargestOf(a, b, c) == IF a >= b /\ a >= c THEN a ELSE IF b >= a /\ b >= c THEN b ELSE c
SmallestOf(a, b, c) == IF a <= b /\ a <= c THEN a ELSE IF b <= a /\ b <= c THEN b ELSE c
Row(p, k) == filter!sort3_func(p[k], p[k + 1], p[k + 2])
Cand1(p) == filter!sort3_func(Row(p, 1).med, Row(p, 4).med, Row(p, 7).med).med
Cand2(p) == LargestOf(Row(p, 1).min, Row(p, 4).min, Row(p, 7).min)
Cand3(p) == SmallestOf(Row(p, 1).max, Row(p, 4).max, Row(p, 7).max)
Middle(p) == filter!sort3_func(Cand1(p), Cand2(p), Cand3(p)).med

(* Every stage holds what its window calls for.                            *)
PipelineInv ==
  /\ window1 \in [1 .. 9 -> Int] /\ window2 \in [1 .. 9 -> Int] /\ window3 \in [1 .. 9 -> Int]
  /\ r1 = Row(window1, 1) /\ r2 = Row(window1, 4) /\ r3 = Row(window1, 7)
  /\ cand1 = Cand1(window2) /\ cand2 = Cand2(window2) /\ cand3 = Cand3(window2)
  /\ median_out = Middle(window3)

\* One for a value below v, one for a place that belongs to T.
Below(a, v) == IF a < v THEN 1 ELSE 0
Belongs(k, T) == IF k \in T THEN 1 ELSE 0

\* The values of a row that are below v, and those that v is below.
Lower(a, b, c, v) == Below(a, v) + Below(b, v) + Below(c, v)
Higher(a, b, c, v) == Below(v, a) + Below(v, b) + Below(v, c)

(* low, mid and high are a, b and c in their order.                        *)
Sorted(a, b, c, low, mid, high) ==
  /\ low <= mid /\ mid <= high
  /\ \/ a = low /\ b = mid /\ c = high
     \/ a = low /\ b = high /\ c = mid
     \/ a = mid /\ b = low /\ c = high
     \/ a = mid /\ b = high /\ c = low
     \/ a = high /\ b = low /\ c = mid
     \/ a = high /\ b = mid /\ c = low

(* Sorting keeps the values and puts them in order.                        *)
LEMMA Sorts ==
  ASSUME NEW a \in Int, NEW b \in Int, NEW c \in Int
  PROVE  \E low, mid, high \in Int :
           /\ filter!sort3_func(a, b, c) = [min |-> low, med |-> mid, max |-> high]
           /\ Sorted(a, b, c, low, mid, high)
<1> USE DEF filter!sort3_func, filter!Lesser, filter!Greater, Sorted
<1>1. CASE a <= b /\ b <= c
  <2>1. filter!sort3_func(a, b, c) = [min |-> a, med |-> b, max |-> c] BY <1>1
  <2> QED BY <1>1, <2>1
<1>2. CASE a <= c /\ c < b
  <2>1. filter!sort3_func(a, b, c) = [min |-> a, med |-> c, max |-> b] BY <1>2
  <2> QED BY <1>2, <2>1
<1>3. CASE b < a /\ a <= c
  <2>1. filter!sort3_func(a, b, c) = [min |-> b, med |-> a, max |-> c] BY <1>3
  <2> QED BY <1>3, <2>1
<1>4. CASE c < a /\ a <= b
  <2>1. filter!sort3_func(a, b, c) = [min |-> c, med |-> a, max |-> b] BY <1>4
  <2> QED BY <1>4, <2>1
<1>5. CASE b <= c /\ c < a
  <2>1. filter!sort3_func(a, b, c) = [min |-> b, med |-> c, max |-> a] BY <1>5
  <2> QED BY <1>5, <2>1
<1>6. CASE c < b /\ b < a
  <2>1. filter!sort3_func(a, b, c) = [min |-> c, med |-> b, max |-> a] BY <1>6
  <2> QED BY <1>6, <2>1
<1> QED BY <1>1, <1>2, <1>3, <1>4, <1>5, <1>6

(* A sorted row has as many values on either side of v as it had before.   *)
LEMMA SortedCounts ==
  ASSUME NEW a \in Int, NEW b \in Int, NEW c \in Int,
         NEW low \in Int, NEW mid \in Int, NEW high \in Int,
         Sorted(a, b, c, low, mid, high), NEW v \in Int
  PROVE  /\ Lower(a, b, c, v) = Lower(low, mid, high, v) /\ Lower(a, b, c, v) \in Nat
         /\ Higher(a, b, c, v) = Higher(low, mid, high, v) /\ Higher(a, b, c, v) \in Nat
<1> USE DEF Below, Lower, Higher
<1>2. CASE a = low /\ b = mid /\ c = high BY <1>2
<1>3. CASE a = low /\ b = high /\ c = mid BY <1>3
<1>4. CASE a = mid /\ b = low /\ c = high BY <1>4
<1>5. CASE a = mid /\ b = high /\ c = low BY <1>5
<1>6. CASE a = high /\ b = low /\ c = mid BY <1>6
<1>7. CASE a = high /\ b = mid /\ c = low BY <1>7
<1> QED BY <1>2, <1>3, <1>4, <1>5, <1>6, <1>7 DEF Sorted

(* Of three values, two are at most the middle one and two at least.       *)
LEMMA MiddleOfThree ==
  ASSUME NEW a \in Int, NEW b \in Int, NEW c \in Int
  PROVE  \E v \in Int :
           /\ v = filter!sort3_func(a, b, c).med /\ v \in {a, b, c}
           /\ (v <= a /\ v <= b) \/ (v <= a /\ v <= c) \/ (v <= b /\ v <= c)
           /\ (v >= a /\ v >= b) \/ (v >= a /\ v >= c) \/ (v >= b /\ v >= c)
<1>1. PICK low, mid, high \in Int :
        /\ filter!sort3_func(a, b, c) = [min |-> low, med |-> mid, max |-> high]
        /\ Sorted(a, b, c, low, mid, high)
  BY Sorts
<1>2. mid = filter!sort3_func(a, b, c).med BY <1>1
<1>3. /\ mid \in {a, b, c}
      /\ (mid <= a /\ mid <= b) \/ (mid <= a /\ mid <= c) \/ (mid <= b /\ mid <= c)
      /\ (mid >= a /\ mid >= b) \/ (mid >= a /\ mid >= c) \/ (mid >= b /\ mid >= c)
  BY <1>1 DEF Sorted
<1> QED BY <1>2, <1>3

(* v is the middle of m, the middle of the middles, l, the largest of the  *)
(* smallest, and h, the smallest of the largest, of three sorted rows.     *)
Chosen(l1, m1, h1, l2, m2, h2, l3, m3, h3, m, l, h, v) ==
  /\ l1 <= m1 /\ m1 <= h1 /\ l2 <= m2 /\ m2 <= h2 /\ l3 <= m3 /\ m3 <= h3
  /\ (m <= m1 /\ m <= m2) \/ (m <= m1 /\ m <= m3) \/ (m <= m2 /\ m <= m3)
  /\ (m >= m1 /\ m >= m2) \/ (m >= m1 /\ m >= m3) \/ (m >= m2 /\ m >= m3)
  /\ l \in {l1, l2, l3} /\ l >= l1 /\ l >= l2 /\ l >= l3
  /\ h \in {h1, h2, h3} /\ h <= h1 /\ h <= h2 /\ h <= h3
  /\ (v <= m /\ v <= l) \/ (v <= m /\ v <= h) \/ (v <= l /\ v <= h)
  /\ (v >= m /\ v >= l) \/ (v >= m /\ v >= h) \/ (v >= l /\ v >= h)

(* At most four of the nine are smaller and at most four are greater.      *)
LEMMA FourAtMost ==
  ASSUME NEW l1 \in Int, NEW m1 \in Int, NEW h1 \in Int,
         NEW l2 \in Int, NEW m2 \in Int, NEW h2 \in Int,
         NEW l3 \in Int, NEW m3 \in Int, NEW h3 \in Int,
         NEW m \in Int, NEW l \in Int, NEW h \in Int, NEW v \in Int,
         Chosen(l1, m1, h1, l2, m2, h2, l3, m3, h3, m, l, h, v)
  PROVE  /\ Lower(l1, m1, h1, v) + Lower(l2, m2, h2, v) + Lower(l3, m3, h3, v) <= 4
         /\ Higher(l1, m1, h1, v) + Higher(l2, m2, h2, v) + Higher(l3, m3, h3, v) <= 4
<1>1. Lower(l1, m1, h1, v) + Lower(l2, m2, h2, v) + Lower(l3, m3, h3, v) <= 4
  BY DEF Below, Lower, Chosen
<1>2. Higher(l1, m1, h1, v) + Higher(l2, m2, h2, v) + Higher(l3, m3, h3, v) <= 4
  BY DEF Below, Higher, Chosen
<1> QED BY <1>1, <1>2

(* Counting in 1 .. 9 place by place.                                      *)
LEMMA CountStep ==
  ASSUME NEW T, NEW n \in Nat, NEW n1 \in Nat, n1 = n + 1
  PROVE  /\ Cardinality(T \cap 1 .. n) \in Nat
         /\ Cardinality(T \cap 1 .. n1) = Cardinality(T \cap 1 .. n) + Belongs(n1, T)
<1>1. IsFiniteSet(T \cap 1 .. n)
  <2>1. IsFiniteSet(1 .. n) BY FS_Interval
  <2>2. T \cap 1 .. n \in SUBSET (1 .. n) OBVIOUS
  <2> QED BY <2>1, <2>2, FS_Subset
<1>2. n1 \notin T \cap 1 .. n OBVIOUS
<1>3. T \cap 1 .. n1 = IF n1 \in T THEN (T \cap 1 .. n) \cup {n1} ELSE T \cap 1 .. n
  OBVIOUS
<1>4. Cardinality(T \cap 1 .. n) \in Nat BY <1>1, FS_CardinalityType
<1>5. CASE n1 \in T
  <2>1. T \cap 1 .. n1 = (T \cap 1 .. n) \cup {n1} BY <1>3, <1>5
  <2>2. Cardinality((T \cap 1 .. n) \cup {n1}) = Cardinality(T \cap 1 .. n) + 1
    BY <1>1, <1>2, FS_AddElement
  <2>3. Belongs(n1, T) = 1 BY <1>5 DEF Belongs
  <2> QED BY <1>4, <2>1, <2>2, <2>3
<1>6. CASE n1 \notin T
  <2>1. T \cap 1 .. n1 = T \cap 1 .. n BY <1>3, <1>6
  <2>2. Belongs(n1, T) = 0 BY <1>6 DEF Belongs
  <2> QED BY <1>4, <2>1, <2>2
<1> QED BY <1>5, <1>6

(* All nine places.                                                        *)
LEMMA CountNine ==
  ASSUME NEW T
  PROVE  Cardinality(T \cap 1 .. 9) =
           Belongs(1, T) + Belongs(2, T) + Belongs(3, T) + Belongs(4, T) + Belongs(5, T)
           + Belongs(6, T) + Belongs(7, T) + Belongs(8, T) + Belongs(9, T)
<1> DEFINE C(n) == Cardinality(T \cap 1 .. n)
<1>0. C(0) = 0
  <2>1. T \cap 1 .. 0 = {} OBVIOUS
  <2> QED BY <2>1, FS_EmptySet
<1> HIDE DEF C
<1>1. C(1) = C(0) + Belongs(1, T)
  <2>1. 0 \in Nat /\ 1 \in Nat /\ 1 = 0 + 1 OBVIOUS
  <2> QED BY <2>1, CountStep, Zenon DEF C
<1>2. C(2) = C(1) + Belongs(2, T)
  <2>1. 1 \in Nat /\ 2 \in Nat /\ 2 = 1 + 1 OBVIOUS
  <2> QED BY <2>1, CountStep, Zenon DEF C
<1>3. C(3) = C(2) + Belongs(3, T)
  <2>1. 2 \in Nat /\ 3 \in Nat /\ 3 = 2 + 1 OBVIOUS
  <2> QED BY <2>1, CountStep, Zenon DEF C
<1>4. C(4) = C(3) + Belongs(4, T)
  <2>1. 3 \in Nat /\ 4 \in Nat /\ 4 = 3 + 1 OBVIOUS
  <2> QED BY <2>1, CountStep, Zenon DEF C
<1>5. C(5) = C(4) + Belongs(5, T)
  <2>1. 4 \in Nat /\ 5 \in Nat /\ 5 = 4 + 1 OBVIOUS
  <2> QED BY <2>1, CountStep, Zenon DEF C
<1>6. C(6) = C(5) + Belongs(6, T)
  <2>1. 5 \in Nat /\ 6 \in Nat /\ 6 = 5 + 1 OBVIOUS
  <2> QED BY <2>1, CountStep, Zenon DEF C
<1>7. C(7) = C(6) + Belongs(7, T)
  <2>1. 6 \in Nat /\ 7 \in Nat /\ 7 = 6 + 1 OBVIOUS
  <2> QED BY <2>1, CountStep, Zenon DEF C
<1>8. C(8) = C(7) + Belongs(8, T)
  <2>1. 7 \in Nat /\ 8 \in Nat /\ 8 = 7 + 1 OBVIOUS
  <2> QED BY <2>1, CountStep, Zenon DEF C
<1>9. C(9) = C(8) + Belongs(9, T)
  <2>1. 8 \in Nat /\ 9 \in Nat /\ 9 = 8 + 1 OBVIOUS
  <2> QED BY <2>1, CountStep, Zenon DEF C
<1>10. C(9) = Belongs(1, T) + Belongs(2, T) + Belongs(3, T) + Belongs(4, T) + Belongs(5, T)
              + Belongs(6, T) + Belongs(7, T) + Belongs(8, T) + Belongs(9, T)
  BY <1>0, <1>1, <1>2, <1>3, <1>4, <1>5, <1>6, <1>7, <1>8, <1>9 DEF Belongs
<1> QED BY <1>10 DEF C

(* The filter counts as this module does.                                  *)
LEMMA SameCount ==
  ASSUME NEW T
  PROVE  filter!Cardinality(T) = Cardinality(T)
BY Zenon DEF filter!Cardinality, Cardinality, filter!IsFiniteSet, IsFiniteSet

(* The middle of the candidates is the median of the window.               *)
LEMMA MiddleIsMedian ==
  ASSUME NEW p \in [1 .. 9 -> Int]
  PROVE  filter!IsMedian(Middle(p), p)
<1>1. /\ p[1] \in Int /\ p[2] \in Int /\ p[3] \in Int /\ p[4] \in Int /\ p[5] \in Int
      /\ p[6] \in Int /\ p[7] \in Int /\ p[8] \in Int /\ p[9] \in Int
  OBVIOUS
<1>2. PICK l1, m1, h1 \in Int :
        /\ Row(p, 1) = [min |-> l1, med |-> m1, max |-> h1]
        /\ Sorted(p[1], p[2], p[3], l1, m1, h1)
  <2>1. Row(p, 1) = filter!sort3_func(p[1], p[2], p[3]) BY DEF Row
  <2> QED BY <1>1, <2>1, Sorts
<1>3. PICK l2, m2, h2 \in Int :
        /\ Row(p, 4) = [min |-> l2, med |-> m2, max |-> h2]
        /\ Sorted(p[4], p[5], p[6], l2, m2, h2)
  <2>1. Row(p, 4) = filter!sort3_func(p[4], p[5], p[6]) BY DEF Row
  <2> QED BY <1>1, <2>1, Sorts
<1>4. PICK l3, m3, h3 \in Int :
        /\ Row(p, 7) = [min |-> l3, med |-> m3, max |-> h3]
        /\ Sorted(p[7], p[8], p[9], l3, m3, h3)
  <2>1. Row(p, 7) = filter!sort3_func(p[7], p[8], p[9]) BY DEF Row
  <2> QED BY <1>1, <2>1, Sorts
<1>5. PICK m \in Int :
        /\ m = Cand1(p) /\ m \in {m1, m2, m3}
        /\ (m <= m1 /\ m <= m2) \/ (m <= m1 /\ m <= m3) \/ (m <= m2 /\ m <= m3)
        /\ (m >= m1 /\ m >= m2) \/ (m >= m1 /\ m >= m3) \/ (m >= m2 /\ m >= m3)
  <2>1. Cand1(p) = filter!sort3_func(m1, m2, m3).med BY <1>2, <1>3, <1>4 DEF Cand1
  <2> QED BY <2>1, MiddleOfThree
<1>6. PICK l \in Int : l = Cand2(p) /\ l \in {l1, l2, l3} /\ l >= l1 /\ l >= l2 /\ l >= l3
  <2>1. Cand2(p) = LargestOf(l1, l2, l3) BY <1>2, <1>3, <1>4 DEF Cand2
  <2> QED BY <2>1 DEF LargestOf
<1>7. PICK h \in Int : h = Cand3(p) /\ h \in {h1, h2, h3} /\ h <= h1 /\ h <= h2 /\ h <= h3
  <2>1. Cand3(p) = SmallestOf(h1, h2, h3) BY <1>2, <1>3, <1>4 DEF Cand3
  <2> QED BY <2>1 DEF SmallestOf
<1>8. PICK v \in Int :
        /\ v = Middle(p) /\ v \in {m, l, h}
        /\ (v <= m /\ v <= l) \/ (v <= m /\ v <= h) \/ (v <= l /\ v <= h)
        /\ (v >= m /\ v >= l) \/ (v >= m /\ v >= h) \/ (v >= l /\ v >= h)
  <2>1. Middle(p) = filter!sort3_func(m, l, h).med BY <1>5, <1>6, <1>7 DEF Middle
  <2> QED BY <2>1, MiddleOfThree
<1>9. Chosen(l1, m1, h1, l2, m2, h2, l3, m3, h3, m, l, h, v)
  <2>1. l1 <= m1 /\ m1 <= h1 /\ l2 <= m2 /\ m2 <= h2 /\ l3 <= m3 /\ m3 <= h3
    BY <1>2, <1>3, <1>4 DEF Sorted
  <2> QED BY <2>1, <1>5, <1>6, <1>7, <1>8 DEF Chosen
<1>10. PICK low1, low2, low3, high1, high2, high3 \in Nat :
         /\ low1 = Lower(p[1], p[2], p[3], v) /\ high1 = Higher(p[1], p[2], p[3], v)
         /\ low2 = Lower(p[4], p[5], p[6], v) /\ high2 = Higher(p[4], p[5], p[6], v)
         /\ low3 = Lower(p[7], p[8], p[9], v) /\ high3 = Higher(p[7], p[8], p[9], v)
         /\ low1 + low2 + low3 <= 4 /\ high1 + high2 + high3 <= 4
  <2>1. /\ Lower(p[1], p[2], p[3], v) = Lower(l1, m1, h1, v) /\ Lower(p[1], p[2], p[3], v) \in Nat
        /\ Higher(p[1], p[2], p[3], v) = Higher(l1, m1, h1, v) /\ Higher(p[1], p[2], p[3], v) \in Nat
    BY <1>1, <1>2, SortedCounts
  <2>2. /\ Lower(p[4], p[5], p[6], v) = Lower(l2, m2, h2, v) /\ Lower(p[4], p[5], p[6], v) \in Nat
        /\ Higher(p[4], p[5], p[6], v) = Higher(l2, m2, h2, v) /\ Higher(p[4], p[5], p[6], v) \in Nat
    BY <1>1, <1>3, SortedCounts
  <2>3. /\ Lower(p[7], p[8], p[9], v) = Lower(l3, m3, h3, v) /\ Lower(p[7], p[8], p[9], v) \in Nat
        /\ Higher(p[7], p[8], p[9], v) = Higher(l3, m3, h3, v) /\ Higher(p[7], p[8], p[9], v) \in Nat
    BY <1>1, <1>4, SortedCounts
  <2>4. /\ Lower(l1, m1, h1, v) + Lower(l2, m2, h2, v) + Lower(l3, m3, h3, v) <= 4
        /\ Higher(l1, m1, h1, v) + Higher(l2, m2, h2, v) + Higher(l3, m3, h3, v) <= 4
    BY <1>9, FourAtMost
  <2> QED BY <2>1, <2>2, <2>3, <2>4
<1>11. \E k \in 1 .. 9 : p[k] = v
  <2>1. v \in {l1, m1, h1, l2, m2, h2, l3, m3, h3} BY <1>5, <1>6, <1>7, <1>8
  <2>2. /\ l1 \in {p[1], p[2], p[3]} /\ m1 \in {p[1], p[2], p[3]} /\ h1 \in {p[1], p[2], p[3]}
        /\ l2 \in {p[4], p[5], p[6]} /\ m2 \in {p[4], p[5], p[6]} /\ h2 \in {p[4], p[5], p[6]}
        /\ l3 \in {p[7], p[8], p[9]} /\ m3 \in {p[7], p[8], p[9]} /\ h3 \in {p[7], p[8], p[9]}
    BY <1>2, <1>3, <1>4 DEF Sorted
  <2>3. v \in {p[1], p[2], p[3], p[4], p[5], p[6], p[7], p[8], p[9]} BY <2>1, <2>2
  <2> QED BY <2>3
<1>12. Cardinality({k \in 1 .. 9 : p[k] < v}) <= 4
  <2> DEFINE T == {k \in 1 .. 9 : p[k] < v}
  <2>1. /\ Belongs(1, T) = Below(p[1], v) /\ Belongs(2, T) = Below(p[2], v) /\ Belongs(3, T) = Below(p[3], v)
        /\ Belongs(4, T) = Below(p[4], v) /\ Belongs(5, T) = Below(p[5], v) /\ Belongs(6, T) = Below(p[6], v)
        /\ Belongs(7, T) = Below(p[7], v) /\ Belongs(8, T) = Below(p[8], v) /\ Belongs(9, T) = Below(p[9], v)
    BY <1>1 DEF Belongs, Below
  <2>2. T \cap 1 .. 9 = T
    OBVIOUS
  <2> HIDE DEF T
  <2>3. Cardinality(T) = low1 + low2 + low3
    <3>1. /\ Below(p[1], v) \in Nat /\ Below(p[2], v) \in Nat /\ Below(p[3], v) \in Nat
          /\ Below(p[4], v) \in Nat /\ Below(p[5], v) \in Nat /\ Below(p[6], v) \in Nat
          /\ Below(p[7], v) \in Nat /\ Below(p[8], v) \in Nat /\ Below(p[9], v) \in Nat
      BY <1>1 DEF Below
    <3>2. /\ low1 = Below(p[1], v) + Below(p[2], v) + Below(p[3], v)
          /\ low2 = Below(p[4], v) + Below(p[5], v) + Below(p[6], v)
          /\ low3 = Below(p[7], v) + Below(p[8], v) + Below(p[9], v)
      BY <1>10 DEF Lower
    <3>3. Cardinality(T) =
            Below(p[1], v) + Below(p[2], v) + Below(p[3], v) + Below(p[4], v) + Below(p[5], v)
            + Below(p[6], v) + Below(p[7], v) + Below(p[8], v) + Below(p[9], v)
      BY <2>1, <2>2, CountNine
    <3> QED BY <3>1, <3>2, <3>3
  <2>4. Cardinality(T) <= 4 BY <1>10, <2>3
  <2> QED BY <2>4 DEF T
<1>13. Cardinality({k \in 1 .. 9 : p[k] > v}) <= 4
  <2> DEFINE T == {k \in 1 .. 9 : p[k] > v}
  <2>1. /\ Belongs(1, T) = Below(v, p[1]) /\ Belongs(2, T) = Below(v, p[2]) /\ Belongs(3, T) = Below(v, p[3])
        /\ Belongs(4, T) = Below(v, p[4]) /\ Belongs(5, T) = Below(v, p[5]) /\ Belongs(6, T) = Below(v, p[6])
        /\ Belongs(7, T) = Below(v, p[7]) /\ Belongs(8, T) = Below(v, p[8]) /\ Belongs(9, T) = Below(v, p[9])
    BY <1>1 DEF Belongs, Below
  <2>2. T \cap 1 .. 9 = T
    OBVIOUS
  <2> HIDE DEF T
  <2>3. Cardinality(T) = high1 + high2 + high3
    <3>1. /\ Below(v, p[1]) \in Nat /\ Below(v, p[2]) \in Nat /\ Below(v, p[3]) \in Nat
          /\ Below(v, p[4]) \in Nat /\ Below(v, p[5]) \in Nat /\ Below(v, p[6]) \in Nat
          /\ Below(v, p[7]) \in Nat /\ Below(v, p[8]) \in Nat /\ Below(v, p[9]) \in Nat
      BY <1>1 DEF Below
    <3>2. /\ high1 = Below(v, p[1]) + Below(v, p[2]) + Below(v, p[3])
          /\ high2 = Below(v, p[4]) + Below(v, p[5]) + Below(v, p[6])
          /\ high3 = Below(v, p[7]) + Below(v, p[8]) + Below(v, p[9])
      BY <1>10 DEF Higher
    <3>3. Cardinality(T) =
            Below(v, p[1]) + Below(v, p[2]) + Below(v, p[3]) + Below(v, p[4]) + Below(v, p[5])
            + Below(v, p[6]) + Below(v, p[7]) + Below(v, p[8]) + Below(v, p[9])
      BY <2>1, <2>2, CountNine
    <3> QED BY <3>1, <3>2, <3>3
  <2>4. Cardinality(T) <= 4 BY <1>10, <2>3
  <2> QED BY <2>4 DEF T
<1>14. filter!IsMedian(v, p) BY <1>11, <1>12, <1>13, SameCount DEF filter!IsMedian
<1> QED BY <1>8, <1>14

(* After a reset all stages hold black.                                    *)
LEMMA BlackRow ==
  ASSUME NEW k \in {1, 4, 7}
  PROVE  Row(filter!Black, k) = filter!Zero3
<1>1. filter!Black[k] = 0 /\ filter!Black[k + 1] = 0 /\ filter!Black[k + 2] = 0
  BY DEF filter!Black
<1> QED BY <1>1 DEF Row, filter!sort3_func, filter!Lesser, filter!Greater, filter!Zero3

(* and what leaves is black.                                               *)
LEMMA BlackIsMiddle ==
  /\ filter!Black \in [1 .. 9 -> Int]
  /\ Cand1(filter!Black) = 0 /\ Cand2(filter!Black) = 0 /\ Cand3(filter!Black) = 0
  /\ Middle(filter!Black) = 0
<1>1. filter!Zero3.min = 0 /\ filter!Zero3.med = 0 /\ filter!Zero3.max = 0
  BY DEF filter!Zero3
<1>2. filter!sort3_func(0, 0, 0).med = 0
  BY DEF filter!sort3_func, filter!Lesser, filter!Greater
<1>3. Cand1(filter!Black) = 0 BY <1>1, <1>2, BlackRow DEF Cand1
<1>4. Cand2(filter!Black) = 0 BY <1>1, BlackRow DEF Cand2, LargestOf
<1>5. Cand3(filter!Black) = 0 BY <1>1, BlackRow DEF Cand3, SmallestOf
<1>6. Middle(filter!Black) = 0 BY <1>2, <1>3, <1>4, <1>5 DEF Middle
<1>7. filter!Black \in [1 .. 9 -> Int] BY DEF filter!Black
<1> QED BY <1>3, <1>4, <1>5, <1>6, <1>7

(* A new window may arrive on every edge: what leaves is the median of the *)
(* one that arrived three edges before, for all 8-bit pixels.              *)
THEOREM MedianOfWindowCorrect == filter!Spec => []MedianOfWindow
<1>1. filter!Init => PipelineInv
  BY BlackRow, BlackIsMiddle DEF filter!Init, PipelineInv
<1>2. PipelineInv /\ [filter!Next]_(filter!vars) => PipelineInv'
  <2> SUFFICES ASSUME PipelineInv, [filter!Next]_(filter!vars) PROVE PipelineInv'
    OBVIOUS
  <2>1. ASSUME NEW p \in filter!Window, filter!Edge(p) PROVE PipelineInv'
    <3>1. p \in [1 .. 9 -> Int]
      <4>1. Shades \subseteq Int BY ByteAssumption
      <4> QED BY <4>1 DEF filter!Window
    <3>2. window1' = p /\ window2' = window1 /\ window3' = window2
      BY <2>1 DEF filter!Edge
    <3>3. r1' = Row(p, 1) /\ r2' = Row(p, 4) /\ r3' = Row(p, 7)
      BY <2>1 DEF filter!Edge, Row
    <3>4. /\ cand1' = Cand1(window1) /\ cand2' = Cand2(window1) /\ cand3' = Cand3(window1)
          /\ median_out' = Middle(window2)
      BY <2>1 DEF filter!Edge, PipelineInv, filter!MaxOfMins, filter!MinOfMaxs,
                  LargestOf, SmallestOf, Cand1, Cand2, Cand3, Middle
    <3>5. Row(window1, 1)' = Row(p, 1) /\ Row(window1, 4)' = Row(p, 4) /\ Row(window1, 7)' = Row(p, 7)
      BY <3>2 DEF Row, filter!sort3_func, filter!Lesser, filter!Greater
    <3> QED BY <3>1, <3>2, <3>3, <3>4, <3>5 DEF PipelineInv
  <2>2. CASE filter!Reset
    BY <2>2, BlackRow, BlackIsMiddle DEF filter!Reset, PipelineInv
  <2>3. CASE UNCHANGED filter!vars
    BY <2>3 DEF filter!vars, filter!stageVars, PipelineInv
  <2> QED BY <2>1, <2>2, <2>3 DEF filter!Next
<1>3. PipelineInv => MedianOfWindow
  BY MiddleIsMedian DEF PipelineInv, MedianOfWindow, filter!MedianOfWindow
<1> QED BY <1>1, <1>2, <1>3, PTL DEF filter!Spec

-----------------------------------------------------------------------------
(***************************************************************************)
(* All of them side by side, as MCcircuits.cfg checks them.                *)
(***************************************************************************)

(* No register leaves its range, in the FIFO, the slave or the divider.    *)
THEOREM RegistersFitCorrect == MCSpec => []RegistersFit
<1> DEFINE Step == Buffer \/ Slave \/ Divider \/ Number \/ Median \/ Grey
<1> USE DEF Buffer, Slave, Divider, Number, Median, Grey, Only, all
<1>1. MCInit => IInv /\ ControlInv /\ DividerInv
  BY InitInv, ControlInitInv, DividerInitInv DEF MCInit
<1>2. IInv /\ [Step]_all => IInv'
  <2>1. [Step]_all => [Next]_fifoVars OBVIOUS
  <2> QED BY <2>1, NextInv
<1>3. ControlInv /\ [Step]_all => ControlInv'
  <2>1. [Step]_all => [ControlNext]_controlVars OBVIOUS
  <2> QED BY <2>1, ControlNextInv
<1>4. DividerInv /\ [Step]_all => DividerInv'
  <2>1. [Step]_all => [DividerNext]_dividerVars OBVIOUS
  <2> QED BY <2>1, DividerNextInv
<1>5. IInv /\ ControlInv /\ DividerInv => RegistersFit
  BY DEF IInv, ControlInv, DividerInv, RegistersFit
<1> QED BY <1>1, <1>2, <1>3, <1>4, <1>5, PTL DEF MCSpec
=============================================================================
