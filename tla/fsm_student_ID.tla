--------------------------- MODULE fsm_student_ID ---------------------------
(***************************************************************************)
(* fsm_student_ID.v: a Moore machine that shows the digits of the student  *)
(* number 23520200, one per clock cycle, from a digit the user picks on.   *)
(***************************************************************************)
EXTENDS Integers, Sequences, SequencesExt

VARIABLES current_state,
          asked,    \* history: user_input when the machine was started last
          shown     \* history: the digits shown since then

vars == <<current_state, asked, shown>>

IDLE == 15
Digit == 0 .. 15        \* the width of user_input and output_digit

\* The history is kept up to one digit more than the number has: a run that
\* shows as many is wrong, whatever follows.
Longest == 9

\* Bug: the last steps are taken again and again.
MutNextState(start, user_input) ==
  CASE current_state = IDLE /\ start = 1 ->
         CASE user_input = 2 -> 0
           [] user_input = 3 -> 1
           [] user_input = 5 -> 2
           [] user_input = 0 -> 4
           [] OTHER -> 0
    [] current_state \in 0 .. 5 -> current_state + 1
    [] current_state = 6 -> 5
    [] OTHER -> IDLE

\* The combinational block: S0 to S7 follow each other, S7 goes to IDLE.
next_state(start, user_input) ==
  CASE current_state = IDLE /\ start = 1 ->
         CASE user_input = 2 -> 0
           [] user_input = 3 -> 1
           [] user_input = 5 -> 2
           [] user_input = 0 -> 4
           [] OTHER -> 0
    [] current_state \in 0 .. 6 -> current_state + 1
    [] OTHER -> IDLE

\* Bug: two digits exchanged.
MutDigitOf(state) ==
  CASE state \in {0, 4, 5} -> 2
    [] state = 1 -> 3
    [] state = 2 -> 5
    [] OTHER -> 0

DigitOf(state) ==
  CASE state \in {0, 3, 5} -> 2
    [] state = 1 -> 3
    [] state = 2 -> 5
    [] OTHER -> 0

active       == current_state \in 0 .. 7
Done         == current_state = 7
output_digit == DigitOf(current_state)

-----------------------------------------------------------------------------
Init == current_state = IDLE /\ asked = 0 /\ shown = << >>

\* The histories follow the machine: a start begins a new run, every cycle of
\* an active state shows one digit.
Edge(start, user_input) ==
  /\ current_state' = next_state(start, user_input)
  /\ \/ /\ current_state = IDLE /\ start = 1
        /\ asked' = user_input
        /\ shown' = <<DigitOf(current_state')>>
     \/ /\ current_state = IDLE /\ start = 0
        /\ UNCHANGED <<asked, shown>>
     \/ /\ current_state # IDLE
        /\ shown' = IF current_state' = IDLE \/ Len(shown) = Longest THEN shown
                    ELSE Append(shown, DigitOf(current_state'))
        /\ UNCHANGED asked

Reset == current_state' = IDLE /\ asked' = 0 /\ shown' = << >>

Next == (\E start \in {0, 1}, user_input \in Digit : Edge(start, user_input)) \/ Reset

Spec == Init /\ [][Next]_vars /\ WF_vars(\E start \in {0, 1}, user_input \in Digit :
                                             Edge(start, user_input))

-----------------------------------------------------------------------------
ID == <<2, 3, 5, 2, 0, 2, 0, 0>>

\* Where a run that was asked for digit d begins: at its first occurrence in
\* the number, at the front for a digit that does not occur.
FirstOf(d) ==
  IF d \in {ID[k] : k \in DOMAIN ID}
  THEN CHOOSE k \in DOMAIN ID : ID[k] = d /\ \A m \in 1 .. k - 1 : ID[m] # d
  ELSE 1

\* A run shows the number from the digit asked for on, without a gap and to
\* its end, whatever start and user_input do meanwhile; Done accompanies the
\* last digit and no other.  A run that is asked for 0 is left out: it shows
\* 0 2 0 0, while the testbench announces 0 2 0 2 0 0 (tb_fsm_student_ID.v
\* line 71), which is no part of the number.
ShowsNumber ==
  LET rest == SubSeq(ID, FirstOf(asked), Len(ID)) IN
  shown # << >> /\ asked # 0 =>
    /\ IsPrefix(shown, rest)
    /\ active /\ Done <=> active /\ shown = rest
    /\ ~active => shown = rest
    /\ active => output_digit = Last(shown)

\* A run comes to its end: a machine that is active reaches Done, or is reset.
RunEnds == active ~> Done \/ shown = << >>
=============================================================================
