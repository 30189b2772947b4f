------------------------- MODULE control_slaveProofs -------------------------
(***************************************************************************)
(* What the control slave keeps whatever the CPU accesses and whenever     *)
(* write_master reports: its status is its state, DONE is never read, and  *)
(* the masters are started once per reset.                                 *)
(***************************************************************************)
EXTENDS control_slave, TLAPS

ControlInv == ControlTypeOK /\ StatusTellsState /\ DoneNeverRead

(* The two status bits, for the three values that status takes.            *)
LEMMA StatusBits ==
  ASSUME ControlInv
  PROVE  /\ DONE <=> state = 2
         /\ BUSY <=> state = 1
<1>1. 0 % 2 = 0 /\ 1 % 2 = 1 /\ 2 % 2 = 0 /\ 0 \div 2 = 0 /\ 1 \div 2 = 0 /\ 2 \div 2 = 1
  OBVIOUS
<1>2. /\ state \in 0 .. 2
      /\ state = 0 => status = 0
      /\ state = 1 => status = 2
      /\ state = 2 => status = 1
  BY DEF ControlInv, ControlTypeOK, StatusTellsState
<1>3. CASE state = 0 BY <1>1, <1>2, <1>3 DEF DONE, BUSY
<1>4. CASE state = 1 BY <1>1, <1>2, <1>4 DEF DONE, BUSY
<1>5. CASE state = 2 BY <1>1, <1>2, <1>5 DEF DONE, BUSY
<1> QED BY <1>2, <1>3, <1>4, <1>5

LEMMA ControlInitInv == ControlInit => ControlInv
BY ControlAssumption DEF ControlInit, ControlInv, ControlTypeOK, StatusTellsState, DoneNeverRead, Word

LEMMA ControlResetInv == ControlReset => ControlInv'
BY ControlAssumption DEF ControlReset, ControlInv, ControlTypeOK, StatusTellsState, DoneNeverRead, Word

(* The registers keep their types, and oReaddata takes a status only in a  *)
(* cycle that is not the one of DONE.                                      *)
LEMMA RegistersStep ==
  ASSUME ControlInv, NEW bus \in CpuAccess, Registers(bus)
  PROVE  /\ oRM_startaddress' \in Word /\ oWM_startaddress' \in Word
         /\ oLength' \in Word /\ control' \in Word
         /\ oReaddata' \in {0, 2}
<1> USE DEF ControlInv, ControlTypeOK, DoneNeverRead, configVars, registerVars
<1>1. bus.writedata \in Word /\ 0 \in Word
  BY ControlAssumption DEF BusCycle, Word
<1>2. CASE ClearControl BY <1>1, <1>2 DEF ClearControl
<1>3. CASE WriteRegister(bus) BY <1>1, <1>3 DEF WriteRegister
<1>4. CASE ReadStatus(bus)
  <2>1. status \in {0, 2} BY <1>4, StatusBits DEF ReadStatus, StatusTellsState
  <2> QED BY <1>4, <2>1 DEF ReadStatus
<1>5. CASE NoAccess(bus) BY <1>5 DEF NoAccess
<1> QED BY <1>2, <1>3, <1>4, <1>5 DEF Registers

(* The sequencer keeps status and state together and raises oStart only    *)
(* when it enters state 1.                                                 *)
LEMMA SequencerStep ==
  ASSUME ControlInv, NEW iMW_done \in {0, 1}, Sequencer(iMW_done)
  PROVE  /\ status' \in Word /\ oStart' \in {0, 1} /\ state' \in 0 .. 2 /\ enable' \in {0, 1}
         /\ StatusTellsState'
<1> USE DEF ControlInv, ControlTypeOK, StatusTellsState
<1>1. 0 \in Word /\ 1 \in Word /\ 2 \in Word BY ControlAssumption DEF Word
<1>2. CASE Launch BY <1>1, <1>2 DEF Launch
<1>3. CASE Stay BY <1>1, <1>3 DEF Stay, sequencerVars
<1>4. CASE Wait(iMW_done) BY <1>1, <1>4 DEF Wait
<1>5. CASE Complete(iMW_done) BY <1>1, <1>5 DEF Complete
<1>6. CASE Retire BY <1>1, <1>6 DEF Retire
<1> QED BY <1>2, <1>3, <1>4, <1>5, <1>6 DEF Sequencer

LEMMA ControlNextInv == ControlInv /\ [ControlNext]_controlVars => ControlInv'
<1> SUFFICES ASSUME ControlInv, [ControlNext]_controlVars PROVE ControlInv' OBVIOUS
<1>1. ASSUME NEW bus \in CpuAccess, NEW iMW_done \in {0, 1}, ControlEdge(bus, iMW_done)
      PROVE  ControlInv'
  <2>1. {0, 2} \subseteq Word BY ControlAssumption DEF Word
  <2> QED BY <1>1, <2>1, RegistersStep, SequencerStep DEF ControlEdge, ControlInv, ControlTypeOK, DoneNeverRead
<1>2. CASE ControlReset BY <1>2, ControlResetInv
<1>3. CASE UNCHANGED controlVars
  BY <1>3 DEF controlVars, registerVars, configVars, sequencerVars, ControlInv, ControlTypeOK,
              StatusTellsState, DoneNeverRead
<1> QED BY <1>1, <1>2, <1>3 DEF ControlNext

(* The registers keep their width and state never takes its fourth value.  *)
THEOREM ControlTypeCorrect == ControlSpec => []ControlTypeOK
<1>1. ControlInv => ControlTypeOK BY DEF ControlInv
<1> QED BY ControlInitInv, ControlNextInv, <1>1, PTL DEF ControlSpec

(* The status the CPU reads is the state of the sequencer, and the start   *)
(* pulse is the first cycle of the waiting state (lines 68 to 103).        *)
THEOREM StatusCorrect == ControlSpec => []StatusTellsState
<1>1. ControlInv => StatusTellsState BY DEF ControlInv
<1> QED BY ControlInitInv, ControlNextInv, <1>1, PTL DEF ControlSpec

(* No access of the CPU, at whatever time, makes the slave answer DONE.    *)
THEOREM DoneUnreadable == ControlSpec => []DoneNeverRead
<1>1. ControlInv => DoneNeverRead BY DEF ControlInv
<1> QED BY ControlInitInv, ControlNextInv, <1>1, PTL DEF ControlSpec

-----------------------------------------------------------------------------
LEMMA PhaseIs ==
  ASSUME ControlInv
  PROVE  /\ state = 0 /\ enable = 0 => phase = "ready"
         /\ state = 1 /\ oStart = 1 => phase = "start"
         /\ state = 1 /\ oStart = 0 => phase = "busy"
         /\ state = 2 => phase = "done"
         /\ state = 0 /\ enable = 1 => phase = "spent"
BY DEF ControlInv, ControlTypeOK, phase

LEMMA SequencerIsOneShot ==
  ASSUME ControlInv, ControlInv', NEW iMW_done \in {0, 1}, Sequencer(iMW_done)
  PROVE  [OneShot!Next]_phase
<1> USE DEF OneShot!Next
<1>1. /\ state' = 1 /\ oStart' = 1 => phase' = "start"
      /\ state' = 1 /\ oStart' = 0 => phase' = "busy"
      /\ state' = 2 => phase' = "done"
      /\ state' = 0 /\ enable' = 1 => phase' = "spent"
  BY DEF ControlInv, ControlTypeOK, phase
<1>2. CASE Launch BY <1>1, <1>2, PhaseIs DEF Launch, OneShot!Start
<1>3. CASE Stay BY <1>3 DEF Stay, sequencerVars, phase
<1>4. CASE Wait(iMW_done)
  BY <1>1, <1>4, PhaseIs DEF Wait, ControlInv, ControlTypeOK, OneShot!Run
<1>5. CASE Complete(iMW_done)
  BY <1>1, <1>5, PhaseIs DEF Complete, ControlInv, ControlTypeOK, OneShot!Finish
<1>6. CASE Retire
  BY <1>1, <1>6, PhaseIs DEF Retire, ControlInv, StatusTellsState, OneShot!Retire
<1> QED BY <1>2, <1>3, <1>4, <1>5, <1>6 DEF Sequencer

(* The masters get one start pulse of one cycle per reset, and the CPU one *)
(* announcement of the completion, whatever the CPU writes.                *)
THEOREM OneShotImplemented == ControlSpec => ImplementsOneShot
<1>1. ControlInit => OneShot!Init BY ControlInitInv, PhaseIs DEF ControlInit, OneShot!Init
<1>2. ControlInv /\ ControlInv' /\ [ControlNext]_controlVars
        => [OneShot!Next \/ (ControlReset /\ OneShot!Rearm)]_phase
  <2> SUFFICES ASSUME ControlInv, ControlInv', [ControlNext]_controlVars
               PROVE  [OneShot!Next \/ (ControlReset /\ OneShot!Rearm)]_phase
    OBVIOUS
  <2>1. ASSUME NEW bus \in CpuAccess, NEW iMW_done \in {0, 1}, ControlEdge(bus, iMW_done)
        PROVE  [OneShot!Next]_phase
    BY <2>1, SequencerIsOneShot DEF ControlEdge
  <2>2. CASE ControlReset
    <3>1. phase' = "ready" BY <2>2 DEF ControlReset, phase
    <3> QED BY <2>2, <3>1 DEF OneShot!Rearm
  <2>3. CASE UNCHANGED controlVars
    BY <2>3 DEF controlVars, sequencerVars, phase
  <2> QED BY <2>1, <2>2, <2>3 DEF ControlNext
<1> QED BY <1>1, <1>2, ControlInitInv, ControlNextInv, PTL DEF ControlSpec, ImplementsOneShot
=============================================================================
