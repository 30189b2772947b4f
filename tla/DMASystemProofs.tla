-------------------------- MODULE DMASystemProofs --------------------------
(***************************************************************************)
(* What the DMA controller keeps for every CPU, every pace of the two      *)
(* memories, every width of the registers and every size of the FIFO.      *)
(* The facts about the FIFO are those of FIFOProofs, for the words of this *)
(* system.                                                                 *)
(***************************************************************************)
EXTENDS DMASystem, SequenceTheorems, TLAPS

fp == INSTANCE FIFOProofs WITH Data <- Word

\* The masters are started once: a transfer is recorded exactly when enable,
\* which keeps the sequencer from a second start, is set.
StartedOnce == job = NoJob <=> enable = 0

SysInv ==
  /\ TypeOK
  /\ control!StatusTellsState
  /\ fi!FlagsExact
  /\ StartedOnce
  /\ BlockFixed

-----------------------------------------------------------------------------
(* The FIFO of the controller is the one FIFOProofs is about.              *)
LEMMA SameFIFO ==
  /\ fi!TypeOK /\ fi!FlagsExact <=> fp!IInv
  /\ fi!Init <=> fp!Init
  /\ fi!Reset <=> fp!Reset
  /\ fi!Level = fp!Level
  /\ fi!Contents = fp!Contents
  /\ fi!FF_empty <=> fp!FF_empty
  /\ fi!FF_almostfull <=> fp!FF_almostfull
BY DEF fi!TypeOK, fp!TypeOK, fi!FlagsExact, fp!FlagsExact, fp!IInv, fi!Init, fp!Init,
       fi!Reset, fp!Reset, fi!Position, fp!Position, fi!Depth, fp!Depth, fi!Level, fp!Level,
       fi!Contents, fp!Contents, fi!FF_empty, fp!FF_empty, fi!FF_almostfull,
       fp!FF_almostfull, fi!compare, fp!compare, fi!equal, fp!equal, fi!Top, fp!Top,
       fi!Low, fp!Low

LEMMA SameEdge ==
  ASSUME NEW rreq, NEW wreq, NEW word
  PROVE  fi!Edge(rreq, wreq, word) <=> fp!Edge(rreq, wreq, word)
BY DEF fi!Edge, fp!Edge, fi!Push, fp!Push, fi!NoPush, fp!NoPush, fi!Pop, fp!Pop,
       fi!NoPop, fp!NoPop, fi!Advance, fp!Advance, fi!Depth, fp!Depth, fi!FF_empty,
       fp!FF_empty, fi!FF_almostfull, fp!FF_almostfull, fi!compare, fp!compare, fi!equal,
       fp!equal, fi!Top, fp!Top, fi!Low, fp!Low

(* The word at the output of a FIFO that is not empty is a word.           *)
LEMMA FrontIsWord ==
  ASSUME fi!TypeOK, fi!FlagsExact, ~fi!FF_empty
  PROVE  fi!FF_q \in Word
<1>1. HALF \in Nat \ {0} BY SystemAssumption
<1>2. fp!Contents \in Seq(Word) /\ Len(fp!Contents) = fp!Level /\ fp!Level \in 0 .. HALF
  BY fp!ContentsSeq, SameFIFO, SystemAssumption DEF fp!FIFOAssumption
<1>3. 1 \in 1 .. fi!Level
  BY <1>1, <1>2, SameFIFO DEF fi!FlagsExact
<1>4. fi!Contents[1] \in Word
  BY <1>3 DEF fi!FlagsExact
<1>5. fi!Contents[1] = buffer[(pos_read + 1 - 1) % fi!Depth]
  BY <1>3 DEF fi!Contents
<1>6. (pos_read + 1 - 1) % fi!Depth = pos_read
  BY <1>1 DEF fi!TypeOK, fi!Position, fi!Depth
<1> QED BY <1>4, <1>5, <1>6 DEF fi!FF_q

-----------------------------------------------------------------------------
(* The parts of a clock edge keep their types.                             *)

(* The two status bits, for the three values that status takes.            *)
LEMMA StatusBits ==
  ASSUME control!ControlTypeOK, control!StatusTellsState
  PROVE  /\ control!DONE <=> c_state = 2
         /\ control!BUSY <=> c_state = 1
<1>1. 0 % 2 = 0 /\ 1 % 2 = 1 /\ 2 % 2 = 0 /\ 0 \div 2 = 0 /\ 1 \div 2 = 0 /\ 2 \div 2 = 1
  OBVIOUS
<1>2. /\ c_state \in 0 .. 2
      /\ c_state = 0 => status = 0
      /\ c_state = 1 => status = 2
      /\ c_state = 2 => status = 1
  BY DEF control!ControlTypeOK, control!StatusTellsState
<1>3. CASE c_state = 0 BY <1>1, <1>2, <1>3 DEF control!DONE, control!BUSY
<1>4. CASE c_state = 1 BY <1>1, <1>2, <1>4 DEF control!DONE, control!BUSY
<1>5. CASE c_state = 2 BY <1>1, <1>2, <1>5 DEF control!DONE, control!BUSY
<1> QED BY <1>2, <1>3, <1>4, <1>5

(* The registers keep their types, and in the BUSY states the CPU cannot   *)
(* change the parameters of the transfer.                                  *)
LEMMA RegistersStep ==
  ASSUME control!ControlTypeOK, control!StatusTellsState,
         NEW bus \in CpuAccess, control!Registers(bus)
  PROVE  /\ oRM_startaddress' \in Word /\ oWM_startaddress' \in Word
         /\ oLength' \in Word /\ control_reg' \in Word /\ oReaddata' \in Word
         /\ c_state # 0 => UNCHANGED <<oRM_startaddress, oWM_startaddress, oLength>>
<1> USE DEF control!ControlTypeOK, control!configVars, control!registerVars
<1>1. bus.writedata \in Word /\ 0 \in Word
  BY SystemAssumption DEF control!BusCycle, control!Word, Word
<1>2. Word = control!Word BY DEF Word, control!Word
<1>3. c_state # 0 => control!DONE \/ control!BUSY
  BY StatusBits
<1> USE <1>1, <1>2
<1>4. CASE control!ClearControl BY <1>4 DEF control!ClearControl
<1>5. CASE control!WriteRegister(bus) BY <1>3, <1>5 DEF control!WriteRegister
<1>6. CASE control!ReadStatus(bus) BY <1>6 DEF control!ReadStatus
<1>7. CASE control!NoAccess(bus) BY <1>7 DEF control!NoAccess
<1> QED BY <1>4, <1>5, <1>6, <1>7 DEF control!Registers

(* The sequencer keeps status and state together; the first edge after the *)
(* start pulse sets enable, and no other edge changes it.                  *)
LEMMA SequencerStep ==
  ASSUME control!ControlTypeOK, control!StatusTellsState,
         NEW iMW_done \in {0, 1}, control!Sequencer(iMW_done)
  PROVE  /\ status' \in Word /\ oStart' \in {0, 1} /\ c_state' \in 0 .. 2
         /\ enable' \in {0, 1}
         /\ control!StatusTellsState'
         /\ oStart = 1 => enable = 0 /\ enable' = 1
         /\ oStart = 0 => enable' = enable
         /\ c_state' = 1 /\ oStart' = 0 => c_state = 1
<1> USE DEF control!ControlTypeOK, control!StatusTellsState
<1>1. 0 \in Word /\ 1 \in Word /\ 2 \in Word BY SystemAssumption DEF Word
<1>2. Word = control!Word BY DEF Word, control!Word
<1> USE <1>1, <1>2
<1>3. CASE control!Launch BY <1>3 DEF control!Launch
<1>4. CASE control!Stay BY <1>4 DEF control!Stay, control!sequencerVars
<1>5. CASE control!Wait(iMW_done) BY <1>5 DEF control!Wait
<1>6. CASE control!Complete(iMW_done) BY <1>6 DEF control!Complete
<1>7. CASE control!Retire BY <1>7 DEF control!Retire
<1> QED BY <1>3, <1>4, <1>5, <1>6, <1>7 DEF control!Sequencer

(* A sum of addresses is cut to the width of a register.                   *)
LEMMA WordSum == ASSUME NEW a \in Word, NEW b \in Word
                 PROVE  (a + b) % M \in Word /\ (a + 4) % M \in Word
BY SystemAssumption DEF Word

(* read_master: only the start pulse loads the last address.               *)
LEMMA ReadMasterStep ==
  ASSUME rm!TypeOK, control!ControlTypeOK, NEW wait \in {0, 1},
         rm!Edge(oStart, oLength, oRM_startaddress, wait, fi!FF_almostfull)
  PROVE  /\ rm!TypeOK'
         /\ oStart = 1 => RM_lastwriteaddress' = (oRM_startaddress + oLength) % M
         /\ oStart = 0 => UNCHANGED RM_lastwriteaddress
<1> USE DEF rm!TypeOK, rm!masterVars
<1>1. /\ oRM_startaddress \in Word /\ oLength \in Word /\ oStart \in {0, 1}
      /\ oRM_readaddress \in Word /\ Word = 0 .. M - 1
  BY DEF control!ControlTypeOK, control!Word, Word
<1>2. (oRM_startaddress + oLength) % M \in Word /\ (oRM_readaddress + 4) % M \in Word
  BY <1>1, WordSum
<1> USE <1>1, <1>2
<1>3. CASE oStart = 1 /\ rm!Load(oLength, oRM_startaddress) BY <1>3 DEF rm!Load
<1>4. CASE oStart = 0 /\ rm!Begin(fi!FF_almostfull) BY <1>4 DEF rm!Begin
<1>5. CASE oStart = 0 /\ rm!Hold(fi!FF_almostfull) BY <1>5 DEF rm!Hold
<1>6. CASE oStart = 0 /\ rm!Finish BY <1>6 DEF rm!Finish
<1>7. CASE oStart = 0 /\ rm!Request BY <1>7 DEF rm!Request
<1>8. CASE oStart = 0 /\ rm!Accepted(wait) BY <1>8 DEF rm!Accepted
<1>9. CASE oStart = 0 /\ rm!Waiting(wait) BY <1>9 DEF rm!Waiting
<1> QED BY <1>3, <1>4, <1>5, <1>6, <1>7, <1>8, <1>9 DEF rm!Edge

(* write_master, which takes words from a FIFO that is not empty.          *)
LEMMA WriteMasterStep ==
  ASSUME wm!TypeOK, control!ControlTypeOK, NEW wait \in {0, 1},
         ~fi!FF_empty => fi!FF_q \in Word,
         wm!Edge(oStart, oWM_startaddress, oLength, wait, fi!FF_empty, fi!FF_q)
  PROVE  /\ wm!TypeOK'
         /\ oStart = 1 => WM_lastwriteaddress' = (oWM_startaddress + oLength) % M
         /\ oStart = 0 => UNCHANGED WM_lastwriteaddress
<1> USE DEF wm!TypeOK, wm!masterVars
<1>1. /\ oWM_startaddress \in Word /\ oLength \in Word /\ oStart \in {0, 1}
      /\ oWM_writeaddress \in Word /\ Word = 0 .. M - 1
  BY DEF control!ControlTypeOK, control!Word, Word
<1>2. (oWM_startaddress + oLength) % M \in Word /\ (oWM_writeaddress + 4) % M \in Word
  BY <1>1, WordSum
<1> USE <1>1, <1>2
<1>3. CASE oStart = 1 /\ wm!Load(oLength, oWM_startaddress) BY <1>3 DEF wm!Load
<1>4. CASE oStart = 0 /\ wm!Idle(fi!FF_empty) BY <1>4 DEF wm!Idle
<1>5. CASE oStart = 0 /\ wm!Take(fi!FF_empty, fi!FF_q) BY <1>5 DEF wm!Take
<1>6. CASE oStart = 0 /\ wm!Written(wait) BY <1>6 DEF wm!Written
<1>7. CASE oStart = 0 /\ wm!Stalled(wait) BY <1>7 DEF wm!Stalled
<1>8. CASE oStart = 0 /\ wm!Return BY <1>8 DEF wm!Return
<1> QED BY <1>3, <1>4, <1>5, <1>6, <1>7, <1>8 DEF wm!Edge

(* The FIFO keeps its types and the exactness of its flags under the two   *)
(* requests the masters make.                                              *)
LEMMA FIFOStep ==
  ASSUME fi!TypeOK, fi!FlagsExact, NEW word \in Word, NEW valid \in {0, 1},
         fi!Edge(wm!oFF_readrequest(fi!FF_empty),
                 rm!oFF_writerequest(valid, fi!FF_almostfull), word)
  PROVE  fi!TypeOK' /\ fi!FlagsExact'
<1>1. ASSUME NEW rreq \in BOOLEAN, NEW wreq \in BOOLEAN, fi!Edge(rreq, wreq, word)
      PROVE  fp!IInv'
  BY <1>1, SameFIFO, SameEdge, fp!EdgeInv, SystemAssumption DEF fp!FIFOAssumption
<1>2. /\ wm!oFF_readrequest(fi!FF_empty) \in BOOLEAN
      /\ rm!oFF_writerequest(valid, fi!FF_almostfull) \in BOOLEAN
  BY DEF wm!oFF_readrequest, rm!oFF_writerequest
<1>3. fp!IInv' BY <1>1, <1>2
<1> QED BY <1>3, SameFIFO, PTL

-----------------------------------------------------------------------------
LEMMA InitInv == SysInit => SysInv
<1> SUFFICES ASSUME SysInit PROVE SysInv
  OBVIOUS
<1> USE SystemAssumption DEF SysInit, Init
<1>1. 0 \in Word
  BY DEF Word
<1>2. fi!TypeOK /\ fi!FlagsExact
  BY SameFIFO, fp!InitInv DEF fp!FIFOAssumption
<1>3. control!ControlTypeOK /\ control!StatusTellsState /\ enable = 0 /\ oStart = 0 /\ c_state = 0
  BY <1>1 DEF control!ControlInit, control!ControlTypeOK, control!StatusTellsState, control!Word, Word
<1>4. wm!TypeOK /\ rm!TypeOK
  BY <1>1 DEF wm!Init, wm!TypeOK, rm!Init, rm!TypeOK, Word
<1>5. ~control!BUSY
  BY <1>3, StatusBits
<1> QED BY <1>1, <1>2, <1>3, <1>4, <1>5 DEF SysInv, TypeOK, StartedOnce, BlockFixed

LEMMA ResetInv == SysInv /\ SysReset => SysInv'
<1> SUFFICES ASSUME SysInv, SysReset PROVE SysInv'
  OBVIOUS
<1> USE SystemAssumption DEF SysReset, Reset
<1>1. 0 \in Word
  BY DEF Word
<1>2. fi!TypeOK' /\ fi!FlagsExact'
  <2>1. fp!IInv /\ fp!Reset BY SameFIFO DEF SysInv, TypeOK
  <2>2. fp!IInv' BY <2>1, fp!ResetInv DEF fp!FIFOAssumption
  <2> QED BY <2>2, SameFIFO, PTL
<1>3. /\ control!ControlTypeOK' /\ control!StatusTellsState'
      /\ enable' = 0 /\ oStart' = 0 /\ c_state' = 0 /\ status' = 0
  BY <1>1 DEF control!ControlReset, control!ControlTypeOK, control!StatusTellsState, control!Word, Word
<1>4. wm!TypeOK' /\ rm!TypeOK'
  BY <1>1 DEF wm!Reset, wm!TypeOK, rm!Reset, rm!TypeOK, Word
<1>5. ~control!BUSY'
  <2>1. 0 \div 2 = 0 /\ 0 % 2 = 0 OBVIOUS
  <2> QED BY <1>3, <2>1 DEF control!BUSY
<1>6. /\ mem' \in [Word -> Word \cup {NoData}] /\ job' = NoJob
      /\ iRM_readdatavalid' \in {0, 1} /\ iRM_readdata' \in Word
  BY <1>1
<1>7. TypeOK' BY <1>2, <1>3, <1>4, <1>6 DEF TypeOK
<1>8. StartedOnce' BY <1>3, <1>6 DEF StartedOnce
<1>9. BlockFixed' BY <1>5 DEF BlockFixed
<1> QED BY <1>2, <1>3, <1>7, <1>8, <1>9 DEF SysInv

(* The memory and the answers to read_master.                              *)
LEMMA FabricStep ==
  ASSUME TypeOK, NEW rw \in {0, 1}, NEW ww \in {0, 1}, Answer(rw), Store(ww), Record
  PROVE  /\ iRM_readdatavalid' \in {0, 1} /\ iRM_readdata' \in Word
         /\ mem' \in [Word -> Word \cup {NoData}]
         /\ job' \in Job \cup {NoJob}
         /\ oStart = 1 => job' # NoJob
<1> USE DEF TypeOK
<1>1. oRM_readaddress \in Word /\ oWM_writeaddress \in Word /\ oWM_writedata \in Word
  BY DEF rm!TypeOK, wm!TypeOK, Word
<1>2. iRM_readdatavalid' \in {0, 1} /\ iRM_readdata' \in Word
  BY <1>1 DEF Answer
<1>3. mem' \in [Word -> Word \cup {NoData}]
  BY <1>1 DEF Store
<1>4. [src |-> oRM_startaddress, dst |-> oWM_startaddress, length |-> oLength] \in Job
  BY DEF Job, control!ControlTypeOK, control!Word, Word
<1> QED BY <1>2, <1>3, <1>4, SystemAssumption DEF Record

LEMMA TickInv ==
  ASSUME SysInv, NEW bus \in CpuAccess, NEW rw \in {0, 1}, NEW ww \in {0, 1},
         Tick(bus, rw, ww)
  PROVE  SysInv'
<1> USE DEF SysInv, Tick, Edge
<1>1. /\ TypeOK /\ control!ControlTypeOK /\ control!StatusTellsState
      /\ fi!TypeOK /\ fi!FlagsExact /\ rm!TypeOK /\ wm!TypeOK
      /\ oWM_done \in {0, 1} /\ oStart \in {0, 1}
      /\ iRM_readdatavalid \in {0, 1} /\ iRM_readdata \in Word
  BY DEF TypeOK, wm!TypeOK, control!ControlTypeOK
<1>2. control!Registers(bus) /\ control!Sequencer(oWM_done)
  BY DEF control!ControlEdge
<1>3. /\ oRM_startaddress' \in Word /\ oWM_startaddress' \in Word
      /\ oLength' \in Word /\ control_reg' \in Word /\ oReaddata' \in Word
      /\ c_state # 0 => UNCHANGED <<oRM_startaddress, oWM_startaddress, oLength>>
  BY <1>1, <1>2, RegistersStep
<1>4. /\ status' \in Word /\ oStart' \in {0, 1} /\ c_state' \in 0 .. 2 /\ enable' \in {0, 1}
      /\ control!StatusTellsState'
      /\ oStart = 1 => enable = 0 /\ enable' = 1
      /\ oStart = 0 => enable' = enable
      /\ c_state' = 1 /\ oStart' = 0 => c_state = 1
  BY <1>1, <1>2, SequencerStep
<1>5. control!ControlTypeOK'
  BY <1>3, <1>4 DEF control!ControlTypeOK, control!Word, Word
<1>6. /\ rm!TypeOK'
      /\ oStart = 1 => RM_lastwriteaddress' = (oRM_startaddress + oLength) % M
      /\ oStart = 0 => UNCHANGED RM_lastwriteaddress
  BY <1>1, ReadMasterStep
<1>7. /\ wm!TypeOK'
      /\ oStart = 1 => WM_lastwriteaddress' = (oWM_startaddress + oLength) % M
      /\ oStart = 0 => UNCHANGED WM_lastwriteaddress
  BY <1>1, WriteMasterStep, FrontIsWord
<1>8. fi!TypeOK' /\ fi!FlagsExact'
  BY <1>1, FIFOStep DEF rm!oFF_data
<1>9. /\ iRM_readdatavalid' \in {0, 1} /\ iRM_readdata' \in Word
      /\ mem' \in [Word -> Word \cup {NoData}]
      /\ job' \in Job \cup {NoJob}
      /\ oStart = 1 => job' # NoJob
  BY <1>1, FabricStep
<1>10. TypeOK'
  BY <1>5, <1>6, <1>7, <1>8, <1>9 DEF TypeOK
<1>11. StartedOnce'
  BY <1>1, <1>4, <1>9 DEF StartedOnce, Record
<1>12. BlockFixed'
  <2> SUFFICES ASSUME control!BUSY', oStart' = 0
               PROVE  BlockFixed'
    BY DEF BlockFixed
  <2>1. c_state' = 1
    <3>1. (0 \div 2) % 2 = 0 /\ (1 \div 2) % 2 = 0 OBVIOUS
    <3>2. status' # 0 /\ status' # 1 BY <3>1 DEF control!BUSY
    <3> QED BY <1>4, <3>2 DEF control!StatusTellsState
  <2>2. /\ c_state = 1
        /\ UNCHANGED <<oRM_startaddress, oWM_startaddress, oLength>>
    BY <1>3, <1>4, <2>1
  <2>3. CASE oStart = 1
    BY <1>6, <1>7, <2>2, <2>3 DEF Record, BlockFixed
  <2>4. CASE oStart = 0
    <3>1. control!BUSY BY <1>1, <2>2, StatusBits
    <3> QED BY <1>6, <1>7, <2>2, <2>4, <3>1 DEF Record, BlockFixed
  <2> QED BY <1>1, <2>3, <2>4
<1> QED BY <1>4, <1>8, <1>10, <1>11, <1>12

LEMMA StutterInv == SysInv /\ UNCHANGED vars => SysInv'
BY DEF vars, dmaVars, controlVars, wmVars, rmVars, fiVars, fabricVars, SysInv, TypeOK,
       StartedOnce, BlockFixed, control!ControlTypeOK, control!StatusTellsState, control!BUSY,
       wm!TypeOK, rm!TypeOK, fi!TypeOK, fi!FlagsExact, fi!Level, fi!Contents, fi!FF_empty,
       fi!FF_almostfull, fi!compare, fi!equal

LEMMA NextInv == SysInv /\ [SysNext]_vars => SysInv'
<1>1. SysInv /\ SomeTick({0, 1}) => SysInv' BY TickInv DEF SomeTick
<1> QED BY <1>1, ResetInv, StutterInv DEF SysNext

(* Every register of the controller and every word in it keeps its type.   *)
THEOREM TypeCorrect == SysSpec => []TypeOK
<1>1. SysInv => TypeOK BY DEF SysInv
<1> QED BY InitInv, NextInv, <1>1, PTL DEF SysSpec

(* The CPU cannot change a transfer under the masters: during it registers, *)
(* history and last addresses agree (control_slave.v line 53).             *)
THEOREM BlockFixedCorrect == SysSpec => []BlockFixed
<1>1. SysInv => BlockFixed BY DEF SysInv
<1> QED BY InitInv, NextInv, <1>1, PTL DEF SysSpec
-----------------------------------------------------------------------------
(***************************************************************************)
(* The words of a block, for every HALF, every width of the addresses and  *)
(* every pace of the memories.  Of a block of any number of words nothing  *)
(* is written outside the destination and no access is let go, although    *)
(* words may be lost; as long as none is, word i goes to place i and       *)
(* BlockCopy is implemented; and of up to HALF + 1 words none is lost.     *)
(***************************************************************************)

Whole(n) == n % 4 = 0
Short(n) == n <= 4 * (HALF + 1)

\* The software only programs whole words, or moreover no more of them than
\* the controller can copy.
LengthAccess == {bus \in CpuAccess : bus.op = "write" /\ bus.address = 2}
OnlyWholeBlocks == \A bus \in LengthAccess : Whole(bus.writedata)
OnlyShortBlocks == \A bus \in LengthAccess : Whole(bus.writedata) /\ Short(bus.writedata)

-----------------------------------------------------------------------------
(* The invariant.  w counts the words write_master has done with; words    *)
(* w, w + 1 and so on of the block are, in this order, on the outputs of   *)
(* write_master, in the FIFO, and arriving, unless words were lost.        *)

\* How many words read_master has read.
Read(w, lost) == w + oWM_write + fi!Level + iRM_readdatavalid + lost

\* Nothing is under way before a transfer.
Quiet ==
  /\ rm_state # 2 /\ oRM_read = 0 /\ oRM_readaddress = RM_lastwriteaddress
  /\ iRM_readdatavalid = 0
  /\ wm_state = 0 /\ oWM_write = 0 /\ oWM_done = 0
  /\ fi!Level = 0
  /\ mem = [a \in Word |-> NoData]

\* The positions of the masters in the block.
Positions(w, lost) ==
  /\ Read(w, lost) <= Words(job)
  /\ oWM_writeaddress = At(job.dst, w)
  /\ oRM_readaddress = At(job.src, Read(w, lost))

\* The words under way are those between the positions.
Ordered(w) ==
  /\ oWM_write = 1 => oWM_writedata = At(job.src, w)
  /\ \A i \in 1 .. fi!Level : fi!Contents[i] = At(job.src, w + oWM_write + i - 1)
  /\ iRM_readdatavalid = 1 => iRM_readdata = At(job.src, w + oWM_write + fi!Level)

\* write_master is past state 1 with oWM_write raised only at the last word.
WriteSide(w) ==
  /\ wm_state # 0 => oWM_write = 1
  /\ oWM_write = 1 /\ wm_state # 1 => w + 1 = Words(job)
  /\ oWM_done = 1 => w = Words(job) \/ (oWM_write = 1 /\ w + 1 = Words(job))

\* A word arrives in state 0; the first word is on its way to write_master
\* before the second one is asked for.
ReadSide(w, lost) ==
  /\ oRM_read = 1 <=> rm_state = 2
  /\ rm_state = 2 => Read(w, lost) < Words(job)
  /\ iRM_readdatavalid = 1 => rm_state = 0
  /\ w + oWM_write = 0 =>
       \/ fi!Level = 0
       \/ fi!Level = 1 /\ iRM_readdatavalid = 0 /\ rm_state = 1

\* The words before w have been written.
Written(w) == \A k \in 0 .. w - 1 : mem[At(job.dst, k)] = At(job.src, k)

Running(w, lost) ==
  /\ Positions(w, lost) /\ WriteSide(w) /\ ReadSide(w, lost)
  /\ lost = 0 => Ordered(w) /\ Written(w)

\* Losses are the numbers of words that may have been lost: any number, or 0.
Transfer(Losses) ==
  /\ Whole(job.length)
  /\ RM_lastwriteaddress = (job.src + job.length) % M
  /\ WM_lastwriteaddress = (job.dst + job.length) % M
  /\ \E w \in 0 .. Words(job), lost \in Losses : Running(w, lost)

DataInv(Losses) ==
  /\ SysInv
  /\ Whole(oLength)
  /\ job = NoJob => Quiet
  /\ job # NoJob => Transfer(Losses) /\ StaysInBlock

LossyInv == DataInv(Nat)
OrderedInv == DataInv({0})

-----------------------------------------------------------------------------
(* Addresses of a block, without a remainder.                              *)

LEMMA AddressIs ==
  ASSUME NEW base \in Word, NEW i \in Nat, 4 * i < M
  PROVE  /\ At(base, i) = IF base + 4 * i < M THEN base + 4 * i ELSE base + 4 * i - M
         /\ At(base, i) \in Word
<1>1. M \in Nat /\ base \in 0 .. M - 1
  BY SystemAssumption DEF Word
<1>2. CASE base + 4 * i < M
  <2>1. (base + 4 * i) % M = base + 4 * i BY <1>1, <1>2
  <2> QED BY <1>1, <1>2, <2>1 DEF At, Word
<1>3. CASE base + 4 * i >= M
  <2>1. (base + 4 * i) % M = base + 4 * i - M BY <1>1, <1>3
  <2> QED BY <1>1, <1>3, <2>1 DEF At, Word
<1> QED BY <1>1, <1>2, <1>3

(* The masters step from one word of a block to the next.                  *)
LEMMA NextAddress ==
  ASSUME NEW base \in Word, NEW i \in Nat, 4 * (i + 1) < M
  PROVE  (At(base, i) + 4) % M = At(base, i + 1)
<1>1. M \in Nat /\ M >= 16 /\ base \in 0 .. M - 1
  BY SystemAssumption DEF Word
<1>2. 4 * i < M /\ i + 1 \in Nat
  BY <1>1
<1>3. At(base, i) = IF base + 4 * i < M THEN base + 4 * i ELSE base + 4 * i - M
  BY <1>2, AddressIs
<1>4. At(base, i + 1) = IF base + 4 * (i + 1) < M THEN base + 4 * (i + 1)
                                                 ELSE base + 4 * (i + 1) - M
  BY <1>2, AddressIs
<1>5. At(base, i) \in 0 .. M - 1
  BY <1>2, AddressIs DEF Word
<1> DEFINE a == At(base, i) + 4
<1>6. a % M = IF a < M THEN a ELSE a - M
  <2>1. CASE a < M BY <1>1, <1>5, <2>1
  <2>2. CASE a >= M BY <1>1, <1>5, <2>2
  <2> QED BY <1>1, <1>5, <2>1, <2>2
<1> QED BY <1>1, <1>3, <1>4, <1>5, <1>6

(* Two words of a block have different addresses.                          *)
LEMMA AddressInjective ==
  ASSUME NEW base \in Word, NEW i \in Nat, NEW j \in Nat, 4 * i < M, 4 * j < M,
         At(base, i) = At(base, j)
  PROVE  i = j
<1>1. /\ At(base, i) = IF base + 4 * i < M THEN base + 4 * i ELSE base + 4 * i - M
      /\ At(base, j) = IF base + 4 * j < M THEN base + 4 * j ELSE base + 4 * j - M
  BY AddressIs
<1>2. M \in Nat /\ base \in 0 .. M - 1
  BY SystemAssumption DEF Word
<1>3. (IF base + 4 * i < M THEN base + 4 * i ELSE base + 4 * i - M)
        = (IF base + 4 * j < M THEN base + 4 * j ELSE base + 4 * j - M)
  BY <1>1
<1> QED BY <1>2, <1>3

(* A block of whole words ends at its last address and does not run into   *)
(* itself.                                                                 *)
LEMMA BlockIs ==
  ASSUME NEW j \in Job, Whole(j.length)
  PROVE  /\ j.src \in Word /\ j.dst \in Word
         /\ Words(j) \in Nat /\ 4 * Words(j) = j.length
         /\ 4 * Words(j) < M
         /\ (j.src + j.length) % M = At(j.src, Words(j))
         /\ (j.dst + j.length) % M = At(j.dst, Words(j))
<1>1. j.length \in Word /\ j.src \in Word /\ j.dst \in Word
  BY DEF Job
<1>2. M \in Nat /\ j.length \in 0 .. M - 1 /\ j.length % 4 = 0
  BY <1>1, SystemAssumption DEF Word, Whole
<1>3. 4 * Words(j) = j.length /\ Words(j) \in Nat
  BY <1>2 DEF Words
<1> QED BY <1>1, <1>2, <1>3 DEF At

-----------------------------------------------------------------------------
(* The FIFO between the masters.                                           *)

\* Whether a word leaves and whether one enters on the next edge.
Popped == IF wm_state = 0 /\ fi!Level # 0 THEN 1 ELSE 0
Pushed == IF rm_state = 0 /\ iRM_readdatavalid = 1 /\ fi!Level # HALF THEN 1 ELSE 0

LEMMA FIFOEffect ==
  ASSUME fi!TypeOK, fi!FlagsExact, NEW word \in Word,
         fi!Edge(wm!oFF_readrequest(fi!FF_empty),
                 rm!oFF_writerequest(iRM_readdatavalid, fi!FF_almostfull), word)
  PROVE  /\ fi!Level \in 0 .. HALF
         /\ fi!Level' = fi!Level - Popped + Pushed
         /\ \A i \in 1 .. fi!Level - Popped : fi!Contents'[i] = fi!Contents[i + Popped]
         /\ Pushed = 1 => fi!Contents'[fi!Level'] = word
<1> DEFINE rreq == wm!oFF_readrequest(fi!FF_empty)
           wreq == rm!oFF_writerequest(iRM_readdatavalid, fi!FF_almostfull)
<1>1. rreq \in BOOLEAN /\ wreq \in BOOLEAN
  BY DEF wm!oFF_readrequest, rm!oFF_writerequest
<1>2. fp!IInv /\ fp!FIFOAssumption
  BY SameFIFO, SystemAssumption DEF fp!FIFOAssumption
<1>3. fp!Edge(rreq, wreq, word)
  BY SameEdge
<1>4. fi!Level \in 0 .. HALF
  BY <1>2, fp!ContentsSeq, SameFIFO
<1>5. fp!Leaving(rreq) = Popped /\ fp!Entering(wreq) = Pushed
  BY SameFIFO, <1>4
  DEF fp!Leaving, fp!Entering, Popped, Pushed, wm!oFF_readrequest,
      rm!oFF_writerequest, fi!FlagsExact
<1> HIDE DEF rreq, wreq
<1>6. /\ fp!Level' = fp!Level - fp!Leaving(rreq) + fp!Entering(wreq)
      /\ \A i \in 1 .. fp!Level - fp!Leaving(rreq) :
           fp!Contents'[i] = fp!Contents[i + fp!Leaving(rreq)]
      /\ fp!Entering(wreq) = 1 => fp!Contents'[fp!Level'] = word
  BY <1>1, <1>2, <1>3, fp!EdgeEffect
<1>7. fi!Level' = fp!Level' /\ fi!Contents' = fp!Contents'
  BY DEF fi!Level, fp!Level, fi!Contents, fp!Contents, fi!Depth, fp!Depth
<1> QED BY <1>4, <1>5, <1>6, <1>7, SameFIFO

(* The word write_master takes is the first one.                           *)
LEMMA FrontIsFirst ==
  ASSUME fi!TypeOK, fi!Level \in 1 .. HALF
  PROVE  fi!FF_q = fi!Contents[1]
<1>1. HALF \in Nat \ {0} BY SystemAssumption
<1>2. fi!Contents[1] = buffer[(pos_read + 1 - 1) % fi!Depth]
  BY <1>1 DEF fi!Contents
<1>3. (pos_read + 1 - 1) % fi!Depth = pos_read
  BY <1>1 DEF fi!TypeOK, fi!Position, fi!Depth
<1> QED BY <1>2, <1>3 DEF fi!FF_q

-----------------------------------------------------------------------------
(* One edge during a transfer, seen from word w.                           *)

\* Whether write_master is done with a word, and read_master gets one.
Left(ww)    == IF wm_state = 1 /\ ww = 0 THEN 1 ELSE 0
Arrived(rw) == IF rm_state = 2 /\ rw = 0 THEN 1 ELSE 0

\* Whether a word arrives at a FIFO that does not take it.
Dropped == iRM_readdatavalid - Pushed

\* What the lemmas about a transfer assume.
During(w, lost) ==
  /\ LossyInv /\ job # NoJob /\ oStart = 0
  /\ w \in 0 .. Words(job) /\ lost \in Nat /\ Running(w, lost)

(* The types of what the lemmas are about.                                 *)
LEMMA DuringTypes ==
  ASSUME NEW w, NEW lost, During(w, lost)
  PROVE  /\ job \in Job /\ Whole(job.length) /\ job.src \in Word /\ job.dst \in Word
         /\ Words(job) \in Nat /\ 4 * Words(job) < M /\ w \in 0 .. Words(job)
         /\ 4 * Words(job) = job.length /\ lost \in Nat
         /\ RM_lastwriteaddress = At(job.src, Words(job))
         /\ WM_lastwriteaddress = At(job.dst, Words(job))
         /\ HALF \in Nat \ {0} /\ M \in Nat
         /\ fi!Level \in 0 .. HALF
         /\ oWM_write \in {0, 1} /\ oWM_done \in {0, 1} /\ wm_state \in 0 .. 2
         /\ rm_state \in 0 .. 2 /\ oRM_read \in {0, 1} /\ iRM_readdatavalid \in {0, 1}
         /\ iRM_readdata \in Word
         /\ fi!TypeOK /\ fi!FlagsExact
<1> USE DEF During, LossyInv, DataInv, SysInv, TypeOK
<1>1. job \in Job /\ Whole(job.length)
  BY DEF Transfer
<1>2. /\ RM_lastwriteaddress = (job.src + job.length) % M
      /\ WM_lastwriteaddress = (job.dst + job.length) % M
  BY DEF Transfer
<1>3. fi!Level \in 0 .. HALF
  BY SameFIFO, fp!ContentsSeq, SystemAssumption DEF fp!FIFOAssumption
<1>4. HALF \in Nat \ {0} /\ M \in Nat
  BY SystemAssumption
<1> QED BY <1>1, <1>2, <1>3, <1>4, BlockIs DEF wm!TypeOK, rm!TypeOK

(* A word is only dropped by a full FIFO, when the words before it fill    *)
(* that and the outputs of write_master: the first word of a block has     *)
(* left the FIFO by the time the next one arrives.                         *)
LEMMA WordDropped ==
  ASSUME NEW w, NEW lost, During(w, lost)
  PROVE  /\ Pushed \in {0, 1} /\ Dropped \in {0, 1}
         /\ Dropped = 0 <=> NoWordDropped
         /\ Dropped = 1 => /\ iRM_readdatavalid = 1 /\ fi!Level = HALF
                           /\ HALF + 2 <= Words(job)
         /\ iRM_readdatavalid = 1 => rm_state = 0
<1> USE DuringTypes DEF During, Running, Positions, ReadSide, Read
<1>1. ~fi!FF_almostfull <=> fi!Level # HALF
  BY DEF fi!FlagsExact
<1>2. iRM_readdatavalid = 1 /\ fi!Level = HALF => w + oWM_write >= 1
  OBVIOUS
<1> QED BY <1>1, <1>2 DEF Pushed, Dropped, NoWordDropped, rm!oFF_writerequest

(* write_master moves to word w + 1 when word w is accepted, and takes a   *)
(* word only with its outputs free.                                        *)
LEMMA WriteStep ==
  ASSUME NEW w, NEW lost, During(w, lost), NEW ww \in {0, 1},
         wm!Edge(oStart, oWM_startaddress, oLength, ww, fi!FF_empty, fi!FF_q)
  PROVE  /\ Left(ww) = 1 => oWM_write = 1 /\ ww = 0 /\ Popped = 0 /\ w < Words(job)
         /\ Popped = 1 => oWM_write = 0 /\ w < Words(job)
         /\ oWM_write' = oWM_write + Popped - Left(ww)
         /\ oWM_writeaddress' = At(job.dst, w + Left(ww))
         /\ Popped = 1 => oWM_writedata' = fi!Contents[1]
         /\ Popped = 0 => oWM_writedata' = oWM_writedata
         /\ wm_state' # 0 => oWM_write' = 1
         /\ oWM_write' = 1 /\ wm_state' # 1 => w + 1 = Words(job) /\ Left(ww) = 0
         /\ oWM_done' = 1 => \/ w + Left(ww) = Words(job)
                             \/ oWM_write' = 1 /\ w + 1 = Words(job) /\ Left(ww) = 0
<1> USE DuringTypes DEF During, Running, Positions, WriteSide, Read, Popped, Left
<1>1. fi!FF_empty <=> fi!Level = 0
  BY DEF fi!FlagsExact
<1>2. oWM_write = 1 /\ wm_state # 1 => fi!Level = 0
  OBVIOUS
<1>3. oWM_write = 1 => w + 1 \in 0 .. Words(job) /\ w \in Nat
  OBVIOUS
<1>4. oWM_write = 1 => (wm!LastWord <=> w + 1 = Words(job))
  <2> SUFFICES ASSUME oWM_write = 1 PROVE wm!LastWord <=> w + 1 = Words(job)
    OBVIOUS
  <2>1. (oWM_writeaddress + 4) % M = At(job.dst, w + 1)
    BY <1>3, NextAddress
  <2>2. At(job.dst, w + 1) = At(job.dst, Words(job)) => w + 1 = Words(job)
    BY <1>3, AddressInjective
  <2> QED BY <2>1, <2>2 DEF wm!LastWord
<1>5. w + 0 = w
  OBVIOUS
<1>6. CASE wm!Idle(fi!FF_empty)
  BY <1>1, <1>5, <1>6 DEF wm!Idle, wm!masterVars
<1>7. CASE wm!Take(fi!FF_empty, fi!FF_q)
  <2>1. fi!Level \in 1 .. HALF /\ oWM_write = 0 /\ Popped = 1 /\ Left(ww) = 0
    BY <1>1, <1>2, <1>7 DEF wm!Take
  <2>2. oWM_writedata' = fi!Contents[1]
    BY <1>7, <2>1, FrontIsFirst DEF wm!Take
  <2> QED BY <1>5, <1>7, <2>1, <2>2 DEF wm!Take
<1>8. CASE wm!Written(ww)
  <2>1. oWM_writeaddress' = At(job.dst, w + 1)
    BY <1>3, <1>8, NextAddress DEF wm!Written
  <2> QED BY <1>3, <1>4, <1>8, <2>1 DEF wm!Written
<1>9. CASE wm!Stalled(ww)
  BY <1>4, <1>5, <1>9 DEF wm!Stalled
<1>10. CASE wm!Return
  BY <1>5, <1>10 DEF wm!Return
<1> QED BY <1>6, <1>7, <1>8, <1>9, <1>10 DEF wm!Edge

(* read_master asks for the words one after the other and stops at the end *)
(* of the block; after a word has arrived it looks at the FIFO again.      *)
LEMMA ReadStep ==
  ASSUME NEW w, NEW lost, During(w, lost), NEW rw \in {0, 1}, Answer(rw),
         rm!Edge(oStart, oLength, oRM_startaddress, rw, fi!FF_almostfull)
  PROVE  /\ iRM_readdatavalid' = Arrived(rw)
         /\ Arrived(rw) = 1 => /\ iRM_readdata' = At(job.src, Read(w, lost))
                               /\ Read(w, lost) < Words(job)
                               /\ rm_state' = 0
         /\ oRM_readaddress' = At(job.src, Read(w, lost) + Arrived(rw))
         /\ oRM_read' = 1 <=> rm_state' = 2
         /\ rm_state' = 2 => Read(w, lost) + Arrived(rw) < Words(job)
         /\ rm_state = 0 /\ fi!Level # HALF => rm_state' = 1 /\ Arrived(rw) = 0
<1> USE DuringTypes DEF During, Running, Positions, ReadSide, Arrived
<1>1. Read(w, lost) \in 0 .. Words(job)
  BY DEF Read
<1>2. fi!FF_almostfull <=> fi!Level = HALF
  BY DEF fi!FlagsExact
<1>3. Read(w, lost) + 0 = Read(w, lost)
  BY <1>1
<1>4. /\ iRM_readdatavalid' = Arrived(rw)
      /\ Arrived(rw) = 1 => iRM_readdata' = At(job.src, Read(w, lost)) /\ Read(w, lost) < Words(job)
  BY DEF Answer, ReadAccepted
<1>5. CASE rm!Begin(fi!FF_almostfull) BY <1>3, <1>4, <1>5 DEF rm!Begin
<1>6. CASE rm!Hold(fi!FF_almostfull) BY <1>2, <1>3, <1>4, <1>6 DEF rm!Hold, rm!masterVars
<1>7. CASE rm!Finish
  <2>1. Arrived(rw) = 0 /\ rm_state = 1 /\ rm_state' = 0 /\ oRM_read' = oRM_read
    BY <1>7 DEF rm!Finish
  <2>2. oRM_readaddress' = oRM_readaddress
    BY <1>7 DEF rm!Finish
  <2>3. oRM_read = 0
    BY <2>1
  <2> HIDE DEF Arrived
  <2> QED BY <1>3, <1>4, <2>1, <2>2, <2>3
<1>8. CASE rm!Request
  <2>1. Read(w, lost) < Words(job) BY <1>1, <1>8 DEF rm!Request
  <2> QED BY <1>3, <1>4, <1>8, <2>1 DEF rm!Request
<1>9. CASE rm!Accepted(rw)
  <2>1. Read(w, lost) + 1 \in 0 .. Words(job) /\ Read(w, lost) \in Nat
    BY <1>1, <1>9 DEF rm!Accepted
  <2>2. oRM_readaddress' = At(job.src, Read(w, lost) + 1)
    BY <1>9, <2>1, NextAddress DEF rm!Accepted
  <2> QED BY <1>4, <1>9, <2>2 DEF rm!Accepted
<1>10. CASE rm!Waiting(rw) BY <1>3, <1>4, <1>10 DEF rm!Waiting, rm!masterVars
<1> QED BY <1>5, <1>6, <1>7, <1>8, <1>9, <1>10 DEF rm!Edge

(* The memory after an edge: only the place of word w may have changed; it *)
(* is inside the block, and the words before it have other addresses.      *)
LEMMA StoreStep ==
  ASSUME NEW w, NEW lost, During(w, lost), NEW ww \in {0, 1}, Store(ww)
  PROVE  /\ \/ mem' = mem
            \/ /\ oWM_write = 1 /\ w < Words(job)
               /\ mem' = [mem EXCEPT ![At(job.dst, w)] = oWM_writedata]
         /\ \A a \in Word : mem'[a] # NoData =>
              \E k \in 0 .. Words(job) - 1 : a = At(job.dst, k)
         /\ lost = 0 => \A k \in 0 .. w - 1 : mem'[At(job.dst, k)] = At(job.src, k)
         /\ lost = 0 /\ oWM_write = 1 /\ ww = 0 => mem'[At(job.dst, w)] = At(job.src, w)
<1> USE DuringTypes DEF During, Running, Positions, Ordered, Written, Read
<1>1. mem \in [Word -> Word \cup {NoData}]
  BY DEF LossyInv, DataInv, SysInv, TypeOK
<1>2. \A a \in Word : mem[a] # NoData =>
        \E k \in 0 .. Words(job) - 1 : a = At(job.dst, k)
  BY DEF LossyInv, DataInv, StaysInBlock
<1>3. CASE mem' = mem /\ ~(oWM_write = 1 /\ ww = 0)
  BY <1>2, <1>3
<1>4. CASE /\ oWM_write = 1
           /\ mem' = [mem EXCEPT ![At(job.dst, w)] = oWM_writedata]
  <2>1. w \in Nat /\ 4 * w < M /\ w < Words(job) /\ w \in 0 .. Words(job) - 1
    BY <1>4
  <2>2. At(job.dst, w) \in Word
    BY <2>1, AddressIs
  <2>3. lost = 0 => oWM_writedata = At(job.src, w)
    BY <1>4
  <2>4. ASSUME lost = 0, NEW k \in 0 .. w - 1
        PROVE  mem'[At(job.dst, k)] = At(job.src, k)
    <3>1. k \in Nat /\ 4 * k < M /\ k # w
      BY <2>1
    <3>2. At(job.dst, k) # At(job.dst, w)
      BY <2>1, <3>1, AddressInjective
    <3> QED BY <1>1, <1>4, <2>1, <2>4, <3>2
  <2>5. ASSUME NEW a \in Word, mem'[a] # NoData
        PROVE  \E k \in 0 .. Words(job) - 1 : a = At(job.dst, k)
    BY <1>1, <1>2, <1>4, <2>1, <2>5
  <2>6. lost = 0 => mem'[At(job.dst, w)] = At(job.src, w)
    BY <1>1, <1>4, <2>2, <2>3
  <2> QED BY <1>4, <2>1, <2>4, <2>5, <2>6
<1> QED BY <1>3, <1>4 DEF Store, WriteAccepted

(* Seen from the word write_master moves to, everything is as it was; the  *)
(* words that were dropped have been read and are lost.                    *)
LEMMA RunningStep ==
  ASSUME NEW w, NEW lost, During(w, lost),
         NEW bus \in CpuAccess, NEW rw \in {0, 1}, NEW ww \in {0, 1}, Tick(bus, rw, ww),
         NEW u, u = w + Left(ww), NEW lost1, lost1 = lost + Dropped
  PROVE  u \in 0 .. Words(job) /\ job' = job /\ Running(u, lost1)'
<1>1. job' = job /\ Words(job)' = Words(job)
  BY DEF Tick, Record, During
<1>2. /\ Left(ww) \in {0, 1} /\ Popped \in {0, 1} /\ Arrived(rw) \in {0, 1}
  BY DEF Left, Popped, Arrived
<1> DEFINE d == Left(ww)
           k == Popped
           r == Arrived(rw)
           L == fi!Level
           L1 == fi!Level'
           p == Pushed
           e == Dropped
<1>3. /\ d = 1 => oWM_write = 1 /\ ww = 0 /\ k = 0 /\ w < Words(job)
      /\ k = 1 => oWM_write = 0 /\ w < Words(job)
      /\ oWM_write' = oWM_write + k - d
      /\ oWM_writeaddress' = At(job.dst, w + d)
      /\ k = 1 => oWM_writedata' = fi!Contents[1]
      /\ k = 0 => oWM_writedata' = oWM_writedata
      /\ wm_state' # 0 => oWM_write' = 1
      /\ oWM_write' = 1 /\ wm_state' # 1 => w + 1 = Words(job) /\ d = 0
      /\ oWM_done' = 1 => \/ w + d = Words(job)
                          \/ oWM_write' = 1 /\ w + 1 = Words(job) /\ d = 0
  BY WriteStep DEF Tick, Edge
<1>4. /\ iRM_readdatavalid' = r
      /\ r = 1 => iRM_readdata' = At(job.src, Read(w, lost)) /\ Read(w, lost) < Words(job) /\ rm_state' = 0
      /\ oRM_readaddress' = At(job.src, Read(w, lost) + r)
      /\ oRM_read' = 1 <=> rm_state' = 2
      /\ rm_state' = 2 => Read(w, lost) + r < Words(job)
      /\ rm_state = 0 /\ L # HALF => rm_state' = 1 /\ r = 0
  BY ReadStep DEF Tick, Edge
<1>5. /\ L \in 0 .. HALF
      /\ L1 = L - k + p
      /\ \A i \in 1 .. L - k : fi!Contents'[i] = fi!Contents[i + k]
      /\ p = 1 => fi!Contents'[L1] = iRM_readdata
      /\ p \in {0, 1} /\ e \in {0, 1} /\ p + e = iRM_readdatavalid
      /\ e = 1 => L = HALF
      /\ iRM_readdatavalid = 1 => rm_state = 0
      /\ k = 1 <=> wm_state = 0 /\ L # 0
  <2>1. fi!Edge(wm!oFF_readrequest(fi!FF_empty),
                rm!oFF_writerequest(iRM_readdatavalid, fi!FF_almostfull), iRM_readdata)
    BY DEF Tick, Edge, rm!oFF_data
  <2>2. fi!TypeOK /\ fi!FlagsExact /\ iRM_readdata \in Word
    BY DuringTypes
  <2>3. /\ fi!Level \in 0 .. HALF
        /\ fi!Level' = fi!Level - Popped + Pushed
        /\ \A i \in 1 .. fi!Level - Popped : fi!Contents'[i] = fi!Contents[i + Popped]
        /\ Pushed = 1 => fi!Contents'[fi!Level'] = iRM_readdata
    BY <2>1, <2>2, FIFOEffect
  <2>4. Pushed + Dropped = iRM_readdatavalid
    BY DuringTypes, WordDropped DEF Dropped
  <2> QED BY <2>3, <2>4, WordDropped DEF Popped
<1>6. /\ HALF \in Nat \ {0} /\ M \in Nat
      /\ oWM_write \in {0, 1} /\ iRM_readdatavalid \in {0, 1}
      /\ Words(job) \in Nat /\ w \in 0 .. Words(job) /\ lost \in Nat
  BY DuringTypes
<1>7. /\ Positions(w, lost) /\ WriteSide(w) /\ ReadSide(w, lost)
      /\ lost = 0 => Ordered(w)
  BY DEF During, Running
<1>8. Read(w, lost) = w + oWM_write + L + iRM_readdatavalid + lost /\ Read(w, lost) \in 0 .. Words(job)
  BY <1>5, <1>6, <1>7 DEF Read, Positions
<1>9. lost = 0 => /\ \A i \in 0 .. w - 1 : mem'[At(job.dst, i)] = At(job.src, i)
                  /\ oWM_write = 1 /\ ww = 0 => mem'[At(job.dst, w)] = At(job.src, w)
  BY StoreStep DEF Tick
<1> HIDE DEF d, k, r, L, L1, p, e
<1>10. u = w + d /\ d \in {0, 1} /\ k \in {0, 1} /\ r \in {0, 1}
  BY <1>2 DEF d, k, r
<1>11. u \in 0 .. Words(job)
  BY <1>3, <1>6, <1>10
<1>12. u + oWM_write' = w + oWM_write + k /\ L1 \in Int
  BY <1>3, <1>5, <1>6, <1>10
<1>13. Read(u, lost1)' = Read(w, lost) + r
  <2>1. Read(u, lost1)' = u + oWM_write' + L1 + iRM_readdatavalid' + lost1 BY DEF Read, L1
  <2>2. lost1 = lost + e BY DEF e
  <2> QED BY <1>3, <1>4, <1>5, <1>6, <1>8, <1>10, <2>1, <2>2
<1>14. Positions(u, lost1)'
  <2>1. Read(w, lost) + r <= Words(job) BY <1>4, <1>6, <1>8, <1>10
  <2> QED BY <1>1, <1>3, <1>4, <1>10, <1>13, <2>1 DEF Positions, At
<1>15. lost1 = 0 => Ordered(u)'
  <2> SUFFICES ASSUME lost1 = 0 PROVE Ordered(u)'
    OBVIOUS
  <2>0. lost = 0 /\ e = 0 /\ p = iRM_readdatavalid /\ Ordered(w)
    <3>1. lost1 = lost + e BY DEF e
    <3> QED BY <1>5, <1>6, <1>7, <3>1
  <2>1. ASSUME oWM_write' = 1 PROVE oWM_writedata' = At(job.src, u)
    <3>1. CASE k = 1
      <4>1. d = 0 /\ oWM_write = 0 /\ 1 \in 1 .. L /\ u = w
        BY <1>3, <1>5, <1>6, <1>10, <3>1
      <4>2. fi!Contents[1] = At(job.src, w + 0 + 1 - 1)
        BY <2>0, <4>1 DEF Ordered, L
      <4>3. w + 0 + 1 - 1 = u BY <1>6, <4>1
      <4> QED BY <1>3, <3>1, <4>2, <4>3
    <3>2. CASE k = 0
      <4>1. oWM_write = 1 /\ u = w BY <1>3, <1>6, <1>10, <2>1, <3>2
      <4> QED BY <1>3, <2>0, <3>2, <4>1 DEF Ordered
    <3> QED BY <1>10, <3>1, <3>2
  <2>2. ASSUME NEW i \in 1 .. L1
        PROVE  fi!Contents'[i] = At(job.src, u + oWM_write' + i - 1)
    <3>1. CASE i \in 1 .. L - k
      <4>1. i + k \in 1 .. L BY <1>5, <1>10, <3>1
      <4>2. fi!Contents[i + k] = At(job.src, w + oWM_write + (i + k) - 1)
        BY <2>0, <4>1 DEF Ordered, L
      <4>3. w + oWM_write + (i + k) - 1 = u + oWM_write' + i - 1
        BY <1>6, <1>10, <1>12
      <4> QED BY <1>5, <3>1, <4>2, <4>3
    <3>2. CASE i = L1 /\ iRM_readdatavalid = 1
      <4>1. iRM_readdata = At(job.src, w + oWM_write + L)
        BY <2>0, <3>2 DEF Ordered, L
      <4>2. w + oWM_write + L = u + oWM_write' + i - 1
        BY <1>5, <1>6, <1>10, <1>12, <2>0, <3>2
      <4> QED BY <1>5, <2>0, <3>2, <4>1, <4>2
    <3> QED BY <1>5, <1>6, <1>10, <2>0, <3>1, <3>2
  <2>3. ASSUME r = 1
        PROVE  iRM_readdata' = At(job.src, u + oWM_write' + L1)
    <3>1. Read(w, lost) = u + oWM_write' + L1 BY <1>5, <1>6, <1>8, <1>10, <1>12, <2>0
    <3> QED BY <1>4, <2>3, <3>1
  <2> QED BY <1>1, <1>4, <2>1, <2>2, <2>3 DEF Ordered, At, L1
<1>16. WriteSide(u)'
  BY <1>1, <1>3, <1>6, <1>10 DEF WriteSide
<1>17. ReadSide(u, lost1)'
  <2>1. ASSUME u + oWM_write' = 0
        PROVE  \/ L1 = 0
               \/ L1 = 1 /\ r = 0 /\ rm_state' = 1
    <3>1. w + oWM_write = 0 /\ k = 0 BY <1>6, <1>10, <1>12, <2>1
    <3>2. wm_state = 0 BY <1>6, <1>7, <3>1 DEF WriteSide
    <3>3. L = 0 BY <1>5, <3>1, <3>2
    <3> QED BY <1>4, <1>5, <1>6, <3>1, <3>3
  <2> QED BY <1>1, <1>4, <1>13, <2>1 DEF ReadSide, L1
<1>18. lost1 = 0 => Written(u)'
  <2> SUFFICES ASSUME lost1 = 0 PROVE Written(u)'
    OBVIOUS
  <2>1. lost = 0
    <3>1. lost1 = lost + e BY DEF e
    <3> QED BY <1>5, <1>6, <3>1
  <2>2. ASSUME NEW i \in 0 .. u - 1 PROVE mem'[At(job.dst, i)] = At(job.src, i)
    <3>1. i \in 0 .. w - 1 \/ (d = 1 /\ i = w) BY <1>6, <1>10
    <3> QED BY <1>3, <1>9, <2>1, <3>1
  <2> QED BY <1>1, <2>2 DEF Written, At
<1> QED BY <1>1, <1>11, <1>14, <1>15, <1>16, <1>17, <1>18 DEF Running

-----------------------------------------------------------------------------
(* Before a transfer, and the edge on which it starts.                     *)

\* What holds of the system when no transfer was started, oStart or not.
LEMMA QuietStep ==
  ASSUME LossyInv, job = NoJob, NEW bus \in CpuAccess, NEW rw \in {0, 1}, NEW ww \in {0, 1},
         Tick(bus, rw, ww)
  PROVE  /\ rm_state' # 2 /\ oRM_read' = 0 /\ iRM_readdatavalid' = 0
         /\ wm_state' = 0 /\ oWM_write' = 0 /\ oWM_done' = 0
         /\ fi!Level' = 0 /\ mem' = mem
         /\ oStart = 0 => oRM_readaddress' = RM_lastwriteaddress'
         /\ oStart = 1 => /\ oRM_readaddress' = oRM_startaddress
                         /\ oWM_writeaddress' = oWM_startaddress
<1> USE DEF Tick, Edge, LossyInv, DataInv, Quiet
<1>1. fi!TypeOK /\ fi!FlagsExact /\ iRM_readdata \in Word /\ HALF \in Nat \ {0}
  BY SystemAssumption DEF SysInv, TypeOK
<1>2. fi!FF_empty /\ ~fi!FF_almostfull
  BY <1>1 DEF fi!FlagsExact
<1>3. fi!Level' = 0
  <2>1. fi!Edge(wm!oFF_readrequest(fi!FF_empty),
                rm!oFF_writerequest(iRM_readdatavalid, fi!FF_almostfull), iRM_readdata)
    BY DEF rm!oFF_data
  <2>2. fi!Level' = fi!Level - Popped + Pushed BY <1>1, <2>1, FIFOEffect
  <2> QED BY <2>2 DEF Popped, Pushed
<1>4. iRM_readdatavalid' = 0 /\ mem' = mem
  BY DEF Answer, ReadAccepted, Store, WriteAccepted
<1>5. /\ wm_state' = 0 /\ oWM_write' = 0 /\ oWM_done' = 0
      /\ oStart = 1 => oWM_writeaddress' = oWM_startaddress
  BY <1>2 DEF wm!Edge, wm!Load, wm!Idle, wm!Take, wm!Written, wm!Stalled, wm!Return,
              wm!masterVars
<1>6. /\ rm_state' # 2 /\ oRM_read' = 0
      /\ oStart = 0 => oRM_readaddress' = RM_lastwriteaddress'
      /\ oStart = 1 => oRM_readaddress' = oRM_startaddress
  <2>1. oStart = 1 => oStart # 0
    OBVIOUS
  <2>2. CASE oStart = 1 /\ rm!Load(oLength, oRM_startaddress)
    BY <2>1, <2>2 DEF rm!Load
  <2>3. CASE oStart = 0 /\ (rm!Begin(fi!FF_almostfull) \/ rm!Hold(fi!FF_almostfull))
    BY <2>3 DEF rm!Begin, rm!Hold, rm!masterVars
  <2>4. CASE oStart = 0 /\ rm!Finish BY <2>4 DEF rm!Finish
  <2>5. CASE oStart = 0 /\ rm!Request BY <2>5 DEF rm!Request
  <2>6. CASE oStart = 0 /\ (rm!Accepted(rw) \/ rm!Waiting(rw))
    BY <2>6 DEF rm!Accepted, rm!Waiting
  <2> QED BY <2>2, <2>3, <2>4, <2>5, <2>6 DEF rm!Edge
<1> QED BY <1>3, <1>4, <1>5, <1>6

(* The start pulse loads the masters with the programmed block.            *)
LEMMA StartStep ==
  ASSUME LossyInv, job = NoJob, oStart = 1, NEW Losses \in SUBSET Nat, 0 \in Losses,
         NEW bus \in CpuAccess, NEW rw \in {0, 1}, NEW ww \in {0, 1}, Tick(bus, rw, ww)
  PROVE  job' \in Job /\ Transfer(Losses)' /\ StaysInBlock'
<1>1. job' = [src |-> oRM_startaddress, dst |-> oWM_startaddress, length |-> oLength]
  BY DEF Tick, Record
<1>2. /\ oRM_startaddress \in Word /\ oWM_startaddress \in Word /\ oLength \in Word
      /\ Whole(oLength)
  BY DEF LossyInv, DataInv, SysInv, TypeOK, control!ControlTypeOK, control!Word, Word
<1>3. job' \in Job /\ Whole(job'.length)
  BY <1>1, <1>2 DEF Job
<1>4. /\ RM_lastwriteaddress' = (job'.src + job'.length) % M
      /\ WM_lastwriteaddress' = (job'.dst + job'.length) % M
  BY <1>1 DEF Tick, Edge, rm!Edge, rm!Load, wm!Edge, wm!Load
<1>5. Words(job)' \in Nat
  BY <1>3, BlockIs DEF Words
<1>6. At(oRM_startaddress, 0) = oRM_startaddress /\ At(oWM_startaddress, 0) = oWM_startaddress
  <2>1. 0 \in Nat /\ 4 * 0 < M BY SystemAssumption
  <2> QED BY <1>2, <2>1, AddressIs, SystemAssumption DEF Word
<1>7. /\ rm_state' # 2 /\ oRM_read' = 0 /\ iRM_readdatavalid' = 0
      /\ wm_state' = 0 /\ oWM_write' = 0 /\ oWM_done' = 0 /\ fi!Level' = 0
      /\ oRM_readaddress' = oRM_startaddress /\ oWM_writeaddress' = oWM_startaddress
  BY QuietStep
<1>8. Read(0, 0)' = 0
  BY <1>7 DEF Read
<1>9. Positions(0, 0)'
  BY <1>1, <1>5, <1>6, <1>7, <1>8, SystemAssumption DEF Positions, At
<1>10. Ordered(0)' BY <1>7 DEF Ordered
<1>11. WriteSide(0)' BY <1>7 DEF WriteSide
<1>12. ReadSide(0, 0)' BY <1>7 DEF ReadSide
<1>13. Written(0)' BY DEF Written
<1>14. Running(0, 0)' BY <1>9, <1>10, <1>11, <1>12, <1>13 DEF Running
<1>15. 0 \in 0 .. Words(job)' BY <1>5
<1>16. StaysInBlock'
  <2>1. mem' = [a \in Word |-> NoData] BY QuietStep DEF LossyInv, DataInv, Quiet
  <2> QED BY <2>1 DEF StaysInBlock
<1> QED BY <1>3, <1>4, <1>14, <1>15, <1>16 DEF Transfer

(* Only the lengths the software programs reach the register.              *)
LEMMA LengthStep ==
  ASSUME NEW bus \in CpuAccess, control!Registers(bus)
  PROVE  (oLength' = oLength) \/ (bus \in LengthAccess /\ oLength' = bus.writedata)
BY DEF LengthAccess, control!Registers, control!ClearControl, control!WriteRegister,
       control!ReadStatus, control!NoAccess, control!registerVars, control!configVars

-----------------------------------------------------------------------------
LEMMA InitData == SysInit => OrderedInv
<1> SUFFICES ASSUME SysInit PROVE OrderedInv
  OBVIOUS
<1>1. SysInv BY InitInv
<1>2. 0 % 4 = 0 OBVIOUS
<1>3. Whole(oLength)
  BY <1>2 DEF SysInit, Init, control!ControlInit, Whole
<1>4. fi!Level = 0
  <2>1. pos_read = 0 /\ pos_write = 0 BY DEF SysInit, Init, fi!Init
  <2> QED BY <2>1, SystemAssumption DEF fi!Level, fi!Depth
<1>5. Quiet
  BY <1>4 DEF SysInit, Init, wm!Init, rm!Init, Quiet
<1> QED BY <1>1, <1>3, <1>5 DEF OrderedInv, DataInv, SysInit

LEMMA ResetData ==
  ASSUME NEW Losses, DataInv(Losses), SysReset
  PROVE  DataInv(Losses)'
<1>1. SysInv' BY ResetInv DEF DataInv
<1>2. 0 % 4 = 0 OBVIOUS
<1>3. Whole(oLength)'
  BY <1>2 DEF SysReset, Reset, control!ControlReset, Whole
<1>4. fi!Level' = 0
  <2>1. pos_read' = 0 /\ pos_write' = 0 BY DEF SysReset, Reset, fi!Reset
  <2> QED BY <2>1, SystemAssumption DEF fi!Level, fi!Depth
<1>5. Quiet' /\ job' = NoJob
  BY <1>4 DEF SysReset, Reset, wm!Reset, rm!Reset, Quiet
<1> QED BY <1>1, <1>3, <1>5 DEF DataInv

(* No loss is one of any number of losses.                                 *)
LEMMA Weaken ==
  ASSUME NEW Losses \in SUBSET Nat, DataInv(Losses)
  PROVE  LossyInv
<1>1. Transfer(Losses) => Transfer(Nat) BY DEF Transfer
<1> QED BY <1>1 DEF LossyInv, DataInv

(* A transfer under way has its start pulse behind it.                     *)
LEMMA AfterStart ==
  ASSUME LossyInv, job # NoJob
  PROVE  oStart = 0
BY DEF LossyInv, DataInv, SysInv, StartedOnce, control!StatusTellsState, TypeOK, control!ControlTypeOK

LEMMA SomewhereInBlock ==
  ASSUME NEW Losses \in SUBSET Nat, DataInv(Losses), job # NoJob
  PROVE  \E w \in 0 .. Words(job), lost \in Losses : During(w, lost)
<1>1. LossyInv BY Weaken
<1>2. PICK w \in 0 .. Words(job), lost \in Losses : Running(w, lost)
  BY DEF DataInv, Transfer
<1> QED BY <1>1, <1>2, AfterStart DEF During

(* A transfer that runs goes on, with the word that comes next; the words  *)
(* dropped on the way are one more loss.                                   *)
LEMMA TransferStep ==
  ASSUME NEW Losses \in SUBSET Nat, DataInv(Losses), job # NoJob,
         \A lost \in Losses : lost + Dropped \in Losses,
         NEW bus \in CpuAccess, NEW rw \in {0, 1}, NEW ww \in {0, 1}, Tick(bus, rw, ww)
  PROVE  job' = job /\ Transfer(Losses)' /\ StaysInBlock'
<1>1. PICK w \in 0 .. Words(job), lost \in Losses : During(w, lost)
  BY SomewhereInBlock
<1>2. oStart = 0 BY <1>1 DEF During
<1>3. PICK u, lost1 : u = w + Left(ww) /\ lost1 = lost + Dropped
  OBVIOUS
<1>4. u \in 0 .. Words(job) /\ job' = job /\ Running(u, lost1)'
  BY <1>1, <1>3, RunningStep
<1>5. lost1 \in Losses BY <1>3
<1>6. UNCHANGED <<RM_lastwriteaddress, WM_lastwriteaddress>>
  BY <1>2 DEF Tick, Edge, rm!Edge, rm!Begin, rm!Hold, rm!Finish, rm!Request, rm!Accepted,
              rm!Waiting, rm!masterVars, wm!Edge, wm!Idle, wm!Take, wm!Written, wm!Stalled,
              wm!Return, wm!masterVars
<1>7. Words(job)' = Words(job)
  BY <1>4
<1>8. StaysInBlock'
  <2>1. \A a \in Word : mem'[a] # NoData => \E k \in 0 .. Words(job) - 1 : a = At(job.dst, k)
    BY <1>1, StoreStep DEF Tick
  <2> QED BY <1>4, <1>7, <2>1 DEF StaysInBlock, At
<1>9. Transfer(Losses)'
  BY <1>4, <1>5, <1>6, <1>7 DEF DataInv, Transfer, Whole
<1> QED BY <1>4, <1>8, <1>9

LEMMA TickData ==
  ASSUME OnlyWholeBlocks, NEW Losses \in SUBSET Nat, 0 \in Losses, DataInv(Losses),
         \A lost \in Losses : lost + Dropped \in Losses,
         NEW bus \in CpuAccess, NEW rw \in {0, 1}, NEW ww \in {0, 1}, Tick(bus, rw, ww)
  PROVE  DataInv(Losses)'
<1>0. LossyInv BY Weaken
<1>1. SysInv'
  BY TickInv DEF DataInv
<1>2. Whole(oLength)'
  <2>1. Whole(oLength')
    BY LengthStep DEF OnlyWholeBlocks, DataInv, Tick, Edge, control!ControlEdge
  <2> QED BY <2>1 DEF Whole
<1>3. CASE job # NoJob
  <2>1. job' = job /\ Transfer(Losses)' /\ StaysInBlock' BY <1>3, TransferStep
  <2> QED BY <1>1, <1>2, <1>3, <2>1 DEF DataInv
<1>4. CASE job = NoJob /\ oStart = 1
  <2>1. job' \in Job /\ Transfer(Losses)' /\ StaysInBlock' BY <1>0, <1>4, StartStep
  <2> QED BY <1>1, <1>2, <2>1, SystemAssumption DEF DataInv
<1>5. CASE job = NoJob /\ oStart = 0
  <2>1. job' = NoJob BY <1>5 DEF Tick, Record
  <2>2. Quiet' BY <1>0, <1>5, QuietStep DEF Quiet, DataInv
  <2> QED BY <1>1, <1>2, <2>1, <2>2 DEF DataInv
<1>6. oStart \in {0, 1}
  BY DEF DataInv, SysInv, TypeOK, control!ControlTypeOK
<1> QED BY <1>3, <1>4, <1>5, <1>6

LEMMA StutterData ==
  ASSUME NEW Losses, DataInv(Losses), UNCHANGED vars
  PROVE  DataInv(Losses)'
<1>1. SysInv' BY StutterInv DEF DataInv
<1> USE DEF vars, dmaVars, controlVars, wmVars, rmVars, fiVars, fabricVars
<1>2. fi!Level' = fi!Level /\ fi!Contents' = fi!Contents
  BY DEF fi!Level, fi!Contents
<1>3. (job = NoJob => Quiet) => (job' = NoJob => Quiet')
  BY <1>2 DEF Quiet
<1>4. Transfer(Losses) => Transfer(Losses)'
  <2>1. \A w, lost : Running(w, lost) => Running(w, lost)'
    BY <1>2 DEF Running, Positions, Ordered, WriteSide, ReadSide, Written, Read
  <2> QED BY <2>1 DEF Transfer, Whole
<1>5. StaysInBlock => StaysInBlock' BY DEF StaysInBlock
<1> QED BY <1>1, <1>3, <1>4, <1>5 DEF DataInv, Whole

(* The types of what a dropped word is told by.                            *)
LEMMA DroppedIs ==
  ASSUME LossyInv
  PROVE  /\ Dropped \in {0, 1}
         /\ NoWordDropped => Dropped = 0
<1>1. CASE job = NoJob
  BY <1>1 DEF LossyInv, DataInv, Quiet, Dropped, Pushed
<1>2. CASE job # NoJob
  <2>1. PICK w, lost : During(w, lost) BY <1>2, SomewhereInBlock DEF LossyInv
  <2> QED BY <2>1, WordDropped
<1> QED BY <1>1, <1>2

(* Whatever is lost, the masters stay at places of the block; as long as   *)
(* nothing is, everything is in order.                                     *)
LEMMA NextData ==
  ASSUME OnlyWholeBlocks, NEW Losses \in {Nat, {0}}, DataInv(Losses),
         Losses = {0} => NoWordDropped, [SysNext]_vars
  PROVE  DataInv(Losses)'
<1>1. Losses \in SUBSET Nat /\ 0 \in Losses
  OBVIOUS
<1>2. \A lost \in Losses : lost + Dropped \in Losses
  <2>1. Dropped \in {0, 1} /\ (NoWordDropped => Dropped = 0) BY <1>1, Weaken, DroppedIs
  <2>2. CASE Losses = Nat BY <2>1, <2>2
  <2>3. CASE Losses = {0} BY <2>1, <2>3
  <2> QED BY <2>2, <2>3
<1>3. CASE SomeTick({0, 1}) BY <1>1, <1>2, <1>3, TickData DEF SomeTick
<1>4. CASE SysReset BY <1>4, ResetData
<1>5. CASE UNCHANGED vars BY <1>5, StutterData
<1> QED BY <1>3, <1>4, <1>5 DEF SysNext

LEMMA LossyAlways == OnlyWholeBlocks => (SysSpec => []LossyInv)
<1> SUFFICES ASSUME OnlyWholeBlocks PROVE SysSpec => []LossyInv
  OBVIOUS
<1>1. SysInit => LossyInv
  <2>1. OrderedInv => LossyInv BY Weaken DEF OrderedInv
  <2> QED BY <2>1, InitData
<1>2. LossyInv /\ [SysNext]_vars => LossyInv'
  <2> SUFFICES ASSUME LossyInv, [SysNext]_vars PROVE LossyInv'
    OBVIOUS
  <2>1. Nat # {0} BY 1 \in Nat
  <2>2. DataInv(Nat)' BY <2>1, NextData DEF LossyInv
  <2> QED BY <2>2 DEF LossyInv
<1> QED BY <1>1, <1>2, PTL DEF SysSpec

LEMMA OrderedAlways == OnlyWholeBlocks => (SysSpec /\ []NoWordDropped => []OrderedInv)
<1> SUFFICES ASSUME OnlyWholeBlocks PROVE SysSpec /\ []NoWordDropped => []OrderedInv
  OBVIOUS
<1>1. OrderedInv /\ NoWordDropped /\ [SysNext]_vars => OrderedInv'
  <2> SUFFICES ASSUME OrderedInv, NoWordDropped, [SysNext]_vars PROVE OrderedInv'
    OBVIOUS
  <2>1. DataInv({0})' BY NextData DEF OrderedInv
  <2> QED BY <2>1 DEF OrderedInv
<1> QED BY <1>1, InitData, PTL DEF SysSpec

(* Nothing is written outside the destination block, whatever its length, *)
(* the pace of the memories and the words that get lost (write_master.v    *)
(* has no bound of its own: it writes what the FIFO gives it).             *)
THEOREM StaysInBlockCorrect == OnlyWholeBlocks => (SysSpec => []StaysInBlock)
<1>1. LossyInv => StaysInBlock
  <2>1. Quiet => StaysInBlock BY DEF Quiet, StaysInBlock
  <2> QED BY <2>1 DEF LossyInv, DataInv
<1> QED BY <1>1, LossyAlways, PTL

-----------------------------------------------------------------------------
(* Short blocks.                                                           *)

ShortInv == Short(oLength) /\ (job # NoJob => Short(job.length))

LEMMA NextShort == OnlyShortBlocks /\ ShortInv /\ [SysNext]_vars => ShortInv'
<1> SUFFICES ASSUME OnlyShortBlocks, ShortInv, [SysNext]_vars PROVE ShortInv'
  OBVIOUS
<1>1. CASE SomeTick({0, 1})
  <2>1. PICK bus \in CpuAccess, rw \in {0, 1}, ww \in {0, 1} : Tick(bus, rw, ww)
    BY <1>1 DEF SomeTick
  <2>2. Short(oLength')
    BY <2>1, LengthStep DEF OnlyShortBlocks, ShortInv, Tick, Edge, control!ControlEdge
  <2>3. job' # NoJob => Short(job'.length)
    BY <2>1 DEF ShortInv, Tick, Record
  <2> QED BY <2>2, <2>3 DEF ShortInv, Short
<1>2. CASE SysReset
  <2>1. oLength' = 0 /\ job' = NoJob /\ HALF \in Nat
    BY <1>2, SystemAssumption DEF SysReset, Reset, control!ControlReset
  <2> QED BY <2>1 DEF ShortInv, Short
<1>3. CASE UNCHANGED vars
  BY <1>3 DEF ShortInv, Short, vars, dmaVars, controlVars
<1> QED BY <1>1, <1>2, <1>3 DEF SysNext

(* Of a block of up to HALF + 1 words every word that arrives is taken by  *)
(* the FIFO in the cycle in which it arrives (read_master.v line 12).      *)
THEOREM NoWordDroppedCorrect == OnlyShortBlocks => (SysSpec => []NoWordDropped)
<1> SUFFICES ASSUME OnlyShortBlocks PROVE SysSpec => []NoWordDropped
  OBVIOUS
<1>1. LossyInv /\ ShortInv => NoWordDropped
  <2> SUFFICES ASSUME LossyInv, ShortInv, iRM_readdatavalid = 1 PROVE NoWordDropped
    BY DEF NoWordDropped
  <2>1. job # NoJob BY DEF LossyInv, DataInv, Quiet
  <2>2. PICK w, lost : During(w, lost) BY <2>1, SomewhereInBlock DEF LossyInv
  <2>3. /\ Words(job) \in Nat /\ HALF \in Nat /\ 4 * Words(job) = job.length
        /\ job.length <= 4 * (HALF + 1)
    BY <2>1, <2>2, DuringTypes DEF ShortInv, Short
  <2>4. Words(job) <= HALF + 1 BY <2>3
  <2> QED BY <2>2, <2>3, <2>4, WordDropped
<1>2. SysInit => ShortInv
  <2>1. SysInit => oLength = 0 /\ job = NoJob /\ HALF \in Nat
    BY SystemAssumption DEF SysInit, Init, control!ControlInit
  <2> QED BY <2>1 DEF ShortInv, Short
<1>3. ShortInv /\ [SysNext]_vars => ShortInv' BY NextShort
<1>4. SysSpec => []LossyInv BY LossyAlways DEF OnlyShortBlocks, OnlyWholeBlocks
<1> QED BY <1>1, <1>2, <1>3, <1>4, PTL DEF SysSpec

-----------------------------------------------------------------------------
(* The order of the words.                                                 *)

(* A concatenation of three sequences, word by word.                       *)
LEMMA ThreeParts ==
  ASSUME NEW r \in Seq(Word), NEW s \in Seq(Word), NEW t \in Seq(Word), NEW all,
         all = r \o s \o t
  PROVE  /\ Len(all) = Len(r) + Len(s) + Len(t)
         /\ \A i \in 1 .. Len(all) :
              \/ i \in 1 .. Len(r) /\ all[i] = r[i]
              \/ i - Len(r) \in 1 .. Len(s) /\ all[i] = s[i - Len(r)]
              \/ i - Len(r) - Len(s) \in 1 .. Len(t) /\ all[i] = t[i - Len(r) - Len(s)]
<1>1. Len(r) \in Nat /\ Len(s) \in Nat /\ Len(t) \in Nat
  BY LenProperties
<1>2. PICK u : u = r \o s
  OBVIOUS
<1>3. /\ u \in Seq(Word) /\ Len(u) = Len(r) + Len(s)
      /\ \A i \in 1 .. Len(r) + Len(s) : u[i] = IF i <= Len(r) THEN r[i] ELSE s[i - Len(r)]
  BY <1>2, ConcatProperties
<1>4. /\ Len(all) = Len(u) + Len(t)
      /\ \A i \in 1 .. Len(u) + Len(t) : all[i] = IF i <= Len(u) THEN u[i] ELSE t[i - Len(u)]
  BY <1>2, <1>3, ConcatProperties
<1>5. Len(all) = Len(r) + Len(s) + Len(t)
  BY <1>1, <1>3, <1>4
<1>6. ASSUME NEW i \in 1 .. Len(all)
      PROVE  \/ i \in 1 .. Len(r) /\ all[i] = r[i]
             \/ i - Len(r) \in 1 .. Len(s) /\ all[i] = s[i - Len(r)]
             \/ i - Len(r) - Len(s) \in 1 .. Len(t) /\ all[i] = t[i - Len(r) - Len(s)]
  <2>1. CASE i <= Len(u) BY <1>1, <1>3, <1>4, <2>1
  <2>2. CASE i > Len(u)
    <3>1. all[i] = t[i - Len(u)] BY <1>1, <1>3, <1>4, <2>2
    <3>2. i - Len(u) = i - Len(r) - Len(s) BY <1>1, <1>3
    <3> QED BY <1>1, <1>3, <1>5, <2>2, <3>1, <3>2
  <2> QED BY <1>1, <1>3, <2>1, <2>2
<1> QED BY <1>5, <1>6

(* What is under way, counted and looked at word by word.                  *)
LEMMA UnderWayIs ==
  ASSUME NEW w, During(w, 0)
  PROVE  /\ w + Len(UnderWay) = Read(w, 0)
         /\ \A i \in 1 .. Len(UnderWay) : UnderWay[i] = At(job.src, w + i - 1)
<1>1. PICK out : out = IF oWM_write = 1 THEN <<oWM_writedata>> ELSE << >>
  OBVIOUS
<1>2. PICK arriving : arriving = IF iRM_readdatavalid = 1 THEN <<iRM_readdata>> ELSE << >>
  OBVIOUS
<1>3. PICK queued : queued = fi!Contents
  OBVIOUS
<1>4. /\ oWM_write \in {0, 1} /\ iRM_readdatavalid \in {0, 1} /\ fi!Level \in Nat
      /\ w \in Nat /\ HALF \in Nat
  BY DuringTypes
<1>5. out \in Seq(Word) /\ Len(out) = oWM_write /\ (oWM_write = 1 => out[1] = oWM_writedata)
  <2>1. oWM_writedata \in Word
    BY DEF During, LossyInv, DataInv, SysInv, TypeOK, wm!TypeOK, Word
  <2> QED BY <1>1, <1>4, <2>1
<1>6. /\ arriving \in Seq(Word) /\ Len(arriving) = iRM_readdatavalid
      /\ iRM_readdatavalid = 1 => arriving[1] = iRM_readdata
  BY <1>2, DuringTypes
<1>7. queued \in Seq(Word) /\ Len(queued) = fi!Level
  BY <1>3, DuringTypes, SameFIFO, fp!ContentsSeq, SystemAssumption DEF fp!FIFOAssumption
<1>8. UnderWay = out \o queued \o arriving
  BY <1>1, <1>2, <1>3 DEF UnderWay
<1>9. /\ Len(UnderWay) = oWM_write + fi!Level + iRM_readdatavalid
      /\ \A i \in 1 .. Len(UnderWay) :
           \/ i \in 1 .. oWM_write /\ UnderWay[i] = out[i]
           \/ i - oWM_write \in 1 .. fi!Level /\ UnderWay[i] = queued[i - oWM_write]
           \/ /\ i - oWM_write - fi!Level \in 1 .. iRM_readdatavalid
              /\ UnderWay[i] = arriving[i - oWM_write - fi!Level]
  <2>1. /\ Len(UnderWay) = Len(out) + Len(queued) + Len(arriving)
        /\ \A i \in 1 .. Len(UnderWay) :
             \/ i \in 1 .. Len(out) /\ UnderWay[i] = out[i]
             \/ i - Len(out) \in 1 .. Len(queued) /\ UnderWay[i] = queued[i - Len(out)]
             \/ /\ i - Len(out) - Len(queued) \in 1 .. Len(arriving)
                /\ UnderWay[i] = arriving[i - Len(out) - Len(queued)]
    <3>1. PICK all : all = UnderWay
      OBVIOUS
    <3>2. out \in Seq(Word) /\ queued \in Seq(Word) /\ arriving \in Seq(Word)
      BY <1>5, <1>6, <1>7
    <3> QED BY <1>8, <3>1, <3>2, ThreeParts
  <2>2. Len(out) = oWM_write /\ Len(queued) = fi!Level /\ Len(arriving) = iRM_readdatavalid
    BY <1>5, <1>6, <1>7
  <2> QED BY <2>1, <2>2
<1>10. /\ oWM_write = 1 => oWM_writedata = At(job.src, w)
       /\ \A i \in 1 .. fi!Level : queued[i] = At(job.src, w + oWM_write + i - 1)
       /\ iRM_readdatavalid = 1 => iRM_readdata = At(job.src, w + oWM_write + fi!Level)
  BY <1>3 DEF During, Running, Ordered
<1>11. ASSUME NEW i \in 1 .. Len(UnderWay)
       PROVE  UnderWay[i] = At(job.src, w + i - 1)
  <2>1. CASE i \in 1 .. oWM_write /\ UnderWay[i] = out[i]
    <3>1. i = 1 /\ oWM_write = 1 /\ w + i - 1 = w BY <1>4, <2>1
    <3> QED BY <1>5, <1>10, <2>1, <3>1
  <2>2. CASE i - oWM_write \in 1 .. fi!Level /\ UnderWay[i] = queued[i - oWM_write]
    <3>1. queued[i - oWM_write] = At(job.src, w + oWM_write + (i - oWM_write) - 1)
      BY <1>10, <2>2
    <3>2. w + oWM_write + (i - oWM_write) - 1 = w + i - 1 BY <1>4
    <3> QED BY <2>2, <3>1, <3>2
  <2>3. CASE /\ i - oWM_write - fi!Level \in 1 .. iRM_readdatavalid
             /\ UnderWay[i] = arriving[i - oWM_write - fi!Level]
    <3>1. /\ i - oWM_write - fi!Level = 1 /\ iRM_readdatavalid = 1
          /\ w + oWM_write + fi!Level = w + i - 1
      BY <1>4, <2>3
    <3> QED BY <1>6, <1>10, <2>3, <3>1
  <2> QED BY <1>9, <2>1, <2>2, <2>3
<1>12. w + Len(UnderWay) = Read(w, 0)
  BY <1>4, <1>9 DEF Read
<1> QED BY <1>11, <1>12

(* If no word is ever dropped the words under way are exactly those        *)
(* between the positions of the two masters, in order: word i goes to      *)
(* place i, whatever the length of the block.                              *)
THEOREM OrderedUnlessDropped ==
  OnlyWholeBlocks => (SysSpec /\ []NoWordDropped => []WordsInOrder)
<1>1. OrderedInv => WordsInOrder
  <2> SUFFICES ASSUME OrderedInv, job # NoJob PROVE WordsInOrder
    BY DEF WordsInOrder
  <2>1. PICK w \in 0 .. Words(job) : During(w, 0) BY SomewhereInBlock DEF OrderedInv
  <2>2. Positions(w, 0) BY <2>1 DEF During, Running
  <2>3. /\ w + Len(UnderWay) = Read(w, 0)
        /\ \A i \in 1 .. Len(UnderWay) : UnderWay[i] = At(job.src, w + i - 1)
    BY <2>1, UnderWayIs
  <2> QED BY <2>1, <2>2, <2>3 DEF WordsInOrder, Positions
<1> QED BY <1>1, OrderedAlways, PTL

(* Of up to HALF + 1 words none is dropped, and so all are in order.       *)
THEOREM WordsInOrderCorrect == OnlyShortBlocks => (SysSpec => []WordsInOrder)
<1> SUFFICES ASSUME OnlyShortBlocks PROVE SysSpec => []WordsInOrder
  OBVIOUS
<1>1. OnlyWholeBlocks BY DEF OnlyShortBlocks, OnlyWholeBlocks
<1>2. SysSpec => []NoWordDropped BY NoWordDroppedCorrect
<1>3. SysSpec /\ []NoWordDropped => []WordsInOrder BY <1>1, OrderedUnlessDropped
<1> QED BY <1>2, <1>3, PTL

-----------------------------------------------------------------------------
(* On every edge of a transfer an access that is not taken is kept up.     *)
LEMMA TickHolds ==
  ASSUME LossyInv, job # NoJob,
         NEW bus \in CpuAccess, NEW rw \in {0, 1}, NEW ww \in {0, 1}, Tick(bus, rw, ww)
  PROVE  /\ oRM_read = 1 => \/ iRM_readdatavalid' = 1 /\ iRM_readdata' = oRM_readaddress
                            \/ oRM_read' = 1 /\ oRM_readaddress' = oRM_readaddress
         /\ oWM_write = 1 => \/ mem'[oWM_writeaddress] = oWM_writedata
                             \/ oWM_write' = 1
                                /\ UNCHANGED <<oWM_writeaddress, oWM_writedata>>
<1>1. PICK w, lost : During(w, lost) BY SomewhereInBlock DEF LossyInv
<1>2. oStart = 0 BY <1>1 DEF During
<1>3. ASSUME oRM_read = 1, rw = 1
      PROVE  oRM_read' = 1 /\ oRM_readaddress' = oRM_readaddress
  <2>1. rm_state = 2 BY <1>1, <1>3 DEF During, Running, ReadSide
  <2> QED BY <1>2, <1>3, <2>1
          DEF Tick, Edge, rm!Edge, rm!Begin, rm!Hold, rm!Finish, rm!Request, rm!Accepted,
              rm!Waiting, rm!masterVars
<1>4. ASSUME oRM_read = 1, rw = 0
      PROVE  iRM_readdatavalid' = 1 /\ iRM_readdata' = oRM_readaddress
  BY <1>4 DEF Tick, Answer, ReadAccepted
<1>5. ASSUME oWM_write = 1, ww = 0
      PROVE  mem'[oWM_writeaddress] = oWM_writedata
  <2>1. mem \in [Word -> Word \cup {NoData}] /\ oWM_writeaddress \in Word
    BY DEF LossyInv, DataInv, SysInv, TypeOK, wm!TypeOK, Word
  <2> QED BY <1>5, <2>1 DEF Tick, Store, WriteAccepted
<1>6. ASSUME oWM_write = 1, ww = 1
      PROVE  oWM_write' = 1 /\ UNCHANGED <<oWM_writeaddress, oWM_writedata>>
  <2>1. wm_state = 1 \/ fi!Level = 0
    BY <1>1, <1>6, DuringTypes DEF During, Running, WriteSide, Positions, Read
  <2>2. wm_state = 0 => fi!FF_empty
    BY <1>1, <2>1, DuringTypes DEF fi!FlagsExact
  <2> QED BY <1>2, <1>6, <2>2
          DEF Tick, Edge, wm!Edge, wm!Idle, wm!Take, wm!Written, wm!Stalled, wm!Return,
              wm!masterVars
<1> QED BY <1>3, <1>4, <1>5, <1>6

(* A master that is asked to wait keeps its request, address and data up   *)
(* until the fabric takes them (read_master.v line 58, write_master.v line *)
(* 67), write_master also in the states in which it no longer looks; of a  *)
(* block of any length, as it leaves them only when no word can follow.    *)
THEOREM AccessHeldCorrect == OnlyWholeBlocks => (SysSpec => AccessHeld)
<1> SUFFICES ASSUME OnlyWholeBlocks PROVE SysSpec => AccessHeld
  OBVIOUS
<1> DEFINE Kept ==
        job # NoJob /\ job' # NoJob =>
          /\ oRM_read = 1 => \/ iRM_readdatavalid' = 1 /\ iRM_readdata' = oRM_readaddress
                             \/ oRM_read' = 1 /\ oRM_readaddress' = oRM_readaddress
          /\ oWM_write = 1 => \/ mem'[oWM_writeaddress] = oWM_writedata
                              \/ oWM_write' = 1
                                 /\ UNCHANGED <<oWM_writeaddress, oWM_writedata>>
<1>1. LossyInv /\ SysReset => Kept BY DEF SysReset
<1>2. LossyInv /\ SomeTick({0, 1}) => Kept BY TickHolds DEF SomeTick
<1>3. LossyInv /\ [SysNext]_vars => [Kept]_vars BY <1>1, <1>2 DEF SysNext
<1>4. SysSpec => []LossyInv BY LossyAlways
<1> QED BY <1>3, <1>4, PTL DEF SysSpec, AccessHeld

-----------------------------------------------------------------------------
(* The refinement, step by step.                                           *)

LEMMA SameBlock ==
  /\ \A base, i : Copy!At(base, i) = At(base, i)
  /\ \A j : Copy!Words(j) = Words(j)
  /\ Copy!Word = Word /\ Copy!Job = Job
BY DEF Copy!At, At, Copy!Words, Words, Copy!Word, Word, Copy!Job, Job

(* Without a transfer nothing is reported, and Done belongs to enable.     *)
LEMMA DoneIs ==
  ASSUME SysInv
  PROVE  job = NoJob => ~Done
BY DEF SysInv, StartedOnce, control!StatusTellsState, Done

(* An edge without a transfer is the start of one or changes nothing.      *)
LEMMA QuietRefines ==
  ASSUME LossyInv, job = NoJob,
         NEW bus \in CpuAccess, NEW rw \in {0, 1}, NEW ww \in {0, 1}, Tick(bus, rw, ww)
  PROVE  Copy!Start \/ UNCHANGED <<mem, job, Done>>
<1>1. mem' = mem BY QuietStep
<1>0. SysInv /\ Quiet BY DEF LossyInv, DataInv
<1>2. oStart \in {0, 1} BY <1>0 DEF SysInv, TypeOK, control!ControlTypeOK
<1>3. CASE oStart = 1
  <2>1. job' \in Job
    <3>1. 0 \in {0} /\ {0} \in SUBSET Nat OBVIOUS
    <3> QED BY <1>3, <3>1, StartStep
  <2>2. c_state = 1 /\ oWM_done = 0
    BY <1>0, <1>3 DEF SysInv, control!StatusTellsState, Quiet
  <2>3. c_state' = 1
    BY <2>2 DEF Tick, Edge, control!ControlEdge, control!Sequencer, control!Launch, control!Stay,
                control!Wait, control!Complete, control!Retire
  <2>4. ~Done' BY <2>3 DEF Done
  <2> QED BY <1>1, <2>1, <2>4, SameBlock DEF Copy!Start
<1>4. CASE oStart = 0
  <2>1. job' = job BY <1>4 DEF Tick, Record
  <2>2. SysInv' BY <1>0, TickInv
  <2>3. ~Done BY <1>0, DoneIs
  <2>4. ~Done'
    BY <2>1, <2>2 DEF SysInv, StartedOnce, control!StatusTellsState, Done
  <2>5. Done' = Done
    BY <2>3, <2>4 DEF Done
  <2> QED BY <1>1, <2>1, <2>5
<1> QED BY <1>2, <1>3, <1>4

(* An edge of a transfer copies the word write_master is at or none, and   *)
(* reports the end or does not.                                            *)
LEMMA TransferRefines ==
  ASSUME OrderedInv, NoWordDropped, job # NoJob,
         NEW bus \in CpuAccess, NEW rw \in {0, 1}, NEW ww \in {0, 1}, Tick(bus, rw, ww)
  PROVE  Copy!CopyWord \/ Copy!Report \/ UNCHANGED <<mem, job, Done>>
<1>0. LossyInv BY Weaken DEF OrderedInv
<1>1. PICK w \in 0 .. Words(job) : During(w, 0) BY SomewhereInBlock DEF OrderedInv
<1>2. job' = job /\ job \in Job
  <2>1. oStart = 0 BY <1>0, AfterStart
  <2> QED BY <1>1, <2>1, DuringTypes DEF Tick, Record
<1>3. \A k \in 0 .. w - 1 : Copy!Copied(job, k)
  BY <1>1, SameBlock DEF During, Running, Written, Copy!Copied
<1>4. /\ Words(job) \in Nat /\ w \in 0 .. Words(job)
      /\ oWM_write \in {0, 1} /\ oWM_done \in {0, 1}
  <2>1. HALF \in Nat BY SystemAssumption
  <2> QED BY <1>1, <2>1, DuringTypes
<1>5. \/ mem' = mem
      \/ /\ oWM_write = 1 /\ w \in 0 .. Words(job) - 1
         /\ mem' = [mem EXCEPT ![At(job.dst, w)] = At(job.src, w)]
  <2>1. CASE WriteAccepted(ww)
    <3>1. /\ oWM_write = 1 /\ oWM_writeaddress = At(job.dst, w)
          /\ oWM_writedata = At(job.src, w)
      BY <1>1, <2>1 DEF WriteAccepted, During, Running, Positions, Ordered
    <3>2. w \in 0 .. Words(job) - 1
      BY <1>1, <1>4, <3>1, DuringTypes DEF During, Running, Positions, Read
    <3> QED BY <2>1, <3>1, <3>2 DEF Tick, Store
  <2>2. CASE ~WriteAccepted(ww) BY <2>2 DEF Tick, Store
  <2> QED BY <2>1, <2>2
<1>6. enable = 1
  BY DEF OrderedInv, DataInv, SysInv, StartedOnce, TypeOK, control!ControlTypeOK
<1>7. \/ Done' = Done
      \/ ~Done /\ Done' /\ oWM_done = 1
  <2>1. control!Sequencer(oWM_done) BY DEF Tick, Edge, control!ControlEdge
  <2>2. CASE control!Stay
    BY <2>2 DEF control!Stay, control!sequencerVars, Done
  <2>3. CASE control!Wait(oWM_done) BY <2>3 DEF control!Wait, Done
  <2>4. CASE control!Complete(oWM_done) BY <2>4 DEF control!Complete, Done
  <2>5. CASE control!Retire BY <1>6, <2>5 DEF control!Retire, Done
  <2> QED BY <1>6, <2>1, <2>2, <2>3, <2>4, <2>5 DEF control!Sequencer, control!Launch
<1>8. CASE Done' = Done
  <2>1. CASE mem' = mem BY <1>2, <1>8, <2>1
  <2>2. CASE /\ w \in 0 .. Words(job) - 1
             /\ mem' = [mem EXCEPT ![At(job.dst, w)] = At(job.src, w)]
    <3>1. (job # NoJob /\ Done)' = (job # NoJob /\ Done) BY <1>2, <1>8
    <3> QED BY <1>2, <1>3, <2>2, <3>1, SameBlock DEF Copy!CopyWord
  <2> QED BY <1>5, <2>1, <2>2
<1>9. CASE ~Done /\ Done' /\ oWM_done = 1
  <2>1. w = Words(job) \/ (oWM_write = 1 /\ w = Words(job) - 1)
    BY <1>1, <1>4, <1>9 DEF During, Running, WriteSide
  <2>2. \A k \in 0 .. Words(job) - 2 : Copy!Copied(job, k)
    BY <1>3, <1>4, <2>1
  <2>3. \/ mem' = mem
        \/ mem' = [mem EXCEPT ![At(job.dst, Words(job) - 1)] = At(job.src, Words(job) - 1)]
    BY <1>4, <1>5, <2>1
  <2>4. (job # NoJob /\ Done)' /\ ~(job # NoJob /\ Done) BY <1>2, <1>9
  <2> QED BY <1>2, <2>2, <2>3, <2>4, SameBlock DEF Copy!Report
<1> QED BY <1>7, <1>8, <1>9

(* If no word is ever dropped the controller copies as BlockCopy.tla       *)
(* says: word by word in ascending order, nothing outside the destination, *)
(* and the end reported with at most the last word outstanding             *)
(* (write_master.v lines 67 to 78).                                        *)
THEOREM CopiesUnlessDropped ==
  OnlyWholeBlocks => (SysSpec /\ []NoWordDropped => ImplementsBlockCopy)
<1> SUFFICES ASSUME OnlyWholeBlocks
             PROVE  SysSpec /\ []NoWordDropped => ImplementsBlockCopy
  OBVIOUS
<1> DEFINE Step == Copy!Next \/ (SysReset /\ Copy!Clear)
           seen == <<mem, job, Done>>
<1>1. SysInit => Copy!Init
  BY DEF SysInit, Copy!Init, Copy!Word, Word
<1>2. OrderedInv /\ NoWordDropped /\ SomeTick({0, 1}) => Step \/ UNCHANGED seen
  <2> SUFFICES ASSUME OrderedInv, NoWordDropped,
                      NEW bus \in CpuAccess, NEW rw \in {0, 1}, NEW ww \in {0, 1},
                      Tick(bus, rw, ww)
               PROVE  Copy!Next \/ UNCHANGED seen
    BY DEF SomeTick
  <2>1. LossyInv BY Weaken DEF OrderedInv
  <2>2. CASE job = NoJob BY <2>1, <2>2, QuietRefines DEF Copy!Next
  <2>3. CASE job # NoJob BY <2>3, TransferRefines DEF Copy!Next
  <2> QED BY <2>2, <2>3
<1>3. SysReset => Step
  BY DEF SysReset, Copy!Clear, Copy!Word, Word
<1>4. UNCHANGED vars => UNCHANGED seen
  BY DEF vars, dmaVars, controlVars, fabricVars, Done
<1>5. OrderedInv /\ NoWordDropped /\ [SysNext]_vars => [Step]_seen
  BY <1>2, <1>3, <1>4 DEF SysNext
<1>6. SysSpec /\ []NoWordDropped => []OrderedInv BY OrderedAlways
<1> QED BY <1>1, <1>5, <1>6, PTL DEF SysSpec, ImplementsBlockCopy

(* Blocks of up to HALF + 1 words are copied the way BlockCopy.tla says.   *)
THEOREM BlockCopyImplemented == OnlyShortBlocks => (SysSpec => ImplementsBlockCopy)
<1> SUFFICES ASSUME OnlyShortBlocks PROVE SysSpec => ImplementsBlockCopy
  OBVIOUS
<1>1. OnlyWholeBlocks BY DEF OnlyShortBlocks, OnlyWholeBlocks
<1>2. SysSpec => []NoWordDropped BY NoWordDroppedCorrect
<1>3. SysSpec /\ []NoWordDropped => ImplementsBlockCopy BY <1>1, CopiesUnlessDropped
<1> QED BY <1>2, <1>3, PTL
=============================================================================
