-------------------------- MODULE hello_worldProofs --------------------------
(***************************************************************************)
(* What the program keeps for every block, every pace of the memories, any *)
(* number of cycles between its steps and any number of resets.  The       *)
(* program is one of the CPUs DMASystemProofs speaks of, so all that is    *)
(* proved there of the controller holds under it.                          *)
(***************************************************************************)
EXTENDS hello_world, DMASystemProofs

ConfigurationSteps == {"IOWR0", "IOWR1", "IOWR2", "IOWR3"}
Steps == ConfigurationSteps \cup {"while", "handlerStatus", "return"}

\* The transfer main() describes.
Programmed == [src |-> pdata0, dst |-> pdata1, length |-> length]

\* Before the write of GO nothing can start, and what was written stays.
Configured ==
  /\ pc \in Steps
  /\ pc \in ConfigurationSteps => control_reg = 0 /\ c_state = 0 /\ oStart = 0 /\ enable = 0
  /\ pc # "IOWR0" => oRM_startaddress = pdata0
  /\ pc \notin {"IOWR0", "IOWR1"} => oWM_startaddress = pdata1
  /\ pc \notin {"IOWR0", "IOWR1", "IOWR2"} => oLength = length
  /\ job # NoJob => job = Programmed

ProgramInv == SysInv /\ Configured

-----------------------------------------------------------------------------
(* The four writes and the two other accesses, spelled out.                *)
LEMMA ConfigurationIs ==
  /\ DOMAIN Configuration = ConfigurationSteps
  /\ Configuration["IOWR0"] = IOWR(0, pdata0) /\ Configuration["IOWR1"] = IOWR(1, pdata1)
  /\ Configuration["IOWR2"] = IOWR(2, length) /\ Configuration["IOWR3"] = IOWR(3, 8)
  /\ Following["IOWR0"] = "IOWR1" /\ Following["IOWR1"] = "IOWR2"
  /\ Following["IOWR2"] = "IOWR3" /\ Following["IOWR3"] = "while"
BY DEF Configuration, Following, ConfigurationSteps

(* What the bus sees of the program, and that its writes are these four.   *)
LEMMA AccessIs ==
  /\ NoIO \in CpuAccess /\ IORD(7) \in CpuAccess
  /\ \A p \in ConfigurationSteps : Configuration[p] \in CpuAccess
  /\ \A bus \in CpuAccess : \/ bus.op # "write"
                            \/ bus \in {IOWR(0, pdata0), IOWR(1, pdata1), IOWR(2, length), IOWR(3, 8)}
BY AccessAssumption, ConfigurationIs DEF NoIO, IORD, ConfigurationSteps

(* The program only programs whole words.                                  *)
LEMMA ProgramWhole == OnlyWholeBlocks
<1>1. IOWR(2, length).writedata = length /\ Whole(length)
  BY ProgramAssumption DEF IOWR, Whole
<1>2. \A bus \in LengthAccess : bus = IOWR(2, length)
  BY AccessIs DEF LengthAccess, IOWR
<1> QED BY <1>1, <1>2 DEF OnlyWholeBlocks

(* Each step of the program is a cycle of the system.                      *)
LEMMA StepIsCycle ==
  ASSUME HelloCycle({0, 1}, {0, 1})
  PROVE  SomeTick({0, 1})
<1>1. CASE Configure({0, 1}, {0, 1})
  <2>1. Configuration[pc] \in CpuAccess BY <1>1, ConfigurationIs, AccessIs DEF Configure
  <2> QED BY <1>1, <2>1 DEF Configure, Cycle, SomeTick
<1>2. CASE Poll({0, 1}, {0, 1}) BY <1>2, AccessIs DEF Poll, Cycle, SomeTick
<1>3. CASE PrintByte({0, 1}, {0, 1}) BY <1>3, AccessIs DEF PrintByte, Cycle, SomeTick
<1>4. CASE Return({0, 1}, {0, 1}) BY <1>4, AccessIs DEF Return, Cycle, SomeTick
<1>5. CASE OtherCycle({0, 1}, {0, 1}) BY <1>5, AccessIs DEF OtherCycle, Cycle, SomeTick
<1> QED BY <1>1, <1>2, <1>3, <1>4, <1>5 DEF HelloCycle, Program

(* So every step of the program's system is one of the system.             *)
LEMMA StepIsStep == [HelloNext]_allVars => [SysNext]_vars
BY StepIsCycle DEF HelloNext, SysNext, HelloReset, allVars

(* The program is a CPU of the system: the controller does under it what   *)
(* it does under any CPU (hello_world.c lines 30 to 41).                   *)
THEOREM ProgramIsCpu == HelloSpec => SysSpec
<1>1. HelloInit => SysInit BY DEF HelloInit
<1> QED BY <1>1, StepIsStep, PTL DEF HelloSpec, SysSpec

-----------------------------------------------------------------------------
(* An access that is no write leaves the parameters alone.                 *)
LEMMA NoWriteStep ==
  ASSUME SysInv, NEW bus \in {NoIO, IORD(7)}, control!Registers(bus)
  PROVE  /\ UNCHANGED <<oRM_startaddress, oWM_startaddress, oLength>>
         /\ control_reg = 0 => control_reg' = 0
BY DEF NoIO, IORD, control!Registers, control!ClearControl, control!WriteRegister,
       control!ReadStatus, control!NoAccess, control!registerVars, control!configVars

(* One of the four writes, before anything was started, hits its register. *)
LEMMA WriteStepHits ==
  ASSUME SysInv, c_state = 0, NEW a \in 0 .. 7, NEW data \in Word,
         control!Registers(IOWR(a, data))
  PROVE  /\ oRM_startaddress' = IF a = 0 THEN data ELSE oRM_startaddress
         /\ oWM_startaddress' = IF a = 1 THEN data ELSE oWM_startaddress
         /\ oLength' = IF a = 2 THEN data ELSE oLength
         /\ control_reg' = IF a = 3 THEN data ELSE control_reg
<1>1. ~control!DONE /\ ~control!BUSY
  BY StatusBits DEF SysInv, TypeOK
<1>2. IOWR(a, data).op = "write" /\ IOWR(a, data).address = a /\ IOWR(a, data).writedata = data
  BY DEF IOWR
<1> QED BY <1>1, <1>2
        DEF control!Registers, control!ClearControl, control!WriteRegister,
            control!ReadStatus, control!NoAccess

(* Without GO the sequencer stays where it is.                             *)
LEMMA NoGoStays ==
  ASSUME control_reg = 0, c_state = 0, control!Sequencer(oWM_done)
  PROVE  UNCHANGED <<c_state, oStart, enable>>
<1>1. (0 \div 8) % 2 = 0 OBVIOUS
<1>2. ~control!GO BY <1>1 DEF control!GO
<1> QED BY <1>2 DEF control!Sequencer, control!Launch, control!Stay, control!Wait,
                    control!Complete, control!Retire, control!sequencerVars

(* The transfer is recorded from the registers as the program wrote them.  *)
LEMMA RecordStep ==
  ASSUME Configured, SysInv, Record
  PROVE  job' # NoJob => job' = Programmed
<1>1. CASE oStart = 1
  <2>1. pc \notin ConfigurationSteps BY <1>1 DEF Configured
  <2> QED BY <1>1, <2>1 DEF Configured, Record, Programmed, ConfigurationSteps
<1>2. CASE oStart = 0 BY <1>2 DEF Configured, Record
<1> QED BY <1>1, <1>2 DEF Record

(* The parts of a cycle these proofs look at.                              *)
LEMMA CycleIs ==
  ASSUME NEW bus, Cycle(bus, {0, 1}, {0, 1})
  PROVE  /\ control!Registers(bus) /\ control!Sequencer(oWM_done) /\ Record
         /\ \E rw \in {0, 1}, ww \in {0, 1} : Tick(bus, rw, ww)
BY DEF Cycle, Tick, Edge, control!ControlEdge

(* A cycle in which the program writes no register.                        *)
LEMMA QuietCycle ==
  ASSUME ProgramInv, NEW bus \in {NoIO, IORD(7)}, Cycle(bus, {0, 1}, {0, 1}),
         pc' \in Steps, pc \in ConfigurationSteps => pc' = pc,
         pc \notin ConfigurationSteps => pc' \notin ConfigurationSteps
  PROVE  Configured'
<1> USE DEF ProgramInv
<1>1. control!Registers(bus) /\ control!Sequencer(oWM_done) /\ Record
  BY CycleIs
<1>2. /\ UNCHANGED <<oRM_startaddress, oWM_startaddress, oLength>>
      /\ control_reg = 0 => control_reg' = 0
  BY <1>1, NoWriteStep
<1>3. job' # NoJob => job' = Programmed BY <1>1, RecordStep
<1>4. pc \in ConfigurationSteps =>
        control_reg' = 0 /\ c_state' = 0 /\ oStart' = 0 /\ enable' = 0
  BY <1>1, <1>2, NoGoStays DEF Configured
<1>5. Programmed' = Programmed BY DEF Programmed
<1> QED BY <1>2, <1>3, <1>4, <1>5 DEF Configured, ConfigurationSteps, Steps

(* The four writes, one after the other.                                   *)
LEMMA ConfigureStep ==
  ASSUME ProgramInv, Configure({0, 1}, {0, 1})
  PROVE  Configured'
<1> USE DEF ProgramInv
<1>1. /\ pc \in ConfigurationSteps /\ pc' = Following[pc]
      /\ Cycle(Configuration[pc], {0, 1}, {0, 1})
  BY ConfigurationIs DEF Configure
<1>2. /\ control!Registers(Configuration[pc]) /\ control!Sequencer(oWM_done) /\ Record
  BY <1>1, CycleIs
<1>3. control_reg = 0 /\ c_state = 0 /\ oStart = 0 /\ enable = 0
  BY <1>1 DEF Configured
<1>4. UNCHANGED <<c_state, oStart, enable>>
  BY <1>2, <1>3, NoGoStays
<1>5. (job' # NoJob => job' = Programmed) /\ Programmed' = Programmed
  BY <1>2, RecordStep DEF Programmed
<1>6. pdata0 \in Word /\ pdata1 \in Word /\ length \in Word /\ 8 \in Word
  BY ProgramAssumption, SystemAssumption DEF Word
<1>7. CASE pc = "IOWR0"
  <2>1. control!Registers(IOWR(0, pdata0)) /\ pc' = "IOWR1"
    BY <1>1, <1>2, <1>7, ConfigurationIs
  <2>2. oRM_startaddress' = pdata0 /\ control_reg' = control_reg
    BY <1>3, <1>6, <2>1, WriteStepHits
  <2> QED BY <1>3, <1>4, <1>5, <2>1, <2>2 DEF Configured, ConfigurationSteps, Steps
<1>8. CASE pc = "IOWR1"
  <2>1. control!Registers(IOWR(1, pdata1)) /\ pc' = "IOWR2"
    BY <1>1, <1>2, <1>8, ConfigurationIs
  <2>2. /\ oRM_startaddress' = oRM_startaddress /\ oWM_startaddress' = pdata1
        /\ control_reg' = control_reg
    BY <1>3, <1>6, <2>1, WriteStepHits
  <2> QED BY <1>3, <1>4, <1>5, <1>8, <2>1, <2>2 DEF Configured, ConfigurationSteps, Steps
<1>9. CASE pc = "IOWR2"
  <2>1. control!Registers(IOWR(2, length)) /\ pc' = "IOWR3"
    BY <1>1, <1>2, <1>9, ConfigurationIs
  <2>2. /\ UNCHANGED <<oRM_startaddress, oWM_startaddress, control_reg>>
        /\ oLength' = length
    BY <1>3, <1>6, <2>1, WriteStepHits
  <2> QED BY <1>3, <1>4, <1>5, <1>9, <2>1, <2>2 DEF Configured, ConfigurationSteps, Steps
<1>10. CASE pc = "IOWR3"
  <2>1. control!Registers(IOWR(3, 8)) /\ pc' = "while"
    BY <1>1, <1>2, <1>10, ConfigurationIs
  <2>2. UNCHANGED <<oRM_startaddress, oWM_startaddress, oLength>>
    BY <1>3, <1>6, <2>1, WriteStepHits
  <2> QED BY <1>5, <1>10, <2>1, <2>2 DEF Configured, ConfigurationSteps, Steps
<1> QED BY <1>1, <1>7, <1>8, <1>9, <1>10 DEF ConfigurationSteps

(* The program starts with a controller at rest.                           *)
LEMMA InitProgram == HelloInit => ProgramInv
<1> SUFFICES ASSUME HelloInit PROVE ProgramInv
  OBVIOUS
<1>1. SysInv BY InitInv DEF HelloInit
<1> QED BY <1>1 DEF HelloInit, SysInit, Init, control!ControlInit, ProgramInv, Configured,
                    ConfigurationSteps, Steps

(* Writes, polls, prints, other cycles and resets keep the registers as    *)
(* far as they are written.                                                *)
LEMMA NextProgram == ProgramInv /\ [HelloNext]_allVars => ProgramInv'
<1> SUFFICES ASSUME ProgramInv, [HelloNext]_allVars PROVE ProgramInv'
  OBVIOUS
<1>1. SysInv' BY StepIsStep, NextInv DEF ProgramInv
<1>2. CASE Configure({0, 1}, {0, 1}) BY <1>1, <1>2, ConfigureStep DEF ProgramInv
<1>3. CASE Poll({0, 1}, {0, 1})
  <2>1. /\ pc = "while" /\ pc' \in {"while", "handlerStatus"}
        /\ Cycle(IORD(7), {0, 1}, {0, 1})
    BY <1>3 DEF Poll
  <2>2. Configured' BY <2>1, QuietCycle DEF Steps, ConfigurationSteps
  <2> QED BY <1>1, <2>2 DEF ProgramInv
<1>4. CASE PrintByte({0, 1}, {0, 1})
  <2>1. pc = "handlerStatus" /\ pc' = pc /\ Cycle(NoIO, {0, 1}, {0, 1})
    BY <1>4 DEF PrintByte
  <2>2. Configured' BY <2>1, QuietCycle DEF Steps, ConfigurationSteps
  <2> QED BY <1>1, <2>2 DEF ProgramInv
<1>5. CASE Return({0, 1}, {0, 1})
  <2>1. /\ pc \in {"handlerStatus", "while"} /\ pc' \in {"while", "return"}
        /\ Cycle(NoIO, {0, 1}, {0, 1})
    BY <1>5 DEF Return
  <2>2. Configured' BY <2>1, QuietCycle DEF Steps, ConfigurationSteps
  <2> QED BY <1>1, <2>2 DEF ProgramInv
<1>6. CASE OtherCycle({0, 1}, {0, 1})
  <2>1. pc' = pc /\ Cycle(NoIO, {0, 1}, {0, 1}) /\ pc \in Steps
    BY <1>6 DEF OtherCycle, programVars, ProgramInv, Configured
  <2>2. Configured' BY <2>1, QuietCycle
  <2> QED BY <1>1, <2>2 DEF ProgramInv
<1>7. CASE HelloReset
  BY <1>1, <1>7 DEF HelloReset, SysReset, Reset, control!ControlReset, ProgramInv, Configured,
                    ConfigurationSteps, Steps
<1>8. CASE UNCHANGED allVars
  <2>1. UNCHANGED <<pc, control_reg, c_state, oStart, enable, oRM_startaddress,
                    oWM_startaddress, oLength, job>>
    BY <1>8 DEF allVars, programVars, vars, dmaVars, controlVars
  <2> QED BY <1>1, <2>1 DEF ProgramInv, Configured, Programmed
<1> QED BY <1>2, <1>3, <1>4, <1>5, <1>6, <1>7, <1>8 DEF HelloNext, HelloCycle, Program

(* The masters are only ever started with the block main() describes, after *)
(* all four registers were written (hello_world.c lines 30 to 33).         *)
THEOREM StartedCorrect == HelloSpec => []StartedAsProgrammed
<1>1. ProgramInv => StartedAsProgrammed
  BY DEF ProgramInv, SysInv, StartedOnce, Configured, StartedAsProgrammed, Programmed,
         ConfigurationSteps
<1> QED BY InitProgram, NextProgram, <1>1, PTL DEF HelloSpec

-----------------------------------------------------------------------------
(***************************************************************************)
(* What the program prints.  It does not wait for the end of the copy, so  *)
(* a byte may be old; but it is never a byte of another place.             *)
(***************************************************************************)

\* Every place of the destination is as it was or holds its own word.
OldOrCopied ==
  job # NoJob => \A k \in 0 .. Words(job) - 1 : mem[At(job.dst, k)] \in {NoData, At(job.src, k)}

PrintInv ==
  /\ ProgramInv /\ OldOrCopied
  /\ i \in 0 .. length
  /\ DOMAIN printed = 0 .. length - 1
  /\ PrintedOldOrCopied

(* A word is only ever stored at its own place.                            *)
LEMMA OldOrCopiedStep ==
  ASSUME OrderedInv, OldOrCopied, [SysNext]_vars
  PROVE  OldOrCopied'
<1>1. CASE SysReset BY <1>1 DEF SysReset, OldOrCopied
<1>2. CASE UNCHANGED vars
  BY <1>2 DEF vars, fabricVars, OldOrCopied, Words, At
<1>3. CASE SomeTick({0, 1}) /\ job = NoJob
  <2>1. LossyInv BY Weaken DEF OrderedInv
  <2>2. mem' = mem BY <1>3, <2>1, QuietStep DEF SomeTick
  <2>3. mem = [a \in Word |-> NoData] BY <1>3 DEF OrderedInv, DataInv, Quiet
  <2>4. ASSUME job' # NoJob, NEW k \in 0 .. Words(job') - 1
        PROVE  mem'[At(job'.dst, k)] = NoData
    <3>1. At(job'.dst, k) \in Word
      <4>1. job' \in Job /\ Whole(job'.length)
        <5>1. SysInv' BY NextInv DEF OrderedInv, DataInv
        <5>2. job' = [src |-> oRM_startaddress, dst |-> oWM_startaddress, length |-> oLength]
          BY <1>3, <2>4 DEF SomeTick, Tick, Record
        <5> QED BY <2>4, <5>1, <5>2 DEF SysInv, TypeOK, OrderedInv, DataInv
      <4>2. k \in Nat /\ 4 * k < M
        BY <4>1, BlockIs, SystemAssumption
      <4> QED BY <4>1, <4>2, AddressIs, BlockIs
    <3> QED BY <2>2, <2>3, <3>1
  <2> QED BY <2>4 DEF OldOrCopied, Words, At
<1>4. CASE SomeTick({0, 1}) /\ job # NoJob
  <2>1. PICK bus \in CpuAccess, rw \in {0, 1}, ww \in {0, 1} : Tick(bus, rw, ww)
    BY <1>4 DEF SomeTick
  <2>2. PICK w \in 0 .. Words(job) : During(w, 0) BY <1>4, SomewhereInBlock DEF OrderedInv
  <2>3. \/ mem' = mem
        \/ /\ oWM_write = 1 /\ w < Words(job)
           /\ mem' = [mem EXCEPT ![At(job.dst, w)] = oWM_writedata]
    BY <2>1, <2>2, StoreStep DEF Tick
  <2>4. job' = job
    <3>1. oStart = 0 BY <2>2 DEF During
    <3> QED BY <2>1, <3>1 DEF Tick, Record
  <2>5. oWM_write = 1 => oWM_writedata = At(job.src, w)
    BY <2>2 DEF During, Running, Ordered
  <2>6. /\ mem \in [Word -> Word \cup {NoData}] /\ job.dst \in Word
        /\ Words(job) \in Nat /\ 4 * Words(job) < M /\ M \in Nat
    BY <2>2, DuringTypes DEF OrderedInv, DataInv, SysInv, TypeOK
  <2>7. ASSUME NEW k \in 0 .. Words(job) - 1
        PROVE  mem'[At(job.dst, k)] \in {NoData, At(job.src, k)}
    <3>1. mem[At(job.dst, k)] \in {NoData, At(job.src, k)} BY <1>4 DEF OldOrCopied
    <3>2. k \in Nat /\ 4 * k < M /\ At(job.dst, k) \in Word
      <4>1. k \in Nat /\ 4 * k < M BY <2>6
      <4> QED BY <2>6, <4>1, AddressIs
    <3>3. w < Words(job) /\ k # w => At(job.dst, k) # At(job.dst, w)
      <4>1. w < Words(job) => w \in Nat /\ 4 * w < M BY <2>6
      <4> QED BY <2>6, <3>2, <4>1, AddressInjective
    <3> QED BY <2>3, <2>5, <2>6, <3>1, <3>2, <3>3
  <2> QED BY <1>4, <2>4, <2>7 DEF OldOrCopied, Words, At
<1> QED BY <1>1, <1>2, <1>3, <1>4 DEF SysNext

(* A byte the program prints is one of a place of the block.               *)
LEMMA PrintStep ==
  ASSUME PrintInv, OrderedInv, PrintByte({0, 1}, {0, 1})
  PROVE  i' \in 0 .. length /\ DOMAIN printed' = 0 .. length - 1 /\ PrintedOldOrCopied'
<1>1. /\ i \in 0 .. length - 1 /\ i' = i + 1 /\ length \in Nat /\ length % 4 = 0
      /\ printed' = [printed EXCEPT ![i] = mem[At(pdata1, i \div 4)]]
      /\ length \in Word
  BY ProgramAssumption, SystemAssumption DEF PrintInv, PrintByte, Word
<1>2. i \div 4 \in 0 .. (length \div 4) - 1
  BY <1>1
<1>3. mem[At(pdata1, i \div 4)] \in {NoData, At(pdata0, i \div 4)}
  <2>1. CASE job = NoJob
    <3>1. mem = [a \in Word |-> NoData] BY <2>1 DEF OrderedInv, DataInv, Quiet
    <3>2. i \div 4 \in Nat /\ 4 * (i \div 4) < M
      BY <1>1, SystemAssumption DEF Word
    <3>3. At(pdata1, i \div 4) \in Word
      BY <3>2, AddressIs, ProgramAssumption
    <3> QED BY <3>1, <3>3
  <2>2. CASE job # NoJob
    <3>1. job = Programmed BY <2>2 DEF PrintInv, ProgramInv, Configured
    <3>2. job.src = pdata0 /\ job.dst = pdata1 /\ Words(job) = length \div 4
      BY <3>1 DEF Programmed, Words
    <3> QED BY <1>2, <2>2, <3>2 DEF PrintInv, OldOrCopied
  <2> QED BY <2>1, <2>2
<1>4. DOMAIN printed' = 0 .. length - 1
  BY <1>1 DEF PrintInv
<1>5. ASSUME NEW b \in 0 .. length - 1
      PROVE  printed'[b] \in {NoData, At(pdata0, b \div 4)}
  <2>1. CASE b = i BY <1>1, <1>3, <2>1 DEF PrintInv
  <2>2. CASE b # i BY <1>1, <2>2 DEF PrintInv, PrintedOldOrCopied
  <2> QED BY <2>1, <2>2
<1>6. PrintedOldOrCopied'
  BY <1>4, <1>5 DEF PrintedOldOrCopied, At
<1> QED BY <1>1, <1>4, <1>6

(* Nothing is printed and nothing copied at first.                         *)
LEMMA InitPrint == HelloInit => PrintInv
<1> SUFFICES ASSUME HelloInit PROVE PrintInv
  OBVIOUS
<1>1. ProgramInv BY InitProgram
<1>2. job = NoJob BY DEF HelloInit, SysInit
<1>3. length \in Nat BY ProgramAssumption, SystemAssumption DEF Word
<1> QED BY <1>1, <1>2, <1>3 DEF HelloInit, PrintInv, OldOrCopied, PrintedOldOrCopied

(* A step copies or prints words of their own places, or neither.          *)
LEMMA NextPrint == PrintInv /\ OrderedInv /\ [HelloNext]_allVars => PrintInv'
<1> SUFFICES ASSUME PrintInv, OrderedInv, [HelloNext]_allVars PROVE PrintInv'
  OBVIOUS
<1>1. ProgramInv' BY NextProgram DEF PrintInv
<1>2. OldOrCopied' BY StepIsStep, OldOrCopiedStep DEF PrintInv
<1>3. CASE PrintByte({0, 1}, {0, 1})
  BY <1>1, <1>2, <1>3, PrintStep DEF PrintInv
<1>4. CASE UNCHANGED <<i, printed>>
  BY <1>1, <1>2, <1>4 DEF PrintInv, PrintedOldOrCopied, At
<1>5. CASE HelloReset
  <2>1. length \in Nat BY ProgramAssumption, SystemAssumption DEF Word
  <2> QED BY <1>1, <1>2, <1>5, <2>1 DEF HelloReset, PrintInv, PrintedOldOrCopied
<1> QED BY <1>3, <1>4, <1>5
        DEF HelloNext, HelloCycle, Program, Configure, Poll, Return, OtherCycle, programVars,
            allVars

(* If no word is ever dropped a byte that is printed is what the memory    *)
(* held before or the byte the DMA copied there (hello_world.c line 13).   *)
THEOREM PrintedUnlessDropped == HelloSpec /\ []NoWordDropped => []PrintedOldOrCopied
<1>1. SysSpec /\ []NoWordDropped => []OrderedInv
  BY OrderedAlways, ProgramWhole
<1>2. PrintInv => PrintedOldOrCopied BY DEF PrintInv
<1> QED BY InitPrint, NextPrint, ProgramIsCpu, <1>1, <1>2, PTL DEF HelloSpec

(* The block of the program has 8 words and the FIFO takes 128: of a block *)
(* of up to HALF + 1 words no word is dropped.                             *)
THEOREM PrintedCorrect ==
  length <= 4 * (HALF + 1) => (HelloSpec => []PrintedOldOrCopied)
<1> SUFFICES ASSUME length <= 4 * (HALF + 1) PROVE HelloSpec => []PrintedOldOrCopied
  OBVIOUS
<1>1. OnlyShortBlocks
  <2>1. IOWR(2, length).writedata = length /\ Whole(length) /\ Short(length)
    BY ProgramAssumption DEF IOWR, Whole, Short
  <2>2. \A bus \in LengthAccess : bus = IOWR(2, length)
    BY AccessIs DEF LengthAccess, IOWR
  <2> QED BY <2>1, <2>2 DEF OnlyShortBlocks
<1>2. SysSpec => []NoWordDropped BY <1>1, NoWordDroppedCorrect
<1> QED BY <1>2, ProgramIsCpu, PrintedUnlessDropped, PTL
=============================================================================
