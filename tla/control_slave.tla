---------------------------- MODULE control_slave ----------------------------
(***************************************************************************)
(* control_slave.v: the register file the CPU programs over Avalon and the *)
(* sequencer that starts the two masters and waits for write_master.       *)
(* The two always blocks share every clock edge; ControlEdge is that edge. *)
(*                                                                         *)
(* The signals iChipselect_n, iWrite, iRead, iAddress and iWritedata of a  *)
(* cycle are the record bus.  The fabric selects the slave exactly when it *)
(* reads or writes it, and never does both (bus.op).                       *)
(***************************************************************************)
EXTENDS Integers

CONSTANTS M,           \* how many values a 32-bit register has (2^32)
          CpuAccess    \* the accesses the CPU may put on the bus

Word == 0 .. M - 1

BusCycle == [op : {"idle", "read", "write"}, address : 0 .. 7, writedata : Word]

Idle       == [op |-> "idle", address |-> 0, writedata |-> 0]

ASSUME ControlAssumption == M \in Nat /\ M >= 16 /\ CpuAccess \subseteq BusCycle

VARIABLES oRM_startaddress, oWM_startaddress, oLength, control, oReaddata,
          status, oStart, state, enable

configVars    == <<oRM_startaddress, oWM_startaddress, oLength>>
registerVars  == <<configVars, control, oReaddata>>
sequencerVars == <<status, oStart, state, enable>>
controlVars   == <<registerVars, sequencerVars>>

\* Bit 3 of control, bits 1 and 0 of status.
GO   == (control \div 8) % 2 = 1
BUSY == (status \div 2) % 2 = 1
DONE == status % 2 = 1

-----------------------------------------------------------------------------
(* The registers: DONE comes before any access, a write before a read.     *)

\* Bugs: registers that can be written during a transfer; a read that is
\* served before DONE is looked at.
MutWriteRegister(bus) ==
  /\ ~DONE /\ bus.op = "write"
  /\ oRM_startaddress' = IF bus.address = 0 THEN bus.writedata ELSE oRM_startaddress
  /\ oWM_startaddress' = IF bus.address = 1 THEN bus.writedata ELSE oWM_startaddress
  /\ oLength' = IF bus.address = 2 THEN bus.writedata ELSE oLength
  /\ control' = IF bus.address = 3 THEN bus.writedata ELSE control
  /\ UNCHANGED oReaddata

MutReadStatus(bus) ==
  /\ bus.op = "read" /\ bus.address = 7
  /\ oReaddata' = status
  /\ UNCHANGED <<configVars, control>>

ClearControl ==
  /\ DONE
  /\ control' = 0
  /\ UNCHANGED <<configVars, oReaddata>>

WriteRegister(bus) ==
  /\ ~DONE /\ ~BUSY /\ bus.op = "write"
  /\ oRM_startaddress' = IF bus.address = 0 THEN bus.writedata ELSE oRM_startaddress
  /\ oWM_startaddress' = IF bus.address = 1 THEN bus.writedata ELSE oWM_startaddress
  /\ oLength' = IF bus.address = 2 THEN bus.writedata ELSE oLength
  /\ control' = IF bus.address = 3 THEN bus.writedata ELSE control
  /\ UNCHANGED oReaddata

ReadStatus(bus) ==
  /\ ~DONE /\ bus.op = "read" /\ bus.address = 7
  /\ oReaddata' = status
  /\ UNCHANGED <<configVars, control>>

NoAccess(bus) ==
  /\ ~DONE
  /\ \/ bus.op = "idle"
     \/ bus.op = "write" /\ BUSY
     \/ bus.op = "read" /\ bus.address # 7
  /\ UNCHANGED registerVars

Registers(bus) ==
  ClearControl \/ WriteRegister(bus) \/ ReadStatus(bus) \/ NoAccess(bus)

-----------------------------------------------------------------------------
(* The sequencer.                                                          *)

\* Bugs: a start that does not look at enable; a start pulse that is not taken
\* back.
MutLaunch ==
  /\ state = 0 /\ GO
  /\ status' = 2 /\ oStart' = 1 /\ state' = 1
  /\ UNCHANGED enable

MutWait(iMW_done) ==
  /\ state = 1 /\ iMW_done = 0
  /\ enable' = 1
  /\ UNCHANGED <<oStart, status, state>>

Launch ==
  /\ state = 0 /\ GO /\ enable = 0
  /\ status' = 2 /\ oStart' = 1 /\ state' = 1
  /\ UNCHANGED enable

Stay ==
  /\ state = 0 /\ (~GO \/ enable = 1)
  /\ UNCHANGED sequencerVars

Wait(iMW_done) ==
  /\ state = 1 /\ iMW_done = 0
  /\ oStart' = 0 /\ enable' = 1
  /\ UNCHANGED <<status, state>>

Complete(iMW_done) ==
  /\ state = 1 /\ iMW_done = 1
  /\ oStart' = 0 /\ enable' = 1
  /\ status' = 1 /\ state' = 2

Retire ==
  /\ state = 2
  /\ status' = 0 /\ state' = 0
  /\ UNCHANGED <<oStart, enable>>

Sequencer(iMW_done) ==
  Launch \/ Stay \/ Wait(iMW_done) \/ Complete(iMW_done) \/ Retire

ControlEdge(bus, iMW_done) == Registers(bus) /\ Sequencer(iMW_done)

-----------------------------------------------------------------------------
\* Power-up goes through the reset, so a behaviour starts in the reset state.
ControlInit ==
  /\ oRM_startaddress = 0 /\ oWM_startaddress = 0 /\ oLength = 0
  /\ control = 0 /\ oReaddata = 0
  /\ status = 0 /\ oStart = 0 /\ state = 0 /\ enable = 0

ControlReset ==
  /\ oRM_startaddress' = 0 /\ oWM_startaddress' = 0 /\ oLength' = 0
  /\ control' = 0 /\ oReaddata' = 0
  /\ status' = 0 /\ oStart' = 0 /\ state' = 0 /\ enable' = 0

\* On its own the slave meets every access and every answer of write_master.
ControlNext ==
  \/ \E bus \in CpuAccess, iMW_done \in {0, 1} : ControlEdge(bus, iMW_done)
  \/ ControlReset

ControlSpec == ControlInit /\ [][ControlNext]_controlVars

-----------------------------------------------------------------------------
\* The registers have the width the code gives them, and the two-bit state
\* never takes its fourth value, for which the case statement has no branch.
ControlTypeOK ==
  /\ oRM_startaddress \in Word /\ oWM_startaddress \in Word /\ oLength \in Word
  /\ control \in Word /\ oReaddata \in Word
  /\ status \in Word /\ oStart \in {0, 1} /\ state \in 0 .. 2 /\ enable \in {0, 1}

\* What the CPU reads as status is the sequencer's state, so BUSY and DONE
\* are never both set, and the masters see the start pulse exactly in the
\* first cycle of the waiting state: enable is still 0 there and nowhere else
\* after GO was accepted.
StatusTellsState ==
  /\ state = 0 => status = 0
  /\ state = 1 => status = 2
  /\ state = 2 => status = 1
  /\ oStart = 1 <=> state = 1 /\ enable = 0
  /\ state = 2 => enable = 1

\* The CPU can read 0 or BUSY but never DONE: in the single cycle of DONE the
\* clearing of control takes precedence over the read (lines 48 to 64).
DoneNeverRead == oReaddata \in {0, 2}

\* The handshake the masters rely on: one start pulse of one cycle, after it
\* at most one completion, and nothing more until the next reset.
phase ==
  IF state = 2 THEN "done"
  ELSE IF state = 1 THEN IF oStart = 1 THEN "start" ELSE "busy"
       ELSE IF enable = 1 THEN "spent" ELSE "ready"

OneShot == INSTANCE OneShotStart
ImplementsOneShot == OneShot!Init /\ [][OneShot!Next \/ (ControlReset /\ OneShot!Rearm)]_phase

\* "khi cpu cau hinh GO = 1 thi DMA bat dau hoat dong" (line 81: when the CPU
\* sets GO = 1 the DMA starts working): on an edge that is no reset, an idle
\* sequencer that sees GO starts the masters.
GoStarts ==
  [][state = 0 /\ GO /\ (\E bus \in CpuAccess, iMW_done \in {0, 1} : ControlEdge(bus, iMW_done))
       => oStart' = 1]_controlVars
=============================================================================
