----------------------------- MODULE hello_world -----------------------------
(***************************************************************************)
(* hello_world.c: the program that runs the DMA.  It writes the four       *)
(* registers, polls the status register and prints the destination block.  *)
(* Each access to a register takes one clock cycle (the slave asks for no  *)
(* wait); between two steps of the program any number of cycles may pass.  *)
(* The CPU has no data cache: a load sees what the memory holds.           *)
(***************************************************************************)
EXTENDS DMASystem

CONSTANTS pdata0, pdata1, length      \* source, destination, block length in bytes

ASSUME ProgramAssumption ==
  /\ pdata0 \in Word /\ pdata1 \in Word
  /\ length \in Word /\ length > 0 /\ length % 4 = 0

VARIABLES pc,        \* where main() is
          c_enable,  \* its variable enable, which keeps the polling loop going
          i,         \* the loop variable of handlerStatus()
          printed    \* what it printed, a byte represented by its word

programVars == <<pc, c_enable, i, printed>>
allVars == <<vars, programVars>>

IOWR(address, data) == [op |-> "write", address |-> address, writedata |-> data]
IORD(address)       == [op |-> "read", address |-> address, writedata |-> 0]
NoIO                == [op |-> "idle", address |-> 0, writedata |-> 0]

\* Bug: the control register written before the parameters.
MutConfiguration ==
  [ IOWR0 |-> IOWR(3, 8), IOWR1 |-> IOWR(0, pdata0),
    IOWR2 |-> IOWR(1, pdata1), IOWR3 |-> IOWR(2, length) ]

\* main() up to the loop.
Configuration ==
  [ IOWR0 |-> IOWR(0, pdata0), IOWR1 |-> IOWR(1, pdata1),
    IOWR2 |-> IOWR(2, length), IOWR3 |-> IOWR(3, 8) ]

\* The CPU of this system makes the accesses of this program and no other.
ASSUME AccessAssumption ==
  CpuAccess = {NoIO, IORD(7)} \cup {Configuration[p] : p \in DOMAIN Configuration}

Following == [ IOWR0 |-> "IOWR1", IOWR1 |-> "IOWR2", IOWR2 |-> "IOWR3", IOWR3 |-> "while" ]

-----------------------------------------------------------------------------
\* rws and wws are the wait requests the two memories may answer with.
Cycle(bus, rws, wws) == \E rw \in rws, ww \in wws : Tick(bus, rw, ww)

Configure(rws, wws) ==
  /\ pc \in DOMAIN Configuration
  /\ Cycle(Configuration[pc], rws, wws)
  /\ pc' = Following[pc]
  /\ UNCHANGED <<c_enable, i, printed>>

\* Bug, or what line 34 intends: wait for DONE.
MutPoll(rws, wws) ==
  /\ pc = "while" /\ c_enable = 1
  /\ Cycle(IORD(7), rws, wws)
  /\ c_enable' = 1 - (oReaddata % 2)
  /\ pc' = IF c_enable' = 0 THEN "handlerStatus" ELSE "while"
  /\ UNCHANGED <<i, printed>>

\* The interconnect samples oReaddata at the edge at which the slave updates
\* it, so the CPU gets what the read before left there.
Poll(rws, wws) ==
  /\ pc = "while" /\ c_enable = 1
  /\ Cycle(IORD(7), rws, wws)
  /\ c_enable' = IF oReaddata <= 2 THEN 0 ELSE c_enable
  /\ pc' = IF oReaddata <= 2 THEN "handlerStatus" ELSE "while"
  /\ UNCHANGED <<i, printed>>

\* Bug: the loop prints the byte after the one it counts.
MutPrintByte(rws, wws) ==
  /\ pc = "handlerStatus" /\ i < length
  /\ Cycle(NoIO, rws, wws)
  /\ printed' = [printed EXCEPT ![i] = mem[At(pdata1, (i + 1) \div 4)]]
  /\ i' = i + 1
  /\ UNCHANGED <<pc, c_enable>>

PrintByte(rws, wws) ==
  /\ pc = "handlerStatus" /\ i < length
  /\ Cycle(NoIO, rws, wws)
  /\ printed' = [printed EXCEPT ![i] = mem[At(pdata1, i \div 4)]]
  /\ i' = i + 1
  /\ UNCHANGED <<pc, c_enable>>

Return(rws, wws) ==
  /\ \/ pc = "handlerStatus" /\ i = length /\ pc' = "while"
     \/ pc = "while" /\ c_enable = 0 /\ pc' = "return"
  /\ Cycle(NoIO, rws, wws)
  /\ UNCHANGED <<c_enable, i, printed>>

Program(rws, wws) ==
  Configure(rws, wws) \/ Poll(rws, wws) \/ PrintByte(rws, wws) \/ Return(rws, wws)

OtherCycle(rws, wws) == Cycle(NoIO, rws, wws) /\ UNCHANGED programVars

HelloInit ==
  /\ SysInit
  /\ pc = "IOWR0" /\ c_enable = 1
  /\ i = 0 /\ printed = [b \in 0 .. length - 1 |-> NoData]

\* A reset restarts the CPU, too.  Its memory keeps what it holds, so enable is
\* only initialised if the program is loaded anew.
HelloReset ==
  /\ SysReset
  /\ pc' = "IOWR0" /\ c_enable' \in {c_enable, 1}
  /\ i' = 0 /\ printed' = [b \in 0 .. length - 1 |-> NoData]

HelloCycle(rws, wws) == Program(rws, wws) \/ OtherCycle(rws, wws)

HelloNext == HelloCycle({0, 1}, {0, 1}) \/ HelloReset

\* The CPU executes its program, the arbiters serve the masters.
HelloFairness ==
  /\ WF_allVars(Program({0, 1}, {0, 1}))
  /\ WF_allVars(HelloCycle({0, 1}, {0, 1}))
  /\ WF_allVars(oRM_read = 1 /\ HelloCycle({0}, {0, 1}))
  /\ WF_allVars(oWM_write = 1 /\ HelloCycle({0, 1}, {0}))

HelloSpec == HelloInit /\ [][HelloNext]_allVars /\ HelloFairness

-----------------------------------------------------------------------------
\* The masters are started with the block the program describes and with no
\* other, once it has written all four registers (lines 30 to 33).
StartedAsProgrammed ==
  job # NoJob =>
    /\ job = [src |-> pdata0, dst |-> pdata1, length |-> length]
    /\ pc \notin {"IOWR0", "IOWR1", "IOWR2", "IOWR3"}

\* The program never prints a wrong word: a byte is either what the memory
\* held before or the byte the DMA copied there.
PrintedOldOrCopied ==
  \A b \in DOMAIN printed : printed[b] \in {NoData, At(pdata0, b \div 4)}

\* main() returns, whatever the status register says, unless it is reset.
MainReturns == pc # "IOWR0" ~> pc \in {"return", "IOWR0"}

\* The block reaches the destination although the program does not wait.
CopyCompletes ==
  pc = "return" ~> \/ pc = "IOWR0"
                   \/ \A w \in 0 .. length \div 4 - 1 : mem[At(pdata1, w)] = At(pdata0, w)

\* "Xu ly dung polling de kiem tra hoan thanh DMA" (line 34: polling is used
\* to check that the DMA has completed): what is printed is the copy.
PollingWaits ==
  \A b \in DOMAIN printed : b < i => printed[b] = At(pdata0, b \div 4)
=============================================================================
