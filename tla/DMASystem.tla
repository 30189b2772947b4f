------------------------------ MODULE DMASystem ------------------------------
(***************************************************************************)
(* The DMA controller in its system: a CPU that accesses the control slave *)
(* whenever it likes, and the interconnect to the two on-chip memories.    *)
(* A master shares its memory with the CPU, so any cycle of an access may  *)
(* be answered with a wait request.  A read that is accepted is answered   *)
(* in the next cycle (the memories have a read latency of one).            *)
(*                                                                         *)
(* A source word is represented by its address: the memory behind          *)
(* read_master holds a different word everywhere, which tells every mix-up *)
(* of words apart.                                                         *)
(***************************************************************************)
EXTENDS DMAFinal

CONSTANT NoJob      \* no transfer since the last reset

VARIABLES
  iRM_readdatavalid, iRM_readdata,   \* the answer to the read accepted last
  mem,                               \* what write_master wrote since the last reset
  job                                \* history: the transfer the masters were started with

fabricVars == <<iRM_readdatavalid, iRM_readdata, mem>>
vars == <<dmaVars, fabricVars, job>>

Job == [src : Word, dst : Word, length : Word]

ASSUME SystemAssumption ==
  /\ M \in Nat /\ M >= 16 /\ M % 4 = 0
  /\ HALF \in Nat \ {0}
  /\ NoData \notin Word /\ NoJob \notin Job
  /\ CpuAccess \subseteq control!BusCycle

-----------------------------------------------------------------------------
ReadAccepted(iRM_waitrequest)  == oRM_read = 1 /\ iRM_waitrequest = 0
WriteAccepted(iWM_waitrequest) == oWM_write = 1 /\ iWM_waitrequest = 0

Answer(iRM_waitrequest) ==
  \/ /\ ReadAccepted(iRM_waitrequest)
     /\ iRM_readdatavalid' = 1 /\ iRM_readdata' = oRM_readaddress
  \/ /\ ~ReadAccepted(iRM_waitrequest)
     /\ iRM_readdatavalid' = 0 /\ UNCHANGED iRM_readdata

Store(iWM_waitrequest) ==
  \/ /\ WriteAccepted(iWM_waitrequest)
     /\ mem' = [mem EXCEPT ![oWM_writeaddress] = oWM_writedata]
  \/ ~WriteAccepted(iWM_waitrequest) /\ UNCHANGED mem

Record ==
  \/ /\ oStart = 1
     /\ job' = [src |-> oRM_startaddress, dst |-> oWM_startaddress, length |-> oLength]
  \/ oStart = 0 /\ UNCHANGED job

Tick(bus, iRM_waitrequest, iWM_waitrequest) ==
  /\ Edge(bus, iRM_readdatavalid, iRM_readdata, iRM_waitrequest, iWM_waitrequest)
  /\ Answer(iRM_waitrequest)
  /\ Store(iWM_waitrequest)
  /\ Record

SysInit ==
  /\ Init
  /\ iRM_readdatavalid = 0 /\ iRM_readdata = 0
  /\ mem = [a \in Word |-> NoData]
  /\ job = NoJob

\* The reset reaches the controller and the interconnect: an access under way
\* is dropped.  What the memory holds then is old to the next transfer.
SysReset ==
  /\ Reset
  /\ iRM_readdatavalid' = 0 /\ iRM_readdata' = 0
  /\ job' = NoJob
  /\ mem' = [a \in Word |-> NoData]

SomeTick(waits) ==
  \E bus \in CpuAccess : \E rw, ww \in waits : Tick(bus, rw, ww)

SysNext == SomeTick({0, 1}) \/ SysReset

SysSpec == SysInit /\ [][SysNext]_vars

\* The clock runs, and the arbiters of the two memories are round-robin: an
\* access that is kept up is accepted after a while.
ReadServed  == \E bus \in CpuAccess, ww \in {0, 1} : oRM_read = 1 /\ Tick(bus, 0, ww)
WriteServed == \E bus \in CpuAccess, rw \in {0, 1} : oWM_write = 1 /\ Tick(bus, rw, 0)

Fairness ==
  /\ WF_vars(SomeTick({0, 1}))
  /\ WF_vars(ReadServed)
  /\ WF_vars(WriteServed)

FairSpec == SysSpec /\ Fairness

-----------------------------------------------------------------------------
\* The block as the masters see it, counted in words; the lengths for which
\* the masters ever meet their last address: a positive number of words.
At(base, i) == (base + 4 * i) % M
Words(j) == j.length \div 4
WholeWords(j) == j.length > 0 /\ j.length % 4 = 0
Done == c_state = 2 \/ (c_state = 0 /\ enable = 1)

TypeOK ==
  /\ control!ControlTypeOK /\ wm!TypeOK /\ rm!TypeOK /\ fi!TypeOK
  /\ iRM_readdatavalid \in {0, 1} /\ iRM_readdata \in Word
  /\ mem \in [Word -> Word \cup {NoData}]
  /\ job \in Job \cup {NoJob}

\* The parameters of a transfer cannot change under the masters: from the
\* cycle after the start pulse until DONE the CPU's registers hold what the
\* masters were started with, although the CPU writes when it likes, and the
\* last addresses are those of the programmed block.
BlockFixed ==
  control!BUSY /\ oStart = 0 =>
    /\ job = [src |-> oRM_startaddress, dst |-> oWM_startaddress, length |-> oLength]
    /\ RM_lastwriteaddress = (job.src + job.length) % M
    /\ WM_lastwriteaddress = (job.dst + job.length) % M

\* A word that arrives is taken by the FIFO in that very cycle: nothing keeps
\* it any longer (read_master.v line 12, FIFO.v line 12).
NoWordDropped ==
  iRM_readdatavalid = 1 => rm!oFF_writerequest(iRM_readdatavalid, fi!FF_almostfull)

\* The words that were read and not yet written: the one on the outputs of
\* write_master, those in the FIFO, the one that is arriving.
UnderWay ==
  (IF oWM_write = 1 THEN <<oWM_writedata>> ELSE << >>)
    \o fi!Contents
    \o (IF iRM_readdatavalid = 1 THEN <<iRM_readdata>> ELSE << >>)

\* They are exactly the words between the positions of the two masters in the
\* block, in the order of their addresses: word i of the block goes to place
\* i, whatever the wait requests do to the pace of the masters.
WordsInOrder ==
  job # NoJob => \E w \in 0 .. Words(job) :
    /\ oWM_writeaddress = At(job.dst, w)
    /\ w + Len(UnderWay) <= Words(job)
    /\ oRM_readaddress = At(job.src, w + Len(UnderWay))
    /\ \A i \in 1 .. Len(UnderWay) : UnderWay[i] = At(job.src, w + i - 1)

\* Nothing is written outside the destination block, not even when words are
\* lost: write_master has no bound of its own, it writes what it is given.
StaysInBlock ==
  \A a \in Word : mem[a] # NoData =>
    job # NoJob /\ \E k \in 0 .. Words(job) - 1 : a = At(job.dst, k)

\* A master that is asked to wait holds its access: a read or write request
\* stays up with the same address and data until the fabric takes it.
AccessHeld ==
  [][ job # NoJob /\ job' # NoJob =>
        /\ oRM_read = 1 => \/ iRM_readdatavalid' = 1 /\ iRM_readdata' = oRM_readaddress
                           \/ oRM_read' = 1 /\ oRM_readaddress' = oRM_readaddress
        /\ oWM_write = 1 => \/ mem'[oWM_writeaddress] = oWM_writedata
                            \/ oWM_write' = 1
                               /\ UNCHANGED <<oWM_writeaddress, oWM_writedata>> ]_vars

\* The controller copies the block the way BlockCopy.tla says, and only a
\* reset makes it forget a transfer.
Copy == INSTANCE BlockCopy WITH reported <- (job # NoJob /\ Done)
ImplementsBlockCopy ==
  Copy!Init /\ [][Copy!Next \/ (SysReset /\ Copy!Clear)]_<<mem, job, Done>>

\* A transfer that was started ends: the CPU sees BUSY go away, unless the
\* length is no positive number of words.
TransferEnds == job # NoJob /\ WholeWords(job) ~> job = NoJob \/ Done

\* Every word of the block reaches the destination, even when the end was
\* reported before the last one did.  oLength is "chieu dai khoi du lieu can
\* truyen" (control_slave.v line 57: the length of the block to transfer), yet
\* this holds only up to HALF + 1 words: of a longer block one word is lost
\* when write_master is kept waiting and the FIFO fills up under read_master.
BlockArrives ==
  job # NoJob /\ WholeWords(job)
    ~> job = NoJob \/ \A k \in 0 .. Words(job) - 1 : Copy!Copied(job, k)

-----------------------------------------------------------------------------
\* "DONE = 1: bao hieu qua trinh DMA da ket thuc" (control_slave.v line 34:
\* the DMA process has ended): after it write_master gives its memory back.
ReleasesMemory == job # NoJob /\ Done ~> job = NoJob \/ oWM_write = 0
=============================================================================
