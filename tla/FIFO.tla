-------------------------------- MODULE FIFO --------------------------------
(***************************************************************************)
(* FIFO.v: the word buffer between read_master and write_master.  Two      *)
(* 8-bit positions run round a memory; their top bits and their low 7 bits *)
(* are compared to derive FF_empty and FF_almostfull.  HALF is 2^7 in the  *)
(* code, so a position is a number modulo 2 * HALF.  The registers are     *)
(* variables, the input ports parameters of the clock edge.                *)
(***************************************************************************)
EXTENDS Integers, Sequences

CONSTANTS HALF,     \* 2^(width of a position - 1): the level FF_almostfull reports
          Data,     \* the words that are stored
          NoData    \* what an entry of the memory holds before it is written

ASSUME FIFOAssumption == HALF \in Nat \ {0} /\ NoData \notin Data

VARIABLES buffer, pos_read, pos_write

fifoVars == <<buffer, pos_read, pos_write>>

Depth == 2 * HALF
Position == 0 .. Depth - 1

\* The top bit and the low bits of a position.
Top(p) == p \div HALF
Low(p) == p % HALF

\* Bug: a position that is not cut to its width.
MutWide(p) == p + 1

Advance(p) == (p + 1) % Depth

compare == Top(pos_write) # Top(pos_read)
equal   == Low(pos_write) = Low(pos_read)

\* Bug: full as soon as the top bits differ.
MutTop == compare

FF_almostfull == compare /\ equal
FF_empty      == ~compare /\ equal
FF_q          == buffer[pos_read]

-----------------------------------------------------------------------------
(* The clock edge.  Both always blocks sample the positions before it.     *)

\* Bug: a word that is stored where the next one belongs.
MutPush(FF_writerequest, FF_data) ==
  /\ FF_writerequest /\ ~FF_almostfull
  /\ buffer' = [buffer EXCEPT ![Advance(pos_write)] = FF_data]
  /\ pos_write' = Advance(pos_write)

Push(FF_writerequest, FF_data) ==
  /\ FF_writerequest /\ ~FF_almostfull
  /\ buffer' = [buffer EXCEPT ![pos_write] = FF_data]
  /\ pos_write' = Advance(pos_write)

NoPush(FF_writerequest) ==
  /\ ~FF_writerequest \/ FF_almostfull
  /\ UNCHANGED <<buffer, pos_write>>

Pop(FF_readrequest) ==
  /\ FF_readrequest /\ ~FF_empty
  /\ pos_read' = Advance(pos_read)

NoPop(FF_readrequest) ==
  /\ ~FF_readrequest \/ FF_empty
  /\ UNCHANGED pos_read

Edge(FF_readrequest, FF_writerequest, FF_data) ==
  /\ Push(FF_writerequest, FF_data) \/ NoPush(FF_writerequest)
  /\ Pop(FF_readrequest) \/ NoPop(FF_readrequest)

-----------------------------------------------------------------------------
\* The memory has no reset: an entry holds whatever it held, and nobody may
\* read one that was not written since.
Init ==
  /\ buffer = [p \in Position |-> NoData]
  /\ pos_read = 0
  /\ pos_write = 0

Reset ==
  /\ pos_read' = 0
  /\ pos_write' = 0
  /\ UNCHANGED buffer

\* On its own the FIFO meets every request its two ports can make.
Next ==
  \/ \E FF_readrequest, FF_writerequest \in BOOLEAN, FF_data \in Data :
       Edge(FF_readrequest, FF_writerequest, FF_data)
  \/ Reset

Spec == Init /\ [][Next]_fifoVars

-----------------------------------------------------------------------------
\* How many words lie between the two positions, and which they are.
Level == (pos_write - pos_read) % Depth

Contents == [i \in 1 .. Level |-> buffer[(pos_read + i - 1) % Depth]]

\* The registers have the width the code gives them.
TypeOK ==
  /\ buffer \in [Position -> Data \cup {NoData}]
  /\ pos_read \in Position
  /\ pos_write \in Position

\* The two flags, derived from single bits, are exact: the positions never
\* drift further apart than HALF, FF_empty is raised exactly when they meet,
\* FF_almostfull exactly at HALF, and every word between them was written.
FlagsExact ==
  /\ Level <= HALF
  /\ FF_empty <=> Level = 0
  /\ FF_almostfull <=> Level = HALF
  /\ \A i \in 1 .. Level : Contents[i] \in Data

\* The FIFO is a bounded queue of HALF words: a request at a port does to the
\* words between the positions what it does to a queue, across every wrap of
\* the positions and every coincidence of the two requests.  Words leave in
\* the order in which they were accepted, none twice, none lost; only a reset
\* empties the FIFO otherwise.
Queue == INSTANCE BoundedQueue WITH Capacity <- HALF, queue <- Contents

PortsActAsQueue ==
  \A FF_readrequest, FF_writerequest \in BOOLEAN, FF_data \in Data :
    Edge(FF_readrequest, FF_writerequest, FF_data)
      => Queue!Edge(FF_readrequest, FF_writerequest, FF_data)

ImplementsQueue ==
  /\ Queue!Init
  /\ [][Queue!Next \/ (Reset /\ Queue!Clear)]_Contents
  /\ [][PortsActAsQueue]_fifoVars
=============================================================================
