---------------------------- MODULE MCDMASystem ----------------------------
(* The controller with 5-bit addresses and a FIFO of two words.  The CPU   *)
(* programs one of two sources and one of two destinations, the upper of   *)
(* which makes the block wrap round the address space.                     *)
EXTENDS DMASystem

Write(a, d) == [op |-> "write", address |-> a, writedata |-> d]
StatusRead  == [op |-> "read", address |-> 7, writedata |-> 0]
Idle        == [op |-> "idle", address |-> 0, writedata |-> 0]

Accesses(srcs, dsts, lengths) ==
  {Idle, StatusRead, Write(3, 8)}
    \cup {Write(0, d) : d \in srcs} \cup {Write(1, d) : d \in dsts}
    \cup {Write(2, d) : d \in lengths}

\* With HALF = 2: at most HALF + 1 words, few choices for the temporal
\* properties, and one word more than HALF + 1.
ShortBlocks == Accesses({0, 12}, {4, 24}, {4, 8, 12})
FewBlocks   == Accesses({12}, {24}, {4, 12})
LongBlocks  == Accesses({4}, {8}, {16})
=============================================================================
