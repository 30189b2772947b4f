----------------------------- MODULE read_master -----------------------------
(***************************************************************************)
(* read_master.v: the Avalon read master.  From the start pulse on it asks *)
(* for one word after the other until its address reaches the last one,    *)
(* and passes every word that arrives to the FIFO.  Outside a transfer its *)
(* address equals the last one and it alternates between states 0 and 1.   *)
(***************************************************************************)
EXTENDS Integers

CONSTANT M      \* how many values a 32-bit register has (2^32)

VARIABLES state, oRM_read, oRM_readaddress, RM_lastwriteaddress

masterVars == <<state, oRM_read, oRM_readaddress, RM_lastwriteaddress>>

-----------------------------------------------------------------------------
(* The combinational outputs to the FIFO.                                  *)

oFF_writerequest(iRM_readdatavalid, iFF_almostfull) ==
  ~iFF_almostfull /\ state = 0 /\ iRM_readdatavalid = 1

\* The latch behind oFF_data only matters while a word is arriving.
oFF_data(iRM_readdata) == iRM_readdata

-----------------------------------------------------------------------------
(* The clock edge.                                                         *)

\* Bugs: a last address that is the one of the last word; a master that asks
\* for the next word at once; an address that moves on although the fabric
\* asked the master to wait.
MutLoad(iLength, iRM_startaddress) ==
  /\ oRM_readaddress' = iRM_startaddress
  /\ RM_lastwriteaddress' = (iRM_startaddress + iLength - 4) % M
  /\ UNCHANGED <<state, oRM_read>>

MutAccepted(iRM_waitrequest) ==
  /\ state = 2 /\ iRM_waitrequest = 0
  /\ oRM_readaddress' = (oRM_readaddress + 4) % M
  /\ oRM_read' = 0 /\ state' = 1
  /\ UNCHANGED RM_lastwriteaddress

MutWaiting(iRM_waitrequest) ==
  /\ state = 2 /\ iRM_waitrequest = 1
  /\ oRM_readaddress' = (oRM_readaddress + 4) % M
  /\ UNCHANGED <<state, oRM_read, RM_lastwriteaddress>>

Load(iLength, iRM_startaddress) ==
  /\ oRM_readaddress' = iRM_startaddress
  /\ RM_lastwriteaddress' = (iRM_startaddress + iLength) % M
  /\ UNCHANGED <<state, oRM_read>>

Begin(iFF_almostfull) ==
  /\ state = 0 /\ ~iFF_almostfull
  /\ state' = 1
  /\ UNCHANGED <<oRM_read, oRM_readaddress, RM_lastwriteaddress>>

Hold(iFF_almostfull) ==
  /\ state = 0 /\ iFF_almostfull
  /\ UNCHANGED masterVars

Finish ==
  /\ state = 1 /\ oRM_readaddress = RM_lastwriteaddress
  /\ state' = 0
  /\ UNCHANGED <<oRM_read, oRM_readaddress, RM_lastwriteaddress>>

Request ==
  /\ state = 1 /\ oRM_readaddress # RM_lastwriteaddress
  /\ oRM_read' = 1 /\ state' = 2
  /\ UNCHANGED <<oRM_readaddress, RM_lastwriteaddress>>

Accepted(iRM_waitrequest) ==
  /\ state = 2 /\ iRM_waitrequest = 0
  /\ oRM_readaddress' = (oRM_readaddress + 4) % M
  /\ oRM_read' = 0 /\ state' = 0
  /\ UNCHANGED RM_lastwriteaddress

Waiting(iRM_waitrequest) ==
  /\ state = 2 /\ iRM_waitrequest = 1
  /\ UNCHANGED masterVars

Edge(iStart, iLength, iRM_startaddress, iRM_waitrequest, iFF_almostfull) ==
  \/ iStart = 1 /\ Load(iLength, iRM_startaddress)
  \/ /\ iStart = 0
     /\ \/ Begin(iFF_almostfull) \/ Hold(iFF_almostfull)
        \/ Finish \/ Request
        \/ Accepted(iRM_waitrequest) \/ Waiting(iRM_waitrequest)

-----------------------------------------------------------------------------
Init ==
  /\ state = 0 /\ oRM_read = 0
  /\ oRM_readaddress = 0 /\ RM_lastwriteaddress = 0

Reset ==
  /\ state' = 0 /\ oRM_read' = 0
  /\ oRM_readaddress' = 0 /\ RM_lastwriteaddress' = 0

TypeOK ==
  /\ state \in 0 .. 2 /\ oRM_read \in {0, 1}
  /\ oRM_readaddress \in 0 .. M - 1 /\ RM_lastwriteaddress \in 0 .. M - 1
=============================================================================
