---------------------------- MODULE write_master ----------------------------
(***************************************************************************)
(* write_master.v: the Avalon write master.  It takes a word from the FIFO *)
(* whenever there is one, writes it, and reports that the transfer is done *)
(* when it has the last word on its outputs.                               *)
(***************************************************************************)
EXTENDS Integers

CONSTANT M      \* how many values a 32-bit register has (2^32)

VARIABLES state, oWM_done, oWM_write, oWM_writeaddress, oWM_writedata,
          WM_lastwriteaddress

masterVars == <<state, oWM_done, oWM_write, oWM_writeaddress, oWM_writedata,
                WM_lastwriteaddress>>

oFF_readrequest(iFF_empty) == ~iFF_empty /\ state = 0

\* Bug: the last word but one is taken for the last one.
MutLastWord == WM_lastwriteaddress = (oWM_writeaddress + 8) % M

LastWord == WM_lastwriteaddress = (oWM_writeaddress + 4) % M

-----------------------------------------------------------------------------
(* The clock edge.                                                         *)

\* Bugs: a word that is written without being taken over from the FIFO; an
\* address that is not cut to its width; no report when the last word is
\* accepted at once.
MutTake(iFF_empty, iFF_q) ==
  /\ state = 0 /\ ~iFF_empty
  /\ state' = 1 /\ oWM_write' = 1
  /\ UNCHANGED <<oWM_writedata, oWM_done, oWM_writeaddress, WM_lastwriteaddress>>

MutWrittenWide(iWM_waitrequest) ==
  /\ state = 1 /\ iWM_waitrequest = 0
  /\ oWM_writeaddress' = oWM_writeaddress + 4
  /\ oWM_write' = 0 /\ state' = 0
  /\ oWM_done' = IF LastWord THEN 1 ELSE oWM_done
  /\ UNCHANGED <<oWM_writedata, WM_lastwriteaddress>>

MutWritten(iWM_waitrequest) ==
  /\ state = 1 /\ iWM_waitrequest = 0
  /\ oWM_writeaddress' = (oWM_writeaddress + 4) % M
  /\ oWM_write' = 0 /\ state' = 0
  /\ UNCHANGED <<oWM_done, oWM_writedata, WM_lastwriteaddress>>

Load(iLength, iWM_startaddress) ==
  /\ oWM_writeaddress' = iWM_startaddress
  /\ WM_lastwriteaddress' = (iWM_startaddress + iLength) % M
  /\ UNCHANGED <<state, oWM_done, oWM_write, oWM_writedata>>

Idle(iFF_empty) ==
  /\ state = 0 /\ iFF_empty
  /\ UNCHANGED masterVars

Take(iFF_empty, iFF_q) ==
  /\ state = 0 /\ ~iFF_empty
  /\ state' = 1 /\ oWM_write' = 1
  /\ oWM_writedata' = iFF_q
  /\ UNCHANGED <<oWM_done, oWM_writeaddress, WM_lastwriteaddress>>

\* The fabric accepts the word: the assignments of this branch override the
\* move to state 2 that the test for the last word makes.
Written(iWM_waitrequest) ==
  /\ state = 1 /\ iWM_waitrequest = 0
  /\ oWM_writeaddress' = (oWM_writeaddress + 4) % M
  /\ oWM_write' = 0 /\ state' = 0
  /\ oWM_done' = IF LastWord THEN 1 ELSE oWM_done
  /\ UNCHANGED <<oWM_writedata, WM_lastwriteaddress>>

\* The fabric asks to wait: the last word is reported all the same, and the
\* master leaves state 1 with oWM_write still raised.
Stalled(iWM_waitrequest) ==
  /\ state = 1 /\ iWM_waitrequest = 1
  /\ state' = IF LastWord THEN 2 ELSE 1
  /\ oWM_done' = IF LastWord THEN 1 ELSE oWM_done
  /\ UNCHANGED <<oWM_write, oWM_writeaddress, oWM_writedata, WM_lastwriteaddress>>

Return ==
  /\ state = 2
  /\ oWM_done' = 0 /\ state' = 0
  /\ UNCHANGED <<oWM_write, oWM_writeaddress, oWM_writedata, WM_lastwriteaddress>>

Edge(iStart, iWM_startaddress, iLength, iWM_waitrequest, iFF_empty, iFF_q) ==
  \/ iStart = 1 /\ Load(iLength, iWM_startaddress)
  \/ /\ iStart = 0
     /\ \/ Idle(iFF_empty) \/ Take(iFF_empty, iFF_q)
        \/ Written(iWM_waitrequest) \/ Stalled(iWM_waitrequest)
        \/ Return

-----------------------------------------------------------------------------
Init ==
  /\ state = 0 /\ oWM_done = 0 /\ oWM_write = 0
  /\ oWM_writeaddress = 0 /\ oWM_writedata = 0 /\ WM_lastwriteaddress = 0

Reset ==
  /\ state' = 0 /\ oWM_done' = 0 /\ oWM_write' = 0
  /\ oWM_writeaddress' = 0 /\ oWM_writedata' = 0 /\ WM_lastwriteaddress' = 0

TypeOK ==
  /\ state \in 0 .. 2 /\ oWM_done \in {0, 1} /\ oWM_write \in {0, 1}
  /\ oWM_writeaddress \in 0 .. M - 1 /\ oWM_writedata \in 0 .. M - 1
  /\ WM_lastwriteaddress \in 0 .. M - 1
=============================================================================
