------------------------------ MODULE DMAFinal ------------------------------
(***************************************************************************)
(* DMAFinal.v: the DMA controller, which wires the control slave, the two  *)
(* masters and the FIFO together.  The instances have the names they have  *)
(* there.  All parts share one clock: Edge is a clock edge of all of them, *)
(* its parameters are the input ports that come from the fabric.           *)
(***************************************************************************)
EXTENDS Integers, Sequences

CONSTANTS M,           \* how many values a 32-bit register has (2^32)
          HALF,        \* how many words the FIFO takes (2^7)
          CpuAccess,   \* the accesses the CPU may make
          NoData       \* what no word is equal to

VARIABLES
  \* control
  oRM_startaddress, oWM_startaddress, oLength, control_reg, oReaddata,
  status, oStart, c_state, enable,
  \* wm
  wm_state, oWM_done, oWM_write, oWM_writeaddress, oWM_writedata,
  WM_lastwriteaddress,
  \* rm
  rm_state, oRM_read, oRM_readaddress, RM_lastwriteaddress,
  \* fi
  buffer, pos_read, pos_write

Word == 0 .. M - 1

control == INSTANCE control_slave WITH control <- control_reg, state <- c_state
wm == INSTANCE write_master WITH state <- wm_state
rm == INSTANCE read_master WITH state <- rm_state
fi == INSTANCE FIFO WITH Data <- Word

controlVars == <<oRM_startaddress, oWM_startaddress, oLength, control_reg, oReaddata,
                 status, oStart, c_state, enable>>
wmVars == <<wm_state, oWM_done, oWM_write, oWM_writeaddress, oWM_writedata,
            WM_lastwriteaddress>>
rmVars == <<rm_state, oRM_read, oRM_readaddress, RM_lastwriteaddress>>
fiVars == <<buffer, pos_read, pos_write>>
dmaVars == <<controlVars, wmVars, rmVars, fiVars>>

Init == control!ControlInit /\ wm!Init /\ rm!Init /\ fi!Init

Reset == control!ControlReset /\ wm!Reset /\ rm!Reset /\ fi!Reset

Edge(bus, iRM_readdatavalid, iRM_readdata, iRM_waitrequest, iWM_waitrequest) ==
  /\ control!ControlEdge(bus, oWM_done)
  /\ wm!Edge(oStart, oWM_startaddress, oLength, iWM_waitrequest, fi!FF_empty, fi!FF_q)
  /\ rm!Edge(oStart, oLength, oRM_startaddress, iRM_waitrequest, fi!FF_almostfull)
  /\ fi!Edge(wm!oFF_readrequest(fi!FF_empty),
             rm!oFF_writerequest(iRM_readdatavalid, fi!FF_almostfull),
             rm!oFF_data(iRM_readdata))
=============================================================================
