--------------------------- MODULE MCcontrol_slave ---------------------------
(* control_slave.v with an arbitrary CPU and an arbitrary write_master: it *)
(* may report completion in any cycle, the start cycle included.  Control  *)
(* is written with GO set (8) and with only other bits set (7).            *)
EXTENDS control_slave

Write(a, d) == [op |-> "write", address |-> a, writedata |-> d]

StatusRead == [op |-> "read", address |-> 7, writedata |-> 0]

MCCpuAccess == {Idle, StatusRead, [StatusRead EXCEPT !.address = 3]}
  \cup {Write(a, d) : a \in 0 .. 2, d \in {0, 4}} \cup {Write(3, d) : d \in {0, 7, 8}}
  \cup {Write(5, 8)}
=============================================================================
