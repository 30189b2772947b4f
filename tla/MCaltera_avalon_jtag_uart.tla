---------------------- MODULE MCaltera_avalon_jtag_uart ----------------------
(* A ring buffer for two characters and hardware for two.  Four characters   *)
(* take each ring buffer round and fill everything; the other limits mix.    *)
EXTENDS altera_avalon_jtag_uart

MCLimits == {[program |-> 4, host |-> 0], [program |-> 0, host |-> 4],
             [program |-> 1, host |-> 2], [program |-> 2, host |-> 1]}
=============================================================================
