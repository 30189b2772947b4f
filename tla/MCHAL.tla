------------------------------- MODULE MCHAL -------------------------------
(* Two parts of the HAL that have no state in common: a behaviour is one of   *)
(* the descriptors or one of the alarms.  Six descriptors, so three besides   *)
(* the standard streams; two devices, one of which is the console, and a file *)
(* system mounted on /host.  Counters of three bits, two alarms.              *)
EXTENDS alt_file, alt_tick

CONSTANTS jtag, lcd, host

VARIABLE part

MCDevice == {jtag, lcd}
MCFileSystem == {host}
MCMayFail == {lcd, host}
MCPath == [d \in Driver |->
  CASE d = jtag -> <<"dev", "jtag">> [] d = lcd -> <<"dev", "lcd">>
    [] d = host -> <<"host">> [] OTHER -> <<"dev", "null">>]
MCName == {<<"dev", "jtag">>, <<"dev", "lcd">>, <<"host", "file">>, <<"nothing">>}
MCStdName == [i \in Standard |-> <<"dev", "jtag">>]

MCInit == Init /\ AlarmInit /\ part \in {"files", "alarms"}

Files == part = "files" /\ Next /\ UNCHANGED <<part, alarmVars>>
Alarms == part = "alarms" /\ AlarmNext /\ UNCHANGED <<part, vars>>

MCSpec == MCInit /\ [][Files \/ Alarms]_<<part, vars, alarmVars>> /\ AlarmFairness

\* No table, list or clock of the HAL leaves its range; the list of alarms has
\* no repetitions.
HalTypeOK == TypeOK /\ AlarmTypeOK
=============================================================================
