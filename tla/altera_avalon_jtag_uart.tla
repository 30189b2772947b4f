---------------------- MODULE altera_avalon_jtag_uart ----------------------
(***************************************************************************)
(* The driver of the JTAG UART in both its builds: "fast", with ring       *)
(* buffers and an interrupt routine, and "small", which polls.  One        *)
(* program calls it; the interrupt routine suspends the program, and the   *)
(* host goes on sending and receiving meanwhile.  The core                 *)
(* (System_jtag_uart_0.v) has a FIFO in each direction; characters are     *)
(* numbered in the order in which the program or the host sends them.      *)
(***************************************************************************)
EXTENDS Integers, Sequences, FiniteSets

CONSTANTS
  BUF_LEN,          \* ALTERA_AVALON_JTAG_UART_BUF_LEN, 2048
  DEPTH, THRESHOLD, \* of the hardware's FIFOs, 64 and 8
  DEFAULT_TIMEOUT, INT_MAX,
  Counts,           \* lengths the program asks for
  Timeouts,         \* arguments of TIOCSTIMEOUT
  Limits            \* bounds: how many characters the program and the host send

ASSUME UartAssumption ==
  /\ BUF_LEN \in Nat /\ BUF_LEN > 1
  /\ DEPTH \in Nat /\ THRESHOLD \in Nat /\ THRESHOLD < DEPTH
  /\ DEFAULT_TIMEOUT \in Nat /\ INT_MAX \in Nat
  /\ 2 <= DEFAULT_TIMEOUT /\ DEFAULT_TIMEOUT < INT_MAX
  /\ Counts \subseteq Nat /\ Timeouts \subseteq Nat
  /\ Limits \subseteq [program : Nat, host : Nat]

VARIABLES
  build, limit,
  timeout, host_inactive,
  irq_enable,                   \* also the enable bits of the hardware
  rx_in, rx_out, rx_buf, tx_in, tx_out, tx_buf,
  rfifo, wfifo, pause_irq, ac,  \* the hardware
  isr,                          \* where the interrupt routine is, with its locals
  pc, call,                     \* where the program is, with its locals
  sent, received, hostSent, hostReceived,  \* history: characters so far
  quiet                         \* history: the host has been inactive since the call began

driver == <<timeout, host_inactive, irq_enable>>
rx == <<rx_in, rx_out, rx_buf>>
tx == <<tx_in, tx_out, tx_buf>>
hw == <<rfifo, wfifo, pause_irq, ac>>
prog == <<pc, call>>
chars == <<sent, received, hostSent, hostReceived>>
vars == <<build, limit, driver, rx, tx, hw, isr, prog, chars, quiet>>

Place == 0 .. BUF_LEN - 1

\* Bug: a position runs past the end.
MutStep(i, n) == i + n

Step(i, n) == (i + n) % BUF_LEN
From(first, n) == [k \in 1 .. n |-> first + k - 1]

\* The characters of a ring buffer, oldest first.
Ring(buf, in, out) == [k \in 1 .. (in - out) % BUF_LEN |-> buf[Step(out, k - 1)]]
RxRing == Ring(rx_buf, rx_in, rx_out)
TxRing == Ring(tx_buf, tx_in, tx_out)

Smaller(x, y) == IF x < y THEN x ELSE y

-----------------------------------------------------------------------------
\* The core.  WI (ipen_AE): transmitting is enabled and the FIFO nearly empty;
\* RI (ipen_AF): receiving is enabled, and the host has paused or the FIFO is
\* nearly full.  fifo_AE and fifo_AF are registered: they tell of the level
\* one clock before, so an event of the host on that very clock is one that
\* comes after the access.
WSPACE == DEPTH - Len(wfifo)
fifo_AE == Len(wfifo) <= THRESHOLD
fifo_AF == DEPTH - Len(rfifo) <= THRESHOLD
WI == "WE" \in irq_enable /\ fifo_AE
RI == "RE" \in irq_enable /\ (pause_irq \/ fifo_AF)

\* A character for a full FIFO is lost.
WriteData(c) == wfifo' = IF WSPACE > 0 THEN Append(wfifo, c) ELSE wfifo

HostSends ==
  /\ Len(rfifo) < DEPTH /\ hostSent < limit.host
  /\ rfifo' = Append(rfifo, hostSent) /\ hostSent' = hostSent + 1
  /\ ac' = TRUE
  /\ UNCHANGED <<build, limit, driver, rx, tx, wfifo, pause_irq, isr, prog, sent, received,
                 hostReceived, quiet>>

\* A pause is activity, and is remembered if there is a character to read.
HostPauses ==
  /\ pause_irq' = (pause_irq \/ rfifo # << >>) /\ ac' = TRUE
  /\ UNCHANGED <<build, limit, driver, rx, tx, rfifo, wfifo, isr, prog, chars, quiet>>

\* Taking a character is no activity of the host.
HostReceives ==
  /\ wfifo # << >>
  /\ wfifo' = Tail(wfifo) /\ hostReceived' = hostReceived + 1
  /\ UNCHANGED <<build, limit, driver, rx, tx, rfifo, pause_irq, ac, isr, prog, sent, received,
                 hostSent, quiet>>

-----------------------------------------------------------------------------
Idle == [at |-> "idle", wi |-> FALSE, space |-> 0, avail |-> FALSE]
Suspended == isr.at # "idle"

NoCall == [op |-> "none", nonblock |-> FALSE, asked |-> 0, done |-> 0,
           seen |-> 0, chunk |-> << >>, rc |-> 0]

Init ==
  /\ build \in {"fast", "small"} /\ limit \in Limits
  /\ timeout = DEFAULT_TIMEOUT /\ host_inactive = 0 /\ irq_enable = {}
  /\ rx_in = 0 /\ rx_out = 0 /\ rx_buf = [i \in Place |-> 0]
  /\ tx_in = 0 /\ tx_out = 0 /\ tx_buf = [i \in Place |-> 0]
  /\ rfifo = << >> /\ wfifo = << >> /\ pause_irq = FALSE /\ ac = FALSE
  /\ isr = Idle /\ pc = "init" /\ call = NoCall
  /\ sent = 0 /\ received = 0 /\ hostSent = 0 /\ hostReceived = 0
  /\ quiet = FALSE

\* Without a system clock the alarm is refused, and the host counts as present.
altera_avalon_jtag_uart_init ==
  /\ pc = "init" /\ pc' = "main"
  /\ IF build = "small" THEN UNCHANGED driver
     ELSE /\ irq_enable' = {"RE"} /\ host_inactive' = 0
          /\ timeout' \in {timeout, INT_MAX}
  /\ UNCHANGED <<build, limit, rx, tx, hw, isr, call, chars, quiet>>

Clock == build = "fast" /\ pc # "init" /\ timeout # INT_MAX

\* The alarm's callback, at interrupt level.
altera_avalon_jtag_uart_timeout ==
  /\ Clock /\ ~Suspended
  /\ IF ac THEN ac' = FALSE /\ host_inactive' = 0
     ELSE /\ host_inactive' = IF host_inactive < INT_MAX - 2 THEN host_inactive + 1
                              ELSE host_inactive
          /\ UNCHANGED ac
  /\ quiet' = (quiet \/ host_inactive' >= timeout)
  /\ UNCHANGED <<build, limit, timeout, irq_enable, rx, tx, rfifo, wfifo, pause_irq, isr, prog, chars>>

-----------------------------------------------------------------------------
\* The interrupt routine, one register access at a time.

Interrupt ==
  /\ build = "fast" /\ pc # "init" /\ ~Suspended /\ (RI \/ WI)
  /\ isr' = [Idle EXCEPT !.at = "control"]
  /\ UNCHANGED <<build, limit, driver, rx, tx, hw, prog, chars, quiet>>

ReadControl ==
  /\ isr.at = "control"
  /\ isr' = IF ~RI /\ ~WI THEN Idle
            ELSE [at |-> IF RI THEN "receive" ELSE "transmit", wi |-> WI,
                  space |-> IF WI THEN WSPACE ELSE 0, avail |-> RI]
  /\ UNCHANGED <<build, limit, driver, rx, tx, hw, prog, chars, quiet>>

Received == IF isr.wi THEN [isr EXCEPT !.at = "transmit", !.avail = FALSE]
            ELSE [Idle EXCEPT !.at = "control"]

RxFull == Step(rx_in, 1) = rx_out

\* Every read of the data register ends a pause.
ReceiveCharacter ==
  /\ isr.at = "receive" /\ ~RxFull /\ rfifo # << >>
  /\ rfifo' = Tail(rfifo) /\ pause_irq' = FALSE
  /\ rx_buf' = [rx_buf EXCEPT ![rx_in] = Head(rfifo)]
  /\ rx_in' = Step(rx_in, 1)
  /\ isr' = [isr EXCEPT !.avail = Tail(rfifo) # << >>]
  /\ UNCHANGED <<build, limit, driver, rx_out, tx, wfifo, ac, prog, chars, quiet>>

\* There is no character: the register says so, and how many there are.
ReceiveNothing ==
  /\ isr.at = "receive" /\ ~RxFull /\ rfifo = << >>
  /\ pause_irq' = FALSE
  /\ isr' = Received
  /\ UNCHANGED <<build, limit, driver, rx, tx, rfifo, wfifo, ac, prog, chars, quiet>>

\* The same when a character comes in on the clock edge of the read: none is
\* valid, one is available, and the routine turns receiving off as though the
\* ring buffer were full.
ReceiveTooEarly ==
  /\ isr.at = "receive" /\ ~RxFull /\ rfifo = << >> /\ hostSent < limit.host
  /\ pause_irq' = FALSE /\ ac' = TRUE
  /\ rfifo' = <<hostSent>> /\ hostSent' = hostSent + 1
  /\ irq_enable' = irq_enable \ {"RE"}
  /\ isr' = Received
  /\ UNCHANGED <<build, limit, timeout, host_inactive, rx, tx, wfifo, prog, sent, received,
                 hostReceived, quiet>>

\* The ring buffer is full.  Receiving is turned off if the last read, or the
\* interrupt itself, told of a character that is waiting.
ReceiveFull ==
  /\ isr.at = "receive" /\ RxFull
  /\ irq_enable' = IF isr.avail THEN irq_enable \ {"RE"} ELSE irq_enable
  /\ isr' = Received
  /\ UNCHANGED <<build, limit, timeout, host_inactive, rx, tx, hw, prog, chars, quiet>>

\* The space is what control said; the host may have made more since.
TransmitCharacter ==
  /\ isr.at = "transmit" /\ isr.space > 0 /\ tx_out # tx_in
  /\ WriteData(tx_buf[tx_out])
  /\ tx_out' = Step(tx_out, 1)
  /\ isr' = [isr EXCEPT !.space = @ - 1]
  /\ UNCHANGED <<build, limit, driver, rx, tx_in, tx_buf, rfifo, pause_irq, ac, prog, chars, quiet>>

\* Bug: transmitting is turned off whenever the loop ends.
MutTransmitOff == TRUE

TransmitOff == isr.space > 0

TransmitDone ==
  /\ isr.at = "transmit" /\ (isr.space = 0 \/ tx_out = tx_in)
  /\ irq_enable' = IF TransmitOff THEN irq_enable \ {"WE"} ELSE irq_enable
  /\ isr' = [Idle EXCEPT !.at = "control"]
  /\ UNCHANGED <<build, limit, timeout, host_inactive, rx, tx, hw, prog, chars, quiet>>

altera_avalon_jtag_uart_irq ==
  \/ ReadControl
  \/ ReceiveCharacter \/ ReceiveNothing \/ ReceiveTooEarly \/ ReceiveFull
  \/ TransmitCharacter \/ TransmitDone

-----------------------------------------------------------------------------
\* The program.  done is ptr - start or ptr - buffer, seen the position of the
\* other side that a copy was based on, chunk what memcpy() has just copied.

EIO == 5
EWOULDBLOCK == 11

Inactive == host_inactive >= timeout

At(label) == pc = label /\ ~Suspended

Call(op, nonblock, asked) ==
  /\ At("main") /\ pc' = op
  /\ op = "write" => sent + asked <= limit.program
  /\ call' = [NoCall EXCEPT !.op = op, !.nonblock = nonblock, !.asked = asked]
  /\ quiet' = Inactive
  /\ UNCHANGED <<build, limit, driver, rx, tx, hw, isr, chars>>

Goto(label) == pc' = label /\ UNCHANGED call

Return(rc) == pc' = "return" /\ call' = [call EXCEPT !.rc = rc]

\* What write() and read() answer.
Answer == IF call.done > 0 THEN call.done
          ELSE IF call.nonblock THEN -EWOULDBLOCK ELSE -EIO

ReturnToProgram ==
  /\ At("return") /\ pc' = "main" /\ call' = NoCall /\ quiet' = FALSE
  /\ UNCHANGED <<build, limit, driver, rx, tx, hw, isr, chars>>

Left == call.asked - call.done

\* Bug: a full ring buffer looks empty.
MutTxSpace == IF tx_in < tx_out THEN tx_out - 1 - tx_in ELSE BUF_LEN - tx_in

\* What can be copied in one piece.
TxSpace == IF tx_in < tx_out THEN tx_out - 1 - tx_in
           ELSE IF tx_out > 0 THEN BUF_LEN - tx_in ELSE BUF_LEN - 1 - tx_in

WriteCopy ==
  /\ At("write") /\ build = "fast" /\ Left > 0 /\ TxSpace > 0
  /\ LET n == Smaller(TxSpace, Left) IN
     /\ call' = [call EXCEPT !.chunk = From(sent, n), !.seen = tx_out, !.done = @ + n]
     /\ tx_buf' = [i \in Place |-> IF i \in tx_in .. tx_in + n - 1
                                   THEN sent + i - tx_in ELSE tx_buf[i]]
  /\ pc' = "write_in"
  /\ UNCHANGED <<build, limit, driver, rx, tx_in, tx_out, hw, isr, chars, quiet>>

WritePublish ==
  /\ At("write_in")
  /\ tx_in' = Step(tx_in, Len(call.chunk))
  /\ sent' = sent + Len(call.chunk)
  /\ call' = [call EXCEPT !.chunk = << >>]
  /\ pc' = "write"
  /\ UNCHANGED <<build, limit, driver, rx, tx_out, tx_buf, hw, isr, received, hostSent, hostReceived,
                 quiet>>

WriteCopied ==
  /\ At("write") /\ build = "fast" /\ (Left = 0 \/ TxSpace = 0)
  /\ call' = [call EXCEPT !.seen = IF Left > 0 THEN tx_out ELSE @]
  /\ pc' = "write_kick"
  /\ UNCHANGED <<build, limit, driver, rx, tx, hw, isr, chars, quiet>>

\* With interrupts disabled: transmit.
WriteKick ==
  /\ At("write_kick")
  /\ irq_enable' = irq_enable \cup {"WE"}
  /\ IF Left = 0 \/ call.nonblock THEN Return(Answer) ELSE Goto("write_wait")
  /\ UNCHANGED <<build, limit, timeout, host_inactive, rx, tx, hw, isr, chars, quiet>>

\* Bug: the loop does not wait.
MutWriteWait ==
  /\ At("write_wait")
  /\ Goto("write_look")
  /\ UNCHANGED <<build, limit, driver, rx, tx, hw, isr, chars, quiet>>

WriteWait ==
  /\ At("write_wait") /\ (call.seen # tx_out \/ Inactive)
  /\ Goto("write_look")
  /\ UNCHANGED <<build, limit, driver, rx, tx, hw, isr, chars, quiet>>

WriteLook ==
  /\ At("write_look")
  /\ IF call.seen = tx_out THEN Return(Answer) ELSE Goto("write")
  /\ UNCHANGED <<build, limit, driver, rx, tx, hw, isr, chars, quiet>>

\* The small driver waits for the hardware, character by character.
SmallWrite ==
  /\ At("write") /\ build = "small"
  /\ IF Left = 0 THEN Return(call.asked) /\ UNCHANGED <<wfifo, sent>>
     ELSE /\ WSPACE > 0 /\ WriteData(sent) /\ sent' = sent + 1
          /\ pc' = pc /\ call' = [call EXCEPT !.done = @ + 1]
  /\ UNCHANGED <<build, limit, driver, rx, tx, rfifo, pause_irq, ac, isr, received, hostSent,
                 hostReceived, quiet>>

altera_avalon_jtag_uart_write ==
  \/ WriteCopy \/ WritePublish \/ WriteCopied \/ WriteKick \/ WriteWait \/ WriteLook
  \/ SmallWrite

-----------------------------------------------------------------------------
\* What can be taken in one piece.
RxCount == IF rx_in >= rx_out THEN rx_in - rx_out ELSE BUF_LEN - rx_out

ReadCopy ==
  /\ At("read") /\ build = "fast" /\ Left > 0 /\ RxCount > 0
  /\ LET n == Smaller(RxCount, Left) IN
     call' = [call EXCEPT !.chunk = [k \in 1 .. n |-> rx_buf[rx_out + k - 1]],
                          !.done = @ + n]
  /\ pc' = "read_out"
  /\ UNCHANGED <<build, limit, driver, rx, tx, hw, isr, chars, quiet>>

ReadRelease ==
  /\ At("read_out")
  /\ rx_out' = Step(rx_out, Len(call.chunk))
  /\ received' = received + Len(call.chunk)
  /\ call' = [call EXCEPT !.chunk = << >>]
  /\ pc' = "read"
  /\ UNCHANGED <<build, limit, driver, rx_in, rx_buf, tx, hw, isr, sent, hostSent, hostReceived, quiet>>

\* All is copied, or there is no more; only a blocking call that has nothing waits.
ReadCopied ==
  /\ At("read") /\ build = "fast" /\ (Left = 0 \/ RxCount = 0)
  /\ IF call.done > 0 THEN Goto("read_kick")
     ELSE IF Left = 0 \/ call.nonblock THEN Return(Answer)
     ELSE pc' = "read_wait" /\ call' = [call EXCEPT !.seen = rx_in]
  /\ UNCHANGED <<build, limit, driver, rx, tx, hw, isr, chars, quiet>>

ReadWait ==
  /\ At("read_wait") /\ (call.seen # rx_in \/ Inactive)
  /\ Goto("read_look")
  /\ UNCHANGED <<build, limit, driver, rx, tx, hw, isr, chars, quiet>>

ReadLook ==
  /\ At("read_look")
  /\ IF call.seen = rx_in THEN Return(Answer) ELSE Goto("read")
  /\ UNCHANGED <<build, limit, driver, rx, tx, hw, isr, chars, quiet>>

\* Bug: receiving is not turned on again.
MutReadKick ==
  /\ At("read_kick")
  /\ Return(Answer)
  /\ UNCHANGED <<build, limit, driver, rx, tx, hw, isr, chars, quiet>>

\* With interrupts disabled: there is space again.
ReadKick ==
  /\ At("read_kick")
  /\ irq_enable' = irq_enable \cup {"RE"}
  /\ Return(Answer)
  /\ UNCHANGED <<build, limit, timeout, host_inactive, rx, tx, hw, isr, chars, quiet>>

\* The small driver polls; it waits only for the first character.
SmallRead ==
  /\ At("read") /\ build = "small"
  /\ IF Left > 0 /\ rfifo # << >>
     THEN /\ rfifo' = Tail(rfifo) /\ received' = received + 1
          /\ pc' = pc /\ call' = [call EXCEPT !.done = @ + 1]
     ELSE /\ Left = 0 \/ call.done > 0 \/ call.nonblock
          /\ Return(Answer) /\ UNCHANGED <<rfifo, received>>
  /\ pause_irq' = (Left = 0 /\ pause_irq)
  /\ UNCHANGED <<build, limit, driver, rx, tx, wfifo, ac, isr, sent, hostSent, hostReceived, quiet>>

altera_avalon_jtag_uart_read ==
  \/ ReadCopy \/ ReadRelease \/ ReadCopied \/ ReadWait \/ ReadLook \/ ReadKick
  \/ SmallRead

\* The small driver has no close().
altera_avalon_jtag_uart_close ==
  /\ At("close")
  /\ \/ (tx_out = tx_in \/ Inactive \/ build = "small") /\ Return(0)
     \/ tx_out # tx_in /\ ~Inactive /\ call.nonblock /\ Return(-EWOULDBLOCK)
  /\ UNCHANGED <<build, limit, driver, rx, tx, hw, isr, chars, quiet>>

\* TIOCSTIMEOUT; TIOCGCONNECTED changes nothing.  Without an alarm, and in the
\* small driver, there is no such request.
altera_avalon_jtag_uart_ioctl(t) ==
  /\ At("main") /\ build = "fast" /\ timeout # INT_MAX
  /\ timeout' = IF t >= 2 /\ t < INT_MAX THEN t ELSE INT_MAX - 1
  /\ UNCHANGED <<build, limit, host_inactive, irq_enable, rx, tx, hw, isr, prog, chars, quiet>>

Program ==
  \/ altera_avalon_jtag_uart_write
  \/ altera_avalon_jtag_uart_read
  \/ altera_avalon_jtag_uart_close
  \/ ReturnToProgram

Next ==
  \/ altera_avalon_jtag_uart_init
  \/ \E op \in {"write", "read"}, nonblock \in BOOLEAN, n \in Counts : Call(op, nonblock, n)
  \/ \E nonblock \in BOOLEAN : Call("close", nonblock, 0)
  \/ \E t \in Timeouts : altera_avalon_jtag_uart_ioctl(t)
  \/ Program
  \/ Interrupt \/ altera_avalon_jtag_uart_irq
  \/ altera_avalon_jtag_uart_timeout
  \/ HostSends \/ HostPauses \/ HostReceives

\* The processor executes the call and the interrupt routine, and a host that
\* is there takes what was sent and pauses at the end of what it sends.
Fairness ==
  /\ WF_vars(Program)
  /\ WF_vars(Interrupt \/ altera_avalon_jtag_uart_irq)
  /\ WF_vars(HostReceives) /\ WF_vars(rfifo # << >> /\ ~pause_irq /\ HostPauses)

Spec == Init /\ [][Next]_vars
FairSpec == Spec /\ Fairness

-----------------------------------------------------------------------------
Labels == {"init", "main", "write", "write_in", "write_kick", "write_wait", "write_look",
           "read", "read_out", "read_kick", "read_wait", "read_look", "close", "return"}

TypeOK ==
  /\ build \in {"fast", "small"} /\ limit \in Limits
  /\ timeout \in Nat /\ host_inactive \in Nat
  /\ irq_enable \subseteq {"RE", "WE"}
  /\ rx_in \in Place /\ rx_out \in Place /\ rx_buf \in [Place -> Nat]
  /\ tx_in \in Place /\ tx_out \in Place /\ tx_buf \in [Place -> Nat]
  /\ rfifo \in Seq(Nat) /\ Len(rfifo) <= DEPTH
  /\ wfifo \in Seq(Nat) /\ Len(wfifo) <= DEPTH
  /\ pause_irq \in BOOLEAN /\ ac \in BOOLEAN /\ quiet \in BOOLEAN
  /\ isr.at \in {"idle", "control", "receive", "transmit"} /\ isr.space \in 0 .. DEPTH
  /\ pc \in Labels
  /\ {sent, received, hostSent, hostReceived} \subseteq Nat

\* No character is lost, doubled, overwritten or moved past another in either
\* direction: what is under way, with a copy the program is making, is what the
\* one side has sent and the other has not yet received.
InOrder ==
  /\ wfifo \o TxRing = From(hostReceived, sent - hostReceived)
  /\ RxRing \o rfifo = From(received, hostSent - received)
  /\ pc = "read_out" => call.chunk = From(received, Len(call.chunk))

\* Nobody sleeps through what it waits for.  Characters to send keep the
\* transmit interrupt enabled, unless the program is about to enable it; the
\* receive interrupt is off only while there is something for the program to
\* read, after which it enables it again.
NoLostWakeup ==
  build = "fast" /\ pc # "init" /\ ~Suspended =>
    /\ tx_in # tx_out => \/ "WE" \in irq_enable
                         \/ pc \in {"write", "write_in", "write_kick"}
    /\ "RE" \notin irq_enable =>
         \/ rx_in # rx_out
         \/ pc = "read_kick"
         \/ pc \in {"read", "read_out"} /\ call.done > 0

\* As long as the host has not been inactive for the time agreed on, a blocking
\* write takes all it is given, a blocking read returns something, and a
\* blocking close leaves nothing in the ring buffer.
AsPromised ==
  pc = "return" /\ ~call.nonblock /\ ~quiet =>
    /\ call.op = "write" /\ call.asked > 0 => call.rc = call.asked
    /\ call.op = "read" /\ call.asked > 0 => call.rc \in 1 .. call.asked
    /\ call.op = "close" => call.rc = 0 /\ tx_in = tx_out

\* With a host that receives, writes and closes return; a read returns once
\* there is a character for it.
CallsReturn ==
  /\ call.op \in {"write", "close"} ~> pc = "main"
  /\ call.op = "read" /\ (rfifo # << >> \/ rx_in # rx_out) ~> pc = "main"
=============================================================================
