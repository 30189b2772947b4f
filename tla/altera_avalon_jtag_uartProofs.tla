------------------- MODULE altera_avalon_jtag_uartProofs -------------------
(***************************************************************************)
(* The safety properties of the JTAG UART driver, for every size of its    *)
(* ring buffers and of the hardware's FIFOs.  The invariant UartInv says   *)
(* place by place what the ring buffers hold; what it adds to the          *)
(* properties is what each of two actors may rely on while the other runs. *)
(* Its parts are shown to be kept one after another, each by the steps     *)
(* that touch it (WhoChanges, WhereFrom).                                  *)
(***************************************************************************)
EXTENDS altera_avalon_jtag_uart, SequenceTheorems, TLAPS

\* The way from one place of a ring buffer to another, without a remainder,
\* and how much the two ring buffers hold.
Dist(from, to) == IF to >= from THEN to - from ELSE to - from + BUF_LEN
TxUsed == Dist(tx_out, tx_in)
RxUsed == Dist(rx_out, rx_in)

\* Characters first, first + 1, ... in the n places from out on, or in a sequence.
Filled(buf, out, n, first) ==
  \A i \in Place : Dist(out, i) < n => buf[i] = first + Dist(out, i)
Numbered(s, first) == \A k \in 1 .. Len(s) : s[k] = first + k - 1

\* The types of the locals, and what the small driver never has.
Locals ==
  /\ isr \in [at : {"idle", "control", "receive", "transmit"}, wi : BOOLEAN,
              space : 0 .. DEPTH, avail : BOOLEAN]
  /\ call \in [op : {"none", "write", "read", "close"}, nonblock : BOOLEAN, asked : Nat,
               done : Nat, seen : Place, chunk : Seq(Nat), rc : Int]

WriteLabels == {"write", "write_in", "write_kick", "write_wait", "write_look"}
ReadLabels == {"read", "read_out", "read_kick", "read_wait", "read_look"}

Small ==
  /\ build = "small" => /\ isr.at = "idle" /\ tx_in = tx_out /\ rx_in = rx_out
                        /\ pc \in {"init", "main", "write", "read", "close", "return"}
  /\ pc = "init" => tx_in = tx_out
  /\ isr.at = "idle" => isr.space = 0

\* The way of the characters to the host.
Sending ==
  /\ sent = hostReceived + Len(wfifo) + TxUsed
  /\ Numbered(wfifo, hostReceived)
  /\ Filled(tx_buf, tx_out, TxUsed, hostReceived + Len(wfifo))
  /\ isr.space <= WSPACE
  /\ pc = "write_in" =>
       /\ Len(call.chunk) > 0 /\ TxUsed + Len(call.chunk) < BUF_LEN
       /\ tx_in + Len(call.chunk) <= BUF_LEN
       /\ \A i \in tx_in .. tx_in + Len(call.chunk) - 1 : tx_buf[i] = sent + i - tx_in

\* The way of the characters from the host.
Receiving ==
  /\ hostSent = received + RxUsed + Len(rfifo)
  /\ Filled(rx_buf, rx_out, RxUsed, received)
  /\ Numbered(rfifo, received + RxUsed)
  /\ pc = "read_out" =>
       /\ Len(call.chunk) \in 1 .. RxUsed /\ rx_out + Len(call.chunk) <= BUF_LEN
       /\ Numbered(call.chunk, received)

\* Nothing that is waited for is turned off, whoever runs.  The routine only
\* receives when there is a character, so that the last read it makes finds
\* the ring buffer no longer empty.
Awake ==
  /\ build = "fast" /\ pc # "init" =>
       /\ tx_in # tx_out => "WE" \in irq_enable \/ pc \in {"write", "write_in", "write_kick"}
       /\ "RE" \notin irq_enable =>
            rx_in # rx_out \/ pc = "read_kick" \/ (pc \in {"read", "read_out"} /\ call.done > 0)
  /\ pause_irq => rfifo # << >>
  /\ isr.at = "receive" => rfifo # << >> \/ rx_in # rx_out

\* What a call has done so far, and what it may answer.  A blocking write
\* waits with the ring buffer full but for what has left it since it looked; a
\* blocking read waits with all that has come in since in the ring buffer.
InCall ==
  /\ pc \in {"init", "main"} => call.op = "none"
  /\ pc \in WriteLabels => call.op = "write"
  /\ pc \in ReadLabels => call.op = "read"
  /\ pc = "close" => call.op = "close"
  /\ pc \notin {"init", "main"} /\ ~quiet => ~Inactive
  /\ call.done <= call.asked
  /\ pc \in {"read_out", "read_kick"} => call.done > 0

Waiting ==
  /\ pc \in {"write_wait", "write_look"} => Left > 0 /\ ~call.nonblock
  /\ pc \in {"write_kick", "write_wait", "write_look"} /\ Left > 0 =>
       Dist(call.seen, tx_out) + TxUsed = BUF_LEN - 1
  /\ pc = "write_look" /\ ~quiet => call.seen # tx_out
  /\ pc \in {"read_wait", "read_look"} => call.seen = rx_out /\ ~call.nonblock
  /\ pc = "read_look" /\ ~quiet => call.seen # rx_in

UartInv ==
  /\ TypeOK /\ Locals /\ Small /\ Sending /\ Receiving
  /\ Awake /\ InCall /\ Waiting /\ AsPromised

-----------------------------------------------------------------------------
(* A negative difference of places wraps round once.                       *)
LEMMA NegMod ==
  ASSUME NEW m \in Nat \ {0}, NEW a \in (1 - m) .. -1
  PROVE  a % m = a + m
OBVIOUS

(* The remainders of the ring buffers, as comparisons.                     *)
LEMMA StepIs ==
  ASSUME NEW i \in Place, NEW n \in 0 .. BUF_LEN
  PROVE  /\ Step(i, n) = IF i + n < BUF_LEN THEN i + n ELSE i + n - BUF_LEN
         /\ Step(i, n) \in Place
<1>1. BUF_LEN \in Nat \ {0} BY UartAssumption
<1>2. CASE i + n < BUF_LEN
  <2>1. (i + n) % BUF_LEN = i + n BY <1>1, <1>2 DEF Place
  <2> QED BY <1>1, <1>2, <2>1 DEF Place, Step
<1>3. CASE i + n >= BUF_LEN
  <2>1. (i + n) % BUF_LEN = i + n - BUF_LEN BY <1>1, <1>3 DEF Place
  <2> QED BY <1>1, <1>3, <2>1 DEF Place, Step
<1> QED BY <1>1, <1>2, <1>3 DEF Place

(* The way between two places.                                             *)
LEMMA DistIs ==
  ASSUME NEW r \in Place, NEW w \in Place
  PROVE  (w - r) % BUF_LEN = Dist(r, w) /\ Dist(r, w) \in 0 .. BUF_LEN - 1
<1>1. BUF_LEN \in Nat \ {0} BY UartAssumption
<1>2. CASE w >= r
  <2>1. (w - r) % BUF_LEN = w - r BY <1>1, <1>2 DEF Place
  <2> QED BY <1>1, <1>2, <2>1 DEF Place, Dist
<1>3. CASE w < r
  <2>1. w - r \in (1 - BUF_LEN) .. -1 BY <1>1, <1>3 DEF Place
  <2>2. (w - r) % BUF_LEN = w - r + BUF_LEN BY <1>1, <2>1, NegMod
  <2> QED BY <1>1, <1>3, <2>2 DEF Place, Dist
<1> QED BY <1>1, <1>2, <1>3 DEF Place

(* Reading moves the start of what is there, writing its end.              *)
LEMMA Taken ==
  ASSUME NEW out \in Place, NEW in \in Place, NEW n \in 0 .. Dist(out, in)
  PROVE  /\ Step(out, n) \in Place
         /\ Dist(Step(out, n), in) = Dist(out, in) - n
<1>1. BUF_LEN \in Nat \ {0} /\ Dist(out, in) \in 0 .. BUF_LEN - 1 BY UartAssumption, DistIs
<1>2. n \in 0 .. BUF_LEN BY <1>1
<1>3. /\ Step(out, n) = IF out + n < BUF_LEN THEN out + n ELSE out + n - BUF_LEN
      /\ Step(out, n) \in Place
  BY <1>2, StepIs
<1> QED BY <1>1, <1>2, <1>3 DEF Dist, Place

(* Writing moves the end of what is there.                                 *)
LEMMA Added ==
  ASSUME NEW out \in Place, NEW in \in Place, NEW n \in Nat, Dist(out, in) + n < BUF_LEN
  PROVE  /\ Step(in, n) \in Place
         /\ Dist(out, Step(in, n)) = Dist(out, in) + n
<1>1. BUF_LEN \in Nat \ {0} /\ Dist(out, in) \in 0 .. BUF_LEN - 1 BY UartAssumption, DistIs
<1>2. n \in 0 .. BUF_LEN BY <1>1
<1>3. /\ Step(in, n) = IF in + n < BUF_LEN THEN in + n ELSE in + n - BUF_LEN
      /\ Step(in, n) \in Place
  BY <1>2, StepIs
<1> QED BY <1>1, <1>2, <1>3 DEF Dist, Place

(* What is left after n characters are taken is numbered from there.       *)
LEMMA TakenFilled ==
  ASSUME NEW buf, NEW out \in Place, NEW used \in 0 .. BUF_LEN - 1, NEW first \in Nat,
         NEW n \in 0 .. used, Filled(buf, out, used, first)
  PROVE  Filled(buf, Step(out, n), used - n, first + n)
<1>1. BUF_LEN \in Nat \ {0} /\ n \in 0 .. BUF_LEN BY UartAssumption DEF Place
<1>2. ASSUME NEW i \in Place, Dist(Step(out, n), i) < used - n
      PROVE  Dist(out, i) = Dist(Step(out, n), i) + n
  <2>1. /\ Step(out, n) = IF out + n < BUF_LEN THEN out + n ELSE out + n - BUF_LEN
        /\ Step(out, n) \in Place
    BY <1>1, StepIs
  <2> QED BY <1>1, <1>2, <2>1 DEF Dist, Place
<1>3. ASSUME NEW i \in Place, Dist(Step(out, n), i) < used - n
      PROVE  buf[i] = first + n + Dist(Step(out, n), i)
  <2>1. Dist(out, i) = Dist(Step(out, n), i) + n BY <1>2, <1>3
  <2>2. Step(out, n) \in Place BY <1>1, StepIs
  <2>3. Dist(Step(out, n), i) \in 0 .. BUF_LEN - 1 BY <2>2, DistIs
  <2>4. buf[i] = first + Dist(out, i) BY <1>1, <1>3, <2>1, <2>3 DEF Filled
  <2> QED BY <2>1, <2>3, <2>4
<1> QED BY <1>3 DEF Filled

-----------------------------------------------------------------------------
(* Sequences of consecutive characters.                                    *)
LEMMA FromIs ==
  ASSUME NEW first \in Nat, NEW n \in Nat
  PROVE  /\ From(first, n) \in Seq(Nat)
         /\ Len(From(first, n)) = n
         /\ \A k \in 1 .. n : From(first, n)[k] = first + k - 1
<1>1. From(first, n) \in [1 .. n -> Nat] BY DEF From
<1>2. From(first, n) \in Seq(Nat) BY <1>1, SeqDef
<1>3. DOMAIN From(first, n) = 1 .. n BY <1>1
<1>4. Len(From(first, n)) = n BY <1>2, <1>3, LenProperties
<1> QED BY <1>2, <1>4 DEF From

(* Taking the first character leaves the others numbered from the next.    *)
LEMMA NumberedTail ==
  ASSUME NEW s \in Seq(Nat), NEW first \in Nat, s # << >>, Numbered(s, first)
  PROVE  /\ Head(s) = first /\ Tail(s) \in Seq(Nat) /\ Len(Tail(s)) = Len(s) - 1
         /\ Len(s) \in Nat \ {0}
         /\ Numbered(Tail(s), first + 1)
<1>1. /\ Tail(s) \in Seq(Nat) /\ Len(Tail(s)) = Len(s) - 1 /\ Len(s) \in Nat \ {0}
      /\ \A i \in 1 .. Len(Tail(s)) : Tail(s)[i] = s[i + 1]
  BY HeadTailProperties, EmptySeq, LenProperties
<1>2. Head(s) = first BY <1>1 DEF Numbered
<1>3. ASSUME NEW i \in 1 .. Len(Tail(s)) PROVE Tail(s)[i] = (first + 1) + i - 1
  <2>1. i + 1 \in 1 .. Len(s) BY <1>1
  <2>2. s[i + 1] = first + (i + 1) - 1 BY <2>1 DEF Numbered
  <2> QED BY <1>1, <2>2
<1> QED BY <1>1, <1>2, <1>3 DEF Numbered

(* The next character goes on with the numbers.                            *)
LEMMA NumberedAppend ==
  ASSUME NEW s \in Seq(Nat), NEW first \in Nat, Numbered(s, first)
  PROVE  /\ Append(s, first + Len(s)) \in Seq(Nat)
         /\ Len(s) \in Nat /\ Len(Append(s, first + Len(s))) = Len(s) + 1
         /\ Numbered(Append(s, first + Len(s)), first)
<1> DEFINE c == first + Len(s)
           t == Append(s, c)
<1>1. Len(s) \in Nat BY LenProperties
<1>2. c \in Nat BY <1>1
<1> HIDE DEF c
<1>3. /\ t \in Seq(Nat) /\ Len(t) = Len(s) + 1 /\ t[Len(s) + 1] = c
      /\ \A i \in 1 .. Len(s) : t[i] = s[i]
  BY <1>1, <1>2, AppendProperties
<1> HIDE DEF t
<1>4. ASSUME NEW i \in 1 .. Len(t) PROVE t[i] = first + i - 1
  <2>1. CASE i \in 1 .. Len(s) BY <1>3, <2>1 DEF Numbered
  <2>2. CASE i = Len(s) + 1 BY <1>1, <1>3, <2>2 DEF c
  <2> QED BY <1>1, <1>3, <2>1, <2>2
<1> USE DEF t, c
<1> QED BY <1>1, <1>3, <1>4 DEF Numbered

(* A piece of a ring buffer as a sequence.                                 *)
LEMMA PieceIs ==
  ASSUME NEW buf \in [Place -> Nat], NEW out \in Place, NEW n \in Nat, out + n <= BUF_LEN
  PROVE  LET c == [k \in 1 .. n |-> buf[out + k - 1]] IN
         /\ c \in Seq(Nat) /\ Len(c) = n
         /\ \A k \in 1 .. n : c[k] = buf[out + k - 1]
<1> DEFINE c == [k \in 1 .. n |-> buf[out + k - 1]]
<1>1. \A k \in 1 .. n : out + k - 1 \in Place BY UartAssumption DEF Place
<1>2. c \in [1 .. n -> Nat] BY <1>1
<1>3. c \in Seq(Nat) BY <1>2, SeqDef
<1>4. DOMAIN c = 1 .. n BY <1>2
<1>5. Len(c) = n BY <1>3, <1>4, LenProperties
<1> QED BY <1>3, <1>5

-----------------------------------------------------------------------------
(* Which steps change which variable.                                      *)
StartsCall ==
  \E op \in {"write", "read", "close"}, nonblock \in BOOLEAN, n \in Nat : Call(op, nonblock, n)
SetsTimeout == \E t \in Timeouts : altera_avalon_jtag_uart_ioctl(t)

(* Every other step leaves the variable as it is.                          *)
LEMMA WhoChanges ==
  ASSUME [Next]_vars
  PROVE  /\ build' = build /\ limit' = limit
         /\ timeout' = timeout \/ altera_avalon_jtag_uart_init \/ SetsTimeout
         /\ \/ host_inactive' = host_inactive
            \/ altera_avalon_jtag_uart_init \/ altera_avalon_jtag_uart_timeout
         /\ \/ irq_enable' = irq_enable
            \/ altera_avalon_jtag_uart_init \/ WriteKick \/ ReadKick
            \/ ReceiveTooEarly \/ ReceiveFull \/ TransmitDone
         /\ (rx_in' = rx_in /\ rx_buf' = rx_buf) \/ ReceiveCharacter
         /\ rx_out' = rx_out \/ ReadRelease
         /\ tx_in' = tx_in \/ WritePublish
         /\ tx_buf' = tx_buf \/ WriteCopy
         /\ tx_out' = tx_out \/ TransmitCharacter
         /\ rfifo' = rfifo \/ ReceiveCharacter \/ ReceiveTooEarly \/ SmallRead \/ HostSends
         /\ wfifo' = wfifo \/ TransmitCharacter \/ SmallWrite \/ HostReceives
         /\ \/ pause_irq' = pause_irq
            \/ ReceiveCharacter \/ ReceiveNothing \/ ReceiveTooEarly \/ SmallRead \/ HostPauses
         /\ ac' = ac \/ ac' \in BOOLEAN
         /\ isr' = isr \/ Interrupt \/ altera_avalon_jtag_uart_irq
         /\ (pc' = pc /\ call' = call) \/ altera_avalon_jtag_uart_init \/ StartsCall \/ Program
         /\ sent' = sent \/ WritePublish \/ SmallWrite
         /\ received' = received \/ ReadRelease \/ SmallRead
         /\ hostSent' = hostSent \/ HostSends \/ ReceiveTooEarly
         /\ hostReceived' = hostReceived \/ HostReceives
         /\ quiet' = quiet \/ altera_avalon_jtag_uart_timeout \/ StartsCall \/ ReturnToProgram
<1> USE DEF vars, driver, rx, tx, hw, prog, chars
<1>1. CASE altera_avalon_jtag_uart_read
  BY <1>1 DEF altera_avalon_jtag_uart_read, ReadCopy, ReadRelease, ReadCopied, ReadWait, ReadLook,
              ReadKick, SmallRead, Program
<1>2. CASE altera_avalon_jtag_uart_write
  BY <1>2 DEF altera_avalon_jtag_uart_write, WriteCopy, WritePublish, WriteCopied, WriteWait,
              WriteLook, WriteKick, SmallWrite, Program
<1>3. CASE altera_avalon_jtag_uart_irq
  BY <1>3 DEF altera_avalon_jtag_uart_irq, ReadControl, ReceiveCharacter, ReceiveNothing,
              ReceiveTooEarly, ReceiveFull, TransmitCharacter, TransmitDone
<1>4. CASE HostSends \/ HostPauses \/ HostReceives
  BY <1>4 DEF HostSends, HostPauses, HostReceives
<1>5. CASE Interrupt
  BY <1>5 DEF Interrupt
<1>6. CASE altera_avalon_jtag_uart_timeout
  BY <1>6 DEF altera_avalon_jtag_uart_timeout
<1>7. CASE altera_avalon_jtag_uart_init
  BY <1>7 DEF altera_avalon_jtag_uart_init
<1>8. CASE SetsTimeout
  BY <1>8 DEF altera_avalon_jtag_uart_ioctl, SetsTimeout
<1>9. CASE altera_avalon_jtag_uart_close \/ ReturnToProgram
  BY <1>9 DEF altera_avalon_jtag_uart_close, ReturnToProgram, Program
<1>10. CASE StartsCall
  BY <1>10 DEF StartsCall, Call
<1>11. CASE UNCHANGED vars
  BY <1>11
<1>12. ASSUME \/ \E op \in {"write", "read"}, nonblock \in BOOLEAN, n \in Counts : Call(op, nonblock, n)
              \/ \E nonblock \in BOOLEAN : Call("close", nonblock, 0)
       PROVE  StartsCall
  BY <1>12, UartAssumption DEF StartsCall
<1> QED BY <1>1, <1>2, <1>3, <1>4, <1>5, <1>6, <1>7, <1>8, <1>9, <1>10, <1>11, <1>12
        DEF Next, Program, SetsTimeout

-----------------------------------------------------------------------------
(* How much the two copies move: never past the end of the ring buffer,    *)
(* and never onto a character that is still to be sent.                    *)
LEMMA WriteCopyEffect ==
  ASSUME TypeOK, Locals, WriteCopy
  PROVE  \E n \in Nat \ {0} :
           /\ n <= Left /\ TxUsed + n < BUF_LEN /\ tx_in + n <= BUF_LEN
           /\ From(sent, n) \in Seq(Nat) /\ Len(From(sent, n)) = n
           /\ call' = [call EXCEPT !.chunk = From(sent, n), !.seen = tx_out, !.done = @ + n]
           /\ tx_buf' = [i \in Place |-> IF i \in tx_in .. tx_in + n - 1
                                         THEN sent + i - tx_in ELSE tx_buf[i]]
<1> DEFINE n == Smaller(TxSpace, Left)
<1>1. BUF_LEN \in Nat /\ BUF_LEN > 1 /\ tx_in \in Place /\ tx_out \in Place /\ sent \in Nat
  BY UartAssumption DEF TypeOK
<1>2. call.done \in Nat /\ call.asked \in Nat BY DEF Locals
<1>3. Left \in Int /\ Left > 0 BY <1>2 DEF Left, WriteCopy
<1>4. TxSpace > 0 BY DEF WriteCopy
<1>5. TxSpace \in Nat /\ TxUsed + TxSpace < BUF_LEN /\ tx_in + TxSpace <= BUF_LEN /\ TxUsed \in Nat
  BY <1>1, <1>4 DEF TxSpace, TxUsed, Dist, Place
<1>6. n \in Nat \ {0} /\ n <= Left /\ n <= TxSpace BY <1>3, <1>4, <1>5 DEF Smaller
<1>7. From(sent, n) \in Seq(Nat) /\ Len(From(sent, n)) = n BY <1>1, <1>6, FromIs
<1>8. /\ call' = [call EXCEPT !.chunk = From(sent, n), !.seen = tx_out, !.done = @ + n]
      /\ tx_buf' = [i \in Place |-> IF i \in tx_in .. tx_in + n - 1
                                    THEN sent + i - tx_in ELSE tx_buf[i]]
  BY DEF WriteCopy
<1> HIDE DEF n
<1>9. TxUsed + n < BUF_LEN /\ tx_in + n <= BUF_LEN BY <1>1, <1>5, <1>6 DEF Place
<1> QED BY <1>6, <1>7, <1>8, <1>9

(* What read() copies is in the ring buffer, and in one piece.             *)
LEMMA ReadCopyEffect ==
  ASSUME TypeOK, Locals, ReadCopy
  PROVE  \E n \in 1 .. RxUsed :
           LET chunk == [k \in 1 .. n |-> rx_buf[rx_out + k - 1]] IN
           /\ n <= Left /\ rx_out + n <= BUF_LEN
           /\ chunk \in Seq(Nat) /\ Len(chunk) = n
           /\ \A k \in 1 .. n : chunk[k] = rx_buf[rx_out + k - 1]
           /\ call' = [call EXCEPT !.chunk = chunk, !.done = @ + n]
<1> DEFINE n == Smaller(RxCount, Left)
           chunk == [k \in 1 .. n |-> rx_buf[rx_out + k - 1]]
<1>1. BUF_LEN \in Nat /\ BUF_LEN > 1 /\ rx_in \in Place /\ rx_out \in Place
      /\ rx_buf \in [Place -> Nat]
  BY UartAssumption DEF TypeOK
<1>2. call.done \in Nat /\ call.asked \in Nat BY DEF Locals
<1>3. Left \in Int /\ Left > 0 BY <1>2 DEF Left, ReadCopy
<1>4. RxCount > 0 BY DEF ReadCopy
<1>5. RxUsed \in Nat /\ RxCount \in 1 .. RxUsed /\ rx_out + RxCount <= BUF_LEN
  BY <1>1, <1>4 DEF RxCount, RxUsed, Dist, Place
<1>6. n \in Nat \ {0} /\ n <= Left /\ n <= RxCount BY <1>3, <1>5 DEF Smaller
<1>7. call' = [call EXCEPT !.chunk = chunk, !.done = @ + n] BY DEF ReadCopy
<1> HIDE DEF n
<1>8. n \in 1 .. RxUsed /\ rx_out + n <= BUF_LEN BY <1>1, <1>5, <1>6 DEF Place
<1>9. /\ chunk \in Seq(Nat) /\ Len(chunk) = n
      /\ \A k \in 1 .. n : chunk[k] = rx_buf[rx_out + k - 1]
  BY <1>1, <1>6, <1>8, PieceIs
<1> QED BY <1>6, <1>7, <1>8, <1>9

(* The routine starts over, and what it goes on with when it has received   *)
(* all there is.                                                           *)
Over == [at |-> "control", wi |-> FALSE, space |-> 0, avail |-> FALSE]

(* The record that the routine starts over with.                           *)
LEMMA OverIs ==
  ASSUME NEW s, s = [Idle EXCEPT !.at = "control"]
  PROVE  s = Over
BY DEF Idle, Over

(* It goes on to transmit if control asked for it.                         *)
LEMMA ReceivedIs ==
  ASSUME Locals, NEW s, s = Received
  PROVE  /\ isr.wi => s = [at |-> "transmit", wi |-> TRUE, space |-> isr.space, avail |-> FALSE]
         /\ ~isr.wi => s = Over
<1>1. CASE isr.wi
  <2>1. s = [isr EXCEPT !.at = "transmit", !.avail = FALSE] BY <1>1 DEF Received
  <2> QED BY <1>1, <2>1 DEF Locals
<1>2. CASE ~isr.wi
  <2>1. s = [Idle EXCEPT !.at = "control"] BY <1>2 DEF Received
  <2> QED BY <1>2, <2>1, OverIs
<1> QED BY <1>1, <1>2

(* Every step keeps the types.                                             *)
LEMMA LocalsKept ==
  ASSUME TypeOK, Locals, [Next]_vars
  PROVE  Locals'
<1> USE DEF driver, rx, tx, hw, prog, chars
<1> DEFINE IsrType == [at : {"idle", "control", "receive", "transmit"}, wi : BOOLEAN,
                       space : 0 .. DEPTH, avail : BOOLEAN]
           CallType == [op : {"none", "write", "read", "close"}, nonblock : BOOLEAN, asked : Nat,
                        done : Nat, seen : Place, chunk : Seq(Nat), rc : Int]
<1>1. /\ BUF_LEN \in Nat \ {0} /\ DEPTH \in Nat /\ Counts \subseteq Nat /\ 0 \in Place
      /\ tx_in \in Place /\ tx_out \in Place /\ rx_in \in Place /\ rx_out \in Place
      /\ Len(wfifo) \in Nat /\ Len(wfifo) <= DEPTH
  <2>1. BUF_LEN \in Nat \ {0} /\ DEPTH \in Nat /\ Counts \subseteq Nat BY UartAssumption
  <2>2. 0 \in Place BY <2>1 DEF Place
  <2>3. tx_in \in Place /\ tx_out \in Place /\ rx_in \in Place /\ rx_out \in Place BY DEF TypeOK
  <2>4. wfifo \in Seq(Nat) /\ Len(wfifo) <= DEPTH BY DEF TypeOK
  <2>5. Len(wfifo) \in Nat BY <2>4, LenProperties
  <2> QED BY <2>1, <2>2, <2>3, <2>4, <2>5
<1>2. << >> \in Seq(Nat) BY EmptySeq
<1>3. Answer \in Int BY DEF Answer, EIO, EWOULDBLOCK, Locals
<1>4. isr \in IsrType /\ call \in CallType BY DEF Locals
<1>5. ASSUME NEW op \in {"write", "read", "close"}, NEW nonblock \in BOOLEAN, NEW n \in Nat,
             Call(op, nonblock, n)
      PROVE  call' \in CallType /\ isr' = isr
  <2>1. call' = [op |-> op, nonblock |-> nonblock, asked |-> n, done |-> 0, seen |-> 0,
                 chunk |-> << >>, rc |-> 0]
    BY <1>5 DEF Call, NoCall
  <2>2. call' \in CallType BY <1>1, <1>2, <2>1
  <2> QED BY <1>5, <2>2 DEF Call
<1>6. ASSUME WriteCopy PROVE call' \in CallType /\ isr' = isr
  <2>1. PICK n \in Nat : /\ From(sent, n) \in Seq(Nat)
                         /\ call' = [call EXCEPT !.chunk = From(sent, n), !.seen = tx_out,
                                                 !.done = call.done + n]
    BY <1>6, WriteCopyEffect
  <2>2. call.done + n \in Nat BY <1>4
  <2> QED BY <1>1, <1>4, <1>6, <2>1, <2>2 DEF WriteCopy
<1>7. ASSUME ReadCopy PROVE call' \in CallType /\ isr' = isr
  <2>1. PICK n \in Nat, c \in Seq(Nat) : call' = [call EXCEPT !.chunk = c, !.done = call.done + n]
    <3>1. PICK n \in 1 .. RxUsed :
            /\ [k \in 1 .. n |-> rx_buf[rx_out + k - 1]] \in Seq(Nat)
            /\ call' = [call EXCEPT !.chunk = [k \in 1 .. n |-> rx_buf[rx_out + k - 1]],
                                    !.done = call.done + n]
      BY <1>7, ReadCopyEffect
    <3>2. n \in Nat OBVIOUS
    <3> QED BY <3>1, <3>2
  <2>2. call.done + n \in Nat BY <1>4
  <2> QED BY <1>4, <1>7, <2>1, <2>2 DEF ReadCopy
<1>8. ASSUME WritePublish \/ ReadRelease PROVE call' \in CallType /\ isr' = isr
  BY <1>2, <1>4, <1>8 DEF WritePublish, ReadRelease
<1>9. ASSUME \/ WriteCopied \/ WriteKick \/ WriteWait \/ WriteLook \/ SmallWrite
             \/ ReadCopied \/ ReadKick \/ ReadWait \/ ReadLook \/ SmallRead
             \/ altera_avalon_jtag_uart_close
      PROVE  call' \in CallType /\ isr' = isr
  <2>1. isr' = isr
    BY <1>9 DEF WriteCopied, WriteKick, WriteWait, WriteLook, SmallWrite, ReadCopied, ReadKick,
                ReadWait, ReadLook, SmallRead, altera_avalon_jtag_uart_close
  <2>2. \/ call' = call
        \/ \E rc \in Int : call' = [call EXCEPT !.rc = rc]
        \/ \E s \in Place : call' = [call EXCEPT !.seen = s]
        \/ call' = [call EXCEPT !.done = call.done + 1]
    <3>1. CASE WriteCopied BY <1>1, <1>4, <3>1 DEF WriteCopied
    <3>2. CASE \/ WriteKick \/ WriteWait \/ WriteLook \/ ReadKick \/ ReadWait \/ ReadLook
      BY <1>3, <3>2 DEF WriteKick, WriteWait, WriteLook, ReadKick, ReadWait, ReadLook, Goto, Return
    <3>3. CASE SmallWrite \/ SmallRead
      BY <1>3, <1>4, <3>3 DEF SmallWrite, SmallRead, Return
    <3>4. CASE ReadCopied
      BY <1>1, <1>3, <3>4 DEF ReadCopied, Goto, Return
    <3>5. CASE altera_avalon_jtag_uart_close
      BY <3>5 DEF altera_avalon_jtag_uart_close, Return, EWOULDBLOCK
    <3> QED BY <1>9, <3>1, <3>2, <3>3, <3>4, <3>5
  <2>3. call.done + 1 \in Nat BY <1>4
  <2> QED BY <1>4, <2>1, <2>2, <2>3
<1>10. ASSUME ReturnToProgram PROVE call' \in CallType /\ isr' = isr
  BY <1>1, <1>2, <1>10 DEF ReturnToProgram, NoCall
<1>11. ASSUME ReadControl PROVE isr' \in IsrType /\ call' = call
  <2>1. RI \in BOOLEAN /\ WI \in BOOLEAN BY DEF RI, WI, fifo_AE, fifo_AF
  <2>3. WSPACE \in 0 .. DEPTH BY <1>1 DEF WSPACE
  <2>2. isr' = IF ~RI /\ ~WI THEN Idle
               ELSE [at |-> IF RI THEN "receive" ELSE "transmit", wi |-> WI,
                     space |-> IF WI THEN WSPACE ELSE 0, avail |-> RI]
    BY <1>11 DEF ReadControl
  <2> QED BY <1>1, <1>11, <2>1, <2>2, <2>3 DEF ReadControl, Idle
<1>12. ASSUME Interrupt \/ TransmitDone \/ ReceiveNothing \/ ReceiveTooEarly \/ ReceiveFull
       PROVE  isr' \in IsrType /\ call' = call
  <2>1. call' = call
    BY <1>12 DEF Interrupt, TransmitDone, ReceiveNothing, ReceiveTooEarly, ReceiveFull
  <2>2. isr' = [Idle EXCEPT !.at = "control"] \/ isr' = Received
    BY <1>12 DEF Interrupt, TransmitDone, ReceiveNothing, ReceiveTooEarly, ReceiveFull
  <2>3. Over \in IsrType BY <1>1 DEF Over
  <2>4. [at |-> "transmit", wi |-> TRUE, space |-> isr.space, avail |-> FALSE] \in IsrType
    BY <1>4
  <2>5. isr.wi \in BOOLEAN BY <1>4
  <2> QED BY <2>1, <2>2, <2>3, <2>4, <2>5, OverIs, ReceivedIs
<1>13. ASSUME ReceiveCharacter PROVE isr' \in IsrType /\ call' = call
  <2>1. PICK b \in BOOLEAN : isr' = [isr EXCEPT !.avail = b] BY <1>13 DEF ReceiveCharacter
  <2> QED BY <1>4, <1>13, <2>1 DEF ReceiveCharacter
<1>14. ASSUME TransmitCharacter PROVE isr' \in IsrType /\ call' = call
  <2>1. isr' = [isr EXCEPT !.space = isr.space - 1] /\ isr.space > 0 BY <1>14 DEF TransmitCharacter
  <2>2. isr.space - 1 \in 0 .. DEPTH BY <1>1, <1>4, <2>1
  <2> QED BY <1>4, <1>14, <2>1, <2>2 DEF TransmitCharacter
<1>15. isr' \in IsrType
  BY <1>4, <1>11, <1>12, <1>13, <1>14, WhoChanges DEF altera_avalon_jtag_uart_irq
<1>16. call' \in CallType
  <2>1. CASE StartsCall BY <1>5, <2>1 DEF StartsCall
  <2>2. CASE altera_avalon_jtag_uart_init BY <1>4, <2>2 DEF altera_avalon_jtag_uart_init
  <2> QED BY <1>4, <1>6, <1>7, <1>8, <1>9, <1>10, <2>1, <2>2, WhoChanges
          DEF Program, altera_avalon_jtag_uart_write, altera_avalon_jtag_uart_read
<1> QED BY <1>15, <1>16 DEF Locals

(* Positions, FIFOs and counters keep their types.                         *)
LEMMA TypesKept ==
  ASSUME TypeOK, Locals, Locals', [Next]_vars
  PROVE  TypeOK'
<1> USE DEF driver, rx, tx, hw, prog, chars
<1>1. /\ timeout \in Nat /\ host_inactive \in Nat
      /\ rx_in \in Place /\ rx_out \in Place /\ tx_in \in Place /\ tx_out \in Place
      /\ sent \in Nat /\ received \in Nat /\ hostSent \in Nat /\ hostReceived \in Nat
  BY DEF TypeOK
<1>2. /\ rfifo \in Seq(Nat) /\ Len(rfifo) <= DEPTH
      /\ wfifo \in Seq(Nat) /\ Len(wfifo) <= DEPTH
  BY DEF TypeOK
<1>3. rx_buf \in [Place -> Nat] /\ tx_buf \in [Place -> Nat] BY DEF TypeOK
<1>4. pause_irq \in BOOLEAN /\ ac \in BOOLEAN /\ quiet \in BOOLEAN /\ pc \in Labels BY DEF TypeOK
<1>5. /\ DEFAULT_TIMEOUT \in Nat /\ INT_MAX \in Nat /\ Counts \subseteq Nat
      /\ Timeouts \subseteq Nat /\ 2 < INT_MAX /\ DEPTH \in Nat /\ 1 <= DEPTH
  BY UartAssumption
<1>6. /\ Len(rfifo) \in Nat /\ Len(wfifo) \in Nat /\ Len(call.chunk) \in Nat
  BY LenProperties DEF TypeOK, Locals
<1>7. \A i \in Place, n \in Nat : Step(i, n) \in Place
  <2>1. BUF_LEN \in Nat \ {0} BY UartAssumption
  <2>2. ASSUME NEW i \in Place, NEW n \in Nat PROVE (i + n) % BUF_LEN \in 0 .. BUF_LEN - 1
    BY <2>1 DEF Place
  <2> QED BY <2>2 DEF Step, Place
<1>8. build' \in {"fast", "small"} /\ limit' \in Limits
  BY WhoChanges DEF TypeOK
<1>9. timeout' \in Nat
  BY <1>1, <1>5, WhoChanges DEF altera_avalon_jtag_uart_init, SetsTimeout,
                                altera_avalon_jtag_uart_ioctl
<1>10. host_inactive' \in Nat
  <2>1. CASE altera_avalon_jtag_uart_init BY <1>1, <2>1 DEF altera_avalon_jtag_uart_init
  <2>2. CASE altera_avalon_jtag_uart_timeout
    BY <1>1, <1>5, <2>2 DEF altera_avalon_jtag_uart_timeout
  <2> QED BY <1>1, <2>1, <2>2, WhoChanges
<1>11. irq_enable' \subseteq {"RE", "WE"}
  BY WhoChanges DEF TypeOK, altera_avalon_jtag_uart_init, WriteKick, ReadKick,
                    ReceiveTooEarly, ReceiveFull, TransmitDone
<1>12. tx_in' \in Place /\ tx_out' \in Place /\ rx_in' \in Place /\ rx_out' \in Place
  <2>1. tx_in' \in Place BY <1>1, <1>6, <1>7, WhoChanges DEF WritePublish
  <2>2. tx_out' \in Place BY <1>1, <1>7, WhoChanges DEF TransmitCharacter
  <2>3. rx_in' \in Place
    <3>1. ReceiveCharacter => rx_in' = Step(rx_in, 1) BY DEF ReceiveCharacter
    <3> QED BY <1>1, <1>7, <3>1, WhoChanges
  <2>4. rx_out' \in Place BY <1>1, <1>6, <1>7, WhoChanges DEF ReadRelease
  <2> QED BY <2>1, <2>2, <2>3, <2>4
<1>13. tx_buf' \in [Place -> Nat]
  <2>1. CASE WriteCopy
    <3>1. PICK n \in Nat \ {0} :
            tx_buf' = [i \in Place |-> IF i \in tx_in .. tx_in + n - 1
                                       THEN sent + i - tx_in ELSE tx_buf[i]]
      BY <2>1, WriteCopyEffect
    <3> QED BY <1>1, <1>3, <3>1, UartAssumption DEF Place
  <2> QED BY <1>3, <2>1, WhoChanges
<1>14. ASSUME rfifo # << >>
       PROVE  Tail(rfifo) \in Seq(Nat) /\ Len(Tail(rfifo)) <= DEPTH /\ Head(rfifo) \in Nat
  BY <1>2, <1>5, <1>6, <1>14, HeadTailProperties
<1>15. rx_buf' \in [Place -> Nat]
  BY <1>1, <1>3, <1>14, WhoChanges DEF ReceiveCharacter
<1>16. rfifo' \in Seq(Nat) /\ Len(rfifo') <= DEPTH
  <2>2. /\ Append(rfifo, hostSent) \in Seq(Nat)
        /\ Len(Append(rfifo, hostSent)) = Len(rfifo) + 1
    BY <1>1, <1>2, AppendProperties
  <2>3. CASE HostSends BY <1>5, <1>6, <2>2, <2>3 DEF HostSends
  <2>4. CASE ReceiveTooEarly BY <1>1, <1>5, <2>4 DEF ReceiveTooEarly
  <2>5. CASE ReceiveCharacter BY <1>14, <2>5 DEF ReceiveCharacter
  <2>6. CASE SmallRead BY <1>2, <1>14, <2>6 DEF SmallRead
  <2> QED BY <2>3, <2>4, <2>5, <2>6, <1>2, WhoChanges
<1>17. wfifo' \in Seq(Nat) /\ Len(wfifo') <= DEPTH
  <2>1. ASSUME NEW c \in Nat
        PROVE  Append(wfifo, c) \in Seq(Nat) /\ Len(Append(wfifo, c)) = Len(wfifo) + 1
    BY <1>2, AppendProperties
  <2>2. tx_buf[tx_out] \in Nat /\ sent \in Nat BY <1>1, <1>3
  <2>3. CASE TransmitCharacter
    BY <1>2, <1>5, <1>6, <2>1, <2>2, <2>3 DEF TransmitCharacter, WriteData, WSPACE
  <2>4. CASE SmallWrite
    <3>1. wfifo' = wfifo \/ (WSPACE > 0 /\ wfifo' = Append(wfifo, sent))
      BY <2>4 DEF SmallWrite, WriteData
    <3>2. Append(wfifo, sent) \in Seq(Nat) /\ Len(Append(wfifo, sent)) = Len(wfifo) + 1
      BY <2>1, <2>2
    <3>3. WSPACE > 0 => Len(Append(wfifo, sent)) <= DEPTH
      BY <1>2, <1>5, <1>6, <3>2 DEF WSPACE
    <3> QED BY <1>2, <3>1, <3>2, <3>3
  <2>5. CASE HostReceives
    <3>1. wfifo # << >> /\ wfifo' = Tail(wfifo) BY <2>5 DEF HostReceives
    <3> QED BY <1>2, <1>5, <1>6, <3>1, HeadTailProperties
  <2> QED BY <1>2, <2>3, <2>4, <2>5, WhoChanges
<1>18. pause_irq' \in BOOLEAN
  BY <1>4, WhoChanges DEF ReceiveCharacter, ReceiveNothing, ReceiveTooEarly, SmallRead, HostPauses
<1>19. ac' \in BOOLEAN BY <1>4, WhoChanges
<1>20. quiet' \in BOOLEAN
  <2>1. CASE altera_avalon_jtag_uart_timeout BY <1>4, <2>1 DEF altera_avalon_jtag_uart_timeout
  <2>2. CASE StartsCall BY <2>2 DEF StartsCall, Call, Inactive
  <2>3. CASE ReturnToProgram BY <2>3 DEF ReturnToProgram
  <2> QED BY <2>1, <2>2, <2>3, <1>4, WhoChanges
<1>21. pc' \in Labels
  <2>1. CASE StartsCall BY <2>1 DEF StartsCall, Call, Labels
  <2>2. CASE altera_avalon_jtag_uart_init BY <2>2 DEF altera_avalon_jtag_uart_init, Labels
  <2>3. CASE altera_avalon_jtag_uart_write
    BY <1>4, <2>3 DEF altera_avalon_jtag_uart_write, WriteCopy, WritePublish, WriteCopied, WriteKick,
                WriteWait, WriteLook, SmallWrite, Goto, Return, Labels
  <2>4. CASE altera_avalon_jtag_uart_read
    BY <1>4, <2>4 DEF altera_avalon_jtag_uart_read, ReadCopy, ReadRelease, ReadCopied, ReadKick,
                ReadWait, ReadLook, SmallRead, Goto, Return, Labels
  <2>5. CASE altera_avalon_jtag_uart_close \/ ReturnToProgram
    BY <2>5 DEF altera_avalon_jtag_uart_close, ReturnToProgram, Return, Labels
  <2> QED BY <2>1, <2>2, <2>3, <2>4, <2>5, <1>4, WhoChanges DEF Program
<1>22. {sent', received', hostSent', hostReceived'} \subseteq Nat
  <2>1. sent' \in Nat BY <1>1, <1>6, WhoChanges DEF WritePublish, SmallWrite
  <2>2. received' \in Nat BY <1>1, <1>6, WhoChanges DEF ReadRelease, SmallRead
  <2>3. HostSends \/ ReceiveTooEarly => hostSent' = hostSent + 1
    BY DEF HostSends, ReceiveTooEarly
  <2>4. HostReceives => hostReceived' = hostReceived + 1 BY DEF HostReceives
  <2> QED BY <1>1, <2>1, <2>2, <2>3, <2>4, WhoChanges
<1>23. isr'.at \in {"idle", "control", "receive", "transmit"} /\ isr'.space \in 0 .. DEPTH
  BY DEF Locals
<1> QED BY <1>8, <1>9, <1>10, <1>11, <1>12, <1>13, <1>15, <1>16, <1>17, <1>18, <1>19, <1>20, <1>21,
           <1>22, <1>23
        DEF TypeOK

-----------------------------------------------------------------------------
(* Which steps lead to which label of the program.                         *)
LEMMA WhereFrom ==
  ASSUME [Next]_vars
  PROVE  \/ pc' = pc /\ call' = call
         \/ /\ pc' # "init"
            /\ pc' = "main" => altera_avalon_jtag_uart_init \/ ReturnToProgram
            /\ pc' = "write" => StartsCall \/ WritePublish \/ WriteLook \/ SmallWrite
            /\ pc' = "write_in" => WriteCopy
            /\ pc' = "write_kick" => WriteCopied
            /\ pc' = "write_wait" => WriteKick
            /\ pc' = "write_look" => WriteWait
            /\ pc' = "read" => StartsCall \/ ReadRelease \/ ReadLook \/ SmallRead
            /\ pc' = "read_out" => ReadCopy
            /\ pc' \in {"read_kick", "read_wait"} => ReadCopied
            /\ pc' = "read_look" => ReadWait
            /\ pc' = "close" => StartsCall
            /\ pc' = "return" => \/ WriteKick \/ WriteLook \/ SmallWrite
                                 \/ ReadCopied \/ ReadLook \/ ReadKick \/ SmallRead
                                 \/ altera_avalon_jtag_uart_close
<1>1. CASE altera_avalon_jtag_uart_read
  BY <1>1 DEF altera_avalon_jtag_uart_read, ReadCopy, ReadRelease, ReadCopied, ReadWait, ReadLook,
              ReadKick, SmallRead, At, Goto, Return
<1>2. CASE altera_avalon_jtag_uart_write
  BY <1>2 DEF altera_avalon_jtag_uart_write, WriteCopy, WritePublish, WriteCopied, WriteWait,
              WriteLook, WriteKick, SmallWrite, At, Goto, Return
<1>3. CASE altera_avalon_jtag_uart_close \/ ReturnToProgram
  BY <1>3 DEF altera_avalon_jtag_uart_close, ReturnToProgram, Return
<1>4. CASE StartsCall
  BY <1>4 DEF StartsCall, Call
<1>5. CASE altera_avalon_jtag_uart_init
  BY <1>5 DEF altera_avalon_jtag_uart_init
<1> QED BY <1>1, <1>2, <1>3, <1>4, <1>5, WhoChanges DEF Program

(* The small driver leaves alone what only the fast one has.               *)
LEMMA SmallKept ==
  ASSUME TypeOK, Locals, Small, [Next]_vars
  PROVE  Small'
<1>1. ASSUME isr.at = "idle", build = "small" PROVE isr' = isr
  BY <1>1, WhoChanges
     DEF Interrupt, altera_avalon_jtag_uart_irq, ReadControl, ReceiveCharacter, ReceiveNothing,
         ReceiveTooEarly, ReceiveFull, TransmitCharacter, TransmitDone
<1>2. ASSUME build' = "small"
      PROVE  /\ isr'.at = "idle" /\ tx_in' = tx_out' /\ rx_in' = rx_out'
             /\ pc' \in {"init", "main", "write", "read", "close", "return"}
  <2>1. build = "small" BY <1>2, WhoChanges
  <2>2. /\ isr.at = "idle" /\ tx_in = tx_out /\ rx_in = rx_out
        /\ pc \in {"init", "main", "write", "read", "close", "return"}
    BY <2>1 DEF Small
  <2>3. isr'.at = "idle" BY <1>1, <2>1, <2>2
  <2>4. ~WritePublish /\ ~ReadRelease BY <2>2 DEF WritePublish, ReadRelease, At
  <2>5. ~TransmitCharacter /\ ~ReceiveCharacter BY <2>2 DEF TransmitCharacter, ReceiveCharacter
  <2>6. ~WriteCopy /\ ~WriteCopied /\ ~ReadCopy /\ ~ReadCopied
    BY <2>1 DEF WriteCopy, WriteCopied, ReadCopy, ReadCopied
  <2>7. ~WriteKick /\ ~WriteWait /\ ~ReadWait BY <2>2 DEF WriteKick, WriteWait, ReadWait, At
  <2>8. pc' \in Labels
    BY TypesKept, LocalsKept DEF TypeOK
  <2>9. pc' \in {"init", "main", "write", "read", "close", "return"}
    BY <2>2, <2>6, <2>7, <2>8, WhereFrom DEF Labels
  <2> QED BY <2>2, <2>3, <2>4, <2>5, <2>9, WhoChanges
<1>3. ASSUME pc' = "init" PROVE tx_in' = tx_out'
  <2>1. pc = "init" BY <1>3, WhereFrom
  <2>2. tx_in = tx_out BY <2>1 DEF Small
  <2>3. ~WritePublish /\ ~TransmitCharacter
    BY <2>1, <2>2 DEF WritePublish, TransmitCharacter, At
  <2> QED BY <2>2, <2>3, WhoChanges
<1>4. ASSUME isr'.at = "idle" PROVE isr'.space = 0
  <2>1. CASE isr' = isr BY <1>4, <2>1 DEF Small
  <2>2. CASE ReadControl
    <3>1. isr' = Idle \/ isr'.at \in {"receive", "transmit"} BY <2>2 DEF ReadControl
    <3> QED BY <1>4, <3>1 DEF Idle
  <2>3. CASE Interrupt \/ TransmitDone
    BY <1>4, <2>3, OverIs DEF Interrupt, TransmitDone, Over
  <2>4. CASE ReceiveNothing \/ ReceiveTooEarly \/ ReceiveFull
    <3>1. isr' = Received BY <2>4 DEF ReceiveNothing, ReceiveTooEarly, ReceiveFull
    <3>2. isr'.at # "idle" BY <3>1, ReceivedIs DEF Over
    <3> QED BY <1>4, <3>2
  <2>5. CASE ReceiveCharacter
    <3>1. isr'.at = "receive" BY <2>5 DEF ReceiveCharacter, Locals
    <3> QED BY <1>4, <3>1
  <2>6. CASE TransmitCharacter
    <3>1. isr'.at = "transmit" BY <2>6 DEF TransmitCharacter, Locals
    <3> QED BY <1>4, <3>1
  <2> QED BY <2>1, <2>2, <2>3, <2>4, <2>5, <2>6, WhoChanges DEF altera_avalon_jtag_uart_irq
<1> QED BY <1>2, <1>3, <1>4 DEF Small

-----------------------------------------------------------------------------
(* The characters on their way to the host.  First the space that the      *)
(* routine counts on: only the host takes characters out meanwhile.        *)
LEMMA SpaceKept ==
  ASSUME TypeOK, Locals, Small, Sending, TypeOK', Locals', [Next]_vars
  PROVE  isr'.space <= DEPTH - Len(wfifo')
<1>1. /\ DEPTH \in Nat /\ Len(wfifo) \in Nat /\ Len(wfifo') \in Nat
      /\ Len(wfifo) <= DEPTH /\ Len(wfifo') <= DEPTH
      /\ isr.space \in Nat /\ isr.space <= DEPTH - Len(wfifo)
  <2>1. /\ DEPTH \in Nat /\ Len(wfifo) \in Nat /\ Len(wfifo') \in Nat
        /\ Len(wfifo) <= DEPTH /\ Len(wfifo') <= DEPTH
    BY UartAssumption, LenProperties DEF TypeOK
  <2>2. isr.space \in Nat BY <2>1 DEF Locals
  <2>3. isr.space <= DEPTH - Len(wfifo) BY DEF Sending, WSPACE
  <2> QED BY <2>1, <2>2, <2>3
<1>2. CASE TransmitCharacter
  <2>1. isr.space > 0 /\ isr'.space = isr.space - 1
    <3>1. isr' = [isr EXCEPT !.space = isr.space - 1] /\ isr.space > 0 BY <1>2 DEF TransmitCharacter
    <3> QED BY <3>1 DEF Locals
  <2>2. wfifo' = Append(wfifo, tx_buf[tx_out])
    BY <1>1, <1>2, <2>1 DEF TransmitCharacter, WriteData, WSPACE
  <2>3. Len(wfifo') = Len(wfifo) + 1
    BY <2>2, AppendProperties DEF TypeOK
  <2> QED BY <1>1, <2>1, <2>3
<1>3. CASE SmallWrite
  <2>1. isr'.space = 0 BY <1>3 DEF SmallWrite, Small
  <2> QED BY <1>1, <2>1
<1>4. CASE HostReceives
  <2>1. isr' = isr /\ wfifo # << >> /\ wfifo' = Tail(wfifo) BY <1>4 DEF HostReceives
  <2>2. Len(wfifo') = Len(wfifo) - 1 BY <2>1, HeadTailProperties DEF TypeOK
  <2> QED BY <1>1, <2>1, <2>2
<1>5. ASSUME wfifo' = wfifo, ~TransmitCharacter PROVE isr'.space <= DEPTH - Len(wfifo)
  <2>1. CASE isr' = isr BY <1>1, <2>1
  <2>2. CASE ReadControl
    <3>1. isr' = Idle \/ isr'.space = IF WI THEN WSPACE ELSE 0 BY <2>2 DEF ReadControl
    <3> QED BY <1>1, <3>1 DEF Idle, WSPACE
  <2>3. CASE Interrupt \/ TransmitDone
    BY <1>1, <2>3, OverIs DEF Interrupt, TransmitDone, Over
  <2>4. CASE ReceiveNothing \/ ReceiveTooEarly \/ ReceiveFull
    <3>1. isr' = Received BY <2>4 DEF ReceiveNothing, ReceiveTooEarly, ReceiveFull
    <3>2. isr'.space \in {0, isr.space}
      <4>1. isr.wi \in BOOLEAN BY DEF Locals
      <4> QED BY <3>1, <4>1, ReceivedIs DEF Over
    <3> QED BY <1>1, <3>2
  <2>5. CASE ReceiveCharacter
    <3>1. isr'.space = isr.space BY <2>5 DEF ReceiveCharacter, Locals
    <3> QED BY <1>1, <3>1
  <2> QED BY <1>5, <2>1, <2>2, <2>3, <2>4, <2>5, WhoChanges DEF altera_avalon_jtag_uart_irq
<1> QED BY <1>2, <1>3, <1>4, <1>5, WhoChanges

SendWay ==
  /\ sent = hostReceived + Len(wfifo) + TxUsed
  /\ Numbered(wfifo, hostReceived)
  /\ Filled(tx_buf, tx_out, TxUsed, hostReceived + Len(wfifo))

(* What the ring buffer and the FIFO to the host hold, step by step.        *)
LEMMA SendWayKept ==
  ASSUME TypeOK, Locals, Small, Sending, TypeOK', Locals', [Next]_vars
  PROVE  SendWay'
<1>1. /\ BUF_LEN \in Nat \ {0} /\ tx_in \in Place /\ tx_out \in Place
      /\ tx_in' \in Place /\ tx_out' \in Place
      /\ sent \in Nat /\ hostReceived \in Nat
  BY UartAssumption DEF TypeOK
<1>2. wfifo \in Seq(Nat) /\ Len(wfifo) \in Nat /\ tx_buf \in [Place -> Nat]
  BY LenProperties DEF TypeOK
<1>3. TxUsed = Dist(tx_out, tx_in) /\ TxUsed \in 0 .. BUF_LEN - 1 BY <1>1, DistIs DEF TxUsed
<1>4. TxUsed' = Dist(tx_out', tx_in') BY DEF TxUsed
<1>5. /\ sent = hostReceived + Len(wfifo) + TxUsed
      /\ Numbered(wfifo, hostReceived)
      /\ Filled(tx_buf, tx_out, TxUsed, hostReceived + Len(wfifo))
  BY DEF Sending
<1>6. CASE WritePublish
  <2>1. /\ Len(call.chunk) \in Nat /\ TxUsed + Len(call.chunk) < BUF_LEN
        /\ tx_in + Len(call.chunk) <= BUF_LEN
        /\ \A i \in tx_in .. tx_in + Len(call.chunk) - 1 : tx_buf[i] = sent + i - tx_in
    BY <1>6, LenProperties DEF WritePublish, At, Sending, Locals
  <2> DEFINE n == Len(call.chunk)
  <2>2. /\ tx_in' = Step(tx_in, n) /\ sent' = sent + n
        /\ hostReceived' = hostReceived /\ wfifo' = wfifo /\ tx_out' = tx_out /\ tx_buf' = tx_buf
    BY <1>6 DEF WritePublish, hw
  <2> HIDE DEF n
  <2>3. n \in Nat /\ Dist(tx_out, tx_in) + n < BUF_LEN /\ tx_in + n <= BUF_LEN BY <1>3, <2>1 DEF n
  <2>4. TxUsed' = TxUsed + n BY <1>1, <1>3, <1>4, <2>2, <2>3, Added
  <2>5. ASSUME NEW i \in Place, Dist(tx_out, i) < TxUsed + n
        PROVE  tx_buf[i] = hostReceived + Len(wfifo) + Dist(tx_out, i)
    <3>1. CASE Dist(tx_out, i) < TxUsed BY <1>5, <3>1 DEF Filled
    <3>2. CASE Dist(tx_out, i) >= TxUsed
      <4>1. i \in tx_in .. tx_in + n - 1 /\ i - tx_in = Dist(tx_out, i) - TxUsed
        BY <1>1, <1>3, <2>3, <2>5, <3>2 DEF Dist, Place
      <4>2. tx_buf[i] = sent + i - tx_in BY <2>1, <4>1 DEF n
      <4>3. Dist(tx_out, i) \in Nat BY <1>1, DistIs
      <4> QED BY <1>1, <1>2, <1>3, <1>5, <4>1, <4>2, <4>3 DEF Place
    <3>3. Dist(tx_out, i) \in Nat BY <1>1, DistIs
    <3> QED BY <1>3, <3>1, <3>2, <3>3
  <2>6. Filled(tx_buf, tx_out, TxUsed', hostReceived + Len(wfifo)) BY <2>4, <2>5 DEF Filled
  <2>7. sent' = hostReceived + Len(wfifo) + TxUsed' BY <1>1, <1>2, <1>3, <1>5, <2>2, <2>3, <2>4
  <2> QED BY <1>5, <2>2, <2>6, <2>7 DEF SendWay, TxUsed
<1>7. CASE WriteCopy
  <2>1. PICK n \in Nat \ {0} :
          /\ TxUsed + n < BUF_LEN /\ tx_in + n <= BUF_LEN
          /\ tx_buf' = [i \in Place |-> IF i \in tx_in .. tx_in + n - 1
                                        THEN sent + i - tx_in ELSE tx_buf[i]]
    BY <1>7, WriteCopyEffect
  <2>2. UNCHANGED <<sent, hostReceived, wfifo, tx_in, tx_out>> BY <1>7 DEF WriteCopy, hw, chars
  <2>3. TxUsed' = TxUsed BY <1>3, <1>4, <2>2
  <2>4. ASSUME NEW i \in Place, Dist(tx_out, i) < TxUsed
        PROVE  tx_buf'[i] = hostReceived + Len(wfifo) + Dist(tx_out, i)
    <3>1. i \notin tx_in .. tx_in + n - 1
      BY <1>1, <1>3, <2>1, <2>4 DEF Dist, Place
    <3>2. tx_buf'[i] = tx_buf[i] BY <2>1, <3>1
    <3> QED BY <1>5, <2>4, <3>2 DEF Filled
  <2>5. Filled(tx_buf', tx_out, TxUsed, hostReceived + Len(wfifo)) BY <2>4 DEF Filled
  <2> QED BY <1>5, <2>2, <2>3, <2>5 DEF SendWay, TxUsed
<1>8. CASE TransmitCharacter
  <2>1. isr.space > 0 /\ tx_out # tx_in BY <1>8 DEF TransmitCharacter
  <2>2. WSPACE > 0
    <3>1. isr.space \in Nat BY UartAssumption DEF Locals
    <3>2. isr.space <= WSPACE BY DEF Sending
    <3>3. WSPACE \in Int BY <1>2, UartAssumption DEF WSPACE
    <3> QED BY <2>1, <3>1, <3>2, <3>3
  <2>3. /\ wfifo' = Append(wfifo, tx_buf[tx_out]) /\ tx_out' = Step(tx_out, 1)
        /\ UNCHANGED <<sent, hostReceived, tx_in, tx_buf>>
    BY <1>8, <2>2 DEF TransmitCharacter, WriteData, chars
  <2>4. TxUsed >= 1 /\ Dist(tx_out, tx_out) = 0 BY <1>1, <1>3, <2>1 DEF Dist, Place
  <2>5. tx_buf[tx_out] = hostReceived + Len(wfifo) BY <1>1, <1>2, <1>3, <1>5, <2>4 DEF Filled
  <2>6. Len(wfifo') = Len(wfifo) + 1 /\ Numbered(wfifo', hostReceived)
    BY <1>1, <1>2, <1>5, <2>3, <2>5, NumberedAppend
  <2>7. 1 \in 0 .. TxUsed BY <1>3, <2>4
  <2>8. TxUsed' = TxUsed - 1 BY <1>1, <1>3, <1>4, <2>3, <2>7, Taken
  <2>9. Filled(tx_buf, Step(tx_out, 1), TxUsed - 1, hostReceived + Len(wfifo) + 1)
    <3>1. hostReceived + Len(wfifo) \in Nat BY <1>1, <1>2
    <3> QED BY <1>1, <1>2, <1>3, <1>5, <2>7, <3>1, TakenFilled
  <2>10. hostReceived + Len(wfifo) + 1 = hostReceived + Len(wfifo') BY <1>1, <1>2, <2>6
  <2>11. sent' = hostReceived + Len(wfifo') + TxUsed'
    BY <1>1, <1>2, <1>3, <1>5, <2>3, <2>6, <2>8
  <2> QED BY <2>3, <2>6, <2>8, <2>9, <2>10, <2>11 DEF SendWay, TxUsed
<1>9. CASE SmallWrite
  <2>1. UNCHANGED <<hostReceived, tx_in, tx_out, tx_buf>> BY <1>9 DEF SmallWrite, tx
  <2>2. TxUsed = 0 /\ TxUsed' = 0
    BY <1>1, <1>3, <1>4, <1>9, <2>1 DEF SmallWrite, Small, Dist, Place
  <2>3. CASE wfifo' = wfifo /\ sent' = sent
    BY <1>5, <2>1, <2>2, <2>3 DEF SendWay, TxUsed
  <2>4. CASE wfifo' = Append(wfifo, sent) /\ sent' = sent + 1
    <3>1. sent = hostReceived + Len(wfifo) BY <1>1, <1>2, <1>5, <2>2
    <3>2. Len(wfifo') = Len(wfifo) + 1 /\ Numbered(wfifo', hostReceived)
      BY <1>1, <1>2, <1>5, <2>4, <3>1, NumberedAppend
    <3>3. Filled(tx_buf, tx_out, 0, hostReceived + Len(wfifo'))
      <4>1. ASSUME NEW i \in Place PROVE ~(Dist(tx_out, i) < 0) BY <1>1, DistIs
      <4> QED BY <4>1 DEF Filled
    <3>4. sent' = hostReceived + Len(wfifo') + TxUsed' BY <1>1, <1>2, <2>2, <2>4, <3>1, <3>2
    <3> QED BY <2>1, <2>2, <3>2, <3>3, <3>4 DEF SendWay, TxUsed
  <2> QED BY <1>9, <2>3, <2>4 DEF SmallWrite, WriteData
<1>10. CASE HostReceives
  <2>1. /\ wfifo # << >> /\ wfifo' = Tail(wfifo) /\ hostReceived' = hostReceived + 1
        /\ UNCHANGED <<sent, tx_in, tx_out, tx_buf>>
    BY <1>10 DEF HostReceives, tx
  <2>2. Len(wfifo') = Len(wfifo) - 1 /\ Numbered(wfifo', hostReceived + 1)
    BY <1>1, <1>2, <1>5, <2>1, NumberedTail
  <2>3. TxUsed' = TxUsed BY <1>3, <1>4, <2>1
  <2>4. hostReceived' + Len(wfifo') = hostReceived + Len(wfifo) BY <1>1, <1>2, <2>1, <2>2
  <2> QED BY <1>5, <2>1, <2>2, <2>3, <2>4 DEF SendWay, TxUsed
<1>11. CASE UNCHANGED <<sent, hostReceived, wfifo, tx_in, tx_out, tx_buf>>
  BY <1>5, <1>11 DEF SendWay, TxUsed
<1> QED BY <1>6, <1>7, <1>8, <1>9, <1>10, <1>11, WhoChanges

(* The copy that a write is about to publish stays in its place.           *)
LEMMA SendingKept ==
  ASSUME TypeOK, Locals, Small, Sending, TypeOK', Locals', [Next]_vars
  PROVE  Sending'
<1>1. /\ BUF_LEN \in Nat \ {0} /\ tx_in \in Place /\ tx_out \in Place /\ sent \in Nat
      /\ Len(call.chunk) \in Nat
  BY UartAssumption, LenProperties DEF TypeOK, Locals
<1>2. TxUsed = Dist(tx_out, tx_in) /\ TxUsed \in 0 .. BUF_LEN - 1 BY <1>1, DistIs DEF TxUsed
<1>3. ASSUME pc' = "write_in"
      PROVE  /\ Len(call'.chunk) > 0 /\ TxUsed' + Len(call'.chunk) < BUF_LEN
             /\ tx_in' + Len(call'.chunk) <= BUF_LEN
             /\ \A i \in tx_in' .. tx_in' + Len(call'.chunk) - 1 : tx_buf'[i] = sent' + i - tx_in'
  <2>1. CASE WriteCopy
    <3>1. PICK n \in Nat \ {0} :
            /\ TxUsed + n < BUF_LEN /\ tx_in + n <= BUF_LEN /\ Len(From(sent, n)) = n
            /\ call' = [call EXCEPT !.chunk = From(sent, n), !.seen = tx_out, !.done = @ + n]
            /\ tx_buf' = [i \in Place |-> IF i \in tx_in .. tx_in + n - 1
                                          THEN sent + i - tx_in ELSE tx_buf[i]]
      BY <2>1, WriteCopyEffect
    <3>2. call'.chunk = From(sent, n) BY <3>1 DEF Locals
    <3>3. UNCHANGED <<sent, tx_in, tx_out>> BY <2>1 DEF WriteCopy, chars
    <3>4. TxUsed' = TxUsed BY <3>3 DEF TxUsed
    <3>5. \A i \in tx_in .. tx_in + n - 1 : tx_buf'[i] = sent + i - tx_in
      BY <1>1, <3>1 DEF Place
    <3> QED BY <3>1, <3>2, <3>3, <3>4, <3>5
  <2>2. CASE ~WriteCopy
    <3>1. pc = "write_in" /\ call' = call BY <1>3, <2>2, WhereFrom
    <3>2. /\ Len(call.chunk) > 0 /\ TxUsed + Len(call.chunk) < BUF_LEN
          /\ tx_in + Len(call.chunk) <= BUF_LEN
          /\ \A i \in tx_in .. tx_in + Len(call.chunk) - 1 : tx_buf[i] = sent + i - tx_in
      BY <3>1 DEF Sending
    <3>3. ~WritePublish BY <1>3 DEF WritePublish
    <3>4. ~SmallWrite BY <3>1 DEF SmallWrite, At
    <3>5. UNCHANGED <<sent, tx_in, tx_buf>> BY <2>2, <3>3, <3>4, WhoChanges
    <3>6. TxUsed' <= TxUsed /\ TxUsed' \in Int
      <4>1. CASE TransmitCharacter
        <5>1. tx_out # tx_in /\ tx_out' = Step(tx_out, 1) BY <4>1 DEF TransmitCharacter
        <5>2. 1 \in 0 .. Dist(tx_out, tx_in) BY <1>1, <1>2, <5>1 DEF Dist, Place
        <5>3. TxUsed' = TxUsed - 1 BY <1>1, <1>2, <3>5, <5>1, <5>2, Taken DEF TxUsed
        <5> QED BY <1>2, <5>3
      <4>2. CASE tx_out' = tx_out BY <1>2, <3>5, <4>2 DEF TxUsed
      <4> QED BY <4>1, <4>2, WhoChanges
    <3> QED BY <1>1, <1>2, <3>1, <3>2, <3>5, <3>6
  <2> QED BY <2>1, <2>2
<1> QED BY <1>3, SpaceKept, SendWayKept DEF Sending, SendWay, WSPACE

-----------------------------------------------------------------------------
(* The characters on their way from the host.                              *)
ReceiveWay ==
  /\ hostSent = received + RxUsed + Len(rfifo)
  /\ Filled(rx_buf, rx_out, RxUsed, received)
  /\ Numbered(rfifo, received + RxUsed)

(* What the FIFO from the host and the ring buffer hold, step by step.      *)
LEMMA ReceiveWayKept ==
  ASSUME TypeOK, Locals, Small, Receiving, TypeOK', Locals', [Next]_vars
  PROVE  ReceiveWay'
<1>1. /\ BUF_LEN \in Nat \ {0} /\ 1 < BUF_LEN /\ rx_in \in Place /\ rx_out \in Place
      /\ rx_in' \in Place /\ rx_out' \in Place
      /\ hostSent \in Nat /\ received \in Nat
  BY UartAssumption DEF TypeOK
<1>2. rfifo \in Seq(Nat) /\ Len(rfifo) \in Nat /\ rx_buf \in [Place -> Nat]
  BY LenProperties DEF TypeOK
<1>3. RxUsed = Dist(rx_out, rx_in) /\ RxUsed \in 0 .. BUF_LEN - 1 BY <1>1, DistIs DEF RxUsed
<1>4. RxUsed' = Dist(rx_out', rx_in') BY DEF RxUsed
<1>5. /\ hostSent = received + RxUsed + Len(rfifo)
      /\ Filled(rx_buf, rx_out, RxUsed, received)
      /\ Numbered(rfifo, received + RxUsed)
  BY DEF Receiving
<1>6. received + RxUsed \in Nat BY <1>1, <1>3
<1>7. CASE ReceiveCharacter
  <2>1. /\ rfifo # << >> /\ rfifo' = Tail(rfifo) /\ Step(rx_in, 1) # rx_out
        /\ rx_buf' = [rx_buf EXCEPT ![rx_in] = Head(rfifo)] /\ rx_in' = Step(rx_in, 1)
        /\ UNCHANGED <<hostSent, received, rx_out>>
    BY <1>7 DEF ReceiveCharacter, RxFull, chars
  <2>2. Dist(rx_out, rx_in) + 1 < BUF_LEN
    <3>1. 1 \in 0 .. BUF_LEN BY <1>1
    <3>2. Step(rx_in, 1) = IF rx_in + 1 < BUF_LEN THEN rx_in + 1 ELSE rx_in + 1 - BUF_LEN
      BY <1>1, <3>1, StepIs
    <3> QED BY <1>1, <2>1, <3>2 DEF Dist, Place
  <2>3. RxUsed' = RxUsed + 1 BY <1>1, <1>3, <1>4, <2>1, <2>2, Added
  <2>4. /\ Head(rfifo) = received + RxUsed /\ Len(rfifo') = Len(rfifo) - 1
        /\ Numbered(rfifo', received + RxUsed + 1)
    BY <1>2, <1>5, <1>6, <2>1, NumberedTail
  <2>5. ASSUME NEW i \in Place, Dist(rx_out, i) < RxUsed + 1
        PROVE  rx_buf'[i] = received + Dist(rx_out, i)
    <3>1. CASE i = rx_in BY <1>2, <1>3, <2>1, <2>4, <3>1
    <3>2. CASE i # rx_in
      <4>1. Dist(rx_out, i) < RxUsed BY <1>1, <1>3, <2>5, <3>2 DEF Dist, Place
      <4>2. rx_buf'[i] = rx_buf[i] BY <1>2, <2>1, <3>2
      <4> QED BY <1>5, <4>1, <4>2 DEF Filled
    <3> QED BY <3>1, <3>2
  <2>6. Filled(rx_buf', rx_out, RxUsed', received) BY <2>3, <2>5 DEF Filled
  <2>7. received + RxUsed + 1 = received + RxUsed' BY <1>1, <1>3, <2>3
  <2>8. hostSent = received + RxUsed' + Len(rfifo')
    <3>1. Len(rfifo') = Len(rfifo) - 1 BY <2>4
    <3> QED BY <1>1, <1>2, <1>3, <1>5, <2>3, <3>1
  <2> QED BY <2>1, <2>4, <2>6, <2>7, <2>8 DEF ReceiveWay, RxUsed
<1>8. CASE ReadRelease
  <2> DEFINE n == Len(call.chunk)
  <2>1. /\ rx_out' = Step(rx_out, n) /\ received' = received + n
        /\ UNCHANGED <<hostSent, rfifo, rx_in, rx_buf>>
    BY <1>8 DEF ReadRelease, hw
  <2>2. n \in 1 .. RxUsed BY <1>8 DEF ReadRelease, At, Receiving
  <2> HIDE DEF n
  <2>3. n \in 0 .. RxUsed /\ n \in 0 .. Dist(rx_out, rx_in) BY <1>3, <2>2
  <2>4. RxUsed' = RxUsed - n BY <1>1, <1>3, <1>4, <2>1, <2>3, Taken
  <2>5. Filled(rx_buf, Step(rx_out, n), RxUsed - n, received + n)
    BY <1>1, <1>2, <1>3, <1>5, <2>3, TakenFilled
  <2>6. /\ received' + RxUsed' = received + RxUsed
        /\ hostSent = received' + RxUsed' + Len(rfifo)
    BY <1>1, <1>2, <1>3, <1>5, <2>1, <2>3, <2>4
  <2> QED BY <1>5, <2>1, <2>4, <2>5, <2>6 DEF ReceiveWay, RxUsed
<1>9. CASE HostSends \/ ReceiveTooEarly
  <2>1. /\ rfifo' = Append(rfifo, hostSent) /\ hostSent' = hostSent + 1
        /\ UNCHANGED <<received, rx_in, rx_out, rx_buf>>
    <3>1. CASE HostSends BY <3>1 DEF HostSends, rx
    <3>2. CASE ReceiveTooEarly
      <4>1. Append(<< >>, hostSent) = <<hostSent>> OBVIOUS
      <4> QED BY <3>2, <4>1 DEF ReceiveTooEarly, rx
    <3> QED BY <1>9, <3>1, <3>2
  <2>2. RxUsed' = RxUsed BY <1>3, <1>4, <2>1
  <2>3. Len(rfifo') = Len(rfifo) + 1 /\ Numbered(rfifo', received + RxUsed)
    BY <1>2, <1>5, <1>6, <2>1, NumberedAppend
  <2>4. hostSent' = received + RxUsed + Len(rfifo') BY <1>1, <1>2, <1>3, <1>5, <2>1, <2>3
  <2> QED BY <1>5, <2>1, <2>2, <2>3, <2>4 DEF ReceiveWay, RxUsed
<1>10. CASE SmallRead
  <2>1. UNCHANGED <<hostSent, rx_in, rx_out, rx_buf>> BY <1>10 DEF SmallRead, rx
  <2>2. RxUsed = 0 /\ RxUsed' = 0
    <3>1. rx_in = rx_out BY <1>10 DEF SmallRead, Small
    <3> QED BY <1>1, <1>3, <1>4, <2>1, <3>1 DEF Dist, Place
  <2>3. CASE rfifo' = rfifo /\ received' = received
    BY <1>5, <2>1, <2>2, <2>3 DEF ReceiveWay, RxUsed
  <2>4. CASE rfifo # << >> /\ rfifo' = Tail(rfifo) /\ received' = received + 1
    <3>1. Len(rfifo') = Len(rfifo) - 1 /\ Numbered(rfifo', received + RxUsed + 1)
      BY <1>2, <1>5, <1>6, <2>4, NumberedTail
    <3>2. Filled(rx_buf, rx_out, 0, received')
      <4>1. ASSUME NEW i \in Place PROVE ~(Dist(rx_out, i) < 0) BY <1>1, DistIs
      <4> QED BY <4>1 DEF Filled
    <3>3. /\ received + RxUsed + 1 = received' + RxUsed'
          /\ hostSent = received' + RxUsed' + Len(rfifo')
      BY <1>1, <1>2, <1>5, <2>2, <2>4, <3>1
    <3> QED BY <2>1, <2>2, <3>1, <3>2, <3>3 DEF ReceiveWay, RxUsed
  <2> QED BY <1>10, <2>3, <2>4 DEF SmallRead
<1>11. CASE UNCHANGED <<hostSent, received, rfifo, rx_in, rx_out, rx_buf>>
  BY <1>5, <1>11 DEF ReceiveWay, RxUsed
<1> QED BY <1>7, <1>8, <1>9, <1>10, <1>11, WhoChanges

(* The copy that a read is about to release is still what came first.      *)
LEMMA ReceivingKept ==
  ASSUME TypeOK, Locals, Small, Receiving, TypeOK', Locals', [Next]_vars
  PROVE  Receiving'
<1>1. /\ BUF_LEN \in Nat \ {0} /\ rx_in \in Place /\ rx_out \in Place /\ received \in Nat
  BY UartAssumption DEF TypeOK
<1>2. rx_buf \in [Place -> Nat] BY DEF TypeOK
<1>3. Len(call.chunk) \in Nat BY LenProperties DEF Locals
<1>4. RxUsed = Dist(rx_out, rx_in) /\ RxUsed \in 0 .. BUF_LEN - 1 BY <1>1, DistIs DEF RxUsed
<1>5. ASSUME pc' = "read_out"
      PROVE  /\ Len(call'.chunk) \in 1 .. RxUsed' /\ rx_out' + Len(call'.chunk) <= BUF_LEN
             /\ Numbered(call'.chunk, received')
  <2>1. CASE ReadCopy
    <3> DEFINE piece(n) == [k \in 1 .. n |-> rx_buf[rx_out + k - 1]]
    <3>1. PICK n \in 1 .. RxUsed :
            /\ rx_out + n <= BUF_LEN /\ Len(piece(n)) = n
            /\ \A k \in 1 .. n : piece(n)[k] = rx_buf[rx_out + k - 1]
            /\ call' = [call EXCEPT !.chunk = piece(n), !.done = @ + n]
      BY <2>1, ReadCopyEffect
    <3>2. call'.chunk = piece(n) BY <3>1 DEF Locals
    <3>3. UNCHANGED <<received, rx_in, rx_out>> BY <2>1 DEF ReadCopy, rx, chars
    <3>4. RxUsed' = RxUsed BY <3>3 DEF RxUsed
    <3>5. ASSUME NEW k \in 1 .. n PROVE rx_buf[rx_out + k - 1] = received + k - 1
      <4>1. rx_out + k - 1 \in Place /\ Dist(rx_out, rx_out + k - 1) = k - 1
        BY <1>1, <1>4, <3>1 DEF Dist, Place
      <4>2. k - 1 < RxUsed BY <1>4
      <4>3. Filled(rx_buf, rx_out, RxUsed, received) BY DEF Receiving
      <4> QED BY <1>1, <1>2, <4>1, <4>2, <4>3 DEF Filled
    <3> HIDE DEF piece
    <3>6. Numbered(piece(n), received) BY <3>1, <3>5 DEF Numbered
    <3> QED BY <3>1, <3>2, <3>3, <3>4, <3>6
  <2>2. CASE ~ReadCopy
    <3>1. pc = "read_out" /\ call' = call BY <1>5, <2>2, WhereFrom
    <3>2. /\ Len(call.chunk) \in 1 .. RxUsed /\ rx_out + Len(call.chunk) <= BUF_LEN
          /\ Numbered(call.chunk, received)
      BY <3>1 DEF Receiving
    <3>3. ~ReadRelease BY <1>5 DEF ReadRelease
    <3>4. ~SmallRead BY <3>1 DEF SmallRead, At
    <3>5. UNCHANGED <<received, rx_out>> BY <3>3, <3>4, WhoChanges
    <3>6. RxUsed <= RxUsed' /\ RxUsed' \in Int
      <4>1. CASE ReceiveCharacter
        <5>1. Step(rx_in, 1) # rx_out /\ rx_in' = Step(rx_in, 1)
          BY <4>1 DEF ReceiveCharacter, RxFull
        <5>2. 1 \in 0 .. BUF_LEN BY <1>1
        <5>3. Step(rx_in, 1) = IF rx_in + 1 < BUF_LEN THEN rx_in + 1 ELSE rx_in + 1 - BUF_LEN
          BY <1>1, <5>2, StepIs
        <5>4. Dist(rx_out, rx_in) + 1 < BUF_LEN BY <1>1, <5>1, <5>3 DEF Dist, Place
        <5>5. RxUsed' = RxUsed + 1 BY <1>1, <1>4, <3>5, <5>1, <5>4, Added DEF RxUsed
        <5> QED BY <1>4, <5>5
      <4>2. CASE rx_in' = rx_in BY <1>4, <3>5, <4>2 DEF RxUsed
      <4> QED BY <4>1, <4>2, WhoChanges
    <3> QED BY <1>1, <1>4, <1>3, <3>1, <3>2, <3>5, <3>6
  <2> QED BY <2>1, <2>2
<1> QED BY <1>5, ReceiveWayKept DEF Receiving, ReceiveWay

-----------------------------------------------------------------------------
(* What a step of a call does to its locals.                               *)
LEMMA CallSteps ==
  ASSUME TypeOK, Locals
  PROVE  /\ (Program /\ ~ReturnToProgram) \/ call' = call =>
              /\ call'.op = call.op /\ call'.nonblock = call.nonblock
              /\ call'.asked = call.asked
         /\ WriteCopy \/ ReadCopy => call'.done > 0 /\ call'.done <= call.asked
         /\ WriteCopied => call'.seen = IF Left > 0 THEN tx_out ELSE call.seen
         /\ WritePublish \/ WriteCopied \/ WriteKick \/ WriteWait \/ WriteLook => call'.done = call.done
         /\ ReadRelease \/ ReadCopied \/ ReadWait \/ ReadLook \/ ReadKick => call'.done = call.done
         /\ ReadCopied /\ pc' = "read_wait" => call'.seen = rx_in
         /\ SmallWrite \/ SmallRead => call'.done \in {call.done, call.done + 1}
         /\ (SmallWrite \/ SmallRead) /\ Left = 0 => call'.done = call.done
         /\ altera_avalon_jtag_uart_close => call'.done = call.done
<1>1. /\ call.done \in Nat /\ call.asked \in Nat /\ tx_out \in Place /\ rx_in \in Place
  BY DEF Locals, TypeOK
<1>2. ASSUME NEW n, NEW c, call' = [call EXCEPT !.chunk = c, !.seen = tx_out, !.done = call.done + n]
      PROVE  /\ call'.op = call.op /\ call'.nonblock = call.nonblock /\ call'.asked = call.asked
             /\ call'.done = call.done + n
  BY <1>2 DEF Locals
<1>3. ASSUME NEW n, NEW c, call' = [call EXCEPT !.chunk = c, !.done = call.done + n]
      PROVE  /\ call'.op = call.op /\ call'.nonblock = call.nonblock /\ call'.asked = call.asked
             /\ call'.done = call.done + n
  BY <1>3 DEF Locals
<1>4. ASSUME NEW c, call' = [call EXCEPT !.chunk = c]
      PROVE  /\ call'.op = call.op /\ call'.nonblock = call.nonblock /\ call'.asked = call.asked
             /\ call'.done = call.done
  BY <1>4 DEF Locals
<1>5. ASSUME NEW c, call' = [call EXCEPT !.seen = c]
      PROVE  /\ call'.op = call.op /\ call'.nonblock = call.nonblock /\ call'.asked = call.asked
             /\ call'.done = call.done /\ call'.seen = c
  BY <1>5 DEF Locals
<1>6. ASSUME NEW c, call' = [call EXCEPT !.rc = c]
      PROVE  /\ call'.op = call.op /\ call'.nonblock = call.nonblock /\ call'.asked = call.asked
             /\ call'.done = call.done
  BY <1>6 DEF Locals
<1>7. ASSUME NEW n, call' = [call EXCEPT !.done = call.done + n]
      PROVE  /\ call'.op = call.op /\ call'.nonblock = call.nonblock /\ call'.asked = call.asked
             /\ call'.done = call.done + n
  BY <1>7 DEF Locals
<1> DEFINE Same == call'.op = call.op /\ call'.nonblock = call.nonblock /\ call'.asked = call.asked
<1>9. WriteCopy => Same /\ call'.done > 0 /\ call'.done <= call.asked
  <2>1. SUFFICES ASSUME WriteCopy PROVE Same /\ call'.done > 0 /\ call'.done <= call.asked
    OBVIOUS
  <2>2. PICK n \in Nat \ {0} :
          /\ n <= Left
          /\ call' = [call EXCEPT !.chunk = From(sent, n), !.seen = tx_out, !.done = call.done + n]
    BY <2>1, WriteCopyEffect
  <2>3. Same /\ call'.done = call.done + n BY <1>2, <2>2
  <2> QED BY <1>1, <2>2, <2>3 DEF Left
<1>10. ReadCopy => Same /\ call'.done > 0 /\ call'.done <= call.asked
  <2>1. SUFFICES ASSUME ReadCopy PROVE Same /\ call'.done > 0 /\ call'.done <= call.asked
    OBVIOUS
  <2>2. PICK n \in 1 .. RxUsed :
          /\ n <= Left
          /\ call' = [call EXCEPT !.chunk = [k \in 1 .. n |-> rx_buf[rx_out + k - 1]],
                                  !.done = call.done + n]
    BY <2>1, ReadCopyEffect
  <2>3. Same /\ call'.done = call.done + n BY <1>3, <2>2
  <2>4. n \in Nat \ {0} OBVIOUS
  <2> QED BY <1>1, <2>2, <2>3, <2>4 DEF Left
<1>11. WritePublish \/ ReadRelease => Same /\ call'.done = call.done
  BY <1>4 DEF WritePublish, ReadRelease
<1>12. WriteCopied => /\ Same /\ call'.done = call.done
                      /\ call'.seen = IF Left > 0 THEN tx_out ELSE call.seen
  BY <1>5 DEF WriteCopied
<1>13. WriteKick \/ WriteWait \/ WriteLook => Same /\ call'.done = call.done
  BY <1>6 DEF WriteKick, WriteWait, WriteLook, Goto, Return
<1>14. ReadKick \/ ReadWait \/ ReadLook => Same /\ call'.done = call.done
  BY <1>6 DEF ReadKick, ReadWait, ReadLook, Goto, Return
<1>15. ReadCopied => /\ Same /\ call'.done = call.done
                     /\ pc' = "read_wait" => call'.seen = rx_in
  BY <1>5, <1>6 DEF ReadCopied, Goto, Return
<1>16. SmallWrite => /\ Same /\ call'.done \in {call.done, call.done + 1}
                     /\ Left = 0 => call'.done = call.done
  <2>1. SUFFICES ASSUME SmallWrite
                 PROVE  /\ Same /\ call'.done \in {call.done, call.done + 1}
                        /\ Left = 0 => call'.done = call.done
    OBVIOUS
  <2>2. CASE Left = 0 BY <1>6, <2>1, <2>2 DEF SmallWrite, Return
  <2>3. CASE Left # 0
    <3>1. call' = [call EXCEPT !.done = call.done + 1] BY <2>1, <2>3 DEF SmallWrite
    <3> QED BY <1>7, <2>3, <3>1
  <2> QED BY <2>2, <2>3
<1>17. SmallRead => /\ Same /\ call'.done \in {call.done, call.done + 1}
                    /\ Left = 0 => call'.done = call.done
  <2>1. SUFFICES ASSUME SmallRead
                 PROVE  /\ Same /\ call'.done \in {call.done, call.done + 1}
                        /\ Left = 0 => call'.done = call.done
    OBVIOUS
  <2>2. Left \in Int BY <1>1 DEF Left
  <2>3. CASE Left > 0 /\ rfifo # << >>
    <3>1. call' = [call EXCEPT !.done = call.done + 1] BY <2>1, <2>3 DEF SmallRead
    <3> QED BY <1>7, <2>2, <2>3, <3>1
  <2>4. CASE ~(Left > 0 /\ rfifo # << >>)
    <3>1. call' = [call EXCEPT !.rc = Answer] BY <2>1, <2>4 DEF SmallRead, Return
    <3> QED BY <1>6, <3>1
  <2> QED BY <2>3, <2>4
<1>18. altera_avalon_jtag_uart_close => Same /\ call'.done = call.done
  BY <1>6 DEF altera_avalon_jtag_uart_close, Return
<1> HIDE DEF Same
<1>19. Program /\ ~ReturnToProgram => Same
  BY <1>9, <1>10, <1>11, <1>12, <1>13, <1>14, <1>15, <1>16, <1>17, <1>18
     DEF Program, altera_avalon_jtag_uart_write, altera_avalon_jtag_uart_read
<1>20. call' = call => Same BY DEF Same
<1>21. (Program /\ ~ReturnToProgram) \/ call' = call =>
         call'.op = call.op /\ call'.nonblock = call.nonblock /\ call'.asked = call.asked
  BY <1>19, <1>20 DEF Same
<1> QED BY <1>9, <1>10, <1>11, <1>12, <1>13, <1>14, <1>15, <1>16, <1>17, <1>18, <1>21

-----------------------------------------------------------------------------
(* Nothing that is waited for is turned off.                               *)
LEMMA TransmitAwake ==
  ASSUME TypeOK, Locals, Small, Awake, [Next]_vars,
         build' = "fast", pc' # "init", tx_in' # tx_out',
         pc' \notin {"write", "write_in", "write_kick"}
  PROVE  "WE" \in irq_enable'
<1>1. build = "fast" BY WhoChanges
<1>2. ~WritePublish /\ tx_in' = tx_in
  <2>1. ~WritePublish BY DEF WritePublish
  <2> QED BY <2>1, WhoChanges
<1>3. tx_in # tx_out
  <2>1. CASE TransmitCharacter BY <2>1 DEF TransmitCharacter
  <2>2. CASE tx_out' = tx_out BY <1>2, <2>2
  <2> QED BY <2>1, <2>2, WhoChanges
<1>4. pc # "init" BY <1>3 DEF Small
<1>5. ~altera_avalon_jtag_uart_init BY <1>4 DEF altera_avalon_jtag_uart_init
<1>6. CASE WriteKick BY <1>6 DEF WriteKick
<1>7. CASE ~WriteKick
  <2>1. pc \notin {"write", "write_in", "write_kick"}
    <3>1. CASE pc' = pc BY <3>1
    <3>2. CASE StartsCall BY <3>2 DEF StartsCall, Call, At
    <3>3. CASE altera_avalon_jtag_uart_write
      BY <1>1, <1>2, <1>7, <3>3
         DEF altera_avalon_jtag_uart_write, WriteCopy, WriteCopied, WriteWait, WriteLook, SmallWrite, At
    <3>4. CASE altera_avalon_jtag_uart_read
      BY <3>4 DEF altera_avalon_jtag_uart_read, ReadCopy, ReadRelease, ReadCopied, ReadWait,
                  ReadLook, ReadKick, SmallRead, At
    <3>5. CASE altera_avalon_jtag_uart_close \/ ReturnToProgram
      BY <3>5 DEF altera_avalon_jtag_uart_close, ReturnToProgram, At
    <3> QED BY <1>5, <3>1, <3>2, <3>3, <3>4, <3>5, WhoChanges DEF Program
  <2>2. "WE" \in irq_enable BY <1>1, <1>3, <1>4, <2>1 DEF Awake
  <2>3. CASE ReadKick \/ ReceiveTooEarly \/ ReceiveFull
    BY <2>2, <2>3 DEF ReadKick, ReceiveTooEarly, ReceiveFull
  <2>4. CASE TransmitDone
    <3>1. ~TransmitOff
      <4>1. isr.space \in Nat BY UartAssumption DEF Locals
      <4> QED BY <1>3, <2>4, <4>1 DEF TransmitDone, TransmitOff
    <3> QED BY <2>2, <2>4, <3>1 DEF TransmitDone
  <2> QED BY <1>5, <1>7, <2>2, <2>3, <2>4, WhoChanges
<1> QED BY <1>6, <1>7

(* The receive interrupt is off only while the program will turn it on.    *)
LEMMA ReceiveAwake ==
  ASSUME TypeOK, Locals, Small, Awake, InCall, [Next]_vars,
         build' = "fast", pc' # "init", rx_in' = rx_out', "RE" \notin irq_enable'
  PROVE  pc' = "read_kick" \/ (pc' \in {"read", "read_out"} /\ call'.done > 0)
<1>1. build = "fast" BY WhoChanges
<1>2. ~altera_avalon_jtag_uart_init BY <1>1 DEF altera_avalon_jtag_uart_init
<1>3. pc # "init"
  <2>1. CASE pc' = pc BY <2>1
  <2>2. CASE StartsCall BY <2>2 DEF StartsCall, Call, At
  <2>3. CASE Program
    BY <2>3 DEF Program, altera_avalon_jtag_uart_write, WriteCopy, WritePublish, WriteCopied,
                WriteKick, WriteWait, WriteLook, SmallWrite, altera_avalon_jtag_uart_read, ReadCopy,
                ReadRelease, ReadCopied, ReadWait, ReadLook, ReadKick, SmallRead,
                altera_avalon_jtag_uart_close, ReturnToProgram, At
  <2> QED BY <1>2, <2>1, <2>2, <2>3, WhoChanges
<1>4. /\ BUF_LEN \in Nat /\ BUF_LEN > 1 /\ rx_in \in Place /\ rx_out \in Place
      /\ 1 \in 0 .. BUF_LEN
  BY UartAssumption DEF TypeOK
<1>5. RxFull => rx_in # rx_out
  <2>1. Step(rx_in, 1) = IF rx_in + 1 < BUF_LEN THEN rx_in + 1 ELSE rx_in + 1 - BUF_LEN
    BY <1>4, StepIs
  <2> QED BY <1>4, <2>1 DEF RxFull, Place
<1>6. ~ReceiveCharacter
  <2>1. ReceiveCharacter => rx_in' = Step(rx_in, 1) /\ ~RxFull /\ rx_out' = rx_out
    BY DEF ReceiveCharacter
  <2> QED BY <2>1 DEF RxFull
<1>7. rx_in' = rx_in BY <1>6, WhoChanges
<1>8. ~ReadKick BY DEF ReadKick
<1>9. CASE ReadRelease
  <2>1. call.done > 0 /\ call'.done = call.done /\ pc' = "read"
    BY <1>9, CallSteps DEF ReadRelease, At, InCall
  <2> QED BY <2>1
<1>10. CASE ~ReadRelease
  <2>1. rx_in = rx_out BY <1>7, <1>10, WhoChanges
  <2>2. "RE" \notin irq_enable
    <3>1. ~ReceiveFull
      BY <1>5, <2>1 DEF ReceiveFull
    <3>2. ~ReceiveTooEarly
      BY <2>1 DEF ReceiveTooEarly, Awake
    <3>3. WriteKick \/ TransmitDone => irq_enable \ {"WE"} \subseteq irq_enable'
      BY DEF WriteKick, TransmitDone
    <3> QED BY <1>2, <1>8, <3>1, <3>2, <3>3, WhoChanges
  <2>3. pc = "read_kick" \/ (pc \in {"read", "read_out"} /\ call.done > 0)
    BY <1>1, <1>3, <2>1, <2>2 DEF Awake
  <2>4. CASE pc' = pc /\ call' = call BY <2>3, <2>4
  <2>5. ~StartsCall BY <2>3 DEF StartsCall, Call, At
  <2>6. CASE Program
    <3>1. ReadCopy \/ ReadCopied
      BY <1>1, <1>8, <1>10, <2>3, <2>6
         DEF Program, altera_avalon_jtag_uart_write, WriteCopy, WritePublish, WriteCopied,
                WriteKick, WriteWait, WriteLook, SmallWrite, altera_avalon_jtag_uart_read,
                ReadWait, ReadLook, SmallRead,
                altera_avalon_jtag_uart_close, ReturnToProgram, At
    <3>2. CASE ReadCopy
      <4>1. call'.done > 0 /\ pc' = "read_out" BY <3>2, CallSteps DEF ReadCopy
      <4> QED BY <4>1
    <3>3. CASE ReadCopied
      BY <2>3, <3>3 DEF ReadCopied, Goto, At
    <3> QED BY <3>1, <3>2, <3>3
  <2> QED BY <1>2, <2>4, <2>5, <2>6, WhoChanges
<1> QED BY <1>9, <1>10

(* Together, with the reason why the routine finds something to receive.   *)
LEMMA AwakeKept ==
  ASSUME TypeOK, Locals, Small, Awake, InCall, TypeOK', [Next]_vars
  PROVE  Awake'
<1>1. /\ DEPTH \in Nat /\ THRESHOLD \in Nat /\ THRESHOLD < DEPTH
      /\ rfifo \in Seq(Nat) /\ Len(rfifo) \in Nat /\ rfifo' \in Seq(Nat)
  BY UartAssumption, LenProperties DEF TypeOK
<1>2. ASSUME HostSends PROVE rfifo' # << >>
  <2>1. rfifo' = Append(rfifo, hostSent) /\ hostSent \in Nat BY <1>2 DEF HostSends, TypeOK
  <2>2. Len(rfifo') = Len(rfifo) + 1 BY <1>1, <2>1, AppendProperties
  <2> QED BY <1>1, <2>2, EmptySeq
<1>3. ASSUME pause_irq' PROVE rfifo' # << >>
  <2>1. CASE HostPauses
    <3>1. pause_irq' = (pause_irq \/ rfifo # << >>) /\ rfifo' = rfifo
      BY <2>1 DEF HostPauses
    <3>2. pause_irq \/ rfifo # << >> BY <1>3, <3>1, Zenon
    <3> QED BY <3>1, <3>2 DEF Awake
  <2>2. CASE SmallRead
    <3>1. pause_irq' = (Left = 0 /\ pause_irq) BY <2>2 DEF SmallRead
    <3>2. Left = 0 /\ pause_irq BY <1>3, <3>1, Zenon
    <3>3. rfifo' = rfifo BY <2>2, <3>2 DEF SmallRead
    <3> QED BY <3>2, <3>3 DEF Awake
  <2>3. CASE ~HostPauses /\ ~SmallRead
    <3>1. ~ReceiveCharacter /\ ~ReceiveNothing /\ ~ReceiveTooEarly
      BY <1>3 DEF ReceiveCharacter, ReceiveNothing, ReceiveTooEarly
    <3>2. pause_irq /\ (rfifo' = rfifo \/ HostSends) BY <1>3, <2>3, <3>1, WhoChanges
    <3> QED BY <1>2, <3>2 DEF Awake
  <2> QED BY <2>1, <2>2, <2>3
<1>4. ASSUME isr'.at = "receive" PROVE rfifo' # << >> \/ rx_in' # rx_out'
  <2>1. CASE ReadControl
    <3>1. RI BY <1>4, <2>1 DEF ReadControl, Idle
    <3>2. rfifo # << >>
      <4>1. CASE pause_irq BY <4>1 DEF Awake
      <4>2. CASE DEPTH - Len(rfifo) <= THRESHOLD BY <1>1, <4>2, EmptySeq
      <4> QED BY <3>1, <4>1, <4>2 DEF RI, fifo_AF
    <3> QED BY <2>1, <3>2 DEF ReadControl, hw
  <2>2. CASE ReceiveCharacter
    <3>1. rx_in' = Step(rx_in, 1) /\ Step(rx_in, 1) # rx_out /\ rx_out' = rx_out
      BY <2>2 DEF ReceiveCharacter, RxFull
    <3> QED BY <3>1
  <2>3. CASE isr' = isr
    <3>1. isr.at = "receive" /\ (rfifo # << >> \/ rx_in # rx_out) BY <1>4, <2>3 DEF Awake
    <3>2. ~ReadRelease /\ ~SmallRead BY <3>1 DEF ReadRelease, SmallRead, At, Suspended
    <3>3. CASE ReceiveTooEarly
      BY <3>3, EmptySeq DEF ReceiveTooEarly
    <3> QED BY <1>2, <2>2, <3>1, <3>2, <3>3, WhoChanges
  <2>4. ~Interrupt /\ ~TransmitDone
    BY <1>4, OverIs DEF Interrupt, TransmitDone, Over
  <2>5. ~ReceiveNothing /\ ~ReceiveTooEarly /\ ~ReceiveFull
    <3>1. isr' # Received
      <4>1. isr.wi \in BOOLEAN BY DEF Locals
      <4> QED BY <1>4, <4>1, ReceivedIs DEF Over
    <3> QED BY <3>1 DEF ReceiveNothing, ReceiveTooEarly, ReceiveFull
  <2>6. ~TransmitCharacter
    <3>1. TransmitCharacter => isr'.at = "transmit" BY DEF TransmitCharacter, Locals
    <3> QED BY <1>4, <3>1
  <2> QED BY <2>1, <2>2, <2>3, <2>4, <2>5, <2>6, WhoChanges DEF altera_avalon_jtag_uart_irq
<1>5. build' = "fast" /\ pc' # "init" /\ tx_in' # tx_out' =>
        "WE" \in irq_enable' \/ pc' \in {"write", "write_in", "write_kick"}
  BY TransmitAwake
<1>6. build' = "fast" /\ pc' # "init" /\ "RE" \notin irq_enable' =>
        rx_in' # rx_out' \/ pc' = "read_kick" \/ (pc' \in {"read", "read_out"} /\ call'.done > 0)
  BY ReceiveAwake
<1> QED BY <1>3, <1>4, <1>5, <1>6 DEF Awake

-----------------------------------------------------------------------------
(* Where a step of the program begins and ends.                            *)
LEMMA Begins ==
  ASSUME TypeOK, Locals
  PROVE  /\ StartsCall => /\ pc = "main" /\ pc' \in {"write", "read", "close"} /\ call'.op = pc'
                          /\ call'.done = 0 /\ call'.asked \in Nat
                          /\ timeout' = timeout /\ host_inactive' = host_inactive
                          /\ quiet' = Inactive
         /\ ReturnToProgram => pc = "return" /\ pc' = "main" /\ call'.op = "none" /\ call'.done = 0
                               /\ call'.asked = 0
         /\ altera_avalon_jtag_uart_init => pc = "init" /\ pc' = "main" /\ call' = call
         /\ SetsTimeout => pc = "main"
         /\ altera_avalon_jtag_uart_write => pc \in WriteLabels /\ pc' \in WriteLabels \cup {"return"}
         /\ altera_avalon_jtag_uart_read => pc \in ReadLabels /\ pc' \in ReadLabels \cup {"return"}
         /\ altera_avalon_jtag_uart_close => pc = "close" /\ pc' = "return"
<1>1. ASSUME StartsCall
      PROVE  /\ pc = "main" /\ pc' \in {"write", "read", "close"} /\ call'.op = pc'
             /\ call'.done = 0 /\ call'.asked \in Nat
             /\ timeout' = timeout /\ host_inactive' = host_inactive
             /\ quiet' = Inactive
  <2>1. PICK op \in {"write", "read", "close"}, nonblock \in BOOLEAN, n \in Nat : Call(op, nonblock, n)
    BY <1>1 DEF StartsCall
  <2>2. call' = [op |-> op, nonblock |-> nonblock, asked |-> n, done |-> 0, seen |-> 0,
                 chunk |-> << >>, rc |-> 0]
    BY <2>1 DEF Call, NoCall
  <2>3. pc = "main" /\ pc' = op BY <2>1 DEF Call, At
  <2>4. timeout' = timeout /\ host_inactive' = host_inactive BY <2>1 DEF Call, driver
  <2>5. quiet' = Inactive BY <2>1 DEF Call
  <2> QED BY <2>2, <2>3, <2>4, <2>5
<1>2. ReturnToProgram => /\ pc = "return" /\ pc' = "main" /\ call'.op = "none" /\ call'.done = 0
                         /\ call'.asked = 0
  BY DEF ReturnToProgram, NoCall, At
<1>3. altera_avalon_jtag_uart_init => pc = "init" /\ pc' = "main" /\ call' = call
  BY DEF altera_avalon_jtag_uart_init
<1>4. SetsTimeout => pc = "main" BY DEF SetsTimeout, altera_avalon_jtag_uart_ioctl, At
<1>5. altera_avalon_jtag_uart_write => pc \in WriteLabels /\ pc' \in WriteLabels \cup {"return"}
  BY DEF altera_avalon_jtag_uart_write, WriteCopy, WritePublish, WriteCopied, WriteWait, WriteLook,
         WriteKick, SmallWrite, At, Goto, Return, WriteLabels
<1>6. altera_avalon_jtag_uart_read => pc \in ReadLabels /\ pc' \in ReadLabels \cup {"return"}
  BY DEF altera_avalon_jtag_uart_read, ReadCopy, ReadRelease, ReadCopied, ReadWait, ReadLook,
         ReadKick, SmallRead, At, Goto, Return, ReadLabels
<1>7. altera_avalon_jtag_uart_close => pc = "close" /\ pc' = "return"
  BY DEF altera_avalon_jtag_uart_close, Return, At
<1> QED BY <1>1, <1>2, <1>3, <1>4, <1>5, <1>6, <1>7

(* The locals of a call belong to it, and it does no more than it is asked.*)
LEMMA InCallKept ==
  ASSUME TypeOK, Locals, Small, InCall, TypeOK', Locals', [Next]_vars
  PROVE  InCall'
<1>1. /\ call.done \in Nat /\ call.asked \in Nat /\ timeout \in Nat /\ host_inactive \in Nat
      /\ timeout' \in Nat /\ host_inactive' \in Nat
  BY DEF Locals, TypeOK
<1>2. /\ pc' \in {"init", "main"} => call'.op = "none"
      /\ pc' \in WriteLabels => call'.op = "write"
      /\ pc' \in ReadLabels => call'.op = "read"
      /\ pc' = "close" => call'.op = "close"
  <2>1. CASE pc' = pc /\ call' = call BY <2>1 DEF InCall
  <2>2. CASE altera_avalon_jtag_uart_init \/ StartsCall \/ ReturnToProgram
    BY <2>2, Begins DEF InCall, WriteLabels, ReadLabels
  <2>3. CASE altera_avalon_jtag_uart_write \/ altera_avalon_jtag_uart_read
             \/ altera_avalon_jtag_uart_close
    <3>1. ~ReturnToProgram BY <2>3, Begins DEF WriteLabels, ReadLabels
    <3>2. call'.op = call.op BY <2>3, <3>1, CallSteps DEF Program
    <3> QED BY <2>3, <3>2, Begins DEF InCall, WriteLabels, ReadLabels
  <2> QED BY <2>1, <2>2, <2>3, WhoChanges DEF Program
<1>3. ASSUME pc' \notin {"init", "main"}, ~quiet' PROVE host_inactive' < timeout'
  <2>1. CASE StartsCall
    <3>1. ~Inactive /\ timeout' = timeout /\ host_inactive' = host_inactive
      BY <1>3, <2>1, Begins
    <3> QED BY <1>1, <3>1 DEF Inactive
  <2>2. CASE altera_avalon_jtag_uart_timeout
    <3>1. quiet' = (quiet \/ host_inactive' >= timeout) BY <2>2 DEF altera_avalon_jtag_uart_timeout
    <3>2. ~(host_inactive' >= timeout) BY <1>3, <3>1, Zenon
    <3>3. timeout' = timeout BY <2>2 DEF altera_avalon_jtag_uart_timeout
    <3> QED BY <1>1, <3>2, <3>3
  <2>3. CASE ~StartsCall /\ ~altera_avalon_jtag_uart_timeout
    <3>1. ~altera_avalon_jtag_uart_init /\ ~ReturnToProgram BY <1>3, Begins
    <3>2. pc \notin {"init", "main"}
      BY <1>3, <2>3, <3>1, Begins, WhoChanges DEF Program, WriteLabels, ReadLabels
    <3>3. ~SetsTimeout BY <3>2, Begins
    <3>4. quiet' = quiet /\ timeout' = timeout /\ host_inactive' = host_inactive
      BY <2>3, <3>1, <3>3, WhoChanges
    <3>5. ~Inactive BY <1>3, <3>2, <3>4 DEF InCall
    <3> QED BY <1>1, <3>4, <3>5 DEF Inactive
  <2> QED BY <2>1, <2>2, <2>3
<1>4. call'.done <= call'.asked
  <2>1. CASE call' = call BY <2>1 DEF InCall
  <2>2. CASE StartsCall \/ ReturnToProgram BY <2>2, Begins
  <2>3. CASE Program /\ ~ReturnToProgram
    <3>1. call'.asked = call.asked BY <2>3, CallSteps
    <3>2. CASE WriteCopy \/ ReadCopy BY <3>1, <3>2, CallSteps
    <3>3. CASE SmallWrite \/ SmallRead
      <4>1. Left # 0 => call.done + 1 <= call.asked BY <1>1 DEF Left, InCall
      <4> QED BY <1>1, <3>1, <3>3, <4>1, CallSteps DEF InCall
    <3>4. CASE ~(WriteCopy \/ ReadCopy \/ SmallWrite \/ SmallRead)
      <4>1. call'.done = call.done
        BY <2>3, <3>4, CallSteps
           DEF Program, altera_avalon_jtag_uart_write, altera_avalon_jtag_uart_read
      <4> QED BY <3>1, <4>1 DEF InCall
    <3> QED BY <3>2, <3>3, <3>4
  <2> QED BY <2>1, <2>2, <2>3, Begins, WhoChanges
<1>5. ASSUME pc' \in {"read_out", "read_kick"} PROVE call'.done > 0
  <2>1. CASE pc' = pc /\ call' = call BY <1>5, <2>1 DEF InCall
  <2>2. CASE ReadCopy BY <2>2, CallSteps
  <2>3. CASE ReadCopied /\ pc' = "read_kick"
    <3>1. call.done > 0 BY <2>3 DEF ReadCopied, Return
    <3> QED BY <2>3, <3>1, CallSteps
  <2> QED BY <1>5, <2>1, <2>2, <2>3, WhereFrom
<1>6. pc' \notin {"init", "main"} /\ ~quiet' => ~(host_inactive' >= timeout')
  BY <1>1, <1>3
<1> QED BY <1>2, <1>4, <1>5, <1>6 DEF InCall, Inactive

-----------------------------------------------------------------------------
(* What a waiting call has seen of the other side, and what has changed    *)
(* since: the position it waits for cannot come round to what it has seen. *)
LEMMA WriteWaits ==
  ASSUME TypeOK, Locals, InCall, Waiting, [Next]_vars,
         pc' \in {"write_kick", "write_wait", "write_look"}
  PROVE  /\ pc' # "write_kick" => call'.asked - call'.done > 0 /\ ~call'.nonblock
         /\ call'.asked - call'.done > 0 =>
              Dist(call'.seen, tx_out') + Dist(tx_out', tx_in') = BUF_LEN - 1
         /\ pc' = "write_look" /\ ~quiet' => call'.seen # tx_out'
<1>1. /\ BUF_LEN \in Nat \ {0} /\ 1 < BUF_LEN /\ tx_in \in Place /\ tx_out \in Place
      /\ call.seen \in Place /\ call.done \in Nat /\ call.asked \in Nat
  BY UartAssumption DEF TypeOK, Locals
<1>2. Left = call.asked - call.done /\ Left >= 0 BY <1>1 DEF Left, InCall
<1>3. CASE WriteCopied
  <2>1. /\ call'.seen = IF Left > 0 THEN tx_out ELSE call.seen
        /\ call'.done = call.done /\ call'.asked = call.asked
    BY <1>3, CallSteps, Begins DEF Program, altera_avalon_jtag_uart_write, WriteCopied, ReturnToProgram
  <2>2. pc' = "write_kick" /\ tx_in' = tx_in /\ tx_out' = tx_out BY <1>3 DEF WriteCopied, tx
  <2>3. Left > 0 => Dist(tx_out, tx_out) + Dist(tx_out, tx_in) = BUF_LEN - 1
    <3>1. Left > 0 => ~(TxSpace > 0) 
      BY <1>1, <1>3 DEF WriteCopied, TxSpace, Place
    <3> QED BY <1>1, <3>1 DEF TxSpace, Dist, Place
  <2> QED BY <1>2, <2>1, <2>2, <2>3
<1>4. CASE WriteKick
  <2>1. pc = "write_kick" /\ ~(Left = 0 \/ call.nonblock) /\ call' = call /\ pc' = "write_wait"
    BY <1>4 DEF WriteKick, At, Goto, Return
  <2>2. tx_in' = tx_in /\ tx_out' = tx_out BY <1>4 DEF WriteKick, tx
  <2> QED BY <1>2, <2>1, <2>2 DEF Waiting, TxUsed
<1>5. CASE WriteWait
  <2>1. pc = "write_wait" /\ call' = call /\ pc' = "write_look" BY <1>5 DEF WriteWait, At, Goto
  <2>2. tx_in' = tx_in /\ tx_out' = tx_out /\ quiet' = quiet BY <1>5 DEF WriteWait, tx
  <2>3. ~quiet => call.seen # tx_out BY <1>5, <2>1 DEF WriteWait, InCall
  <2> QED BY <1>2, <2>1, <2>2, <2>3 DEF Waiting, TxUsed
<1>6. CASE pc' = pc /\ call' = call
  <2>1. ~WritePublish /\ ~StartsCall /\ ~ReturnToProgram
    BY Begins DEF WritePublish
  <2>2. tx_in' = tx_in /\ (quiet' = quiet \/ altera_avalon_jtag_uart_timeout)
    BY <2>1, WhoChanges
  <2>3. ~quiet' => ~quiet
    <3>1. altera_avalon_jtag_uart_timeout => quiet' = (quiet \/ host_inactive' >= timeout)
      BY DEF altera_avalon_jtag_uart_timeout
    <3> QED BY <2>2, <3>1, Zenon
  <2>4. /\ pc # "write_kick" => Left > 0 /\ ~call.nonblock
        /\ Left > 0 => Dist(call.seen, tx_out) + Dist(tx_out, tx_in) = BUF_LEN - 1
        /\ pc = "write_look" /\ ~quiet => call.seen # tx_out
    BY <1>6 DEF Waiting, TxUsed
  <2>5. CASE tx_out' = tx_out BY <1>2, <1>6, <2>2, <2>3, <2>4, <2>5
  <2>6. CASE TransmitCharacter
    <3>1. tx_out # tx_in /\ tx_out' = Step(tx_out, 1) BY <2>6 DEF TransmitCharacter
    <3>2. /\ Dist(tx_out, tx_in) \in 0 .. BUF_LEN - 1
          /\ Dist(call.seen, tx_out) \in 0 .. BUF_LEN - 1
      BY <1>1, DistIs
    <3>3. 1 \in 0 .. Dist(tx_out, tx_in) BY <1>1, <3>1, <3>2 DEF Dist, Place
    <3>4. Dist(tx_out', tx_in) = Dist(tx_out, tx_in) - 1 BY <1>1, <3>1, <3>3, Taken
    <3>5. Left > 0 => /\ Dist(call.seen, tx_out') = Dist(call.seen, tx_out) + 1
                      /\ Dist(call.seen, tx_out') > 0
      <4>1. SUFFICES ASSUME Left > 0
                     PROVE  /\ Dist(call.seen, tx_out') = Dist(call.seen, tx_out) + 1
                            /\ Dist(call.seen, tx_out') > 0
        OBVIOUS
      <4>2. Dist(call.seen, tx_out) + 1 < BUF_LEN BY <1>1, <2>4, <3>2, <3>3, <4>1
      <4>3. Dist(call.seen, tx_out') = Dist(call.seen, tx_out) + 1
        BY <1>1, <3>1, <4>2, Added
      <4> QED BY <3>2, <4>3
    <3>6. Left > 0 => call.seen # tx_out' BY <1>1, <3>5 DEF Dist, Place
    <3> QED BY <1>1, <1>2, <1>6, <2>2, <2>4, <3>2, <3>4, <3>5, <3>6
  <2> QED BY <2>5, <2>6, WhoChanges
<1> QED BY <1>3, <1>4, <1>5, <1>6, WhereFrom

(* A read waits for the position it saw to change, which it cannot miss.   *)
LEMMA ReadWaits ==
  ASSUME TypeOK, Locals, InCall, Waiting, [Next]_vars, pc' \in {"read_wait", "read_look"}
  PROVE  /\ call'.seen = rx_out' /\ ~call'.nonblock
         /\ pc' = "read_look" /\ ~quiet' => call'.seen # rx_in'
<1>1. /\ BUF_LEN \in Nat \ {0} /\ rx_in \in Place /\ rx_out \in Place
      /\ call.done \in Nat /\ call.asked \in Nat
  BY UartAssumption DEF TypeOK, Locals
<1>2. CASE ReadCopied
  <2>1. /\ pc' = "read_wait" /\ ~call.nonblock /\ (Left = 0 \/ RxCount = 0) /\ Left # 0
        /\ rx_in' = rx_in /\ rx_out' = rx_out
    BY <1>2 DEF ReadCopied, Goto, Return, rx
  <2>2. call'.seen = rx_in /\ call'.nonblock = call.nonblock
    BY <1>2, <2>1, CallSteps, Begins DEF Program, altera_avalon_jtag_uart_read, ReturnToProgram
  <2>3. rx_in = rx_out BY <1>1, <2>1 DEF RxCount, Place
  <2> QED BY <2>1, <2>2, <2>3
<1>3. CASE ReadWait
  <2>1. pc = "read_wait" /\ call' = call /\ pc' = "read_look" BY <1>3 DEF ReadWait, At, Goto
  <2>2. rx_in' = rx_in /\ rx_out' = rx_out /\ quiet' = quiet BY <1>3 DEF ReadWait, rx
  <2>3. ~quiet => call.seen # rx_in BY <1>3, <2>1 DEF ReadWait, InCall
  <2> QED BY <2>1, <2>2, <2>3 DEF Waiting
<1>4. CASE pc' = pc /\ call' = call
  <2>1. ~ReadRelease /\ ~StartsCall /\ ~ReturnToProgram
    BY Begins DEF ReadRelease
  <2>2. rx_out' = rx_out /\ (quiet' = quiet \/ altera_avalon_jtag_uart_timeout)
    BY <2>1, WhoChanges
  <2>3. ~quiet' => ~quiet
    <3>1. altera_avalon_jtag_uart_timeout => quiet' = (quiet \/ host_inactive' >= timeout)
      BY DEF altera_avalon_jtag_uart_timeout
    <3> QED BY <2>2, <3>1, Zenon
  <2>4. /\ call.seen = rx_out /\ ~call.nonblock
        /\ pc = "read_look" /\ ~quiet => call.seen # rx_in
    BY <1>4 DEF Waiting
  <2>5. CASE rx_in' = rx_in BY <1>4, <2>2, <2>3, <2>4, <2>5
  <2>6. CASE ReceiveCharacter
    <3>1. rx_in' = Step(rx_in, 1) /\ Step(rx_in, 1) # rx_out
      BY <2>6 DEF ReceiveCharacter, RxFull
    <3> QED BY <1>4, <2>2, <2>4, <3>1
  <2> QED BY <2>5, <2>6, WhoChanges
<1> QED BY <1>2, <1>3, <1>4, WhereFrom

(* The two together.                                                       *)
LEMMA WaitingKept ==
  ASSUME TypeOK, Locals, InCall, Waiting, [Next]_vars
  PROVE  Waiting'
<1>1. pc' \in {"write_kick", "write_wait", "write_look"} =>
        /\ pc' # "write_kick" => call'.asked - call'.done > 0 /\ ~call'.nonblock
        /\ call'.asked - call'.done > 0 =>
             Dist(call'.seen, tx_out') + Dist(tx_out', tx_in') = BUF_LEN - 1
        /\ pc' = "write_look" /\ ~quiet' => call'.seen # tx_out'
  BY WriteWaits
<1>2. pc' \in {"read_wait", "read_look"} =>
        /\ call'.seen = rx_out' /\ ~call'.nonblock
        /\ pc' = "read_look" /\ ~quiet' => call'.seen # rx_in'
  BY ReadWaits
<1> QED BY <1>1, <1>2 DEF Waiting, Left, TxUsed

-----------------------------------------------------------------------------
(* A call that has not seen the host inactive answers what it promises.    *)
LEMMA PromiseKept ==
  ASSUME TypeOK, Locals, Small, InCall, Waiting, AsPromised, [Next]_vars
  PROVE  AsPromised'
<1>1. SUFFICES ASSUME pc' = "return", ~call'.nonblock, ~quiet'
               PROVE  /\ call'.op = "write" /\ call'.asked > 0 => call'.rc = call'.asked
                      /\ call'.op = "read" /\ call'.asked > 0 => call'.rc \in 1 .. call'.asked
                      /\ call'.op = "close" => call'.rc = 0 /\ tx_in' = tx_out'
  BY DEF AsPromised
<1>2. call.done \in Nat /\ call.asked \in Nat /\ call.done <= call.asked /\ Left = call.asked - call.done
  BY DEF Locals, InCall, Left
<1>3. ASSUME pc' = pc, call' = call
      PROVE  /\ call'.op = "write" /\ call'.asked > 0 => call'.rc = call'.asked
             /\ call'.op = "read" /\ call'.asked > 0 => call'.rc \in 1 .. call'.asked
             /\ call'.op = "close" => call'.rc = 0 /\ tx_in' = tx_out'
  <2>1. ~ReturnToProgram /\ ~StartsCall /\ ~WritePublish
    BY <1>1, <1>3, Begins DEF WritePublish
  <2>2. ~quiet
    <3>1. altera_avalon_jtag_uart_timeout => quiet' = (quiet \/ host_inactive' >= timeout)
      BY DEF altera_avalon_jtag_uart_timeout
    <3>2. quiet' = quiet \/ altera_avalon_jtag_uart_timeout BY <2>1, WhoChanges
    <3> QED BY <1>1, <3>1, <3>2, Zenon
  <2>3. TransmitCharacter => tx_in # tx_out BY DEF TransmitCharacter
  <2>4. tx_in = tx_out => tx_in' = tx_out' BY <2>1, <2>3, WhoChanges
  <2> QED BY <1>1, <1>3, <2>2, <2>4 DEF AsPromised
<1>4. ASSUME Program, ~ReturnToProgram, call' = [call EXCEPT !.rc = Answer], call.done > 0
      PROVE  call'.rc = call.done /\ call'.asked = call.asked /\ call'.op = call.op
  BY <1>4, CallSteps DEF Answer, Locals
<1>5. ASSUME NEW c, call' = [call EXCEPT !.rc = c]
      PROVE  /\ call'.rc = c /\ call'.asked = call.asked /\ call'.op = call.op
             /\ call'.nonblock = call.nonblock /\ call'.done = call.done
  BY <1>5 DEF Locals
<1>6. CASE WriteKick
  <2>1. /\ pc = "write_kick" /\ call' = [call EXCEPT !.rc = Answer] /\ (Left = 0 \/ call.nonblock)
    BY <1>1, <1>6 DEF WriteKick, At, Goto, Return
  <2>2. call.op = "write" BY <2>1 DEF InCall, WriteLabels
  <2>3. Left = 0 BY <1>1, <1>5, <2>1
  <2>4. call.asked > 0 => Answer = call.asked BY <1>2, <2>3 DEF Answer
  <2> QED BY <1>5, <2>1, <2>2, <2>4
<1>7. CASE SmallWrite
  <2>1. pc = "write" /\ call' = [call EXCEPT !.rc = call.asked]
    BY <1>1, <1>7 DEF SmallWrite, At, Return
  <2>2. call.op = "write" BY <2>1 DEF InCall, WriteLabels
  <2> QED BY <1>5, <2>1, <2>2
<1>8. CASE ReadCopied
  <2>1. /\ pc = "read" /\ call' = [call EXCEPT !.rc = Answer] /\ ~(call.done > 0)
        /\ Left = 0 \/ call.nonblock
    BY <1>1, <1>8 DEF ReadCopied, At, Goto, Return
  <2>2. call.op = "read" BY <2>1 DEF InCall, ReadLabels
  <2>3. ~(call.asked > 0) BY <1>1, <1>2, <1>5, <2>1
  <2> QED BY <1>5, <2>1, <2>2, <2>3
<1>9. CASE ReadKick
  <2>1. pc = "read_kick" /\ call' = [call EXCEPT !.rc = Answer] BY <1>9 DEF ReadKick, At, Return
  <2>2. call.op = "read" /\ call.done > 0 BY <2>1 DEF InCall, ReadLabels
  <2>3. Answer \in 1 .. call.asked BY <1>2, <2>2 DEF Answer
  <2> QED BY <1>5, <2>1, <2>2, <2>3
<1>10. CASE SmallRead
  <2>1. /\ pc = "read" /\ call' = [call EXCEPT !.rc = Answer]
        /\ Left = 0 \/ call.done > 0 \/ call.nonblock
    BY <1>1, <1>10 DEF SmallRead, At, Return
  <2>2. call.op = "read" BY <2>1 DEF InCall, ReadLabels
  <2>3. call.asked > 0 => Answer \in 1 .. call.asked
    <3>1. ~call.nonblock BY <1>1, <1>5, <2>1
    <3> QED BY <1>2, <2>1, <3>1 DEF Answer
  <2> QED BY <1>5, <2>1, <2>2, <2>3
<1>11. CASE altera_avalon_jtag_uart_close
  <2>1. pc = "close" /\ tx_in' = tx_in /\ tx_out' = tx_out /\ quiet' = quiet
    BY <1>11 DEF altera_avalon_jtag_uart_close, At, tx
  <2>2. call.op = "close" /\ ~Inactive BY <1>1, <2>1 DEF InCall
  <2>3. call' = [call EXCEPT !.rc = 0] \/ call' = [call EXCEPT !.rc = -EWOULDBLOCK]
    BY <1>11 DEF altera_avalon_jtag_uart_close, Return
  <2>4. ~call.nonblock BY <1>1, <1>5, <2>3
  <2>5. call' = [call EXCEPT !.rc = 0] /\ (tx_out = tx_in \/ build = "small")
    BY <1>11, <2>2, <2>4 DEF altera_avalon_jtag_uart_close, Return
  <2>6. tx_in = tx_out BY <2>5 DEF Small
  <2> QED BY <1>5, <2>1, <2>2, <2>5, <2>6
<1>12. ~WriteLook
  <2>1. SUFFICES ASSUME WriteLook PROVE FALSE
    OBVIOUS
  <2>2. pc = "write_look" /\ quiet' = quiet /\ call.seen = tx_out
    BY <1>1, <2>1 DEF WriteLook, At, Goto, Return
  <2> QED BY <1>1, <2>2 DEF Waiting
<1>13. ~ReadLook
  <2>1. SUFFICES ASSUME ReadLook PROVE FALSE
    OBVIOUS
  <2>2. pc = "read_look" /\ quiet' = quiet /\ call.seen = rx_in
    BY <1>1, <2>1 DEF ReadLook, At, Goto, Return
  <2> QED BY <1>1, <2>2 DEF Waiting
<1> QED BY <1>1, <1>3, <1>6, <1>7, <1>8, <1>9, <1>10, <1>11, <1>12, <1>13, WhereFrom

-----------------------------------------------------------------------------
(* The invariant, from the initial state on.                               *)
LEMMA UartInit ==
  ASSUME Init
  PROVE  UartInv
<1> USE DEF Init
<1>1. BUF_LEN \in Nat \ {0} /\ 0 \in Place /\ DEPTH \in Nat /\ DEFAULT_TIMEOUT \in Nat
  BY UartAssumption DEF Place
<1>2. << >> \in Seq(Nat) /\ Len(<< >>) = 0 BY EmptySeq
<1>3. TypeOK
  <2>1. /\ rx_in \in Place /\ rx_out \in Place /\ tx_in \in Place /\ tx_out \in Place
        /\ timeout \in Nat /\ host_inactive \in Nat
    BY <1>1
  <2>2. rx_buf \in [Place -> Nat] /\ tx_buf \in [Place -> Nat] OBVIOUS
  <2>3. /\ rfifo \in Seq(Nat) /\ Len(rfifo) <= DEPTH
        /\ wfifo \in Seq(Nat) /\ Len(wfifo) <= DEPTH
    BY <1>1, <1>2
  <2>4. isr.at \in {"idle", "control", "receive", "transmit"} /\ isr.space \in 0 .. DEPTH
    BY <1>1 DEF Idle
  <2>5. {sent, received, hostSent, hostReceived} \subseteq Nat OBVIOUS
  <2>6. build \in {"fast", "small"} /\ limit \in Limits /\ irq_enable \subseteq {"RE", "WE"}
    OBVIOUS
  <2>7. pause_irq \in BOOLEAN /\ ac \in BOOLEAN /\ quiet \in BOOLEAN /\ pc \in Labels
    BY DEF Labels
  <2> HIDE DEF Init
  <2> QED BY <2>1, <2>2, <2>3, <2>4, <2>5, <2>6, <2>7 DEF TypeOK
<1>4. Locals BY <1>1, <1>2 DEF Locals, Idle, NoCall
<1>5. TxUsed = 0 /\ RxUsed = 0 BY DEF TxUsed, RxUsed, Dist
<1>6. ASSUME NEW i \in Place PROVE ~(Dist(0, i) < 0) BY <1>1, DistIs
<1>7. Small BY DEF Small, Idle
<1>8. Sending BY <1>1, <1>2, <1>5, <1>6 DEF Sending, Numbered, Filled, Idle, WSPACE
<1>9. Receiving BY <1>1, <1>2, <1>5, <1>6 DEF Receiving, Numbered, Filled
<1>10. Awake BY DEF Awake, Idle
<1>11. InCall BY DEF InCall, NoCall, WriteLabels, ReadLabels
<1>12. Waiting BY DEF Waiting
<1>13. AsPromised BY DEF AsPromised
<1> QED BY <1>3, <1>4, <1>7, <1>8, <1>9, <1>10, <1>11, <1>12, <1>13 DEF UartInv

(* Every step keeps the invariant, part by part.                           *)
LEMMA UartStep ==
  ASSUME UartInv, [Next]_vars
  PROVE  UartInv'
<1> USE DEF UartInv
<1>1. Locals' BY LocalsKept
<1>2. TypeOK' BY <1>1, TypesKept
<1>3. Small' BY SmallKept
<1>4. Sending' BY <1>1, <1>2, SendingKept
<1>5. Receiving' BY <1>1, <1>2, ReceivingKept
<1>6. InCall' BY <1>1, <1>2, InCallKept
<1>7. Awake' BY <1>2, AwakeKept
<1>8. Waiting' BY WaitingKept
<1>9. AsPromised' BY PromiseKept
<1> QED BY <1>1, <1>2, <1>3, <1>4, <1>5, <1>6, <1>7, <1>8, <1>9

(* All of the above holds in every state, for every size of the ring       *)
(* buffers and of the hardware's FIFOs and any number of characters.       *)
THEOREM UartInvariant == Spec => []UartInv
<1>1. UartInv /\ [Next]_vars => UartInv' BY UartStep
<1> QED BY <1>1, UartInit, PTL DEF Spec

(* Positions stay inside the ring buffers and the FIFOs within their depth. *)
THEOREM TypeCorrect == Spec => []TypeOK
<1>1. UartInv => TypeOK BY DEF UartInv
<1> QED BY <1>1, UartInvariant, PTL

(* A blocking call during which the host was never inactive answers what    *)
(* the driver promises: write() all, read() something, close() that the     *)
(* ring buffer is empty.                                                    *)
THEOREM AsPromisedCorrect == Spec => []AsPromised
<1>1. UartInv => AsPromised BY DEF UartInv
<1> QED BY <1>1, UartInvariant, PTL

(* Neither interrupt is off while somebody waits for what it would do.      *)
THEOREM NoLostWakeupCorrect == Spec => []NoLostWakeup
<1>1. UartInv => NoLostWakeup BY DEF UartInv, Awake, NoLostWakeup
<1> QED BY <1>1, UartInvariant, PTL

(* A ring buffer that is filled from a place on, as a sequence.            *)
LEMMA RingNumbered ==
  ASSUME NEW buf \in [Place -> Nat], NEW in \in Place, NEW out \in Place, NEW first \in Nat,
         Filled(buf, out, Dist(out, in), first)
  PROVE  /\ Ring(buf, in, out) \in Seq(Nat)
         /\ Len(Ring(buf, in, out)) = Dist(out, in)
         /\ Numbered(Ring(buf, in, out), first)
<1> DEFINE n == Dist(out, in)
           s == [k \in 1 .. n |-> buf[Step(out, k - 1)]]
<1>1. BUF_LEN \in Nat \ {0} /\ n \in 0 .. BUF_LEN - 1 /\ (in - out) % BUF_LEN = n
  BY UartAssumption, DistIs
<1>2. Ring(buf, in, out) = s BY <1>1 DEF Ring
<1> HIDE DEF n
<1>3. ASSUME NEW k \in 1 .. n
      PROVE  Step(out, k - 1) \in Place /\ buf[Step(out, k - 1)] = first + k - 1
  <2>1. Dist(out, out) = 0 /\ k - 1 \in Nat /\ Dist(out, out) + (k - 1) < BUF_LEN
    BY <1>1 DEF Dist, Place
  <2>2. Step(out, k - 1) \in Place /\ Dist(out, Step(out, k - 1)) = k - 1
    BY <2>1, Added
  <2>3. k - 1 < n BY <1>1
  <2> QED BY <2>1, <2>2, <2>3 DEF Filled, n
<1>4. s \in [1 .. n -> Nat] BY <1>3
<1>5. s \in Seq(Nat) BY <1>1, <1>4, SeqDef
<1>6. DOMAIN s = 1 .. n BY <1>4
<1>7. Len(s) = n BY <1>1, <1>5, <1>6, LenProperties
<1>8. Numbered(s, first) BY <1>3, <1>7 DEF Numbered
<1> HIDE DEF s
<1> QED BY <1>2, <1>5, <1>7, <1>8 DEF n

(* Two such sequences in a row are one.                                    *)
LEMMA NumberedConcat ==
  ASSUME NEW s \in Seq(Nat), NEW t \in Seq(Nat), NEW first \in Nat,
         Numbered(s, first), Numbered(t, first + Len(s))
  PROVE  s \o t = From(first, Len(s) + Len(t))
<1>1. Len(s) \in Nat /\ Len(t) \in Nat BY LenProperties
<1>2. /\ s \o t \in Seq(Nat) /\ Len(s \o t) = Len(s) + Len(t)
      /\ \A i \in 1 .. Len(s) + Len(t) : (s \o t)[i] = IF i <= Len(s) THEN s[i] ELSE t[i - Len(s)]
  BY ConcatProperties
<1>3. ASSUME NEW i \in 1 .. Len(s) + Len(t) PROVE (s \o t)[i] = first + i - 1
  <2>1. CASE i <= Len(s)
    <3>1. i \in 1 .. Len(s) BY <1>1, <2>1
    <3> QED BY <1>2, <2>1, <3>1 DEF Numbered
  <2>2. CASE i > Len(s)
    <3>1. i - Len(s) \in 1 .. Len(t) BY <1>1, <2>2
    <3>2. t[i - Len(s)] = first + Len(s) + (i - Len(s)) - 1 BY <3>1 DEF Numbered
    <3> QED BY <1>1, <1>2, <2>2, <3>2
  <2> QED BY <1>1, <2>1, <2>2
<1>4. Len(s) + Len(t) \in Nat BY <1>1
<1>5. /\ From(first, Len(s) + Len(t)) \in Seq(Nat)
      /\ Len(From(first, Len(s) + Len(t))) = Len(s) + Len(t)
      /\ \A i \in 1 .. Len(s) + Len(t) : From(first, Len(s) + Len(t))[i] = first + i - 1
  BY <1>4, FromIs
<1> QED BY <1>2, <1>3, <1>5, SeqEqual

(* What is under way, place by place, is what was sent and not received.   *)
LEMMA InOrderHolds ==
  ASSUME UartInv
  PROVE  InOrder
<1>1. /\ tx_in \in Place /\ tx_out \in Place /\ rx_in \in Place /\ rx_out \in Place
      /\ sent \in Nat /\ received \in Nat /\ hostSent \in Nat /\ hostReceived \in Nat
  BY DEF UartInv, TypeOK
<1>2. tx_buf \in [Place -> Nat] /\ rx_buf \in [Place -> Nat] BY DEF UartInv, TypeOK
<1>3. wfifo \in Seq(Nat) /\ rfifo \in Seq(Nat) /\ Len(wfifo) \in Nat /\ Len(rfifo) \in Nat
  BY LenProperties DEF UartInv, TypeOK
<1>4. TxUsed \in Nat /\ RxUsed \in Nat BY <1>1, UartAssumption, DistIs DEF TxUsed, RxUsed
<1>5. wfifo \o TxRing = From(hostReceived, sent - hostReceived)
  <2>1. /\ sent = hostReceived + Len(wfifo) + TxUsed
        /\ Numbered(wfifo, hostReceived)
        /\ Filled(tx_buf, tx_out, TxUsed, hostReceived + Len(wfifo))
    BY DEF UartInv, Sending
  <2>2. hostReceived + Len(wfifo) \in Nat BY <1>1, <1>3
  <2>3. TxRing \in Seq(Nat) /\ Len(TxRing) = TxUsed /\ Numbered(TxRing, hostReceived + Len(wfifo))
    BY <1>1, <1>2, <2>1, <2>2, RingNumbered DEF TxRing, TxUsed
  <2>4. wfifo \o TxRing = From(hostReceived, Len(wfifo) + Len(TxRing))
    BY <1>1, <1>3, <2>1, <2>3, NumberedConcat
  <2>5. Len(wfifo) + Len(TxRing) = sent - hostReceived BY <1>1, <1>3, <1>4, <2>1, <2>3
  <2> QED BY <2>4, <2>5
<1>6. RxRing \o rfifo = From(received, hostSent - received)
  <2>1. /\ hostSent = received + RxUsed + Len(rfifo)
        /\ Filled(rx_buf, rx_out, RxUsed, received)
        /\ Numbered(rfifo, received + RxUsed)
    BY DEF UartInv, Receiving
  <2>2. RxRing \in Seq(Nat) /\ Len(RxRing) = RxUsed /\ Numbered(RxRing, received)
    BY <1>1, <1>2, <2>1, RingNumbered DEF RxRing, RxUsed
  <2>3. RxRing \o rfifo = From(received, Len(RxRing) + Len(rfifo))
    BY <1>1, <1>3, <2>1, <2>2, NumberedConcat
  <2>4. Len(RxRing) + Len(rfifo) = hostSent - received BY <1>1, <1>3, <1>4, <2>1, <2>2
  <2> QED BY <2>3, <2>4
<1>7. ASSUME pc = "read_out" PROVE call.chunk = From(received, Len(call.chunk))
  <2>1. Numbered(call.chunk, received) BY <1>7 DEF UartInv, Receiving
  <2>2. call.chunk \in Seq(Nat) /\ Len(call.chunk) \in Nat BY LenProperties DEF UartInv, Locals
  <2>3. /\ From(received, Len(call.chunk)) \in Seq(Nat)
        /\ Len(From(received, Len(call.chunk))) = Len(call.chunk)
        /\ \A k \in 1 .. Len(call.chunk) : From(received, Len(call.chunk))[k] = received + k - 1
    BY <1>1, <2>2, FromIs
  <2> QED BY <2>1, <2>2, <2>3, SeqEqual DEF Numbered
<1> QED BY <1>5, <1>6, <1>7 DEF InOrder

(* No character is lost, doubled, overwritten or reordered in either         *)
(* direction, wherever the routine interrupts the program's copies.          *)
THEOREM InOrderCorrect == Spec => []InOrder
BY InOrderHolds, UartInvariant, PTL
=============================================================================
