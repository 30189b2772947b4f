----------------------------- MODULE FIFOProofs -----------------------------
(***************************************************************************)
(* The FIFO is exact about its level and implements a bounded queue, for   *)
(* every HALF.  The arithmetic of positions modulo 2 * HALF comes first;   *)
(* the invariant and the refinement then need no division.                 *)
(***************************************************************************)
EXTENDS FIFO, SequenceTheorems, TLAPS

(* Division and remainder of a number below 2n, as the top bit and the low *)
(* bits of a position of FIFO.v.                                           *)
LEMMA DivMod ==
  ASSUME NEW n \in Nat \ {0}, NEW p \in 0 .. 2 * n - 1
  PROVE  /\ p \div n = IF p < n THEN 0 ELSE 1
         /\ p % n = IF p < n THEN p ELSE p - n
<1>1. CASE p < n
  <2>1. p \div n = 0 BY <1>1
  <2>2. p % n = p BY <1>1
  <2> QED BY <1>1, <2>1, <2>2
<1>2. CASE p >= n
  <2>1. p \div n = 1 BY <1>2
  <2>2. p % n = p - n BY <1>2
  <2> QED BY <1>2, <2>1, <2>2
<1> QED BY <1>1, <1>2

(* A negative difference of positions wraps round once (pos_write behind   *)
(* pos_read after its wrap).                                               *)
LEMMA NegMod ==
  ASSUME NEW m \in Nat \ {0}, NEW a \in (1 - m) .. -1
  PROVE  a % m = a + m
OBVIOUS

(* The entry that is k places after position r (k = 1: the next position). *)
LEMMA EntryIs ==
  ASSUME NEW r \in Position, NEW k \in 0 .. Depth
  PROVE  /\ (r + k) % Depth = IF r + k < Depth THEN r + k ELSE r + k - Depth
         /\ (r + k) % Depth \in Position
<1>1. Depth \in Nat \ {0} BY FIFOAssumption DEF Depth
<1>2. CASE r + k < Depth
  <2>1. (r + k) % Depth = r + k BY <1>1, <1>2 DEF Position
  <2> QED BY <1>1, <1>2, <2>1 DEF Position
<1>3. CASE r + k >= Depth
  <2>1. (r + k) % Depth = r + k - Depth BY <1>1, <1>3 DEF Position
  <2> QED BY <1>1, <1>3, <2>1 DEF Position
<1> QED BY <1>1, <1>2, <1>3 DEF Position

(* The distance from one position to another, without a remainder.         *)
LEMMA DistanceIs ==
  ASSUME NEW r \in Position, NEW w \in Position
  PROVE  /\ (w - r) % Depth = IF w >= r THEN w - r ELSE w - r + Depth
         /\ (w - r) % Depth \in 0 .. Depth - 1
<1>1. Depth \in Nat \ {0} BY FIFOAssumption DEF Depth
<1>2. CASE w >= r
  <2>1. (w - r) % Depth = w - r BY <1>1, <1>2 DEF Position
  <2> QED BY <1>1, <1>2, <2>1 DEF Position
<1>3. CASE w < r
  <2>1. w - r \in (1 - Depth) .. -1 BY <1>1, <1>3 DEF Position
  <2>2. (w - r) % Depth = w - r + Depth BY <1>1, <2>1, NegMod
  <2> QED BY <1>1, <1>3, <2>2 DEF Position
<1> QED BY <1>1, <1>2, <1>3 DEF Position

(* Comparing the top bits and the low bits of two positions, as compare    *)
(* and equal do, tells the distances 0 and HALF from all others.           *)
LEMMA BitsTellDistance ==
  ASSUME NEW r \in Position, NEW w \in Position
  PROVE  /\ (Top(w) = Top(r) /\ Low(w) = Low(r)) <=> (w - r) % Depth = 0
         /\ (Top(w) # Top(r) /\ Low(w) = Low(r)) <=> (w - r) % Depth = HALF
<1>1. HALF \in Nat \ {0} /\ Depth = 2 * HALF BY FIFOAssumption DEF Depth
<1>2. \A p \in Position : /\ Top(p) = IF p < HALF THEN 0 ELSE 1
                          /\ Low(p) = IF p < HALF THEN p ELSE p - HALF
  BY <1>1, DivMod DEF Top, Low, Position
<1>3. (w - r) % Depth = IF w >= r THEN w - r ELSE w - r + Depth BY DistanceIs
<1> QED BY <1>1, <1>2, <1>3 DEF Position

-----------------------------------------------------------------------------
(* What an edge does to the words between the positions: the first one     *)
(* leaves when it is taken, the rest move up, and an accepted word follows *)
(* the others.  Level < HALF keeps the new word off the old ones.          *)
IInv == TypeOK /\ FlagsExact

Leaving(rreq)  == IF rreq /\ ~FF_empty THEN 1 ELSE 0
Entering(wreq) == IF wreq /\ ~FF_almostfull THEN 1 ELSE 0

LEMMA EdgeEffect ==
  ASSUME IInv, NEW rreq \in BOOLEAN, NEW wreq \in BOOLEAN, NEW word \in Data,
         Edge(rreq, wreq, word)
  PROVE  /\ TypeOK'
         /\ Leaving(rreq) <= Level /\ Level + Entering(wreq) <= HALF
         /\ Level' = Level - Leaving(rreq) + Entering(wreq)
         /\ \A i \in 1 .. Level - Leaving(rreq) :
              Contents'[i] = Contents[i + Leaving(rreq)]
         /\ Entering(wreq) = 1 => Contents'[Level'] = word
<1> DEFINE k == Leaving(rreq)
           n == Entering(wreq)
<1>1. HALF \in Nat \ {0} /\ Depth = 2 * HALF BY FIFOAssumption DEF Depth
<1>2. pos_read \in Position /\ pos_write \in Position
      /\ buffer \in [Position -> Data \cup {NoData}]
  BY DEF IInv, TypeOK
<1>3. /\ Level = IF pos_write >= pos_read THEN pos_write - pos_read
                                          ELSE pos_write - pos_read + Depth
      /\ Level \in 0 .. HALF
  BY <1>1, <1>2, DistanceIs DEF Level, IInv, FlagsExact
<1>4. k \in {0, 1} /\ n \in {0, 1} /\ k <= Level /\ Level + n <= HALF
  BY <1>1, <1>3 DEF IInv, FlagsExact, Leaving, Entering
<1>5. /\ pos_read' = (pos_read + k) % Depth
      /\ pos_write' = (pos_write + n) % Depth
      /\ buffer' = IF n = 1 THEN [buffer EXCEPT ![pos_write] = word] ELSE buffer
  <2>1. ASSUME NEW p \in Position PROVE (p + 0) % Depth = p
    <3>1. 0 \in 0 .. Depth BY <1>1
    <3>2. (p + 0) % Depth = IF p + 0 < Depth THEN p + 0 ELSE p + 0 - Depth
      BY <3>1, EntryIs
    <3> QED BY <1>1, <3>2 DEF Position
  <2>2. /\ k = 1 => pos_read' = (pos_read + 1) % Depth
        /\ k = 0 => pos_read' = pos_read
    BY DEF Edge, Pop, NoPop, Advance, Leaving
  <2>3. /\ n = 1 => /\ pos_write' = (pos_write + 1) % Depth
                    /\ buffer' = [buffer EXCEPT ![pos_write] = word]
        /\ n = 0 => pos_write' = pos_write /\ buffer' = buffer
    BY DEF Edge, Push, NoPush, Advance, Entering
  <2> QED BY <1>2, <1>4, <2>1, <2>2, <2>3
<1> HIDE DEF k, n
<1>6. /\ pos_read' = IF pos_read + k < Depth THEN pos_read + k ELSE pos_read + k - Depth
      /\ pos_write' = IF pos_write + n < Depth THEN pos_write + n ELSE pos_write + n - Depth
      /\ pos_read' \in Position /\ pos_write' \in Position
  <2>1. k \in 0 .. Depth /\ n \in 0 .. Depth BY <1>1, <1>4
  <2> QED BY <1>2, <1>5, <2>1, EntryIs
<1>7. TypeOK' BY <1>2, <1>5, <1>6 DEF TypeOK, Position, Depth
<1>8. Level' = Level - k + n
  <2>1. Level' = IF pos_write' >= pos_read' THEN pos_write' - pos_read'
                                            ELSE pos_write' - pos_read' + Depth
    BY <1>6, DistanceIs DEF Level, Depth
  <2> QED BY <1>1, <1>2, <1>3, <1>4, <1>6, <2>1 DEF Position
<1>9. ASSUME NEW i \in 1 .. Level - k PROVE Contents'[i] = Contents[i + k]
  <2>1. i \in 1 .. Level' /\ i + k \in 1 .. Level BY <1>3, <1>4, <1>8
  <2>2. /\ Contents'[i] = buffer'[(pos_read' + (i - 1)) % Depth]
        /\ Contents[i + k] = buffer[(pos_read + (i + k - 1)) % Depth]
    BY <1>1, <1>2, <1>3, <1>4, <1>6, <2>1 DEF Contents, Depth, Position
  <2>3. i - 1 \in 0 .. Depth /\ i + k - 1 \in 0 .. Depth BY <1>1, <1>3, <1>4, <2>1
  <2>4. /\ (pos_read + (i + k - 1)) % Depth
             = IF pos_read + (i + k - 1) < Depth THEN pos_read + (i + k - 1)
                                                 ELSE pos_read + (i + k - 1) - Depth
        /\ (pos_read + (i + k - 1)) % Depth \in Position
    BY <1>2, <2>3, EntryIs
  <2>5. (pos_read' + (i - 1)) % Depth
             = IF pos_read' + (i - 1) < Depth THEN pos_read' + (i - 1)
                                              ELSE pos_read' + (i - 1) - Depth
    BY <1>6, <2>3, EntryIs
  <2>7. (pos_read' + (i - 1)) % Depth = (pos_read + (i + k - 1)) % Depth
    BY <1>1, <1>2, <1>3, <1>4, <1>6, <2>1, <2>4, <2>5 DEF Position
  <2>6. n = 1 => (pos_read + (i + k - 1)) % Depth # pos_write
    BY <1>1, <1>2, <1>3, <1>4, <2>1, <2>4 DEF Position
  <2> QED BY <1>2, <1>5, <2>2, <2>4, <2>6, <2>7
<1>10. ASSUME n = 1 PROVE Contents'[Level'] = word
  <2>1. Level' \in 1 .. HALF BY <1>1, <1>3, <1>4, <1>8, <1>10
  <2>2. Contents'[Level'] = buffer'[(pos_read' + (Level' - 1)) % Depth]
    BY <1>1, <1>6, <2>1 DEF Contents, Depth, Position
  <2>3. Level' - 1 \in 0 .. Depth BY <1>1, <1>3, <1>4, <1>8, <1>10
  <2>4. (pos_read' + (Level' - 1)) % Depth
             = IF pos_read' + (Level' - 1) < Depth THEN pos_read' + (Level' - 1)
                                                   ELSE pos_read' + (Level' - 1) - Depth
    BY <1>6, <2>3, EntryIs
  <2>5. (pos_read' + (Level' - 1)) % Depth = pos_write
    BY <1>1, <1>2, <1>3, <1>4, <1>6, <1>8, <1>10, <2>1, <2>4 DEF Position
  <2> QED BY <1>2, <1>5, <1>10, <2>2, <2>5
<1> QED BY <1>4, <1>7, <1>8, <1>9, <1>10 DEF k, n

-----------------------------------------------------------------------------
LEMMA InitInv == Init => IInv
<1> SUFFICES ASSUME Init PROVE IInv OBVIOUS
<1>1. TypeOK /\ pos_read = 0 /\ pos_write = 0
  BY FIFOAssumption DEF Init, TypeOK, Position, Depth
<1>2. Level = 0 BY <1>1, DistanceIs DEF Level, TypeOK
<1>3. (FF_empty <=> Level = 0) /\ (FF_almostfull <=> Level = HALF)
  BY <1>1, BitsTellDistance DEF TypeOK, Level, FF_empty, FF_almostfull, compare, equal
<1> QED BY <1>1, <1>2, <1>3, FIFOAssumption DEF IInv, FlagsExact

LEMMA ResetInv == IInv /\ Reset => IInv' /\ Level' = 0
<1> SUFFICES ASSUME IInv, Reset PROVE IInv' /\ Level' = 0 OBVIOUS
<1>1. TypeOK' /\ pos_read' = 0 /\ pos_write' = 0
  BY FIFOAssumption DEF IInv, Reset, TypeOK, Position, Depth
<1>2. Level' = 0 BY <1>1, DistanceIs DEF Level, TypeOK, Depth, Position
<1>3. (FF_empty' <=> Level' = 0) /\ (FF_almostfull' <=> Level' = HALF)
  BY <1>1, BitsTellDistance
  DEF TypeOK, Level, FF_empty, FF_almostfull, compare, equal, Depth, Position, Top, Low
<1> QED BY <1>1, <1>2, <1>3, FIFOAssumption DEF IInv, FlagsExact

LEMMA EdgeInv ==
  ASSUME IInv, NEW rreq \in BOOLEAN, NEW wreq \in BOOLEAN, NEW word \in Data,
         Edge(rreq, wreq, word)
  PROVE  IInv'
<1> DEFINE k == Leaving(rreq)
           n == Entering(wreq)
<1>1. HALF \in Nat \ {0} BY FIFOAssumption
<1>2. /\ k \in {0, 1} /\ n \in {0, 1}
      /\ TypeOK'
      /\ k <= Level /\ Level + n <= HALF
      /\ Level' = Level - k + n
      /\ \A i \in 1 .. Level - k : Contents'[i] = Contents[i + k]
      /\ n = 1 => Contents'[Level'] = word
  BY EdgeEffect DEF Leaving, Entering
<1> HIDE DEF k, n
<1>3. Level \in 0 .. HALF /\ \A i \in 1 .. Level : Contents[i] \in Data
  BY <1>1, DistanceIs DEF IInv, FlagsExact, TypeOK, Level, Depth
<1>4. Level' <= HALF BY <1>1, <1>2, <1>3
<1>5. (FF_empty' <=> Level' = 0) /\ (FF_almostfull' <=> Level' = HALF)
  BY <1>2, BitsTellDistance
  DEF TypeOK, Level, FF_empty, FF_almostfull, compare, equal, Depth, Position, Top, Low
<1>6. ASSUME NEW i \in 1 .. Level' PROVE Contents'[i] \in Data
  <2>1. CASE i \in 1 .. Level - k
    <3>1. i + k \in 1 .. Level BY <1>2, <1>3, <2>1
    <3> QED BY <1>2, <1>3, <2>1, <3>1
  <2>2. CASE n = 1 /\ i = Level' BY <1>2, <2>2
  <2> QED BY <1>2, <1>3, <2>1, <2>2
<1> QED BY <1>2, <1>4, <1>5, <1>6 DEF IInv, FlagsExact

LEMMA NextInv == IInv /\ [Next]_fifoVars => IInv'
<1> SUFFICES ASSUME IInv, [Next]_fifoVars PROVE IInv' OBVIOUS
<1>1. CASE \E rreq, wreq \in BOOLEAN, word \in Data : Edge(rreq, wreq, word)
  BY <1>1, EdgeInv
<1>2. CASE Reset BY <1>2, ResetInv
<1>3. CASE UNCHANGED fifoVars
  BY <1>3 DEF fifoVars, IInv, TypeOK, FlagsExact, Level, Contents, FF_empty,
              FF_almostfull, compare, equal
<1> QED BY <1>1, <1>2, <1>3 DEF Next

(* The registers keep their width in every behaviour of FIFO.v, whatever   *)
(* its ports request.                                                      *)
THEOREM TypeCorrect == Spec => []TypeOK
<1>1. IInv => TypeOK BY DEF IInv
<1> QED BY InitInv, NextInv, <1>1, PTL DEF Spec

(* FF_empty and FF_almostfull are exact, the level never passes HALF and   *)
(* no unwritten entry lies between the positions (FIFO.v lines 40 to 43).  *)
THEOREM FlagsCorrect == Spec => []FlagsExact
<1>1. IInv => FlagsExact BY DEF IInv
<1> QED BY InitInv, NextInv, <1>1, PTL DEF Spec

-----------------------------------------------------------------------------
(* The words between the positions form a sequence of length Level.        *)
LEMMA ContentsSeq ==
  ASSUME IInv
  PROVE  Contents \in Seq(Data) /\ Len(Contents) = Level /\ Level \in 0 .. HALF
<1>1. HALF \in Nat \ {0} BY FIFOAssumption
<1>2. Level \in 0 .. HALF /\ \A i \in 1 .. Level : Contents[i] \in Data
  BY <1>1, DistanceIs DEF IInv, FlagsExact, TypeOK, Level, Depth
<1>3. Contents \in [1 .. Level -> Data] BY <1>2 DEF Contents
<1>4. Contents \in Seq(Data) BY <1>2, <1>3, IsASeq
<1>5. DOMAIN Contents = 1 .. Level BY DEF Contents
<1> QED BY <1>1, <1>2, <1>4, <1>5, LenProperties

(* An edge does to the words between the positions what the two requests   *)
(* ask of a bounded queue.                                                 *)
LEMMA EdgeIsQueueStep ==
  ASSUME IInv, IInv', NEW rreq \in BOOLEAN, NEW wreq \in BOOLEAN, NEW word \in Data,
         Edge(rreq, wreq, word)
  PROVE  Queue!Edge(rreq, wreq, word)
<1> DEFINE k == Leaving(rreq)
           n == Entering(wreq)
<1>1. HALF \in Nat \ {0} BY FIFOAssumption
<1>2. /\ k \in {0, 1} /\ n \in {0, 1}
      /\ k <= Level /\ Level + n <= HALF
      /\ Level' = Level - k + n
      /\ \A i \in 1 .. Level - k : Contents'[i] = Contents[i + k]
      /\ n = 1 => Contents'[Level'] = word
  BY EdgeEffect DEF Leaving, Entering
<1>3. /\ Contents \in Seq(Data) /\ Len(Contents) = Level /\ Level \in 0 .. HALF
  BY ContentsSeq
<1>8. /\ k = 1 <=> Queue!Taken(rreq)
      /\ n = 1 <=> Queue!Put(wreq)
  <2>1. FF_empty <=> Contents = << >> BY <1>3, EmptySeq DEF IInv, FlagsExact
  <2>2. FF_almostfull <=> ~(Len(Contents) < HALF) BY <1>1, <1>3 DEF IInv, FlagsExact
  <2> QED BY <2>1, <2>2 DEF Leaving, Entering, Queue!Taken, Queue!Put
<1> HIDE DEF k, n
<1>4. /\ Contents' \in Seq(Data) /\ Len(Contents') = Level' /\ Level' \in 0 .. HALF
  <2>1. HALF \in Nat \ {0} /\ IInv' BY FIFOAssumption
  <2>2. Level' \in 0 .. HALF /\ \A i \in 1 .. Level' : Contents'[i] \in Data
    BY <2>1, <1>2, <1>3 DEF IInv, FlagsExact
  <2>3. Contents' \in [1 .. Level' -> Data] BY <2>2 DEF Contents
  <2>4. Contents' \in Seq(Data) BY <2>2, <2>3, IsASeq
  <2>5. DOMAIN Contents' = 1 .. Level' BY DEF Contents
  <2> QED BY <2>1, <2>2, <2>4, <2>5, LenProperties
<1>5. CASE k = 0 /\ n = 0
  <2>1. Contents' = Contents BY <1>2, <1>3, <1>4, <1>5, SeqEqual
  <2> QED BY <1>5, <1>8, <2>1 DEF Queue!Edge, Queue!Rest
<1>6. CASE k = 0 /\ n = 1
  <2>1. Contents' = Append(Contents, word)
    <3>1. /\ Append(Contents, word) \in Seq(Data)
          /\ Len(Append(Contents, word)) = Level + 1
          /\ \A i \in 1 .. Level : Append(Contents, word)[i] = Contents[i]
          /\ Append(Contents, word)[Level + 1] = word
      BY <1>3, AppendProperties
    <3>2. \A i \in 1 .. Len(Contents') : Contents'[i] = Append(Contents, word)[i]
      BY <1>2, <1>3, <1>4, <1>6, <3>1
    <3> QED BY <1>2, <1>3, <1>4, <1>6, <3>1, <3>2, SeqEqual
  <2> QED BY <1>6, <1>8, <2>1 DEF Queue!Edge, Queue!Rest
<1>7. CASE k = 1
  <2>1. Contents # << >> BY <1>2, <1>3, <1>7, EmptySeq
  <2>2. /\ Tail(Contents) \in Seq(Data)
        /\ Len(Tail(Contents)) = Level - 1
        /\ \A i \in 1 .. Level - 1 : Tail(Contents)[i] = Contents[i + 1]
    BY <1>3, <2>1, HeadTailProperties
  <2>3. CASE n = 0
    <3>1. Contents' = Tail(Contents) BY <1>2, <1>3, <1>4, <1>7, <2>2, <2>3, SeqEqual
    <3> QED BY <1>7, <1>8, <2>3, <3>1 DEF Queue!Edge, Queue!Rest
  <2>4. CASE n = 1
    <3> DEFINE t == Append(Tail(Contents), word)
    <3>1. /\ t \in Seq(Data) /\ Len(t) = Level - 1 + 1
          /\ \A i \in 1 .. Level - 1 : t[i] = Tail(Contents)[i]
          /\ t[Level - 1 + 1] = word
      BY <2>2, AppendProperties
    <3>2. \A i \in 1 .. Len(Contents') : Contents'[i] = t[i]
      BY <1>2, <1>3, <1>4, <1>7, <2>2, <2>4, <3>1
    <3>3. Len(Contents') = Len(t) BY <1>2, <1>3, <1>4, <1>7, <2>4, <3>1
    <3>4. Contents' = t BY <1>4, <3>1, <3>2, <3>3, SeqEqual
    <3> QED BY <1>7, <1>8, <2>4, <3>4 DEF Queue!Edge, Queue!Rest
  <2> QED BY <1>2, <2>3, <2>4
<1> QED BY <1>2, <1>5, <1>6, <1>7

(* FIFO.v implements the bounded queue of HALF words, for every HALF and   *)
(* every set of words: order kept, nothing lost, nothing duplicated.       *)
THEOREM QueueImplemented == Spec => ImplementsQueue
<1>1. Init => Queue!Init
  <2> SUFFICES ASSUME Init PROVE Contents = << >> BY DEF Queue!Init
  <2>1. Contents \in Seq(Data) /\ Len(Contents) = Level BY InitInv, ContentsSeq
  <2>2. Level = 0 BY InitInv, DistanceIs DEF Init, IInv, TypeOK, Level
  <2> QED BY <2>1, <2>2, EmptySeq
<1>2. IInv /\ IInv' /\ [Next]_fifoVars => [Queue!Next \/ (Reset /\ Queue!Clear)]_Contents
  <2> SUFFICES ASSUME IInv, IInv', [Next]_fifoVars
               PROVE  [Queue!Next \/ (Reset /\ Queue!Clear)]_Contents
    OBVIOUS
  <2>1. CASE \E rreq, wreq \in BOOLEAN, word \in Data : Edge(rreq, wreq, word)
    BY <2>1, EdgeIsQueueStep DEF Queue!Next
  <2>2. CASE Reset
    <3>1. Level' = 0 BY <2>2, ResetInv
    <3>2. Contents' = << >> BY <3>1 DEF Contents
    <3> QED BY <2>2, <3>2 DEF Queue!Clear
  <2>3. CASE UNCHANGED fifoVars BY <2>3 DEF fifoVars, Contents, Level
  <2> QED BY <2>1, <2>2, <2>3 DEF Next
<1>3. IInv /\ IInv' /\ [Next]_fifoVars => [PortsActAsQueue]_fifoVars
  BY EdgeIsQueueStep DEF PortsActAsQueue
<1> QED BY <1>1, <1>2, <1>3, InitInv, NextInv, PTL DEF Spec, ImplementsQueue
=============================================================================

