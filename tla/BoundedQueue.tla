---------------------------- MODULE BoundedQueue ----------------------------
(***************************************************************************)
(* What a clocked word buffer promises its two users: on every edge a word *)
(* is put at the back if that is asked for and there is room, and the word *)
(* at the front leaves if that is asked for and there is one.  Room that   *)
(* a leaving word makes can be used from the next edge on.                 *)
(***************************************************************************)
EXTENDS Naturals, Sequences

CONSTANTS Capacity,   \* how many words the queue holds at most
          Data        \* the words

VARIABLE queue

Init == queue = << >>

Taken(take)     == take /\ queue # << >>
Put(put)        == put /\ Len(queue) < Capacity
Rest(take)      == IF Taken(take) THEN Tail(queue) ELSE queue

Edge(take, put, word) ==
  queue' = IF Put(put) THEN Append(Rest(take), word) ELSE Rest(take)

Clear == queue' = << >>

Next == \E take, put \in BOOLEAN, word \in Data : Edge(take, put, word)

Spec == Init /\ [][Next]_queue
=============================================================================
