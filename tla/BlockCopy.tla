------------------------------ MODULE BlockCopy ------------------------------
(***************************************************************************)
(* What the DMA controller promises the software: one block is copied per  *)
(* reset, word by word in ascending order, nothing outside the destination *)
(* block is written, and the end is reported when at most the last word is *)
(* still outstanding.  (That the last word is not excepted is what one     *)
(* would expect; the code does not keep it.)                               *)
(***************************************************************************)
EXTENDS Integers

CONSTANTS M,        \* addresses and words are below M
          NoData,   \* not written since the last reset
          NoJob     \* no transfer since the last reset

VARIABLES mem,      \* what was written since the last reset
          job,      \* the transfer that was started: its source, destination, length
          reported  \* its end was reported

Word == 0 .. M - 1
Job == [src : Word, dst : Word, length : Word]

\* The word with number i of a block that starts at base.  A source word is
\* represented by its own address.
At(base, i) == (base + 4 * i) % M
Words(j) == j.length \div 4
Copied(j, i) == mem[At(j.dst, i)] = At(j.src, i)

Init ==
  /\ mem = [a \in Word |-> NoData]
  /\ job = NoJob
  /\ reported = FALSE

Start ==
  /\ job = NoJob
  /\ job' \in Job
  /\ UNCHANGED <<mem, reported>>

CopyWord == \E i \in 0 .. Words(job) - 1 :
  /\ \A k \in 0 .. i - 1 : Copied(job, k)
  /\ mem' = [mem EXCEPT ![At(job.dst, i)] = At(job.src, i)]
  /\ UNCHANGED <<job, reported>>

\* The report may come on the edge on which a word is copied.
Report ==
  /\ job # NoJob /\ ~reported
  /\ \A k \in 0 .. Words(job) - 2 : Copied(job, k)
  /\ reported' = TRUE
  /\ UNCHANGED job
  /\ \/ UNCHANGED mem
     \/ mem' = [mem EXCEPT ![At(job.dst, Words(job) - 1)] = At(job.src, Words(job) - 1)]

Clear ==
  /\ job' = NoJob
  /\ reported' = FALSE
  /\ mem' = [a \in Word |-> NoData]

Next == Start \/ (job # NoJob /\ CopyWord) \/ Report

Spec == Init /\ [][Next]_<<mem, job, reported>>
=============================================================================
