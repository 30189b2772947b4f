----------------------------- MODULE DeviceLocks -----------------------------
(***************************************************************************)
(* What the descriptor layer promises about exclusive access: a descriptor *)
(* may lock its device, nobody opens a locked device, and no device is     *)
(* locked twice.  It does not promise that the holder is the only user:    *)
(* descriptors opened before the lock may go on using the device.          *)
(***************************************************************************)
CONSTANTS FD, Device, Free

VARIABLES user,      \* the device of each descriptor, Free if it has none
          locked     \* the descriptors that hold a lock

vars == <<user, locked>>

Init == user \in [FD -> Device \cup {Free}] /\ locked = {}

\* A descriptor begins to use a device that nobody has locked, or passes to
\* another one; only a descriptor without a lock can do that.
Open(i, d) ==
  /\ i \notin locked
  /\ \A h \in locked : user[h] # d
  /\ user' = [user EXCEPT ![i] = d]
  /\ UNCHANGED locked

Close(i) ==
  /\ user' = [user EXCEPT ![i] = Free]
  /\ locked' = locked \ {i}

Lock(i) ==
  /\ user[i] # Free
  /\ \A h \in locked : user[h] = user[i] => h = i
  /\ locked' = locked \cup {i}
  /\ UNCHANGED user

Unlock(i) == locked' = locked \ {i} /\ UNCHANGED user

Next == \E i \in FD : (\E d \in Device : Open(i, d)) \/ Close(i) \/ Lock(i) \/ Unlock(i)

Spec == Init /\ [][Next]_vars
=============================================================================
