---------------------------- MODULE MCHALProofs ----------------------------
(***************************************************************************)
(* Proofs for the two parts of the HAL that MCHAL puts side by side.       *)
(* alt_file: its invariant FileInv, the properties that follow from it,    *)
(* and that the file layer implements DeviceLocks.  alt_tick: an alarm is  *)
(* called back on the tick it asked for, and the time of day follows the   *)
(* ticks, for counters of every width, every rate and any number of        *)
(* alarms.                                                                 *)
(***************************************************************************)
EXTENDS MCHAL, WellFoundedInduction, TLAPS

-----------------------------------------------------------------------------
\* A nonempty set of numbers has a least element.
LEMMA LeastElement ==
  ASSUME NEW S, S \subseteq Nat, S # {}
  PROVE  Min(S) \in S /\ \A k \in S : Min(S) <= k
<1> DEFINE R == {p \in Nat \X Nat : p[1] < p[2]}
<1>1. IsWellFoundedOn(R, Nat)
  BY NatLessThanWellFounded DEF OpToRel
<1>2. PICK x \in S : \A y \in S : ~ (<<y, x>> \in R)
  BY <1>1, WFMin
<1>3. ASSUME NEW y \in S PROVE x <= y
  <2>1. x \in Nat /\ y \in Nat
    OBVIOUS
  <2>2. y < x => <<y, x>> \in R
    BY <2>1
  <2> QED
    BY <1>2, <2>1, <2>2
<1> QED
  BY <1>3 DEF Min

LEMMA VacantLeast ==
  ASSUME Vacant # {}
  PROVE  alt_get_fd \in FD /\ alt_fd_list[alt_get_fd].dev = Free
BY FileAssumption, LeastElement DEF Vacant, FD, alt_get_fd

LEMMA FirstTyped ==
  ASSUME NEW S, NEW list \in Seq(S), NEW hits \in SUBSET DOMAIN list
  PROVE  First(list, hits) \in S \cup {Free}
<1>1. CASE hits = {}
  BY <1>1 DEF First
<1>2. CASE hits # {}
  <2>1. hits \subseteq Nat /\ DOMAIN list = 1 .. Len(list)
    OBVIOUS
  <2>2. Min(hits) \in DOMAIN list
    BY <1>2, <2>1, LeastElement
  <2> QED
    BY <1>2, <2>2 DEF First
<1> QED
  BY <1>1, <1>2

LEMMA FindTyped ==
  ASSUME TypeOK, NEW name
  PROVE  /\ Find(name) \in Driver \cup {Free}
         /\ IsDevice(name) => Find(name) \in Device \cup {alt_dev_null}
         /\ ~IsDevice(name) => Find(name) \in FileSystem \cup {Free}
<1>1. alt_find_dev(name) \in (Device \cup {alt_dev_null}) \cup {Free}
  BY FirstTyped DEF TypeOK, alt_find_dev
<1>2. alt_find_file(name) \in FileSystem \cup {Free}
  BY FirstTyped DEF TypeOK, alt_find_file
<1> QED
  BY <1>1, <1>2 DEF Find, IsDevice, Driver, Registrable

-----------------------------------------------------------------------------
\* The inductive invariant.  The standard descriptors are always in use, from
\* /dev/null on, so that get_fd() never hands one out; nothing is locked before
\* main(); what is in use lies at or below the mark; only a device is locked.
StandardInUse == \A i \in Standard : alt_fd_list[i].dev # Free

Booting ==
  /\ pc = "alt_sys_init" => \A i \in Standard : alt_fd_list[i].dev = alt_dev_null
  /\ pc \notin {"main", "exit"} => \A i \in FD : ~alt_fd_list[i].fd_flags.excl

BelowMark ==
  \A i \in FD :
    /\ i > 2 /\ alt_fd_list[i].dev # Free => i <= alt_max_fd
    /\ alt_fd_list[i].fd_flags.dev =>
         alt_max_fd > 2 /\ alt_fd_list[i].dev \in Device \cup {alt_dev_null}
    /\ alt_fd_list[i].fd_flags.excl => alt_fd_list[i].fd_flags.dev

\* Who shares a device with the holder of its lock has a higher descriptor: the
\* one at the mark, which alt_fd_lock() did not look at.
OthersAbove ==
  \A i, j \in FD :
    /\ alt_fd_list[j].fd_flags.excl
    /\ alt_fd_list[i].dev = alt_fd_list[j].dev
    /\ i # j
    => i > j

FileInv ==
  /\ TypeOK /\ PoolMatchesHeld /\ StandardStreams
  /\ StandardInUse /\ Booting /\ BelowMark /\ OthersAbove

-----------------------------------------------------------------------------
LEMMA StandardTyped == Standard \subseteq FD /\ \A i \in FD : i \in Standard <=> i <= 2
BY FileAssumption DEF Standard, FD, STDIN_FILENO, STDOUT_FILENO, STDERR_FILENO

LEMMA UnusedTyped ==
  /\ Zero \in Flags
  /\ Unused \in [dev : Driver \cup {Free}, fd_flags : Flags]
BY FileAssumption DEF Zero, Flags, Unused

\* What get_fd() finds was given back before, and is no standard descriptor.
LEMMA VacantIsUnused ==
  ASSUME FileInv, Vacant # {}
  PROVE  /\ alt_get_fd \in FD \ Standard /\ alt_get_fd > 2
         /\ alt_fd_list[alt_get_fd] = Unused /\ held[alt_get_fd] = NotHeld
         /\ Mark \in -1 .. ALT_MAX_FD - 1 /\ Mark >= alt_max_fd /\ Mark >= alt_get_fd
         /\ Mark > 2
<1>1. alt_get_fd \in FD /\ alt_fd_list[alt_get_fd].dev = Free
  BY VacantLeast
<1>2. alt_get_fd \notin Standard /\ alt_get_fd > 2
  BY <1>1, StandardTyped DEF FileInv, StandardInUse, FD
<1>3. held[alt_get_fd] = NotHeld
  BY <1>1, <1>2, FileAssumption DEF FileInv, PoolMatchesHeld, TypeOK, Request
<1>4. alt_fd_list[alt_get_fd] = Unused
  BY <1>1, <1>2, <1>3 DEF FileInv, PoolMatchesHeld
<1>5. /\ Mark \in -1 .. ALT_MAX_FD - 1 /\ Mark >= alt_max_fd /\ Mark >= alt_get_fd
      /\ Mark > 2
  BY <1>1, <1>2, FileAssumption DEF Mark, FD, FileInv, TypeOK
<1> QED
  BY <1>1, <1>2, <1>3, <1>4, <1>5

\* An open() that fails leaves the pool as it was.
LEMMA FailedEffect ==
  ASSUME FileInv, NEW name, NEW flags, ALT_OPEN_failed(name, flags)
  PROVE  /\ alt_fd_list' = alt_fd_list
         /\ alt_max_fd' \in -1 .. ALT_MAX_FD - 1 /\ alt_max_fd' >= alt_max_fd
<1>1. CASE ~Allocates(name)
  BY <1>1, FileAssumption DEF ALT_OPEN_failed, FileInv, TypeOK
<1>2. CASE Allocates(name)
  <2>1. Vacant # {}
    BY <1>2 DEF Allocates
  <2>2. alt_fd_list' = [Allocated(name, flags) EXCEPT ![alt_get_fd] = Unused]
    BY <1>2, <2>1, VacantIsUnused DEF ALT_OPEN_failed, alt_release_fd
  <2>3. alt_fd_list' = alt_fd_list
    BY <2>1, <2>2, VacantIsUnused DEF Allocated, FileInv, TypeOK
  <2>4. alt_max_fd' = Mark
    BY <1>2 DEF ALT_OPEN_failed
  <2> QED
    BY <2>1, <2>3, <2>4, VacantIsUnused
<1> QED
  BY <1>1, <1>2

\* The entry a successful open() writes.
Entry(name, flags) ==
  [dev |-> Find(name),
   fd_flags |-> [Zero EXCEPT !.access = flags.access, !.status = flags.status,
                             !.dev = IsDevice(name)]]

LEMMA EntryTyped ==
  ASSUME FileInv, NEW name, NEW flags \in OpenFlags, Find(name) # Free
  PROVE  /\ Entry(name, flags) \in [dev : Driver \cup {Free}, fd_flags : Flags]
         /\ Entry(name, flags).dev = Find(name) /\ Find(name) \in Driver
         /\ Entry(name, flags).fd_flags.access = flags.access
         /\ Entry(name, flags).fd_flags.excl = FALSE
         /\ Entry(name, flags).fd_flags.dev => Find(name) \in Device \cup {alt_dev_null}
<1>1. IsDevice(name) \in BOOLEAN
  BY DEF IsDevice
<1>2. /\ Find(name) \in Driver
      /\ IsDevice(name) => Find(name) \in Device \cup {alt_dev_null}
  BY FindTyped DEF FileInv
<1> QED
  BY <1>1, <1>2, FileAssumption DEF Entry, Zero, Flags, OpenFlags

-----------------------------------------------------------------------------
LEMMA InitInv ==
  ASSUME Init
  PROVE  FileInv
<1>1. /\ \A i \in FD :
           /\ alt_fd_list[i].fd_flags = Zero
           /\ i \in Standard => alt_fd_list[i].dev = alt_dev_null
           /\ i \notin Standard => alt_fd_list[i] = Unused
      /\ Unused.dev = Free /\ Zero.excl = FALSE /\ Zero.dev = FALSE
  BY DEF Init, Unused, Zero
<1>2. TypeOK
  <2>1. alt_fd_list \in [FD -> [dev : Driver \cup {Free}, fd_flags : Flags]]
    BY UnusedTyped DEF Init, Unused, Driver
  <2>2. alt_dev_list \in Seq(Device \cup {alt_dev_null}) /\ alt_fs_list \in Seq(FileSystem)
    BY DEF Init
  <2> QED
    BY <2>1, <2>2, FileAssumption DEF Init, TypeOK
<1>3. PoolMatchesHeld
  BY <1>1 DEF Init, PoolMatchesHeld
<1>4. StandardStreams /\ StandardInUse /\ Booting
  BY <1>1, StandardTyped, FileAssumption
     DEF Init, Driver, StandardStreams, StandardInUse, Booting
<1>5. BelowMark /\ OthersAbove
  <2>1. \A i \in FD : i > 2 => alt_fd_list[i].dev = Free
    BY <1>1, StandardTyped DEF FD
  <2>2. \A i \in FD : ~alt_fd_list[i].fd_flags.excl /\ ~alt_fd_list[i].fd_flags.dev
    BY <1>1
  <2> QED
    BY <2>1, <2>2 DEF BelowMark, OthersAbove
<1> QED
  BY <1>2, <1>3, <1>4, <1>5 DEF FileInv

\* Registering what there is, and the end of alt_sys_init().
LEMMA RegisterInv ==
  ASSUME FileInv,
         \/ \E d \in Device : alt_dev_reg(d)
         \/ \E f \in FileSystem : alt_fs_reg(f)
         \/ SysInitDone
  PROVE  FileInv'
<1>1. /\ UNCHANGED <<alt_fd_list, alt_max_fd, held>>
      /\ pc = "alt_sys_init" /\ pc' \in {"alt_sys_init", "stdout"}
  BY DEF alt_dev_reg, alt_fs_reg, SysInitDone
<1>2. alt_dev_list' \in Seq(Device \cup {alt_dev_null}) /\ alt_fs_list' \in Seq(FileSystem)
  <2>1. alt_dev_list \in Seq(Device \cup {alt_dev_null}) /\ alt_fs_list \in Seq(FileSystem)
    BY DEF FileInv, TypeOK
  <2>2. ASSUME NEW d \in Device, alt_dev_reg(d)
        PROVE  alt_dev_list' \in Seq(Device \cup {alt_dev_null})
    BY <2>1, <2>2 DEF alt_dev_reg
  <2>3. ASSUME NEW f \in FileSystem, alt_fs_reg(f)
        PROVE  alt_fs_list' \in Seq(FileSystem)
    BY <2>1, <2>3 DEF alt_fs_reg
  <2> QED
    BY <2>1, <2>2, <2>3 DEF alt_dev_reg, alt_fs_reg, SysInitDone
<1>3. TypeOK'
  BY <1>1, <1>2 DEF FileInv, TypeOK
<1>4. StandardStreams'
  BY <1>1 DEF FileInv, Booting, StandardStreams
<1>5. (PoolMatchesHeld /\ StandardInUse /\ Booting /\ BelowMark /\ OthersAbove)'
  BY <1>1 DEF FileInv, PoolMatchesHeld, StandardInUse, Booting, BelowMark, OthersAbove
<1> QED
  BY <1>3, <1>4, <1>5 DEF FileInv

LEMMA FindKept ==
  ASSUME UNCHANGED <<alt_dev_list, alt_fs_list>>
  PROVE  \A i \in Standard : Find(StdName[i])' = Find(StdName[i])
BY DEF Find, alt_find_dev, alt_find_file

\* The effect of a redirection: nothing, or the stream's descriptor is replaced.
LEMMA RedirectEffect ==
  ASSUME FileInv, alt_open_fd
  PROVE  /\ pc \in {"stdout", "stdin", "stderr"} /\ pc' \in {"stdin", "stderr", "main"}
         /\ UNCHANGED <<alt_dev_list, alt_fs_list, held>>
         /\ alt_max_fd' \in -1 .. ALT_MAX_FD - 1 /\ alt_max_fd' >= alt_max_fd
         /\ \/ alt_fd_list' = alt_fd_list
            \/ \E i \in Standard :
                 /\ Find(StdName[i]) # Free /\ StdFlags(i) \in OpenFlags
                 /\ alt_fd_list' = [alt_fd_list EXCEPT ![i] = Entry(StdName[i], StdFlags(i))]
                 /\ alt_max_fd' > 2
<1> DEFINE i == Redirected(pc)
<1>1. pc \in {"stdout", "stdin", "stderr"}
  BY DEF alt_open_fd
<1>2. i \in Standard /\ pc' \in {"stdin", "stderr", "main"}
  BY <1>1 DEF alt_open_fd, Redirected, After, Standard
<1>3. StdFlags(i) \in OpenFlags
  BY FileAssumption DEF StdFlags, OpenFlags
<1>4. CASE ALT_OPEN_failed(StdName[i], StdFlags(i))
  BY <1>1, <1>2, <1>4, FailedEffect DEF alt_open_fd
<1>5. CASE /\ OpenSucceeds(StdName[i])
           /\ alt_fd_list' = Moved(Allocated(StdName[i], StdFlags(i)), alt_get_fd, i)
           /\ alt_max_fd' = Mark
  <2> DEFINE g == alt_get_fd
             e == Entry(StdName[i], StdFlags(i))
  <2>1. Find(StdName[i]) # Free /\ Vacant # {}
    BY <1>5 DEF OpenSucceeds, Allocates
  <2>2. g \in FD \ Standard /\ g > 2 /\ alt_fd_list[g] = Unused
    BY <2>1, VacantIsUnused
  <2>3. Allocated(StdName[i], StdFlags(i)) = [alt_fd_list EXCEPT ![g] = e]
    BY DEF Allocated, Entry
  <2>4. alt_fd_list' = [[[alt_fd_list EXCEPT ![g] = e] EXCEPT ![i] = e] EXCEPT ![g] = Unused]
    BY <1>5, <2>2, <2>3 DEF Moved, alt_release_fd, FileInv, TypeOK
  <2>5. alt_fd_list' = [alt_fd_list EXCEPT ![i] = e]
    BY <1>2, <2>2, <2>4, StandardTyped DEF FileInv, TypeOK
  <2>6. alt_max_fd' \in -1 .. ALT_MAX_FD - 1 /\ alt_max_fd' >= alt_max_fd /\ alt_max_fd' > 2
    BY <1>5, <2>1, VacantIsUnused
  <2> QED
    BY <1>1, <1>2, <1>3, <2>1, <2>5, <2>6 DEF alt_open_fd
<1> QED
  BY <1>4, <1>5 DEF alt_open_fd

LEMMA RedirectInv ==
  ASSUME FileInv, alt_open_fd
  PROVE  FileInv'
<1> USE RedirectEffect
<1>1. CASE alt_fd_list' = alt_fd_list
  <2>1. TypeOK'
    BY <1>1 DEF FileInv, TypeOK
  <2>2. (PoolMatchesHeld /\ StandardInUse /\ Booting /\ OthersAbove)'
    BY <1>1 DEF FileInv, PoolMatchesHeld, StandardInUse, Booting, OthersAbove
  <2>3. BelowMark'
    BY <1>1 DEF FileInv, TypeOK, FD, BelowMark
  <2>4. StandardStreams'
    BY <1>1, FindKept DEF FileInv, StandardStreams
  <2> QED
    BY <2>1, <2>2, <2>3, <2>4 DEF FileInv
<1>2. ASSUME NEW i \in Standard,
             Find(StdName[i]) # Free, StdFlags(i) \in OpenFlags,
             alt_fd_list' = [alt_fd_list EXCEPT ![i] = Entry(StdName[i], StdFlags(i))],
             alt_max_fd' > 2
      PROVE  FileInv'
  <2> DEFINE e == Entry(StdName[i], StdFlags(i))
  <2>1. /\ e \in [dev : Driver \cup {Free}, fd_flags : Flags]
        /\ e.dev = Find(StdName[i]) /\ Find(StdName[i]) \in Driver
        /\ e.fd_flags.access = StdFlags(i).access
        /\ e.fd_flags.excl = FALSE
        /\ e.fd_flags.dev => Find(StdName[i]) \in Device \cup {alt_dev_null}
    BY <1>2, EntryTyped
  <2>2. i \in FD /\ i <= 2 /\ e.dev # Free
    BY <2>1, StandardTyped, FileAssumption
  <2>3. /\ alt_fd_list'[i] = e
        /\ \A j \in FD : j # i => alt_fd_list'[j] = alt_fd_list[j]
    BY <1>2, <2>2 DEF FileInv, TypeOK
  <2> HIDE DEF e
  <2>4. TypeOK'
    BY <1>2, <2>1, <2>2 DEF FileInv, TypeOK, e
  <2>5. PoolMatchesHeld' /\ StandardInUse'
    BY <2>2, <2>3, StandardTyped DEF FileInv, PoolMatchesHeld, StandardInUse
  <2>6. StandardStreams'
    BY <2>1, <2>2, <2>3, StandardTyped, FindKept DEF FileInv, StandardStreams
  <2>7. Booting'
    BY <2>1, <2>2, <2>3 DEF FileInv, Booting
  <2>8. BelowMark'
    BY <1>2, <2>1, <2>2, <2>3 DEF FileInv, BelowMark, TypeOK, FD
  <2>9. OthersAbove'
    BY <2>1, <2>2, <2>3 DEF FileInv, Booting, OthersAbove
  <2> QED
    BY <2>4, <2>5, <2>6, <2>7, <2>8, <2>9 DEF FileInv
<1> QED
  BY <1>1, <1>2


\* open() by the program takes a descriptor that nobody held.
LEMMA OpenInv ==
  ASSUME FileInv, NEW name, NEW flags \in OpenFlags, ALT_OPEN(name, flags)
  PROVE  FileInv'
<1> DEFINE g == alt_get_fd
           e == Entry(name, flags)
           h == [dev |-> Find(name), access |-> flags.access]
<1>1. /\ Find(name) # Free /\ Vacant # {}
      /\ IsDevice(name) => ~alt_file_locked(name)
      /\ pc = "main" /\ UNCHANGED <<pc, alt_dev_list, alt_fs_list>>
      /\ alt_fd_list' = [alt_fd_list EXCEPT ![g] = e]
      /\ held' = [held EXCEPT ![g] = h]
      /\ alt_max_fd' = Mark
  BY DEF ALT_OPEN, OpenSucceeds, Allocates, InMain, Allocated, Entry
<1>2. /\ g \in FD \ Standard /\ g > 2 /\ alt_fd_list[g] = Unused
      /\ Mark \in -1 .. ALT_MAX_FD - 1 /\ Mark >= alt_max_fd /\ Mark >= g /\ Mark > 2
  BY <1>1, VacantIsUnused
<1>3. /\ e \in [dev : Driver \cup {Free}, fd_flags : Flags]
      /\ e.dev = Find(name) /\ Find(name) \in Driver
      /\ e.fd_flags.access = flags.access
      /\ e.fd_flags.excl = FALSE
      /\ e.fd_flags.dev => Find(name) \in Device \cup {alt_dev_null}
  BY <1>1, EntryTyped
<1>4. h \in Request /\ h # NotHeld /\ h.dev = Find(name) /\ h.access = flags.access
  BY <1>3, FileAssumption DEF Request, NotHeld, OpenFlags
<1>5. /\ alt_fd_list'[g] = e /\ held'[g] = h
      /\ \A j \in FD : j # g => alt_fd_list'[j] = alt_fd_list[j] /\ held'[j] = held[j]
  BY <1>1, <1>2 DEF FileInv, TypeOK
<1>6. ~IsDevice(name) => Find(name) \in FileSystem
  BY <1>1, FindTyped DEF FileInv
<1> HIDE DEF e, h, g
<1>7. TypeOK'
  BY <1>1, <1>2, <1>3, <1>4 DEF FileInv, TypeOK
<1>8. PoolMatchesHeld'
  BY <1>2, <1>3, <1>4, <1>5 DEF FileInv, PoolMatchesHeld
<1>9. (StandardStreams /\ StandardInUse)'
  BY <1>1, <1>2, <1>5, StandardTyped, FindKept DEF FileInv, StandardStreams, StandardInUse
<1>10. Booting'
  BY <1>1 DEF Booting
<1>11. BelowMark'
  BY <1>1, <1>2, <1>3, <1>5 DEF FileInv, BelowMark, TypeOK, FD
<1>12. OthersAbove'
  <2>1. ASSUME NEW i \in FD, NEW j \in FD, i # j,
               alt_fd_list'[j].fd_flags.excl, alt_fd_list'[i].dev = alt_fd_list'[j].dev
        PROVE  i > j
    <3>1. j # g /\ alt_fd_list[j].fd_flags.excl /\ alt_fd_list'[j] = alt_fd_list[j]
      BY <1>3, <1>5, <2>1
    <3>2. CASE i # g
      BY <1>5, <2>1, <3>1, <3>2 DEF FileInv, OthersAbove
    <3>3. CASE i = g
      <4>1. alt_fd_list[j].dev = Find(name)
        BY <1>3, <1>5, <2>1, <3>1, <3>3
      <4>2. Find(name) \in Device \cup {alt_dev_null}
        BY <3>1, <4>1 DEF FileInv, BelowMark
      <4>3. IsDevice(name)
        BY <1>6, <4>2, FileAssumption DEF Registrable
      <4>4. alt_fd_list[j].dev # Free
        BY <1>1, <4>1
      <4>5. j <= Mark
        <5>1. j > 2 => j <= alt_max_fd
          BY <4>4 DEF FileInv, BelowMark
        <5>2. alt_max_fd \in Int
          BY FileAssumption DEF FileInv, TypeOK
        <5> QED
          BY <1>2, <5>1, <5>2 DEF FD
      <4> QED
        BY <1>1, <3>1, <4>1, <4>3, <4>5 DEF alt_file_locked
    <3> QED
      BY <3>2, <3>3
  <2> QED
    BY <2>1 DEF OthersAbove
<1> QED
  BY <1>7, <1>8, <1>9, <1>10, <1>11, <1>12 DEF FileInv

LEMMA OpenErrorInv ==
  ASSUME FileInv, NEW name, NEW flags, OpenError(name, flags)
  PROVE  FileInv' /\ alt_fd_list' = alt_fd_list
<1>1. /\ alt_fd_list' = alt_fd_list
      /\ alt_max_fd' \in -1 .. ALT_MAX_FD - 1 /\ alt_max_fd' >= alt_max_fd
  BY FailedEffect DEF OpenError
<1>2. UNCHANGED <<pc, alt_dev_list, alt_fs_list, held>>
  BY DEF OpenError, InMain
<1>3. TypeOK'
  BY <1>1, <1>2 DEF FileInv, TypeOK
<1>4. (PoolMatchesHeld /\ StandardInUse /\ Booting /\ OthersAbove)'
  BY <1>1, <1>2 DEF FileInv, PoolMatchesHeld, StandardInUse, Booting, OthersAbove
<1>5. BelowMark'
  BY <1>1 DEF FileInv, TypeOK, FD, BelowMark
<1>6. StandardStreams'
  BY <1>1, <1>2, FindKept DEF FileInv, StandardStreams
<1> QED
  BY <1>1, <1>3, <1>4, <1>5, <1>6 DEF FileInv

\* close() gives the descriptor back, unless it is a standard one.
LEMMA CloseInv ==
  ASSUME FileInv, NEW i \in FD, ALT_CLOSE(i)
  PROVE  FileInv'
<1>1. /\ pc = "main" /\ UNCHANGED <<pc, alt_dev_list, alt_fs_list, alt_max_fd>>
      /\ held' = [held EXCEPT ![i] = NotHeld]
      /\ alt_fd_list' = IF i > 2 THEN [alt_fd_list EXCEPT ![i] = Unused] ELSE alt_fd_list
  BY DEF ALT_CLOSE, InMain, alt_release_fd
<1>2. /\ held'[i] = NotHeld
      /\ i > 2 => alt_fd_list'[i] = Unused
      /\ \A j \in FD : j # i => held'[j] = held[j]
      /\ \A j \in FD : j # i \/ j \in Standard => alt_fd_list'[j] = alt_fd_list[j]
  <2>1. /\ held'[i] = NotHeld
        /\ \A j \in FD : j # i => held'[j] = held[j]
    BY <1>1 DEF FileInv, TypeOK
  <2>2. CASE i > 2
    <3>1. alt_fd_list' = [alt_fd_list EXCEPT ![i] = Unused]
      BY <1>1, <2>2
    <3>2. /\ alt_fd_list'[i] = Unused
          /\ \A j \in FD : j # i => alt_fd_list'[j] = alt_fd_list[j]
      BY <3>1 DEF FileInv, TypeOK
    <3>3. i \notin Standard /\ Standard \subseteq FD
      BY <2>2, StandardTyped DEF FD
    <3> QED
      BY <2>1, <3>2, <3>3
  <2>3. CASE ~(i > 2)
    BY <1>1, <2>1, <2>3
  <2> QED
    BY <2>2, <2>3
<1>3. Unused.dev = Free /\ ~Unused.fd_flags.excl /\ ~Unused.fd_flags.dev
  BY DEF Unused, Zero
<1>4. \A j \in FD : alt_fd_list'[j] = alt_fd_list[j] \/ alt_fd_list'[j] = Unused
  BY <1>2, StandardTyped DEF FD
<1>5. TypeOK'
  <2>1. held' \in [FD -> Request \cup {NotHeld}]
    BY <1>1 DEF FileInv, TypeOK
  <2>2. alt_fd_list' \in [FD -> [dev : Driver \cup {Free}, fd_flags : Flags]]
    BY <1>1, UnusedTyped DEF FileInv, TypeOK
  <2> QED
    BY <1>1, <2>1, <2>2 DEF FileInv, TypeOK
<1>6. PoolMatchesHeld'
  BY <1>2, StandardTyped DEF FileInv, PoolMatchesHeld, FD
<1>7. (StandardStreams /\ StandardInUse /\ Booting)'
  BY <1>1, <1>2, StandardTyped, FindKept DEF FileInv, StandardStreams, StandardInUse, Booting
<1>8. BelowMark'
  BY <1>1, <1>3, <1>4 DEF FileInv, BelowMark
<1>9. OthersAbove'
  <2>1. ASSUME NEW k \in FD, NEW j \in FD, k # j,
               alt_fd_list'[j].fd_flags.excl, alt_fd_list'[k].dev = alt_fd_list'[j].dev
        PROVE  k > j
    <3>1. alt_fd_list'[j] = alt_fd_list[j] /\ alt_fd_list[j].fd_flags.excl
      BY <1>3, <1>4, <2>1
    <3>2. alt_fd_list[j].dev # Free
      BY <3>1, FileAssumption DEF FileInv, BelowMark, Driver, Registrable
    <3>3. alt_fd_list'[k] = alt_fd_list[k]
      BY <1>3, <1>4, <2>1, <3>1, <3>2
    <3> QED
      BY <2>1, <3>1, <3>3 DEF FileInv, OthersAbove
  <2> QED
    BY <2>1 DEF OthersAbove
<1> QED
  BY <1>5, <1>6, <1>7, <1>8, <1>9 DEF FileInv

\* Changing the flags of one descriptor, as ioctl() and fcntl() do, leaves all
\* but OthersAbove to be shown.
LEMMA FlagsInv ==
  ASSUME FileInv, InMain, UNCHANGED <<alt_max_fd, held>>,
         NEW i \in FD, NEW f \in Flags,
         alt_fd_list' = [alt_fd_list EXCEPT ![i].fd_flags = f],
         f.access = alt_fd_list[i].fd_flags.access,
         f.dev = alt_fd_list[i].fd_flags.dev,
         f.excl => f.dev,
         \/ held[i] # NotHeld
         \/ i \in Standard
  PROVE  /\ (TypeOK /\ PoolMatchesHeld /\ StandardStreams)'
         /\ (StandardInUse /\ Booting /\ BelowMark)'
         /\ alt_fd_list'[i].fd_flags = f
         /\ \A j \in FD : alt_fd_list'[j].dev = alt_fd_list[j].dev
         /\ \A j \in FD : j # i => alt_fd_list'[j] = alt_fd_list[j]
<1>1. /\ alt_fd_list'[i].fd_flags = f
      /\ \A j \in FD : alt_fd_list'[j].dev = alt_fd_list[j].dev
      /\ \A j \in FD : j # i => alt_fd_list'[j] = alt_fd_list[j]
  BY DEF FileInv, TypeOK
<1>2. TypeOK'
  BY DEF InMain, FileInv, TypeOK
<1>3. PoolMatchesHeld'
  BY <1>1 DEF FileInv, PoolMatchesHeld
<1>4. StandardStreams'
  BY <1>1, StandardTyped, FindKept DEF InMain, FileInv, StandardStreams
<1>5. (StandardInUse /\ Booting)'
  BY <1>1, StandardTyped DEF InMain, FileInv, StandardInUse, Booting
<1>6. BelowMark'
  BY <1>1 DEF FileInv, BelowMark
<1> QED
  BY <1>1, <1>2, <1>3, <1>4, <1>5, <1>6

\* The lock: nobody below the mark uses the device, so that whoever else does
\* is at the mark, above the new holder.
LEMMA LockInv ==
  ASSUME FileInv, NEW i \in FD, alt_fd_lock(i)
  PROVE  FileInv'
<1> DEFINE f == [alt_fd_list[i].fd_flags EXCEPT !.excl = TRUE]
<1>1. /\ InMain /\ UNCHANGED <<alt_max_fd, held>>
      /\ held[i] # NotHeld \/ i \in Standard
      /\ alt_fd_list[i].fd_flags.dev
      /\ LockGranted(i)
  BY DEF alt_fd_lock, Usable
<1>2. /\ alt_fd_list[i] \in [dev : Driver \cup {Free}, fd_flags : Flags]
      /\ f \in Flags /\ f.excl = TRUE
      /\ f.access = alt_fd_list[i].fd_flags.access /\ f.dev = alt_fd_list[i].fd_flags.dev
  BY DEF FileInv, TypeOK, Flags
<1>3. alt_fd_list' = [alt_fd_list EXCEPT ![i].fd_flags = f]
  BY <1>2 DEF alt_fd_lock, FileInv, TypeOK, Flags
<1> HIDE DEF f
<1>4. /\ (TypeOK /\ PoolMatchesHeld /\ StandardStreams)'
      /\ (StandardInUse /\ Booting /\ BelowMark)'
      /\ alt_fd_list'[i].fd_flags = f
      /\ \A j \in FD : alt_fd_list'[j].dev = alt_fd_list[j].dev
      /\ \A j \in FD : j # i => alt_fd_list'[j] = alt_fd_list[j]
  BY <1>1, <1>2, <1>3, FlagsInv
<1>5. OthersAbove'
  <2>1. ASSUME NEW k \in FD, NEW j \in FD, k # j,
               alt_fd_list'[j].fd_flags.excl, alt_fd_list'[k].dev = alt_fd_list'[j].dev
        PROVE  k > j
    <3>1. alt_fd_list[k].dev = alt_fd_list[j].dev
      BY <1>4, <2>1
    <3>2. CASE j # i
      BY <1>4, <2>1, <3>1, <3>2 DEF FileInv, OthersAbove
    <3>3. CASE j = i
      <4>1. alt_max_fd \in Int /\ k \in Int /\ j \in Int
        BY FileAssumption DEF FileInv, TypeOK, FD
      <4>2. ~(k < alt_max_fd)
        BY <1>1, <2>1, <3>1, <3>3 DEF LockGranted
      <4>3. alt_max_fd > 2 /\ alt_fd_list[i].dev # Free
        BY <1>1, FileAssumption DEF FileInv, BelowMark, Driver, Registrable
      <4>4. /\ k > 2 => k <= alt_max_fd
            /\ j > 2 => j <= alt_max_fd
        BY <3>1, <3>3, <4>3 DEF FileInv, BelowMark
      <4> QED
        BY <2>1, <4>1, <4>2, <4>3, <4>4
    <3> QED
      BY <3>2, <3>3
  <2> QED
    BY <2>1 DEF OthersAbove
<1> QED
  BY <1>4, <1>5 DEF FileInv

LEMMA UnlockInv ==
  ASSUME FileInv, NEW i \in FD, alt_fd_unlock(i)
  PROVE  FileInv'
<1> DEFINE f == [alt_fd_list[i].fd_flags EXCEPT !.excl = FALSE]
<1>1. /\ InMain /\ UNCHANGED <<alt_max_fd, held>>
      /\ held[i] # NotHeld \/ i \in Standard
  BY DEF alt_fd_unlock, Usable
<1>2. /\ alt_fd_list[i] \in [dev : Driver \cup {Free}, fd_flags : Flags]
      /\ f \in Flags /\ f.excl = FALSE
      /\ f.access = alt_fd_list[i].fd_flags.access /\ f.dev = alt_fd_list[i].fd_flags.dev
  BY DEF FileInv, TypeOK, Flags
<1>3. alt_fd_list' = [alt_fd_list EXCEPT ![i].fd_flags = f]
  BY <1>2 DEF alt_fd_unlock, FileInv, TypeOK, Flags
<1> HIDE DEF f
<1>4. /\ (TypeOK /\ PoolMatchesHeld /\ StandardStreams)'
      /\ (StandardInUse /\ Booting /\ BelowMark)'
      /\ alt_fd_list'[i].fd_flags = f
      /\ \A j \in FD : alt_fd_list'[j].dev = alt_fd_list[j].dev
      /\ \A j \in FD : j # i => alt_fd_list'[j] = alt_fd_list[j]
  BY <1>1, <1>2, <1>3, FlagsInv
<1>5. OthersAbove'
  BY <1>2, <1>4 DEF FileInv, OthersAbove
<1> QED
  BY <1>4, <1>5 DEF FileInv

LEMMA FcntlInv ==
  ASSUME FileInv, NEW i \in FD, NEW status \in Status, ALT_FCNTL(i, status)
  PROVE  FileInv' /\ \A j \in FD : /\ alt_fd_list'[j].dev = alt_fd_list[j].dev
                                   /\ alt_fd_list'[j].fd_flags.excl = alt_fd_list[j].fd_flags.excl
<1> DEFINE f == [alt_fd_list[i].fd_flags EXCEPT !.status = status]
<1>1. /\ InMain /\ UNCHANGED <<alt_max_fd, held>>
      /\ held[i] # NotHeld \/ i \in Standard
  BY DEF ALT_FCNTL, Usable
<1>2. /\ alt_fd_list[i] \in [dev : Driver \cup {Free}, fd_flags : Flags]
      /\ f \in Flags /\ f.excl = alt_fd_list[i].fd_flags.excl
      /\ f.access = alt_fd_list[i].fd_flags.access /\ f.dev = alt_fd_list[i].fd_flags.dev
  BY DEF FileInv, TypeOK, Flags
<1>3. alt_fd_list' = [alt_fd_list EXCEPT ![i].fd_flags = f]
  BY <1>2 DEF ALT_FCNTL, SetFlags, FileInv, TypeOK, Flags
<1>4. f.excl => f.dev
  BY <1>2 DEF FileInv, BelowMark
<1> HIDE DEF f
<1>5. /\ (TypeOK /\ PoolMatchesHeld /\ StandardStreams)'
      /\ (StandardInUse /\ Booting /\ BelowMark)'
      /\ alt_fd_list'[i].fd_flags = f
      /\ \A j \in FD : alt_fd_list'[j].dev = alt_fd_list[j].dev
      /\ \A j \in FD : j # i => alt_fd_list'[j] = alt_fd_list[j]
  BY <1>1, <1>2, <1>3, <1>4, FlagsInv
<1>6. \A j \in FD : alt_fd_list'[j].fd_flags.excl = alt_fd_list[j].fd_flags.excl
  BY <1>2, <1>5
<1>7. OthersAbove'
  BY <1>5, <1>6 DEF FileInv, OthersAbove
<1> QED
  BY <1>5, <1>6, <1>7 DEF FileInv

\* Returning from main(), and a program that has ended or does nothing.
LEMMA IdleInv ==
  ASSUME FileInv, MainReturns \/ ALT_EXIT \/ UNCHANGED vars
  PROVE  FileInv' /\ alt_fd_list' = alt_fd_list
<1>1. alt_fd_list' = alt_fd_list
  BY DEF MainReturns, ALT_EXIT, vars, alt_release_fd, STDOUT_FILENO
<1>2. /\ UNCHANGED <<alt_max_fd, alt_dev_list, alt_fs_list, held>>
      /\ pc' = pc \/ (pc = "main" /\ pc' = "exit")
  BY DEF MainReturns, ALT_EXIT, vars
<1>3. TypeOK'
  BY <1>1, <1>2 DEF FileInv, TypeOK
<1>4. (PoolMatchesHeld /\ StandardInUse /\ Booting /\ BelowMark /\ OthersAbove)'
  BY <1>1, <1>2
     DEF FileInv, PoolMatchesHeld, StandardInUse, Booting, BelowMark, OthersAbove
<1>5. StandardStreams'
  BY <1>1, <1>2, FindKept DEF FileInv, StandardStreams
<1> QED
  BY <1>1, <1>3, <1>4, <1>5 DEF FileInv

LEMMA NextInv ==
  ASSUME FileInv, [Next]_vars
  PROVE  FileInv'
<1>1. CASE \/ \E d \in Device : alt_dev_reg(d)
           \/ \E f \in FileSystem : alt_fs_reg(f)
           \/ SysInitDone
  BY <1>1, RegisterInv
<1>2. CASE alt_open_fd
  BY <1>2, RedirectInv
<1>3. ASSUME NEW name \in Name, NEW flags \in OpenFlags, ALT_OPEN(name, flags)
      PROVE  FileInv'
  BY <1>3, OpenInv
<1>4. ASSUME NEW name \in Name, NEW flags \in OpenFlags, OpenError(name, flags)
      PROVE  FileInv'
  BY <1>4, OpenErrorInv
<1>5. ASSUME NEW i \in FD, ALT_CLOSE(i) PROVE FileInv'
  BY <1>5, CloseInv
<1>6. ASSUME NEW i \in FD, alt_fd_lock(i) PROVE FileInv'
  BY <1>6, LockInv
<1>7. ASSUME NEW i \in FD, alt_fd_unlock(i) PROVE FileInv'
  BY <1>7, UnlockInv
<1>8. ASSUME NEW i \in FD, NEW status \in Status, ALT_FCNTL(i, status) PROVE FileInv'
  BY <1>8, FcntlInv
<1>9. CASE MainReturns \/ ALT_EXIT \/ UNCHANGED vars
  BY <1>9, IdleInv
<1> QED
  BY <1>1, <1>2, <1>3, <1>4, <1>5, <1>6, <1>7, <1>8, <1>9 DEF Next

LEMMA FileInvariant == Spec => []FileInv
<1>1. Init => FileInv
  BY InitInv
<1>2. FileInv /\ [Next]_vars => FileInv'
  BY NextInv
<1> QED
  BY <1>1, <1>2, PTL DEF Spec

-----------------------------------------------------------------------------
\* The state of the file layer has its types: the mark stays inside the pool
\* and every descriptor refers to a device, a file system or nothing.
THEOREM TypeCorrect == Spec => []TypeOK
<1>1. FileInv => TypeOK
  BY DEF FileInv
<1> QED
  BY <1>1, FileInvariant, PTL

\* Whatever the program opens and closes, and whichever drivers fail, the pool
\* holds what open() returned and was not closed (alt_open.c, alt_close.c,
\* alt_get_fd.c, alt_release_fd.c), for pools of every size.
THEOREM PoolMatchesHeldCorrect == Spec => []PoolMatchesHeld
<1>1. FileInv => PoolMatchesHeld
  BY DEF FileInv
<1> QED
  BY <1>1, FileInvariant, PTL

\* The standard streams have a device from the first step on, /dev/null or the
\* one alt_io_redirect() found for them, and the program cannot take it away.
THEOREM StandardStreamsCorrect == Spec => []StandardStreams
<1>1. FileInv => StandardStreams
  BY DEF FileInv
<1> QED
  BY <1>1, FileInvariant, PTL

\* No two descriptors hold the lock of one device, although the search of
\* alt_fd_lock() ends one descriptor early: the only one it misses is above
\* the holder, and its own request would find the holder.
THEOREM OneHolderCorrect == Spec => []OneHolder
<1>1. FileInv => OneHolder
  <2> SUFFICES ASSUME FileInv, NEW i \in FD, NEW j \in FD,
                      alt_fd_list[i].fd_flags.excl, alt_fd_list[j].fd_flags.excl,
                      alt_fd_list[i].dev = alt_fd_list[j].dev, i # j
               PROVE  FALSE
    BY DEF OneHolder
  <2>1. i > j /\ j > i
    BY DEF FileInv, OthersAbove
  <2> QED
    BY <2>1 DEF FD
<1> QED
  BY <1>1, FileInvariant, PTL


-----------------------------------------------------------------------------
\* The refinement.  A registration, a failed open() and fcntl() change nothing
\* that DeviceLocks sees; the other calls are its actions.
LocksNext == Locks!Next \/ UNCHANGED Locks!vars

LEMMA OpenImplements ==
  ASSUME FileInv, FileInv', NEW i \in FD, NEW d \in Driver,
         alt_fd_list'[i].dev = d,
         alt_fd_list'[i].fd_flags.excl = FALSE, alt_fd_list[i].fd_flags.excl = FALSE,
         \A j \in FD : j # i => alt_fd_list'[j] = alt_fd_list[j],
         \A j \in FD : alt_fd_list[j].fd_flags.excl => alt_fd_list[j].dev # d
  PROVE  Locks!Next
<1>1. Locks!Open(i, d)
  BY DEF Locks!Open
<1> QED
  BY <1>1 DEF Locks!Next

LEMMA RedirectImplements ==
  ASSUME FileInv, alt_open_fd
  PROVE  LocksNext
<1>1. FileInv'
  BY RedirectInv
<1>2. CASE alt_fd_list' = alt_fd_list
  BY <1>2 DEF LocksNext, Locks!vars
<1>3. ASSUME NEW i \in Standard,
             Find(StdName[i]) # Free, StdFlags(i) \in OpenFlags,
             alt_fd_list' = [alt_fd_list EXCEPT ![i] = Entry(StdName[i], StdFlags(i))]
      PROVE  LocksNext
  <2> DEFINE e == Entry(StdName[i], StdFlags(i))
  <2>1. e.dev = Find(StdName[i]) /\ Find(StdName[i]) \in Driver /\ e.fd_flags.excl = FALSE
    BY <1>3, EntryTyped
  <2>2. i \in FD
    BY StandardTyped
  <2>3. alt_fd_list'[i] = e /\ \A j \in FD : j # i => alt_fd_list'[j] = alt_fd_list[j]
    BY <1>3, <2>2 DEF FileInv, TypeOK
  <2>4. \A j \in FD : ~alt_fd_list[j].fd_flags.excl
    BY RedirectEffect DEF FileInv, Booting
  <2>5. alt_fd_list[i].fd_flags.excl = FALSE
    BY <2>2, <2>4 DEF FileInv, TypeOK, Flags
  <2> HIDE DEF e
  <2>6. Locks!Next
    BY <1>1, <2>1, <2>2, <2>3, <2>4, <2>5, OpenImplements
  <2> QED
    BY <2>6 DEF LocksNext
<1> QED
  BY <1>2, <1>3, RedirectEffect


LEMMA ProgramOpenImplements ==
  ASSUME FileInv, NEW name, NEW flags \in OpenFlags, ALT_OPEN(name, flags)
  PROVE  LocksNext
<1> DEFINE g == alt_get_fd
           e == Entry(name, flags)
<1>1. FileInv'
  BY OpenInv
<1>2. /\ Find(name) # Free /\ Vacant # {}
      /\ IsDevice(name) => ~alt_file_locked(name)
      /\ alt_fd_list' = [alt_fd_list EXCEPT ![g] = e]
  BY DEF ALT_OPEN, OpenSucceeds, Allocates, Allocated, Entry
<1>3. g \in FD /\ alt_fd_list[g].fd_flags.excl = FALSE /\ Mark >= alt_max_fd /\ Mark > 2
  BY <1>2, VacantIsUnused DEF Unused, Zero
<1>4. e.dev = Find(name) /\ Find(name) \in Driver /\ e.fd_flags.excl = FALSE
  BY <1>2, EntryTyped
<1>5. alt_fd_list'[g] = e /\ \A j \in FD : j # g => alt_fd_list'[j] = alt_fd_list[j]
  BY <1>2, <1>3 DEF FileInv, TypeOK
<1> HIDE DEF e, g
<1>6. \A j \in FD : alt_fd_list[j].fd_flags.excl => alt_fd_list[j].dev # Find(name)
  <2>1. ASSUME NEW j \in FD, alt_fd_list[j].fd_flags.excl, alt_fd_list[j].dev = Find(name)
        PROVE  FALSE
    <3>1. Find(name) \in Device \cup {alt_dev_null}
      BY <2>1 DEF FileInv, BelowMark
    <3>2. IsDevice(name)
      BY <1>2, <3>1, FindTyped, FileAssumption DEF FileInv, Registrable
    <3>3. j > 2 => j <= alt_max_fd
      BY <1>2, <2>1 DEF FileInv, BelowMark
    <3>4. j <= Mark
      BY <1>2, <1>3, <3>3, VacantIsUnused, FileAssumption DEF FileInv, TypeOK, FD
    <3> QED
      BY <1>2, <2>1, <3>2, <3>4 DEF alt_file_locked
  <2> QED
    BY <2>1
<1>7. Locks!Next
  BY <1>1, <1>3, <1>4, <1>5, <1>6, OpenImplements
<1> QED
  BY <1>7 DEF LocksNext

LEMMA CloseImplements ==
  ASSUME FileInv, NEW i \in FD, ALT_CLOSE(i)
  PROVE  LocksNext
<1>1. CASE i > 2
  <2>1. alt_fd_list' = [alt_fd_list EXCEPT ![i] = Unused]
    BY <1>1 DEF ALT_CLOSE, alt_release_fd
  <2>2. alt_fd_list'[i] = Unused /\ \A j \in FD : j # i => alt_fd_list'[j] = alt_fd_list[j]
    BY <2>1 DEF FileInv, TypeOK
  <2>3. Unused.dev = Free /\ Unused.fd_flags.excl = FALSE
    BY DEF Unused, Zero
  <2>4. Locks!Close(i)
    BY <2>2, <2>3 DEF Locks!Close
  <2> QED
    BY <2>4 DEF LocksNext, Locks!Next
<1>2. CASE ~(i > 2)
  <2>1. alt_fd_list' = alt_fd_list
    BY <1>2 DEF ALT_CLOSE, alt_release_fd
  <2> QED
    BY <2>1 DEF LocksNext, Locks!vars
<1> QED
  BY <1>1, <1>2

\* Who holds the lock already would be below the new holder, within the search.
LEMMA LockImplements ==
  ASSUME FileInv, NEW i \in FD, alt_fd_lock(i)
  PROVE  LocksNext
<1>1. FileInv'
  BY LockInv
<1>2. /\ alt_fd_list[i].fd_flags.dev /\ LockGranted(i)
      /\ alt_fd_list' = [alt_fd_list EXCEPT ![i].fd_flags.excl = TRUE]
  BY DEF alt_fd_lock
<1>3. /\ alt_fd_list'[i].fd_flags.excl = TRUE
      /\ \A j \in FD : alt_fd_list'[j].dev = alt_fd_list[j].dev
      /\ \A j \in FD : j # i =>
           alt_fd_list'[j].fd_flags.excl = alt_fd_list[j].fd_flags.excl
  BY <1>2 DEF FileInv, TypeOK, Flags
<1>4. alt_fd_list[i].dev # Free
  BY <1>2, FileAssumption DEF FileInv, BelowMark, Driver, Registrable
<1>5. ASSUME NEW h \in FD, alt_fd_list[h].fd_flags.excl,
             alt_fd_list[h].dev = alt_fd_list[i].dev, h # i
      PROVE  FALSE
  <2>1. i > h
    BY <1>5 DEF FileInv, OthersAbove
  <2>2. i <= alt_max_fd
    BY <1>2, <1>4, FileAssumption DEF FileInv, BelowMark, TypeOK, FD
  <2>3. h < alt_max_fd
    BY <2>1, <2>2, FileAssumption DEF FileInv, TypeOK, FD
  <2> QED
    BY <1>2, <1>5, <2>3 DEF LockGranted
<1>6. Locks!Lock(i)
  <2>1. UNCHANGED [j \in FD |-> alt_fd_list[j].dev]
    BY <1>3
  <2>2. {j \in FD : alt_fd_list'[j].fd_flags.excl}
          = {j \in FD : alt_fd_list[j].fd_flags.excl} \cup {i}
    BY <1>3
  <2> QED
    BY <1>4, <1>5, <2>1, <2>2 DEF Locks!Lock
<1> QED
  BY <1>6 DEF LocksNext, Locks!Next

LEMMA UnlockImplements ==
  ASSUME FileInv, NEW i \in FD, alt_fd_unlock(i)
  PROVE  LocksNext
<1>1. alt_fd_list' = [alt_fd_list EXCEPT ![i].fd_flags.excl = FALSE]
  BY DEF alt_fd_unlock
<1>2. /\ alt_fd_list'[i].fd_flags.excl = FALSE
      /\ \A j \in FD : alt_fd_list'[j].dev = alt_fd_list[j].dev
      /\ \A j \in FD : j # i =>
           alt_fd_list'[j].fd_flags.excl = alt_fd_list[j].fd_flags.excl
  BY <1>1 DEF FileInv, TypeOK, Flags
<1>3. UNCHANGED [j \in FD |-> alt_fd_list[j].dev]
  BY <1>2
<1>4. {j \in FD : alt_fd_list'[j].fd_flags.excl}
        = {j \in FD : alt_fd_list[j].fd_flags.excl} \ {i}
  BY <1>2
<1>5. Locks!Unlock(i)
  BY <1>3, <1>4 DEF Locks!Unlock
<1> QED
  BY <1>5 DEF LocksNext, Locks!Next

LEMMA FcntlImplements ==
  ASSUME FileInv, NEW i \in FD, NEW status \in Status, ALT_FCNTL(i, status)
  PROVE  LocksNext
<1>1. \A j \in FD : /\ alt_fd_list'[j].dev = alt_fd_list[j].dev
                    /\ alt_fd_list'[j].fd_flags.excl = alt_fd_list[j].fd_flags.excl
  BY FcntlInv
<1>2. UNCHANGED [j \in FD |-> alt_fd_list[j].dev]
  BY <1>1
<1>3. UNCHANGED {j \in FD : alt_fd_list[j].fd_flags.excl}
  BY <1>1
<1> QED
  BY <1>2, <1>3 DEF LocksNext, Locks!vars

LEMMA UnchangedImplements ==
  ASSUME alt_fd_list' = alt_fd_list
  PROVE  LocksNext
BY DEF LocksNext, Locks!vars

LEMMA NextImplements ==
  ASSUME FileInv, [Next]_vars
  PROVE  LocksNext
<1>1. CASE \/ \E d \in Device : alt_dev_reg(d)
           \/ \E f \in FileSystem : alt_fs_reg(f)
           \/ SysInitDone
  BY <1>1, UnchangedImplements DEF alt_dev_reg, alt_fs_reg, SysInitDone
<1>2. CASE alt_open_fd
  BY <1>2, RedirectImplements
<1>3. ASSUME NEW name \in Name, NEW flags \in OpenFlags, ALT_OPEN(name, flags)
      PROVE  LocksNext
  BY <1>3, ProgramOpenImplements
<1>4. ASSUME NEW name \in Name, NEW flags \in OpenFlags, OpenError(name, flags)
      PROVE  LocksNext
  BY <1>4, OpenErrorInv, UnchangedImplements
<1>5. ASSUME NEW i \in FD, ALT_CLOSE(i) PROVE LocksNext
  BY <1>5, CloseImplements
<1>6. ASSUME NEW i \in FD, alt_fd_lock(i) PROVE LocksNext
  BY <1>6, LockImplements
<1>7. ASSUME NEW i \in FD, alt_fd_unlock(i) PROVE LocksNext
  BY <1>7, UnlockImplements
<1>8. ASSUME NEW i \in FD, NEW status \in Status, ALT_FCNTL(i, status) PROVE LocksNext
  BY <1>8, FcntlImplements
<1>9. CASE MainReturns \/ ALT_EXIT \/ UNCHANGED vars
  BY <1>9, IdleInv, UnchangedImplements
<1> QED
  BY <1>1, <1>2, <1>3, <1>4, <1>5, <1>6, <1>7, <1>8, <1>9 DEF Next

LEMMA InitImplements ==
  ASSUME FileInv, Init
  PROVE  Locks!Init
<1>1. [i \in FD |-> alt_fd_list[i].dev] \in [FD -> Driver \cup {Free}]
  BY DEF FileInv, TypeOK
<1>2. {i \in FD : alt_fd_list[i].fd_flags.excl} = {}
  BY DEF Init, FileInv, Booting
<1> QED
  BY <1>1, <1>2 DEF Locks!Init

\* open(), close() and ioctl() together implement the exclusive access that
\* DeviceLocks promises: nobody opens a locked device (alt_file_locked() in
\* alt_open.c), none is locked twice (alt_fd_lock.c), and a failed call changes
\* nothing.
THEOREM LocksImplemented == Spec => ImplementsLocks
<1>1. Init => FileInv
  BY InitInv
<1>2. FileInv /\ Init => Locks!Init
  BY InitImplements
<1>3. FileInv /\ [Next]_vars => [Locks!Next]_(Locks!vars)
  BY NextImplements DEF LocksNext
<1> QED
  BY <1>1, <1>2, <1>3, FileInvariant, PTL DEF Spec, ImplementsLocks, Locks!Spec

-----------------------------------------------------------------------------
(***************************************************************************)
(* The alarms.                                                             *)
(***************************************************************************)

Ticks == 0 .. ULIMIT - 1

-----------------------------------------------------------------------------
\* The circular list.  Cut(list, a, done, todo): a walk that stands at a has
\* the alarms of done behind it and those of todo, a among them, before it.
Cut(list, a, done, todo) ==
  \E q \in 1 .. Len(list) + 1 :
    /\ a = IF q <= Len(list) THEN list[q] ELSE ListHead
    /\ \A k \in 1 .. Len(list) : IF k < q THEN list[k] \in done ELSE list[k] \in todo

AlarmList(list) == list \in Seq(Alarm) /\ IsInjective(list)

LEMMA PositionOf ==
  ASSUME NEW list, AlarmList(list), NEW k \in 1 .. Len(list)
  PROVE  Position(list, list[k]) = k
<1>1. k \in DOMAIN list /\ DOMAIN list = 1 .. Len(list)
  BY DEF AlarmList
<1>2. Position(list, list[k]) \in DOMAIN list /\ list[Position(list, list[k])] = list[k]
  BY <1>1 DEF Position
<1> QED
  BY <1>1, <1>2 DEF AlarmList, IsInjective

\* Taking out an alarm closes the gap.
LEMMA WithoutAt ==
  ASSUME NEW list, AlarmList(list), NEW p \in 1 .. Len(list)
  PROVE  LET w == Without(list, list[p]) IN
         /\ w \in Seq(Alarm) /\ Len(w) = Len(list) - 1
         /\ \A k \in 1 .. Len(w) : w[k] = IF k < p THEN list[k] ELSE list[k + 1]
<1> DEFINE front == SubSeq(list, 1, p - 1)
           back == SubSeq(list, p + 1, Len(list))
<1>1. list \in Seq(Alarm) /\ Len(list) \in Nat
  BY DEF AlarmList
<1>2. list[p] \in Range(list)
  BY <1>1 DEF Range
<1>3. Without(list, list[p]) = front \o back
  BY <1>2, PositionOf DEF Without, RemoveAt
<1>4. /\ front \in Seq(Alarm) /\ Len(front) = p - 1
      /\ \A k \in 1 .. p - 1 : front[k] = list[k]
  BY <1>1
<1>5. /\ back \in Seq(Alarm) /\ Len(back) = Len(list) - p
      /\ \A k \in 1 .. Len(list) - p : back[k] = list[k + p]
  BY <1>1
<1> HIDE DEF front, back
<1>6. /\ front \o back \in Seq(Alarm) /\ Len(front \o back) = Len(list) - 1
      /\ \A k \in 1 .. Len(list) - 1 :
           (front \o back)[k] = IF k < p THEN front[k] ELSE back[k - (p - 1)]
  BY <1>1, <1>4, <1>5
<1>7. \A k \in 1 .. Len(list) - 1 : ~(k < p) => back[k - (p - 1)] = list[k + 1]
  BY <1>1, <1>5
<1> QED
  BY <1>3, <1>4, <1>6, <1>7

LEMMA WithoutCut ==
  ASSUME NEW list, AlarmList(list), NEW b \in Alarm,
         NEW a, NEW done, NEW todo, Cut(list, a, done, todo), b # a
  PROVE  /\ AlarmList(Without(list, b))
         /\ Range(Without(list, b)) = Range(list) \ {b}
         /\ Cut(Without(list, b), a, done \ {b}, todo \ {b})
<1> DEFINE w == Without(list, b)
<1>1. /\ list \in Seq(Alarm) /\ Len(list) \in Nat /\ DOMAIN list = 1 .. Len(list)
      /\ \A j, k \in 1 .. Len(list) : list[j] = list[k] => j = k
  BY DEF AlarmList, IsInjective
<1>2. PICK q \in 1 .. Len(list) + 1 :
        /\ a = IF q <= Len(list) THEN list[q] ELSE ListHead
        /\ \A k \in 1 .. Len(list) : IF k < q THEN list[k] \in done ELSE list[k] \in todo
  BY DEF Cut
<1>3. CASE b \notin Range(list)
  <2>1. w = list
    BY <1>3 DEF Without
  <2>2. \A k \in 1 .. Len(list) : list[k] # b
    BY <1>1, <1>3 DEF Range
  <2>3. Cut(list, a, done \ {b}, todo \ {b})
    BY <1>2, <2>2 DEF Cut
  <2> QED
    BY <1>3, <2>1, <2>3
<1>4. CASE b \in Range(list)
  <2>1. PICK p \in 1 .. Len(list) : list[p] = b
    BY <1>1, <1>4 DEF Range
  <2>2. /\ w \in Seq(Alarm) /\ Len(w) = Len(list) - 1 /\ DOMAIN w = 1 .. Len(w)
        /\ \A k \in 1 .. Len(w) : w[k] = IF k < p THEN list[k] ELSE list[k + 1]
    BY <2>1, WithoutAt
  <2> HIDE DEF w
  <2>3. AlarmList(w)
    BY <1>1, <2>2 DEF AlarmList, IsInjective
  <2>4. \A k \in 1 .. Len(w) : w[k] # b /\ w[k] \in Range(list)
    BY <1>1, <2>1, <2>2 DEF Range
  <2>5. ASSUME NEW c \in Range(list), c # b PROVE c \in Range(w)
    <3>1. PICK j \in 1 .. Len(list) : list[j] = c
      BY <1>1, <2>5 DEF Range
    <3>2. j < p => j \in 1 .. Len(w) /\ w[j] = c
      BY <1>1, <2>2, <3>1
    <3>3. j > p => j - 1 \in 1 .. Len(w) /\ w[j - 1] = c
      BY <1>1, <2>2, <3>1
    <3>4. j < p \/ j > p
      BY <2>1, <2>5, <3>1
    <3>5. PICK k \in 1 .. Len(w) : w[k] = c
      BY <3>2, <3>3, <3>4
    <3> QED
      BY <2>2, <3>5 DEF Range
  <2>6. Range(w) = Range(list) \ {b}
    BY <2>2, <2>4, <2>5 DEF Range
  <2>7. Cut(w, a, done \ {b}, todo \ {b})
    <3> DEFINE r == IF p < q THEN q - 1 ELSE q
    <3>1. p # q
      BY <1>2, <2>1
    <3>2. r \in 1 .. Len(w) + 1 /\ a = IF r <= Len(w) THEN w[r] ELSE ListHead
      <4>1. r \in 1 .. Len(w) + 1 /\ (r <= Len(w) <=> q <= Len(list))
        BY <1>1, <2>2, <3>1
      <4>2. r <= Len(w) => w[r] = list[q]
        BY <1>1, <2>2, <3>1, <4>1
      <4> QED
        BY <1>2, <4>1, <4>2
    <3>3. ASSUME NEW k \in 1 .. Len(w)
          PROVE  IF k < r THEN w[k] \in done ELSE w[k] \in todo
      <4>1. CASE k < p
        <5>1. w[k] = list[k] /\ k \in 1 .. Len(list) /\ (k < r <=> k < q)
          BY <1>1, <2>2, <3>1, <4>1
        <5> QED
          BY <1>2, <5>1
      <4>2. CASE ~(k < p)
        <5>1. w[k] = list[k + 1] /\ k + 1 \in 1 .. Len(list) /\ (k < r <=> k + 1 < q)
          BY <1>1, <2>2, <3>1, <4>2
        <5> QED
          BY <1>2, <5>1
      <4> QED
        BY <4>1, <4>2
    <3> HIDE DEF r
    <3> QED
      BY <2>4, <3>2, <3>3 DEF Cut
  <2> QED
    BY <2>3, <2>6, <2>7 DEF w
<1> QED
  BY <1>3, <1>4

\* A new alarm is inserted behind every walk.
LEMMA InsertCut ==
  ASSUME NEW list, AlarmList(list), NEW b \in Alarm \ Range(list),
         NEW a, NEW done, NEW todo, Cut(list, a, done, todo)
  PROVE  /\ AlarmList(<<b>> \o list)
         /\ Range(<<b>> \o list) = Range(list) \cup {b}
         /\ Cut(<<b>> \o list, a, done \cup {b}, todo)
<1> DEFINE w == <<b>> \o list
<1>1. /\ list \in Seq(Alarm) /\ Len(list) \in Nat /\ DOMAIN list = 1 .. Len(list)
      /\ \A j, k \in 1 .. Len(list) : list[j] = list[k] => j = k
      /\ \A j \in 1 .. Len(list) : list[j] # b /\ list[j] \in Range(list)
  BY DEF AlarmList, IsInjective, Range
<1>2. PICK q \in 1 .. Len(list) + 1 :
        /\ a = IF q <= Len(list) THEN list[q] ELSE ListHead
        /\ \A k \in 1 .. Len(list) : IF k < q THEN list[k] \in done ELSE list[k] \in todo
  BY DEF Cut
<1>3. /\ w \in Seq(Alarm) /\ Len(w) = Len(list) + 1 /\ DOMAIN w = 1 .. Len(w)
      /\ \A k \in 1 .. Len(w) : w[k] = IF k = 1 THEN b ELSE list[k - 1]
  BY <1>1
<1> HIDE DEF w
<1>4. AlarmList(w)
  <2>1. ASSUME NEW j \in 1 .. Len(w), NEW k \in 1 .. Len(w), w[j] = w[k]
        PROVE  j = k
    BY <1>1, <1>3, <2>1
  <2> QED
    BY <1>3, <2>1 DEF AlarmList, IsInjective
<1>5. Range(w) = Range(list) \cup {b}
  <2>1. \A k \in 1 .. Len(w) : w[k] \in Range(list) \cup {b}
    BY <1>1, <1>3
  <2>2. ASSUME NEW j \in 1 .. Len(list) PROVE list[j] \in Range(w)
    <3>1. j + 1 \in DOMAIN w /\ w[j + 1] = list[j]
      BY <1>1, <1>3
    <3> QED
      BY <3>1 DEF Range
  <2>3. b \in Range(w)
    BY <1>1, <1>3 DEF Range
  <2> QED
    BY <1>1, <1>3, <2>1, <2>2, <2>3 DEF Range
<1>6. Cut(w, a, done \cup {b}, todo)
  <2>1. q + 1 \in 1 .. Len(w) + 1 /\ a = IF q + 1 <= Len(w) THEN w[q + 1] ELSE ListHead
    BY <1>1, <1>2, <1>3
  <2>2. \A k \in 1 .. Len(w) : IF k < q + 1 THEN w[k] \in done \cup {b} ELSE w[k] \in todo
    BY <1>1, <1>2, <1>3
  <2> QED
    BY <2>1, <2>2 DEF Cut
<1> QED
  BY <1>4, <1>5, <1>6 DEF w

\* The walk goes on to the next alarm.
LEMMA AdvanceCut ==
  ASSUME AlarmList(alarm_list), NEW a, a # ListHead,
         NEW done, NEW todo, Cut(alarm_list, a, done, todo)
  PROVE  /\ a \in Alarm /\ a \in todo /\ a \in Registered /\ SuccessorOf(a) # a
         /\ Cut(alarm_list, SuccessorOf(a), done \cup {a}, todo \ {a})
<1> DEFINE n == Len(alarm_list)
<1>1. /\ alarm_list \in Seq(Alarm) /\ n \in Nat /\ DOMAIN alarm_list = 1 .. n
      /\ \A j, k \in 1 .. n : alarm_list[j] = alarm_list[k] => j = k
  BY DEF AlarmList, IsInjective
<1>2. PICK q \in 1 .. n + 1 :
        /\ a = IF q <= n THEN alarm_list[q] ELSE ListHead
        /\ \A k \in 1 .. n : IF k < q THEN alarm_list[k] \in done ELSE alarm_list[k] \in todo
  BY DEF Cut
<1>3. q \in 1 .. n /\ a = alarm_list[q] /\ a \in Alarm /\ a \in todo /\ a \in Registered
  BY <1>1, <1>2 DEF Registered, Range
<1>4. SuccessorOf(a) = IF q + 1 <= n THEN alarm_list[q + 1] ELSE ListHead
  BY <1>1, <1>3, PositionOf DEF SuccessorOf
<1>5. SuccessorOf(a) # a
  BY <1>1, <1>3, <1>4
<1>6. \A k \in 1 .. n : IF k < q + 1 THEN alarm_list[k] \in done \cup {a}
                                     ELSE alarm_list[k] \in todo \ {a}
  BY <1>1, <1>2, <1>3
<1>7. Cut(alarm_list, SuccessorOf(a), done \cup {a}, todo \ {a})
  BY <1>1, <1>3, <1>4, <1>6 DEF Cut
<1> QED
  BY <1>3, <1>5, <1>7


-----------------------------------------------------------------------------
\* What an alarm is like that this tick has dealt with: it is due in left[a]
\* ticks, and marked if the counter will roll over before.
Settled(a) ==
  /\ left[a] \in 1 .. ULIMIT - 1
  /\ time[a] = Plus(nticks, left[a])
  /\ rollover[a] <=> Wraps(time[a])

\* The counter at the last tick.
Before == IF nticks = 0 THEN ULIMIT - 1 ELSE nticks - 1

\* And one that this tick has not come to yet: its mark dates from before.
Pending(a) ==
  /\ left[a] \in 0 .. ULIMIT - 2
  /\ time[a] = Plus(nticks, left[a])
  /\ rollover[a] <=> time[a] < Before

AlarmInv ==
  /\ AlarmTypeOK
  /\ Cut(alarm_list, alarm, {a \in Alarm : Settled(a)}, {a \in Alarm : Pending(a)})

LEMMA PlusTyped == \A x, y \in Ticks : Plus(x, y) \in Ticks
BY TickAssumption DEF Plus, Ticks

\* The mark tells the two meanings of a smaller time apart.
LEMMA ExpiredMeans ==
  ASSUME NEW a, Pending(a), nticks \in Ticks, rollover[a] \in BOOLEAN
  PROVE  /\ Expired(a) <=> left[a] = 0
         /\ left[a] > 0 => (Rollover(a) <=> Wraps(time[a]))
<1>1. /\ left[a] \in 0 .. ULIMIT - 2
      /\ time[a] = Plus(nticks, left[a])
      /\ rollover[a] <=> time[a] < Before
  BY DEF Pending
<1>2. ULIMIT \in Nat /\ ULIMIT > 1 /\ nticks \in 0 .. ULIMIT - 1
  BY TickAssumption DEF Ticks
<1>3. CASE nticks = 0
  <2>1. time[a] = left[a] /\ rollover[a]
    BY <1>1, <1>2, <1>3 DEF Plus, Before
  <2> QED
    BY <1>1, <1>2, <1>3, <2>1 DEF Expired, Rollover, Wraps
<1>4. CASE nticks # 0
  <2>1. rollover[a] <=> time[a] < nticks - 1
    BY <1>1, <1>4 DEF Before
  <2>2. CASE nticks + left[a] < ULIMIT
    BY <1>1, <1>2, <1>4, <2>1, <2>2 DEF Plus, Expired, Rollover, Wraps
  <2>3. CASE ~(nticks + left[a] < ULIMIT)
    BY <1>1, <1>2, <1>4, <2>1, <2>3 DEF Plus, Expired, Rollover, Wraps
  <2> QED
    BY <2>2, <2>3
<1> QED
  BY <1>3, <1>4

LEMMA AlarmInitInv ==
  ASSUME AlarmInit
  PROVE  AlarmInv
<1>1. AlarmTypeOK
  BY TickAssumption DEF AlarmInit, AlarmTypeOK, IsInjective
<1>2. Len(alarm_list) = 0
  BY DEF AlarmInit
<1>3. Cut(alarm_list, alarm, {a \in Alarm : Settled(a)}, {a \in Alarm : Pending(a)})
  BY <1>2 DEF AlarmInit, Cut
<1> QED
  BY <1>1, <1>3 DEF AlarmInv

\* Between ticks every alarm is settled.
LEMMA BetweenSettled ==
  ASSUME AlarmInv
  PROVE  /\ AlarmList(alarm_list)
         /\ BetweenTicks => /\ \A a \in Registered : Settled(a)
                            /\ \A todo : Cut(alarm_list, ListHead,
                                             {a \in Alarm : Settled(a)}, todo)
<1>1. alarm_list \in Seq(Alarm) /\ IsInjective(alarm_list)
  BY DEF AlarmInv, AlarmTypeOK
<1>2. PICK q \in 1 .. Len(alarm_list) + 1 :
        /\ alarm = IF q <= Len(alarm_list) THEN alarm_list[q] ELSE ListHead
        /\ \A k \in 1 .. Len(alarm_list) :
             IF k < q THEN alarm_list[k] \in {a \in Alarm : Settled(a)}
                      ELSE alarm_list[k] \in {a \in Alarm : Pending(a)}
  BY DEF AlarmInv, Cut
<1>3. ASSUME BetweenTicks PROVE q = Len(alarm_list) + 1
  <2>1. Len(alarm_list) \in Nat
    BY <1>1
  <2>2. ~(q <= Len(alarm_list))
    BY <1>1, <1>2, <1>3, <2>1, TickAssumption DEF BetweenTicks
  <2> QED
    BY <2>1, <2>2
<1>4. ASSUME BetweenTicks
      PROVE  \A k \in 1 .. Len(alarm_list) : alarm_list[k] \in {a \in Alarm : Settled(a)}
  BY <1>1, <1>2, <1>3, <1>4
<1>5. BetweenTicks => \A a \in Registered : Settled(a)
  BY <1>1, <1>4 DEF Registered, Range
<1>6. ASSUME BetweenTicks, NEW todo
      PROVE  Cut(alarm_list, ListHead, {a \in Alarm : Settled(a)}, todo)
  <2>1. Len(alarm_list) \in Nat
    BY <1>1
  <2>2. \A k \in 1 .. Len(alarm_list) : k < Len(alarm_list) + 1
    BY <2>1
  <2>3. /\ Len(alarm_list) + 1 \in 1 .. Len(alarm_list) + 1
        /\ ~(Len(alarm_list) + 1 <= Len(alarm_list))
    BY <2>1
  <2> QED
    BY <1>4, <1>6, <2>2, <2>3 DEF Cut
<1> QED
  BY <1>1, <1>5, <1>6 DEF AlarmList

\* A cut whose alarms keep, or get, the state it says.
LEMMA CutKept ==
  ASSUME NEW list, NEW a, NEW done, NEW todo, Cut(list, a, done, todo),
         NEW D, NEW T, done \subseteq D, todo \subseteq T
  PROVE  Cut(list, a, D, T)
BY DEF Cut

LEMMA CutTyped ==
  ASSUME NEW list, AlarmList(list), NEW a, NEW done, NEW todo, Cut(list, a, done, todo)
  PROVE  a \in Range(list) \cup {ListHead}
BY DEF Cut, AlarmList, Range


LEMMA InvNext ==
  ASSUME AlarmTypeOK',
         NEW done, NEW todo, Cut(alarm_list', alarm', done, todo),
         \A a \in Alarm \cap done : Settled(a)',
         \A a \in Alarm \cap todo : Pending(a)',
         done \subseteq Alarm, todo \subseteq Alarm
  PROVE  AlarmInv'
<1>1. /\ done \subseteq {a \in Alarm : Settled(a)'}
      /\ todo \subseteq {a \in Alarm : Pending(a)'}
  OBVIOUS
<1>2. Cut(alarm_list', alarm', {a \in Alarm : Settled(a)'}, {a \in Alarm : Pending(a)'})
  BY <1>1, CutKept
<1> QED
  BY <1>2 DEF AlarmInv, Cut

-----------------------------------------------------------------------------
LEMMA SysclkInv ==
  ASSUME AlarmInv, alt_sysclk_init \/ UNCHANGED alarmVars
  PROVE  AlarmInv'
<1>1. /\ UNCHANGED <<nticks, alarm_list, time, rollover, alarm, left>>
      /\ _alt_tick_rate' \in {0, RATE}
  BY DEF alt_sysclk_init, alarmVars, AlarmInv, AlarmTypeOK
<1>2. AlarmTypeOK'
  BY <1>1 DEF AlarmInv, AlarmTypeOK, Registered
<1>3. /\ \A a \in Alarm : Settled(a) <=> Settled(a)'
      /\ \A a \in Alarm : Pending(a) <=> Pending(a)'
  BY <1>1 DEF Settled, Pending, Wraps, Before
<1>4. Cut(alarm_list', alarm', {a \in Alarm : Settled(a)}, {a \in Alarm : Pending(a)})
  BY <1>1 DEF AlarmInv
<1> QED
  BY <1>2, <1>3, <1>4, InvNext

LEMMA StartInv ==
  ASSUME AlarmInv, NEW b \in Alarm, NEW n \in Delays, alt_alarm_start(b, n)
  PROVE  AlarmInv'
<1> DEFINE done == {a \in Alarm : Settled(a)}
<1>1. /\ BetweenTicks /\ b \notin Registered
      /\ alarm_list' = <<b>> \o alarm_list
      /\ time' = [time EXCEPT ![b] = Plus(Plus(n, nticks), 1)]
      /\ rollover' = [rollover EXCEPT ![b] = Wraps(time'[b])]
      /\ left' = [left EXCEPT ![b] = n + 1]
      /\ UNCHANGED <<_alt_tick_rate, nticks, alarm>>
  BY DEF alt_alarm_start
<1>2. AlarmTypeOK /\ n \in 0 .. ULIMIT - 2 /\ ULIMIT \in Nat /\ ULIMIT > 1
  BY TickAssumption DEF AlarmInv
<1>3. /\ AlarmList(alarm_list') /\ Cut(alarm_list', ListHead, done \cup {b}, {})
  BY <1>1, BetweenSettled, InsertCut DEF Registered
<1>4. Plus(Plus(n, nticks), 1) \in Ticks /\ Plus(Plus(n, nticks), 1) = Plus(nticks, n + 1)
  BY <1>2, TickAssumption DEF Plus, Ticks, AlarmTypeOK
<1>5. time'[b] = Plus(nticks, n + 1) /\ rollover'[b] = Wraps(time'[b]) /\ left'[b] = n + 1
  BY <1>1, <1>2, <1>4 DEF AlarmTypeOK
<1>6. Wraps(time'[b]) \in BOOLEAN
  BY DEF Wraps
<1>7. AlarmTypeOK'
  <2>1. alarm' = ListHead
    BY <1>1 DEF BetweenTicks
  <2>2. /\ time' \in [Alarm -> 0 .. ULIMIT - 1] /\ left' \in [Alarm -> 0 .. ULIMIT - 1]
        /\ rollover' \in [Alarm -> BOOLEAN]
    BY <1>1, <1>2, <1>4, <1>6 DEF AlarmTypeOK, Ticks
  <2> QED
    BY <1>1, <1>2, <1>3, <2>1, <2>2 DEF AlarmTypeOK, AlarmList
<1>8. \A a \in Alarm : a \in done \cup {b} => Settled(a)'
  <2>1. Settled(b)'
    <3>1. left'[b] \in 1 .. ULIMIT - 1 /\ time'[b] = Plus(nticks', left'[b])
      BY <1>1, <1>2, <1>5
    <3>2. rollover'[b] <=> time'[b] < nticks'
      BY <1>1, <1>5, Zenon DEF Wraps
    <3> QED
      BY <3>1, <3>2 DEF Settled, Wraps
  <2>2. ASSUME NEW a \in Alarm, a # b, Settled(a) PROVE Settled(a)'
    BY <1>1, <1>2, <2>2 DEF Settled, Wraps, AlarmTypeOK
  <2> QED
    BY <2>1, <2>2
<1> QED
  BY <1>1, <1>3, <1>7, <1>8, InvNext DEF BetweenTicks

LEMMA StopInv ==
  ASSUME AlarmInv, NEW b \in Alarm, alt_alarm_stop(b)
  PROVE  AlarmInv'
<1> DEFINE done == {a \in Alarm : Settled(a)}
<1>1. /\ BetweenTicks /\ alarm_list' = Without(alarm_list, b)
      /\ UNCHANGED <<_alt_tick_rate, nticks, time, rollover, alarm, left>>
  BY DEF alt_alarm_stop
<1>2. b # ListHead
  BY TickAssumption
<1>3. AlarmList(alarm_list') /\ Cut(alarm_list', ListHead, done \ {b}, {} \ {b})
  BY <1>1, <1>2, BetweenSettled, WithoutCut
<1>4. AlarmTypeOK'
  BY <1>1, <1>3 DEF AlarmInv, AlarmTypeOK, AlarmList, BetweenTicks
<1>5. \A a \in Alarm : Settled(a) => Settled(a)'
  BY <1>1 DEF Settled, Wraps
<1> QED
  BY <1>1, <1>3, <1>4, <1>5, InvNext DEF BetweenTicks

\* The tick makes every settled alarm a pending one, a tick nearer.
LEMMA TickInv ==
  ASSUME AlarmInv, alt_tick
  PROVE  AlarmInv'
<1>1. /\ BetweenTicks /\ nticks' = Plus(nticks, 1)
      /\ alarm' = IF alarm_list = << >> THEN ListHead ELSE Head(alarm_list)
      /\ left' = [a \in Alarm |-> IF a \in Registered /\ left[a] > 0
                                  THEN left[a] - 1 ELSE left[a]]
      /\ UNCHANGED <<_alt_tick_rate, alarm_list, time, rollover>>
  BY DEF alt_tick
<1>2. AlarmTypeOK /\ ULIMIT \in Nat /\ ULIMIT > 1
  BY TickAssumption DEF AlarmInv
<1>3. \A a \in Registered : Settled(a) /\ a \in Alarm
  BY <1>1, <1>2, BetweenSettled DEF AlarmTypeOK, Registered, Range
<1>4. \A a \in Registered : Pending(a)'
  <2> SUFFICES ASSUME NEW a \in Registered PROVE Pending(a)'
    OBVIOUS
  <2>1. /\ left[a] \in 1 .. ULIMIT - 1 /\ time[a] = Plus(nticks, left[a])
        /\ rollover[a] <=> time[a] < nticks
    BY <1>3 DEF Settled, Wraps
  <2>2. left'[a] = left[a] - 1
    BY <1>1, <1>3, <2>1
  <2>3. Before' = nticks
    BY <1>1, <1>2 DEF Before, Plus, AlarmTypeOK
  <2>4. Plus(nticks, left[a]) = Plus(Plus(nticks, 1), left[a] - 1)
    BY <1>2, <2>1 DEF Plus, AlarmTypeOK
  <2>5. time'[a] = Plus(nticks', left'[a])
    BY <1>1, <2>1, <2>2, <2>4
  <2>6. left'[a] \in 0 .. ULIMIT - 2
    BY <1>2, <2>1, <2>2
  <2> QED
    BY <1>1, <2>1, <2>3, <2>5, <2>6 DEF Pending
<1>5. AlarmTypeOK'
  <2>1. nticks' \in 0 .. ULIMIT - 1
    BY <1>1, <1>2 DEF Plus, AlarmTypeOK
  <2>2. left' \in [Alarm -> 0 .. ULIMIT - 1]
    BY <1>1, <1>2 DEF AlarmTypeOK
  <2>3. alarm' \in Registered \cup {ListHead}
    BY <1>1, <1>2 DEF AlarmTypeOK, Registered, Range
  <2> QED
    BY <1>1, <1>2, <2>1, <2>2, <2>3 DEF AlarmTypeOK, Registered
<1>6. Cut(alarm_list', alarm', {}, Registered)
  <2>1. alarm_list \in Seq(Alarm)
    BY <1>2 DEF AlarmTypeOK
  <2>2. alarm' = IF 1 <= Len(alarm_list) THEN alarm_list[1] ELSE ListHead
    BY <1>1, <2>1
  <2>3. \A k \in 1 .. Len(alarm_list) : ~(k < 1) /\ alarm_list[k] \in Registered
    BY <2>1 DEF Registered, Range
  <2>4. 1 \in 1 .. Len(alarm_list) + 1
    BY <2>1
  <2> QED
    BY <1>1, <2>2, <2>3, <2>4 DEF Cut
<1> QED
  BY <1>3, <1>4, <1>5, <1>6, InvNext


\* An alarm that has not run out is settled by the look at it.
LEMMA SkipInv ==
  ASSUME AlarmInv, Skip
  PROVE  AlarmInv'
<1> DEFINE done == {a \in Alarm : Settled(a)}
           todo == {a \in Alarm : Pending(a)}
<1>1. PICK c : c = alarm
  OBVIOUS
<1>2. /\ c # ListHead /\ ~Expired(c)
      /\ rollover' = [rollover EXCEPT ![c] = Rollover(c)]
      /\ alarm' = SuccessorOf(c)
      /\ UNCHANGED <<_alt_tick_rate, nticks, alarm_list, time, left>>
  BY <1>1 DEF Skip, BetweenTicks
<1>3. AlarmTypeOK /\ AlarmList(alarm_list) /\ Cut(alarm_list, c, done, todo)
  BY <1>1, BetweenSettled DEF AlarmInv
<1>4. /\ c \in Alarm /\ Pending(c)
      /\ Cut(alarm_list, SuccessorOf(c), done \cup {c}, todo \ {c})
  BY <1>2, <1>3, AdvanceCut
<1>5. Rollover(c) \in BOOLEAN /\ rollover'[c] = Rollover(c)
  BY <1>2, <1>3, <1>4 DEF Rollover, AlarmTypeOK
<1>6. left[c] > 0 /\ (Rollover(c) <=> Wraps(time[c]))
  <2>1. nticks \in Ticks /\ rollover[c] \in BOOLEAN
    BY <1>3, <1>4 DEF AlarmTypeOK, Ticks
  <2>2. left[c] # 0
    BY <1>2, <1>4, <2>1, ExpiredMeans
  <2>3. left[c] > 0
    BY <1>4, <2>2, TickAssumption DEF Pending
  <2> QED
    BY <1>4, <2>1, <2>3, ExpiredMeans
<1>7. Settled(c)'
  <2>1. left'[c] \in 1 .. ULIMIT - 1 /\ time'[c] = Plus(nticks', left'[c])
    BY <1>2, <1>4, <1>6, TickAssumption DEF Pending
  <2>2. rollover'[c] <=> time'[c] < nticks'
    BY <1>2, <1>5, <1>6, Zenon DEF Wraps
  <2> QED
    BY <2>1, <2>2 DEF Settled, Wraps
<1>8. ASSUME NEW a \in Alarm, a # c
      PROVE  (Settled(a) => Settled(a)') /\ (Pending(a) => Pending(a)')
  BY <1>2, <1>3, <1>8 DEF Settled, Pending, Wraps, Before, AlarmTypeOK
<1>9. AlarmTypeOK'
  <2>1. SuccessorOf(c) \in Registered \cup {ListHead}
    BY <1>3, <1>4, CutTyped DEF Registered
  <2>2. rollover' \in [Alarm -> BOOLEAN]
    BY <1>2, <1>3, <1>5 DEF AlarmTypeOK
  <2> QED
    BY <1>2, <1>3, <2>1, <2>2 DEF AlarmTypeOK, Registered
<1>10. Cut(alarm_list', alarm', done \cup {c}, todo \ {c})
  BY <1>2, <1>4
<1> QED
  BY <1>4, <1>7, <1>8, <1>9, <1>10, InvNext


LEMMA CutRange ==
  ASSUME NEW list, AlarmList(list), NEW a, NEW done, NEW todo, Cut(list, a, done, todo)
  PROVE  Cut(list, a, done, todo \cap Range(list))
BY DEF Cut, AlarmList, Range

\* What remains to be seen once the list that the callback left is known.
LEMMA AfterInv ==
  ASSUME AlarmInv,
         NEW c \in Alarm, c = alarm, Pending(c), left[c] = 0,
         NEW list, AlarmList(list), NEW succ, succ # c, succ = SuccessorOf(c),
         NEW started, started \subseteq Alarm \ {c},
         NEW n \in 0 .. ULIMIT - 2,
         NEW done, NEW todo, Cut(list, succ, done, todo),
         done \subseteq Alarm, todo \subseteq Alarm \ ({c} \cup started),
         \A a \in done \ ({c} \cup started) : Settled(a),
         \A a \in todo : Pending(a),
         NEW r \in Delays, AfterCallback(r, list, started, n)
  PROVE  AlarmInv'
<1> DEFINE again == [a \in Alarm |-> CASE a = c /\ r # 0 -> Plus(time[a], r)
                                       [] a \in started -> Plus(Plus(n, nticks), 1)
                                       [] OTHER -> time[a]]
           w == IF r = 0 THEN Without(list, c) ELSE list
           D == IF r = 0 THEN done \ {c} ELSE done
<1>1. /\ alarm_list' = w
      /\ time' = again
      /\ rollover' = [a \in Alarm |-> CASE a = c -> r # 0 /\ Wraps(again[a])
                                        [] a \in started -> Wraps(again[a])
                                        [] OTHER -> rollover[a]]
      /\ left' = [a \in Alarm |-> CASE a = c -> r [] a \in started -> n + 1
                                    [] OTHER -> left[a]]
      /\ alarm' = succ
      /\ UNCHANGED <<_alt_tick_rate, nticks>>
  BY DEF AfterCallback
<1>2. /\ AlarmTypeOK /\ r \in 0 .. ULIMIT - 2 /\ ULIMIT \in Nat /\ ULIMIT > 1
      /\ nticks \in Ticks /\ time[c] = nticks
  <2>1. AlarmTypeOK /\ r \in 0 .. ULIMIT - 2 /\ ULIMIT \in Nat /\ ULIMIT > 1
    BY TickAssumption DEF AlarmInv
  <2> QED
    BY <2>1 DEF Pending, Plus, AlarmTypeOK, Ticks
<1>3. AlarmList(w) /\ Cut(w, succ, D, todo)
  <2>1. CASE r = 0
    <3>1. AlarmList(Without(list, c)) /\ Cut(Without(list, c), succ, done \ {c}, todo \ {c})
      BY WithoutCut
    <3>2. todo \ {c} = todo
      OBVIOUS
    <3> QED
      BY <2>1, <3>1, <3>2
  <2>2. CASE r # 0
    BY <2>2
  <2> QED
    BY <2>1, <2>2
<1> HIDE DEF w
<1>4. /\ Plus(nticks, r) \in Ticks
      /\ Plus(Plus(n, nticks), 1) = Plus(nticks, n + 1) /\ Plus(nticks, n + 1) \in Ticks
  BY <1>2 DEF Plus, Ticks
<1>5. again \in [Alarm -> Ticks]
  BY <1>2, <1>4 DEF AlarmTypeOK, Ticks
<1>6. AlarmTypeOK'
  <2>1. rollover' \in [Alarm -> BOOLEAN]
    <3>1. \A a \in Alarm : Wraps(again[a]) \in BOOLEAN /\ rollover[a] \in BOOLEAN
      BY <1>2 DEF Wraps, AlarmTypeOK
    <3> HIDE DEF again
    <3> QED
      BY <1>1, <3>1
  <2>2. left' \in [Alarm -> 0 .. ULIMIT - 1]
    BY <1>1, <1>2 DEF AlarmTypeOK
  <2>3. alarm' \in Range(w) \cup {ListHead}
    BY <1>1, <1>3, CutTyped
  <2> HIDE DEF again
  <2> QED
    BY <1>1, <1>2, <1>3, <1>5, <2>1, <2>2, <2>3 DEF AlarmTypeOK, AlarmList, Registered, Ticks
<1>7. ASSUME r # 0 PROVE Settled(c)'
  <2>1. left'[c] = r /\ time'[c] = Plus(nticks, r)
    BY <1>1, <1>2, <1>7
  <2>2. rollover'[c] <=> Wraps(again[c])
    BY <1>1, <1>7
  <2>3. rollover'[c] <=> time'[c] < nticks'
    <3> HIDE DEF again
    <3> QED
      BY <1>1, <2>2, Zenon DEF Wraps
  <2>4. left'[c] \in 1 .. ULIMIT - 1
    BY <1>2, <1>7, <2>1
  <2> QED
    BY <1>1, <2>1, <2>3, <2>4 DEF Settled, Wraps
<1>8. ASSUME NEW a \in started PROVE Settled(a)'
  <2>1. a \in Alarm /\ a # c
    OBVIOUS
  <2>2. left'[a] = n + 1 /\ time'[a] = Plus(nticks, n + 1)
    BY <1>1, <1>4, <2>1
  <2>3. rollover'[a] <=> Wraps(again[a])
    BY <1>1, <2>1
  <2>4. rollover'[a] <=> time'[a] < nticks'
    <3> HIDE DEF again
    <3> QED
      BY <1>1, <2>3, Zenon DEF Wraps
  <2>5. left'[a] \in 1 .. ULIMIT - 1
    BY <1>2, <2>2
  <2> QED
    BY <1>1, <2>2, <2>4, <2>5 DEF Settled, Wraps
<1>9. ASSUME NEW a \in Alarm \ ({c} \cup started)
      PROVE  (Settled(a) => Settled(a)') /\ (Pending(a) => Pending(a)')
  <2>1. time'[a] = time[a] /\ rollover'[a] = rollover[a] /\ left'[a] = left[a]
    BY <1>1
  <2> QED
    BY <1>1, <2>1 DEF Settled, Pending, Wraps, Before
<1>10. \A a \in D : a \in Alarm /\ Settled(a)'
  BY <1>7, <1>8, <1>9
<1>11. Cut(alarm_list', alarm', D, todo) /\ D \subseteq Alarm
  BY <1>1, <1>3
<1> QED
  BY <1>6, <1>9, <1>10, <1>11, InvNext

\* The callback of an alarm that has run out, whatever it does to the list.
LEMMA CallbackInv ==
  ASSUME AlarmInv, NEW r \in Delays, Callback(r)
  PROVE  AlarmInv'
<1> DEFINE done == {a \in Alarm : Settled(a)}
           todo == {a \in Alarm : Pending(a)}
<1>1. PICK c : c = alarm
  OBVIOUS
<1>2. c # ListHead /\ Expired(c)
  BY <1>1 DEF Callback, BetweenTicks
<1>3. AlarmTypeOK /\ AlarmList(alarm_list) /\ Cut(alarm_list, c, done, todo)
  BY <1>1, BetweenSettled DEF AlarmInv
<1> DEFINE succ == SuccessorOf(c)
           todo2 == (todo \ {c}) \cap Registered
<1>4. /\ c \in Alarm /\ Pending(c) /\ c \in Registered /\ succ # c
      /\ Cut(alarm_list, succ, done \cup {c}, todo2)
  <2>1. /\ c \in todo /\ c \in Registered /\ SuccessorOf(c) # c
        /\ Cut(alarm_list, SuccessorOf(c), done \cup {c}, todo \ {c})
    BY <1>2, <1>3, AdvanceCut
  <2>2. Cut(alarm_list, SuccessorOf(c), done \cup {c}, todo2)
    BY <1>3, <2>1, CutRange DEF Registered
  <2> QED
    BY <2>1, <2>2
<1>5. left[c] = 0
  BY <1>2, <1>3, <1>4, ExpiredMeans DEF AlarmTypeOK, Ticks
<1>6. 0 \in 0 .. ULIMIT - 2
  BY TickAssumption
<1> HIDE DEF succ
<1>7. CASE AfterCallback(r, alarm_list, {}, 0)
  BY <1>1, <1>3, <1>4, <1>5, <1>6, <1>7, AfterInv DEF succ
<1>8. ASSUME NEW b \in Alarm \ Registered, NEW n \in Delays,
             AfterCallback(r, <<b>> \o alarm_list, {b}, n)
      PROVE  AlarmInv'
  <2>1. /\ AlarmList(<<b>> \o alarm_list)
        /\ Cut(<<b>> \o alarm_list, succ, (done \cup {c}) \cup {b}, todo2)
    BY <1>3, <1>4, InsertCut DEF Registered
  <2>2. {b} \subseteq Alarm \ {c} /\ n \in 0 .. ULIMIT - 2
    BY <1>4, TickAssumption
  <2> QED
    BY <1>1, <1>4, <1>5, <1>8, <2>1, <2>2, AfterInv DEF succ
<1>9. ASSUME NEW b \in Registered \ {SuccessorOf(alarm)},
             AfterCallback(r, Without(alarm_list, b), {}, 0)
      PROVE  AlarmInv'
  <2>1. b \in Alarm /\ b # succ
    BY <1>1, <1>3 DEF succ, Registered, Range, AlarmTypeOK
  <2>2. /\ AlarmList(Without(alarm_list, b))
        /\ Cut(Without(alarm_list, b), succ, (done \cup {c}) \ {b}, todo2 \ {b})
    BY <1>3, <1>4, <2>1, WithoutCut
  <2> QED
    BY <1>1, <1>4, <1>5, <1>6, <1>9, <2>2, AfterInv DEF succ
<1> QED
  BY <1>7, <1>8, <1>9 DEF Callback

LEMMA AlarmNextInv ==
  ASSUME AlarmInv, [AlarmNext]_alarmVars
  PROVE  AlarmInv'
<1>1. CASE alt_sysclk_init \/ UNCHANGED alarmVars
  BY <1>1, SysclkInv
<1>2. ASSUME NEW a \in Alarm, NEW n \in Delays, alt_alarm_start(a, n) PROVE AlarmInv'
  BY <1>2, StartInv
<1>3. ASSUME NEW a \in Alarm, alt_alarm_stop(a) PROVE AlarmInv'
  BY <1>3, StopInv
<1>4. CASE alt_tick
  BY <1>4, TickInv
<1>5. CASE Skip
  BY <1>5, SkipInv
<1>6. ASSUME NEW r \in Delays, Callback(r) PROVE AlarmInv'
  BY <1>6, CallbackInv
<1> QED
  BY <1>1, <1>2, <1>3, <1>4, <1>5, <1>6 DEF AlarmNext

LEMMA AlarmInvariant == AlarmSpec => []AlarmInv
<1>1. AlarmInit => AlarmInv
  BY AlarmInitInv
<1>2. AlarmInv /\ [AlarmNext]_alarmVars => AlarmInv'
  BY AlarmNextInv
<1> QED
  BY <1>1, <1>2, PTL DEF AlarmSpec

-----------------------------------------------------------------------------
\* The counter and the times of the alarms stay within alt_u32, no alarm is in
\* the list twice, and the walk of alt_tick() stands at a registered alarm.
THEOREM AlarmTypeCorrect == AlarmSpec => []AlarmTypeOK
<1>1. AlarmInv => AlarmTypeOK
  BY DEF AlarmInv
<1> QED
  BY <1>1, AlarmInvariant, PTL

\* alt_tick() calls an alarm back on the tick it asked for and on no other,
\* although the comparison of its time with the counter is one of numbers that
\* wrap: the rollover flag makes up for that, whatever the width of the counter,
\* the number of alarms and what the callbacks do.
THEOREM CallbackOnTimeCorrect == AlarmSpec => []CallbackOnTime
<1>1. ASSUME AlarmInv PROVE CallbackOnTime
  <2>1. ASSUME BetweenTicks, NEW a \in Registered PROVE left[a] > 0
    <3>1. left[a] \in 1 .. ULIMIT - 1
      BY <1>1, <2>1, BetweenSettled DEF Settled
    <3> QED
      BY <3>1, TickAssumption
  <2>2. ASSUME ~BetweenTicks PROVE Expired(alarm) <=> left[alarm] = 0
    <3>1. /\ AlarmTypeOK /\ AlarmList(alarm_list)
          /\ Cut(alarm_list, alarm, {a \in Alarm : Settled(a)}, {a \in Alarm : Pending(a)})
      BY <1>1, BetweenSettled DEF AlarmInv
    <3>2. alarm \in {a \in Alarm : Pending(a)}
      BY <2>2, <3>1, AdvanceCut DEF BetweenTicks
    <3> QED
      BY <3>1, <3>2, ExpiredMeans DEF AlarmTypeOK, Ticks
  <2> QED
    BY <2>1, <2>2 DEF CallbackOnTime
<1> QED
  BY <1>1, AlarmInvariant, PTL

-----------------------------------------------------------------------------
(***************************************************************************)
(* The time of day.                                                        *)
(***************************************************************************)

\* A number is its quotient and its remainder in one way only.
LEMMA QuotientIs ==
  ASSUME NEW d \in Nat \ {0}, NEW q \in Nat, NEW r \in 0 .. d - 1, NEW a, a = q * d + r
  PROVE  a \div d = q /\ a % d = r
<1>1. q * d \in Nat /\ a \in Nat
  OBVIOUS
<1> DEFINE e == a \div d - q
<1>2. a = d * (a \div d) + (a % d) /\ a % d \in 0 .. d - 1 /\ a \div d \in Int
  BY <1>1
<1>3. e \in Int /\ d * e = r - (a % d)
  BY <1>1, <1>2
<1>4. -d < d * e /\ d * e < d
  BY <1>2, <1>3
<1> HIDE DEF e
<1>5. e = 0
  <2>1. CASE e >= 1
    <3>1. d * e >= d BY <1>3, <2>1
    <3> QED BY <1>3, <1>4, <3>1
  <2>2. CASE e <= -1
    <3>1. d * e <= -d BY <1>3, <2>2
    <3> QED BY <1>3, <1>4, <3>1
  <2> QED BY <1>3, <2>1, <2>2
<1>6. a \div d = q
  BY <1>2, <1>5 DEF e
<1> QED BY <1>1, <1>2, <1>6

\* A later tick is not in an earlier second.
LEMMA DivMonotone ==
  ASSUME NEW a \in Nat, NEW b \in Nat, NEW d \in Nat \ {0}
  PROVE  a <= b => a \div d <= b \div d
<1> DEFINE p == a \div d
           q == b \div d
<1>1. p \in Nat /\ a >= d * p
  OBVIOUS
<1>2. q \in Nat /\ b < d * q + d
  OBVIOUS
<1> HIDE DEF p, q
<1>3. ASSUME a <= b, q < p PROVE FALSE
  <2>1. p - (q + 1) \in Nat BY <1>1, <1>2, <1>3
  <2>2. d * (p - (q + 1)) >= 0 BY <2>1
  <2>3. d * (p - (q + 1)) = d * p - (d * q + d) BY <1>1, <1>2
  <2>4. d * p \in Nat /\ d * q \in Nat BY <1>1, <1>2
  <2> QED BY <1>1, <1>2, <1>3, <2>2, <2>3, <2>4
<1>4. a <= b => p <= q
  BY <1>1, <1>2, <1>3
<1> QED BY <1>4 DEF p, q

\* n ticks are whole seconds and the rest of one, as the rate divides a second.
LEMMA TicksAsTime ==
  ASSUME NEW n \in Nat
  PROVE  /\ UsPerTick \in Nat
         /\ n \div RATE \in Nat
         /\ (n * UsPerTick) % ALT_US \in 0 .. ALT_US - 1
         /\ n * UsPerTick = (n \div RATE) * ALT_US + ((n * UsPerTick) % ALT_US)
<1> DEFINE p == UsPerTick
           q == n \div RATE
           r == n % RATE
<1>1. RATE \in Nat \ {0} /\ ALT_US \in Nat \ {0} /\ ALT_US % RATE = 0
  BY TickAssumption
<1>2. p \in Nat /\ ALT_US = RATE * p
  BY <1>1 DEF UsPerTick
<1>3. p # 0
  BY <1>1, <1>2
<1>4. q \in Nat /\ r \in 0 .. RATE - 1 /\ n = RATE * q + r
  BY <1>1
<1> HIDE DEF p, q, r
<1>5. r * p \in 0 .. ALT_US - 1
  <2>1. r * p \in Nat BY <1>2, <1>4
  <2>2. r + 1 <= RATE BY <1>1, <1>4
  <2>3. (r + 1) * p <= RATE * p
    <3>1. (RATE - (r + 1)) \in Nat BY <1>1, <1>4, <2>2
    <3>2. (RATE - (r + 1)) * p >= 0 BY <1>2, <3>1
    <3> QED BY <1>1, <1>2, <1>4, <3>2
  <2>4. (r + 1) * p = r * p + p BY <1>2, <1>4
  <2> QED BY <1>1, <1>2, <1>3, <2>1, <2>3, <2>4
<1>6. n * p = q * ALT_US + r * p
  BY <1>1, <1>2, <1>4
<1>7. (n * p) % ALT_US = r * p
  <2>1. PICK a, u : a = n * p /\ u = r * p
    OBVIOUS
  <2>2. u \in 0 .. ALT_US - 1 /\ a = q * ALT_US + u
    BY <1>5, <1>6, <2>1
  <2>3. a % ALT_US = u
    BY <1>1, <1>4, <2>2, QuotientIs
  <2> QED BY <2>1, <2>3
<1> QED BY <1>2, <1>4, <1>5, <1>6, <1>7 DEF p, q

\* Borrow and Carry normalise a time that is not negative and that is off by
\* less than a second, and do not change it.
LEMMA Normalised ==
  ASSUME NEW t, t.sec \in Int, t.usec \in Int,
         -ALT_US < t.usec, t.usec < 2 * ALT_US, t.sec * ALT_US + t.usec >= 0
  PROVE  LET now == Carry(Borrow(t)) IN
         /\ now.usec \in 0 .. ALT_US - 1
         /\ now.sec * ALT_US + now.usec = t.sec * ALT_US + t.usec
<1>1. ALT_US \in Nat \ {0}
  BY TickAssumption
<1>2. CASE t.usec >= 0
  <2>1. Borrow(t) = t BY <1>2 DEF Borrow
  <2>2. CASE t.usec < ALT_US BY <1>1, <1>2, <2>1, <2>2 DEF Carry
  <2>3. CASE ~(t.usec < ALT_US)
    <3>1. Carry(Borrow(t)) = [sec |-> t.sec + 1, usec |-> t.usec - ALT_US]
      BY <2>1, <2>3 DEF Carry
    <3> QED BY <1>1, <2>3, <3>1
  <2> QED BY <2>2, <2>3
<1>3. CASE t.usec < 0
  <2>1. t.sec > 0
    <3>1. t.sec * ALT_US > 0 BY <1>1, <1>3
    <3>2. t.sec <= 0 => t.sec * ALT_US <= 0 BY <1>1
    <3> QED BY <1>1, <3>1, <3>2
  <2>2. Borrow(t) = [sec |-> t.sec - 1, usec |-> t.usec + ALT_US]
    BY <1>3, <2>1 DEF Borrow
  <2>3. Carry(Borrow(t)) = [sec |-> t.sec - 1, usec |-> t.usec + ALT_US]
    BY <1>1, <1>3, <2>2 DEF Carry
  <2> QED BY <1>1, <1>3, <2>3
<1> QED BY <1>2, <1>3

\* A time that is before 0 by less than a second becomes 0.
LEMMA BeforeZero ==
  ASSUME NEW t, t.sec \in Nat, t.usec \in Int, t.sec * ALT_US + t.usec < 0
  PROVE  -ALT_US < t.usec => Carry(Borrow(t)) = [sec |-> 0, usec |-> 0]
<1> SUFFICES ASSUME -ALT_US < t.usec PROVE Carry(Borrow(t)) = [sec |-> 0, usec |-> 0]
  OBVIOUS
<1>1. ALT_US \in Nat \ {0}
  BY TickAssumption
<1>2. t.sec * ALT_US \in Nat
  BY <1>1
<1>3. t.usec < 0
  BY <1>2
<1>4. t.sec = 0
  <2>1. t.sec * ALT_US < ALT_US BY <1>1, <1>2
  <2>2. t.sec >= 1 => t.sec * ALT_US >= ALT_US BY <1>1
  <2> QED BY <1>1, <1>2, <2>1, <2>2
<1>5. Borrow(t) = [sec |-> 0, usec |-> 0]
  BY <1>3, <1>4 DEF Borrow
<1> QED BY <1>1, <1>5 DEF Carry

\* What the product in settimeofday() loses of its microseconds when it wraps.
Drift == ((nticks * UsPerTick) % ALT_US) - (((nticks * UsPerTick) % ULIMIT) % ALT_US)

\* gettimeofday() returns what settimeofday() was given plus the time that has
\* passed plus the drift of the setting, normalised, and never a time before 0,
\* at every rate that divides a second and on every tick, those on which the
\* product of alt_settod.c line 83 wraps included.  Before the first of those
\* there is no drift.
THEOREM TimeOfDayCorrect == AlarmSpec => []TimeOfDayKept
<1> SUFFICES ASSUME AlarmTypeOK PROVE TimeOfDayKept
  BY AlarmTypeCorrect, PTL
<1> DEFINE Due(sec, usec, passed) == sec * ALT_US + usec + passed * UsPerTick + Drift
           Now(sec, usec, passed) ==
             ALT_GETTIMEOFDAY(ALT_SETTIMEOFDAY([sec |-> sec, usec |-> usec]), nticks + passed)
<1>1. nticks \in Nat /\ ULIMIT \in Nat \ {0} /\ ALT_US \in Nat \ {0}
  BY TickAssumption DEF AlarmTypeOK
<1>2. UsPerTick \in Nat /\ nticks * UsPerTick \in Nat
  BY <1>1, TicksAsTime
<1>3. ((nticks * UsPerTick) % ULIMIT) % ALT_US \in 0 .. ALT_US - 1
  <2>1. (nticks * UsPerTick) % ULIMIT \in Nat BY <1>1, <1>2
  <2> QED BY <1>1, <2>1
<1>4. Drift \in 1 - ALT_US .. ALT_US - 1
  <2>1. (nticks * UsPerTick) % ALT_US \in 0 .. ALT_US - 1 BY <1>1, TicksAsTime
  <2> QED BY <1>1, <1>3, <2>1 DEF Drift
<1>5. nticks * UsPerTick < ULIMIT => Drift = 0
  <2> SUFFICES ASSUME nticks * UsPerTick < ULIMIT PROVE Drift = 0
    OBVIOUS
  <2>1. (nticks * UsPerTick) % ULIMIT = nticks * UsPerTick
    <3>1. nticks * UsPerTick \in 0 .. ULIMIT - 1 BY <1>1, <1>2
    <3> QED BY <1>1, <3>1
  <2>2. (nticks * UsPerTick) % ALT_US \in Int BY <1>1, TicksAsTime
  <2> QED BY <2>1, <2>2 DEF Drift
<1>6. ASSUME NEW sec \in Times, NEW usec \in 0 .. ALT_US - 1,
             NEW passed \in 0 .. ULIMIT - 1 - nticks
      PROVE  /\ Now(sec, usec, passed).sec * ALT_US + Now(sec, usec, passed).usec
                  = IF Due(sec, usec, passed) >= 0 THEN Due(sec, usec, passed) ELSE 0
             /\ Now(sec, usec, passed).usec \in 0 .. ALT_US - 1
  <2> DEFINE n == nticks + passed
             s0 == nticks \div RATE
             u0 == (nticks * UsPerTick) % ALT_US
             w0 == ((nticks * UsPerTick) % ULIMIT) % ALT_US
             s1 == n \div RATE
             u1 == (n * UsPerTick) % ALT_US
             t == [sec |-> (sec - s0) + s1, usec |-> (usec - w0) + u1]
             now == Now(sec, usec, passed)
             due == Due(sec, usec, passed)
  <2>1. passed \in Nat /\ n \in Nat /\ sec \in Nat /\ usec \in 0 .. ALT_US - 1
    BY <1>1, TickAssumption
  <2>2. s0 \in Nat /\ u0 \in 0 .. ALT_US - 1 /\ nticks * UsPerTick = s0 * ALT_US + u0
    BY <1>1, TicksAsTime
  <2>3. s1 \in Nat /\ u1 \in 0 .. ALT_US - 1 /\ n * UsPerTick = s1 * ALT_US + u1
    BY <2>1, TicksAsTime
  <2>4. w0 \in 0 .. ALT_US - 1 /\ Drift = u0 - w0
    BY <1>3 DEF Drift
  <2>5. now = Carry(Borrow(t))
    <3>1. ALT_SETTIMEOFDAY([sec |-> sec, usec |-> usec]) = [sec |-> sec - s0, usec |-> usec - w0]
      BY DEF ALT_SETTIMEOFDAY
    <3> QED BY <3>1 DEF ALT_GETTIMEOFDAY
  <2>6. n * UsPerTick = nticks * UsPerTick + passed * UsPerTick /\ passed * UsPerTick \in Nat
    BY <1>1, <1>2, <2>1
  <2>7. t.sec = (sec - s0) + s1 /\ t.usec = (usec - w0) + u1
    OBVIOUS
  <2>8. due = sec * ALT_US + usec + passed * UsPerTick + Drift
    OBVIOUS
  <2>9. s0 <= s1
    BY <1>1, <2>1, DivMonotone, TickAssumption
  <2> HIDE DEF n, s0, u0, w0, s1, u1, t, now, due
  <2>10. /\ t.sec \in Nat /\ t.usec \in Int /\ -ALT_US < t.usec /\ t.usec < 2 * ALT_US
    BY <1>1, <2>1, <2>2, <2>3, <2>4, <2>7, <2>9
  <2>11. t.sec * ALT_US + t.usec = due
    <3>1. t.sec * ALT_US = sec * ALT_US - s0 * ALT_US + s1 * ALT_US
      BY <1>1, <2>1, <2>2, <2>3, <2>7
    <3>2. /\ sec * ALT_US \in Int /\ s0 * ALT_US \in Int /\ s1 * ALT_US \in Int
      BY <1>1, <2>1, <2>2, <2>3
    <3> QED BY <1>2, <2>1, <2>2, <2>3, <2>4, <2>6, <2>7, <2>8, <3>1, <3>2
  <2>12. CASE due >= 0
    <3>1. now.usec \in 0 .. ALT_US - 1 /\ now.sec * ALT_US + now.usec = due
      BY <2>5, <2>10, <2>11, <2>12, Normalised
    <3> QED BY <2>12, <3>1 DEF now, due
  <2>13. CASE ~(due >= 0)
    <3>1. due \in Int
      <4>1. t.sec * ALT_US \in Int BY <1>1, <2>10
      <4> QED BY <2>10, <2>11, <4>1
    <3>2. t.sec * ALT_US + t.usec < 0 BY <2>11, <2>13, <3>1
    <3>3. now = [sec |-> 0, usec |-> 0] BY <2>5, <2>10, <3>2, BeforeZero
    <3>4. now.usec \in 0 .. ALT_US - 1 /\ now.sec * ALT_US + now.usec = 0
      BY <1>1, <3>3
    <3> QED BY <2>13, <3>4 DEF now, due
  <2> QED BY <2>12, <2>13
<1> QED BY <1>4, <1>5, <1>6 DEF TimeOfDayKept

-----------------------------------------------------------------------------
\* The two parts side by side, as MCHAL.cfg checks them: no table, list or clock
\* of the HAL leaves its range, and the list of alarms has no repetitions.
THEOREM HalTypeCorrect == MCSpec => []HalTypeOK
<1>1. MCInit => FileInv /\ AlarmInv
  BY InitInv, AlarmInitInv DEF MCInit
<1>2. FileInv /\ [Files \/ Alarms]_<<part, vars, alarmVars>> => FileInv'
  <2>1. [Files \/ Alarms]_<<part, vars, alarmVars>> => [Next]_vars
    BY DEF Files, Alarms
  <2> QED BY <2>1, NextInv
<1>3. AlarmInv /\ [Files \/ Alarms]_<<part, vars, alarmVars>> => AlarmInv'
  <2>1. [Files \/ Alarms]_<<part, vars, alarmVars>> => [AlarmNext]_alarmVars
    BY DEF Files, Alarms
  <2> QED BY <2>1, AlarmNextInv
<1>4. FileInv /\ AlarmInv => HalTypeOK
  BY DEF FileInv, AlarmInv, HalTypeOK
<1> QED BY <1>1, <1>2, <1>3, <1>4, PTL DEF MCSpec
=============================================================================
