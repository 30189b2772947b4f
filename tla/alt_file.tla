------------------------------ MODULE alt_file ------------------------------
(***************************************************************************)
(* The HAL's file descriptors (HAL/src/alt_open.c and its neighbours) and  *)
(* the start-up that prepares them (alt_main.c).  The HAL of this system   *)
(* has one thread and its semaphores expand to nothing, so a call is one   *)
(* step.  Devices and file systems are external: their open() may fail.    *)
(***************************************************************************)
EXTENDS Integers, Sequences, FiniteSets, SequencesExt, FiniteSetsExt

CONSTANTS
  ALT_MAX_FD,       \* size of the pool of descriptors, 32 in system.h
  Device,           \* character devices the board support package registers
  FileSystem,
  alt_dev_null,
  Free,             \* dev = 0: the descriptor is not in use
  MayFail,          \* devices and file systems whose open() can fail
  Path,             \* the name each of them is registered with, as components
  Name,             \* the names a program opens
  StdName,          \* ALT_STDIN, ALT_STDOUT and ALT_STDERR by descriptor
  Access, Status    \* access modes; the flags that fcntl() can change

Registrable == Device \cup FileSystem
Driver == Registrable \cup {alt_dev_null}

ASSUME FileAssumption ==
  /\ ALT_MAX_FD \in Nat /\ ALT_MAX_FD > 3
  /\ Free \notin Driver
  /\ alt_dev_null \notin Registrable /\ Device \cap FileSystem = {}
  /\ {"O_RDONLY", "O_WRONLY"} \subseteq Access
  /\ "none" \in Status

VARIABLES
  alt_fd_list, alt_max_fd,
  alt_dev_list, alt_fs_list,
  pc,               \* how far alt_main has come
  held              \* history: what the program asked of each descriptor it holds

vars == <<alt_fd_list, alt_max_fd, alt_dev_list, alt_fs_list, pc, held>>

FD == 0 .. ALT_MAX_FD - 1
STDIN_FILENO  == 0
STDOUT_FILENO == 1
STDERR_FILENO == 2
Standard == {STDIN_FILENO, STDOUT_FILENO, STDERR_FILENO}

\* fd_flags, taken apart: access mode, O_APPEND and O_NONBLOCK, ALT_FD_EXCL,
\* ALT_FD_DEV.
Flags == [access : Access, status : Status, excl : BOOLEAN, dev : BOOLEAN]
Request == [dev : Driver, access : Access]
NotHeld == [dev |-> Free, access |-> "O_RDONLY"]

Zero == [access |-> "O_RDONLY", status |-> "none", excl |-> FALSE, dev |-> FALSE]
Unused == [dev |-> Free, fd_flags |-> Zero]

-----------------------------------------------------------------------------
\* Both lists are searched from the newest entry.  A device is found by its
\* exact name, a file system by a prefix that ends at a component.
First(list, hits) == IF hits = {} THEN Free ELSE list[Min(hits)]

alt_find_dev(name) ==
  First(alt_dev_list, {k \in DOMAIN alt_dev_list : Path[alt_dev_list[k]] = name})
alt_find_file(name) ==
  First(alt_fs_list, {k \in DOMAIN alt_fs_list : IsPrefix(Path[alt_fs_list[k]], name)})

Find(name) == IF alt_find_dev(name) # Free THEN alt_find_dev(name) ELSE alt_find_file(name)
IsDevice(name) == alt_find_dev(name) # Free

Vacant == {i \in FD : alt_fd_list[i].dev = Free}

\* Bugs: a descriptor keeps its device; every descriptor is given back.
MutRelease(list, i) == IF i > 2 THEN [list EXCEPT ![i].fd_flags = Zero] ELSE list
MutReleaseAny(list, i) == [list EXCEPT ![i] = Unused]

\* The standard descriptors are never given back.
alt_release_fd(list, i) == IF i > 2 THEN [list EXCEPT ![i] = Unused] ELSE list

\* Bug: a mark one too high.
MutMark == Min(Vacant) + 1

\* get_fd takes the lowest vacant descriptor and raises the high-water mark.
Allocates(name) == Find(name) # Free /\ Vacant # {}
alt_get_fd == Min(Vacant)
Mark == IF alt_get_fd > alt_max_fd THEN alt_get_fd ELSE alt_max_fd

Allocated(name, flags) ==
  [alt_fd_list EXCEPT ![alt_get_fd] =
     [dev |-> Find(name),
      fd_flags |-> [Zero EXCEPT !.access = flags.access, !.status = flags.status,
                                !.dev = IsDevice(name)]]]

\* Bug: the search leaves out the descriptor at the mark.
MutFileLocked(name) ==
  \E j \in FD : /\ j < Mark
                /\ alt_fd_list[j].dev = Find(name) /\ alt_fd_list[j].fd_flags.excl

\* The search goes up to the mark that get_fd has just raised; the descriptor
\* that is being opened holds no lock.
alt_file_locked(name) ==
  \E j \in FD : /\ j <= Mark
                /\ alt_fd_list[j].dev = Find(name) /\ alt_fd_list[j].fd_flags.excl

OpenSucceeds(name) == Allocates(name) /\ (IsDevice(name) => ~alt_file_locked(name))

OpenFails(name) ==
  Allocates(name) => \/ IsDevice(name) /\ alt_file_locked(name)
                     \/ Find(name) \in MayFail

\* The error path of open(): what was allocated is given back.
ALT_OPEN_failed(name, flags) ==
  IF Allocates(name)
  THEN /\ alt_fd_list' = alt_release_fd(Allocated(name, flags), alt_get_fd)
       /\ alt_max_fd' = Mark
  ELSE UNCHANGED <<alt_fd_list, alt_max_fd>>

-----------------------------------------------------------------------------
\* Start-up: alt_sys_init() registers what there is, then the standard
\* streams are redirected from /dev/null one after the other.

Init ==
  /\ alt_fd_list = [i \in FD |-> IF i \in Standard THEN [Unused EXCEPT !.dev = alt_dev_null]
                                 ELSE Unused]
  /\ alt_max_fd = -1
  /\ alt_dev_list = <<alt_dev_null>> /\ alt_fs_list = << >>
  /\ pc = "alt_sys_init"
  /\ held = [i \in FD |-> NotHeld]

alt_dev_reg(d) ==
  /\ pc = "alt_sys_init" /\ d \notin Range(alt_dev_list)
  /\ alt_dev_list' = <<d>> \o alt_dev_list
  /\ UNCHANGED <<alt_fd_list, alt_max_fd, alt_fs_list, pc, held>>

alt_fs_reg(f) ==
  /\ pc = "alt_sys_init" /\ f \notin Range(alt_fs_list)
  /\ alt_fs_list' = <<f>> \o alt_fs_list
  /\ UNCHANGED <<alt_fd_list, alt_max_fd, alt_dev_list, pc, held>>

SysInitDone ==
  /\ pc = "alt_sys_init" /\ pc' = "stdout"
  /\ UNCHANGED <<alt_fd_list, alt_max_fd, alt_dev_list, alt_fs_list, held>>

\* The order of alt_io_redirect().
Redirected(at) == CASE at = "stdout" -> STDOUT_FILENO
                    [] at = "stdin"  -> STDIN_FILENO
                    [] at = "stderr" -> STDERR_FILENO

After(at) == CASE at = "stdout" -> "stdin" [] at = "stdin" -> "stderr" [] at = "stderr" -> "main"

StdFlags(i) == [access |-> IF i = STDIN_FILENO THEN "O_RDONLY" ELSE "O_WRONLY",
                status |-> "none"]

\* alt_open_fd: the stream gets a copy of the descriptor that was opened.
Moved(list, from, to) == alt_release_fd([list EXCEPT ![to] = list[from]], from)

alt_open_fd ==
  /\ pc \in {"stdout", "stdin", "stderr"}
  /\ pc' = After(pc)
  /\ LET i == Redirected(pc) IN
     \/ /\ OpenSucceeds(StdName[i])
        /\ alt_fd_list' = Moved(Allocated(StdName[i], StdFlags(i)), alt_get_fd, i)
        /\ alt_max_fd' = Mark
     \/ OpenFails(StdName[i]) /\ ALT_OPEN_failed(StdName[i], StdFlags(i))
  /\ UNCHANGED <<alt_dev_list, alt_fs_list, held>>

-----------------------------------------------------------------------------
\* The program.  It uses the standard descriptors and those open() gave it; of
\* a descriptor that was closed or never opened no code checks anything.
Usable == {i \in FD : i \in Standard \/ held[i] # NotHeld}

InMain == pc = "main" /\ UNCHANGED <<pc, alt_dev_list, alt_fs_list>>

ALT_OPEN(name, flags) ==
  /\ InMain /\ OpenSucceeds(name)
  /\ alt_fd_list' = Allocated(name, flags)
  /\ alt_max_fd' = Mark
  /\ held' = [held EXCEPT ![alt_get_fd] = [dev |-> Find(name), access |-> flags.access]]

OpenError(name, flags) ==
  /\ InMain /\ OpenFails(name)
  /\ ALT_OPEN_failed(name, flags)
  /\ UNCHANGED held

\* Whatever the driver's close() answers, the descriptor is given back.
ALT_CLOSE(i) ==
  /\ InMain /\ i \in Usable
  /\ alt_fd_list' = alt_release_fd(alt_fd_list, i)
  /\ held' = [held EXCEPT ![i] = NotHeld]
  /\ UNCHANGED alt_max_fd

\* Bug: nobody is asked.
MutFdLock(i) == alt_fd_list[i].fd_flags.dev

\* The search of alt_fd_lock() ends before the mark.
LockGranted(i) ==
  \A j \in FD : j < alt_max_fd /\ j # i => alt_fd_list[j].dev # alt_fd_list[i].dev

\* TIOCEXCL; of a file system it is passed on to the driver.
alt_fd_lock(i) ==
  /\ InMain /\ i \in Usable /\ alt_fd_list[i].fd_flags.dev
  /\ LockGranted(i)
  /\ alt_fd_list' = [alt_fd_list EXCEPT ![i].fd_flags.excl = TRUE]
  /\ UNCHANGED <<alt_max_fd, held>>

\* TIOCNXCL
alt_fd_unlock(i) ==
  /\ InMain /\ i \in Usable /\ alt_fd_list[i].fd_flags.dev
  /\ alt_fd_list' = [alt_fd_list EXCEPT ![i].fd_flags.excl = FALSE]
  /\ UNCHANGED <<alt_max_fd, held>>

SetFlags(fd_flags, status) == [fd_flags EXCEPT !.status = status]

\* F_SETFL
ALT_FCNTL(i, status) ==
  /\ InMain /\ i \in Usable
  /\ alt_fd_list' = [alt_fd_list EXCEPT ![i].fd_flags = SetFlags(@, status)]
  /\ UNCHANGED <<alt_max_fd, held>>

\* main() returns: alt_main closes stdout, which gives nothing back, and exit()
\* never returns.
MainReturns ==
  /\ pc = "main" /\ pc' = "exit"
  /\ alt_fd_list' = alt_release_fd(alt_fd_list, STDOUT_FILENO)
  /\ UNCHANGED <<alt_max_fd, alt_dev_list, alt_fs_list, held>>

ALT_EXIT == pc = "exit" /\ UNCHANGED vars

OpenFlags == [access : Access, status : Status]

Next ==
  \/ \E d \in Device : alt_dev_reg(d)
  \/ \E f \in FileSystem : alt_fs_reg(f)
  \/ SysInitDone
  \/ alt_open_fd
  \/ \E name \in Name, flags \in OpenFlags : ALT_OPEN(name, flags) \/ OpenError(name, flags)
  \/ \E i \in FD : ALT_CLOSE(i) \/ alt_fd_lock(i) \/ alt_fd_unlock(i)
  \/ \E i \in FD, status \in Status : ALT_FCNTL(i, status)
  \/ MainReturns
  \/ ALT_EXIT

Spec == Init /\ [][Next]_vars

-----------------------------------------------------------------------------
TypeOK ==
  /\ alt_fd_list \in [FD -> [dev : Driver \cup {Free}, fd_flags : Flags]]
  /\ alt_max_fd \in -1 .. ALT_MAX_FD - 1
  /\ alt_dev_list \in Seq(Device \cup {alt_dev_null}) /\ alt_fs_list \in Seq(FileSystem)
  /\ pc \in {"alt_sys_init", "stdout", "stdin", "stderr", "main", "exit"}
  /\ held \in [FD -> Request \cup {NotHeld}]

\* No descriptor leaks and none is taken away: outside the standard streams the
\* pool holds exactly what open() returned and close() did not take back, each
\* with the device and the access mode it was opened with; failing callbacks,
\* redirections and fcntl() do not disturb this.
PoolMatchesHeld ==
  \A i \in FD \ Standard :
    IF held[i] = NotHeld THEN alt_fd_list[i] = Unused
    ELSE /\ alt_fd_list[i].dev = held[i].dev
         /\ alt_fd_list[i].fd_flags.access = held[i].access

\* The standard streams always have a device, /dev/null or the one chosen for
\* them with the right access mode, whether or not it could be opened, and even
\* after the program has closed them.
StandardStreams ==
  \A i \in Standard :
    \/ alt_fd_list[i].dev = alt_dev_null
    \/ /\ alt_fd_list[i].dev = Find(StdName[i])
       /\ alt_fd_list[i].fd_flags.access = StdFlags(i).access

\* No device is locked by two descriptors, although alt_fd_lock() does not look
\* at the descriptor at the mark.
OneHolder ==
  \A i, j \in FD :
    /\ alt_fd_list[i].fd_flags.excl /\ alt_fd_list[j].fd_flags.excl
    /\ alt_fd_list[i].dev = alt_fd_list[j].dev
    => i = j

\* Exclusive access as the layer really grants it, once main() runs: nobody
\* opens a locked device.
Locks == INSTANCE DeviceLocks WITH
  Device <- Driver,
  user <- [i \in FD |-> alt_fd_list[i].dev],
  locked <- {i \in FD : alt_fd_list[i].fd_flags.excl}
ImplementsLocks == Locks!Spec

\* "If there are no other open file descriptors which reference the same
\* device, then alt_fd_lock() will grant the lock" (alt_fd_lock.c, lines 43 to
\* 44): whoever gets the lock is the only user of its device.
LockMeansAlone ==
  [][\A i \in FD :
       alt_fd_list'[i].fd_flags.excl /\ ~alt_fd_list[i].fd_flags.excl =>
         \A j \in FD : j # i => alt_fd_list[j].dev # alt_fd_list[i].dev]_vars
=============================================================================
