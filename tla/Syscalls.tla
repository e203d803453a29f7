-------------------------------- MODULE Syscalls --------------------------------
(***************************************************************************)
(* System calls of the emulated program: the wrappers of                   *)
(* apl/include/athrill_syscall.h, which store the address of their         *)
(* arguments in a word of memory and read the answer back, the device of   *)
(* athrill_device.c that looks at this word on every clock, and the        *)
(* handlers of athrill_syscall_device.c.  The heap's calls are in Memory.  *)
(*                                                                         *)
(* A clock is one call of device_supply_clock_athrill_device and then      *)
(* BatchLen instructions of every core; nothing else makes a core wait for *)
(* the answer.  The host gives the lowest free descriptor.                 *)
(***************************************************************************)
EXTENDS Integers, Sequences, FiniteSets

CONSTANTS N,             \* cores, 1 .. N, that execute in this order
          BatchLen,      \* instructions of a core between two clocks of the device
          MaxFd,         \* bound: descriptors the host gives, 1 .. MaxFd
          DirMax,        \* entries of dir_table
          Apis,          \* the calls the program makes
          Coordinated    \* whether the program has one call outstanding at a time

ASSUME SyscallsAssumption ==
    /\ N \in Nat \ {0} /\ BatchLen \in Nat \ {0}
    /\ MaxFd \in Nat /\ DirMax \in Nat
    /\ Coordinated \in BOOLEAN

VARIABLES
    turn,              \* 0 for the device, c for core c
    steps,             \* instructions of core turn since its turn began
    word,              \* athrill_device_func_call: the arguments of a core, an MMAP address, or 0
    raise,             \* athrill_device_raise_interrupt
    calls,              \* the arguments on each core's stack
    fd, special,       \* what each descriptor of the host is, special_fd_table
    dir,               \* dir_table: is_used, and its DIR: none, open, or lost in a failed closedir
    top,               \* virtual_file_top is set
    isLocked, holder,  \* the MMAP file: isLocked, and who holds the host's lock
    running,           \* FALSE after exit() or a failed ASSERT
    fds, dirs, locked  \* the program: descriptors and directories it has, whether it thinks it locked the file

host == <<fd, special, dir, top>>
lock == <<isLocked, holder>>
program == <<fds, dirs, locked>>
syscallVars == <<turn, steps, word, raise, calls, host, lock, running, program>>

Cores == 1 .. N
Fds == 1 .. MaxFd
Dirs == 1 .. DirMax
NoCall == [api |-> "none", arg |-> 0, ret |-> 0, served |-> "no"]
NoWord == [to |-> "none", core |-> 0]
Lowest(S) == {x \in S : \A y \in S : x <= y}

INVAL == -22
EAGAIN == -11
E_PAR == -17
E_ID == -18
E_OBJ == -41
E_SYS == -5
Errno == -2   \* any other errno

SyscallsInit ==
    /\ turn = 0 /\ steps = 0 /\ word = NoWord /\ raise = FALSE /\ calls = [c \in Cores |-> NoCall]
    /\ fd = [f \in Fds |-> "none"] /\ special = [f \in Fds |-> 0]
    /\ dir = [d \in Dirs |-> [is_used |-> FALSE, stream |-> "none"]] /\ top = FALSE
    /\ isLocked = FALSE /\ holder = "none" /\ running = TRUE
    /\ fds = {} /\ dirs = {} /\ locked = FALSE

-----------------------------------------------------------------------------
(* The ids of the calls, in the header and in the device.                   *)

\* AthrillSyscallApiIdType, the ids of the wrappers.
ApiIds ==
    <<"none", "socket", "sense", "bind", "listen", "accept", "connect", "select", "send",
      "recv", "shutdown", "system", "malloc", "calloc", "realloc", "free", "open", "read",
      "write", "close", "lseek", "virtfs", "opendir", "readdir", "closedir", "serial_open",
      "exit", "intpri", "reset_time", "show_time">>
SYS_API_ID_NUM == Len(ApiIds)
Id(api) == (CHOOSE i \in DOMAIN ApiIds : ApiIds[i] = api) - 1

\* The handlers, by id.
syscall_table ==
    <<"none", "socket", "sense", "bind", "listen", "accept", "connect", "select", "send",
      "recv", "shutdown", "system", "malloc", "calloc", "realloc", "free", "open", "read",
      "write", "close", "lseek", "virtfs", "opendir", "readdir", "closedir", "serial_open",
      "exit", "intpri", "reset_time", "show_time">>

-----------------------------------------------------------------------------
(* The handlers.  Each answers the call of core c; a pointer outside of      *)
(* memory leaves the value the wrapper has set.                             *)

Answer(c, r) == calls' = [calls EXCEPT ![c].ret = r, ![c].served = syscall_table[Id(calls[c].api) + 1]]
BadPointer(c) == Answer(c, calls[c].ret) /\ UNCHANGED host
Result(c, rets) == (\E r \in rets : Answer(c, r)) /\ UNCHANGED host

Free == {f \in Fds : fd[f] = "none"}
OpenFd(f, kind) == fd' = [fd EXCEPT ![f] = kind]
Opens(c, kind) ==
    /\ \E f \in Lowest(Free) : OpenFd(f, kind) /\ Answer(c, f)
    /\ UNCHANGED <<special, dir, top>>

athrill_syscall_none(c) == Result(c, {calls[c].ret})
athrill_syscall_socket(c) == Opens(c, "socket") \/ Result(c, {calls[c].ret})
athrill_syscall_sense(c) == Result(c, {0, EAGAIN, Errno})
athrill_syscall_bind(c) == BadPointer(c) \/ Result(c, {0, Errno})
athrill_syscall_listen(c) == Result(c, {0, Errno})
athrill_syscall_accept(c) == BadPointer(c) \/ Opens(c, "socket") \/ Result(c, {EAGAIN, Errno})
athrill_syscall_connect(c) == BadPointer(c) \/ Result(c, {0, Errno})

\* The three sets come back with what is ready; the answer counts their members.
fd_set_copy(ready) == Cardinality(ready)
athrill_syscall_select(c) == BadPointer(c) \/ Result(c, {Errno} \cup {fd_set_copy(ready) : ready \in SUBSET fds})

\* -errno is overwritten by the -1 of the host's call.
athrill_syscall_send(c) == BadPointer(c) \/ Result(c, {-1, 0, 1})
athrill_syscall_recv(c) == BadPointer(c) \/ Result(c, {-1, 0, 1})

\* Only the descriptor: an entry of special_fd_table would stay.
athrill_syscall_shutdown(c) ==
    /\ fd' = [f \in Fds |-> IF f = calls[c].arg THEN "none" ELSE fd[f]]
    /\ Answer(c, 0) /\ UNCHANGED <<special, dir, top>>

athrill_syscall_system(c) == Result(c, {calls[c].ret, 0})

\* getVirtualFileName: the directory is chosen by the first call that needs it.
getVirtualFileName == top' = TRUE

athrill_syscall_open_r(c) ==
    /\ getVirtualFileName
    /\ \/ \E f \in Lowest(Free) : OpenFd(f, "file") /\ Answer(c, f)
       \/ Answer(c, -1) /\ UNCHANGED fd
    /\ UNCHANGED <<special, dir>>

get_correspond_fd(f) == IF special[f] # 0 THEN special[f] ELSE f
is_stream_fd(f) == get_correspond_fd(f) # f

\* The end of a stream, and a host error, are both -1.
athrill_syscall_read_r(c) == BadPointer(c) \/ Result(c, IF is_stream_fd(calls[c].arg) THEN {-1, 1} ELSE {-1, 0, 1})
athrill_syscall_write_r(c) ==
    BadPointer(c) \/ Result(c, IF get_correspond_fd(calls[c].arg) \in Fds THEN {-1, 1} ELSE {-1})

\* Mutant: the other end of a stream is not closed.
athrill_syscall_close_r_OneEnd(c) ==
    LET f == calls[c].arg
    IN  /\ fd' = [g \in Fds |-> IF g = f THEN "none" ELSE fd[g]]
        /\ special' = [special EXCEPT ![f] = 0]
        /\ Answer(c, IF fd[f] = "none" THEN -1 ELSE 0) /\ UNCHANGED <<dir, top>>

athrill_syscall_close_r(c) ==
    LET f == calls[c].arg
    IN  /\ fd' = [g \in Fds |-> IF g \in {f, get_correspond_fd(f)} THEN "none" ELSE fd[g]]
        /\ special' = [special EXCEPT ![f] = 0]
        /\ Answer(c, IF fd[f] = "none" THEN -1 ELSE 0) /\ UNCHANGED <<dir, top>>

athrill_syscall_lseek_r(c) == Result(c, {-1, 0, 1})
athrill_syscall_set_virtfs_top(c) ==
    \/ top /\ Result(c, {-1})
    \/ ~top /\ \E ok \in BOOLEAN : top' = ok /\ Answer(c, IF ok THEN 0 ELSE -1) /\ UNCHANGED <<fd, special, dir>>

\* get_free_dir, release_dir.  Without a free entry only ret_value says so, and
\* the wrapper returns the dirid of the arguments.
athrill_syscall_ev3_opendir(c) ==
    LET free == {d \in Dirs : ~dir[d].is_used}
    IN  IF free = {} THEN Result(c, {calls[c].ret})
        ELSE \E d \in Lowest(free), ok \in BOOLEAN :
                /\ dir' = [dir EXCEPT ![d] = [is_used |-> ok, stream |-> IF ok THEN "open" ELSE "none"]]
                /\ Answer(c, IF ok THEN d ELSE E_PAR) /\ getVirtualFileName /\ UNCHANGED <<fd, special>>

\* GETDIR looks at the range of the id only.  A closedir that the host fails
\* leaves the entry in use, and the host has released its DIR.
GETDIR(dirid) == dirid \in Dirs
athrill_syscall_ev3_readdir(c) == Result(c, IF GETDIR(calls[c].arg) THEN {0, E_OBJ, E_SYS, E_ID} ELSE {E_ID})
athrill_syscall_ev3_closedir(c) ==
    LET d == calls[c].arg
    IN  IF ~GETDIR(d) THEN Result(c, {E_ID})
        ELSE /\ \/ dir' = [dir EXCEPT ![d] = [is_used |-> FALSE, stream |-> "none"]] /\ Answer(c, 0)
                \/ dir' = [dir EXCEPT ![d].stream = "lost"] /\ Answer(c, E_ID)
             /\ UNCHANGED <<fd, special, top>>

\* create_pipe: a descriptor the host has, or -1.
create_pipe(free) == {-1} \cup Lowest(free)

\* create_pipe_pair: set_correspond_fd asserts that the read end was opened.
create_pipe_pair(c) ==
    \E fd_out \in create_pipe(Free) : \E fd_in \in create_pipe(Free \ {fd_out}) :
       /\ fd' = [f \in Fds |-> IF f = fd_out THEN "tx" ELSE IF f = fd_in THEN "rx" ELSE fd[f]]
       /\ UNCHANGED <<dir, top>>
       /\ IF fd_in = -1 THEN running' = FALSE /\ UNCHANGED <<special, calls>>
          ELSE special' = [special EXCEPT ![fd_in] = fd_out] /\ Answer(c, fd_in) /\ UNCHANGED running

\* Ports 0 to 2 are SYS_SERIAL_DEFAULT, UART and BT.
athrill_syscall_ev3_serial_open(c) ==
    IF calls[c].arg \in {1, 2} THEN create_pipe_pair(c)
    ELSE Result(c, {IF calls[c].arg = 0 THEN 0 ELSE -1}) /\ UNCHANGED running

athrill_syscall_exit(c) == running' = FALSE /\ UNCHANGED <<calls, host>>

\* Effects outside of this model: interrupt masks, and a printed time.
athrill_syscall_v850_set_intpri(c) == Result(c, {calls[c].ret})
athrill_syscall_reset_time(c) == Result(c, {calls[c].ret})
athrill_syscall_show_time(c) == Result(c, {calls[c].ret})

\* The calls of Memory have no handler here.
Handler(c, name) ==
    \/ name = "serial_open" /\ athrill_syscall_ev3_serial_open(c)
    \/ name = "exit" /\ athrill_syscall_exit(c)
    \/ /\ UNCHANGED running
       /\ CASE name = "none" -> athrill_syscall_none(c)
            [] name = "socket" -> athrill_syscall_socket(c)
            [] name = "sense" -> athrill_syscall_sense(c)
            [] name = "bind" -> athrill_syscall_bind(c)
            [] name = "listen" -> athrill_syscall_listen(c)
            [] name = "accept" -> athrill_syscall_accept(c)
            [] name = "connect" -> athrill_syscall_connect(c)
            [] name = "select" -> athrill_syscall_select(c)
            [] name = "send" -> athrill_syscall_send(c)
            [] name = "recv" -> athrill_syscall_recv(c)
            [] name = "shutdown" -> athrill_syscall_shutdown(c)
            [] name = "system" -> athrill_syscall_system(c)
            [] name = "open" -> athrill_syscall_open_r(c)
            [] name = "read" -> athrill_syscall_read_r(c)
            [] name = "write" -> athrill_syscall_write_r(c)
            [] name = "close" -> athrill_syscall_close_r(c)
            [] name = "lseek" -> athrill_syscall_lseek_r(c)
            [] name = "virtfs" -> athrill_syscall_set_virtfs_top(c)
            [] name = "opendir" -> athrill_syscall_ev3_opendir(c)
            [] name = "readdir" -> athrill_syscall_ev3_readdir(c)
            [] name = "closedir" -> athrill_syscall_ev3_closedir(c)
            [] name = "intpri" -> athrill_syscall_v850_set_intpri(c)
            [] name = "reset_time" -> athrill_syscall_reset_time(c)
            [] name = "show_time" -> athrill_syscall_show_time(c)
            [] OTHER -> FALSE

-----------------------------------------------------------------------------
(* The device.                                                              *)

athrill_syscall_device(c) ==
    IF Id(calls[c].api) >= SYS_API_ID_NUM THEN UNCHANGED <<calls, host, running>>
    ELSE Handler(c, syscall_table[Id(calls[c].api) + 1])

\* A word that is the address of an MMAP region locks or unlocks its file; a
\* lock that another process holds stops the emulator until it is released.
LockFile ==
    /\ IF isLocked THEN holder' = "none" ELSE holder = "none" /\ holder' = "self"
    /\ isLocked' = ~isLocked
    /\ calls' = [calls EXCEPT ![word.core].served = "lock"]
    /\ UNCHANGED <<host, running>>

do_athrill_device_func_call ==
    \/ word.to = "none" /\ UNCHANGED <<word, calls, host, lock, running>>
    \/ word.to = "args" /\ athrill_syscall_device(word.core) /\ word' = NoWord /\ UNCHANGED lock
    \/ word.to = "mmap" /\ LockFile /\ word' = NoWord

do_athrill_device_external_raise_interrupt == raise' = FALSE

device_supply_clock_athrill_device ==
    /\ running /\ turn = 0
    /\ do_athrill_device_func_call /\ do_athrill_device_external_raise_interrupt
    /\ turn' = 1 /\ steps' = 0
    /\ UNCHANGED program

\* Another process that maps the file (external).
OtherProcess ==
    /\ \/ holder = "none" /\ holder' = "other"
       \/ holder = "other" /\ holder' = "none"
    /\ UNCHANGED <<turn, steps, word, raise, calls, host, isLocked, running, program>>

-----------------------------------------------------------------------------
(* The program, one instruction of core c.  A wrapper sets the value it      *)
(* returns if the call is not answered, and stores the word.                *)

Instruction(c) ==
    /\ running /\ turn = c
    /\ IF steps + 1 < BatchLen THEN steps' = steps + 1 /\ UNCHANGED turn
       ELSE steps' = 0 /\ turn' = (c + 1) % (N + 1)
    /\ UNCHANGED <<host, lock, running>>

MayCall(c, api) == api \in Apis /\ calls[c] = NoCall /\ (Coordinated => \A d \in Cores : calls[d] = NoCall)
ATHRILL_SYSCALL(c, api, arg, ret) ==
    /\ MayCall(c, api) /\ Instruction(c)
    /\ calls' = [calls EXCEPT ![c] = [api |-> api, arg |-> arg, ret |-> ret, served |-> "no"]]
    /\ word' = [to |-> "args", core |-> c] /\ UNCHANGED <<raise, locked>>
Keeps == UNCHANGED <<fds, dirs>>

athrill_posix_socket(c) == ATHRILL_SYSCALL(c, "socket", 0, INVAL) /\ Keeps
athrill_posix_sense(c, f) == ATHRILL_SYSCALL(c, "sense", f, INVAL) /\ Keeps
athrill_posix_bind(c, f) == ATHRILL_SYSCALL(c, "bind", f, INVAL) /\ Keeps
athrill_posix_listen(c, f) == ATHRILL_SYSCALL(c, "listen", f, INVAL) /\ Keeps
athrill_posix_accept(c, f) == ATHRILL_SYSCALL(c, "accept", f, INVAL) /\ Keeps
athrill_posix_connect(c, f) == ATHRILL_SYSCALL(c, "connect", f, INVAL) /\ Keeps
athrill_posix_select(c) == ATHRILL_SYSCALL(c, "select", 0, INVAL) /\ Keeps
athrill_posix_send(c, f) == ATHRILL_SYSCALL(c, "send", f, INVAL) /\ Keeps
athrill_posix_recv(c, f) == ATHRILL_SYSCALL(c, "recv", f, INVAL) /\ Keeps
athrill_posix_shutdown(c, f) == ATHRILL_SYSCALL(c, "shutdown", f, INVAL) /\ fds' = fds \ {f} /\ UNCHANGED dirs
athrill_posix_system(c) == ATHRILL_SYSCALL(c, "system", 0, INVAL) /\ Keeps
athrill_newlib_open_r(c) == ATHRILL_SYSCALL(c, "open", 0, -1) /\ Keeps
athrill_newlib_read_r(c, f) == ATHRILL_SYSCALL(c, "read", f, -1) /\ Keeps
athrill_newlib_write_r(c, f) == ATHRILL_SYSCALL(c, "write", f, -1) /\ Keeps
athrill_newlib_close_r(c, f) == ATHRILL_SYSCALL(c, "close", f, -1) /\ fds' = fds \ {f} /\ UNCHANGED dirs
athrill_newlib_lseek_r(c, f) == ATHRILL_SYSCALL(c, "lseek", f, -1) /\ Keeps
athrill_set_virtfs_top(c) == ATHRILL_SYSCALL(c, "virtfs", 0, 0) /\ Keeps

\* The dirid that opendir returns is not initialized: -1 stands for any value
\* that is no entry of the table.
athrill_ev3_opendir(c) == (\E garbage \in {-1} \cup Dirs : ATHRILL_SYSCALL(c, "opendir", 0, garbage)) /\ Keeps
athrill_ev3_readdir(c, d) == ATHRILL_SYSCALL(c, "readdir", d, 0) /\ Keeps
athrill_ev3_closedir(c, d) == ATHRILL_SYSCALL(c, "closedir", d, 0) /\ dirs' = dirs \ {d} /\ UNCHANGED fds
athrill_ev3_serial_open(c, port) == ATHRILL_SYSCALL(c, "serial_open", port, 0) /\ Keeps
athrill_posix_exit(c) == ATHRILL_SYSCALL(c, "exit", 0, INVAL) /\ Keeps
athrill_v850_set_intpri(c) == ATHRILL_SYSCALL(c, "intpri", 0, 0) /\ Keeps
athrill_reset_time(c) == ATHRILL_SYSCALL(c, "reset_time", 0, 0) /\ Keeps
athrill_show_time(c) == ATHRILL_SYSCALL(c, "show_time", 0, 0) /\ Keeps

\* The program stores the address of the MMAP region to lock or unlock it.
Lock(c) ==
    /\ MayCall(c, "lock") /\ Instruction(c)
    /\ calls' = [calls EXCEPT ![c] = [api |-> "lock", arg |-> 0, ret |-> 0, served |-> "no"]]
    /\ word' = [to |-> "mmap", core |-> c] /\ UNCHANGED <<raise, program>>

RaiseInterrupt(c) == Instruction(c) /\ raise' = TRUE /\ UNCHANGED <<word, calls, program>>
Other(c) == Instruction(c) /\ UNCHANGED <<word, raise, calls, program>>

\* The wrapper reads its arguments back.
Returns(c) ==
    /\ calls[c] # NoCall /\ Instruction(c)
    /\ fds' = IF calls[c].api \in {"socket", "accept", "open", "serial_open"} /\ calls[c].ret > 0
              THEN fds \cup {calls[c].ret} ELSE fds
    /\ dirs' = IF calls[c].api = "opendir" /\ calls[c].ret > 0 THEN dirs \cup {calls[c].ret} ELSE dirs
    /\ locked' = IF calls[c].api = "lock" THEN ~locked ELSE locked
    /\ calls' = [calls EXCEPT ![c] = NoCall]
    /\ UNCHANGED <<word, raise>>

Sockets == {f \in fds : fd[f] = "socket"}

\* The scope of the program: it uses descriptors and directories it was given,
\* and shuts down only sockets.
SyscallsNext ==
    \/ device_supply_clock_athrill_device \/ OtherProcess
    \/ \E c \in Cores :
          \/ Other(c) \/ RaiseInterrupt(c) \/ Lock(c) \/ Returns(c)
          \/ athrill_posix_socket(c) \/ athrill_posix_select(c) \/ athrill_posix_system(c)
          \/ athrill_newlib_open_r(c) \/ athrill_set_virtfs_top(c)
          \/ athrill_ev3_opendir(c)
          \/ athrill_posix_exit(c) \/ athrill_v850_set_intpri(c) \/ athrill_reset_time(c) \/ athrill_show_time(c)
          \/ \E port \in 0 .. 3 : athrill_ev3_serial_open(c, port)
          \/ \E f \in Sockets :
                \/ athrill_posix_sense(c, f) \/ athrill_posix_bind(c, f) \/ athrill_posix_listen(c, f)
                \/ athrill_posix_accept(c, f) \/ athrill_posix_connect(c, f) \/ athrill_posix_send(c, f)
                \/ athrill_posix_recv(c, f) \/ athrill_posix_shutdown(c, f)
          \/ \E f \in fds :
                \/ athrill_newlib_read_r(c, f) \/ athrill_newlib_write_r(c, f)
                \/ athrill_newlib_close_r(c, f) \/ athrill_newlib_lseek_r(c, f)
          \/ \E d \in dirs : athrill_ev3_readdir(c, d) \/ athrill_ev3_closedir(c, d)

SyscallsSpec == SyscallsInit /\ [][SyscallsNext]_syscallVars

-----------------------------------------------------------------------------
(* Properties.                                                              *)

\* A wrapper never returns before the device has served its call, and it was
\* served by the handler of that call.  athrill_syscall waits for nothing, so the
\* device's clock must come between the store of the word and the return; the
\* comment of cpuemu.cpp:290-291 promises batches "the same clocks and events as
\* one tick per clock".
CallsServed == \A c \in Cores : running /\ turn = c /\ calls[c] # NoCall => calls[c].served = calls[c].api

\* special_fd_table joins the two open ends of a serial port, no write end is
\* left without its read end, and a descriptor the program was given and has not
\* closed is open.  An entry of dir_table is in use exactly while its DIR is open
\* or was lost in a failed closedir, and an id of the program names an entry in
\* use: possibly not the one it asked for, since opendir on a full table leaves
\* the wrapper's dirid as it was.
HandlesSound ==
    running =>
    /\ \A f \in Fds : special[f] # 0 => fd[f] = "rx" /\ special[f] \in {-1} \cup {g \in Fds : fd[g] = "tx"}
    /\ \A f \in Fds : fd[f] = "tx" => \E g \in Fds : {h \in Fds : special[h] = f} = {g}
    /\ \A f \in fds : fd[f] \in {"socket", "file", "rx"}
    /\ \A d \in Dirs : dir[d].is_used = (dir[d].stream # "none")
    /\ \A d \in dirs : dir[d].is_used

\* While no call is outstanding the program's view of the lock is the host's:
\* it holds the file's lock when it thinks it does, and never otherwise.
LockHeld ==
    (\A c \in Cores : calls[c] = NoCall) => locked = isLocked /\ isLocked = (holder = "self")

\* Descriptors, directories and the lock.
ResourcesSound == HandlesSound /\ LockHeld
=============================================================================
