------------------------------ MODULE SyscallsProofs ------------------------------
(***************************************************************************)
(* What calls do to the lock and to the descriptors, for any number of     *)
(* cores, where calls are answered before they return: with one            *)
(* instruction per clock, the core's fallback for DEBUG_FUNC_MAX_BATCH_    *)
(* CLOCKS, and a program that has one call outstanding at a time.  CallInv *)
(* says where a call can then be: answered, or in the word of the device   *)
(* with the device's turn before that of its core.  With batches it fails  *)
(* (the run calls_batched).                                                *)
(*                                                                         *)
(* The program's view of the file lock is the host's.                      *)
(*                                                                         *)
(* The descriptors and the serial channels' halves the program believes it *)
(* has are the ones the host has open, and its directories are entries in  *)
(* use, for any number of them.  The invariant adds what an answer under   *)
(* way has already changed on the host and the program has not yet seen    *)
(* (Asks, Gives).                                                          *)
(***************************************************************************)
EXTENDS Syscalls, TLAPS

Handled == {ApiIds[i] : i \in DOMAIN ApiIds}

\* The calls the wrappers make.
Wrapped == {"socket", "sense", "bind", "listen", "accept", "connect", "select", "send", "recv",
            "shutdown", "system", "open", "read", "write", "close", "lseek", "virtfs", "opendir",
            "readdir", "closedir", "serial_open", "exit", "intpri", "reset_time", "show_time"}

Pending(c) ==
    /\ word.to = (IF calls[c].api = "lock" THEN "mmap" ELSE "args") /\ word.core = c
    /\ calls[c].served = "no"
    /\ turn = 0 \/ turn > c

CallInv ==
    /\ turn \in 0 .. N /\ steps = 0
    /\ word \in [to : {"none", "args", "mmap"}, core : 0 .. N]
    /\ DOMAIN calls = Cores /\ calls = [c \in Cores |-> calls[c]]
    /\ \A c \in Cores :
          /\ DOMAIN calls[c] = {"api", "arg", "ret", "served"}
          /\ calls[c].api \in Wrapped \cup {"none", "lock"}
          /\ calls[c].api = "none" => calls[c] = NoCall
    /\ \A c, d \in Cores : calls[c].api # "none" /\ calls[d].api # "none" => c = d
    /\ running =>
          /\ \A c \in Cores : calls[c].api # "none" => calls[c].served = calls[c].api \/ Pending(c)
          /\ word.to # "none" =>
                word.core \in Cores /\ calls[word.core].api # "none" /\ Pending(word.core)

\* The device's table has, at the id the header gives a call, the handler of that
\* call.
LEMMA TableExact ==
    ASSUME NEW api \in Handled
    PROVE  /\ Id(api) \in 0 .. SYS_API_ID_NUM - 1 /\ SYS_API_ID_NUM \in Nat
           /\ syscall_table[Id(api) + 1] = api
<1>1. PICK i \in DOMAIN ApiIds : ApiIds[i] = api
  BY Zenon DEF Handled
<1> DEFINE k == CHOOSE j \in DOMAIN ApiIds : ApiIds[j] = api
<1>2. k \in DOMAIN ApiIds /\ ApiIds[k] = api
  BY <1>1, Zenon
<1>3. syscall_table = ApiIds
  BY Zenon DEF syscall_table, ApiIds
<1>4. DOMAIN ApiIds = 1 .. SYS_API_ID_NUM /\ SYS_API_ID_NUM = 30
  BY DEF ApiIds, SYS_API_ID_NUM
<1>5. Id(api) = k - 1
  BY Zenon DEF Id
<1> HIDE DEF k
<1> QED
  BY <1>2, <1>3, <1>4, <1>5

\* Every wrapper uses an id of the table.
LEMMA WrappedAreHandled == Wrapped \subseteq Handled
<1>1. /\ ApiIds[2] = "socket" /\ ApiIds[3] = "sense" /\ ApiIds[4] = "bind" /\ ApiIds[5] = "listen"
      /\ ApiIds[6] = "accept" /\ ApiIds[7] = "connect" /\ ApiIds[8] = "select" /\ ApiIds[9] = "send"
      /\ ApiIds[10] = "recv" /\ ApiIds[11] = "shutdown" /\ ApiIds[12] = "system"
  BY Zenon DEF ApiIds
<1>2. /\ ApiIds[17] = "open" /\ ApiIds[18] = "read" /\ ApiIds[19] = "write" /\ ApiIds[20] = "close"
      /\ ApiIds[21] = "lseek" /\ ApiIds[22] = "virtfs" /\ ApiIds[23] = "opendir"
      /\ ApiIds[24] = "readdir" /\ ApiIds[25] = "closedir" /\ ApiIds[26] = "serial_open"
      /\ ApiIds[27] = "exit" /\ ApiIds[28] = "intpri" /\ ApiIds[29] = "reset_time"
      /\ ApiIds[30] = "show_time"
  BY Zenon DEF ApiIds
<1>3. DOMAIN ApiIds = 1 .. 30
  BY DEF ApiIds
<1>4. \A i \in 1 .. 30 : ApiIds[i] \in Handled
  BY <1>3, Zenon DEF Handled
<1> QED
  BY <1>1, <1>2, <1>4 DEF Wrapped

\* A handler answers its call, or the emulator ends.
LEMMA HandlerAnswers ==
    ASSUME NEW c, NEW name, Handler(c, name)
    PROVE  (running' = running /\ \E r : Answer(c, r)) \/ (running' = FALSE /\ calls' = calls)
<1> USE DEF Result, BadPointer, Opens
<1>1. /\ athrill_syscall_none(c) \/ athrill_syscall_socket(c) \/ athrill_syscall_sense(c)
         \/ athrill_syscall_bind(c) \/ athrill_syscall_listen(c) \/ athrill_syscall_accept(c)
         \/ athrill_syscall_connect(c) => \E r : Answer(c, r)
      /\ athrill_syscall_select(c) \/ athrill_syscall_send(c) \/ athrill_syscall_recv(c)
         \/ athrill_syscall_shutdown(c) \/ athrill_syscall_system(c)
         \/ athrill_syscall_open_r(c) \/ athrill_syscall_read_r(c) => \E r : Answer(c, r)
  BY Zenon DEF athrill_syscall_none, athrill_syscall_socket, athrill_syscall_sense,
         athrill_syscall_bind, athrill_syscall_listen, athrill_syscall_accept,
         athrill_syscall_connect, athrill_syscall_select, athrill_syscall_send,
         athrill_syscall_recv, athrill_syscall_shutdown, athrill_syscall_system,
         athrill_syscall_open_r, athrill_syscall_read_r
<1>2. athrill_syscall_write_r(c) \/ athrill_syscall_close_r(c) \/ athrill_syscall_lseek_r(c)
      \/ athrill_syscall_set_virtfs_top(c) \/ athrill_syscall_ev3_opendir(c)
      \/ athrill_syscall_ev3_readdir(c) \/ athrill_syscall_ev3_closedir(c) => \E r : Answer(c, r)
  BY Zenon DEF athrill_syscall_write_r, athrill_syscall_close_r, athrill_syscall_lseek_r,
         athrill_syscall_set_virtfs_top, athrill_syscall_ev3_opendir,
         athrill_syscall_ev3_readdir, athrill_syscall_ev3_closedir
<1>3. athrill_syscall_v850_set_intpri(c) \/ athrill_syscall_reset_time(c)
      \/ athrill_syscall_show_time(c) => \E r : Answer(c, r)
  BY Zenon DEF athrill_syscall_v850_set_intpri, athrill_syscall_reset_time, athrill_syscall_show_time
<1>4. athrill_syscall_ev3_serial_open(c) =>
        (running' = running /\ \E r : Answer(c, r)) \/ (running' = FALSE /\ calls' = calls)
  BY Zenon DEF athrill_syscall_ev3_serial_open, create_pipe_pair
<1>5. athrill_syscall_exit(c) => running' = FALSE /\ calls' = calls
  BY Zenon DEF athrill_syscall_exit
<1> QED
  BY <1>1, <1>2, <1>3, <1>4, <1>5, Zenon DEF Handler

\* What an instruction does to the calls: nothing, a new call, the store that locks
\* the file, or the return of the wrapper.
LEMMA InstructionForms ==
    ASSUME SyscallsNext
    PROVE  \/ device_supply_clock_athrill_device \/ OtherProcess
           \/ \E c \in Cores :
                 \/ Instruction(c) /\ UNCHANGED <<word, calls, locked>>
                 \/ \E api \in Wrapped : \E arg, ret : ATHRILL_SYSCALL(c, api, arg, ret)
                 \/ Lock(c) \/ Returns(c)
<1>1. CASE device_supply_clock_athrill_device \/ OtherProcess
  BY <1>1, Zenon
<1>2. ASSUME NEW c \in Cores, Other(c) \/ RaiseInterrupt(c)
      PROVE  Instruction(c) /\ UNCHANGED <<word, calls, locked>>
  BY <1>2, Zenon DEF Other, RaiseInterrupt, program
<1>3. ASSUME NEW c \in Cores,
             \/ athrill_posix_socket(c) \/ athrill_posix_select(c) \/ athrill_posix_system(c)
             \/ athrill_newlib_open_r(c) \/ athrill_set_virtfs_top(c) \/ athrill_ev3_opendir(c)
             \/ athrill_posix_exit(c) \/ athrill_v850_set_intpri(c) \/ athrill_reset_time(c)
             \/ athrill_show_time(c)
      PROVE  \E api \in Wrapped : \E arg, ret : ATHRILL_SYSCALL(c, api, arg, ret)
  BY <1>3, Zenon DEF athrill_posix_socket, athrill_posix_select, athrill_posix_system,
              athrill_newlib_open_r, athrill_set_virtfs_top, athrill_ev3_opendir,
              athrill_posix_exit, athrill_v850_set_intpri, athrill_reset_time,
              athrill_show_time, Wrapped
<1>4. ASSUME NEW c \in Cores, NEW f,
             \/ athrill_posix_sense(c, f) \/ athrill_posix_bind(c, f) \/ athrill_posix_listen(c, f)
             \/ athrill_posix_accept(c, f) \/ athrill_posix_connect(c, f) \/ athrill_posix_send(c, f)
             \/ athrill_posix_recv(c, f) \/ athrill_posix_shutdown(c, f)
      PROVE  \E api \in Wrapped : \E arg, ret : ATHRILL_SYSCALL(c, api, arg, ret)
  BY <1>4, Zenon DEF athrill_posix_sense, athrill_posix_bind, athrill_posix_listen, athrill_posix_accept,
              athrill_posix_connect, athrill_posix_send, athrill_posix_recv,
              athrill_posix_shutdown, Wrapped
<1>5. ASSUME NEW c \in Cores, NEW f,
             \/ athrill_newlib_read_r(c, f) \/ athrill_newlib_write_r(c, f)
             \/ athrill_newlib_close_r(c, f) \/ athrill_newlib_lseek_r(c, f)
             \/ athrill_ev3_readdir(c, f) \/ athrill_ev3_closedir(c, f)
             \/ athrill_ev3_serial_open(c, f)
      PROVE  \E api \in Wrapped : \E arg, ret : ATHRILL_SYSCALL(c, api, arg, ret)
  BY <1>5, Zenon DEF athrill_newlib_read_r, athrill_newlib_write_r, athrill_newlib_close_r,
              athrill_newlib_lseek_r, athrill_ev3_readdir, athrill_ev3_closedir,
              athrill_ev3_serial_open, Wrapped
<1> QED
  BY <1>1, <1>2, <1>3, <1>4, <1>5, Zenon DEF SyscallsNext

\* With one instruction per clock the turn goes to the next core, and after the
\* last one to the device.
LEMMA TurnPasses ==
    ASSUME N \in Nat, BatchLen = 1, steps = 0, NEW c \in Cores, Instruction(c)
    PROVE  /\ running /\ turn = c /\ steps' = 0 /\ running' = running
           /\ turn' = (IF c = N THEN 0 ELSE c + 1)
           /\ isLocked' = isLocked /\ holder' = holder
<1>1. c \in 1 .. N
  BY Zenon DEF Cores
<1>2. (c + 1) % (N + 1) = IF c = N THEN 0 ELSE c + 1
  BY <1>1
<1> QED
  BY <1>1, <1>2 DEF Instruction, lock

\* An instruction keeps the invariant.  The wrapper that returns has been answered:
\* it is its core's turn, so that its call is no longer in the word.
LEMMA InstructionKeeps ==
    ASSUME N \in Nat, BatchLen = 1, Coordinated, CallInv, NEW c \in Cores,
           \/ Instruction(c) /\ UNCHANGED <<word, calls, locked>>
           \/ \E api \in Wrapped : \E arg, ret : ATHRILL_SYSCALL(c, api, arg, ret)
           \/ Lock(c) \/ Returns(c)
    PROVE  CallInv'
<1> USE DEF CallInv, Pending, NoCall
<1>1. c \in 1 .. N /\ Cores = 1 .. N
  BY Zenon DEF Cores
<1>2. Instruction(c)
  BY Zenon DEF ATHRILL_SYSCALL, Lock, Returns
<1>3. /\ running /\ turn = c /\ steps' = 0 /\ running' = running
      /\ turn' = (IF c = N THEN 0 ELSE c + 1)
  BY <1>2, TurnPasses, Zenon
<1>4. turn' \in 0 .. N /\ \A d \in Cores : d <= c => turn' = 0 \/ turn' > d
  BY <1>1, <1>3
<1>5. \A d \in Cores : turn > d => turn' = 0 \/ turn' > d
  BY <1>1, <1>3
<1>6. CASE UNCHANGED <<word, calls, locked>>
  BY <1>1, <1>3, <1>4, <1>5, <1>6
<1>7. ASSUME NEW api \in Wrapped \cup {"lock"}, NEW arg, NEW ret, MayCall(c, api),
             calls' = [calls EXCEPT ![c] = [api |-> api, arg |-> arg, ret |-> ret, served |-> "no"]],
             word' = [to |-> IF api = "lock" THEN "mmap" ELSE "args", core |-> c]
      PROVE  CallInv'
  <2>1. \A d \in Cores : calls[d].api = "none"
    BY <1>7 DEF MayCall
  <2>2. /\ calls'[c] = [api |-> api, arg |-> arg, ret |-> ret, served |-> "no"]
        /\ \A d \in Cores : d # c => calls'[d] = calls[d]
        /\ DOMAIN calls' = Cores /\ calls' = [d \in Cores |-> calls'[d]]
    BY <1>7
  <2>3. api # "none"
    BY Zenon DEF Wrapped
  <2>4. word' \in [to : {"none", "args", "mmap"}, core : 0 .. N]
    BY <1>1, <1>7
  <2>5. Pending(c)'
    <3>1. turn' = 0 \/ turn' > c
      BY <1>1, <1>3
    <3>2. calls'[c].api = api /\ calls'[c].served = "no"
      BY <2>2
    <3>3. word'.to = (IF api = "lock" THEN "mmap" ELSE "args") /\ word'.core = c
      BY <1>7, Zenon
    <3> QED
      BY <3>1, <3>2, <3>3, Zenon
  <2> QED
    BY <1>1, <1>3, <1>4, <1>7, <2>1, <2>2, <2>3, <2>4, <2>5
<1>8. CASE Returns(c)
  <2>1. /\ calls'[c] = NoCall /\ word' = word
        /\ \A d \in Cores : d # c => calls'[d] = calls[d]
        /\ DOMAIN calls' = Cores /\ calls' = [d \in Cores |-> calls'[d]]
    BY <1>8 DEF Returns
  <2>2. calls[c].api # "none"
    BY <1>8, Zenon DEF Returns
  <2>3. \A d \in Cores : calls'[d].api = "none"
    BY <2>1, <2>2
  <2>4. word.to = "none"
    BY <1>1, <1>3, <2>2
  <2> QED
    BY <1>3, <1>4, <2>1, <2>3, <2>4
<1>9. CASE Lock(c)
  BY <1>7, <1>9, Zenon DEF Lock
<1>10. ASSUME NEW api \in Wrapped, NEW arg, NEW ret, ATHRILL_SYSCALL(c, api, arg, ret)
       PROVE  CallInv'
  <2>1. api # "lock"
    BY Zenon DEF Wrapped
  <2> QED
    BY <1>7, <1>10, <2>1, Zenon DEF ATHRILL_SYSCALL
<1> QED
  BY <1>6, <1>8, <1>9, <1>10, Zenon

\* What an answer makes of the arguments.
LEMMA AnsweredRecord ==
    ASSUME NEW rec, NEW r, NEW t, DOMAIN rec = {"api", "arg", "ret", "served"}
    PROVE  /\ [[rec EXCEPT !.ret = r] EXCEPT !.served = t].api = rec.api
           /\ [[rec EXCEPT !.ret = r] EXCEPT !.served = t].served = t
           /\ DOMAIN [[rec EXCEPT !.ret = r] EXCEPT !.served = t] = DOMAIN rec
           /\ [rec EXCEPT !.served = t].api = rec.api
           /\ [rec EXCEPT !.served = t].served = t
           /\ DOMAIN [rec EXCEPT !.served = t] = DOMAIN rec
  BY Zenon

\* The call of core c is answered by its own handler.
Answered(c) ==
    \E rec : /\ calls' = [calls EXCEPT ![c] = rec]
             /\ rec.api = calls[c].api /\ rec.served = calls[c].api
             /\ DOMAIN rec = {"api", "arg", "ret", "served"}

\* A clock of the device finds no call, answers the one in the word, or ends the
\* emulator; the lock changes only for the store that asks for it.
LEMMA DeviceEffects ==
    ASSUME CallInv, device_supply_clock_athrill_device
    PROVE  \/ word.to = "none" /\ UNCHANGED <<word, calls, running, isLocked, holder>>
           \/ /\ word.core \in Cores /\ calls[word.core].api # "none"
              /\ calls[word.core].served = "no" /\ word' = NoWord
              /\ \/ running' = FALSE /\ calls' = calls /\ UNCHANGED <<isLocked, holder>>
                 \/ /\ running' = running /\ Answered(word.core)
                    /\ \/ calls[word.core].api # "lock" /\ UNCHANGED <<isLocked, holder>>
                       \/ /\ calls[word.core].api = "lock" /\ isLocked' = ~isLocked
                          /\ IF isLocked THEN holder' = "none" ELSE holder' = "self"
<1> DEFINE c == word.core
<1>1. running /\ do_athrill_device_func_call
  BY Zenon DEF device_supply_clock_athrill_device
<1>2. CASE word.to = "none"
  BY <1>1, <1>2, Zenon DEF do_athrill_device_func_call, lock
<1>3. CASE word.to # "none"
  <2>1. c \in Cores /\ calls[c].api # "none" /\ Pending(c) /\ calls[c].served = "no" /\ word' = NoWord
    BY <1>1, <1>3, Zenon DEF CallInv, Pending, do_athrill_device_func_call
  <2>2. DOMAIN calls[c] = {"api", "arg", "ret", "served"} /\ DOMAIN calls = Cores
    BY <2>1, Zenon DEF CallInv
  <2>3. CASE word.to = "args"
    <3>1. calls[c].api \in Wrapped /\ calls[c].api # "lock" /\ UNCHANGED <<isLocked, holder>>
      BY <1>1, <2>1, <2>3, Zenon DEF Pending, CallInv, do_athrill_device_func_call, lock
    <3>2. /\ Id(calls[c].api) \in 0 .. SYS_API_ID_NUM - 1 /\ SYS_API_ID_NUM \in Nat
          /\ syscall_table[Id(calls[c].api) + 1] = calls[c].api
      BY <3>1, TableExact, WrappedAreHandled, Zenon
    <3>3. Handler(c, calls[c].api)
      <4>1. athrill_syscall_device(c)
        BY <1>1, <2>3, Zenon DEF do_athrill_device_func_call
      <4> QED
        BY <3>2, <4>1 DEF athrill_syscall_device
    <3>4. ASSUME NEW r, Answer(c, r) PROVE Answered(c)
      <4>1. calls' = [calls EXCEPT ![c] = [[@ EXCEPT !.ret = r] EXCEPT !.served = calls[c].api]]
        BY <3>2, <3>4, Zenon DEF Answer
      <4> HIDE DEF c
      <4>2. calls' = [calls EXCEPT ![c] = [[calls[c] EXCEPT !.ret = r] EXCEPT !.served = calls[c].api]]
        BY <4>1, Zenon
      <4> DEFINE rec == [[calls[c] EXCEPT !.ret = r] EXCEPT !.served = calls[c].api]
      <4>3. /\ rec.api = calls[c].api /\ rec.served = calls[c].api
            /\ DOMAIN rec = {"api", "arg", "ret", "served"}
        BY <2>2, AnsweredRecord, Zenon
      <4>4. calls' = [calls EXCEPT ![c] = rec]
        BY <4>2, Zenon
      <4> HIDE DEF rec
      <4> QED
        BY <4>3, <4>4, Zenon DEF Answered
    <3> QED
      BY <2>1, <3>1, <3>3, <3>4, HandlerAnswers, Zenon
  <2>4. CASE word.to = "mmap"
    <3>1. calls' = [calls EXCEPT ![c].served = "lock"] /\ running' = running /\ isLocked' = ~isLocked
      BY <1>1, <2>4, Zenon DEF do_athrill_device_func_call, LockFile
    <3>2. IF isLocked THEN holder' = "none" ELSE holder' = "self"
      BY <1>1, <2>4, Zenon DEF do_athrill_device_func_call, LockFile
    <3>3. calls[c].api = "lock"
      BY <2>1, <2>4, Zenon DEF Pending
    <3>4. Answered(c)
      <4> HIDE DEF c
      <4>1. calls' = [calls EXCEPT ![c] = [calls[c] EXCEPT !.served = "lock"]]
        BY <3>1, Zenon
      <4> DEFINE rec == [calls[c] EXCEPT !.served = "lock"]
      <4>2. /\ rec.api = calls[c].api /\ rec.served = calls[c].api
            /\ DOMAIN rec = {"api", "arg", "ret", "served"}
        BY <2>2, <3>3, AnsweredRecord, Zenon
      <4>3. calls' = [calls EXCEPT ![c] = rec]
        BY <4>1, Zenon
      <4> HIDE DEF rec
      <4> QED
        BY <4>2, <4>3, Zenon DEF Answered
    <3> QED
      BY <2>1, <3>1, <3>2, <3>3, <3>4, Zenon
  <2> QED
    BY <1>3, <2>3, <2>4, Zenon DEF CallInv
<1> QED
  BY <1>2, <1>3, Zenon

\* A clock of the device keeps the invariant.
LEMMA DeviceKeeps ==
    ASSUME N \in Nat \ {0}, CallInv, device_supply_clock_athrill_device
    PROVE  CallInv'
<1>1. running /\ turn = 0 /\ turn' = 1 /\ steps' = 0
  BY Zenon DEF device_supply_clock_athrill_device
<1>2. Cores = 1 .. N
  BY Zenon DEF Cores
<1>3. CASE word.to = "none" /\ UNCHANGED <<word, calls, running>>
  BY <1>1, <1>2, <1>3 DEF CallInv, Pending, NoCall
<1>4. ASSUME NEW c \in Cores, calls[c].api # "none", word' = NoWord,
             \/ running' = FALSE /\ calls' = calls
             \/ running' = running /\ Answered(c)
      PROVE  CallInv'
  <2>1. word' \in [to : {"none", "args", "mmap"}, core : 0 .. N] /\ word'.to = "none"
    BY <1>4 DEF NoWord
  <2>2. CASE running' = FALSE /\ calls' = calls
    BY <1>1, <2>1, <2>2 DEF CallInv, NoCall
  <2>3. CASE running' = running /\ Answered(c)
    <3>1. PICK rec : /\ calls' = [calls EXCEPT ![c] = rec]
                     /\ rec.api = calls[c].api /\ rec.served = calls[c].api
                     /\ DOMAIN rec = {"api", "arg", "ret", "served"}
      BY <2>3, Zenon DEF Answered
    <3>2. /\ calls'[c] = rec /\ \A d \in Cores : d # c => calls'[d] = calls[d]
          /\ DOMAIN calls' = Cores /\ calls' = [d \in Cores |-> calls'[d]]
      BY <3>1 DEF CallInv
    <3>3. \A d \in Cores : d # c => calls[d].api = "none"
      BY <1>4, Zenon DEF CallInv
    <3> QED
      BY <1>1, <1>2, <1>4, <2>1, <2>3, <3>1, <3>2, <3>3 DEF CallInv, NoCall
  <2> QED
    BY <1>4, <2>2, <2>3, Zenon
<1> QED
  BY <1>3, <1>4, DeviceEffects, Zenon

\* Every step keeps the invariant.
LEMMA CallStep ==
    ASSUME N \in Nat \ {0}, BatchLen = 1, Coordinated, CallInv, [SyscallsNext]_syscallVars
    PROVE  CallInv'
<1>1. CASE device_supply_clock_athrill_device
  BY <1>1, DeviceKeeps, Zenon
<1>2. CASE OtherProcess \/ UNCHANGED syscallVars
  BY <1>2 DEF OtherProcess, syscallVars, CallInv, Pending, NoCall
<1>3. ASSUME NEW c \in Cores,
             \/ Instruction(c) /\ UNCHANGED <<word, calls, locked>>
             \/ \E api \in Wrapped : \E arg, ret : ATHRILL_SYSCALL(c, api, arg, ret)
             \/ Lock(c) \/ Returns(c)
      PROVE  CallInv'
  BY <1>3, InstructionKeeps, Zenon
<1> QED
  BY <1>1, <1>2, <1>3, InstructionForms, Zenon

\* The program starts without calls.
LEMMA CallInit == ASSUME N \in Nat, SyscallsInit PROVE CallInv
  BY DEF SyscallsInit, CallInv, Pending, NoCall, NoWord

-----------------------------------------------------------------------------
(* The lock.  Between the answer to a store that locks or unlocks and the   *)
(* next instruction of its core the two views differ.                       *)

Toggled == \E c \in Cores : calls[c].api = "lock" /\ calls[c].served = "lock"

LockInv ==
    /\ isLocked \in BOOLEAN /\ locked \in BOOLEAN /\ (isLocked <=> holder = "self")
    /\ ~running => \E c \in Cores : calls[c].api # "none"
    /\ running /\ Toggled => (locked <=> ~isLocked)
    /\ running /\ ~Toggled => (locked <=> isLocked)

\* An instruction keeps the views apart or together as they have to be.
LEMMA LockInstruction ==
    ASSUME N \in Nat \ {0}, BatchLen = 1, Coordinated, CallInv, LockInv, NEW c \in Cores,
           \/ Instruction(c) /\ UNCHANGED <<word, calls, locked>>
           \/ \E api \in Wrapped : \E arg, ret : ATHRILL_SYSCALL(c, api, arg, ret)
           \/ Lock(c) \/ Returns(c)
    PROVE  LockInv'
<1>1. Instruction(c)
  BY Zenon DEF ATHRILL_SYSCALL, Lock, Returns
<1>2. steps = 0
  BY Zenon DEF CallInv
<1>3. running /\ turn = c /\ running' = running /\ isLocked' = isLocked /\ holder' = holder
  BY <1>1, <1>2, TurnPasses, Zenon
<1>4. CASE UNCHANGED <<word, calls, locked>>
  BY <1>3, <1>4, Zenon DEF LockInv, Toggled
<1>5. ASSUME NEW api, NEW arg, NEW ret, MayCall(c, api), locked' = locked,
             calls' = [calls EXCEPT ![c] = [api |-> api, arg |-> arg, ret |-> ret, served |-> "no"]]
      PROVE  LockInv'
  <2>1. ~Toggled /\ ~Toggled'
    BY <1>5 DEF MayCall, NoCall, Toggled, CallInv
  <2> QED
    BY <1>3, <1>5, <2>1, Zenon DEF LockInv
<1>6. CASE Returns(c)
  <2>1. ~Pending(c) /\ calls[c].api # "none"
    BY <1>3, <1>6 DEF Pending, Returns, Cores, CallInv
  <2>2. calls[c].served = calls[c].api
    BY <1>3, <2>1, Zenon DEF CallInv
  <2>3. ~Toggled' /\ (Toggled <=> calls[c].api = "lock")
    BY <1>6, <2>1, <2>2, Zenon DEF Returns, Toggled, CallInv, NoCall
  <2>4. CASE calls[c].api = "lock"
    <3>1. locked' = ~locked
      BY <1>6, <2>4, Zenon DEF Returns
    <3> QED
      BY <1>3, <2>3, <2>4, <3>1, Zenon DEF LockInv
  <2>5. CASE calls[c].api # "lock"
    <3>1. locked' = locked
      BY <1>6, <2>5, Zenon DEF Returns
    <3> QED
      BY <1>3, <2>3, <2>5, <3>1, Zenon DEF LockInv
  <2> QED
    BY <2>4, <2>5, Zenon
<1>7. CASE Lock(c)
  BY <1>5, <1>7, Zenon DEF Lock, program
<1>8. ASSUME NEW api \in Wrapped, NEW arg, NEW ret, ATHRILL_SYSCALL(c, api, arg, ret)
      PROVE  LockInv'
  BY <1>5, <1>8, Zenon DEF ATHRILL_SYSCALL
<1> QED
  BY <1>4, <1>6, <1>7, <1>8, Zenon

\* So does a clock of the device.
LEMMA LockDevice ==
    ASSUME CallInv, LockInv, device_supply_clock_athrill_device
    PROVE  LockInv'
<1>1. running /\ locked' = locked
  BY Zenon DEF device_supply_clock_athrill_device, program
<1>2. CASE UNCHANGED <<calls, running, isLocked, holder>>
  BY <1>1, <1>2, Zenon DEF LockInv, Toggled
<1>3. ASSUME NEW c \in Cores, calls[c].api # "none", running' = FALSE, calls' = calls,
             UNCHANGED <<isLocked, holder>>
      PROVE  LockInv'
  BY <1>1, <1>3, Zenon DEF LockInv
<1>4. ASSUME NEW c \in Cores, calls[c].api # "none", calls[c].served = "no",
             running' = running, Answered(c)
      PROVE  ~Toggled /\ (Toggled' <=> calls[c].api = "lock")
  <2>1. \A d \in Cores : d # c => calls[d].api = "none"
    BY <1>4, Zenon DEF CallInv
  <2>2. ~Toggled
    BY <1>4, <2>1, Zenon DEF Toggled
  <2>3. /\ calls'[c].api = calls[c].api /\ calls'[c].served = calls[c].api
        /\ \A d \in Cores : d # c => calls'[d] = calls[d]
    BY <1>4, Zenon DEF Answered, CallInv
  <2> QED
    BY <2>1, <2>2, <2>3, Zenon DEF Toggled
<1>5. ASSUME NEW c \in Cores, calls[c].api # "none", calls[c].served = "no",
             running' = running, Answered(c), calls[c].api # "lock",
             UNCHANGED <<isLocked, holder>>
      PROVE  LockInv'
  BY <1>1, <1>4, <1>5, Zenon DEF LockInv
<1>6. ASSUME NEW c \in Cores, calls[c].api # "none", calls[c].served = "no",
             running' = running, Answered(c), calls[c].api = "lock", isLocked' = ~isLocked,
             IF isLocked THEN holder' = "none" ELSE holder' = "self"
      PROVE  LockInv'
  <2>1. ~Toggled /\ Toggled'
    BY <1>4, <1>6, Zenon
  <2>2. CASE isLocked
    BY <1>1, <1>6, <2>1, <2>2, Zenon DEF LockInv
  <2>3. CASE ~isLocked
    BY <1>1, <1>6, <2>1, <2>3, Zenon DEF LockInv
  <2> QED
    BY <2>2, <2>3, Zenon
<1> QED
  BY <1>2, <1>3, <1>5, <1>6, DeviceEffects, Zenon

\* While no call is outstanding the program holds the lock of the host exactly when
\* it thinks so, whatever the other processes that map the file do.
THEOREM LockIsHeld ==
    ASSUME BatchLen = 1, Coordinated
    PROVE  SyscallsSpec => []LockHeld
<1> USE SyscallsAssumption
<1>1. SyscallsInit => CallInv /\ LockInv
  <2> SUFFICES ASSUME SyscallsInit PROVE CallInv /\ LockInv
    BY Zenon
  <2>1. ~Toggled
    BY Zenon DEF SyscallsInit, Toggled, NoCall
  <2>2. isLocked = FALSE /\ locked = FALSE /\ running = TRUE /\ holder = "none"
    BY Zenon DEF SyscallsInit
  <2>3. LockInv
    BY <2>1, <2>2, Zenon DEF LockInv
  <2> QED
    BY <2>3, CallInit, Zenon
<1>2. CallInv /\ LockInv /\ [SyscallsNext]_syscallVars => (CallInv /\ LockInv)'
  <2> SUFFICES ASSUME CallInv, LockInv, [SyscallsNext]_syscallVars PROVE LockInv'
    BY CallStep, Zenon
  <2>1. CASE device_supply_clock_athrill_device
    BY <2>1, LockDevice, Zenon
  <2>2. CASE OtherProcess \/ UNCHANGED syscallVars
    BY <2>2 DEF OtherProcess, syscallVars, lock, program, LockInv, Toggled
  <2>3. ASSUME NEW c \in Cores,
               \/ Instruction(c) /\ UNCHANGED <<word, calls, locked>>
               \/ \E api \in Wrapped : \E arg, ret : ATHRILL_SYSCALL(c, api, arg, ret)
               \/ Lock(c) \/ Returns(c)
        PROVE  LockInv'
    BY <2>3, LockInstruction, Zenon
  <2> QED
    BY <2>1, <2>2, <2>3, InstructionForms, Zenon
<1>3. LockInv => LockHeld
  BY DEF LockInv, LockHeld, Toggled, NoCall
<1> QED
  BY <1>1, <1>2, <1>3, PTL DEF SyscallsSpec

-----------------------------------------------------------------------------
(* The handles.  The state of the host alone: no descriptor is an end of    *)
(* two streams, and a closed one is an end of none.  What the program holds *)
(* also depends on the call that is outstanding.                            *)

Kinds == {"none", "socket", "file", "rx", "tx"}
Openers == {"socket", "accept", "open", "serial_open"}
Usable(f) == f \in Fds /\ fd[f] \in {"socket", "file", "rx"}

HandleTypes ==
    /\ fd \in [Fds -> Kinds] /\ special \in [Fds -> Fds \cup {-1, 0}]
    /\ dir \in [Dirs -> [is_used : BOOLEAN, stream : {"none", "open", "lost"}]]

StreamsPaired ==
    /\ \A f \in Fds : special[f] # 0 => fd[f] = "rx"
    /\ \A f \in Fds : special[f] \in Fds => fd[special[f]] = "tx"
    /\ \A f, g \in Fds : special[f] \in Fds /\ special[g] = special[f] => f = g
    /\ \A f \in Fds : fd[f] = "tx" => \E g \in Fds : special[g] = f

ProgramHolds ==
    /\ \A f \in fds : Usable(f)
    /\ \A d \in Dirs : dir[d].is_used = (dir[d].stream # "none")
    /\ \A d \in dirs : d \in Dirs /\ dir[d].is_used

\* What the arguments of an outstanding call may be.
Asks(c) ==
    calls[c].served = "no" =>
    /\ calls[c].api \in Openers => calls[c].ret \in Int /\ calls[c].ret <= 0
    /\ calls[c].api = "opendir" => calls[c].ret \in Dirs \cup {-1}
    /\ calls[c].api = "shutdown" => calls[c].arg \in Fds \ fds /\ fd[calls[c].arg] = "socket"
    /\ calls[c].api = "close" => calls[c].arg \notin fds /\ Usable(calls[c].arg)
    /\ calls[c].api = "closedir" => calls[c].arg \in Dirs \ dirs /\ dir[calls[c].arg].is_used

\* What the answer of an outstanding call gives the program.
Gives(c) ==
    /\ calls[c].api \in Openers /\ calls[c].served = calls[c].api =>
          calls[c].ret \in Int /\ (calls[c].ret > 0 => Usable(calls[c].ret))
    /\ calls[c].api = "opendir" /\ calls[c].served = "opendir" =>
          calls[c].ret \in Int /\ (calls[c].ret > 0 => calls[c].ret \in Dirs /\ dir[calls[c].ret].is_used)

HandleInv ==
    /\ HandleTypes
    /\ running => StreamsPaired /\ ProgramHolds /\ \A c \in Cores : Asks(c) /\ Gives(c)

\* What an answer changes: the value returned and that the call is served.
LEMMA AnswerEffect ==
    ASSUME CallInv, NEW c \in Cores, calls[c].api \in Wrapped, NEW r, Answer(c, r)
    PROVE  /\ calls'[c].ret = r /\ calls'[c].served = calls[c].api
           /\ calls'[c].api = calls[c].api
           /\ \A d \in Cores : d # c => calls'[d] = calls[d]
<1>1. syscall_table[Id(calls[c].api) + 1] = calls[c].api
  BY TableExact, WrappedAreHandled, Zenon
<1>2. calls' = [calls EXCEPT ![c] = [[@ EXCEPT !.ret = r] EXCEPT !.served = calls[c].api]]
  BY <1>1, Zenon DEF Answer
<1>3. DOMAIN calls[c] = {"api", "arg", "ret", "served"} /\ DOMAIN calls = Cores
  BY Zenon DEF CallInv
<1> DEFINE rec == [[calls[c] EXCEPT !.ret = r] EXCEPT !.served = calls[c].api]
<1>4. rec.ret = r /\ rec.served = calls[c].api /\ rec.api = calls[c].api
  BY <1>3, Zenon
<1>5. calls' = [calls EXCEPT ![c] = rec]
  BY <1>2, Zenon
<1> HIDE DEF rec
<1> QED
  BY <1>3, <1>4, <1>5, Zenon

\* A step that changes none of it keeps the invariant.
LEMMA HandlesUnchanged ==
    ASSUME HandleInv, UNCHANGED <<calls, fd, special, dir, running, fds, dirs>>
    PROVE  HandleInv'
<1>1. HandleTypes'
  BY Zenon DEF HandleInv, HandleTypes
<1>2. StreamsPaired => StreamsPaired'
  BY Zenon DEF StreamsPaired
<1>3. ProgramHolds => ProgramHolds'
  BY Zenon DEF ProgramHolds, Usable
<1>4. ASSUME NEW c \in Cores, Asks(c), Gives(c) PROVE Asks(c)' /\ Gives(c)'
  BY <1>4, Zenon DEF Asks, Gives, Usable
<1> QED
  BY <1>1, <1>2, <1>3, <1>4, Zenon DEF HandleInv

\* A core without a call asks for nothing and is given nothing.
LEMMA NoCallHolds ==
    ASSUME NEW c \in Cores, calls'[c] = NoCall
    PROVE  Asks(c)' /\ Gives(c)'
  BY DEF Asks, Gives, NoCall, Openers

\* The call of core c, not served yet, is the only one.
Served(c) == CallInv /\ HandleInv /\ running /\ running' = running /\ UNCHANGED program
             /\ c \in Cores /\ calls[c].api \in Wrapped /\ calls[c].served = "no"

\* A handler that changes no descriptor and no directory gives the program nothing,
\* or the entry that the wrapper made up, when all are open.
LEMMA QuietKeeps ==
    ASSUME NEW c, Served(c), NEW r, Answer(c, r), UNCHANGED <<fd, special, dir>>,
           calls[c].api \in Openers => r \in Int /\ r <= 0,
           calls[c].api = "opendir" => r = calls[c].ret /\ \A d \in Dirs : dir[d].is_used
    PROVE  HandleInv'
<1> USE DEF Served
<1>1. /\ calls'[c].ret = r /\ calls'[c].served = calls[c].api /\ calls'[c].api = calls[c].api
      /\ \A d \in Cores : d # c => calls'[d] = calls[d]
  BY AnswerEffect, Zenon
<1>2. calls[c].api # "no" /\ fds' = fds /\ dirs' = dirs
  BY Zenon DEF Wrapped, program
<1>3. HandleTypes' /\ StreamsPaired' /\ ProgramHolds'
  BY <1>2, ZenonT(30) DEF HandleInv, HandleTypes, StreamsPaired, ProgramHolds, Usable
<1>4. \A d \in Cores : d # c => Asks(d)' /\ Gives(d)'
  BY <1>1, <1>2 DEF HandleInv, Asks, Gives, Usable
<1>5. Asks(c)'
  BY <1>1, <1>2, Zenon DEF Asks
<1>6. Gives(c)'
  <2>1. CASE calls[c].api \in Openers
    <3>1. calls[c].api # "opendir"
      BY <2>1, Zenon DEF Openers
    <3> QED
      BY <1>1, <2>1, <3>1 DEF Gives
  <2>2. CASE calls[c].api = "opendir"
    <3>1. r \in Dirs \cup {-1} /\ calls[c].api \notin Openers
      BY <2>2, Zenon DEF HandleInv, Asks, Openers
    <3>2. \A d \in Dirs : dir[d].is_used
      BY <2>2, Zenon DEF HandleInv, ProgramHolds
    <3>3. Dirs \subseteq Int
      BY SyscallsAssumption DEF Dirs
    <3> QED
      BY <1>1, <2>2, <3>1, <3>2, <3>3 DEF Gives
  <2> QED
    BY <1>1, <2>1, <2>2, Zenon DEF Gives
<1> QED
  BY <1>3, <1>4, <1>5, <1>6, Zenon DEF HandleInv

\* socket, accept and open give the program a free descriptor.
LEMMA OpensKeeps ==
    ASSUME NEW c, Served(c), NEW kind \in {"socket", "file"}, NEW f \in Free,
           calls[c].api \in Openers, OpenFd(f, kind), Answer(c, f), UNCHANGED <<special, dir>>
    PROVE  HandleInv'
<1> USE DEF Served
<1>1. f \in Fds /\ fd[f] = "none" /\ f \in Nat /\ f > 0
  BY SyscallsAssumption DEF Free, Fds
<1>2. /\ calls'[c].ret = f /\ calls'[c].served = calls[c].api /\ calls'[c].api = calls[c].api
      /\ \A d \in Cores : d # c => calls'[d] = calls[d]
  BY AnswerEffect, Zenon
<1>3. calls[c].api \notin {"no", "opendir"} /\ fds' = fds /\ dirs' = dirs
  BY Zenon DEF Wrapped, Openers, program
<1>4. \A d \in Cores : d # c => calls[d].api = "none" /\ calls[d] = NoCall
  BY Zenon DEF CallInv, Wrapped
<1>5. fd' = [fd EXCEPT ![f] = kind] /\ fd \in [Fds -> Kinds]
  BY Zenon DEF OpenFd, HandleInv, HandleTypes
<1>6. HandleTypes' /\ StreamsPaired'
  BY <1>1, <1>5, Zenon DEF HandleInv, HandleTypes, StreamsPaired, Kinds
<1>7. ProgramHolds'
  BY <1>1, <1>3, <1>5, Zenon DEF HandleInv, ProgramHolds, Usable
<1>8. \A d \in Cores : d # c => Asks(d)' /\ Gives(d)'
  BY <1>2, <1>4, NoCallHolds, Zenon
<1>9. Asks(c)' /\ Gives(c)'
  BY <1>1, <1>2, <1>3, <1>5 DEF Asks, Gives, Usable
<1> QED
  BY <1>6, <1>7, <1>8, <1>9, Zenon DEF HandleInv

\* shutdown closes a socket that the program no longer holds.
LEMMA ShutdownKeeps ==
    ASSUME NEW c, Served(c), calls[c].api = "shutdown", athrill_syscall_shutdown(c)
    PROVE  HandleInv'
<1> USE DEF Served
<1> DEFINE f == calls[c].arg
<1>1. f \in Fds /\ f \notin fds /\ fd[f] = "socket"
  BY Zenon DEF HandleInv, Asks
<1>2. /\ calls'[c].ret = 0 /\ calls'[c].served = calls[c].api /\ calls'[c].api = calls[c].api
      /\ \A d \in Cores : d # c => calls'[d] = calls[d]
  BY AnswerEffect, Zenon DEF athrill_syscall_shutdown
<1>3. \A d \in Cores : d # c => calls[d] = NoCall
  BY Zenon DEF CallInv, Wrapped
<1>4. fds' = fds /\ dirs' = dirs /\ special' = special /\ dir' = dir
  BY Zenon DEF athrill_syscall_shutdown, program
<1>5. fd' = [g \in Fds |-> IF g = f THEN "none" ELSE fd[g]]
  BY Zenon DEF athrill_syscall_shutdown
<1> HIDE DEF f
<1>6. HandleTypes' /\ StreamsPaired'
  BY <1>1, <1>4, <1>5, Zenon DEF HandleInv, HandleTypes, StreamsPaired, Kinds
<1>7. ProgramHolds'
  BY <1>1, <1>4, <1>5, Zenon DEF HandleInv, ProgramHolds, Usable
<1>8. \A d \in Cores : d # c => Asks(d)' /\ Gives(d)'
  BY <1>2, <1>3, NoCallHolds, Zenon
<1>9. Asks(c)' /\ Gives(c)'
  BY <1>2, Zenon DEF Asks, Gives, Openers
<1> QED
  BY <1>6, <1>7, <1>8, <1>9, Zenon DEF HandleInv

\* close closes both ends of a stream, and its entry of special_fd_table.
LEMMA CloseKeeps ==
    ASSUME NEW c, Served(c), calls[c].api = "close", athrill_syscall_close_r(c)
    PROVE  HandleInv'
<1> USE DEF Served
<1> DEFINE f == calls[c].arg
           other == get_correspond_fd(f)
<1>1. f \in Fds /\ f \notin fds /\ fd[f] \in {"socket", "file", "rx"}
  BY Zenon DEF HandleInv, Asks, Usable
<1>2. /\ \E r : calls'[c].ret = r /\ calls'[c].served = calls[c].api /\ calls'[c].api = calls[c].api
      /\ \A d \in Cores : d # c => calls'[d] = calls[d]
  BY AnswerEffect, Zenon DEF athrill_syscall_close_r
<1>3. \A d \in Cores : d # c => calls[d] = NoCall
  BY Zenon DEF CallInv, Wrapped
<1>4. fds' = fds /\ dirs' = dirs /\ dir' = dir
  BY Zenon DEF athrill_syscall_close_r, program
<1>5. /\ fd' = [g \in Fds |-> IF g \in {f, other} THEN "none" ELSE fd[g]]
      /\ special' = [special EXCEPT ![f] = 0]
  BY Zenon DEF athrill_syscall_close_r
<1>6. \/ special[f] = 0 /\ other = f
      \/ special[f] = -1 /\ other = -1 /\ fd[f] = "rx"
      \/ special[f] \in Fds /\ special[f] = other /\ fd[other] = "tx" /\ other # f /\ fd[f] = "rx"
  <2>1. special[f] \in Fds \cup {-1, 0} /\ -1 \notin Fds /\ 0 \notin Fds
    BY <1>1, SyscallsAssumption DEF HandleInv, HandleTypes, Fds
  <2>2. other = IF special[f] # 0 THEN special[f] ELSE f
    BY Zenon DEF get_correspond_fd
  <2>3. /\ special[f] # 0 => fd[f] = "rx"
        /\ special[f] \in Fds => fd[special[f]] = "tx"
    BY <1>1, Zenon DEF HandleInv, StreamsPaired
  <2> HIDE DEF f, other
  <2> QED
    BY <1>1, <2>1, <2>2, <2>3, Zenon
<1> HIDE DEF f, other
<1>7. HandleTypes'
  BY <1>1, <1>4, <1>5, Zenon DEF HandleInv, HandleTypes, Kinds
<1>8. StreamsPaired'
  <2> USE <1>1, <1>5, <1>6 DEF HandleInv, HandleTypes
  <2>1. /\ \A g \in Fds : fd'[g] = IF g \in {f, other} THEN "none" ELSE fd[g]
        /\ \A g \in Fds : special'[g] = IF g = f THEN 0 ELSE special[g]
    BY Zenon
  <2>2. 0 \notin Fds /\ -1 \notin Fds
    BY SyscallsAssumption DEF Fds
  <2>3. \A g \in Fds : special'[g] # 0 => fd'[g] = "rx"
    BY <2>1 DEF StreamsPaired
  <2>4. \A g \in Fds : special'[g] \in Fds => fd'[special'[g]] = "tx"
    BY <2>1, <2>2 DEF StreamsPaired
  <2>5. \A g, h \in Fds : special'[g] \in Fds /\ special'[h] = special'[g] => g = h
    BY <2>1, <2>2 DEF StreamsPaired
  <2>6. \A g \in Fds : fd'[g] = "tx" => \E h \in Fds : special'[h] = g
    BY <2>1, <2>2 DEF StreamsPaired
  <2> QED
    BY <2>3, <2>4, <2>5, <2>6, Zenon DEF StreamsPaired
<1>9. ProgramHolds'
  <2>1. \A g \in fds : g \in Fds /\ fd[g] \in {"socket", "file", "rx"}
    BY Zenon DEF HandleInv, ProgramHolds, Usable
  <2>2. \A g \in fds : g \notin {f, other}
    BY <1>1, <1>6, <2>1, SyscallsAssumption DEF Fds
  <2>3. \A g \in fds : g \in Fds /\ fd'[g] = fd[g]
    BY <1>5, <2>1, <2>2, Zenon
  <2> QED
    BY <1>4, <2>3, Zenon DEF HandleInv, ProgramHolds, Usable
<1>10. \A d \in Cores : d # c => Asks(d)' /\ Gives(d)'
  BY <1>2, <1>3, NoCallHolds, Zenon
<1>11. Asks(c)' /\ Gives(c)'
  BY <1>2, Zenon DEF Asks, Gives, Openers
<1> QED
  BY <1>7, <1>8, <1>9, <1>10, <1>11, Zenon DEF HandleInv

\* opendir gives the program a free entry of dir_table, or takes none.
LEMMA OpendirKeeps ==
    ASSUME NEW c, Served(c), calls[c].api = "opendir", athrill_syscall_ev3_opendir(c)
    PROVE  HandleInv'
<1> USE DEF Served
<1> DEFINE free == {d \in Dirs : ~dir[d].is_used}
<1>1. CASE free = {}
  <2>1. Answer(c, calls[c].ret) /\ UNCHANGED <<fd, special, dir>>
    BY <1>1, Zenon DEF athrill_syscall_ev3_opendir, Result, host
  <2>2. calls[c].api \notin Openers
    BY Zenon DEF Openers
  <2> QED
    BY <1>1, <2>1, <2>2, QuietKeeps, Zenon
<1>2. CASE free # {}
  <2>1. PICK e \in free, ok \in BOOLEAN :
                              /\ dir' = [dir EXCEPT ![e] = [is_used |-> ok, stream |-> IF ok THEN "open" ELSE "none"]]
                              /\ Answer(c, IF ok THEN e ELSE E_PAR)
    BY <1>2, Zenon DEF athrill_syscall_ev3_opendir, Lowest
  <2>2. fd' = fd /\ special' = special /\ fds' = fds /\ dirs' = dirs
    BY <1>2, Zenon DEF athrill_syscall_ev3_opendir, program
  <2>3. e \in Dirs /\ ~dir[e].is_used /\ e \in Int /\ e > 0
    BY SyscallsAssumption DEF Dirs
  <2>4. /\ calls'[c].ret = (IF ok THEN e ELSE E_PAR)
        /\ calls'[c].served = "opendir" /\ calls'[c].api = "opendir"
        /\ \A d \in Cores : d # c => calls'[d] = calls[d]
    BY <2>1, AnswerEffect, Zenon
  <2>5. \A d \in Cores : d # c => calls[d] = NoCall
    BY Zenon DEF CallInv, Wrapped
  <2>6. e \notin dirs
    BY <2>3, Zenon DEF HandleInv, ProgramHolds
  <2>7. HandleTypes' /\ StreamsPaired'
    BY <2>1, <2>2, <2>3, Zenon DEF HandleInv, HandleTypes, StreamsPaired
  <2>8. /\ \A d \in Dirs : d # e => dir'[d] = dir[d]
        /\ dir'[e].is_used = ok /\ dir'[e].stream = (IF ok THEN "open" ELSE "none")
    BY <2>1, <2>3, Zenon DEF HandleInv, HandleTypes
  <2>9. ProgramHolds'
    BY <2>2, <2>3, <2>6, <2>8, ZenonT(30) DEF HandleInv, ProgramHolds, Usable
  <2>10. \A d \in Cores : d # c => Asks(d)' /\ Gives(d)'
    BY <2>4, <2>5, NoCallHolds, Zenon
  <2>11. Asks(c)'
    BY <2>4, Zenon DEF Asks
  <2>12. Gives(c)'
    <3>1. CASE ok
      BY <2>3, <2>4, <2>8, <3>1, Zenon DEF Gives, Openers
    <3>2. CASE ~ok
      BY <2>4, <3>2 DEF Gives, Openers, E_PAR
    <3> QED
      BY <3>1, <3>2, Zenon
  <2> QED
    BY <2>7, <2>9, <2>10, <2>11, <2>12, Zenon DEF HandleInv
<1> QED
  BY <1>1, <1>2, Zenon

\* closedir releases an entry that the program no longer holds.
LEMMA ClosedirKeeps ==
    ASSUME NEW c, Served(c), calls[c].api = "closedir", athrill_syscall_ev3_closedir(c)
    PROVE  HandleInv'
<1> USE DEF Served
<1> DEFINE e == calls[c].arg
<1>1. CASE ~GETDIR(e)
  <2>1. Answer(c, E_ID) /\ UNCHANGED <<fd, special, dir>>
    BY <1>1, Zenon DEF athrill_syscall_ev3_closedir, Result, host
  <2>2. calls[c].api \notin Openers
    BY Zenon DEF Openers
  <2> QED
    BY <2>1, <2>2, QuietKeeps, Zenon
<1>2. CASE GETDIR(e)
  <2>1. /\ \/ dir' = [dir EXCEPT ![e] = [is_used |-> FALSE, stream |-> "none"]] /\ Answer(c, 0)
           \/ dir' = [dir EXCEPT ![e].stream = "lost"] /\ Answer(c, E_ID)
        /\ fd' = fd /\ special' = special
    BY <1>2, Zenon DEF athrill_syscall_ev3_closedir
  <2>2. e \in Dirs /\ e \notin dirs /\ dir[e].is_used /\ fds' = fds /\ dirs' = dirs
    BY <1>2, Zenon DEF GETDIR, HandleInv, Asks, program
  <2>3. /\ calls'[c].served = "closedir" /\ calls'[c].api = "closedir"
        /\ \A d \in Cores : d # c => calls'[d] = calls[d]
    BY <2>1, AnswerEffect, Zenon
  <2>4. \A d \in Cores : d # c => calls[d] = NoCall
    BY Zenon DEF CallInv, Wrapped
  <2> HIDE DEF e
  <2>5. dir[e] \in [is_used : BOOLEAN, stream : {"none", "open", "lost"}]
    BY <2>2, Zenon DEF HandleInv, HandleTypes
  <2>6. /\ \A d \in Dirs : d # e => dir'[d] = dir[d]
        /\ \/ dir'[e].is_used = FALSE /\ dir'[e].stream = "none"
           \/ dir'[e].is_used = dir[e].is_used /\ dir'[e].stream = "lost"
    <3>1. DOMAIN dir = Dirs
      BY Zenon DEF HandleInv, HandleTypes
    <3> DEFINE lost == [dir[e] EXCEPT !.stream = "lost"]
    <3>2. lost.is_used = dir[e].is_used /\ lost.stream = "lost"
      BY <2>5, Zenon
    <3>3. \/ dir' = [dir EXCEPT ![e] = [is_used |-> FALSE, stream |-> "none"]]
          \/ dir' = [dir EXCEPT ![e] = lost]
      BY <2>1, Zenon
    <3> HIDE DEF lost
    <3>4. CASE dir' = [dir EXCEPT ![e] = [is_used |-> FALSE, stream |-> "none"]]
      BY <2>2, <3>1, <3>4, Zenon
    <3>5. CASE dir' = [dir EXCEPT ![e] = lost]
      BY <2>2, <3>1, <3>2, <3>5, Zenon
    <3> QED
      BY <3>3, <3>4, <3>5, Zenon
  <2>7. ProgramHolds'
    <3>1. ProgramHolds
      BY Zenon DEF HandleInv
    <3>2. \A f \in fds' : Usable(f)'
      BY <2>1, <2>2, <3>1, Zenon DEF ProgramHolds, Usable
    <3>3. dir'[e].is_used = (dir'[e].stream # "none")
      BY <2>2, <2>6, Zenon
    <3>4. ASSUME NEW d \in Dirs, d # e
          PROVE  dir'[d].is_used = (dir'[d].stream # "none")
      BY <2>6, <3>1, <3>4, Zenon DEF ProgramHolds
    <3>5. \A d \in dirs' : d \in Dirs /\ dir'[d].is_used
      BY <2>2, <2>6, <3>1, Zenon DEF ProgramHolds
    <3> QED
      BY <3>2, <3>3, <3>4, <3>5, Zenon DEF ProgramHolds
  <2>10. HandleTypes' /\ StreamsPaired'
    <3>1. StreamsPaired' /\ (fd \in [Fds -> Kinds] /\ special \in [Fds -> Fds \cup {-1, 0}])'
      BY <2>1, Zenon DEF HandleInv, HandleTypes, StreamsPaired
    <3>2. [dir[e] EXCEPT !.stream = "lost"] \in [is_used : BOOLEAN, stream : {"none", "open", "lost"}]
      BY <2>5, Zenon
    <3>3. dir' \in [Dirs -> [is_used : BOOLEAN, stream : {"none", "open", "lost"}]]
      <4> DEFINE R == [is_used : BOOLEAN, stream : {"none", "open", "lost"}]
      <4>1. PICK rec \in R : dir' = [dir EXCEPT ![e] = rec]
        <5>1. [is_used |-> FALSE, stream |-> "none"] \in R
          BY Zenon
        <5> QED
          BY <2>1, <3>2, <5>1, Zenon
      <4>2. dir \in [Dirs -> R]
        BY Zenon DEF HandleInv, HandleTypes
      <4> HIDE DEF R
      <4>3. dir' \in [Dirs -> R]
        BY <4>1, <4>2, Zenon
      <4> QED
        BY <4>3, Zenon DEF R
    <3> QED
      BY <3>1, <3>3, Zenon DEF HandleTypes
  <2>8. \A d \in Cores : d # c => Asks(d)' /\ Gives(d)'
    BY <2>3, <2>4, NoCallHolds, Zenon
  <2>9. Asks(c)' /\ Gives(c)'
    BY <2>3, Zenon DEF Asks, Gives, Openers
  <2> QED
    BY <2>7, <2>8, <2>9, <2>10, Zenon DEF HandleInv
<1> QED
  BY <1>1, <1>2, Zenon

\* serial_open opens both ends of a stream, or its write end fails and the read end
\* reads nothing; without a read end the emulator ends.
LEMMA PipePairKeeps ==
    ASSUME NEW c, CallInv, HandleInv, running, UNCHANGED program, c \in Cores,
           calls[c].api = "serial_open", calls[c].served = "no", create_pipe_pair(c)
    PROVE  HandleInv'
<1>0. PICK fd_out \in create_pipe(Free) : \E fd_in \in create_pipe(Free \ {fd_out}) :
         /\ fd' = [f \in Fds |-> IF f = fd_out THEN "tx" ELSE IF f = fd_in THEN "rx" ELSE fd[f]]
         /\ dir' = dir
         /\ IF fd_in = -1 THEN running' = FALSE /\ special' = special
            ELSE special' = [special EXCEPT ![fd_in] = fd_out] /\ Answer(c, fd_in) /\ running' = running
  BY Zenon DEF create_pipe_pair
<1>1. PICK fd_in \in create_pipe(Free \ {fd_out}) :
         /\ fd' = [f \in Fds |-> IF f = fd_out THEN "tx" ELSE IF f = fd_in THEN "rx" ELSE fd[f]]
         /\ dir' = dir
         /\ IF fd_in = -1 THEN running' = FALSE /\ special' = special
            ELSE special' = [special EXCEPT ![fd_in] = fd_out] /\ Answer(c, fd_in) /\ running' = running
  BY <1>0, Zenon
<1>2. Free \subseteq Nat /\ 0 \notin Fds /\ -1 \notin Fds
  BY SyscallsAssumption DEF Free, Fds
<1>3. fd_out = -1 \/ fd_out \in Free
  BY Zenon DEF create_pipe, Lowest
<1>4. fd_in = -1 \/ fd_in \in Free \ {fd_out}
  BY Zenon DEF create_pipe, Lowest
<1>5. HandleTypes'
  BY <1>1, <1>2, <1>3, <1>4, Zenon DEF HandleInv, HandleTypes, Kinds, Free
<1>6. CASE fd_in = -1
  BY <1>1, <1>5, <1>6, Zenon DEF HandleInv
<1>7. CASE fd_in # -1
  <2>1. /\ special' = [special EXCEPT ![fd_in] = fd_out] /\ Answer(c, fd_in) /\ running' = running
        /\ fd_in \in Fds /\ fd[fd_in] = "none" /\ fd_in # fd_out /\ fd_in \in Int
    BY <1>1, <1>2, <1>4, <1>7 DEF Free
  <2>2. fd_out = -1 \/ (fd_out \in Fds /\ fd[fd_out] = "none")
    BY <1>3, Zenon DEF Free
  <2>3. /\ calls'[c].ret = fd_in /\ calls'[c].served = "serial_open" /\ calls'[c].api = "serial_open"
        /\ \A d \in Cores : d # c => calls'[d] = calls[d]
    BY <2>1, AnswerEffect, Zenon DEF Wrapped
  <2>4. \A d \in Cores : d # c => calls[d] = NoCall
    BY Zenon DEF CallInv, Wrapped
  <2>5. /\ \A f \in Fds : fd'[f] = IF f = fd_out THEN "tx" ELSE IF f = fd_in THEN "rx" ELSE fd[f]
        /\ \A f \in Fds : special'[f] = IF f = fd_in THEN fd_out ELSE special[f]
        /\ fds' = fds /\ dirs' = dirs
    BY <1>1, <2>1, Zenon DEF HandleInv, HandleTypes, program
  <2>6. \A f \in Fds : special[f] # fd_out \/ fd_out = -1
    BY <2>2, Zenon DEF HandleInv, StreamsPaired
  <2>7. StreamsPaired'
    <3>1. \A g \in Fds : special'[g] # 0 => fd'[g] = "rx"
      BY <1>2, <2>1, <2>2, <2>5 DEF HandleInv, StreamsPaired
    <3>2. ASSUME NEW g \in Fds, special'[g] \in Fds PROVE fd'[special'[g]] = "tx"
      <4>1. CASE g = fd_in
        BY <2>5, <3>2, <4>1, Zenon
      <4>2. CASE g # fd_in
        <5>1. special'[g] = special[g] /\ fd[special[g]] = "tx"
          BY <2>5, <3>2, <4>2, Zenon DEF HandleInv, StreamsPaired
        <5> QED
          BY <2>1, <2>2, <2>5, <3>2, <5>1, Zenon
      <4> QED
        BY <4>1, <4>2, Zenon
    <3>3. \A g, h \in Fds : special'[g] \in Fds /\ special'[h] = special'[g] => g = h
      BY <1>2, <2>1, <2>5, <2>6 DEF HandleInv, StreamsPaired
    <3>4. \A g \in Fds : fd'[g] = "tx" => \E h \in Fds : special'[h] = g
      <4> TAKE g \in Fds
      <4>1. CASE g = fd_out
        BY <2>1, <2>5, <4>1, Zenon
      <4>2. CASE g # fd_out /\ fd[g] = "tx"
        <5>1. PICK h \in Fds : special[h] = g
          BY <4>2, Zenon DEF HandleInv, StreamsPaired
        <5>2. fd[h] = "rx"
          BY <1>2, <5>1, Zenon DEF HandleInv, StreamsPaired
        <5> QED
          BY <2>1, <2>5, <5>1, <5>2, Zenon
      <4> QED
        BY <2>5, <4>1, <4>2, Zenon
    <3> QED
      BY <3>1, <3>2, <3>3, <3>4, Zenon DEF StreamsPaired
  <2>8. ProgramHolds'
    <3>1. \A f \in fds : f \in Fds /\ fd[f] \in {"socket", "file", "rx"}
      BY Zenon DEF HandleInv, ProgramHolds, Usable
    <3>2. \A f \in fds : f \in Fds /\ fd'[f] = fd[f]
      BY <1>2, <2>1, <2>2, <2>5, <3>1, Zenon
    <3> QED
      BY <1>1, <2>5, <3>1, <3>2, Zenon DEF HandleInv, ProgramHolds, Usable
  <2>9. \A d \in Cores : d # c => Asks(d)' /\ Gives(d)'
    BY <2>3, <2>4, NoCallHolds, Zenon
  <2>10. Asks(c)' /\ Gives(c)'
    <3>1. Usable(fd_in)'
      BY <2>1, <2>5, Zenon DEF Usable
    <3> QED
      BY <2>1, <2>3, <3>1, Zenon DEF Asks, Gives, Openers
  <2> QED
    BY <1>5, <2>7, <2>8, <2>9, <2>10, Zenon DEF HandleInv
<1> QED
  BY <1>6, <1>7, Zenon

\* The handlers that change no descriptor and no directory.
Quiet == Wrapped \ {"socket", "accept", "open", "shutdown", "close", "opendir", "closedir",
                    "serial_open", "exit"}
LEMMA QuietHandlers ==
    ASSUME NEW c, NEW name \in Quiet, Handler(c, name)
    PROVE  running' = running /\ (\E r : Answer(c, r)) /\ UNCHANGED <<fd, special, dir>>
<1> USE DEF Result, BadPointer, host
<1>1. CASE name \in {"sense", "bind", "listen", "connect", "select", "send", "recv", "system"}
  BY <1>1, Zenon DEF Handler, athrill_syscall_sense, athrill_syscall_bind, athrill_syscall_listen,
              athrill_syscall_connect, athrill_syscall_select, athrill_syscall_send,
              athrill_syscall_recv, athrill_syscall_system
<1>2. CASE name \in {"read", "write", "lseek", "virtfs", "readdir"}
  BY <1>2, Zenon DEF Handler, athrill_syscall_read_r, athrill_syscall_write_r, athrill_syscall_lseek_r,
              athrill_syscall_set_virtfs_top, athrill_syscall_ev3_readdir
<1>3. CASE name \in {"intpri", "reset_time", "show_time"}
  BY <1>3, Zenon DEF Handler, athrill_syscall_v850_set_intpri, athrill_syscall_reset_time,
              athrill_syscall_show_time
<1> QED
  BY <1>1, <1>2, <1>3, Zenon DEF Quiet, Wrapped

\* Every handler keeps the handles in order.
LEMMA HandlerKeeps ==
    ASSUME NEW c \in Cores, CallInv, HandleInv, running, UNCHANGED program,
           calls[c].api \in Wrapped, calls[c].served = "no", Handler(c, calls[c].api)
    PROVE  HandleInv'
<1> DEFINE name == calls[c].api
<1>1. ASSUME running' = running PROVE Served(c)
  BY <1>1, Zenon DEF Served
<1>2. name \in Openers => calls[c].ret \in Int /\ calls[c].ret <= 0
  BY Zenon DEF HandleInv, Asks
<1>3. CASE name \in Quiet
  <2>1. name \notin Openers /\ name # "opendir"
    BY <1>3, Zenon DEF Quiet, Openers
  <2> QED
    BY <1>1, <1>3, <2>1, QuietHandlers, QuietKeeps, Zenon
<1>4. CASE name \in {"socket", "accept"}
  <2>1. running' = running /\ name \in Openers /\ name # "opendir"
    BY <1>4, Zenon DEF Handler, Openers
  <2>2. \/ Opens(c, "socket")
        \/ \E r \in {calls[c].ret, EAGAIN, Errno} : Answer(c, r) /\ UNCHANGED host
    BY <1>4, Zenon DEF Handler, athrill_syscall_socket, athrill_syscall_accept, Result, BadPointer
  <2>3. CASE Opens(c, "socket")
    BY <1>1, <2>1, <2>3, OpensKeeps, Zenon DEF Opens, Lowest
  <2>4. ASSUME NEW r \in {calls[c].ret, EAGAIN, Errno}, Answer(c, r), UNCHANGED host
        PROVE  HandleInv'
    <3>1. r \in Int /\ r <= 0
      BY <1>2, <2>1 DEF EAGAIN, Errno
    <3> QED
      BY <1>1, <2>1, <2>4, <3>1, QuietKeeps, Zenon DEF host
  <2> QED
    BY <2>2, <2>3, <2>4, Zenon
<1>5. CASE name = "open"
  <2>1. running' = running /\ athrill_syscall_open_r(c) /\ name \in Openers /\ name # "opendir"
    BY <1>5, Zenon DEF Handler, Openers
  <2>2. CASE \E f \in Lowest(Free) : OpenFd(f, "file") /\ Answer(c, f)
    BY <1>1, <2>1, <2>2, OpensKeeps, Zenon DEF athrill_syscall_open_r, Lowest
  <2>3. CASE Answer(c, -1) /\ UNCHANGED fd
    BY <1>1, <2>1, <2>3, QuietKeeps DEF athrill_syscall_open_r
  <2> QED
    BY <2>1, <2>2, <2>3, Zenon DEF athrill_syscall_open_r
<1>6. CASE name = "shutdown"
  <2>1. running' = running /\ athrill_syscall_shutdown(c)
    BY <1>6, Zenon DEF Handler
  <2> QED
    BY <1>1, <1>6, <2>1, ShutdownKeeps, Zenon
<1>7. CASE name = "close"
  <2>1. running' = running /\ athrill_syscall_close_r(c)
    BY <1>7, Zenon DEF Handler
  <2> QED
    BY <1>1, <1>7, <2>1, CloseKeeps, Zenon
<1>8. CASE name = "opendir"
  <2>1. running' = running /\ athrill_syscall_ev3_opendir(c)
    BY <1>8, Zenon DEF Handler
  <2> QED
    BY <1>1, <1>8, <2>1, OpendirKeeps, Zenon
<1>9. CASE name = "closedir"
  <2>1. running' = running /\ athrill_syscall_ev3_closedir(c)
    BY <1>9, Zenon DEF Handler
  <2> QED
    BY <1>1, <1>9, <2>1, ClosedirKeeps, Zenon
<1>10. CASE name = "serial_open"
  <2>1. athrill_syscall_ev3_serial_open(c) /\ name # "opendir"
    BY <1>10, Zenon DEF Handler
  <2>2. CASE create_pipe_pair(c)
    BY <1>10, <2>2, PipePairKeeps, Zenon
  <2>3. ASSUME NEW r \in {0, -1}, Answer(c, r), UNCHANGED host, UNCHANGED running
        PROVE  HandleInv'
    BY <1>1, <2>1, <2>3, QuietKeeps DEF host
  <2> QED
    BY <2>1, <2>2, <2>3, Zenon DEF athrill_syscall_ev3_serial_open, Result
<1>11. CASE name = "exit"
  <2>1. running' = FALSE /\ UNCHANGED <<fd, special, dir>>
    BY <1>11, Zenon DEF Handler, athrill_syscall_exit, host
  <2> QED
    BY <2>1, Zenon DEF HandleInv, HandleTypes
<1> QED
  BY <1>3, <1>4, <1>5, <1>6, <1>7, <1>8, <1>9, <1>10, <1>11, Zenon DEF Quiet

\* A clock of the device keeps the handles in order.
LEMMA HandleDevice ==
    ASSUME CallInv, HandleInv, device_supply_clock_athrill_device
    PROVE  HandleInv'
<1>0. PICK c : c = word.core
  BY Zenon
<1>1. running /\ do_athrill_device_func_call /\ UNCHANGED program
  BY Zenon DEF device_supply_clock_athrill_device
<1>2. CASE word.to = "none"
  <2>1. UNCHANGED <<calls, host, running, program>>
    BY <1>1, <1>2, Zenon DEF do_athrill_device_func_call
  <2> QED
    BY <2>1, HandlesUnchanged, Zenon DEF host, program
<1>3. CASE word.to = "args"
  <2>1. c \in Cores /\ calls[c].api \in Wrapped /\ calls[c].served = "no"
    BY <1>0, <1>1, <1>3, Zenon DEF CallInv, Pending
  <2>2. /\ Id(calls[c].api) \in 0 .. SYS_API_ID_NUM - 1 /\ SYS_API_ID_NUM \in Nat
        /\ syscall_table[Id(calls[c].api) + 1] = calls[c].api
    BY <2>1, TableExact, WrappedAreHandled, Zenon
  <2>3. athrill_syscall_device(c)
    BY <1>0, <1>1, <1>3, Zenon DEF do_athrill_device_func_call
  <2>4. Handler(c, calls[c].api)
    BY <2>2, <2>3 DEF athrill_syscall_device
  <2> QED
    BY <1>1, <2>1, <2>4, HandlerKeeps, Zenon
<1>4. CASE word.to = "mmap"
  <2>1. c \in Cores /\ calls[c].api = "lock"
    BY <1>0, <1>1, <1>4, Zenon DEF CallInv, Pending
  <2>2. calls' = [calls EXCEPT ![c].served = "lock"] /\ UNCHANGED <<host, running, program>>
    BY <1>0, <1>1, <1>4, Zenon DEF do_athrill_device_func_call, LockFile
  <2>3. /\ calls'[c].served = "lock" /\ calls'[c].api = "lock"
        /\ \A d \in Cores : d # c => calls'[d] = calls[d]
    BY <2>1, <2>2 DEF CallInv
  <2>4. HandleTypes' /\ (StreamsPaired /\ ProgramHolds)'
    BY <1>1, <2>2, Zenon DEF host, program, HandleInv, HandleTypes, StreamsPaired, ProgramHolds, Usable
  <2>5. Asks(c)' /\ Gives(c)'
    BY <2>3, Zenon DEF Asks, Gives, Openers
  <2>6. \A d \in Cores : d # c => Asks(d)' /\ Gives(d)'
    BY <1>1, <2>2, <2>3 DEF host, program, HandleInv, Asks, Gives, Usable
  <2> QED
    BY <2>4, <2>5, <2>6, Zenon DEF HandleInv
<1> QED
  BY <1>2, <1>3, <1>4, Zenon DEF CallInv

\* What an instruction does to the handles and to the calls of the program.
LEMMA HandleInstruction ==
    ASSUME BatchLen = 1, Coordinated, CallInv, HandleInv, SyscallsNext,
           ~device_supply_clock_athrill_device, ~OtherProcess
    PROVE  HandleInv'
<1> USE SyscallsAssumption
<1>1. ASSUME NEW c \in Cores, Instruction(c), UNCHANGED <<calls, program>>
      PROVE  HandleInv'
  BY <1>1, HandlesUnchanged, Zenon DEF Instruction, host, program
<1>2. ASSUME NEW c \in Cores, NEW api \in Wrapped, NEW arg, NEW ret, ATHRILL_SYSCALL(c, api, arg, ret),
             fds' \subseteq fds, dirs' \subseteq dirs,
             api \in Openers => ret \in Int /\ ret <= 0,
             api = "opendir" => ret \in Dirs \cup {-1},
             api = "shutdown" => arg \in fds \ fds' /\ fd[arg] = "socket",
             api = "close" => arg \in fds \ fds',
             api = "closedir" => arg \in dirs \ dirs'
      PROVE  HandleInv'
  <2>1. /\ running /\ running' = running /\ UNCHANGED <<fd, special, dir>>
        /\ \A d \in Cores : calls[d] = NoCall
        /\ calls' = [calls EXCEPT ![c] = [api |-> api, arg |-> arg, ret |-> ret, served |-> "no"]]
    BY <1>2, Zenon DEF ATHRILL_SYSCALL, Instruction, MayCall, host
  <2>2. /\ calls'[c].api = api /\ calls'[c].arg = arg /\ calls'[c].ret = ret /\ calls'[c].served = "no"
        /\ \A d \in Cores : d # c => calls'[d] = NoCall
    BY <2>1, Zenon DEF CallInv
  <2>3. HandleTypes' /\ StreamsPaired' /\ ProgramHolds'
    BY <1>2, <2>1, Zenon DEF HandleInv, HandleTypes, StreamsPaired, ProgramHolds, Usable
  <2>4. \A d \in Cores : d # c => Asks(d)' /\ Gives(d)'
    BY <2>2, NoCallHolds, Zenon
  <2>5. Asks(c)'
    BY <1>2, <2>1, <2>2 DEF Asks, HandleInv, ProgramHolds, Usable
  <2>6. Gives(c)'
    BY <2>2, Zenon DEF Gives, Openers
  <2> QED
    BY <2>3, <2>4, <2>5, <2>6, Zenon DEF HandleInv
<1>3. ASSUME NEW c \in Cores, Lock(c) PROVE HandleInv'
  <2>1. /\ running /\ running' = running /\ UNCHANGED <<fd, special, dir, fds, dirs>>
        /\ \A d \in Cores : calls[d] = NoCall
        /\ calls' = [calls EXCEPT ![c] = [api |-> "lock", arg |-> 0, ret |-> 0, served |-> "no"]]
    BY <1>3, Zenon DEF Lock, Instruction, MayCall, host, program
  <2>2. /\ calls'[c].api = "lock" /\ \A d \in Cores : d # c => calls'[d] = NoCall
    BY <2>1, Zenon DEF CallInv
  <2>3. HandleTypes' /\ StreamsPaired' /\ ProgramHolds'
    BY <2>1, Zenon DEF HandleInv, HandleTypes, StreamsPaired, ProgramHolds, Usable
  <2>4. \A d \in Cores : Asks(d)' /\ Gives(d)'
    BY <2>2, NoCallHolds, Zenon DEF Asks, Gives, Openers
  <2> QED
    BY <2>3, <2>4, Zenon DEF HandleInv
<1>4. ASSUME NEW c \in Cores, Returns(c) PROVE HandleInv'
  <2>1. /\ running /\ turn = c /\ running' = running /\ UNCHANGED <<fd, special, dir>>
        /\ calls[c] # NoCall /\ calls' = [calls EXCEPT ![c] = NoCall]
    BY <1>4, Zenon DEF Returns, Instruction, host
  <2>2. calls[c].served = calls[c].api
    <3>1. ~Pending(c)
      BY <2>1 DEF Pending, Cores
    <3> QED
      BY <2>1, <3>1, Zenon DEF CallInv
  <2>3. \A d \in Cores : calls'[d] = NoCall
    BY <2>1, Zenon DEF CallInv
  <2>4. \A f \in fds' : Usable(f)
    BY <1>4, <2>1, <2>2, Zenon DEF Returns, HandleInv, ProgramHolds, Gives, Openers
  <2>5. \A d \in dirs' : d \in Dirs /\ dir[d].is_used
    BY <1>4, <2>1, <2>2, Zenon DEF Returns, HandleInv, ProgramHolds, Gives
  <2>6. HandleTypes' /\ StreamsPaired' /\ ProgramHolds'
    BY <2>1, <2>4, <2>5, Zenon DEF HandleInv, HandleTypes, StreamsPaired, ProgramHolds, Usable
  <2>7. \A d \in Cores : Asks(d)' /\ Gives(d)'
    BY <2>3, NoCallHolds, Zenon
  <2> QED
    BY <2>6, <2>7, Zenon DEF HandleInv
<1>5. ASSUME NEW c \in Cores, Other(c) \/ RaiseInterrupt(c) PROVE HandleInv'
  BY <1>1, <1>5, Zenon DEF Other, RaiseInterrupt
<1>6. ASSUME NEW c \in Cores,
             \/ athrill_posix_socket(c) \/ athrill_posix_select(c) \/ athrill_posix_system(c)
             \/ athrill_newlib_open_r(c) \/ athrill_set_virtfs_top(c)
             \/ athrill_posix_exit(c) \/ athrill_v850_set_intpri(c) \/ athrill_reset_time(c)
             \/ athrill_show_time(c)
      PROVE  HandleInv'
  <2>1. \E api \in {"socket", "select", "system", "open", "virtfs", "exit", "intpri", "reset_time",
                    "show_time"} : \E arg : \E ret \in {INVAL, -1, 0} :
           ATHRILL_SYSCALL(c, api, arg, ret) /\ Keeps
    BY <1>6, Zenon DEF athrill_posix_socket, athrill_posix_select, athrill_posix_system,
                athrill_newlib_open_r, athrill_set_virtfs_top, athrill_posix_exit,
                athrill_v850_set_intpri, athrill_reset_time, athrill_show_time
  <2> QED
    BY <1>2, <2>1 DEF Wrapped, Keeps, INVAL
<1>7. ASSUME NEW c \in Cores, athrill_ev3_opendir(c) PROVE HandleInv'
  BY <1>2, <1>7, Zenon DEF athrill_ev3_opendir, Wrapped, Openers, Keeps
<1>8. ASSUME NEW c \in Cores, NEW f,
             \/ athrill_posix_sense(c, f) \/ athrill_posix_bind(c, f) \/ athrill_posix_listen(c, f)
             \/ athrill_posix_accept(c, f) \/ athrill_posix_connect(c, f) \/ athrill_posix_send(c, f)
             \/ athrill_posix_recv(c, f) \/ athrill_newlib_read_r(c, f)
             \/ athrill_newlib_write_r(c, f) \/ athrill_newlib_lseek_r(c, f)
             \/ athrill_ev3_readdir(c, f) \/ athrill_ev3_serial_open(c, f)
      PROVE  HandleInv'
  <2>1. \E api \in {"sense", "bind", "listen", "accept", "connect", "send", "recv", "read", "write",
                    "lseek", "readdir", "serial_open"} : \E arg : \E ret \in {INVAL, -1, 0} :
           ATHRILL_SYSCALL(c, api, arg, ret) /\ Keeps
    BY <1>8, Zenon DEF athrill_posix_sense, athrill_posix_bind, athrill_posix_listen, athrill_posix_accept,
                athrill_posix_connect, athrill_posix_send, athrill_posix_recv,
                athrill_newlib_read_r, athrill_newlib_write_r, athrill_newlib_lseek_r,
                athrill_ev3_readdir, athrill_ev3_serial_open
  <2> QED
    BY <1>2, <2>1 DEF Wrapped, Keeps, INVAL
<1>9. ASSUME NEW c \in Cores, NEW f \in Sockets, athrill_posix_shutdown(c, f) PROVE HandleInv'
  BY <1>2, <1>9, Zenon DEF athrill_posix_shutdown, Sockets, Wrapped, Openers
<1>10. ASSUME NEW c \in Cores, NEW f \in fds, athrill_newlib_close_r(c, f) PROVE HandleInv'
  BY <1>2, <1>10, Zenon DEF athrill_newlib_close_r, Wrapped, Openers
<1>11. ASSUME NEW c \in Cores, NEW d \in dirs, athrill_ev3_closedir(c, d) PROVE HandleInv'
  BY <1>2, <1>11, Zenon DEF athrill_ev3_closedir, Wrapped, Openers
<1> QED
  BY <1>3, <1>4, <1>5, <1>6, <1>7, <1>8, <1>9, <1>10, <1>11, Zenon DEF SyscallsNext

\* The invariant says what HandlesSound does.
LEMMA HandlesFollow == HandleInv => HandlesSound
<1> SUFFICES ASSUME HandleInv, running PROVE HandlesSound
  BY Zenon DEF HandlesSound
<1>1. 0 \notin Fds
  BY DEF Fds
<1>2. \A f \in Fds : special[f] # 0 => fd[f] = "rx" /\ special[f] \in {-1} \cup {g \in Fds : fd[g] = "tx"}
  BY Zenon DEF HandleInv, HandleTypes, StreamsPaired
<1>3. ASSUME NEW f \in Fds, fd[f] = "tx"
      PROVE  \E g \in Fds : {h \in Fds : special[h] = f} = {g}
  <2>1. PICK g \in Fds : special[g] = f
    BY <1>3, Zenon DEF HandleInv, StreamsPaired
  <2>2. {h \in Fds : special[h] = f} = {g}
    BY <2>1, Zenon DEF HandleInv, StreamsPaired
  <2> QED
    BY <2>2, Zenon
<1> QED
  BY <1>2, <1>3, Zenon DEF HandlesSound, HandleInv, ProgramHolds, Usable

\* What the program was given is open, what it closed is closed at both ends, and
\* its view of the file lock is the host's, whatever the calls and their results.
THEOREM ResourcesAreSound ==
    ASSUME BatchLen = 1, Coordinated
    PROVE  SyscallsSpec => []ResourcesSound
<1>1. N \in Nat \ {0}
  BY SyscallsAssumption, Zenon
<1>2. SyscallsInit => CallInv /\ HandleInv
  <2> SUFFICES ASSUME SyscallsInit PROVE HandleInv
    BY <1>1, CallInit, Zenon
  <2>1. HandleTypes
    BY Zenon DEF SyscallsInit, HandleTypes, Kinds
  <2>2. StreamsPaired
    BY SyscallsAssumption DEF SyscallsInit, StreamsPaired, Fds
  <2>3. ProgramHolds
    BY Zenon DEF SyscallsInit, ProgramHolds
  <2>4. \A c \in Cores : Asks(c) /\ Gives(c)
    BY Zenon DEF SyscallsInit, Asks, Gives, NoCall, Openers
  <2> QED
    BY <2>1, <2>2, <2>3, <2>4, Zenon DEF HandleInv
<1>3. CallInv /\ HandleInv /\ [SyscallsNext]_syscallVars => (CallInv /\ HandleInv)'
  <2> SUFFICES ASSUME CallInv, HandleInv, [SyscallsNext]_syscallVars PROVE HandleInv'
    BY <1>1, CallStep, Zenon
  <2>1. CASE OtherProcess \/ UNCHANGED syscallVars
    BY <2>1, HandlesUnchanged, Zenon DEF OtherProcess, syscallVars, host, program
  <2> QED
    BY <2>1, HandleDevice, HandleInstruction, Zenon
<1>4. HandleInv => HandlesSound
  BY HandlesFollow, Zenon
<1>5. SyscallsSpec => []LockHeld
  BY LockIsHeld, Zenon
<1> QED
  BY <1>2, <1>3, <1>4, <1>5, PTL DEF SyscallsSpec, ResourcesSound
=============================================================================
