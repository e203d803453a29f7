------------------------------- MODULE CpuThread -------------------------------
(***************************************************************************)
(* The CPU thread of the interactive modes and the state it shares with    *)
(* the debugger thread: the hand-over of dbg_cpu_thread_control.c, the     *)
(* debug mode, break points and continue timer of dbg_cpu_control.c, and   *)
(* the callbacks of dbg_cpu_callback.c that the main loop makes around     *)
(* every instruction.                                                      *)
(*                                                                         *)
(* One action is one access to shared state, so that the two threads       *)
(* interleave between any two of them; the critical sections of dbg_mutex  *)
(* are one action each.  What an instruction does to the program counter   *)
(* is left open.  The front ends (CliDebugger, GdbServer) extend this      *)
(* module with the debugger thread, whose control point is the variable    *)
(* dbg.                                                                    *)
(***************************************************************************)
EXTENDS BreakTable

CONSTANTS CoreNum,    \* cores the emulated CPU has
          ClocksMax,  \* largest <clocks> of a "cont <clocks>" command
          ExecCap     \* the history counter of instructions stops here

ASSUME CpuThreadAssumption ==
    /\ CoreNum \in Nat \ {0}
    /\ ClocksMax \in Nat
    /\ ExecCap \in Nat \ {0}

Cores == 0 .. CoreNum - 1

VARIABLES
    cputhr_state,      \* what dbg_cpu_thread_control.c says the CPU thread does
    wakeup_requested,  \* cputhr_wakeup_requested
    dbg_mode,          \* dbg_cpuctrl_dbg_mode
    break_points,      \* dbg_cpuctrl_break_points
    break_num,         \* dbg_cpuctrl_break_points_num
    cont,              \* dbg_cpu_cont, per core
    core_debug,        \* dbg_cpu_debug_mode, per core
    stopped,           \* dbg_cpu_stopped_core
    cpu,               \* control point of the CPU thread
    core,              \* core the CPU thread is running
    seen,              \* its local is_debug_mode
    pc,                \* program counter, per core
    dbg,               \* control point of the debugger thread
    executed           \* history: instructions run since the last command, per core

shared == <<cputhr_state, wakeup_requested, dbg_mode, break_points, break_num,
            cont, core_debug, stopped>>
cpuVars == <<cpu, core, seen, pc, executed>>

CpuPoints == {"start", "check_core", "check_cont", "check_break", "check_mode",
              "stop", "del_once", "enter_wait", "waiting", "resumed", "exec", "end"}

CpuTypeOK ==
    /\ cputhr_state \in {"RUNNING", "WAIT"}
    /\ wakeup_requested \in BOOLEAN
    /\ dbg_mode \in {"NONE", "NORMAL", "FORCE"}
    /\ break_points \in [Slots -> Entry]
    /\ break_num \in Int
    /\ cont \in [Cores -> [is_timeout : BOOLEAN, clocks : Nat]]
    /\ core_debug \in [Cores -> BOOLEAN]
    /\ stopped \in [is_stopped : BOOLEAN, core_id : Cores]
    /\ cpu \in CpuPoints
    /\ core \in Cores
    /\ seen \in BOOLEAN
    /\ pc \in [Cores -> Addr]
    /\ executed \in [Cores -> 0 .. ExecCap]

\* cpuemu_init and cputhr_control_start: every core is debugged and the thread
\* counts as running before it exists.
CpuInit ==
    /\ cputhr_state = "RUNNING"
    /\ wakeup_requested = FALSE
    /\ dbg_mode = "NORMAL"
    /\ break_points = InitTable
    /\ break_num = 0
    /\ cont = [c \in Cores |-> [is_timeout |-> FALSE, clocks |-> 0]]
    /\ core_debug = [c \in Cores |-> TRUE]
    /\ stopped = [is_stopped |-> FALSE, core_id |-> 0]
    /\ cpu = "start"
    /\ core = 0
    /\ seen = FALSE
    /\ pc \in [Cores -> Addr]
    /\ executed = [c \in Cores |-> 0]

IsDebugMode == dbg_mode # "NONE"
\* The CPU thread waits and nobody has asked it to run.
Parked == cpu = "waiting" /\ ~wakeup_requested

\* The counter of break points has no lock. When both threads update it at once
\* either update may be lost: new or, if the other thread is in an update, old.
Counter(old, new, racing) == IF racing THEN {old, new} ELSE {new}

-----------------------------------------------------------------------------
\* dbg_notify_cpu_clock_supply_start: the debug mode is read first ...
CpuReadMode ==
    /\ cpu = "start"
    /\ seen' = IsDebugMode
    /\ cpu' = "check_core"
    /\ UNCHANGED <<shared, core, pc, executed, dbg>>

\* ... a core that is not debugged runs on unless a stop is forced ...
CpuCheckCore ==
    /\ cpu = "check_core"
    /\ cpu' = IF dbg_mode # "FORCE" /\ ~core_debug[core] THEN "exec" ELSE "check_cont"
    /\ UNCHANGED <<shared, core, seen, pc, executed, dbg>>

\* Mutation: the last clock is counted once more.
TimedOut_AtZero(c) == cont[c].is_timeout /\ cont[c].clocks <= 0

\* ... the clocks of "cont <clocks>" are counted down ...
TimedOut(c) == cont[c].is_timeout /\ cont[c].clocks <= 1
CpuCheckCont ==
    /\ cpu = "check_cont"
    /\ cpu' = IF TimedOut(core) THEN "stop" ELSE "check_break"
    /\ cont' = IF cont[core].is_timeout /\ ~TimedOut(core)
               THEN [cont EXCEPT ![core].clocks = @ - 1] ELSE cont
    /\ UNCHANGED <<cputhr_state, wakeup_requested, dbg_mode, break_points, break_num,
                   core_debug, stopped, core, seen, pc, executed, dbg>>

\* ... the break points are looked up ...
CpuCheckBreak ==
    /\ cpu = "check_break"
    /\ cpu' = IF IsBreakPoint(break_points, break_num, pc[core]) THEN "stop" ELSE "check_mode"
    /\ UNCHANGED <<shared, core, seen, pc, executed, dbg>>

\* ... and the debug mode read at the start decides.
CpuCheckMode ==
    /\ cpu = "check_mode"
    /\ cpu' = IF seen THEN "stop" ELSE "exec"
    /\ UNCHANGED <<shared, core, seen, pc, executed, dbg>>

\* A stop: the core is recorded, the debug mode entered ...
CpuStop ==
    /\ cpu = "stop"
    /\ stopped' = [is_stopped |-> TRUE, core_id |-> core]
    /\ dbg_mode' = "NORMAL"
    /\ cpu' = "del_once"
    /\ UNCHANGED <<cputhr_state, wakeup_requested, break_points, break_num, cont,
                   core_debug, core, seen, pc, executed, dbg>>

\* ... the one-shot break points of "return" are removed ...
RemovesOnce == cpu = "del_once" /\ OfType(break_points, "ONLY_ONCE") # {}
CpuDelOnce ==
    /\ cpu = "del_once"
    /\ break_points' = DelAllBreak(break_points, "ONLY_ONCE")
    /\ break_num' \in Counter(break_num, DelAllBreakNum(break_points, break_num, "ONLY_ONCE"),
                              dbg \in {"break", "delete"})
    /\ cpu' = "enter_wait"
    /\ UNCHANGED <<cputhr_state, wakeup_requested, dbg_mode, cont, core_debug,
                   stopped, core, seen, pc, executed, dbg>>

\* Mutation: a request made before the wait is thrown away.
CpuEnterWait_DropsRequest ==
    /\ cpu = "enter_wait"
    /\ cputhr_state' = "WAIT" /\ wakeup_requested' = FALSE
    /\ cpu' = "waiting"
    /\ UNCHANGED <<dbg_mode, break_points, break_num, cont, core_debug,
                   stopped, core, seen, pc, executed, dbg>>

\* ... and cputhr_control_cpu_wait: the thread says that it waits ...
CpuEnterWait ==
    /\ cpu = "enter_wait"
    /\ cputhr_state' = "WAIT"
    /\ cpu' = "waiting"
    /\ UNCHANGED <<wakeup_requested, dbg_mode, break_points, break_num, cont, core_debug,
                   stopped, core, seen, pc, executed, dbg>>

\* Mutation: the request is not taken back.
CpuTakeWakeup_KeepsRequest ==
    /\ cpu = "waiting"
    /\ wakeup_requested
    /\ cputhr_state' = "RUNNING"
    /\ cpu' = "resumed"
    /\ UNCHANGED <<wakeup_requested, dbg_mode, break_points, break_num, cont, core_debug,
                   stopped, core, seen, pc, executed, dbg>>

\* ... until there is a request, which it takes.
CpuTakeWakeup ==
    /\ cpu = "waiting"
    /\ wakeup_requested
    /\ wakeup_requested' = FALSE
    /\ cputhr_state' = "RUNNING"
    /\ cpu' = "resumed"
    /\ UNCHANGED <<dbg_mode, break_points, break_num, cont, core_debug, stopped,
                   core, seen, pc, executed, dbg>>

\* cpu_supply_clock: one instruction of one core, with any effect on its pc.
CpuExec ==
    /\ cpu \in {"resumed", "exec"}
    /\ \E a \in Addr : pc' = [pc EXCEPT ![core] = a]
    /\ executed' = [executed EXCEPT ![core] = IF @ < ExecCap THEN @ + 1 ELSE @]
    /\ cpu' = "end"
    /\ UNCHANGED <<shared, core, seen, dbg>>

\* The rest of the core's turn: an exception in the instruction forces a stop, and
\* so does a watch point in dbg_notify_cpu_clock_supply_end. The next core follows.
CpuEnd ==
    /\ cpu = "end"
    /\ dbg_mode' \in {dbg_mode, "NORMAL"}
    /\ core' = (core + 1) % CoreNum
    /\ cpu' = "start"
    /\ UNCHANGED <<cputhr_state, wakeup_requested, break_points, break_num, cont,
                   core_debug, stopped, seen, pc, executed, dbg>>

CpuNext == \/ CpuReadMode \/ CpuCheckCore \/ CpuCheckCont \/ CpuCheckBreak
           \/ CpuCheckMode \/ CpuStop \/ CpuDelOnce \/ CpuEnterWait
           \/ CpuTakeWakeup \/ CpuExec \/ CpuEnd

-----------------------------------------------------------------------------
(* What the debugger thread does to the shared state.  Each operator is one *)
(* access and gives the next value of what it changes; it is conjoined to   *)
(* the front end's change of dbg.                                           *)

\* cpuctrl_set_debug_mode and cpuctrl_set_force_debug_mode.
DbgSetMode(mode) ==
    /\ dbg_mode' = mode
    /\ UNCHANGED <<cputhr_state, wakeup_requested, break_points, break_num, cont,
                   core_debug, stopped, cpuVars>>

\* cpuctrl_set_cont_clocks, on the core that stopped last. The flag is written first;
\* the clocks are read only while the flag is set.
DbgSetContFlag(is_timeout) ==
    /\ cont' = [cont EXCEPT ![stopped.core_id].is_timeout = is_timeout]
    /\ UNCHANGED <<cputhr_state, wakeup_requested, dbg_mode, break_points, break_num,
                   core_debug, stopped, cpuVars>>
DbgSetContClocks(clocks) ==
    /\ cont' = [cont EXCEPT ![stopped.core_id].clocks = clocks]
    /\ UNCHANGED <<cputhr_state, wakeup_requested, dbg_mode, break_points, break_num,
                   core_debug, stopped, cpuVars>>

\* The request and signal that cputhr_control_dbg_wakeup_cpu consists of.
DbgRequestWakeup ==
    /\ wakeup_requested' = TRUE
    /\ UNCHANGED <<cputhr_state, dbg_mode, break_points, break_num, cont, core_debug,
                   stopped, cpuVars>>

\* One poll of cputhr_control_dbg_wakeup_cpu_and_wait_for_cpu_stopped that ends it,
\* and one of cputhr_control_dbg_waitfor_cpu_stopped.
StoppedAgain == ~wakeup_requested /\ cputhr_state # "RUNNING"
CpuStopped == cputhr_state # "RUNNING"

\* cpuctrl_set_break, cpuctrl_del_break, cpuctrl_del_all_break.
DbgTable(table, num) ==
    /\ break_points' = table
    /\ break_num' \in Counter(break_num, num, RemovesOnce)
    /\ UNCHANGED <<cputhr_state, wakeup_requested, dbg_mode, cont, core_debug,
                   stopped, cpuVars>>

\* dbg_cpu_debug_mode_set.
DbgSetCore(modes) ==
    /\ core_debug' = modes
    /\ UNCHANGED <<cputhr_state, wakeup_requested, dbg_mode, break_points, break_num,
                   cont, stopped, cpuVars>>

\* A step of the debugger that touches nothing the CPU thread sees.
DbgLocal == UNCHANGED <<shared, cpuVars>>
=============================================================================
