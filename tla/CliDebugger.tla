------------------------------ MODULE CliDebugger ------------------------------
(***************************************************************************)
(* The command line debugger (do_cui in main.cpp and the executors of      *)
(* dbg_std_executor.c) against the CPU thread.  A command is a short fixed *)
(* sequence of accesses to the shared state; Follow gives the sequence of  *)
(* each, and one action performs one access.  A command may be typed at    *)
(* any time, also while the CPU runs: the prompt does not wait for it.     *)
(***************************************************************************)
EXTENDS CpuThread

CONSTANTS Sessions,  \* for each kind of session, the commands the user types in it
          DriftMax   \* bound: "return" is not typed once the counter is this far below 0

Kinds == {"cont", "cont_clocks", "next", "return", "quit", "exit", "break", "delete",
          "delete_all", "core_on", "core_off", "core_all_on", "core_all_off"}

ASSUME CliAssumption == DriftMax \in Nat /\ Sessions \subseteq SUBSET Kinds

VARIABLES
    session,  \* the commands of this session
    cmd,      \* the command being executed, or the last one
    clean,    \* history: the CPU was parked when the command was typed
    last      \* history: the last command that set the continue timer, and its core

cliVars == <<session, cmd, clean, last>>
vars == <<shared, cpuVars, dbg, cliVars>>

\* The accesses of each command, in program order, from "idle" back to "idle".
Follow == [
    cont |-> [idle |-> "mode_none", mode_none |-> "timer_off", timer_off |-> "request",
              request |-> "idle"],
    cont_clocks |-> [idle |-> "mode_none", mode_none |-> "timer_on",
                     timer_on |-> "timer_clocks", timer_clocks |-> "request",
                     request |-> "wait_again", wait_again |-> "idle"],
    next |-> [idle |-> "timer_off", timer_off |-> "mode_normal", mode_normal |-> "request",
              request |-> "wait_again", wait_again |-> "idle"],
    return |-> [idle |-> "timer_off", timer_off |-> "once", once |-> "mode_none",
                mode_none |-> "request", request |-> "idle"],
    quit |-> [idle |-> "mode_force", mode_force |-> "wait_stopped",
              wait_stopped |-> "mode_normal", mode_normal |-> "idle"],
    exit |-> [idle |-> "mode_normal", mode_normal |-> "wait_stopped",
              wait_stopped |-> "exited"],
    break |-> [idle |-> "break", break |-> "idle"],
    delete |-> [idle |-> "delete", delete |-> "idle"],
    delete_all |-> [idle |-> "delete", delete |-> "idle"],
    core_on |-> [idle |-> "core_set", core_set |-> "core_check", core_check |-> "idle"],
    core_off |-> [idle |-> "core_set", core_set |-> "core_check", core_check |-> "idle"],
    core_all_on |-> [idle |-> "core_set", core_set |-> "idle"],
    core_all_off |-> [idle |-> "core_set", core_set |-> "idle"]]

DbgPoints == {"idle", "mode_none", "mode_normal", "mode_force", "timer_off", "timer_on",
              "timer_clocks", "request", "wait_again", "wait_stopped", "once", "break",
              "delete", "core_set", "core_check", "exited", "assert_failed"}

\* The argument of a command: an address, a slot, a core or a number of clocks.
Args(kind) ==
    CASE kind = "cont_clocks" -> 0 .. ClocksMax
      [] kind \in {"break", "return"} -> Addr
      [] kind = "delete" -> Slots
      [] kind \in {"core_on", "core_off"} -> Cores
      [] OTHER -> {0}

TypeOK ==
    /\ CpuTypeOK
    /\ dbg \in DbgPoints
    /\ session \in Sessions
    /\ cmd \in [kind : Kinds, arg : Nat]
    /\ clean \in BOOLEAN
    /\ last \in [kind : Kinds \cup {"none"}, core : Cores]

Init ==
    /\ CpuInit
    /\ dbg = "idle"
    /\ session \in Sessions
    /\ cmd = [kind |-> "quit", arg |-> 0]
    /\ clean = FALSE
    /\ last = [kind |-> "none", core |-> 0]

Proceed == dbg' = Follow[cmd.kind][dbg]

\* The commands that run the CPU for a while: their instructions are counted.
Bounded == {"cont_clocks", "next"}

\* do_cui reads a command line and calls its executor.
Type(kind, arg) ==
    /\ dbg = "idle"
    /\ kind = "return" => break_num > -DriftMax
    /\ cmd' = [kind |-> kind, arg |-> arg]
    /\ dbg' = Follow[kind].idle
    /\ clean' = Parked
    /\ executed' = [c \in Cores |-> IF Parked /\ kind \in Bounded THEN 0 ELSE ExecCap]
    /\ UNCHANGED <<shared, cpu, core, seen, pc, session, last>>

CmdMode(point, mode) ==
    /\ dbg = point
    /\ DbgSetMode(mode)
    /\ Proceed
    /\ UNCHANGED cliVars

CmdTimerFlag(point, is_timeout) ==
    /\ dbg = point
    /\ DbgSetContFlag(is_timeout)
    /\ last' = [kind |-> cmd.kind, core |-> stopped.core_id]
    /\ Proceed
    /\ UNCHANGED <<session, cmd, clean>>

CmdTimerClocks ==
    /\ dbg = "timer_clocks"
    /\ DbgSetContClocks(cmd.arg)
    /\ Proceed
    /\ UNCHANGED cliVars

CmdRequest ==
    /\ dbg = "request"
    /\ DbgRequestWakeup
    /\ Proceed
    /\ UNCHANGED cliVars

CmdWait(point, ready) ==
    /\ dbg = point
    /\ ready
    /\ Proceed
    /\ DbgLocal
    /\ UNCHANGED cliVars

\* dbg_std_executor_return: a one-shot break point on the return address of the core
\* that stopped last; there must be one.
CmdOnce ==
    /\ dbg = "once"
    /\ IF stopped.is_stopped
       THEN /\ DbgTable(SetBreak(break_points, cmd.arg, "ONLY_ONCE"),
                        break_num + SetBreakDelta(break_points, cmd.arg, "ONLY_ONCE"))
            /\ Proceed
       ELSE dbg' = "assert_failed" /\ DbgLocal
    /\ UNCHANGED cliVars

CmdBreak ==
    /\ dbg = "break"
    /\ DbgTable(SetBreak(break_points, cmd.arg, "FOREVER"),
                break_num + SetBreakDelta(break_points, cmd.arg, "FOREVER"))
    /\ Proceed
    /\ UNCHANGED cliVars

CmdDelete ==
    /\ dbg = "delete"
    /\ IF cmd.kind = "delete"
       THEN DbgTable(DelBreak(break_points, cmd.arg),
                     break_num - DelBreakDelta(break_points, cmd.arg))
       ELSE DbgTable(DelAllBreak(break_points, "FOREVER"),
                     DelAllBreakNum(break_points, break_num, "FOREVER"))
    /\ Proceed
    /\ UNCHANGED cliVars

\* dbg_std_executor_core. The single form takes the change back when it would leave
\* no core debugged; the "all" form does not look.
CmdCoreSet ==
    /\ dbg = "core_set"
    /\ LET on == cmd.kind \in {"core_on", "core_all_on"}
       IN  DbgSetCore(IF cmd.kind \in {"core_on", "core_off"}
                      THEN [core_debug EXCEPT ![cmd.arg] = on]
                      ELSE [c \in Cores |-> on])
    /\ Proceed
    /\ UNCHANGED cliVars

\* Mutation: the last debugged core is not restored.
CmdCoreCheck_NoRestore ==
    /\ dbg = "core_check"
    /\ DbgSetCore(core_debug)
    /\ Proceed
    /\ UNCHANGED cliVars

CmdCoreCheck ==
    /\ dbg = "core_check"
    /\ DbgSetCore(IF \A c \in Cores : ~core_debug[c]
                  THEN [core_debug EXCEPT ![cmd.arg] = TRUE] ELSE core_debug)
    /\ Proceed
    /\ UNCHANGED cliVars

Execute ==
    \/ CmdMode("mode_none", "NONE") \/ CmdMode("mode_normal", "NORMAL")
    \/ CmdMode("mode_force", "FORCE")
    \/ CmdTimerFlag("timer_off", FALSE) \/ CmdTimerFlag("timer_on", TRUE)
    \/ CmdTimerClocks \/ CmdRequest
    \/ CmdWait("wait_again", StoppedAgain) \/ CmdWait("wait_stopped", CpuStopped)
    \/ CmdOnce \/ CmdBreak \/ CmdDelete \/ CmdCoreSet \/ CmdCoreCheck

\* exit() and a failed ASSERT end the process, the CPU thread included.
Ended == dbg \in {"exited", "assert_failed"}
CpuStep == ~Ended /\ CpuNext /\ UNCHANGED cliVars
UserTypes == \E kind \in session : \E arg \in Args(kind) : Type(kind, arg)
StayEnded == Ended /\ UNCHANGED vars

Next == CpuStep \/ Execute \/ UserTypes \/ StayEnded

Spec == Init /\ [][Next]_vars

\* Both threads are scheduled; a poll loop looks again every 50 ms.
FairSpec == Spec /\ WF_vars(CpuStep) /\ WF_vars(Execute)

-----------------------------------------------------------------------------
Returned(kind) == dbg = "idle" /\ cmd.kind = kind /\ clean

\* "next", typed while the CPU is parked, returns with the CPU parked again after
\* exactly one instruction of one debugged core and at most one of any other core
\* (dbg_std_executor_next, cputhr_control_dbg_wakeup_cpu_and_wait_for_cpu_stopped).
NextStepsOnce ==
    Returned("next") =>
        /\ Parked
        /\ \A c \in Cores : executed[c] <= 1
        /\ \E c \in Cores : /\ executed[c] = 1
                            /\ \A d \in Cores \ {c} : core_debug[d] => executed[d] = 0

\* "cont <clocks>", typed while the CPU is parked, returns with the CPU parked again
\* after at most that many instructions of the core the timer was set on (and one when
\* <clocks> is 0): the count-down of cpuctrl_is_timeout_cont_clocks is not off by one.
ContClocksBounded ==
    Returned("cont_clocks") =>
        /\ Parked
        /\ executed[last.core] <= (IF cmd.arg = 0 THEN 1 ELSE cmd.arg)

\* A command that runs the CPU for a while runs it no longer; "cont <clocks>" only
\* while every core is debugged, since cpuctrl_is_timeout_cont_clocks is not reached for
\* the others.
ResumesBounded ==
    /\ "core_all_off" \notin session => NextStepsOnce
    /\ session \cap {"core_off", "core_all_off"} = {} => ContClocksBounded

\* A resuming command makes the CPU execute, also when it is typed before the CPU thread
\* has reached its wait: the request of cputhr_control_dbg_wakeup_cpu is not lost.
ResumeRuns == (dbg = "request") ~> (cpu = "end" \/ Ended)

\* Every command returns to the prompt or ends the process; the poll loops of
\* dbg_cpu_thread_control.c do not wait for a stop that never comes.
CommandsReturn == (dbg # "idle") ~> (dbg = "idle" \/ Ended)

-----------------------------------------------------------------------------
\* dbg_std_executor_core refuses a change with "all core must not be in non-debug mode":
\* after a change of one core some core is still debugged.
SomeCoreDebugged == dbg = "idle" => \E c \in Cores : core_debug[c]

\* The CPU stops at every break point that "break" has set and "delete" has not removed
\* (cpuctrl_is_break_point searches the table while the counter is positive).
UserBreakPointsStop ==
    \A i \in Slots : break_points[i].type = "FOREVER" =>
        IsBreakPoint(break_points, break_num, break_points[i].addr)

\* Both: whatever cores and break points the user changes, and whenever, the debugger
\* still gets hold of the CPU; but not when all cores are switched off at once, or when
\* "return" takes from the counter what it has not added.
DebuggerKeepsControl ==
    /\ TypeOK
    /\ "core_all_off" \notin session => SomeCoreDebugged
    /\ ~({"break", "return"} \subseteq session) => UserBreakPointsStop
=============================================================================
