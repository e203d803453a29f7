--------------------------- MODULE CliDebuggerProofs ---------------------------
(***************************************************************************)
(* The command line debugger keeps hold of the CPU, and a command that     *)
(* resumes the CPU for a while resumes it for no longer: for every number  *)
(* of cores, slots, addresses and clocks, and for every session.           *)
(***************************************************************************)
EXTENDS CliDebugger, BreakTableProofs

\* Which command an access belongs to.
Located ==
    /\ dbg = "mode_none" => cmd.kind \in {"cont", "cont_clocks", "return"}
    /\ dbg = "mode_normal" => cmd.kind \in {"next", "quit", "exit"}
    /\ dbg = "mode_force" => cmd.kind = "quit"
    /\ dbg = "timer_off" => cmd.kind \in {"cont", "next", "return"}
    /\ dbg \in {"timer_on", "timer_clocks"} => cmd.kind = "cont_clocks"
    /\ dbg = "request" => cmd.kind \in {"cont", "cont_clocks", "next", "return"}
    /\ dbg = "wait_again" => cmd.kind \in {"cont_clocks", "next"}
    /\ dbg = "wait_stopped" => cmd.kind \in {"quit", "exit"}
    /\ dbg = "once" => cmd.kind = "return"
    /\ dbg = "break" => cmd.kind = "break"
    /\ dbg = "delete" => cmd.kind \in {"delete", "delete_all"}
    /\ dbg = "core_set" => cmd.kind \in {"core_on", "core_off", "core_all_on", "core_all_off"}
    /\ dbg = "core_check" => cmd.kind \in {"core_on", "core_off"}

\* A command is one of the session, with an argument of its kind.
CommandInv ==
    /\ Located
    /\ dbg # "idle" \/ clean => cmd.kind \in session /\ cmd.arg \in Args(cmd.kind)

\* Some core is debugged but for the moment in which dbg_std_executor_core looks; all of
\* them are when no command of the session switches one off.
CoresInv ==
    /\ "core_all_off" \notin session /\ dbg # "core_check" => \E c \in Cores : core_debug[c]
    /\ session \cap {"core_off", "core_all_off"} = {} => \A c \in Cores : core_debug[c]

\* The only lasting break point is the fixed one of slot 0.
NoneOfUser == \A i \in Slots : break_points[i].type = "FOREVER" => i = 0

\* Without "return" the table is good; without "break" there is nothing to stop at but 0.
TableInv ==
    /\ "return" \notin session => GoodTable(break_points, break_num)
    /\ break_points[0] = [type |-> "FOREVER", addr |-> 0]
    /\ "break" \notin session => NoneOfUser

\* What dbg_cpu_thread_control.c says of the CPU thread is right.
HandInv == cputhr_state = "WAIT" <=> cpu = "waiting"
\* The timer of the core it was last set on is on for "cont <clocks>" only.
TimerInv == cont[last.core].is_timeout <=> last.kind = "cont_clocks"

\* No instruction has been counted yet.
Fresh == \A c \in Cores : executed[c] = 0

\* The cores that have had a turn from that of first to the one before next.
Turns(first, next) ==
    IF first < next THEN {c \in Cores : first <= c /\ c < next}
    ELSE {c \in Cores : first <= c \/ c < next}
\* The core whose turn is next.
Upto == IF cpu = "end" THEN (core + 1) % CoreNum ELSE core
\* One instruction of each core from first on; those after first are not debugged.
SteppedFrom(first) ==
    /\ \A c \in Cores : executed[c] = IF c \in Turns(first, Upto) THEN 1 ELSE 0
    /\ \A c \in Turns(first, Upto) \ {first} : ~core_debug[c]
Stepped == \E first \in Cores : SteppedFrom(first)

\* The points at which the CPU thread holds the debug mode it has read.
Checking == {"check_core", "check_cont", "check_break", "check_mode"}
\* The request is made or just taken.
Resumed == (cpu = "waiting" /\ wakeup_requested) \/ (cpu = "resumed" /\ ~wakeup_requested)

\* From the instruction that "next" has asked for to the next stop: every check of the
\* debug mode on the way says stop, and the cores that pass it are not debugged.
OnTheWay ==
    /\ ~wakeup_requested /\ cpu # "resumed" /\ Stepped /\ dbg_mode = "NORMAL"
    /\ cpu \in Checking => seen
    /\ cpu = "exec" => ~core_debug[core]

\* A "next" typed while the CPU is parked: nothing runs before the request; then one
\* instruction of the core that had stopped, and one of each that is not debugged, up
\* to the next debugged core.
NextInv ==
    cmd.kind = "next" /\ clean =>
        /\ dbg \in {"timer_off", "mode_normal", "request"} => Parked /\ Fresh
        /\ dbg \in {"request", "wait_again"} => dbg_mode = "NORMAL"
        /\ dbg = "wait_again" =>
             (Resumed /\ Fresh) \/ OnTheWay
        /\ dbg = "idle" => Parked /\ Stepped

\* The most instructions that "cont <clocks>" may run of its core.
Most == IF cmd.arg = 0 THEN 1 ELSE cmd.arg
\* The clocks left and the instructions run add up; once the clock of a turn is taken
\* off, the turn's instruction is still to come.
Within(run, clocks, taken) ==
    /\ run <= Most /\ run + clocks <= Most + 1
    /\ taken => run + clocks <= Most /\ clocks >= 1
Counting ==
    Within(executed[last.core], cont[last.core].clocks,
           cpu \in {"check_break", "check_mode", "exec"} /\ core = last.core)

\* A "cont <clocks>" typed while the CPU is parked: the timer is set before the request,
\* and from then on the clocks are counted.
ClocksInv ==
    cmd.kind = "cont_clocks" /\ clean =>
        /\ dbg \in {"mode_none", "timer_on", "timer_clocks", "request"} => Parked /\ Fresh
        /\ dbg = "timer_clocks" => last.core = stopped.core_id
        /\ dbg = "request" => cont[last.core].clocks = cmd.arg
        /\ dbg \in {"timer_clocks", "request", "wait_again"} => last.kind = "cont_clocks"
        /\ dbg = "wait_again" =>
             \/ Resumed /\ Fresh /\ cont[last.core].clocks = cmd.arg
             \/ ~wakeup_requested /\ cpu # "resumed" /\ Counting
        /\ dbg = "idle" => Parked /\ executed[last.core] <= Most

\* The invariant that a step preserves.
CliInv ==
    /\ TypeOK /\ CommandInv /\ CoresInv /\ TableInv /\ HandInv /\ TimerInv
    /\ "core_all_off" \notin session => NextInv
    /\ session \cap {"core_off", "core_all_off"} = {} => ClocksInv

-----------------------------------------------------------------------------
\* The constants are as the proofs need them.
LEMMA Constants ==
    /\ CoreNum \in Nat \ {0} /\ 0 \in Cores /\ Cores \subseteq Nat /\ ExecCap \in Nat \ {0}
    /\ 0 \in Addr /\ Addr \subseteq Nat /\ ClocksMax \in Nat
  BY CpuThreadAssumption, BreakTableAssumption DEF Cores

\* Follow, written out.
LEMMA Order ==
    /\ Follow["cont"]["idle"] = "mode_none" /\ Follow["cont"]["mode_none"] = "timer_off"
    /\ Follow["cont"]["timer_off"] = "request" /\ Follow["cont"]["request"] = "idle"
    /\ Follow["cont_clocks"]["idle"] = "mode_none"
    /\ Follow["cont_clocks"]["mode_none"] = "timer_on"
    /\ Follow["cont_clocks"]["timer_on"] = "timer_clocks"
    /\ Follow["cont_clocks"]["timer_clocks"] = "request"
    /\ Follow["cont_clocks"]["request"] = "wait_again"
    /\ Follow["cont_clocks"]["wait_again"] = "idle"
    /\ Follow["next"]["idle"] = "timer_off" /\ Follow["next"]["timer_off"] = "mode_normal"
    /\ Follow["next"]["mode_normal"] = "request" /\ Follow["next"]["request"] = "wait_again"
    /\ Follow["next"]["wait_again"] = "idle"
    /\ Follow["return"]["idle"] = "timer_off" /\ Follow["return"]["timer_off"] = "once"
    /\ Follow["return"]["once"] = "mode_none" /\ Follow["return"]["mode_none"] = "request"
    /\ Follow["return"]["request"] = "idle"
    /\ Follow["quit"]["idle"] = "mode_force" /\ Follow["quit"]["mode_force"] = "wait_stopped"
    /\ Follow["quit"]["wait_stopped"] = "mode_normal" /\ Follow["quit"]["mode_normal"] = "idle"
    /\ Follow["exit"]["idle"] = "mode_normal" /\ Follow["exit"]["mode_normal"] = "wait_stopped"
    /\ Follow["exit"]["wait_stopped"] = "exited"
    /\ Follow["break"]["idle"] = "break" /\ Follow["break"]["break"] = "idle"
    /\ Follow["delete"]["idle"] = "delete" /\ Follow["delete"]["delete"] = "idle"
    /\ Follow["delete_all"]["idle"] = "delete" /\ Follow["delete_all"]["delete"] = "idle"
    /\ Follow["core_on"]["idle"] = "core_set" /\ Follow["core_on"]["core_set"] = "core_check"
    /\ Follow["core_on"]["core_check"] = "idle"
    /\ Follow["core_off"]["idle"] = "core_set" /\ Follow["core_off"]["core_set"] = "core_check"
    /\ Follow["core_off"]["core_check"] = "idle"
    /\ Follow["core_all_on"]["idle"] = "core_set" /\ Follow["core_all_on"]["core_set"] = "idle"
    /\ Follow["core_all_off"]["idle"] = "core_set" /\ Follow["core_all_off"]["core_set"] = "idle"
  BY Zenon DEF Follow

\* The accesses of a command but for the first, and where each of them leads.
Moves ==
    \/ dbg = "mode_none" /\ cmd.kind = "cont" /\ dbg' = "timer_off"
    \/ dbg = "mode_none" /\ cmd.kind = "cont_clocks" /\ dbg' = "timer_on"
    \/ dbg = "mode_none" /\ cmd.kind = "return" /\ dbg' = "request"
    \/ dbg = "mode_normal" /\ cmd.kind = "next" /\ dbg' = "request"
    \/ dbg = "mode_normal" /\ cmd.kind = "quit" /\ dbg' = "idle"
    \/ dbg = "mode_normal" /\ cmd.kind = "exit" /\ dbg' = "wait_stopped"
    \/ dbg = "mode_force" /\ cmd.kind = "quit" /\ dbg' = "wait_stopped"
    \/ dbg = "timer_off" /\ cmd.kind = "cont" /\ dbg' = "request"
    \/ dbg = "timer_off" /\ cmd.kind = "next" /\ dbg' = "mode_normal"
    \/ dbg = "timer_off" /\ cmd.kind = "return" /\ dbg' = "once"
    \/ dbg = "timer_on" /\ cmd.kind = "cont_clocks" /\ dbg' = "timer_clocks"
    \/ dbg = "timer_clocks" /\ cmd.kind = "cont_clocks" /\ dbg' = "request"
    \/ dbg = "request" /\ cmd.kind \in {"cont", "return"} /\ dbg' = "idle"
    \/ dbg = "request" /\ cmd.kind \in {"cont_clocks", "next"} /\ dbg' = "wait_again"
    \/ dbg = "wait_again" /\ cmd.kind \in {"cont_clocks", "next"} /\ dbg' = "idle"
    \/ dbg = "wait_stopped" /\ cmd.kind = "quit" /\ dbg' = "mode_normal"
    \/ dbg = "wait_stopped" /\ cmd.kind = "exit" /\ dbg' = "exited"
    \/ dbg = "once" /\ cmd.kind = "return" /\ dbg' = "mode_none"
    \/ dbg = "break" /\ cmd.kind = "break" /\ dbg' = "idle"
    \/ dbg = "delete" /\ cmd.kind \in {"delete", "delete_all"} /\ dbg' = "idle"
    \/ dbg = "core_set" /\ cmd.kind \in {"core_on", "core_off"} /\ dbg' = "core_check"
    \/ dbg = "core_set" /\ cmd.kind \in {"core_all_on", "core_all_off"} /\ dbg' = "idle"
    \/ dbg = "core_check" /\ cmd.kind \in {"core_on", "core_off"} /\ dbg' = "idle"

\* A command under way takes its next access.
LEMMA Moved ==
    ASSUME Located, dbg \in DbgPoints \ {"idle", "exited", "assert_failed"}, Proceed
    PROVE  Moves
  BY Order DEF Located, Proceed, Moves, DbgPoints

\* The first access of a command.
First(kind) ==
    CASE kind \in {"cont", "cont_clocks"} -> "mode_none"
      [] kind \in {"next", "return"} -> "timer_off"
      [] kind = "quit" -> "mode_force"
      [] kind = "exit" -> "mode_normal"
      [] kind = "break" -> "break"
      [] kind \in {"delete", "delete_all"} -> "delete"
      [] OTHER -> "core_set"

\* A command starts with its first access.
LEMMA Started == ASSUME NEW kind \in Kinds PROVE Follow[kind].idle = First(kind)
  BY Order, Zenon DEF Kinds, First

-----------------------------------------------------------------------------
\* A step of the CPU thread keeps the types.
LEMMA CpuType == ASSUME TypeOK, CpuStep PROVE TypeOK'
<1> USE Constants DEF TypeOK, CpuTypeOK, cliVars
<1>1. CASE CpuReadMode
  BY <1>1, Zenon DEF CpuStep, shared, CpuReadMode, IsDebugMode, CpuPoints
<1>2. CASE CpuCheckCore
  BY <1>2, Zenon DEF CpuStep, shared, CpuCheckCore, CpuPoints
<1>3. CASE CpuCheckCont
  <2>1. cont' \in [Cores -> [is_timeout : BOOLEAN, clocks : Nat]]
    BY <1>3 DEF CpuCheckCont, TimedOut
  <2> QED
    BY <1>3, <2>1, Zenon DEF CpuStep, CpuCheckCont, CpuPoints
<1>4. CASE CpuCheckBreak
  BY <1>4, Zenon DEF CpuStep, shared, CpuCheckBreak, CpuPoints
<1>5. CASE CpuCheckMode
  BY <1>5, Zenon DEF CpuStep, shared, CpuCheckMode, CpuPoints
<1>6. CASE CpuStop
  BY <1>6, Zenon DEF CpuStep, CpuStop, CpuPoints
<1>7. CASE CpuDelOnce
  <2>1. break_points' \in [Slots -> Entry]
    BY <1>7, BreakTableAssumption, Zenon DEF CpuDelOnce, DelAllBreak, Entry, Free
  <2>2. break_num' \in Int
    <3>1. IsFiniteSet(OfType(break_points, "ONLY_ONCE"))
      BY SlotsNat, FS_Subset, Zenon DEF OfType
    <3>2. Cardinality(OfType(break_points, "ONLY_ONCE")) \in Nat
      BY <3>1, FS_CardinalityType, Zenon
    <3> QED
      BY <1>7, <3>2 DEF CpuDelOnce, Counter, DelAllBreakNum
  <2> QED
    BY <1>7, <2>1, <2>2, Zenon DEF CpuStep, CpuDelOnce, CpuPoints
<1>8. CASE CpuEnterWait
  BY <1>8, Zenon DEF CpuStep, CpuEnterWait, CpuPoints
<1>9. CASE CpuTakeWakeup
  BY <1>9, Zenon DEF CpuStep, CpuTakeWakeup, CpuPoints
<1>10. CASE CpuExec
  <2>1. pc' \in [Cores -> Addr]
    BY <1>10, Zenon DEF CpuExec
  <2>2. executed' \in [Cores -> 0 .. ExecCap]
    BY <1>10 DEF CpuExec
  <2> QED
    BY <1>10, <2>1, <2>2, Zenon DEF CpuStep, shared, CpuExec, CpuPoints
<1>11. CASE CpuEnd
  <2>1. core' \in Cores
    BY <1>11 DEF CpuEnd, Cores
  <2> QED
    BY <1>11, <2>1, Zenon DEF CpuStep, CpuEnd, CpuPoints
<1> QED
  BY <1>1, <1>2, <1>3, <1>4, <1>5, <1>6, <1>7, <1>8, <1>9, <1>10, <1>11, Zenon DEF CpuStep, CpuNext

\* What the accesses of a command have in common.
LEMMA Performed ==
    ASSUME TypeOK, CommandInv, Execute
    PROVE  /\ UNCHANGED <<session, cmd, clean, cpuVars, cputhr_state, stopped>>
           /\ Moves \/ (dbg = "once" /\ dbg' = "assert_failed")
           /\ dbg' \in DbgPoints
           /\ cmd.kind \in session /\ cmd.arg \in Args(cmd.kind)
<1>1. dbg \in DbgPoints \ {"idle", "exited", "assert_failed"}
  BY Zenon
  DEF Execute, CmdMode, CmdTimerFlag, CmdTimerClocks, CmdRequest, CmdWait, CmdOnce, CmdBreak,
      CmdDelete, CmdCoreSet, CmdCoreCheck, DbgPoints
<1>2. UNCHANGED <<session, cmd, clean, cpuVars, cputhr_state, stopped>>
  BY Zenon DEF Execute, CmdMode, CmdTimerFlag, CmdTimerClocks, CmdRequest, CmdWait, CmdOnce, CmdBreak,
         CmdDelete, CmdCoreSet, CmdCoreCheck, DbgSetMode, DbgSetContFlag, DbgSetContClocks,
         DbgRequestWakeup, DbgTable, DbgSetCore, DbgLocal, cliVars, shared
<1>3. Proceed \/ (dbg = "once" /\ dbg' = "assert_failed")
  BY Zenon
  DEF Execute, CmdMode, CmdTimerFlag, CmdTimerClocks, CmdRequest, CmdWait, CmdOnce, CmdBreak,
      CmdDelete, CmdCoreSet, CmdCoreCheck
<1>4. Moves \/ (dbg = "once" /\ dbg' = "assert_failed")
  BY <1>1, <1>3, Moved, Zenon DEF CommandInv
<1>5. dbg' \in DbgPoints
  BY <1>4, Zenon DEF Moves, DbgPoints
<1> QED
  BY <1>1, <1>2, <1>4, <1>5, Zenon DEF CommandInv

\* An access of a command keeps the types.
LEMMA ExecuteType == ASSUME TypeOK, CommandInv, Execute PROVE TypeOK'
<1>0. /\ UNCHANGED <<session, cmd, clean, cpuVars, cputhr_state, stopped>> /\ dbg' \in DbgPoints
      /\ cmd.arg \in Args(cmd.kind)
  BY Performed, Zenon
<1> USE <1>0, Constants DEF TypeOK, CpuTypeOK, cliVars, cpuVars
<1>1. ASSUME NEW point, NEW mode \in {"NONE", "NORMAL", "FORCE"}, CmdMode(point, mode)
      PROVE  TypeOK'
  BY <1>1, Zenon DEF CmdMode, DbgSetMode
<1>2. ASSUME NEW point, NEW flag \in BOOLEAN, CmdTimerFlag(point, flag)
      PROVE  TypeOK'
  <2>1. cont' \in [Cores -> [is_timeout : BOOLEAN, clocks : Nat]]
    BY <1>2 DEF CmdTimerFlag, DbgSetContFlag
  <2> QED
    BY <1>2, <2>1, Zenon DEF CmdTimerFlag, DbgSetContFlag
<1>3. CASE CmdTimerClocks
  <2>1. cont' \in [Cores -> [is_timeout : BOOLEAN, clocks : Nat]]
    BY <1>3 DEF CmdTimerClocks, DbgSetContClocks
  <2> QED
    BY <1>3, <2>1, Zenon DEF CmdTimerClocks, DbgSetContClocks
<1>4. CASE CmdRequest
  BY <1>4, Zenon DEF CmdRequest, DbgRequestWakeup
<1>5. ASSUME NEW point, NEW ready, CmdWait(point, ready) PROVE TypeOK'
  BY <1>5, Zenon DEF CmdWait, DbgLocal, shared
<1>6. ASSUME CmdOnce \/ CmdBreak \/ CmdDelete PROVE TypeOK'
  <2>1. /\ cmd.kind \in {"return", "break"} => cmd.arg \in Addr
        /\ cmd.kind = "delete" => cmd.arg \in Slots
    BY Zenon DEF Args
  <2>2. CASE CmdOnce /\ ~stopped.is_stopped
    BY <2>2, Zenon DEF CmdOnce, DbgLocal, shared
  <2>3. ASSUME NEW type \in BreakType, cmd.arg \in Addr,
               DbgTable(SetBreak(break_points, cmd.arg, type),
                        break_num + SetBreakDelta(break_points, cmd.arg, type)), UNCHANGED cliVars
        PROVE  TypeOK'
    <3>1. break_points' \in [Slots -> Entry]
      BY <2>3, Zenon DEF DbgTable, SetBreak, Entry
    <3>2. break_num' \in Int
      BY <2>3 DEF DbgTable, SetBreakDelta, Counter
    <3> QED
      BY <2>3, <3>1, <3>2, Zenon DEF DbgTable
  <2>4. CASE CmdDelete
    <3>1. break_points' \in [Slots -> Entry]
      BY <2>4 DEF CmdDelete, DbgTable, DelBreak, DelAllBreak, Entry, Free
    <3>2. break_num' \in Int
      BY <2>4 DEF CmdDelete, DbgTable, DelBreakDelta, DelAllBreakNum, Counter
    <3> QED
      BY <2>4, <3>1, <3>2, Zenon DEF CmdDelete, DbgTable
  <2>5. CASE (CmdOnce /\ stopped.is_stopped) \/ CmdBreak
    BY <2>1, <2>3, <2>5, Zenon DEF CmdOnce, CmdBreak, BreakType, CommandInv, Located
  <2> QED
    BY <1>6, <2>2, <2>4, <2>5, Zenon
<1>7. CASE CmdCoreSet \/ CmdCoreCheck
  <2>1. core_debug' \in [Cores -> BOOLEAN]
    <3>1. \A on \in BOOLEAN, c \in Cores : [core_debug EXCEPT ![c] = on] \in [Cores -> BOOLEAN]
      BY Zenon
    <3>2. \A on \in BOOLEAN : [c \in Cores |-> on] \in [Cores -> BOOLEAN]
      BY Zenon
    <3>3. cmd.kind \in {"core_on", "core_off"} => cmd.arg \in Cores
      BY Zenon DEF Args
    <3>4. CASE CmdCoreSet
      <4>1. (cmd.kind \in {"core_on", "core_all_on"}) \in BOOLEAN
        OBVIOUS
      <4>2. CASE cmd.kind \in {"core_on", "core_off"}
        BY <3>1, <3>3, <3>4, <4>1, <4>2, Zenon DEF CmdCoreSet, DbgSetCore
      <4>3. CASE cmd.kind \notin {"core_on", "core_off"}
        BY <3>2, <3>4, <4>1, <4>3, Zenon DEF CmdCoreSet, DbgSetCore
      <4> QED
        BY <4>2, <4>3, Zenon
    <3>5. CASE CmdCoreCheck
      BY <3>1, <3>3, <3>5, Zenon DEF CmdCoreCheck, DbgSetCore, CommandInv, Located
    <3> QED
      BY <1>7, <3>4, <3>5, Zenon
  <2> QED
    BY <1>7, <2>1, Zenon DEF CmdCoreSet, CmdCoreCheck, DbgSetCore
<1> QED
  BY <1>1, <1>2, <1>3, <1>4, <1>5, <1>6, <1>7, Zenon DEF Execute

\* So does typing a command.
LEMMA UserType ==
    ASSUME TypeOK, UserTypes
    PROVE  TypeOK'
<1>1. PICK kind, arg : kind \in session /\ arg \in Args(kind) /\ Type(kind, arg)
  BY Zenon DEF UserTypes
<1>2. kind \in Kinds
  BY <1>1, CliAssumption, Zenon DEF TypeOK
<1>3. arg \in Nat
  BY <1>1, Constants, SlotsNat DEF Args
<1>4. dbg' \in DbgPoints
  BY <1>1, <1>2, Started, Zenon DEF Type, First, DbgPoints
<1>5. executed' \in [Cores -> 0 .. ExecCap]
  BY <1>1, Constants DEF Type
<1> QED
  BY <1>1, <1>2, <1>3, <1>4, <1>5, Zenon DEF Type, TypeOK, CpuTypeOK, shared, Parked

-----------------------------------------------------------------------------
\* Every step keeps the command and its control point in step.
LEMMA CommandKept ==
    ASSUME TypeOK, CommandInv, CpuStep \/ Execute \/ UserTypes
    PROVE  CommandInv'
<1>1. CASE CpuStep
  BY <1>1, Zenon DEF CpuStep, CpuNext, CpuReadMode, CpuCheckCore, CpuCheckCont, CpuCheckBreak,
              CpuCheckMode, CpuStop, CpuDelOnce, CpuEnterWait, CpuTakeWakeup, CpuExec, CpuEnd,
              cliVars, CommandInv, Located
<1>2. CASE Execute
  <2>1. Located'
    BY <1>2, Performed, Zenon DEF Moves, Located
  <2> QED
    BY <1>2, <2>1, Performed, Zenon DEF CommandInv
<1>3. CASE UserTypes
  <2>1. PICK kind, arg : kind \in session /\ arg \in Args(kind) /\ Type(kind, arg)
    BY <1>3, Zenon DEF UserTypes
  <2>2. kind \in Kinds
    BY <2>1, CliAssumption, Zenon DEF TypeOK
  <2>3. cmd' = [kind |-> kind, arg |-> arg] /\ dbg' = First(kind) /\ session' = session
    BY <2>1, <2>2, Started, Zenon DEF Type
  <2>4. Located'
    BY <2>2, <2>3, Zenon DEF Located, First, Kinds
  <2> QED
    BY <2>1, <2>3, <2>4, Zenon DEF CommandInv
<1> QED
  BY <1>1, <1>2, <1>3, Zenon

\* Every step keeps the published state of the CPU thread right.
LEMMA HandKept ==
    ASSUME TypeOK, CommandInv, HandInv, CpuStep \/ Execute \/ UserTypes
    PROVE  HandInv'
<1>1. CASE CpuStep
  BY <1>1, Zenon DEF CpuStep, CpuNext, CpuReadMode, CpuCheckCore, CpuCheckCont, CpuCheckBreak,
              CpuCheckMode, CpuStop, CpuDelOnce, CpuEnterWait, CpuTakeWakeup, CpuExec, CpuEnd,
              shared, HandInv
<1>2. CASE Execute
  BY <1>2, Performed, Zenon DEF HandInv, cpuVars
<1>3. CASE UserTypes
  BY <1>3, Zenon DEF UserTypes, Type, shared, HandInv
<1> QED
  BY <1>1, <1>2, <1>3, Zenon

\* Every step keeps the timer in step with the command that set it last.
LEMMA TimerKept ==
    ASSUME TypeOK, CommandInv, TimerInv, CpuStep \/ Execute \/ UserTypes
    PROVE  TimerInv'
<1>0. last.core \in Cores /\ stopped.core_id \in Cores /\ core \in Cores
      /\ cont \in [Cores -> [is_timeout : BOOLEAN, clocks : Nat]]
  BY Zenon DEF TypeOK, CpuTypeOK
<1>1. CASE CpuStep
  <2>1. last' = last
    BY <1>1, Zenon DEF CpuStep, cliVars
  <2>2. CASE CpuCheckCont
    <3>1. \A c \in Cores : cont'[c].is_timeout = cont[c].is_timeout
      BY <1>0, <2>2, Zenon DEF CpuCheckCont
    <3> QED
      BY <1>0, <2>1, <3>1, Zenon DEF TimerInv
  <2>3. CASE ~CpuCheckCont
    <3>1. cont' = cont
      BY <1>1, <2>3, Zenon DEF CpuStep, CpuNext, CpuReadMode, CpuCheckCore, CpuCheckBreak,
              CpuCheckMode, CpuStop, CpuDelOnce, CpuEnterWait, CpuTakeWakeup, CpuExec, CpuEnd,
              shared
    <3> QED
      BY <2>1, <3>1, Zenon DEF TimerInv
  <2> QED
    BY <2>2, <2>3, Zenon
<1>2. CASE Execute
  <2>1. ASSUME NEW point \in {"timer_off", "timer_on"}, NEW flag \in BOOLEAN,
               flag <=> point = "timer_on", CmdTimerFlag(point, flag)
        PROVE  TimerInv'
    <3>1. last' = [kind |-> cmd.kind, core |-> stopped.core_id]
      BY <2>1, Zenon DEF CmdTimerFlag
    <3>2. cont'[stopped.core_id].is_timeout = flag
      BY <1>0, <2>1, Zenon DEF CmdTimerFlag, DbgSetContFlag
    <3>3. flag <=> cmd.kind = "cont_clocks"
      BY <2>1, Zenon DEF CmdTimerFlag, CommandInv, Located
    <3> QED
      BY <3>1, <3>2, <3>3, Zenon DEF TimerInv
  <2>2. CASE CmdTimerClocks
    <3>1. \A c \in Cores : cont'[c].is_timeout = cont[c].is_timeout
      BY <1>0, <2>2, Zenon DEF CmdTimerClocks, DbgSetContClocks
    <3> QED
      BY <1>0, <2>2, <3>1, Zenon DEF TimerInv, CmdTimerClocks, cliVars
  <2>3. CASE ~(CmdTimerFlag("timer_off", FALSE) \/ CmdTimerFlag("timer_on", TRUE) \/ CmdTimerClocks)
    BY <1>2, <2>3, Zenon
       DEF Execute, CmdMode, CmdRequest, CmdWait, CmdOnce, CmdBreak, CmdDelete, CmdCoreSet,
           CmdCoreCheck, DbgSetMode, DbgRequestWakeup, DbgTable, DbgSetCore, DbgLocal, cliVars,
           shared, TimerInv
  <2> QED
    BY <2>1, <2>2, <2>3, Zenon
<1>3. CASE UserTypes
  BY <1>3, Zenon DEF UserTypes, Type, shared, TimerInv
<1> QED
  BY <1>1, <1>2, <1>3, Zenon

\* Every step keeps some core debugged.
LEMMA CoresKept ==
    ASSUME TypeOK, CommandInv, CoresInv, CpuStep \/ Execute \/ UserTypes
    PROVE  CoresInv'
<1>1. ASSUME UNCHANGED <<session, core_debug>>, dbg = "core_check" => dbg' = "core_check"
      PROVE  CoresInv'
  BY <1>1, Zenon DEF CoresInv
<1>2. CASE CpuStep
  BY <1>1, <1>2, Zenon DEF CpuStep, CpuNext, CpuReadMode, CpuCheckCore, CpuCheckCont, CpuCheckBreak,
              CpuCheckMode, CpuStop, CpuDelOnce, CpuEnterWait, CpuTakeWakeup, CpuExec, CpuEnd,
              shared, cliVars
<1>3. CASE UserTypes
  BY <1>1, <1>3, Zenon DEF UserTypes, Type, shared
<1>4. CASE Execute
  <2>0. /\ session' = session /\ core_debug \in [Cores -> BOOLEAN] /\ 0 \in Cores
        /\ cmd.kind \in session
        /\ cmd.kind \in {"core_on", "core_off"} => cmd.arg \in Cores
    BY <1>4, Performed, Constants, Zenon DEF TypeOK, CpuTypeOK, Args
  <2>1. CASE CmdCoreSet
    <3>1. CASE cmd.kind = "core_on"
      <4>1. core_debug' = [core_debug EXCEPT ![cmd.arg] = TRUE]
        BY <2>1, <3>1, Zenon DEF CmdCoreSet, DbgSetCore
      <4> QED
        BY <2>0, <3>1, <4>1, Zenon DEF CoresInv
    <3>2. CASE cmd.kind = "core_off"
      BY <1>4, <2>0, <2>1, <3>2, Performed, Zenon DEF CoresInv, Moves, CmdCoreSet
    <3>3. CASE cmd.kind = "core_all_on"
      <4>1. core_debug' = [c \in Cores |-> TRUE]
        BY <2>1, <3>3, Zenon DEF CmdCoreSet, DbgSetCore
      <4> QED
        BY <2>0, <4>1, Zenon DEF CoresInv
    <3>4. CASE cmd.kind = "core_all_off"
      BY <2>0, <3>4, Zenon DEF CoresInv
    <3> QED
      BY <2>1, <3>1, <3>2, <3>3, <3>4, Zenon DEF CmdCoreSet, CommandInv, Located
  <2>2. CASE CmdCoreCheck
    <3>1. cmd.arg \in Cores
      BY <2>0, <2>2, Zenon DEF CmdCoreCheck, CommandInv, Located
    <3>2. CASE \A c \in Cores : ~core_debug[c]
      <4>1. core_debug' = [core_debug EXCEPT ![cmd.arg] = TRUE]
        BY <2>2, <3>2, Zenon DEF CmdCoreCheck, DbgSetCore
      <4> QED
        BY <2>0, <3>1, <3>2, <4>1, Zenon DEF CoresInv
    <3>3. CASE \E c \in Cores : core_debug[c]
      <4>1. core_debug' = core_debug
        BY <2>2, <3>3, Zenon DEF CmdCoreCheck, DbgSetCore
      <4> QED
        BY <2>0, <3>3, <4>1, Zenon DEF CoresInv
    <3> QED
      BY <3>2, <3>3, Zenon
  <2>3. CASE ~(CmdCoreSet \/ CmdCoreCheck)
    BY <1>1, <1>4, <2>0, <2>3, Zenon
       DEF Execute, CmdMode, CmdTimerFlag, CmdTimerClocks, CmdRequest, CmdWait, CmdOnce, CmdBreak,
           CmdDelete, DbgSetMode, DbgSetContFlag, DbgSetContClocks, DbgRequestWakeup, DbgTable,
           DbgLocal, shared
  <2> QED
    BY <2>1, <2>2, <2>3, Zenon
<1> QED
  BY <1>2, <1>3, <1>4, Zenon

-----------------------------------------------------------------------------
\* Clearing a slot that is not in use changes nothing that counts.
LEMMA DelUnusedGood ==
    ASSUME NEW t, NEW num, GoodTable(t, num), NEW k \in Slots, ~IsSet(t, k)
    PROVE  GoodTable(DelBreak(t, k), num - DelBreakDelta(t, k))
<1>1. k # 0 /\ DelBreakDelta(t, k) = 0 /\ DelBreak(t, k) = [t EXCEPT ![k] = Free]
  BY DEF GoodTable, IsSet, DelBreakDelta, DelBreak
<1>2. PICK u : u = [t EXCEPT ![k] = Free]
  BY Zenon
<1>3. u \in [Slots -> Entry] /\ \A i \in Slots : u[i] = IF i = k THEN Free ELSE t[i]
  BY <1>2, BreakTableAssumption, Zenon DEF GoodTable, Entry, Free
<1>4. \A i \in Slots : IsSet(u, i) <=> IsSet(t, i)
  BY <1>3 DEF IsSet, Free
<1>5. Used(u) = Used(t)
  BY <1>4, Zenon DEF Used
<1>6. num \in Nat
  BY UsedFinite, FS_CardinalityType, Zenon DEF GoodTable
<1>7. 0 \in Slots
  BY SlotsNat, Zenon
<1>8. GoodTable(u, num)
  <2>1. \A i \in Slots : u[i].type # "ONLY_ONCE"
    BY <1>3 DEF GoodTable, Free
  <2>2. u[0] = [type |-> "FOREVER", addr |-> 0]
    BY <1>1, <1>3, <1>7, Zenon DEF GoodTable
  <2>3. \A i, j \in Slots : IsSet(u, i) /\ IsSet(u, j) /\ u[i].addr = u[j].addr => i = j
    BY <1>3, <1>4, Zenon DEF GoodTable
  <2> QED
    BY <1>3, <1>5, <2>1, <2>2, <2>3, Zenon DEF GoodTable
<1> QED
  BY <1>1, <1>2, <1>6, <1>8

\* While there is no one-shot break point, an update of the counter is not lost.
LEMMA NoRace ==
    ASSUME GoodTable(break_points, break_num), NEW table, NEW num, DbgTable(table, num)
    PROVE  break_points' = table /\ break_num' = num
  BY NothingOnce, Zenon DEF DbgTable, RemovesOnce, Counter

\* What any command does to a table of which the user has no break point.
LEMMA DeletesNothing ==
    ASSUME TypeOK, NEW t \in [Slots -> Entry], t[0] = [type |-> "FOREVER", addr |-> 0]
    PROVE  /\ \A k \in Slots : DelBreak(t, k)[0] = t[0]
           /\ \A k, i \in Slots : DelBreak(t, k)[i].type = "FOREVER" => t[i].type = "FOREVER"
           /\ \A type \in BreakType :
                 /\ DelAllBreak(t, type)[0] = t[0]
                 /\ \A i \in Slots :
                       DelAllBreak(t, type)[i].type = "FOREVER" => t[i].type = "FOREVER"
           /\ \A a \in Addr, type \in BreakType : SetBreak(t, a, type)[0] = t[0]
           /\ \A a \in Addr, i \in Slots :
                 SetBreak(t, a, "ONLY_ONCE")[i].type = "FOREVER" => t[i].type = "FOREVER"
<1>0. 0 \in Slots
  BY SlotsNat, Zenon
<1>1. /\ \A k \in Slots : DelBreak(t, k)[0] = t[0]
      /\ \A k, i \in Slots : DelBreak(t, k)[i].type = "FOREVER" => t[i].type = "FOREVER"
  BY <1>0, Zenon DEF DelBreak, Free
<1>2. \A type \in BreakType :
         /\ DelAllBreak(t, type)[0] = t[0]
         /\ \A i \in Slots : DelAllBreak(t, type)[i].type = "FOREVER" => t[i].type = "FOREVER"
  BY <1>0, Zenon DEF DelAllBreak, OfType, Free
<1>3. ASSUME NEW a \in Addr, NEW type \in BreakType
      PROVE  /\ SetBreak(t, a, type)[0] = t[0]
             /\ \A i \in Slots : type = "ONLY_ONCE" /\ SetBreak(t, a, type)[i].type = "FOREVER" =>
                   t[i].type = "FOREVER"
  <2>1. CASE ~AddsEntry(t, a, type)
    BY <2>1, Zenon DEF SetBreak
  <2>2. CASE AddsEntry(t, a, type)
    <3>1. PICK k \in FreeSlots(t) :
             SetBreak(t, a, type) = [t EXCEPT ![k] = [type |-> type, addr |-> a]]
      BY <2>2, FirstFreeIsFree, Zenon DEF SetBreak, AddsEntry
    <3>2. k \in Slots /\ k # 0
      BY DEF FreeSlots, IsSet
    <3> QED
      BY <1>0, <3>1, <3>2
  <2> QED
    BY <2>1, <2>2, Zenon
<1> QED
  BY <1>1, <1>2, <1>3, Zenon DEF BreakType

\* A change of the table that keeps it in order, however its counter is raced for.
LEMMA TableChanged ==
    ASSUME TypeOK, TableInv, UNCHANGED session, NEW table, NEW num, DbgTable(table, num),
           "return" \notin session => GoodTable(table, num),
           table[0] = break_points[0],
           "break" \notin session =>
              \A i \in Slots : table[i].type = "FOREVER" => break_points[i].type = "FOREVER"
    PROVE  TableInv'
<1>1. break_points' = table
  BY Zenon DEF DbgTable
<1>2. "return" \notin session => GoodTable(break_points', break_num')
  BY NoRace, Zenon DEF TableInv
<1> QED
  BY <1>1, <1>2, Zenon DEF TableInv, NoneOfUser

\* Every step keeps the table in order.
LEMMA TableKept ==
    ASSUME TypeOK, CommandInv, TableInv, CpuStep \/ Execute \/ UserTypes
    PROVE  TableInv'
<1>1. ASSUME UNCHANGED <<session, break_points, break_num>> PROVE TableInv'
  BY <1>1, Zenon DEF TableInv, NoneOfUser
<1>2. break_points \in [Slots -> Entry] /\ break_points[0] = [type |-> "FOREVER", addr |-> 0]
  BY Zenon DEF TypeOK, CpuTypeOK, TableInv
<1>3. CASE CpuStep
  <2>1. CASE CpuDelOnce
    <3>1. session' = session /\ break_points' = DelAllBreak(break_points, "ONLY_ONCE")
      BY <1>3, <2>1, Zenon DEF CpuStep, CpuDelOnce, cliVars
    <3>2. "return" \notin session => break_points' = break_points /\ break_num' = break_num
      BY <2>1, <3>1, NothingOnce, Zenon DEF CpuDelOnce, Counter, TableInv
    <3>3. /\ break_points'[0] = break_points[0]
          /\ \A i \in Slots : break_points'[i].type = "FOREVER" => break_points[i].type = "FOREVER"
      BY <1>2, <3>1, DeletesNothing, Zenon DEF BreakType
    <3> QED
      BY <3>1, <3>2, <3>3, Zenon DEF TableInv, NoneOfUser
  <2>2. CASE ~CpuDelOnce
    BY <1>1, <1>3, <2>2, Zenon
       DEF CpuStep, CpuNext, CpuReadMode, CpuCheckCore, CpuCheckCont, CpuCheckBreak, CpuCheckMode,
           CpuStop, CpuEnterWait, CpuTakeWakeup, CpuExec, CpuEnd, shared, cliVars
  <2> QED
    BY <2>1, <2>2, Zenon
<1>4. CASE UserTypes
  BY <1>1, <1>4, Zenon DEF UserTypes, Type, shared
<1>5. CASE Execute
  <2>0. session' = session /\ cmd.kind \in session /\ cmd.arg \in Args(cmd.kind)
    BY <1>5, Performed, Zenon
  <2>1. CASE CmdOnce
    <3>1. cmd.kind = "return" /\ cmd.arg \in Addr
      BY <2>0, <2>1, Zenon DEF CmdOnce, CommandInv, Located, Args
    <3>2. CASE stopped.is_stopped
      <4>1. DbgTable(SetBreak(break_points, cmd.arg, "ONLY_ONCE"),
                     break_num + SetBreakDelta(break_points, cmd.arg, "ONLY_ONCE"))
        BY <2>1, <3>2, Zenon DEF CmdOnce
      <4>2. /\ SetBreak(break_points, cmd.arg, "ONLY_ONCE")[0] = break_points[0]
            /\ \A i \in Slots : SetBreak(break_points, cmd.arg, "ONLY_ONCE")[i].type = "FOREVER" =>
                  break_points[i].type = "FOREVER"
        BY <1>2, <3>1, DeletesNothing, Zenon DEF BreakType
      <4> QED
        BY <2>0, <3>1, <4>1, <4>2, TableChanged, Zenon
    <3>3. CASE ~stopped.is_stopped
      BY <1>1, <2>1, <3>3, Zenon DEF CmdOnce, DbgLocal, shared, cliVars
    <3> QED
      BY <3>2, <3>3, Zenon
  <2>2. CASE CmdBreak
    <3>1. cmd.kind = "break" /\ cmd.arg \in Addr
      BY <2>0, <2>2, Zenon DEF CmdBreak, CommandInv, Located, Args
    <3>2. DbgTable(SetBreak(break_points, cmd.arg, "FOREVER"),
                   break_num + SetBreakDelta(break_points, cmd.arg, "FOREVER"))
      BY <2>2, Zenon DEF CmdBreak
    <3>3. "return" \notin session =>
             GoodTable(SetBreak(break_points, cmd.arg, "FOREVER"),
                       break_num + SetBreakDelta(break_points, cmd.arg, "FOREVER"))
      BY <3>1, SetBreakGood, Zenon DEF TableInv
    <3>4. SetBreak(break_points, cmd.arg, "FOREVER")[0] = break_points[0]
      BY <1>2, <3>1, DeletesNothing, Zenon DEF BreakType
    <3> QED
      BY <2>0, <3>1, <3>2, <3>3, <3>4, TableChanged, Zenon
  <2>3. CASE CmdDelete
    <3>1. CASE cmd.kind = "delete"
      <4>1. cmd.arg \in Slots
        BY <2>0, <3>1, Zenon DEF Args
      <4>2. DbgTable(DelBreak(break_points, cmd.arg),
                     break_num - DelBreakDelta(break_points, cmd.arg))
        BY <2>3, <3>1, Zenon DEF CmdDelete
      <4>3. "return" \notin session =>
               GoodTable(DelBreak(break_points, cmd.arg),
                         break_num - DelBreakDelta(break_points, cmd.arg))
        BY <4>1, DelBreakGood, DelUnusedGood, Zenon DEF TableInv
      <4>4. /\ DelBreak(break_points, cmd.arg)[0] = break_points[0]
            /\ \A i \in Slots : DelBreak(break_points, cmd.arg)[i].type = "FOREVER" =>
                  break_points[i].type = "FOREVER"
        BY <1>2, <4>1, DeletesNothing, Zenon
      <4> QED
        BY <2>0, <4>2, <4>3, <4>4, TableChanged, Zenon
    <3>2. CASE cmd.kind # "delete"
      <4>1. DbgTable(DelAllBreak(break_points, "FOREVER"),
                     DelAllBreakNum(break_points, break_num, "FOREVER"))
        BY <2>3, <3>2, Zenon DEF CmdDelete
      <4>2. "return" \notin session =>
               GoodTable(DelAllBreak(break_points, "FOREVER"),
                         DelAllBreakNum(break_points, break_num, "FOREVER"))
        BY DelAllBreakGood, Zenon DEF TableInv
      <4>3. /\ DelAllBreak(break_points, "FOREVER")[0] = break_points[0]
            /\ \A i \in Slots : DelAllBreak(break_points, "FOREVER")[i].type = "FOREVER" =>
                  break_points[i].type = "FOREVER"
        BY <1>2, DeletesNothing, Zenon DEF BreakType
      <4> QED
        BY <2>0, <4>1, <4>2, <4>3, TableChanged, Zenon
    <3> QED
      BY <3>1, <3>2, Zenon
  <2>4. CASE ~(CmdOnce \/ CmdBreak \/ CmdDelete)
    BY <1>1, <1>5, <2>0, <2>4, Zenon
       DEF Execute, CmdMode, CmdTimerFlag, CmdTimerClocks, CmdRequest, CmdWait, CmdCoreSet,
           CmdCoreCheck, DbgSetMode, DbgSetContFlag, DbgSetContClocks, DbgRequestWakeup,
           DbgSetCore, DbgLocal, shared
  <2> QED
    BY <2>1, <2>2, <2>3, <2>4, Zenon
<1> QED
  BY <1>3, <1>4, <1>5, Zenon

\* In a table in order every break point of the user is found.
LEMMA TableStops ==
    ASSUME TypeOK, TableInv, ~({"break", "return"} \subseteq session)
    PROVE  UserBreakPointsStop
<1>0. break_points \in [Slots -> Entry] /\ 0 \in Slots /\ Addr \subseteq Nat
  BY SlotsNat, Constants, Zenon DEF TypeOK, CpuTypeOK
<1>1. CASE "return" \notin session
  <2>1. GoodTable(break_points, break_num)
    BY <1>1, Zenon DEF TableInv
  <2>2. \A i \in Slots : break_points[i].type = "FOREVER" =>
           SearchBreakPoint(break_points, break_points[i].addr)
    BY Zenon DEF SearchBreakPoint, IsSet
  <2>3. \A i \in Slots : break_points[i].addr \in Addr
    BY <1>0, Zenon DEF Entry
  <2> QED
    BY <2>1, <2>2, <2>3, LookupIsSearch, Zenon DEF UserBreakPointsStop
<1>2. CASE "break" \notin session
  <2>1. \A i \in Slots : break_points[i].type = "FOREVER" => break_points[i].addr = 0
    BY <1>2 DEF TableInv, NoneOfUser
  <2>2. IsBreakPoint(break_points, break_num, 0)
    <3>1. break_points[0].addr = 0 /\ SearchBreakPoint(break_points, 0)
      BY <1>0 DEF TableInv, SearchBreakPoint, IsSet
    <3> QED
      BY <3>1, Zenon DEF IsBreakPoint
  <2> QED
    BY <2>1, <2>2, Zenon DEF UserBreakPointsStop
<1> QED
  BY <1>1, <1>2, Zenon

-----------------------------------------------------------------------------
\* The core after the last one is the first.
LEMMA Successor ==
    ASSUME NEW c \in Cores
    PROVE  /\ (c + 1) % CoreNum \in Cores
           /\ (c + 1) % CoreNum = IF c = CoreNum - 1 THEN 0 ELSE c + 1
<1>1. CoreNum \in Nat \ {0} /\ c \in 0 .. CoreNum - 1
  BY Constants, Zenon DEF Cores
<1>2. CASE c = CoreNum - 1
  BY <1>1, <1>2 DEF Cores
<1>3. CASE c # CoreNum - 1
  BY <1>1, <1>3 DEF Cores
<1> QED
  BY <1>2, <1>3, Zenon

\* One turn is that of one core.
LEMMA OneTurn ==
    ASSUME NEW c \in Cores
    PROVE  Turns(c, (c + 1) % CoreNum) = {c}
  BY Successor, Constants DEF Turns, Cores

\* The next turn is that of a core which has had none, unless all have.
LEMMA AnotherTurn ==
    ASSUME NEW first \in Cores, NEW c \in Cores, c # first
    PROVE  /\ Turns(first, (c + 1) % CoreNum) = Turns(first, c) \cup {c}
           /\ c \notin Turns(first, c)
<1>1. CoreNum \in Nat \ {0} /\ first \in 0 .. CoreNum - 1 /\ c \in 0 .. CoreNum - 1
  BY Constants, Zenon DEF Cores
<1>2. CASE c = CoreNum - 1
  <2>1. (c + 1) % CoreNum = 0
    BY <1>2, Successor, Zenon
  <2> QED
    BY <1>1, <1>2, <2>1 DEF Turns, Cores
<1>3. CASE c # CoreNum - 1
  <2>1. (c + 1) % CoreNum = c + 1
    BY <1>3, Successor, Zenon
  <2> QED
    BY <1>1, <1>3, <2>1 DEF Turns, Cores
<1> QED
  BY <1>2, <1>3, Zenon

\* Round to the first core again, every core has had its turn.
LEMMA AllTurns ==
    ASSUME NEW first \in Cores
    PROVE  Turns(first, first) = Cores
<1>1. ~(first < first) /\ \A c \in Cores : first <= c \/ c < first
  BY Constants
<1> QED
  BY <1>1, Zenon DEF Turns

\* The first core has had its turn.
LEMMA FirstOfAll ==
    ASSUME NEW first \in Cores, NEW next \in Cores
    PROVE  first \in Turns(first, next)
  BY Constants DEF Turns, Cores

\* The instruction that was asked for is the first one counted.
LEMMA StartsStep ==
    ASSUME TypeOK, Fresh, CpuExec
    PROVE  Stepped'
<1>1. core \in Cores /\ executed \in [Cores -> 0 .. ExecCap] /\ 0 < ExecCap
  BY Constants DEF TypeOK, CpuTypeOK
<1>2. \A c \in Cores : executed'[c] = IF c = core THEN 1 ELSE 0
  BY <1>1 DEF CpuExec, Fresh
<1>3. Upto' = (core + 1) % CoreNum /\ core_debug' = core_debug
  BY Zenon DEF CpuExec, Upto, shared
<1>4. PICK first \in Cores : first = core
  BY <1>1, Zenon
<1>5. Turns(first, (core + 1) % CoreNum) = {first}
  BY <1>4, OneTurn, Zenon
<1>6. SteppedFrom(first)'
  <2>1. \A c \in Cores : executed'[c] = IF c \in Turns(first, (core + 1) % CoreNum) THEN 1 ELSE 0
    BY <1>2, <1>4, <1>5, Zenon
  <2> QED
    BY <1>3, <1>5, <2>1, Zenon DEF SteppedFrom, Turns
<1> QED
  BY <1>6, Zenon DEF Stepped

\* A core that is not debugged runs one instruction and no more: before its turn comes
\* again, a debugged core stops the CPU.
LEMMA StepPassesBy ==
    ASSUME TypeOK, CpuExec, cpu = "exec", ~core_debug[core], Stepped,
           \E c \in Cores : core_debug[c]
    PROVE  Stepped'
<1>1. core \in Cores /\ executed \in [Cores -> 0 .. ExecCap] /\ 0 < ExecCap
  BY Constants DEF TypeOK, CpuTypeOK
<1>2. PICK first \in Cores : SteppedFrom(first)
  BY Zenon DEF Stepped
<1>3. Upto = core /\ Upto' = (core + 1) % CoreNum /\ core_debug' = core_debug
  BY Zenon DEF CpuExec, Upto, shared
<1>4. core # first
  BY <1>2, <1>3, AllTurns, Zenon DEF SteppedFrom
<1>5. /\ Turns(first, (core + 1) % CoreNum) = Turns(first, core) \cup {core}
      /\ core \notin Turns(first, core)
  BY <1>1, <1>4, AnotherTurn, Zenon
<1>6. executed[core] = 0
  BY <1>1, <1>2, <1>3, <1>5, Zenon DEF SteppedFrom
<1>7. \A c \in Cores : executed'[c] = IF c = core THEN 1 ELSE executed[c]
  BY <1>1, <1>6 DEF CpuExec
<1>8. SteppedFrom(first)'
  <2>1. \A c \in Cores : executed'[c] = IF c \in Turns(first, (core + 1) % CoreNum) THEN 1 ELSE 0
    BY <1>2, <1>3, <1>5, <1>7, Zenon DEF SteppedFrom
  <2>2. \A c \in Turns(first, (core + 1) % CoreNum) \ {first} : ~core_debug[c]
    BY <1>2, <1>3, <1>5, Zenon DEF SteppedFrom
  <2> QED
    BY <1>3, <2>1, <2>2, Zenon DEF SteppedFrom, Turns
<1> QED
  BY <1>8, Zenon DEF Stepped

\* The counts say the same while nothing is executed and the turn does not change.
LEMMA SameTurns ==
    ASSUME UNCHANGED <<executed, core_debug>>, Upto' = Upto, Stepped
    PROVE  Stepped'
<1>1. PICK first \in Cores : SteppedFrom(first)
  BY Zenon DEF Stepped
<1>2. SteppedFrom(first)'
  BY <1>1, Zenon DEF SteppedFrom, Turns
<1> QED
  BY <1>2, Zenon DEF Stepped

-----------------------------------------------------------------------------
\* A step of the CPU thread keeps NextInv.
LEMMA CpuNextInv ==
    ASSUME TypeOK, CoresInv, NextInv, CpuStep, "core_all_off" \notin session
    PROVE  NextInv'
<1>0. UNCHANGED <<session, cmd, clean, last, dbg, core_debug>>
  BY Zenon DEF CpuStep, CpuNext, CpuReadMode, CpuCheckCore, CpuCheckCont, CpuCheckBreak,
         CpuCheckMode, CpuStop, CpuDelOnce, CpuEnterWait, CpuTakeWakeup, CpuExec, CpuEnd,
         shared, cliVars
<1>1. SUFFICES ASSUME cmd.kind = "next", clean PROVE NextInv'
  BY <1>0, Zenon DEF NextInv
<1>2. ~Parked
  BY Zenon DEF CpuStep, CpuNext, CpuReadMode, CpuCheckCore, CpuCheckCont, CpuCheckBreak, CpuCheckMode,
         CpuStop, CpuDelOnce, CpuEnterWait, CpuTakeWakeup, CpuExec, CpuEnd, Parked
<1>3. dbg \notin {"timer_off", "mode_normal", "request", "idle"}
  BY <1>1, <1>2, Zenon DEF NextInv
<1>4. CASE dbg # "wait_again"
  BY <1>0, <1>3, <1>4, Zenon DEF NextInv
<1>5. CASE dbg = "wait_again"
  <2>0. /\ \E c \in Cores : core_debug[c]
        /\ dbg_mode = "NORMAL" /\ wakeup_requested \in BOOLEAN /\ core \in Cores
    BY <1>1, <1>5, Zenon DEF CoresInv, NextInv, TypeOK, CpuTypeOK
  <2>1. SUFFICES dbg_mode' = "NORMAL" /\ ((Resumed /\ Fresh)' \/ OnTheWay')
    BY <1>0, <1>3, <1>5, Zenon DEF NextInv, OnTheWay
  <2>2. (Resumed /\ Fresh) \/ OnTheWay
    BY <1>1, <1>5, <2>0, Zenon DEF NextInv, OnTheWay
  <2>3. dbg_mode' = "NORMAL"
    BY <2>0, Zenon DEF CpuStep, CpuNext, CpuReadMode, CpuCheckCore, CpuCheckCont, CpuCheckBreak,
         CpuCheckMode, CpuStop, CpuDelOnce, CpuEnterWait, CpuTakeWakeup, CpuExec, CpuEnd, shared
  <2>4. CASE Resumed /\ Fresh
    <3>1. CASE CpuTakeWakeup
      <4>1. Resumed'
        BY <3>1, Zenon DEF CpuTakeWakeup, Resumed
      <4>2. Fresh'
        BY <2>4, <3>1, Zenon DEF CpuTakeWakeup, Fresh
      <4> QED
        BY <2>3, <4>1, <4>2, Zenon
    <3>2. CASE CpuExec
      <4>1. cpu' = "end" /\ wakeup_requested' = wakeup_requested /\ ~wakeup_requested
        BY <2>4, <3>2, Zenon DEF CpuExec, shared, Resumed
      <4> QED
        BY <2>3, <2>4, <3>2, <4>1, StartsStep, Zenon DEF OnTheWay, Checking
    <3> QED
      BY <2>4, <3>1, <3>2, Zenon
      DEF CpuStep, CpuNext, CpuReadMode, CpuCheckCore, CpuCheckCont, CpuCheckBreak, CpuCheckMode,
          CpuStop, CpuDelOnce, CpuEnterWait, CpuEnd, Resumed
  <2>5. CASE OnTheWay
    <3>1. CASE CpuExec
      <4>1. /\ cpu = "exec" /\ ~core_debug[core] /\ cpu' = "end" /\ Stepped
            /\ wakeup_requested' = wakeup_requested /\ ~wakeup_requested
        BY <2>5, <3>1, Zenon DEF CpuExec, shared, OnTheWay
      <4> QED
        BY <2>0, <2>3, <3>1, <4>1, StepPassesBy, Zenon DEF OnTheWay, Checking
    <3>2. CASE CpuEnd
      <4>1. Upto' = Upto /\ UNCHANGED executed
        BY <3>2, Zenon DEF CpuEnd, Upto
      <4>2. Stepped'
        BY <1>0, <2>5, <4>1, SameTurns, Zenon DEF OnTheWay
      <4> QED
        BY <2>3, <2>5, <3>2, <4>2, Zenon DEF CpuEnd, OnTheWay, Checking
    <3>3. CASE ~(CpuExec \/ CpuEnd)
      <4>1. Upto' = Upto /\ UNCHANGED executed
        BY <3>3, Zenon DEF CpuStep, CpuNext, CpuReadMode, CpuCheckCore, CpuCheckCont, CpuCheckBreak,
           CpuCheckMode, CpuStop, CpuDelOnce, CpuEnterWait, CpuTakeWakeup, Upto
      <4>2. Stepped'
        BY <1>0, <2>5, <4>1, SameTurns, Zenon DEF OnTheWay
      <4>3. cpu' # "resumed" /\ ~wakeup_requested'
        BY <2>5, <3>3
        DEF OnTheWay, CpuStep, CpuNext, CpuReadMode, CpuCheckCore, CpuCheckCont, CpuCheckBreak,
            CpuCheckMode, CpuStop, CpuDelOnce, CpuEnterWait, CpuTakeWakeup, shared
      <4>4. cpu' \in Checking => seen'
        BY <2>5, <3>3, Zenon
        DEF OnTheWay, Checking, CpuStep, CpuNext, CpuReadMode, CpuCheckCore, CpuCheckCont,
            CpuCheckBreak, CpuCheckMode, CpuStop, CpuDelOnce, CpuEnterWait, CpuTakeWakeup,
            IsDebugMode
      <4>5. cpu' = "exec" => ~core_debug'[core']
        BY <1>0, <2>5, <3>3, Zenon
        DEF OnTheWay, Checking, CpuStep, CpuNext, CpuReadMode, CpuCheckCore, CpuCheckCont,
            CpuCheckBreak, CpuCheckMode, CpuStop, CpuDelOnce, CpuEnterWait, CpuTakeWakeup
      <4> QED
        BY <2>3, <4>2, <4>3, <4>4, <4>5, Zenon DEF OnTheWay
    <3> QED
      BY <3>1, <3>2, <3>3, Zenon
  <2> QED
    BY <2>2, <2>3, <2>4, <2>5, Zenon
<1> QED
  BY <1>4, <1>5, Zenon

\* An access of a command keeps NextInv.
LEMMA ExecuteNextInv ==
    ASSUME TypeOK, CommandInv, HandInv, NextInv, Execute
    PROVE  NextInv'
<1>0. /\ UNCHANGED <<session, cmd, clean, cpuVars, cputhr_state, stopped>>
      /\ Moves \/ (dbg = "once" /\ dbg' = "assert_failed")
  BY Performed, Zenon
<1>1. SUFFICES ASSUME cmd.kind = "next", clean PROVE NextInv'
  BY <1>0, Zenon DEF NextInv
<1>2. Fresh' = Fresh
  BY <1>0, Zenon DEF Fresh, cpuVars
<1> USE <1>0, <1>1, <1>2 DEF cpuVars
<1>3. CASE dbg = "timer_off"
  <2>1. dbg' = "mode_normal"
    BY <1>3, Zenon DEF Moves
  <2>2. wakeup_requested' = wakeup_requested
    BY <1>3, Zenon DEF Execute, CmdMode, CmdTimerFlag, CmdTimerClocks, CmdRequest, CmdWait, CmdOnce,
         CmdBreak, CmdDelete, CmdCoreSet, CmdCoreCheck, DbgSetContFlag
  <2> QED
    BY <1>3, <2>1, <2>2, Zenon DEF NextInv, Parked
<1>4. CASE dbg = "mode_normal"
  <2>1. dbg' = "request"
    BY <1>4, Zenon DEF Moves
  <2>2. wakeup_requested' = wakeup_requested /\ dbg_mode' = "NORMAL"
    BY <1>4, Zenon DEF Execute, CmdMode, CmdTimerFlag, CmdTimerClocks, CmdRequest, CmdWait, CmdOnce,
         CmdBreak, CmdDelete, CmdCoreSet, CmdCoreCheck, DbgSetMode
  <2> QED
    BY <1>4, <2>1, <2>2, Zenon DEF NextInv, Parked
<1>5. CASE dbg = "request"
  <2>1. dbg' = "wait_again"
    BY <1>5, Zenon DEF Moves
  <2>2. wakeup_requested' = TRUE /\ dbg_mode' = dbg_mode
    BY <1>5, Zenon DEF Execute, CmdMode, CmdTimerFlag, CmdTimerClocks, CmdRequest, CmdWait, CmdOnce,
         CmdBreak, CmdDelete, CmdCoreSet, CmdCoreCheck, DbgRequestWakeup
  <2> QED
    BY <1>5, <2>1, <2>2, Zenon DEF NextInv, Parked, Resumed
<1>6. CASE dbg = "wait_again"
  <2>1. dbg' = "idle"
    BY <1>6, Zenon DEF Moves
  <2>2. StoppedAgain /\ DbgLocal
    BY <1>6, Zenon DEF Execute, CmdMode, CmdTimerFlag, CmdTimerClocks, CmdRequest, CmdWait, CmdOnce,
         CmdBreak, CmdDelete, CmdCoreSet, CmdCoreCheck
  <2>3. ~wakeup_requested /\ cpu = "waiting"
    BY <2>2, Zenon DEF StoppedAgain, HandInv, TypeOK, CpuTypeOK
  <2>4. Stepped
    BY <1>6, <2>3, Zenon DEF NextInv, Resumed, OnTheWay
  <2>5. Upto' = Upto /\ UNCHANGED <<executed, core_debug, wakeup_requested>>
    BY <2>2, Zenon DEF DbgLocal, shared, Upto
  <2>6. Stepped'
    BY <2>4, <2>5, SameTurns, Zenon
  <2> QED
    BY <2>1, <2>3, <2>5, <2>6, Zenon DEF NextInv, Parked
<1> QED
  BY <1>3, <1>4, <1>5, <1>6, Zenon DEF Moves, CommandInv, Located

\* Typing a command establishes NextInv.
LEMMA UserNextInv ==
    ASSUME TypeOK, UserTypes
    PROVE  NextInv'
<1>1. PICK kind, arg : kind \in session /\ arg \in Args(kind) /\ Type(kind, arg)
  BY Zenon DEF UserTypes
<1>2. kind \in Kinds
  BY <1>1, CliAssumption, Zenon DEF TypeOK
<1>3. /\ cmd' = [kind |-> kind, arg |-> arg] /\ dbg' = First(kind) /\ clean' = Parked
      /\ UNCHANGED <<cpu, wakeup_requested>>
  BY <1>1, <1>2, Started, Zenon DEF Type, shared
<1>4. SUFFICES ASSUME kind = "next", Parked PROVE NextInv'
  BY <1>3, Zenon DEF NextInv
<1>5. Fresh'
  BY <1>1, <1>4, Zenon DEF Type, Bounded, Fresh
<1> QED
  BY <1>3, <1>4, <1>5, Zenon DEF NextInv, First, Parked

-----------------------------------------------------------------------------
\* An instruction counts for its core.
LEMMA Ran ==
    ASSUME NEW c \in Cores, core \in Cores, executed \in [Cores -> 0 .. ExecCap], CpuExec
    PROVE  /\ executed'[c] \in {executed[c], executed[c] + 1}
           /\ core # c => executed'[c] = executed[c]
  BY Zenon DEF CpuExec

\* The first instruction is within the bound, and so are those after it: each takes a
\* clock off first.
LEMMA CountsStart ==
    ASSUME TypeOK, NEW run \in {0, 1}
    PROVE  Within(run, cmd.arg, FALSE)
  BY DEF Within, Most, TypeOK
LEMMA CountsOn ==
    ASSUME TypeOK, NEW run \in Nat, NEW clocks \in Nat
    PROVE  /\ Within(run, clocks, TRUE) => Within(run + 1, clocks, FALSE)
           /\ Within(run, clocks, FALSE) /\ ~(clocks <= 1) => Within(run, clocks - 1, TRUE)
<1>1. Most \in Nat
  BY Zenon DEF Most, TypeOK
<1> QED
  BY <1>1 DEF Within

\* A step of the CPU thread keeps ClocksInv.
LEMMA CpuClocksInv ==
    ASSUME TypeOK, CommandInv, CoresInv, TimerInv, ClocksInv, CpuStep,
           session \cap {"core_off", "core_all_off"} = {}
    PROVE  ClocksInv'
<1>0. UNCHANGED <<session, cmd, clean, last, dbg, core_debug>> /\ Most' = Most
  BY Zenon DEF CpuStep, CpuNext, CpuReadMode, CpuCheckCore, CpuCheckCont, CpuCheckBreak,
         CpuCheckMode, CpuStop, CpuDelOnce, CpuEnterWait, CpuTakeWakeup, CpuExec, CpuEnd,
         shared, cliVars, Most
<1>1. SUFFICES ASSUME cmd.kind = "cont_clocks", clean PROVE ClocksInv'
  BY <1>0, Zenon DEF ClocksInv
<1>2. ~Parked
  BY Zenon DEF CpuStep, CpuNext, CpuReadMode, CpuCheckCore, CpuCheckCont, CpuCheckBreak, CpuCheckMode,
         CpuStop, CpuDelOnce, CpuEnterWait, CpuTakeWakeup, CpuExec, CpuEnd, Parked
<1>3. dbg \notin {"mode_none", "timer_on", "timer_clocks", "request", "idle"}
  BY <1>1, <1>2, Zenon DEF ClocksInv
<1>4. CASE dbg # "wait_again"
  BY <1>0, <1>3, <1>4, Zenon DEF ClocksInv
<1>5. CASE dbg = "wait_again"
  <2>0. /\ last.core \in Cores /\ core \in Cores /\ executed \in [Cores -> 0 .. ExecCap]
        /\ cont \in [Cores -> [is_timeout : BOOLEAN, clocks : Nat]]
    BY Zenon DEF TypeOK, CpuTypeOK
  <2>1. last.kind = "cont_clocks" /\ cont[last.core].is_timeout /\ core_debug[core]
    BY <1>1, <1>5, <2>0, Zenon DEF ClocksInv, TimerInv, CoresInv
  <2>2. PICK run, clocks : run = executed[last.core] /\ clocks = cont[last.core].clocks
    BY Zenon
  <2>3. run \in Nat /\ clocks \in Nat /\ run \in 0 .. ExecCap
    <3>1. run \in 0 .. ExecCap /\ clocks \in Nat
      BY <2>0, <2>2, Zenon
    <3> QED
      BY <3>1
  <2>4. SUFFICES \/ Resumed' /\ Fresh' /\ cont'[last.core].clocks = cmd.arg
                 \/ ~wakeup_requested' /\ cpu' # "resumed" /\ Counting'
    BY <1>0, <1>3, <1>5, <2>1, Zenon DEF ClocksInv
  <2>5. \/ Resumed /\ Fresh /\ clocks = cmd.arg
        \/ ~wakeup_requested /\ cpu # "resumed" /\ Counting
    BY <1>1, <1>5, <2>2, Zenon DEF ClocksInv
  <2>6. ASSUME NEW taken,
               cpu' \in {"check_break", "check_mode", "exec"} /\ core' = last.core => taken,
               Within(executed'[last.core], cont'[last.core].clocks, taken)
        PROVE  Counting'
    BY <1>0, <2>6, Zenon DEF Counting, Within
  <2>7. CASE Resumed /\ Fresh /\ clocks = cmd.arg
    <3>1. CASE CpuTakeWakeup
      <4>1. Resumed' /\ cont' = cont
        BY <3>1, Zenon DEF CpuTakeWakeup, Resumed
      <4>2. Fresh'
        BY <2>7, <3>1, Zenon DEF CpuTakeWakeup, Fresh
      <4> QED
        BY <2>2, <2>7, <4>1, <4>2, Zenon
    <3>2. CASE CpuExec
      <4>1. /\ cpu' = "end" /\ wakeup_requested' = wakeup_requested /\ ~wakeup_requested
            /\ cont' = cont
        BY <2>7, <3>2, Zenon DEF CpuExec, shared, Resumed
      <4>2. run = 0 /\ executed'[last.core] \in {run, run + 1}
        BY <2>0, <2>2, <2>7, <3>2, Ran, Zenon DEF Fresh
      <4>3. executed'[last.core] \in {0, 1}
        BY <4>2
      <4>4. Within(executed'[last.core], cont'[last.core].clocks, FALSE)
        BY <2>2, <2>7, <4>1, <4>3, CountsStart, Zenon
      <4> QED
        BY <2>6, <4>1, <4>4, Zenon
    <3> QED
      BY <2>7, <3>1, <3>2, Zenon
      DEF CpuStep, CpuNext, CpuReadMode, CpuCheckCore, CpuCheckCont, CpuCheckBreak, CpuCheckMode,
          CpuStop, CpuDelOnce, CpuEnterWait, CpuEnd, Resumed
  <2>8. CASE ~wakeup_requested /\ cpu # "resumed" /\ Counting
    <3>0. /\ Within(run, clocks, FALSE)
          /\ cpu \in {"check_break", "check_mode", "exec"} /\ core = last.core =>
                Within(run, clocks, TRUE)
      BY <2>2, <2>8, Zenon DEF Counting, Within
    <3>1. CASE CpuExec
      <4>1. cpu = "exec" /\ cpu' = "end" /\ UNCHANGED <<wakeup_requested, cont, core>>
        BY <2>8, <3>1, Zenon DEF CpuExec, shared
      <4>2. /\ executed'[last.core] \in {run, run + 1}
            /\ core # last.core => executed'[last.core] = run
        BY <2>0, <2>2, <3>1, Ran, Zenon
      <4>3. Within(executed'[last.core], clocks, FALSE)
        BY <2>3, <3>0, <4>1, <4>2, CountsOn, Zenon
      <4> QED
        BY <2>2, <2>6, <2>8, <4>1, <4>3, Zenon
    <3>2. CASE CpuCheckCont
      <4>1. /\ UNCHANGED <<wakeup_requested, core, executed>> /\ cpu = "check_cont"
            /\ cpu' \in {"stop", "check_break"}
        BY <3>2, Zenon DEF CpuCheckCont
      <4>2. CASE core = last.core /\ ~TimedOut(core)
        <5>1. ~(clocks <= 1)
          BY <2>1, <2>2, <4>2, Zenon DEF TimedOut
        <5>2. cont'[last.core].clocks = clocks - 1
          BY <2>0, <2>1, <2>2, <3>2, <4>2, Zenon DEF CpuCheckCont
        <5>3. Within(run, clocks - 1, TRUE)
          BY <2>3, <3>0, <5>1, CountsOn, Zenon
        <5> QED
          BY <2>2, <2>6, <2>8, <4>1, <5>2, <5>3, Zenon
      <4>3. CASE core = last.core /\ TimedOut(core)
        <5>1. cont' = cont /\ cpu' = "stop"
          BY <3>2, <4>3, Zenon DEF CpuCheckCont
        <5> QED
          BY <2>2, <2>6, <2>8, <3>0, <4>1, <5>1, Zenon
      <4>4. CASE core # last.core
        <5>1. cont'[last.core] = cont[last.core]
          BY <2>0, <3>2, <4>4, Zenon DEF CpuCheckCont
        <5> QED
          BY <2>2, <2>6, <2>8, <3>0, <4>1, <4>4, <5>1, Zenon
      <4> QED
        BY <4>2, <4>3, <4>4, Zenon
    <3>3. CASE CpuEnd
      <4>1. UNCHANGED <<cont, executed, wakeup_requested>> /\ cpu' = "start"
        BY <3>3, Zenon DEF CpuEnd
      <4> QED
        BY <2>2, <2>6, <2>8, <3>0, <4>1, Zenon
    <3>4. CASE ~(CpuExec \/ CpuCheckCont \/ CpuEnd)
      <4>1. UNCHANGED <<cont, core, executed>>
        BY <3>4, Zenon DEF CpuStep, CpuNext, CpuReadMode, CpuCheckCore, CpuCheckBreak,
           CpuCheckMode, CpuStop, CpuDelOnce, CpuEnterWait, CpuTakeWakeup, shared
      <4>2. ~CpuTakeWakeup
        BY <2>8, Zenon DEF CpuTakeWakeup
      <4>4. wakeup_requested' = wakeup_requested /\ cpu' # "resumed"
        BY <3>4, <4>2, Zenon DEF CpuStep, CpuNext, CpuReadMode, CpuCheckCore, CpuCheckBreak,
           CpuCheckMode, CpuStop, CpuDelOnce, CpuEnterWait, shared
      <4>3. cpu' \in {"check_break", "check_mode", "exec"} =>
               cpu \in {"check_break", "check_mode", "exec"}
        BY <2>1, <3>4, Zenon DEF CpuStep, CpuNext, CpuReadMode, CpuCheckCore, CpuCheckBreak,
           CpuCheckMode, CpuStop, CpuDelOnce, CpuEnterWait, CpuTakeWakeup
      <4> QED
        BY <2>2, <2>6, <2>8, <3>0, <4>1, <4>3, <4>4, Zenon
    <3> QED
      BY <3>1, <3>2, <3>3, <3>4, Zenon
  <2> QED
    BY <2>5, <2>7, <2>8, Zenon
<1> QED
  BY <1>4, <1>5, Zenon

\* An access of a command keeps ClocksInv.
LEMMA ExecuteClocksInv ==
    ASSUME TypeOK, CommandInv, HandInv, ClocksInv, Execute
    PROVE  ClocksInv'
<1>0. /\ UNCHANGED <<session, cmd, clean, cpuVars, cputhr_state, stopped>>
      /\ Moves \/ (dbg = "once" /\ dbg' = "assert_failed")
  BY Performed, Zenon
<1>1. SUFFICES ASSUME cmd.kind = "cont_clocks", clean PROVE ClocksInv'
  BY <1>0, Zenon DEF ClocksInv
<1>2. (Fresh' <=> Fresh) /\ Most' = Most
  BY <1>0, Zenon DEF Fresh, cpuVars, Most
<1> USE <1>0, <1>1, <1>2 DEF cpuVars
<1>3. CASE dbg = "mode_none"
  <2>1. dbg' = "timer_on"
    BY <1>3, Zenon DEF Moves
  <2>2. wakeup_requested' = wakeup_requested
    BY <1>3, Zenon DEF Execute, CmdMode, CmdTimerFlag, CmdTimerClocks, CmdRequest, CmdWait, CmdOnce,
         CmdBreak, CmdDelete, CmdCoreSet, CmdCoreCheck, DbgSetMode
  <2> QED
    BY <1>3, <2>1, <2>2, Zenon DEF ClocksInv, Parked
<1>4. CASE dbg = "timer_on"
  <2>1. dbg' = "timer_clocks"
    BY <1>4, Zenon DEF Moves
  <2>2. /\ wakeup_requested' = wakeup_requested
        /\ last' = [kind |-> cmd.kind, core |-> stopped.core_id]
    BY <1>4, Zenon DEF Execute, CmdMode, CmdTimerFlag, CmdTimerClocks, CmdRequest, CmdWait, CmdOnce,
         CmdBreak, CmdDelete, CmdCoreSet, CmdCoreCheck, DbgSetContFlag
  <2> QED
    BY <1>4, <2>1, <2>2, Zenon DEF ClocksInv, Parked
<1>5. CASE dbg = "timer_clocks"
  <2>1. dbg' = "request"
    BY <1>5, Zenon DEF Moves
  <2>2. CmdTimerClocks
    BY <1>5, Zenon DEF Execute, CmdMode, CmdTimerFlag, CmdTimerClocks, CmdRequest, CmdWait, CmdOnce,
         CmdBreak, CmdDelete, CmdCoreSet, CmdCoreCheck
  <2>3. wakeup_requested' = wakeup_requested /\ last' = last
    BY <2>2, Zenon DEF CmdTimerClocks, DbgSetContClocks, cliVars
  <2>4. last.core = stopped.core_id
    BY <1>5, Zenon DEF ClocksInv
  <2>5. cont'[last.core].clocks = cmd.arg
    BY <2>2, <2>4, Zenon DEF CmdTimerClocks, DbgSetContClocks, TypeOK, CpuTypeOK
  <2> QED
    BY <1>5, <2>1, <2>3, <2>5, Zenon DEF ClocksInv, Parked
<1>6. CASE dbg = "request"
  <2>1. dbg' = "wait_again"
    BY <1>6, Zenon DEF Moves
  <2>2. wakeup_requested' = TRUE /\ cont' = cont /\ last' = last
    BY <1>6, Zenon DEF Execute, CmdMode, CmdTimerFlag, CmdTimerClocks, CmdRequest, CmdWait, CmdOnce,
         CmdBreak, CmdDelete, CmdCoreSet, CmdCoreCheck, DbgRequestWakeup, cliVars
  <2> QED
    BY <1>6, <2>1, <2>2, Zenon DEF ClocksInv, Parked, Resumed
<1>7. CASE dbg = "wait_again"
  <2>1. dbg' = "idle"
    BY <1>7, Zenon DEF Moves
  <2>2. StoppedAgain /\ DbgLocal /\ last' = last
    BY <1>7, Zenon DEF Execute, CmdMode, CmdTimerFlag, CmdTimerClocks, CmdRequest, CmdWait, CmdOnce,
         CmdBreak, CmdDelete, CmdCoreSet, CmdCoreCheck, cliVars
  <2>3. ~wakeup_requested /\ cpu = "waiting"
    BY <2>2, Zenon DEF StoppedAgain, HandInv, TypeOK, CpuTypeOK
  <2>4. executed[last.core] <= Most
    BY <1>7, <2>3, Zenon DEF ClocksInv, Resumed, Counting, Within
  <2> QED
    BY <2>1, <2>2, <2>3, <2>4, Zenon DEF ClocksInv, Parked, DbgLocal, shared
<1> QED
  BY <1>3, <1>4, <1>5, <1>6, <1>7, Zenon DEF Moves, CommandInv, Located

\* Typing a command establishes ClocksInv.
LEMMA UserClocksInv ==
    ASSUME TypeOK, UserTypes
    PROVE  ClocksInv'
<1>1. PICK kind, arg : kind \in session /\ arg \in Args(kind) /\ Type(kind, arg)
  BY Zenon DEF UserTypes
<1>2. kind \in Kinds
  BY <1>1, CliAssumption, Zenon DEF TypeOK
<1>3. /\ cmd' = [kind |-> kind, arg |-> arg] /\ dbg' = First(kind) /\ clean' = Parked
      /\ UNCHANGED <<cpu, wakeup_requested>>
  BY <1>1, <1>2, Started, Zenon DEF Type, shared
<1>4. SUFFICES ASSUME kind = "cont_clocks", Parked PROVE ClocksInv'
  BY <1>3, Zenon DEF ClocksInv
<1>5. Fresh'
  BY <1>1, <1>4, Zenon DEF Type, Bounded, Fresh
<1> QED
  BY <1>3, <1>4, <1>5, Zenon DEF ClocksInv, First, Parked

-----------------------------------------------------------------------------
\* The initial state satisfies the invariant.
LEMMA InitCliInv == Init => CliInv
<1> SUFFICES ASSUME Init PROVE CliInv
  BY Zenon
<1>1. GoodTable(break_points, break_num) /\ break_num = 0
  BY InitTableGood, Zenon DEF Init, CpuInit
<1>2. /\ break_points \in [Slots -> Entry] /\ executed \in [Cores -> 0 .. ExecCap]
      /\ cont \in [Cores -> [is_timeout : BOOLEAN, clocks : Nat]]
  <2>1. break_points \in [Slots -> Entry]
    BY <1>1, Zenon DEF GoodTable
  <2>2. executed \in [Cores -> 0 .. ExecCap]
    BY Constants DEF Init, CpuInit
  <2>3. cont \in [Cores -> [is_timeout : BOOLEAN, clocks : Nat]]
    BY Zenon DEF Init, CpuInit
  <2> QED
    BY <2>1, <2>2, <2>3, Zenon
<1>3. TypeOK
  <2>1. 0 \in Cores /\ stopped \in [is_stopped : BOOLEAN, core_id : Cores] /\ core \in Cores
    BY Constants, Zenon DEF Init, CpuInit
  <2>2. core_debug \in [Cores -> BOOLEAN]
    BY Zenon DEF Init, CpuInit
  <2>3. CpuTypeOK
    <3>1. /\ cputhr_state \in {"RUNNING", "WAIT"} /\ wakeup_requested \in BOOLEAN
          /\ dbg_mode \in {"NONE", "NORMAL", "FORCE"} /\ seen \in BOOLEAN
          /\ pc \in [Cores -> Addr] /\ cpu \in CpuPoints
      BY Zenon DEF Init, CpuInit, CpuPoints
    <3>2. break_num \in Int
      BY <1>1
    <3> QED
      BY <1>2, <2>1, <2>2, <3>1, <3>2, Zenon DEF CpuTypeOK
  <2> QED
    BY <2>1, <2>3, Zenon DEF Init, TypeOK, DbgPoints, Kinds
<1>4. CommandInv /\ HandInv /\ CoresInv
  BY Constants, Zenon DEF Init, CpuInit, CommandInv, Located, HandInv, CoresInv
<1>5. TableInv
  BY <1>1, SlotsNat, Zenon DEF TableInv, GoodTable, NoneOfUser, Init, CpuInit, InitTable, Free
<1>6. TimerInv
  BY Constants, Zenon DEF Init, CpuInit, TimerInv
<1>7. NextInv /\ ClocksInv
  BY Zenon DEF Init, NextInv, ClocksInv
<1> QED
  BY <1>3, <1>4, <1>5, <1>6, <1>7, Zenon DEF CliInv

\* Every step preserves it.
LEMMA StepCliInv == CliInv /\ [Next]_vars => CliInv'
<1> SUFFICES ASSUME CliInv, [Next]_vars PROVE CliInv'
  BY Zenon
<1>1. CASE UNCHANGED vars
  <2> USE <1>1 DEF vars, shared, cpuVars, cliVars
  <2>1. TypeOK'
    BY Zenon DEF CliInv, TypeOK, CpuTypeOK
  <2>2. CommandInv' /\ CoresInv' /\ HandInv' /\ TimerInv'
    BY Zenon DEF CliInv, CommandInv, Located, CoresInv, HandInv, TimerInv
  <2>3. TableInv'
    BY Zenon DEF CliInv, TableInv, NoneOfUser
  <2>4. /\ (Fresh' <=> Fresh) /\ (Parked' <=> Parked)
        /\ (Resumed' <=> Resumed) /\ (Counting' <=> Counting)
    BY Zenon DEF Fresh, Parked, Resumed, Counting, Within, Most
  <2>5. Upto' = Upto /\ Most' = Most
    BY Zenon DEF Upto, Most
  <2>6. Stepped => Stepped'
    BY <2>5, SameTurns, Zenon
  <2>7. NextInv => NextInv'
    BY <2>4, <2>6, Zenon DEF NextInv, OnTheWay
  <2>8. ClocksInv => ClocksInv'
    BY <2>4, <2>5, Zenon DEF ClocksInv
  <2> QED
    BY <2>1, <2>2, <2>3, <2>7, <2>8, Zenon DEF CliInv
<1>2. CASE CpuStep \/ Execute \/ UserTypes
  <2>0. /\ TypeOK /\ CommandInv /\ CoresInv /\ TableInv /\ HandInv /\ TimerInv
        /\ "core_all_off" \notin session => NextInv
        /\ session \cap {"core_off", "core_all_off"} = {} => ClocksInv
    BY Zenon DEF CliInv
  <2>1. session' = session
    BY <1>2, <2>0, Performed, Zenon DEF CpuStep, cliVars, UserTypes, Type
  <2>2. TypeOK'
    BY <1>2, <2>0, CpuType, ExecuteType, UserType, Zenon
  <2>3. CommandInv' /\ CoresInv' /\ TableInv' /\ HandInv' /\ TimerInv'
    BY <1>2, <2>0, CommandKept, CoresKept, TableKept, HandKept, TimerKept, Zenon
  <2>4. "core_all_off" \notin session => NextInv'
    BY <1>2, <2>0, CpuNextInv, ExecuteNextInv, UserNextInv, Zenon
  <2>5. session \cap {"core_off", "core_all_off"} = {} => ClocksInv'
    BY <1>2, <2>0, CpuClocksInv, ExecuteClocksInv, UserClocksInv, Zenon
  <2> QED
    BY <2>1, <2>2, <2>3, <2>4, <2>5, Zenon DEF CliInv
<1> QED
  BY <1>1, <1>2, Zenon DEF Next, StayEnded

\* The invariant holds throughout.
THEOREM CliInvariance == Spec => []CliInv
  BY InitCliInv, StepCliInv, PTL DEF Spec

\* The debugger keeps hold of the CPU: some core stays debugged and every break point of
\* the user stops the CPU, for every number of cores, slots and addresses, whatever the
\* user types and whenever, within the limits that DebuggerKeepsControl names.
THEOREM DebuggerAlwaysKeepsControl == Spec => []DebuggerKeepsControl
<1>1. CliInv => DebuggerKeepsControl
  BY TableStops, Zenon DEF CliInv, CoresInv, DebuggerKeepsControl, SomeCoreDebugged
<1> QED
  BY <1>1, CliInvariance, PTL

\* A "next" runs one instruction of one debugged core, and a "cont <clocks>" no more than
\* it was given, for every number of cores and clocks and every session.
THEOREM ResumesAreBounded == Spec => []ResumesBounded
<1>1. ASSUME CliInv, "core_all_off" \notin session PROVE NextStepsOnce
  <2> SUFFICES ASSUME dbg = "idle", cmd.kind = "next", clean
               PROVE  /\ Parked
                      /\ \A c \in Cores : executed[c] <= 1
                      /\ \E c \in Cores : /\ executed[c] = 1
                            /\ \A d \in Cores \ {c} : core_debug[d] => executed[d] = 0
    BY Zenon DEF NextStepsOnce, Returned
  <2>1. Parked /\ Stepped /\ core \in Cores
    BY <1>1, Zenon DEF CliInv, NextInv, TypeOK, CpuTypeOK
  <2>2. PICK first \in Cores : SteppedFrom(first)
    BY <2>1, Zenon DEF Stepped
  <2>3. Upto = core
    BY <2>1, Zenon DEF Upto, Parked
  <2>4. first \in Turns(first, core)
    BY <2>1, FirstOfAll, Zenon
  <2>5. /\ executed[first] = 1 /\ \A c \in Cores : executed[c] \in {0, 1}
        /\ \A d \in Cores \ {first} : core_debug[d] => executed[d] = 0
    BY <2>2, <2>3, <2>4, Zenon DEF SteppedFrom
  <2> QED
    BY <2>1, <2>5
<1>2. ASSUME CliInv, session \cap {"core_off", "core_all_off"} = {} PROVE ContClocksBounded
  BY <1>2, Zenon DEF CliInv, ClocksInv, ContClocksBounded, Returned, Most
<1>3. CliInv => ResumesBounded
  BY <1>1, <1>2, Zenon DEF ResumesBounded
<1> QED
  BY <1>3, CliInvariance, PTL
=============================================================================
