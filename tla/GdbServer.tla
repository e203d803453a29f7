------------------------------- MODULE GdbServer -------------------------------
(***************************************************************************)
(* The GDB remote protocol server (gdb_rsp.c) against the CPU thread: the  *)
(* accept loop, the packets that change the target, the wait for a stop    *)
(* with its interrupt and disconnect paths.  Packets that only read        *)
(* (g, p, m, ?, q...) change nothing; P, G and M can write the program     *)
(* counter and memory, of which only the program counter is kept.          *)
(***************************************************************************)
EXTENDS CpuThread

VARIABLES
    step,      \* the resume being executed is a step
    inserted,  \* history: break points the client set and did not remove
    clean      \* history: the CPU was parked when the last resume packet came

gdbVars == <<step, inserted, clean>>
vars == <<shared, cpuVars, dbg, gdbVars>>

DbgPoints == {"accept", "clear", "session_wait", "packet", "timer_off", "mode",
              "request", "wait_again", "await", "stop_wait", "lost_wait", "killed"}

TypeOK ==
    /\ CpuTypeOK
    /\ dbg \in DbgPoints
    /\ step \in BOOLEAN
    /\ inserted \in SUBSET Addr
    /\ clean \in BOOLEAN

Init ==
    /\ CpuInit
    /\ dbg = "accept"
    /\ step = FALSE
    /\ inserted = {}
    /\ clean = FALSE

-----------------------------------------------------------------------------
\* gdb_rsp_run: a client connects ...
Accept ==
    /\ dbg = "accept"
    /\ dbg' = "clear"
    /\ DbgLocal
    /\ UNCHANGED gdbVars

\* ... the break points of the previous session go ...
ClearBreaks ==
    /\ dbg = "clear"
    /\ DbgTable(DelAllBreak(break_points, "FOREVER"),
                DelAllBreakNum(break_points, break_num, "FOREVER"))
    /\ dbg' = "session_wait"
    /\ inserted' = {}
    /\ UNCHANGED <<step, clean>>

\* The target is reported as stopped: from here the history counts afresh.
ReportStop(point) ==
    /\ dbg = point
    /\ dbg' = "packet"
    /\ executed' = [c \in Cores |-> 0]
    /\ UNCHANGED <<shared, cpu, core, seen, pc, gdbVars>>

\* ... and the packets start once the CPU thread has stopped.
SessionStart == CpuStopped /\ ReportStop("session_wait")

\* Z0: the client learns whether the break point is set.
InsertBreak(a) ==
    /\ dbg = "packet"
    /\ DbgTable(SetBreak(break_points, a, "FOREVER"),
                break_num + SetBreakDelta(break_points, a, "FOREVER"))
    /\ inserted' = IF SetBreakOk(break_points, a, "FOREVER") THEN inserted \cup {a} ELSE inserted
    /\ UNCHANGED <<dbg, step, clean>>

\* z0: the first slot on the address is deleted.
At(a) == {i \in Slots : IsSet(break_points, i) /\ break_points[i].addr = a}
RemoveBreak(a) ==
    /\ dbg = "packet"
    /\ At(a) # {}
    /\ \E i \in At(a) :
         /\ \A j \in At(a) : i <= j
         /\ DbgTable(DelBreak(break_points, i), break_num - DelBreakDelta(break_points, i))
    /\ inserted' = inserted \ {a}
    /\ UNCHANGED <<dbg, step, clean>>

\* P and G on the program counter of core 0, and the address of "c addr" and "s addr".
WritePc(a) ==
    /\ dbg = "packet"
    /\ pc' = [pc EXCEPT ![0] = a]
    /\ UNCHANGED <<shared, cpu, core, seen, executed, dbg, gdbVars>>

\* D, a closed connection or a failed send end the session; the target is left alone.
CloseSession ==
    /\ dbg = "packet"
    /\ dbg' = "accept"
    /\ DbgLocal
    /\ UNCHANGED gdbVars

\* k ends the program.
Kill ==
    /\ dbg = "packet"
    /\ dbg' = "killed"
    /\ DbgLocal
    /\ UNCHANGED gdbVars

\* c and s: the continue timer is switched off ...
Resume(stepping) ==
    /\ dbg = "packet"
    /\ dbg' = "timer_off"
    /\ step' = stepping
    /\ clean' = Parked
    /\ executed' = [c \in Cores |-> 0]
    /\ UNCHANGED <<shared, cpu, core, seen, pc, inserted>>

ResumeTimer ==
    /\ dbg = "timer_off"
    /\ DbgSetContFlag(FALSE)
    /\ dbg' = "mode"
    /\ UNCHANGED gdbVars

\* ... the debug mode left for a continue and kept for a step ...
ResumeMode ==
    /\ dbg = "mode"
    /\ DbgSetMode(IF step THEN "NORMAL" ELSE "NONE")
    /\ dbg' = "request"
    /\ UNCHANGED gdbVars

\* ... and the CPU thread woken up.
ResumeRequest ==
    /\ dbg = "request"
    /\ DbgRequestWakeup
    /\ dbg' = IF step THEN "wait_again" ELSE "await"
    /\ UNCHANGED gdbVars

StepDone == StoppedAgain /\ ReportStop("wait_again")

-----------------------------------------------------------------------------
\* await_stop: the client sends an interrupt, which forces the debug mode; the check
\* that follows in the same round then finds it ...
Interrupt ==
    /\ dbg = "await"
    /\ DbgSetMode("NORMAL")
    /\ dbg' = "stop_wait"
    /\ UNCHANGED gdbVars

\* Mutation: the target is not asked to stop.
Disconnect_NoStop ==
    /\ dbg = "await"
    /\ DbgLocal
    /\ dbg' = "lost_wait"
    /\ UNCHANGED gdbVars

\* ... or it disconnects ...
Disconnect ==
    /\ dbg = "await"
    /\ DbgSetMode("NORMAL")
    /\ dbg' = "lost_wait"
    /\ UNCHANGED gdbVars

\* ... or the CPU thread has entered the debug mode by itself.
NoticeStop ==
    /\ dbg = "await"
    /\ IsDebugMode
    /\ dbg' = "stop_wait"
    /\ DbgLocal
    /\ UNCHANGED gdbVars

AwaitDone == CpuStopped /\ ReportStop("stop_wait")

LostDone ==
    /\ dbg = "lost_wait"
    /\ CpuStopped
    /\ dbg' = "accept"
    /\ executed' = [c \in Cores |-> 0]
    /\ UNCHANGED <<shared, cpu, core, seen, pc, gdbVars>>

-----------------------------------------------------------------------------
Packet ==
    \/ \E a \in Addr : InsertBreak(a) \/ RemoveBreak(a) \/ WritePc(a)
    \/ \E stepping \in BOOLEAN : Resume(stepping)
    \/ CloseSession \/ Kill
Client == Accept \/ Packet \/ Interrupt \/ Disconnect
Serve ==
    \/ ClearBreaks \/ SessionStart \/ ResumeTimer \/ ResumeMode \/ ResumeRequest
    \/ StepDone \/ NoticeStop \/ AwaitDone \/ LostDone

Killed == dbg = "killed"
CpuStep == ~Killed /\ CpuNext /\ UNCHANGED gdbVars
StayKilled == Killed /\ UNCHANGED vars

Next == CpuStep \/ Client \/ Serve \/ StayKilled
Spec == Init /\ [][Next]_vars

-----------------------------------------------------------------------------
\* What the client believes about break points is what the CPU thread looks up: the
\* thread stops at an address exactly if the client has set it (or it is 0, slot 0),
\* and in a new session no break point of an earlier one is left.
BreakPointsExact ==
    \A a \in Addr : IsBreakPoint(break_points, break_num, a) <=> a \in inserted \cup {0}

\* No instruction at a break point of the client is executed, except as the first one
\* after a resume (dbg_notify_cpu_clock_supply_start, also across interrupts,
\* disconnects and new sessions).
BreakPointsHonoured ==
    [][cpu = "exec" /\ CpuExec => pc[core] \notin inserted]_vars

\* Once the target has been reported as stopped, or a session was lost, it executes at
\* most one more instruction, of one core, until the client resumes it.
Reported == dbg \in {"packet", "accept", "clear", "session_wait"}
OverrunBounded ==
    Reported =>
        \A c \in Cores : executed[c] <= 1 /\ (executed[c] = 1 => \A d \in Cores \ {c} : executed[d] = 0)

\* A step that finds the CPU parked executes exactly one instruction and leaves the
\* CPU parked.
CleanStepExact ==
    (dbg = "wait_again" /\ clean /\ StoppedAgain) =>
        /\ Parked
        /\ \E c \in Cores : executed[c] = 1 /\ \A d \in Cores \ {c} : executed[d] = 0

\* The target is as the client has been told: the three properties together.
TargetAsReported == TypeOK /\ BreakPointsExact /\ OverrunBounded /\ CleanStepExact

\* An interrupt or a stop is answered, and so is a step.
StopsAnswered == (dbg \in {"stop_wait", "wait_again"}) ~> (dbg = "packet")

\* A lost client leaves the target parked, unless a new client resumes or kills it first.
LostClientParks == (dbg = "lost_wait") ~> (Parked \/ dbg = "mode" \/ Killed)

-----------------------------------------------------------------------------
\* A step always executes exactly one instruction ("resume in debug mode for one
\* instruction").
StepExact ==
    (dbg = "wait_again" /\ StoppedAgain) =>
        \E c \in Cores : executed[c] = 1 /\ \A d \in Cores \ {c} : executed[d] = 0
=============================================================================
