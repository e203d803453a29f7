---------------------------- MODULE GdbServerProofs ----------------------------
(***************************************************************************)
(* Type correctness of the GDB server with its CPU thread, and that the    *)
(* break points the client believes in are those the CPU thread looks up,  *)
(* for every number of slots, cores and addresses.                         *)
(***************************************************************************)
EXTENDS GdbServer, BreakTableProofs

\* The GDB server sets no one-shot break points, so the table stays good; and it holds
\* what the client set, and slot 0.
TableInv ==
    /\ GoodTable(break_points, break_num)
    /\ \A a \in Addr : SearchBreakPoint(break_points, a) <=> a \in inserted \cup {0}

\* The actions that leave the break points and what the client believes of them alone.
TableKept == UNCHANGED <<break_points, break_num, inserted>>

\* The sets of the type invariant are not empty where the initial state needs it.
LEMMA Constants == CoreNum \in Nat \ {0} /\ 0 \in Cores /\ ExecCap \in Nat \ {0} /\ 0 \in Addr
  BY CpuThreadAssumption, BreakTableAssumption DEF Cores

\* The initial state is well typed.
LEMMA InitType == Init => TypeOK
<1> SUFFICES ASSUME Init PROVE TypeOK
  BY Zenon
<1>1. break_points \in [Slots -> Entry] /\ break_num \in Int
  BY InitTableGood DEF Init, CpuInit, GoodTable
<1>2. executed \in [Cores -> 0 .. ExecCap]
  BY Constants DEF Init, CpuInit
<1> QED
  BY <1>1, <1>2, Constants, Zenon DEF Init, CpuInit, TypeOK, CpuTypeOK, CpuPoints, DbgPoints

\* A step of the CPU thread keeps the types.
LEMMA CpuType == TypeOK /\ CpuStep => TypeOK'
<1> SUFFICES ASSUME TypeOK, CpuStep PROVE TypeOK'
  BY Zenon
<1> USE Constants DEF TypeOK, CpuTypeOK
<1>1. CASE CpuReadMode
  BY <1>1, Zenon DEF CpuStep, gdbVars, shared, CpuReadMode, IsDebugMode, CpuPoints
<1>2. CASE CpuCheckCore
  BY <1>2, Zenon DEF CpuStep, gdbVars, shared, CpuCheckCore, CpuPoints
<1>3. CASE CpuCheckCont
  <2>1. cont' \in [Cores -> [is_timeout : BOOLEAN, clocks : Nat]]
    BY <1>3 DEF CpuCheckCont, TimedOut
  <2> QED
    BY <1>3, <2>1, Zenon DEF CpuStep, gdbVars, CpuCheckCont, CpuPoints
<1>4. CASE CpuCheckBreak
  BY <1>4, Zenon DEF CpuStep, gdbVars, shared, CpuCheckBreak, CpuPoints
<1>5. CASE CpuCheckMode
  BY <1>5, Zenon DEF CpuStep, gdbVars, shared, CpuCheckMode, CpuPoints
<1>6. CASE CpuStop
  BY <1>6, Zenon DEF CpuStep, gdbVars, CpuStop, CpuPoints
<1>7. CASE CpuDelOnce
  <2>1. break_points' \in [Slots -> Entry]
    BY <1>7, BreakTableAssumption, Zenon DEF CpuDelOnce, DelAllBreak, Entry, Free
  <2>2. break_num' \in Int
    <3>1. IsFiniteSet(OfType(break_points, "ONLY_ONCE"))
      BY SlotsNat, FS_Subset, Zenon DEF OfType
    <3>2. Cardinality(OfType(break_points, "ONLY_ONCE")) \in Nat
      BY <3>1, FS_CardinalityType, Zenon
    <3> QED
      BY <1>7, <3>2 DEF CpuDelOnce, Counter, DelAllBreakNum
  <2> QED
    BY <1>7, <2>1, <2>2, Zenon DEF CpuStep, gdbVars, CpuDelOnce, CpuPoints
<1>8. CASE CpuEnterWait
  BY <1>8, Zenon DEF CpuStep, gdbVars, CpuEnterWait, CpuPoints
<1>9. CASE CpuTakeWakeup
  BY <1>9, Zenon DEF CpuStep, gdbVars, CpuTakeWakeup, CpuPoints
<1>10. CASE CpuExec
  <2>1. pc' \in [Cores -> Addr]
    BY <1>10, Zenon DEF CpuExec
  <2>2. executed' \in [Cores -> 0 .. ExecCap]
    BY <1>10 DEF CpuExec
  <2> QED
    BY <1>10, <2>1, <2>2, Zenon DEF CpuStep, gdbVars, shared, CpuExec, CpuPoints
<1>11. CASE CpuEnd
  <2>1. core' \in Cores
    BY <1>11 DEF CpuEnd, Cores
  <2> QED
    BY <1>11, <2>1, Zenon DEF CpuStep, gdbVars, CpuEnd, CpuPoints
<1> QED
  BY <1>1, <1>2, <1>3, <1>4, <1>5, <1>6, <1>7, <1>8, <1>9, <1>10, <1>11, Zenon DEF CpuStep, CpuNext

\* A step of the client keeps the types.
LEMMA ClientType == TypeOK /\ Client => TypeOK'
<1> SUFFICES ASSUME TypeOK, Client PROVE TypeOK'
  BY Zenon
<1> USE Constants DEF TypeOK, CpuTypeOK, cpuVars, gdbVars
<1>1. CASE Accept
  BY <1>1, Zenon DEF Accept, DbgLocal, shared, DbgPoints
<1>2. ASSUME NEW a \in Addr, InsertBreak(a) PROVE TypeOK'
  <2>1. break_points' \in [Slots -> Entry]
    BY <1>2, Zenon DEF InsertBreak, DbgTable, SetBreak, Entry, BreakType
  <2>2. break_num' \in Int
    BY <1>2 DEF InsertBreak, DbgTable, SetBreakDelta, Counter
  <2> QED
    BY <1>2, <2>1, <2>2, Zenon DEF InsertBreak, DbgTable
<1>3. ASSUME NEW a \in Addr, RemoveBreak(a) PROVE TypeOK'
  <2>1. break_points' \in [Slots -> Entry]
    BY <1>3 DEF RemoveBreak, At, DbgTable, DelBreak, Entry, Free
  <2>2. break_num' \in Int
    BY <1>3 DEF RemoveBreak, DbgTable, DelBreakDelta, Counter
  <2> QED
    BY <1>3, <2>1, <2>2, Zenon DEF RemoveBreak, DbgTable
<1>4. ASSUME NEW a \in Addr, WritePc(a) PROVE TypeOK'
  BY <1>4, Zenon DEF WritePc, shared
<1>5. ASSUME NEW stepping \in BOOLEAN, Resume(stepping) PROVE TypeOK'
  <2>1. executed' \in [Cores -> 0 .. ExecCap]
    BY <1>5 DEF Resume
  <2> QED
    BY <1>5, <2>1, Zenon DEF Resume, shared, DbgPoints, Parked
<1>6. CASE CloseSession \/ Kill
  BY <1>6, Zenon DEF CloseSession, Kill, DbgLocal, shared, DbgPoints
<1>7. CASE Interrupt \/ Disconnect
  BY <1>7, Zenon DEF Interrupt, Disconnect, DbgSetMode, DbgPoints
<1> QED
  BY <1>1, <1>2, <1>3, <1>4, <1>5, <1>6, <1>7, Zenon DEF Client, Packet

\* A step of the server keeps the types.
LEMMA ServeType == TypeOK /\ Serve => TypeOK'
<1> SUFFICES ASSUME TypeOK, Serve PROVE TypeOK'
  BY Zenon
<1> USE Constants DEF TypeOK, CpuTypeOK, cpuVars, gdbVars
<1>1. CASE ClearBreaks
  <2>1. break_points' \in [Slots -> Entry]
    BY <1>1, Zenon DEF ClearBreaks, DbgTable, DelAllBreak, Entry, Free
  <2>2. break_num' \in Int
    BY <1>1 DEF ClearBreaks, DbgTable, DelAllBreakNum, Counter
  <2> QED
    BY <1>1, <2>1, <2>2, Zenon DEF ClearBreaks, DbgTable, DbgPoints
<1>2. ASSUME NEW p, ReportStop(p) PROVE TypeOK'
  <2>1. executed' \in [Cores -> 0 .. ExecCap]
    BY <1>2 DEF ReportStop
  <2> QED
    BY <1>2, <2>1, Zenon DEF ReportStop, shared, DbgPoints
<1>3. CASE LostDone
  <2>1. executed' \in [Cores -> 0 .. ExecCap]
    BY <1>3 DEF LostDone
  <2> QED
    BY <1>3, <2>1, Zenon DEF LostDone, shared, DbgPoints
<1>4. CASE ResumeTimer
  <2>1. cont' \in [Cores -> [is_timeout : BOOLEAN, clocks : Nat]]
    BY <1>4, Zenon DEF ResumeTimer, DbgSetContFlag
  <2> QED
    BY <1>4, <2>1, Zenon DEF ResumeTimer, DbgSetContFlag, DbgPoints
<1>5. CASE ResumeMode
  BY <1>5, Zenon DEF ResumeMode, DbgSetMode, DbgPoints
<1>6. CASE ResumeRequest
  BY <1>6, Zenon DEF ResumeRequest, DbgRequestWakeup, DbgPoints
<1>7. CASE NoticeStop
  BY <1>7, Zenon DEF NoticeStop, DbgLocal, shared, DbgPoints
<1> QED
  BY <1>1, <1>2, <1>3, <1>4, <1>5, <1>6, <1>7, Zenon DEF Serve, SessionStart, StepDone, AwaitDone

\* The state of both threads is well typed throughout.
THEOREM TypeCorrect == Spec => []TypeOK
<1>1. TypeOK /\ [Next]_vars => TypeOK'
  <2> SUFFICES ASSUME TypeOK, [Next]_vars PROVE TypeOK'
    BY Zenon
  <2>1. CASE UNCHANGED vars
    BY <2>1, Zenon DEF vars, shared, cpuVars, gdbVars, TypeOK, CpuTypeOK
  <2> QED
    BY <2>1, CpuType, ClientType, ServeType, Zenon DEF Next, StayKilled
<1> QED
  BY <1>1, InitType, PTL DEF Spec

-----------------------------------------------------------------------------
\* In a table without one-shot break points no update of the counter is lost.
LEMMA NoRace ==
    ASSUME TableInv, NEW table, NEW num, DbgTable(table, num)
    PROVE  break_points' = table /\ break_num' = num
  BY NothingOnce, Zenon DEF TableInv, DbgTable, RemovesOnce, Counter

\* Z0 keeps the table and what the client believes in step.
LEMMA InsertTable ==
    ASSUME TableInv, NEW a \in Addr, InsertBreak(a)
    PROVE  TableInv'
<1>1. /\ break_points' = SetBreak(break_points, a, "FOREVER")
      /\ break_num' = break_num + SetBreakDelta(break_points, a, "FOREVER")
  BY NoRace, Zenon DEF InsertBreak
<1>2. /\ GoodTable(break_points', break_num')
      /\ \A b \in Addr : SearchBreakPoint(break_points', b) <=>
            SearchBreakPoint(break_points, b) \/ (b = a /\ SetBreakOk(break_points, a, "FOREVER"))
  BY <1>1, SetBreakGood, Zenon DEF TableInv
<1>3. inserted' = IF SetBreakOk(break_points, a, "FOREVER") THEN inserted \cup {a} ELSE inserted
  BY Zenon DEF InsertBreak
<1>4. \A b \in Addr : SearchBreakPoint(break_points', b) <=> b \in inserted' \cup {0}
  BY <1>2, <1>3, Zenon DEF TableInv
<1> QED
  BY <1>2, <1>4, Zenon DEF TableInv

\* And so does z0.
LEMMA RemoveTable ==
    ASSUME TableInv, NEW a \in Addr, RemoveBreak(a)
    PROVE  TableInv'
<1>1. PICK k \in At(a) : DbgTable(DelBreak(break_points, k),
                                   break_num - DelBreakDelta(break_points, k))
  BY Zenon DEF RemoveBreak
<1>2. k \in Slots /\ IsSet(break_points, k) /\ break_points[k].addr = a
  BY Zenon DEF At
<1>3. /\ break_points' = DelBreak(break_points, k)
      /\ break_num' = break_num - DelBreakDelta(break_points, k)
  BY <1>1, NoRace, Zenon
<1>4. /\ GoodTable(break_points', break_num')
      /\ \A b \in Addr : SearchBreakPoint(break_points', b) <=>
            SearchBreakPoint(break_points, b) /\ (b # a \/ b = 0)
  BY <1>2, <1>3, DelBreakGood, Zenon DEF TableInv
<1>5. inserted' = inserted \ {a}
  BY Zenon DEF RemoveBreak
<1>6. \A b \in Addr : SearchBreakPoint(break_points', b) <=> b \in inserted' \cup {0}
  BY <1>4, <1>5, Zenon DEF TableInv
<1> QED
  BY <1>4, <1>6, Zenon DEF TableInv

\* A new session starts without break points.
LEMMA ClearTable ==
    ASSUME TableInv, ClearBreaks
    PROVE  TableInv'
<1>1. /\ break_points' = DelAllBreak(break_points, "FOREVER")
      /\ break_num' = DelAllBreakNum(break_points, break_num, "FOREVER")
  BY NoRace, Zenon DEF ClearBreaks
<1>2. /\ GoodTable(break_points', break_num')
      /\ \A b \in Addr : SearchBreakPoint(break_points', b) <=> b = 0
  BY <1>1, DelAllBreakGood, Zenon DEF TableInv
<1>3. inserted' = {}
  BY Zenon DEF ClearBreaks
<1> QED
  BY <1>2, <1>3, Zenon DEF TableInv

\* Every step keeps the table and what the client believes in step.
LEMMA NextTable == TableInv /\ [Next]_vars => TableInv'
<1> SUFFICES ASSUME TableInv, [Next]_vars PROVE TableInv'
  BY Zenon
<1>1. ASSUME TableKept PROVE TableInv'
  BY <1>1, Zenon DEF TableInv, TableKept
<1>2. CASE CpuStep
  <2>1. CASE CpuDelOnce
    BY <1>1, <1>2, <2>1, NothingOnce, Zenon
    DEF TableInv, CpuDelOnce, Counter, CpuStep, gdbVars, TableKept
  <2>2. CASE ~CpuDelOnce
    BY <1>1, <1>2, <2>2, Zenon
    DEF CpuStep, CpuNext, gdbVars, shared, TableKept, CpuReadMode, CpuCheckCore, CpuCheckCont,
        CpuCheckBreak, CpuCheckMode, CpuStop, CpuEnterWait, CpuTakeWakeup, CpuExec, CpuEnd
  <2> QED
    BY <2>1, <2>2, Zenon
<1>3. CASE Client
  <2>1. CASE \E a \in Addr : InsertBreak(a) \/ RemoveBreak(a)
    BY <2>1, InsertTable, RemoveTable, Zenon
  <2>2. CASE ~\E a \in Addr : InsertBreak(a) \/ RemoveBreak(a)
    BY <1>1, <1>3, <2>2, Zenon
    DEF Client, Packet, Accept, WritePc, Resume, CloseSession, Kill, Interrupt, Disconnect,
        DbgLocal, DbgSetMode, shared, gdbVars, TableKept
  <2> QED
    BY <2>1, <2>2, Zenon
<1>4. CASE Serve
  <2>1. CASE ClearBreaks
    BY <2>1, ClearTable, Zenon
  <2>2. CASE ~ClearBreaks
    BY <1>1, <1>4, <2>2, Zenon
    DEF Serve, SessionStart, ReportStop, ResumeTimer, ResumeMode, ResumeRequest, StepDone,
        NoticeStop, AwaitDone, LostDone, DbgLocal, DbgSetMode, DbgSetContFlag,
        DbgRequestWakeup, shared, gdbVars, TableKept
  <2> QED
    BY <2>1, <2>2, Zenon
<1>5. CASE UNCHANGED vars
  BY <1>1, <1>5, Zenon DEF vars, shared, gdbVars, TableKept
<1> QED
  BY <1>2, <1>3, <1>4, <1>5, Zenon DEF Next, StayKilled

\* The initial table is what a client that has set nothing expects.
LEMMA InitTableInv == Init => TableInv
  BY InitTableGood, Zenon DEF Init, CpuInit, TableInv

\* A table in step answers every lookup of the CPU thread as the client expects.
LEMMA TableExact == TableInv => BreakPointsExact
  BY LookupIsSearch, Zenon DEF TableInv, BreakPointsExact

\* The CPU thread stops at exactly the break points the client has set (and at 0), in
\* every session, whatever the number of slots and however often the table was full.
THEOREM BreakPointsAreExact == Spec => []BreakPointsExact
  BY InitTableInv, NextTable, TableExact, PTL DEF Spec

-----------------------------------------------------------------------------
\* The CPU thread is at a point from which it stops before it executes anything, given
\* that the debug mode is on when it looks.
Checking == {"check_core", "check_cont", "check_break", "check_mode"}
Halting == cpu \notin {"exec", "resumed"} /\ (cpu \in Checking => seen)

Fresh == \A c \in Cores : executed[c] = 0
One == \E c \in Cores : executed[c] = 1 /\ \A d \in Cores \ {c} : executed[d] = 0

\* What the two threads know of each other: the published state is right; all cores are
\* debugged; the debug mode is off only while a continue is under way.
HandInv ==
    /\ cputhr_state = "WAIT" <=> cpu = "waiting"
    /\ \A c \in Cores : core_debug[c]
    /\ dbg_mode = "NONE" => dbg = "await" \/ (dbg = "request" /\ ~step)

\* After a report one instruction may be left, that of a request nobody waited for.
ReportInv ==
    Reported =>
        \/ Fresh /\ cpu = "waiting"
        \/ Fresh /\ cpu = "resumed" /\ ~wakeup_requested
        \/ (Fresh \/ One) /\ Halting /\ ~wakeup_requested

\* A step of a parked CPU: the request, the instruction, the way to the next stop.
StepInv ==
    /\ clean /\ dbg \in {"timer_off", "mode", "request"} => Fresh /\ Parked
    /\ clean /\ dbg = "wait_again" =>
         \/ Fresh /\ cpu = "waiting" /\ wakeup_requested
         \/ Fresh /\ cpu = "resumed" /\ ~wakeup_requested
         \/ One /\ Halting /\ ~wakeup_requested

\* A core that has passed the lookup of break points is not at one.
PassedInv == cpu = "exec" \/ (cpu = "check_mode" /\ ~seen) => pc[core] \notin inserted

ThreadInv == HandInv /\ ReportInv /\ StepInv /\ PassedInv

\* The counts of instructions say the same while they do not change.
LEMMA CountsKept == UNCHANGED executed => (Fresh' <=> Fresh) /\ (One' <=> One)
  BY Zenon DEF Fresh, One

\* The first instruction after a report is the only one counted.
LEMMA FirstCounted == TypeOK /\ Fresh /\ CpuExec => One'
<1> SUFFICES ASSUME TypeOK, Fresh, CpuExec PROVE One'
  BY Zenon
<1>1. core \in Cores /\ executed \in [Cores -> 0 .. ExecCap] /\ 0 < ExecCap
  BY Constants DEF TypeOK, CpuTypeOK
<1>2. \A d \in Cores : executed'[d] = IF d = core THEN 1 ELSE 0
  BY <1>1 DEF CpuExec, Fresh
<1> QED
  BY <1>1, <1>2, Zenon DEF One

\* A step of the CPU thread keeps ThreadInv.
LEMMA CpuThreadInv == TypeOK /\ TableInv /\ ThreadInv /\ CpuStep => ThreadInv'
<1> SUFFICES ASSUME TypeOK, TableInv, ThreadInv, CpuStep PROVE ThreadInv'
  BY Zenon
<1>0. core \in Cores /\ seen \in BOOLEAN /\ wakeup_requested \in BOOLEAN /\ UNCHANGED gdbVars
  BY Zenon DEF TypeOK, CpuTypeOK, CpuStep
<1> USE <1>0, CountsKept
        DEF ThreadInv, HandInv, ReportInv, Reported, StepInv, PassedInv, Halting, Checking, Parked,
            gdbVars, shared
<1>1. CASE CpuReadMode
  BY <1>1, Zenon DEF CpuReadMode, IsDebugMode
<1>2. CASE CpuCheckCore
  BY <1>2, Zenon DEF CpuCheckCore
<1>3. CASE CpuCheckCont
  BY <1>3, Zenon DEF CpuCheckCont
<1>4. CASE CpuCheckBreak
  <2>1. pc[core] \in inserted => IsBreakPoint(break_points, break_num, pc[core])
    BY TableExact, Zenon DEF BreakPointsExact, TypeOK, CpuTypeOK
  <2> QED
    BY <1>4, <2>1, Zenon DEF CpuCheckBreak
<1>5. CASE CpuCheckMode
  BY <1>5, Zenon DEF CpuCheckMode
<1>6. CASE CpuStop
  BY <1>6, Zenon DEF CpuStop
<1>7. CASE CpuDelOnce
  BY <1>7, Zenon DEF CpuDelOnce
<1>8. CASE CpuEnterWait
  BY <1>8, Zenon DEF CpuEnterWait
<1>9. CASE CpuTakeWakeup
  BY <1>9, Zenon DEF CpuTakeWakeup
<1>10. CASE CpuExec
  BY <1>10, FirstCounted, Zenon DEF CpuExec
<1>11. CASE CpuEnd
  BY <1>11, Zenon DEF CpuEnd
<1> QED
  BY <1>1, <1>2, <1>3, <1>4, <1>5, <1>6, <1>7, <1>8, <1>9, <1>10, <1>11, Zenon DEF CpuStep, CpuNext

\* A step of the client keeps it: what a packet changes, it changes while the CPU is
\* parked or on its way there.
LEMMA ClientThreadInv == TypeOK /\ ThreadInv /\ Client => ThreadInv'
<1> SUFFICES ASSUME TypeOK, ThreadInv, Client PROVE ThreadInv'
  BY Zenon
<1> USE CountsKept
    DEF ThreadInv, HandInv, ReportInv, Reported, StepInv, PassedInv, Halting, Checking, Parked,
        gdbVars, shared, cpuVars
<1>1. CASE Accept
  BY <1>1, Zenon DEF Accept, DbgLocal
<1>2. ASSUME NEW a \in Addr, InsertBreak(a) PROVE ThreadInv'
  BY <1>2, Zenon DEF InsertBreak, DbgTable
<1>3. ASSUME NEW a \in Addr, RemoveBreak(a) PROVE ThreadInv'
  BY <1>3 DEF RemoveBreak, DbgTable
<1>4. ASSUME NEW a \in Addr, WritePc(a) PROVE ThreadInv'
  BY <1>4, Zenon DEF WritePc
<1>5. ASSUME NEW stepping \in BOOLEAN, Resume(stepping) PROVE ThreadInv'
  <2>1. Fresh'
    BY <1>5, Zenon DEF Resume, Fresh
  <2> QED
    BY <1>5, <2>1, Zenon DEF Resume
<1>6. CASE CloseSession \/ Kill
  BY <1>6 DEF CloseSession, Kill, DbgLocal
<1>7. CASE Interrupt \/ Disconnect
  BY <1>7, Zenon DEF Interrupt, Disconnect, DbgSetMode
<1> QED
  BY <1>1, <1>2, <1>3, <1>4, <1>5, <1>6, <1>7, Zenon DEF Client, Packet

\* A step of the server keeps it.
LEMMA ServeThreadInv == TypeOK /\ ThreadInv /\ Serve => ThreadInv'
<1> SUFFICES ASSUME TypeOK, ThreadInv, Serve PROVE ThreadInv'
  BY Zenon
<1>0. CpuStopped => cputhr_state = "WAIT"
  BY Zenon DEF CpuStopped, TypeOK, CpuTypeOK
<1> USE CountsKept
    DEF ThreadInv, HandInv, ReportInv, Reported, StepInv, PassedInv, Halting, Checking, Parked,
        gdbVars, shared, cpuVars
<1>1. CASE ClearBreaks
  BY <1>1, Zenon DEF ClearBreaks, DbgTable
<1>2. ASSUME CpuStopped, NEW p \in {"session_wait", "wait_again", "stop_wait"}, ReportStop(p)
      PROVE  ThreadInv'
  <2>1. Fresh'
    BY <1>2, Zenon DEF ReportStop, Fresh
  <2> QED
    BY <1>0, <1>2, <2>1, Zenon DEF ReportStop
<1>3. CASE LostDone
  <2>1. Fresh'
    BY <1>3, Zenon DEF LostDone, Fresh
  <2> QED
    BY <1>0, <1>3, <2>1, Zenon DEF LostDone
<1>4. CASE ResumeTimer
  BY <1>4, Zenon DEF ResumeTimer, DbgSetContFlag
<1>5. CASE ResumeMode
  BY <1>5, Zenon DEF ResumeMode, DbgSetMode
<1>6. CASE ResumeRequest
  BY <1>6, Zenon DEF ResumeRequest, DbgRequestWakeup
<1>7. CASE NoticeStop
  BY <1>7, Zenon DEF NoticeStop, DbgLocal, IsDebugMode
<1> QED
  BY <1>1, <1>2, <1>3, <1>4, <1>5, <1>6, <1>7, Zenon
  DEF Serve, SessionStart, StepDone, AwaitDone, StoppedAgain, CpuStopped

\* The invariants together are inductive ...
LEMMA IInvInduction ==
    /\ Init => ThreadInv
    /\ TypeOK /\ TableInv /\ ThreadInv /\ [Next]_vars => ThreadInv'
<1>1. Init => ThreadInv
  BY Zenon DEF Init, CpuInit, ThreadInv, HandInv, ReportInv, StepInv, PassedInv, Fresh, Halting,
         Checking, Reported
<1>2. ASSUME UNCHANGED vars, ThreadInv PROVE ThreadInv'
  BY <1>2, CountsKept, Zenon
  DEF vars, shared, cpuVars, gdbVars, ThreadInv, HandInv, ReportInv, StepInv, PassedInv,
      Halting, Parked, Reported
<1>3. ASSUME TypeOK, TableInv, ThreadInv, [Next]_vars PROVE ThreadInv'
  BY <1>2, <1>3, CpuThreadInv, ClientThreadInv, ServeThreadInv, Zenon DEF Next, StayKilled
<1> QED
  BY <1>1, <1>3, Zenon

\* ... and hold throughout.
THEOREM ThreadInvariance == Spec => [](TypeOK /\ TableInv /\ ThreadInv)
<1>1. Spec => []TableInv
  BY InitTableInv, NextTable, PTL DEF Spec
<1> QED
  BY <1>1, TypeCorrect, IInvInduction, PTL DEF Spec

\* Once the target has been reported as stopped it executes at most one more
\* instruction until it is resumed.
THEOREM OverrunIsBounded == Spec => []OverrunBounded
<1>1. TypeOK /\ ThreadInv => OverrunBounded
  BY DEF ThreadInv, ReportInv, OverrunBounded, Fresh, One, TypeOK, CpuTypeOK
<1> QED
  BY <1>1, ThreadInvariance, PTL

\* A step that finds the CPU parked executes exactly one instruction.
THEOREM CleanStepsAreExact == Spec => []CleanStepExact
<1>1. TypeOK /\ ThreadInv => CleanStepExact
  <2> SUFFICES ASSUME TypeOK, ThreadInv, dbg = "wait_again", clean, StoppedAgain
               PROVE  Parked /\ One
    BY Zenon DEF CleanStepExact, One
  <2>1. cpu = "waiting" /\ ~wakeup_requested
    BY Zenon DEF ThreadInv, HandInv, StoppedAgain, TypeOK, CpuTypeOK
  <2> QED
    BY <2>1, Zenon DEF ThreadInv, StepInv, Parked
<1> QED
  BY <1>1, ThreadInvariance, PTL

\* What the run checks: the four invariants together.
THEOREM TargetIsAsReported == Spec => []TargetAsReported
  BY TypeCorrect, BreakPointsAreExact, OverrunIsBounded, CleanStepsAreExact, PTL
  DEF TargetAsReported

\* No instruction at a break point is executed but the first after a resume.
THEOREM BreakPointsAreHonoured == Spec => BreakPointsHonoured
<1>1. ThreadInv => [cpu = "exec" /\ CpuExec => pc[core] \notin inserted]_vars
  BY Zenon DEF ThreadInv, PassedInv
<1> QED
  BY <1>1, ThreadInvariance, PTL DEF BreakPointsHonoured

=============================================================================
