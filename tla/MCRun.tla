--------------------------------- MODULE MCRun ---------------------------------
(***************************************************************************)
(* What runs while the target program does, on small instances: the ring   *)
(* buffer of the communication FIFOs (CommFifo), the system calls, the     *)
(* debugger's records and its command parser, and the main loop with       *)
(* batches of several clocks.  They share no state, so each behaviour runs *)
(* one of them, part, and leaves the variables of the others as they are.  *)
(***************************************************************************)
EXTENDS CommFifo, Syscalls

VARIABLES part,
          \* DebugRecords
          enable, core, recStage, current, recClock, log, made, watch, stop, trace,
          entered, frames, stacks, past, info, prof, counted,
          \* CommandParser
          mode, started, command, last, ran, accepted, promised, recorded,
          \* MainLoop
          clock, interval, can_skip, is_halt, loop, halted, touched, due, limit,
          loopRunning, ready, notified, world, reported, event, phase,
          pdu_created, pdu_sync, pdu_written

\* Every call.
MCApis == {"socket", "sense", "bind", "listen", "accept", "connect", "select", "send",
           "recv", "shutdown", "system", "open", "read", "write", "close", "lseek", "virtfs",
           "opendir", "readdir", "closedir", "serial_open", "exit", "intpri", "reset_time",
           "show_time", "lock"}

-----------------------------------------------------------------------------
(* Three functions and three variables, the first of which is the stack,    *)
(* deeper than its log by two; the last has no log. An instruction ends in  *)
(* a function or in none; what is recorded of it is enumerated.             *)

Range1(n, a, s) == [name |-> n, addr |-> a, size |-> s]
Access(t, a, s) == [type |-> t, addr |-> a, size |-> s]
Records == INSTANCE DebugRecords WITH
    AddrTop <- 10, N <- 2,
    Funcs <- <<Range1("f", 0, 2), Range1("g", 2, 2), Range1("h", 4, 1)>>,
    Gls <- <<Range1("stack", 4, 4), Range1("x", 2, 1), Range1("v", 0, 2)>>, UnknownGls <- {2},
    Froms <- {<<0, 6>>, <<5, 3>>},
    Moves <- [e \in {{"ft"}, {"prof"}, {"bt"}, {"watch"}} |->
                CASE e = {"ft"} -> {<<0, 6>>, <<1, 6>>, <<2, 5>>, <<5, 3>>}
                  [] e = {"prof"} -> {<<0, 6>>, <<1, 6>>, <<2, 5>>, <<3, 5>>, <<0, 4>>, <<5, 3>>}
                  [] e = {"bt"} -> {<<5, s>> : s \in 1 .. 7}
                  [] e = {"watch"} -> {<<5, 3>>}],
    Buses <- {Access("r", 0, 4), Access("w", 1, 1), Access("w", 3, 2)},
    Watches <- {Access("r", 1, 2), Access("w", 1, 1), Access("rw", 4, 1)},
    Enables <- {{"ft"}, {"prof"}, {"bt"}, {"watch"}},
    LogSize <- 1, FtLogSize <- 3, StackLogSize <- 2, StackNum <- 2, WatchSize <- 2, MaxBuses <- 2, MaxClock <- 2,
    stage <- recStage, clock <- recClock

-----------------------------------------------------------------------------
(* Every command name with every choice of up to two arguments, and longer  *)
(* lines; then lines that resume, stop, fail and are rejected.              *)

Str(s) == [form |-> "text", str |-> s, val |-> 0]
Dec(n) == [form |-> "decimal", str |-> "", val |-> n]
Hex(n) == [form |-> "hexadecimal", str |-> "", val |-> n]
Long == [form |-> "long", str |-> "", val |-> 0]
Heads == {"break", "b", "info", "watch", "w", "delete", "d", "cont", "c", "core", "intr", "i",
          "elaps", "e", "next", "n", "return", "r", "view", "v", "print", "p", "set", "s",
          "quit", "q", "exit", "serial", "S", "cpu", "ft", "access", "bt", "prof", "profile", "list", "l",
          "help", "x"}
Args == {Str(s) : s \in {"r", "d", "break", "watch", "all", "t", "f", "x"}} \cup {Dec(n) : n \in {0, 5, 9}}
        \cup {Hex(1)}
Tails == {<<>>} \cup {<<a>> : a \in Args} \cup {<<a, b>> : a, b \in Args}
         \cup {<<Str(k), Hex(1), Dec(0)>> : k \in {"r", "w", "rw", "d"}}
         \cup {<<Str(k), Str("x")>> : k \in {"w", "rw"}}
         \cup {<<Hex(1), Str("s"), Str("x")>>, <<Dec(0), Str("x"), Str("x")>>,
               <<Dec(0), Str("x"), Long>>, <<Dec(0), Str("x"), Str("x"), Str("x"), Str("x")>>}
Parser == INSTANCE CommandParser WITH
    Survey <- {<<Str(h)>> \o t : h \in Heads, t \in Tails} \cup {<<Dec(20)>>, <<>>},
    Lines <- {<<Str("c")>>, <<Str("q")>>, <<Str("delete")>>, <<Str("x")>>, <<Str("exit")>>,
              <<Str("p"), Hex(9)>>, <<Str("set"), Hex(9), Dec(1)>>, <<>>},
    Stale <- {[i \in 1 .. 4 |-> [type |-> "STRING", str |-> s, val |-> 0]] : s \in {"x", "break", "cont"}},
    CoreNum <- 2, MaxTokens <- 4, LongTop <- 16, HexTop <- 16, DecMod <- 8,
    HelpNumbers <- {0}, HelpAddrs <- {1}

\* The main loop with batches of up to three clocks.
Loop == INSTANCE MainLoop WITH
    EndClock <- 6, MaxBatch <- 3, EnableSkip <- TRUE, Mhz <- 2, MaxDelay <- 1, WorldMax <- 3,
    EventMax <- 3, Timers <- TRUE, running <- loopRunning

-----------------------------------------------------------------------------
recVars == <<enable, core, recStage, current, recClock, log, made, watch, stop, trace, entered,
             frames, stacks, past, info, prof, counted>>
parserVars == <<mode, started, command, last, ran, accepted, promised, recorded>>
loopVars == <<clock, interval, can_skip, is_halt, loop, halted, touched, due, limit,
          loopRunning, ready, notified, world, reported, event, phase,
          pdu_created, pdu_sync, pdu_written>>
all == <<part, vars, syscallVars, recVars, parserVars, loopVars>>

RunInit ==
    /\ part \in {"ring", "syscalls", "records", "parser", "batch"}
    /\ Init /\ (part # "ring" => max_size = 1 /\ data[0] = CHOOSE b \in Byte : TRUE)
    /\ SyscallsInit /\ Parser!Init
    /\ Loop!LoopInit /\ (part # "batch" => pdu_created)
    /\ Records!Init /\ (part # "records" => enable = {"ft"} /\ current = <<0, 6>>)

RingStep == part = "ring" /\ Next /\ UNCHANGED <<part, syscallVars, recVars, parserVars, loopVars>>
SyscallStep == part = "syscalls" /\ SyscallsNext /\ UNCHANGED <<part, vars, recVars, parserVars, loopVars>>
RecordStep == part = "records" /\ Records!Next /\ UNCHANGED <<part, vars, syscallVars, parserVars, loopVars>>
ParserStep == part = "parser" /\ Parser!Next /\ UNCHANGED <<part, vars, syscallVars, recVars, loopVars>>
BatchStep == part = "batch" /\ Loop!LoopNext /\ UNCHANGED <<part, vars, syscallVars, recVars, parserVars>>

RunNext == RingStep \/ SyscallStep \/ RecordStep \/ ParserStep \/ BatchStep

RunSpec == RunInit /\ [][RunNext]_all

-----------------------------------------------------------------------------
(* The properties of the parts, with IsQueue of CommFifo and ResourcesSound  *)
(* of Syscalls; see the modules.                                            *)


\* dbg_notify_cpu_clock_supply_end: watch points stop exactly on an access.
WatchStopsExact == Records!WatchStopsExact


\* cpuemu_thread_run_batch: no batch runs past the devices' next event.
BatchEventsOnTime == part = "batch" => Loop!EventsOnTime
=============================================================================
