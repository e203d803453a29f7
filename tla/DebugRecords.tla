---------------------------- MODULE DebugRecords -----------------------------
(***************************************************************************)
(* What the debugger records on every instruction of a core: the log of    *)
(* bus accesses (src/src/bus), and of dbg_cpu_control.c the function log   *)
(* (command ft), the profile, the stack frames (bt), the data watch points *)
(* (w) and who accessed each variable (d); the loop of cpuemu.cpp runs the *)
(* cores in turn. The commands that show the records are operators, from   *)
(* dbg_std_executor.c. Ids of symbols count from 1; 0 stands for -1.       *)
(***************************************************************************)
EXTENDS SymbolTable, SequencesExt

CONSTANTS N,             \* cores, 0 .. N - 1
          Funcs, Gls,    \* the symbol tables: [name, addr, size]
          UnknownGls,    \* the variables outside every memory region
          Froms,         \* registers <<pc, sp>> before an instruction
          Moves,         \* bound: the ones after it, for each setting
          Buses,         \* bus accesses of the program: [type, addr, size]
          Watches,       \* watch points the user sets: [type, addr, size]
          Enables,       \* settings of DEBUG_FUNC_ENABLE_FT, PROF, BT, WATCH
          LogSize,       \* BUS_ACCESS_LOG_SIZE
          FtLogSize,     \* DEBUG_FUNC_FT_LOG_SIZE
          StackLogSize,  \* DBG_STACK_LOG_SIZE
          StackNum,      \* DBG_STACK_NUM
          WatchSize,     \* DBG_CPU_CONTROL_WATCH_DATA_SETSIZE
          MaxBuses,      \* bound: accesses of an instruction
          MaxClock       \* bound: clocks

VARIABLES
    enable,   \* enable_dbg
    core,     \* the core whose turn it is
    stage,    \* "start" before an instruction, "run" in it, "exited" by an assertion
    current,  \* <<current_pc, current_sp>>
    clock,    \* total_clocks, counted where a record holds a time
    log,      \* bus_access_log
    made,     \* every access of the instruction, in order
    watch,    \* dbg_cpuctrl_data_watch_points
    stop,     \* need_stop of the last instruction
    trace,    \* dbg_func_log_trace of each core
    entered,  \* the functions each core entered last, oldest first
    frames,   \* dbg_func_frame, and the word behind it
    stacks,   \* the stack in each variable: its live frames, how deep it was
    past,     \* the variables with a frame written past their array
    info,     \* data_access_info
    prof,     \* CpuProfile and CpuProfileCurrentInfo of each core
    counted   \* instructions of each core in a known function

cpuvars == <<enable, core, current, clock, log, made, stop>>
records == <<trace, entered, frames, stacks, past, info, prof, counted>>
vars    == <<cpuvars, stage, watch, records>>

Cores   == 0 .. N - 1
FuncIds == DOMAIN Funcs
GlIds   == DOMAIN Gls
FuncId  == [p \in {m[1] : m \in Froms \cup UNION {Moves[e] : e \in Enables}} |-> symbol_pc2funcid([Empty EXCEPT !.table = Funcs], p)]
GlId    == [a \in 0 .. AddrTop - 1 |-> symbol_addr2glid([Empty EXCEPT !.table = Gls], a)]

(***************************************************************************)
(* Function log: a ring of FtLogSize entries. lognum counts the entries    *)
(* used, current is the index of the newest.                               *)
(***************************************************************************)
Entry(p, s) == [funcid |-> FuncId[p], off |-> p - Funcs[FuncId[p]].addr, sp |-> s]

cpuctrl_init_func_log_trace == [entry |-> <<>>, current |-> 0, lognum |-> 0]


cpuctrl_set_func_log_trace(t, p, s) ==
    LET next == IF t.lognum = 0 \/ t.current + 1 >= FtLogSize THEN 0 ELSE t.current + 1
    IN  IF FuncId[p] = None \/ (t.lognum > 0 /\ t.entry[t.current].funcid = FuncId[p]) THEN t
        ELSE [entry   |-> [i \in DOMAIN t.entry \cup {next} |->
                              IF i = next THEN Entry(p, s) ELSE t.entry[i]],
              current |-> next,
              lognum  |-> IF t.lognum < FtLogSize THEN t.lognum + 1 ELSE t.lognum]

cpuctrl_get_func_log_trace_info(t, bt) ==
    t.entry[IF t.current >= bt THEN t.current - bt ELSE FtLogSize - (bt - t.current)]

\* dbg_std_executor_func_trace: bt_number shrinks to the shortest log so far.
bt_number(bt, c) == Min({bt} \cup {trace[k].lognum : k \in 0 .. c})

fun_trace_toward_older(bt, c) ==
    [i \in 1 .. bt_number(bt, c) |->
        cpuctrl_get_func_log_trace_info(trace[c], bt_number(bt, c) - i)]

fun_trace_toward_newer(bt, c) ==
    [i \in 1 .. bt_number(bt, c) |-> cpuctrl_get_func_log_trace_info(trace[c], i - 1)]

\* What the log stands for: the newest FtLogSize functions entered.
Entered(e, p, s) ==
    IF FuncId[p] = None \/ (e # <<>> /\ Last(e).funcid = FuncId[p]) THEN e
    ELSE LET a == Append(e, Entry(p, s))
         IN  IF Len(a) > FtLogSize THEN Tail(a) ELSE a

(***************************************************************************)
(* Stack frames, one log for each variable that a stack pointer was in.    *)
(* The element behind the log of a variable is the current of the next.    *)
(***************************************************************************)
NoFrames == [current |-> 0, lognum |-> 0, sp |-> [i \in 0 .. StackLogSize - 1 |-> 0]]

\* What sp[i] may read; far behind the log, anything.
SpAt(g, i) ==
    IF i < StackLogSize THEN {frames[g].sp[i]}
    ELSE IF i = StackLogSize THEN {frames[g + 1].current} ELSE 0 .. AddrTop - 1

AddFrame(g, s, next) ==
    LET added == [frames EXCEPT ![g].current = next, ![g].lognum = @ + 1]
    IN  IF next < StackLogSize
        THEN frames' = [added EXCEPT ![g].sp[next] = s] /\ UNCHANGED past
        ELSE frames' = [added EXCEPT ![g + 1].current = s] /\ past' = past \cup {g}

\* The same stack pointer, an earlier one, or a new one; the assertion lets a
\* new one by that is one past the log. A variable that is past the array of
\* logs has its own in other memory.
cpuctrl_set_stack_pointer(g, s) ==
    LET f    == frames[g]
        prev == {i \in 0 .. f.lognum - 1 : s \in SpAt(g, i)}
        next == IF f.lognum > 0 THEN f.current + 1 ELSE 0
    IN  IF g > StackNum THEN past' = past \cup {g} /\ stage' = "start" /\ UNCHANGED frames
        ELSE \E top \in IF f.lognum > 0 THEN SpAt(g, f.current) ELSE {-1} :
             IF top = s THEN stage' = "start" /\ UNCHANGED <<frames, past>>
             ELSE IF prev # {}
             THEN /\ frames' = [frames EXCEPT ![g].lognum = Min(prev) + 1, ![g].current = Min(prev)]
                  /\ stage' = "start" /\ UNCHANGED past
             ELSE IF next <= StackLogSize THEN stage' = "start" /\ AddFrame(g, s, next)
             ELSE stage' = "exited" /\ UNCHANGED <<frames, past>>

\* cpuctrl_get_stack_pointer knows the frames only when there are two.
cpuctrl_get_stack_pointer(g) ==
    IF frames[g].lognum <= 1 THEN <<>>
    ELSE [i \in 1 .. Min({frames[g].lognum, StackLogSize}) |-> frames[g].sp[i - 1]]

dbg_std_executor_back_trace(g) == Reverse(cpuctrl_get_stack_pointer(g))

\* The stack as the program uses it: a stack pointer ends the frames below it.
\* It is orderly while it moves up only to a frame it has.
NoCalls == [live |-> <<>>, orderly |-> TRUE, deepest |-> 0]
Called(c, s) ==
    LET live == Append(SelectSeq(c.live, LAMBDA f : f > s), s)
    IN  [live    |-> live,
         orderly |-> c.orderly /\ (c.live = <<>> \/ s < Last(c.live) \/ s \in Range(c.live)),
         deepest |-> Max({c.deepest, Len(live)})]

(***************************************************************************)
(* Profile. An entry of a function that is not active starts its time; the *)
(* first active function with the present stack pointer ends when the core *)
(* is back in another function.                                            *)
(***************************************************************************)

cpuctrl_profile_collect(p, a, s) ==
    LET f      == FuncId[a]
        active == {i \in FuncIds : p.func[i].recursive_num > 0 /\ p.func[i].sp = s}
        enter  == IF p.func[f].recursive_num > 0 THEN [p.func EXCEPT ![f].call_num = @ + 1]
                  ELSE [p.func EXCEPT ![f].call_num = @ + 1, ![f].recursive_num = 1,
                                      ![f].sp = s, ![f].start = clock]
        leave  == IF p.current = f \/ active = {} THEN p.func
                  ELSE [p.func EXCEPT ![Min(active)].total = @ + (clock - p.func[Min(active)].start),
                                      ![Min(active)].recursive_num = @ - 1]
        funcs  == IF a = Funcs[f].addr THEN enter ELSE leave
    IN  IF f = None THEN p
        ELSE [current |-> f, func |-> [funcs EXCEPT ![f].time = @ + 1]]

\* The lines of dbg_std_executor_profile: calls, and mean times of a call.
dbg_std_executor_profile(c) ==
    {<<f, prof[c].func[f].call_num, prof[c].func[f].time \div prof[c].func[f].call_num,
           prof[c].func[f].total \div prof[c].func[f].call_num>> :
        f \in {g \in FuncIds : prof[c].func[g].call_num # 0}}

(***************************************************************************)
(* Watch points: the table, and the test of an access against it.          *)
(***************************************************************************)
Unset == [type |-> "none"]

SetWatches == {i \in 1 .. WatchSize : watch[i] # Unset}

cpuctrl_set_data_watch(w) ==
    LET same == {i \in SetWatches : watch[i].addr = w.addr}
        free == 1 .. WatchSize \ SetWatches
    IN  /\ same \cup free # {}
        /\ watch' = [watch EXCEPT ![IF same # {} THEN Min(same) ELSE Min(free)] = w]

cpuctrl_del_data_watch_point(i) == watch' = [watch EXCEPT ![i] = Unset]

cpuctrl_del_all_data_watch_points == watch' = [i \in 1 .. WatchSize |-> Unset]

\* Mutant: an access that begins before the watch point is not seen.
Overlaps_FromStart(a, w) ==
    /\ a.addr >= w.addr
    /\ ~(a.addr >= (w.addr + w.size) % AddrTop)

Overlaps(a, w) ==
    /\ ~((a.addr + a.size) % AddrTop <= w.addr)
    /\ ~(a.addr >= (w.addr + w.size) % AddrTop)

cpuctrl_is_break_read_access(a) == \E i \in SetWatches : watch[i].type # "w" /\ Overlaps(a, watch[i])

cpuctrl_is_break_write_access(a) == \E i \in SetWatches : watch[i].type # "r" /\ Overlaps(a, watch[i])

(***************************************************************************)
(* Who accessed a variable: contexts, each with a count and the last time. *)
(***************************************************************************)
current_funcid == FuncId[current[1]]
current_sp     == GlId[current[2]]

cpuctrl_access_context_add(h, type) ==
    LET key  == [type |-> type, core |-> core, sp |-> current_sp, funcid |-> current_funcid]
        same == {i \in DOMAIN h.context : h.context[i].key = key}
    IN  IF current_sp = None THEN h
        ELSE [access_num |-> h.access_num + 1,
              context    |-> IF same = {}
                             THEN Append(h.context, [key |-> key, access_num |-> 1, time |-> clock])
                             ELSE [h.context EXCEPT ![Min(same)].access_num = @ + 1,
                                                    ![Min(same)].time = clock]]

\* Byte by byte; the bytes of a variable that follow each other count once.
cpuctrl_set_access(h, a) ==
    LET Touched(acc, i) ==
            LET g == GlId[a.addr + i]
            IN  IF g = None \/ g = acc.prev \/ g \in UnknownGls THEN acc
                ELSE [prev |-> g,
                      info |-> [acc.info EXCEPT ![g] = cpuctrl_access_context_add(@, a.type)]]
    IN  FoldLeft(Touched, [prev |-> None, info |-> h], [i \in 1 .. a.size |-> i - 1]).info

\* object_container_sort: passes of a bubble sort until none swaps.
dbg_data_access_compare(a, b) == a.time > b.time

Pass(s) ==
    LET Step(t, i) == IF dbg_data_access_compare(t[i], t[i + 1])
                      THEN [t EXCEPT ![i] = t[i + 1], ![i + 1] = t[i]] ELSE t
    IN  FoldLeft(Step, s, [i \in 1 .. Len(s) - 1 |-> i])

RECURSIVE object_container_sort(_)
object_container_sort(s) == IF Pass(s) = s THEN s ELSE object_container_sort(Pass(s))

dbg_std_executor_data_access_context(h) == object_container_sort(h.context)

(***************************************************************************)
(* The commands of the user.                                               *)
(***************************************************************************)
dbg_std_executor_watch_data_set ==
    /\ "watch" \in enable
    /\ \E w \in Watches : cpuctrl_set_data_watch(w)
    /\ UNCHANGED <<cpuvars, stage, records>>

dbg_std_executor_watch_data_delete ==
    /\ "watch" \in enable
    /\ \/ \E i \in 1 .. WatchSize : cpuctrl_del_data_watch_point(i)
       \/ cpuctrl_del_all_data_watch_points
    /\ UNCHANGED <<cpuvars, stage, records>>

(***************************************************************************)
(* One instruction: the loop clears the access log, the instruction makes  *)
(* its accesses, and dbg_notify_cpu_clock_supply_end records.              *)
(***************************************************************************)
dbg_cpu_callback_start ==
    /\ stage = "start" /\ clock < MaxClock
    /\ stage' = "run" /\ log' = <<>> /\ made' = <<>> /\ current' \in Froms
    /\ UNCHANGED <<enable, core, clock, stop, watch, records>>

bus_access_set_log(a) == log' = IF Len(log) >= LogSize THEN log ELSE Append(log, a)

bus_get_data(a) == a.type = "r" /\ bus_access_set_log(a)
bus_put_data(a) == a.type = "w" /\ bus_access_set_log(a)

BusAccess ==
    /\ stage = "run" /\ "watch" \in enable
    /\ Len(made) < MaxBuses
    /\ \E a \in Buses : (bus_get_data(a) \/ bus_put_data(a)) /\ made' = Append(made, a)
    /\ UNCHANGED <<enable, core, stage, current, clock, stop, watch, records>>

\* The loop that takes the accesses from the log, newest first.
DataWatchCheck ==
    IF "watch" \in enable
    THEN /\ info' = FoldLeft(cpuctrl_set_access, info, Reverse(log))
         /\ stop' = \E i \in DOMAIN log :
                        \/ log[i].type = "r" /\ cpuctrl_is_break_read_access(log[i])
                        \/ log[i].type = "w" /\ cpuctrl_is_break_write_access(log[i])
         /\ log' = <<>>
    ELSE UNCHANGED <<info, stop, log>>

dbg_notify_cpu_clock_supply_end ==
    /\ stage = "run"
    /\ \E m \in Moves[enable] : LET p == m[1]  s == m[2] IN
         /\ IF "ft" \in enable
            THEN /\ trace' = [trace EXCEPT ![core] = cpuctrl_set_func_log_trace(@, p, s)]
                 /\ entered' = [entered EXCEPT ![core] = Entered(@, p, s)]
            ELSE UNCHANGED <<trace, entered>>
         /\ IF "prof" \in enable
            THEN /\ prof' = [prof EXCEPT ![core] = cpuctrl_profile_collect(@, p, s)]
                 /\ counted' = [counted EXCEPT ![core] = IF FuncId[p] = None THEN @ ELSE @ + 1]
            ELSE UNCHANGED <<prof, counted>>
         /\ IF "bt" \in enable /\ GlId[s] # None
            THEN /\ cpuctrl_set_stack_pointer(GlId[s], s)
                 /\ stacks' = [stacks EXCEPT ![GlId[s]] = Called(@, s)]
            ELSE stage' = "start" /\ UNCHANGED <<frames, stacks, past>>
    /\ DataWatchCheck
    /\ core' = (core + 1) % N
    /\ clock' = IF core' = 0 /\ enable \cap {"prof", "watch"} # {} THEN clock + 1 ELSE clock
    /\ UNCHANGED <<enable, current, made, watch>>

Init ==
    /\ enable \in Enables
    /\ core = 0 /\ stage = "start" /\ clock = 0 /\ log = <<>> /\ made = <<>> /\ stop = FALSE
    /\ current \in Froms
    /\ watch = [i \in 1 .. WatchSize |-> Unset]
    /\ trace = [c \in Cores |-> cpuctrl_init_func_log_trace] /\ entered = [c \in Cores |-> <<>>]
    /\ frames = [g \in 1 .. StackNum + 1 |-> NoFrames] /\ past = {}
    /\ stacks = [g \in GlIds |-> NoCalls]
    /\ info = [g \in GlIds |-> [access_num |-> 0, context |-> <<>>]]
    /\ prof = [c \in Cores |->
                 [current |-> None,
                  func |-> [f \in FuncIds |-> [call_num |-> 0, recursive_num |-> 0, sp |-> 0,
                                               start |-> 0, total |-> 0, time |-> 0]]]]
    /\ counted = [c \in Cores |-> 0]

Next ==
    \/ dbg_std_executor_watch_data_set \/ dbg_std_executor_watch_data_delete
    \/ dbg_cpu_callback_start \/ BusAccess \/ dbg_notify_cpu_clock_supply_end

Spec == Init /\ [][Next]_vars

(***************************************************************************)
(* An instruction stops the program exactly when a byte of one of its      *)
(* accesses (the first LogSize of them: the log drops the others) is a     *)
(* byte of a watch point set for reads, for writes or for both, whatever   *)
(* the user set and deleted since the access was made.                     *)
(***************************************************************************)
WatchStopsExact ==
    [][stage = "run" /\ stage' = "start" /\ "watch" \in enable =>
         stop' = \E i \in 1 .. Min({Len(made), LogSize}), j \in SetWatches :
                    /\ watch[j].type \in {made[i].type, "rw"}
                    /\ (made[i].addr .. made[i].addr + made[i].size - 1)
                        \cap (watch[j].addr .. watch[j].addr + watch[j].size - 1) # {}]_vars

(***************************************************************************)
(* Whatever the ring has overwritten, ft shows the functions that a core   *)
(* entered last, in order: <number> of them, as the help says              *)
(* (dbg_std_parser.c:1190-1195), or all it has logged. The number shrinks  *)
(* over the cores (dbg_std_executor.c:700), so a core behind one with a    *)
(* shorter log shows only as many as that one.                             *)
(***************************************************************************)
TraceExact ==
    \A c \in Cores, bt \in 1 .. FtLogSize + 1 :
        LET shown == fun_trace_toward_older(bt, c)
            asked == Min({bt, Len(entered[c])})
        IN  /\ trace[c].lognum = Len(entered[c])
            /\ \/ Len(shown) = asked
               \/ \E k \in 0 .. c - 1 : Len(entered[k]) < asked /\ Len(shown) = Len(entered[k])
            /\ shown = SubSeq(entered[c], Len(entered[c]) - Len(shown) + 1, Len(entered[c]))
            /\ fun_trace_toward_newer(bt, c) = Reverse(shown)

(***************************************************************************)
(* The frames that bt shows of a stack are its live ones, if the stack     *)
(* pointer moved up only to frames and no log was written past its end,    *)
(* its own or that of the variable before it. The assertion does not       *)
(* prevent that: it happens exactly when a stack is deeper than its log,   *)
(* or is in a variable that has none, and the assertion fails only after   *)
(* it has happened.                                                        *)
(***************************************************************************)
FramesExact ==
    /\ \A g \in GlIds : stacks[g].orderly /\ past \cap {g - 1, g} = {} =>
          dbg_std_executor_back_trace(g) =
             IF Len(stacks[g].live) <= 1 THEN <<>> ELSE Reverse(stacks[g].live)
    /\ \A g \in GlIds : stacks[g].orderly /\ g - 1 \notin past /\ stage # "exited" =>
          (g \in past <=> stacks[g].deepest > IF g > StackNum THEN 0 ELSE StackLogSize)
    /\ stage = "exited" => past # {}

(***************************************************************************)
(* The counts of the contexts of a variable add up to the accesses of the  *)
(* variable, so a variable that d shows as accessed has a context to sort; *)
(* no two contexts have the same function, stack, core and kind; and the   *)
(* sort of the container shows all of them, the oldest first.              *)
(***************************************************************************)
AccessesAccounted ==
    \A g \in GlIds :
        LET ctx   == info[g].context
            shown == dbg_std_executor_data_access_context(info[g])
        IN  /\ info[g].access_num = FoldLeft(LAMBDA n, c : n + c.access_num, 0, ctx)
            /\ info[g].access_num > 0 => ctx # <<>>
            /\ \A i, j \in DOMAIN ctx : ctx[i].key = ctx[j].key => i = j
            /\ Len(shown) = Len(ctx) /\ Range(shown) = Range(ctx)
            /\ \A i, j \in DOMAIN shown : i < j => shown[i].time <= shown[j].time

(***************************************************************************)
(* The profile accounts for every instruction in a known function once,    *)
(* and no function is charged, over all its calls and the one it is in,    *)
(* with more time than has passed: a recursive call is not timed twice.    *)
(***************************************************************************)
ProfileExact ==
    \A c \in Cores :
        LET f == prof[c].func
        IN  /\ MapThenSumSet(LAMBDA i : f[i].time, FuncIds) = counted[c]
            /\ \A i \in FuncIds :
                 /\ f[i].recursive_num \in {0, 1} /\ f[i].recursive_num <= f[i].call_num
                 /\ f[i].total + (IF f[i].recursive_num > 0 THEN clock - f[i].start ELSE 0) <= clock
            /\ {l[1] : l \in dbg_std_executor_profile(c)} = {i \in FuncIds : f[i].call_num > 0}

==============================================================================
