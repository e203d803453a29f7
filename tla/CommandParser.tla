--------------------------- MODULE CommandParser ---------------------------
(***************************************************************************)
(* The command line of the interactive debugger: token.c splits a line     *)
(* into tokens, the parsers of dbg_std_parser.c are tried in the order of  *)
(* dbg_parser_config.c, and dbg_parser.c decides what an accepted, a       *)
(* rejected, a failed and an empty line do to the command that do_cui()    *)
(* runs.  A word is its spelling class and value; the text of the help is  *)
(* the table of the line forms it promises.                                *)
(***************************************************************************)
EXTENDS Naturals, Sequences, FiniteSets

CONSTANTS Survey,     \* the lines, as sequences of words, tried first
          Lines,      \* the lines typed later in the session
          Stale,      \* what the uninitialised token_container may hold
          CoreNum,    \* cpu_config_get_core_id_num()
          MaxTokens,  \* TOKEN_CONTAINER_MAX_SIZE
          LongTop,    \* the first decimal out of range of strtol()
          HexTop,     \* the first hexadecimal out of range of strtoull()
          HelpNumbers,    \* the numbers and addresses the help's forms are
          HelpAddrs,      \* tried with
          DecMod      \* 2^32, the width of TokenValueDecType

VARIABLES mode,       \* "debug" or "cpu": cpuctrl_is_debug_mode()
          started,    \* a first line has been typed
          command,    \* parse_command, the one static command record
          last,       \* last_command # NULL
          ran,        \* the command the latest line made do_cui() run
          accepted,   \* how many parsers accept the latest line
          promised,   \* the forms of the help that the latest line has
          recorded    \* the latest command that succeeded, and the latest
                      \* that the mode refused since

vars == <<mode, started, command, last, ran, accepted, promised, recorded>>

(* Words as typed: other text, decimal digits, 0x and hexadecimal digits,  *)
(* or a run of characters longer than a token may be.                      *)
Text(s) == [form |-> "text", str |-> s, val |-> 0]
Decimal(n) == [form |-> "decimal", str |-> "", val |-> n]
Hexadecimal(n) == [form |-> "hexadecimal", str |-> "", val |-> n]
TooLong == [form |-> "long", str |-> "", val |-> 0]

BreakLen == 5   \* break_string.len

Token(type, s, n) == [type |-> type, str |-> s, val |-> n]

(* A number out of range stays a string; a decimal is cut to 32 bits.      *)
set_token(w) ==
    CASE w.form = "decimal" /\ w.val < LongTop -> Token("DEC", "", w.val % DecMod)
      [] w.form = "hexadecimal" /\ w.val < HexTop -> Token("HEX", "", w.val)
      [] OTHER -> Token("STRING", w.str, 0)

(* The limits a line is refused for; the token count is tested before it   *)
(* is raised.                                                              *)
SplitFails(line) ==
    \/ \E i \in DOMAIN line : line[i].form = "long"
    \/ Len(line) > MaxTokens + 1

(* A number is stored over the length of the string that was there: the    *)
(* old text shows through where the number is that text's length.          *)
Over(t, old) ==
    IF t.type # "STRING" /\ old = Token("STRING", "break", 0) /\ t.val = BreakLen
    THEN [t EXCEPT !.str = old.str]
    ELSE t

(* The container keeps what was there behind the last token.               *)
token_split(line, stale) ==
    [num |-> Len(line),
     array |-> [i \in 1..4 |-> IF i <= Len(line) THEN Over(set_token(line[i]), stale[i])
                               ELSE stale[i]]]

Command(id, type) == [id |-> id, type |-> type, addr |-> 0]
AddrCommand(id, type, a) == [id |-> id, type |-> type, addr |-> a]
Error == Command("PARSE_ERROR", "error")
None == Command("none", "none")

When(accepts, cmd) == IF accepts THEN {cmd} ELSE {}

(* The shape of a line: its head is one of the names, and the type of      *)
(* token i is types[i].                                                    *)
token_strcmp(t, s) == t.str = s
Named(c, names) == c.array[1].type = "STRING"
                   /\ \E s \in names : token_strcmp(c.array[1], s)
Typed(c, i, type) == c.array[i].type = type
Is(c, i, s) == Typed(c, i, "STRING") /\ token_strcmp(c.array[i], s)
Shape(c, types) ==
    /\ c.num = Len(types) + 1
    /\ \A i \in 1..Len(types) : Typed(c, i + 1, types[i])

dbg_parse_break(c) ==
    LET head == Named(c, {"break", "b"}) /\ c.num \in 2..3
    IN  When(head /\ Typed(c, 2, "HEX"), AddrCommand("BREAK", "set", c.array[2].val))
        \cup When(head /\ Shape(c, <<"STRING">>), Command("BREAK", "symbol"))
        \cup When(head /\ Shape(c, <<"STRING", "DEC">>), Command("BREAK", "file_line"))
        \cup When(Named(c, {"info"}) /\ c.num \in 2..3
                  /\ token_strcmp(c.array[2], "break"), Command("BREAK", "info"))

dbg_parse_watch_data(c) ==
    LET head == Named(c, {"watch", "w"}) /\ c.num >= 2 /\ Typed(c, 2, "STRING")
        set == head /\ \E s \in {"r", "w", "rw"} : Is(c, 2, s)
    IN  When(head /\ Is(c, 2, "d") /\ c.num = 2, Command("DATA_WATCH", "delete_all"))
        \cup When(head /\ Is(c, 2, "d") /\ Shape(c, <<"STRING", "DEC">>),
                  Command("DATA_WATCH", "delete_one"))
        \cup When(set /\ Shape(c, <<"STRING", "STRING">>), Command("DATA_WATCH", "symbol"))
        \cup When(set /\ Shape(c, <<"STRING", "HEX", "DEC">>),
                  AddrCommand("DATA_WATCH", "set", c.array[3].val))
        \cup When(Named(c, {"info"}) /\ c.num >= 2 /\ Is(c, 2, "watch"),
                  Command("DATA_WATCH", "info"))

dbg_parse_delete(c) ==
    LET head == Named(c, {"delete", "d"})
    IN  When(head /\ c.num = 1, Command("DELETE", "all"))
        \cup When(head /\ Shape(c, <<"DEC">>), Command("DELETE", "one"))

(* Only num > 2 is refused: no token at all counts as a clock count.       *)
dbg_parse_cont(c) ==
    LET head == Named(c, {"cont", "c"})
    IN  When(head /\ c.num = 1, Command("CONT", "all"))
        \cup When(head /\ (c.num = 0 \/ Shape(c, <<"DEC">>)), Command("CONT", "clocks"))


dbg_parse_core(c) ==
    LET head == Named(c, {"core"})
    IN  When(head /\ c.num = 1, Command("CORE", "show"))
        \cup When(head /\ c.num = 3 /\ Is(c, 2, "all") /\ Is(c, 3, "t"),
                  Command("CORE", "all"))
        \cup When(head /\ Shape(c, <<"DEC", "STRING">>) /\ c.array[2].val < CoreNum,
                  Command("CORE", "single"))

dbg_parse_intr(c) ==
    When(Named(c, {"intr", "i"}) /\ Shape(c, <<"DEC">>), Command("INTR", "intr"))

dbg_parse_elaps(c) ==
    When(Named(c, {"elaps", "e"}) /\ c.num = 1, Command("ELAPS", "elaps"))

dbg_parse_next(c) ==
    When(Named(c, {"next", "n"}) /\ c.num = 1, Command("NEXT", "next"))

dbg_parse_return(c) ==
    When(Named(c, {"return", "r"}) /\ c.num = 1, Command("RETURN", "return"))

dbg_parse_view(c) ==
    When(Named(c, {"view", "v"}) /\ c.num = 1, Command("VIEW", "view"))

(* The address of a print is read from the 32-bit member of the token.     *)
dbg_parse_print(c) ==
    LET head == Named(c, {"print", "p"})
        addr == c.array[2].val % DecMod
    IN  When(head /\ Shape(c, <<"STRING">>), Command("PRINT", "symbol"))
        \cup When(head /\ Shape(c, <<"HEX">>), AddrCommand("PRINT", "addr", addr))
        \cup When(head /\ Shape(c, <<"HEX", "DEC">>), AddrCommand("PRINT", "addr_size", addr))
        \cup When(head /\ Shape(c, <<"HEX", "STRING", "STRING">>),
                  AddrCommand("PRINT", "addr_type", addr))

(* The standard id is left at the one of the default error.                *)
dbg_parse_memset(c) ==
    When(Named(c, {"set", "s"}) /\ Shape(c, <<"HEX", "DEC">>),
         AddrCommand("PARSE_ERROR", "memset", c.array[2].val))

dbg_parse_quit(c) ==
    When(Named(c, {"quit", "q"}) /\ c.num = 1, Command("QUIT", "quit"))

dbg_parse_list(c) ==
    When(Named(c, {"list", "l"}) /\ c.num = 1, Command("LIST", "list"))

dbg_parse_exit(c) ==
    When(Named(c, {"exit"}) /\ c.num = 1, Command("EXIT", "exit"))

dbg_parse_serialin(c) ==
    When(Named(c, {"serial", "S"}) /\ c.num >= 3 /\ Typed(c, 2, "DEC"),
         Command("SERIALIN", "serialin"))

dbg_parse_info_cpu(c) ==
    LET head == Named(c, {"cpu"})
    IN  When(head /\ c.num = 1, Command("INFO_CPU", "all"))
        \cup When(head /\ Shape(c, <<"DEC">>), Command("INFO_CPU", "single"))

(* Any third token reverses the way.                                       *)
dbg_parse_func_trace(c) ==
    LET head == Named(c, {"ft"}) /\ c.num \in 2..3 /\ Typed(c, 2, "DEC")
    IN  When(head /\ c.num = 2, Command("FUNC_TRACE", "older"))
        \cup When(head /\ c.num = 3, Command("FUNC_TRACE", "newer"))

dbg_parse_data_access_info(c) ==
    When(Named(c, {"access"}) /\ Shape(c, <<"STRING">>), Command("DATA_ACCESS_INFO", "access"))

dbg_parse_back_trace(c) ==
    When(Named(c, {"bt"}) /\ c.num = 1, Command("BACK_TRACE", "bt"))

dbg_parse_profile(c) ==
    When(Named(c, {"prof"}) /\ c.num = 1, Command("PROFILE", "prof"))

dbg_parse_help(c) ==
    When(Named(c, {"help"}) /\ c.num = 1, Command("HELP", "help"))

(* The line forms of the help text, each with the command it promises for  *)
(* a name, a number and an address.  The commands that control the program *)
(* come first, then those that show and change data.                       *)
Form(line, id, type) == [line |-> line, cmd |-> Command(id, type)]
AddrForm(line, id, type, a) == [line |-> line, cmd |-> AddrCommand(id, type, a)]
control_help_list(name, n, a) ==
    {Form(<<Text("break"), Text(name)>>, "BREAK", "symbol"),
     AddrForm(<<Text("break"), Hexadecimal(a)>>, "BREAK", "set", a),
     Form(<<Text("break"), Text(name), Decimal(n)>>, "BREAK", "file_line"),
     Form(<<Text("info"), Text("break")>>, "BREAK", "info"),
     Form(<<Text("delete")>>, "DELETE", "all"),
     Form(<<Text("delete"), Decimal(n)>>, "DELETE", "one"),
     Form(<<Text("watch"), Text("d")>>, "DATA_WATCH", "delete_all"),
     Form(<<Text("watch"), Text("d"), Decimal(n)>>, "DATA_WATCH", "delete_one"),
     Form(<<Text("info"), Text("watch")>>, "DATA_WATCH", "info"),
     Form(<<Text("cont")>>, "CONT", "all"),
     Form(<<Text("cont"), Decimal(n)>>, "CONT", "clocks"),
     Form(<<Text("core")>>, "CORE", "show"),
     Form(<<Text("intr"), Decimal(n)>>, "INTR", "intr"),
     Form(<<Text("elaps")>>, "ELAPS", "elaps"),
     Form(<<Text("next")>>, "NEXT", "next"),
     Form(<<Text("return")>>, "RETURN", "return"),
     Form(<<Text("view")>>, "VIEW", "view")}
    \cup UNION {{Form(<<Text("core"), Decimal(n), Text(m)>>, "CORE", "single"),
                 Form(<<Text("core"), Text("all"), Text(m)>>, "CORE", "all")} : m \in {"t", "f"}}
    \cup {Form(<<Text("watch"), Text(k), Text(name)>>, "DATA_WATCH", "symbol") :
             k \in {"r", "w", "rw"}}
    \cup {AddrForm(<<Text("watch"), Text(k), Hexadecimal(a), Decimal(n)>>,
                   "DATA_WATCH", "set", a) : k \in {"r", "w", "rw"}}

data_help_list(name, n, a) ==
    {Form(<<Text("print"), Text(name)>>, "PRINT", "symbol"),
     AddrForm(<<Text("print"), Hexadecimal(a), Decimal(n)>>, "PRINT", "addr_size", a),
     AddrForm(<<Text("print"), Hexadecimal(a), Text("s"), Text(name)>>,
              "PRINT", "addr_type", a),
     AddrForm(<<Text("set"), Hexadecimal(a), Decimal(n)>>, "PARSE_ERROR", "memset", a),
     Form(<<Text("quit")>>, "QUIT", "quit"),
     Form(<<Text("exit")>>, "EXIT", "exit"),
     Form(<<Text("serial"), Decimal(n), Text(name)>>, "SERIALIN", "serialin"),
     Form(<<Text("cpu")>>, "INFO_CPU", "all"),
     Form(<<Text("cpu"), Decimal(n)>>, "INFO_CPU", "single"),
     Form(<<Text("ft"), Decimal(n)>>, "FUNC_TRACE", "older"),
     Form(<<Text("ft"), Decimal(n), Text("r")>>, "FUNC_TRACE", "newer"),
     Form(<<Text("access"), Text(name)>>, "DATA_ACCESS_INFO", "access"),
     Form(<<Text("bt")>>, "BACK_TRACE", "bt"),
     Form(<<Text("profile")>>, "PROFILE", "prof"),
     Form(<<Text("list")>>, "LIST", "list"),
     Form(<<Text("help")>>, "HELP", "help")}

Help == UNION {control_help_list("x", n, a) \cup data_help_list("x", n, a) : n \in HelpNumbers, a \in HelpAddrs}
Promised(line) == {f \in Help : f.line = line}

(* What each parser of the table makes of the tokens.                      *)
dbg_cmd_parser_std_table(c) ==
    <<dbg_parse_break(c), dbg_parse_delete(c), dbg_parse_intr(c),
      dbg_parse_watch_data(c), dbg_parse_cont(c), dbg_parse_core(c),
      dbg_parse_elaps(c), dbg_parse_next(c), dbg_parse_return(c),
      dbg_parse_view(c), dbg_parse_print(c), dbg_parse_memset(c),
      dbg_parse_quit(c), dbg_parse_exit(c), dbg_parse_serialin(c),
      dbg_parse_info_cpu(c), dbg_parse_func_trace(c),
      dbg_parse_data_access_info(c), dbg_parse_back_trace(c),
      dbg_parse_profile(c), dbg_parse_list(c), dbg_parse_help(c)>>

Accepting(table) == {i \in DOMAIN table : table[i] # {}}

(* The first parser that accepts the tokens decides.                       *)
Parsed(table) ==
    IF Accepting(table) = {} THEN Error
    ELSE LET first == CHOOSE i \in Accepting(table) : \A j \in Accepting(table) : i <= j
         IN  CHOOSE cmd \in table[first] : TRUE

(* What running a command does to the mode: cont, next and return let the  *)
(* CPU go, quit stops it, exit ends the session.                           *)
ModeAfter(cmd) ==
    CASE cmd.id \in {"CONT", "NEXT", "RETURN"} -> "cpu"
      [] cmd.id = "QUIT" -> "debug"
      [] cmd.id = "EXIT" -> "ended"
      [] OTHER -> mode

can_execute(cmd) == IF mode = "debug" THEN cmd.id # "QUIT" ELSE cmd.id = "QUIT"

Run(cmd) == ran' = cmd /\ mode' = ModeAfter(cmd)

NothingRecorded == [ok |-> None, refused |-> None]
errdone ==
    /\ command' = Error /\ last' = FALSE /\ recorded' = NothingRecorded
    /\ Run(Error)

(* A line that is not empty, or an empty one with no command to repeat.    *)
(* The default error, the parsers' result and a rejected command all go    *)
(* into the one parse_command.                                             *)
ParseLine(line, stale) ==
    LET table == dbg_cmd_parser_std_table(token_split(line, stale))
        cmd == Parsed(table)
    IN  /\ promised' = Promised(line)
        /\ IF SplitFails(line)
           THEN errdone /\ accepted' = 0
           ELSE
             /\ accepted' = Cardinality(Accepting(table))
             /\ \/ Accepting(table) = {} /\ errdone
                \/ /\ Accepting(table) # {} /\ ~can_execute(cmd)
                   /\ command' = cmd /\ ran' = None
                   /\ recorded' = [recorded EXCEPT !.refused = cmd]
                   /\ UNCHANGED <<mode, last>>
                \/ /\ Accepting(table) # {} /\ can_execute(cmd)
                   /\ command' = cmd /\ last' = TRUE
                   /\ recorded' = [ok |-> cmd, refused |-> None]
                   /\ Run(cmd)

(* The user types a line; blanks alone have no token.                      *)
dbg_parse ==
    /\ mode # "ended"
    /\ started' = TRUE
    /\ \E line \in IF started THEN Lines ELSE Survey, stale \in Stale :
          ParseLine(line, stale)

(* The user types the newline alone.                                       *)
EmptyLine ==
    /\ mode # "ended" /\ started
    /\ \/ last /\ Run(command) /\ UNCHANGED <<command, last, accepted, promised, recorded>>
       \/ ~last /\ \E stale \in Stale : ParseLine(<<>>, stale)
    /\ UNCHANGED started

(* The CPU thread stops at a break point, or after the step.               *)
CpuStops ==
    /\ mode = "cpu" /\ mode' = "debug"
    /\ UNCHANGED <<started, command, last, ran, accepted, promised, recorded>>

Init ==
    /\ mode = "debug" /\ started = FALSE
    /\ command = None /\ last = FALSE
    /\ ran = None /\ accepted = 0 /\ promised = {} /\ recorded = NothingRecorded

Next == dbg_parse \/ EmptyLine \/ CpuStops

Spec == Init /\ [][Next]_vars
-----------------------------------------------------------------------------
(* The order of dbg_cmd_parser_std_table does not matter: no line is       *)
(* accepted by two parsers, so no command hides another one.               *)
OneParser == accepted <= 1

(* What the help text is worth: a line of a form that help_list shows is   *)
(* parsed to the command it describes, for every name, number and address; *)
(* but for two of the forms, which the parsers take for an error: core all *)
(* with the mode f (dbg_std_parser.c:1041-1042), and profile (1227).       *)
Untrue == {<<Text("core"), Text("all"), Text("f")>>, <<Text("profile")>>}
HelpHolds == \A f \in promised : command = IF f.line \in Untrue THEN Error ELSE f.cmd

(* The newline alone never runs the error of a failed line, for errdone    *)
(* clears last_command. It runs the command of the latest line that        *)
(* succeeded, which is the one that is recorded (dbg_parser.c:88), until   *)
(* the mode refuses a line: that one has overwritten it and runs instead.  *)
EnterRunsAccepted ==
    last => /\ command \notin {None, Error}
            /\ command = IF recorded.refused = None THEN recorded.ok ELSE recorded.refused

=============================================================================
