-------------------------------- MODULE Startup --------------------------------
(***************************************************************************)
(* From the command line to a running emulator: argument_parser.c and      *)
(* option.c (parse_args), cpuemu_set_comm_fifocfg, and main.cpp (main) up  *)
(* to the mode it runs in.                                                 *)
(*                                                                         *)
(* A word of argv is a sequence of the characters the parser tells apart:  *)
(* "-", "=", the letter of a short option, the name of a long one, and an  *)
(* argument, each as one element.                                          *)
(***************************************************************************)
EXTENDS Naturals, Sequences, SequencesExt

CONSTANTS Requests,   \* option sequences a user may ask for, see Spell
          FifoFiles   \* contents of a -p file: its first two lines

None == "none"
ShortOptions == {"i", "r", "b", "t", "p", "d", "c", "m", "g"}
LongOptions == {"hakoniwa", "pdudef", "delta-usec", "max-delay-usec",
                "disable-conductor", "real-sleep-msec"}
Options == ShortOptions \cup LongOptions
Flags == {"i", "r", "b", "disable-conductor"}
Numeric == {"t", "c", "g", "delta-usec", "max-delay-usec", "real-sleep-msec"}
NonZero == {"g", "delta-usec", "max-delay-usec"}
Files == {"p", "d", "m"}

\* strtol and strtoll: the numbers among the arguments.
Number == [n \in {"0", "1", "2", "65536"} |->
              CASE n = "0" -> 0 [] n = "1" -> 1 [] n = "2" -> 2 [] n = "65536" -> 65536]

\* What is wrong with the files: one that is named does not exist or is not well formed,
\* the load file cannot be read or its path is too long, a FIFO does not exist.
Faults == {None, "no p", "no d", "no m", "bad d", "bad m", "long path", "no file", "bad elf",
           "no rx", "no tx", "bad asset"}

\* (uint64)-1, the end clock that is never reached.
Unlimited == 2147483647

VARIABLES asked, file, fifo, hakoniwa_enabled, fault,   \* inputs
          argv,
          stage, parser, cmd_option, load_filepath,
          tx_path, rx_path,                             \* cpuemu_fifo_file
          mode,
          end_clock                                     \* cpuemu_cpu_end_clock

inputs == <<asked, file, fifo, hakoniwa_enabled, fault, argv>>
vars == <<inputs, stage, parser, cmd_option, load_filepath, tx_path, rx_path, mode, end_clock>>

-----------------------------------------------------------------------------
(* What a user writes for a request: each option [opt, arg, glued, apart]  *)
(* in the word before it if that holds flags only, its argument attached   *)
(* or in a word of its own.                                                 *)

AddOption(words, q) ==
    LET arg == IF q.arg = None THEN <<>> ELSE <<q.arg>>
        group == /\ words # <<>> /\ Len(Last(words)) > 1
                 /\ Last(words)[1] = "-" /\ \A k \in 2 .. Len(Last(words)) : Last(words)[k] \in Flags
        tail == IF q.apart /\ arg # <<>> THEN <<arg>> ELSE <<>>
        own == IF q.apart THEN <<>> ELSE arg
    IN IF q.opt \in LongOptions
       THEN words \o << <<"-", "-", q.opt>> \o (IF own = <<>> THEN <<>> ELSE <<"=">> \o own) >> \o tail
       ELSE IF q.glued /\ group
       THEN Front(words) \o << Last(words) \o <<q.opt>> \o own >> \o tail
       ELSE words \o << <<"-", q.opt>> \o own >> \o tail

Spell(request, operand, dashes) ==
    FoldLeft(AddOption, <<>>, request)
      \o (IF dashes THEN << <<"-", "-">> >> ELSE <<>>)
      \o (IF operand = None THEN <<>> ELSE << <<operand>> >>)

\* Every way to spell a request is tried where nothing else goes wrong.
Plain == \A k \in DOMAIN asked : asked[k].apart /\ ~asked[k].glued

Init ==
    /\ asked \in Requests
    /\ file \in {None, "image"}
    /\ fifo \in IF ~\E k \in DOMAIN asked : asked[k].opt = "p" THEN {<<>>}
               ELSE IF Plain THEN FifoFiles ELSE {<<"TX", "RX">>}
    /\ hakoniwa_enabled \in IF \E k \in DOMAIN asked : asked[k].opt = "hakoniwa" THEN BOOLEAN ELSE {TRUE}
    /\ fault \in IF Plain THEN Faults ELSE {None}
    /\ \E dashes \in BOOLEAN : argv = Spell(asked, file, dashes)
    /\ stage = "main"
    /\ parser = [index |-> 1, character_index |-> 0]
    /\ cmd_option = [o \in Options |-> None]
    /\ load_filepath = None /\ tx_path = None /\ rx_path = None /\ mode = None
    /\ end_clock = Unlimited

-----------------------------------------------------------------------------
(* argument_parser_next_long, over argv[1 .. argc - 1].                     *)

Found(index, char, opt, arg) ==
    [parser |-> [index |-> index, character_index |-> char], opt |-> opt, argument |-> arg]

\* Lines 51 to 94, the word --name or --name=argument.
NextLong ==
    LET word == argv[parser.index]
        name == word[3]
        equals == Len(word) > 3
        i == parser.index
    IN IF name \notin LongOptions THEN Found(i + 1, 0, "?", None)
       ELSE IF name \in Flags THEN Found(i + 1, 0, IF equals THEN "?" ELSE name, None)
       ELSE IF equals THEN Found(i + 1, 0, name, word[5])
       ELSE IF i + 1 <= Len(argv) THEN Found(i + 2, 0, name, argv[i + 1][1])
       ELSE Found(i + 1, 0, "?", None)

\* Mutant: an argument in a word of its own is not skipped.
NextShort_NoSkip(at) ==
    LET word == argv[parser.index]
        opt == word[at + 1]
        last == Len(word) = at + 1
        i == parser.index
    IN IF opt \notin ShortOptions
       THEN IF last THEN Found(i + 1, 0, "?", None) ELSE Found(i, at + 1, "?", None)
       ELSE IF opt \in Flags
       THEN IF last THEN Found(i + 1, 0, opt, None) ELSE Found(i, at + 1, opt, None)
       ELSE IF ~last THEN Found(i + 1, 0, opt, word[at + 2])
       ELSE IF i + 1 <= Len(argv) THEN Found(i + 1, 0, opt, argv[i + 1][1])
       ELSE Found(i + 1, 0, "?", None)

\* Lines 98 to 131, the character at character_index of a word.
NextShort(at) ==
    LET word == argv[parser.index]
        opt == word[at + 1]
        last == Len(word) = at + 1
        i == parser.index
    IN IF opt \notin ShortOptions
       THEN IF last THEN Found(i + 1, 0, "?", None) ELSE Found(i, at + 1, "?", None)
       ELSE IF opt \in Flags
       THEN IF last THEN Found(i + 1, 0, opt, None) ELSE Found(i, at + 1, opt, None)
       ELSE IF ~last THEN Found(i + 1, 0, opt, word[at + 2])
       ELSE IF i + 1 <= Len(argv) THEN Found(i + 2, 0, opt, argv[i + 1][1])
       ELSE Found(i + 1, 0, "?", None)

argument_parser_next_long ==
    LET word == argv[parser.index]
        i == parser.index
    IN IF i > Len(argv) THEN Found(i, parser.character_index, "end", None)
       ELSE IF parser.character_index # 0 THEN NextShort(parser.character_index)
       ELSE IF word[1] # "-" \/ Len(word) = 1 THEN Found(i, 0, "end", None)
       ELSE IF word[2] # "-" THEN NextShort(1)
       ELSE IF Len(word) = 2 THEN Found(i + 1, 0, "end", None)
       ELSE NextLong

-----------------------------------------------------------------------------
(* parse_args                                                               *)

\* cmd_atoi, cmd_atoi32 and the ranges the switch checks.
ArgumentTaken(opt, arg) ==
    opt \in Numeric => /\ arg \in DOMAIN Number
                       /\ opt \in NonZero => Number[arg] # 0
                       /\ opt = "g" => Number[arg] <= 65535

Exit == stage' = "exit" /\ UNCHANGED <<inputs, parser, cmd_option, load_filepath, tx_path, rx_path, mode, end_clock>>

\* The scan of argv that main does first. Its second comparison takes one character
\* more than "--hakoniwa=" has, so that it matches only where nothing follows the "=".
HakoniwaScan ==
    /\ stage = "main"
    /\ LET scanned == \E k \in DOMAIN argv :
              argv[k] \in {<<"-", "-", "hakoniwa">>, <<"-", "-", "hakoniwa", "=">>}
       IN IF scanned /\ ~hakoniwa_enabled THEN Exit
          ELSE /\ stage' = IF argv = <<>> THEN "exit" ELSE "options"
               /\ UNCHANGED <<inputs, parser, cmd_option, load_filepath, tx_path, rx_path, mode, end_clock>>

\* One turn of the loop over the options.
NextOption ==
    /\ stage = "options"
    /\ LET r == argument_parser_next_long
       IN /\ r.opt # "end"
          /\ IF r.opt = "?" \/ ~ArgumentTaken(r.opt, r.argument) THEN Exit
             ELSE /\ parser' = r.parser
                  /\ cmd_option' = [cmd_option EXCEPT
                        ![r.opt] = IF r.opt \in Flags THEN "set" ELSE r.argument,
                        !["i"] = IF r.opt \in {"i", "g"} THEN "set" ELSE @]
                  /\ UNCHANGED <<inputs, stage, load_filepath, tx_path, rx_path, mode, end_clock>>

Missing(f) == cmd_option[f] # None /\ fault = "no " \o f

\* The rest of parse_args: one core for GDB, the load file, the files named.
EndOfOptions ==
    /\ stage = "options"
    /\ LET r == argument_parser_next_long
           cores == IF cmd_option["c"] = None THEN 0 ELSE Number[cmd_option["c"]]
       IN /\ r.opt = "end"
          /\ IF \/ cmd_option["g"] # None /\ cores > 1
                \/ r.parser.index > Len(argv)
                \/ fault \in {"long path", "no file"}
                \/ \E f \in Files : Missing(f)
             THEN Exit
             ELSE /\ stage' = "configure"
                  /\ parser' = r.parser
                  /\ load_filepath' = argv[r.parser.index][1]
                  /\ cmd_option' = [cmd_option EXCEPT !["c"] = IF cmd_option["g"] # None THEN "1" ELSE @]
                  /\ UNCHANGED <<inputs, tx_path, rx_path, mode, end_clock>>

-----------------------------------------------------------------------------
(* main                                                                     *)

\* A line of the -p file is a keyword and a name: it sets the path of its keyword,
\* once; another keyword has no effect.
parse_fifopath(line, paths) ==
    IF line \in {"blank", "bad"} \/ (line \in {"TX", "RX"} /\ line \in paths) THEN None
    ELSE "ok"

\* cpuemu_set_comm_fifocfg: the two lines are read, the paths set, and both cleared
\* when a line is refused, a path is missing or there is no file.
cpuemu_set_comm_fifocfg ==
    LET first == parse_fifopath(fifo[1], {})
        second == parse_fifopath(fifo[2], {fifo[1]})
        done == /\ first # None /\ second # None /\ {"TX", "RX"} \subseteq {fifo[1], fifo[2]}
                /\ fault \notin {"no rx", "no tx"}
    IN IF done THEN tx_path' = "tx" /\ rx_path' = "rx" ELSE tx_path' = None /\ rx_path' = None

\* -i with --hakoniwa is refused; then the -p, -d and -m files and the image.
Configure ==
    /\ stage = "configure"
    /\ IF cmd_option["hakoniwa"] # None /\ cmd_option["i"] # None THEN Exit
       ELSE /\ IF cmd_option["p"] = None THEN UNCHANGED <<tx_path, rx_path>>
               ELSE cpuemu_set_comm_fifocfg
            /\ stage' = IF \/ cmd_option["p"] # None /\ tx_path' = None
                           \/ cmd_option["d"] # None /\ fault = "bad d"
                           \/ cmd_option["m"] # None /\ fault = "bad m"
                           \/ cmd_option["b"] = None /\ fault = "bad elf"
                        THEN "exit" ELSE "run"
            /\ UNCHANGED <<inputs, parser, cmd_option, load_filepath, mode, end_clock>>

\* The mode main ends in, and the clock at which a background mode ends;
\* athrill_hakoniwa_initialize fails in a build without Hakoniwa.
Run ==
    /\ stage = "run"
    /\ LET interaction == cmd_option["i"] # None
           hakoniwa == cmd_option["hakoniwa"] # None
           timeout == IF cmd_option["t"] = None THEN 0 ELSE Number[cmd_option["t"]]
       IN /\ end_clock' = IF interaction THEN end_clock
                          ELSE IF hakoniwa /\ timeout = 0 THEN Unlimited ELSE timeout
          /\ IF ~interaction /\ hakoniwa /\ (~hakoniwa_enabled \/ fault = "bad asset")
             THEN stage' = "exit" /\ UNCHANGED mode
             ELSE /\ stage' = "running"
                  /\ mode' = IF interaction
                             THEN IF cmd_option["g"] # None THEN "gdb"
                                  ELSE IF cmd_option["r"] # None THEN "remote" ELSE "stdio"
                             ELSE IF hakoniwa THEN "hakoniwa" ELSE "background"
    /\ UNCHANGED <<inputs, parser, cmd_option, load_filepath, tx_path, rx_path>>

Stopped == stage \in {"exit", "running"} /\ UNCHANGED vars

Next == HakoniwaScan \/ NextOption \/ EndOfOptions \/ Configure \/ Run \/ Stopped

Spec == Init /\ [][Next]_vars

-----------------------------------------------------------------------------
(* Properties.                                                              *)

Asks(o) == \E k \in DOMAIN asked : asked[k].opt = o
LastArgument(o) == LET k == CHOOSE k \in DOMAIN asked :
                               asked[k].opt = o /\ \A j \in DOMAIN asked : asked[j].opt = o => j <= k
                   IN asked[k].arg

\* The request is one the emulator accepts, from the options' documented ranges.
Acceptable ==
    /\ file # None /\ fault \notin {"long path", "no file"}
    /\ \A k \in DOMAIN asked :
          /\ asked[k].opt \in Options
          /\ asked[k].opt \in Flags <=> asked[k].arg = None
          /\ ArgumentTaken(asked[k].opt, asked[k].arg)
    /\ Asks("g") => ~Asks("c") \/ Number[LastArgument("c")] < 2
    /\ Asks("hakoniwa") => ~Asks("i") /\ ~Asks("g") /\ hakoniwa_enabled /\ fault # "bad asset"
    /\ \A f \in Files : Asks(f) => fault # "no " \o f /\ fault # "bad " \o f
    /\ Asks("b") \/ fault # "bad elf"
    /\ Asks("p") => {fifo[1], fifo[2]} = {"TX", "RX"} /\ fault \notin {"no rx", "no tx"}

\* When a run ends that nobody stops (-t of docs/configuration.md): at the clock given;
\* without one, or at 0, a plain background run ends at once and Hakoniwa's never; an
\* interactive one has no limit whatever is given.
AskedEnd ==
    IF Asks("i") \/ Asks("g") THEN Unlimited
    ELSE IF Asks("t") /\ LastArgument("t") # "0" THEN Number[LastArgument("t")]
    ELSE IF Asks("hakoniwa") THEN Unlimited ELSE 0

\* The emulator starts exactly when it is asked for something it can do, and then as
\* it is asked, however the command line is spelled: options joined in one word or
\* not, arguments attached or apart, -- before the load file (parse_args, main).  When
\* it ends is what docs/configuration.md says, not the comment main.cpp:142, which has
\* no limit without -t.
StartsAsAsked ==
    /\ stage = "exit" => ~Acceptable
    /\ stage = "running" =>
          /\ Acceptable /\ load_filepath = file
          /\ \A o \in Options \ {"i", "c"} :
                cmd_option[o] = IF ~Asks(o) THEN None ELSE IF o \in Flags THEN "set" ELSE LastArgument(o)
          /\ mode = IF Asks("g") THEN "gdb"
                    ELSE IF Asks("i") THEN IF Asks("r") THEN "remote" ELSE "stdio"
                    ELSE IF Asks("hakoniwa") THEN "hakoniwa" ELSE "background"
          /\ end_clock = AskedEnd
          /\ cmd_option["c"] = IF Asks("g") THEN "1" ELSE IF Asks("c") THEN LastArgument("c") ELSE None
=============================================================================
