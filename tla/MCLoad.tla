--------------------------------- MODULE MCLoad ---------------------------------
(***************************************************************************)
(* What happens before the first instruction, and the memory it sets up,   *)
(* on small instances: the ELF image, its symbols and line tables, the     *)
(* memory regions and the heap, the command line, the device configuration *)
(* with the host functions.  They share no state, so each behaviour runs   *)
(* one of them, part; the variables of the others keep one value.          *)
(***************************************************************************)
EXTENDS ElfImage, HostFunctions, Symbols, TLC

VARIABLES part,
          \* LineMap
          units, bytes, current, off, entries, rows, lineStage,
          \* Memory
          memmap, memStage, entry, map, heap, prev, live,
          \* Startup
          asked, fifoFile, fifo, hakoniwa_enabled, fault, argv, startStage, parser,
          cmd_option, load_filepath, tx_path, rx_path, mode, end_clock

-----------------------------------------------------------------------------
(* Images: headers of one or two units in a file of 12 bytes, with one     *)
(* segment, or with four sections of which 0 holds names, 1 symbols, 2 the *)
(* symbols' names.  Offsets and sizes lie inside, at the end and beyond.    *)
(* Longer files have the debug sections as well, some of another type, or  *)
(* twice, or missing.                                                      *)

ByClass(a, b) == [c \in {32, 64} |-> IF c = 32 THEN a ELSE b]
MCHeaderSize == ByClass(1, 2)
Section(t, n, o, s, l, e) ==
    [type |-> t, key |-> "", readable |-> TRUE, name |-> n, offset |-> o, size |-> s, link |-> l,
     entsize |-> e]
Debug(k, t, o, s, r) ==
    [Section(t, 1, o, s, 0, 0) EXCEPT !.key = k, !.readable = r]
Plain == [size |-> 12, magic |-> TRUE, lsb |-> TRUE, class |-> 32, ident |-> TRUE,
          hugeSymbol |-> FALSE, phoff |-> 2, phnum |-> 0, phentsize |-> 1, programs |-> <<>>,
          shoff |-> 2, shnum |-> 0, shentsize |-> 1, shstrndx |-> 0, sections |-> <<>>,
          names |-> <<0>>, nul |-> {11}]
WithSegment ==
    {[Plain EXCEPT !.class = c, !.size = n, !.phoff = o, !.phnum = 1, !.phentsize = e,
                   !.programs = <<[type |-> t, offset |-> po, filesz |-> f, memsz |-> m]>>] :
       c \in {32, 64}, n \in {1, 12}, o \in {2, 11, 31}, e \in {1, 2}, t \in {"LOAD", "NOTE"},
       po \in {0, 12, 31}, f \in {0, 1, 12}, m \in {0, 12}}
WithSections ==
    {[Plain EXCEPT !.class = c, !.shoff = so, !.shnum = 4, !.shentsize = e, !.shstrndx = x,
                   !.sections = <<Section("STRTAB", 0, 10, 2, 0, 0), Section("SYMTAB", 1, o, s, l, en),
                                  Section("STRTAB", nm, 8, ts, 0, 0),
                                  Debug(".debug_line", d, 9, 3, TRUE)>>,
                   !.names = <<0, k>>, !.nul = z] :
       c \in {32, 64}, so \in {2, 9}, e \in {1, 2}, x \in {0, 4}, o \in {2, 31}, s \in {0, 4},
       l \in {0, 2, 4}, en \in {0, 2}, nm \in {0, 2}, ts \in {0, 3}, k \in {1, 3},
       d \in {"PROGBITS", "NOBITS"}, z \in {{11}, {10, 11}, {8}}}
WithDebug ==
    {[Plain EXCEPT !.class = c, !.size = 24, !.shoff = 2, !.shnum = 8, !.shentsize = 2, !.shstrndx = 0,
                   !.sections = <<[Section("STRTAB", 0, 18, 2, 0, 0) EXCEPT !.key = k],
                                  Section("SYMTAB", 1, 2, 2, 2, 0), Section("STRTAB", 1, 20, z, 0, 0),
                                  Debug(".debug_line", d, o, n, r),
                                  Debug(".debug_abbrev", "PROGBITS", 4, 1, TRUE),
                                  Debug(".debug_str", "NULL", 30, n, TRUE),
                                  Debug(i, "PROGBITS", 23, 1, r),
                                  Debug(".debug_loc", "PROGBITS", 22, 2, TRUE)>>,
                   !.names = <<z - 1>>, !.nul = {19, 20, 19 + z}, !.hugeSymbol = h] :
       c \in {32, 64}, k \in {"", ".debug_line"}, z \in {1, 4}, d \in {"PROGBITS", "NOBITS"},
       o \in {21, 30}, n \in {1, 3, 20}, r \in BOOLEAN, h \in BOOLEAN,
       i \in {".debug_info", ".debug_line", ""}}
Special ==
    {[Plain EXCEPT !.magic = FALSE], [Plain EXCEPT !.lsb = FALSE], [Plain EXCEPT !.class = 1],
     [Plain EXCEPT !.ident = FALSE], [Plain EXCEPT !.size = 0], Plain}
MCImages == WithSegment \cup WithSections \cup WithDebug \cup Special

-----------------------------------------------------------------------------
(* Symbols that nest, overlap, repeat and are empty, below the top.          *)

Symbol(t, n, a, s) == [type |-> t, name |-> n, addr |-> a, size |-> s]
MCElfSymbols ==
    {Symbol("FUNC", "f", r[1], r[2]) : r \in {<<0, 2>>, <<0, 4>>, <<1, 0>>, <<1, 2>>, <<2, 1>>}}
    \cup {Symbol("OBJECT", "v", 3, 1), Symbol("NOTYPE", "n", 0, 3), Symbol("NOTYPE", "$", 1, 2)}

(* Line tables: every pair of opcodes between two rows, and units of both   *)
(* versions in one section.                                                 *)

Header(v, m) ==
    [version |-> v, min |-> m, line_base |-> -3, line_range |-> 12, opcode_base |-> 13,
     dirs |-> << <<100>> >>, files |-> <<[name |-> <<97>>, dir |-> 0], [name |-> <<98, 99>>, dir |-> 1]>>]
Op(o, a, l) == [op |-> o, arg |-> a, line |-> l]
Row == Op("special", 1, 2)
Usual == {Row, Op("special", 0, -1), Op("copy", 0, 0), Op("advance_pc", 130, 0),
          Op("advance_line", 0, -3), Op("advance_line", 0, 70), Op("set_file", 2, 0),
          Op("set_column", 7, 0), Op("const_add_pc", 0, 0), Op("end_sequence", 0, 0),
          Op("set_address", 300, 0)}
Rare == {Op("negate_stmt", 0, 0), Op("set_basic_block", 0, 0), Op("fixed_advance_pc", 5, 0),
         Op("set_discriminator", 3, 0), Op("define_file", 0, 0), Op("set_prologue_end", 0, 0),
         Op("set_epilogue_begin", 0, 0), Op("set_isa", 20, 0)}
LinePrograms == {<<Op("set_address", 256, 0), a, b, Row>> : a, b \in Usual}
                \cup {<<a, b, Op("copy", 0, 0)>> : a, b \in Usual}
Lines == INSTANCE LineMap WITH
    Units <- {<<[hdr |-> Header(v, m), prog |-> p]>> : v \in {2, 4}, m \in {1, 2}, p \in LinePrograms}
             \cup {<<[hdr |-> Header(4, 1), prog |-> <<a, Row>>], [hdr |-> Header(2, m), prog |-> <<b, Row>>]>> :
                     a \in Usual, m \in {1, 2}, b \in Rare},
    Addrs <- {0, 2, 130, 257, 301, 600},
    stage <- lineStage

(* A ROM, a RAM listed twice, a mapped file, a heap of two classes and a    *)
(* device.                                                                  *)

Region(k, a, n) == [kind |-> k, start |-> a, size |-> n]
Byte1At(a) == [addr |-> a, bytes |-> <<1>>, memsz |-> 1]
Mpu == INSTANCE Memory WITH
    MemoryFile <- <<Region("ROM", 0, 2), Region("RAM", 2, 2), Region("RAM", 2, 1), Region("MMAP", 5, 1),
                    Region("MALLOC", 6, 4), Region("DEV", 10, 1)>>,
    Segments <- <<Byte1At(0), Byte1At(2), Byte1At(6)>>,
    Classes <- <<1, 2>>, AddrTop <- 12, UnitSize <- 2, MapUnit <- 1, Values <- {0, 1}, FileByte <- 1,
    Accessed <- {3, 6}, MaxAccess <- 2, MayMove <- FALSE,
    stage <- memStage, units <- heap

ASSUME Mpu!MemoryAssumption

-----------------------------------------------------------------------------
(* Command lines of up to two options, each in every way of writing it.     *)

NoOption == "none"
Written(o, a) ==
    [opt : {o}, arg : {a},
     glued : IF o \in {"hakoniwa", "delta-usec", "disable-conductor"} THEN {FALSE} ELSE BOOLEAN,
     apart : IF a = NoOption THEN {TRUE}
             ELSE IF o \in {"i", "r", "b", "disable-conductor"} THEN {FALSE} ELSE BOOLEAN]
Asked ==
    UNION {Written(q[1], q[2]) : q \in
       {<<"i", NoOption>>, <<"r", NoOption>>, <<"b", NoOption>>, <<"x", NoOption>>, <<"t", "1">>, <<"t", "0">>,
        <<"t", "z">>, <<"g", "1">>, <<"g", "65536">>, <<"c", "2">>, <<"p", "f">>, <<"d", "f">>,
        <<"m", "f">>, <<"hakoniwa", "A">>, <<"delta-usec", "0">>, <<"disable-conductor", NoOption>>,
        <<"disable-conductor", "1">>}}
FifoLine == {"TX", "RX", "other", "blank"}
Start == INSTANCE Startup WITH
    Requests <- UNION {[1 .. n -> Asked] : n \in 0 .. 2}, FifoFiles <- FifoLine \X FifoLine,
    stage <- startStage, file <- fifoFile

(* Configurations of up to three lines, and one longer than the table; a    *)
(* host library found through the environment, two guest functions.         *)

String1(t) == [kind |-> "string", text |-> t, num |-> 0]
Number1(n) == [kind |-> "dec", text |-> <<>>, num |-> n]
Key(k) == String1(<<k>>)
LibraryLine == <<Key("DEVICE_CONFIG_HOST_FUNCTION_LIBRARY"), String1(<<"{", "HOME", "}", "/lib">>)>>
ConfigLines ==
    {LibraryLine,
     <<Key("DEVICE_CONFIG_HOST_FUNCTION_LIBRARY"), String1(<<"{", "HOME", "}", "/a", "{", "HOME", "}">>)>>,
     <<Key("DEVICE_CONFIG_HOST_FUNCTION"), String1(<<"f">>), String1(<<"hf">>)>>,
     <<Key("DEVICE_CONFIG_HOST_FUNCTION"), String1(<<"g">>), String1(<<"{", "NO", "}">>)>>,
     <<Key("DEVICE_CONFIG_HOST_FUNCTION"), String1(<<"f">>)>>,
     <<Key("DEVICE_CONFIG_SPIN_HALT"), Number1(1)>>,
     <<Key("DEVICE_CONFIG_SPIN_HALT"), [kind |-> "hex", text |-> <<>>, num |-> 1]>>,
     <<Key("DEVICE_CONFIG_SPIN_HALT"), Number1(0), Number1(1)>>, <<>>}
SkipClock == <<Key("DEBUG_FUNC_ENABLE_SKIP_CLOCK"), Number1(1)>>
MCConfigs ==
    UNION {[1 .. n -> ConfigLines] : n \in 0 .. 2}
    \cup {<<LibraryLine, k, l>> : k, l \in ConfigLines}
    \cup {[k \in 1 .. 4 |-> <<Key("DEVICE_CONFIG_SPIN_HALT"), Number1(k)>>]}
    \cup {<< <<Key("DEVICE_CONFIG_IDLE_FUNCTION"), String1(<<f>>)>>, SkipClock>> : f \in {"g", "none"}}
MCEnvironment == "HOME" :> <<"home">>
Able == [idle |-> TRUE, spin |-> TRUE, host |-> TRUE, default |-> <<"g">>]
Plainest == [idle |-> FALSE, spin |-> FALSE, host |-> FALSE, default |-> <<>>]
MCTargets == {Able, Plainest}
MCFuncs == <<"f">> :> 3 @@ <<"g">> :> 4
MCHostSymbols == {<<"hf">>}
MCLibraries == {<<"home", "/lib">>}

-----------------------------------------------------------------------------
lineVars == <<units, bytes, current, off, entries, rows, lineStage>>
memoryVars == <<memmap, memStage, entry, map, heap, prev, live>>
startVars == <<asked, fifoFile, fifo, hakoniwa_enabled, fault, argv, startStage, parser, cmd_option,
               load_filepath, tx_path, rx_path, mode, end_clock>>
all == <<part, vars, symbols, lineVars, memoryVars, startVars, hostVars>>

LoadInit ==
    /\ part \in {"image", "symbols", "lines", "memory", "start", "host"}
    /\ SymbolsInit /\ Mpu!Init
    /\ IF part = "image" THEN Init ELSE image = 0 /\ stage = 0 /\ reads = {}
    /\ IF part = "lines" THEN Lines!Init
       ELSE units = 0 /\ bytes = 0 /\ current = 0 /\ off = 0 /\ entries = 0 /\ rows = 0 /\ lineStage = 0
    /\ IF part = "start" THEN Start!Init
       ELSE /\ asked = 0 /\ fifoFile = 0 /\ fifo = 0 /\ hakoniwa_enabled = 0 /\ fault = 0 /\ argv = 0
            /\ startStage = 0 /\ parser = 0 /\ cmd_option = 0 /\ load_filepath = 0 /\ tx_path = 0
            /\ rx_path = 0 /\ mode = 0 /\ end_clock = 0
    /\ IF part = "host" THEN HostInit
       ELSE /\ file = <<>> /\ at = 1 /\ param = <<>> /\ loaded = "loading" /\ answer = NoAnswer
            /\ target = Plainest /\ boot = "idle" /\ idle_pc = 0 /\ spin_halt = FALSE
            /\ host_functions = <<>> /\ pc = 0 /\ result = 0 /\ is_halt = FALSE
            /\ mem = [a \in Ram |-> 0] /\ code = [a \in Ram |-> NotCached] /\ context = Idle
            /\ handled = "none" /\ bad = FALSE /\ before = <<0, 0>>

ImageStep == part = "image" /\ Next /\ UNCHANGED <<part, symbols, lineVars, memoryVars, startVars, hostVars>>
SymbolStep == part = "symbols" /\ SymbolsNext /\ UNCHANGED <<part, vars, lineVars, memoryVars, startVars, hostVars>>
LineStep == part = "lines" /\ Lines!Next /\ UNCHANGED <<part, vars, symbols, memoryVars, startVars, hostVars>>
MemoryStep == part = "memory" /\ Mpu!Next /\ UNCHANGED <<part, vars, symbols, lineVars, startVars, hostVars>>
StartStep == part = "start" /\ Start!Next /\ UNCHANGED <<part, vars, symbols, lineVars, memoryVars, hostVars>>
HostStep == part = "host" /\ HostNext /\ UNCHANGED <<part, vars, symbols, lineVars, memoryVars, startVars>>

LoadNext == ImageStep \/ SymbolStep \/ LineStep \/ MemoryStep \/ StartStep \/ HostStep

LoadSpec == LoadInit /\ [][LoadNext]_all

-----------------------------------------------------------------------------
(* The properties of the parts, with ReadsInside of ElfImage, LookupExact of     *)
(* Symbols, AnswersExact and HostCallsSound of HostFunctions; see the modules.   *)

\* elf_dwarf_line_load: the rows are those the compiler encoded.
LinesExact == part = "lines" => Lines!LinesExact

\* search_region, memory_map_covers: the searches agree, segments fit.
RegionsExact == part = "memory" => Mpu!RegionsExact

\* mpu_malloc: bits, counters and blocks agree, every block is reachable.
HeapSound == part = "memory" => Mpu!HeapSound

\* athrill_syscall_realloc, elf_reload: bytes of kept blocks, bytes after a reset.
BytesKept == Mpu!BytesKept

\* main: the program starts in the mode and with the files the user asked for.
StartsAsAsked == part = "start" => Start!StartsAsAsked
=============================================================================
