------------------------------ MODULE LineMap ------------------------------
(***************************************************************************)
(* Source lines of program addresses: elf_dwarf_line.c decodes the bytes   *)
(* of .debug_line into operations, file_address_mapping.c runs them and    *)
(* keeps the rows, and the debugger looks up the line of an address (the   *)
(* shown source) and the address of a line (a break point).  The section   *)
(* is what a compiler writes: units of a header and a line program,        *)
(* encoded here as the format says.                                        *)
(***************************************************************************)
EXTENDS Integers, Sequences, SequencesExt

CONSTANTS Units,      \* the line tables tried: sequences of [hdr, prog]
          Addrs       \* the addresses looked up

VARIABLES units,      \* the compiler's line table
          bytes,      \* the section
          current,    \* current_size, where the unit starts
          off,        \* the offset in the unit
          entries,    \* elf_dwarf_line->entries
          rows,       \* key_value_mapping
          stage

vars == <<units, bytes, current, off, entries, rows, stage>>

(* The encoding: little-endian words, variable-length numbers.             *)
Le2(n) == <<n % 256, n \div 256>>
Le4(n) == Le2(n % 65536) \o Le2(n \div 65536)
Uleb(n) == IF n < 128 THEN <<n>> ELSE <<(n % 128) + 128, n \div 128>>
Sleb(n) == IF n \in -64..63 THEN <<n % 128>>
           ELSE <<(n % 128) + 128, (n \div 128) % 128>>
Concat(seqs) == FoldLeft(LAMBDA a, b : a \o b, <<>>, seqs)

Encode(hdr, i) ==
    CASE i.op = "special" ->
           <<hdr.opcode_base + (i.line - hdr.line_base) + hdr.line_range * i.arg>>
      [] i.op = "copy" -> <<1>>
      [] i.op = "advance_pc" -> <<2>> \o Uleb(i.arg)
      [] i.op = "advance_line" -> <<3>> \o Sleb(i.line)
      [] i.op = "set_file" -> <<4>> \o Uleb(i.arg)
      [] i.op = "set_column" -> <<5>> \o Uleb(i.arg)
      [] i.op = "negate_stmt" -> <<6>>
      [] i.op = "set_basic_block" -> <<7>>
      [] i.op = "const_add_pc" -> <<8>>
      [] i.op = "fixed_advance_pc" -> <<9>> \o Le2(i.arg)
      [] i.op = "set_prologue_end" -> <<10>>
      [] i.op = "set_epilogue_begin" -> <<11>>
      [] i.op = "set_isa" -> <<12>> \o Uleb(i.arg)
      [] i.op = "end_sequence" -> <<0, 1, 1>>
      [] i.op = "set_address" -> <<0, 5, 2>> \o Le4(i.arg)
      [] i.op = "define_file" -> <<0, 6, 3, 97, 0, 0, 0, 0>>
      [] i.op = "set_discriminator" -> <<0, 2, 4, i.arg>>

EncodeUnit(u) ==
    LET h == u.hdr
        prologue == <<h.min>> \o (IF h.version = 4 THEN <<1>> ELSE <<>>)
                    \o <<1, h.line_base % 256, h.line_range, h.opcode_base>>
                    \o [i \in 1..(h.opcode_base - 1) |-> 1]
                    \o Concat([i \in DOMAIN h.dirs |-> h.dirs[i] \o <<0>>]) \o <<0>>
                    \o Concat([i \in DOMAIN h.files |->
                                 h.files[i].name \o <<0, h.files[i].dir, 0, 0>>]) \o <<0>>
        body == Le2(h.version) \o Le4(Len(prologue)) \o prologue
                \o Concat([i \in DOMAIN u.prog |-> Encode(h, u.prog[i])])
    IN  Le4(Len(body)) \o body
-----------------------------------------------------------------------------
(* The readers, on the bytes from offset o of the section (from 0).        *)
Byte(o) == bytes[o + 1]
elf_get_data16(o) == Byte(o) + 256 * Byte(o + 1)
elf_get_data32(o) == elf_get_data16(o) + 65536 * elf_get_data16(o + 2)
strlen(o) == CHOOSE n \in 0..Len(bytes) :
                Byte(o + n) = 0 /\ \A k \in 0..(n - 1) : Byte(o + k) # 0
Text(o) == SubSeq(bytes, o + 1, o + strlen(o))

(* The length of a variable-length number: its last byte is below 128,     *)
(* and at most max bytes are looked at; one more is counted if none ends.  *)
LebSize(o, max) ==
    LET ends == {k \in 0..(max - 1) : o + k < Len(bytes) /\ Byte(o + k) < 128}
    IN  IF ends = {} THEN max + 1
        ELSE (CHOOSE k \in ends : \A j \in ends : k <= j) + 1
Payload(o, n) == FoldLeft(LAMBDA a, k : a * 128 + (Byte(o + n - k) % 128), 0,
                          [k \in 1..n |-> k])

elf_dwarf_decode_uleb128(o) == Payload(o, IF LebSize(o, 4) > 4 THEN 4 ELSE LebSize(o, 4))

\* Mutant: the sign is that of the first byte.
elf_dwarf_decode_sleb128_First(o) ==
    LET n == LebSize(o, 5)
    IN  Payload(o, n) - (IF (Byte(o) % 128) >= 64 THEN 128 ^ n ELSE 0)

(* Bit 6 of the last byte is the sign.                                     *)
elf_dwarf_decode_sleb128(o) ==
    LET n == LebSize(o, 5)
    IN  Payload(o, n) - (IF (Byte(o + n - 1) % 128) >= 64 THEN 128 ^ n ELSE 0)

Signed8(b) == IF b < 128 THEN b ELSE b - 256

RECURSIVE Directories(_, _)
RECURSIVE FileNames(_, _)
Directories(o, dirs) ==
    IF strlen(o) = 0 THEN [list |-> dirs, off |-> o + 1]
    ELSE Directories(o + strlen(o) + 1, Append(dirs, Text(o)))

FileNames(o, files) ==
    IF strlen(o) = 0 THEN [list |-> files, off |-> o + 1]
    ELSE LET d == o + strlen(o) + 1
             t == d + LebSize(d, 4)
             s == t + LebSize(t, 4)
         IN  FileNames(s + LebSize(s, 4),
                       Append(files, [name |-> Text(o), dir |-> elf_dwarf_decode_uleb128(d)]))

(* The header of the unit at s, and the offset after it.                   *)
parse_entry_header(s) ==
    LET version == elf_get_data16(s + 4)
        p == s + (IF version = 4 THEN 12 ELSE 11)
        tables == p + 4 + (Byte(p + 3) - 1)
        dirs == Directories(tables, <<>>)
        files == FileNames(dirs.off, <<>>)
    IN  [total |-> elf_get_data32(s), min |-> Byte(s + 10),
         line_base |-> Signed8(Byte(p + 1)), line_range |-> Byte(p + 2),
         opcode_base |-> Byte(p + 3), dirs |-> dirs.list, files |-> files.list,
         off |-> files.off - s]

Op(type, arg, line, size) == [op |-> type, arg |-> arg, line |-> line, size |-> size]

(* The length byte of an extended operation says how far to go.            *)
set_ExtendedOp(o) ==
    LET size == Byte(o + 1) + 2
    IN  CASE Byte(o + 2) = 1 -> Op("end_sequence", 0, 0, size)
          [] Byte(o + 2) = 2 -> Op("set_address", elf_get_data32(o + 3), 0, size)
          [] Byte(o + 2) = 3 -> Op("define_file", 0, 0, size)
          [] Byte(o + 2) = 4 -> Op("set_discriminator", elf_dwarf_decode_uleb128(o + 3), 0, size)
          [] OTHER -> Op("unknown", 0, 0, size)

set_StandardOp(h, o) ==
    CASE Byte(o) = 2 -> Op("advance_pc", elf_dwarf_decode_uleb128(o + 1) * h.min, 0,
                           LebSize(o + 1, 4) + 1)
      [] Byte(o) = 3 -> Op("advance_line", 0, elf_dwarf_decode_sleb128(o + 1),
                           LebSize(o + 1, 5) + 1)
      [] Byte(o) = 4 -> Op("set_file", elf_dwarf_decode_uleb128(o + 1), 0, LebSize(o + 1, 4) + 1)
      [] Byte(o) = 5 -> Op("set_column", elf_dwarf_decode_uleb128(o + 1), 0, LebSize(o + 1, 4) + 1)
      [] Byte(o) = 8 -> Op("const_add_pc", ((255 - h.opcode_base) \div h.line_range) * h.min, 0, 1)
      [] Byte(o) = 9 -> Op("fixed_advance_pc", elf_get_data16(o + 1) * h.min, 0, 3)
      [] OTHER -> Op(IF Byte(o) = 1 THEN "copy" ELSE "none", 0, 0, 1)

\* / and % of C.
Quotient(a, b) == IF a < 0 THEN -((-a) \div b) ELSE a \div b
Remainder(a, b) == a - b * Quotient(a, b)

(* Opcodes 10 to 12 too, which are below the opcode base of a header that  *)
(* has them as standard operations.                                        *)
set_SpecialOp(h, o) ==
    LET adjusted == Byte(o) - h.opcode_base
    IN  Op("special", Quotient(adjusted, h.line_range) * h.min,
           h.line_base + Remainder(adjusted, h.line_range), 1)

parse_opcode(h, o) ==
    IF Byte(o) = 0 THEN set_ExtendedOp(o)
    ELSE IF Byte(o) \in 1..9 THEN set_StandardOp(h, o)
    ELSE set_SpecialOp(h, o)
-----------------------------------------------------------------------------
(* elf_dwarf_line_load(): a header, then operations up to its total        *)
(* length, then the next unit until the section ends.                      *)
elf_dwarf_line_load ==
    /\ stage = "load"
    /\ \/ /\ off = 0 /\ current < Len(bytes)
          /\ LET h == parse_entry_header(current)
             IN  /\ entries' = Append(entries, [hdr |-> h, ops |-> <<>>])
                 /\ off' = h.off
          /\ UNCHANGED <<current, stage>>
       \/ /\ off > 0 /\ off < Last(entries).hdr.total + 4
          /\ LET op == parse_opcode(Last(entries).hdr, current + off)
             IN  /\ entries' = [entries EXCEPT ![Len(entries)].ops = Append(@, op)]
                 /\ off' = off + op.size
          /\ UNCHANGED <<current, stage>>
       \/ /\ off > 0 /\ off >= Last(entries).hdr.total + 4
          /\ current' = current + off /\ off' = 0
          /\ UNCHANGED <<entries, stage>>
       \/ /\ off = 0 /\ current >= Len(bytes)
          /\ stage' = "build" /\ UNCHANGED <<current, off, entries>>
    /\ UNCHANGED <<units, bytes, rows>>

machine_init == [address |-> 0, file |-> 1, line |-> 1]

(* The row of the machine: the file of the unit's table, and its directory *)
(* or the current one.                                                     *)
add_map(h, m) ==
    LET f == h.files[m.file]
    IN  [addr |-> m.address, line |-> m.line, file |-> f.name,
         dir |-> IF f.dir = 0 THEN <<46>> ELSE h.dirs[f.dir]]

do_ext_build(op, m) ==
    CASE op.op = "end_sequence" -> machine_init
      [] op.op = "set_address" -> [m EXCEPT !.address = op.arg]
      [] OTHER -> m

do_std_build(op, m) ==
    CASE op.op \in {"advance_pc", "const_add_pc", "fixed_advance_pc"} ->
           [m EXCEPT !.address = @ + op.arg]
      [] op.op = "advance_line" -> [m EXCEPT !.line = @ + op.line]
      [] op.op = "set_file" -> [m EXCEPT !.file = op.arg]
      [] OTHER -> m

do_spc_build(op, m) == [m EXCEPT !.address = @ + op.arg, !.line = @ + op.line]

Extended == {"end_sequence", "set_address", "define_file", "set_discriminator", "unknown"}
MachineAfter(op, m) ==
    IF op.op \in Extended THEN do_ext_build(op, m)
    ELSE IF op.op = "special" THEN do_spc_build(op, m)
    ELSE do_std_build(op, m)

(* One unit: the machine starts afresh, copy and special add a row.        *)
BuildUnit(e) ==
    FoldLeft(LAMBDA s, op : LET m == MachineAfter(op, s.machine)
                            IN  [machine |-> m,
                                 rows |-> IF op.op \in {"copy", "special"}
                                          THEN Append(s.rows, add_map(e.hdr, m))
                                          ELSE s.rows],
             [machine |-> machine_init, rows |-> <<>>], e.ops).rows

(* do_ext_build() asserts that no file is defined by an operation.         *)
DefinesFile(e) == \E k \in DOMAIN e.ops : e.ops[k].op = "define_file"
file_address_mapping_build ==
    /\ stage = "build"
    /\ IF \E i \in DOMAIN entries : DefinesFile(entries[i])
       THEN stage' = "failed" /\ UNCHANGED rows
       ELSE /\ rows' = Concat([i \in DOMAIN entries |-> BuildUnit(entries[i])])
            /\ stage' = "ready"
    /\ UNCHANGED <<units, bytes, current, off, entries>>

Init ==
    /\ units \in Units
    /\ bytes = Concat([i \in DOMAIN units |-> EncodeUnit(units[i])])
    /\ current = 0 /\ off = 0 /\ entries = <<>> /\ rows = <<>> /\ stage = "load"

Next == elf_dwarf_line_load \/ file_address_mapping_build

Spec == Init /\ [][Next]_vars
-----------------------------------------------------------------------------
NoRow == [addr |-> 0, line |-> 0, file |-> <<>>, dir |-> <<>>]
First(S) == IF S = {} THEN NoRow ELSE rows[CHOOSE i \in S : \A j \in S : i <= j]

(* The first row at the address, or the first of the nearest ones below:   *)
(* the scan keeps a row only if it is strictly nearer.                     *)
file_address_mapping_get(addr) ==
    LET exact == {i \in DOMAIN rows : rows[i].addr = addr}
        below == {i \in DOMAIN rows : rows[i].addr < addr}
    IN  IF exact # {} THEN First(exact)
        ELSE First({i \in below : \A j \in below : addr - rows[i].addr <= addr - rows[j].addr})

(* The first row of the file and line.                                     *)
file_address_mapping_get_addr(file, line) ==
    First({i \in DOMAIN rows : rows[i].file = file /\ rows[i].line = line})

(* The rows a line program means, from the instructions the compiler wrote *)
(* and not from their bytes.                                               *)
Meaning(u) ==
    LET h == u.hdr
        step(s, i) ==
          LET m == s.m
              next == CASE i.op = "special" ->
                             [m EXCEPT !.address = @ + i.arg * h.min, !.line = @ + i.line]
                        [] i.op = "advance_pc" -> [m EXCEPT !.address = @ + i.arg * h.min]
                        [] i.op = "fixed_advance_pc" -> [m EXCEPT !.address = @ + i.arg]
                        [] i.op = "const_add_pc" ->
                             [m EXCEPT !.address = @ + h.min * ((255 - h.opcode_base) \div h.line_range)]
                        [] i.op = "advance_line" -> [m EXCEPT !.line = @ + i.line]
                        [] i.op = "set_file" -> [m EXCEPT !.file = i.arg]
                        [] i.op = "set_address" -> [m EXCEPT !.address = i.arg]
                        [] i.op = "end_sequence" -> [address |-> 0, file |-> 1, line |-> 1]
                        [] OTHER -> m
          IN  [m |-> next,
               rows |-> IF i.op \in {"copy", "special"}
                        THEN Append(s.rows, <<next.address, h.files[next.file].name, next.line>>)
                        ELSE s.rows]
    IN  FoldLeft(step, [m |-> [address |-> 0, file |-> 1, line |-> 1], rows |-> <<>>], u.prog).rows

Meant == Concat([i \in DOMAIN units |-> Meaning(units[i])])

(* The operations the decoder knows as the format means them.  loader.c:140 *)
(* says "Athrill's DWARF readers understand versions 2 to 4"; it takes the   *)
(* three operations that version 3 added for special ones and so adds a row *)
(* for each, and it scales the operand of fixed_advance_pc.                  *)
Understood(u) ==
    \A k \in DOMAIN u.prog :
       /\ u.prog[k].op \notin {"set_prologue_end", "set_epilogue_begin", "set_isa"}
       /\ u.prog[k].op = "fixed_advance_pc" => u.hdr.min = 1

(* Of a line table of such operations the debugger shows the line the      *)
(* compiler wrote: unless it defines a file, the table is built; then, for *)
(* every address, file_address_mapping_get() answers with a row of the     *)
(* nearest address that is not above it, and with nothing only if there is *)
(* none; and a break point set on such a row's file and line lands on an   *)
(* address the compiler gave to that line.                                 *)
LinesExact ==
    (\A i \in DOMAIN units : Understood(units[i])) =>
    /\ stage = "failed" => \E i \in DOMAIN units : \E k \in DOMAIN units[i].prog :
                              units[i].prog[k].op = "define_file"
    /\ stage = "ready" => \A a \in Addrs :
         LET upTo == {i \in DOMAIN Meant : Meant[i][1] <= a}
             got == file_address_mapping_get(a)
             stop == file_address_mapping_get_addr(got.file, got.line)
         IN  IF upTo = {} THEN got = NoRow
             ELSE /\ \E i \in upTo : /\ Meant[i] = <<got.addr, got.file, got.line>>
                                     /\ \A j \in upTo : Meant[j][1] <= Meant[i][1]
                  /\ \E i \in DOMAIN Meant : Meant[i] = <<stop.addr, got.file, got.line>>
=============================================================================
