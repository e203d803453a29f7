------------------------------ MODULE ElfImage ------------------------------
(***************************************************************************)
(* Loading an ELF file: elf_image_check.c decides whether the file is      *)
(* well formed, and the loader (loader.c), the symbol reader and the       *)
(* section lookup (elf_section.c) then follow the file's own offsets and   *)
(* sizes without further bounds checks.  A file is its size, the fields    *)
(* of its headers and tables, and the offsets that hold a NUL byte.  Of a  *)
(* section's name the model keeps the offset and which debug section it    *)
(* names, of the contents of a debug section only whether its version is   *)
(* one Athrill reads.  Offsets are unsigned words, as wide in the model    *)
(* as Word says.                                                           *)
(***************************************************************************)
EXTENDS Naturals, Sequences

CONSTANTS Images,       \* the files tried
          Word,         \* 2^64, the modulus of an offset
          Ident,        \* EI_NIDENT
          EhdrSize,     \* sizeof(Elf32_Ehdr), sizeof(Elf64_Ehdr), by class
          PhdrSize,     \* sizeof(Elf32_Phdr), sizeof(Elf64_Phdr)
          ShdrSize,     \* sizeof(Elf32_Shdr), sizeof(Elf64_Shdr)
          SymSize,      \* sizeof(Elf32_Sym), sizeof(Elf64_Sym)
          VersionEnd,   \* the bytes of a debug section up to its version
          SizeTop       \* 0xffffffff, the largest size of a section or symbol that is read

(* Every field of a header or of a table entry is an unsigned number.      *)
ASSUME ElfAssumption ==
    /\ {Word, Ident, VersionEnd, SizeTop} \subseteq Nat
    /\ \A c \in {32, 64} :
         {EhdrSize[c], PhdrSize[c], ShdrSize[c]} \subseteq Nat /\ SymSize[c] \in Nat \ {0}
    /\ \A img \in Images :
         /\ {img.size, img.phoff, img.phnum, img.phentsize,
             img.shoff, img.shnum, img.shentsize, img.shstrndx} \subseteq Nat
         /\ img.nul \subseteq Nat /\ img.names \in Seq(Nat) /\ img.names # <<>>
         /\ \A i \in 1..img.phnum : {img.programs[i].offset, img.programs[i].filesz} \subseteq Nat
         /\ \A i \in 1..img.shnum :
              {img.sections[i].offset, img.sections[i].size, img.sections[i].name,
               img.sections[i].link} \subseteq Nat

VARIABLES image,    \* the file
          stage,    \* how far elf_load() has come, or "rejected"
          reads     \* the <<offset, size>> ranges read from the file

vars == <<image, stage, reads>>

\* Mutant: the end is computed first, and wraps around.
range_is_inside_Wraps(offset, size, n) == (offset + size) % Word <= n

range_is_inside(offset, size, n) == offset <= n /\ size <= n - offset

(* count * entry_size bytes at offset, without overflowing the product.    *)
table_is_inside(offset, count, entry, n) ==
    count # 0 => /\ entry <= n \div count
                 /\ range_is_inside(offset, count * entry, n)

(* The entries of the header tables are numbered from 0.                   *)
Programs(img) == 0..(img.phnum - 1)
Sections(img) == 0..(img.shnum - 1)

read_header(img) ==
    /\ img.size >= Ident /\ img.magic /\ img.lsb
    /\ img.class \in {32, 64} /\ img.size >= EhdrSize[img.class]

read_program(img, i) == img.programs[i + 1]
read_section(img, i) == img.sections[i + 1]
read_symbol_name(img, i) == img.names[IF i < Len(img.names) THEN i + 1 ELSE 1]

check_programs(img) ==
    img.phnum # 0 =>
       /\ img.phentsize >= PhdrSize[img.class]
       /\ table_is_inside(img.phoff, img.phnum, img.phentsize, img.size)
       /\ \A i \in Programs(img) :
            LET p == read_program(img, i)
            IN  p.type = "LOAD" => /\ range_is_inside(p.offset, p.filesz, img.size)
                                   /\ p.filesz <= p.memsz

string_table_is_valid(img, s) ==
    s.type = "STRTAB" /\ s.size # 0 /\ s.offset + s.size - 1 \in img.nul

check_symbol_table(img, symtab) ==
    LET strtab == read_section(img, symtab.link)
        entry == SymSize[img.class]
    IN  /\ symtab.entsize \in {0, entry}
        /\ symtab.link < img.shnum
        /\ string_table_is_valid(img, strtab)
        /\ \A i \in 0..((symtab.size \div entry) - 1) :
             read_symbol_name(img, i) < strtab.size

(* A section without file contents has no range to check.                  *)
check_sections(img) ==
    img.shnum # 0 =>
       /\ img.shentsize >= ShdrSize[img.class]
       /\ table_is_inside(img.shoff, img.shnum, img.shentsize, img.size)
       /\ \A i \in Sections(img) :
            LET s == read_section(img, i)
            IN  s.type \notin {"NULL", "NOBITS"} => range_is_inside(s.offset, s.size, img.size)
       /\ img.shstrndx < img.shnum
       /\ LET names == read_section(img, img.shstrndx)
          IN  /\ string_table_is_valid(img, names)
              /\ \A i \in Sections(img) : read_section(img, i).name < names.size
       /\ \A i \in Sections(img) :
            read_section(img, i).type = "SYMTAB" => check_symbol_table(img, read_section(img, i))

elf_image_check(img) == read_header(img) /\ check_programs(img) /\ check_sections(img)

(* Version, ABI, file type and machine.                                    *)
Elf_Check(img) == img.ident
-----------------------------------------------------------------------------
(* What is read: a table entry, a section's contents, a string up to the   *)
(* first NUL byte at or after its start.                                   *)
ProgramEntry(img, i) == <<img.phoff + i * img.phentsize, PhdrSize[img.class]>>
SectionEntry(img, i) == <<img.shoff + i * img.shentsize, ShdrSize[img.class]>>
String(img, offset) ==
    LET ends == {k \in img.nul : k >= offset}
    IN  <<offset, IF ends = {} THEN Word
                  ELSE (CHOOSE k \in ends : \A j \in ends : k <= j) + 1 - offset>>

(* The program headers, and the file part of every PT_LOAD.                *)
LoadProgramReads(img) ==
    {ProgramEntry(img, i) : i \in Programs(img)}
    \cup {<<read_program(img, i).offset, read_program(img, i).filesz>> :
            i \in {j \in Programs(img) : read_program(img, j).type = "LOAD"}}

OfType(img, type) == {i \in Sections(img) : read_section(img, i).type = type}

(* The names are in the string table the symbol table links to.            *)
string_table(img, symtab) == read_section(img, symtab.link)

(* The 64-bit reader takes the first symbol table, the 32-bit one the last *)
(* of those that are not the section name table, and insists on a string   *)
(* table other than that.                                                  *)
SymbolTables(img) ==
    IF img.class = 64
    THEN {i \in OfType(img, "SYMTAB") : /\ \A j \in OfType(img, "SYMTAB") : i <= j
                                        /\ read_section(img, i).size <= SizeTop}
    ELSE {i \in OfType(img, "SYMTAB") :
            /\ i # img.shstrndx
            /\ OfType(img, "STRTAB") \ {img.shstrndx} # {}
            /\ \A j \in OfType(img, "SYMTAB") \ {img.shstrndx} : j <= i}

SectionReads(img) == {SectionEntry(img, i) : i \in Sections(img)}

elfsym_get_symbol_num(img, symtab) == symtab.size \div SymSize[img.class]

(* A symbol, and its name from name_index on: cpuemu_symbol_set leaves out *)
(* the underscore that a compiler puts before a name, unless               *)
(* DISABLE_SYMBOL_UNDERSCORE is set.                                       *)
elfsym_get_symbol(img, symtab, name_index, i) ==
    {<<symtab.offset + i * SymSize[img.class], SymSize[img.class]>>,
     String(img, string_table(img, symtab).offset + read_symbol_name(img, i) + name_index)}

SymbolReads(img, t, name_index) ==
    LET symtab == read_section(img, t)
    IN  UNION {elfsym_get_symbol(img, symtab, name_index, i) :
                 i \in 0..(elfsym_get_symbol_num(img, symtab) - 1)}

-----------------------------------------------------------------------------
(* The first section of a name, whatever its type; the 32-bit search skips *)
(* the section name table, the 64-bit one gives up on a larger size.       *)
elf_section_get(img, key) ==
    LET Named == {i \in Sections(img) : /\ read_section(img, i).key = key
                                        /\ img.class = 32 => i # img.shstrndx}
    IN  {i \in Named : /\ \A j \in Named : i <= j
                       /\ img.class = 64 => read_section(img, i).size <= SizeTop}

(* Section headers and names are read until the name is found.             *)
SectionGetReads(img) ==
    LET names == read_section(img, img.shstrndx)
    IN  SectionReads(img)
        \cup {String(img, names.offset + read_section(img, i).name) : i \in Sections(img)}

(* The version is read from a debug section long enough to have one.       *)
Versioned(img, key) == {i \in elf_section_get(img, key) : read_section(img, i).size >= VersionEnd}
VersionReads(img, key) == {<<read_section(img, i).offset, VersionEnd>> : i \in Versioned(img, key)}
dwarf_version_is_supported(img, key) == \A i \in Versioned(img, key) : read_section(img, i).readable

dwarf_is_supported(img) ==
    dwarf_version_is_supported(img, ".debug_line") /\ dwarf_version_is_supported(img, ".debug_info")

SupportReads(img) ==
    VersionReads(img, ".debug_line")
    \cup IF dwarf_version_is_supported(img, ".debug_line") THEN VersionReads(img, ".debug_info") ELSE {}

(* The readers in their order, until a section is missing.                 *)
DebugSections == <<".debug_line", ".debug_abbrev", ".debug_str", ".debug_info", ".debug_loc">>
DebugLoaded(img) ==
    UNION {elf_section_get(img, DebugSections[k]) :
             k \in {n \in DOMAIN DebugSections :
                      \A m \in 1..n : elf_section_get(img, DebugSections[m]) # {}}}
ContentsReads(img) ==
    IF dwarf_is_supported(img)
    THEN {<<read_section(img, i).offset, read_section(img, i).size>> : i \in DebugLoaded(img)}
    ELSE {}
-----------------------------------------------------------------------------
Reads(next, ranges) ==
    stage' = next /\ reads' = reads \cup ranges /\ UNCHANGED image

Rejects == stage' = "rejected" /\ UNCHANGED <<image, reads>>

(* elf_load(): the checks, the program, the symbol table, the debug        *)
(* sections; then cpuemu_symbol_set() reads the symbols.                   *)
CheckImage ==
    /\ stage = "given"
    /\ \/ ~(elf_image_check(image) /\ Elf_Check(image)) /\ Rejects
       \/ elf_image_check(image) /\ Elf_Check(image) /\ Reads("checked", {})

LoadProgram == stage = "checked" /\ Reads("loaded", LoadProgramReads(image))

elf_symbol_load ==
    /\ stage = "loaded"
    /\ \/ SymbolTables(image) = {} /\ Rejects
       \/ SymbolTables(image) # {} /\ Reads("symbols", SectionReads(image))

load_debug_information ==
    /\ stage = "symbols"
    /\ Reads("ready", SectionGetReads(image) \cup SupportReads(image) \cup ContentsReads(image))

(* A 64-bit symbol of a larger size ends the loading.                      *)
SetSymbols ==
    /\ stage = "ready"
    /\ \E t \in SymbolTables(image), name_index \in {0, 1} :
         Reads(IF image.class = 64 /\ image.hugeSymbol THEN "rejected" ELSE "set",
               SymbolReads(image, t, name_index))

Init == image \in Images /\ stage = "given" /\ reads = {}

Next == CheckImage \/ LoadProgram \/ elf_symbol_load \/ load_debug_information \/ SetSymbols

Spec == Init /\ [][Next]_vars
-----------------------------------------------------------------------------
(* What is read and elf_image_check() does not cover: a debug section is   *)
(* found by its name, and one of type NULL or NOBITS has no contents that  *)
(* are checked; and what follows the string table, when a symbol's name is *)
(* the empty string at its end and the reader leaves out a first character *)
(* that the name does not have.                                            *)
NoContents(img) ==
    {i \in UNION {elf_section_get(img, DebugSections[k]) : k \in DOMAIN DebugSections} :
       read_section(img, i).type \in {"NULL", "NOBITS"}}
EmptyAtEnd(img) ==
    {t \in SymbolTables(img) :
       LET symtab == read_section(img, t)
       IN  \E i \in 0..(elfsym_get_symbol_num(img, symtab) - 1) :
              read_symbol_name(img, i) + 1 = string_table(img, symtab).size}
Uncovered(img) ==
    {<<read_section(img, i).offset, read_section(img, i).size>> : i \in NoContents(img)}
    \cup {<<read_section(img, i).offset, VersionEnd>> : i \in NoContents(img)}
    \cup {LET strtab == string_table(img, read_section(img, t))
          IN  String(img, strtab.offset + strtab.size) : t \in EmptyAtEnd(img)}

(* elf_image_check.h: "This function makes sure that every structure they  *)
(* use lies inside the file".  In a file it accepts no table entry,        *)
(* segment, symbol, name or debug section that the loader, the symbol      *)
(* reader and the section lookup read reaches past the end, although they  *)
(* check nothing themselves; the exceptions are those of Uncovered, and    *)
(* there are no others.                                                    *)
ReadsInside == \A r \in reads : r \in Uncovered(image) \/ r[1] + r[2] <= image.size
=============================================================================
