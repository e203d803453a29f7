----------------------------- MODULE LoadProofs -----------------------------
(***************************************************************************)
(* What is read before and beside the program, for every instance:         *)
(*  - once elf_image_check accepts a file, of any size and with any        *)
(*    contents, nothing that is read lies past its end but the two kinds   *)
(*    of reads that the check leaves out (ElfImage);                       *)
(*  - a device gets from the configuration what its file says              *)
(*    (DeviceConfig, with the lookups of HostFunctions);                   *)
(*  - a call of a host function is all or nothing (HostFunctions);         *)
(*  - a lookup by address finds the symbol it should (Symbols).            *)
(***************************************************************************)
EXTENDS ElfImage, HostFunctions, Symbols, FiniteSetTheorems, WellFoundedInduction, TLAPS

-----------------------------------------------------------------------------
(* The checks of an image and what is read from it.                         *)

Inside(r, n) == r[1] + r[2] <= n
AllInside(ranges, n) == \A r \in ranges : Inside(r, n)
Covered(ranges, img) == \A r \in ranges : r \in Uncovered(img) \/ Inside(r, img.size)

\* The entries of a table are inside it, also when an entry is longer than what is read.
LEMMA EntryInTable ==
    \A count, entry, i \in Nat : i < count => (i * entry) + entry <= count * entry
<1> SUFFICES ASSUME NEW count \in Nat, NEW entry \in Nat, NEW i \in Nat, i < count
             PROVE  (i * entry) + entry <= count * entry
  BY Zenon
<1> DEFINE rest == count - (i + 1)
<1>1. rest \in Nat /\ count = (i + 1) + rest
  OBVIOUS
<1>2. count * entry = ((i * entry) + entry) + (rest * entry)
  BY <1>1, Z3, Zenon
<1>3. rest * entry \in Nat /\ i * entry \in Nat
  BY <1>1
<1> QED
  BY <1>2, <1>3

\* What range_is_inside and table_is_inside mean.
LEMMA RangeInside ==
    \A offset, size, n \in Nat : range_is_inside(offset, size, n) => offset + size <= n
  BY DEF range_is_inside

\* An entry of a table that table_is_inside has accepted lies in the file.
LEMMA TableInside ==
    \A offset, count, entry, read, n, i \in Nat :
        table_is_inside(offset, count, entry, n) /\ read <= entry /\ i < count
        => (offset + (i * entry)) + read <= n
<1> SUFFICES ASSUME NEW offset \in Nat, NEW count \in Nat, NEW entry \in Nat, NEW read \in Nat,
                    NEW n \in Nat, NEW i \in Nat,
                    table_is_inside(offset, count, entry, n), read <= entry, i < count
             PROVE  (offset + (i * entry)) + read <= n
  BY Zenon
<1>1. offset + (count * entry) <= n
  BY RangeInside DEF table_is_inside
<1>2. (i * entry) + entry <= count * entry
  BY EntryInTable, Zenon
<1>3. i * entry \in Nat /\ count * entry \in Nat
  OBVIOUS
<1> QED
  BY <1>1, <1>2, <1>3

\* The symbols counted by size / entry are inside the section.
LEMMA SymbolInSection ==
    \A size, i \in Nat, entry \in Nat \ {0} :
        i < size \div entry => (i * entry) + entry <= size
<1> SUFFICES ASSUME NEW size \in Nat, NEW i \in Nat, NEW entry \in Nat \ {0}, i < size \div entry
             PROVE  (i * entry) + entry <= size
  BY Zenon
<1>1. (size \div entry) \in Nat /\ (size \div entry) * entry <= size
  BY Z3, Zenon
<1>2. (i * entry) + entry <= (size \div entry) * entry
  BY <1>1, EntryInTable, Zenon
<1>3. i * entry \in Nat /\ (size \div entry) * entry \in Nat
  BY <1>1
<1> QED
  BY <1>1, <1>2, <1>3

\* A set of numbers has a least one.
LEMMA LeastExists ==
    ASSUME NEW S, S \subseteq Nat, S # {}
    PROVE  \E k \in S : \A j \in S : k <= j
<1> DEFINE R == {p \in Nat \X Nat : p[1] < p[2]}
<1>1. IsWellFoundedOn(R, Nat)
  BY NatLessThanWellFounded, Zenon DEF OpToRel
<1>2. \A j, k \in Nat : j < k => <<j, k>> \in R
  BY Zenon
<1> HIDE DEF R
<1>3. \E k \in S : \A j \in S : ~(<<j, k>> \in R)
  BY <1>1, WFMin, Zenon
<1>4. PICK k \in S : \A j \in S : ~(<<j, k>> \in R)
  BY <1>3, Zenon
<1>5. \A j \in S : ~(j < k)
  BY <1>2, <1>4, Zenon
<1> QED
  BY <1>5

\* A string that starts in a valid string table ends in it.
LEMMA StringInTable ==
    ASSUME NEW img, NEW offset \in Nat, NEW last \in Nat,
           img.nul \subseteq Nat, last \in img.nul, offset <= last
    PROVE  LET r == String(img, offset) IN r[1] = offset /\ r[2] \in Nat /\ r[1] + r[2] <= last + 1
<1> DEFINE ends == {k \in img.nul : k >= offset}
           first == CHOOSE k \in ends : \A j \in ends : k <= j
<1>1. last \in ends /\ ends \subseteq Nat
  BY Zenon
<1>2. \E k \in ends : \A j \in ends : k <= j
  BY <1>1, LeastExists, Zenon
<1>3. first \in ends /\ \A j \in ends : first <= j
  BY <1>2, Zenon
<1>4. first \in Nat /\ first >= offset /\ first <= last
  BY <1>1, <1>3, Zenon
<1>5. String(img, offset) = <<offset, first + 1 - offset>>
  BY <1>1, Zenon DEF String
<1> QED
  BY <1>4, <1>5

-----------------------------------------------------------------------------
\* The types of what a file holds.
LEMMA ImageTypes ==
    ASSUME NEW img \in Images
    PROVE  /\ img.size \in Nat /\ img.phoff \in Nat /\ img.phnum \in Nat /\ img.phentsize \in Nat
           /\ img.shoff \in Nat /\ img.shnum \in Nat /\ img.shentsize \in Nat
           /\ img.shstrndx \in Nat
           /\ img.nul \subseteq Nat
           /\ \A i \in Programs(img) : read_program(img, i).offset \in Nat /\ read_program(img, i).filesz \in Nat
           /\ \A i \in Sections(img) :
                /\ read_section(img, i).offset \in Nat /\ read_section(img, i).size \in Nat
                /\ read_section(img, i).name \in Nat /\ read_section(img, i).link \in Nat
           /\ \A i \in Nat : read_symbol_name(img, i) \in Nat
<1>1. /\ img.size \in Nat /\ img.phoff \in Nat /\ img.phnum \in Nat /\ img.phentsize \in Nat
      /\ img.shoff \in Nat /\ img.shnum \in Nat /\ img.shentsize \in Nat /\ img.shstrndx \in Nat
      /\ img.nul \subseteq Nat /\ img.names \in Seq(Nat) /\ img.names # <<>>
  BY ElfAssumption, Zenon
<1>2. \A i \in 1..img.phnum : img.programs[i].offset \in Nat /\ img.programs[i].filesz \in Nat
  BY ElfAssumption, Zenon
<1>3. \A i \in 1..img.shnum :
         /\ img.sections[i].offset \in Nat /\ img.sections[i].size \in Nat
         /\ img.sections[i].name \in Nat /\ img.sections[i].link \in Nat
  BY ElfAssumption, Zenon
<1>4. \A i \in Programs(img) : i + 1 \in 1..img.phnum
  BY <1>1, SMTT(30) DEF Programs
<1>5. \A i \in Sections(img) : i + 1 \in 1..img.shnum
  BY <1>1 DEF Sections
<1>6. \A i \in Nat : read_symbol_name(img, i) \in Nat
  <2>1. Len(img.names) \in Nat \ {0} /\ \A k \in 1..Len(img.names) : img.names[k] \in Nat
    BY <1>1, SMTT(30)
  <2> QED
    BY <2>1 DEF read_symbol_name
<1> QED
  <2>1. \A i \in Programs(img) : read_program(img, i).offset \in Nat /\ read_program(img, i).filesz \in Nat
    BY <1>2, <1>4, Zenon DEF read_program
  <2>2. \A i \in Sections(img) :
           /\ read_section(img, i).offset \in Nat /\ read_section(img, i).size \in Nat
           /\ read_section(img, i).name \in Nat /\ read_section(img, i).link \in Nat
    BY <1>3, <1>5, Zenon DEF read_section
  <2> QED
    BY <1>1, <1>6, <2>1, <2>2, Zenon

\* The types of the sizes.
LEMMA SizeTypes ==
    ASSUME NEW c \in {32, 64}
    PROVE  PhdrSize[c] \in Nat /\ ShdrSize[c] \in Nat /\ SymSize[c] \in Nat \ {0} /\ VersionEnd \in Nat
  BY ElfAssumption, Zenon

\* What elf_image_check has made sure of, for use by the readers.
Accepted(img) == img \in Images /\ elf_image_check(img)

\* Its class is one of the two.
LEMMA AcceptedClass ==
    ASSUME NEW img, Accepted(img)
    PROVE  img.class \in {32, 64}
  BY Zenon DEF Accepted, elf_image_check, read_header

\* The program headers and segments that LoadProgram reads.
LEMMA ProgramsInside ==
    ASSUME NEW img, Accepted(img)
    PROVE  AllInside(LoadProgramReads(img), img.size)
<1> USE ImageTypes, SizeTypes, AcceptedClass DEF Accepted
<1>1. ASSUME NEW i \in Programs(img)
      PROVE  Inside(ProgramEntry(img, i), img.size)
  <2>1. i \in Nat /\ i < img.phnum /\ img.phnum # 0
    BY DEF Programs
  <2>2. /\ img.phentsize >= PhdrSize[img.class]
        /\ table_is_inside(img.phoff, img.phnum, img.phentsize, img.size)
    BY <2>1, Zenon DEF elf_image_check, check_programs
  <2>3. /\ img.phoff \in Nat /\ img.phnum \in Nat /\ img.phentsize \in Nat /\ img.size \in Nat
        /\ PhdrSize[img.class] \in Nat /\ PhdrSize[img.class] <= img.phentsize
    BY <2>2, Zenon
  <2>4. (img.phoff + (i * img.phentsize)) + PhdrSize[img.class] <= img.size
    <3> HIDE ImageTypes, SizeTypes, AcceptedClass
    <3> QED
      BY <2>1, <2>2, <2>3, TableInside, ZenonT(30)
  <2> QED
    BY <2>4, Zenon DEF ProgramEntry, Inside
<1>2. ASSUME NEW i \in Programs(img), read_program(img, i).type = "LOAD"
      PROVE  Inside(<<read_program(img, i).offset, read_program(img, i).filesz>>, img.size)
  <2>1. img.phnum # 0
    BY DEF Programs
  <2>2. range_is_inside(read_program(img, i).offset, read_program(img, i).filesz, img.size)
    BY <1>2, <2>1, Zenon DEF elf_image_check, check_programs
  <2> QED
    BY <2>2, RangeInside, SMTT(30) DEF Inside
<1> QED
  BY <1>1, <1>2 DEF LoadProgramReads, AllInside

\* A section header that is read.
LEMMA SectionEntriesInside ==
    ASSUME NEW img, Accepted(img), NEW i \in Sections(img)
    PROVE  Inside(SectionEntry(img, i), img.size)
<1> USE ImageTypes, SizeTypes, AcceptedClass DEF Accepted
<1>1. i \in Nat /\ i < img.shnum /\ img.shnum # 0
  BY DEF Sections
<1>2. /\ img.shentsize >= ShdrSize[img.class]
      /\ table_is_inside(img.shoff, img.shnum, img.shentsize, img.size)
  BY <1>1, Zenon DEF elf_image_check, check_sections
<1>3. /\ img.shoff \in Nat /\ img.shnum \in Nat /\ img.shentsize \in Nat /\ img.size \in Nat
      /\ ShdrSize[img.class] \in Nat /\ ShdrSize[img.class] <= img.shentsize
  BY <1>2, ZenonT(30)
<1>4. (img.shoff + (i * img.shentsize)) + ShdrSize[img.class] <= img.size
  <2> HIDE ImageTypes, SizeTypes, AcceptedClass
  <2> QED
    BY <1>1, <1>2, <1>3, TableInside, ZenonT(30)
<1> QED
  BY <1>4, Zenon DEF SectionEntry, Inside

\* The contents of a section that has any.
LEMMA ContentsInside ==
    ASSUME NEW img, Accepted(img), NEW i \in Sections(img),
           read_section(img, i).type \notin {"NULL", "NOBITS"}
    PROVE  read_section(img, i).offset + read_section(img, i).size <= img.size
<1> USE ImageTypes DEF Accepted
<1>1. img.shnum # 0
  BY DEF Sections
<1>2. range_is_inside(read_section(img, i).offset, read_section(img, i).size, img.size)
  BY <1>1, Zenon DEF elf_image_check, check_sections
<1> QED
  BY <1>2, RangeInside, Zenon

\* A string that starts in a valid string table of the file.
LEMMA StringsInside ==
    ASSUME NEW img, Accepted(img), NEW t \in Sections(img), NEW name \in Nat,
           string_table_is_valid(img, read_section(img, t)), name < read_section(img, t).size
    PROVE  Inside(String(img, read_section(img, t).offset + name), img.size)
<1> DEFINE off == read_section(img, t).offset
           size == read_section(img, t).size
           r == String(img, off + name)
<1>1. off \in Nat /\ size \in Nat /\ img.size \in Nat /\ img.nul \subseteq Nat
  BY ImageTypes, Zenon DEF Accepted
<1>2. read_section(img, t).type = "STRTAB" /\ off + size - 1 \in img.nul
  BY Zenon DEF string_table_is_valid
<1>3. off + size <= img.size
  BY <1>2, ContentsInside, Zenon
<1> HIDE DEF off, size
<1>4. off + size - 1 \in Nat /\ off + name \in Nat /\ off + name <= off + size - 1
  BY <1>1 DEF size
<1>5. r[1] = off + name /\ r[2] \in Nat /\ r[1] + r[2] <= (off + size - 1) + 1
  BY <1>1, <1>2, <1>4, StringInTable, Zenon DEF off, size
<1> QED
  BY <1>1, <1>3, <1>5 DEF Inside, off

\* The section name table, and the string table of a symbol table.
LEMMA NameTable ==
    ASSUME NEW img, Accepted(img), NEW i \in Sections(img)
    PROVE  /\ img.shstrndx \in Sections(img)
           /\ string_table_is_valid(img, read_section(img, img.shstrndx))
           /\ read_section(img, i).name < read_section(img, img.shstrndx).size
<1> USE ImageTypes DEF Accepted
<1>1. img.shnum # 0
  BY DEF Sections
<1>2. img.shstrndx < img.shnum
  BY <1>1, Zenon DEF elf_image_check, check_sections
<1>3. img.shstrndx \in Sections(img)
  BY <1>2 DEF Sections
<1> QED
  BY <1>1, <1>3, Zenon DEF elf_image_check, check_sections

\* The names of the symbols are in a valid string table.
LEMMA SymbolNames ==
    ASSUME NEW img, Accepted(img), NEW t \in Sections(img), read_section(img, t).type = "SYMTAB"
    PROVE  LET symtab == read_section(img, t)
           IN  /\ symtab.link \in Sections(img)
               /\ string_table_is_valid(img, string_table(img, symtab))
               /\ \A i \in 0..(elfsym_get_symbol_num(img, symtab) - 1) :
                    read_symbol_name(img, i) < string_table(img, symtab).size
<1> USE ImageTypes DEF Accepted
<1>1. img.shnum # 0
  BY DEF Sections
<1>2. check_symbol_table(img, read_section(img, t))
  BY <1>1, Zenon DEF elf_image_check, check_sections
<1>3. read_section(img, t).link \in Sections(img)
  BY <1>2 DEF check_symbol_table, Sections
<1> QED
  BY <1>2, <1>3, Zenon DEF check_symbol_table, string_table, elfsym_get_symbol_num

\* The symbols that cpuemu_symbol_set reads, and their names: all but one that would start
\* where the string table ends.
LEMMA SymbolsInside ==
    ASSUME NEW img, Accepted(img), NEW t \in SymbolTables(img), NEW name_index \in {0, 1}
    PROVE  Covered(SymbolReads(img, t, name_index), img)
<1> DEFINE symtab == read_section(img, t)
           entry == SymSize[img.class]
           strtab == string_table(img, symtab)
<1>1. t \in Sections(img) /\ symtab.type = "SYMTAB"
  BY Zenon DEF SymbolTables, OfType
<1>2. /\ symtab.offset \in Nat /\ symtab.size \in Nat /\ img.size \in Nat /\ entry \in Nat \ {0}
      /\ symtab.offset + symtab.size <= img.size
  BY <1>1, ImageTypes, SizeTypes, AcceptedClass, ContentsInside DEF Accepted
<1>3. ASSUME NEW i \in 0..(elfsym_get_symbol_num(img, symtab) - 1)
      PROVE  Covered(elfsym_get_symbol(img, symtab, name_index, i), img)
  <2> DEFINE name == read_symbol_name(img, i)
             read == String(img, strtab.offset + name + name_index)
  <2>1. (symtab.size \div entry) \in Nat
    BY <1>2
  <2>2. i \in Nat /\ i < symtab.size \div entry
    BY <2>1 DEF elfsym_get_symbol_num
  <2>3. (i * entry) + entry <= symtab.size /\ i * entry \in Nat
    BY <1>2, <2>2, SymbolInSection, SMTT(30)
  <2>4. Inside(<<symtab.offset + (i * entry), entry>>, img.size)
    BY <1>2, <2>3 DEF Inside
  <2>5. name \in Nat
    BY <2>2, ImageTypes, Zenon DEF Accepted
  <2>6. /\ symtab.link \in Sections(img)
        /\ string_table_is_valid(img, read_section(img, symtab.link))
        /\ name < read_section(img, symtab.link).size
        /\ strtab = read_section(img, symtab.link)
    BY <1>1, SymbolNames, Zenon DEF string_table
  <2>7. strtab.offset \in Nat /\ strtab.size \in Nat
    BY <2>6, ImageTypes, Zenon DEF Accepted
  <2>8. CASE name + name_index < strtab.size
    <3>1. name + name_index \in Nat
      BY <2>5
    <3>2. Inside(String(img, strtab.offset + (name + name_index)), img.size)
      BY <2>6, <2>8, <3>1, StringsInside, Zenon
    <3> HIDE DEF strtab, name
    <3>3. strtab.offset + (name + name_index) = strtab.offset + name + name_index
      BY <2>5, <2>7
    <3> QED
      BY <2>4, <3>2, <3>3, Zenon DEF elfsym_get_symbol, Covered, strtab, name
  <2>9. CASE ~(name + name_index < strtab.size)
    <3>1. name < strtab.size
      BY <2>6, Zenon
    <3>2. name + 1 = strtab.size /\ strtab.offset + name + name_index = strtab.offset + strtab.size
      <4> HIDE DEF strtab, name
      <4> QED
        BY <2>5, <2>7, <2>9, <3>1
    <3>3. String(img, strtab.offset + strtab.size) \in Uncovered(img)
      <4>1. t \in EmptyAtEnd(img)
        BY <3>2, Zenon DEF EmptyAtEnd
      <4> QED
        BY <4>1, Zenon DEF Uncovered
    <3> QED
      BY <2>4, <3>2, <3>3, Zenon DEF elfsym_get_symbol, Covered
  <2> QED
    BY <2>8, <2>9, Zenon
<1> QED
  BY <1>3, Zenon DEF SymbolReads, Covered

\* A range at the start of a debug section that is found by its name.
LEMMA DebugRangeCovered ==
    ASSUME NEW img, Accepted(img), NEW k \in DOMAIN DebugSections,
           NEW i \in elf_section_get(img, DebugSections[k]), NEW n \in Nat,
           n <= read_section(img, i).size, n \in {read_section(img, i).size, VersionEnd}
    PROVE  LET range == <<read_section(img, i).offset, n>>
           IN  range \in Uncovered(img) \/ Inside(range, img.size)
<1> DEFINE range == <<read_section(img, i).offset, n>>
<1>1. i \in Sections(img)
  BY Zenon DEF elf_section_get
<1>2. CASE read_section(img, i).type \in {"NULL", "NOBITS"}
  <2>1. i \in NoContents(img)
    BY <1>2, Zenon DEF NoContents
  <2> QED
    BY <2>1, Zenon DEF Uncovered
<1>3. CASE read_section(img, i).type \notin {"NULL", "NOBITS"}
  <2>1. /\ read_section(img, i).offset \in Nat /\ read_section(img, i).size \in Nat
        /\ img.size \in Nat
    BY <1>1, ImageTypes, Zenon DEF Accepted
  <2>2. read_section(img, i).offset + read_section(img, i).size <= img.size
    BY <1>1, <1>3, ContentsInside, Zenon
  <2> QED
    BY <2>1, <2>2 DEF Inside
<1> QED
  BY <1>2, <1>3, Zenon

\* The section names that elf_section_get compares, the versions, and the sections.
LEMMA DebugInside ==
    ASSUME NEW img, Accepted(img)
    PROVE  Covered(SectionGetReads(img) \cup SupportReads(img) \cup ContentsReads(img), img)
<1>1. ASSUME NEW i \in Sections(img)
      PROVE  Inside(String(img, read_section(img, img.shstrndx).offset + read_section(img, i).name), img.size)
  <2>1. read_section(img, i).name \in Nat
    BY ImageTypes, Zenon DEF Accepted
  <2> QED
    BY <2>1, NameTable, StringsInside, Zenon
<1>2. /\ 1 \in DOMAIN DebugSections /\ DebugSections[1] = ".debug_line"
      /\ 4 \in DOMAIN DebugSections /\ DebugSections[4] = ".debug_info"
  BY DEF DebugSections
<1>3. ASSUME NEW k \in DOMAIN DebugSections
      PROVE  Covered(VersionReads(img, DebugSections[k]), img)
  <2> SUFFICES ASSUME NEW i \in elf_section_get(img, DebugSections[k]),
                      read_section(img, i).size >= VersionEnd
               PROVE  LET range == <<read_section(img, i).offset, VersionEnd>>
                      IN  range \in Uncovered(img) \/ Inside(range, img.size)
    BY Zenon DEF VersionReads, Versioned, Covered
  <2>1. i \in Sections(img)
    BY Zenon DEF elf_section_get
  <2>2. read_section(img, i).size \in Nat /\ VersionEnd \in Nat
    BY <2>1, ImageTypes, ElfAssumption, Zenon DEF Accepted
  <2>3. VersionEnd <= read_section(img, i).size
    BY <2>2
  <2> QED
    BY <2>2, <2>3, DebugRangeCovered, Zenon
<1>4. Covered(SupportReads(img), img)
  <2>1. Covered(VersionReads(img, ".debug_line"), img) /\ Covered(VersionReads(img, ".debug_info"), img)
    BY <1>2, <1>3, Zenon
  <2> QED
    BY <2>1, Zenon DEF SupportReads, Covered
<1>5. Covered(ContentsReads(img), img)
  <2> SUFFICES ASSUME NEW k \in DOMAIN DebugSections, NEW i \in elf_section_get(img, DebugSections[k])
               PROVE  LET range == <<read_section(img, i).offset, read_section(img, i).size>>
                      IN  range \in Uncovered(img) \/ Inside(range, img.size)
    BY Zenon DEF ContentsReads, DebugLoaded, Covered
  <2>1. i \in Sections(img)
    BY Zenon DEF elf_section_get
  <2>2. read_section(img, i).size \in Nat /\ read_section(img, i).size <= read_section(img, i).size
    BY <2>1, ImageTypes DEF Accepted
  <2> QED
    BY <2>2, DebugRangeCovered, Zenon
<1>6. Covered(SectionGetReads(img), img)
  BY <1>1, SectionEntriesInside, Zenon DEF SectionGetReads, SectionReads, Covered
<1> QED
  BY <1>4, <1>5, <1>6, Zenon DEF Covered

-----------------------------------------------------------------------------
\* After the check has passed the file is an accepted one, and all that was read is covered.
ImageInv ==
    /\ image \in Images
    /\ stage \in {"checked", "loaded", "symbols", "ready"} => elf_image_check(image)
    /\ Covered(reads, image)

\* Nothing has been read at the beginning.
LEMMA ImageInvInduction == Init => ImageInv
  BY Zenon DEF Init, ImageInv, Covered

\* Every step of the loader keeps its reads covered.
LEMMA ImageInvStep == ImageInv /\ [Next]_vars => ImageInv'
<1> SUFFICES ASSUME ImageInv, [Next]_vars PROVE ImageInv'
  BY Zenon
<1> USE DEF ImageInv
<1>1. CASE UNCHANGED vars
  BY <1>1, Zenon DEF vars
<1>2. CASE CheckImage
  BY <1>2, Zenon DEF CheckImage, Rejects, Reads, Covered
<1>3. CASE LoadProgram
  BY <1>3, ProgramsInside, Zenon DEF LoadProgram, Reads, AllInside, Covered, Accepted
<1>4. CASE elf_symbol_load
  BY <1>4, SectionEntriesInside, Zenon
     DEF elf_symbol_load, Rejects, Reads, SectionReads, Covered, Accepted
<1>5. CASE load_debug_information
  BY <1>5, DebugInside, Zenon DEF load_debug_information, Reads, Covered, Accepted
<1>6. CASE SetSymbols
  <2>1. PICK t \in SymbolTables(image), name_index \in {0, 1} :
           /\ stage' \in {"rejected", "set"} /\ image' = image
           /\ reads' = reads \cup SymbolReads(image, t, name_index)
    BY <1>6, Zenon DEF SetSymbols, Reads
  <2>2. Covered(SymbolReads(image, t, name_index), image)
    BY <1>6, SymbolsInside, Zenon DEF SetSymbols, Accepted
  <2> QED
    BY <2>1, <2>2, Zenon DEF Covered
<1> QED
  BY <1>1, <1>2, <1>3, <1>4, <1>5, <1>6, Zenon DEF Next

\* elf_image_check suffices but for what Uncovered names: whatever the file, nothing else that
\* LoadProgram, elf_symbol_load, load_debug_information or cpuemu_symbol_set reads lies past
\* its end.
THEOREM EverythingReadIsInside == Spec => []ReadsInside
<1>1. ImageInv => ReadsInside
  BY Zenon DEF ImageInv, ReadsInside, Covered, Inside
<1> QED
  BY <1>1, ImageInvInduction, ImageInvStep, PTL DEF Spec

-----------------------------------------------------------------------------
(* The device configuration and its getters.                                *)

\* A set of numbers that is not empty has a least one, and Min is it.
LEMMA MinIsLeast ==
    ASSUME NEW S \in SUBSET Nat, S # {}
    PROVE  Min(S) \in S /\ \A y \in S : Min(S) <= y
<1> DEFINE R == OpToRel(<, Nat)
<1>1. IsWellFoundedOn(R, Nat)
  BY NatLessThanWellFounded, Zenon
<1> HIDE DEF R
<1>2. PICK x \in S : \A y \in S : ~(<<y, x>> \in R)
  BY <1>1, WFMin, Zenon
<1>3. ASSUME NEW y \in S PROVE x <= y
  <2>1. R = {p \in Nat \X Nat : p[1] < p[2]}
    BY Zenon DEF R, OpToRel
  <2>2. x \in Nat /\ y \in Nat /\ ~(<<y, x>> \in R)
    BY <1>2, Zenon
  <2>3. y < x => <<y, x>> \in R
    BY <2>1, <2>2, Zenon
  <2> QED
    BY <2>2, <2>3
<1> QED
  BY <1>3, Zenon DEF Min

\* Two members of a finite set of numbers with as many members before them are the same.
LEMMA SamePlace ==
    ASSUME NEW S \in SUBSET Nat, IsFiniteSet(S), NEW k \in S, NEW l \in S,
           Cardinality({j \in S : j < k}) = Cardinality({j \in S : j < l})
    PROVE  k = l
<1>1. ASSUME NEW m \in S, NEW n \in S, m < n,
             Cardinality({j \in S : j < m}) = Cardinality({j \in S : j < n})
      PROVE  FALSE
  <2> DEFINE A == {j \in S : j < m}
             B == {j \in S : j < n}
  <2>0. m \in Nat /\ n \in Nat /\ \A j \in S : j \in Nat
    BY Zenon
  <2>1. A \in SUBSET B /\ B \in SUBSET S /\ m \in B /\ m \notin A
    <3>1. \A j \in S : j < m => j < n
      BY <1>1, <2>0
    <3>2. ~(m < m)
      BY <2>0
    <3> QED
      BY <1>1, <3>1, <3>2, Zenon
  <2>2. IsFiniteSet(B)
    BY <2>1, FS_Subset, Zenon
  <2>3. Cardinality(A) = Cardinality(B)
    BY <1>1, Zenon
  <2> HIDE DEF A, B
  <2>4. A = B
    BY <2>1, <2>2, <2>3, FS_Subset, Zenon
  <2> QED
    BY <2>1, <2>4, Zenon
<1>2. k < l \/ l < k \/ k = l
  OBVIOUS
<1> QED
  BY <1>1, <1>2, Zenon

\* The members of a finite set of numbers with none before them: the least one.
LEMMA FirstPlace ==
    ASSUME NEW S \in SUBSET Nat, IsFiniteSet(S), S # {}
    PROVE  Cardinality({j \in S : j < Min(S)}) = 0
<1>1. {j \in S : j < Min(S)} = {}
  <2>1. PICK m \in Nat : m = Min(S) /\ \A y \in S : m <= y
    BY MinIsLeast, Zenon
  <2>2. ASSUME NEW j \in S PROVE ~(j < m)
    <3>1. j \in Nat /\ m <= j
      BY <2>1, Zenon
    <3> QED
      BY <3>1
  <2> QED
    BY <2>1, <2>2, Zenon
<1> QED
  BY <1>1, FS_EmptySet, Zenon

-----------------------------------------------------------------------------
Param == [key : STRING, value : Token, second : Token, value_num : Nat]

\* A stored value is the one of the file, or its expansion; only strings are expanded.
Stems(stored, token) ==
    /\ stored.kind = token.kind /\ stored.num = token.num
    /\ token.kind # "string" => stored = token
    /\ Settled(token.text) =>
          \/ stored.text = token.text
          \/ stored.text = cpuemu_env_parse_devcfg_string(token.text)

\* An entry holds what its line of the file says.
FromLine(entry, line) ==
    /\ line # <<>> /\ Len(line) \in {2, 3}
    /\ entry.key = line[1].text[1] /\ entry.value_num = Len(line) - 1
    /\ Stems(entry.value, line[2])
    /\ Len(line) = 3 => Stems(entry.second, line[3])

\* The table holds the lines read so far, in order; when the loading has succeeded, all
\* lines before the first blank one.
ParamInv ==
    /\ file \in Configs
    /\ param \in Seq(Param) /\ at = Len(param) + 1 /\ Len(param) <= Len(file)
    /\ \A k \in DOMAIN param : FromLine(param[k], file[k])
    /\ loaded = "ok" => Len(param) = Len(file) \/ file[Len(param) + 1] = <<>>

\* The expansion of a text is a text.
LEMMA ExpansionType ==
    ASSUME NEW text \in Seq(STRING)
    PROVE  cpuemu_env_parse_devcfg_string(text) \in Seq(STRING)
<1> DEFINE end == Min(Places(text, "}"))
           start == Min(Places(text, "{"))
<1>1. CASE /\ Places(text, "{") # {} /\ Places(text, "}") # {}
           /\ ~(end = start + 1 \/ text[start + 1] \notin DOMAIN Environment)
  <2>0. DOMAIN text = 1 .. Len(text) /\ Len(text) \in Nat
    OBVIOUS
  <2>1. Places(text, "}") \in SUBSET Nat /\ Places(text, "}") \subseteq 1 .. Len(text)
    <3>1. 1 .. Len(text) \subseteq Nat
      BY <2>0
    <3>2. Places(text, "}") \subseteq 1 .. Len(text)
      BY <2>0, Zenon DEF Places
    <3> QED
      BY <3>1, <3>2, Zenon
  <2>2. end \in 1 .. Len(text)
    BY <1>1, <2>1, MinIsLeast, Zenon
  <2>3. PICK rest \in Seq(STRING) : rest = SubSeq(text, end + 1, Len(text))
    <3>1. PICK from \in Nat, to \in Nat : from = end + 1 /\ to = Len(text)
      <4> HIDE DEF end
      <4>1. end + 1 \in Nat
        BY <2>0, <2>2
      <4> QED
        BY <2>0, <4>1, Zenon
    <3>2. from >= 1 /\ to <= Len(text)
      <4> HIDE DEF end
      <4> QED
        BY <2>0, <2>2, <3>1
    <3>3. SubSeq(text, from, to) \in Seq(STRING)
      BY <3>2
    <3> QED
      BY <3>1, <3>3, Zenon
  <2>4. PICK value \in Seq(STRING) : value = Environment[text[start + 1]]
    BY <1>1, ConfigAssumption, Zenon
  <2>5. value \o rest \in Seq(STRING)
    OBVIOUS
  <2> QED
    BY <1>1, <2>3, <2>4, <2>5, Zenon DEF cpuemu_env_parse_devcfg_string
<1>2. CASE \/ Places(text, "{") = {} \/ Places(text, "}") = {}
           \/ end = start + 1 \/ text[start + 1] \notin DOMAIN Environment
  BY <1>2, Zenon DEF cpuemu_env_parse_devcfg_string
<1> QED
  BY <1>1, <1>2, Zenon


\* An expanded value still stems from the line.
LEMMA ExpansionStems ==
    ASSUME NEW s \in Token, NEW t \in Token
    PROVE  /\ ExpandedToken(s) \in Token
           /\ Stems(s, t) /\ s.kind = "string" => Stems(ExpandedToken(s), t)
           /\ Stems(s, t) /\ s.kind = "string" /\ Settled(t.text) => ExpandedToken(s) = Meant(t)
<1>1. PICK x \in Seq(STRING) : x = cpuemu_env_parse_devcfg_string(s.text)
  BY ExpansionType, Zenon DEF Token
<1>2. PICK e : e = ExpandedToken(s)
  BY Zenon
<1>3. e = [s EXCEPT !.text = x]
  BY <1>1, <1>2, Zenon DEF ExpandedToken
<1>4. e \in Token /\ e.kind = s.kind /\ e.num = s.num /\ e.text = x
  BY <1>3, Zenon DEF Token
<1>5. ASSUME Stems(s, t), s.kind = "string"
      PROVE  /\ t.kind = "string" /\ t.num = e.num
             /\ Settled(t.text) => e.text = cpuemu_env_parse_devcfg_string(t.text)
  BY <1>1, <1>4, <1>5, Zenon DEF Stems, Settled
<1>6. ASSUME Stems(s, t), s.kind = "string", Settled(t.text)
      PROVE  e = Meant(t)
  <2>1. PICK y \in Seq(STRING) : y = cpuemu_env_parse_devcfg_string(t.text)
    BY ExpansionType, Zenon DEF Token
  <2>2. e.kind = t.kind /\ e.num = t.num /\ e.text = y /\ t.kind = "string"
    BY <1>4, <1>5, <1>6, <2>1, Zenon
  <2>3. e = [t EXCEPT !.text = y]
    BY <1>4, <2>2, Zenon DEF Token
  <2> QED
    BY <2>1, <2>2, <2>3, Zenon DEF Meant, ExpandedToken
<1> QED
  BY <1>2, <1>4, <1>5, <1>6, Zenon DEF Stems

\* The lines of a file.
LEMMA Lines ==
    ASSUME file \in Configs
    PROVE  /\ file \in Seq(Seq(Token)) /\ Len(file) \in Nat /\ DOMAIN file = 1 .. Len(file)
           /\ \A k \in DOMAIN file : file[k] \in Seq(Token)
           /\ \A k \in DOMAIN file : file[k] # <<>> => file[k][1].text # <<>>
  BY ConfigAssumption

\* What a getter of strings writes back keeps the table right.
LEMMA ExpansionKeeps ==
    ASSUME ParamInv, NEW k, NEW both \in BOOLEAN,
           k = 0 \/ ( /\ k \in DOMAIN param /\ param[k].value.kind = "string"
                      /\ both => param[k].value_num = 2 /\ param[k].second.kind = "string" ),
           param' = Expanded(param, k, both), UNCHANGED <<file, at, loaded>>
    PROVE  ParamInv'
<1>1. CASE k = 0
  BY <1>1, Zenon DEF Expanded, ParamInv, FromLine, Stems
<1>2. CASE k # 0
  <2>1. PICK e \in Param : e = param[k]
    BY <1>2 DEF ParamInv
  <2>2. PICK v \in Token : v = ExpandedToken(e.value)
    BY <2>1, ExpansionStems, Zenon DEF Param
  <2>3. PICK s \in Token : s = IF both THEN ExpandedToken(e.second) ELSE e.second
    BY <2>1, ExpansionStems, Zenon DEF Param
  <2>4. PICK x \in Param : x = [e EXCEPT !.value = v, !.second = s]
    BY <2>1, Zenon DEF Param
  <2>5. param' = [param EXCEPT ![k] = x]
    BY <1>2, <2>1, <2>2, <2>3, <2>4, Zenon DEF Expanded
  <2>6. param' \in Seq(Param) /\ Len(param') = Len(param) /\ DOMAIN param' = DOMAIN param
    <3>1. PICK n \in Nat : n = Len(param)
      BY DEF ParamInv
    <3>2. param \in [1 .. n -> Param]
      BY <3>1 DEF ParamInv
    <3>3. param' \in [1 .. n -> Param]
      BY <2>5, <3>2, Zenon
    <3>4. param' \in Seq(Param) /\ Len(param') = n
      BY <3>3
    <3> QED
      BY <3>1, <3>2, <3>3, <3>4, Zenon
  <2>7. PICK line \in Seq(Token) : line = file[k] /\ FromLine(e, line)
    BY <1>2, <2>1, Lines DEF ParamInv
  <2>8. FromLine(x, line)
    <3>1. x.key = e.key /\ x.value_num = e.value_num /\ x.value = v /\ x.second = s
      BY <2>4, Zenon DEF Param
    <3>2. Stems(v, line[2])
      BY <1>2, <2>1, <2>2, <2>7, ExpansionStems DEF FromLine, Param
    <3>3. Len(line) = 3 => Stems(s, line[3])
      BY <1>2, <2>1, <2>3, <2>7, ExpansionStems DEF FromLine, Param
    <3> QED
      BY <2>7, <3>1, <3>2, <3>3, Zenon DEF FromLine
  <2>9. ASSUME NEW i \in DOMAIN param' PROVE FromLine(param'[i], file'[i])
    BY <2>5, <2>6, <2>7, <2>8, Zenon DEF ParamInv
  <2> QED
    BY <2>6, <2>9, Zenon DEF ParamInv
<1> QED
  BY <1>1, <1>2, Zenon


\* The entries that a getter may return, and those of them with n before them.
Held(get, key) ==
    {k \in DOMAIN param :
       /\ param[k].value.kind = (IF get = "pair" THEN "string" ELSE get)
       /\ param[k].key = key
       /\ get = "pair" => param[k].value_num = 2 /\ param[k].second.kind = "string"}
Place(S, n) == {k \in S : Cardinality({j \in S : j < k}) = n}

\* A set without two members is that of its member.
LEMMA OnlyOne == ASSUME NEW P, NEW m \in P, \A k, l \in P : k = l PROVE P = {m}
  BY Zenon

\* There is one entry at a place at most; the getters find it, or 0 for none.
LEMMA PlaceFound ==
    ASSUME ParamInv, NEW S \in SUBSET DOMAIN param
    PROVE  /\ S # {} => Min(S) \in S /\ Place(S, 0) = {Min(S)}
           /\ \A n : Place(S, n) # {} => Min(Place(S, n)) \in S /\ Place(S, n) = {Min(Place(S, n))}
           /\ 0 \notin S
<1>1. DOMAIN param = 1 .. Len(param) /\ Len(param) \in Nat
  BY DEF ParamInv
<1>2. IsFiniteSet(1 .. Len(param)) /\ 1 .. Len(param) \subseteq Nat /\ 0 \notin 1 .. Len(param)
  BY <1>1, FS_Interval
<1>3. S \in SUBSET Nat /\ IsFiniteSet(S) /\ 0 \notin S
  BY <1>1, <1>2, FS_Subset, Zenon
<1>4. \A n : \A k, l \in Place(S, n) : k = l
  BY <1>3, SamePlace DEF Place
<1>5. \A n : Place(S, n) \in SUBSET Nat /\ Place(S, n) \in SUBSET S
  BY <1>3, Zenon DEF Place
<1>6. ASSUME S # {} PROVE Min(S) \in S /\ Place(S, 0) = {Min(S)}
  <2>1. Min(S) \in S
    BY <1>3, <1>6, MinIsLeast, Zenon
  <2>2. Min(S) \in Place(S, 0)
    BY <1>3, <1>6, <2>1, FirstPlace, Zenon DEF Place
  <2> QED
    BY <1>4, <2>1, <2>2, OnlyOne, Zenon
<1>7. ASSUME NEW n, Place(S, n) # {}
      PROVE  Min(Place(S, n)) \in S /\ Place(S, n) = {Min(Place(S, n))}
  <2>1. Min(Place(S, n)) \in Place(S, n)
    BY <1>5, <1>7, MinIsLeast, Zenon
  <2> QED
    BY <1>4, <1>5, <2>1, OnlyOne, Zenon
<1> QED
  BY <1>3, <1>6, <1>7, Zenon

\* The lines the file has for the getters are those that have been read.
LEMMA SaidRead ==
    ASSUME ParamInv, loaded = "ok"
    PROVE  DOMAIN Said = DOMAIN param /\ \A k \in DOMAIN param : Said[k] = file[k]
<1> DEFINE blank == {k \in DOMAIN file : file[k] = <<>>}
<1>1. PICK n \in Nat : n = Len(param) /\ DOMAIN param = 1 .. n
  BY DEF ParamInv
<1>2. /\ Len(file) \in Nat /\ DOMAIN file = 1 .. Len(file) /\ n <= Len(file)
      /\ \A k \in 1 .. n : file[k] # <<>>
  BY <1>1, Lines, Zenon DEF ParamInv, FromLine
<1>3. blank \in SUBSET Nat /\ \A k \in blank : k > n
  BY <1>2
<1>4. CASE n = Len(file)
  <2>1. blank = {}
    BY <1>2, <1>4, Zenon
  <2> QED
    BY <1>1, <1>2, <1>4, <2>1, Zenon DEF Said
<1>5. CASE n # Len(file)
  <2>1. n + 1 \in blank
    <3>1. file[n + 1] = <<>>
      BY <1>1, <1>5, Zenon DEF ParamInv
    <3>2. n + 1 \in 1 .. Len(file)
      <4>1. PICK m \in Nat : m = Len(file)
        BY <1>2, Zenon
      <4>2. n <= m /\ n # m
        BY <1>2, <1>5, <4>1, Zenon
      <4>3. n + 1 \in 1 .. m
        BY <4>2
      <4> QED
        BY <4>1, <4>3, Zenon
    <3> QED
      BY <1>2, <3>1, <3>2, Zenon
  <2>2. Min(blank) = n + 1
    <3>1. PICK m \in Nat : m = Min(blank) /\ m \in blank /\ m <= n + 1
      BY <1>3, <2>1, MinIsLeast, Zenon
    <3> HIDE DEF blank
    <3>2. m > n
      BY <1>3, <3>1, Zenon
    <3> QED
      BY <3>1, <3>2
  <2>3. Said = SubSeq(file, 1, n)
    <3>1. Said = SubSeq(file, 1, (n + 1) - 1)
      BY <2>1, <2>2, Zenon DEF Said
    <3> QED
      BY <3>1
  <2>4. file \in Seq(Seq(Token))
    BY Lines, Zenon DEF ParamInv
  <2>5. DOMAIN SubSeq(file, 1, n) = 1 .. n /\ \A k \in 1 .. n : SubSeq(file, 1, n)[k] = file[k]
    BY <1>2, <2>4
  <2> QED
    BY <1>1, <2>3, <2>5, Zenon
<1> QED
  BY <1>4, <1>5, Zenon


\* A turn of the loop of cpuemu_load_devcfg keeps the table right.
LEMMA LineRead == ASSUME ParamInv, cpuemu_load_devcfg PROVE ParamInv'
<1>0. UNCHANGED file
  BY Zenon DEF cpuemu_load_devcfg
<1>1. PICK n \in Nat : n = Len(param) /\ at = n + 1 /\ n <= Len(file) /\ Len(file) \in Nat
  BY Lines DEF ParamInv
<1>2. CASE at > Len(file) \/ file[at] = <<>>
  <2>1. loaded' = "ok" /\ UNCHANGED <<at, param>>
    BY <1>2, Zenon DEF cpuemu_load_devcfg
  <2>2. n = Len(file) \/ file[n + 1] = <<>>
    BY <1>1, <1>2
  <2> QED
    BY <1>0, <1>1, <2>1, <2>2, Zenon DEF ParamInv
<1>3. CASE ~(at > Len(file) \/ file[at] = <<>>)
  <2>1. CASE loaded' = "failed" /\ UNCHANGED <<at, param>>
    BY <1>0, <2>1, Zenon DEF ParamInv
  <2>2. CASE /\ Len(file[at]) = 2 \/ Len(file[at]) = 3
             /\ param' = Append(param, Entry(file[at])) /\ at' = at + 1 /\ UNCHANGED loaded
    <3>1. n + 1 \in DOMAIN file /\ n + 1 <= Len(file)
      <4>1. PICK m \in Nat : m = Len(file)
        BY <1>1, Zenon
      <4>2. n + 1 <= m
        BY <1>1, <1>3, <4>1
      <4>3. n + 1 \in 1 .. m
        BY <4>2
      <4>4. DOMAIN file = 1 .. m
        BY <4>1, Lines, Zenon DEF ParamInv
      <4> QED
        BY <4>1, <4>2, <4>3, <4>4, Zenon
    <3>2. PICK line \in Seq(Token) : line = file[n + 1] /\ line # <<>> /\ line[1].text # <<>>
      BY <1>1, <1>3, <3>1, Lines, Zenon DEF ParamInv
    <3>3. Len(line) \in {2, 3}
      BY <1>1, <2>2, <3>2, Zenon
    <3>4. PICK e : e = Entry(line)
      BY Zenon
    <3>5. e \in Param /\ FromLine(e, line)
      <4>1. line[1] \in Token /\ line[2] \in Token /\ (Len(line) = 3 => line[3] \in Token)
        BY <3>3
      <4>2. line[1].text[1] \in STRING
        BY <3>2, <4>1 DEF Token
      <4>3. Str(<<>>) \in Token
        BY DEF Str, Token
      <4>4. Len(line) - 1 \in Nat
        BY <3>3
      <4>5. /\ e.key = line[1].text[1] /\ e.value = line[2] /\ e.value_num = Len(line) - 1
            /\ e.second = IF Len(line) = 3 THEN line[3] ELSE Str(<<>>)
        BY <3>4, Zenon DEF Entry
      <4>6. e \in Param
        BY <3>4, <4>1, <4>2, <4>3, <4>4, Zenon DEF Entry, Param
      <4>7. FromLine(e, line)
        BY <3>2, <3>3, <4>5, Zenon DEF FromLine, Stems
      <4> QED
        BY <4>6, <4>7, Zenon
    <3>6. /\ param' \in Seq(Param) /\ Len(param') = n + 1 /\ param'[n + 1] = e
          /\ \A k \in 1 .. n : param'[k] = param[k]
      <4>1. param \in Seq(Param)
        BY Zenon DEF ParamInv
      <4>2. param' = Append(param, e)
        BY <1>1, <2>2, <3>2, <3>4, Zenon
      <4> QED
        BY <1>1, <3>5, <4>1, <4>2
    <3>7. ASSUME NEW k \in DOMAIN param' PROVE FromLine(param'[k], file'[k])
      <4>1. k \in 1 .. n \/ k = n + 1
        BY <3>6
      <4>2. CASE k \in 1 .. n
        BY <1>0, <1>1, <3>6, <4>2 DEF ParamInv
      <4>3. CASE k = n + 1
        BY <1>0, <3>2, <3>5, <3>6, <4>3, Zenon
      <4> QED
        BY <4>1, <4>2, <4>3, Zenon
    <3>8. at' = Len(param') + 1 /\ Len(param') <= Len(file') /\ loaded' # "ok"
      BY <1>0, <1>1, <2>2, <3>1, <3>6, Zenon DEF cpuemu_load_devcfg
    <3> QED
      BY <1>0, <3>6, <3>7, <3>8, Zenon DEF ParamInv
  <2> QED
    BY <1>3, <2>1, <2>2, Zenon DEF cpuemu_load_devcfg
<1> QED
  BY <1>2, <1>3, Zenon

\* A getter finds the entry at the place it is asked for, the first one but for the pairs.
LEMMA FirstOfFinds ==
    ASSUME ParamInv, NEW get \in {"dec", "hex", "string"}, NEW key
    PROVE  /\ FirstOf(key, get) = 0 => Place(Held(get, key), 0) = {}
           /\ FirstOf(key, get) # 0 => /\ FirstOf(key, get) \in Held(get, key)
                                       /\ Place(Held(get, key), 0) = {FirstOf(key, get)}
<1>1. PICK S \in SUBSET DOMAIN param : S = Held(get, key)
  BY Zenon DEF Held
<1>2. FirstOf(key, get) = IF S = {} THEN 0 ELSE Min(S)
  BY <1>1, Zenon DEF FirstOf, Held
<1> QED
  BY <1>1, <1>2, PlaceFound, Zenon DEF Place
LEMMA PairFinds ==
    ASSUME ParamInv, NEW key, NEW nth, NEW k, k = cpuemu_get_devcfg_string_pair_at(key, nth)
    PROVE  /\ k = 0 => Place(Held("pair", key), nth) = {}
           /\ k # 0 => k \in Held("pair", key) /\ Place(Held("pair", key), nth) = {k}
<1>1. PICK S \in SUBSET DOMAIN param : S = Held("pair", key)
  BY Zenon DEF Held
<1>2. S = {i \in DOMAIN param : /\ param[i].value_num = 2
                                /\ param[i].value.kind = "string"
                                /\ param[i].second.kind = "string"
                                /\ param[i].key = key}
  BY <1>1, Zenon DEF Held
<1>3. k = IF Place(S, nth) = {} THEN 0 ELSE Min(Place(S, nth))
  BY <1>2, Zenon DEF cpuemu_get_devcfg_string_pair_at, Place
<1> QED
  BY <1>1, <1>3, PlaceFound


\* A getter that expands what it finds keeps the table right.
LEMMA StringKeeps ==
    ASSUME ParamInv, NEW key, param' = Expanded(param, cpuemu_get_devcfg_string(key), FALSE),
           UNCHANGED <<file, at, loaded>>
    PROVE  ParamInv'
<1>1. PICK k : k = cpuemu_get_devcfg_string(key)
  BY Zenon
<1>2. k = 0 \/ k \in Held("string", key)
  BY <1>1, FirstOfFinds, Zenon DEF cpuemu_get_devcfg_string
<1> QED
  BY <1>1, <1>2, ExpansionKeeps, Zenon DEF Held
LEMMA PairKeeps ==
    ASSUME ParamInv, NEW key, NEW nth, NEW k, k = cpuemu_get_devcfg_string_pair_at(key, nth),
           param' = Expanded(param, k, TRUE), UNCHANGED <<file, at, loaded>>
    PROVE  ParamInv'
<1>1. k = 0 \/ k \in Held("pair", key)
  BY PairFinds, Zenon
<1> QED
  BY <1>1, ExpansionKeeps, Zenon DEF Held

\* The line of an entry is among those before the first blank one.
LEMMA EntryRead ==
    ASSUME ParamInv, loaded = "ok", NEW k \in DOMAIN param
    PROVE  param[k] \in Param /\ Said[k] \in Seq(Token) /\ FromLine(param[k], Said[k])
<1>1. param[k] \in Param /\ FromLine(param[k], file[k]) /\ Said[k] = file[k]
  BY SaidRead DEF ParamInv
<1>2. PICK n \in Nat : n = Len(param) /\ DOMAIN param = 1 .. n
  BY DEF ParamInv
<1>3. PICK m \in Nat : m = Len(file) /\ DOMAIN file = 1 .. m /\ n <= m
  BY <1>2, Lines, Zenon DEF ParamInv
<1>4. k \in DOMAIN file
  BY <1>2, <1>3
<1>5. file[k] \in Seq(Token)
  BY <1>4, Lines, Zenon DEF ParamInv
<1> QED
  BY <1>1, <1>5, Zenon

\* The lines of the file that may answer are those of the entries that may.
LEMMA SameLines ==
    ASSUME ParamInv, loaded = "ok", NEW get \in {"dec", "hex", "string", "pair"}, NEW key
    PROVE  Held(get, key) =
             {k \in DOMAIN Said :
                /\ Said[k][1].text[1] = key
                /\ Said[k][2].kind = (IF get = "pair" THEN "string" ELSE get)
                /\ get = "pair" => Len(Said[k]) = 3 /\ Said[k][3].kind = "string"}
<1>1. DOMAIN Said = DOMAIN param
  BY SaidRead, Zenon
<1>2. ASSUME NEW k \in DOMAIN param
      PROVE  /\ param[k].key = Said[k][1].text[1]
             /\ param[k].value.kind = Said[k][2].kind
             /\ param[k].value_num = 2 <=> Len(Said[k]) = 3
             /\ Len(Said[k]) = 3 => param[k].second.kind = Said[k][3].kind
  <2>1. PICK line \in Seq(Token) : line = Said[k] /\ FromLine(param[k], line)
    BY EntryRead, Zenon
  <2>2. PICK n \in {2, 3} : n = Len(line) /\ param[k].value_num = n - 1
    BY <2>1, Zenon DEF FromLine
  <2>3. param[k].value_num = 2 <=> n = 3
    BY <2>2
  <2> QED
    BY <2>1, <2>2, <2>3, Zenon DEF FromLine, Stems
<1> QED
  BY <1>1, <1>2, Zenon DEF Held

\* What a getter returns of an entry is what the line means.
LEMMA ValuesMeant ==
    ASSUME ParamInv, loaded = "ok", NEW get \in {"dec", "hex", "string", "pair"}, NEW key,
           NEW k \in Held(get, key), NEW new,
           new = IF get \in {"dec", "hex"} THEN param ELSE Expanded(param, k, get = "pair")
    PROVE  /\ Settled(Said[k][2].text) => new[k].value = Meant(Said[k][2])
           /\ get = "pair" /\ Settled(Said[k][3].text) => new[k].second = Meant(Said[k][3])
<1>1. PICK line \in Seq(Token) : line = Said[k] /\ FromLine(param[k], line)
  BY EntryRead, Zenon DEF Held
<1>2. PICK e \in Param : e = param[k] /\ FromLine(e, line) /\ k # 0
  BY <1>1, EntryRead, PlaceFound, Zenon DEF Held, ParamInv
<1>3. line[2] \in Token /\ (Len(line) = 3 => line[3] \in Token)
  BY <1>2 DEF FromLine
<1>4. CASE get \in {"dec", "hex"}
  <2>1. new[k].value = line[2] /\ line[2].kind # "string"
    BY <1>2, <1>4, Zenon DEF Held, FromLine, Stems
  <2> QED
    BY <1>1, <1>4, <2>1, Zenon DEF Meant
<1>5. CASE get \in {"string", "pair"}
  <2>1. e.value \in Token /\ e.second \in Token /\ e.value.kind = "string"
    BY <1>2, <1>5, Zenon DEF Held, Param
  <2>2. PICK v \in Token : v = ExpandedToken(e.value)
    BY <2>1, ExpansionStems, Zenon
  <2>3. PICK s \in Token : s = IF get = "pair" THEN ExpandedToken(e.second) ELSE e.second
    BY <2>1, ExpansionStems, Zenon
  <2>4. new = [param EXCEPT ![k] = [e EXCEPT !.value = v, !.second = s]]
    BY <1>2, <1>5, <2>2, <2>3, Zenon DEF Expanded
  <2>5. new[k] = [e EXCEPT !.value = v, !.second = s]
    BY <2>4, Zenon DEF Held
  <2>6. new[k].value = v /\ new[k].second = s
    BY <2>5, Zenon DEF Param
  <2>7. Settled(line[2].text) => v = Meant(line[2])
    BY <1>2, <1>3, <2>1, <2>2, ExpansionStems, Zenon DEF FromLine
  <2>8. get = "pair" => (Settled(line[3].text) => s = Meant(line[3]))
    BY <1>2, <1>3, <2>1, <2>3, ExpansionStems DEF FromLine, Held
  <2> QED
    BY <1>1, <2>6, <2>7, <2>8, Zenon
<1> QED
  BY <1>4, <1>5, Zenon

\* An answer is what the file says.
LEMMA AskExact ==
    ASSUME ParamInv, NEW get \in {"dec", "hex", "string", "pair"}, NEW key, NEW nth,
           get # "pair" => nth = 0, Ask(get, key, nth)
    PROVE  ParamInv' /\ AnswersExact'
<1>1. PICK k : k = CASE get = "dec" -> FirstOf(key, "dec")
                     [] get = "hex" -> FirstOf(key, "hex")
                     [] get = "string" -> cpuemu_get_devcfg_string(key)
                     [] get = "pair" -> cpuemu_get_devcfg_string_pair_at(key, nth)
  BY Zenon
<1>2. PICK new : new = IF get \in {"dec", "hex"} THEN param ELSE Expanded(param, k, get = "pair")
  BY Zenon
<1>3. /\ loaded = "ok" /\ param' = new /\ UNCHANGED <<file, at, loaded>>
      /\ answer' = [get |-> get, key |-> key, nth |-> nth, found |-> k # 0,
                    values |-> IF k = 0 THEN <<>>
                               ELSE IF get = "pair" THEN <<new[k].value, new[k].second>>
                               ELSE <<new[k].value>>]
  BY <1>1, <1>2, Zenon DEF Ask
<1>4. PICK S : S = Held(get, key)
  BY Zenon
<1>5. /\ k = 0 => Place(S, nth) = {}
      /\ k # 0 => k \in S /\ Place(S, nth) = {k}
  <2>1. CASE get = "pair"
    BY <1>1, <1>4, <2>1, PairFinds, Zenon
  <2>2. CASE get # "pair"
    <3>1. k = FirstOf(key, get) /\ nth = 0
      BY <1>1, <2>2, Zenon DEF cpuemu_get_devcfg_string
    <3> QED
      BY <1>4, <2>2, <3>1, FirstOfFinds, Zenon
  <2> QED
    BY <2>1, <2>2, Zenon
<1>6. ParamInv'
  <2>1. CASE get \in {"dec", "hex"}
    BY <1>2, <1>3, <2>1, Zenon DEF ParamInv
  <2>2. CASE get = "string"
    BY <1>1, <1>2, <1>3, <2>2, StringKeeps, Zenon
  <2>3. CASE get = "pair"
    BY <1>1, <1>2, <1>3, <2>3, PairKeeps, Zenon
  <2> QED
    BY <2>1, <2>2, <2>3, Zenon
<1>7. Said' = Said
  BY <1>3, Zenon DEF Said
<1>8. S = {i \in DOMAIN Said :
             /\ Said[i][1].text[1] = key
             /\ Said[i][2].kind = (IF get = "pair" THEN "string" ELSE get)
             /\ get = "pair" => Len(Said[i]) = 3 /\ Said[i][3].kind = "string"}
  BY <1>3, <1>4, SameLines
<1>9. answer'.get = get /\ answer'.key = key /\ answer'.nth = nth /\ answer'.found = (k # 0)
  BY <1>3, Zenon
<1>10. ASSUME NEW i \in Place(S, nth), NEW v \in DOMAIN answer'.values,
              Settled(Said[i][v + 1].text)
       PROVE  answer'.values[v] = Meant(Said[i][v + 1])
  <2>1. i = k /\ k # 0 /\ k \in S
    BY <1>5, Zenon
  <2>2. CASE get = "pair"
    <3>1. answer'.values = <<new[k].value, new[k].second>>
      BY <1>3, <2>1, <2>2, Zenon
    <3>2. \/ v = 1 /\ v + 1 = 2 /\ answer'.values[v] = new[k].value
          \/ v = 2 /\ v + 1 = 3 /\ answer'.values[v] = new[k].second
      BY <3>1
    <3>3. /\ Settled(Said[k][2].text) => new[k].value = Meant(Said[k][2])
          /\ Settled(Said[k][3].text) => new[k].second = Meant(Said[k][3])
      BY <1>2, <1>3, <1>4, <2>1, <2>2, ValuesMeant, Zenon
    <3>4. CASE v = 1 /\ v + 1 = 2 /\ answer'.values[v] = new[k].value
      BY <1>10, <2>1, <3>3, <3>4, Zenon
    <3>5. CASE v = 2 /\ v + 1 = 3 /\ answer'.values[v] = new[k].second
      BY <1>10, <2>1, <3>3, <3>5, Zenon
    <3> QED
      BY <3>2, <3>4, <3>5, Zenon
  <2>3. CASE get # "pair"
    <3>1. answer'.values = <<new[k].value>>
      BY <1>3, <2>1, <2>3, Zenon
    <3>2. v = 1 /\ v + 1 = 2 /\ answer'.values[v] = new[k].value
      BY <3>1
    <3>3. Settled(Said[k][2].text) => new[k].value = Meant(Said[k][2])
      BY <1>2, <1>3, <1>4, <2>1, ValuesMeant, ZenonT(30)
    <3> QED
      BY <1>10, <2>1, <3>2, <3>3, Zenon
  <2> QED
    BY <2>2, <2>3, Zenon
<1>11. AnswersExact'
  <2> DEFINE kind == IF answer.get = "pair" THEN "string" ELSE answer.get
             lines == {i \in DOMAIN Said : /\ Said[i][1].text[1] = answer.key
                                           /\ Said[i][2].kind = kind
                                           /\ answer.get = "pair" =>
                                                 Len(Said[i]) = 3 /\ Said[i][3].kind = "string"}
             mine == {i \in lines : Cardinality({j \in lines : j < i}) = answer.nth}
  <2>1. lines' = S
    BY <1>7, <1>8, <1>9, Zenon
  <2>2. mine' = {i \in lines' : Cardinality({j \in lines' : j < i}) = answer'.nth}
    BY Zenon
  <2> HIDE DEF lines
  <2>3. mine' = Place(S, nth)
    BY <1>9, <2>1, <2>2, Zenon DEF Place
  <2> HIDE DEF mine
  <2>4. answer'.found <=> mine' # {}
    BY <1>5, <1>9, <2>3, Zenon
  <2>5. \A i \in mine' : \A v \in DOMAIN answer'.values :
           Settled(Said'[i][v + 1].text) => answer'.values[v] = Meant(Said'[i][v + 1])
    BY <1>7, <1>10, <2>3, Zenon
  <2> QED
    BY <2>4, <2>5, Zenon DEF AnswersExact, mine, lines
<1> QED
  BY <1>6, <1>11, Zenon


ConfigInv == ParamInv /\ AnswersExact

\* The other steps do not change an answer.
LEMMA SameAnswer == ASSUME AnswersExact, UNCHANGED <<file, answer>> PROVE AnswersExact'
<1>1. Said' = Said
  BY Zenon DEF Said
<1> DEFINE kind == IF answer.get = "pair" THEN "string" ELSE answer.get
           lines == {i \in DOMAIN Said : /\ Said[i][1].text[1] = answer.key
                                         /\ Said[i][2].kind = kind
                                         /\ answer.get = "pair" =>
                                               Len(Said[i]) = 3 /\ Said[i][3].kind = "string"}
           mine == {i \in lines : Cardinality({j \in lines : j < i}) = answer.nth}
<1>2. lines' = lines
  BY <1>1, Zenon
<1> HIDE DEF lines
<1>3. mine' = mine
  BY <1>2, Zenon
<1> HIDE DEF mine
<1>4. answer.get # "nothing" =>
         /\ answer.found <=> mine # {}
         /\ \A i \in mine : \A v \in DOMAIN answer.values :
               Settled(Said[i][v + 1].text) => answer.values[v] = Meant(Said[i][v + 1])
  BY Zenon DEF AnswersExact, mine, lines
<1>5. answer'.get # "nothing" =>
         /\ answer'.found <=> mine' # {}
         /\ \A i \in mine' : \A v \in DOMAIN answer'.values :
               Settled(Said'[i][v + 1].text) => answer'.values[v] = Meant(Said'[i][v + 1])
  BY <1>1, <1>3, <1>4, Zenon
<1> QED
  BY <1>5, Zenon DEF AnswersExact, mine, lines

LEMMA InitConfigInv == HostInit => ConfigInv
<1> SUFFICES ASSUME HostInit PROVE ConfigInv
  BY Zenon
<1>1. file \in Configs /\ at = 1 /\ param = <<>> /\ loaded = "loading" /\ answer = NoAnswer
  BY Zenon DEF HostInit, ConfigInit
<1>2. ParamInv
  BY <1>1, Lines DEF ParamInv
<1>3. AnswersExact
  BY <1>1, Zenon DEF AnswersExact, NoAnswer
<1> QED
  BY <1>2, <1>3, Zenon DEF ConfigInv

LEMMA StepConfigInv == ConfigInv /\ [HostNext]_hostVars => ConfigInv'
<1> SUFFICES ASSUME ConfigInv, [HostNext]_hostVars PROVE ConfigInv'
  BY Zenon
<1>0. ParamInv /\ AnswersExact
  BY Zenon DEF ConfigInv
<1>1. CASE LoadConfig
  <2>1. cpuemu_load_devcfg /\ UNCHANGED <<file, answer>>
    BY <1>1, Zenon DEF LoadConfig, cpuemu_load_devcfg
  <2> QED
    BY <1>0, <2>1, LineRead, SameAnswer, Zenon DEF ConfigInv
<1>2. CASE athrill_idle_spin_halt_init
  <2>1. /\ param' = Expanded(param, cpuemu_get_devcfg_string("DEVICE_CONFIG_IDLE_FUNCTION"), FALSE)
        /\ UNCHANGED <<file, at, loaded, answer>>
    BY <1>2, Zenon DEF athrill_idle_spin_halt_init
  <2> QED
    BY <1>0, <2>1, StringKeeps, SameAnswer, Zenon DEF ConfigInv
<1>3. CASE HostLibrary
  <2>1. UNCHANGED <<file, at, loaded, answer>>
    BY <1>3, Zenon DEF HostLibrary
  <2>2. \/ param' = Expanded(param, cpuemu_get_devcfg_string_pair_at(HostFunctionKey, 0), TRUE)
        \/ param' = Expanded(param,
                      cpuemu_get_devcfg_string("DEVICE_CONFIG_HOST_FUNCTION_LIBRARY"), FALSE)
    BY <1>3, Zenon DEF HostLibrary
  <2> QED
    BY <1>0, <2>1, <2>2, StringKeeps, PairKeeps, SameAnswer, Zenon DEF ConfigInv
<1>4. CASE HostMapping
  <2>1. UNCHANGED <<file, at, loaded, answer>>
    BY <1>4, Zenon DEF HostMapping
  <2>2. PICK k : k = cpuemu_get_devcfg_string_pair_at(HostFunctionKey, Len(host_functions))
    BY Zenon
  <2>3. param' = param \/ param' = Expanded(param, k, TRUE)
    BY <1>4, <2>2, Zenon DEF HostMapping
  <2>4. CASE param' = param
    BY <1>0, <2>1, <2>4, SameAnswer, Zenon DEF ConfigInv, ParamInv
  <2>5. CASE param' = Expanded(param, k, TRUE)
    BY <1>0, <2>1, <2>2, <2>5, PairKeeps, SameAnswer, Zenon DEF ConfigInv
  <2> QED
    BY <2>3, <2>4, <2>5, Zenon
<1>5. CASE \E get \in {"dec", "hex", "string", "pair"}, key \in Keys, nth \in 0 .. 1 :
              (get # "pair" => nth = 0) /\ Ask(get, key, nth)
  BY <1>0, <1>5, AskExact, Zenon DEF ConfigInv
<1>6. CASE UNCHANGED configVars
  <2>1. UNCHANGED <<file, at, param, loaded, answer>>
    BY <1>6, Zenon DEF configVars
  <2> QED
    BY <1>0, <2>1, SameAnswer, Zenon DEF ConfigInv, ParamInv
<1>7. CASE UNCHANGED hostVars
  BY <1>6, <1>7, Zenon DEF hostVars
<1>8. CASE IdleHalt \/ Interrupt \/ Invoke
           \/ \E next \in Pcs, selfBranch \in BOOLEAN : GuestInstruction(next, selfBranch)
  BY <1>6, <1>8, Zenon DEF IdleHalt, Interrupt, Invoke, GuestInstruction
<1>9. CASE \/ \E known \in BOOLEAN : host_call_arg(known)
           \/ host_call_set_result(1)
           \/ \E a \in 0 .. AddrMax + 1, size \in 0 .. 2 :
                 host_call_read(a, size) \/ \E v \in 0 .. 1 : host_call_write(a, size, v)
           \/ \E done \in BOOLEAN, ret \in Pcs : HostReturns(done, ret)
  BY <1>6, <1>9, Zenon
     DEF host_call_arg, host_call_set_result, host_call_read, host_call_write, HostReturns
<1> QED
  BY <1>1, <1>2, <1>3, <1>4, <1>5, <1>7, <1>8, <1>9, Zenon DEF HostNext

\* For every configuration, environment and order of lookups, a getter answers what the
\* file says (cpuemu_load_devcfg and the getters of cpuemu.cpp), also after the idle
\* function, the host library and its mappings have been looked up.
THEOREM AnswersAreExact == HostSpec => []AnswersExact
<1>1. HostSpec => []ConfigInv
  BY InitConfigInv, StepConfigInv, PTL DEF HostSpec
<1>2. ConfigInv => AnswersExact
  BY Zenon DEF ConfigInv
<1> QED
  BY <1>1, <1>2, PTL

-----------------------------------------------------------------------------
(* The calls of host functions.                                             *)

HostCallContext ==
    [state : {"none", "running", "refused"}, failed : BOOLEAN, result_set : BOOLEAN,
     result : Nat, accesses : Nat]

\* A call that runs has not touched the core, and remembers each failed access; memory and
\* cache agree as far as the cache goes.
CallInv ==
    /\ context \in HostCallContext
    /\ context.state \in {"running", "refused"} => <<pc, result>> = before
    /\ context.state = "running" => (bad => context.failed)
    /\ handled # "dirty"
    /\ CodeCoherent

\* An access of a host function that fails is remembered.
LEMMA AccessKept ==
    ASSUME context \in HostCallContext, NEW failed \in BOOLEAN
    PROVE  /\ CallAccess(failed) \in HostCallContext
           /\ CallAccess(failed).state = context.state
           /\ CallAccess(failed).failed <=> context.failed \/ failed
<1>1. PICK f \in BOOLEAN : f = (context.failed \/ failed)
  BY Zenon
<1>2. PICK n \in Nat : n = context.accesses + 1
  BY DEF HostCallContext
<1>3. [context EXCEPT !.failed = f, !.accesses = n] \in HostCallContext
  BY Zenon DEF HostCallContext
<1>4. CallAccess(failed).state = context.state
  BY Zenon DEF HostCallContext, CallAccess
<1>5. CallAccess(failed).failed <=> context.failed \/ failed
  BY Zenon DEF HostCallContext, CallAccess
<1>6. CallAccess(failed) \in HostCallContext
  BY <1>1, <1>2, <1>3, Zenon DEF CallAccess
<1> QED
  BY <1>4, <1>5, <1>6, Zenon

\* The core has not moved since the call, so an access keeps the invariant if the code
\* cache is still right.
LEMMA AccessSound ==
    ASSUME CallInv, InCall, NEW failed \in BOOLEAN, context' = CallAccess(failed),
           bad' = (bad \/ failed), UNCHANGED <<pc, result, handled, before>>, CodeCoherent'
    PROVE  CallInv'
<1>1. context' \in HostCallContext /\ context'.state = "running" /\ handled' # "dirty"
  BY AccessKept, Zenon DEF CallInv, InCall
<1>2. <<pc, result>>' = before'
  BY Zenon DEF CallInv, InCall
<1>3. bad' => context'.failed
  BY AccessKept, Zenon DEF CallInv, InCall
<1> QED
  BY <1>1, <1>2, <1>3, Zenon DEF CallInv

\* No host call runs at the start.
LEMMA InitCallInv == HostInit => CallInv
<1> SUFFICES ASSUME HostInit PROVE CallInv
  BY Zenon
<1>1. context = Idle /\ Idle \in HostCallContext /\ Idle.state = "none" /\ handled # "dirty"
  BY Zenon DEF HostInit, Idle, HostCallContext
<1>2. CodeCoherent
  BY Zenon DEF HostInit, CodeCoherent
<1> QED
  BY <1>1, <1>2, Zenon DEF CallInv

\* A step keeps the invariant of the host calls.
LEMMA StepCallInv == CallInv /\ [HostNext]_hostVars => CallInv'
<1> SUFFICES ASSUME CallInv, [HostNext]_hostVars PROVE CallInv'
  BY Zenon
<1>0. Idle \in HostCallContext /\ Idle.state = "none"
  BY Zenon DEF Idle, HostCallContext
<1>1. CASE UNCHANGED <<coreVars, context, ghosts>>
  BY <1>1, Zenon DEF coreVars, ghosts, CallInv, CodeCoherent
<1>2. CASE IdleHalt \/ Interrupt
  BY <1>2 DEF IdleHalt, Interrupt, ghosts, CallInv, CodeCoherent
<1>3. CASE Invoke
  <2>1. context' \in HostCallContext /\ context'.state = "running" /\ ~bad'
    BY <1>3, Zenon DEF Invoke, Idle, HostCallContext
  <2> QED
    BY <1>3, <2>1, Zenon DEF Invoke, coreVars, CallInv, CodeCoherent
<1>4. ASSUME NEW next, NEW selfBranch, GuestInstruction(next, selfBranch) PROVE CallInv'
  <2>1. CodeCoherent'
    BY <1>4, Zenon DEF GuestInstruction, CallInv, CodeCoherent
  <2> QED
    BY <1>0, <1>4, <2>1, Zenon DEF GuestInstruction, ghosts, CallInv
<1>5. ASSUME NEW known \in BOOLEAN, host_call_arg(known) PROVE CallInv'
  <2>1. CodeCoherent'
    BY <1>5, Zenon DEF host_call_arg, coreVars, CallInv, CodeCoherent
  <2> QED
    BY <1>5, <2>1, AccessSound, Zenon DEF host_call_arg, coreVars
<1>6. ASSUME host_call_set_result(1) PROVE CallInv'
  <2>1. PICK c : c = CallAccess(FALSE)
    BY Zenon
  <2>2. c \in HostCallContext /\ c.state = "running" /\ (c.failed <=> context.failed)
    BY <1>6, <2>1, AccessKept, Zenon DEF host_call_set_result, InCall, CallInv
  <2>3. context' = [c EXCEPT !.result_set = TRUE, !.result = 1]
    BY <1>6, <2>1, Zenon DEF host_call_set_result
  <2>4. context' \in HostCallContext /\ context'.state = "running"
    BY <2>2, <2>3, Zenon DEF HostCallContext
  <2>5. context'.failed <=> context.failed
    BY <2>2, <2>3, Zenon DEF HostCallContext
  <2> QED
    BY <1>6, <2>4, <2>5
   , Zenon DEF host_call_set_result, InCall, coreVars, ghosts, CallInv, CodeCoherent
<1>7. ASSUME NEW a, NEW size, host_call_read(a, size) PROVE CallInv'
  <2>1. PICK ok \in BOOLEAN : context' = CallAccess(~ok) /\ bad' = (bad \/ ~ok)
    BY <1>7, Zenon DEF host_call_read, checked_address, mpu_get_host_memory
  <2>2. CodeCoherent'
    BY <1>7, Zenon DEF host_call_read, coreVars, CallInv, CodeCoherent
  <2> QED
    BY <1>7, <2>1, <2>2, AccessSound, Zenon DEF host_call_read, coreVars
<1>8. ASSUME NEW a, NEW size, NEW v, host_call_write(a, size, v) PROVE CallInv'
  <2>1. PICK ok \in BOOLEAN :
           /\ context' = CallAccess(~ok) /\ bad' = (bad \/ ~ok)
           /\ mem' = [c \in Ram |-> IF ok /\ c \in a .. a + size - 1 THEN v ELSE mem[c]]
           /\ code' = [c \in Ram |-> IF ok /\ c \in a .. a + size - 1 THEN NotCached
                                     ELSE code[c]]
    BY <1>8, Zenon DEF host_call_write, checked_address, mpu_get_host_memory
  <2>2. CodeCoherent'
    BY <2>1, Zenon DEF CallInv, CodeCoherent
  <2> QED
    BY <1>8, <2>1, <2>2, AccessSound, Zenon DEF host_call_write
<1>9. ASSUME NEW done, NEW ret, HostReturns(done, ret) PROVE CallInv'
  <2>1. CodeCoherent'
    BY <1>9, Zenon DEF HostReturns, CallInv, CodeCoherent
  <2>2. CASE ~done \/ context.failed
    <3>1. context' = [Idle EXCEPT !.state = "refused"] /\ UNCHANGED <<pc, result, handled, before>>
      BY <1>9, <2>2, Zenon DEF HostReturns
    <3>2. context' \in HostCallContext /\ context'.state = "refused"
      BY <3>1, Zenon DEF Idle, HostCallContext
    <3> QED
      BY <1>9, <2>1, <3>1, <3>2, Zenon DEF HostReturns, CallInv
  <2>3. CASE ~(~done \/ context.failed)
    <3>1. context' = Idle /\ handled' = "clean"
      BY <1>9, <2>3, Zenon DEF HostReturns, CallInv
    <3> QED
      BY <1>0, <2>1, <3>1, Zenon DEF CallInv
  <2> QED
    BY <2>2, <2>3, Zenon
<1> QED
  <2>1. LoadConfig \/ athrill_idle_spin_halt_init \/ HostLibrary \/ HostMapping
           => UNCHANGED <<coreVars, context, ghosts>>
    BY Zenon DEF LoadConfig, athrill_idle_spin_halt_init, HostLibrary, HostMapping
  <2>2. UNCHANGED hostVars => UNCHANGED <<coreVars, context, ghosts>>
    BY Zenon DEF hostVars
  <2> QED
    BY <1>1, <1>2, <1>3, <1>4, <1>5, <1>6, <1>7, <1>8, <1>9, <2>1, <2>2, Zenon DEF HostNext

\* athrill_host_function_invoke: a call the host refuses or fails in leaves the core as it
\* was, a call counts as handled only if each access of it succeeded, and no write of a
\* host function leaves stale code behind, for every configuration, target and memory.
THEOREM HostCallsAreSound == HostSpec => []HostCallsSound
<1>1. CallInv => HostCallsSound
  BY Zenon DEF CallInv, HostCallsSound, HostCallsAllOrNothing
<1> QED
  BY <1>1, InitCallInv, StepCallInv, PTL DEF HostSpec

-----------------------------------------------------------------------------
(* Loops. A search is a function of the loop's state that is defined by      *)
(* recursion; that there is such a function, and what it computes, follows   *)
(* from a bound on the steps and from an invariant.                          *)

\* A loop over states S that ends where stop says, and whose steps next go down in m,
\* of which there are n at most.
Loop(S, stop, next, m, n) ==
    /\ n \in Nat /\ \A x \in S : m[x] \in 0 .. n
    /\ \A x \in S : ~stop[x] => next[x] \in S /\ m[next[x]] < m[x]

\* f is what the loop computes: the value val of the state it ends in.
Result(f, S, stop, val, next) == f = [x \in S |-> IF stop[x] THEN val[x] ELSE f[next[x]]]
ResultBelow(f, S, stop, val, next, m, n) ==
    \A x \in S : m[x] < n => f[x] = IF stop[x] THEN val[x] ELSE f[next[x]]

\* A loop of at most n steps computes a function of the state.
LEMMA LoopHasResult ==
    ASSUME NEW S, NEW stop, NEW val, NEW next, NEW m, NEW n, Loop(S, stop, next, m, n)
    PROVE  \E f : Result(f, S, stop, val, next)
<1> DEFINE Solved(k) == \E f : ResultBelow(f, S, stop, val, next, m, k) /\ f = [x \in S |-> f[x]]
           Bad == {k \in Nat : ~Solved(k)}
<1>1. Bad = {}
  <2> SUFFICES ASSUME Bad # {} PROVE FALSE
    BY Zenon
  <2>1. PICK k \in Bad : \A j \in Bad : k <= j
    BY LeastExists, Zenon
  <2>2. k # 0
    <3>1. PICK f : f = [x \in S |-> 0]
      BY Zenon
    <3>2. ResultBelow(f, S, stop, val, next, m, 0)
      BY DEF ResultBelow, Loop
    <3> QED
      BY <3>1, <3>2
  <2>3. k - 1 \in Nat /\ k - 1 \notin Bad
    BY <2>1, <2>2
  <2>4. PICK g : ResultBelow(g, S, stop, val, next, m, k - 1)
    BY <2>3, Zenon
  <2>5. PICK f : f = [x \in S |-> IF stop[x] THEN val[x] ELSE g[next[x]]]
    BY Zenon
  <2>6. ASSUME NEW x \in S, m[x] < k PROVE f[x] = IF stop[x] THEN val[x] ELSE f[next[x]]
    <3>1. CASE stop[x]
      BY <2>5, <3>1, Zenon
    <3>2. CASE ~stop[x]
      <4>1. PICK y : y = next[x] /\ y \in S /\ m[y] < m[x] /\ m[y] \in Nat /\ m[x] \in Nat
        BY <3>2 DEF Loop
      <4>2. m[y] < k - 1
        BY <2>3, <2>6, <4>1
      <4>3. g[y] = IF stop[y] THEN val[y] ELSE g[next[y]]
        BY <2>4, <4>1, <4>2, Zenon DEF ResultBelow
      <4>4. f[y] = IF stop[y] THEN val[y] ELSE g[next[y]]
        BY <2>5, <4>1, Zenon
      <4>5. f[x] = g[y]
        BY <2>5, <3>2, <4>1, Zenon
      <4> QED
        BY <3>2, <4>1, <4>3, <4>4, <4>5, Zenon
    <3> QED
      BY <3>1, <3>2, Zenon
  <2>7. ResultBelow(f, S, stop, val, next, m, k)
    BY <2>6, Zenon DEF ResultBelow
  <2> QED
    BY <2>1, <2>5, <2>7, ZenonT(30)
<1>2. PICK f : ResultBelow(f, S, stop, val, next, m, n + 1) /\ f = [x \in S |-> f[x]]
  <2>1. n + 1 \in Nat
    BY DEF Loop
  <2> QED
    BY <1>1, <2>1, Zenon
<1>3. \A x \in S : f[x] = IF stop[x] THEN val[x] ELSE f[next[x]]
  BY <1>2 DEF ResultBelow, Loop
<1> QED
  BY <1>2, <1>3, Zenon DEF Result

\* An invariant I of the loop, and what it promises of the value, G.
Invariant(I, G, stop, val, next) == \A x \in I : IF stop[x] THEN val[x] \in G ELSE next[x] \in I

\* What an invariant of the loop promises of the value holds of what the loop computes.
LEMMA LoopKeeps ==
    ASSUME NEW S, NEW stop, NEW val, NEW next, NEW m, NEW n, Loop(S, stop, next, m, n),
           NEW f, Result(f, S, stop, val, next), NEW G, NEW I \in SUBSET S,
           Invariant(I, G, stop, val, next)
    PROVE  \A x \in I : f[x] \in G
<1> DEFINE Bad == {x \in I : f[x] \notin G}
           Levels == {m[x] : x \in Bad}
<1> SUFFICES ASSUME Bad # {} PROVE FALSE
  BY Zenon
<1>1. Levels \in SUBSET Nat /\ Levels # {}
  BY DEF Loop
<1>2. PICK k \in Levels : \A j \in Levels : k <= j
  <2> HIDE DEF Levels
  <2> QED
    BY <1>1, LeastExists, Zenon
<1>3. PICK x \in Bad : m[x] = k
  BY <1>2, Zenon
<1>4. x \in S /\ f[x] = IF stop[x] THEN val[x] ELSE f[next[x]]
  BY <1>3, Zenon DEF Result
<1>5. ~stop[x]
  BY <1>3, <1>4, Zenon DEF Invariant
<1>6. next[x] \in Bad /\ m[next[x]] < m[x] /\ m[x] \in Nat /\ m[next[x]] \in Nat
  BY <1>3, <1>4, <1>5 DEF Loop, Invariant
<1> QED
  BY <1>2, <1>3, <1>6

-----------------------------------------------------------------------------
(* The two loops of symbol_index_find.                                      *)

\* The middle of a range that is not empty lies in it.
LEMMA Middle ==
    ASSUME NEW l \in Nat, NEW h \in Nat, l < h
    PROVE  l + ((h - l) \div 2) \in l .. h - 1
OBVIOUS

\* The binary search splits the symbols into those that start at or below the address
\* and those above it.
LEMMA BinarySearch ==
    ASSUME NEW table, NEW n \in Nat, Len(table) = n, DOMAIN table = 1 .. n, NEW index, NEW addr \in Nat,
           \A k \in 1 .. n : table[index.order[k]].addr \in Nat,
           \A j, k \in 1 .. n : j < k => table[index.order[j]].addr <= table[index.order[k]].addr
    PROVE  /\ StartsUpTo(index, table, addr) \in 0 .. n
           /\ \A k \in 1 .. n : table[index.order[k]].addr <= addr <=> k <= StartsUpTo(index, table, addr)
<1> DEFINE a == [k \in 1 .. n |-> table[index.order[k]].addr]
           S == (0 .. n) \X (0 .. n)
           mid(r) == r[1] + ((r[2] - r[1]) \div 2)
           stop == [r \in S |-> r[1] >= r[2]]
           val == [r \in S |-> r[1]]
           next == [r \in S |-> IF a[mid(r) + 1] <= addr THEN <<mid(r) + 1, r[2]>> ELSE <<r[1], mid(r)>>]
           m == [r \in S |-> IF r[1] >= r[2] THEN 0 ELSE r[2] - r[1]]
           low == CHOOSE f : f = [r \in S |->
                     IF r[1] >= r[2] THEN r[1]
                     ELSE IF table[index.order[mid(r) + 1]].addr <= addr THEN f[<<mid(r) + 1, r[2]>>]
                     ELSE f[<<r[1], mid(r)>>]]
           I == {r \in S : /\ r[1] <= r[2]
                           /\ \A k \in 1 .. r[1] : a[k] <= addr
                           /\ \A k \in r[2] + 1 .. n : a[k] > addr}
           G == {p \in 0 .. n : \A k \in 1 .. n : a[k] <= addr <=> k <= p}
<1>1. ASSUME NEW r \in S, ~(r[1] >= r[2])
      PROVE  /\ r[1] \in Nat /\ r[2] \in Nat /\ mid(r) \in r[1] .. r[2] - 1 /\ mid(r) + 1 \in 1 .. n
             /\ <<mid(r) + 1, r[2]>> \in S /\ <<r[1], mid(r)>> \in S
  <2>1. r[1] \in 0 .. n /\ r[2] \in 0 .. n /\ r[1] < r[2]
    BY <1>1
  <2>2. mid(r) \in r[1] .. r[2] - 1
    BY <2>1, Middle
  <2> HIDE DEF mid
  <2> QED
    BY <2>1, <2>2
<1>2. \A k \in 1 .. n : a[k] \in Nat /\ a[k] = table[index.order[k]].addr
  BY Zenon
<1>3. \A j, k \in 1 .. n : j < k => a[j] <= a[k]
  BY Zenon
<1> HIDE DEF a, mid
<1>4. Loop(S, stop, next, m, n)
  <2>1. ASSUME NEW r \in S PROVE m[r] \in 0 .. n
    OBVIOUS
  <2>2. ASSUME NEW r \in S, ~stop[r] PROVE next[r] \in S /\ m[next[r]] < m[r]
    <3>1. ~(r[1] >= r[2])
      BY <2>2, Zenon
    <3>2. CASE a[mid(r) + 1] <= addr
      <4>1. next[r] = <<mid(r) + 1, r[2]>> /\ next[r] \in S
        BY <1>1, <3>1, <3>2, Zenon
      <4> QED
        BY <1>1, <3>1, <4>1
    <3>3. CASE ~(a[mid(r) + 1] <= addr)
      <4>1. next[r] = <<r[1], mid(r)>> /\ next[r] \in S
        BY <1>1, <3>1, <3>3, Zenon
      <4> QED
        BY <1>1, <3>1, <4>1
    <3> QED
      BY <3>2, <3>3, Zenon
  <2> HIDE DEF S, stop, next, m
  <2> QED
    BY <2>1, <2>2, Zenon DEF Loop
<1>6. ASSUME NEW f
      PROVE  Result(f, S, stop, val, next) <=>
             f = [r \in S |->
                     IF r[1] >= r[2] THEN r[1]
                     ELSE IF table[index.order[mid(r) + 1]].addr <= addr THEN f[<<mid(r) + 1, r[2]>>]
                     ELSE f[<<r[1], mid(r)>>]]
  <2>1. ASSUME NEW r \in S
        PROVE  (IF stop[r] THEN val[r] ELSE f[next[r]]) =
               IF r[1] >= r[2] THEN r[1]
               ELSE IF table[index.order[mid(r) + 1]].addr <= addr THEN f[<<mid(r) + 1, r[2]>>]
               ELSE f[<<r[1], mid(r)>>]
    <3>1. CASE r[1] >= r[2]
      BY <3>1, Zenon
    <3>2. CASE ~(r[1] >= r[2])
      <4>1. a[mid(r) + 1] = table[index.order[mid(r) + 1]].addr
        BY <1>1, <1>2, <3>2, Zenon
      <4> QED
        BY <3>2, <4>1, Zenon
    <3> QED
      BY <3>1, <3>2, Zenon
  <2> HIDE DEF S, stop, val, next
  <2> QED
    BY <2>1, Zenon DEF Result
<1>7. Result(low, S, stop, val, next)
  <2>1. \E f : Result(f, S, stop, val, next)
    <3> HIDE DEF S, stop, val, next, m
    <3> QED
      BY <1>4, LoopHasResult, Zenon
  <2>2. PICK f : f = [r \in S |->
                     IF r[1] >= r[2] THEN r[1]
                     ELSE IF table[index.order[mid(r) + 1]].addr <= addr THEN f[<<mid(r) + 1, r[2]>>]
                     ELSE f[<<r[1], mid(r)>>]]
    BY <1>6, <2>1, Zenon
  <2>3. low = [r \in S |->
                     IF r[1] >= r[2] THEN r[1]
                     ELSE IF table[index.order[mid(r) + 1]].addr <= addr THEN low[<<mid(r) + 1, r[2]>>]
                     ELSE low[<<r[1], mid(r)>>]]
    <3> HIDE DEF S
    <3> QED
      BY <2>2, Zenon
  <2> HIDE DEF low
  <2> QED
    BY <1>6, <2>3, Zenon
<1>8. StartsUpTo(index, table, addr) = low[<<0, n>>]
  BY Zenon DEF StartsUpTo, mid
<1>9. Invariant(I, G, stop, val, next)
  <2> SUFFICES ASSUME NEW r \in I PROVE IF stop[r] THEN val[r] \in G ELSE next[r] \in I
    BY Zenon DEF Invariant
  <2>1. PICK l, h : l = r[1] /\ h = r[2] /\ l \in 0 .. n /\ h \in 0 .. n /\ r \in S
    BY Zenon
  <2>4. l <= h /\ (\A k \in 1 .. l : a[k] <= addr) /\ (\A k \in h + 1 .. n : a[k] > addr)
    BY <2>1, Zenon
  <2>2. CASE r[1] >= r[2]
    <3>1. l = h
      BY <2>1, <2>2, <2>4
    <3>2. l \in G
      BY <1>2, <2>1, <2>4, <3>1
    <3> QED
      BY <2>1, <2>2, <3>2, Zenon
  <2>3. CASE ~(r[1] >= r[2])
    <3>3. PICK c : c = mid(r) /\ c \in l .. h - 1 /\ c + 1 \in 1 .. n
      BY <1>1, <2>1, <2>3, Zenon
    <3>1. CASE a[c + 1] <= addr
      <4>1. next[r] = <<c + 1, h>> /\ next[r] \in S
        BY <1>1, <2>1, <2>3, <3>1, <3>3, Zenon
      <4>2. ASSUME NEW k \in 1 .. c + 1 PROVE a[k] <= addr
        <5>1. PICK d \in 1 .. n : d = c + 1 /\ k \in 1 .. n /\ k <= d /\ a[d] <= addr
          BY <2>1, <3>1, <3>3
        <5>2. a[k] \in Nat /\ a[d] \in Nat /\ (k < d => a[k] <= a[d])
          BY <1>2, <1>3, <5>1, Zenon
        <5> QED
          BY <5>1, <5>2
      <4>3. <<c + 1, h>> \in I
        <5>1. PICK q \in S : q = <<c + 1, h>> /\ q[1] = c + 1 /\ q[2] = h
          BY <4>1, Zenon
        <5>2. c + 1 <= h
          BY <2>1, <3>3
        <5> QED
          BY <2>4, <4>2, <5>1, <5>2, Zenon
      <4> QED
        BY <2>1, <2>3, <4>1, <4>3, Zenon
    <3>2. CASE ~(a[c + 1] <= addr)
      <4>1. next[r] = <<l, c>> /\ next[r] \in S
        BY <1>1, <2>1, <2>3, <3>2, <3>3, Zenon
      <4>2. ASSUME NEW k \in c + 1 .. n PROVE a[k] > addr
        <5>1. PICK d \in 1 .. n : d = c + 1 /\ k \in 1 .. n /\ d <= k /\ ~(a[d] <= addr)
          BY <2>1, <3>2, <3>3
        <5>2. a[k] \in Nat /\ a[d] \in Nat /\ (d < k => a[d] <= a[k])
          BY <1>2, <1>3, <5>1, Zenon
        <5> QED
          BY <5>1, <5>2
      <4>3. <<l, c>> \in I
        <5>1. PICK q \in S : q = <<l, c>> /\ q[1] = l /\ q[2] = c
          BY <4>1, Zenon
        <5>2. l <= c
          BY <2>1, <3>3
        <5> QED
          BY <2>4, <4>2, <5>1, <5>2, Zenon
      <4> QED
        BY <2>1, <2>3, <4>1, <4>3, Zenon
    <3> QED
      BY <3>1, <3>2, Zenon
  <2> QED
    BY <2>2, <2>3, Zenon
<1>10. <<0, n>> \in I
  OBVIOUS
<1>11. low[<<0, n>>] \in G
  <2>1. I \in SUBSET S
    BY Zenon
  <2> HIDE DEF I, S, G, stop, val, next, m, low
  <2> QED
    BY <1>4, <1>7, <1>9, <1>10, <2>1, LoopKeeps, Zenon
<1> QED
  <2> HIDE DEF low
  <2> QED
    BY <1>2, <1>8, <1>11, Zenon

\* b is the best answer among the positions K of the order: the lowest id whose end is
\* above the address, or None.
Best(b, K, index, table, addr) ==
    /\ b # None => \E k \in K : index.order[k] = b /\ addr < EndOf(table[b])
    /\ \A k \in K : addr < EndOf(table[index.order[k]]) => b # None /\ b <= index.order[k]

\* What the scan needs of the index: ids, and a max_end that no earlier end exceeds.
Scannable(index, table, n) ==
    \A k \in 1 .. n : /\ index.order[k] \in 1 .. n /\ EndOf(table[index.order[k]]) \in Nat
                      /\ index.max_end[k] \in Nat
                      /\ \A j \in 1 .. k : EndOf(table[index.order[j]]) <= index.max_end[k]

\* The backward scan finds the best answer of the positions up to the one it starts
\* from, wherever max_end ends it.
LEMMA BackwardScan ==
    ASSUME NEW table, NEW n \in Nat, Len(table) = n, NEW index, NEW addr \in Nat,
           Scannable(index, table, n), NEW from \in 0 .. n
    PROVE  /\ ScanBack(index, table, addr, from) \in 0 .. n
           /\ Best(ScanBack(index, table, addr, from), 1 .. from, index, table, addr)
<1> DEFINE o == [k \in 1 .. n |-> index.order[k]]
           e == [k \in 1 .. n |-> EndOf(table[index.order[k]])]
           top == [k \in 1 .. n |-> index.max_end[k]]
           S == (0 .. from) \X (0 .. n)
           found(r) == IF addr < e[r[1]] /\ (r[2] = None \/ o[r[1]] < r[2]) THEN o[r[1]] ELSE r[2]
           stop == [r \in S |-> r[1] = 0 \/ index.max_end[r[1]] <= addr]
           val == [r \in S |-> r[2]]
           next == [r \in S |-> <<r[1] - 1, found(r)>>]
           m == [r \in S |-> r[1]]
           body(f, r) == IF r[1] = 0 \/ index.max_end[r[1]] <= addr THEN r[2]
                         ELSE f[<<r[1] - 1, IF addr < EndOf(table[index.order[r[1]]])
                                               /\ (r[2] = None \/ index.order[r[1]] < r[2])
                                            THEN index.order[r[1]] ELSE r[2]>>]
           scan == CHOOSE f : f = [r \in S |-> body(f, r)]
           Good(b, k) == /\ b # 0 => \E j \in k + 1 .. from : o[j] = b /\ addr < e[j]
                         /\ \A j \in k + 1 .. from : addr < e[j] => b # 0 /\ b <= o[j]
           I == {r \in S : Good(r[2], r[1])}
           G == {b \in 0 .. n : Good(b, 0)}
<1>1. \A k \in 1 .. n : /\ o[k] \in 1 .. n /\ e[k] \in Nat /\ top[k] \in Nat
                        /\ o[k] = index.order[k] /\ e[k] = EndOf(table[index.order[k]])
                        /\ top[k] = index.max_end[k] /\ \A j \in 1 .. k : e[j] <= top[k]
  BY DEF Scannable
<1> HIDE DEF o, e, top
<1>2. ASSUME NEW r \in S, r[1] # 0
      PROVE  /\ r[1] \in 1 .. n /\ found(r) \in 0 .. n /\ <<r[1] - 1, found(r)>> \in S
  <2>1. r[1] \in 1 .. n /\ r[1] \in 1 .. from /\ r[2] \in 0 .. n
    BY <1>2
  <2>2. found(r) \in 0 .. n
    BY <1>1, <2>1
  <2> HIDE DEF found
  <2> QED
    BY <2>1, <2>2
<1>3. Loop(S, stop, next, m, from)
  <2>1. ASSUME NEW r \in S PROVE m[r] \in 0 .. from
    BY Zenon
  <2>2. ASSUME NEW r \in S, ~stop[r] PROVE next[r] \in S /\ m[next[r]] < m[r]
    <3>1. r[1] # 0 /\ r[1] \in 0 .. from
      BY <2>2, Zenon
    <3>2. PICK y : y = found(r)
      BY Zenon
    <3>3. next[r] = <<r[1] - 1, y>> /\ <<r[1] - 1, y>> \in S
      BY <1>2, <3>1, <3>2, Zenon
    <3> HIDE DEF found
    <3> QED
      BY <3>1, <3>3
  <2>3. from \in Nat
    OBVIOUS
  <2> HIDE DEF S, stop, next, m
  <2> QED
    BY <2>1, <2>2, <2>3, Zenon DEF Loop
<1>4. ASSUME NEW f
      PROVE  Result(f, S, stop, val, next) <=> f = [r \in S |-> body(f, r)]
  <2>1. ASSUME NEW r \in S PROVE (IF stop[r] THEN val[r] ELSE f[next[r]]) = body(f, r)
    <3>1. CASE r[1] = 0 \/ index.max_end[r[1]] <= addr
      BY <3>1, Zenon
    <3>2. CASE ~(r[1] = 0 \/ index.max_end[r[1]] <= addr)
      <4>1. o[r[1]] = index.order[r[1]] /\ e[r[1]] = EndOf(table[index.order[r[1]]])
        BY <1>1, <1>2, <3>2, Zenon
      <4>2. found(r) = IF addr < EndOf(table[index.order[r[1]]])
                          /\ (r[2] = None \/ index.order[r[1]] < r[2])
                       THEN index.order[r[1]] ELSE r[2]
        BY <4>1, Zenon
      <4>3. next[r] = <<r[1] - 1, found(r)>> /\ ~stop[r]
        BY <3>2, Zenon
      <4>4. body(f, r) = f[<<r[1] - 1, found(r)>>]
        BY <3>2, <4>2, Zenon
      <4> QED
        BY <4>3, <4>4, Zenon
    <3> QED
      BY <3>1, <3>2, Zenon
  <2> HIDE DEF S, stop, val, next, body
  <2> QED
    BY <2>1, Zenon DEF Result
<1>5. Result(scan, S, stop, val, next)
  <2>1. \E f : Result(f, S, stop, val, next)
    <3> HIDE DEF S, stop, val, next, m
    <3> QED
      BY <1>3, LoopHasResult, Zenon
  <2>2. \E f : f = [r \in S |-> body(f, r)]
    <3> HIDE DEF S, stop, val, next, body
    <3> QED
      BY <1>4, <2>1, Zenon
  <2>3. scan = [r \in S |-> body(scan, r)]
    <3> HIDE DEF S, body
    <3> QED
      BY <2>2, Zenon
  <2> HIDE DEF scan, body
  <2> QED
    BY <1>4, <2>3, Zenon
<1>6. ScanBack(index, table, addr, from) = scan[<<from, None>>]
  BY Zenon DEF ScanBack
<1>7. Invariant(I, G, stop, val, next)
  <2> SUFFICES ASSUME NEW r \in I PROVE IF stop[r] THEN val[r] \in G ELSE next[r] \in I
    BY Zenon DEF Invariant
  <2>1. PICK k, b : k = r[1] /\ b = r[2] /\ k \in 0 .. from /\ b \in 0 .. n /\ r \in S
    BY Zenon
  <2>2. Good(b, k)
    BY <2>1, Zenon
  <2>3. CASE k = 0
    <3>1. b \in G
      BY <2>1, <2>2, <2>3, Zenon
    <3> QED
      BY <2>1, <2>3, <3>1, Zenon
  <2>4. CASE k # 0 /\ top[k] <= addr
    <3>1. \A j \in 1 .. k : ~(addr < e[j])
      BY <1>1, <2>1, <2>4
    <3>2. Good(b, 0)
      BY <2>1, <2>2, <2>4, <3>1
    <3>3. stop[r] /\ val[r] = b
      <4>1. index.max_end[r[1]] <= addr
        BY <1>1, <2>1, <2>4
      <4> QED
        BY <2>1, <4>1, Zenon
    <3> QED
      BY <2>1, <3>2, <3>3, Zenon
  <2>5. CASE k # 0 /\ ~(top[k] <= addr)
    <3>1. PICK y : y = found(r)
      BY Zenon
    <3>2. next[r] = <<k - 1, y>> /\ ~stop[r] /\ y \in 0 .. n /\ k \in 1 .. n
      BY <1>1, <1>2, <2>1, <2>5, <3>1, Zenon
    <3>3. y = IF addr < e[k] /\ (b = 0 \/ o[k] < b) THEN o[k] ELSE b
      BY <2>1, <3>1, Zenon DEF None
    <3>4. o[k] \in 1 .. n /\ e[k] \in Nat
      BY <1>1, <3>2, Zenon
    <3>5. Good(y, k - 1)
      <4>1. ASSUME y # 0 PROVE \E j \in (k - 1) + 1 .. from : o[j] = y /\ addr < e[j]
        BY <2>1, <2>2, <3>2, <3>3, <3>4, <4>1, SMTT(30)
      <4>2. ASSUME NEW j \in (k - 1) + 1 .. from, addr < e[j] PROVE y # 0 /\ y <= o[j]
        <5>1. o[j] \in 1 .. n
          <6>1. j \in 1 .. n
            BY <2>1, <3>2
          <6> QED
            BY <1>1, <6>1, Zenon
        <5>2. CASE j = k
          BY <2>1, <3>2, <3>3, <3>4, <4>2, <5>2, SMTT(30)
        <5>3. CASE j # k
          <6>1. b # 0 /\ b <= o[j]
            BY <2>1, <2>2, <3>2, <4>2, <5>3
          <6> QED
            <7>1. CASE addr < e[k] /\ (b = 0 \/ o[k] < b)
              <8>1. y = o[k]
                BY <3>3, <7>1, Zenon
              <8>2. b # 0 /\ o[k] < b
                BY <6>1, <7>1, Zenon
              <8> QED
                BY <2>1, <3>4, <5>1, <6>1, <8>1, <8>2
            <7>2. CASE ~(addr < e[k] /\ (b = 0 \/ o[k] < b))
              BY <3>3, <6>1, <7>2, Zenon
            <7> QED
              BY <7>1, <7>2, Zenon
        <5> QED
          BY <5>2, <5>3, Zenon
      <4> QED
        BY <4>1, <4>2, Zenon
    <3>6. <<k - 1, y>> \in I
      <4> HIDE DEF Good
      <4> QED
        BY <2>1, <3>2, <3>5
    <3> QED
      BY <3>2, <3>6, Zenon
  <2> QED
    BY <1>1, <2>1, <2>3, <2>4, <2>5, Zenon
<1>8. <<from, None>> \in I
  BY DEF None
<1>9. scan[<<from, None>>] \in G
  <2>1. I \in SUBSET S
    BY Zenon
  <2> HIDE DEF I, S, G, stop, val, next, m, scan
  <2> QED
    BY <1>3, <1>5, <1>7, <1>8, <2>1, LoopKeeps, Zenon
<1> QED
  <2>1. PICK b : b = ScanBack(index, table, addr, from) /\ b \in 0 .. n /\ Good(b, 0)
    <3> HIDE DEF scan, Good
    <3> QED
      BY <1>6, <1>9, Zenon
  <2>2. Best(b, 1 .. from, index, table, addr)
    <3>1. ASSUME b # None PROVE \E k \in 1 .. from : index.order[k] = b /\ addr < EndOf(table[b])
      <4>1. PICK j \in 1 .. from : o[j] = b /\ addr < e[j]
        BY <2>1, <3>1 DEF None
      <4>2. o[j] = index.order[j] /\ e[j] = EndOf(table[index.order[j]])
        BY <1>1
      <4> QED
        BY <4>1, <4>2, Zenon
    <3>2. ASSUME NEW k \in 1 .. from, addr < EndOf(table[index.order[k]])
          PROVE  b # None /\ b <= index.order[k]
      <4>1. o[k] = index.order[k] /\ e[k] = EndOf(table[index.order[k]])
        BY <1>1
      <4>2. addr < e[k]
        BY <3>2, <4>1, Zenon
      <4>3. b # 0 /\ b <= o[k]
        BY <2>1, <4>2
      <4> QED
        BY <4>1, <4>3, Zenon DEF None
    <3> QED
      BY <3>1, <3>2, Zenon DEF Best
  <2> QED
    BY <2>1, <2>2, Zenon

-----------------------------------------------------------------------------
(* symbol_index_build.                                                      *)

\* A bounded set of numbers that is not empty has a greatest one.
LEMMA Greatest ==
    ASSUME NEW S \in SUBSET Nat, S # {}, NEW b \in Nat, \A x \in S : x <= b
    PROVE  Max(S) \in S /\ \A x \in S : x <= Max(S)
<1> DEFINE U == {u \in Nat : \A x \in S : x <= u}
<1>1. PICK u \in U : \A v \in U : u <= v
  <2>1. U \in SUBSET Nat /\ U # {}
    BY Zenon
  <2> HIDE DEF U
  <2> QED
    BY <2>1, LeastExists, Zenon
<1>2. u \in S
  <2> SUFFICES ASSUME u \notin S PROVE FALSE
    BY Zenon
  <2>1. u # 0 /\ u - 1 \in Nat
    <3>1. PICK x : x \in S /\ x \in Nat
      BY Zenon
    <3>2. x <= u /\ x # u /\ u \in Nat
      BY <1>1, <3>1, Zenon
    <3> QED
      BY <3>1, <3>2
  <2>2. u - 1 \in U
    BY <1>1, <2>1
  <2> QED
    BY <1>1, <2>1, <2>2
<1>3. \A x \in S : u >= x
  BY <1>1, Zenon
<1> QED
  BY <1>2, <1>3, Zenon DEF Max

\* The order of the first k symbols: every id of them, sorted.
SortedUpTo(f, k, table) ==
    /\ f \in [1 .. k -> 1 .. k]
    /\ \A id \in 1 .. k : \E j \in 1 .. k : f[j] = id
    /\ \A i, j \in 1 .. k : i < j => symbol_compare_start(table, f[i], f[j])

\* An order of k symbols becomes one of k + 1 when the new symbol is put before the
\* first that is above it.
LEMMA Inserted ==
    ASSUME NEW table, NEW n \in Nat, \A id \in 1 .. n : table[id].addr \in Nat,
           NEW k \in 0 .. n - 1, NEW f, SortedUpTo(f, k, table)
    PROVE  \E g : SortedUpTo(g, k + 1, table)
<1> DEFINE lt(a, b) == symbol_compare_start(table, a, b)
           P == {q \in 1 .. k + 1 : q = k + 1 \/ lt(k + 1, f[q])}
<1>1. PICK p \in P : \A q \in P : p <= q
  <2>1. k + 1 \in P /\ \A q \in P : q \in Nat
    OBVIOUS
  <2> HIDE DEF P
  <2> QED
    BY <2>1, LeastExists, Zenon
<1>2. PICK g : g = [q \in 1 .. k + 1 |-> IF q < p THEN f[q] ELSE IF q = p THEN k + 1 ELSE f[q - 1]]
  BY Zenon
<1>3. p \in 1 .. k + 1 /\ \A q \in 1 .. k : f[q] \in 1 .. k
  BY <1>1, Zenon DEF SortedUpTo
<1>4. \A a, b \in 1 .. k + 1 : a # b => lt(a, b) \/ lt(b, a)
  BY DEF symbol_compare_start
<1>5. \A a, b, c \in 1 .. k + 1 : lt(a, b) /\ lt(b, c) => lt(a, c)
  BY DEF symbol_compare_start
<1> HIDE DEF lt
<1>6. \A q \in 1 .. k : q < p => lt(f[q], k + 1)
  <2> SUFFICES ASSUME NEW q \in 1 .. k, q < p PROVE lt(f[q], k + 1)
    BY Zenon
  <2>1. ~lt(k + 1, f[q])
    BY <1>1, <1>3
  <2>2. f[q] \in 1 .. k + 1 /\ f[q] # k + 1 /\ k + 1 \in 1 .. k + 1
    BY <1>3
  <2> QED
    BY <1>4, <2>1, <2>2, Zenon
<1>7. \A i, j \in 1 .. k : i < j => lt(f[i], f[j])
  BY Zenon DEF SortedUpTo, lt
<1>8. \A q \in 1 .. k : p <= q => lt(k + 1, f[q])
  <2> SUFFICES ASSUME NEW q \in 1 .. k, p <= q PROVE lt(k + 1, f[q])
    BY Zenon
  <2>1. lt(k + 1, f[p]) /\ p \in 1 .. k
    BY <1>1, <1>3
  <2>2. f[p] \in 1 .. k + 1 /\ f[q] \in 1 .. k + 1 /\ k + 1 \in 1 .. k + 1
    BY <1>3, <2>1
  <2> QED
    BY <1>5, <1>7, <2>1, <2>2
<1>9. g \in [1 .. k + 1 -> 1 .. k + 1]
  <2> SUFFICES ASSUME NEW q \in 1 .. k + 1
               PROVE (IF q < p THEN f[q] ELSE IF q = p THEN k + 1 ELSE f[q - 1]) \in 1 .. k + 1
    BY <1>2, Zenon
  <2> QED
    BY <1>3
<1>10. ASSUME NEW id \in 1 .. k + 1 PROVE \E j \in 1 .. k + 1 : g[j] = id
  <2>1. CASE id = k + 1
    BY <1>2, <1>3, <2>1
  <2>2. CASE id # k + 1
    <3>1. PICK j \in 1 .. k : f[j] = id
      BY <2>2 DEF SortedUpTo
    <3>2. CASE j < p
      BY <1>2, <1>3, <3>1, <3>2
    <3>3. CASE ~(j < p)
      <4>1. PICK q \in 1 .. k + 1 : q = j + 1 /\ ~(q < p) /\ q # p
        BY <1>3, <3>3
      <4>2. g[q] = f[q - 1] /\ q - 1 = j
        BY <1>2, <4>1
      <4> QED
        BY <3>1, <4>2, Zenon
    <3> QED
      BY <3>2, <3>3, Zenon
  <2> QED
    BY <2>1, <2>2, Zenon
<1>11. ASSUME NEW i \in 1 .. k + 1, NEW j \in 1 .. k + 1, i < j PROVE lt(g[i], g[j])
  <2>1. CASE j < p
    BY <1>2, <1>3, <1>7, <1>11, <2>1, SMTT(30)
  <2>2. CASE j = p
    BY <1>2, <1>3, <1>6, <1>11, <2>2
  <2>3. CASE j > p
    <3>1. g[j] = f[j - 1] /\ j - 1 \in 1 .. k
      BY <1>2, <1>3, <2>3
    <3>2. CASE i < p
      BY <1>2, <1>3, <1>7, <1>11, <2>3, <3>1, <3>2, SMTT(30)
    <3>3. CASE i = p
      BY <1>2, <1>3, <1>8, <1>11, <2>3, <3>1, <3>3, SMTT(30)
    <3>4. CASE i > p
      <4>1. g[i] = f[i - 1] /\ i - 1 \in 1 .. k
        BY <1>2, <1>3, <1>11, <3>4
      <4> QED
        BY <1>7, <1>11, <3>1, <4>1, SMTT(30)
    <3> QED
      BY <1>3, <3>2, <3>3, <3>4
  <2> QED
    BY <1>3, <2>1, <2>2, <2>3
<1> QED
  BY <1>9, <1>10, <1>11, Zenon DEF SortedUpTo, lt

\* Every table of symbols can be sorted, and qsort sorts it.
LEMMA QsortSorts ==
    ASSUME NEW table, NEW n \in Nat, DOMAIN table = 1 .. n, \A id \in 1 .. n : table[id].addr \in Nat
    PROVE  qsort(table) \in [1 .. n -> 1 .. n] /\ Sorts(qsort(table), table)
<1> DEFINE Bad == {k \in 0 .. n : ~\E f : SortedUpTo(f, k, table)}
<1>1. Bad = {}
  <2> SUFFICES ASSUME Bad # {} PROVE FALSE
    BY Zenon
  <2>1. PICK k \in Bad : \A j \in Bad : k <= j
    <3>1. Bad \in SUBSET Nat
      OBVIOUS
    <3> HIDE DEF Bad
    <3> QED
      BY <3>1, LeastExists, Zenon
  <2>2. k # 0
    <3>1. SortedUpTo([q \in 1 .. 0 |-> q], 0, table)
      BY DEF SortedUpTo
    <3> QED
      BY <3>1, Zenon
  <2>3. PICK j \in 0 .. n - 1 : k = j + 1
    BY <2>1, <2>2
  <2>4. PICK f : SortedUpTo(f, j, table)
    BY <2>1, <2>3, SMTT(30)
  <2>5. \E g : SortedUpTo(g, j + 1, table)
    BY <2>4, Inserted, Zenon
  <2> QED
    BY <2>1, <2>3, <2>5, Zenon
<1>2. PICK f : SortedUpTo(f, n, table)
  BY <1>1
<1>3. f \in [DOMAIN table -> DOMAIN table] /\ Sorts(f, table)
  BY <1>2, Zenon DEF SortedUpTo, Sorts
<1> QED
  BY <1>3, Zenon DEF qsort

\* What a table may hold: symbols that end below the top of the addresses.
TableTyped(table, n) ==
    /\ n \in Nat /\ Len(table) = n /\ DOMAIN table = 1 .. n
    /\ \A id \in 1 .. n : /\ table[id].addr \in Nat /\ table[id].size \in Nat
                          /\ table[id].addr + table[id].size < AddrTop

\* An index that is not older than the table: every id in the order of the starts, and
\* a max_end that no earlier end exceeds.
Indexed(table, index, n) ==
    /\ \A id \in 1 .. n : \E k \in 1 .. n : index.order[k] = id
    /\ \A k \in 1 .. n : index.order[k] \in 1 .. n
    /\ \A j, k \in 1 .. n : j < k => table[index.order[j]].addr <= table[index.order[k]].addr
    /\ Scannable(index, table, n)

\* A number below the modulus is its own remainder.
LEMMA SmallRemainder ==
    ASSUME NEW e \in Nat, NEW top \in Nat, e < top
    PROVE  e % top = e
OBVIOUS

\* The end of a symbol that ends below the top.
LEMMA Ends ==
    ASSUME NEW table, NEW n, TableTyped(table, n), AddrTop \in Nat, NEW id \in 1 .. n
    PROVE  /\ EndOf(table[id]) = table[id].addr + table[id].size
           /\ EndOf(table[id]) \in Nat /\ EndOf(table[id]) < AddrTop
<1>1. PICK a, z : a = table[id].addr /\ z = table[id].size /\ a \in Nat /\ z \in Nat /\ a + z < AddrTop
  BY Zenon DEF TableTyped
<1>2. (a + z) % AddrTop = a + z
  <2>1. PICK e \in Nat : e = a + z /\ e < AddrTop
    BY <1>1
  <2>2. e % AddrTop = e
    BY <2>1, SmallRemainder, Zenon
  <2> QED
    BY <2>1, <2>2, Zenon
<1> QED
  BY <1>1, <1>2 DEF EndOf

\* symbol_index_build gives such an index.
LEMMA BuildIndexes ==
    ASSUME NEW table, NEW n, TableTyped(table, n), AddrTop \in Nat
    PROVE  /\ Indexed(table, symbol_index_build(table), n)
           /\ Len(symbol_index_build(table).order) = n
<1> DEFINE order == qsort(table)
           ends(k) == {0} \cup {EndOf(table[order[j]]) : j \in 1 .. k}
           index == symbol_index_build(table)
<1>1. order \in [1 .. n -> 1 .. n] /\ Sorts(order, table)
  BY QsortSorts, Zenon DEF TableTyped
<1>2. index.order = order /\ \A k \in 1 .. n : index.max_end[k] = Max(ends(k))
  BY Zenon DEF symbol_index_build, TableTyped
<1>3. Len(order) = n
  <2> HIDE DEF order
  <2> QED
    BY <1>1 DEF TableTyped
<1> HIDE DEF order, index
<1>4. \A k \in 1 .. n : order[k] \in 1 .. n
  BY <1>1, Zenon
<1>5. \A id \in 1 .. n : \E k \in 1 .. n : order[k] = id
  BY <1>1, Zenon DEF Sorts, TableTyped
<1>6. \A j, k \in 1 .. n : j < k => table[order[j]].addr <= table[order[k]].addr
  <2> SUFFICES ASSUME NEW j \in 1 .. n, NEW k \in 1 .. n, j < k
               PROVE  table[order[j]].addr <= table[order[k]].addr
    BY Zenon
  <2>1. symbol_compare_start(table, order[j], order[k])
    BY <1>1, Zenon DEF Sorts, TableTyped
  <2>2. table[order[j]].addr \in Nat /\ table[order[k]].addr \in Nat
    BY <1>4, Zenon DEF TableTyped
  <2> QED
    BY <2>1, <2>2 DEF symbol_compare_start
<1>7. ASSUME NEW k \in 1 .. n
      PROVE  /\ EndOf(table[order[k]]) \in Nat /\ Max(ends(k)) \in Nat
             /\ \A j \in 1 .. k : EndOf(table[order[j]]) <= Max(ends(k))
  <2>1. \A j \in 1 .. k : EndOf(table[order[j]]) \in Nat /\ EndOf(table[order[j]]) < AddrTop
    <3> SUFFICES ASSUME NEW j \in 1 .. k
                 PROVE  EndOf(table[order[j]]) \in Nat /\ EndOf(table[order[j]]) < AddrTop
      BY Zenon
    <3>0. j \in 1 .. n
      BY DEF TableTyped
    <3>1. PICK id \in 1 .. n : id = order[j]
      BY <1>4, <3>0, Zenon
    <3> QED
      BY <3>1, Ends, Zenon
  <2>2. /\ ends(k) \in SUBSET Nat /\ ends(k) # {} /\ \A x \in ends(k) : x <= AddrTop
        /\ \A j \in 1 .. k : EndOf(table[order[j]]) \in ends(k)
    BY <2>1
  <2>3. k \in 1 .. k
    BY DEF TableTyped
  <2> HIDE DEF ends
  <2>4. Max(ends(k)) \in ends(k) /\ \A x \in ends(k) : x <= Max(ends(k))
    BY <2>2, Greatest, Zenon
  <2> QED
    BY <2>1, <2>2, <2>3, <2>4, Zenon
<1>8. Scannable(index, table, n)
  BY <1>2, <1>4, <1>7, Zenon DEF Scannable
<1> QED
  BY <1>2, <1>3, <1>4, <1>5, <1>6, <1>8, Zenon DEF Indexed, index

\* The ids whose range contains an address.
Holding(table, addr) ==
    {id \in DOMAIN table : addr \in table[id].addr .. table[id].addr + table[id].size - 1}

\* With such an index the two loops find the lowest id whose range contains the address.
LEMMA FindExact ==
    ASSUME NEW table, NEW n, TableTyped(table, n), AddrTop \in Nat, NEW index, Indexed(table, index, n),
           NEW addr \in Nat
    PROVE  ScanBack(index, table, addr, StartsUpTo(index, table, addr)) =
               IF Holding(table, addr) = {} THEN None ELSE Min(Holding(table, addr))
<1> DEFINE from == StartsUpTo(index, table, addr)
           b == ScanBack(index, table, addr, from)
           In == Holding(table, addr)
<1>1. n \in Nat /\ Len(table) = n /\ DOMAIN table = 1 .. n
  BY Zenon DEF TableTyped
<1>2. from \in 0 .. n /\ \A k \in 1 .. n : table[index.order[k]].addr <= addr <=> k <= from
  <2>1. \A k \in 1 .. n : table[index.order[k]].addr \in Nat
    BY Zenon DEF TableTyped, Indexed
  <2>2. \A j, k \in 1 .. n : j < k => table[index.order[j]].addr <= table[index.order[k]].addr
    BY Zenon DEF Indexed
  <2> QED
    BY <1>1, <2>1, <2>2, BinarySearch, Zenon
<1> HIDE DEF from
<1>3. b \in 0 .. n /\ Best(b, 1 .. from, index, table, addr)
  BY <1>1, <1>2, BackwardScan, Zenon DEF Indexed
<1> HIDE DEF b
<1>4. ASSUME NEW id \in 1 .. n
      PROVE  id \in In <=> table[id].addr <= addr /\ addr < EndOf(table[id])
  <2>1. EndOf(table[id]) = table[id].addr + table[id].size
    BY Ends, Zenon
  <2>2. table[id].addr \in Nat /\ table[id].size \in Nat
    BY Zenon DEF TableTyped
  <2> QED
    BY <1>1, <2>1, <2>2 DEF Holding
<1>5. ASSUME b # None PROVE b \in In
  <2>1. PICK k \in 1 .. from : index.order[k] = b /\ addr < EndOf(table[b])
    BY <1>3, <1>5, Zenon DEF Best
  <2>2. k \in 1 .. n /\ table[index.order[k]].addr <= addr
    BY <1>1, <1>2
  <2>3. b \in 1 .. n
    BY <1>3, <1>5 DEF None
  <2> QED
    BY <1>4, <2>1, <2>2, <2>3, Zenon
<1>6. ASSUME NEW id \in In PROVE b # None /\ b <= id
  <2>1. id \in 1 .. n
    BY <1>1, Zenon DEF Holding
  <2>2. table[id].addr <= addr /\ addr < EndOf(table[id])
    BY <1>4, <2>1, Zenon
  <2>3. PICK k \in 1 .. n : index.order[k] = id
    BY <2>1, Zenon DEF Indexed
  <2>4. k \in 1 .. from
    BY <1>2, <2>2, <2>3
  <2> QED
    BY <1>3, <2>2, <2>3, <2>4, Zenon DEF Best
<1>7. In \in SUBSET Nat
  BY <1>1 DEF Holding
<1> HIDE DEF In
<1>10. b = (IF In = {} THEN None ELSE Min(In))
  <2>8. CASE In = {}
    <3>1. b = None
      BY <1>5, <2>8, Zenon
    <3> QED
      BY <2>8, <3>1, Zenon
  <2>9. CASE In # {}
    <3>1. b \in In /\ \A id \in In : b <= id
      BY <1>5, <1>6, <2>9, Zenon
    <3>2. Min(In) = b
      <4>1. PICK x : x = Min(In) /\ x \in In /\ \A id \in In : x <= id
        BY <3>1, Zenon DEF Min
      <4>2. x <= b /\ b <= x /\ x \in Nat /\ b \in Nat
        BY <1>7, <3>1, <4>1, Zenon
      <4> QED
        BY <4>1, <4>2
    <3> QED
      BY <2>9, <3>2, Zenon
  <2> QED
    BY <2>8, <2>9, Zenon
<1> QED
  BY <1>10, Zenon DEF b, from, In

-----------------------------------------------------------------------------
(* The tables: what every step keeps of them.                               *)

\* Symbols as the tables hold them.
Loadable == {[name |-> e.name, addr |-> e.addr, size |-> e.size] : e \in ElfSymbols}

\* Every symbol ends below the top of the addresses; one that ends at the top has the
\* end 0 and is never found.
EndsBelowTop == \A elfsym \in ElfSymbols : elfsym.addr + elfsym.size < AddrTop

\* The table holds symbols of the file, the last result is one of its ids, and the index
\* is either shorter than the table or that of the table.
TableInv(s) ==
    /\ s = [table |-> s.table, index |-> s.index, last |-> s.last]
    /\ s.table \in Seq(Loadable) /\ s.last \in 0 .. Len(s.table)
    /\ Len(s.index.order) \in 0 .. Len(s.table)
    /\ Len(s.index.order) = Len(s.table) => Indexed(s.table, s.index, Len(s.table))
SymbolsInv == DOMAIN symbols = Kinds /\ symbols = [k \in Kinds |-> symbols[k]]
              /\ \A k \in Kinds : TableInv(symbols[k])

\* A table of loadable symbols is one the lemmas above are about.
LEMMA LoadableTyped ==
    ASSUME EndsBelowTop, NEW table \in Seq(Loadable)
    PROVE  TableTyped(table, Len(table))
<1>1. \A x \in Loadable : x.addr \in Nat /\ x.size \in Nat /\ x.addr + x.size < AddrTop
  BY SymbolsAssumption DEF Loadable, EndsBelowTop
<1>2. \A id \in 1 .. Len(table) : table[id] \in Loadable
  OBVIOUS
<1> QED
  BY <1>1, <1>2 DEF TableTyped

\* A lookup returns what the comment above SymbolRangeIndex promises.
LEMMA LookupFinds ==
    ASSUME EndsBelowTop, NEW s, TableInv(s), NEW addr \in 0 .. AddrTop - 1
    PROVE  /\ Covers(s, s.last, addr) <=> s.last \in Holding(s.table, addr)
           /\ Lookup(s, addr) = IF s.last \in Holding(s.table, addr) THEN s.last
                                ELSE IF Holding(s.table, addr) = {} THEN None
                                ELSE Min(Holding(s.table, addr))
<1> DEFINE n == Len(s.table)
           In == Holding(s.table, addr)
<1>1. TableTyped(s.table, n) /\ AddrTop \in Nat /\ addr \in Nat /\ n \in Nat /\ DOMAIN s.table = 1 .. n
  BY LoadableTyped, SymbolsAssumption DEF TableInv
<1>2. Covers(s, s.last, addr) <=> s.last \in In
  <2>1. CASE s.last = None
    BY <1>1, <2>1 DEF Covers, Holding, None
  <2>2. CASE s.last # None
    <3>1. PICK id \in 1 .. n : id = s.last
      BY <1>1, <2>2 DEF TableInv, None
    <3>2. EndOf(s.table[id]) = s.table[id].addr + s.table[id].size
      BY <1>1, Ends, Zenon
    <3>3. s.table[id].addr \in Nat /\ s.table[id].size \in Nat
      BY <1>1, Zenon DEF TableTyped
    <3>4. id \in In <=> s.table[id].addr <= addr /\ addr < EndOf(s.table[id])
      <4>1. id \in In <=> addr \in s.table[id].addr .. s.table[id].addr + s.table[id].size - 1
        BY <1>1, Zenon DEF Holding
      <4> QED
        <5>1. PICK a \in Nat, z \in Nat : a = s.table[id].addr /\ z = s.table[id].size
          BY <3>3, Zenon
        <5>2. id \in In <=> addr \in a .. a + z - 1
          BY <4>1, <5>1, Zenon
        <5>3. EndOf(s.table[id]) = a + z
          BY <3>2, <5>1, Zenon
        <5>4. addr \in Nat
          BY <1>1, Zenon
        <5>5. addr \in a .. a + z - 1 <=> a <= addr /\ addr < a + z
          BY <5>4
        <5> QED
          BY <5>1, <5>2, <5>3, <5>5, Zenon
    <3> QED
      BY <2>2, <3>1, <3>4, Zenon DEF Covers
  <2> QED
    BY <2>1, <2>2, Zenon
<1>3. symbol_index_find(s, addr) = IF In = {} THEN None ELSE Min(In)
  <2>1. PICK index : index = IF Rebuilt(s) THEN symbol_index_build(s.table) ELSE s.index
    BY Zenon
  <2>2. Indexed(s.table, index, n)
    <3>1. CASE Rebuilt(s)
      BY <1>1, <2>1, <3>1, BuildIndexes, Zenon
    <3>2. CASE ~Rebuilt(s)
      BY <2>1, <3>2, Zenon DEF Rebuilt, TableInv
    <3> QED
      BY <3>1, <3>2, Zenon
  <2>3. symbol_index_find(s, addr) = ScanBack(index, s.table, addr, StartsUpTo(index, s.table, addr))
    BY <2>1, Zenon DEF symbol_index_find
  <2> HIDE DEF n
  <2> QED
    BY <1>1, <2>2, <2>3, FindExact, Zenon
<1> HIDE DEF In
<1>4. Lookup(s, addr) = IF s.last \in In THEN s.last ELSE IF In = {} THEN None ELSE Min(In)
  BY <1>2, <1>3, Zenon DEF Lookup
<1> QED
  BY <1>2, <1>4, Zenon DEF In

\* A lookup keeps the invariant of its table: the index it builds is that of the table,
\* the result it remembers is an id.
LEMMA LookupKeeps ==
    ASSUME EndsBelowTop, NEW s, TableInv(s), NEW addr \in 0 .. AddrTop - 1
    PROVE  TableInv(AfterLookup(s, addr))
<1>1. PICK id : id = Lookup(s, addr)
  BY Zenon
<1>2. id \in 0 .. Len(s.table)
  <2> DEFINE In == Holding(s.table, addr)
  <2>1. Len(s.table) \in Nat /\ \A x \in In : x \in Nat /\ x \in 0 .. Len(s.table)
    BY DEF Holding, TableInv
  <2>2. id = IF s.last \in In THEN s.last ELSE IF In = {} THEN None ELSE Min(In)
    BY <1>1, LookupFinds, Zenon
  <2> HIDE DEF In
  <2>3. CASE s.last \in In
    BY <2>1, <2>2, <2>3, Zenon
  <2>4. CASE s.last \notin In /\ In = {}
    BY <2>1, <2>2, <2>4 DEF None
  <2>5. CASE s.last \notin In /\ In # {}
    <3>1. In \in SUBSET Nat
      BY <2>1, Zenon
    <3>2. PICK x \in In : \A y \in In : x <= y
      BY <2>5, <3>1, LeastExists, Zenon
    <3>3. Min(In) \in In
      BY <3>2, Zenon DEF Min
    <3>4. id = Min(In)
      BY <2>2, <2>5, Zenon
    <3> QED
      BY <2>1, <3>3, <3>4, Zenon
  <2> QED
    BY <2>3, <2>4, <2>5, Zenon
<1>3. PICK last : last = IF id = None THEN s.last ELSE id
  BY Zenon
<1>4. PICK index : index = IF ~Covers(s, s.last, addr) /\ Rebuilt(s)
                           THEN symbol_index_build(s.table) ELSE s.index
  BY Zenon
<1>5. AfterLookup(s, addr) = [table |-> s.table, index |-> index, last |-> last]
  <2>1. AfterLookup(s, addr) = [s EXCEPT !.last = last, !.index = index]
    BY <1>1, <1>3, <1>4, Zenon DEF AfterLookup
  <2>2. s = [table |-> s.table, index |-> s.index, last |-> s.last]
    BY Zenon DEF TableInv
  <2> QED
    BY <2>1, <2>2, Zenon
<1>6. last \in 0 .. Len(s.table)
  BY <1>2, <1>3, Zenon DEF TableInv
<1>7. /\ Len(index.order) \in 0 .. Len(s.table)
      /\ Len(index.order) = Len(s.table) => Indexed(s.table, index, Len(s.table))
  <2>1. CASE ~Covers(s, s.last, addr) /\ Rebuilt(s)
    <3>1. PICK n : n = Len(s.table) /\ n \in Nat
      BY DEF TableInv
    <3>2. TableTyped(s.table, n) /\ AddrTop \in Nat
      BY <3>1, LoadableTyped, SymbolsAssumption, Zenon DEF TableInv
    <3>3. Indexed(s.table, index, n) /\ Len(index.order) = n
      BY <1>4, <2>1, <3>2, BuildIndexes, Zenon
    <3> QED
      BY <3>1, <3>3
  <2>2. CASE ~(~Covers(s, s.last, addr) /\ Rebuilt(s))
    BY <1>4, <2>2, Zenon DEF TableInv
  <2> QED
    BY <2>1, <2>2, Zenon
<1> QED
  BY <1>5, <1>6, <1>7 DEF TableInv

\* A table with one symbol more.
Longer(s, sym) == [s EXCEPT !.table = Append(s.table, sym)]

\* A symbol that is added leaves an index that is too short, and the ids as they were.
LEMMA AddKeeps ==
    ASSUME NEW s, TableInv(s), NEW sym \in Loadable
    PROVE  TableInv(Longer(s, sym))
<1>1. s.table \in Seq(Loadable) /\ Append(s.table, sym) \in Seq(Loadable)
      /\ Len(Append(s.table, sym)) = Len(s.table) + 1 /\ Len(s.table) \in Nat
  BY DEF TableInv
<1>2. PICK t : t = Append(s.table, sym)
  BY Zenon
<1>3. Longer(s, sym) = [table |-> t, index |-> s.index, last |-> s.last]
  <2>1. PICK a, b, c : s = [table |-> a, index |-> b, last |-> c]
    BY Zenon DEF TableInv
  <2>2. s.table = a /\ s.index = b /\ s.last = c
    BY <2>1, Zenon
  <2>3. Longer(s, sym) = [s EXCEPT !.table = t]
    BY <1>2, Zenon DEF Longer
  <2> QED
    BY <2>1, <2>2, <2>3, Zenon
<1> QED
  BY <1>1, <1>2, <1>3 DEF TableInv

\* The two ways of cpuemu_symbol_set to add a symbol, and the two at once.
LEMMA SetKeeps ==
    ASSUME SymbolsInv, NEW elfsym \in ElfSymbols, symbols' = cpuemu_symbol_set(elfsym)
    PROVE  SymbolsInv'
<1>1. PICK sym : sym = [name |-> elfsym.name, addr |-> elfsym.addr, size |-> elfsym.size]
                 /\ sym \in Loadable
  BY Zenon DEF Loadable
<1>2. PICK f, g : f = symbols["func"] /\ g = symbols["gl"]
  BY Zenon
<1>3. TableInv(f) /\ TableInv(g) /\ symbols = [k \in Kinds |-> IF k = "func" THEN f ELSE g]
  BY <1>2, Zenon DEF SymbolsInv, Kinds
<1>4. \E f2 \in {f, Longer(f, sym)}, g2 \in {g, Longer(g, sym)} :
         symbols' = [k \in Kinds |-> IF k = "func" THEN f2 ELSE g2]
  <2>1. CASE elfsym.type = "OBJECT"
    <3>1. symbols' = [symbols EXCEPT !["gl"] = Longer(g, sym)]
      BY <1>1, <1>2, <2>1, Zenon DEF cpuemu_symbol_set, symbol_gl_add, Longer
    <3> HIDE DEF Longer
    <3> QED
      BY <1>3, <3>1, Zenon DEF Kinds
  <2>2. CASE elfsym.type = "FUNC"
    <3>1. symbols' = [symbols EXCEPT !["func"] = Longer(f, sym)]
      BY <1>1, <1>2, <2>2, Zenon DEF cpuemu_symbol_set, symbol_func_add, Longer
    <3> QED
      BY <1>3, <3>1, Zenon DEF Kinds
  <2>3. CASE elfsym.type = "NOTYPE" /\ elfsym.name # "$"
    <3>1. PICK t : t = [symbols EXCEPT !["gl"] = Longer(g, sym)]
      BY Zenon
    <3>2. t = symbol_gl_add(symbols, sym)
      BY <1>2, <3>1, Zenon DEF symbol_gl_add, Longer
    <3>3. t["func"] = f
      BY <1>3, <3>1, Zenon DEF Kinds
    <3>4. symbols' = [t EXCEPT !["func"] = Longer(f, sym)]
      BY <1>1, <2>3, <3>2, <3>3, Zenon DEF cpuemu_symbol_set, symbol_func_add, Longer
    <3> QED
      BY <1>3, <3>1, <3>4, Zenon DEF Kinds
  <2>4. CASE elfsym.type # "OBJECT" /\ elfsym.type # "FUNC"
             /\ ~(elfsym.type = "NOTYPE" /\ elfsym.name # "$")
    <3>1. symbols' = symbols
      BY <2>4, Zenon DEF cpuemu_symbol_set
    <3> QED
      BY <1>3, <3>1, Zenon
  <2> QED
    BY <2>1, <2>2, <2>3, <2>4, Zenon
<1>5. PICK f2 \in {f, Longer(f, sym)}, g2 \in {g, Longer(g, sym)} :
         symbols' = [k \in Kinds |-> IF k = "func" THEN f2 ELSE g2]
  BY <1>4, Zenon
<1>6. TableInv(f2) /\ TableInv(g2)
  BY <1>1, <1>3, <1>5, AddKeeps, Zenon
<1> QED
  BY <1>5, <1>6, Zenon DEF SymbolsInv

\* The invariant holds of the empty tables and is kept by every step.
LEMMA SymbolsAreKept ==
    ASSUME EndsBelowTop
    PROVE  /\ SymbolsInit => SymbolsInv
           /\ SymbolsInv /\ [SymbolsNext]_symbols => SymbolsInv'
<1>1. ASSUME SymbolsInit PROVE SymbolsInv
  <2>1. TableInv(Empty)
    <3>1. Indexed(<<>>, [order |-> <<>>, max_end |-> <<>>], 0)
      BY DEF Indexed, Scannable
    <3> QED
      BY <3>1 DEF TableInv, Empty, None
  <2> QED
    BY <1>1, <2>1, Zenon DEF SymbolsInit, SymbolsInv
<1>2. ASSUME SymbolsInv, AddSymbol PROVE SymbolsInv'
  BY <1>2, SetKeeps, Zenon DEF AddSymbol
<1>3. ASSUME SymbolsInv, LookUp PROVE SymbolsInv'
  <2>1. PICK k \in Kinds, addr \in 0 .. AddrTop - 1 :
           symbols' = [symbols EXCEPT ![k] = AfterLookup(symbols[k], addr)]
    BY <1>3, Zenon DEF LookUp
  <2>2. PICK t : t = AfterLookup(symbols[k], addr) /\ TableInv(t)
    BY <1>3, LookupKeeps, Zenon DEF SymbolsInv
  <2>3. symbols' = [symbols EXCEPT ![k] = t]
    BY <2>1, <2>2, Zenon
  <2> QED
    BY <1>3, <2>2, <2>3, Zenon DEF SymbolsInv
<1>4. ASSUME SymbolsInv, UNCHANGED symbols PROVE SymbolsInv'
  BY <1>4, Zenon DEF SymbolsInv
<1> QED
  BY <1>1, <1>2, <1>3, <1>4, Zenon DEF SymbolsNext

\* In every table that can be filled, with symbols that nest, overlap, repeat or are
\* empty and with lookups before, between and after the additions, symbol_pc2funcid and
\* symbol_addr2glid return the last result if its range holds the address, otherwise the
\* lowest id whose range holds it, or -1.
THEOREM LookupsAreExact ==
    ASSUME EndsBelowTop
    PROVE  SymbolsSpec => []LookupExact
<1>1. SymbolsInv => LookupExact
  <2> SUFFICES ASSUME SymbolsInv, NEW k \in Kinds, NEW addr \in 0 .. AddrTop - 1
               PROVE  Lookup(symbols[k], addr) =
                        IF symbols[k].last \in Holding(symbols[k].table, addr) THEN symbols[k].last
                        ELSE IF Holding(symbols[k].table, addr) = {} THEN None
                        ELSE Min(Holding(symbols[k].table, addr))
    BY Zenon DEF LookupExact, Holding
  <2>1. PICK s : s = symbols[k] /\ TableInv(s)
    BY Zenon DEF SymbolsInv
  <2> QED
    BY <2>1, LookupFinds, Zenon
<1> QED
  BY <1>1, SymbolsAreKept, PTL DEF SymbolsSpec
=============================================================================
