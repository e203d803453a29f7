--------------------------------- MODULE Memory ---------------------------------
(***************************************************************************)
(* The memory of the emulated machine: the regions of device/mpu/mpu.c and *)
(* the search that every access makes, the heap of mpu_malloc.c, and the   *)
(* loader of loader.c that creates the regions from the memory map, fills  *)
(* them from the program's segments and refills them on a reset.           *)
(*                                                                         *)
(* An address is a number below AddrTop, the width of AthrillAddrType, and *)
(* a region's buffer a sequence of bytes, empty for NULL.  The array       *)
(* dynamic_map may move when it grows (MayMove); a unit of the heap keeps  *)
(* a pointer into it, stale after a move, an index otherwise.              *)
(***************************************************************************)
EXTENDS Integers, Sequences, FiniteSets

CONSTANTS MemoryFile,  \* the lines of memory.txt: [kind, start, size]
          Segments,    \* the PT_LOAD segments: [addr, bytes, memsz]
          AddrTop,     \* 2^32
          UnitSize,    \* MPU_MALLOC_REGION_UNIT_SIZE
          MapUnit,     \* the 8 KiB to which the size of an MMAP file is rounded up
          Classes,     \* memsize of malloc_data_info_table
          Values,      \* bytes
          FileByte,    \* what an MMAP file holds at startup
          Accessed,    \* bound: the addresses the program accesses
          MaxAccess,   \* the widest access
          MayMove      \* whether realloc may move dynamic_map

MemoryAssumption ==
    /\ AddrTop \in Nat \ {0} /\ UnitSize \in Nat \ {0} /\ MapUnit \in Nat \ {0} /\ MaxAccess \in Nat \ {0}
    /\ 0 \in Values /\ FileByte \in Values /\ MayMove \in BOOLEAN
    /\ \A i \in DOMAIN Classes : UnitSize % Classes[i] = 0

VARIABLES
    memmap,        \* MemoryAddressMapType: the rom, ram and dev arrays, in this order
    stage, entry,  \* how far Elf_LoadProgram is, and the next entry of memmap
    map,           \* mpu_address_map.dynamic_map
    units,         \* malloc_region: its units in order of registration
    prev,          \* previous_index of search_region ("w") and search_region_r ("r")
    live           \* the blocks the program has got and not freed

vars == <<memmap, stage, entry, map, units, prev, live>>

Seqs == INSTANCE SequencesExt

Addresses == 0 .. AddrTop - 1
NoRegion == 0
Put(s, i, bytes) == [k \in DOMAIN s |-> IF k \in i .. i + Len(bytes) - 1 THEN bytes[k - i + 1] ELSE s[k]]
Fill(n, v) == [k \in 1 .. n |-> v]
First(S) == IF S = {} THEN NoRegion ELSE CHOOSE i \in S : \A j \in S : i <= j

Init ==
    /\ memmap = <<>> /\ stage = "memmap" /\ entry = 1 /\ map = <<>> /\ units = <<>>
    /\ prev = [s \in {"r", "w"} |-> NoRegion] /\ live = {}

-----------------------------------------------------------------------------
(* cpuemu_load_memmap: the file's lines by kind.  An unknown kind, or a DEV  *)
(* whose library is not a device, is skipped.                               *)

RoundUp(n) == IF n = 0 THEN MapUnit ELSE ((n + MapUnit - 1) \div MapUnit) * MapUnit
OfKinds(kinds) == SelectSeq(MemoryFile, LAMBDA e : e.kind \in kinds)

cpuemu_load_memmap ==
    /\ stage = "memmap"
    /\ IF \E i \in DOMAIN MemoryFile :
             MemoryFile[i].kind = "MALLOC" /\ MemoryFile[i].size % (UnitSize * Len(Classes)) # 0
       THEN stage' = "failed" /\ UNCHANGED memmap
       ELSE LET all == OfKinds({"ROM"}) \o OfKinds({"RAM", "MMAP", "MALLOC"}) \o OfKinds({"DEV"})
            IN  /\ stage' = "regions"
                /\ memmap' = [i \in DOMAIN all |->
                      IF all[i].kind = "MMAP" THEN [all[i] EXCEPT !.size = RoundUp(@)] ELSE all[i]]
    /\ UNCHANGED <<entry, map, units, prev, live>>

-----------------------------------------------------------------------------
(* Searching a region.                                                      *)

region_covers(r, a, n) ==
    LET end == (r.start + r.size) % AddrTop
        paddr_end == (a + n) % AddrTop
    IN  r.start <= a /\ a < end /\ r.start < paddr_end /\ paddr_end <= end

\* Mutant: the remembered region is tried without the size of the access.
previous_region_covers_NoSize(p, a, n) ==
    p # NoRegion /\ map[p].data # <<>> /\ region_covers(map[p], a, 1)

previous_region_covers(p, a, n) ==
    p # NoRegion /\ map[p].data # <<>> /\ region_covers(map[p], a, n)

\* The first region of the dynamic map; one without a buffer is none.
mpu_address_search_region(a, n) == First({i \in DOMAIN map : region_covers(map[i], a, n)})
FullSearch(a, n) ==
    LET i == mpu_address_search_region(a, n)
    IN  IF i = NoRegion \/ map[i].data = <<>> THEN NoRegion ELSE i

\* search_region is for writes and pointers, its copy search_region_r for reads.
search_region(a, n) == IF previous_region_covers(prev["w"], a, n) THEN prev["w"] ELSE FullSearch(a, n)
search_region_r(a, n) == IF previous_region_covers(prev["r"], a, n) THEN prev["r"] ELSE FullSearch(a, n)
Remember(s, r) == prev' = IF r = NoRegion THEN prev ELSE [prev EXCEPT ![s] = r]

-----------------------------------------------------------------------------
(* Loading.  realloc adds one region, and may move those already there.     *)

Region(e, start, size, data) ==
    [type |-> IF e.kind = "ROM" THEN "rom" ELSE IF e.kind = "DEV" THEN "dev" ELSE "ram",
     start |-> start, size |-> size, malloc |-> e.kind = "MALLOC", mmap |-> e.kind = "MMAP", data |-> data]

Grow(regions) ==
    /\ map' = map \o regions
    /\ \E moved \in {FALSE, MayMove} :
          units' = [i \in DOMAIN units |-> [units[i] EXCEPT !.stale = @ \/ moved]]

Entry == memmap[entry]
AtEntry(kinds) == stage = "regions" /\ entry <= Len(memmap) /\ Entry.kind \in kinds

\* mpu_address_set_rom_ram: a ROM is uninitialized, a RAM zero, an MMAP its
\* file.  A range some region covers already gets no region of its own.
mpu_address_set_rom_ram ==
    /\ AtEntry({"ROM", "RAM", "MMAP"})
    /\ IF mpu_address_search_region(Entry.start, Entry.size) # NoRegion
       THEN UNCHANGED <<map, units>>
       ELSE \E v \in CASE Entry.kind = "ROM" -> Values [] Entry.kind = "RAM" -> {0}
                       [] OTHER -> {FileByte} :
            Grow(<<Region(Entry, Entry.start, Entry.size, Fill(Entry.size, v))>>)
    /\ entry' = entry + 1
    /\ UNCHANGED <<memmap, stage, prev, live>>

\* A MALLOC entry becomes regions of one unit each, without buffers.
UnitStarts(e) == [j \in 1 .. e.size \div UnitSize |-> e.start + (j - 1) * UnitSize]
SetMallocUnits ==
    /\ AtEntry({"MALLOC"})
    /\ LET starts == SelectSeq(UnitStarts(Entry), LAMBDA a : mpu_address_search_region(a, UnitSize) = NoRegion)
       IN  Grow([j \in DOMAIN starts |-> Region(Entry, starts[j], UnitSize, <<>>)])
    /\ entry' = entry + 1
    /\ UNCHANGED <<memmap, stage, prev, live>>

\* group_get, group_add_region: the k-th unit of a group serves the k-th class.
Class(k) == Classes[((k - 1) % Len(Classes)) + 1]
mpu_malloc_add_region(us, a) ==
    Append(us, [reg |-> mpu_address_search_region(a, UnitSize), stale |-> FALSE, bits |-> {},
                free |-> UnitSize \div Class(Len(us) + 1)])
set_malloc_region(us, e) == Seqs!FoldLeft(mpu_malloc_add_region, us, UnitStarts(e))

\* All MALLOC entries, once the ROM and RAM are there.
SetMallocRegions ==
    /\ stage = "regions" /\ (entry > Len(memmap) \/ Entry.kind = "DEV")
    /\ units' = Seqs!FoldLeft(set_malloc_region, <<>>, SelectSeq(memmap, LAMBDA e : e.kind = "MALLOC"))
    /\ stage' = "devices"
    /\ UNCHANGED <<memmap, entry, map, prev, live>>

\* mpu_address_set_dev; a device on top of a region ends the load.
mpu_address_set_dev ==
    /\ stage = "devices" /\ entry <= Len(memmap) /\ entry' = entry + 1
    /\ IF mpu_address_search_region(Entry.start, Entry.size) # NoRegion
       THEN stage' = "failed" /\ UNCHANGED <<map, units>>
       ELSE Grow(<<Region(Entry, Entry.start, Entry.size, Fill(Entry.size, 0))>>) /\ UNCHANGED stage
    /\ UNCHANGED <<memmap, prev, live>>

\* memory_map_covers: the whole segment in one entry, MALLOC excepted.
memory_region_covers(e, a, n) ==
    a >= e.start /\ a - e.start <= e.size /\ n <= e.size - (a - e.start)
memory_map_covers(a, n) ==
    \E i \in DOMAIN memmap : memmap[i].kind # "MALLOC" /\ memory_region_covers(memmap[i], a, n)

\* load_segment: segments outside the memory map are skipped; the part of the
\* segment that is not in the file is zero.
Loadable(s) == Len(s.bytes) <= s.memsz /\ s.memsz > 0 /\ memory_map_covers(s.addr, s.memsz)
load_segment(m, s) ==
    LET r == mpu_address_search_region(s.addr, 1)
    IN  IF Loadable(s)
        THEN [m EXCEPT ![r].data =
                Put(@, s.addr - m[r].start + 1, s.bytes \o Fill(s.memsz - Len(s.bytes), 0))]
        ELSE m

\* mpu_get_pointer fails for a region that ends at the top of the addresses.
LoadSegments(m) ==
    LET loaded == SelectSeq(Segments, Loadable)
    IN  IF \E i \in DOMAIN loaded : FullSearch(loaded[i].addr, 1) = NoRegion
        THEN stage' = "failed" /\ UNCHANGED <<map, prev>>
        ELSE /\ map' = Seqs!FoldLeft(load_segment, m, Segments)
             /\ prev' = [prev EXCEPT !["w"] = IF loaded = <<>> THEN @
                           ELSE FullSearch(loaded[Len(loaded)].addr, 1)]
             /\ stage' = "run"

Loading == stage = "devices" /\ entry > Len(memmap)
elf_load == Loading /\ LoadSegments(map) /\ UNCHANGED <<memmap, entry, units, live>>

\* Mutant: the memory is not cleared before the segments are loaded again.
elf_reload_NoClear == stage = "run" /\ LoadSegments(map) /\ UNCHANGED <<memmap, entry, units, live>>

\* elf_reload, on a reset: ROM, RAM and MMAP are cleared, the segments loaded.
\* The heap keeps its blocks.
elf_reload ==
    /\ stage = "run"
    /\ IF \E i \in DOMAIN memmap : memmap[i].kind \in {"ROM", "RAM", "MMAP"} /\ FullSearch(memmap[i].start, 1) = NoRegion
       THEN stage' = "failed" /\ UNCHANGED <<map, prev>>
       ELSE LoadSegments([i \in DOMAIN map |->
               IF map[i].malloc \/ map[i].type = "dev" THEN map[i]
               ELSE [map[i] EXCEPT !.data = Fill(map[i].size, 0)]])
    /\ UNCHANGED <<memmap, entry, units, live>>

-----------------------------------------------------------------------------
(* Access by the program and by its target, the CPU (external), which takes *)
(* host pointers.  A device, a ROM to be written, or an access whose end     *)
(* wraps has no host memory.                                                *)

Accesses == stage = "run" /\ UNCHANGED <<memmap, stage, entry, units, live>>

mpu_get_data(a, n) == Accesses /\ Remember("r", search_region_r(a, n)) /\ UNCHANGED map

memory_put_data(m, r, a, bytes) == [m EXCEPT ![r].data = Put(@, a - m[r].start + 1, bytes)]
mpu_put_data(a, n, v) ==
    LET r == search_region(a, n)
    IN  /\ Accesses /\ Remember("w", r)
        /\ map' = IF r = NoRegion \/ map[r].type = "rom" THEN map ELSE memory_put_data(map, r, a, Fill(n, v))

\* mpu_get_pointer, mpu_get_memory_window.
mpu_get_pointer(a) == Accesses /\ Remember("w", search_region(a, 1)) /\ UNCHANGED map

host_range(a, n) == n > 0 /\ a + n < AddrTop
mpu_get_host_memory(a, n) ==
    /\ Accesses /\ UNCHANGED map
    /\ IF host_range(a, n) THEN Remember("w", search_region(a, n)) ELSE UNCHANGED prev

-----------------------------------------------------------------------------
(* The heap.                                                                *)

\* The unit that serves a request: the smallest class that fits, then the next
\* larger ones; of a class, the first group with a free block.
UnitFor(size) ==
    LET fit == {k \in DOMAIN units : Class(k) >= size /\ units[k].free > 0}
    IN  IF fit = {} THEN NoRegion
        ELSE CHOOSE k \in fit : \A j \in fit :
                Class(k) < Class(j) \/ (Class(k) = Class(j) /\ k <= j)

\* set_bit: the first clear bit.
set_bit(k) ==
    LET clear == (0 .. UnitSize \div Class(k) - 1) \ units[k].bits
    IN  IF clear = {} THEN -1 ELSE CHOOSE b \in clear : \A c \in clear : b <= c

\* What the heap becomes, and the address it gives: 0 when no unit can serve.
Nothing == [addr |-> 0, units |-> units, map |-> map]

\* The first block of a unit allocates its buffer, uninitialized (v).  Through
\* a stale pointer it is recorded in the array that was freed.
mpu_malloc_get_memory(size, v) ==
    LET k == UnitFor(size)
        b == set_bit(k)
    IN  IF k = NoRegion \/ b < 0 THEN Nothing
        ELSE [addr  |-> map[units[k].reg].start + b * Class(k),
              units |-> [units EXCEPT ![k].bits = @ \cup {b}, ![k].free = @ - 1],
              map   |-> IF map[units[k].reg].data = <<>> /\ ~units[k].stale
                        THEN [map EXCEPT ![units[k].reg].data = Fill(UnitSize, v)] ELSE map]

search_unit(a) ==
    First({k \in DOMAIN units : LET r == map[units[k].reg] IN r.start <= a /\ a < r.start + r.size})
mpu_malloc_ref_size(a) == Class(search_unit(a))

\* Mutant: the bit of the block before is cleared.
mpu_malloc_rel_memory_WrongBit(us, a) ==
    LET k == search_unit(a)
        b == (a - map[units[k].reg].start) \div UnitSize
    IN  [us EXCEPT ![k].bits = @ \ {b}, ![k].free = @ + 1]

mpu_malloc_rel_memory(us, a) ==
    LET k == search_unit(a)
        b == (a - map[units[k].reg].start) \div Class(k)
    IN  [us EXCEPT ![k].bits = @ \ {b}, ![k].free = @ + 1]

-----------------------------------------------------------------------------
(* The heap calls of the program, served by athrill_syscall_device.c.       *)

RegionOf(m, a) == First({i \in DOMAIN m : region_covers(m[i], a, 1)})
PutAt(m, a, bytes) == memory_put_data(m, RegionOf(m, a), a, bytes)
BytesAt(m, a, n) == LET r == RegionOf(m, a) IN SubSeq(m[r].data, a - m[r].start + 1, a - m[r].start + n)
Given(g, size) == IF g.addr = 0 THEN {} ELSE {[addr |-> g.addr, size |-> size]}

athrill_syscall_malloc(size) ==
    \E v \in Values : LET g == mpu_malloc_get_memory(size, v) IN
       /\ stage = "run"
       /\ units' = g.units /\ map' = g.map /\ live' = live \cup Given(g, size)
       /\ UNCHANGED <<memmap, stage, entry, prev>>

\* The size is a product of 32 bits.
athrill_syscall_calloc(size, nmemb) ==
    \E v \in Values : LET n == (size * nmemb) % AddrTop
                           g == mpu_malloc_get_memory(n, v) IN
       /\ stage = "run" /\ size > 0 /\ nmemb > 0
       /\ units' = g.units /\ live' = live \cup Given(g, size * nmemb)
       /\ map' = IF g.addr = 0 THEN map ELSE PutAt(g.map, g.addr, Fill(n, 0))
       /\ prev' = IF g.addr = 0 THEN prev ELSE [prev EXCEPT !["w"] = RegionOf(g.map, g.addr)]
       /\ UNCHANGED <<memmap, stage, entry>>

\* The new block first; the whole block of the old one is copied to it, over
\* the blocks behind it when its class is smaller.  What runs past the buffer
\* of the unit is not memory of the machine.
athrill_syscall_realloc(p, size) ==
    \E v \in Values : LET g == mpu_malloc_get_memory(size, v)
                           old == BytesAt(g.map, p, mpu_malloc_ref_size(p)) IN
       /\ stage = "run" /\ \E x \in live : x.addr = p
       /\ IF g.addr = 0 THEN UNCHANGED <<map, units, prev, live>>
          ELSE /\ map' = PutAt(g.map, g.addr, old)
               /\ units' = mpu_malloc_rel_memory(g.units, p)
               /\ prev' = [prev EXCEPT !["w"] = RegionOf(g.map, g.addr)]
               /\ live' = {x \in live : x.addr # p} \cup Given(g, size)
       /\ UNCHANGED <<memmap, stage, entry>>

\* The program frees blocks it has: nothing here detects a second free.
athrill_syscall_free(p) ==
    /\ stage = "run" /\ \E x \in live : x.addr = p
    /\ units' = mpu_malloc_rel_memory(units, p)
    /\ live' = {x \in live : x.addr # p}
    /\ UNCHANGED <<memmap, stage, entry, map, prev>>

\* The scope of the program: its products fit the word, and realloc has a size.
Next ==
    \/ cpuemu_load_memmap \/ mpu_address_set_rom_ram \/ SetMallocUnits \/ SetMallocRegions \/ mpu_address_set_dev
    \/ elf_load \/ elf_reload
    \/ \E a \in Accessed, n \in 1 .. MaxAccess :
          \/ mpu_get_data(a, n) \/ mpu_get_pointer(a) \/ mpu_get_host_memory(a, n)
          \/ \E v \in Values : mpu_put_data(a, n, v)
    \/ \E size \in 1 .. UnitSize : athrill_syscall_malloc(size)
    \/ \E size, nmemb \in 1 .. UnitSize : size * nmemb < AddrTop /\ athrill_syscall_calloc(size, nmemb)
    \/ \E x \in live :
          \/ \E size \in 1 .. UnitSize : athrill_syscall_realloc(x.addr, size)
          \/ athrill_syscall_free(x.addr)

Spec == Init /\ [][Next]_vars

-----------------------------------------------------------------------------
(* Properties.                                                              *)

\* Trying the region found last first never changes what a search finds.
SearchExact ==
    \A a \in Addresses, n \in 1 .. MaxAccess : FullSearch(a, n) = search_region(a, n) /\ FullSearch(a, n) = search_region_r(a, n)

\* A segment the loader finds in the memory map is found by mpu_get_pointer in
\* a region that holds all of it: loading never runs past a buffer.
SegmentsFit ==
    Loading =>
       \A a \in Addresses, n \in 1 .. AddrTop : memory_map_covers(a, n) =>
          LET r == FullSearch(a, 1)
          IN  r # NoRegion /\ a + n <= map[r].start + Len(map[r].data)

\* The heap: the count of free blocks is that of the clear bits, and a set bit
\* is one block of the program, no two of which overlap.
HeapExact ==
    /\ \A k \in DOMAIN units :
       /\ units[k].free + Cardinality(units[k].bits) = UnitSize \div Class(k)
       /\ units[k].bits =
             {(x.addr - map[units[k].reg].start) \div Class(k) : x \in {y \in live : search_unit(y.addr) = k}}
    /\ \A x, y \in live : x # y => x.addr + x.size <= y.addr \/ y.addr + y.size <= x.addr

\* Every byte of a block the program was given can be accessed.
BlocksReachable ==
    \A x \in live : \A a \in x.addr .. x.addr + x.size - 1 : FullSearch(a, 1) # NoRegion

\* The searches of the MPU, the ones with a remembered region and the loader's.
RegionsExact == SearchExact /\ SegmentsFit

\* The heap as the program sees it.
HeapSound == HeapExact /\ BlocksReachable

\* The bytes behind a new block that the old one, of a larger class, is
\* copied over (athrill_syscall_device.c:533-535).
CopiedOver ==
    UNION {y.addr + mpu_malloc_ref_size(y.addr) .. y.addr + mpu_malloc_ref_size(x.addr) - 1 :
              x \in live \ live', y \in live' \ live}

\* The calls of the heap change a byte of a block the program keeps only when
\* realloc moves a block to a smaller class, and then only the bytes behind the
\* new block that the rest of the old one is copied over; and the block realloc
\* returns begins with the bytes of the one it was given.
BlockBytesKept ==
    [][live' # live =>
         /\ \A x \in live \cap live' :
               \/ BytesAt(map', x.addr, x.size) = BytesAt(map, x.addr, x.size)
               \/ \A a \in (x.addr .. x.addr + x.size - 1) \ CopiedOver :
                     BytesAt(map', a, 1) = BytesAt(map, a, 1)
         /\ \A x \in live \ live', y \in live' \ live :
               LET n == IF x.size < y.size THEN x.size ELSE y.size
               IN  BytesAt(map', y.addr, n) = BytesAt(map, x.addr, n)]_vars

\* What the loader puts at an address: its segment's byte, or else zero.
InSegment(a, s) == Loadable(s) /\ s.addr <= a /\ a < s.addr + s.memsz
Loaded(a) ==
    LET last == {k \in DOMAIN Segments : InSegment(a, Segments[k])}
    IN  IF last = {} THEN 0
        ELSE LET s == Segments[CHOOSE k \in last : \A j \in last : j <= k]
             IN  IF a - s.addr < Len(s.bytes) THEN s.bytes[a - s.addr + 1] ELSE 0

\* A reset leaves the heap and the devices, and gives every other byte that of
\* its segment or zero.  In a RAM these are the bytes that startup created, as
\* loader.c:102-103 says; a ROM was uninitialized, and a mapped file loses what
\* it held.
ReloadRestores ==
    [][UNCHANGED <<units, live>> /\ elf_reload /\ stage' = "run" =>
         \A i \in DOMAIN map :
            IF map[i].malloc \/ map[i].type = "dev" THEN map'[i] = map[i]
            ELSE \A k \in DOMAIN map[i].data : map'[i].data[k] = Loaded(map[i].start + k - 1)]_vars

\* What the heap's calls and a reset do to the bytes of the program.
BytesKept == BlockBytesKept /\ ReloadRestores
=============================================================================
