----------------------------- MODULE SymbolTable -----------------------------
(***************************************************************************)
(* Lookups in a symbol table of src/src/lib/symbol_ops.c. A table is       *)
(* [table, index, last]: its symbols [name, addr, size], the index of ids  *)
(* sorted by start address, which is rebuilt when symbols were added since *)
(* it was built, and the result of the last lookup by address. Ids count   *)
(* from 1 here; 0 stands for the -1 of the code.                           *)
(***************************************************************************)
EXTENDS Integers, Sequences, FiniteSetsExt

CONSTANT AddrTop  \* 2^32

None == 0

(***************************************************************************)
(* SymbolRangeIndex: order[k] and max_end[k] for every id; built_count is  *)
(* the length of order.                                                    *)
(***************************************************************************)
EndOf(s) == (s.addr + s.size) % AddrTop

symbol_compare_start(table, a, b) ==
    \/ table[a].addr < table[b].addr
    \/ table[a].addr = table[b].addr /\ a < b

\* qsort: every id, in the order of symbol_compare_start.
Sorts(order, table) ==
    /\ \A id \in DOMAIN table : \E k \in DOMAIN table : order[k] = id
    /\ \A j, k \in DOMAIN table : j < k => symbol_compare_start(table, order[j], order[k])
qsort(table) == CHOOSE order \in [DOMAIN table -> DOMAIN table] : Sorts(order, table)

\* Mutant: max_end is the end of the symbol itself.
symbol_index_build_OwnEnd(table) ==
    LET order == qsort(table)
    IN  [order |-> order, max_end |-> [k \in DOMAIN table |-> EndOf(table[order[k]])]]

symbol_index_build(table) ==
    LET order == qsort(table)
    IN  [order   |-> order,
         max_end |-> [k \in DOMAIN table |-> Max({0} \cup {EndOf(table[order[j]]) : j \in 1 .. k})]]

(***************************************************************************)
(* symbol_index_find: the binary search for the symbols that start at or   *)
(* below addr, in the range <<low, high>>, then the backward scan that     *)
(* max_end ends, at <<position, best id so far>>.                          *)
(***************************************************************************)
StartsUpTo(index, table, addr) ==
    LET low[r \in (0 .. Len(table)) \X (0 .. Len(table))] ==
            LET middle == r[1] + ((r[2] - r[1]) \div 2)
            IN  IF r[1] >= r[2] THEN r[1]
                ELSE IF table[index.order[middle + 1]].addr <= addr THEN low[<<middle + 1, r[2]>>]
                ELSE low[<<r[1], middle>>]
    IN  low[<<0, Len(table)>>]

ScanBack(index, table, addr, from) ==
    LET scan[r \in (0 .. from) \X (0 .. Len(table))] ==
            IF r[1] = 0 \/ index.max_end[r[1]] <= addr THEN r[2]
            ELSE LET id == index.order[r[1]]
                 IN  scan[<<r[1] - 1, IF addr < EndOf(table[id]) /\ (r[2] = None \/ id < r[2])
                                      THEN id ELSE r[2]>>]
    IN  scan[<<from, None>>]
Rebuilt(s) == Len(s.index.order) # Len(s.table)

symbol_index_find(s, addr) ==
    LET index == IF Rebuilt(s) THEN symbol_index_build(s.table) ELSE s.index
    IN  ScanBack(index, s.table, addr, StartsUpTo(index, s.table, addr))

(***************************************************************************)
(* symbol_pc2funcid and symbol_addr2glid: the last result is tried first.  *)
(***************************************************************************)
Covers(s, id, addr) == id # None /\ s.table[id].addr <= addr /\ addr < EndOf(s.table[id])

Lookup(s, addr) == IF Covers(s, s.last, addr) THEN s.last ELSE symbol_index_find(s, addr)

\* What a lookup of addr leaves behind.
AfterLookup(s, addr) ==
    LET id == Lookup(s, addr)
    IN  [s EXCEPT !.last  = IF id = None THEN @ ELSE id,
                  !.index = IF ~Covers(s, s.last, addr) /\ Rebuilt(s)
                            THEN symbol_index_build(s.table) ELSE @]

symbol_pc2funcid(s, pc)   == Lookup(s, pc)
symbol_addr2glid(s, addr) == Lookup(s, addr)

\* symbol_get_func and symbol_get_gl: the first symbol of this name.
Named(s, name) == {id \in DOMAIN s.table : s.table[id].name = name}
symbol_get_func(s, name) == IF Named(s, name) = {} THEN None ELSE Min(Named(s, name))
symbol_get_gl(s, name)   == IF Named(s, name) = {} THEN None ELSE Min(Named(s, name))

Empty == [table |-> <<>>, index |-> [order |-> <<>>, max_end |-> <<>>], last |-> None]
==============================================================================
