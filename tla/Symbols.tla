------------------------------- MODULE Symbols -------------------------------
(***************************************************************************)
(* The two symbol tables of src/src/lib/symbol_ops.c, how cpuemu_symbol_set*)
(* of src/src/main/cpuemu.cpp fills them from the symbols of the ELF file, *)
(* and lookups by address. src/test/symbol_lookup_test.c adds symbols      *)
(* between lookups, and so does the model.                                 *)
(***************************************************************************)
EXTENDS SymbolTable

CONSTANTS ElfSymbols,  \* symbols an ELF file may list: [type, name, addr, size]
          MaxSymbols   \* bound: symbols of a table

ASSUME SymbolsAssumption ==
    /\ AddrTop \in Nat \ {0}
    /\ \A elfsym \in ElfSymbols : elfsym.addr \in 0 .. AddrTop - 1 /\ elfsym.size \in 0 .. AddrTop - 1

VARIABLES symbols      \* symbol_func, symbol_gl with symbol_func_index, symbol_gl_index

Kinds == {"func", "gl"}

(***************************************************************************)
(* Filling the tables. The size of each grows by a fixed step with realloc *)
(* and has no limit.                                                       *)
(***************************************************************************)
symbol_func_add(t, s) == [t EXCEPT !["func"].table = Append(@, s)]
symbol_gl_add(t, s) == [t EXCEPT !["gl"].table = Append(@, s)]

cpuemu_symbol_set(elfsym) ==
    LET sym == [name |-> elfsym.name, addr |-> elfsym.addr, size |-> elfsym.size]
    IN  CASE elfsym.type = "OBJECT" -> symbol_gl_add(symbols, sym)
          [] elfsym.type = "FUNC"   -> symbol_func_add(symbols, sym)
          [] elfsym.type = "NOTYPE" /\ elfsym.name # "$" ->
                symbol_func_add(symbol_gl_add(symbols, sym), sym)
          [] OTHER -> symbols

SymbolsInit == symbols = [k \in Kinds |-> Empty]

AddSymbol ==
    /\ \A k \in Kinds : Len(symbols[k].table) < MaxSymbols
    /\ \E elfsym \in ElfSymbols : symbols' = cpuemu_symbol_set(elfsym)

LookUp ==
    \E k \in Kinds, addr \in 0 .. AddrTop - 1 :
        symbols' = [symbols EXCEPT ![k] = AfterLookup(symbols[k], addr)]

SymbolsNext == AddSymbol \/ LookUp

SymbolsSpec == SymbolsInit /\ [][SymbolsNext]_symbols

(***************************************************************************)
(* The comment above SymbolRangeIndex states what a lookup returns: the    *)
(* symbol returned last if its range still contains the address, otherwise *)
(* the lowest id whose range contains it, or -1. With overlapping, nested, *)
(* equal and empty symbols, and with an index that is older than the       *)
(* table, the binary search and the scan bounded by max_end find it.       *)
(***************************************************************************)
LookupExact ==
    \A k \in Kinds, addr \in 0 .. AddrTop - 1 :
        LET s      == symbols[k]
            inside == {id \in DOMAIN s.table :
                         addr \in s.table[id].addr .. s.table[id].addr + s.table[id].size - 1}
        IN  Lookup(s, addr) = IF s.last \in inside THEN s.last
                              ELSE IF inside = {} THEN None
                              ELSE Min(inside)
==============================================================================
