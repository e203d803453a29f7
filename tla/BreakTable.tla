------------------------------ MODULE BreakTable ------------------------------
(***************************************************************************)
(* The break point table of dbg_cpu_control.c: an array of slots and a     *)
(* counter that says whether the array has to be searched at all.  A slot  *)
(* is a record; the fields of an unset slot make no difference, so every   *)
(* unset slot is the one record Free.  A change of the array is one step.  *)
(***************************************************************************)
EXTENDS Integers, FiniteSets

CONSTANTS Addr,       \* addresses a break point may be set on
          BreakSlots  \* DBG_CPU_CONTROL_BREAK_SETSIZE

ASSUME BreakTableAssumption ==
    /\ Addr \subseteq Nat
    /\ 0 \in Addr
    /\ BreakSlots \in Nat \ {0}

Slots == 0 .. BreakSlots - 1
BreakType == {"FOREVER", "ONLY_ONCE"}
Entry == [type : BreakType \cup {"FREE"}, addr : Addr]
Free == [type |-> "FREE", addr |-> 0]

\* Slot 0 is set from the start: { TRUE, BREAK_POINT_TYPE_FOREVER, 0x00 }.
InitTable == [i \in Slots |-> IF i = 0 THEN [type |-> "FOREVER", addr |-> 0] ELSE Free]

IsSet(t, i) == t[i].type # "FREE"
FreeSlots(t) == {i \in Slots : ~IsSet(t, i)}
FirstFree(t) == CHOOSE i \in FreeSlots(t) : \A j \in FreeSlots(t) : i <= j
SearchBreakPoint(t, a) == \E i \in Slots : IsSet(t, i) /\ t[i].addr = a
SearchBreakPointWithType(t, a, type) ==
    \E i \in Slots : t[i].type = type /\ t[i].addr = a

-----------------------------------------------------------------------------
\* cpuctrl_is_break_point: the array is searched only while the counter is positive.
IsBreakPoint(t, num, a) ==
    IF num > 0 THEN SearchBreakPoint(t, a) ELSE t[0].addr = a

\* cpuctrl_set_break adds an entry unless the same one is there or the table is full.
AddsEntry(t, a, type) ==
    /\ ~SearchBreakPointWithType(t, a, type)
    /\ FreeSlots(t) # {}
SetBreakOk(t, a, type) == SearchBreakPointWithType(t, a, type) \/ FreeSlots(t) # {}
SetBreak(t, a, type) ==
    IF AddsEntry(t, a, type)
    THEN [t EXCEPT ![FirstFree(t)] = [type |-> type, addr |-> a]]
    ELSE t
\* Mutation: the test of the type is inverted.
SetBreakDelta_Inverted(t, a, type) ==
    IF AddsEntry(t, a, type) /\ type = "ONLY_ONCE" THEN 1 ELSE 0

\* What cpuctrl_set_break adds to the counter: one-shot entries are not counted.
SetBreakDelta(t, a, type) ==
    IF AddsEntry(t, a, type) /\ type # "ONLY_ONCE" THEN 1 ELSE 0

\* cpuctrl_del_break: slot 0 is refused, any other slot is cleared.
DelBreak(t, i) == IF i = 0 THEN t ELSE [t EXCEPT ![i] = Free]

\* What it takes off the counter: one for a slot in use, whatever its type.
DelBreakDelta(t, i) == IF i # 0 /\ IsSet(t, i) THEN 1 ELSE 0

\* cpuctrl_del_all_break.
OfType(t, type) == {i \in Slots \ {0} : t[i].type = type}
\* Mutation: the loop ends one slot early.
DelAllBreak_OneShort(t, type) ==
    [i \in Slots |-> IF i \in OfType(t, type) \ {BreakSlots - 1} THEN Free ELSE t[i]]

DelAllBreak(t, type) == [i \in Slots |-> IF i \in OfType(t, type) THEN Free ELSE t[i]]
DelAllBreakNum(t, num, type) ==
    IF type = "ONLY_ONCE" THEN num - Cardinality(OfType(t, type)) ELSE 0
=============================================================================
