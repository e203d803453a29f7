--------------------------- MODULE BreakTableProofs ---------------------------
(***************************************************************************)
(* What the operations on the break point table do to the set of break     *)
(* points and to the number of slots in use, for every table size.         *)
(***************************************************************************)
EXTENDS BreakTable, FiniteSetTheorems, WellFoundedInduction, TLAPS

\* The slots the counter of break points is about: those in use, without slot 0.
Used(t) == {i \in Slots \ {0} : IsSet(t, i)}

\* A table without one-shot break points, in which slot 0 is the fixed one and no
\* address is set twice; num counts the slots in use.
GoodTable(t, num) ==
    /\ t \in [Slots -> Entry]
    /\ \A i \in Slots : t[i].type # "ONLY_ONCE"
    /\ t[0] = [type |-> "FOREVER", addr |-> 0]
    /\ \A i, j \in Slots : IsSet(t, i) /\ IsSet(t, j) /\ t[i].addr = t[j].addr => i = j
    /\ num = Cardinality(Used(t))

\* The slots are naturals and 0 is one of them.
LEMMA SlotsNat == Slots \subseteq Nat /\ 0 \in Slots /\ IsFiniteSet(Slots)
<1>1. BreakSlots - 1 \in Int /\ BreakSlots - 1 >= 0
  BY BreakTableAssumption
<1>2. IsFiniteSet(0 .. BreakSlots - 1)
  BY <1>1, FS_Interval
<1> QED
  BY <1>1, <1>2 DEF Slots

\* The slots in use are finitely many.
LEMMA UsedFinite == ASSUME NEW t PROVE IsFiniteSet(Used(t))
<1>1. Used(t) \in SUBSET Slots
  BY DEF Used
<1> QED
  BY <1>1, SlotsNat, FS_Subset

\* The search for a free slot in cpuctrl_set_break finds one if there is one.
LEMMA FirstFreeIsFree ==
    ASSUME NEW t, FreeSlots(t) # {}
    PROVE  FirstFree(t) \in FreeSlots(t)
<1>1. FreeSlots(t) \subseteq Nat
  BY SlotsNat DEF FreeSlots
<1> DEFINE R == OpToRel(<, Nat)
<1>2. IsWellFoundedOn(R, Nat)
  BY NatLessThanWellFounded
<1> HIDE DEF R
<1>3. PICK x \in FreeSlots(t) : \A y \in FreeSlots(t) : ~(<<y, x>> \in R)
  BY <1>1, <1>2, WFMin, Zenon
<1>4. ASSUME NEW y \in FreeSlots(t) PROVE x <= y
  <2>1. R = {p \in Nat \X Nat : p[1] < p[2]}
    BY Zenon DEF R, OpToRel
  <2>2. x \in Nat /\ y \in Nat /\ ~(<<y, x>> \in R)
    BY <1>1, <1>3
  <2>3. y < x => <<y, x>> \in R
    BY <2>1, <2>2
  <2> QED
    BY <2>2, <2>3
<1> QED
  BY <1>4 DEF FirstFree

\* In a good table the lookup of cpuctrl_is_break_point, which trusts the counter, is
\* the search of the whole array.
LEMMA LookupIsSearch ==
    ASSUME NEW t, NEW num, GoodTable(t, num), NEW a \in Addr
    PROVE  IsBreakPoint(t, num, a) <=> SearchBreakPoint(t, a)
<1>1. num \in Nat /\ (num = 0 <=> Used(t) = {})
  BY UsedFinite, FS_CardinalityType, FS_EmptySet DEF GoodTable
<1>2. IsSet(t, 0) /\ t[0].addr = 0
  BY DEF GoodTable, IsSet
<1>3. CASE num > 0
  BY <1>3 DEF IsBreakPoint
<1>4. CASE num = 0
  <2>1. \A i \in Slots : IsSet(t, i) => i = 0
    BY <1>1, <1>4 DEF Used
  <2> QED
    BY <1>2, <1>4, <2>1, SlotsNat DEF IsBreakPoint, SearchBreakPoint
<1> QED
  BY <1>1, <1>3, <1>4

\* The initial table is good and holds the break point 0 only.
LEMMA InitTableGood ==
    /\ GoodTable(InitTable, 0)
    /\ \A a \in Addr : SearchBreakPoint(InitTable, a) <=> a = 0
<1>1. InitTable \in [Slots -> Entry]
  BY BreakTableAssumption DEF InitTable, Entry, Free, BreakType
<1>2. \A i \in Slots : IsSet(InitTable, i) <=> i = 0
  BY DEF InitTable, IsSet, Free
<1>3. InitTable[0] = [type |-> "FOREVER", addr |-> 0]
  BY SlotsNat DEF InitTable
<1>4. \A i \in Slots : InitTable[i].type # "ONLY_ONCE"
  BY DEF InitTable, Free
<1>5. Cardinality(Used(InitTable)) = 0
  <2>1. Used(InitTable) = {}
    BY <1>2 DEF Used
  <2> QED
    BY <2>1, FS_EmptySet
<1>6. GoodTable(InitTable, 0)
  BY <1>1, <1>2, <1>3, <1>4, <1>5 DEF GoodTable
<1>7. \A a \in Addr : SearchBreakPoint(InitTable, a) <=> a = 0
  BY <1>2, <1>3, SlotsNat DEF SearchBreakPoint
<1> QED
  BY <1>6, <1>7

\* Setting a break point that lasts keeps the table good and adds its address, if
\* cpuctrl_set_break says so, and changes no other.
LEMMA SetBreakGood ==
    ASSUME NEW t, NEW num, GoodTable(t, num), NEW a \in Addr
    PROVE  /\ GoodTable(SetBreak(t, a, "FOREVER"), num + SetBreakDelta(t, a, "FOREVER"))
           /\ \A b \in Addr : SearchBreakPoint(SetBreak(t, a, "FOREVER"), b) <=>
                 SearchBreakPoint(t, b) \/ (b = a /\ SetBreakOk(t, a, "FOREVER"))
<1> DEFINE k == FirstFree(t)
           e == [type |-> "FOREVER", addr |-> a]
           u == [t EXCEPT ![k] = e]
<1>0. t \in [Slots -> Entry] /\ num \in Nat
  BY UsedFinite, FS_CardinalityType DEF GoodTable
<1>1. SearchBreakPointWithType(t, a, "FOREVER") <=> SearchBreakPoint(t, a)
  <2>1. \A i \in Slots : t[i].type = "FOREVER" <=> IsSet(t, i)
    BY <1>0 DEF GoodTable, Entry, BreakType, IsSet
  <2> QED
    BY <2>1 DEF SearchBreakPointWithType, SearchBreakPoint
<1>2. CASE ~AddsEntry(t, a, "FOREVER")
  <2>1. SetBreak(t, a, "FOREVER") = t /\ num + SetBreakDelta(t, a, "FOREVER") = num
    BY <1>0, <1>2 DEF SetBreak, SetBreakDelta
  <2>2. SetBreakOk(t, a, "FOREVER") => SearchBreakPoint(t, a)
    BY <1>1, <1>2 DEF AddsEntry, SetBreakOk
  <2> QED
    BY <2>1, <2>2
<1>3. CASE AddsEntry(t, a, "FOREVER")
  <2>1. k \in Slots /\ ~IsSet(t, k) /\ ~SearchBreakPoint(t, a) /\ SetBreakOk(t, a, "FOREVER")
    BY <1>1, <1>3, FirstFreeIsFree DEF AddsEntry, FreeSlots, SetBreakOk
  <2>2. SetBreak(t, a, "FOREVER") = u /\ num + SetBreakDelta(t, a, "FOREVER") = num + 1
    BY <1>3 DEF SetBreak, SetBreakDelta
  <2> HIDE DEF k
  <2>3. k # 0
    BY <2>1 DEF GoodTable, IsSet
  <2>4. u \in [Slots -> Entry]
    BY <1>0, <2>1 DEF Entry, BreakType
  <2>5. \A i \in Slots : u[i] = IF i = k THEN e ELSE t[i]
    BY <1>0, <2>1
  <2> HIDE DEF u
  <2>6. \A i \in Slots : IsSet(u, i) <=> (i = k \/ IsSet(t, i))
    BY <2>5 DEF IsSet
  <2>7. Cardinality(Used(u)) = num + 1
    <3>1. Used(u) = Used(t) \cup {k} /\ k \notin Used(t)
      BY <2>1, <2>3, <2>6 DEF Used
    <3> QED
      BY <3>1, UsedFinite, FS_AddElement DEF GoodTable
  <2>8. ASSUME NEW i \in Slots, NEW j \in Slots, IsSet(u, i), IsSet(u, j), u[i].addr = u[j].addr
        PROVE  i = j
    BY <2>1, <2>5, <2>6, <2>8 DEF GoodTable, SearchBreakPoint
  <2>9. \A i \in Slots : u[i].type # "ONLY_ONCE"
    BY <2>5 DEF GoodTable
  <2>10. u[0] = [type |-> "FOREVER", addr |-> 0]
    BY <2>3, <2>5, SlotsNat DEF GoodTable
  <2>11. GoodTable(u, num + 1)
    BY <2>4, <2>7, <2>8, <2>9, <2>10 DEF GoodTable
  <2>12. \A b \in Addr : SearchBreakPoint(u, b) <=> SearchBreakPoint(t, b) \/ b = a
    BY <2>1, <2>5, <2>6 DEF SearchBreakPoint
  <2> QED
    BY <2>1, <2>2, <2>11, <2>12
<1> QED
  BY <1>2, <1>3

\* cpuctrl_del_break on the slot of an address keeps the table good and removes this
\* address, but for the one of slot 0.
LEMMA DelBreakGood ==
    ASSUME NEW t, NEW num, GoodTable(t, num), NEW k \in Slots, IsSet(t, k)
    PROVE  /\ GoodTable(DelBreak(t, k), num - DelBreakDelta(t, k))
           /\ \A b \in Addr : SearchBreakPoint(DelBreak(t, k), b) <=>
                 SearchBreakPoint(t, b) /\ (b # t[k].addr \/ b = 0)
<1>0. t \in [Slots -> Entry] /\ num \in Nat /\ t[0] = [type |-> "FOREVER", addr |-> 0]
  BY UsedFinite, FS_CardinalityType DEF GoodTable
<1>1. CASE k = 0
  <2>1. DelBreak(t, k) = t /\ num - DelBreakDelta(t, k) = num
    BY <1>0, <1>1 DEF DelBreak, DelBreakDelta
  <2> QED
    BY <1>0, <1>1, <2>1
<1>2. CASE k # 0
  <2> DEFINE u == [t EXCEPT ![k] = Free]
  <2>1. DelBreak(t, k) = u /\ num - DelBreakDelta(t, k) = num - 1
    BY <1>2 DEF DelBreak, DelBreakDelta
  <2>2. u \in [Slots -> Entry]
    BY <1>0, BreakTableAssumption DEF Entry, Free
  <2>3. \A i \in Slots : u[i] = IF i = k THEN Free ELSE t[i]
    BY <1>0
  <2> HIDE DEF u
  <2>4. \A i \in Slots : IsSet(u, i) <=> (i # k /\ IsSet(t, i))
    BY <2>3 DEF IsSet, Free
  <2>5. Cardinality(Used(u)) = num - 1
    <3>1. Used(u) = Used(t) \ {k} /\ k \in Used(t)
      BY <1>2, <2>4 DEF Used
    <3> QED
      BY <3>1, UsedFinite, FS_RemoveElement DEF GoodTable
  <2>6. \A i, j \in Slots : IsSet(u, i) /\ IsSet(u, j) /\ u[i].addr = u[j].addr => i = j
    BY <2>3, <2>4 DEF GoodTable
  <2>7. \A i \in Slots : u[i].type # "ONLY_ONCE"
    BY <2>3 DEF GoodTable, Free
  <2>8. u[0] = [type |-> "FOREVER", addr |-> 0]
    BY <1>0, <1>2, <2>3, SlotsNat
  <2>9. GoodTable(u, num - 1)
    BY <2>2, <2>5, <2>6, <2>7, <2>8 DEF GoodTable
  <2>10. ASSUME NEW b \in Addr
         PROVE  SearchBreakPoint(u, b) <=> SearchBreakPoint(t, b) /\ b # t[k].addr
    BY <2>3, <2>4 DEF SearchBreakPoint, GoodTable
  <2>11. t[k].addr # 0
    BY <1>0, <1>2, SlotsNat DEF GoodTable, IsSet
  <2> QED
    BY <2>1, <2>9, <2>10, <2>11
<1> QED
  BY <1>1, <1>2

\* cpuctrl_del_all_break leaves slot 0 only.
LEMMA DelAllBreakGood ==
    ASSUME NEW t, NEW num, GoodTable(t, num)
    PROVE  /\ GoodTable(DelAllBreak(t, "FOREVER"), DelAllBreakNum(t, num, "FOREVER"))
           /\ \A b \in Addr : SearchBreakPoint(DelAllBreak(t, "FOREVER"), b) <=> b = 0
<1> DEFINE u == DelAllBreak(t, "FOREVER")
<1>1. t \in [Slots -> Entry] /\ t[0] = [type |-> "FOREVER", addr |-> 0]
  BY DEF GoodTable
<1>2. \A i \in Slots : u[i] = IF i # 0 /\ t[i].type = "FOREVER" THEN Free ELSE t[i]
  BY DEF DelAllBreak, OfType
<1>3. u \in [Slots -> Entry]
  BY <1>1, BreakTableAssumption DEF DelAllBreak, OfType, Entry, Free
<1> HIDE DEF u
<1>4. \A i \in Slots : IsSet(u, i) <=> i = 0
  <2>1. \A i \in Slots : t[i].type \in {"FOREVER", "FREE"}
    BY <1>1 DEF GoodTable, Entry, BreakType
  <2> QED
    BY <1>1, <1>2, <2>1 DEF IsSet, Free
<1>5. Used(u) = {}
  BY <1>4 DEF Used
<1>6. u[0] = t[0]
  BY <1>2, SlotsNat
<1>7. \A i \in Slots : u[i].type # "ONLY_ONCE"
  BY <1>2 DEF GoodTable, Free
<1>8. Cardinality(Used(u)) = 0
  BY <1>5, FS_EmptySet
<1>9. GoodTable(u, 0)
  BY <1>1, <1>3, <1>4, <1>6, <1>7, <1>8 DEF GoodTable
<1>10. \A b \in Addr : SearchBreakPoint(u, b) <=> b = 0
  <2>1. u[0].addr = 0
    BY <1>1, <1>6
  <2> QED
    BY <1>4, <2>1, SlotsNat DEF SearchBreakPoint
<1> QED
  BY <1>9, <1>10 DEF u, DelAllBreakNum

\* Without one-shot break points their removal changes nothing.
LEMMA NothingOnce ==
    ASSUME NEW t, NEW num, GoodTable(t, num)
    PROVE  /\ OfType(t, "ONLY_ONCE") = {}
           /\ DelAllBreak(t, "ONLY_ONCE") = t
           /\ DelAllBreakNum(t, num, "ONLY_ONCE") = num
<1>1. OfType(t, "ONLY_ONCE") = {}
  BY DEF OfType, GoodTable
<1>2. t \in [Slots -> Entry] /\ num \in Nat
  BY UsedFinite, FS_CardinalityType DEF GoodTable
<1>3. DelAllBreak(t, "ONLY_ONCE") = t
  BY <1>1, <1>2 DEF DelAllBreak
<1>4. DelAllBreakNum(t, num, "ONLY_ONCE") = num
  BY <1>1, <1>2, FS_EmptySet DEF DelAllBreakNum
<1> QED
  BY <1>1, <1>3, <1>4

=============================================================================
