------------------------------ MODULE FifoProofs ------------------------------
(***************************************************************************)
(* The ring buffer of lib/comm_buffer.c and the serial FIFO device that is *)
(* made of two of them.  The ring buffer is correct for every size, every  *)
(* set of bytes and every length of a call: its offsets stay consistent,   *)
(* results are exact, and it implements the bounded queue.  A channel of   *)
(* the device passes every byte on once and in order.                      *)
(***************************************************************************)
EXTENDS CommFifo, SerialFifo, TLAPS

\* Facts about sequences, for whatever they hold.  Concatenation associates.
LEMMA ConcatAssociates ==
    ASSUME NEW S, NEW s \in Seq(S), NEW t \in Seq(S), NEW u \in Seq(S)
    PROVE  (s \o t) \o u = s \o (t \o u) /\ s \o t \in Seq(S)
OBVIOUS

\* The empty sequence adds nothing.
LEMMA ConcatEmpty ==
    ASSUME NEW S, NEW s \in Seq(S)
    PROVE  s \o <<>> = s /\ <<>> \o s = s /\ <<>> \in Seq(S)
OBVIOUS

\* Appending is concatenating one element.
LEMMA Appended ==
    ASSUME NEW S, NEW s \in Seq(S), NEW x \in S
    PROVE  /\ Append(s, x) = s \o <<x>> /\ <<x>> \in Seq(S)
           /\ Append(s, x) \in Seq(S) /\ Len(Append(s, x)) = Len(s) + 1
           /\ \A i \in 1 .. Len(s) : Append(s, x)[i] = s[i]
           /\ Append(s, x)[Len(s) + 1] = x
OBVIOUS

\* A sequence is its head and then its tail.
LEMMA HeadFirst ==
    ASSUME NEW S, NEW s \in Seq(S), s # <<>>
    PROVE  /\ s = <<Head(s)>> \o Tail(s) /\ <<Head(s)>> \in Seq(S)
           /\ Head(s) \in S /\ Tail(s) \in Seq(S) /\ Len(Tail(s)) = Len(s) - 1
           /\ \A i \in 1 .. Len(Tail(s)) : Tail(s)[i] = s[i + 1]
OBVIOUS

\* A sequence is empty when its length is zero.
LEMMA NonEmpty ==
    ASSUME NEW S, NEW s \in Seq(S)
    PROVE  Len(s) \in Nat /\ (s # <<>> <=> Len(s) > 0)
OBVIOUS

\* Sequences with the same elements are the same.
LEMMA SameSeq ==
    ASSUME NEW S, NEW s \in Seq(S), NEW t \in Seq(S), Len(s) = Len(t),
           \A i \in 1 .. Len(s) : s[i] = t[i]
    PROVE  s = t
OBVIOUS

\* What a concatenation consists of.
LEMMA Concatenated ==
    ASSUME NEW S, NEW s \in Seq(S), NEW t \in Seq(S)
    PROVE  /\ s \o t \in Seq(S) /\ Len(s \o t) = Len(s) + Len(t)
           /\ \A i \in 1 .. Len(s) : (s \o t)[i] = s[i]
           /\ \A i \in 1 .. Len(t) : (s \o t)[Len(s) + i] = t[i]
OBVIOUS

\* A sequence that begins with a and goes on with b is their concatenation.
LEMMA Joined ==
    ASSUME NEW S, NEW s \in Seq(S), NEW a \in Seq(S), NEW b \in Seq(S),
           Len(s) = Len(a) + Len(b),
           \A i \in 1 .. Len(a) : a[i] = s[i],
           \A i \in 1 .. Len(b) : b[i] = s[Len(a) + i]
    PROVE  s = a \o b
<1>1. Len(a) \in Nat /\ Len(b) \in Nat
  OBVIOUS
<1>2. a \o b \in Seq(S) /\ Len(a \o b) = Len(s)
  BY Concatenated, Zenon
<1>3. ASSUME NEW i \in 1 .. Len(s) PROVE s[i] = (a \o b)[i]
  <2>1. CASE i <= Len(a)
    <3>1. i \in 1 .. Len(a)
      BY <1>1, <2>1
    <3> QED
      BY <3>1, Concatenated
  <2>2. CASE ~(i <= Len(a))
    <3>1. PICK j \in 1 .. Len(b) : i = Len(a) + j
      <4>1. i - Len(a) \in 1 .. Len(b) /\ i = Len(a) + (i - Len(a))
        BY <1>1, <2>2
      <4> QED
        BY <4>1, Zenon
    <3>2. (a \o b)[Len(a) + j] = b[j] /\ b[j] = s[Len(a) + j]
      BY <3>1, Concatenated
    <3> QED
      BY <3>1, <3>2, Zenon
  <2> QED
    BY <2>1, <2>2, Zenon
<1> QED
  BY <1>2, <1>3, SameSeq, Zenon

\* Cutting a sequence anywhere loses nothing.
LEMMA SplitAt ==
    ASSUME NEW S, NEW s \in Seq(S), NEW n \in 0 .. Len(s)
    PROVE  /\ s = SubSeq(s, 1, n) \o SubSeq(s, n + 1, Len(s))
           /\ SubSeq(s, 1, n) \in Seq(S) /\ Len(SubSeq(s, 1, n)) = n
           /\ SubSeq(s, n + 1, Len(s)) \in Seq(S)
           /\ Len(SubSeq(s, n + 1, Len(s))) = Len(s) - n
<1>1. PICK a : a = SubSeq(s, 1, n)
  BY Zenon
<1>2. PICK b : b = SubSeq(s, n + 1, Len(s))
  BY Zenon
<1>3. a \in Seq(S) /\ Len(a) = n /\ \A i \in 1 .. n : a[i] = s[i]
  BY <1>1
<1>4. b \in Seq(S) /\ Len(b) = Len(s) - n /\ \A i \in 1 .. Len(s) - n : b[i] = s[n + i]
  BY <1>2
<1>5. Len(s) = Len(a) + Len(b)
  BY <1>3, <1>4
<1>6. /\ \A i \in 1 .. Len(a) : a[i] = s[i]
      /\ \A i \in 1 .. Len(b) : b[i] = s[Len(a) + i]
  BY <1>3, <1>4, Zenon
<1>7. s = a \o b
  BY <1>3, <1>4, <1>5, <1>6, Joined, Zenon
<1> QED
  BY <1>1, <1>2, <1>3, <1>4, <1>7, Zenon

-----------------------------------------------------------------------------
(* The ring buffer.                                                         *)

\* The rounds of a call that is being executed add up.
CallInv == call # "none" => left >= 1 /\ res + left = datalen

\* The invariant that a step preserves.
IInv == TypeOK /\ RingInv /\ CallInv /\ ResultExact

-----------------------------------------------------------------------------
\* A buffer as comm_fifo_buffer_create leaves it is in order.
LEMMA InitIInv == Init => IInv
<1> SUFFICES ASSUME Init PROVE IInv
  BY Zenon
<1>1. PICK n \in Sizes : Created(n)
  BY Zenon DEF Init
<1>2. n \in Nat /\ n >= 1
  BY CommFifoAssumption
<1>3. TypeOK
  BY <1>1, <1>2, CommFifoAssumption DEF Init, Created, TypeOK
<1>4. RingInv
  BY <1>1, <1>2 DEF Created, RingInv, Wrap
<1> QED
  BY <1>3, <1>4, Zenon DEF IInv, CallInv, ResultExact, Init

\* The calls' bookkeeping, whatever happens to the ring.
LEMMA BeginKeeps ==
    ASSUME IInv, NEW name \in {"add", "get"}, NEW code \in {"LIMIT", "NOENT"},
           NEW refused \in BOOLEAN, NEW n \in 0 .. MaxLen, Begin(name, refused, code, n)
    PROVE  IInv'
<1>1. TypeOK'
  BY CommFifoAssumption DEF IInv, TypeOK, Begin, ring
<1>2. RingInv'
  BY Zenon DEF IInv, RingInv, Wrap, Begin, ring
<1>3. CallInv' /\ ResultExact'
  BY CommFifoAssumption DEF IInv, TypeOK, CallInv, ResultExact, Begin
<1> QED
  BY <1>1, <1>2, <1>3, Zenon DEF IInv

\* A call that cannot go on ends with its error.
LEMMA FailKeeps ==
    ASSUME IInv, NEW name \in {"add", "get"}, NEW code \in {"LIMIT", "NOENT"},
           Fail(name, code)
    PROVE  IInv'
<1>1. TypeOK'
  BY CommFifoAssumption DEF IInv, TypeOK, Fail, ring
<1>2. RingInv'
  BY Zenon DEF IInv, RingInv, Wrap, Fail, ring
<1>3. CallInv' /\ ResultExact'
  BY Zenon DEF CallInv, ResultExact, Fail
<1> QED
  BY <1>1, <1>2, <1>3, Zenon DEF IInv

\* A round counts one byte and ends the call with the last one.
LEMMA RoundKeeps ==
    ASSUME IInv, NEW name \in {"add", "get"}, Round(name)
    PROVE  /\ call' \in {"none", "add", "get"} /\ err' \in {"OK", "LIMIT", "NOENT"}
           /\ left' \in 0 .. MaxLen /\ res' \in 0 .. MaxLen /\ datalen' \in 0 .. MaxLen
           /\ CallInv' /\ ResultExact'
  BY CommFifoAssumption DEF IInv, TypeOK, CallInv, ResultExact, Round

-----------------------------------------------------------------------------
\* A byte is added behind the last one and within the array.
LEMMA AddByteKeeps ==
    ASSUME IInv, NEW d \in Byte, AddByte(d)
    PROVE  IInv'
<1> USE CommFifoAssumption
<1>1. max_size \in Nat /\ max_size >= 1 /\ max_size \in Sizes
  <2>1. max_size \in Sizes \cup {0} /\ count \in Nat
    BY Zenon DEF IInv, TypeOK
  <2>2. max_size \in Nat
    BY <2>1
  <2>3. ~(count >= max_size)
    BY Zenon DEF AddByte, Full
  <2> QED
    BY <2>1, <2>2, <2>3
<1>2. /\ count \in Nat /\ count < max_size /\ rx_off \in Nat /\ rx_off < max_size
      /\ tx_off = Wrap(rx_off + count) /\ tx_off \in Nat
  BY <1>1 DEF IInv, TypeOK, RingInv, AddByte, Full
<1>3. tx_off < max_size
  BY <1>1, <1>2 DEF Wrap
<1>4. data \in [0 .. max_size - 1 -> Byte]
  BY <1>1, Zenon DEF IInv, TypeOK, RingInv
<1>5. data' \in [0 .. max_size - 1 -> Byte]
  BY <1>4, Zenon DEF AddByte
<1>6. tx_off' \in Nat /\ tx_off' = Wrap(rx_off + count + 1)
  BY <1>1, <1>2 DEF AddByte, Incremented, Wrap
<1>7. UNCHANGED <<max_size, rx_off>> /\ count' = count + 1
  BY Zenon DEF AddByte
<1>8. RingInv'
  BY <1>1, <1>2, <1>5, <1>6, <1>7 DEF RingInv, Wrap
<1>9. TypeOK'
  BY <1>1, <1>2, <1>5, <1>6, <1>7, RoundKeeps DEF AddByte, TypeOK
<1> QED
  BY <1>8, <1>9, RoundKeeps, Zenon DEF IInv, AddByte

\* The oldest byte leaves and the offset follows.
LEMMA GetByteKeeps ==
    ASSUME IInv, GetByte
    PROVE  IInv'
<1> USE CommFifoAssumption
<1>0. /\ count \in Nat \ {0} /\ rx_off \in Nat /\ tx_off \in Nat /\ max_size \in Nat
  <2>1. /\ count \in Nat /\ count # 0 /\ rx_off \in Nat /\ tx_off \in Nat
        /\ max_size \in Sizes \cup {0}
    BY Zenon DEF IInv, TypeOK, GetByte
  <2>2. Sizes \subseteq Nat
    BY Zenon
  <2> QED
    BY ONLY <2>1, <2>2
<1>1. count <= max_size /\ rx_off < max_size /\ tx_off = Wrap(rx_off + count)
  BY <1>0 DEF IInv, RingInv
<1>2. rx_off' \in Nat /\ rx_off' = Wrap(rx_off + 1) /\ rx_off' < max_size
  BY <1>0, <1>1 DEF GetByte, Incremented, Wrap
<1>3. UNCHANGED <<max_size, tx_off, data>> /\ count' = count - 1
  BY Zenon DEF GetByte
<1>4. RingInv'
  BY <1>0, <1>1, <1>2, <1>3 DEF IInv, RingInv, Wrap
<1>5. TypeOK'
  BY <1>0, <1>2, <1>3, RoundKeeps DEF GetByte, IInv, TypeOK
<1> QED
  BY <1>4, <1>5, RoundKeeps, Zenon DEF IInv, GetByte

\* Every action of the ring buffer preserves the invariant.
LEMMA NextIInv == IInv /\ [Next]_vars => IInv'
<1> SUFFICES ASSUME IInv, [Next]_vars PROVE IInv'
  BY Zenon
<1> USE CommFifoAssumption
<1>1. ASSUME NEW n \in 0 .. MaxLen, BeginAdd(n) \/ BeginGet(n)
      PROVE  IInv'
  <2>1. CASE BeginAdd(n)
    BY <2>1, BeginKeeps, Full \in BOOLEAN, Zenon DEF BeginAdd, Full
  <2>2. CASE BeginGet(n)
    BY <2>2, BeginKeeps, Zenon DEF BeginGet
  <2> QED
    BY <1>1, <2>1, <2>2, Zenon
<1>2. CASE AddFails
  BY <1>2, FailKeeps, Zenon DEF AddFails
<1>3. ASSUME NEW d \in Byte, AddByte(d)
      PROVE  IInv'
  BY <1>3, AddByteKeeps, Zenon
<1>4. CASE GetFails
  BY <1>4, FailKeeps, Zenon DEF GetFails
<1>5. CASE GetByte
  BY <1>5, GetByteKeeps, Zenon
<1>6. CASE Close
  <2>1. /\ call = "none" /\ count' = 0 /\ rx_off' = 0 /\ tx_off' = 0
        /\ UNCHANGED <<max_size, data, call, left, res, err, datalen>>
    BY <1>6, Zenon DEF Close
  <2>2. TypeOK' /\ CallInv' /\ ResultExact'
    BY <2>1 DEF IInv, TypeOK, CallInv, ResultExact
  <2>3. max_size \in Nat /\ (max_size # 0 => DOMAIN data = 0 .. max_size - 1)
    BY CommFifoAssumption DEF IInv, TypeOK, RingInv
  <2>4. RingInv'
    BY <2>1, <2>3 DEF RingInv, Wrap
  <2> QED
    BY <2>2, <2>4, Zenon DEF IInv
<1>7. CASE Destroy
  BY <1>7 DEF Destroy, IInv, TypeOK, RingInv, Wrap, CallInv, ResultExact
<1>8. ASSUME NEW n \in Sizes, Create(n)
      PROVE  IInv'
  <2>1. n \in Nat /\ n >= 1 /\ data' \in [0 .. n - 1 -> Byte]
    BY <1>8 DEF Create
  <2>2. TypeOK'
    BY <1>8, <2>1, Zenon DEF Create, IInv, TypeOK
  <2>3. RingInv'
    BY <1>8, <2>1 DEF Create, RingInv, Wrap
  <2> QED
    BY <1>8, <2>2, <2>3, Zenon DEF Create, IInv, CallInv, ResultExact
<1>9. CASE UNCHANGED vars
  BY <1>9, Zenon DEF vars, ring, IInv, TypeOK, RingInv, Wrap, CallInv, ResultExact
<1> QED
  BY <1>1, <1>2, <1>3, <1>4, <1>5, <1>6, <1>7, <1>8, <1>9, Zenon DEF Next

\* The strengthened invariant holds throughout.
THEOREM Invariance == Spec => []IInv
  BY InitIInv, NextIInv, PTL DEF Spec

\* Offsets and count of the ring agree at all times, so that no access leaves the array
\* and no byte is overwritten before it is read (fifo_buffer_add, fifo_buffer_get).
THEOREM RingSafe == Spec => []RingInv
<1>1. IInv => RingInv
  BY Zenon DEF IInv
<1> QED
  BY Invariance, <1>1, PTL

\* A call that reports success has moved all its bytes, whatever its length.
THEOREM ResultsExact == Spec => []ResultExact
<1>1. IInv => ResultExact
  BY Zenon DEF IInv
<1> QED
  BY Invariance, <1>1, PTL

-----------------------------------------------------------------------------
\* c bytes of an array d of m bytes, from offset r on and around its end.
At(k, m) == IF k >= m THEN k - m ELSE k
Window(d, r, c, m) == [i \in 1 .. c |-> d[At(r + i - 1, m)]]

\* What is to be known of it, as one fact.
IsWindow(w, d, r, c, m) ==
    /\ w \in Seq(Byte)
    /\ Len(w) = c
    /\ \A i \in 1 .. c : w[i] = d[At(r + i - 1, m)]

\* The bytes in the ring are a sequence of bytes.
LEMMA WindowSeq ==
    \A m, c, r \in Nat : \A d \in [0 .. m - 1 -> Byte] :
        c <= m /\ r < m =>
        IsWindow(Window(d, r, c, m), d, r, c, m)
<1> TAKE m, c, r \in Nat
<1> TAKE d \in [0 .. m - 1 -> Byte]
<1> HAVE c <= m /\ r < m
<1>1. ASSUME NEW i \in 1 .. c
      PROVE  d[At(r + i - 1, m)] \in Byte
  <2>1. At(r + i - 1, m) \in 0 .. m - 1
    BY DEF At
  <2> QED
    BY <2>1, Zenon
<1>2. Window(d, r, c, m) \in [1 .. c -> Byte]
  BY <1>1, Zenon DEF Window
<1>3. Window(d, r, c, m) \in Seq(Byte)
  BY <1>2
<1>4. Len(Window(d, r, c, m)) = c
  BY <1>2
<1>5. \A i \in 1 .. c : Window(d, r, c, m)[i] = d[At(r + i - 1, m)]
  BY Zenon DEF Window
<1> QED
  BY <1>3, <1>4, <1>5, Zenon DEF IsWindow

\* What IInv says about the ring, in the form WindowSeq needs.
LEMMA RingFacts ==
    ASSUME IInv
    PROVE  /\ max_size \in Nat /\ count \in Nat /\ rx_off \in Nat /\ count <= max_size
           /\ max_size # 0 => rx_off < max_size /\ data \in [0 .. max_size - 1 -> Byte]
           /\ tx_off = Wrap(rx_off + count)
<1>1. max_size \in Nat /\ count \in Nat /\ rx_off \in Nat
  BY CommFifoAssumption DEF IInv, TypeOK
<1>2. /\ count <= max_size /\ tx_off = Wrap(rx_off + count)
      /\ max_size # 0 => rx_off < max_size /\ DOMAIN data = 0 .. max_size - 1
  BY Zenon DEF IInv, RingInv
<1>3. max_size # 0 => data \in [0 .. max_size - 1 -> Byte]
  BY <1>2, Zenon DEF IInv, TypeOK
<1> QED
  BY <1>1, <1>2, <1>3, Zenon

\* fifo_buffer_add is Enqueue.
LEMMA AddByteEnqueues ==
    ASSUME IInv, NEW b \in Byte, AddByte(b)
    PROVE  Queue!Enqueue(b)
<1> DEFINE q == Window(data, rx_off, count, max_size)
           t == Window(data', rx_off, count + 1, max_size)
<1>1. /\ max_size \in Nat /\ count \in Nat /\ rx_off \in Nat /\ count < max_size
      /\ rx_off < max_size /\ data \in [0 .. max_size - 1 -> Byte]
      /\ tx_off = At(rx_off + count, max_size)
  BY RingFacts DEF AddByte, Full, Wrap, At
<1>2. tx_off \in 0 .. max_size - 1
  BY <1>1 DEF At
<1>3. data' \in [0 .. max_size - 1 -> Byte] /\ data' = [data EXCEPT ![tx_off] = b]
  BY <1>1, <1>2, Zenon DEF AddByte
<1>4. /\ q \in Seq(Byte) /\ Len(q) = count
      /\ \A i \in 1 .. count : q[i] = data[At(rx_off + i - 1, max_size)]
  <2>1. count <= max_size
    BY <1>1
  <2>2. IsWindow(q, data, rx_off, count, max_size)
    BY <1>1, <2>1, WindowSeq, Zenon
  <2> HIDE DEF q
  <2> QED
    BY <2>2, Zenon DEF IsWindow
<1>5. /\ t \in Seq(Byte) /\ Len(t) = count + 1
      /\ \A i \in 1 .. count + 1 : t[i] = data'[At(rx_off + i - 1, max_size)]
  <2>1. count + 1 \in Nat /\ count + 1 <= max_size
    BY <1>1
  <2>2. \A e \in [0 .. max_size - 1 -> Byte] :
            IsWindow(Window(e, rx_off, count + 1, max_size), e, rx_off, count + 1, max_size)
    BY <1>1, <2>1, WindowSeq, Zenon
  <2>3. IsWindow(t, data', rx_off, count + 1, max_size)
    BY <1>3, <2>2, Zenon
  <2> HIDE DEF t
  <2> QED
    BY <2>3, Zenon DEF IsWindow
<1> HIDE DEF q, t
<1>6. /\ Append(q, b) \in Seq(Byte) /\ Len(Append(q, b)) = count + 1
      /\ \A i \in 1 .. count : Append(q, b)[i] = q[i]
      /\ Append(q, b)[count + 1] = b
  BY <1>4, Appended
<1>7. ASSUME NEW i \in 1 .. count + 1
      PROVE  t[i] = Append(q, b)[i]
  <2>1. CASE i = count + 1
    BY <1>1, <1>2, <1>3, <1>5, <1>6, <2>1
  <2>2. CASE i \in 1 .. count
    <3>1. /\ At(rx_off + i - 1, max_size) \in 0 .. max_size - 1
          /\ At(rx_off + i - 1, max_size) # tx_off
      BY <1>1, <2>2 DEF At
    <3> QED
      BY <1>1, <1>3, <1>4, <1>5, <1>6, <2>2, <3>1, Zenon
  <2> QED
    BY <1>1, <2>1, <2>2, i = count + 1 \/ i \in 1 .. count, Zenon
<1>8. t = Append(q, b)
  BY <1>1, <1>5, <1>6, <1>7, SameSeq, Zenon
<1>9. Contents = q /\ Contents' = t /\ UNCHANGED max_size
  BY DEF Contents, Wrap, At, Window, q, t, AddByte
<1> QED
  BY <1>1, <1>4, <1>8, <1>9, Zenon DEF Queue!Enqueue

\* fifo_buffer_get is Dequeue.
LEMMA GetByteDequeues ==
    ASSUME IInv, GetByte
    PROVE  Queue!Dequeue
<1> DEFINE q == Window(data, rx_off, count, max_size)
           t == Window(data, At(rx_off + 1, max_size), count - 1, max_size)
<1>1. /\ max_size \in Nat /\ count \in Nat /\ rx_off \in Nat /\ count <= max_size
      /\ count >= 1 /\ rx_off < max_size /\ data \in [0 .. max_size - 1 -> Byte]
  BY RingFacts DEF GetByte
<1>2. At(rx_off + 1, max_size) \in 0 .. max_size - 1
  BY <1>1 DEF At
<1>3. /\ q \in Seq(Byte) /\ Len(q) = count
      /\ \A i \in 1 .. count : q[i] = data[At(rx_off + i - 1, max_size)]
  <2>1. IsWindow(q, data, rx_off, count, max_size)
    BY <1>1, WindowSeq, Zenon
  <2> HIDE DEF q
  <2> QED
    BY <2>1, Zenon DEF IsWindow
<1>4. /\ t \in Seq(Byte) /\ Len(t) = count - 1
      /\ \A i \in 1 .. count - 1 : t[i] = data[At(At(rx_off + 1, max_size) + i - 1, max_size)]
  <2>1. count - 1 \in Nat /\ count - 1 <= max_size /\ At(rx_off + 1, max_size) \in Nat
        /\ At(rx_off + 1, max_size) < max_size
    BY <1>1, <1>2
  <2>2. IsWindow(t, data, At(rx_off + 1, max_size), count - 1, max_size)
    BY <1>1, <2>1, WindowSeq, Zenon
  <2> HIDE DEF t
  <2> QED
    BY <2>2, Zenon DEF IsWindow
<1> HIDE DEF q, t
<1>5. q # <<>>
  BY <1>1, <1>3
<1>6. /\ Tail(q) \in Seq(Byte) /\ Len(Tail(q)) = count - 1
      /\ \A i \in 1 .. count - 1 : Tail(q)[i] = q[i + 1]
  BY <1>3, <1>5, HeadFirst, Zenon
<1>7. ASSUME NEW i \in 1 .. count - 1
      PROVE  t[i] = Tail(q)[i]
  <2>1. i + 1 \in 1 .. count
    BY <1>1
  <2>2. At(At(rx_off + 1, max_size) + i - 1, max_size) = At(rx_off + (i + 1) - 1, max_size)
    BY <1>1 DEF At
  <2> QED
    BY <1>3, <1>4, <1>6, <2>1, <2>2, Zenon
<1>8. t = Tail(q)
  BY <1>1, <1>4, <1>6, <1>7, SameSeq, Zenon
<1>9. rx_off' = At(rx_off + 1, max_size) /\ count' = count - 1 /\ UNCHANGED <<max_size, data>>
  BY <1>1 DEF GetByte, Incremented, At
<1>10. Contents = q /\ Contents' = t
  BY <1>9, Zenon DEF Contents, Wrap, At, Window, q, t
<1> QED
  BY <1>5, <1>8, <1>9, <1>10, Zenon DEF Queue!Dequeue

\* An empty ring is the empty queue, and a ring left alone an unchanged one.
LEMMA EmptyContents ==
    ASSUME NEW d, NEW r, NEW m
    PROVE  Window(d, r, 0, m) = <<>>
  BY DEF Window

\* Every step is a step of the queue or leaves it alone.
LEMMA NextIsQueueStep ==
    IInv /\ [Next]_vars => [Queue!Next]_<<Contents, max_size>>
<1> SUFFICES ASSUME IInv, [Next]_vars
             PROVE  [Queue!Next]_<<Contents, max_size>>
  BY Zenon
<1>1. ASSUME UNCHANGED ring
      PROVE  UNCHANGED <<Contents, max_size>>
  BY <1>1, Zenon DEF ring, Contents, Wrap
<1>2. CASE \E n \in 0 .. MaxLen : BeginAdd(n) \/ BeginGet(n)
  BY <1>1, <1>2, Zenon DEF BeginAdd, BeginGet, Begin
<1>3. CASE AddFails \/ GetFails
  BY <1>1, <1>3, Zenon DEF AddFails, GetFails, Fail
<1>4. ASSUME NEW d \in Byte, AddByte(d)
      PROVE  Queue!Next
  BY <1>4, AddByteEnqueues, Zenon DEF Queue!Next
<1>5. CASE GetByte
  BY <1>5, GetByteDequeues, Zenon DEF Queue!Next
<1>6. ASSUME count' = 0, max_size' \in Sizes \cup {0, max_size}
      PROVE  Queue!Next
  <2>1. Contents' = Window(data', rx_off', 0, max_size')
    BY <1>6, Zenon DEF Contents, Window, Wrap, At
  <2> QED
    BY <1>6, <2>1, EmptyContents, Zenon DEF Queue!Next, Queue!Empty
<1>7. CASE Close \/ Destroy \/ \E n \in Sizes : Create(n)
  BY <1>6, <1>7, Zenon DEF Close, Destroy, Create
<1>8. CASE UNCHANGED vars
  BY <1>1, <1>8, Zenon DEF vars
<1> QED
  BY <1>2, <1>3, <1>4, <1>5, <1>7, <1>8, Zenon DEF Next

\* The ring buffer implements the bounded queue: bytes come out in the order they went
\* in, none lost and none twice, for every size and every sequence of calls.
THEOREM RingIsQueue == Spec => IsQueue
<1>1. Init => Queue!Init
  <2> SUFFICES ASSUME Init PROVE Queue!Init
    BY Zenon
  <2>1. count = 0 /\ max_size \in Sizes
    BY Zenon DEF Init, Created
  <2>2. Contents = Window(data, rx_off, 0, max_size)
    BY <2>1, Zenon DEF Contents, Window, Wrap, At
  <2> QED
    BY <2>1, <2>2, EmptyContents, Zenon DEF Queue!Init
<1> QED
  BY <1>1, NextIsQueueStep, Invariance, PTL DEF Spec, IsQueue, Queue!Spec

-----------------------------------------------------------------------------
(* The serial FIFO device.                                                  *)

\* The bytes of the host are numbered; one more is appended to them.
LEMMA Counted ==
    ASSUME NEW n \in Nat
    PROVE  [i \in 1 .. n + 1 |-> i] = [i \in 1 .. n |-> i] \o <<n + 1>>
OBVIOUS

\* A byte the program writes has its place in wr_dev_buffer from the look at the status
\* on: no other byte is under way to it, and only the program fills it.
WriteControl ==
    /\ wcmd = "MOVE" => prog = "wgap" /\ tick \in {"read_status", "read_cmd", "write"}
    /\ wcmd = "MOVE" \/ prog \in {"wptr", "wmove"} => Len(wr_dev) < DevSize
    /\ prog = "wstatus" /\ tick \in {"intr", "cpu"} /\ wstatus = "CAN_DATA" =>
          Len(wr_dev) < DevSize
    /\ prog = "wptr" => Len(out) < MaxOut
    /\ prog = "wmove" => wptr \in OutBytes
    /\ prog = "wgap" => wait >= 1

\* A byte the program asks for is there from the look at the status on: only the
\* program takes bytes.
ReadControl ==
    /\ rcmd = "MOVE" <=> prog = "rptr" /\ tick \in {"read_status", "read_cmd"}
    /\ rcmd = "MOVE" \/ prog = "rmove" => rd # <<>>
    /\ prog = "rstatus" /\ tick # "read_status" /\ rstatus = "DATA_IN" => rd # <<>>

\* The invariant that a step preserves.
SerialInv ==
    /\ FifoSound
    /\ WriteControl
    /\ ReadControl
    /\ rx = "read" => Len(rd) < BufferSize

\* A channel as it is created is in order.
LEMMA SerialInitInv == SerialInit => SerialInv
<1> SUFFICES ASSUME SerialInit PROVE SerialInv
  BY Zenon
<1> USE SerialFifoAssumption DEF SerialInit
<1>1. SerialTypeOK
  <2>1. <<>> \in Seq(InBytes) /\ <<>> \in Seq(OutBytes) /\ Len(<<>>) = 0
    OBVIOUS
  <2>2. NoByte \in InBytes /\ NoByte \in OutBytes /\ 0 \in InBytes
    BY DEF OutBytes, InBytes, NoByte
  <2> QED
    <3>1. /\ rd \in Seq(InBytes) /\ Len(rd) <= BufferSize /\ wr \in Seq(OutBytes)
          /\ Len(wr) <= BufferSize /\ wr_dev \in Seq(OutBytes) /\ Len(wr_dev) <= DevSize
          /\ out \in Seq(OutBytes) /\ delivered \in Seq(OutBytes) /\ got \in Seq(InBytes)
      BY <2>1
    <3>2. rd_delay \in 0 .. Delay /\ wr_delay \in 0 .. Delay /\ wait \in 0 .. Gap
      OBVIOUS
    <3> QED
      BY <2>2, <3>1, <3>2, Zenon DEF SerialTypeOK
<1>2. WrittenBytesKept /\ ReadBytesKept
  BY DEF WrittenBytesKept, ReadBytesKept
<1>3. ThreadAssertsHold /\ WriteControl /\ ReadControl /\ (rx = "read" => Len(rd) < BufferSize)
  BY Zenon DEF ThreadAssertsHold, WriteControl, ReadControl, OutBytes, NoByte
<1> QED
  BY <1>1, <1>2, <1>3, Zenon DEF SerialInv, FifoSound

\* do_serial_fifo_cpu_write_tx moves bytes from wr_dev_buffer to wr, in order.
LEMMA TxMoves ==
    ASSUME SerialInv, WriteTx
    PROVE  /\ wr' \in Seq(OutBytes) /\ Len(wr') <= BufferSize
           /\ wr_dev' \in Seq(OutBytes) /\ Len(wr_dev') <= Len(wr_dev) /\ Len(wr_dev') \in Nat
           /\ wr # <<>> => wr' # <<>>
           /\ wr' \o wr_dev' = wr \o wr_dev
<1>0. PICK n, moved, rest :
           /\ n = SmallerOf(Len(wr_dev), BufferSize - Len(wr))
           /\ moved = SubSeq(wr_dev, 1, n) /\ rest = SubSeq(wr_dev, n + 1, Len(wr_dev))
  BY Zenon
<1>1. wr' = wr \o moved /\ wr_dev' = rest
  BY <1>0, Zenon DEF WriteTx
<1>2. /\ wr \in Seq(OutBytes) /\ wr_dev \in Seq(OutBytes)
      /\ Len(wr_dev) <= DevSize /\ Len(wr) <= BufferSize
      /\ BufferSize \in Nat /\ Len(wr) \in Nat /\ Len(wr_dev) \in Nat
  BY SerialFifoAssumption DEF SerialInv, FifoSound, SerialTypeOK
<1>3. n \in 0 .. Len(wr_dev) /\ n <= BufferSize - Len(wr)
  BY <1>0, <1>2 DEF SmallerOf
<1>4. /\ moved \in Seq(OutBytes) /\ Len(moved) = n /\ wr_dev = moved \o rest
      /\ rest \in Seq(OutBytes) /\ Len(rest) = Len(wr_dev) - n
  BY <1>0, <1>2, <1>3, SplitAt, Zenon
<1>5. wr' \in Seq(OutBytes) /\ Len(wr') = Len(wr) + n
  BY <1>1, <1>2, <1>4, Concatenated, Zenon
<1>6. wr' \o wr_dev' = wr \o wr_dev
  <2>1. wr \in Seq(OutBytes) /\ moved \in Seq(OutBytes) /\ rest \in Seq(OutBytes)
    BY <1>2, <1>4, Zenon
  <2>2. (wr \o moved) \o rest = wr \o (moved \o rest)
    BY <2>1, ConcatAssociates
  <2> QED
    BY <1>1, <1>4, <2>2, Zenon
<1>7. wr # <<>> => wr' # <<>>
  BY <1>2, <1>3, <1>5, NonEmpty
<1> QED
  BY <1>1, <1>2, <1>3, <1>4, <1>5, <1>6, <1>7

\* The work of a clock, the threads and the program keep the types and the sizes.
LEMMA DeviceKeepsType ==
    ASSUME SerialInv, Device PROVE SerialTypeOK'
<1> USE SerialFifoAssumption
        DEF SerialInv, FifoSound, fifo, intr, rregs, wregs, txvars, rxvars, program
<1>1. CASE ReadStatus
  <2>1. rd_delay' \in 0 .. Delay /\ rd_raise' \in BOOLEAN
    <3>1. rd_delay \in 0 .. Delay /\ rd_raise \in BOOLEAN /\ Delay \in 0 .. Delay
      BY DEF SerialTypeOK
    <3>2. (rd_delay' = Delay /\ rd_raise' = TRUE) \/ (rd_delay' = rd_delay /\ rd_raise' = rd_raise)
      BY <1>1, Zenon DEF ReadStatus
    <3> QED
      BY <3>1, <3>2, Zenon
  <2>2. rstatus' \in {"NO_DATA", "DATA_IN"} /\ tick' = "read_cmd"
    BY <1>1, Zenon DEF ReadStatus
  <2> QED
    BY <1>1, <2>1, <2>2 DEF ReadStatus, SerialTypeOK
<1>2. CASE ReadCommand
  <2>1. rd' \in Seq(InBytes) /\ Len(rd') <= BufferSize /\ rptr' \in InBytes
    <3>1. CASE rcmd = "MOVE" /\ rd # <<>>
      <4>1. rptr' = Head(rd) /\ rd' = Tail(rd)
        BY <1>2, <3>1, Zenon DEF ReadCommand
      <4>2. rd \in Seq(InBytes) /\ Len(rd) <= BufferSize
        BY Zenon DEF SerialTypeOK
      <4> QED
        BY <3>1, <4>1, <4>2, HeadFirst
    <3>2. CASE ~(rcmd = "MOVE" /\ rd # <<>>)
      BY <1>2, <3>2, Zenon DEF ReadCommand, SerialTypeOK
    <3> QED
      BY <3>1, <3>2, Zenon
  <2> QED
    BY <1>2, <2>1 DEF ReadCommand, SerialTypeOK
<1>3. CASE WriteMove
  BY <1>3, Appended DEF WriteMove, WriteStatus, SerialTypeOK
<1>4. CASE WriteTx
  <2>4. /\ wr' \in Seq(OutBytes) /\ Len(wr') <= BufferSize
        /\ wr_dev' \in Seq(OutBytes) /\ Len(wr_dev') <= DevSize
    BY <1>4, TxMoves DEF SerialTypeOK
  <2>5. /\ wr_delay' \in 0 .. Delay /\ wr_raise' \in BOOLEAN
        /\ wcmd' \in {"NONE", "MOVE", "TX"} /\ wstatus' \in {"CAN_DATA", "DATA_FULL"}
    <3>1. wr_delay \in 0 .. Delay /\ wr_raise \in BOOLEAN /\ Delay \in 0 .. Delay
      BY DEF SerialTypeOK
    <3>2. (wr_delay' = Delay /\ wr_raise' = TRUE) \/ (wr_delay' = wr_delay /\ wr_raise' = wr_raise)
      BY <1>4, Zenon DEF WriteTx
    <3>3. wcmd' \in {"NONE", "TX"} /\ wstatus' \in {"CAN_DATA", "DATA_FULL"}
      BY <1>4, Zenon DEF WriteTx, WriteStatus
    <3> QED
      BY <3>1, <3>2, <3>3, Zenon
  <2>6. /\ tick' = "intr"
        /\ UNCHANGED <<rd, rd_raise, rd_delay, rd_int, wr_int, rregs, wptr, txvars, rxvars,
                       program>>
    BY <1>4, Zenon DEF WriteTx
  <2> QED
    BY <2>4, <2>5, <2>6 DEF SerialTypeOK
<1>5. CASE RaiseIntr
  BY <1>5 DEF RaiseIntr, SerialTypeOK
<1> QED
  BY <1>1, <1>2, <1>3, <1>4, <1>5, Zenon DEF Device

\* Likewise the threads.
LEMMA ThreadsKeepType ==
    ASSUME SerialInv, TxThread \/ RxThread PROVE SerialTypeOK'
<1> USE SerialFifoAssumption
        DEF SerialInv, FifoSound, fifo, intr, rregs, wregs, txvars, rxvars, program
<1>1. CASE TxCheck
  BY <1>1 DEF TxCheck, SerialTypeOK
<1>2. CASE TxGet
  BY <1>2, HeadFirst DEF TxGet, SerialTypeOK
<1>3. CASE TxPut
  BY <1>3, Appended DEF TxPut, SerialTypeOK
<1>4. CASE RxCheck
  BY <1>4 DEF RxCheck, SerialTypeOK
<1>5. CASE RxRead
  BY <1>5 DEF RxRead, SerialTypeOK, InBytes
<1>6. CASE RxAdd
  BY <1>6, Appended DEF RxAdd, SerialTypeOK
<1> QED
  BY <1>1, <1>2, <1>3, <1>4, <1>5, <1>6, Zenon DEF TxThread, RxThread

\* Likewise the program.
LEMMA ProgramKeepsType ==
    ASSUME SerialInv, DriverStep PROVE SerialTypeOK'
<1> USE SerialFifoAssumption
        DEF SerialInv, FifoSound, fifo, intr, rregs, wregs, txvars, rxvars, program,
            RegisterAccess, WriteControl
<1>1. CASE ProgIdle
  BY <1>1, Zenon DEF ProgIdle, SerialTypeOK
<1>2. CASE ProgBegin
  BY <1>2 DEF ProgBegin, SerialTypeOK
<1>3. CASE ProgWriteStatus
  BY <1>3 DEF ProgWriteStatus, SerialTypeOK
<1>4. CASE ProgWritePtr
  BY <1>4 DEF ProgWritePtr, SerialTypeOK, OutBytes
<1>5. CASE ProgWriteMove
  BY <1>5, Appended, SMTT(30) DEF ProgWriteMove, SerialTypeOK
<1>6. CASE ProgGap
  BY <1>6 DEF ProgGap, SerialTypeOK
<1>7. CASE ProgWriteTx
  BY <1>7 DEF ProgWriteTx, SerialTypeOK
<1>8. CASE ProgReadStatus
  BY <1>8, SMTT(30) DEF ProgReadStatus, SerialTypeOK
<1>9. CASE ProgReadMove
  BY <1>9 DEF ProgReadMove, SerialTypeOK
<1>10. CASE ProgReadPtr
  BY <1>10, Appended, SMTT(30) DEF ProgReadPtr, SerialTypeOK
<1> QED
  BY <1>1, <1>2, <1>3, <1>4, <1>5, <1>6, <1>7, <1>8, <1>9, <1>10, Zenon DEF DriverStep

\* What a status register or a count said still holds when it is acted on, if the
\* program leaves the device a clock between two bytes.
LEMMA ControlKept ==
    ASSUME SerialInv, Gap # 0, Device \/ DriverStep \/ TxThread \/ RxThread
    PROVE  /\ WriteControl' /\ ReadControl' /\ ThreadAssertsHold'
           /\ (rx = "read" => Len(rd) < BufferSize)'
<1> USE SerialFifoAssumption
        DEF SerialInv, FifoSound, fifo, intr, rregs, wregs, txvars, rxvars, program,
            RegisterAccess,
        WriteControl, ReadControl, ThreadAssertsHold
<1>1. CASE ReadStatus
  BY <1>1, Zenon DEF ReadStatus
<1>2. CASE ReadCommand
  BY <1>2, HeadFirst, SMTT(30) DEF ReadCommand, SerialTypeOK
<1>3. CASE WriteMove
  BY <1>3, Appended, SMTT(30) DEF WriteMove, WriteStatus, SerialTypeOK
<1>4. CASE WriteTx
  <2>1. Len(wr_dev') <= Len(wr_dev) /\ (wr # <<>> => wr' # <<>>)
    BY <1>4, TxMoves, Zenon
  <2>2. wcmd' \in {"NONE", "TX"} /\ (wstatus' = "CAN_DATA" => Len(wr_dev) < DevSize)
    BY <1>4 DEF WriteTx, WriteStatus
  <2>3. Len(wr_dev) \in Nat /\ Len(wr_dev') \in Nat
    BY <1>4, TxMoves, SMTT(30) DEF SerialTypeOK
  <2>4. /\ tick = "write" /\ tick' = "intr" /\ wcmd = "TX"
        /\ UNCHANGED <<rd, rregs, wptr, txvars, rxvars, program>>
    BY <1>4, Zenon DEF WriteTx
  <2> QED
    BY <2>1, <2>2, <2>3, <2>4
<1>5. CASE RaiseIntr
  BY <1>5, Zenon DEF RaiseIntr
<1>6. CASE TxCheck
  BY <1>6, Zenon DEF TxCheck
<1>7. CASE TxGet
  BY <1>7, HeadFirst, Zenon DEF TxGet
<1>8. CASE TxPut
  BY <1>8, Appended, Zenon DEF TxPut
<1>9. CASE RxCheck
  BY <1>9, Zenon DEF RxCheck
<1>10. CASE RxRead
  BY <1>10, Zenon DEF RxRead
<1>11. CASE RxAdd
  <2>1. rd' # <<>>
    <3>1. rd \in Seq(InBytes) /\ rxdata \in InBytes /\ rd' = Append(rd, rxdata)
      BY <1>11, Zenon DEF RxAdd, SerialTypeOK
    <3> QED
      BY <3>1
  <2> QED
    BY <1>11, <2>1, Zenon DEF RxAdd
<1>12. CASE ProgIdle
  BY <1>12, Zenon DEF ProgIdle
<1>13. CASE ProgBegin
  BY <1>13, Zenon DEF ProgBegin
<1>14. CASE ProgWriteStatus
  BY <1>14, Zenon DEF ProgWriteStatus
<1>15. CASE ProgWritePtr
  BY <1>15 DEF ProgWritePtr, OutBytes, SerialTypeOK
<1>16. CASE ProgWriteMove
  BY <1>16, Appended, SMTT(30) DEF ProgWriteMove, SerialTypeOK
<1>17. CASE ProgGap
  BY <1>17 DEF ProgGap, SerialTypeOK
<1>18. CASE ProgWriteTx
  BY <1>18, Zenon DEF ProgWriteTx
<1>19. CASE ProgReadStatus
  BY <1>19, Zenon DEF ProgReadStatus
<1>20. CASE ProgReadMove
  BY <1>20, Zenon DEF ProgReadMove
<1>21. CASE ProgReadPtr
  BY <1>21, Zenon DEF ProgReadPtr
<1> QED
  BY <1>1, <1>2, <1>3, <1>4, <1>5, <1>6, <1>7, <1>8, <1>9, <1>10, <1>11, <1>12, <1>13,
     <1>14, <1>15, <1>16,
     <1>17, <1>18, <1>19, <1>20, <1>21, Zenon DEF DriverStep, Device, TxThread, RxThread

\* The byte in the hands of the TX thread, and the one under way to wr_dev_buffer.
Sent == IF tx = "put" THEN <<txdata>> ELSE <<>>
Coming == IF wcmd = "MOVE" THEN <<wptr>> ELSE <<>>

\* Where the bytes are that the program has written.
LEMMA WrittenTypes ==
    ASSUME SerialInv
    PROVE  /\ out \in Seq(OutBytes) /\ delivered \in Seq(OutBytes) /\ Sent \in Seq(OutBytes)
           /\ wr \in Seq(OutBytes) /\ wr_dev \in Seq(OutBytes) /\ Coming \in Seq(OutBytes)
           /\ wptr \in OutBytes /\ txdata \in OutBytes
           /\ out = (((delivered \o Sent) \o wr) \o wr_dev) \o Coming
  BY DEF SerialInv, FifoSound, SerialTypeOK, WrittenBytesKept, Sent, Coming

\* No step loses, repeats or reorders a byte the program has written.
LEMMA WrittenKept ==
    ASSUME SerialInv, Gap # 0, Device \/ DriverStep \/ TxThread \/ RxThread
    PROVE  WrittenBytesKept'
<1> USE DEF fifo, intr, rregs, wregs, txvars, rxvars, program, RegisterAccess
<1>0. SUFFICES out' = (((delivered' \o Sent') \o wr') \o wr_dev') \o Coming'
  BY Zenon DEF WrittenBytesKept, Sent, Coming
<1>1. CASE WriteMove
  <2>1. CASE wcmd = "MOVE"
    <3>1. /\ Coming = <<wptr>> /\ Coming' = <<>> /\ Sent' = Sent
          /\ UNCHANGED <<out, delivered, wr>> /\ wr_dev' = Append(wr_dev, wptr)
      BY <1>1, <2>1, Zenon DEF WriteMove, Coming, Sent, SerialInv, WriteControl
    <3>2. wr_dev' = wr_dev \o Coming /\ wr_dev' \in Seq(OutBytes)
      BY <3>1, WrittenTypes, Appended
    <3>3. /\ delivered \o Sent \in Seq(OutBytes) /\ (delivered \o Sent) \o wr \in Seq(OutBytes)
      BY WrittenTypes, Concatenated, Zenon
    <3>4. out = ((delivered \o Sent) \o wr) \o wr_dev'
      <4>0. PICK p : p = (delivered \o Sent) \o wr
        BY Zenon
      <4>1. p \in Seq(OutBytes) /\ wr_dev \in Seq(OutBytes) /\ Coming \in Seq(OutBytes)
        BY <3>3, <4>0, WrittenTypes, Zenon
      <4>2. (p \o wr_dev) \o Coming = p \o (wr_dev \o Coming)
        BY <4>1, ConcatAssociates
      <4> QED
        BY <3>2, <4>0, <4>2, WrittenTypes, Zenon
    <3>5. ((delivered \o Sent) \o wr) \o wr_dev' \in Seq(OutBytes)
      BY <3>2, <3>3, Concatenated, Zenon
    <3> QED
      BY <3>1, <3>4, <3>5, ConcatEmpty, Zenon
  <2>2. CASE wcmd # "MOVE"
    BY <1>1, <2>2, WrittenTypes, Zenon DEF WriteMove, Coming, Sent
  <2> QED
    BY <2>1, <2>2, Zenon
<1>2. CASE WriteTx
  <2>1. Coming = <<>> /\ Coming' = <<>> /\ Sent' = Sent /\ UNCHANGED <<out, delivered>>
    BY <1>2, Zenon DEF WriteTx, Coming, Sent
  <2>2. wr' \o wr_dev' = wr \o wr_dev /\ wr' \in Seq(OutBytes) /\ wr_dev' \in Seq(OutBytes)
    BY <1>2, TxMoves, Zenon
  <2>3. delivered \o Sent \in Seq(OutBytes)
    BY WrittenTypes, Concatenated, Zenon
  <2>4. ((delivered \o Sent) \o wr') \o wr_dev' = ((delivered \o Sent) \o wr) \o wr_dev
    <3>0. PICK p : p = delivered \o Sent
      BY Zenon
    <3>1. p \in Seq(OutBytes)
      BY <2>3, <3>0, Zenon
    <3>2. (p \o wr') \o wr_dev' = p \o (wr' \o wr_dev')
      <4>1. wr' \in Seq(OutBytes) /\ wr_dev' \in Seq(OutBytes)
        BY <2>2, Zenon
      <4> QED
        BY <3>1, <4>1, ConcatAssociates
    <3>3. (p \o wr) \o wr_dev = p \o (wr \o wr_dev)
      <4>1. wr \in Seq(OutBytes) /\ wr_dev \in Seq(OutBytes)
        BY WrittenTypes, Zenon
      <4> QED
        BY <3>1, <4>1, ConcatAssociates
    <3> QED
      BY <2>2, <3>0, <3>2, <3>3, Zenon
  <2> QED
    BY <2>1, <2>4, WrittenTypes, Zenon
<1>3. CASE TxGet
  <2>1. /\ Sent = <<>> /\ Sent' = <<Head(wr)>> /\ wr' = Tail(wr) /\ wr # <<>>
        /\ Coming' = Coming /\ UNCHANGED <<out, delivered, wr_dev>>
    BY <1>3, Zenon DEF TxGet, Sent, Coming
  <2>2. wr = Sent' \o wr' /\ Sent' \in Seq(OutBytes) /\ wr' \in Seq(OutBytes)
    BY <2>1, WrittenTypes, HeadFirst, Zenon
  <2>3. delivered \o Sent = delivered
    BY <2>1, WrittenTypes, ConcatEmpty, Zenon
  <2>4. (delivered \o Sent') \o wr' = delivered \o wr
    <3>1. delivered \in Seq(OutBytes) /\ Sent' \in Seq(OutBytes) /\ wr' \in Seq(OutBytes)
      BY <2>2, WrittenTypes, Zenon
    <3>2. (delivered \o Sent') \o wr' = delivered \o (Sent' \o wr')
      BY <3>1, ConcatAssociates
    <3> QED
      BY <2>2, <3>2, Zenon
  <2> QED
    BY <2>1, <2>3, <2>4, WrittenTypes, Zenon
<1>4. CASE TxPut
  <2>1. /\ Sent = <<txdata>> /\ Sent' = <<>> /\ delivered' = Append(delivered, txdata)
        /\ Coming' = Coming /\ UNCHANGED <<out, wr, wr_dev>>
    BY <1>4, Zenon DEF TxPut, Sent, Coming
  <2>2. delivered' = delivered \o Sent /\ delivered' \in Seq(OutBytes)
    BY <2>1, WrittenTypes, Appended
  <2>3. delivered' \o Sent' = delivered \o Sent
    BY <2>1, <2>2, ConcatEmpty, Zenon
  <2> QED
    BY <2>1, <2>3, WrittenTypes, Zenon
<1>5. CASE ProgWriteMove
  <2>1. /\ Coming = <<>> /\ Coming' = <<wptr>> /\ Sent' = Sent /\ out' = Append(out, wptr)
        /\ UNCHANGED <<delivered, wr, wr_dev>>
    BY <1>5, Zenon DEF ProgWriteMove, Sent, Coming, SerialInv, WriteControl
  <2>2. out' = out \o Coming'
    BY <2>1, WrittenTypes, Appended
  <2>3. delivered \o Sent \in Seq(OutBytes) /\ (delivered \o Sent) \o wr \in Seq(OutBytes)
    BY WrittenTypes, Concatenated, Zenon
  <2>4. ((delivered \o Sent) \o wr) \o wr_dev \in Seq(OutBytes)
    BY <2>3, WrittenTypes, Concatenated, Zenon
  <2>5. out = ((delivered \o Sent) \o wr) \o wr_dev
    BY <2>1, <2>4, WrittenTypes, ConcatEmpty, Zenon
  <2> QED
    BY <2>1, <2>2, <2>5, Zenon
<1>6. CASE ~(WriteMove \/ WriteTx \/ TxGet \/ TxPut \/ ProgWriteMove)
  <2>1. UNCHANGED <<out, delivered, wr, wr_dev, txdata>>
    BY <1>6, Zenon DEF Device, DriverStep, TxThread, RxThread, ReadStatus, ReadCommand, RaiseIntr, TxCheck,
                RxCheck, RxRead, RxAdd, ProgIdle, ProgBegin, ProgWriteStatus, ProgWritePtr, ProgGap,
                ProgWriteTx, ProgReadStatus, ProgReadMove, ProgReadPtr
  <2>2. tx' = "put" <=> tx = "put"
    BY <1>6, Zenon DEF Device, DriverStep, TxThread, RxThread, ReadStatus, ReadCommand, RaiseIntr, TxCheck,
                RxCheck, RxRead, RxAdd, ProgIdle, ProgBegin, ProgWriteStatus, ProgWritePtr, ProgGap,
                ProgWriteTx, ProgReadStatus, ProgReadMove, ProgReadPtr
  <2>3. UNCHANGED <<wcmd, wptr>> \/ (wcmd # "MOVE" /\ wcmd' # "MOVE")
    BY <1>6, Zenon DEF Device, DriverStep, TxThread, RxThread, ReadStatus, ReadCommand, RaiseIntr, TxCheck,
                RxCheck, RxRead, RxAdd, ProgIdle, ProgBegin, ProgWriteStatus, ProgWritePtr, ProgGap,
                ProgWriteTx, ProgReadStatus, ProgReadMove, ProgReadPtr, SerialInv, WriteControl
  <2>4. Sent' = Sent /\ Coming' = Coming
    BY <2>1, <2>2, <2>3, Zenon DEF Sent, Coming
  <2> QED
    BY <2>1, <2>4, WrittenTypes, Zenon
<1> QED
  BY <1>1, <1>2, <1>3, <1>4, <1>5, <1>6, Zenon

\* The byte in the read register that the program has still to take, and the one in the
\* hands of the RX thread.
Shown == IF prog = "rptr" /\ rcmd = "NONE" THEN <<rptr>> ELSE <<>>
Received == IF rx = "add" THEN <<rxdata>> ELSE <<>>

\* Where the bytes are that the host has sent.
LEMMA ReadTypes ==
    ASSUME SerialInv
    PROVE  /\ got \in Seq(InBytes) /\ Shown \in Seq(InBytes) /\ rd \in Seq(InBytes)
           /\ Received \in Seq(InBytes) /\ rptr \in InBytes /\ rxdata \in InBytes
           /\ [i \in 1 .. in |-> i] = ((got \o Shown) \o rd) \o Received
<1>1. /\ got \in Seq(InBytes) /\ rd \in Seq(InBytes) /\ rptr \in InBytes /\ rxdata \in InBytes
  BY Zenon DEF SerialInv, FifoSound, SerialTypeOK
<1>2. Shown \in Seq(InBytes) /\ Received \in Seq(InBytes)
  BY <1>1 DEF Shown, Received
<1>3. [i \in 1 .. in |-> i] = ((got \o Shown) \o rd) \o Received
  BY Zenon DEF SerialInv, FifoSound, ReadBytesKept, Shown, Received
<1> QED
  BY <1>1, <1>2, <1>3, Zenon

\* No step loses, repeats or reorders a byte of the host.
LEMMA ReadKept ==
    ASSUME SerialInv, Device \/ DriverStep \/ TxThread \/ RxThread
    PROVE  ReadBytesKept'
<1> USE DEF fifo, intr, rregs, wregs, txvars, rxvars, program, RegisterAccess
<1>0. SUFFICES [i \in 1 .. in' |-> i] = ((got' \o Shown') \o rd') \o Received'
  BY Zenon DEF ReadBytesKept, Shown, Received
<1>1. CASE ReadCommand
  <2>1. UNCHANGED <<in, got, prog, rx, rxdata>> /\ Received' = Received
    BY <1>1, Zenon DEF ReadCommand, Received
  <2>2. CASE rcmd = "MOVE"
    <3>1. rd # <<>> /\ prog = "rptr"
      BY <1>1, <2>2, Zenon DEF ReadCommand, SerialInv, ReadControl
    <3>2. Shown = <<>> /\ Shown' = <<Head(rd)>> /\ rd' = Tail(rd)
      BY <1>1, <2>1, <2>2, <3>1, Zenon DEF ReadCommand, Shown
    <3>3. rd = Shown' \o rd' /\ Shown' \in Seq(InBytes) /\ rd' \in Seq(InBytes)
      BY <3>1, <3>2, ReadTypes, HeadFirst, Zenon
    <3>4. got \o Shown = got /\ got \in Seq(InBytes)
      BY <3>2, ReadTypes, ConcatEmpty, Zenon
    <3>5. got \in Seq(InBytes) /\ Shown' \in Seq(InBytes) /\ rd' \in Seq(InBytes)
      BY <3>3, <3>4, Zenon
    <3>6. (got \o Shown') \o rd' = got \o (Shown' \o rd')
      BY <3>5, ConcatAssociates
    <3> QED
      BY <2>1, <3>3, <3>4, <3>6, ReadTypes, Zenon
  <2>3. CASE rcmd # "MOVE"
    <3>1. UNCHANGED <<rptr, rd, rcmd>>
      BY <1>1, <2>3, Zenon DEF ReadCommand, SerialInv, FifoSound, SerialTypeOK
    <3> QED
      BY <2>1, <3>1, ReadTypes, Zenon DEF Shown
  <2> QED
    BY <2>2, <2>3, Zenon
<1>2. CASE RxRead
  <2>1. /\ UNCHANGED <<got, rd, prog, rcmd, rptr>> /\ Shown' = Shown /\ Received = <<>>
    BY <1>2, Zenon DEF RxRead, Shown, Received
  <2>2. CASE rx' = "add"
    <3>1. in \in Nat /\ in' = in + 1 /\ Received' = <<in + 1>>
      BY <1>2, <2>2, SerialFifoAssumption
         DEF RxRead, Received, SerialInv, FifoSound, SerialTypeOK, InBytes
    <3>2. [i \in 1 .. in' |-> i] = [i \in 1 .. in |-> i] \o Received'
      BY <3>1, Counted, Zenon
    <3>3. got \o Shown \in Seq(InBytes)
      BY ReadTypes, Concatenated, Zenon
    <3>4. (got \o Shown) \o rd \in Seq(InBytes)
      BY <3>3, ReadTypes, Concatenated, Zenon
    <3>5. [i \in 1 .. in |-> i] = (got \o Shown) \o rd
      BY <2>1, <3>4, ReadTypes, ConcatEmpty, Zenon
    <3> QED
      BY <2>1, <3>2, <3>5, Zenon
  <2>3. CASE rx' # "add"
    <3>1. in' = in /\ Received' = <<>>
      BY <1>2, <2>3, Zenon DEF RxRead, Received
    <3> QED
      BY <2>1, <3>1, ReadTypes, Zenon
  <2> QED
    BY <2>2, <2>3, Zenon
<1>3. CASE RxAdd
  <2>1. /\ UNCHANGED <<in, got>> /\ Shown' = Shown /\ Received = <<rxdata>> /\ Received' = <<>>
        /\ rd' = Append(rd, rxdata)
    BY <1>3, Zenon DEF RxAdd, Shown, Received
  <2>2. rd' = rd \o Received /\ rd' \in Seq(InBytes)
    BY <2>1, ReadTypes, Appended
  <2>3. PICK p : p = got \o Shown
    BY Zenon
  <2>4. p \in Seq(InBytes) /\ rd \in Seq(InBytes) /\ Received \in Seq(InBytes)
    BY <2>3, ReadTypes, Concatenated, Zenon
  <2>5. (p \o rd) \o Received = p \o (rd \o Received)
    BY <2>4, ConcatAssociates
  <2>6. p \o rd' \in Seq(InBytes)
    BY <2>2, <2>4, Concatenated, Zenon
  <2>7. (p \o rd') \o <<>> = p \o rd'
    BY <2>6, ConcatEmpty, Zenon
  <2> QED
    BY <2>1, <2>2, <2>3, <2>5, <2>7, ReadTypes, Zenon
<1>4. CASE ProgReadPtr
  <2>0. rcmd = "NONE"
    BY <1>4, Zenon DEF ProgReadPtr, SerialInv, FifoSound, SerialTypeOK, ReadControl
  <2>1. /\ UNCHANGED <<in, rd>> /\ Received' = Received /\ Shown = <<rptr>> /\ Shown' = <<>>
        /\ got' = Append(got, rptr)
    BY <1>4, <2>0, Zenon DEF ProgReadPtr, Shown, Received
  <2>2. got' = got \o Shown /\ got' \in Seq(InBytes)
    BY <2>1, ReadTypes, Appended, SMTT(30)
  <2>3. got' \o <<>> = got'
    BY <2>2, ConcatEmpty, Zenon
  <2> QED
    BY <2>1, <2>2, <2>3, ReadTypes, Zenon
<1>5. CASE ~(ReadCommand \/ RxRead \/ RxAdd \/ ProgReadPtr)
  <2>1. UNCHANGED <<in, got, rd, rptr, rxdata>>
    BY <1>5, Zenon DEF Device, DriverStep, TxThread, RxThread, ReadStatus, WriteMove, WriteTx, RaiseIntr,
                TxCheck, TxGet, TxPut, RxCheck, ProgIdle, ProgBegin, ProgWriteStatus, ProgWritePtr,
                ProgWriteMove, ProgGap, ProgWriteTx, ProgReadStatus, ProgReadMove
  <2>2. rx' = "add" <=> rx = "add"
    BY <1>5, Zenon DEF Device, DriverStep, TxThread, RxThread, ReadStatus, WriteMove, WriteTx, RaiseIntr,
                TxCheck, TxGet, TxPut, RxCheck, ProgIdle, ProgBegin, ProgWriteStatus, ProgWritePtr,
                ProgWriteMove, ProgGap, ProgWriteTx, ProgReadStatus, ProgReadMove
  <2>3. UNCHANGED <<rcmd, prog>> \/ (rcmd' = rcmd /\ prog # "rptr" /\ prog' # "rptr")
        \/ (prog # "rptr" /\ rcmd' = "MOVE")
    BY <1>5, Zenon DEF Device, DriverStep, TxThread, RxThread, ReadStatus, WriteMove, WriteTx, RaiseIntr,
                TxCheck, TxGet, TxPut, RxCheck, ProgIdle, ProgBegin, ProgWriteStatus, ProgWritePtr,
                ProgWriteMove, ProgGap, ProgWriteTx, ProgReadStatus, ProgReadMove
  <2>4. Shown' = Shown /\ Received' = Received
    BY <2>1, <2>2, <2>3, Zenon DEF Shown, Received
  <2> QED
    BY <2>1, <2>4, ReadTypes, Zenon
<1> QED
  BY <1>1, <1>2, <1>3, <1>4, <1>5, Zenon

\* Every step of the device, of the threads and of the program keeps the invariant.
LEMMA SerialStepInv ==
    ASSUME SerialInv, Gap # 0, [SerialNext]_serialVars
    PROVE  SerialInv'
<1>1. CASE SerialNext
  <2>1. Device \/ DriverStep \/ TxThread \/ RxThread
    BY <1>1, Zenon DEF SerialNext
  <2>2. SerialTypeOK'
    BY <2>1, DeviceKeepsType, ThreadsKeepType, ProgramKeepsType, Zenon
  <2> QED
    BY <2>1, <2>2, ControlKept, WrittenKept, ReadKept, Zenon DEF SerialInv, FifoSound
<1>2. CASE UNCHANGED serialVars
  <2> USE <1>2 DEF serialVars, fifo, intr, rregs, wregs, txvars, rxvars, program
  <2>1. SerialTypeOK'
    BY SMTT(30) DEF SerialInv, FifoSound, SerialTypeOK
  <2>2. WrittenBytesKept'
    BY Zenon DEF SerialInv, FifoSound, WrittenBytesKept
  <2>3. ReadBytesKept'
    BY Zenon DEF SerialInv, FifoSound, ReadBytesKept
  <2>4. /\ ThreadAssertsHold' /\ WriteControl' /\ ReadControl'
        /\ (rx = "read" => Len(rd) < BufferSize)'
    BY Zenon DEF SerialInv, FifoSound, ThreadAssertsHold, WriteControl, ReadControl
  <2> QED
    BY <2>1, <2>2, <2>3, <2>4, Zenon DEF SerialInv, FifoSound
<1> QED
  BY <1>1, <1>2, Zenon

\* Serial FIFO: in every interleaving of the loop, the program and the two threads, and
\* for every buffer size, delay, threshold and number of bytes, each byte is passed on
\* once and in order and the ASSERTs of the threads hold, when the program leaves the
\* device a clock to answer a MOVE before it looks at the status again.
THEOREM SerialFifoIsSound == ASSUME Gap # 0 PROVE SerialSpec => []FifoSound
<1>1. SerialInit => SerialInv
  BY SerialInitInv, Zenon
<1>2. SerialInv /\ [SerialNext]_serialVars => SerialInv'
  BY SerialStepInv, Zenon
<1>3. SerialInv => FifoSound
  BY Zenon DEF SerialInv
<1> QED
  BY <1>1, <1>2, <1>3, PTL DEF SerialSpec
=============================================================================
