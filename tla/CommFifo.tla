------------------------------- MODULE CommFifo -------------------------------
(***************************************************************************)
(* The ring buffer of lib/comm_buffer.c: an array, two offsets and a       *)
(* count.  Adding and getting several bytes is a loop over one byte; each  *)
(* round is an action.                                                     *)
(***************************************************************************)
EXTENDS Integers, Sequences

CONSTANTS Byte,   \* values of a byte
          Sizes,  \* sizes a buffer may be created with
          MaxLen  \* bound: longest datalen of a call

ASSUME CommFifoAssumption ==
    /\ Sizes \subseteq Nat \ {0}
    /\ MaxLen \in Nat

VARIABLES
    max_size, count, rx_off, tx_off, data,  \* the fields of CommFifoBufferType
    call,    \* the call being executed
    left,    \* datalen - i, its rounds to go
    res,     \* *res, bytes done
    err,     \* its result
    datalen  \* its argument

ring == <<max_size, count, rx_off, tx_off, data>>
vars == <<ring, call, left, res, err, datalen>>

TypeOK ==
    /\ max_size \in Sizes \cup {0}
    /\ count \in Nat /\ rx_off \in Nat /\ tx_off \in Nat
    /\ data \in UNION {[0 .. n - 1 -> Byte] : n \in Sizes}
    /\ call \in {"none", "add", "get"}
    /\ left \in 0 .. MaxLen /\ res \in 0 .. MaxLen /\ datalen \in 0 .. MaxLen
    /\ err \in {"OK", "LIMIT", "NOENT"}

\* A buffer as comm_fifo_buffer_create leaves it: the memory has any content.
Created(n) ==
    /\ n \in Sizes
    /\ max_size = n /\ count = 0 /\ rx_off = 0 /\ tx_off = 0
    /\ data \in [0 .. n - 1 -> Byte]

Init ==
    /\ \E n \in Sizes : Created(n)
    /\ call = "none" /\ left = 0 /\ res = 0 /\ err = "OK" /\ datalen = 0

-----------------------------------------------------------------------------
Full == count >= max_size

Incremented(off) == IF off + 1 >= max_size THEN 0 ELSE off + 1

\* comm_fifo_buffer_add and comm_fifo_buffer_get refuse a full and an empty buffer
\* before their loops.
Begin(name, refused, code, n) ==
    /\ call = "none"
    /\ datalen' = n
    /\ res' = 0
    /\ IF refused \/ n = 0
       THEN err' = (IF refused THEN code ELSE "OK") /\ UNCHANGED <<call, left>>
       ELSE call' = name /\ left' = n /\ UNCHANGED err
    /\ UNCHANGED ring

BeginAdd(n) == Begin("add", Full, "LIMIT", n)
BeginGet(n) == Begin("get", count = 0, "NOENT", n)

\* A round that fails ends the call with the bytes done so far ...
Fail(name, code) ==
    /\ call = name
    /\ err' = code
    /\ call' = "none" /\ left' = 0
    /\ UNCHANGED <<ring, res, datalen>>

\* ... and one that succeeds ends it after the last byte.
Round(name) ==
    /\ call = name
    /\ res' = res + 1 /\ left' = left - 1
    /\ IF left = 1 THEN call' = "none" /\ err' = "OK" ELSE UNCHANGED <<call, err>>
    /\ UNCHANGED datalen

\* fifo_buffer_add.
AddFails == Full /\ Fail("add", "LIMIT")
AddByte(d) ==
    /\ ~Full
    /\ Round("add")
    /\ data' = [data EXCEPT ![tx_off] = d]
    /\ tx_off' = Incremented(tx_off)
    /\ count' = count + 1
    /\ UNCHANGED <<max_size, rx_off>>

\* fifo_buffer_get, which returns data[rx_off].
GetFails == count = 0 /\ Fail("get", "NOENT")
\* Mutation: the offset stays behind.
GetByte_KeepsOffset ==
    /\ count # 0
    /\ Round("get")
    /\ count' = count - 1
    /\ UNCHANGED <<max_size, rx_off, tx_off, data>>

GetByte ==
    /\ count # 0
    /\ Round("get")
    /\ rx_off' = Incremented(rx_off)
    /\ count' = count - 1
    /\ UNCHANGED <<max_size, tx_off, data>>

\* comm_fifo_buffer_close, comm_fifo_buffer_destroy and a new create.
Close ==
    /\ call = "none"
    /\ count' = 0 /\ rx_off' = 0 /\ tx_off' = 0
    /\ UNCHANGED <<max_size, data, call, left, res, err, datalen>>
Destroy ==
    /\ call = "none"
    /\ max_size' = 0 /\ count' = 0 /\ rx_off' = 0 /\ tx_off' = 0
    /\ UNCHANGED <<data, call, left, res, err, datalen>>
Create(n) ==
    /\ call = "none"
    /\ max_size' = n /\ count' = 0 /\ rx_off' = 0 /\ tx_off' = 0
    /\ data' \in [0 .. n - 1 -> Byte]
    /\ UNCHANGED <<call, left, res, err, datalen>>

Next ==
    \/ \E n \in 0 .. MaxLen : BeginAdd(n) \/ BeginGet(n)
    \/ AddFails \/ (\E d \in Byte : AddByte(d))
    \/ GetFails \/ GetByte
    \/ Close \/ Destroy \/ (\E n \in Sizes : Create(n))
Spec == Init /\ [][Next]_vars

-----------------------------------------------------------------------------
Wrap(k) == IF k >= max_size THEN k - max_size ELSE k

\* The offsets stay in the array and agree with the count, so that no access leaves
\* the array and no byte is overwritten before it is read.
RingInv ==
    /\ count <= max_size
    /\ max_size # 0 => rx_off < max_size /\ DOMAIN data = 0 .. max_size - 1
    /\ max_size = 0 => rx_off = 0
    /\ tx_off = Wrap(rx_off + count)

\* A finished call that claims success has moved every byte it was asked to move
\* (comm_fifo_buffer_add and comm_fifo_buffer_get, which may stop half-way).
ResultExact == call = "none" /\ err = "OK" => res = datalen

\* The bytes in the buffer, oldest first.
Contents == [i \in 1 .. count |-> data[Wrap(rx_off + i - 1)]]

\* The ring is a bounded queue: bytes come out in the order they went in, none lost,
\* none twice.
Queue == INSTANCE BoundedQueue WITH queue <- Contents, capacity <- max_size
IsQueue == Queue!Spec
=============================================================================
