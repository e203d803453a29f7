------------------------------- MODULE SerialFifo -------------------------------
(***************************************************************************)
(* One channel of the serial FIFO device (serial_fifo.c): the registers in *)
(* emulated memory, the device's work on every clock, the two host threads *)
(* that move bytes to and from named pipes, and the emulated program that  *)
(* drives the registers as the examples in serial_fifo.h do.               *)
(*                                                                         *)
(* The ring buffers are sequences here; CommFifo shows that this is what   *)
(* they are.  The critical sections of a channel's mutexes are one action  *)
(* each; a count read without the mutex is an action of its own.           *)
(***************************************************************************)
EXTENDS Integers, Sequences

CONSTANTS BufferSize,  \* DEVICE_CONFIG_SERIAL_FILFO_<n>_SIZE, of rd and wr
          DevSize,     \* SERIAL_FIFO_WR_BUFFER_LEN, of wr_dev_buffer
          RdIntOff,    \* DEVICE_CONFIG_SERIAL_FILFO_<n>_RD_INTOFF
          WrIntOff,    \* DEVICE_CONFIG_SERIAL_FILFO_<n>_WR_INTOFF
          Delay,       \* DEVICE_CONFIG_SERIAL_FIFO_FD
          Gap,         \* other instructions of the program between two bytes
          MaxOut,      \* bound: bytes the program writes
          MaxIn        \* bound: bytes the host sends

ASSUME SerialFifoAssumption ==
    /\ BufferSize \in Nat \ {0} /\ DevSize \in Nat \ {0}
    /\ RdIntOff \in Nat /\ WrIntOff \in Nat /\ Delay \in Nat
    /\ Gap \in Nat /\ MaxOut \in Nat /\ MaxIn \in Nat

NoByte == 0

VARIABLES
    rd, wr, wr_dev,              \* rd, wr, wr_dev_buffer
    rd_raise, rd_delay,          \* rd_raise_intr, rd_raise_delay_count
    wr_raise, wr_delay,          \* wr_raise_intr, wr_raise_delay_count
    rstatus, rcmd, rptr,         \* the read registers
    wstatus, wcmd, wptr,         \* the write registers
    tick,                        \* what the loop does next on this clock
    tx, txdata, rx, rxdata,      \* control point and byte in hand of the threads
    prog, wait,                  \* control point of the program, instructions to go
    out, delivered,              \* history: bytes written by the program, given to the pipe
    in, got,                     \* history: bytes the host sent, bytes the program read
    rd_int, wr_int               \* the interrupts, until the program takes them

fifo == <<rd, wr, wr_dev>>
intr == <<rd_raise, rd_delay, wr_raise, wr_delay, rd_int, wr_int>>
rregs == <<rstatus, rcmd, rptr>>
wregs == <<wstatus, wcmd, wptr>>
txvars == <<tx, txdata, delivered>>
rxvars == <<rx, rxdata, in>>
program == <<prog, wait, out, got>>
serialVars == <<fifo, intr, rregs, wregs, tick, txvars, rxvars, program>>

OutBytes == 0 .. MaxOut
InBytes == 0 .. MaxIn

SerialTypeOK ==
    /\ rd \in Seq(InBytes) /\ Len(rd) <= BufferSize
    /\ wr \in Seq(OutBytes) /\ Len(wr) <= BufferSize
    /\ wr_dev \in Seq(OutBytes) /\ Len(wr_dev) <= DevSize
    /\ rd_raise \in BOOLEAN /\ wr_raise \in BOOLEAN
    /\ rd_delay \in 0 .. Delay /\ wr_delay \in 0 .. Delay
    /\ rstatus \in {"NO_DATA", "DATA_IN"} /\ rcmd \in {"NONE", "MOVE"} /\ rptr \in InBytes
    /\ wstatus \in {"CAN_DATA", "DATA_FULL"} /\ wcmd \in {"NONE", "MOVE", "TX"}
    /\ wptr \in OutBytes
    /\ tick \in {"read_status", "read_cmd", "write", "intr", "cpu"}
    /\ tx \in {"check", "get", "put"} /\ txdata \in OutBytes
    /\ rx \in {"check", "read", "add"} /\ rxdata \in InBytes
    /\ prog \in {"idle", "wstatus", "wptr", "wmove", "wgap", "wtx", "rstatus", "rmove", "rptr"}
    /\ wait \in 0 .. Gap
    /\ out \in Seq(OutBytes) /\ delivered \in Seq(OutBytes) /\ got \in Seq(InBytes)
    /\ in \in InBytes
    /\ rd_int \in BOOLEAN /\ wr_int \in BOOLEAN

SerialInit ==
    /\ rd = <<>> /\ wr = <<>> /\ wr_dev = <<>>
    /\ rd_raise = FALSE /\ wr_raise = FALSE /\ rd_delay = 0 /\ wr_delay = 0
    /\ rstatus = "NO_DATA" /\ rcmd = "NONE" /\ rptr = NoByte
    /\ wstatus = "CAN_DATA" /\ wcmd = "NONE" /\ wptr = NoByte
    /\ tick = "read_status"
    /\ tx = "check" /\ txdata = NoByte /\ rx = "check" /\ rxdata = NoByte
    /\ prog = "idle" /\ wait = 0
    /\ out = <<>> /\ delivered = <<>> /\ in = 0 /\ got = <<>>
    /\ rd_int = FALSE /\ wr_int = FALSE

-----------------------------------------------------------------------------
(* athrill_device_supply_clock_serial_fifo, before every instruction. *)

\* do_serial_fifo_cpu_read: the status, and an interrupt once enough bytes are there ...
ReadStatus ==
    /\ tick = "read_status"
    /\ rstatus' = IF rd = <<>> THEN "NO_DATA" ELSE "DATA_IN"
    /\ IF rd # <<>> /\ Len(rd) >= RdIntOff /\ ~rd_raise
       THEN rd_delay' = Delay /\ rd_raise' = TRUE
       ELSE UNCHANGED <<rd_delay, rd_raise>>
    /\ tick' = "read_cmd"
    /\ UNCHANGED <<fifo, wr_raise, wr_delay, rd_int, wr_int, rcmd, rptr, wregs, txvars,
                   rxvars, program>>

\* ... then the command, under the mutex of the receiving thread.
ReadCommand ==
    /\ tick = "read_cmd"
    /\ IF rcmd = "MOVE" /\ rd # <<>>
       THEN rptr' = Head(rd) /\ rd' = Tail(rd)
       ELSE UNCHANGED <<rptr, rd>>
    /\ rcmd' = "NONE"
    /\ tick' = "write"
    /\ UNCHANGED <<wr, wr_dev, intr, rstatus, wregs, txvars, rxvars, program>>

\* do_serial_fifo_cpu_write: the status as it is before the command; MOVE takes a byte
\* if there is room ...
WriteStatus == wstatus' = IF Len(wr_dev) >= DevSize THEN "DATA_FULL" ELSE "CAN_DATA"
WriteMove ==
    /\ tick = "write" /\ wcmd # "TX"
    /\ WriteStatus
    /\ wr_dev' = IF wcmd = "MOVE" /\ Len(wr_dev) < DevSize THEN Append(wr_dev, wptr) ELSE wr_dev
    /\ wcmd' = "NONE"
    /\ tick' = "intr"
    /\ UNCHANGED <<rd, wr, intr, rregs, wptr, txvars, rxvars, program>>

\* ... and TX, do_serial_fifo_cpu_write_tx, hands over what fits; the command stays
\* until everything has been handed over.
SmallerOf(a, b) == IF a < b THEN a ELSE b
\* Mutations: bytes that do not fit are dropped; TX is forgotten after one clock.
WriteTxWith(rest, command) ==
    /\ tick = "write" /\ wcmd = "TX"
    /\ WriteStatus
    /\ wr' = wr \o SubSeq(wr_dev, 1, SmallerOf(Len(wr_dev), BufferSize - Len(wr)))
    /\ wr_dev' = rest
    /\ wr_delay' = Delay /\ wr_raise' = TRUE
    /\ wcmd' = command
    /\ tick' = "intr"
    /\ UNCHANGED <<rd, rd_raise, rd_delay, rd_int, wr_int, rregs, wptr, txvars, rxvars,
                   program>>
WriteTx_Drops == WriteTxWith(<<>>, "NONE")
WriteTx_OneClock ==
    WriteTxWith(SubSeq(wr_dev, SmallerOf(Len(wr_dev), BufferSize - Len(wr)) + 1, Len(wr_dev)),
                "NONE")

WriteTx ==
    /\ tick = "write" /\ wcmd = "TX"
    /\ WriteStatus
    /\ LET n == SmallerOf(Len(wr_dev), BufferSize - Len(wr)) IN
         /\ wr' = wr \o SubSeq(wr_dev, 1, n)
         /\ wr_dev' = SubSeq(wr_dev, n + 1, Len(wr_dev))
    /\ IF Len(wr_dev') <= WrIntOff
       THEN wr_delay' = Delay /\ wr_raise' = TRUE
       ELSE UNCHANGED <<wr_delay, wr_raise>>
    /\ wcmd' = IF wr_dev' = <<>> THEN "NONE" ELSE wcmd
    /\ tick' = "intr"
    /\ UNCHANGED <<rd, rd_raise, rd_delay, rd_int, wr_int, rregs, wptr, txvars, rxvars,
                   program>>

\* Mutation: a delayed interrupt is forgotten.
RaiseIntr_Forgets ==
    /\ tick = "intr"
    /\ rd_int' = (rd_int \/ (rd_raise /\ rd_delay = 0))
    /\ wr_int' = (wr_int \/ (wr_raise /\ wr_delay = 0))
    /\ rd_raise' = FALSE /\ wr_raise' = FALSE
    /\ tick' = "cpu"
    /\ UNCHANGED <<rd_delay, wr_delay, fifo, rregs, wregs, txvars, rxvars, program>>

\* do_serial_fifo_cpu_intr: delayed interrupts are counted down and raised.
RaiseIntr ==
    /\ tick = "intr"
    /\ rd_int' = (rd_int \/ (rd_raise /\ rd_delay = 0))
    /\ rd_raise' = (rd_raise /\ rd_delay # 0)
    /\ rd_delay' = IF rd_raise /\ rd_delay # 0 THEN rd_delay - 1 ELSE rd_delay
    /\ wr_int' = (wr_int \/ (wr_raise /\ wr_delay = 0))
    /\ wr_raise' = (wr_raise /\ wr_delay # 0)
    /\ wr_delay' = IF wr_raise /\ wr_delay # 0 THEN wr_delay - 1 ELSE wr_delay
    /\ tick' = "cpu"
    /\ UNCHANGED <<fifo, rregs, wregs, txvars, rxvars, program>>

-----------------------------------------------------------------------------
(* The host threads. *)

\* serial_fifo_tx_thread_do_proc, once it has opened the pipe: wait until the count, read
\* without the mutex, says that there is a byte ...
TxCheck ==
    /\ tx = "check" /\ wr # <<>>
    /\ tx' = "get"
    /\ UNCHANGED <<fifo, intr, rregs, wregs, tick, txdata, delivered, rxvars, program>>

\* ... get it ...
TxGet ==
    /\ tx = "get" /\ wr # <<>>
    /\ txdata' = Head(wr) /\ wr' = Tail(wr)
    /\ tx' = "put"
    /\ UNCHANGED <<rd, wr_dev, intr, rregs, wregs, tick, delivered, rxvars, program>>

\* ... and give it to the pipe; a write that fails is only reported, so that the byte is
\* out of the device's hands either way.
TxPut ==
    /\ tx = "put"
    /\ delivered' = Append(delivered, txdata)
    /\ tx' = "check"
    /\ UNCHANGED <<fifo, intr, rregs, wregs, tick, txdata, rxvars, program>>

\* serial_fifo_rx_thread_do_proc, once it has opened the pipe: wait for room, read without
\* the mutex ...
RxCheck ==
    /\ rx = "check" /\ Len(rd) < BufferSize
    /\ rx' = "read"
    /\ UNCHANGED <<fifo, intr, rregs, wregs, tick, txvars, rxdata, in, program>>

\* ... for a byte of the host, or start over when there is none ...
RxRead ==
    /\ rx = "read"
    /\ \/ in < MaxIn /\ in' = in + 1 /\ rxdata' = in' /\ rx' = "add"
       \/ rx' = "check" /\ UNCHANGED <<in, rxdata>>
    /\ UNCHANGED <<fifo, intr, rregs, wregs, tick, txvars, program>>

\* ... and add it.
RxAdd ==
    /\ rx = "add" /\ Len(rd) < BufferSize
    /\ rd' = Append(rd, rxdata)
    /\ rx' = "check"
    /\ UNCHANGED <<wr, wr_dev, intr, rregs, wregs, tick, txvars, rxdata, in, program>>

-----------------------------------------------------------------------------
(* The emulated program (external): one register access per instruction, in  *)
(* the order of the examples in serial_fifo.h.                               *)

RegisterAccess(from, to) ==
    /\ tick = "cpu" /\ prog = from
    /\ tick' = "read_status" /\ prog' = to
    /\ UNCHANGED <<fifo, rd_raise, rd_delay, wr_raise, wr_delay, txvars, rxvars>>

\* Instructions that have nothing to do with the device; interrupts are taken here.
ProgIdle ==
    /\ RegisterAccess("idle", "idle")
    /\ rd_int' = FALSE /\ wr_int' = FALSE
    /\ UNCHANGED <<rregs, wregs, wait, out, got>>

\* Writing and reading begin with the next instruction.
ProgBegin ==
    /\ RegisterAccess("idle", "wstatus") \/ RegisterAccess("idle", "rstatus")
    /\ UNCHANGED <<rd_int, wr_int, rregs, wregs, wait, out, got>>

\* While the status allows it, and there is more, the next byte is written ...
ProgWriteStatus ==
    /\ \/ wstatus = "CAN_DATA" /\ Len(out) < MaxOut /\ RegisterAccess("wstatus", "wptr")
       \/ RegisterAccess("wstatus", "wtx")
    /\ UNCHANGED <<rd_int, wr_int, rregs, wregs, wait, out, got>>
ProgWritePtr ==
    /\ RegisterAccess("wptr", "wmove")
    /\ wptr' = Len(out) + 1
    /\ UNCHANGED <<rd_int, wr_int, rregs, wstatus, wcmd, wait, out, got>>
ProgWriteMove ==
    /\ RegisterAccess("wmove", IF Gap = 0 THEN "wstatus" ELSE "wgap")
    /\ wcmd' = "MOVE"
    /\ wait' = Gap
    /\ out' = Append(out, wptr)
    /\ UNCHANGED <<rd_int, wr_int, rregs, wstatus, wptr, got>>
ProgGap ==
    /\ RegisterAccess("wgap", IF wait = 1 THEN "wstatus" ELSE "wgap")
    /\ wait' = wait - 1
    /\ UNCHANGED <<rd_int, wr_int, rregs, wregs, out, got>>

\* ... and finally everything is sent.
ProgWriteTx ==
    /\ RegisterAccess("wtx", "idle")
    /\ wcmd' = "TX"
    /\ UNCHANGED <<rd_int, wr_int, rregs, wstatus, wptr, wait, out, got>>

\* Bytes are read while the status says that there are some.
ProgReadStatus ==
    /\ RegisterAccess("rstatus", IF rstatus = "DATA_IN" THEN "rmove" ELSE "idle")
    /\ UNCHANGED <<rd_int, wr_int, rregs, wregs, wait, out, got>>
ProgReadMove ==
    /\ RegisterAccess("rmove", "rptr")
    /\ rcmd' = "MOVE"
    /\ UNCHANGED <<rd_int, wr_int, rstatus, rptr, wregs, wait, out, got>>
ProgReadPtr ==
    /\ RegisterAccess("rptr", "rstatus")
    /\ got' = Append(got, rptr)
    /\ UNCHANGED <<rd_int, wr_int, rregs, wregs, wait, out>>

-----------------------------------------------------------------------------
Device == ReadStatus \/ ReadCommand \/ WriteMove \/ WriteTx \/ RaiseIntr
DriverStep == \/ ProgIdle \/ ProgBegin \/ ProgWriteStatus \/ ProgWritePtr \/ ProgWriteMove
           \/ ProgGap \/ ProgWriteTx \/ ProgReadStatus \/ ProgReadMove \/ ProgReadPtr
TxThread == TxCheck \/ TxGet \/ TxPut
RxThread == RxCheck \/ RxRead \/ RxAdd

SerialNext == Device \/ DriverStep \/ TxThread \/ RxThread
SerialSpec == SerialInit /\ [][SerialNext]_serialVars

-----------------------------------------------------------------------------
\* Every byte the program has written is on its way or delivered, in order: none is
\* lost, none sent twice (do_serial_fifo_cpu_write, which ignores a failed add, and
\* do_serial_fifo_cpu_write_tx).
WrittenBytesKept ==
    out = delivered \o (IF tx = "put" THEN <<txdata>> ELSE <<>>) \o wr \o wr_dev
              \o (IF wcmd = "MOVE" THEN <<wptr>> ELSE <<>>)

\* Likewise for the bytes of the host: the program reads each once and in order.
ReadBytesKept ==
    [i \in 1 .. in |-> i] =
        got \o (IF prog = "rptr" /\ rcmd = "NONE" THEN <<rptr>> ELSE <<>>)
            \o rd \o (IF rx = "add" THEN <<rxdata>> ELSE <<>>)

\* The ASSERTs of the threads: what the count said without the mutex is still so with it.
ThreadAssertsHold ==
    /\ tx = "get" => wr # <<>>
    /\ rx = "add" => Len(rd) < BufferSize

\* The two pipes with their mutexes and status registers keep every byte: the
\* properties above together, in every interleaving of the loop, the program and
\* the two threads.
FifoSound == SerialTypeOK /\ WrittenBytesKept /\ ReadBytesKept /\ ThreadAssertsHold

\* Every byte written is given to the pipe in the end, however small the buffers are:
\* do_serial_fifo_cpu_write_tx keeps the command until its buffer is empty.
Delivered == \A n \in 1 .. MaxOut : (Len(out) >= n) ~> (Len(delivered) >= n)

\* TX is answered by the write interrupt, unless the program writes again before
\* (do_serial_fifo_cpu_intr, although every clock of a long TX starts the delay anew).
TxInterrupts == (wcmd = "TX") ~> (wr_int \/ prog = "wstatus")
=============================================================================
