-------------------------------- MODULE Emulator --------------------------------
(***************************************************************************)
(* The emulator around its main loop: the loop as an asset of a            *)
(* co-simulation, the serial device that the loop clocks, and the gdb      *)
(* server that stops the loop and lets it go on.  Each is specified with a *)
(* loop of its own, so each behaviour runs one of them, part, and leaves   *)
(* the variables of the others as they are.                                *)
(***************************************************************************)
EXTENDS MainLoop, SerialFifo, GdbServer

VARIABLE part

all == <<part, loopVars, serialVars, vars>>

EmulatorInit ==
    /\ part \in {"loop", "serial", "gdb"}
    /\ LoopInit /\ (part # "loop" => pdu_created)
    /\ SerialInit
    /\ Init /\ (part # "gdb" => pc = [c \in Cores |-> 0])

LoopStep == part = "loop" /\ LoopNext /\ UNCHANGED <<part, serialVars, vars>>
SerialStep == part = "serial" /\ SerialNext /\ UNCHANGED <<part, loopVars, vars>>
GdbStep == part = "gdb" /\ Next /\ UNCHANGED <<part, loopVars, serialVars>>

EmulatorNext == LoopStep \/ SerialStep \/ GdbStep

\* The loop, the threads and the server are scheduled, the conductor runs, and the pipe
\* the bytes go to is emptied.  Nobody has to command anything, and what a client of the
\* gdb server does is not assumed.
Fairness ==
    /\ WF_loopVars(part = "loop" /\ Loop)
    /\ WF_loopVars(part = "loop" /\ ~Exited /\ Complete)
    /\ WF_loopVars(part = "loop" /\ ~Exited /\ PduSynced)
    /\ WF_loopVars(part = "loop" /\ ~Exited /\ WorldAdvance)
    /\ WF_serialVars(part = "serial" /\ (Device \/ DriverStep))
    /\ WF_serialVars(part = "serial" /\ TxThread)
    /\ WF_serialVars(part = "serial" /\ RxThread)
    /\ WF_vars(part = "gdb" /\ CpuStep)
    /\ WF_vars(part = "gdb" /\ Serve)

EmulatorSpec == EmulatorInit /\ [][EmulatorNext]_all /\ Fairness
=============================================================================
