-------------------------------- MODULE MainLoop --------------------------------
(***************************************************************************)
(* The background main loop (cpuemu_thread_run, cpuemu_thread_run_nodbg,   *)
(* cpuemu_run_batch in cpuemu.cpp) with its clock skip and its batches,    *)
(* gated by the Hakoniwa stage (athrill_hakoniwa.cpp).  Outside src/ are   *)
(* the devices and the instruction set of a target, reduced to the next    *)
(* event they report, to halting and to touching a device; and the         *)
(* conductor, reduced to the world time, the events it sends and the PDUs  *)
(* (the data the assets share).                                            *)
(***************************************************************************)
EXTENDS Integers

CONSTANTS EndClock,    \* cpuemu_cpu_end_clock, the -t option
          MaxBatch,    \* cpuemu_max_batch_clocks
          EnableSkip,  \* DEBUG_FUNC_ENABLE_SKIP_CLOCK
          Mhz,         \* DEVICE_CPU_FREQ
          MaxDelay,    \* how far the conductor lets the world time lead, in usec
          WorldMax,    \* bound: the conductor stops here
          EventMax,    \* bound: a device event is at most this many clocks ahead
          Timers       \* whether devices ever have an event ahead

ASSUME MainLoopAssumption ==
    /\ EndClock \in Nat \ {0}
    /\ MaxBatch \in Nat \ {0}
    /\ EnableSkip \in BOOLEAN
    /\ Mhz \in Nat \ {0}
    /\ MaxDelay \in Nat
    /\ WorldMax \in Nat
    /\ EventMax \in Nat
    /\ Timers \in BOOLEAN

VARIABLES
    clock,     \* cpuemu_dev_clock.clock
    interval,  \* cpuemu_dev_clock.min_intr_interval
    can_skip,  \* cpuemu_dev_clock.can_skip_clock
    is_halt,   \* the result of do_cpu_run
    loop,      \* control point of the main loop
    halted,    \* the CPU waits for an interrupt
    touched,   \* the last instruction accessed a device
    due,       \* the clock of the devices' next event
    limit,     \* world_limit_clock
    running,   \* Hakoniwa: started
    ready,     \* Hakoniwa: checks passed since the start
    notified,  \* last_notified_usec
    world,     \* the world time, in usec
    reported,  \* the asset time the conductor knows
    event,     \* the event waiting for the asset
    phase,     \* the conductor's state
    pdu_created,  \* hakoniwa_asset_is_pdu_created, for this PDU definition
    pdu_sync,     \* hakoniwa_asset_is_pdu_sync_mode
    pdu_written   \* the conductor knows that the asset wrote its PDUs

dev == <<clock, interval, can_skip, is_halt, halted, touched, due>>
stage == <<limit, running, ready, notified>>
pdus == <<pdu_created, pdu_sync, pdu_written>>
conductor == <<world, reported, event, phase, pdus>>
loopVars == <<dev, loop, stage, conductor>>

\* DEVICE_CLOCK_MAX_INTERVAL, and a value that is not set.
Unset == -1

LoopPoints == {"top", "tick", "stage", "notify", "event", "ready", "gate", "exec",
               "batch", "advance", "exited"}

PduTypeOK == pdu_created \in BOOLEAN /\ pdu_sync \in BOOLEAN /\ pdu_written \in BOOLEAN

LoopTypeOK ==
    /\ clock \in Nat /\ interval \in Nat \cup {Unset}
    /\ can_skip \in BOOLEAN /\ is_halt \in BOOLEAN
    /\ loop \in LoopPoints
    /\ halted \in BOOLEAN /\ touched \in BOOLEAN
    /\ due \in Nat \cup {Unset}
    /\ limit \in Nat /\ running \in BOOLEAN /\ ready \in BOOLEAN
    /\ notified \in Nat \cup {Unset}
    /\ world \in 0 .. WorldMax /\ reported \in Nat
    /\ event \in {"NONE", "START", "STOP", "RESET"}
    /\ phase \in {"stopped", "starting", "running", "stopping", "resetting"}
    /\ PduTypeOK

LoopInit ==
    /\ clock = 0 /\ interval = Unset /\ can_skip = FALSE /\ is_halt = FALSE
    /\ loop = "top" /\ halted = FALSE /\ touched = FALSE /\ due = Unset
    /\ limit = 0 /\ running = FALSE /\ ready = FALSE /\ notified = Unset
    /\ world = 0 /\ reported = 0 /\ event = "NONE" /\ phase = "stopped"
    \* The query may be 0 for a definition without channels, which is a valid one.
    /\ pdu_created \in BOOLEAN /\ pdu_sync = FALSE /\ pdu_written = FALSE

\* The clocks at which a device may have its next event, seen from clock c.
Events(c) == {Unset} \cup (IF Timers THEN c + 1 .. c + EventMax ELSE {})

-----------------------------------------------------------------------------
(* The head of the loop and the device tick. *)

LoopTop ==
    /\ loop = "top"
    /\ loop' = IF clock >= EndClock THEN "exited" ELSE "tick"
    /\ UNCHANGED <<dev, stage, conductor>>

\* device_supply_clock (target): an event that is due happens, wakes the CPU and is
\* followed by another; the devices report how far the next one is.
Tick ==
    /\ loop = "tick"
    /\ IF due # Unset /\ due <= clock
       THEN due' \in Events(clock) /\ halted' = FALSE
       ELSE UNCHANGED <<due, halted>>
    /\ interval' = IF due' = Unset THEN Unset ELSE due' - clock
    /\ can_skip' \in BOOLEAN
    /\ loop' = "stage"
    /\ UNCHANGED <<clock, is_halt, touched, stage, conductor>>

-----------------------------------------------------------------------------
(* athrill_hakoniwa_stage. *)

\* Mutation: the limit replaces an earlier device event.
Capped_Lead(lead) == IF interval # Unset THEN lead ELSE interval

\* cap_skip_interval.
Capped(lead) == IF interval # Unset /\ lead < interval THEN lead ELSE interval

\* Below the limit read last the CPU runs freely; at the limit the stage is entered.
StageEnter ==
    /\ loop = "stage"
    /\ IF running /\ clock < limit
       THEN interval' = Capped(limit - clock) /\ loop' = "exec"
       ELSE interval' = interval /\ loop' = "notify"
    /\ UNCHANGED <<clock, can_skip, is_halt, halted, touched, due, stage, conductor>>

\* The asset time is reported in usec, and only when it changed.
StageNotify ==
    /\ loop = "notify"
    /\ IF running /\ clock \div Mhz # notified
       THEN notified' = clock \div Mhz /\ reported' = clock \div Mhz
       ELSE UNCHANGED <<notified, reported>>
    /\ loop' = "event"
    /\ UNCHANGED <<dev, limit, running, ready, world, event, phase, pdus>>

\* handle_event: a start reports the PDUs written and lets the CPU run, a stop halts
\* it here ...
StageStartStop ==
    /\ loop = "event"
    /\ event \in {"START", "STOP"}
    /\ running' = (event = "START")
    /\ pdu_written' = (pdu_written \/ event = "START")
    /\ ready' = FALSE
    /\ event' = "NONE"
    /\ loop' = "ready"
    /\ UNCHANGED <<dev, limit, notified, world, reported, phase, pdu_created, pdu_sync>>

\* Mutation: the clock goes on after a reset.
StageReset_KeepsClock ==
    /\ loop = "event"
    /\ event = "RESET"
    /\ running' = FALSE /\ ready' = FALSE
    /\ halted' = FALSE /\ touched' = FALSE /\ due' = Unset
    /\ limit' = 0 /\ notified' = Unset
    /\ event' = "NONE"
    /\ loop' = "ready"
    /\ UNCHANGED <<clock, interval, can_skip, is_halt, world, reported, phase, pdus>>

\* ... a reset reloads the program and restarts clock, CPU and devices; what the
\* devices reported before it is still in interval ...
StageReset ==
    /\ loop = "event"
    /\ event = "RESET"
    /\ running' = FALSE /\ ready' = FALSE
    /\ clock' = 0 /\ halted' = FALSE /\ touched' = FALSE /\ due' = Unset
    /\ limit' = 0 /\ notified' = Unset
    /\ event' = "NONE"
    /\ loop' = "ready"
    /\ UNCHANGED <<interval, can_skip, is_halt, world, reported, phase, pdus>>

\* ... or fails, which ends the program.
StageResetFails ==
    /\ loop = "event"
    /\ event = "RESET"
    /\ loop' = "exited"
    /\ UNCHANGED <<dev, stage, conductor>>

\* The poll itself may fail, which ends the program too.
StageEventError ==
    /\ loop = "event"
    /\ loop' = "exited"
    /\ UNCHANGED <<dev, stage, conductor>>

StageNoEvent ==
    /\ loop = "event"
    /\ event = "NONE"
    /\ loop' = "ready"
    /\ UNCHANGED <<dev, stage, conductor>>

\* Mutation: the PDUs are not reported again while the conductor waits for them.
StageReady_WritesOnce ==
    /\ loop = "ready"
    /\ ready' = (ready \/ (running /\ phase = "running" /\ pdu_created /\ ~pdu_sync))
    /\ loop' = "gate"
    /\ UNCHANGED <<dev, limit, running, notified, conductor>>

\* Until it once finds the simulation running, the PDUs created and the PDU sync mode
\* off, the stage looks again in every round; in the sync mode it reports its PDUs.
StageReady ==
    /\ loop = "ready"
    /\ LET asks == running /\ ~ready /\ phase = "running" /\ pdu_created
       IN /\ ready' = (ready \/ (asks /\ ~pdu_sync))
          /\ pdu_written' = (pdu_written \/ (asks /\ pdu_sync))
    /\ loop' = "gate"
    /\ UNCHANGED <<dev, limit, running, notified, world, reported, event, phase,
                   pdu_created, pdu_sync>>

\* Mutations: the CPU may run at the world time, too; the wait polls no events.
StageGateWith(open, closed) ==
    /\ loop = "gate"
    /\ IF running /\ ready /\ open
       THEN /\ limit' = world * Mhz
            /\ interval' = Capped(world * Mhz - clock)
            /\ loop' = "exec"
       ELSE loop' = closed /\ UNCHANGED <<limit, interval>>
    /\ UNCHANGED <<clock, can_skip, is_halt, halted, touched, due, running, ready,
                   notified, conductor>>
StageGate_AtLimit == StageGateWith(clock <= world * Mhz, "notify")
StageGate_NoPoll == StageGateWith(clock < world * Mhz, "ready")

\* The world time is read, and the CPU may run up to it; otherwise all is tried again.
StageGate ==
    /\ loop = "gate"
    /\ IF running /\ ready /\ clock < world * Mhz
       THEN /\ limit' = world * Mhz
            /\ interval' = Capped(world * Mhz - clock)
            /\ loop' = "exec"
       ELSE loop' = "notify" /\ UNCHANGED <<limit, interval>>
    /\ UNCHANGED <<clock, can_skip, is_halt, halted, touched, due, running, ready,
                   notified, conductor>>

-----------------------------------------------------------------------------
(* The CPU. *)

\* What instructions may do: touch a device, which can move its event, or halt.
Instruction(c) ==
    \/ touched' = TRUE /\ due' \in Events(c) /\ halted' = FALSE
    \/ touched' = FALSE /\ UNCHANGED due /\ halted' \in BOOLEAN

\* cpu_supply_clock: one instruction, or none while the CPU is halted.
Exec ==
    /\ loop = "exec"
    /\ IF halted THEN UNCHANGED <<touched, due, halted>> ELSE Instruction(clock)
    /\ is_halt' = halted'
    /\ loop' = IF ~halted' /\ MaxBatch > 1 THEN "batch" ELSE "advance"
    /\ UNCHANGED <<clock, interval, can_skip, stage, conductor>>

\* cpuemu_run_batch: how many clocks one pass of the loop may take.
Lesser(a, b) == IF a < b THEN a ELSE b
\* Mutation: device events do not end a batch.
Budget_NoInterval == Lesser(MaxBatch, EndClock - clock)

Budget == Lesser(IF interval = Unset THEN MaxBatch ELSE Lesser(interval, MaxBatch),
                 EndClock - clock)

\* cpu_supply_clocks (target) runs further instructions until the budget is used, the
\* CPU halts or a device is touched; a device touched before ends it at once.
Batch ==
    /\ loop = "batch"
    /\ IF touched \/ Budget <= 1
       THEN UNCHANGED <<clock, touched, due, halted>>
       ELSE \E n \in 1 .. Budget - 1 :
              /\ clock' = clock + n
              /\ Instruction(clock + n)
              /\ n < Budget - 1 => touched' \/ halted'
    /\ is_halt' = FALSE
    /\ loop' = "advance"
    /\ UNCHANGED <<interval, can_skip, stage, conductor>>

\* An exception in an instruction ends the program.
ExecFault ==
    /\ \/ loop = "exec" /\ ~halted
       \/ loop = "batch" /\ ~touched /\ Budget > 1
    /\ loop' = "exited"
    /\ UNCHANGED <<dev, stage, conductor>>

\* The end of the pass: a halted CPU jumps to the next event, else one clock passes.
Advance ==
    /\ loop = "advance"
    /\ clock' = clock + (IF EnableSkip /\ is_halt /\ can_skip /\ interval # Unset
                         THEN interval ELSE 1)
    /\ loop' = "top"
    /\ UNCHANGED <<interval, can_skip, is_halt, halted, touched, due, stage, conductor>>

-----------------------------------------------------------------------------
(* The conductor (external). *)

\* Start, stop and reset are commanded one at a time.
Command(from, to, name) ==
    /\ phase = from
    /\ phase' = to
    /\ event' = name
    /\ UNCHANGED <<dev, loop, stage, world, reported, pdus>>

\* The asset's feedback completes them.  A start opens the PDU sync mode, in which a
\* report that came before it may not count; a reset takes the world time back.
Complete ==
    /\ event = "NONE"
    /\ \/ /\ phase = "starting" /\ phase' = "running" /\ UNCHANGED <<world, reported>>
          /\ pdu_sync' = TRUE /\ pdu_written' \in {FALSE, pdu_written}
       \/ phase = "stopping" /\ phase' = "stopped"
          /\ UNCHANGED <<world, reported, pdu_sync, pdu_written>>
       \/ phase = "resetting" /\ phase' = "stopped" /\ world' = 0 /\ reported' = 0
          /\ UNCHANGED <<pdu_sync, pdu_written>>
    /\ UNCHANGED <<dev, loop, stage, event, pdu_created>>

\* The sync mode ends when every asset has reported its PDUs, this one included.
PduSynced ==
    /\ phase = "running" /\ pdu_sync /\ pdu_written
    /\ pdu_sync' = FALSE
    /\ UNCHANGED <<dev, loop, stage, world, reported, event, phase, pdu_created, pdu_written>>

\* The world time moves while no asset is too far behind.
WorldAdvance ==
    /\ phase = "running"
    /\ world < WorldMax
    /\ world + 1 <= reported + MaxDelay
    /\ world' = world + 1
    /\ UNCHANGED <<dev, loop, stage, reported, event, phase, pdus>>

Operator == \/ Command("stopped", "starting", "START")
            \/ Command("running", "stopping", "STOP")
            \/ Command("stopped", "resetting", "RESET")

Loop == \/ LoopTop \/ Tick \/ StageEnter \/ StageNotify \/ StageStartStop \/ StageReset
        \/ StageResetFails \/ StageEventError \/ StageNoEvent \/ StageReady \/ StageGate \/ Exec \/ ExecFault
        \/ Batch \/ Advance

Exited == loop = "exited"
StayExited == Exited /\ UNCHANGED loopVars
LoopNext == \/ ~Exited /\ (Loop \/ Operator \/ Complete \/ PduSynced \/ WorldAdvance)
        \/ StayExited
LoopSpec == LoopInit /\ [][LoopNext]_loopVars

\* The process is scheduled and the conductor runs; nobody has to command anything.
LoopFairSpec == LoopSpec /\ WF_loopVars(Loop) /\ WF_loopVars(~Exited /\ Complete)
                 /\ WF_loopVars(~Exited /\ PduSynced) /\ WF_loopVars(~Exited /\ WorldAdvance)

-----------------------------------------------------------------------------
\* The CPU never runs ahead of the world time (the rule of athrill_hakoniwa_stage):
\* neither instructions nor skips nor batches carry the clock past it.
NeverAhead == clock <= world * Mhz

\* Skips and batches pass over no device event: the tick that handles an event is
\* the one at its clock ("the same clocks and events as one tick per clock").
EventsOnTime == loop = "tick" /\ due # Unset => clock <= due

\* The loop and the conductor together are a lockstep asset.
Asset == INSTANCE LockstepAsset
Lockstep == Asset!Spec

\* Asset and conductor never wait for each other for good, neither for the time nor for
\* the PDUs: once started, the program reaches its end unless it is stopped.  That is so
\* when the query says that the PDUs are created; otherwise see ValidPdusRun.
RunsToEnd == (phase = "running" /\ pdu_created) ~> (Exited \/ phase # "running")

\* The program runs with every valid PDU definition, also with one without channels,
\* for which athrill_hakoniwa.cpp:116 says that the query may be 0.
ValidPdusRun == (phase = "running") ~> (Exited \/ phase # "running")

\* Every command of the operator is taken up, also one that arrives while the CPU runs
\* below the world time.
CommandsNoticed == (event # "NONE") ~> (event = "NONE" \/ Exited)
=============================================================================
