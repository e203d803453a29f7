---------------------------- MODULE MainLoopProofs ----------------------------
(***************************************************************************)
(* The main loop under the Hakoniwa stage, for every frequency, delay, end *)
(* clock and event distance: no device event is passed over, with batches  *)
(* and skips; and without batches the CPU never runs ahead of the world    *)
(* time and the loop is a lockstep asset.                                  *)
(*                                                                         *)
(* For every number of threads: a wait request is late by at most one call *)
(* of do_proc.  What makes it inductive is that mpthread_run passes a look *)
(* at the status between two calls: whenever a call is decided on, or the  *)
(* status is RUNNING, no late call has been made.                          *)
(*                                                                         *)
(* Once the loop polls for it, SIGTERM is clean.  The invariant follows    *)
(* the SIGTERM thread: a signal that finds osdep_terminate_polled set      *)
(* makes it read TRUE, so it never enters osdep_run_cleanup_and_exit and   *)
(* only waits, while the loop thread alone cleans up and leaves.           *)
(***************************************************************************)
EXTENDS MainLoop, Mpthread, Termination, TLAPS

\* What is known of the PDUs is well typed after every step.
LEMMA PdusTyped ==
    ASSUME PduTypeOK,
           StageStartStop \/ StageReady \/ Complete \/ PduSynced \/ UNCHANGED pdus
    PROVE  PduTypeOK'
  BY Zenon DEF PduTypeOK, StageStartStop, StageReady, Complete, PduSynced, pdus

\* World time in clocks.
LEMMA Scale ==
    ASSUME NEW w \in Nat
    PROVE  w * Mhz \in Nat /\ (w + 1) * Mhz \in Nat /\ w * Mhz <= (w + 1) * Mhz
<1>1. Mhz \in Nat
  BY MainLoopAssumption, Zenon
<1>2. (w + 1) * Mhz = w * Mhz + Mhz
  BY <1>1
<1>3. w * Mhz \in Nat
  BY <1>1
<1> QED
  BY <1>1, <1>2, <1>3

\* Clocks in microseconds: rounded down, and so not ahead of the clock.
LEMMA Rounding ==
    ASSUME NEW c \in Nat
    PROVE  c \div Mhz \in Nat
  BY MainLoopAssumption

\* A later clock is not at an earlier microsecond.
LEMMA RoundingMonotone ==
    ASSUME NEW c \in Nat, NEW d \in Nat, c <= d
    PROVE  c \div Mhz <= d \div Mhz
  BY MainLoopAssumption

\* The budget of a batch is bounded by each of its three limits.
LEMMA BudgetBounds ==
    ASSUME LoopTypeOK
    PROVE  /\ Budget \in Int
           /\ interval # Unset => Budget <= interval
  BY MainLoopAssumption DEF LoopTypeOK, Budget, Lesser, Unset

\* An interval that was cut short is not longer than before, nor than the lead.
LEMMA CappedBounds ==
    ASSUME interval \in Nat \cup {Unset}, NEW lead \in Nat \ {0}
    PROVE  /\ Capped(lead) \in Nat \cup {Unset}
           /\ Capped(lead) = Unset <=> interval = Unset
           /\ interval # Unset => Capped(lead) <= interval /\ Capped(lead) <= lead
           /\ interval # Unset /\ interval # 0 => Capped(lead) # 0
  BY DEF Capped, Unset

\* An event the devices choose lies ahead.
LEMMA EventAhead ==
    ASSUME NEW c \in Nat, NEW e \in Events(c)
    PROVE  e = Unset \/ (e \in Nat /\ e >= c + 1 /\ e # Unset)
  BY MainLoopAssumption DEF Events, Unset

\* What an instruction does to the devices.
LEMMA InstructionEffect ==
    ASSUME LoopTypeOK, NEW c \in Nat, Instruction(c)
    PROVE  /\ touched' \in BOOLEAN /\ halted' \in BOOLEAN
           /\ due' = due \/ due' = Unset \/ (due' \in Nat /\ due' >= c + 1)
           /\ due' # due => touched' = TRUE /\ halted' = FALSE
           /\ touched' = FALSE => due' = due
           /\ halted' = TRUE => due' = due
  BY EventAhead, Zenon DEF LoopTypeOK, Instruction

-----------------------------------------------------------------------------
\* The interval leads to no clock behind the next event.
Reaches == due # Unset => interval # Unset /\ clock + interval <= due
NotPassed == due # Unset => clock + 1 <= due

\* Where the next event is, at each point of the loop: the interval is at least 1; after
\* the tick it does not reach behind the event; an instruction that touched a device may
\* have moved the event, and then neither a batch nor a skip follows.
DueInv ==
    /\ loop \in {"top", "tick"} => (due # Unset => clock <= due)
    /\ loop \in {"stage", "notify", "event", "ready", "gate", "exec", "batch", "advance"} =>
         interval # 0
    /\ loop \in {"stage", "notify", "event", "ready", "gate", "exec"} => Reaches
    /\ loop = "batch" => NotPassed /\ (~touched => Reaches)
    /\ loop = "advance" => NotPassed /\ (is_halt => Reaches)

\* The device tick.
LEMMA TickKeeps == LoopTypeOK /\ DueInv /\ Tick => LoopTypeOK' /\ DueInv'
<1> SUFFICES ASSUME LoopTypeOK, DueInv, Tick PROVE LoopTypeOK' /\ DueInv'
  BY Zenon
<1>1. due' = Unset \/ (due' \in Nat /\ due' >= clock + 1 /\ due' # Unset)
  BY EventAhead DEF LoopTypeOK, Tick, Unset
<1>2. /\ interval' \in Nat \cup {Unset} /\ interval' # 0
      /\ due' # Unset => interval' # Unset /\ clock + interval' = due'
  <2>1. CASE due' = Unset
    BY <2>1 DEF Tick, Unset
  <2>2. CASE due' # Unset
    <3>1. interval' = due' - clock /\ due' \in Nat /\ due' >= clock + 1 /\ clock \in Nat
      BY <1>1, <2>2, Zenon DEF Tick, LoopTypeOK
    <3>2. interval' \in Nat /\ interval' # 0 /\ clock + interval' = due'
      <4>1. \A c, d \in Nat : d >= c + 1 => d - c \in Nat /\ d - c # 0 /\ c + (d - c) = d
        OBVIOUS
      <4> QED
        BY <3>1, <4>1, Zenon
    <3>3. interval' # Unset
      BY <3>2 DEF Unset
    <3> QED
      BY <3>2, <3>3, Zenon
  <2> QED
    BY <2>1, <2>2, Zenon
<1>3. LoopTypeOK'
  <2>1. /\ UNCHANGED <<clock, is_halt, touched, running, limit, ready, notified, conductor>>
        /\ can_skip' \in BOOLEAN /\ loop' = "stage"
    BY Zenon DEF Tick, stage
  <2>2. halted' \in BOOLEAN
    BY Zenon DEF Tick, LoopTypeOK
  <2>3. due' \in Nat \cup {Unset}
    BY <1>1, Zenon
  <2>4. /\ clock' \in Nat /\ is_halt' \in BOOLEAN /\ touched' \in BOOLEAN
        /\ running' \in BOOLEAN /\ ready' \in BOOLEAN
    BY <2>1, Zenon DEF LoopTypeOK
  <2> HIDE DEF Tick
  <2> QED
    BY <1>2, <2>1, <2>2, <2>3, <2>4, PdusTyped, Zenon DEF LoopTypeOK, conductor, LoopPoints
<1>4. loop' = "stage" /\ Reaches'
  <2>1. clock' = clock /\ loop' = "stage"
    BY Zenon DEF Tick
  <2>2. due' # Unset => interval' # Unset /\ clock' + interval' <= due'
    BY <1>1, <1>2, <2>1
  <2> QED
    BY <2>1, <2>2, Zenon DEF Reaches
<1> QED
  BY <1>2, <1>3, <1>4, Zenon DEF DueInv

\* The steps of the stage that let the CPU run.
LEMMA GateKeeps == LoopTypeOK /\ DueInv /\ (StageEnter \/ StageGate) => LoopTypeOK' /\ DueInv'
<1> SUFFICES ASSUME LoopTypeOK, DueInv, StageEnter \/ StageGate PROVE LoopTypeOK' /\ DueInv'
  BY Zenon
<1>1. loop \in {"stage", "gate"} /\ loop' \in {"exec", "notify"} /\ interval # 0 /\ Reaches
  BY Zenon DEF StageEnter, StageGate, DueInv
<1>2. \/ interval' = interval
      \/ \E lead \in Nat \ {0} : interval' = Capped(lead)
  BY Scale DEF LoopTypeOK, StageEnter, StageGate
<1>3. /\ interval' \in Nat \cup {Unset} /\ interval' # 0
      /\ interval' = Unset <=> interval = Unset
      /\ interval # Unset => interval' <= interval
  BY <1>1, <1>2, CappedBounds DEF LoopTypeOK, Unset
<1>4. limit' \in Nat
  BY Scale DEF LoopTypeOK, StageEnter, StageGate, stage
<1>5. UNCHANGED <<clock, can_skip, is_halt, halted, touched, due, running, ready, notified, conductor>>
  BY Zenon DEF StageEnter, StageGate, stage
<1>6. LoopTypeOK'
  BY <1>1, <1>3, <1>4, <1>5, PdusTyped DEF LoopTypeOK, conductor, LoopPoints
<1>7. Reaches'
  <2> SUFFICES ASSUME due # Unset PROVE interval' # Unset /\ clock + interval' <= due
    BY <1>5, Zenon DEF Reaches
  <2>1. /\ interval \in Nat /\ interval' \in Nat /\ interval' <= interval
        /\ clock \in Nat /\ due \in Nat /\ clock + interval <= due
    BY <1>1, <1>3, Zenon DEF Reaches, LoopTypeOK
  <2>2. interval' # Unset
    BY <1>1, <1>3, Zenon DEF Reaches
  <2>3. clock + interval' <= due
    <3>1. \A c, i, j, d \in Nat : j <= i /\ c + i <= d => c + j <= d
      OBVIOUS
    <3> QED
      BY <2>1, <3>1, Zenon
  <2> QED
    BY <2>2, <2>3, Zenon
<1> QED
  BY <1>1, <1>3, <1>6, <1>7, Zenon DEF DueInv

\* Instructions, one or a batch of them, and the clocks that pass with them.
LEMMA ExecKeeps == LoopTypeOK /\ DueInv /\ Exec => LoopTypeOK' /\ DueInv'
<1> SUFFICES ASSUME LoopTypeOK, DueInv, Exec PROVE LoopTypeOK' /\ DueInv'
  BY Zenon
<1>1. interval # 0 /\ Reaches /\ UNCHANGED <<clock, interval>>
  BY Zenon DEF Exec, DueInv
<1>2. /\ touched' \in BOOLEAN /\ halted' \in BOOLEAN
      /\ due' = due \/ due' = Unset \/ (due' \in Nat /\ due' >= clock + 1)
      /\ due' # due => touched' = TRUE /\ halted' = FALSE
  BY InstructionEffect, Zenon DEF LoopTypeOK, Exec
<1>3. LoopTypeOK'
  BY <1>2, PdusTyped DEF LoopTypeOK, Exec, stage, conductor, LoopPoints
<1>4. NotPassed'
  BY <1>1, <1>2 DEF NotPassed, Reaches, LoopTypeOK, Unset
<1>5. ~touched' \/ is_halt' => Reaches'
  BY <1>1, <1>2, Zenon DEF Exec, Reaches
<1> QED
  BY <1>1, <1>3, <1>4, <1>5, Zenon DEF DueInv, Exec

\* A batch ends before the next event.
LEMMA BatchKeeps == LoopTypeOK /\ DueInv /\ Batch => LoopTypeOK' /\ DueInv'
<1> SUFFICES ASSUME LoopTypeOK, DueInv, Batch PROVE LoopTypeOK' /\ DueInv'
  BY Zenon
<1>1. interval # 0 /\ NotPassed /\ (~touched => Reaches)
  BY Zenon DEF Batch, DueInv
<1>2. /\ UNCHANGED <<interval, can_skip, running, limit, ready, notified, conductor>>
      /\ is_halt' = FALSE /\ loop' = "advance"
  BY Zenon DEF Batch, stage
<1>3. CASE touched \/ Budget <= 1
  <2>1. UNCHANGED <<clock, touched, due, halted>>
    BY <1>3, Zenon DEF Batch
  <2>2. LoopTypeOK'
    <3>1. /\ touched' \in BOOLEAN /\ halted' \in BOOLEAN
          /\ clock' \in Nat /\ due' \in Nat \cup {Unset}
      BY <2>1, Zenon DEF LoopTypeOK
    <3> QED
      BY <1>2, <3>1, PdusTyped, Zenon DEF LoopTypeOK, conductor, LoopPoints
  <2>3. DueInv'
    BY <1>2, <1>1, <2>1, Zenon DEF DueInv, NotPassed
  <2> QED
    BY <2>2, <2>3, Zenon
<1>4. CASE ~(touched \/ Budget <= 1)
  <2>1. PICK n \in 1 .. Budget - 1 : clock' = clock + n /\ Instruction(clock + n)
    BY <1>4, Zenon DEF Batch
  <2>2. n \in Nat /\ (interval # Unset => n <= interval - 1)
    BY <2>1, BudgetBounds DEF LoopTypeOK, Unset
  <2>3. clock' \in Nat
    BY <2>1, <2>2 DEF LoopTypeOK
  <2>4. /\ touched' \in BOOLEAN /\ halted' \in BOOLEAN
        /\ due' = due \/ due' = Unset \/ (due' \in Nat /\ due' >= clock' + 1)
    <3>1. Instruction(clock')
      BY <2>1, Zenon
    <3> QED
      BY <2>3, <3>1, InstructionEffect, Zenon
  <2>5. LoopTypeOK'
    <3>1. due' \in Nat \cup {Unset}
      BY <2>4, Zenon DEF LoopTypeOK
    <3>2. can_skip' \in BOOLEAN /\ running' \in BOOLEAN /\ ready' \in BOOLEAN
      BY <1>2, Zenon DEF LoopTypeOK
    <3> QED
      BY <1>2, <2>3, <2>4, <3>1, <3>2, PdusTyped, Zenon DEF LoopTypeOK, conductor, LoopPoints
  <2>6. NotPassed'
    BY <1>1, <1>4, <2>1, <2>2, <2>4 DEF NotPassed, Reaches, LoopTypeOK, Unset
  <2> QED
    BY <1>2, <1>1, <2>5, <2>6, Zenon DEF DueInv
<1> QED
  BY <1>3, <1>4, Zenon

\* The end of a pass goes at most to the next event.
LEMMA AdvanceKeeps == LoopTypeOK /\ DueInv /\ Advance => LoopTypeOK' /\ DueInv'
<1> SUFFICES ASSUME LoopTypeOK, DueInv, Advance PROVE LoopTypeOK' /\ DueInv'
  BY Zenon
<1>1. \/ clock' = clock + 1
      \/ clock' = clock + interval /\ interval # Unset /\ is_halt
  BY Zenon DEF Advance
<1>2. clock' \in Nat
  BY <1>1 DEF LoopTypeOK, Unset
<1>3. LoopTypeOK'
  BY <1>2, PdusTyped DEF Advance, LoopTypeOK, stage, conductor, LoopPoints
<1>4. due' # Unset => clock' <= due'
  BY <1>1, Zenon DEF Advance, DueInv, NotPassed, Reaches
<1> QED
  BY <1>3, <1>4, Zenon DEF Advance, DueInv

\* The other steps change neither clock nor event, but for the reset.
LEMMA OtherKeeps ==
    ASSUME LoopTypeOK, DueInv,
           \/ LoopTop \/ StageNotify \/ StageStartStop \/ StageReset \/ StageResetFails
           \/ StageEventError \/ StageNoEvent \/ StageReady \/ ExecFault
           \/ Operator \/ Complete \/ PduSynced \/ WorldAdvance \/ UNCHANGED loopVars
    PROVE  LoopTypeOK' /\ DueInv'
<1>0. PduTypeOK'
  BY PdusTyped, Zenon
  DEF LoopTypeOK, LoopTop, StageNotify, StageReset, StageResetFails, StageEventError, StageNoEvent,
      ExecFault, Operator, Command, WorldAdvance, loopVars, conductor
<1> USE <1>0 DEF LoopTypeOK, DueInv, Reaches, NotPassed, dev, stage, conductor, LoopPoints
<1>1. CASE LoopTop
  BY <1>1 DEF LoopTop
<1>2. CASE StageNotify
  BY <1>2, Rounding DEF StageNotify
<1>3. CASE StageStartStop
  BY <1>3, Zenon DEF StageStartStop
<1>4. CASE StageReset
  BY <1>4, Zenon DEF StageReset, Unset
<1>5. CASE StageResetFails \/ StageEventError \/ ExecFault
  BY <1>5 DEF StageResetFails, StageEventError, ExecFault
<1>6. CASE StageNoEvent \/ StageReady
  BY <1>6 DEF StageNoEvent, StageReady
<1>7. CASE Operator
  BY <1>7 DEF Operator, Command
<1>8. CASE Complete
  <2>1. /\ world' \in 0 .. WorldMax /\ reported' \in Nat
        /\ phase' \in {"stopped", "starting", "running", "stopping", "resetting"}
    <3>1. 0 \in 0 .. WorldMax /\ 0 \in Nat
      BY MainLoopAssumption
    <3> QED
      BY <1>8, <3>1, Zenon DEF Complete
  <2>2. UNCHANGED <<clock, interval, can_skip, is_halt, loop, halted, touched, due, limit,
                    running, ready, notified, event>>
    BY <1>8, Zenon DEF Complete
  <2> QED
    BY <2>1, <2>2
<1>9. CASE WorldAdvance
  BY <1>9, MainLoopAssumption DEF WorldAdvance
<1>10. CASE PduSynced
  BY <1>10 DEF PduSynced
<1>11. CASE UNCHANGED loopVars
  BY <1>11 DEF loopVars
<1> QED
  BY <1>1, <1>2, <1>3, <1>4, <1>5, <1>6, <1>7, <1>8, <1>9, <1>10, <1>11, Zenon

\* Every step keeps both.
LEMMA NextDue == LoopTypeOK /\ DueInv /\ [LoopNext]_loopVars => LoopTypeOK' /\ DueInv'
  BY TickKeeps, GateKeeps, ExecKeeps, BatchKeeps, AdvanceKeeps, OtherKeeps, Zenon
  DEF LoopNext, Loop, StayExited

\* The loop is well typed and knows where the next event is.
THEOREM DueInvariance == LoopSpec => [](LoopTypeOK /\ DueInv)
<1>1. LoopInit => LoopTypeOK /\ DueInv
  <2> SUFFICES ASSUME LoopInit PROVE LoopTypeOK /\ DueInv
    BY Zenon
  <2>1. world \in 0 .. WorldMax
    BY MainLoopAssumption DEF LoopInit
  <2>2. LoopTypeOK
    <3>1. PduTypeOK
      BY Zenon DEF LoopInit, PduTypeOK
    <3> QED
      BY <2>1, <3>1 DEF LoopInit, LoopTypeOK, LoopPoints
  <2> QED
    BY <2>2, Zenon DEF LoopInit, DueInv
<1> QED
  BY <1>1, NextDue, PTL DEF LoopSpec

\* Neither batches nor skips pass over a device event, for every batch size.
THEOREM EventsAreOnTime == LoopSpec => []EventsOnTime
<1>1. DueInv => EventsOnTime
  BY Zenon DEF DueInv, EventsOnTime
<1> QED
  BY <1>1, DueInvariance, PTL

-----------------------------------------------------------------------------
\* The world time in clocks, and what the limit and the interval must not exceed.
World == world * Mhz
Within ==
    /\ clock + 1 <= World
    /\ interval # Unset => clock + interval <= World

\* Without batches: clock and limit are behind the world time, also with the clocks the
\* loop is about to add; the limit outlives no reset, because the world time goes back
\* only after the asset has taken the reset, and it does not run until then.
AheadInv ==
    /\ loop # "batch"
    /\ clock <= World /\ limit <= World
    /\ loop \in {"exec", "advance"} => Within
    /\ event = "START" => phase = "starting"
    /\ event = "STOP" => phase = "stopping"
    /\ event = "RESET" => phase = "resetting"
    /\ phase = "resetting" /\ event = "NONE" =>
         /\ clock = 0 /\ limit = 0 /\ ~running
         /\ loop \in {"notify", "event", "ready", "gate", "exited"}
    /\ phase # "resetting" => reported <= clock \div Mhz

\* The types of what the arithmetic below is about.
LEMMA WorldType == LoopTypeOK => World \in Nat /\ clock \in Nat /\ limit \in Nat /\ world \in Nat
<1> SUFFICES ASSUME LoopTypeOK PROVE World \in Nat /\ clock \in Nat /\ limit \in Nat /\ world \in Nat
  BY Zenon
<1>1. world \in Nat
  BY MainLoopAssumption DEF LoopTypeOK
<1> QED
  BY <1>1, Scale, Zenon DEF LoopTypeOK, World

\* The stage opens up to the world time.
LEMMA GateAhead == LoopTypeOK /\ AheadInv /\ (StageEnter \/ StageGate) => AheadInv'
<1> SUFFICES ASSUME LoopTypeOK, AheadInv, StageEnter \/ StageGate PROVE AheadInv'
  BY Zenon
<1>1. UNCHANGED <<clock, running, world, event, phase, reported>> /\ World' = World
  BY Zenon DEF StageEnter, StageGate, stage, conductor, World
<1>2. /\ World \in Nat /\ clock \in Nat /\ limit \in Nat
      /\ interval \in Nat \cup {Unset}
  BY WorldType, Zenon DEF LoopTypeOK
<1>3. CASE loop' = "exec"
  <2>1. PICK top \in Nat : /\ clock < top /\ top <= World
                           /\ interval' = Capped(top - clock) /\ limit' = top
                           /\ running
    <3>1. CASE StageEnter
      BY <1>2, <1>3, <3>1, Zenon DEF StageEnter, stage, AheadInv
    <3>2. CASE StageGate
      BY <1>2, <1>3, <3>2 DEF StageGate, World
    <3> QED
      BY <3>1, <3>2, Zenon
  <2>2. top - clock \in Nat \ {0}
    BY <1>2, <2>1
  <2>3. /\ interval' \in Nat \cup {Unset}
        /\ interval' # Unset => interval' <= top - clock
    BY <1>2, <2>1, <2>2, CappedBounds, Zenon
  <2>4. interval' # Unset => clock + interval' <= World
    <3>1. \A c, d, t, w \in Nat : d <= t - c /\ t <= w => c + d <= w
      OBVIOUS
    <3>2. interval' # Unset => interval' \in Nat
      BY <2>3, Zenon
    <3> QED
      BY <1>2, <2>1, <2>3, <3>1, <3>2, Zenon
  <2>5. clock + 1 <= World
    BY <1>2, <2>1
  <2>6. Within'
    BY <1>1, <2>4, <2>5, Zenon DEF Within
  <2> QED
    BY <1>1, <1>3, <2>1, <2>6, Zenon DEF AheadInv
<1>4. CASE loop' # "exec"
  <2>1. loop' = "notify" /\ UNCHANGED limit
    BY <1>4, Zenon DEF StageEnter, StageGate, stage
  <2>2. loop \in {"stage", "gate"}
    BY Zenon DEF StageEnter, StageGate
  <2> QED
    BY <1>1, <2>1, <2>2, Zenon DEF AheadInv
<1> QED
  BY <1>3, <1>4, Zenon

\* One instruction, and the clocks it or the skip takes.
LEMMA RunAhead == MaxBatch = 1 /\ LoopTypeOK /\ AheadInv /\ (Exec \/ Advance) => AheadInv'
<1> SUFFICES ASSUME MaxBatch = 1, LoopTypeOK, AheadInv, Exec \/ Advance PROVE AheadInv'
  BY Zenon
<1>1. UNCHANGED <<limit, running, world, event, phase, reported>> /\ World' = World
  BY Zenon DEF Exec, Advance, stage, conductor, World
<1>2. CASE Exec
  <2>1. loop' = "advance" /\ UNCHANGED <<clock, interval>> /\ Within
    BY <1>2 DEF Exec, AheadInv
  <2> QED
    BY <1>1, <1>2, <2>1, Zenon DEF AheadInv, Exec, Within
<1>3. CASE Advance
  <2>1. clock' <= World /\ clock' \in Nat /\ clock <= clock'
    <3>1. CASE clock' = clock + 1
      BY <1>3, <3>1, WorldType DEF Advance, AheadInv, Within
    <3>2. CASE clock' = clock + interval /\ interval # Unset
      <4>1. clock \in Nat /\ interval \in Nat
        BY <3>2, Zenon DEF LoopTypeOK
      <4>2. \A c, d \in Nat : c + d \in Nat /\ c <= c + d
        OBVIOUS
      <4> QED
        BY <1>3, <3>2, <4>1, <4>2, Zenon DEF Advance, AheadInv, Within
    <3> QED
      BY <1>3, <3>1, <3>2, Zenon DEF Advance
  <2>2. loop = "advance" /\ loop' = "top"
    BY <1>3, Zenon DEF Advance
  <2>3. clock \div Mhz <= clock' \div Mhz
    BY <2>1, WorldType, RoundingMonotone, Zenon
  <2>4. clock \div Mhz \in Nat /\ clock' \div Mhz \in Nat /\ reported \in Nat
    BY <2>1, WorldType, Rounding, Zenon DEF LoopTypeOK
  <2> QED
    BY <1>1, <2>1, <2>2, <2>3, <2>4 DEF AheadInv
<1> QED
  BY <1>2, <1>3, Zenon

\* The steps of loop and stage that do not let the CPU run.
LEMMA LoopAhead ==
    ASSUME LoopTypeOK, AheadInv,
           \/ LoopTop \/ Tick \/ StageNotify \/ StageStartStop \/ StageReset
           \/ StageResetFails \/ StageEventError \/ StageNoEvent \/ StageReady
           \/ ExecFault \/ Batch
    PROVE  AheadInv'
<1>0. World' = World /\ World \in Nat /\ clock \in Nat /\ clock \div Mhz \in Nat
  BY WorldType, Rounding, Zenon
  DEF World, LoopTop, Tick, StageNotify, StageStartStop, StageReset, StageResetFails,
      StageEventError, StageNoEvent, StageReady, ExecFault, Batch, conductor
<1> USE <1>0 DEF AheadInv, dev, stage, conductor
<1>1. CASE LoopTop
  BY <1>1, Zenon DEF LoopTop
<1>2. CASE Tick
  BY <1>2, Zenon DEF Tick
<1>3. CASE StageNotify
  BY <1>3 DEF StageNotify
<1>4. CASE StageStartStop
  BY <1>4, Zenon DEF StageStartStop
<1>5. CASE StageReset
  BY <1>5 DEF StageReset
<1>6. CASE StageResetFails \/ StageEventError \/ ExecFault
  BY <1>6 DEF StageResetFails, StageEventError, ExecFault
<1>7. CASE StageNoEvent \/ StageReady
  BY <1>7 DEF StageNoEvent, StageReady
<1>8. CASE Batch
  BY <1>8, Zenon DEF Batch
<1> QED
  BY <1>1, <1>2, <1>3, <1>4, <1>5, <1>6, <1>7, <1>8, Zenon

\* The conductor's steps: the world time goes on, or back once the asset was reset.
LEMMA ConductorAhead ==
    ASSUME LoopTypeOK, AheadInv, Operator \/ Complete \/ PduSynced \/ WorldAdvance \/ UNCHANGED loopVars
    PROVE  AheadInv'
<1>0. World \in Nat /\ clock \in Nat /\ limit \in Nat /\ world \in Nat /\ clock \div Mhz \in Nat
  BY WorldType, Rounding, Zenon
<1>1. CASE Operator
  BY <1>1, Zenon DEF Operator, Command, AheadInv, World, Within, dev, stage
<1>2. CASE Complete
  <2>1. CASE phase = "resetting"
    <3>1. /\ clock' = 0 /\ limit' = 0 /\ world' = 0 /\ reported' = 0 /\ event' = "NONE"
          /\ phase' = "stopped" /\ loop' = loop
          /\ loop \in {"notify", "event", "ready", "gate", "exited"}
      BY <1>2, <2>1, Zenon DEF Complete, AheadInv, dev, stage
    <3>2. World' = 0 /\ 0 <= clock' \div Mhz
      <4>1. World' \in Nat /\ World' = 0 * Mhz
        BY <3>1, Scale, Zenon DEF World
      <4>2. 0 * Mhz = 0
        BY MainLoopAssumption
      <4> QED
        BY <1>0, <3>1, <4>1, <4>2, Rounding
    <3> QED
      BY <3>1, <3>2 DEF AheadInv
  <2>2. CASE phase # "resetting"
    BY <1>2, <2>2, Zenon DEF Complete, AheadInv, World, Within, dev, stage
  <2> QED
    BY <2>1, <2>2, Zenon
<1>3. CASE WorldAdvance
  <2>1. World' \in Nat /\ World <= World'
    BY <1>0, <1>3, Scale, Zenon DEF WorldAdvance, World
  <2>2. UNCHANGED <<clock, interval, limit, running, loop, event, phase, reported>>
    BY <1>3, Zenon DEF WorldAdvance, dev, stage
  <2>3. Within => Within'
    <3>1. interval \in Nat \cup {Unset}
      BY Zenon DEF LoopTypeOK
    <3>2. \A c, d, v, w \in Nat : c + d <= v /\ v <= w => c + d <= w
      OBVIOUS
    <3>3. clock + 1 <= World => clock + 1 <= World'
      BY <1>0, <2>1
    <3> QED
      BY <1>0, <2>1, <2>2, <3>1, <3>2, <3>3, Zenon DEF Within
  <2>4. clock <= World' /\ (limit <= World => limit <= World')
    BY <1>0, <2>1 DEF AheadInv
  <2> QED
    BY <2>2, <2>3, <2>4, Zenon DEF AheadInv
<1>4. CASE PduSynced \/ UNCHANGED loopVars
  <2>1. UNCHANGED <<clock, interval, limit, running, loop, world, reported, event, phase>>
    BY <1>4, Zenon DEF PduSynced, loopVars, dev, stage, conductor
  <2> QED
    BY <2>1, Zenon DEF AheadInv, World, Within
<1> QED
  BY <1>1, <1>2, <1>3, <1>4, Zenon

\* The invariant is inductive.
LEMMA AheadInduction ==
    /\ LoopInit => AheadInv
    /\ MaxBatch = 1 /\ LoopTypeOK /\ AheadInv /\ [LoopNext]_loopVars => AheadInv'
<1>1. ASSUME LoopInit PROVE AheadInv
  <2>1. World \in Nat /\ clock \div Mhz \in Nat /\ reported = 0 /\ clock = 0 /\ limit = 0
    BY <1>1, Scale, Rounding, Zenon DEF LoopInit, World
  <2> QED
    BY <1>1, <2>1 DEF LoopInit, AheadInv
<1>2. ASSUME MaxBatch = 1, LoopTypeOK, AheadInv, [LoopNext]_loopVars PROVE AheadInv'
  BY <1>2, GateAhead, RunAhead, LoopAhead, ConductorAhead, Zenon DEF LoopNext, Loop, StayExited
<1> QED
  BY <1>1, <1>2, Zenon

\* With a batch size of 1 all of this holds throughout.
THEOREM AheadInvariance ==
    ASSUME MaxBatch = 1
    PROVE  LoopSpec => [](LoopTypeOK /\ DueInv /\ AheadInv)
<1>1. LoopTypeOK /\ AheadInv /\ [LoopNext]_loopVars => AheadInv'
  BY AheadInduction, Zenon
<1>2. LoopInit => AheadInv
  BY AheadInduction, Zenon
<1> QED
  BY <1>1, <1>2, DueInvariance, PTL DEF LoopSpec

\* Without batches the CPU never runs ahead of the world time.
THEOREM CpuNeverAhead ==
    ASSUME MaxBatch = 1
    PROVE  LoopSpec => []NeverAhead
<1>1. AheadInv => NeverAhead
  BY Zenon DEF AheadInv, NeverAhead, World
<1>2. LoopSpec => [](LoopTypeOK /\ DueInv /\ AheadInv)
  BY AheadInvariance, Zenon
<1> QED
  BY <1>1, <1>2, PTL

\* A step of the loop or the conductor is a step of a lockstep asset or none.
LEMMA LockstepStep ==
    LoopTypeOK /\ DueInv /\ AheadInv /\ AheadInv' /\ [LoopNext]_loopVars => [Asset!Next]_<<clock, world>>
<1> SUFFICES ASSUME LoopTypeOK, DueInv, AheadInv, AheadInv', [LoopNext]_loopVars
             PROVE  [Asset!Next]_<<clock, world>>
  BY Zenon
<1>1. CASE Advance
  <2>1. UNCHANGED world /\ clock' <= world * Mhz
    BY <1>1, Zenon DEF Advance, conductor, AheadInv, World
  <2>2. clock' > clock
    <3>1. clock \in Nat /\ interval \in Nat \cup {Unset} /\ interval # 0
      BY <1>1, Zenon DEF LoopTypeOK, DueInv, Advance
    <3>2. \A c, d \in Nat : d # 0 => c + d > c
      OBVIOUS
    <3>3. clock' = clock + 1 \/ (clock' = clock + interval /\ interval # Unset)
      BY <1>1, Zenon DEF Advance
    <3> QED
      BY <3>1, <3>2, <3>3
  <2> QED
    BY <2>1, <2>2, Zenon DEF Asset!Next, Asset!Run
<1>2. CASE StageReset
  BY <1>2, Zenon DEF StageReset, Asset!Next, Asset!ResetAsset
<1>3. CASE Complete
  BY <1>3, Zenon DEF Complete, AheadInv, dev, Asset!Next, Asset!ResetWorld
<1>4. CASE WorldAdvance
  <2>1. reported \in Nat /\ clock \div Mhz \in Nat /\ world \in Nat /\ MaxDelay \in Nat
    BY WorldType, Rounding, MainLoopAssumption, Zenon DEF LoopTypeOK
  <2>2. reported <= clock \div Mhz /\ world + 1 <= reported + MaxDelay
    BY <1>4, Zenon DEF WorldAdvance, AheadInv
  <2>3. world + 1 <= clock \div Mhz + MaxDelay
    BY <2>1, <2>2
  <2> QED
    BY <1>4, <2>3, Zenon DEF WorldAdvance, dev, Asset!Next, Asset!Advance
<1>5. CASE Batch
  BY <1>5, Zenon DEF Batch, AheadInv
<1>6. CASE ~(Advance \/ StageReset \/ Complete \/ WorldAdvance \/ Batch)
  <2>1. UNCHANGED <<clock, world>>
    BY <1>6, Zenon
    DEF LoopNext, Loop, StayExited, loopVars, dev, conductor, LoopTop, Tick, StageEnter, StageNotify,
        StageStartStop, StageResetFails, StageEventError, StageNoEvent, StageReady, StageGate,
        Exec, ExecFault, Operator, Command, PduSynced
  <2> QED
    BY <2>1, Zenon
<1> QED
  BY <1>1, <1>2, <1>3, <1>4, <1>5, <1>6, Zenon

\* Without batches the loop and the conductor implement the lockstep asset.
THEOREM LoopIsLockstep ==
    ASSUME MaxBatch = 1
    PROVE  LoopSpec => Lockstep
<1>1. LoopInit => Asset!Init
  BY Zenon DEF LoopInit, Asset!Init
<1>2. LoopSpec => [](LoopTypeOK /\ DueInv /\ AheadInv)
  BY AheadInvariance, Zenon
<1> QED
  BY <1>1, <1>2, LockstepStep, PTL DEF LoopSpec, Lockstep, Asset!Spec

-----------------------------------------------------------------------------
(* The device threads.                                                     *)

Statuses == {"none", "initializing", "running", "waiting"}
Places == {"none", "do_init", "loop", "cond_wait", "cond_timedwait", "call", "do_proc"}

LateInv ==
    /\ late \in [Ids -> {0, 1}]
    /\ status \in [Ids -> Statuses] /\ at \in [Ids -> Places]
    /\ \A i \in Ids : status[i] = "running" \/ at[i] = "call" => late[i] = 0

\* Every step of mpthread_run and of the devices' interface keeps the invariant.
LEMMA LateStep == LateInv /\ [ThreadsNext]_threadVars => LateInv'
<1> SUFFICES ASSUME LateInv, [ThreadsNext]_threadVars PROVE LateInv'
  BY Zenon
<1> USE DEF LateInv, Statuses, Places
<1>1. CASE mpthread_register
  BY <1>1, Zenon DEF mpthread_register
<1>2. ASSUME NEW i \in Registered,
             \/ mpthread_lock(i) \/ mpthread_unlock(i)
             \/ WakesUp(i) \/ DoInit(i) \/ ProcReturns(i)
      PROVE  LateInv'
  BY <1>2, Zenon DEF mpthread_lock, mpthread_unlock, WakesUp, DoInit,
              ProcReturns
<1>3. ASSUME NEW i \in Registered, mpthread_start_proc(i) PROVE LateInv'
  BY <1>3, Zenon DEF mpthread_start_proc
<1>4. ASSUME NEW i \in Registered, NEW timed \in BOOLEAN,
             mpthread_wait_proc(i, timed)
      PROVE  LateInv'
  BY <1>4, Zenon DEF mpthread_wait_proc
<1>5. ASSUME NEW i \in Registered, CheckStatus(i) PROVE LateInv'
  <2>1. PICK p \in {"call", "cond_wait", "cond_timedwait"} :
             /\ at' = [at EXCEPT ![i] = p] /\ (p = "call" => status[i] = "running")
    <3>1. CASE status[i] = "running"
      BY <1>5, <3>1, Zenon DEF CheckStatus
    <3>2. CASE status[i] # "running" /\ timeout[i]
      BY <1>5, <3>2, Zenon DEF CheckStatus
    <3>3. CASE status[i] # "running" /\ ~timeout[i]
      BY <1>5, <3>3, Zenon DEF CheckStatus
    <3> QED
      BY <3>1, <3>2, <3>3, Zenon
  <2> QED
    BY <1>5, <2>1, Zenon DEF CheckStatus
<1>6. ASSUME NEW i \in Registered, CallProc(i) PROVE LateInv'
  <2>1. CASE i \in Ids
    <3>1. late[i] = 0
      BY <1>6, <2>1, Zenon DEF CallProc
    <3>2. PICK n \in {0, 1} : late' = [late EXCEPT ![i] = n] /\ (n = 1 => status[i] # "running")
      <4>1. late' = [late EXCEPT ![i] = IF status[i] = "running" THEN 0 ELSE late[i] + 1]
        BY <1>6, Zenon DEF CallProc
      <4>2. CASE status[i] = "running"
        BY <4>1, <4>2
      <4>3. CASE status[i] # "running"
        BY <3>1, <4>1, <4>3
      <4> QED
        BY <4>2, <4>3, Zenon
    <3> QED
      BY <1>6, <2>1, <3>2, Zenon DEF CallProc
  <2>2. CASE i \notin Ids
    BY <1>6, <2>2, Zenon DEF CallProc
  <2> QED
    BY <2>1, <2>2, Zenon
<1>7. CASE UNCHANGED threadVars
  BY <1>7, Zenon DEF threadVars
<1> QED
  BY <1>1, <1>2, <1>3, <1>4, <1>5, <1>6, <1>7, Zenon DEF ThreadsNext, mpthread_run

\* mpthread_wait_proc takes hold after at most one more call of do_proc, for any
\* number of threads, however often it is started and told to wait.
THEOREM WaitsAreTimely == ThreadsSpec => []OneLateRun
<1>1. ThreadsInit => LateInv
  BY Zenon DEF ThreadsInit, LateInv, Statuses, Places
<1>2. LateInv => OneLateRun
  BY DEF LateInv, OneLateRun
<1> QED
  BY <1>1, <1>2, LateStep, PTL DEF ThreadsSpec

-----------------------------------------------------------------------------
(* The end of the process.                                                *)

CleanInv ==
    /\ ProcessTypeOK
    /\ arrived = "late" => polled /\ pc["sig"] \in {"read", "store", "grace"}
    /\ arrived = "late" /\ pc["sig"] = "store" => polledRead
    /\ ended = "exit" => devices = "gone"
    /\ pc["loop"] \in {"setup", "install", "poll", "run", "top", "handle", "step", "blocked",
                       "endclock", "load"} => fn["loop"] = "device_cleanup"
    /\ fn["loop"] = "finalize" => pc["loop"] = "call" \/ finalized
    /\ arrived = "late" /\ ended = "exit" => pc["loop"] = "exit"

\* Every step of the two threads keeps the invariant.
LEMMA CleanStep == CleanInv /\ [ProcessNext]_processVars => CleanInv'
<1> SUFFICES ASSUME CleanInv, [ProcessNext]_processVars PROVE CleanInv'
  BY Zenon
<1> USE DEF CleanInv, ProcessTypeOK, Goto, ProcessThreads, LoopThreadPoints, SigPoints,
            ExitPoints, Cleanups
<1>1. CASE Alive /\ Starting
  <2>1. CASE Setup
    <3>1. /\ UNCHANGED <<mode, polled, requested, cleanup, polledRead, fn, devices, arrived, ended>>
          /\ pc["loop"] = "setup" /\ finalized' \in BOOLEAN
          /\ \E p \in {"install", "run", "exit"} : pc' = [pc EXCEPT !["loop"] = p]
      BY <2>1, Zenon DEF Setup
    <3>2. PICK p \in {"install", "run", "exit"} : pc' = [pc EXCEPT !["loop"] = p]
      BY <3>1, Zenon
    <3>3. /\ pc'["loop"] = p /\ pc'["sig"] = pc["sig"]
          /\ pc' \in [ProcessThreads -> LoopThreadPoints \cup SigPoints]
      BY <3>2, Zenon
    <3> QED
      BY <1>1, <3>1, <3>3 DEF Alive
  <2>2. CASE InstallFinalize
    BY <1>1, <2>2, Zenon DEF Alive, InstallFinalize
  <2>3. CASE FromMainLoop
    BY <1>1, <2>3 DEF Alive, FromMainLoop
  <2> QED
    BY <1>1, <2>1, <2>2, <2>3, Zenon DEF Starting
<1>2. CASE Alive /\ Looping
  <2>1. CASE TopOfLoop \/ HandleRequest \/ Step
    BY <1>2, <2>1 DEF Alive, TopOfLoop, HandleRequest, Step
  <2>2. CASE EndClockReached \/ AssetFails
    BY <1>2, <2>2, Zenon DEF Alive, EndClockReached, AssetFails
  <2> QED
    BY <1>2, <2>1, <2>2, Zenon DEF Looping
<1>3. ASSUME NEW t \in ProcessThreads, Alive /\ Leaving(t) PROVE CleanInv'
  <2>1. CASE LoadCleanup(t)
    BY <1>3, <2>1 DEF Alive, LoadCleanup
  <2>2. CASE CallCleanup(t)
    <3>1. CASE t = "loop"
      <4>1. CASE fn[t] = "device_cleanup"
        BY <1>3, <2>2, <3>1, <4>1 DEF Alive, CallCleanup
      <4>2. CASE fn[t] = "finalize"
        BY <1>3, <2>2, <3>1, <4>2 DEF Alive, CallCleanup
      <4> QED
        BY <4>1, <4>2, Zenon
    <3>2. CASE t = "sig"
      <4>1. arrived # "late" /\ arrived' = arrived
        BY <2>2, <3>2, Zenon DEF CallCleanup
      <4>2. CASE fn[t] = "device_cleanup"
        BY <1>3, <2>2, <3>2, <4>1, <4>2 DEF Alive, CallCleanup
      <4>3. CASE fn[t] = "finalize"
        BY <1>3, <2>2, <3>2, <4>1, <4>3 DEF Alive, CallCleanup
      <4> QED
        BY <4>2, <4>3, Zenon
    <3> QED
      BY <3>1, <3>2, Zenon
  <2>3. CASE DevicesFreed(t)
    BY <1>3, <2>3 DEF Alive, DevicesFreed
  <2>4. CASE Exit(t)
    BY <1>3, <2>4 DEF Alive, Exit
  <2> QED
    BY <1>3, <2>1, <2>2, <2>3, <2>4, Zenon DEF Leaving
<1>4. CASE Alive /\ Signalled
  <2>1. CASE SigReadPolled
    BY <1>4, <2>1 DEF Alive, SigReadPolled
  <2>2. CASE SigStore
    BY <1>4, <2>2 DEF Alive, SigStore
  <2>3. CASE SigForced
    BY <1>4, <2>3 DEF Alive, SigForced
  <2> QED
    BY <1>4, <2>1, <2>2, <2>3, Zenon DEF Signalled
<1>5. CASE Alive /\ Sigterm
  BY <1>5 DEF Alive, Sigterm
<1>6. CASE UNCHANGED processVars
  BY <1>6 DEF processVars
<1> QED
  BY <1>1, <1>2, <1>3, <1>4, <1>5, <1>6, Zenon DEF ProcessNext, LoopThread, SigThread, StayEnded

\* What a SIGTERM does once osdep_terminate_from_main_loop has been called is clean,
\* in whichever of the modes the program is started.
THEOREM LateSigtermIsAlwaysClean == ProcessSpec => []LateSigtermIsClean
<1>1. ProcessInit => CleanInv
  <2> SUFFICES ASSUME ProcessInit PROVE CleanInv
    BY Zenon
  <2>1. pc = [t \in ProcessThreads |-> IF t = "loop" THEN "setup" ELSE "wait"]
    BY DEF ProcessInit, ProcessThreads
  <2> QED
    BY <2>1, ModesAssumption, Zenon
    DEF ProcessInit, CleanInv, ProcessTypeOK, ProcessThreads, LoopThreadPoints, SigPoints,
        ExitPoints, Cleanups
<1>2. CleanInv => LateSigtermIsClean
  BY Zenon DEF CleanInv, LateSigtermIsClean, LateCleanupOutsideLoop, LateExitIsClean, CleanupOutsideLoop,
         Freeing, InStep
<1> QED
  BY <1>1, <1>2, CleanStep, PTL DEF ProcessSpec
=============================================================================
