------------------------------ MODULE Termination ------------------------------
(***************************************************************************)
(* How the background program ends: SIGTERM, received by a thread of its   *)
(* own (osdep_posix.c), the main loop that is asked to end between two     *)
(* steps (cpuemu.cpp), the end clock, a CPU exception, and the cleanup of  *)
(* external devices and of the Hakoniwa asset on each of these ways out.   *)
(***************************************************************************)

CONSTANT Modes  \* which of "plain" and "hakoniwa" (--hakoniwa) are started

ASSUME ModesAssumption == Modes \subseteq {"plain", "hakoniwa"} /\ Modes # {}

ProcessThreads == {"loop", "sig"}

VARIABLES
    mode,       \* how the program was started
    pc,         \* control point of the loop thread and of the SIGTERM thread
    polled,     \* osdep_terminate_polled
    requested,  \* osdep_terminate_requested
    cleanup,    \* osdep_cleanup: whose function is installed
    polledRead, \* polled, as the SIGTERM thread read it
    fn,         \* the cleanup function a thread loaded
    devices,    \* the external devices: live, cleaning or gone
    finalized,  \* athrill_hakoniwa_finalize has released the asset
    arrived,    \* history: whether SIGTERM came before or after the loop polls
    ended       \* how the process ended

processVars == <<mode, pc, polled, requested, cleanup, polledRead, fn, devices, finalized,
          arrived, ended>>

ExitPoints == {"load", "call", "freeing", "exit", "atexit"}
LoopThreadPoints == {"setup", "install", "poll", "run", "top", "handle", "step", "blocked",
               "endclock"} \cup ExitPoints
SigPoints == {"wait", "read", "store", "grace"} \cup ExitPoints
Cleanups == {"device_cleanup", "finalize"}

ProcessTypeOK ==
    /\ mode \in Modes
    /\ pc \in [ProcessThreads -> LoopThreadPoints \cup SigPoints]
    /\ pc["loop"] \in LoopThreadPoints /\ pc["sig"] \in SigPoints
    /\ polled \in BOOLEAN /\ requested \in BOOLEAN /\ polledRead \in BOOLEAN
    /\ cleanup \in Cleanups /\ fn \in [ProcessThreads -> Cleanups]
    /\ devices \in {"live", "cleaning", "gone"}
    /\ finalized \in BOOLEAN
    /\ arrived \in {"no", "early", "late"}
    /\ ended \in {"no", "exit", "forced"}

\* main has installed athrill_device_cleanup and started the SIGTERM thread.
ProcessInit ==
    /\ mode \in Modes
    /\ pc = [loop |-> "setup", sig |-> "wait"]
    /\ polled = FALSE /\ requested = FALSE /\ polledRead = FALSE
    /\ cleanup = "device_cleanup" /\ fn = [t \in ProcessThreads |-> "device_cleanup"]
    /\ devices = "live" /\ finalized = FALSE
    /\ arrived = "no" /\ ended = "no"

Goto(t, from, to) == pc[t] = from /\ pc' = [pc EXCEPT ![t] = to]

-----------------------------------------------------------------------------
(* Starting, the loop, and its ways out. *)

\* Configuration and initialisation; a failure returns from main, and releases the
\* asset if it was registered already.
Setup ==
    /\ \/ /\ Goto("loop", "setup", IF mode = "hakoniwa" THEN "install" ELSE "run")
          /\ UNCHANGED finalized
       \/ /\ Goto("loop", "setup", "exit")
          /\ finalized' \in {FALSE, mode = "hakoniwa"}
    /\ UNCHANGED <<mode, polled, requested, cleanup, polledRead, fn, devices, arrived, ended>>

\* The end of athrill_hakoniwa_initialize, which first registers the asset.
InstallFinalize ==
    /\ Goto("loop", "install", "poll")
    /\ cleanup' = "finalize"
    /\ UNCHANGED <<mode, polled, requested, polledRead, fn, devices, finalized, arrived, ended>>

\* osdep_terminate_from_main_loop, called there and before the loop.
FromMainLoop ==
    /\ \/ Goto("loop", "poll", "run")
       \/ Goto("loop", "run", "top")
    /\ polled' = TRUE
    /\ UNCHANGED <<mode, requested, cleanup, polledRead, fn, devices, finalized, arrived, ended>>

TopOfLoop ==
    /\ \/ Goto("loop", "top", "endclock")
       \/ Goto("loop", "top", "handle")
    /\ UNCHANGED <<mode, polled, requested, cleanup, polledRead, fn, devices, finalized,
                   arrived, ended>>

\* The end clock: finalize, then clean the devices up before exit.
EndClockReached ==
    /\ Goto("loop", "endclock", "freeing")
    /\ finalized' = (finalized \/ mode = "hakoniwa")
    /\ devices' = "cleaning"
    /\ UNCHANGED <<mode, polled, requested, cleanup, polledRead, fn, arrived, ended>>

\* osdep_handle_terminate_request, in the loop and in the waiting stage.
HandleRequest ==
    /\ Goto("loop", "handle", IF requested THEN "load" ELSE "step")
    /\ UNCHANGED <<mode, polled, requested, cleanup, polledRead, fn, devices, finalized,
                   arrived, ended>>

\* A step of devices and CPU: it ends, polls again (the stage waits for the world
\* time), blocks in a device for good, or ends the program with an exception.
Step ==
    /\ \/ Goto("loop", "step", "top")
       \/ mode = "hakoniwa" /\ Goto("loop", "step", "handle")
       \/ Goto("loop", "step", "blocked")
       \/ Goto("loop", "step", "exit")
    /\ UNCHANGED <<mode, polled, requested, cleanup, polledRead, fn, devices, finalized,
                   arrived, ended>>

\* A failed reset or poll of the asset ends the program after releasing the asset.
AssetFails ==
    /\ mode = "hakoniwa"
    /\ Goto("loop", "step", "exit")
    /\ finalized' = TRUE
    /\ UNCHANGED <<mode, polled, requested, cleanup, polledRead, fn, devices, arrived, ended>>

-----------------------------------------------------------------------------
(* osdep_run_cleanup_and_exit, and exit with its atexit handler, in thread t. *)

\* The installed function is read under the mutex ...
LoadCleanup(t) ==
    /\ Goto(t, "load", "call")
    /\ fn' = [fn EXCEPT ![t] = cleanup]
    /\ UNCHANGED <<mode, polled, requested, cleanup, polledRead, devices, finalized, arrived,
                   ended>>

\* ... and called without it.
CallCleanup(t) ==
    /\ \/ /\ fn[t] = "device_cleanup" /\ Goto(t, "call", "freeing")
          /\ devices' = "cleaning"
          /\ UNCHANGED finalized
       \/ /\ fn[t] = "finalize" /\ Goto(t, "call", "exit")
          /\ finalized' = TRUE
          /\ UNCHANGED devices
    /\ UNCHANGED <<mode, polled, requested, cleanup, polledRead, fn, arrived, ended>>

\* athrill_device_cleanup has freed the devices.
DevicesFreed(t) ==
    /\ \/ Goto(t, "freeing", "exit")
       \/ Goto(t, "atexit", "exit")
    /\ devices' = "gone"
    /\ UNCHANGED <<mode, polled, requested, cleanup, polledRead, fn, finalized, arrived, ended>>

\* exit runs athrill_device_cleanup once more, which finds no device the second time.
Exit(t) ==
    /\ pc[t] = "exit"
    /\ IF devices = "gone"
       THEN ended' = "exit" /\ UNCHANGED <<pc, devices>>
       ELSE /\ Goto(t, "exit", "atexit")
            /\ devices' = "cleaning"
            /\ UNCHANGED ended
    /\ UNCHANGED <<mode, polled, requested, cleanup, polledRead, fn, finalized, arrived>>

-----------------------------------------------------------------------------
(* osdep_terminate_thread. *)

\* SIGTERM arrives, at any time (external).
Sigterm ==
    /\ Goto("sig", "wait", "read")
    /\ arrived' = IF polled THEN "late" ELSE "early"
    /\ UNCHANGED <<mode, polled, requested, cleanup, polledRead, fn, devices, finalized, ended>>

SigReadPolled ==
    /\ Goto("sig", "read", "store")
    /\ polledRead' = polled
    /\ UNCHANGED <<mode, polled, requested, cleanup, fn, devices, finalized, arrived, ended>>

\* Mutation: the thread cleans up whether or not the loop polls.
SigStore_Always ==
    /\ Goto("sig", "store", "load")
    /\ requested' = TRUE
    /\ UNCHANGED <<mode, polled, cleanup, polledRead, fn, devices, finalized, arrived, ended>>

SigStore ==
    /\ Goto("sig", "store", IF polledRead THEN "grace" ELSE "load")
    /\ requested' = TRUE
    /\ UNCHANGED <<mode, polled, cleanup, polledRead, fn, devices, finalized, arrived, ended>>

\* Mutation: the thread waits for the loop to come round.
SigForced_WhenIdle ==
    /\ pc["sig"] = "grace" /\ pc["loop"] # "blocked"
    /\ ended' = "forced"
    /\ UNCHANGED <<mode, pc, polled, requested, cleanup, polledRead, fn, devices, finalized,
                   arrived>>

\* The three seconds are over: leave, whatever the loop does.
SigForced ==
    /\ pc["sig"] = "grace"
    /\ ended' = "forced"
    /\ UNCHANGED <<mode, pc, polled, requested, cleanup, polledRead, fn, devices, finalized,
                   arrived>>

Starting == Setup \/ InstallFinalize \/ FromMainLoop
Looping == TopOfLoop \/ EndClockReached \/ HandleRequest \/ Step \/ AssetFails
Leaving(t) == LoadCleanup(t) \/ CallCleanup(t) \/ DevicesFreed(t) \/ Exit(t)
Signalled == SigReadPolled \/ SigStore \/ SigForced

Alive == ended = "no"
LoopThread == Alive /\ (Starting \/ Looping \/ Leaving("loop"))
SigThread == Alive /\ (Signalled \/ Leaving("sig"))
StayEnded == ~Alive /\ UNCHANGED processVars

ProcessNext == LoopThread \/ SigThread \/ (Alive /\ Sigterm) \/ StayEnded
ProcessSpec == ProcessInit /\ [][ProcessNext]_processVars

\* Both threads are scheduled; nobody has to send a signal.
ProcessFairSpec == ProcessSpec /\ WF_processVars(LoopThread) /\ WF_processVars(SigThread)

-----------------------------------------------------------------------------
Freeing(t) == pc[t] \in {"freeing", "atexit"}
InStep == pc["loop"] \in {"step", "blocked"}

\* What the comment before the loop of cpuemu_thread_run says: a SIGTERM never has the
\* devices cleaned up while the loop is still using them.
CleanupOutsideLoop == Alive /\ Freeing("sig") => ~InStep

\* A SIGTERM that arrives once the loop polls for it keeps to that, and its cleanup
\* never runs in two threads at once.
LateCleanupOutsideLoop ==
    arrived = "late" => CleanupOutsideLoop /\ ~(Alive /\ Freeing("sig") /\ Freeing("loop"))

\* Then the program also leaves nothing behind unless it had to be forced out: the
\* devices are cleaned up, and a request that the loop answered released the asset.
LateExitIsClean ==
    arrived = "late" /\ ended = "exit" =>
        devices = "gone" /\ (mode = "hakoniwa" /\ fn["loop"] = "finalize" => finalized)

\* Both: what a SIGTERM does once the loop polls for it.
LateSigtermIsClean == ProcessTypeOK /\ LateCleanupOutsideLoop /\ LateExitIsClean

\* SIGTERM ends the program, even when the loop is blocked in a device.
SigtermEnds == (arrived # "no") ~> ~Alive
=============================================================================
