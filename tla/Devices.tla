---------------------------------- MODULE Devices ----------------------------------
(***************************************************************************)
(* The emulator's tasks and threads: the mROS tasks, the device threads,   *)
(* and the end of the process on SIGTERM.  They share no state, so each    *)
(* behaviour runs one of them, part, and leaves the variables of the       *)
(* others as they are.                                                     *)
(***************************************************************************)
EXTENDS Mros, Mpthread, Termination

VARIABLE part

all == <<part, mrosVars, threadVars, processVars>>

DevicesInit ==
    /\ part \in {"mros", "threads", "process"}
    /\ MrosInit /\ ThreadsInit
    /\ ProcessInit /\ (part # "process" => mode = "plain")

MrosTasks(A) == part = "mros" /\ A /\ UNCHANGED <<part, threadVars, processVars>>
DeviceThreads(A) == part = "threads" /\ A /\ UNCHANGED <<part, mrosVars, processVars>>
Process(A) == part = "process" /\ A /\ UNCHANGED <<part, mrosVars, threadVars>>

DevicesNext ==
    \/ MrosTasks(MrosNext) \/ DeviceThreads(ThreadsNext) \/ Process(ProcessNext)

\* The fairness of each part, see the modules.
MrosFairness ==
    /\ WF_all(MrosTasks(Register)) /\ WF_all(MrosTasks(RegisterReturns))
    /\ WF_all(MrosTasks(cyclic_handler)) /\ WF_all(MrosTasks(mros_protocol_master_run))
    /\ WF_all(MrosTasks(mros_protocol_subscribe_run))
    /\ WF_all(MrosTasks(slv.pc # "accept" /\ mros_protocol_slave_run))
ThreadsFairness ==
    \A i \in Ids : /\ SF_all(DeviceThreads(mpthread_run(i)))
                   /\ WF_all(DeviceThreads(mpthread_unlock(i)))
ProcessFairness ==
    WF_all(Process(LoopThread)) /\ WF_all(Process(SigThread))

DevicesSpec ==
    /\ DevicesInit /\ [][DevicesNext]_all
    /\ MrosFairness /\ ThreadsFairness /\ ProcessFairness
=============================================================================
