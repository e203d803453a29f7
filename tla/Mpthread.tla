-------------------------------- MODULE Mpthread --------------------------------
(***************************************************************************)
(* The device threads (device/peripheral/athrill_mpthread.c): a thread per *)
(* registered operation that runs do_proc over and over while its status   *)
(* is RUNNING and waits on its condition variable otherwise.  The serial   *)
(* FIFOs use it, and external devices through athrill_exdev_operation.     *)
(*                                                                         *)
(* status and timeout are read and written under the thread's mutex, and   *)
(* nothing blocks inside one of these critical sections, so each of them   *)
(* is one action.  A device may hold the mutex around its own data         *)
(* (mpthread_lock), which delays the others.                               *)
(***************************************************************************)
EXTENDS Naturals

CONSTANT MaxThreads   \* MPTHREAD_MAX_NUM

VARIABLES mpthread_num,
          status, timeout,   \* mpthread_info[]: status, and whether timeout # 0
          held,              \* mutex held by a device
          at,                \* where the thread is
          late               \* do_proc calls begun since the last wait request

threadVars == <<mpthread_num, status, timeout, held, at, late>>

Ids == 0 .. MaxThreads - 1
Registered == 0 .. mpthread_num - 1

ThreadsInit ==
    /\ mpthread_num = 0
    /\ status = [i \in Ids |-> "none"] /\ timeout = [i \in Ids |-> FALSE]
    /\ held = [i \in Ids |-> FALSE] /\ at = [i \in Ids |-> "none"]
    /\ late = [i \in Ids |-> 0]

-----------------------------------------------------------------------------
(* The interface the devices call.                                          *)

mpthread_register ==
    /\ mpthread_num < MaxThreads
    /\ mpthread_num' = mpthread_num + 1
    /\ status' = [status EXCEPT ![mpthread_num] = "initializing"]
    /\ timeout' = [timeout EXCEPT ![mpthread_num] = FALSE]
    /\ at' = [at EXCEPT ![mpthread_num] = "do_init"]
    /\ UNCHANGED <<held, late>>

mpthread_lock(i) ==
    /\ ~held[i] /\ held' = [held EXCEPT ![i] = TRUE]
    /\ UNCHANGED <<mpthread_num, status, timeout, at, late>>

mpthread_unlock(i) ==
    /\ held[i] /\ held' = [held EXCEPT ![i] = FALSE]
    /\ UNCHANGED <<mpthread_num, status, timeout, at, late>>

Waiting(i) == at[i] \in {"cond_wait", "cond_timedwait"}

\* Mutant: the status changes and nobody is signalled.
mpthread_start_proc_NoSignal(i) ==
    /\ ~held[i]
    /\ status' = [status EXCEPT ![i] = "running"]
    /\ late' = [late EXCEPT ![i] = 0]
    /\ UNCHANGED <<mpthread_num, timeout, held, at>>

mpthread_start_proc(i) ==
    /\ ~held[i]
    /\ status' = [status EXCEPT ![i] = "running"]
    /\ at' = [at EXCEPT ![i] = IF Waiting(i) THEN "loop" ELSE @]
    /\ late' = [late EXCEPT ![i] = 0]
    /\ UNCHANGED <<mpthread_num, timeout, held>>

\* mpthread_wait_proc, and mpthread_timedwait_proc with timed, whose timeout of
\* zero is mpthread_wait_proc.
mpthread_wait_proc(i, timed) ==
    /\ ~held[i]
    /\ timeout' = [timeout EXCEPT ![i] = timed]
    /\ status' = [status EXCEPT ![i] = "waiting"]
    /\ UNCHANGED <<mpthread_num, held, at, late>>

-----------------------------------------------------------------------------
(* The thread, mpthread_run.                                                *)

DoInit(i) ==
    /\ at[i] = "do_init" /\ at' = [at EXCEPT ![i] = "loop"]
    /\ UNCHANGED <<mpthread_num, status, timeout, held, late>>

\* The mutex is taken, the status read, and the mutex let go: by the wait on
\* the condition variable or before the call of do_proc.
CheckStatus(i) ==
    /\ at[i] = "loop" /\ ~held[i]
    /\ at' = [at EXCEPT ![i] = IF status[i] = "running" THEN "call"
                               ELSE IF timeout[i] THEN "cond_timedwait" ELSE "cond_wait"]
    /\ UNCHANGED <<mpthread_num, status, timeout, held, late>>

\* A spurious wakeup, or the timeout: its absolute time is some milliseconds
\* after the epoch, so pthread_cond_timedwait returns at once.
WakesUp(i) ==
    /\ Waiting(i) /\ at' = [at EXCEPT ![i] = "loop"]
    /\ UNCHANGED <<mpthread_num, status, timeout, held, late>>

\* do_proc is called with the mutex free.
CallProc(i) ==
    /\ at[i] = "call" /\ at' = [at EXCEPT ![i] = "do_proc"]
    /\ late' = [late EXCEPT ![i] = IF status[i] = "running" THEN 0 ELSE @ + 1]
    /\ UNCHANGED <<mpthread_num, status, timeout, held>>

\* Mutant: the next call needs no look at the status.
ProcReturns_NoCheck(i) ==
    /\ at[i] = "do_proc" /\ at' = [at EXCEPT ![i] = "call"] /\ late[i] < 3
    /\ UNCHANGED <<mpthread_num, status, timeout, held, late>>

ProcReturns(i) ==
    /\ at[i] = "do_proc" /\ at' = [at EXCEPT ![i] = "loop"]
    /\ UNCHANGED <<mpthread_num, status, timeout, held, late>>

mpthread_run(i) == DoInit(i) \/ CheckStatus(i) \/ CallProc(i) \/ ProcReturns(i)

ThreadsNext ==
    \/ mpthread_register
    \/ \E i \in Registered :
          \/ mpthread_lock(i) \/ mpthread_unlock(i) \/ mpthread_start_proc(i)
          \/ \E timed \in BOOLEAN : mpthread_wait_proc(i, timed)
          \/ mpthread_run(i) \/ WakesUp(i)

\* The threads are scheduled: a mutex that is free again and again is taken, do_init
\* and do_proc return, and a device gives the mutex back.
ThreadsSpec ==
    /\ ThreadsInit /\ [][ThreadsNext]_threadVars
    /\ \A i \in Ids : SF_threadVars(mpthread_run(i)) /\ WF_threadVars(mpthread_unlock(i))

-----------------------------------------------------------------------------
(* Properties.                                                              *)

\* A start is never lost: a thread that mpthread_start_proc set RUNNING comes to
\* call do_proc, unless a wait request follows, wherever the thread was when
\* the status changed and was signalled.
StartRuns ==
    \A i \in Ids : status[i] = "running" ~> (at[i] = "do_proc" \/ status[i] # "running")

\* A wait request takes hold after at most one more call of do_proc, the one that
\* mpthread_run had decided on when the request came.
OneLateRun == \A i \in Ids : late[i] <= 1
=============================================================================
