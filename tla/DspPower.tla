------------------------------ MODULE DspPower ------------------------------
(***************************************************************************)
(* Loading and shutting down the DSP core at run time (dsp_process.c), by  *)
(* tasks that preempt each other, and the power-off the idle task does.    *)
(*                                                                         *)
(* Each action is what a task does between two points at which another     *)
(* task may run: a critical section is one action, a blocking call two.    *)
(***************************************************************************)
EXTENDS Integers

CONSTANTS
    Tasks,     \* the tasks that load or shut down the DSP
    NoTask     \* the mutex is free

ASSUME NoTaskAssumption == NoTask \notin Tasks

VARIABLES
    pc,        \* where each task is
    mutex,     \* g_dynamic_dsp_load_m
    lpm,       \* DSP_LPM_STATE
    powered,   \* the DSP core was started, and has not been powered off since
    offReq,    \* g_dsp_off_request
    netInited, \* network_task_inited
    icm,       \* icm_buf_check: messages to the other core are pending
    busy,      \* g_need_offtime or SEND_REQ_NOW: the DSP must not be asked
    up,        \* the system runs; otherwise it is being dumped
    slow,      \* this DSP may still be starting when the loader stops waiting for it
    wanted     \* the caller's view: "loaded" after a load returned, "off" after a shutdown was asked

vars == <<pc, mutex, lpm, powered, offReq, netInited, icm, busy, up, slow, wanted>>

PCs == {"idle", "net", "lock", "test", "copy", "start", "unlock",
        "off_lock", "off_test", "off_cfun", "off_request", "off_unlock"}

TypeOK ==
    /\ pc \in [Tasks -> PCs]
    /\ mutex \in Tasks \cup {NoTask}
    /\ lpm \in {"DSP_NOT_LOADED", "DSP_ALIVE", "DSP_ASLEEP"}
    /\ powered \in BOOLEAN
    /\ offReq \in Nat
    /\ netInited \in BOOLEAN
    /\ icm \in BOOLEAN
    /\ busy \in BOOLEAN
    /\ up \in BOOLEAN
    /\ slow \in BOOLEAN
    /\ wanted \in {"nothing", "loaded", "off"}

\* work_mode # 0: the M3 starts alone.
Init ==
    /\ pc = [t \in Tasks |-> "idle"]
    /\ mutex = NoTask
    /\ lpm = "DSP_NOT_LOADED"
    /\ powered = FALSE
    /\ offReq = 0
    /\ netInited = FALSE
    /\ icm = FALSE
    /\ busy = FALSE
    /\ up = TRUE
    /\ slow \in BOOLEAN
    /\ wanted = "nothing"

NotLoaded == lpm = "DSP_NOT_LOADED"

Goto(t, from, to) == up /\ pc[t] = from /\ pc' = [pc EXCEPT ![t] = to]

AcquireAlways(t) == mutex' = mutex
Acquire(t) == mutex = NoTask /\ mutex' = t

Release(t) == mutex' = IF mutex = t THEN NoTask ELSE mutex

-----------------------------------------------------------------------------
(***************************************************************************)
(* dynamic_load_up_dsp(0), and network_task_init before it.                *)
(***************************************************************************)
Load(t) ==
    /\ Goto(t, "idle", IF netInited THEN "lock" ELSE "net")
    /\ UNCHANGED <<mutex, lpm, powered, offReq, netInited, icm, busy, up, slow, wanted>>

NetworkTaskInit(t) ==
    /\ Goto(t, "net", "lock")
    /\ netInited' = TRUE
    /\ UNCHANGED <<mutex, lpm, powered, offReq, icm, busy, up, slow, wanted>>

LoadLock(t) ==
    /\ Goto(t, "lock", "test")
    /\ Acquire(t)
    /\ UNCHANGED <<lpm, powered, offReq, netInited, icm, busy, up, slow, wanted>>

LoadTest(t) ==
    /\ Goto(t, "test", IF NotLoaded THEN "copy" ELSE "unlock")
    /\ UNCHANGED <<mutex, lpm, powered, offReq, netInited, icm, busy, up, slow, wanted>>

\* The DSP is held in reset and its image is copied, in a critical section;
\* a core that was running is cut off, and started again by the next step.
CopyImage(t) ==
    /\ Goto(t, "copy", "start")
    /\ UNCHANGED <<mutex, lpm, powered, offReq, netInited, icm, busy, up, slow, wanted>>

\* dynamic_set_DSP_work_mode: the DSP is released and given some time to
\* report that it is alive.
StartDsp(t) ==
    /\ Goto(t, "start", "unlock")
    /\ powered' = TRUE
    /\ \/ lpm' = "DSP_ALIVE"
       \/ slow /\ UNCHANGED lpm
    /\ UNCHANGED <<mutex, offReq, netInited, icm, busy, up, slow, wanted>>

LoadUnlock(t) ==
    /\ Goto(t, "unlock", "idle")
    /\ Release(t)
    /\ wanted' = "loaded"
    /\ UNCHANGED <<lpm, powered, offReq, netInited, icm, busy, up, slow>>

-----------------------------------------------------------------------------
(***************************************************************************)
(* shut_down_dsp_core, when work_mode # 0.                                 *)
(***************************************************************************)
ShutDown(t) ==
    /\ Goto(t, "idle", "off_lock")
    /\ wanted' = "off"
    /\ UNCHANGED <<mutex, lpm, powered, offReq, netInited, icm, busy, up, slow>>

OffLock(t) ==
    /\ Goto(t, "off_lock", "off_test")
    /\ Acquire(t)
    /\ UNCHANGED <<lpm, powered, offReq, netInited, icm, busy, up, slow, wanted>>

OffTest(t) ==
    /\ pc[t] = "off_test"
    /\ \/ Goto(t, "off_test", "off_unlock") /\ (NotLoaded \/ offReq # 0)
       \/ Goto(t, "off_test", "off_cfun") /\ ~NotLoaded /\ offReq = 0 /\ ~busy
    /\ UNCHANGED <<mutex, lpm, powered, offReq, netInited, icm, busy, up, slow, wanted>>

\* xy_assert(0): the DSP is loaded, no request is pending, and it is busy.
OffAssert(t) ==
    /\ up /\ pc[t] = "off_test" /\ ~NotLoaded /\ offReq = 0 /\ busy
    /\ up' = FALSE
    /\ UNCHANGED <<pc, mutex, lpm, powered, offReq, netInited, icm, busy, slow, wanted>>

\* at_ReqAndRsp_to_ps("AT+CFUN=5"): the task waits for the answer.
OffCfun(t) ==
    /\ Goto(t, "off_cfun", "off_request")
    /\ UNCHANGED <<mutex, lpm, powered, offReq, netInited, icm, busy, up, slow, wanted>>

OffRequest(t) ==
    /\ Goto(t, "off_request", "off_unlock")
    /\ offReq' = offReq + 1
    /\ UNCHANGED <<mutex, lpm, powered, netInited, icm, busy, up, slow, wanted>>

OffUnlock(t) ==
    /\ Goto(t, "off_unlock", "idle")
    /\ Release(t)
    /\ UNCHANGED <<lpm, powered, offReq, netInited, icm, busy, up, slow, wanted>>

-----------------------------------------------------------------------------
\* The idle task runs when every other task waits: for work, for the answer
\* to AT+CFUN=5, or for the mutex.
Waiting(t) ==
    \/ pc[t] \in {"idle", "off_cfun"}
    \/ pc[t] \in {"lock", "off_lock"} /\ mutex # NoTask

\* shut_down_dspcore_process, called by the idle task.
ShutDownProcessUnasked ==
    /\ up
    /\ \A t \in Tasks : Waiting(t)
    /\ ~icm
    /\ powered' = FALSE
    /\ lpm' = "DSP_NOT_LOADED"
    /\ offReq' = offReq - 1
    /\ UNCHANGED <<pc, mutex, netInited, icm, busy, up, slow, wanted>>
ShutDownProcess ==
    /\ up
    /\ \A t \in Tasks : Waiting(t)
    /\ offReq # 0
    /\ ~icm
    /\ powered' = FALSE
    /\ lpm' = "DSP_NOT_LOADED"
    /\ offReq' = 0
    /\ UNCHANGED <<pc, mutex, netInited, icm, busy, up, slow, wanted>>

-----------------------------------------------------------------------------
(***************************************************************************)
(* The other core and the rest of the system.                              *)
(***************************************************************************)

\* The DSP reports itself alive, or goes to sleep and wakes.
DspReports ==
    /\ up /\ powered
    /\ lpm' = IF lpm = "DSP_ALIVE" THEN "DSP_ASLEEP" ELSE "DSP_ALIVE"
    /\ UNCHANGED <<pc, mutex, powered, offReq, netInited, icm, busy, up, slow, wanted>>

IcmPending ==
    /\ up /\ powered /\ ~icm
    /\ icm' = TRUE
    /\ UNCHANGED <<pc, mutex, lpm, powered, offReq, netInited, busy, up, slow, wanted>>

IcmDrained ==
    /\ up /\ icm
    /\ icm' = FALSE
    /\ UNCHANGED <<pc, mutex, lpm, powered, offReq, netInited, busy, up, slow, wanted>>

DspBusy ==
    /\ up /\ powered
    /\ busy' = ~busy
    /\ UNCHANGED <<pc, mutex, lpm, powered, offReq, netInited, icm, up, slow, wanted>>

\* A fatal error: dynamic_load_up_dsp(1) loads the DSP, without the mutex,
\* so that the dump can be written; no task runs again.
DumpLoad ==
    /\ up
    /\ up' = FALSE
    /\ \/ NotLoaded /\ powered' = TRUE /\ lpm' = "DSP_ALIVE"
       \/ ~NotLoaded /\ UNCHANGED <<powered, lpm>>
    /\ UNCHANGED <<pc, mutex, offReq, netInited, icm, busy, slow, wanted>>

\* The dump ends in a reset.
Reset ==
    /\ ~up
    /\ pc' = [t \in Tasks |-> "idle"]
    /\ mutex' = NoTask
    /\ lpm' = "DSP_NOT_LOADED"
    /\ powered' = FALSE
    /\ offReq' = 0
    /\ netInited' = FALSE
    /\ icm' = FALSE
    /\ busy' = FALSE
    /\ up' = TRUE
    /\ wanted' = "nothing"
    /\ UNCHANGED slow

TaskStep(t) ==
    \/ NetworkTaskInit(t) \/ LoadLock(t) \/ LoadTest(t) \/ CopyImage(t) \/ StartDsp(t) \/ LoadUnlock(t)
    \/ OffLock(t) \/ OffTest(t) \/ OffAssert(t) \/ OffCfun(t) \/ OffRequest(t) \/ OffUnlock(t)

Next ==
    \/ \E t \in Tasks : Load(t) \/ ShutDown(t) \/ TaskStep(t)
    \/ ShutDownProcess
    \/ DspReports \/ IcmPending \/ IcmDrained \/ DspBusy
    \/ DumpLoad \/ Reset

Spec == Init /\ [][Next]_vars

-----------------------------------------------------------------------------
\* The image of the DSP is never copied over a core that runs, provided the
\* DSP reports itself in time: the test of DSP_LPM_STATE and the copy are
\* under one mutex.
NoCopyUnderRunningDsp ==
    [][\A t \in Tasks : CopyImage(t) /\ ~slow => ~powered]_vars

\* AT+CFUN=5 is asked once for each power-off, however many tasks call
\* shut_down_dsp_core and however late the DSP reports itself, and the
\* power-off of a core that is off is never pending.
OneOffRequest == offReq <= 1 /\ (offReq # 0 => powered)

\* "to use the DSP again, call dynamic_load_up_dsp": once a load has returned
\* the DSP stays loaded until a shutdown is asked for.
LoadedStaysLoaded == wanted = "loaded" /\ up /\ ~slow => ~NotLoaded

-----------------------------------------------------------------------------
(***************************************************************************)
(* The inductive invariant of the proofs.                                  *)
(***************************************************************************)
Holding(t) ==
    pc[t] \in {"test", "copy", "start", "unlock", "off_test", "off_cfun", "off_request", "off_unlock"}

MutexInv == \A t \in Tasks : Holding(t) <=> mutex = t

\* A core that reports itself runs, and one that is about to be asked for the
\* power-off has not been asked yet.
OffInv ==
    /\ ~NotLoaded => powered
    /\ OneOffRequest
    /\ up => \A t \in Tasks :
                pc[t] \in {"off_cfun", "off_request"} => powered /\ offReq = 0

\* If the DSP reports itself in time, DSP_LPM_STATE tells whether the core
\* runs, and a task about to copy the image has a core that does not run.
CopyInv ==
    ~slow =>
        /\ powered => ~NotLoaded
        /\ up => \A t \in Tasks : pc[t] \in {"copy", "start"} => ~powered

\* At most one task is between the acquire and the release of
\* g_dynamic_dsp_load_m, and what it has tested stays true while it is there.
DspInv == MutexInv /\ OffInv /\ CopyInv
=============================================================================
