--------------------------------- MODULE Dm ---------------------------------
(***************************************************************************)
(* Registration with the operator's device management: telecom_dm.c and    *)
(* unicom_dm.c, started by dm_ctl.c when the interface comes up.           *)
(*                                                                         *)
(* The DM task asks the server, waits for its retry timer when it fails,   *)
(* and tidies up; the timers run in the timer task, at any moment.  Power  *)
(* may fail at any moment, and the device sleeps when nobody holds the     *)
(* work lock.                                                              *)
(***************************************************************************)
EXTENDS Integers

CONSTANTS
    Operators,     \* the operators of the cards: "telecom", "unicom"
    Cards,         \* the ICCIDs of the cards
    NoIccid,       \* ue_iccid before any registration, and what a failed AT+NCCID leaves
    dm_retry_num,  \* the factory NV's number of attempts
    MaxLocks       \* bound: the work lock's count when a task is started

ASSUME OperatorsAssumption == Operators \subseteq {"telecom", "unicom"}
ASSUME RetryAssumption == dm_retry_num \in 0 .. 255
ASSUME MaxLocksAssumption == MaxLocks \in Nat

VARIABLES
    uicc,      \* g_uicc_type
    card,      \* the ICCID of the card
    op,        \* POWER_ON and OPERATION_VER: the work lock is used
    pc,        \* where the DM task is; "none": g_*_dm_TskHandle is NULL
    nccid,     \* nccid_dm: what this task registers
    locked,    \* this task took the work lock
    locks,     \* the count of the work lock, DM's share
    ue_iccid,  \* the card registered last, in memory
    flash,     \* the same in flash
    aged,      \* current_time - last_reg_time > dm_reg_time
    retries,   \* have_retry_num
    sem,       \* dm_sem
    timer,     \* dm_timer
    overdue,   \* dm_timer_overdue runs
    flag,      \* unicom_timer_flag
    fault      \* a semaphore was released that had been deleted

task == <<uicc, card, op, nccid, locked, locks, ue_iccid, flash, aged, retries, sem, timer, overdue, flag, fault>>
vars == <<task, pc>>

PCs == {"none", "delay", "check", "attempt", "recv", "won", "lost", "wait", "out", "tidy", "unlock"}

NoSem == [state |-> "NULL", count |-> 0]

TypeOK ==
    /\ uicc \in Operators
    /\ card \in Cards
    /\ op \in BOOLEAN
    /\ pc \in PCs
    /\ nccid \in Cards \cup {NoIccid}
    /\ locked \in BOOLEAN
    /\ locks \in Int
    /\ ue_iccid \in Cards \cup {NoIccid}
    /\ flash \in Cards \cup {NoIccid}
    /\ aged \in BOOLEAN
    /\ retries \in 0 .. 255
    /\ sem \in [state : {"NULL", "live", "deleted"}, count : Nat]
    /\ timer \in {"NULL", "idle", "armed"}
    /\ overdue \in BOOLEAN
    /\ flag \in {0, 1}
    /\ fault \in BOOLEAN

Init ==
    /\ uicc \in Operators
    /\ card \in Cards
    /\ op \in BOOLEAN
    /\ pc = "none"
    /\ nccid = NoIccid
    /\ locked = FALSE
    /\ locks = 0
    /\ ue_iccid = NoIccid
    /\ flash = NoIccid
    /\ aged = TRUE
    /\ retries = 0
    /\ sem = NoSem
    /\ timer = "NULL"
    /\ overdue = FALSE
    /\ flag = 0
    /\ fault = FALSE

Goto(from, to) == ~fault /\ pc = from /\ pc' = to

\* get_sys_up_stat() == POWER_ON, OPERATION_VER and, for Unicom, unicom_timer_flag == 0.
UsesLock == op /\ (uicc = "unicom" => flag = 0)

-----------------------------------------------------------------------------
\* telecom_dm_init and unicom_dm_init: nothing when the task runs.
dm_init ==
    /\ ~fault
    /\ locks \in -MaxLocks .. MaxLocks
    /\ pc' = IF pc = "none" THEN "delay" ELSE pc

dm_netif_event_callback == dm_init /\ UNCHANGED task

LocksUnasked == locks
LocksAtStart == IF UsesLock THEN locks + 1 ELSE locks

\* The first lines of telecom_dm_run and unicom_dm_run.
TakeLock ==
    /\ Goto("delay", "check")
    /\ locked' = UsesLock
    /\ locks' = LocksAtStart
    /\ UNCHANGED <<uicc, card, op, nccid, ue_iccid, flash, aged, retries, sem, timer, overdue, flag, fault>>

Needed(iccid) ==
    \/ iccid # ue_iccid
    \/ uicc = "unicom" /\ (flag = 1 \/ aged)

\* telecom_need_start_dm and unicom_is_start_dm: the card is registered.  For Unicom the
\* overdue timer starts anew, and the work lock is taken once more.
NotNeeded(iccid) ==
    /\ Goto("check", "out")
    /\ ~Needed(iccid)
    /\ nccid' = NoIccid
    /\ overdue' = (overdue \/ uicc = "unicom")
    /\ locks' = IF uicc = "unicom" /\ UsesLock THEN locks + 1 ELSE locks
    /\ UNCHANGED <<uicc, card, op, locked, ue_iccid, flash, aged, retries, sem, timer, flag, fault>>

\* have_retry_num, the semaphore and the timer are made anew; FIRST_POWERON goes straight on.
SetUp(iccid) ==
    /\ Goto("check", "attempt")
    /\ Needed(iccid)
    /\ nccid' = iccid
    /\ retries' = 0
    /\ sem' = [state |-> "live", count |-> 0]
    /\ timer' = "idle"
    /\ overdue' = (overdue /\ uicc # "unicom")
    /\ UNCHANGED <<uicc, card, op, locked, locks, ue_iccid, flash, aged, flag, fault>>

\* IMEI and IMSI, then dm_socket_client up to the request that is sent: without them the task
\* ends; without a socket rc is what getaddrinfo left, or was never set (Unicom).
NoSocket == {"won", "lost"}
Attempt ==
    /\ \E to \in {"out", "lost", "recv"} \cup NoSocket : Goto("attempt", to)
    /\ UNCHANGED task

\* handle_connection waits for the server without a limit.
handle_connection ==
    /\ \E to \in {"won", "lost"} : Goto("recv", to)
    /\ UNCHANGED task

\* The registration is saved.  A write that fails ends in xy_assert, which starts the device
\* anew with what flash held before: that is PowerLoss at this place.
Won ==
    /\ Goto("won", "out")
    /\ ue_iccid' = nccid
    /\ flash' = nccid
    /\ aged' = (aged /\ uicc # "unicom")
    /\ overdue' = (overdue \/ uicc = "unicom")
    /\ flag' = IF uicc = "unicom" THEN 0 ELSE flag
    /\ UNCHANGED <<uicc, card, op, nccid, locked, locks, retries, sem, timer, fault>>

MoreThanAllowed == retries + 1 <= dm_retry_num
TriesLeft == retries + 1 < dm_retry_num

TimerStarted == "armed"
TimerForgotten == timer
TimerAfterLoss == IF TriesLeft THEN "armed" ELSE timer

RetriesLeft == retries - 1
RetriesMade == retries + 1

Lost ==
    /\ Goto("lost", IF TriesLeft THEN "wait" ELSE "out")
    /\ retries' = RetriesMade
    /\ timer' = TimerAfterLoss
    /\ UNCHANGED <<uicc, card, op, nccid, locked, locks, ue_iccid, flash, aged, sem, overdue, flag, fault>>

\* osSemaphoreAcquire, and the end when the interface is down.
Retry ==
    /\ sem.count > 0
    /\ \E to \in {"attempt", "out"} : Goto("wait", to)
    /\ sem' = [sem EXCEPT !.count = @ - 1]
    /\ UNCHANGED <<uicc, card, op, nccid, locked, locks, ue_iccid, flash, aged, retries, timer, overdue, flag, fault>>

\* The label out: the semaphore goes before the timer that releases it.
DeleteSem ==
    /\ Goto("out", "tidy")
    /\ sem' = IF sem.state = "live" THEN [sem EXCEPT !.state = "deleted"] ELSE sem
    /\ UNCHANGED <<uicc, card, op, nccid, locked, locks, ue_iccid, flash, aged, retries, timer, overdue, flag, fault>>

DeleteTimer ==
    /\ Goto("tidy", "unlock")
    /\ sem' = NoSem
    /\ timer' = "NULL"
    /\ UNCHANGED <<uicc, card, op, nccid, locked, locks, ue_iccid, flash, aged, retries, overdue, flag, fault>>

LocksKept == locks
LocksAtEnd == IF UsesLock THEN locks - 1 ELSE locks

Exit ==
    /\ Goto("unlock", "none")
    /\ locks' = LocksAtEnd
    /\ locked' = FALSE
    /\ nccid' = NoIccid
    /\ UNCHANGED <<uicc, card, op, ue_iccid, flash, aged, retries, sem, timer, overdue, flag, fault>>

-----------------------------------------------------------------------------
(***************************************************************************)
(* The timer task.                                                         *)
(***************************************************************************)
dm_timeout_proc ==
    /\ timer = "armed"
    /\ ~fault
    /\ timer' = "idle"
    /\ sem' = IF sem.state = "live" THEN [sem EXCEPT !.count = @ + 1] ELSE sem
    /\ fault' = (sem.state = "deleted")
    /\ UNCHANGED <<uicc, card, op, pc, nccid, locked, locks, ue_iccid, flash, aged, retries, overdue, flag>>

dm_register_overdue_proc ==
    /\ overdue
    /\ overdue' = FALSE
    /\ flag' = 1
    /\ dm_init
    /\ UNCHANGED <<uicc, card, op, nccid, locked, locks, ue_iccid, flash, aged, retries, sem, timer, fault>>

\* The registration's period ends.
Age ==
    /\ ~fault /\ ~aged
    /\ aged' = TRUE
    /\ UNCHANGED <<uicc, card, op, pc, nccid, locked, locks, ue_iccid, flash, retries, sem, timer, overdue, flag, fault>>

(***************************************************************************)
(* A new start: memory is lost but for what was saved.  A clock that was   *)
(* set back makes the unsigned difference to last_reg_time large.          *)
(***************************************************************************)
Restart ==
    /\ ~fault
    /\ pc' = "none"
    /\ nccid' = NoIccid
    /\ locked' = FALSE
    /\ locks' = 0
    /\ sem' = NoSem
    /\ timer' = "NULL"
    /\ overdue' = FALSE
    /\ flag' = 0
    /\ UNCHANGED <<uicc, fault>>

DeepSleep ==
    /\ locks <= 0
    /\ Restart
    /\ op' = FALSE
    /\ flash' = ue_iccid
    /\ UNCHANGED <<card, ue_iccid, aged, retries>>

PowerLoss ==
    /\ Restart
    /\ op' \in BOOLEAN
    /\ card' \in Cards
    /\ ue_iccid' = flash
    /\ aged' \in {aged, TRUE}
    /\ retries' = 0
    /\ UNCHANGED flash

-----------------------------------------------------------------------------
\* What the task does without waiting for the server.
TaskStep ==
    \/ TakeLock
    \/ \E iccid \in {card, NoIccid} : NotNeeded(iccid) \/ SetUp(iccid)
    \/ Attempt
    \/ Won
    \/ Lost
    \/ Retry
    \/ DeleteSem
    \/ DeleteTimer
    \/ Exit

Next ==
    \/ dm_netif_event_callback
    \/ TaskStep
    \/ handle_connection
    \/ dm_timeout_proc
    \/ dm_register_overdue_proc
    \/ Age
    \/ DeepSleep
    \/ PowerLoss

\* The task runs when it can, and an armed timer expires.  The server need not answer.
Fairness == WF_vars(TaskStep) /\ WF_vars(dm_timeout_proc)

Spec == Init /\ [][Next]_vars /\ Fairness

-----------------------------------------------------------------------------
\* The timer task never releases a semaphore the DM task has deleted: the timer is armed only
\* while the task waits for it, on every path through the loop.
NoReleaseAfterDelete == ~fault

\* The two sides of the same: an armed timer has a live semaphore, and one expiry is one retry.
TimerIsWaitedFor ==
    /\ timer = "armed" => pc = "wait" /\ sem = [state |-> "live", count |-> 0]
    /\ sem.count <= 1

\* A first registration is tried at most dm_retry_num times (once if that is 0), and the
\* work lock is held for as long as it goes on.
RetriesBounded == retries <= dm_retry_num \/ retries <= 1

\* xy_work_lock and xy_work_unlock are paired: no count is left behind by a task that ended,
\* and none of another user is taken away.
LockPaired == pc = "none" => locks = 0

\* ... by the telecom task.
TelecomLockPaired == uicc = "telecom" => LockPaired

\* The device does not go to sleep in the middle of a telecom registration that took the
\* lock, not even between two attempts.
SleepSparesRegistration == [][DeepSleep /\ uicc = "telecom" => ~locked]_vars

\* A task that was started ends, unless the server keeps it waiting for its answer.
TaskEnds == (pc # "none") ~> (pc \in {"none", "recv"} \/ fault)

=============================================================================
