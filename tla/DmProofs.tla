------------------------------ MODULE DmProofs ------------------------------
(***************************************************************************)
(* What holds of the device management task for every set of operators and *)
(* cards and every number of attempts.  Each theorem rests on one part of  *)
(* the inductive invariant: where the semaphore and the timer are at each  *)
(* place of the task, how many attempts were made, who holds the lock.     *)
(***************************************************************************)
EXTENDS Dm, TLAPS

\* The task has a semaphore and a timer.
InLoop == {"attempt", "recv", "won", "lost", "wait"}

\* have_retry_num is of this task, and one more attempt is allowed.
RetryInv == pc \in InLoop => retries < dm_retry_num \/ retries = 0

\* The semaphore lives, and the timer is armed, only where the task waits for them.
SemInv ==
    /\ ~fault
    /\ TimerIsWaitedFor
    /\ pc \in {"none", "delay", "check", "unlock"} => sem = NoSem /\ timer = "NULL"
    /\ pc \in InLoop => sem.state = "live"
    /\ pc \in InLoop \ {"wait"} => sem.count = 0

\* The count of the work lock is the telecom task's own, taken once at its start.
TelecomLockInv ==
    uicc = "telecom" =>
        /\ locks = IF locked THEN 1 ELSE 0
        /\ locked = (op /\ pc \notin {"none", "delay"})

IInv == TypeOK /\ RetryInv /\ RetriesBounded /\ SemInv /\ TelecomLockInv

-----------------------------------------------------------------------------
\* Every variable of the task keeps its type, the one-byte have_retry_num included: the test of
\* the loop stops it before dm_retry_num, itself a byte, is passed.
THEOREM DmTypeCorrect == Spec => [](TypeOK /\ RetryInv)
<1> USE RetryAssumption, OperatorsAssumption
<1>1. Init => TypeOK /\ RetryInv
  <2> SUFFICES ASSUME Init PROVE TypeOK /\ RetryInv
    OBVIOUS
  <2>1. {op, locked, aged, overdue, fault} \subseteq BOOLEAN
    BY Zenon DEF Init
  <2> QED
    BY <2>1 DEF Init, TypeOK, RetryInv, PCs, NoSem, InLoop
<1>2. TypeOK /\ RetryInv /\ [Next]_vars => (TypeOK /\ RetryInv)'
  <2> SUFFICES ASSUME TypeOK, RetryInv, [Next]_vars PROVE (TypeOK /\ RetryInv)'
    OBVIOUS
  <2>0. {op', locked', aged', overdue', fault'} \subseteq BOOLEAN
    BY Zenon DEF TypeOK, Next, TaskStep, dm_netif_event_callback, dm_init, TakeLock, NotNeeded, SetUp, Attempt, Won, Lost,
           Retry, DeleteSem, DeleteTimer, Exit, handle_connection, dm_timeout_proc, dm_register_overdue_proc,
           Age, DeepSleep, PowerLoss, Restart, UsesLock, task, vars
  <2>1. CASE dm_netif_event_callback
    BY <2>0, <2>1 DEF dm_netif_event_callback, dm_init, task, TypeOK, RetryInv, PCs, InLoop
  <2>2. CASE TakeLock
    BY <2>0, <2>2 DEF TakeLock, Goto, TypeOK, RetryInv, PCs, InLoop, UsesLock, LocksAtStart
  <2>3. ASSUME NEW iccid \in {card, NoIccid}, NotNeeded(iccid) PROVE (TypeOK /\ RetryInv)'
    BY <2>0, <2>3 DEF NotNeeded, Goto, TypeOK, RetryInv, PCs, InLoop, UsesLock
  <2>4. ASSUME NEW iccid \in {card, NoIccid}, SetUp(iccid) PROVE (TypeOK /\ RetryInv)'
    BY <2>0, <2>4 DEF SetUp, Goto, TypeOK, RetryInv, PCs, InLoop
  <2>5. CASE Attempt
    BY <2>0, <2>5 DEF Attempt, NoSocket, Goto, task, TypeOK, RetryInv, PCs, InLoop
  <2>6. CASE handle_connection
    BY <2>0, <2>6 DEF handle_connection, Goto, task, TypeOK, RetryInv, PCs, InLoop
  <2>7. CASE Won
    BY <2>0, <2>7 DEF Won, Goto, TypeOK, RetryInv, PCs, InLoop
  <2>8. CASE Lost
    BY <2>0, <2>8 DEF Lost, Goto, TypeOK, RetryInv, PCs, InLoop, RetriesMade, TriesLeft, TimerAfterLoss
  <2>9. CASE Retry
    BY <2>0, <2>9 DEF Retry, Goto, TypeOK, RetryInv, PCs, InLoop
  <2>10. CASE DeleteSem
    BY <2>0, <2>10 DEF DeleteSem, Goto, TypeOK, RetryInv, PCs, InLoop
  <2>11. CASE DeleteTimer
    BY <2>0, <2>11 DEF DeleteTimer, Goto, TypeOK, RetryInv, PCs, InLoop, NoSem
  <2>12. CASE Exit
    BY <2>0, <2>12 DEF Exit, Goto, TypeOK, RetryInv, PCs, InLoop, LocksAtEnd, UsesLock
  <2>13. CASE dm_timeout_proc
    BY <2>0, <2>13 DEF dm_timeout_proc, TypeOK, RetryInv, PCs, InLoop
  <2>14. CASE dm_register_overdue_proc
    BY <2>0, <2>14 DEF dm_register_overdue_proc, dm_init, TypeOK, RetryInv, PCs, InLoop
  <2>15. CASE Age
    BY <2>0, <2>15 DEF Age, TypeOK, RetryInv, PCs, InLoop
  <2>16. CASE DeepSleep
    BY <2>0, <2>16 DEF DeepSleep, Restart, TypeOK, RetryInv, PCs, InLoop, NoSem
  <2>17. CASE PowerLoss
    BY <2>0, <2>17 DEF PowerLoss, Restart, TypeOK, RetryInv, PCs, InLoop, NoSem
  <2>18. CASE UNCHANGED vars
    BY <2>18 DEF vars, task, TypeOK, RetryInv, PCs, InLoop
  <2> QED
    BY <2>1, <2>2, <2>3, <2>4, <2>5, <2>6, <2>7, <2>8, <2>9, <2>10, <2>11, <2>12, <2>13, <2>14, <2>15, <2>16, <2>17, <2>18 DEF Next, TaskStep
<1> QED
  BY <1>1, <1>2, PTL DEF Spec

\* A first registration is tried at most dm_retry_num times: no path through the loop of
\* telecom_dm_run or unicom_dm_run counts further, and no restart in between starts from more.
THEOREM DmRetriesBounded == Spec => []RetriesBounded
<1> USE RetryAssumption
<1>1. Init => RetriesBounded
  BY DEF Init, RetriesBounded
<1>2. TypeOK /\ RetryInv /\ RetriesBounded /\ [Next]_vars => RetriesBounded'
  <2> SUFFICES ASSUME TypeOK, RetryInv, RetriesBounded, [Next]_vars PROVE RetriesBounded'
    OBVIOUS
  <2>1. retries' \in {retries, 0} \/ (pc \in InLoop /\ retries' = retries + 1)
    BY DEF Next, TaskStep, dm_netif_event_callback, dm_init, TakeLock, NotNeeded, SetUp, Attempt, Won, Lost,
           Retry, DeleteSem, DeleteTimer, Exit, handle_connection, dm_timeout_proc, dm_register_overdue_proc,
           Age, DeepSleep, PowerLoss, Restart, RetriesMade, Goto, task, vars, InLoop
  <2> QED
    BY <2>1 DEF TypeOK, RetryInv, RetriesBounded
<1> QED
  BY <1>1, <1>2, DmTypeCorrect, PTL DEF Spec

-----------------------------------------------------------------------------
\* No expiry of the retry timer releases a semaphore that is gone: wherever the task leaves
\* its loop, the one timer it armed has expired and the semaphore was taken.
THEOREM DmNoReleaseAfterDelete == Spec => [](NoReleaseAfterDelete /\ TimerIsWaitedFor)
<1>1. Init => SemInv
  BY DEF Init, SemInv, TimerIsWaitedFor, NoSem, InLoop
<1>2. TypeOK /\ SemInv /\ [Next]_vars => SemInv'
  <2> SUFFICES ASSUME TypeOK, SemInv, [Next]_vars PROVE SemInv'
    OBVIOUS
  <2>0. sem \in [state : {"NULL", "live", "deleted"}, count : Nat]
    BY DEF TypeOK
  <2>1. CASE dm_netif_event_callback
    BY <2>0, <2>1 DEF dm_netif_event_callback, dm_init, task, SemInv, TimerIsWaitedFor, InLoop, NoSem
  <2>2. CASE TakeLock
    BY <2>0, <2>2 DEF TakeLock, Goto, SemInv, TimerIsWaitedFor, InLoop, NoSem
  <2>3. ASSUME NEW iccid \in {card, NoIccid}, NotNeeded(iccid) PROVE SemInv'
    BY <2>0, <2>3 DEF NotNeeded, Goto, SemInv, TimerIsWaitedFor, InLoop, NoSem
  <2>4. ASSUME NEW iccid \in {card, NoIccid}, SetUp(iccid) PROVE SemInv'
    BY <2>0, <2>4 DEF SetUp, Goto, SemInv, TimerIsWaitedFor, InLoop, NoSem
  <2>5. CASE Attempt
    BY <2>0, <2>5 DEF Attempt, NoSocket, Goto, task, SemInv, TimerIsWaitedFor, InLoop, NoSem
  <2>6. CASE handle_connection
    BY <2>0, <2>6 DEF handle_connection, Goto, task, SemInv, TimerIsWaitedFor, InLoop, NoSem
  <2>7. CASE Won
    BY <2>0, <2>7 DEF Won, Goto, SemInv, TimerIsWaitedFor, InLoop, NoSem
  <2>8. CASE Lost
    BY <2>0, <2>8 DEF Lost, Goto, SemInv, TimerIsWaitedFor, InLoop, NoSem, TimerAfterLoss, TriesLeft
  <2>9. CASE Retry
    BY <2>0, <2>9 DEF Retry, Goto, SemInv, TimerIsWaitedFor, InLoop, NoSem
  <2>10. CASE DeleteSem
    BY <2>0, <2>10 DEF DeleteSem, Goto, SemInv, TimerIsWaitedFor, InLoop, NoSem
  <2>11. CASE DeleteTimer
    BY <2>0, <2>11 DEF DeleteTimer, Goto, SemInv, TimerIsWaitedFor, InLoop, NoSem
  <2>12. CASE Exit
    BY <2>0, <2>12 DEF Exit, Goto, SemInv, TimerIsWaitedFor, InLoop, NoSem
  <2>13. CASE dm_timeout_proc
    <3>1. pc = "wait" /\ sem = [state |-> "live", count |-> 0]
      BY <2>13 DEF dm_timeout_proc, SemInv, TimerIsWaitedFor
    <3>2. ~fault'
      BY <3>1, <2>13 DEF dm_timeout_proc
    <3>3. pc' = "wait" /\ timer' = "idle" /\ sem' = [state |-> "live", count |-> 1]
      BY <3>1, <2>13 DEF dm_timeout_proc
    <3> QED
      BY <3>2, <3>3 DEF SemInv, TimerIsWaitedFor, InLoop
  <2>14. CASE dm_register_overdue_proc
    BY <2>0, <2>14 DEF dm_register_overdue_proc, dm_init, SemInv, TimerIsWaitedFor, InLoop, NoSem
  <2>15. CASE Age
    BY <2>0, <2>15 DEF Age, SemInv, TimerIsWaitedFor, InLoop, NoSem
  <2>16. CASE DeepSleep
    BY <2>0, <2>16 DEF DeepSleep, Restart, SemInv, TimerIsWaitedFor, InLoop, NoSem
  <2>17. CASE PowerLoss
    BY <2>0, <2>17 DEF PowerLoss, Restart, SemInv, TimerIsWaitedFor, InLoop, NoSem
  <2>18. CASE UNCHANGED vars
    BY <2>18 DEF vars, task, SemInv, TimerIsWaitedFor, InLoop, NoSem
  <2> QED
    BY <2>1, <2>2, <2>3, <2>4, <2>5, <2>6, <2>7, <2>8, <2>9, <2>10, <2>11, <2>12, <2>13, <2>14, <2>15, <2>16, <2>17, <2>18 DEF Next, TaskStep
<1>3. SemInv => NoReleaseAfterDelete /\ TimerIsWaitedFor
  BY DEF SemInv, NoReleaseAfterDelete
<1> QED
  BY <1>1, <1>2, <1>3, DmTypeCorrect, PTL DEF Spec

-----------------------------------------------------------------------------
\* The count of the work lock is what the telecom task took, through every restart.
LEMMA DmTelecomLock == Spec => []TelecomLockInv
<1>1. Init => TelecomLockInv
  BY DEF Init, TelecomLockInv
<1>2. TypeOK /\ TelecomLockInv /\ [Next]_vars => TelecomLockInv'
  <2> SUFFICES ASSUME TypeOK, TelecomLockInv, [Next]_vars, uicc' = "telecom"
               PROVE /\ locks' = IF locked' THEN 1 ELSE 0
                     /\ locked' = (op' /\ pc' \notin {"none", "delay"})
    BY DEF TelecomLockInv
  <2> DEFINE Own == /\ locks' = IF locked' THEN 1 ELSE 0
                    /\ locked' = (op' /\ pc' \notin {"none", "delay"})
  <2>0. op \in BOOLEAN /\ locked \in BOOLEAN /\ op' \in BOOLEAN /\ locked' \in BOOLEAN /\ uicc = "telecom"
    BY DEF TypeOK, Next, TaskStep, dm_netif_event_callback, dm_init, TakeLock, NotNeeded, SetUp, Attempt, Won, Lost,
           Retry, DeleteSem, DeleteTimer, Exit, handle_connection, dm_timeout_proc, dm_register_overdue_proc,
           Age, DeepSleep, PowerLoss, Restart, UsesLock, task, vars
  <2>1. CASE dm_netif_event_callback
    BY <2>0, <2>1 DEF dm_netif_event_callback, dm_init, task, TelecomLockInv
  <2>2. CASE TakeLock
    <3>1. UsesLock = op
      BY <2>0 DEF UsesLock
    <3>2. locked = FALSE
      BY <2>0, <2>2 DEF TakeLock, Goto, TelecomLockInv
    <3> QED
      BY <3>1, <3>2, <2>0, <2>2 DEF TakeLock, Goto, TelecomLockInv, LocksAtStart
  <2>3. ASSUME NEW iccid \in {card, NoIccid}, NotNeeded(iccid) PROVE Own
    BY <2>0, <2>3 DEF NotNeeded, Goto, TelecomLockInv, UsesLock
  <2>4. ASSUME NEW iccid \in {card, NoIccid}, SetUp(iccid) PROVE Own
    BY <2>0, <2>4 DEF SetUp, Goto, TelecomLockInv
  <2>5. CASE Attempt
    BY <2>0, <2>5 DEF Attempt, NoSocket, Goto, task, TelecomLockInv
  <2>6. CASE handle_connection
    BY <2>0, <2>6 DEF handle_connection, Goto, task, TelecomLockInv
  <2>7. CASE Won
    BY <2>0, <2>7 DEF Won, Goto, TelecomLockInv
  <2>8. CASE Lost
    BY <2>0, <2>8 DEF Lost, Goto, TelecomLockInv
  <2>9. CASE Retry
    BY <2>0, <2>9 DEF Retry, Goto, TelecomLockInv
  <2>10. CASE DeleteSem
    BY <2>0, <2>10 DEF DeleteSem, Goto, TelecomLockInv
  <2>11. CASE DeleteTimer
    BY <2>0, <2>11 DEF DeleteTimer, Goto, TelecomLockInv
  <2>12. CASE Exit
    BY <2>0, <2>12 DEF Exit, Goto, TelecomLockInv, UsesLock, LocksAtEnd
  <2>13. CASE dm_timeout_proc
    BY <2>0, <2>13 DEF dm_timeout_proc, TelecomLockInv
  <2>14. CASE dm_register_overdue_proc
    BY <2>0, <2>14 DEF dm_register_overdue_proc, dm_init, TelecomLockInv
  <2>15. CASE Age
    BY <2>0, <2>15 DEF Age, TelecomLockInv
  <2>16. CASE DeepSleep
    BY <2>0, <2>16 DEF DeepSleep, Restart, TelecomLockInv
  <2>17. CASE PowerLoss
    BY <2>0, <2>17 DEF PowerLoss, Restart, TelecomLockInv
  <2>18. CASE UNCHANGED vars
    BY <2>18 DEF vars, task, TelecomLockInv
  <2> QED
    BY <2>1, <2>2, <2>3, <2>4, <2>5, <2>6, <2>7, <2>8, <2>9, <2>10, <2>11, <2>12, <2>13, <2>14, <2>15, <2>16, <2>17, <2>18 DEF Next, TaskStep
<1> QED
  BY <1>1, <1>2, DmTypeCorrect, PTL DEF Spec

\* xy_work_lock and xy_work_unlock of telecom_dm_run are paired: when the task has ended the
\* count is what it was, whatever ended it.
THEOREM DmTelecomLockPaired == Spec => []TelecomLockPaired
<1>1. TelecomLockInv => TelecomLockPaired
  BY DEF TelecomLockInv, TelecomLockPaired, LockPaired
<1> QED
  BY <1>1, DmTelecomLock, PTL

\* The device does not fall asleep under a telecom registration that took the work lock, not
\* even between two attempts: the count it tests is then 1.
THEOREM DmSleepSparesRegistration == Spec => SleepSparesRegistration
<1>1. TypeOK /\ TelecomLockInv /\ [Next]_vars => [DeepSleep /\ uicc = "telecom" => ~locked]_vars
  BY DEF TypeOK, TelecomLockInv, DeepSleep
<1> QED
  BY <1>1, DmTypeCorrect, DmTelecomLock, PTL DEF Spec, SleepSparesRegistration

=============================================================================
