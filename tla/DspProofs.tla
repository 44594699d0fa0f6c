----------------------------- MODULE DspProofs -----------------------------
(***************************************************************************)
(* Proofs about DspPower, for any set of tasks: the mutex excludes, the    *)
(* power-off is asked once, and the image is never copied over a running   *)
(* core when the DSP reports itself alive in the time it is given.         *)
(***************************************************************************)
EXTENDS DspPower, TLAPS

\* Every variable of DspPower, the program counters and the DSP's state among
\* them, keeps its type in every step of any task and of the idle task.
THEOREM DspTypeCorrect == Spec => []TypeOK
<1>1. Init => TypeOK
  <2> SUFFICES ASSUME Init PROVE TypeOK
    OBVIOUS
  <2>1. pc \in [Tasks -> PCs]
    BY DEF Init, PCs
  <2>2. mutex \in Tasks \cup {NoTask} /\ offReq \in Nat
    BY DEF Init
  <2> QED
    BY <2>1, <2>2, Zenon DEF Init, TypeOK
<1>2. TypeOK /\ [Next]_vars => TypeOK'
  <2> SUFFICES ASSUME TypeOK, [Next]_vars PROVE TypeOK'
    OBVIOUS
  <2> USE DEF TypeOK, PCs
  <2>1. ASSUME NEW t \in Tasks, Load(t) \/ ShutDown(t)
        PROVE TypeOK'
    BY <2>1 DEF Load, ShutDown, Goto
  <2>2. ASSUME NEW t \in Tasks, NetworkTaskInit(t) \/ LoadTest(t) \/ CopyImage(t) \/ StartDsp(t)
        PROVE TypeOK'
    <3>1. CASE NetworkTaskInit(t)
      BY <3>1 DEF NetworkTaskInit, Goto
    <3>2. CASE LoadTest(t)
      BY <3>2 DEF LoadTest, Goto
    <3>3. CASE CopyImage(t)
      BY <3>3 DEF CopyImage, Goto
    <3>4. CASE StartDsp(t)
      BY <3>4 DEF StartDsp, Goto
    <3> QED
      BY <2>2, <3>1, <3>2, <3>3, <3>4
  <2>3. ASSUME NEW t \in Tasks, LoadLock(t) \/ OffLock(t) \/ LoadUnlock(t) \/ OffUnlock(t)
        PROVE TypeOK'
    BY <2>3 DEF LoadLock, OffLock, LoadUnlock, OffUnlock, Acquire, Release, Goto
  <2>4. ASSUME NEW t \in Tasks, OffTest(t) \/ OffAssert(t) \/ OffCfun(t) \/ OffRequest(t)
        PROVE TypeOK'
    <3>1. CASE OffTest(t)
      BY <3>1 DEF OffTest, Goto
    <3>2. CASE OffAssert(t)
      BY <3>2 DEF OffAssert, Goto
    <3>3. CASE OffCfun(t)
      BY <3>3 DEF OffCfun, Goto
    <3>4. CASE OffRequest(t)
      BY <3>4 DEF OffRequest, Goto
    <3> QED
      BY <2>4, <3>1, <3>2, <3>3, <3>4
  <2>5. CASE ShutDownProcess
    BY <2>5 DEF ShutDownProcess
  <2>6. CASE DspReports \/ IcmPending \/ IcmDrained \/ DspBusy \/ DumpLoad
    BY <2>6 DEF DspReports, IcmPending, IcmDrained, DspBusy, DumpLoad
  <2>7. CASE Reset
    BY <2>7 DEF Reset
  <2>8. CASE UNCHANGED vars
    BY <2>8 DEF vars
  <2> QED
    BY <2>1, <2>2, <2>3, <2>4, <2>5, <2>6, <2>7, <2>8 DEF Next, TaskStep
<1> QED
  BY <1>1, <1>2, PTL DEF Spec

-----------------------------------------------------------------------------
(***************************************************************************)
(* One step at a time: the mutex, then what holding it protects.           *)
(***************************************************************************)

\* Acquire and Release are the only steps that change who holds the mutex.
LEMMA MutexStep == TypeOK /\ MutexInv /\ [Next]_vars => MutexInv'
<1> SUFFICES ASSUME TypeOK, MutexInv, [Next]_vars PROVE MutexInv'
  OBVIOUS
<1> USE NoTaskAssumption DEF TypeOK, PCs, MutexInv, Holding
<1>1. ASSUME NEW t \in Tasks, Load(t) \/ ShutDown(t)
      PROVE MutexInv'
  BY <1>1 DEF Load, ShutDown, Goto
<1>2. ASSUME NEW t \in Tasks, NetworkTaskInit(t) \/ LoadTest(t) \/ CopyImage(t) \/ StartDsp(t)
      PROVE MutexInv'
  BY <1>2 DEF NetworkTaskInit, LoadTest, CopyImage, StartDsp, Goto
<1>3. ASSUME NEW t \in Tasks, LoadLock(t) \/ OffLock(t)
      PROVE MutexInv'
  BY <1>3 DEF LoadLock, OffLock, Acquire, Goto
<1>4. ASSUME NEW t \in Tasks, LoadUnlock(t) \/ OffUnlock(t)
      PROVE MutexInv'
  BY <1>4 DEF LoadUnlock, OffUnlock, Release, Goto
<1>5. ASSUME NEW t \in Tasks, OffTest(t) \/ OffAssert(t) \/ OffCfun(t) \/ OffRequest(t)
      PROVE MutexInv'
  BY <1>5 DEF OffTest, OffAssert, OffCfun, OffRequest, Goto
<1>6. CASE ShutDownProcess
  BY <1>6 DEF ShutDownProcess
<1>7. CASE DspReports \/ IcmPending \/ IcmDrained \/ DspBusy \/ DumpLoad
  BY <1>7 DEF DspReports, IcmPending, IcmDrained, DspBusy, DumpLoad
<1>8. CASE Reset
  BY <1>8 DEF Reset
<1>9. CASE UNCHANGED vars
  BY <1>9 DEF vars
<1> QED
  BY <1>1, <1>2, <1>3, <1>4, <1>5, <1>6, <1>7, <1>8, <1>9 DEF Next, TaskStep

\* With the mutex held by at most one task, the power-off is asked once.
LEMMA OffStep == TypeOK /\ MutexInv /\ OffInv /\ [Next]_vars => OffInv'
<1> SUFFICES ASSUME TypeOK, MutexInv, OffInv, [Next]_vars PROVE OffInv'
  OBVIOUS
<1> USE NoTaskAssumption DEF TypeOK, PCs, OffInv, OneOffRequest, NotLoaded
<1>1. ASSUME NEW t \in Tasks, Load(t) \/ ShutDown(t)
      PROVE OffInv'
  BY <1>1 DEF Load, ShutDown, Goto
<1>2. ASSUME NEW t \in Tasks, NetworkTaskInit(t) \/ LoadTest(t) \/ CopyImage(t)
      PROVE OffInv'
  BY <1>2 DEF NetworkTaskInit, LoadTest, CopyImage, Goto
<1>3. ASSUME NEW t \in Tasks, StartDsp(t)
      PROVE OffInv'
  BY <1>3 DEF StartDsp, Goto, MutexInv, Holding
<1>4. ASSUME NEW t \in Tasks, LoadLock(t) \/ OffLock(t) \/ LoadUnlock(t) \/ OffUnlock(t)
      PROVE OffInv'
  BY <1>4 DEF LoadLock, OffLock, LoadUnlock, OffUnlock, Goto
<1>5. ASSUME NEW t \in Tasks, OffTest(t) \/ OffAssert(t) \/ OffCfun(t)
      PROVE OffInv'
  BY <1>5 DEF OffTest, OffAssert, OffCfun, Goto
<1>6. ASSUME NEW t \in Tasks, OffRequest(t)
      PROVE OffInv'
  BY <1>6 DEF OffRequest, Goto, MutexInv, Holding
<1>7. CASE ShutDownProcess
  BY <1>7 DEF ShutDownProcess, Waiting
<1>8. CASE DspReports \/ IcmPending \/ IcmDrained \/ DspBusy \/ DumpLoad
  BY <1>8 DEF DspReports, IcmPending, IcmDrained, DspBusy, DumpLoad
<1>9. CASE Reset
  BY <1>9 DEF Reset
<1>10. CASE UNCHANGED vars
  BY <1>10 DEF vars
<1> QED
  BY <1>1, <1>2, <1>3, <1>4, <1>5, <1>6, <1>7, <1>8, <1>9, <1>10 DEF Next, TaskStep

\* With the mutex held by at most one task, and a DSP that is alive by the
\* time StartDsp ends, the core stays off between the test and the start.
LEMMA CopyStep == TypeOK /\ MutexInv /\ OffInv /\ CopyInv /\ [Next]_vars => CopyInv'
<1> SUFFICES ASSUME TypeOK, MutexInv, OffInv, CopyInv, [Next]_vars, ~slow' PROVE CopyInv'
  BY DEF CopyInv
<1> USE NoTaskAssumption DEF TypeOK, PCs, CopyInv, NotLoaded
<1>1. ASSUME NEW t \in Tasks, Load(t) \/ ShutDown(t)
      PROVE CopyInv'
  BY <1>1 DEF Load, ShutDown, Goto
<1>2. ASSUME NEW t \in Tasks, NetworkTaskInit(t) \/ LoadTest(t) \/ CopyImage(t)
      PROVE CopyInv'
  BY <1>2 DEF NetworkTaskInit, LoadTest, CopyImage, Goto
<1>3. ASSUME NEW t \in Tasks, StartDsp(t)
      PROVE CopyInv'
  BY <1>3 DEF StartDsp, Goto, MutexInv, Holding
<1>4. ASSUME NEW t \in Tasks, LoadLock(t) \/ OffLock(t) \/ LoadUnlock(t) \/ OffUnlock(t)
      PROVE CopyInv'
  BY <1>4 DEF LoadLock, OffLock, LoadUnlock, OffUnlock, Goto
<1>5. ASSUME NEW t \in Tasks, OffTest(t) \/ OffAssert(t) \/ OffCfun(t)
      PROVE CopyInv'
  BY <1>5 DEF OffTest, OffAssert, OffCfun, Goto
<1>6. ASSUME NEW t \in Tasks, OffRequest(t)
      PROVE CopyInv'
  BY <1>6 DEF OffRequest, Goto, MutexInv, Holding
<1>7. CASE ShutDownProcess
  BY <1>7 DEF ShutDownProcess, Waiting
<1>8. CASE DspReports \/ IcmPending \/ IcmDrained \/ DspBusy \/ DumpLoad
  BY <1>8 DEF DspReports, IcmPending, IcmDrained, DspBusy, DumpLoad
<1>9. CASE Reset
  BY <1>9 DEF Reset
<1>10. CASE UNCHANGED vars
  BY <1>10 DEF vars
<1> QED
  BY <1>1, <1>2, <1>3, <1>4, <1>5, <1>6, <1>7, <1>8, <1>9, <1>10 DEF Next, TaskStep

-----------------------------------------------------------------------------
\* g_dynamic_dsp_load_m excludes, and what its holder has tested (the core is
\* off, nobody has asked for the power-off) stays true while it holds it.
THEOREM MutexProtectsDsp == Spec => []DspInv
<1>1. Init => MutexInv /\ OffInv /\ CopyInv
  BY NoTaskAssumption DEF Init, MutexInv, Holding, OffInv, CopyInv, OneOffRequest, NotLoaded
<1>2. TypeOK /\ MutexInv /\ [Next]_vars => MutexInv'
  BY MutexStep
<1>3. TypeOK /\ MutexInv /\ OffInv /\ [Next]_vars => OffInv'
  BY OffStep
<1>4. TypeOK /\ MutexInv /\ OffInv /\ CopyInv /\ [Next]_vars => CopyInv'
  BY CopyStep
<1>5. Spec => []TypeOK
  BY DspTypeCorrect
<1> QED
  BY <1>1, <1>2, <1>3, <1>4, <1>5, PTL DEF Spec, DspInv

\* However many tasks call shut_down_dsp_core, and however late the DSP
\* reports itself, AT+CFUN=5 is asked once for each power-off, and only of a
\* running core.
THEOREM OffIsAskedOnce == Spec => []OneOffRequest
<1>1. DspInv => OneOffRequest
  BY DEF DspInv, OffInv
<1> QED
  BY <1>1, MutexProtectsDsp, PTL

\* dynamic_load_up_dsp copies the image only over a core that does not run,
\* if the DSP reports itself in time.
THEOREM CopyIsSafe == Spec => NoCopyUnderRunningDsp
<1>1. DspInv /\ [Next]_vars => [\A t \in Tasks : CopyImage(t) /\ ~slow => ~powered]_vars
  BY DEF DspInv, CopyInv, CopyImage, Goto
<1> QED
  BY <1>1, MutexProtectsDsp, PTL DEF Spec, NoCopyUnderRunningDsp
=============================================================================
