------------------------------ MODULE FtlTasks ------------------------------
(***************************************************************************)
(* One EFTL region used by several RTOS tasks at once (xy_flash.c).        *)
(*                                                                         *)
(* Neither xy_ftl_read nor xy_ftl_write takes a lock: a task may be        *)
(* preempted between two sectors of its scan, after it has chosen a page   *)
(* and after it has built the new one.  A sector is read by one transfer   *)
(* of the flash controller.  It is written in one of two ways: by the DSP, *)
(* while the scheduler of this core is suspended (flash_operate_ext,       *)
(* send_flash_msg), so that no task runs between its erase and its         *)
(* programming; or, when the DSP is not loaded, by this core, in two       *)
(* critical sections with a preemption point between them                  *)
(* (flash_write_erase).  Resets and the voltage check: see Ftl.            *)
(***************************************************************************)
EXTENDS FtlPages, FiniteSets

CONSTANT Tasks   \* the tasks that use the region

ASSUME TasksAssumption == IsFiniteSet(Tasks)

VARIABLES
    sectors,   \* the sectors
    loaded,    \* the DSP runs: ~DSP_IS_NOT_LOADED() and not g_have_suspend_dsp
    taskPc,    \* where each task is in its call
    taskOp,    \* its call
    taskI,     \* i of xy_choose_valid_ftl
    taskMax,   \* max_writenum
    taskCur,   \* valid_page, then cur_ftl_idx
    taskBuf,   \* p_page_buf
    taskData,  \* what its last xy_ftl_read copied out
    overtaken  \* history: the tasks that were in a call when another one left a sector
               \* erased, or programmed a sector that was not erased any more

scan == <<taskI, taskMax, taskCur>>
tasksVars == <<sectors, loaded, taskPc, taskOp, scan, taskBuf, taskData, overtaken>>

TasksTypeOK ==
    /\ sectors \in [Pages -> Page]
    /\ loaded \in BOOLEAN
    /\ taskPc \in [Tasks -> {"idle", "scan", "drop", "chosen", "flash", "program", "ack"}]
    /\ taskOp \in [Tasks -> {ReadOp} \cup WriteOps]
    /\ taskI \in [Tasks -> 0 .. NPages]
    /\ taskMax \in [Tasks -> 0 .. ErasedNum]
    /\ taskCur \in [Tasks -> Pages \cup {NoPage}]
    /\ taskBuf \in [Tasks -> Page]
    /\ taskData \in [Tasks -> Contents \cup {Damaged}]
    /\ overtaken \in SUBSET Tasks

\* The region was written once before the tasks start: page 0 holds the defaults.
FirstPage == [magic |-> TRUE, num |-> 1, data |-> DefaultContents]

TasksInit ==
    /\ sectors = [p \in Pages |-> IF p = 0 THEN FirstPage ELSE Blank]
    /\ loaded \in BOOLEAN
    /\ taskPc = [t \in Tasks |-> "idle"]
    /\ taskOp = [t \in Tasks |-> ReadOp]
    /\ taskI = [t \in Tasks |-> 0]
    /\ taskMax = [t \in Tasks |-> 0]
    /\ taskCur = [t \in Tasks |-> NoPage]
    /\ taskBuf = [t \in Tasks |-> Blank]
    /\ taskData = [t \in Tasks |-> DefaultContents]
    /\ overtaken = {}

\* Bound: the life of the flash, as in Ftl.  Every task may have a write under way.
TasksNumLimit ==
    /\ \A p \in Pages : HeadTailOk(sectors[p]) => sectors[p].num + Cardinality(Tasks) < ErasedNum
    /\ \A t \in Tasks : taskPc[t] \in {"flash", "program"} => taskBuf[t].num + Cardinality(Tasks) < ErasedNum

\* xy_ftl_read or xy_ftl_write is called and enters xy_choose_valid_ftl.
Call(t, o) ==
    /\ taskPc[t] = "idle"
    /\ o \in WriteOps => TasksNumLimit
    /\ taskOp' = [taskOp EXCEPT ![t] = o]
    /\ taskI' = [taskI EXCEPT ![t] = 0]
    /\ taskMax' = [taskMax EXCEPT ![t] = 0]
    /\ taskCur' = [taskCur EXCEPT ![t] = NoPage]
    /\ taskPc' = [taskPc EXCEPT ![t] = "scan"]
    /\ UNCHANGED <<sectors, loaded, taskBuf, taskData, overtaken>>

\* One round of its loop.
ScanSector(t) ==
    /\ taskPc[t] = "scan"
    /\ taskI[t] < NPages
    /\ \/ /\ taskI[t] \in ScanCandidates(sectors, taskMax[t])
          /\ taskMax' = [taskMax EXCEPT ![t] = sectors[taskI[t]].num]
          /\ taskCur' = [taskCur EXCEPT ![t] = taskI[t]]
       \/ /\ taskI[t] \notin ScanCandidates(sectors, taskMax[t])
          /\ UNCHANGED <<taskMax, taskCur>>
    /\ taskI' = [taskI EXCEPT ![t] = @ + 1]
    /\ UNCHANGED <<sectors, loaded, taskPc, taskOp, taskBuf, taskData, overtaken>>

\* There is no page, or its checksum is right.
ChoiceIntact(t) == taskCur[t] # NoPage => ChecksumOk(sectors[taskCur[t]])

\* The loop is done.  Without a page the choice is -1; the checksum of the page
\* found is tested, and a bad one is to be erased.
VerifyChosen(t) ==
    /\ taskPc[t] = "scan"
    /\ taskI[t] = NPages
    /\ \/ /\ ChoiceIntact(t)
          /\ taskPc' = [taskPc EXCEPT ![t] = "chosen"]
       \/ /\ ~ChoiceIntact(t)
          /\ taskPc' = [taskPc EXCEPT ![t] = "drop"]
    /\ UNCHANGED <<sectors, loaded, taskOp, scan, taskBuf, taskData, overtaken>>

\* The tasks inside a call.
InCall == {u \in Tasks : taskPc[u] # "idle"}

\* xy_flash_erase of the bad page, on either path, and CHOOSE_AGAIN: max_writenum is kept.
DropSector(t) ==
    /\ taskPc[t] = "drop"
    /\ sectors' = [sectors EXCEPT ![taskCur[t]] = Blank]
    /\ taskCur' = [taskCur EXCEPT ![t] = NoPage]
    /\ taskI' = [taskI EXCEPT ![t] = 0]
    /\ taskPc' = [taskPc EXCEPT ![t] = "scan"]
    /\ overtaken' = overtaken \cup (InCall \ {t})
    /\ UNCHANGED <<loaded, taskOp, taskMax, taskBuf, taskData>>

\* xy_ftl_read reads the chosen sector a second time, after its checksum was
\* tested; without a page it fails and copies nothing.
CopyPage(t) ==
    /\ taskPc[t] = "chosen"
    /\ taskOp[t] = ReadOp
    /\ \/ taskCur[t] = NoPage /\ UNCHANGED taskData
       \/ taskCur[t] # NoPage /\ taskData' = [taskData EXCEPT ![t] = sectors[taskCur[t]].data]
    /\ taskPc' = [taskPc EXCEPT ![t] = "idle"]
    /\ UNCHANGED <<sectors, loaded, taskOp, scan, taskBuf, overtaken>>

\* The region as xy_ftl_write reads it into p_page_buf: what it finds in a sector
\* that was erased since it was chosen is some contents like any other.
SeenBy(t) ==
    IF ChoiceIntact(t)
    THEN {sectors}
    ELSE {[sectors EXCEPT ![taskCur[t]].data = d] : d \in Contents}

\* xy_ftl_write reads the chosen sector too, and returns when nothing changes.
ComposeImage(t) ==
    /\ taskPc[t] = "chosen"
    /\ taskOp[t] \in WriteOps
    /\ \E f \in SeenBy(t) :
          \/ /\ taskCur[t] # NoPage /\ f[taskCur[t]].data[taskOp[t].param] = taskOp[t].val
             /\ taskPc' = [taskPc EXCEPT ![t] = "idle"]
             /\ UNCHANGED taskBuf
          \/ /\ taskCur[t] # NoPage => f[taskCur[t]].data[taskOp[t].param] # taskOp[t].val
             /\ taskBuf' = [taskBuf EXCEPT ![t] = PageImage(f, taskCur[t], taskOp[t].param, taskOp[t].val)]
             /\ taskPc' = [taskPc EXCEPT ![t] = "flash"]
    /\ UNCHANGED <<sectors, loaded, taskOp, scan, taskData, overtaken>>

\* xy_flash_write with the DSP loaded: flash_operate_ext erases and programs
\* under vTaskSuspendAll.
WriteSectorUnlocked(t) ==
    /\ \/ /\ loaded /\ taskPc[t] = "flash"
          /\ sectors' = [sectors EXCEPT ![NextPage(taskCur[t])] = Blank]
          /\ taskPc' = [taskPc EXCEPT ![t] = "program"]
       \/ /\ taskPc[t] = "program"
          /\ sectors' = [sectors EXCEPT ![NextPage(taskCur[t])] = taskBuf[t]]
          /\ taskPc' = [taskPc EXCEPT ![t] = "ack"]
    /\ UNCHANGED <<loaded, taskOp, scan, taskBuf, taskData, overtaken>>
WriteSector(t) ==
    /\ taskPc[t] = "flash"
    /\ loaded
    /\ sectors' = [sectors EXCEPT ![NextPage(taskCur[t])] = taskBuf[t]]
    /\ taskPc' = [taskPc EXCEPT ![t] = "ack"]
    /\ UNCHANGED <<loaded, taskOp, scan, taskBuf, taskData, overtaken>>

\* xy_flash_write with the DSP not loaded: flash_write_erase erases in one critical
\* section and programs in the next.
EraseSector(t) ==
    /\ taskPc[t] = "flash"
    /\ ~loaded
    /\ sectors' = [sectors EXCEPT ![NextPage(taskCur[t])] = Blank]
    /\ taskPc' = [taskPc EXCEPT ![t] = "program"]
    /\ overtaken' = overtaken \cup (InCall \ {t})
    /\ UNCHANGED <<loaded, taskOp, scan, taskBuf, taskData>>

\* Programming can only clear bits: over a written page it leaves the bits both have.
ProgramOver(old, new) ==
    {[magic |-> old.magic /\ new.magic, num |-> n, data |-> IF old.data = new.data THEN new.data ELSE Damaged] :
        n \in IF old.num = new.num THEN {new.num} ELSE {k \in 0 .. new.num : k <= old.num}}

ProgramSector(t) ==
    LET k == NextPage(taskCur[t]) IN
    /\ taskPc[t] = "program"
    /\ \/ /\ sectors[k] = Blank
          /\ sectors' = [sectors EXCEPT ![k] = taskBuf[t]]
          /\ UNCHANGED overtaken
       \/ /\ sectors[k] # Blank
          /\ \E page \in ProgramOver(sectors[k], taskBuf[t]) : sectors' = [sectors EXCEPT ![k] = page]
          /\ overtaken' = overtaken \cup InCall
    /\ taskPc' = [taskPc EXCEPT ![t] = "ack"]
    /\ UNCHANGED <<loaded, taskOp, scan, taskBuf, taskData>>

\* The assertion on the magic word just written and the return, which frees
\* p_page_buf; when the assertion fails the system restarts.
ReturnTested(t) ==
    /\ taskPc[t] = "ack"
    /\ \/ /\ sectors[NextPage(taskCur[t])].magic
          /\ taskPc' = [taskPc EXCEPT ![t] = "idle"]
          /\ taskBuf' = [taskBuf EXCEPT ![t] = Blank]
       \/ /\ ~sectors[NextPage(taskCur[t])].magic
          /\ taskPc' = [u \in Tasks |-> "idle"]
          /\ taskBuf' = [u \in Tasks |-> Blank]
    /\ UNCHANGED <<sectors, loaded, taskOp, scan, taskData, overtaken>>

\* The DSP is loaded, or suspended or switched off (DspPower), between any two steps.
DspSwitches ==
    /\ loaded' = ~loaded
    /\ UNCHANGED <<sectors, taskPc, taskOp, scan, taskBuf, taskData, overtaken>>

TasksNext ==
    \/ \E t \in Tasks :
        \/ \E o \in {ReadOp} \cup WriteOps : Call(t, o)
        \/ ScanSector(t)
        \/ VerifyChosen(t)
        \/ DropSector(t)
        \/ CopyPage(t)
        \/ ComposeImage(t)
        \/ WriteSector(t)
        \/ EraseSector(t)
        \/ ProgramSector(t)
        \/ ReturnTested(t)
    \/ DspSwitches

TasksSpec == TasksInit /\ [][TasksNext]_tasksVars

-----------------------------------------------------------------------------
\* A scan that other tasks' writes overtake still ends with a page, and a good
\* one, and the assertion after a write holds.
ScanSettles ==
    \A t \in Tasks :
        /\ taskPc[t] = "scan" /\ taskI[t] = NPages =>
              taskCur[t] # NoPage /\ ChecksumOk(sectors[taskCur[t]])
        /\ taskPc[t] = "ack" => sectors[NextPage(taskCur[t])].magic

\* Reads and writes overlap without a lock.  As long as no task was in a call
\* when another one left a sector erased (a write by the DSP never does, one by
\* this core does between flash_erase and flash_write_no_erase), every scan
\* settles on a good page, also one begun between that erase and the
\* programming.  Whatever happened to the ring, a task that was never in a call
\* at such a moment never copies out an erased or half-written sector.
NoTornRead ==
    /\ overtaken = {} => ScanSettles
    /\ \A t \in Tasks \ overtaken : taskData[t] # Damaged

\* A task never copies out an erased or half-written sector.  It does when the
\* DSP is not loaded: see the README.
NeverTorn == \A t \in Tasks : taskData[t] # Damaged

NewestSector(p) ==
    /\ PageValid(sectors[p])
    /\ \A q \in Pages : PageValid(sectors[q]) => sectors[q].num <= sectors[p].num

StoredNow == sectors[CHOOSE p \in Pages : NewestSector(p)].data

\* A parameter changes only when a write of that parameter reaches the
\* flash: xy_ftl_write modifies one parameter and leaves the others alone.
OnlyWrittenParamChanges ==
    [][\A q \in Params : StoredNow'[q] # StoredNow[q] =>
          \E t \in Tasks : /\ taskPc[t] \in {"flash", "program"} /\ taskPc'[t] = "ack"
                           /\ taskOp[t].param = q /\ StoredNow'[q] = taskOp[t].val]_tasksVars
=============================================================================
