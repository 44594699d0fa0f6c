-------------------------------- MODULE Ftl --------------------------------
(***************************************************************************)
(* One EFTL region (xy_flash.c) used by one caller at a time, under power  *)
(* loss and low battery voltage.                                           *)
(*                                                                         *)
(* xy_ftl_read and xy_ftl_write are broken into the steps between which    *)
(* the device may lose power: the scan of the tags, the checksum of the    *)
(* page found, the erase of a bad page, the erase and the programming of   *)
(* the next page, and the return.                                          *)
(***************************************************************************)
EXTENDS FtlPages

CONSTANTS
    IsFactory,    \* the region is NV_FLASH_FACTORY: reads fall back to the main factory NV
    MinVbatSet,   \* factory NV min_mVbat # 0: the voltage is checked before each erase
    GarbledTags,  \* an interrupted erase or program may leave any write_num
    PageDecay,    \* a written sector may go bad: wear, "bad block"
    None          \* no result data

ASSUME FlagsAssumption ==
    /\ IsFactory \in BOOLEAN /\ MinVbatSet \in BOOLEAN
    /\ GarbledTags \in BOOLEAN /\ PageDecay \in BOOLEAN
ASSUME NoneAssumption == None \notin Contents \cup {Damaged}

VARIABLES
    flash,  \* the sectors
    pc,     \* where the call in progress is
    op,     \* the call: [kind, param, val]
    maxn,   \* max_writenum of xy_choose_valid_ftl
    cur,    \* cur_ftl_idx / valid_page
    next,   \* next_ftl_idx
    buf,    \* p_page_buf
    ret,    \* the last call's result: [res, data]
    vbat,   \* the battery voltage against min_mVbat
    low,    \* g_vBat_is_low, latched until the next reset
    boot    \* why the system is up: RB_BY_LOW_VOL or anything else

call == <<op, maxn, cur, next, buf>>
power == <<vbat, low, boot>>
vars == <<flash, pc, op, maxn, cur, next, buf, ret, vbat, low, boot>>

PCs == {"idle", "scan", "verify", "drop", "chosen", "flash", "erase", "program", "ack"}

Results == [res : {"none", "ok", "err", "lowvbat"}, data : Contents \cup {Damaged, None}]

\* The caller's view of a page that was never read or written.
NoResult == [res |-> "none", data |-> None]

TypeOK ==
    /\ flash \in [Pages -> Page]
    /\ pc \in PCs
    /\ op \in {ReadOp} \cup WriteOps
    /\ maxn \in 0 .. ErasedNum
    /\ cur \in Pages \cup {NoPage}
    /\ next \in Pages
    /\ buf \in Page
    /\ ret \in Results
    /\ vbat \in {"ok", "low"}
    /\ low \in BOOLEAN
    /\ boot \in {"lowvol", "other"}

Init ==
    /\ flash = [p \in Pages |-> Blank]
    /\ pc = "idle"
    /\ op = ReadOp
    /\ maxn = 0
    /\ cur = NoPage
    /\ next = 0
    /\ buf = Blank
    /\ ret = NoResult
    /\ vbat = "ok"
    /\ low = FALSE
    /\ boot = "other"

-----------------------------------------------------------------------------
(***************************************************************************)
(* xy_check_low_vBat, called before every erase and write: it permits the  *)
(* operation, refuses it and latches, or, the first time, resets the chip. *)
(***************************************************************************)
VbatPermits == ~MinVbatSet \/ (~low /\ vbat = "ok")

VbatRefuses == MinVbatSet /\ (low \/ (vbat = "low" /\ boot = "lowvol"))

VbatResets == MinVbatSet /\ ~low /\ vbat = "low" /\ boot # "lowvol"

\* A reset forgets the call in progress and everything else in RAM.
Reboot(reason) ==
    /\ pc' = "idle"
    /\ ret' = NoResult
    /\ low' = FALSE
    /\ boot' = reason
    /\ UNCHANGED <<call, vbat>>

\* soft_reset_by_wdt(RB_BY_LOW_VOL) never returns to its caller.
LowVoltageReset ==
    /\ pc \in {"drop", "flash"}
    /\ VbatResets
    /\ Reboot("lowvol")
    /\ UNCHANGED flash

-----------------------------------------------------------------------------
(***************************************************************************)
(* The calls.  NumLimit stands for the life of the flash: 100,000 erasures *)
(* of a sector end long before the 32-bit write_num reaches 0xFFFFFFFF.    *)
(***************************************************************************)
NumLimit == \A p \in Pages : HeadTailOk(flash[p]) => flash[p].num + 1 < ErasedNum

StartCall(o) ==
    /\ pc = "idle"
    /\ op' = o
    /\ maxn' = 0
    /\ pc' = "scan"
    /\ ret' = NoResult
    /\ UNCHANGED <<flash, cur, next, buf, power>>

CallRead == StartCall(ReadOp)

CallWrite == NumLimit /\ \E o \in WriteOps : StartCall(o)

Return(res, data) ==
    /\ pc' = "idle"
    /\ ret' = [res |-> res, data |-> data]

(***************************************************************************)
(* xy_choose_valid_ftl: scan the tags, check the page found, erase it and  *)
(* scan again (CHOOSE_AGAIN) when its checksum is wrong.  max_writenum     *)
(* keeps its value across the rescans.                                     *)
(***************************************************************************)
Scan ==
    /\ pc = "scan"
    /\ \/ /\ ScanCandidates(flash, maxn) = {}
          /\ cur' = NoPage
          /\ next' = 0
          /\ pc' = "chosen"
          /\ UNCHANGED maxn
       \/ \E p \in Pages :
             /\ IsScanResult(flash, maxn, p)
             /\ cur' = p
             /\ maxn' = flash[p].num
             /\ pc' = "verify"
             /\ UNCHANGED next
    /\ UNCHANGED <<flash, op, buf, ret, power>>

VerifyWrites ==
    /\ pc = "verify"
    /\ \/ /\ ChecksumOk(flash[cur]) \/ op.kind = "read"
          /\ next' = NextPage(cur)
          /\ pc' = "chosen"
       \/ /\ ~ChecksumOk(flash[cur]) /\ op.kind = "write"
          /\ pc' = "drop"
          /\ UNCHANGED next
    /\ UNCHANGED <<flash, op, maxn, cur, buf, ret, power>>
Verify ==
    /\ pc = "verify"
    /\ \/ /\ ChecksumOk(flash[cur])
          /\ next' = NextPage(cur)
          /\ pc' = "chosen"
       \/ /\ ~ChecksumOk(flash[cur])
          /\ pc' = "drop"
          /\ UNCHANGED next
    /\ UNCHANGED <<flash, op, maxn, cur, buf, ret, power>>

DropWrongPage ==
    /\ pc = "drop"
    /\ \/ VbatPermits /\ flash' = [flash EXCEPT ![next] = Blank] /\ UNCHANGED low
       \/ VbatRefuses /\ low' = TRUE /\ UNCHANGED flash
    /\ pc' = "scan"
    /\ UNCHANGED <<call, ret, vbat, boot>>
DropBadPage ==
    /\ pc = "drop"
    /\ \/ VbatPermits /\ flash' = [flash EXCEPT ![cur] = Blank] /\ UNCHANGED low
       \/ VbatRefuses /\ low' = TRUE /\ UNCHANGED flash
    /\ pc' = "scan"
    /\ UNCHANGED <<call, ret, vbat, boot>>

-----------------------------------------------------------------------------
\* xy_ftl_read, once the page is chosen.
ReadPage ==
    /\ pc = "chosen"
    /\ op.kind = "read"
    /\ \/ cur # NoPage /\ Return("ok", flash[cur].data)
       \/ cur = NoPage /\ IsFactory /\ Return("ok", DefaultContents)
       \/ cur = NoPage /\ ~IsFactory /\ Return("err", None)
    /\ UNCHANGED <<flash, call, power>>

\* xy_ftl_write: "if new data is equal old data, Don't write flash".
SkipEqualWrite ==
    /\ pc = "chosen"
    /\ op.kind = "write"
    /\ cur # NoPage
    /\ flash[cur].data[op.param] = op.val
    /\ Return("ok", None)
    /\ UNCHANGED <<flash, call, power>>

ComposePage ==
    /\ pc = "chosen"
    /\ op.kind = "write"
    /\ cur # NoPage => flash[cur].data[op.param] # op.val
    /\ buf' = PageImage(flash, cur, op.param, op.val)
    /\ pc' = "flash"
    /\ UNCHANGED <<flash, op, maxn, cur, next, ret, power>>

\* xy_flash_write: the voltage check, then flash_write_erase of one sector.
FlashWrite ==
    /\ pc = "flash"
    /\ \/ VbatPermits /\ pc' = "erase" /\ UNCHANGED <<ret, low>>
       \/ VbatRefuses /\ low' = TRUE /\ Return("lowvbat", None)
    /\ UNCHANGED <<flash, call, vbat, boot>>

EraseNext ==
    /\ pc = "erase"
    /\ flash' = [flash EXCEPT ![next] = Blank]
    /\ pc' = "program"
    /\ UNCHANGED <<call, ret, power>>

ProgramNext ==
    /\ pc = "program"
    /\ flash' = [flash EXCEPT ![next] = buf]
    /\ pc' = "ack"
    /\ UNCHANGED <<call, ret, power>>

\* The assertion on the magic word after the write, and the return.
ReturnWritten ==
    /\ pc = "ack"
    /\ flash[next].magic
    /\ Return("ok", None)
    /\ UNCHANGED <<flash, call, power>>

-----------------------------------------------------------------------------
(***************************************************************************)
(* What an interrupted sector operation leaves.  An erase leaves the old   *)
(* page, a blank one, or a damaged one whose head and tag still read as    *)
(* before or are gone.  Programming goes up the sector, so that the tag,   *)
(* in its last bytes, comes last: a page cut short has no number.  With    *)
(* GarbledTags the cells of the head and the tag may read anything.        *)
(***************************************************************************)
TornMagic(m) == IF GarbledTags THEN BOOLEAN ELSE {m, FALSE}

TornNum(n) == IF GarbledTags THEN 0 .. ErasedNum ELSE {n, ErasedNum}

TornErase(old) ==
    {old, Blank} \cup
    {[magic |-> m, num |-> n, data |-> Damaged] : m \in TornMagic(old.magic), n \in TornNum(old.num)}

TornProgram(new) ==
    {new, Blank} \cup
    {[magic |-> m, num |-> n, data |-> d] :
        m \in TornMagic(new.magic), n \in TornNum(ErasedNum), d \in {new.data, Damaged}}

\* Power is lost.  The sector operation in progress, if any, is cut short.
PowerLoss ==
    /\ \/ UNCHANGED flash
       \/ pc = "drop" /\ VbatPermits /\ \E x \in TornErase(flash[cur]) : flash' = [flash EXCEPT ![cur] = x]
       \/ pc = "erase" /\ \E x \in TornErase(flash[next]) : flash' = [flash EXCEPT ![next] = x]
       \/ pc = "program" /\ \E x \in TornProgram(buf) : flash' = [flash EXCEPT ![next] = x]
    /\ Reboot("other")

\* A sector whose erasures are used up loses its contents, but not its tag.
SectorDecays ==
    /\ PageDecay
    /\ pc = "idle"
    /\ \E p \in Pages : flash' = [flash EXCEPT ![p].data = Damaged]
    /\ UNCHANGED <<pc, call, ret, power>>

VoltageChange ==
    /\ MinVbatSet
    /\ vbat' = IF vbat = "ok" THEN "low" ELSE "ok"
    /\ UNCHANGED <<flash, pc, call, ret, low, boot>>

\* The steps of the call in progress.
Step ==
    \/ LowVoltageReset
    \/ Scan \/ Verify \/ DropBadPage
    \/ ReadPage
    \/ SkipEqualWrite \/ ComposePage \/ FlashWrite
    \/ EraseNext \/ ProgramNext \/ ReturnWritten

Next ==
    \/ CallRead \/ CallWrite
    \/ Step
    \/ PowerLoss \/ SectorDecays \/ VoltageChange

Spec == Init /\ [][Next]_vars

\* The task that made the call is scheduled again and again.
FairSpec == Spec /\ WF_vars(Step)

-----------------------------------------------------------------------------
(***************************************************************************)
(* What the region holds: the contents of the valid page with the highest  *)
(* number, as a read started now would find it.                            *)
(***************************************************************************)
ValidPages == {p \in Pages : PageValid(flash[p])}

Newest(p) == p \in ValidPages /\ \A q \in ValidPages : flash[q].num <= flash[p].num

Stored ==
    IF ValidPages = {} THEN None ELSE flash[CHOOSE p \in Pages : Newest(p)].data

Cell == INSTANCE NvCell WITH
    cell <- Stored, busy <- pc # "idle", req <- op, done <- pc = "ack"

\* The region behaves like one cell of non-volatile memory: every write is
\* atomic under power loss, changes one parameter, and is durable once
\* xy_ftl_write returned; xy_ftl_read returns what was written last.
ImplementsCell == Cell!Spec

\* xy_ftl_write never erases or programs the sector that holds the newest
\* valid copy: the ring always writes the sector after it.
NewestCopySurvives ==
    [][\A p \in Pages : Newest(p) => flash'[p] = flash[p]]_vars

\* xy_ftl_read never hands damaged contents to its caller as good ones.
NoDamagedRead == ret.res = "ok" => ret.data # Damaged

\* xy_choose_valid_ftl reports "no page" (p_cur_ftl_idx = -1) only when no
\* sector has a good head, tail and checksum.
ChooseFindsValid == (pc = "chosen" /\ cur = NoPage) => ValidPages = {}

\* Every call of xy_ftl_read and xy_ftl_write returns or ends in a reset, however
\* many damaged sectors CHOOSE_AGAIN has to drop, unless the latched low voltage
\* refuses the erase of one.
CallsReturn ==
    pc # "idle" ~>
        \/ pc = "idle"
        \/ low /\ \E p \in Pages : HeadTailOk(flash[p]) /\ ~ChecksumOk(flash[p])

(***************************************************************************)
(* CheckFactoryNvValid, a second scan of the factory region, runs before   *)
(* main: it does not test the checksum.  SystemInit takes the clocks from  *)
(* the page found, or from the main factory NV.                            *)
(***************************************************************************)
FirstWritten(p) ==
    /\ p \in Pages /\ HeadTailOk(flash[p])
    /\ \A q \in Pages : HeadTailOk(flash[q]) => p <= q
CheckFactoryNvValid(p) ==
    /\ p \in Pages /\ HeadTailOk(flash[p])
    /\ \A q \in Pages : HeadTailOk(flash[q]) =>
          flash[q].num < flash[p].num \/ (flash[q].num = flash[p].num /\ q <= p)

SystemInit ==
    IF \E p \in Pages : CheckFactoryNvValid(p)
    THEN flash[CHOOSE p \in Pages : CheckFactoryNvValid(p)].data
    ELSE DefaultContents

\* At whatever point power was lost, SystemInit sets the clocks from the
\* very contents xy_ftl_read finds once the system is up, or from the main
\* factory NV when there are none: the missing checksum does no harm.
ClocksFromStored == SystemInit = IF Stored = None THEN DefaultContents ELSE Stored

-----------------------------------------------------------------------------
(***************************************************************************)
(* The inductive invariants of the proofs.                                 *)
(*                                                                         *)
(* Under every fault: a page that passed Verify is good until the call     *)
(* ends.  Without garbled tags and decaying sectors, in a ring of several  *)
(* sectors: numbers of written sectors differ, the highest is on a good    *)
(* one, and a call in progress has found it and writes the one after it.   *)
(***************************************************************************)
VerifiedInv ==
    /\ pc \in {"verify", "drop"} => cur \in Pages
    /\ (pc = "chosen" /\ cur # NoPage) => ChecksumOk(flash[cur])

Written(p) == HeadTailOk(flash[p])

Top(p) == p \in Pages /\ Written(p) /\ \A q \in Pages : Written(q) => flash[q].num <= flash[p].num

NumsDiffer == \A p, q \in Pages : Written(p) /\ Written(q) /\ p # q => flash[p].num # flash[q].num

TopIsIntact == \A p \in Pages : Top(p) => ChecksumOk(flash[p])

ChosenInv ==
    \/ cur = NoPage /\ next = 0 /\ \A p \in Pages : ~Written(p)
    \/ Top(cur) /\ next = NextPage(cur)

Writing == pc \in {"flash", "erase", "program"}

CallInv ==
    /\ pc # "drop"
    /\ pc = "scan" => maxn = 0
    /\ pc = "verify" => Top(cur)
    /\ pc = "chosen" \/ Writing => ChosenInv
    /\ Writing => op \in WriteOps /\ buf = PageImage(flash, cur, op.param, op.val)
    /\ pc \in {"scan", "verify", "chosen", "flash", "erase", "program"} /\ op \in WriteOps => NumLimit
    /\ pc = "ack" => op \in WriteOps /\ Top(next)

\* The newest written sector is unique and good, whatever call or reset is
\* in progress: what a scan settles on never has to be dropped.
RingInv == NumsDiffer /\ TopIsIntact /\ CallInv
=============================================================================
