------------------------------ MODULE NvStore ------------------------------
(***************************************************************************)
(* The NV life cycle of the M3 core (oss_nv.c, dsp_process.c): what deep   *)
(* sleep, reboot and boot do to the retention memory and the volatile NV,  *)
(* and how the DSP is told to start.                                       *)
(*                                                                         *)
(* The retention memory holds the DSP's context (PS/PHY/LPM), the M3's own *)
(* record g_softap_var_nv, a checksum of that record only, and a flag.     *)
(* Each flash region is a cell whose writes are atomic: that is what       *)
(* module Ftl establishes.  Steps of one routine are separate so that      *)
(* power may be lost between two of them.                                  *)
(***************************************************************************)
EXTENDS Integers

CONSTANTS
    Configs,           \* the factory NV settings to consider
    MaxTime,           \* bound of the RTC, in units of a few hours
    Ctxs,              \* network contexts the DSP may hold
    Fragile,           \* the settings under which the retention memory may lose its contents in deep sleep
    None               \* no image, no copy, no matching checksum

Config == [keep : BOOLEAN,       \* keep_retension_mem
           thr : Nat,            \* backup_threshold
           highFreq : BOOLEAN,   \* high_freq_data
           single : BOOLEAN,     \* work_mode # 0: only the M3 runs at first
           offtime : BOOLEAN,    \* offtime, in a build that is not OPERATION_VER
           needDm : BOOLEAN,     \* need_start_dm
           pinReset : BOOLEAN]   \* pin_reset of the main factory NV

ASSUME ConfigsAssumption ==
    /\ Configs \subseteq Config
    \* nv_restore asserts the one, check_conflict_nv reports a setting without the other.
    /\ \A c \in Configs : c.highFreq => c.keep /\ c.single
ASSUME MaxTimeAssumption == MaxTime \in Nat \ {0}
ASSUME FragileAssumption == Fragile \subseteq Configs

Bits == {0, 1}
NoCtx == 0
ASSUME CtxsAssumption == Ctxs \cap Bits = {}

VARIABLES
    cfg,     \* g_softap_fac_nv
    pc,      \* where the M3 is
    cause,   \* get_sys_up_stat() and, for a soft reset, get_softreset_type()
    bk,      \* the retention memory
    bkOn,    \* bit 0 of g_BKMEMCTL_reg: the retention memory is powered in deep sleep
    vol,     \* region NV_FLASH_DSP_VOLATILE: None or an image of the retention memory
    user,    \* g_user_vol_data, None when it is not the user's data
    dsp,     \* the DSP is loaded
    sync,    \* PS_START_SYNC: how the DSP was told to start
    fast,    \* g_fast_off # -1
    now,     \* the RTC
    ctx,     \* the context the network holds for this device
    kept     \* what the last completed save must bring back

vars == <<cfg, pc, cause, bk, bkOn, vol, user, dsp, sync, fast, now, ctx, kept>>

Inf == MaxTime + 9      \* next_PS_sec = 0xFFFFFFFF
Times == 0 .. Inf

(***************************************************************************)
(* get_sys_up_stat() and get_softreset_type(), as far as the code tells    *)
(* them apart: ABNORMAL is WDT_RESET or RB_BY_ASSERT, SOFT_RESET any other *)
(* soft reset than RB_BY_NRB, WAKEUP is UTC_WAKEUP or EXTPIN_WAKEUP.       *)
(***************************************************************************)
Resets == {"ABNORMAL", "PIN_RESET", "RB_BY_NRB", "SOFT_RESET"}
Causes == {"POWER_ON", "WAKEUP"} \cup Resets

\* g_softap_var_nv: rtc_snap_sec, next_PS_sec, dm_cfg, and whether
\* cclk_local_sec and rtc_msec_reset are set.
Soft == [snap : Times, nextPs : Times, dm : Bits, clk : BOOLEAN, msec : BOOLEAN]

\* The DSP's part of the retention memory: its context, the user's data
\* (high_freq_data), or junk after power was removed.
Area == [kind : {"nv", "junk"}, v : Ctxs \cup {NoCtx}] \cup [kind : {"user"}, v : Bits \cup {None}]

Flags == {"BK_FLAG_INVALID", "BK_FLAG_INUSE", "BK_FLAG_INUSE_2"}

\* sum is the record the stored checksum was computed from.
Retention == [area : Area, soft : Soft, sum : Soft \cup {None}, flag : Flags]
Image == [area : Area, soft : Soft]
Kept == [dm : Bits, clk : BOOLEAN, user : Bits \cup {None}]
ASSUME NoneAssumption == None \notin Soft /\ None \notin Image /\ None \notin Kept

ZeroArea == [kind |-> "nv", v |-> NoCtx]
ZeroSoft == [snap |-> 0, nextPs |-> 0, dm |-> 0, clk |-> FALSE, msec |-> FALSE]

\* memset((void *)BACKUP_MEM_BASE, 0, FLASH_SECTOR_LENGTH)
ZeroRetention ==
    [area |-> ZeroArea, soft |-> ZeroSoft, sum |-> ZeroSoft, flag |-> "BK_FLAG_INVALID"]

\* The contents after power was removed: nothing checks out.
JunkRetention ==
    [area |-> [kind |-> "junk", v |-> NoCtx], soft |-> ZeroSoft, sum |-> None, flag |-> "BK_FLAG_INVALID"]

PCs == {"boot", "restore", "offtime", "run",
        "sleep_net", "sleep_vol", "asleep",
        "reboot_vol", "reset"}

FlagsOK == {bkOn, dsp, fast} \subseteq BOOLEAN

TypeOK ==
    /\ cfg \in Configs
    /\ pc \in PCs
    /\ cause \in Causes
    /\ bk \in Retention
    /\ FlagsOK
    /\ vol \in Image \cup {None}
    /\ user \in Bits \cup {None}
    /\ sync \in {"none", "PS_DO_ATTACH", "PS_CAMP_ON"}
    /\ now \in 1 .. MaxTime
    /\ ctx \in Ctxs \cup {NoCtx}
    /\ kept \in Kept \cup {None}

\* A device that is powered for the first time.
Init ==
    /\ cfg \in Configs
    /\ pc = "boot"
    /\ cause = "POWER_ON"
    /\ bk = JunkRetention
    /\ bkOn = TRUE
    /\ vol = None
    /\ user = 0
    /\ dsp = FALSE
    /\ sync = "none"
    /\ fast = FALSE
    /\ now = 1
    /\ ctx = NoCtx
    /\ kept = None

-----------------------------------------------------------------------------
(***************************************************************************)
(* Boot: nv_restore.                                                       *)
(***************************************************************************)

\* The reasons of a boot for which everything volatile is given up.
Abnormal == cause = "ABNORMAL" \/ (cause = "PIN_RESET" /\ cfg.pinReset)

\* erase_flash_by_abnormal(1 or 2): the working factory NV is not erased.
\* The erase is refused when the battery is low.
BootErase ==
    /\ pc = "boot"
    /\ \/ /\ Abnormal
          /\ vol' \in {vol, None}
          /\ bk' = ZeroRetention
       \/ /\ ~Abnormal
          /\ UNCHANGED <<bk, vol>>
    /\ pc' = "restore"
    /\ UNCHANGED <<cfg, cause, bkOn, user, dsp, sync, fast, now, ctx, kept>>

\* keep_retension_mem and a retention memory whose checksum and flag are good.
RetentionOk == cfg.keep /\ bk.sum = bk.soft /\ bk.flag # "BK_FLAG_INVALID"

\* ABNORMAL_PROC: is there a flash copy to fall back on?
MayUseFlash == ~cfg.keep \/ cfg.thr # 0 \/ cfg.highFreq

\* NV_ERR_PROC is reached.
NothingToRestore == ~RetentionOk /\ (~MayUseFlash \/ (vol = None /\ ~cfg.highFreq))

\* The retention memory as found, or as read back from flash.
Loaded ==
    IF RetentionOk THEN bk
    ELSE IF vol = None THEN ZeroRetention
    ELSE [bk EXCEPT !.area = vol.area, !.soft = vol.soft]

\* g_user_vol_data: what the retention memory holds where the user's data
\* was (None: something else), or zeroes.
RestoredUserUnflagged == bk.area.v
RestoredUser ==
    IF RetentionOk /\ bk.flag = "BK_FLAG_INUSE_2"
    THEN IF bk.area.kind = "user" THEN bk.area.v ELSE None
    ELSE 0

\* xy_reboot with the clock set: the record is kept, the DSP's context is not.
KeepsClock(m) == cause = "RB_BY_NRB" /\ m.soft.msec

NeedOfftime(m) ==
    /\ cause = "POWER_ON" /\ ~cfg.single /\ ~cfg.keep /\ cfg.offtime
    /\ m.soft.snap # 0 /\ m.soft.nextPs # 0 /\ m.soft.nextPs > m.soft.snap

\* The retention memory when nv_restore is about to start the DSP.
AfterReset(m) ==
    IF KeepsClock(m)
    THEN [m EXCEPT !.area = ZeroArea, !.soft.nextPs = 0, !.soft.snap = 0, !.soft.msec = FALSE]
    ELSE ZeroRetention

Recovered ==
    IF NothingToRestore THEN ZeroRetention
    ELSE IF cause \in Resets THEN AfterReset(Loaded)
    ELSE IF cause = "POWER_ON" /\ ~NeedOfftime(Loaded) THEN ZeroRetention
    ELSE Loaded

\* "special process for dm": the record's dm_cfg is put back, on power-on only.
WithDm(m) ==
    IF ~NothingToRestore /\ cause = "POWER_ON" /\ cfg.needDm
    THEN [m EXCEPT !.soft.dm = Loaded.soft.dm]
    ELSE m

(***************************************************************************)
(* set_DSP_work_mode and dynamic_set_DSP_work_mode: the DSP camps on with  *)
(* its old context when the device woke from deep sleep before the next    *)
(* TAU or eDRX time; otherwise it attaches.  next_PS_sec is consumed.      *)
(***************************************************************************)
CampsOn(soft) ==
    /\ soft.snap # 0 /\ soft.nextPs # 0 /\ soft.nextPs # Inf
    /\ cause = "WAKEUP"
    /\ soft.nextPs >= now - 1

ConsumeNextPsLate(m) == m
ConsumeNextPs(m) == [m EXCEPT !.soft.nextPs = 0]

\* An attach gives the device a context no memory holds.
FreshCtxs(m) == Ctxs \ ({m.area.v, ctx} \cup (IF vol = None THEN {} ELSE {vol.area.v}))

StartDsp(m) ==
    /\ dsp' = TRUE
    /\ \/ /\ CampsOn(m.soft)
          /\ sync' = "PS_CAMP_ON"
          /\ UNCHANGED ctx
       \/ /\ ~CampsOn(m.soft)
          /\ sync' = "PS_DO_ATTACH"
          /\ ctx' \in FreshCtxs(m)
    /\ bk' = ConsumeNextPs(m)

\* set_dsp_no_work, or the wait for AT+OFFTIME.
NoDspYet(m) ==
    /\ bk' = m
    /\ dsp' = FALSE
    /\ sync' = "none"
    /\ UNCHANGED ctx

Restore ==
    /\ pc = "restore"
    /\ user' = IF cfg.highFreq THEN RestoredUser ELSE 0
    /\ \/ /\ cfg.single
          /\ NoDspYet(WithDm(Recovered))
          /\ pc' = "run"
       \/ /\ ~NothingToRestore /\ NeedOfftime(Loaded)
          /\ NoDspYet(WithDm(Recovered))
          /\ pc' = "offtime"
       \/ /\ ~cfg.single /\ (NothingToRestore \/ ~NeedOfftime(Loaded))
          /\ StartDsp(WithDm(Recovered))
          /\ pc' = "run"
    /\ kept' = None
    /\ UNCHANGED <<cfg, cause, bkOn, vol, fast, now>>

\* AT+OFFTIME tells how long power was off; then the DSP is started.
OffTime ==
    /\ pc = "offtime"
    /\ StartDsp(bk)
    /\ pc' = "run"
    /\ UNCHANGED <<cfg, cause, bkOn, vol, user, fast, now, kept>>

-----------------------------------------------------------------------------
(***************************************************************************)
(* Running.                                                                *)
(***************************************************************************)

\* dynamic_load_up_dsp: with high_freq_data the context comes from flash.
DynamicLoad ==
    /\ pc = "run" /\ cfg.single /\ ~dsp
    /\ StartDsp(IF cfg.highFreq
                THEN [bk EXCEPT !.area = IF vol = None THEN ZeroArea ELSE vol.area]
                ELSE bk)
    /\ UNCHANGED <<cfg, pc, cause, bkOn, vol, user, fast, now, kept>>

\* shut_down_dsp_core and shut_down_dspcore_process: AT+CFUN=5, then power off.
ShutDownDsp ==
    /\ pc = "run" /\ cfg.single /\ dsp
    /\ dsp' = FALSE
    /\ sync' = "none"
    /\ ctx' = NoCtx
    /\ UNCHANGED <<cfg, pc, cause, bk, bkOn, vol, user, fast, now, kept>>

\* The network moves the device to a new context (TAU, new IP address).
NewContext ==
    /\ pc = "run" /\ dsp
    /\ ctx' \in FreshCtxs(bk)
    /\ UNCHANGED <<cfg, pc, cause, bk, bkOn, vol, user, dsp, sync, fast, now, kept>>

\* The M3's tasks change the record or the user's data.
SetClock ==
    /\ pc = "run" /\ dsp /\ ~bk.soft.clk
    /\ bk' = [bk EXCEPT !.soft.clk = TRUE]
    /\ UNCHANGED <<cfg, pc, cause, bkOn, vol, user, dsp, sync, fast, now, ctx, kept>>

\* The DM task: a failed attempt is counted in the record; a registration is noted in it,
\* and the record is written into its place of the flash image, a blank one if there is none.
SetDm ==
    /\ pc = "run" /\ dsp /\ cfg.needDm
    /\ bk' = [bk EXCEPT !.soft.dm = 1 - @]
    /\ \/ UNCHANGED vol
       \/ vol' = [area |-> IF vol = None THEN ZeroArea ELSE vol.area, soft |-> bk'.soft]
    /\ UNCHANGED <<cfg, pc, cause, bkOn, user, dsp, sync, fast, now, ctx, kept>>

SetUser ==
    /\ pc = "run" /\ cfg.highFreq
    /\ user' \in Bits \ {user}
    /\ UNCHANGED <<cfg, pc, cause, bk, bkOn, vol, dsp, sync, fast, now, ctx, kept>>

Tick ==
    /\ pc \in {"run", "asleep"} /\ now < MaxTime
    /\ now' = now + 1
    /\ UNCHANGED <<cfg, pc, cause, bk, bkOn, vol, user, dsp, sync, fast, ctx, kept>>

\* xy_fast_power_off: the DSP is sent AT+CFUN=5 and deep sleep follows.
FastPowerOff ==
    /\ pc = "run" /\ ~fast
    /\ fast' = TRUE
    /\ ctx' = IF dsp THEN NoCtx ELSE ctx
    /\ UNCHANGED <<cfg, pc, cause, bk, bkOn, vol, user, dsp, sync, now, kept>>

-----------------------------------------------------------------------------
(***************************************************************************)
(* Deep sleep: the LPM machine takes the DSP's context into the retention  *)
(* memory, notes the time and the next TAU or eDRX time, and calls         *)
(* nv_write_to_flash, which saves the factory NV and the DSP's             *)
(* non-volatile NV (nothing here reads them) first.  After AT+FASTOFF or   *)
(* AT+CFUN=5 there is no next time; without the DSP the last one stands.   *)
(***************************************************************************)
NextTimes ==
    IF fast \/ (dsp /\ ctx = NoCtx) THEN {0}
    ELSE IF dsp THEN {0, Inf} \cup (now + 1 .. MaxTime + 1)
    ELSE {bk.soft.nextPs}

EnterDeepSleep ==
    /\ pc = "run"
    /\ \E t \in NextTimes :
          bk' = [bk EXCEPT !.area = IF dsp THEN [kind |-> "nv", v |-> ctx] ELSE @,
                           !.soft.snap = now,
                           !.soft.nextPs = t]
    /\ pc' = "sleep_net"
    /\ UNCHANGED <<cfg, cause, bkOn, vol, user, dsp, sync, fast, now, ctx, kept>>

\* AT+FASTOFF: "clear DSP core info"; the cloud's region is module CloudResume's.
SleepSaveNet ==
    /\ pc = "sleep_net"
    /\ bk' = IF fast THEN [bk EXCEPT !.area = ZeroArea] ELSE bk
    /\ pc' = "sleep_vol"
    /\ UNCHANGED <<cfg, cause, bkOn, vol, user, dsp, sync, fast, now, ctx, kept>>

\* varnv_is_need_wrtieback: the difference is unsigned, so a next time that
\* has passed counts as far away.
WriteBackThresholdOnly(soft) ==
    soft.nextPs # 0 /\ cfg.thr # 0 /\ (soft.nextPs < now \/ soft.nextPs - now > cfg.thr)
WriteBack(soft) ==
    \/ ~cfg.keep
    \/ soft.nextPs # 0 /\ cfg.thr # 0 /\ (soft.nextPs < now \/ soft.nextPs - now > cfg.thr)

\* save_volatile_nv, on the retention memory m.  With high_freq_data the
\* user's data covers the DSP's context, which goes to flash first.
SaveVolatileNv(m, reBoot) ==
    \/ /\ cfg.highFreq
       /\ vol' = IF dsp THEN [area |-> m.area, soft |-> m.soft] ELSE vol
       /\ bk' = [m EXCEPT !.area = [kind |-> "user", v |-> user],
                          !.sum = m.soft, !.flag = "BK_FLAG_INUSE_2"]
       /\ bkOn' = (reBoot => bkOn)
    \/ /\ ~cfg.highFreq /\ WriteBack(m.soft)
       /\ vol' = [area |-> m.area, soft |-> m.soft]
       /\ bk' = [m EXCEPT !.sum = None, !.flag = "BK_FLAG_INVALID"]
       /\ bkOn' = (reBoot /\ bkOn)
    \/ /\ ~cfg.highFreq /\ ~WriteBack(m.soft)
       /\ bk' = [m EXCEPT !.sum = m.soft, !.flag = "BK_FLAG_INUSE"]
       /\ bkOn' = (reBoot => bkOn)
       /\ UNCHANGED vol

SleepSaveVolatile ==
    /\ pc = "sleep_vol"
    /\ SaveVolatileNv(bk, FALSE)
    /\ kept' = [dm |-> bk.soft.dm, clk |-> bk.soft.clk, user |-> user]
    /\ pc' = "asleep"
    /\ UNCHANGED <<cfg, cause, user, dsp, sync, fast, now, ctx>>

\* RAM, and with it g_fast_off, g_BKMEMCTL_reg and g_user_vol_data, starts afresh.
StartBoot(c) ==
    /\ pc' = "boot"
    /\ cause' = c
    /\ bkOn' = TRUE
    /\ user' = 0
    /\ dsp' = FALSE
    /\ sync' = "none"
    /\ fast' = FALSE

\* What is left of the retention memory after deep sleep.
Wake ==
    /\ pc = "asleep"
    /\ StartBoot("WAKEUP")
    /\ \/ UNCHANGED <<bk, kept>>
       \/ ~bkOn /\ bk' = JunkRetention /\ UNCHANGED kept
       \/ cfg \in Fragile /\ bk' = JunkRetention /\ kept' = None
    /\ UNCHANGED <<cfg, vol, now, ctx>>

-----------------------------------------------------------------------------
(***************************************************************************)
(* Reboot, resets and power loss.                                          *)
(***************************************************************************)

\* xy_reboot: AT+CFUN=5 unless the DSP is busy, then reboot_nv, which saves
\* the factory NV and clears next_PS_sec before the volatile NV is saved.
Reboot ==
    /\ pc = "run"
    /\ ctx' \in IF dsp THEN {NoCtx, ctx} ELSE {ctx}
    /\ bk' = [bk EXCEPT !.soft.nextPs = 0]
    /\ pc' = "reboot_vol"
    /\ UNCHANGED <<cfg, cause, bkOn, vol, user, dsp, sync, fast, now, kept>>

RebootSaveVolatile ==
    /\ pc = "reboot_vol"
    /\ SaveVolatileNv([bk EXCEPT !.soft.msec = @ \/ bk.soft.clk], TRUE)
    /\ kept' = IF bk.soft.clk
               THEN [dm |-> bk.soft.dm, clk |-> TRUE, user |-> user]
               ELSE None
    /\ pc' = "reset"
    /\ UNCHANGED <<cfg, cause, user, dsp, sync, fast, now, ctx>>

\* soft_reset_by_wdt(RB_BY_NRB) keeps the retention memory.
RebootReset ==
    /\ pc = "reset"
    /\ StartBoot("RB_BY_NRB")
    /\ UNCHANGED <<cfg, bk, vol, now, ctx, kept>>

\* A reset at any moment.  AT+RESET erases every region first; a write that
\* is refused for low voltage ends in xy_assert or in a low-voltage reset.
Reset ==
    /\ \/ pc # "asleep" /\ StartBoot("ABNORMAL") /\ UNCHANGED vol
       \/ StartBoot("PIN_RESET") /\ UNCHANGED vol
       \/ pc \notin {"boot", "restore", "asleep"} /\ StartBoot("SOFT_RESET") /\ UNCHANGED vol
       \/ pc = "run" /\ StartBoot("SOFT_RESET") /\ vol' = None
    /\ kept' = None
    /\ UNCHANGED <<cfg, bk, now, ctx>>

\* Power is lost and comes back: the RTC and the retention memory are gone.
PowerLoss ==
    /\ StartBoot("POWER_ON")
    /\ bk' = JunkRetention
    /\ now' = 1
    /\ kept' = None
    /\ UNCHANGED <<cfg, vol, ctx>>

Next ==
    \/ BootErase \/ Restore \/ OffTime
    \/ DynamicLoad \/ ShutDownDsp \/ NewContext
    \/ SetClock \/ SetDm \/ SetUser \/ Tick \/ FastPowerOff
    \/ EnterDeepSleep \/ SleepSaveNet \/ SleepSaveVolatile \/ Wake
    \/ Reboot \/ RebootSaveVolatile \/ RebootReset
    \/ Reset \/ PowerLoss

Spec == Init /\ [][Next]_vars

-----------------------------------------------------------------------------
\* "old IP addr still valid": the DSP is told PS_CAMP_ON only with the
\* context the network still holds for this device in its memory.
CampOnIsCurrent ==
    [][sync' = "PS_CAMP_ON" /\ sync # "PS_CAMP_ON" => bk'.area = [kind |-> "nv", v |-> ctx] /\ ctx # NoCtx]_vars

\* Whatever the settings, a wake-up from deep sleep, and a reboot with the
\* clock set, bring back the M3's record and the user's data as they were
\* saved: nv_restore reads the copy save_volatile_nv wrote last.
NothingLostInSleep ==
    [][Restore /\ kept # None =>
          /\ bk'.soft.dm = kept.dm
          /\ bk'.soft.clk = kept.clk
          /\ cfg.highFreq => user' = kept.user]_vars
=============================================================================
