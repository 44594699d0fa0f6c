------------------------------ MODULE NvProofs ------------------------------
(***************************************************************************)
(* What holds of the NV life cycle for any settings, any contexts and any  *)
(* length of the run: the types, what a sleep and a reboot bring back, and *)
(* that the DSP camps on only with a context that is current.              *)
(***************************************************************************)
EXTENDS NvStore, TLAPS

\* What the next boot would restore is what kept says was saved.
KeptInv ==
    kept # None =>
        /\ pc \in {"asleep", "reset", "boot", "restore"}
        /\ pc \in {"boot", "restore"} => cause \in {"WAKEUP", "RB_BY_NRB"}
        /\ ~NothingToRestore
        /\ Loaded.soft.dm = kept.dm
        /\ Loaded.soft.clk = kept.clk
        /\ pc = "reset" \/ (pc # "asleep" /\ cause = "RB_BY_NRB") => Loaded.soft.msec
        /\ cfg.highFreq => /\ RetentionOk
                           /\ bk.flag = "BK_FLAG_INUSE_2"
                           /\ bk.area = [kind |-> "user", v |-> kept.user]

\* A retention memory that is switched off in deep sleep is not relied upon.
PowerInv ==
    pc = "asleep" => /\ ~bkOn => ~RetentionOk
                     /\ cfg.highFreq => RetentionOk

\* The next TAU or eDRX time is set and has not been consumed.
Armed(soft) == soft.nextPs \notin {0, Inf}

\* The context the network holds for this device.
Current(area) == area = [kind |-> "nv", v |-> ctx] /\ ctx # NoCtx

\* Where the DSP's context is while the DSP is not loaded, the retention memory being m.
InPlace(m) == IF cfg.highFreq THEN vol # None /\ Current(vol.area) ELSE Current(m.area)

CampInv ==
    /\ pc = "offtime" => cause = "POWER_ON"
    /\ pc = "run" /\ Armed(bk.soft) => ~dsp /\ InPlace(bk)
    /\ pc \in {"sleep_net", "sleep_vol"} /\ Armed(bk.soft) =>
          /\ ~fast
          /\ IF dsp THEN Current(bk.area) ELSE InPlace(bk)
    /\ pc = "asleep" \/ (pc \in {"boot", "restore"} /\ cause = "WAKEUP") =>
          /\ cfg.highFreq => RetentionOk
          /\ ~NothingToRestore /\ Armed(Loaded.soft) => InPlace(Loaded)

IInv == TypeOK /\ KeptInv /\ PowerInv /\ CampInv

-----------------------------------------------------------------------------
\* Fields of the retention memory are written one at a time, each with a value of its type.
LEMMA Written ==
  ASSUME NEW m \in Retention
  PROVE  /\ \A a \in Area : [m EXCEPT !.area = a] \in Retention
         /\ \A s \in Soft : [m EXCEPT !.soft = s] \in Retention
         /\ \A a \in Area, s \in Soft : [m EXCEPT !.area = a, !.soft = s] \in Retention
  BY DEF Retention

\* The same for the M3's record.
LEMMA SoftWritten ==
  ASSUME NEW s \in Soft
  PROVE  /\ \A t \in Times : [s EXCEPT !.nextPs = t] \in Soft
         /\ \A t, u \in Times : [s EXCEPT !.snap = t, !.nextPs = u] \in Soft
         /\ \A d \in Bits : [s EXCEPT !.dm = d] \in Soft
         /\ \A b \in BOOLEAN : [s EXCEPT !.clk = b] \in Soft /\ [s EXCEPT !.msec = b] \in Soft
         /\ \A t, u \in Times, b \in BOOLEAN : [s EXCEPT !.nextPs = t, !.snap = u, !.msec = b] \in Soft
  BY DEF Soft

\* The two memories nv_restore can start from, and their parts.
LEMMA Blanks ==
  /\ ZeroArea \in Area
  /\ ZeroSoft \in Soft
  /\ ZeroRetention \in Retention
  /\ JunkRetention \in Retention
  <1>1. ZeroArea \in Area /\ [kind |-> "junk", v |-> NoCtx] \in Area
    BY DEF ZeroArea, Area
  <1>2. 0 \in Times
    BY MaxTimeAssumption DEF Times, Inf
  <1>3. ZeroSoft \in Soft
    BY <1>2 DEF ZeroSoft, Soft, Bits
  <1> QED
    BY <1>1, <1>3 DEF ZeroRetention, JunkRetention, Retention, Flags

\* Zero is a time, and so is the present.
LEMMA TimesOK ==
  ASSUME TypeOK
  PROVE  0 \in Times /\ Inf \in Times /\ now \in Times /\ now + 1 \in Times
  BY MaxTimeAssumption DEF TypeOK, Times, Inf

\* ConsumeNextPs clears the next time and nothing else.
LEMMA Consumed ==
  ASSUME NEW m \in Retention
  PROVE  /\ ConsumeNextPs(m) \in Retention
         /\ ConsumeNextPs(m).area = m.area
         /\ ConsumeNextPs(m).soft.nextPs = 0
         /\ ConsumeNextPs(m).soft.dm = m.soft.dm
         /\ ConsumeNextPs(m).soft.clk = m.soft.clk
  <1>1. 0 \in Times
    BY MaxTimeAssumption DEF Times, Inf
  <1>2. m.soft \in Soft
    BY DEF Retention
  <1>3. ConsumeNextPs(m) = [m EXCEPT !.soft = [m.soft EXCEPT !.nextPs = 0]]
    BY DEF ConsumeNextPs, Retention
  <1>4. [m.soft EXCEPT !.nextPs = 0] \in Soft
    BY <1>1, <1>2, SoftWritten
  <1>5. ConsumeNextPs(m) \in Retention
    BY <1>3, <1>4, Written
  <1> QED
    BY <1>2, <1>3, <1>5 DEF Retention, Soft

\* What nv_restore has read is a retention memory.
LEMMA LoadedOK ==
  ASSUME TypeOK
  PROVE  /\ Loaded \in Retention
         /\ RetentionOk => Loaded = bk
         /\ ~RetentionOk /\ vol # None => Loaded.soft = vol.soft /\ Loaded.area = vol.area
         /\ ~RetentionOk /\ vol = None => Loaded = ZeroRetention
  <1>1. CASE RetentionOk
    BY <1>1 DEF TypeOK, Loaded
  <1>2. CASE ~RetentionOk /\ vol = None
    BY <1>2, Blanks DEF Loaded
  <1>3. CASE ~RetentionOk /\ vol # None
    <2>1. vol.area \in Area /\ vol.soft \in Soft /\ bk \in Retention
      BY <1>3 DEF TypeOK, Image
    <2>2. Loaded = [bk EXCEPT !.area = vol.area, !.soft = vol.soft]
      BY <1>3 DEF Loaded
    <2>3. Loaded \in Retention
      BY <2>1, <2>2, Written
    <2> QED
      BY <1>3, <2>1, <2>2, <2>3 DEF Retention
  <1> QED
    BY <1>1, <1>2, <1>3

\* A reset keeps the record's dm_cfg and clock or nothing, and never a next time.
LEMMA AfterResetOK ==
  ASSUME NEW m \in Retention
  PROVE  /\ AfterReset(m) \in Retention
         /\ AfterReset(m).soft.nextPs = 0
         /\ KeepsClock(m) => AfterReset(m).soft.dm = m.soft.dm /\ AfterReset(m).soft.clk = m.soft.clk
  <1>1. CASE KeepsClock(m)
    <2> DEFINE s == [m.soft EXCEPT !.nextPs = 0, !.snap = 0, !.msec = FALSE]
    <2>1. 0 \in Times /\ m.soft \in Soft
      BY MaxTimeAssumption DEF Times, Inf, Retention
    <2>2. s \in Soft
      BY <2>1, SoftWritten, FALSE \in BOOLEAN
    <2>3. s.nextPs = 0 /\ s.dm = m.soft.dm /\ s.clk = m.soft.clk
      BY <2>1 DEF Soft
    <2>4. AfterReset(m) = [m EXCEPT !.area = ZeroArea, !.soft = s]
      BY <1>1 DEF AfterReset, Retention
    <2> HIDE DEF s
    <2>5. AfterReset(m) \in Retention
      <3>1. [m EXCEPT !.area = ZeroArea, !.soft = s] \in Retention
        BY <2>2, Blanks DEF Retention
      <3> QED
        BY <2>4, <3>1
    <2>6. AfterReset(m).soft = s
      BY <2>4 DEF Retention
    <2> QED
      BY <2>3, <2>5, <2>6
  <1>2. CASE ~KeepsClock(m)
    BY <1>2, Blanks DEF AfterReset, ZeroRetention, ZeroSoft
  <1> QED
    BY <1>1, <1>2

\* What the DSP is started with, or not: the memory found, or one without a next time.
LEMMA RecoveredOK ==
  ASSUME TypeOK
  PROVE  /\ WithDm(Recovered) \in Retention
         /\ \/ WithDm(Recovered).soft.nextPs = 0
            \/ /\ ~NothingToRestore
               /\ cause = "WAKEUP" \/ NeedOfftime(Loaded)
               /\ WithDm(Recovered).soft.nextPs = Loaded.soft.nextPs
               /\ WithDm(Recovered).area = Loaded.area
         /\ ~NothingToRestore /\ cause = "WAKEUP" => WithDm(Recovered) = Loaded
         /\ ~NothingToRestore /\ cause = "RB_BY_NRB" /\ Loaded.soft.msec =>
               /\ WithDm(Recovered).soft.dm = Loaded.soft.dm
               /\ WithDm(Recovered).soft.clk = Loaded.soft.clk
  <1> DEFINE r == Recovered
  <1>1. Loaded \in Retention /\ Loaded.soft.dm \in Bits
    BY LoadedOK DEF Retention, Soft
  <1>2. r \in Retention
    BY <1>1, AfterResetOK, Blanks DEF Recovered
  <1>3. \/ r.soft.nextPs = 0
        \/ ~NothingToRestore /\ (cause = "WAKEUP" \/ NeedOfftime(Loaded)) /\ r = Loaded
    BY <1>1, AfterResetOK DEF Recovered, ZeroRetention, ZeroSoft, Causes, TypeOK
  <1>4. WithDm(r) = r \/ (cause = "POWER_ON" /\ WithDm(r) = [r EXCEPT !.soft = [r.soft EXCEPT !.dm = Loaded.soft.dm]])
    BY <1>2 DEF WithDm, Retention
  <1>5. WithDm(r) \in Retention /\ WithDm(r).soft.nextPs = r.soft.nextPs /\ WithDm(r).area = r.area
    <2> HIDE DEF r
    <2>1. r.soft \in Soft
      BY <1>2 DEF Retention
    <2>2. [r.soft EXCEPT !.dm = Loaded.soft.dm] \in Soft
      BY <1>1, <2>1, SoftWritten
    <2>3. [r EXCEPT !.soft = [r.soft EXCEPT !.dm = Loaded.soft.dm]] \in Retention
      BY <1>2, <2>2, Written
    <2> QED
      BY <1>2, <1>4, <2>1, <2>3 DEF Retention, Soft
  <1>6. ~NothingToRestore /\ cause = "WAKEUP" => r = Loaded /\ WithDm(r) = r
    BY DEF Recovered, WithDm, Resets
  <1>7. ~NothingToRestore /\ cause = "RB_BY_NRB" => r = AfterReset(Loaded) /\ WithDm(r) = r
    BY DEF Recovered, WithDm, Resets
  <1>8. cause = "RB_BY_NRB" /\ Loaded.soft.msec => KeepsClock(Loaded)
    BY DEF KeepsClock
  <1> QED
    BY <1>1, <1>3, <1>5, <1>6, <1>7, <1>8, AfterResetOK

\* Starting the DSP leaves it with a context of the network or with its own, and with no next time.
LEMMA StartDspOK ==
  ASSUME TypeOK, NEW m \in Retention, StartDsp(m)
  PROVE  /\ bk' \in Retention
         /\ bk'.area = m.area
         /\ bk'.soft.nextPs = 0 /\ bk'.soft.dm = m.soft.dm /\ bk'.soft.clk = m.soft.clk
         /\ ctx' \in Ctxs \cup {NoCtx}
         /\ dsp' = TRUE
         /\ sync' \in {"PS_DO_ATTACH", "PS_CAMP_ON"}
         /\ sync' = "PS_CAMP_ON" => CampsOn(m.soft) /\ ctx' = ctx
  <1>1. bk' = ConsumeNextPs(m)
    BY DEF StartDsp
  <1>2. bk' \in Retention /\ bk'.area = m.area /\ bk'.soft.nextPs = 0 /\ bk'.soft.dm = m.soft.dm /\ bk'.soft.clk = m.soft.clk
    BY <1>1, Consumed
  <1>3. dsp' = TRUE
    BY DEF StartDsp
  <1>4. \/ CampsOn(m.soft) /\ sync' = "PS_CAMP_ON" /\ ctx' = ctx
        \/ sync' = "PS_DO_ATTACH" /\ ctx' \in FreshCtxs(m)
    BY DEF StartDsp
  <1>5. ctx' \in Ctxs \cup {NoCtx}
    BY <1>4 DEF FreshCtxs, TypeOK
  <1> QED
    BY <1>2, <1>3, <1>4, <1>5

-----------------------------------------------------------------------------
\* The flags stay Boolean.
LEMMA FlagsStep ==
  ASSUME FlagsOK, [Next]_vars
  PROVE  FlagsOK'
  <1> USE DEF Next, vars, BootErase, Restore, NoDspYet, StartDsp, OffTime, DynamicLoad, ShutDownDsp, NewContext,
          SetClock, SetDm, SetUser, Tick, FastPowerOff, EnterDeepSleep, SleepSaveNet, SleepSaveVolatile,
          SaveVolatileNv, Wake, Reboot, RebootSaveVolatile, RebootReset, Reset, PowerLoss, StartBoot
  <1>1. dsp' \in {dsp, FALSE, TRUE}
    OBVIOUS
  <1>2. fast' \in {fast, FALSE, TRUE}
    OBVIOUS
  <1>3. bkOn' \in {bkOn, FALSE, TRUE}
    <2>1. CASE SleepSaveVolatile \/ RebootSaveVolatile
      BY <2>1, Zenon DEF FlagsOK
    <2>2. CASE ~(SleepSaveVolatile \/ RebootSaveVolatile)
      BY <2>2
    <2> QED
      BY <2>1, <2>2
  <1> QED
    BY <1>1, <1>2, <1>3, Zenon DEF FlagsOK

\* save_volatile_nv leaves a retention memory and an image.
LEMMA SaveOK ==
  ASSUME TypeOK, NEW m \in Retention, NEW r \in BOOLEAN, SaveVolatileNv(m, r)
  PROVE  bk' \in Retention /\ vol' \in Image \cup {None}
  <1>1. m.soft \in Soft /\ m.area \in Area
    BY DEF Retention
  <1>2. [area |-> m.area, soft |-> m.soft] \in Image
    BY <1>1 DEF Image
  <1>3. [kind |-> "user", v |-> user] \in Area
    BY DEF TypeOK, Area
  <1>4. vol' \in {vol, [area |-> m.area, soft |-> m.soft]}
    BY DEF SaveVolatileNv
  <1>5. \/ bk' = [m EXCEPT !.area = [kind |-> "user", v |-> user], !.sum = m.soft, !.flag = "BK_FLAG_INUSE_2"]
        \/ bk' = [m EXCEPT !.sum = None, !.flag = "BK_FLAG_INVALID"]
        \/ bk' = [m EXCEPT !.sum = m.soft, !.flag = "BK_FLAG_INUSE"]
    BY DEF SaveVolatileNv
  <1>6. bk' \in Retention
    <2>1. [m EXCEPT !.area = [kind |-> "user", v |-> user], !.sum = m.soft, !.flag = "BK_FLAG_INUSE_2"] \in Retention
      BY <1>1, <1>3 DEF Retention, Flags
    <2>2. [m EXCEPT !.sum = None, !.flag = "BK_FLAG_INVALID"] \in Retention
      BY DEF Retention, Flags
    <2>3. [m EXCEPT !.sum = m.soft, !.flag = "BK_FLAG_INUSE"] \in Retention
      BY <1>1 DEF Retention, Flags
    <2> QED
      BY <1>5, <2>1, <2>2, <2>3
  <1> QED
    BY <1>2, <1>4, <1>6 DEF TypeOK

\* What the memory is when the DSP is loaded at run time.
DynamicMemory ==
    IF cfg.highFreq THEN [bk EXCEPT !.area = IF vol = None THEN ZeroArea ELSE vol.area] ELSE bk

\* dynamic_load_up_dsp starts the DSP from a retention memory.
LEMMA DynamicMemoryOK ==
  ASSUME TypeOK
  PROVE  DynamicMemory \in Retention /\ DynamicMemory.soft = bk.soft
  <1>1. (IF vol = None THEN ZeroArea ELSE vol.area) \in Area
    BY Blanks DEF TypeOK, Image
  <1>2. bk \in Retention
    BY DEF TypeOK
  <1>3. [bk EXCEPT !.area = IF vol = None THEN ZeroArea ELSE vol.area] \in Retention
    BY <1>1, <1>2, Written
  <1> QED
    BY <1>2, <1>3 DEF DynamicMemory, Retention

\* Every step keeps the retention memory, the flash image and the user's data in their types.
LEMMA TypeStep ==
  ASSUME TypeOK, [Next]_vars
  PROVE  TypeOK'
  <1> USE DEF TypeOK
  <1>0. FlagsOK'
    BY FlagsStep
  <1>1. bk \in Retention /\ bk.soft \in Soft /\ bk.area \in Area /\ 0 \in Times
    BY TimesOK DEF Retention
  <1>2. CASE UNCHANGED vars
    BY <1>2 DEF vars, FlagsOK
  <1>3. CASE BootErase
    BY <1>0, <1>3, Blanks DEF BootErase, PCs
  <1>4. CASE Restore
    <2>1. WithDm(Recovered) \in Retention
      BY RecoveredOK
    <2>2. bk' \in Retention /\ ctx' \in Ctxs \cup {NoCtx} /\ sync' \in {"none", "PS_DO_ATTACH", "PS_CAMP_ON"}
      <3>1. CASE NoDspYet(WithDm(Recovered))
        BY <2>1, <3>1 DEF NoDspYet
      <3>2. CASE StartDsp(WithDm(Recovered))
        BY <2>1, <3>2, StartDspOK
      <3> QED
        BY <1>4, <3>1, <3>2 DEF Restore
    <2>3. user' \in Bits \cup {None}
      <3>1. bk.area.kind = "user" => bk.area.v \in Bits \cup {None}
        BY <1>1 DEF Area
      <3> QED
        BY <1>4, <3>1 DEF Restore, RestoredUser, Bits
    <2> QED
      BY <1>0, <1>4, <2>2, <2>3 DEF Restore, PCs
  <1>5. CASE OffTime
    <2>1. bk' \in Retention /\ ctx' \in Ctxs \cup {NoCtx} /\ sync' \in {"PS_DO_ATTACH", "PS_CAMP_ON"}
      BY <1>1, <1>5, StartDspOK DEF OffTime
    <2> QED
      BY <1>0, <1>5, <2>1 DEF OffTime, PCs
  <1>6. CASE DynamicLoad
    <2>1. StartDsp(DynamicMemory)
      BY <1>6 DEF DynamicLoad, DynamicMemory
    <2>2. bk' \in Retention /\ ctx' \in Ctxs \cup {NoCtx} /\ sync' \in {"PS_DO_ATTACH", "PS_CAMP_ON"}
      BY <2>1, DynamicMemoryOK, StartDspOK
    <2> QED
      BY <1>0, <1>6, <2>2 DEF DynamicLoad
  <1>7. CASE ShutDownDsp \/ NewContext \/ FastPowerOff
    BY <1>0, <1>7 DEF ShutDownDsp, NewContext, FastPowerOff, FreshCtxs
  <1>8. CASE SetClock
    <2>1. [bk.soft EXCEPT !.clk = TRUE] \in Soft
      BY <1>1, SoftWritten, TRUE \in BOOLEAN
    <2>2. bk' = [bk EXCEPT !.soft = [bk.soft EXCEPT !.clk = TRUE]]
      BY <1>1, <1>8 DEF SetClock, Retention
    <2>3. bk' \in Retention
      BY <1>1, <2>1, <2>2, Written
    <2> QED
      BY <1>0, <1>8, <2>3 DEF SetClock
  <1>9. CASE SetDm
    <2>1. 1 - bk.soft.dm \in Bits
      BY <1>1 DEF Soft, Bits
    <2>2. [bk.soft EXCEPT !.dm = 1 - bk.soft.dm] \in Soft
      BY <1>1, <2>1, SoftWritten
    <2>3. bk' = [bk EXCEPT !.soft = [bk.soft EXCEPT !.dm = 1 - bk.soft.dm]]
      BY <1>1, <1>9 DEF SetDm, Retention
    <2>4. bk' \in Retention
      BY <1>1, <2>2, <2>3, Written
    <2>5. bk'.soft \in Soft
      BY <2>4 DEF Retention
    <2>6. (IF vol = None THEN ZeroArea ELSE vol.area) \in Area
      BY Blanks DEF Image
    <2>7. vol' \in Image \cup {None}
      BY <1>9, <2>5, <2>6 DEF SetDm, Image
    <2> QED
      BY <1>0, <1>9, <2>4, <2>7 DEF SetDm
  <1>10. CASE SetUser \/ Tick
    BY <1>0, <1>10, MaxTimeAssumption DEF SetUser, Tick, Bits
  <1>11. CASE EnterDeepSleep
    <2>1. PICK t \in NextTimes :
              bk' = [bk EXCEPT !.area = IF dsp THEN [kind |-> "nv", v |-> ctx] ELSE @, !.soft.snap = now, !.soft.nextPs = t]
      BY <1>11 DEF EnterDeepSleep
    <2>2. NextTimes \subseteq Times
      <3>1. bk.soft.nextPs \in Times
        BY <1>1 DEF Soft
      <3>2. (now + 1 .. MaxTime + 1) \subseteq Times /\ {0, Inf} \subseteq Times
        BY MaxTimeAssumption DEF Times, Inf
      <3> QED
        BY <3>1, <3>2 DEF NextTimes
    <2>3. now \in Times
      BY TimesOK
    <2> DEFINE s == [bk.soft EXCEPT !.snap = now, !.nextPs = t]
               a == IF dsp THEN [kind |-> "nv", v |-> ctx] ELSE bk.area
    <2>4. s \in Soft
      BY <1>1, <2>2, <2>3, SoftWritten
    <2>5. a \in Area
      BY <1>1 DEF Area
    <2>6. bk' = [bk EXCEPT !.area = a, !.soft = s]
      BY <1>1, <2>1 DEF Retention
    <2>7. bk' \in Retention
      <3> HIDE DEF a, s
      <3>1. [bk EXCEPT !.area = a, !.soft = s] \in Retention
        BY <1>1, <2>4, <2>5, Written
      <3> QED
        BY <2>6, <3>1
    <2> QED
      BY <1>0, <1>11, <2>7 DEF EnterDeepSleep, PCs
  <1>12. CASE SleepSaveNet
    <2>1. bk' \in Retention
      BY <1>1, <1>12, Written, Blanks DEF SleepSaveNet
    <2> QED
      BY <1>0, <1>12, <2>1 DEF SleepSaveNet, PCs
  <1>13. CASE SleepSaveVolatile
    <2>1. bk' \in Retention /\ vol' \in Image \cup {None}
      BY <1>1, <1>13, SaveOK, FALSE \in BOOLEAN DEF SleepSaveVolatile
    <2>2. kept' \in Kept
      BY <1>1, <1>13 DEF SleepSaveVolatile, Kept, Soft
    <2> QED
      BY <1>0, <1>13, <2>1, <2>2 DEF SleepSaveVolatile, PCs
  <1>14. CASE Reboot
    <2>1. bk' = [bk EXCEPT !.soft = [bk.soft EXCEPT !.nextPs = 0]]
      BY <1>1, <1>14 DEF Reboot, Retention
    <2>2. bk' \in Retention
      BY <1>1, <2>1, SoftWritten, Written
    <2> QED
      BY <1>0, <1>14, <2>2 DEF Reboot, PCs
  <1>15. CASE RebootSaveVolatile
    <2> DEFINE b == bk.soft.msec \/ bk.soft.clk
               m == [bk EXCEPT !.soft.msec = b]
    <2>1. b \in BOOLEAN
      BY Zenon
    <2>2. m = [bk EXCEPT !.soft = [bk.soft EXCEPT !.msec = b]]
      BY <1>1 DEF Retention
    <2>3. m \in Retention
      <3> HIDE DEF b
      <3> QED
        BY <1>1, <2>1, <2>2, SoftWritten, Written
    <2>4. SaveVolatileNv(m, TRUE)
      BY <1>15 DEF RebootSaveVolatile
    <2>5. bk' \in Retention /\ vol' \in Image \cup {None}
      <3> HIDE DEF m
      <3> QED
        BY <2>3, <2>4, SaveOK, TRUE \in BOOLEAN
    <2>6. kept' \in Kept \cup {None}
      BY <1>1, <1>15 DEF RebootSaveVolatile, Kept, Soft
    <2> QED
      BY <1>0, <1>15, <2>5, <2>6 DEF RebootSaveVolatile, PCs
  <1>16. CASE Wake \/ RebootReset \/ Reset \/ PowerLoss
    <2>1. PICK c \in Causes : StartBoot(c)
      BY <1>16 DEF Wake, RebootReset, Reset, PowerLoss, Causes, Resets
    <2>2. pc' \in PCs /\ cause' \in Causes /\ user' \in Bits /\ sync' = "none"
      BY <2>1 DEF StartBoot, PCs, Bits
    <2>3. bk' \in {bk, JunkRetention} /\ vol' \in {vol, None} /\ now' \in {now, 1} /\ kept' \in {kept, None} /\ UNCHANGED <<cfg, ctx>>
      BY <1>16 DEF Wake, RebootReset, Reset, PowerLoss
    <2> QED
      BY <1>0, <2>2, <2>3, Blanks, MaxTimeAssumption
  <1> QED
    BY <1>2, <1>3, <1>4, <1>5, <1>6, <1>7, <1>8, <1>9, <1>10, <1>11, <1>12, <1>13, <1>14, <1>15, <1>16 DEF Next

-----------------------------------------------------------------------------
\* What a boot would restore depends on the settings and the two memories only.
LEMMA SameMemory ==
  ASSUME UNCHANGED <<cfg, bk, vol>>
  PROVE  /\ RetentionOk' <=> RetentionOk
         /\ NothingToRestore' <=> NothingToRestore
         /\ Loaded' = Loaded
  <1>1. RetentionOk' <=> RetentionOk
    BY DEF RetentionOk
  <1>2. NothingToRestore' <=> NothingToRestore
    BY <1>1 DEF NothingToRestore, MayUseFlash
  <1>3. Loaded' = Loaded
    BY <1>1 DEF Loaded
  <1> QED
    BY <1>1, <1>2, <1>3

\* A retention memory that was not relied upon may lose its contents.
LEMMA JunkMemory ==
  ASSUME TypeOK, ~RetentionOk, bk' = JunkRetention, UNCHANGED <<cfg, vol>>
  PROVE  /\ ~RetentionOk'
         /\ NothingToRestore' <=> NothingToRestore
         /\ Loaded'.soft = Loaded.soft
         /\ Loaded'.area = Loaded.area
  <1>1. ~RetentionOk'
    BY DEF RetentionOk, JunkRetention
  <1>2. NothingToRestore' <=> NothingToRestore
    BY <1>1 DEF NothingToRestore, MayUseFlash
  <1>3. CASE vol = None
    <2>1. Loaded' = ZeroRetention /\ Loaded = ZeroRetention
      BY <1>1, <1>3 DEF Loaded
    <2> QED
      BY <1>1, <1>2, <2>1
  <1>4. CASE vol # None
    <2>1. Loaded' = [JunkRetention EXCEPT !.area = vol.area, !.soft = vol.soft]
      BY <1>1, <1>4 DEF Loaded
    <2>2. Loaded'.soft = vol.soft /\ Loaded'.area = vol.area
      BY <2>1 DEF JunkRetention
    <2>3. Loaded.soft = vol.soft /\ Loaded.area = vol.area
      BY <1>4, LoadedOK
    <2> QED
      BY <1>1, <1>2, <2>2, <2>3
  <1> QED
    BY <1>3, <1>4

\* save_volatile_nv, whichever of its three ways it takes, leaves what nv_restore will find: the
\* record as it is, the context in the place the settings say, and no memory relied upon that
\* deep sleep switches off.
LEMMA Saved ==
  ASSUME TypeOK, NEW m \in Retention, NEW r \in BOOLEAN, SaveVolatileNv(m, r), cfg' = cfg
  PROVE  /\ ~NothingToRestore'
         /\ Loaded'.soft = m.soft
         /\ cfg.highFreq => /\ RetentionOk'
                            /\ bk'.flag = "BK_FLAG_INUSE_2"
                            /\ bk'.area = [kind |-> "user", v |-> user]
                            /\ vol' = IF dsp THEN [area |-> m.area, soft |-> m.soft] ELSE vol
         /\ ~cfg.highFreq => Loaded'.area = m.area
         /\ ~r /\ ~bkOn' => ~RetentionOk'
  <1>0. m.soft \in Soft /\ cfg \in Configs
    BY DEF Retention, TypeOK
  <1>1. CASE cfg.highFreq
    <2>1. cfg.keep
      BY <1>0, <1>1, ConfigsAssumption
    <2>2. bk' = [m EXCEPT !.area = [kind |-> "user", v |-> user], !.sum = m.soft, !.flag = "BK_FLAG_INUSE_2"]
      BY <1>1 DEF SaveVolatileNv
    <2>3. bk'.soft = m.soft /\ bk'.sum = m.soft /\ bk'.flag = "BK_FLAG_INUSE_2" /\ bk'.area = [kind |-> "user", v |-> user]
      BY <2>2 DEF Retention
    <2>4. vol' = IF dsp THEN [area |-> m.area, soft |-> m.soft] ELSE vol
      BY <1>1 DEF SaveVolatileNv
    <2>5. RetentionOk'
      BY <2>1, <2>3 DEF RetentionOk
    <2>6. Loaded' = bk' /\ ~NothingToRestore'
      BY <2>5 DEF Loaded, NothingToRestore
    <2>7. ~r => bkOn'
      BY <1>1 DEF SaveVolatileNv
    <2> QED
      BY <1>1, <2>3, <2>4, <2>5, <2>6, <2>7
  <1>2. CASE ~cfg.highFreq /\ WriteBack(m.soft)
    <2>1. bk' = [m EXCEPT !.sum = None, !.flag = "BK_FLAG_INVALID"]
      BY <1>2 DEF SaveVolatileNv
    <2>2. bk'.flag = "BK_FLAG_INVALID" /\ bk' \in Retention
      BY <2>1 DEF Retention, Flags
    <2>3. ~RetentionOk'
      BY <2>2 DEF RetentionOk
    <2>4. vol' = [area |-> m.area, soft |-> m.soft]
      BY <1>2 DEF SaveVolatileNv
    <2>5. vol' \in Image
      BY <2>4 DEF Image, Retention
    <2>6. vol' # None
      BY <2>5, NoneAssumption
    <2>7. ~NothingToRestore'
      <3>1. ~cfg.keep \/ cfg.thr # 0
        BY <1>2 DEF WriteBack
      <3> QED
        BY <2>6, <3>1 DEF NothingToRestore, MayUseFlash
    <2>8. Loaded' = [bk' EXCEPT !.area = m.area, !.soft = m.soft]
      BY <2>3, <2>4, <2>6 DEF Loaded
    <2>9. Loaded'.area = m.area /\ Loaded'.soft = m.soft
      BY <2>2, <2>8 DEF Retention
    <2> QED
      BY <1>2, <2>3, <2>7, <2>9
  <1>3. CASE ~cfg.highFreq /\ ~WriteBack(m.soft)
    <2>1. cfg.keep
      BY <1>3 DEF WriteBack
    <2>2. bk' = [m EXCEPT !.sum = m.soft, !.flag = "BK_FLAG_INUSE"]
      BY <1>3 DEF SaveVolatileNv
    <2>3. bk'.soft = m.soft /\ bk'.sum = m.soft /\ bk'.flag = "BK_FLAG_INUSE" /\ bk'.area = m.area
      BY <2>2 DEF Retention
    <2>4. RetentionOk'
      BY <2>1, <2>3 DEF RetentionOk
    <2>5. Loaded' = bk' /\ ~NothingToRestore'
      BY <2>4 DEF Loaded, NothingToRestore
    <2>6. ~r => bkOn'
      BY <1>3 DEF SaveVolatileNv
    <2> QED
      BY <1>3, <2>3, <2>5, <2>6
  <1> QED
    BY <1>1, <1>2, <1>3

\* The steps of the running device that keep the two memories of a finished save out of sight:
\* there is none to be kept while they run.
Running ==
    \/ OffTime \/ DynamicLoad \/ ShutDownDsp \/ NewContext \/ SetClock \/ SetDm \/ SetUser
    \/ FastPowerOff \/ EnterDeepSleep \/ SleepSaveNet \/ Reboot

\* What kept remembers can be restored as long as it is remembered.
LEMMA KeptStep ==
  ASSUME TypeOK, KeptInv, PowerInv, [Next]_vars
  PROVE  KeptInv'
  <1>1. CASE kept' = None
    BY <1>1 DEF KeptInv
  <1>2. CASE Running
    <2>1. kept' = kept /\ pc \notin {"asleep", "reset", "boot", "restore"}
      BY <1>2 DEF Running, OffTime, DynamicLoad, ShutDownDsp, NewContext, SetClock, SetDm, SetUser,
                  FastPowerOff, EnterDeepSleep, SleepSaveNet, Reboot
    <2> QED
      BY <1>1, <2>1 DEF KeptInv
  <1>3. CASE Restore \/ Reset \/ PowerLoss
    BY <1>1, <1>3 DEF Restore, Reset, PowerLoss
  <1>4. CASE UNCHANGED vars \/ Tick
    <2>1. UNCHANGED <<cfg, pc, cause, bk, vol, kept>>
      BY <1>4 DEF vars, Tick
    <2> QED
      BY <2>1, SameMemory DEF KeptInv
  <1>5. CASE BootErase
    <2> SUFFICES ASSUME kept' # None PROVE KeptInv'
      BY <1>1
    <2>1. kept' = kept /\ pc = "boot" /\ pc' = "restore" /\ UNCHANGED <<cfg, cause>>
      BY <1>5 DEF BootErase
    <2>2. cause \in {"WAKEUP", "RB_BY_NRB"}
      BY <2>1 DEF KeptInv
    <2>3. UNCHANGED <<bk, vol>>
      BY <1>5, <2>2 DEF BootErase, Abnormal
    <2> QED
      BY <2>1, <2>2, <2>3, SameMemory DEF KeptInv
  <1>6. CASE SleepSaveVolatile
    <2>1. bk \in Retention /\ bk.soft \in Soft
      BY DEF TypeOK, Retention
    <2>2. SaveVolatileNv(bk, FALSE) /\ cfg' = cfg /\ pc' = "asleep"
      BY <1>6 DEF SleepSaveVolatile
    <2>3. kept' = [dm |-> bk.soft.dm, clk |-> bk.soft.clk, user |-> user]
      BY <1>6 DEF SleepSaveVolatile
    <2>4. kept'.dm = bk.soft.dm /\ kept'.clk = bk.soft.clk /\ kept'.user = user
      BY <2>3
    <2>5. /\ ~NothingToRestore'
          /\ Loaded'.soft = bk.soft
          /\ cfg.highFreq => RetentionOk' /\ bk'.flag = "BK_FLAG_INUSE_2" /\ bk'.area = [kind |-> "user", v |-> user]
      BY <2>1, <2>2, Saved, FALSE \in BOOLEAN
    <2> QED
      BY <2>2, <2>4, <2>5 DEF KeptInv
  <1>7. CASE RebootSaveVolatile
    <2> SUFFICES ASSUME bk.soft.clk PROVE KeptInv'
      BY <1>1, <1>7 DEF RebootSaveVolatile
    <2> DEFINE b == bk.soft.msec \/ bk.soft.clk
               m == [bk EXCEPT !.soft.msec = b]
    <2>1. b = TRUE
      OBVIOUS
    <2>2. bk \in Retention /\ bk.soft \in Soft
      BY DEF TypeOK, Retention
    <2>3. m = [bk EXCEPT !.soft = [bk.soft EXCEPT !.msec = b]]
      BY <2>2 DEF Retention
    <2>4. SaveVolatileNv(m, TRUE) /\ cfg' = cfg /\ pc' = "reset"
      BY <1>7 DEF RebootSaveVolatile
    <2> HIDE DEF b
    <2>5. m \in Retention
      BY <2>1, <2>2, <2>3, SoftWritten, Written, TRUE \in BOOLEAN
    <2>6. m.soft = [bk.soft EXCEPT !.msec = TRUE]
      BY <2>1, <2>2, <2>3 DEF Retention
    <2>7. m.soft.dm = bk.soft.dm /\ m.soft.clk = bk.soft.clk /\ m.soft.msec
      BY <2>2, <2>6 DEF Soft
    <2> HIDE DEF m
    <2>8. /\ ~NothingToRestore'
          /\ Loaded'.soft = m.soft
          /\ cfg.highFreq => RetentionOk' /\ bk'.flag = "BK_FLAG_INUSE_2" /\ bk'.area = [kind |-> "user", v |-> user]
      BY <2>4, <2>5, Saved, TRUE \in BOOLEAN
    <2>9. kept' = [dm |-> bk.soft.dm, clk |-> TRUE, user |-> user]
      BY <1>7 DEF RebootSaveVolatile
    <2>10. kept'.dm = bk.soft.dm /\ kept'.clk = TRUE /\ kept'.user = user
      BY <2>9
    <2>11. bk.soft.clk = TRUE
      BY <2>2 DEF Soft
    <2> QED
      BY <2>4, <2>7, <2>8, <2>10, <2>11 DEF KeptInv
  <1>8. CASE RebootReset
    <2>1. pc = "reset" /\ pc' = "boot" /\ cause' = "RB_BY_NRB" /\ UNCHANGED <<cfg, bk, vol, kept>>
      BY <1>8 DEF RebootReset, StartBoot
    <2> QED
      BY <2>1, SameMemory DEF KeptInv
  <1>9. CASE Wake
    <2> SUFFICES ASSUME kept' # None PROVE KeptInv'
      BY <1>1
    <2>1. pc = "asleep" /\ pc' = "boot" /\ cause' = "WAKEUP" /\ UNCHANGED <<cfg, vol>>
      BY <1>9 DEF Wake, StartBoot
    <2>2. kept' = kept /\ (bk' = bk \/ (~bkOn /\ bk' = JunkRetention))
      BY <1>9 DEF Wake
    <2>3. CASE bk' = bk
      BY <2>1, <2>2, <2>3, SameMemory DEF KeptInv
    <2>4. CASE ~bkOn /\ bk' = JunkRetention
      <3>1. ~RetentionOk /\ ~cfg.highFreq
        BY <2>1, <2>4 DEF PowerInv
      <3>2. /\ NothingToRestore' <=> NothingToRestore
            /\ Loaded'.soft = Loaded.soft
        BY <2>1, <2>4, <3>1, JunkMemory
      <3> QED
        BY <2>1, <2>2, <3>1, <3>2 DEF KeptInv
    <2> QED
      BY <2>2, <2>3, <2>4
  <1> QED
    BY <1>2, <1>3, <1>4, <1>5, <1>6, <1>7, <1>8, <1>9 DEF Next, Running

\* Deep sleep switches a retention memory off only after its contents have gone to flash.
LEMMA PowerStep ==
  ASSUME TypeOK, PowerInv, [Next]_vars
  PROVE  PowerInv'
  <1>1. CASE pc' # "asleep"
    BY <1>1 DEF PowerInv
  <1>2. CASE UNCHANGED vars \/ Tick
    <2>1. UNCHANGED <<cfg, pc, bk, bkOn, vol>>
      BY <1>2 DEF vars, Tick
    <2> QED
      BY <2>1, SameMemory DEF PowerInv
  <1>3. CASE SleepSaveVolatile
    <2>1. bk \in Retention
      BY DEF TypeOK
    <2>2. SaveVolatileNv(bk, FALSE) /\ cfg' = cfg
      BY <1>3 DEF SleepSaveVolatile
    <2>3. (~bkOn' => ~RetentionOk') /\ (cfg.highFreq => RetentionOk')
      BY <2>1, <2>2, Saved, FALSE \in BOOLEAN
    <2> QED
      BY <2>2, <2>3 DEF PowerInv
  <1>4. CASE ~(UNCHANGED vars \/ Tick \/ SleepSaveVolatile)
    <2>1. pc' # "asleep"
      <3>1. CASE DynamicLoad \/ ShutDownDsp \/ NewContext \/ SetClock \/ SetDm \/ SetUser \/ FastPowerOff
        BY <3>1 DEF DynamicLoad, ShutDownDsp, NewContext, SetClock, SetDm, SetUser, FastPowerOff
      <3>2. CASE BootErase \/ Restore \/ OffTime \/ EnterDeepSleep \/ SleepSaveNet \/ Reboot \/ RebootSaveVolatile
        BY <3>2 DEF BootErase, Restore, OffTime, EnterDeepSleep, SleepSaveNet, Reboot, RebootSaveVolatile
      <3>3. CASE Wake \/ RebootReset \/ Reset \/ PowerLoss
        BY <3>3 DEF Wake, RebootReset, Reset, PowerLoss, StartBoot
      <3> QED
        BY <1>4, <3>1, <3>2, <3>3 DEF Next
    <2> QED
      BY <1>1, <2>1
  <1> QED
    BY <1>2, <1>3, <1>4

-----------------------------------------------------------------------------
\* The settings under which the retention memory may fail are those without an older copy.
OneCopy == \A c \in Fragile : c.thr = 0 /\ ~c.highFreq

\* A next time that is set is one of the context the network holds, wherever that context is.
LEMMA CampStep ==
  ASSUME OneCopy, TypeOK, TypeOK', PowerInv, CampInv, [Next]_vars
  PROVE  CampInv'
  <1>1. ASSUME pc' \notin {"offtime", "run", "sleep_net", "sleep_vol", "asleep"},
               pc' \in {"boot", "restore"} => cause' # "WAKEUP"
        PROVE  CampInv'
    BY <1>1 DEF CampInv
  <1>2. ASSUME pc' = "run", bk'.soft.nextPs = 0
        PROVE  CampInv'
    BY <1>2 DEF CampInv, Armed
  <1>3. CASE UNCHANGED vars \/ Tick \/ SetUser
    <2>1. UNCHANGED <<cfg, pc, cause, bk, vol, dsp, fast, ctx>>
      BY <1>3 DEF vars, Tick, SetUser
    <2>2. InPlace(bk)' <=> InPlace(bk)
      BY <2>1 DEF InPlace, Current
    <2>3. Loaded' = Loaded /\ (InPlace(Loaded)' <=> InPlace(Loaded))
      BY <2>1, SameMemory DEF InPlace, Current
    <2>4. Current(bk.area)' <=> Current(bk.area)
      BY <2>1 DEF Current
    <2> QED
      BY <2>1, <2>2, <2>3, <2>4, SameMemory DEF CampInv, Armed
  <1>4. CASE BootErase
    <2>1. pc = "boot" /\ pc' = "restore" /\ UNCHANGED <<cfg, cause, ctx>>
      BY <1>4 DEF BootErase
    <2>2. CASE cause # "WAKEUP"
      BY <1>1, <2>1, <2>2
    <2>3. CASE cause = "WAKEUP"
      <3>1. UNCHANGED <<bk, vol>>
        BY <1>4, <2>3 DEF BootErase, Abnormal
      <3>2. Loaded' = Loaded /\ (InPlace(Loaded)' <=> InPlace(Loaded))
        BY <2>1, <3>1, SameMemory DEF InPlace, Current
      <3> QED
        BY <2>1, <2>3, <3>1, <3>2, SameMemory DEF CampInv, Armed
    <2> QED
      BY <2>2, <2>3
  <1>5. CASE Restore
    <2> DEFINE m == WithDm(Recovered)
    <2>1. pc = "restore" /\ UNCHANGED <<cfg, cause, vol>>
      BY <1>5 DEF Restore
    <2>2. m \in Retention
      BY RecoveredOK
    <2>3. \/ m.soft.nextPs = 0
          \/ /\ ~NothingToRestore
             /\ cause = "WAKEUP" \/ NeedOfftime(Loaded)
             /\ m.soft.nextPs = Loaded.soft.nextPs
             /\ m.area = Loaded.area
      BY RecoveredOK
    <2> HIDE DEF m
    <2>4. CASE StartDsp(m) /\ pc' = "run"
      BY <1>2, <2>2, <2>4, StartDspOK
    <2>5. CASE NoDspYet(m) /\ pc' = "run" /\ cfg.single
      <3>1. CASE m.soft.nextPs = 0
        BY <1>2, <2>5, <3>1 DEF NoDspYet
      <3>2. CASE m.soft.nextPs # 0
        <4>1. bk' = m /\ dsp' = FALSE /\ ctx' = ctx
          BY <2>5 DEF NoDspYet
        <4>2. ~NothingToRestore /\ cause = "WAKEUP"
          BY <2>3, <2>5, <3>2 DEF NeedOfftime
        <4>3. Armed(m.soft) => InPlace(Loaded)
          BY <2>1, <2>3, <3>2, <4>2 DEF CampInv, Armed
        <4>4. Armed(bk.soft)' => InPlace(bk)'
          BY <2>1, <2>3, <3>2, <4>1, <4>3 DEF InPlace, Current, Armed
        <4> QED
          BY <2>5, <4>1, <4>4 DEF CampInv
      <3> QED
        BY <3>1, <3>2
    <2>6. CASE NoDspYet(m) /\ pc' = "offtime" /\ NeedOfftime(Loaded)
      BY <2>1, <2>6 DEF CampInv, NeedOfftime
    <2> QED
      BY <1>5, <2>4, <2>5, <2>6 DEF Restore, m
  <1>6. CASE OffTime
    <2>1. pc' = "run" /\ StartDsp(bk) /\ bk \in Retention
      BY <1>6 DEF OffTime, TypeOK
    <2> QED
      BY <1>2, <2>1, StartDspOK
  <1>7. CASE DynamicLoad
    <2>1. pc' = "run" /\ StartDsp(DynamicMemory)
      BY <1>7 DEF DynamicLoad, DynamicMemory
    <2> QED
      BY <1>2, <2>1, DynamicMemoryOK, StartDspOK
  <1>8. CASE ShutDownDsp \/ NewContext \/ SetClock \/ SetDm
    <2>1. pc' = "run" /\ ~Armed(bk.soft)
      BY <1>8 DEF ShutDownDsp, NewContext, SetClock, SetDm, CampInv
    <2>2. bk.soft.nextPs = bk'.soft.nextPs
      BY <1>8 DEF ShutDownDsp, NewContext, SetClock, SetDm, TypeOK, Retention, Soft
    <2>3. ~Armed(bk.soft)'
      BY <2>1, <2>2 DEF Armed
    <2> QED
      BY <2>1, <2>3 DEF CampInv
  <1>9. CASE FastPowerOff
    <2>1. pc = "run" /\ pc' = "run" /\ UNCHANGED <<cfg, bk, vol, dsp>> /\ (~dsp => ctx' = ctx)
      BY <1>9 DEF FastPowerOff
    <2>2. Armed(bk.soft)' => ~dsp /\ InPlace(bk)'
      BY <2>1 DEF CampInv, Armed, InPlace, Current
    <2> QED
      BY <2>1, <2>2 DEF CampInv
  <1>10. CASE EnterDeepSleep
    <2>1. PICK t \in NextTimes :
              bk' = [bk EXCEPT !.area = IF dsp THEN [kind |-> "nv", v |-> ctx] ELSE @, !.soft.snap = now, !.soft.nextPs = t]
      BY <1>10 DEF EnterDeepSleep
    <2>2. bk'.soft.nextPs = t /\ bk'.area = IF dsp THEN [kind |-> "nv", v |-> ctx] ELSE bk.area
      BY <2>1 DEF TypeOK, Retention, Soft
    <2>3. pc = "run" /\ pc' = "sleep_net" /\ UNCHANGED <<cfg, vol, dsp, fast, ctx>>
      BY <1>10 DEF EnterDeepSleep
    <2> SUFFICES ASSUME Armed(bk.soft)' PROVE ~fast' /\ IF dsp' THEN Current(bk.area)' ELSE InPlace(bk)'
      BY <2>3 DEF CampInv
    <2>4. t # 0
      BY <2>2 DEF Armed
    <2>5. ~fast /\ ~(dsp /\ ctx = NoCtx)
      BY <2>1, <2>4 DEF NextTimes
    <2>6. CASE dsp
      BY <2>2, <2>3, <2>5, <2>6 DEF Current
    <2>7. CASE ~dsp
      <3>1. t = bk.soft.nextPs
        BY <2>1, <2>5, <2>7 DEF NextTimes
      <3>2. Armed(bk.soft)
        BY <2>2, <3>1 DEF Armed
      <3>3. InPlace(bk)
        BY <2>3, <3>2 DEF CampInv
      <3>4. InPlace(bk)'
        BY <2>2, <2>3, <2>7, <3>3 DEF InPlace, Current
      <3> QED
        BY <2>3, <2>5, <2>7, <3>4
    <2> QED
      BY <2>6, <2>7
  <1>11. CASE SleepSaveNet
    <2>1. pc = "sleep_net" /\ pc' = "sleep_vol" /\ UNCHANGED <<cfg, vol, dsp, fast, ctx>>
      BY <1>11 DEF SleepSaveNet
    <2>2. bk'.soft = bk.soft /\ (~fast => bk' = bk)
      BY <1>11 DEF SleepSaveNet, TypeOK, Retention
    <2> SUFFICES ASSUME Armed(bk.soft)' PROVE ~fast' /\ IF dsp' THEN Current(bk.area)' ELSE InPlace(bk)'
      BY <2>1 DEF CampInv
    <2>3. ~fast /\ IF dsp THEN Current(bk.area) ELSE InPlace(bk)
      BY <2>1, <2>2 DEF CampInv, Armed
    <2> QED
      BY <2>1, <2>2, <2>3 DEF Current, InPlace
  <1>12. CASE SleepSaveVolatile
    <2>1. pc = "sleep_vol" /\ pc' = "asleep" /\ SaveVolatileNv(bk, FALSE) /\ UNCHANGED <<cfg, dsp, ctx>>
      BY <1>12 DEF SleepSaveVolatile
    <2>2. bk \in Retention
      BY DEF TypeOK
    <2>3. /\ ~NothingToRestore'
          /\ Loaded'.soft = bk.soft
          /\ cfg.highFreq => RetentionOk' /\ vol' = IF dsp THEN [area |-> bk.area, soft |-> bk.soft] ELSE vol
          /\ ~cfg.highFreq => Loaded'.area = bk.area
      BY <2>1, <2>2, Saved, FALSE \in BOOLEAN
    <2> SUFFICES ASSUME Armed(Loaded.soft)' PROVE InPlace(Loaded)'
      BY <2>1, <2>3 DEF CampInv
    <2>4. IF dsp THEN Current(bk.area) ELSE InPlace(bk)
      BY <2>1, <2>3 DEF CampInv, Armed
    <2>5. CASE ~cfg.highFreq
      BY <2>1, <2>3, <2>4, <2>5 DEF InPlace, Current
    <2>6. CASE cfg.highFreq /\ ~dsp
      BY <2>1, <2>3, <2>4, <2>6 DEF InPlace, Current
    <2>7. CASE cfg.highFreq /\ dsp
      <3>1. vol' = [area |-> bk.area, soft |-> bk.soft]
        BY <2>3, <2>7
      <3>2. vol'.area = bk.area /\ vol' \in Image
        BY <2>2, <3>1 DEF Image, Retention
      <3>3. vol' # None
        BY <3>2, NoneAssumption
      <3> QED
        BY <2>1, <2>4, <2>7, <3>2, <3>3 DEF InPlace, Current
    <2> QED
      BY <2>5, <2>6, <2>7
  <1>13. CASE Wake
    <2>1. pc = "asleep" /\ pc' = "boot" /\ UNCHANGED <<cfg, vol, ctx>>
      BY <1>13 DEF Wake, StartBoot
    <2>2. (cfg.highFreq => RetentionOk) /\ (~NothingToRestore /\ Armed(Loaded.soft) => InPlace(Loaded))
      BY <2>1 DEF CampInv
    <2>3. CASE bk' = bk
      <3>1. Loaded' = Loaded /\ (InPlace(Loaded)' <=> InPlace(Loaded))
        BY <2>1, <2>3, SameMemory DEF InPlace, Current
      <3> QED
        BY <2>1, <2>2, <2>3, <3>1, SameMemory DEF CampInv, Armed
    <2>4. ASSUME ~RetentionOk, bk' = JunkRetention PROVE CampInv'
      <3>1. /\ NothingToRestore' <=> NothingToRestore
            /\ Loaded'.soft = Loaded.soft
            /\ Loaded'.area = Loaded.area
        BY <2>1, <2>4, JunkMemory
      <3>2. InPlace(Loaded)' <=> InPlace(Loaded)
        BY <2>1, <3>1 DEF InPlace, Current
      <3>3. ~cfg.highFreq
        BY <2>2, <2>4
      <3> QED
        BY <2>1, <2>2, <3>1, <3>2, <3>3 DEF CampInv, Armed
    <2>5. CASE ~bkOn /\ bk' = JunkRetention
      BY <2>1, <2>4, <2>5 DEF PowerInv
    <2>6. CASE cfg \in Fragile /\ bk' = JunkRetention
      <3>1. CASE ~RetentionOk
        BY <2>4, <2>6, <3>1
      <3>2. CASE RetentionOk
        <4>1. cfg.keep /\ cfg.thr = 0 /\ ~cfg.highFreq
          BY <2>6, <3>2 DEF OneCopy, RetentionOk
        <4>2. ~RetentionOk'
          BY <2>6 DEF RetentionOk, JunkRetention
        <4>3. NothingToRestore'
          BY <2>1, <4>1, <4>2 DEF NothingToRestore, MayUseFlash
        <4> QED
          BY <2>1, <4>1, <4>3 DEF CampInv
      <3> QED
        BY <3>1, <3>2
    <2> QED
      BY <1>13, <2>3, <2>5, <2>6 DEF Wake
  <1>14. CASE Reboot \/ RebootSaveVolatile
    BY <1>1, <1>14 DEF Reboot, RebootSaveVolatile
  <1>15. CASE RebootReset \/ Reset \/ PowerLoss
    <2>1. pc' = "boot" /\ cause' # "WAKEUP"
      BY <1>15 DEF RebootReset, Reset, PowerLoss, StartBoot
    <2> QED
      BY <1>1, <2>1
  <1> QED
    BY <1>3, <1>4, <1>5, <1>6, <1>7, <1>8, <1>9, <1>10, <1>11, <1>12, <1>13, <1>14, <1>15 DEF Next

\* At the first power-on nothing was saved.
LEMMA NvInit ==
  ASSUME Init
  PROVE  IInv
  <1>1. FlagsOK
    BY DEF Init, FlagsOK
  <1>2. TypeOK
    BY <1>1, Blanks, MaxTimeAssumption DEF Init, TypeOK, PCs, Causes, Bits
  <1> QED
    BY <1>2 DEF Init, IInv, KeptInv, PowerInv, CampInv

\* The life cycle of the NV keeps the retention memory, the flash image, the user's data and the
\* RTC in their types: a memory that is read back is never anything but what was written.
THEOREM NvTypeCorrect == Spec => []TypeOK
  <1>1. Init => TypeOK
    BY NvInit DEF IInv
  <1>2. TypeOK /\ [Next]_vars => TypeOK'
    BY TypeStep
  <1> QED
    BY <1>1, <1>2, PTL DEF Spec

\* Whatever the settings, nv_restore after a wake-up, and after a reboot with the clock set, brings
\* back the record and the user's data that save_volatile_nv saved.
THEOREM NvNothingLostInSleep == Spec => NothingLostInSleep
  <1> DEFINE I == TypeOK /\ KeptInv /\ PowerInv
             P == Restore /\ kept # None =>
                      /\ bk'.soft.dm = kept.dm
                      /\ bk'.soft.clk = kept.clk
                      /\ cfg.highFreq => user' = kept.user
  <1>1. Init => I
    BY NvInit DEF IInv
  <1>2. I /\ [Next]_vars => I'
    BY TypeStep, KeptStep, PowerStep
  <1>3. I /\ [Next]_vars => [P]_vars
    <2> SUFFICES ASSUME I, Restore, kept # None
                 PROVE  bk'.soft.dm = kept.dm /\ bk'.soft.clk = kept.clk /\ (cfg.highFreq => user' = kept.user)
      OBVIOUS
    <2> DEFINE m == WithDm(Recovered)
    <2>1. pc = "restore"
      BY DEF Restore
    <2>2. /\ cause \in {"WAKEUP", "RB_BY_NRB"} /\ ~NothingToRestore
          /\ Loaded.soft.dm = kept.dm /\ Loaded.soft.clk = kept.clk
          /\ cause = "RB_BY_NRB" => Loaded.soft.msec
      BY <2>1 DEF KeptInv
    <2>3. m \in Retention /\ m.soft.dm = kept.dm /\ m.soft.clk = kept.clk
      BY <2>2, RecoveredOK
    <2>4. NoDspYet(m) \/ StartDsp(m)
      BY DEF Restore
    <2> HIDE DEF m
    <2>5. bk'.soft.dm = m.soft.dm /\ bk'.soft.clk = m.soft.clk
      BY <2>3, <2>4, StartDspOK DEF NoDspYet
    <2>6. ASSUME cfg.highFreq PROVE user' = kept.user
      <3>1. RetentionOk /\ bk.flag = "BK_FLAG_INUSE_2" /\ bk.area = [kind |-> "user", v |-> kept.user]
        BY <2>6 DEF KeptInv
      <3> QED
        BY <2>6, <3>1 DEF Restore, RestoredUser
    <2> QED
      BY <2>3, <2>5, <2>6
  <1> QED
    BY <1>1, <1>2, <1>3, PTL DEF Spec, NothingLostInSleep

\* set_DSP_work_mode and dynamic_set_DSP_work_mode tell the DSP to camp on only when the context in
\* its memory is the one the network holds, provided the retention memory fails only under
\* settings that keep no older copy of it in flash.
THEOREM NvCampOnIsCurrent == OneCopy => (Spec => CampOnIsCurrent)
  <1> SUFFICES ASSUME OneCopy PROVE Spec => CampOnIsCurrent
    OBVIOUS
  <1> DEFINE I == TypeOK /\ PowerInv /\ CampInv
             P == sync' = "PS_CAMP_ON" /\ sync # "PS_CAMP_ON" => bk'.area = [kind |-> "nv", v |-> ctx] /\ ctx # NoCtx
  <1>1. Init => I
    BY NvInit DEF IInv
  <1>2. I /\ [Next]_vars => I'
    BY TypeStep, PowerStep, CampStep
  <1>3. I /\ [Next]_vars => [P]_vars
    <2> SUFFICES ASSUME I, Next, sync' = "PS_CAMP_ON", sync # "PS_CAMP_ON"
                 PROVE  bk'.area = [kind |-> "nv", v |-> ctx] /\ ctx # NoCtx
      OBVIOUS
    <2>1. CASE Restore
      <3> DEFINE m == WithDm(Recovered)
      <3>1. m \in Retention
        BY RecoveredOK
      <3>2. StartDsp(m) /\ ~cfg.single /\ pc = "restore"
        BY <2>1 DEF Restore, NoDspYet
      <3>3. \/ m.soft.nextPs = 0
            \/ /\ ~NothingToRestore
               /\ m.soft.nextPs = Loaded.soft.nextPs
               /\ m.area = Loaded.area
        BY RecoveredOK
      <3> HIDE DEF m
      <3>4. bk'.area = m.area /\ CampsOn(m.soft)
        BY <3>1, <3>2, StartDspOK
      <3>5. cause = "WAKEUP" /\ m.soft.nextPs \notin {0, Inf}
        BY <3>4 DEF CampsOn
      <3>6. ~cfg.highFreq
        BY <3>2, ConfigsAssumption DEF TypeOK
      <3>7. InPlace(Loaded)
        BY <3>2, <3>3, <3>5 DEF CampInv, Armed
      <3> QED
        BY <3>3, <3>4, <3>5, <3>6, <3>7 DEF InPlace, Current
    <2>2. CASE OffTime
      <3>1. cause = "POWER_ON" /\ StartDsp(bk) /\ bk \in Retention
        BY <2>2 DEF OffTime, CampInv, TypeOK
      <3>2. CampsOn(bk.soft)
        BY <3>1, StartDspOK
      <3> QED
        BY <3>1, <3>2 DEF CampsOn
    <2>3. CASE DynamicLoad
      <3>1. pc = "run" /\ StartDsp(DynamicMemory)
        BY <2>3 DEF DynamicLoad, DynamicMemory
      <3>2. bk'.area = DynamicMemory.area /\ CampsOn(bk.soft)
        BY <3>1, DynamicMemoryOK, StartDspOK
      <3>3. Armed(bk.soft)
        BY <3>2 DEF CampsOn, Armed
      <3>4. InPlace(bk)
        BY <3>1, <3>3 DEF CampInv
      <3>5. DynamicMemory.area = IF cfg.highFreq THEN vol.area ELSE bk.area
        BY <3>4 DEF DynamicMemory, InPlace, TypeOK, Retention
      <3> QED
        BY <3>2, <3>4, <3>5 DEF InPlace, Current
    <2>4. CASE ~(Restore \/ OffTime \/ DynamicLoad)
      <3>1. sync' \in {sync, "none"}
        BY <2>4 DEF Next, BootErase, ShutDownDsp, NewContext, SetClock, SetDm, SetUser, Tick, FastPowerOff,
              EnterDeepSleep, SleepSaveNet, SleepSaveVolatile, Wake, Reboot, RebootSaveVolatile, RebootReset,
              Reset, PowerLoss, StartBoot
      <3> QED
        BY <3>1
    <2> QED
      BY <2>1, <2>2, <2>3, <2>4
  <1> QED
    BY <1>1, <1>2, <1>3, PTL DEF Spec, CampOnIsCurrent

=============================================================================
