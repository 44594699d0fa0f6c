# A verification project for the XY1100E SDK

The XY1100E is an NB-IoT chip with two cores: a Cortex-M3, which runs FreeRTOS and the code of this
repository, and a DSP, which runs the modem's protocol stack and comes as a binary. Both share one flash,
one RTC and 4 KB of retention memory that can stay powered in deep sleep. The device sleeps most of its life,
and its hard problems follow from that: what is kept where while it sleeps, what a boot may believe of what it
finds, and which task may touch the DSP and the flash while another one does.

All paths below are relative to `src/src/SDK/`.

## 1. Inventory

| Component | State | Operations | Interacts with |
|---|---|---|---|
| EFTL flash layer, `SYSLIB/flash/src/xy_flash.c` | 2 or more sectors per region, each with head magic, number of the write, tail checksum | `xy_ftl_read`, `xy_ftl_write`, `xy_choose_valid_ftl`, `xy_flash_write/erase` behind `xy_check_low_vBat` | every component that stores something |
| Flash driver and inter-core sharing, `flash_adapt.c` | `FLASH_DYN_SYNC`, `FLASH_NOTICE_FLAG`, suspended scheduler | `flash_operate_ext`, `send_flash_msg`, `diffcore_flashwrt_msg_proc` | the DSP |
| NV save and restore, `SYSLIB/system/src/oss_nv.c` | retention memory (DSP context, M3 record, checksum, flag), four flash regions, `g_user_vol_data` | `nv_restore`, `nv_write_to_flash`, `save_volatile_nv`, `reboot_nv`, `erase_flash_by_abnormal` | EFTL, LPM machine, DSP start |
| DSP start, load and shutdown, `dsp_process.c`, `sys_app_init.c` | `PS_START_SYNC`, `DSP_LPM_STATE`, `g_dsp_off_request`, `g_dynamic_dsp_load_m`, `network_task_inited` | `set_DSP_work_mode`, `dynamic_load_up_dsp`, `shut_down_dsp_core`, `shut_down_dspcore_process`, `network_task_init` | any task, idle task, DSP |
| Cloud session resume, `APPLIB/lwip/xy_adapter/src/net_app_resume.c` | `g_app_recovery_type`, `g_app_local_ip`, `g_have_read_saved_info`, region `NV_FLASH_NET` | `save_net_app_infos`, `resume_net_app`, `resume_net_app_by_dl_pkt`, `is_exist_resume_cloud_data` | CDP, OneNET, sockets, proxy |
| Proxy, `xy_proxy.c` | queue of 30, mutex | `send_msg_2_proxy`, `xy_proxy_ctl` | AT, PDP events, cloud |
| Asynchronous sockets, `APPLIB/xy_async_socket` | socket table, lock, queue of 2 | open, bind, connect, send, recv, close, event callbacks | lwIP task, user |
| Interface events, `netif_mgmt.c`, `ps_netif_api.c` | list of callbacks, mutex, PDP state | add, delete, status callback, activate, deactivate | proxy, lwIP, applications |
| Firmware update, `APPLIB/xy_fota` | download context, update area, update flag, `fota_res` | `AT+NFWUPD` erase, block, check, update; result after the restart | host, BLE, secondary boot loader |
| Device management, `APPLIB/dm` | `dm_cfg`, `dm_sem`, `dm_timer`, `dm_timer_overdue`, work lock | start on interface up, register, retry, record success | NV, sockets, timer task |
| Watchdog, `xy_watchdog.c` | reload value, DSP's counter | feed, reset | both cores |
| AT UART, `SYSLIB/at_uart` | receive semaphore, buffer, soft sampling | receive, detect baud rate, recover characters | AT framework |
| Ping, `APPLIB/ping` | `ping_packet_q`, `now_in_ping`, `g_ping_stop`, `out_OOS_sem`, two callbacks | start, stop, ping task | interface events, receiving thread |
| Abup, CoAP, tools | queues and timers of their own | | lwIP |
| Prebuilt: LPM machine, AT framework, inter-core messages, CDP, OneNET | | | modelled as external where this code meets it |

Hard behaviours, and the properties that make each component correct:

* **Flash layer**: power loss inside an erase or a program, low voltage that refuses a write, two tasks in one
  region. A write is atomic and durable, damaged contents are never served, a call returns.
* **NV**: power loss between two regions, a retention memory that lost its contents, seven causes of a boot times
  the factory settings. Nothing is lost by a sleep; the DSP is told its old context is valid only if it is.
* **DSP**: tasks that preempt each other, an idle task that powers the core off when everybody waits. The image is
  not copied under a running core; a power-off is asked for once; a load that returned has loaded.
* **Cloud**: flags in RAM, in flash and in the applications, over any sequence of sleeps. No session is lost, none is
  resumed over one in use or after it was given up.
* **Sockets**: an entry looked up in one section and used in a later one, events queued with the lock held. The table and
  lwIP agree, the sizes reported to the application add up, a call returns.
* **Proxy, interface events, ping**: a blocking queue filled under a mutex by its own consumer, callbacks removed while they
  are called, a queue deleted while it is filled. The table follows the contexts, nobody calls what was freed, a ping ends.
* **Update**: block boundaries, refused and repeated blocks, power loss between check, flag and restart. The boot loader gets
  a whole genuine package for the present image or nothing.
* **DM**: timers that outlive their task, retries counted over restarts, a lock taken and released under different
  conditions. Attempts are bounded, the lock is paired, the task ends.
* **Watchdog, UART**: reload values, buffer limits.

The hazards, each at its line with the properties that cover it, are in `PROJECT.json`. Those of parts without a model are in
section 6.

## 2. Plan

1. Flash layer: `FtlPages`, `Ftl`, `FtlTasks`, abstract `NvCell`, the boot's own scan, proofs. *Done.*
2. NV life cycle: `NvStore`, with regions as the cells that `Ftl` implements, and the DM task's write, proofs. *Done.*
3. DSP power: `DspPower`, proofs. *Done.*
4. Cloud sessions: `CloudResume`, proofs. *Done.*
5. Firmware update: `Fota`, proofs. *Done.*
6. Asynchronous sockets: `AsyncSocket`, proofs. *Done.*
7. Device management: `Dm`, proofs. *Done.*
8. Proxy, interface events, receiving thread and ping in one module, as they meet in one queue, one list and three mutexes:
   `Netif`, proofs. *Done.*

Every safety property of the passing runs, invariant or action property, is stated by a theorem. Left, as far as the prover allows: the
safety half of the liveness properties, that is which thread holds what in a state where nobody can go on (`Wedged` of
`AsyncSocket` and `Netif`), as invariants of their own.

## 3. The modules

### Flash layer: `FtlPages`, `Ftl`, `NvCell`, `FtlTasks`

`FtlPages` holds the format: a sector is a record of magic, number and contents, `Damaged` when its checksum does not
match, and the pure steps (`NextPage`, `NextNum`, `IsScanResult`, `PageImage`) of `xy_choose_valid_ftl` and `xy_ftl_write`.

`Ftl` is one region and one call at a time. The variables are the sectors, the program counter and locals of the call
(`maxn` is `max_writenum`, `cur` the chosen page, `buf` the composed page), its result, and the voltage state of
`xy_check_low_vBat`. A call is `Scan`, `Verify`, perhaps `DropBadPage` and `Scan` again, then `ReadPage`, or
`SkipEqualWrite`, or `ComposePage`, `FlashWrite`, `EraseNext`, `ProgramNext`, `ReturnWritten`. `PowerLoss` may happen at each
step and leaves a torn sector in the middle of an erase or a program. `GarbledTags` says whether a torn sector may
show any magic and number or only the old or the new ones; `PageDecay` lets a sector go bad between calls.

`NvCell` is what the layer promises: one value per region, a write of a parameter that takes effect at once or never,
and a result that tells the truth. `ImplementsCell` maps the cell to the contents of the newest good sector.

`CheckFactoryNvValid` and `SystemInit` are state functions of `Ftl`: before `main` the chip chooses a sector by head and number
alone, without the checksum, and programs its clocks from it. `ClocksFromStored` compares that with what `xy_ftl_read` serves.

`FtlTasks` is the same region used by tasks that preempt each other, between any two sectors of a scan too. A sector read is one step because it is
one transfer of the flash controller. A sector is written in one of two ways (`xy_flash.c:76`). With the DSP loaded, `WriteSector` is one
step, as `flash_operate_ext` runs with the scheduler suspended. With the DSP not loaded, `flash_write_erase` erases in one critical section and programs in the next, and a
task can run in between: `EraseSector`, `ProgramSector`. `DspSwitches` changes between the two at any time, so one task may program what
another has already written; on NOR that leaves the bits both have (`ProgramOver`). A scan that meets a bad sector erases it (`DropSector`), and the assertion on the
magic word just written restarts the system when it fails (`ReturnTested`). The history variable `overtaken` collects the tasks that were inside a call when another task
left a sector erased or programmed over a written one: these can be misled (section 7), and `NoTornRead` is about all others. The module's names differ from those of `Ftl` so that one module can
prove about both.

### NV life cycle: `NvStore`

The retention memory is a record of the DSP's area, the M3's record (the fields the boot decides by), the record the
checksum was computed from, and the flag. `vol` is the region of the volatile NV. A boot is `BootErase` then `Restore`, which is
`nv_restore` from the choice of the copy (`RetentionOk`, `MayUseFlash`, `Loaded`) over the cause of the boot (`Recovered`,
`AfterReset`, `WithDm`) to the start of the DSP (`CampsOn`, `StartDsp`). A sleep is `EnterDeepSleep` (the LPM machine,
external), `SleepSaveNet`, `SleepSaveVolatile`; a reboot is `Reboot`, `RebootSaveVolatile`, `RebootReset`. `Reset` and
`PowerLoss` may come in between. `SetDm` is the DM task's own write of the record into the flash image of the last sleep.
`ConfigsAssumption` asks of a setting with `high_freq_data` that the retention memory stays powered (`keep`), which `nv_restore` asserts, and that the DSP
is not started at boot (`single`), which `check_conflict_nv` reports as an error otherwise (`oss_nv.c:513`).
`ctx` stands for what the network holds for this device; it is not a variable of the
code and only the properties and the DSP read it. `kept` records what the last completed save must bring back.

Left out: the RTC list, the factory NV and the DSP's non-volatile NV (saved first, and no decision of this code reads what
a save changes in them), the DSP's external pool, baud rates. Causes
the code treats alike are one: `ABNORMAL` is a watchdog reset or `RB_BY_ASSERT`, `SOFT_RESET` every soft reset other than
`RB_BY_NRB`, `WAKEUP` is RTC or pin.

### DSP power: `DspPower`

Each task is somewhere in `dynamic_load_up_dsp` or `shut_down_dsp_core`; one action is what runs between two points where
another task can run, so a critical section is one action and the wait for the answer to `AT+CFUN=5` is a point of its own.
`ShutDownProcess` is the idle task's `shut_down_dspcore_process` and is enabled only when every task waits.
`slow`, chosen once, lets the DSP report itself alive after the loader's delay loop has ended. Left out: the reprogramming of the
clocks in `work_mode` 2 and the CP alarm.

### Cloud sessions: `CloudResume`

`net` is the region, or `None` when erased; `recov`, `localIp` and `read` are the three globals; `live` is the session each
application holds, told apart by the address it was registered under; `awake` says whether the device runs. Two variables are history: `pending`, the sessions
saved and not taken up, and `gone`, the applications whose session was given up (a refused configuration or lifetime, `AT+FASTOFF`, a boot that is
no wake-up) and not saved since. Each resuming call is one action because it holds `g_cloud_resume_mutex` throughout.
External assumptions: an application tries to resume before it registers anew (the interfaces of CDP and OneNET do), its
session follows the device to a new address while it is in use, and `save_cloud` is set (otherwise every function
returns at once). The erase at boot is taken to succeed; a low voltage that refuses it is part of `Ftl` only.

### Firmware update: `Fota`

A package is a sequence of units, its header the first `HeadLen` of them; `ShaPart` units of the header (84 bytes in the code) are
outside the hash. A command of `AT+NFWUPD` is one action, since all run in one task: `at_fota_Flash_Erase`, `at_fota_downing` (a
block, through `ota_downlink_packet_proc`: `HeadPart`, `HeadRefused`, `HeadAccepted`, `BodyPart`), `at_fota_check`, `at_fota_update`,
`ota_update_result` (an interface without a caller in the SDK). `Boot` is the boot loader (external: it applies a whole package made for
the present image, and breaks the image otherwise). The host may send blocks of several packages and of any lengths, one after the other, and repeat a refused
block. Flash is NOR: programming twice without an erase leaves `Garbage`. The digest is perfect.

Every call to flash first asks `xy_check_low_vBat`: low voltage restarts the system when it is found for the first time, and after such a restart latches (`low`), so that every
later call is refused until the next reset (`Permitted`, `Refused`). `ota_downlink_packet_proc` looks at none of the results: in `Programs` the calls of a block are done up to the
one refused, and the block is hashed and counted as if all had been. The flag for the boot loader is written through the same check, so it is refused too. A refused save of the factory
NV asserts, which is a `Reset`. A restart may come between any two calls to flash of one command (`ResetInBlock`, `ResetInSave`) and between commands (`Reset`); a single erase or program that is
torn is the matter of `Ftl`. `refusedAt` is a history variable: the place in the package where the block began with which a header was refused.
Assumptions: the voltage limit is not set to 0 in the middle of a download, and the erase, as long as the whole area, does not run past the end of flash (`PackagesAssumption`).

### Asynchronous sockets: `AsyncSocket`

Three threads: the application (one thread: two that create sockets at once could take the same entry), lwIP's thread that delivers events, and `skt_thd`, which
takes them from the queue of two and calls the callbacks. A section under the lock is one step unless the thread
waits inside it, which only `send_msg_2_skt_thd` does. lwIP's sockets (`sock`) are external: connecting, unacknowledged bytes, and the core
lock that makes `close()` wait for a handler under way. Left out: receiving and name resolution, which only ask lwIP.

### Device management: `Dm`

One DM task for the card's operator, `telecom_dm_run` or `unicom_dm_run`, which are the same loop with other conditions; the retry timer and
Unicom's overdue timer run in the timer task and may expire between any two steps. `locks` is DM's share of the work lock. `DeepSleep` needs
it free; `PowerLoss` and sleep end the task and keep `flash`, the registration written with the record. A write of the record that fails ends in `xy_assert` and a restart
(`telecom_dm.c:290`), which is `PowerLoss` at `won`.

### Proxy, interface and ping: `Netif`

The protocol stack's thread announces contexts through the proxy's queue; the proxy inserts an interface into the table, brings it up and
walks the callbacks with `g_netif_mgmt_mutex` held; the receiving thread gives a packet to ping or to lwIP and may resume the
CDP session first, which sends to the proxy; the ping task registers its callbacks, makes its queue, takes the packets over, and tidies up. The two mutexes
that are held over a wait are the variables `pm` (`xy_proxy_mutex`) and `cm` (`g_cloud_resume_mutex`). `fault` records what would be a crash: an assertion,
a freed callback, a freed interface, a deleted queue, a NULL interface. A vacant entry of the table has `cid` 0, as `memset` leaves it, and context 0 is a
context like any other, so a search for it may stop at a vacant entry (`FoundVacant`). What then reads through NULL is undefined: the device stops, or the read finds nothing and the call goes on. The history
variable `missed` says that a deactivation has met a vacant entry. Removing a callback unlinks its first node in the list and no more, as the code does.

## 4. Runs

| Run | Expect | States | What it shows |
|---|---|---|---|
| `ftl_ring` | pass | 95,000 | three sectors, power loss at each step, low voltage: implements the cell, keeps the newest copy, the boot's clocks come from stored contents |
| `ftl_faults` | pass | 609,000 | factory region, garbled tags, decay and low voltage: damaged contents are not served, and a call returns unless a bad sector cannot be erased because the low voltage has latched |
| `ftl_fallback` | violation | | after a bad newest sector older good ones are ignored (`max_writenum` is not reset) |
| `ftl_tasks_read` | pass | 3,491,000 | two tasks, DSP loaded and not: a scan overtaken by the DSP's writes still settles on a good sector, and no task copies an erased or half-written one unless another erased a sector during its call |
| `nv_cycle` | pass | 1,343,000 | five settings, sleeps, resets, power loss and DM's writes, and a retention memory that fails where there is no older copy: camp-on only with a current context, nothing lost |
| `dsp_mutex` | pass | 9,500 | three tasks and the idle task, prompt and slow DSP: mutual exclusion and its consequences |
| `cloud_save` | pass | 38,000 | saved sessions survive, none is resumed over one in use, nor after it was given up |
| `fota_update` | pass | 3,400,000 | two packages in mixed blocks of two lengths, with restarts between flash calls and refused writes: only a whole genuine package is handed over or changes the image (one way around the header's checks excepted), the hash is of what lies in flash, the running image is never touched |
| `async_sockets` | pass | 180,000 | three threads, a TCP and a UDP socket: table and lwIP agree, sizes add up, only `skt_thd` can find its entry gone, a call hangs only behind a full queue |
| `dm_task` | pass | 7,500 | both operators, timers, sleep, power loss, a change of card: attempts bounded, semaphore safe, Telecom's lock paired, the task ends |
| `netif_proxy` | pass | 137,000 | contexts 0 and 1, three senders, a queue of two: until a deactivation of context 0 has met a vacant entry, no assertion fails and the table follows the contexts; only a proxy stuck behind its own queue stops a sender |
| `netif_ping` | pass | 276,000 | a ping against interface, packets and out-of-service: no freed callback is called, nothing is left behind, the ping ends |

Each property of a passing run has a mutant: a definition named `...Unwrapped`, `...Late`, `...Always` and the like, just
before the definition it replaces, under which TLC finds the property violated.

**Bounds.** `ErasedNum` stands for 0xFFFFFFFF; `NumLimit` stops writes below it, which is enough for every sector of the
ring to be written twice, so that each is once the oldest and once the newest (a flash of 100,000 erasures does not reach
the real limit). Two parameters and two values tell a change of one from a change of the other. `MaxTime = 2` has a time before, at and
after a next TAU time; the threshold is 1. Four network contexts: the one in retention memory, the one in flash, the
network's, and a fresh one. Three tasks: one in the mutex, one waiting, one elsewhere. Three applications, as in the
code, and two addresses. Contexts, tasks and addresses are symmetric: no definition tells two of them apart. The
constants `Configs` of `NvStore` are five settings that take each branch of `nv_restore` and `save_volatile_nv`.
`Fota`: a header of three units, one of them not hashed, and blocks of one and three units in any order, so that a block ends inside, at the
end of and behind the header, and begins at the end of the unhashed part, as one at offset 84 would; a genuine package whose base is above the start of the area and one with a wrong
magic number and a base below it. `FtlTasks`: two sectors, one parameter and `ErasedNum = 5`, two full writes and one under way: enough for one task to erase or overwrite the sector that
another has chosen. `AsyncSocket`: a
table of one entry, so that it is full with one socket, two descriptors, the code's queue of two, two bytes under way (a
table of two entries was checked once, 4.2 million states). `Dm`: three retries, two cards; `MaxLocks` stops Unicom's lock from growing. `Netif`: a queue of one or
two places stands for the 30: full with one more message than fits; contexts 0 and 1; pings of none and of two packets.

**Fairness.** `Ftl`: `WF_vars(Step)`, a task inside a call is scheduled again. FreeRTOS gives that to a task that does not
block, and no step of a call blocks. `AsyncSocket` and `Netif`: strong fairness of each thread's own steps. A thread waits only for a mutex or
a queue, FreeRTOS queues the waiting threads by priority and then by arrival, and the priorities of these threads do not starve each other
as each of them blocks again; `osMutexPrioInherit` keeps a holder running. `Dm`: the task runs, and an armed timer expires. Power, voltage, the
network, the server, the host and the user are never fair.

## 5. Proofs

TLAPS proves the following for every value of the constants that satisfies the named assumptions.

* `FtlProofs`. `TypeCorrect` and `DamageIsNeverRead` hold under every fault. `RingCorrect`, `NewestCopyIsSafe`,
  `RingImplementsCell` and `BootAgrees` assume two or more sectors, clean tags (a torn sector shows old or new tags) and no decay. The
  inductive invariant is `RingInv`: written sectors have different numbers, the one with the highest is intact, and the
  locals of the call in progress agree with the ring (the scanned maximum is the newest's number, the sector about to be
  erased is not the newest, the composed page has the next number). The refinement needs the last part: a program step is
  the write of the cell only because its number exceeds every other. `BootAgrees` follows from the first two parts: the written sector
  with the highest number exists (`TopExists`), is intact, and is the one both scans find.
* `DspProofs`. `DspTypeCorrect`, `MutexProtectsDsp` and `OffIsAskedOnce` hold for any DSP; `CopyIsSafe` speaks of one that
  reports itself in time (`~slow`), as `DSP_LPM_STATE` lies about a slow one. The invariant `DspInv` says that a task is between
  acquire and release exactly when it owns the mutex, and that what it tested about the core stays true there. The idle task is the one
  actor that changes the core without the mutex; the proof rests on its running only when the owner waits for the answer
  to `AT+CFUN=5`, with no request pending yet.
* `CloudProofs`. `CloudTypeCorrect`, and `CloudCorrect` with its parts `SavedSessionsAreKept`, `NoDoubleResume` and
  `NothingGivenUpIsResumed`. The properties speak of a running device; the invariant adds what carries them through a
  sleep (`SleepKeepsPending`), through the time before the flags are read (`UnreadIsFresh`), and that the region, which may hold flags that RAM does not, holds none of a session
  that was given up (`RegionForgets`).
* `FotaProofs`. `FotaTypeCorrect`, `FotaCorrect`, `HandOverIsSafe`, `DigestIsOfFlash`, `RunningImageIsSafe` and
  `UpdateIsGenuine`, for any packages, header layout, block lengths, in any order, and flash layout, with refused flash calls and restarts between them. The invariant `FotaInv` splits a download whose header is
  complete in two: the header was accepted, and unless a write was refused flash holds it followed by exactly what was hashed, with the rest of the area erased
  (`AcceptedHead`); or it was refused, and the hash begins where the refused block began (`RefusedHead`), so that a digest can match only if that was the end of the unhashed part. That one
  place is the exception `HeaderSlips` of the properties: see section 7. While `low` is set nothing is claimed of flash; the proof then uses that `low` stays set until a reset and refuses the flag as well.

* `FtlProofs` also proves `NoTaskReadsTornSector` of `FtlTasks`, for any number of tasks and two or more sectors, with the DSP loaded, not loaded, or changing. It has two parts. `TornInv` holds always: what a
  task found intact stays intact as long as it is not overtaken, since a sector it has chosen can then only be replaced by a whole image. `SettledInv` holds while nobody has been
  overtaken: some sector is written, a scan that has found nothing has one before it (`ChoiceInv`, `WrittenInv`), and there are numbers left for all writes under way (`NumsInv`): an image
  numbered 0xFFFFFFFF would look erased.
* `NvProofs`. `NvTypeCorrect`, `NvNothingLostInSleep` and `NvCampOnIsCurrent`, for any settings that satisfy `ConfigsAssumption` and any contexts. `KeptInv` says, from the
  end of a save to the boot that restores it, that the copy `nv_restore` would choose now (`Loaded`) is the one that was saved; `PowerInv` that a retention memory
  which is switched off is not taken for valid. `CampInv` is what the camp-on needs: a next TAU time that is set and not consumed
  belongs to the context the network holds, wherever that context is at that moment, in the retention memory, in flash or in the DSP.
  `NvCampOnIsCurrent` has the hypothesis `OneCopy`: the retention memory fails only under settings that keep no older copy in flash. Without it
  the code does believe an older image (section 7).
* `AsyncProofs`. `AsyncTypeCorrect`, `AsyncTableMatches`, `AsyncOnlySktThreadFaults` and `AsyncSizesAddUp`, for tables, queues and descriptors of any number. `LookupInv` says
  that an index found in an earlier section still names the descriptor it was found for, which needs that `close()` waits for a handler under way.
  `TableInv` allows one socket at a time, the one being opened or closed, to be in lwIP or in the table only. `SizeInv` accounts for
  each byte sent: acknowledged, not yet, or announced by an event that is queued or under way.
* `DmProofs`. `DmTypeCorrect`, `DmRetriesBounded`, `DmNoReleaseAfterDelete`, `DmTelecomLockPaired` and `DmSleepSparesRegistration`, for any `dm_retry_num` of a byte and any cards. `RetryInv`
  keeps the count below the limit inside the loop, so that the byte does not wrap; `SemInv` ties the armed timer to the one place where
  the task waits for it, which is why no expiry meets a deleted semaphore; `TelecomLockInv` makes the work lock's count the task's own.
* `NetifProofs`. `NetifTypeCorrect`, `NetifTableFollowsPdp`, `NetifNeverMissed`, `NetifCallbacksAlive` and `NetifPingTidies`, for any queue lengths, table size and contexts, provided there are no more
  contexts than places (`CidAssumption`; the table has `PS_PDP_CID_MAX` of them, the protocol stack's own limit). `QueueInv` is the centre: played in their order, the messages under way lead from
  the contexts that hold a place (`Held`) to the contexts that are active, each activation for a context that is then absent and each deactivation for one
  that is then present. It holds until a deactivation has met a vacant entry (`missed`), and `NetifNeverMissed` says that this
  needs context 0: without it nothing is ever missed. From `QueueInv` follow that a vacant place is found (by counting, `FiniteSetTheorems`) and that no assertion of the table fails. `ListInv` and `WalkInv` say
  that a callback is in the list once, from its registration to its removal, and that the walk stands at a listed one: removal waits for the mutex that the walk holds.

The assumptions of the flash model are: a checksum that does not match is always noticed, the scan of a region is one
step in `Ftl` (nothing else writes it during a call there), and a sector decays only between calls. The assumptions that `None` and `NULL` are
none of the values they stand beside (`NoneAssumption`, `NullAssumption`) only say that an absent value can be told from a present one, as the code does by a NULL pointer or a separate flag; a context number tells nothing, as 0 is one.

The inductive invariants were checked by TLC on the constants of the runs before they were proved; the runs keep the properties they imply.

Only model-checked: the liveness properties `CallsReturn` (`Ftl` and `AsyncSocket`), `TaskEnds`, `SendersReturn` and `PingEnds`, as the prover reaches neither fairness nor
`ENABLED`; and `ChooseFindsValid`, which fails.

## 6. Not modelled

Vendored code (lwIP, libcoap, wakaama, mbedTLS, FreeRTOS, Tracealyzer), which is most of the repository's lines, the prebuilt libraries, drivers and register
programming, demos and diagnostics. Of the vendor's own parts:

* the inter-core flash handshake of `flash_adapt.c`: both cores spin for the other's bit of `FLASH_DYN_SYNC` (`flash_adapt.c:228`), but the DSP's half is
  prebuilt, and a model of it would show only what it assumes;
* the watchdog's feeding: the first reload value allows for `user_dog_time` and the later ones do not (`xy_watchdog.c:54`), a matter of
  real time;
* AT UART: interrupt-level code that follows the bit timing; a full read of 100 bytes is extended by the recovered
  characters in the same buffer (`at_uart.c:552`);
* the Abup client: HTTP and JSON text around one message, which is overwritten before the test whether the previous one was handed over (`abup_fota.c:659`);
* `write_num` 0xFFFFFFFE, which is advanced to the number of an erased sector (`xy_flash.c:397`), out of reach of the flash's life;
* a failed read of the cloud's region, which is not repeated in that cycle (`net_app_resume.c:144`): it needs a damaged newest sector, which is `Ftl`'s matter;
* ping over IPv6 (a copy of the IPv4 task), `ping_opencpu_api`, the BLE copy of the update's loop, and the non-IP data path.

## 7. Disagreements with the code's own words

`ftl_fallback` is kept as a run, with its finding in `PROJECT.json`. The others below are reproduced by adding the named property to the configuration
in brackets, with the change of a constant given.

* **A bad sector and a low battery** (`MCFtl_faults.cfg`, the exception of `CallsReturn`). The result of `xy_flash_erase` is ignored before `goto
  CHOOSE_AGAIN` (`xy_flash.c:234`): when the erase is refused the same page is found and fails again, for ever. `xy_sys_hook.c:213` expects the system to go on without erasing or writing.
* **A torn read** [`MCFtlTasks_read.cfg`: `NeverTorn`]. With the DSP not loaded, a task that has chosen a sector can be preempted by two writes; the second erases that sector (`flash_adapt.c:82`), and the
  reader, which tests the checksum only before (`xy_flash.c:227`), copies it out. `flash_operate_ext` suspends the scheduler, so the path through the DSP is free of it.
* **Lost update** [`MCFtlTasks_read.cfg`: `OnlyWrittenParamChanges` with `Params = {p1, p2}`]. `xy_ftl_write` reads the page, replaces one parameter and writes it back without a lock (`xy_flash.c:338`), while
  `xy_flash.h:146` promises that the other values do not change (其他值不变).
* **An older image is believed** [`MCNvStore_cycle.cfg`: `CampOnIsCurrent` with the setting `thr = 1` in `Fragile`]. If the retention memory fails, `ABNORMAL_PROC` reads the image of an earlier
  sleep (`oss_nv.c:237`) and the DSP is told `PS_CAMP_ON`, "old IP addr still valid" (`dsp_process.c:22`).
* **A load is swallowed** [`MCDspPower_mutex.cfg`: `LoadedStaysLoaded`]. `dynamic_load_up_dsp` finds the DSP on and returns, and the pending power-off is carried out afterwards
  (`dsp_process.c:307`); `xy_system.h:226` says that calling it is enough to use the DSP again.
* **A slow DSP** (`DspPower`, `slow`). `NoCopyUnderRunningDsp` is about a DSP that reports itself alive within the loader's delay loop. One that does not is taken for
  stopped by the next caller, who resets it and copies the image again (`dsp_process.c:157`).
* **A session resumed again** [`MCCloudResume_save.cfg`: `ResumedOnce`]. A resumed session's flag is cleared in RAM only. If that session ends and the next sleep has nothing to save,
  `save_net_app_infos` returns without writing (`net_app_resume.c:62`), and the flag left in flash resumes the old session after the next wake-up.
* **One address for all sessions** [`MCCloudResume_save.cfg`: `PacketResumesSameAddr`]. A session saved under one address is saved again under the next (`net_app_resume.c:70`) and resumed by a
  packet, against "if PDP IP address changed, not resume cloud" (`net_app_resume.c:271`).
* **A refused header** [`MCFota_update.cfg`: `HandedOverAlwaysWhole`]. `recv_size` is advanced before the header is checked (`xy_fota.c:239`), and what follows a refused header is taken as
  body. If the refused block began at offset 84, as the second of 84-byte blocks would, the host's repetition of it gives the digest of the whole package. The check passes, and the boot loader is given a package whose version or base was refused, with the hashed part of its header twice in flash.
* **The update's erase**. The base moves to the package's own and the length stays that of the whole area (`xy_fota.c:266`): a package that starts further behind the image than the backup area is
  long has "the first flash address available to the user" (`xy_memmap.h:310`) erased. No property states it: whether it happens depends only on the base written into a package.
* **Context 0** [`MCNetif_proxy.cfg`: `NeverMissed`]. A vacant entry of the table has `cid` 0 (`ps_netif_api.c:39`, `:462`), and `find_netif_by_cid` compares nothing else (`:415`). After contexts 1 and 0 are activated and 1 is
  deactivated, a search for context 0 stops at the vacant first entry: a packet for it meets a NULL interface (`:489`), and its deactivation reads through NULL (`:455`) or clears the vacant entry and leaves its own.
* **Unicom's work lock** [`MCDm_task.cfg`: `LockPaired`]. `xy_system.h:169` demands pairs (必须与 xy_work_unlock配对使用). `unicom_is_start_dm` locks a second time when no registration is due
  (`unicom_dm.c:187`), and lock and unlock (`unicom_dm.c:204`, `:335`) test `unicom_timer_flag` at different times.
* **Full event queue** (`AsyncSocket`, `Wedged`). `send_msg_2_skt_thd` waits for a place with the lock held that `skt_thd` needs before it takes the next event: two queued events and a
  third stop all three threads (`xy_async_socket.c:393`).
* **Full proxy queue** (`Netif`, `Wedged`). The proxy sends to its own queue while it handles an AT request (`net_app_resume.c:206`): with 30 messages waiting it waits for itself.
* **The receiving thread and freed memory** (`Netif`, faults `netif` and `queue`). The interface looked up before `resume_net_app_by_dl_pkt` is used after it (`ps_netif_api.c:502`); the queue tested at `ping.c:99` is
  used at `ping.c:102` although the ping task may have deleted it.
* `xy_async_socket.c:362`: `skt_thd` uses an index found before it released the lock (fault `skt`); a callback that is NULL is not
  tested there; an event queued for a closed socket is given to a new one with the same descriptor; `ConnectStatus` (`:154`) may overwrite
  `CONNECTED`, set by lwIP's thread meanwhile, with `CONNECTING`.
* `xy_fota.c:276`: with a low battery the write of a block is refused and the block is hashed all the same, so a package with a gap passes the check. It is not handed over, as the latch refuses
  the flag as well; the update then restarts the device without effect, although `AT+NFWUPD` answered OK. `ota_delta_check_by_flash` hashes from the start of the header, `ota_delta_check_sync` from behind the
  digest. `fota_res` keeps the bits of earlier results.
* `xy_flash.c:449`: `CheckFactoryNvValid` tests no checksum. `ClocksFromStored` is checked and proved of a ring without decay; of a factory sector that has gone bad since it was written the boot takes the clocks, and
  `xy_ftl_read` rejects it later.
* `telecom_dm.c:74`: `dm_socket_client` returns 0 when `getaddrinfo` succeeded and no socket could be opened, and the failed attempt is
  recorded as a registration. `recv()` there has no time limit. If the overdue timer runs between the test and the assignment of `unicom_dm_init`, two tasks are started.
* `ping.c:618`: `ping_opencpu_api` guards against a running AT ping, and not the other way round; `stop_ping` is lost when `init_ping_ipv4` or an UP event
  resets `g_ping_stop` afterwards; `netif_mgmt.c:77` tests the list before it takes the mutex.
* `oss_nv.h:11` calls `BK_FLAG_INUSE_2` "softap volatile nv + user data". `dynamic_load_up_dsp` loads the DSP's context over the
  user's data and leaves the flag and the checksum alone, so after a reset `nv_restore` copies that context to
  `g_user_vol_data`: in `NvStore`, `Restore` then sets `user` to `None`.
* `oss_nv.c:271` wants `dm_cfg` to be valid whatever happens. The copy taken there is put back after a power-on only
  (`WithDm`); a reset clears it.
* `factory_nv.h:353` says a pin reset with `pin_reset` set erases all NV; `erase_flash_by_abnormal(2)` keeps the working
  factory NV.
* `sys_app_init.c:66` says the network tasks are created once. The flag is tested before and set after their creation,
  outside the mutex: in `DspPower` two tasks can both be at `NetworkTaskInit`.
