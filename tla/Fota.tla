-------------------------------- MODULE Fota --------------------------------
(***************************************************************************)
(* The update over AT commands (at_fota.c, xy_fota.c): a delta package is  *)
(* received in blocks, hashed and programmed block by block, checked,      *)
(* handed to the secondary boot loader with a reset, and its result is     *)
(* read after the restart.  Power may fail between any two calls to flash, *)
(* and a call may be refused for low voltage (xy_check_low_vBat).          *)
(*                                                                         *)
(* A package is a sequence of units <<p, i>>.  Its header are the first    *)
(* HeadLen units; the first ShaPart of them (magic_num and total_sha, 84   *)
(* bytes in the code) are not hashed.  HMAC and RSA are perfect: a digest  *)
(* is the sequence of what was hashed.  All commands run in one task, so a *)
(* command is one action, unless a restart cuts it short.                  *)
(***************************************************************************)
EXTENDS Integers, Sequences

CONSTANTS
    Images,     \* image versions (VERSION_MIMG_SHA)
    Packages,   \* the delta packages the host may send, genuine or not
    ShaPart,    \* leading header units that are not hashed
    HeadLen,    \* sizeof(delta_head_info_t)
    BlockLens,  \* block lengths a host may use, at most 512 bytes
    AreaBase,   \* end of the running image, start of the area for packages
    AreaLen,    \* length up to FOTA_BACKUP_BASE: xy_get_OTA_flash_info
    FlashEnd,
    Code,       \* what lies in flash below AreaBase: the running image
    Erased, Garbage, None, Broken

PackageRecords ==
    [magic : BOOLEAN, genuine : BOOLEAN, old : Images, new : Images,
     base : Nat, len : Nat]

ASSUME SizesAssumption ==
    /\ ShaPart \in Nat \ {0} /\ HeadLen \in Nat /\ ShaPart < HeadLen
    /\ AreaBase \in Nat /\ AreaLen \in Nat /\ FlashEnd \in Nat
    /\ BlockLens \subseteq Nat \ {0}

\* The erase, as long as the whole area, ends before flash does.
ASSUME PackagesAssumption ==
    /\ Packages \subseteq PackageRecords
    /\ \A p \in Packages : p.len > HeadLen /\ p.base + AreaLen <= FlashEnd
    /\ AreaBase + AreaLen <= FlashEnd

Units == Packages \X Nat
ASSUME ValuesAssumption ==
    /\ {Erased, Code, Garbage} \cap Units = {}
    /\ Erased # Code /\ Erased # Garbage /\ Code # Garbage
    /\ None \notin Nat /\ Broken \notin Images

VARIABLES
    fota_status,  \* AT_FOTA_IDLE, _DOWNING, _DOWNED, _UPDATE; or "off": in reset
    pos,          \* the host's place in the package: length of the block_num blocks taken
    head,         \* the units received of head_info
    recv_size,
    flash_base,
    hashed,       \* what hmacInput was given
    finished,     \* hmacResult was called on this context
    flash,
    info,         \* FOTA_UPDATE_INFO_ADDR: base of the package to apply, or None
    result,       \* FOTA_RESULT_FLASH_BASE: 1, 2, or None
    fota_res,     \* the bits of g_softap_fac_nv->fota_res, as saved
    ota_status_flag,
    image,        \* the image in flash
    low,          \* g_vBat_is_low, set until the next reset
    boot,         \* RB_BY_LOW_VOL or another reason of the last restart
    refusedAt     \* history: where the block began that ended a refused header

context == <<pos, head, recv_size, flash_base, hashed, finished>>
outcome == <<result, fota_res, ota_status_flag>>
vars == <<fota_status, context, flash, info, outcome, image, low, boot, refusedAt>>

Addrs == 0..(FlashEnd - 1)
Contents == Units \cup {Erased, Code, Garbage}

TypeOK ==
    /\ fota_status \in {"idle", "downing", "downed", "update", "off"}
    /\ pos \in Nat
    /\ head \in Seq(Units) /\ hashed \in Seq(Units)
    /\ recv_size \in Nat /\ flash_base \in Nat
    /\ finished \in BOOLEAN
    /\ flash \in [Addrs -> Contents]
    /\ info \in Nat \cup {None}
    /\ result \in {1, 2, None}
    /\ fota_res \in SUBSET {2, 4, 8}
    /\ ota_status_flag \in {"XY_OK", "XY_ERR"}
    /\ image \in Images \cup {Broken}
    /\ low \in BOOLEAN /\ boot \in {"lowvol", "other"}
    /\ refusedAt \in Nat \cup {None}

Init ==
    /\ fota_status = "idle"
    /\ pos = 0 /\ head = <<>> /\ recv_size = 0 /\ flash_base = AreaBase
    /\ hashed = <<>> /\ finished = FALSE
    /\ flash = [a \in Addrs |-> IF a < AreaBase THEN Code ELSE Erased]
    /\ info = None /\ result = None
    /\ fota_res = {} /\ ota_status_flag = "XY_ERR"
    /\ image \in Images
    /\ low = FALSE /\ boot = "other" /\ refusedAt = None

-----------------------------------------------------------------------------
(***************************************************************************)
(* Flash: NOR, a unit can only be programmed once after an erase.          *)
(***************************************************************************)
xy_flash_erase(f, addr, size) ==
    [a \in Addrs |-> IF a \in addr..(addr + size - 1) THEN Erased ELSE f[a]]

xy_flash_write_no_erase(f, addr, data) ==
    [a \in Addrs |->
        IF a \notin addr..(addr + Len(data) - 1) THEN f[a]
        ELSE IF f[a] = Erased THEN data[a - addr + 1] ELSE Garbage]

(***************************************************************************)
(* Low voltage.  Found the first time, it restarts the system; found after *)
(* such a restart, it latches, and every call to flash is refused from     *)
(* then on.                                                                *)
(***************************************************************************)
Permitted == ~low /\ low' = FALSE
RefusedOnce == (low \/ boot = "lowvol") /\ low' = FALSE
Refused == (low \/ boot = "lowvol") /\ low' = TRUE

\* The calls of one command: all are done, or those up to the one refused.
\* Nobody looks at their results.
Programs(full, parts) ==
    \/ Permitted /\ flash' = full
    \/ Refused /\ flash' \in IF low THEN {flash} ELSE parts

\* SAVE_FAC_PARAM writes what has changed; refused, it restarts the system.
SAVE_FAC_PARAM(res) ==
    /\ low => res = fota_res
    /\ fota_res' = res

-----------------------------------------------------------------------------
(***************************************************************************)
(* AT+NFWUPD=0: a new context, after the old one, if any, was given up.    *)
(***************************************************************************)
Ready == fota_status \notin {"off", "update"}

FreshContext ==
    /\ pos' = 0 /\ head' = <<>> /\ recv_size' = 0 /\ flash_base' = AreaBase
    /\ hashed' = <<>> /\ finished' = FALSE

\* ota_update_deInit saves 2, ota_update_Init 0.
at_fota_Flash_Erase ==
    /\ Ready /\ (low => fota_status = "idle")
    /\ SAVE_FAC_PARAM({})
    /\ fota_status' = "downing"
    /\ FreshContext
    /\ refusedAt' = None
    /\ UNCHANGED <<flash, info, result, ota_status_flag, image, low, boot>>

-----------------------------------------------------------------------------
(***************************************************************************)
(* AT+NFWUPD=1: a block.                                                   *)
(***************************************************************************)

\* The n units of package p from the host's place on.
Block(p, n) == [i \in 1..n |-> <<p, pos + i>>]

MagicOk(h) == h[1][1].magic
ota_version_check(h) == h[ShaPart + 1][1].old = image
PacketBase(h) == h[HeadLen][1].base

HeadOkAnywhere(h) == MagicOk(h) /\ ota_version_check(h)
HeadOk(h) == MagicOk(h) /\ ota_version_check(h) /\ PacketBase(h) >= AreaBase

\* hmacInput after hmacResult is refused.
HmacInput(data) == IF finished THEN hashed ELSE hashed \o data

Taken(pkt) == pos' = pos + Len(pkt) /\ UNCHANGED refusedAt

HeadPart(pkt) ==
    /\ recv_size + Len(pkt) < HeadLen
    /\ head' = head \o pkt
    /\ recv_size' = recv_size + Len(pkt)
    /\ Taken(pkt)
    /\ UNCHANGED <<flash_base, hashed, flash, low>>

FullHead(pkt) == head \o SubSeq(pkt, 1, HeadLen - recv_size)
AfterHead(pkt) == SubSeq(pkt, HeadLen - recv_size + 1, Len(pkt))

HeadEnds(pkt) == recv_size < HeadLen /\ recv_size + Len(pkt) >= HeadLen

\* The header is complete and refused: recv_size was already advanced, and
\* the host will send the block again.
HeadRefused(pkt) ==
    /\ HeadEnds(pkt) /\ ~HeadOk(FullHead(pkt))
    /\ head' = FullHead(pkt)
    /\ recv_size' = HeadLen
    /\ refusedAt' = pos
    /\ UNCHANGED <<pos, flash_base, hashed, flash, low>>

\* The area is erased from the package's base on, and the header programmed.
WithHead(base, h) ==
    xy_flash_write_no_erase(xy_flash_erase(flash, base, AreaLen), base, h)
WriteHead(base, h, rest) == xy_flash_write_no_erase(WithHead(base, h), base + HeadLen, rest)
HeadStages(base, h) == {flash, xy_flash_erase(flash, base, AreaLen), WithHead(base, h)}

HeadAccepted(pkt) ==
    /\ HeadEnds(pkt) /\ HeadOk(FullHead(pkt))
    /\ head' = FullHead(pkt)
    /\ recv_size' = recv_size + Len(pkt)
    /\ flash_base' = PacketBase(FullHead(pkt))
    /\ hashed' = HmacInput(SubSeq(FullHead(pkt), ShaPart + 1, HeadLen) \o AfterHead(pkt))
    /\ Programs(WriteHead(PacketBase(FullHead(pkt)), FullHead(pkt), AfterHead(pkt)),
                HeadStages(PacketBase(FullHead(pkt)), FullHead(pkt)))
    /\ Taken(pkt)

\* The packet after one that ended with the header erases and writes it again.
WriteBodyOnce(pkt) == xy_flash_write_no_erase(flash, flash_base + HeadLen, pkt)
WriteBody(pkt) ==
    IF recv_size = HeadLen THEN WriteHead(flash_base, head, pkt)
    ELSE xy_flash_write_no_erase(flash, flash_base + recv_size, pkt)
BodyStages == IF recv_size = HeadLen THEN HeadStages(flash_base, head) ELSE {flash}

BodyPart(pkt) ==
    /\ recv_size >= HeadLen
    /\ Programs(WriteBody(pkt), BodyStages)
    /\ recv_size' = recv_size + Len(pkt)
    /\ hashed' = HmacInput(pkt)
    /\ Taken(pkt)
    /\ UNCHANGED <<head, flash_base>>

TooLarge(pkt) == recv_size + Len(pkt) > AreaLen

ota_downlink_packet_proc(pkt) ==
    \/ HeadPart(pkt) \/ HeadRefused(pkt) \/ HeadAccepted(pkt) \/ BodyPart(pkt)

\* The host sends a block of some package, not always the one it began with,
\* from its place on.  A block that is out of turn, damaged or too large is
\* answered with an error and changes nothing: a stuttering step.
Sends(p, n) ==
    /\ fota_status = "downing"
    /\ pos + n <= p.len
    /\ ~TooLarge(Block(p, n))

at_fota_downing(p, n) ==
    /\ Sends(p, n)
    /\ ota_downlink_packet_proc(Block(p, n))
    /\ UNCHANGED <<fota_status, finished, info, outcome, image, boot>>

-----------------------------------------------------------------------------
(***************************************************************************)
(* AT+NFWUPD=2 and 5: the check and the update.                            *)
(***************************************************************************)

\* What a genuine package is signed for.
Digest(p) == [i \in 1..(p.len - ShaPart) |-> <<p, ShaPart + i>>]

\* total_sha, in the first units of head_info, is the digest of p.
ShaOf(p) ==
    /\ p.genuine
    /\ Len(head) >= ShaPart
    /\ \A i \in 1..ShaPart : head[i] = <<p, i>>

\* A second hmacResult on the same context gives another digest.
ota_delta_check_sync == ~finished /\ \E p \in Packages : ShaOf(p) /\ hashed = Digest(p)

at_fota_check ==
    /\ fota_status = "downing" /\ pos # 0
    /\ finished' = TRUE
    /\ fota_status' = IF ota_delta_check_sync THEN "downed" ELSE fota_status
    /\ UNCHANGED <<pos, head, recv_size, flash_base, hashed,
                   flash, info, outcome, image, low, boot, refusedAt>>

\* Writes the flag and the base, and waits for the watchdog's reset, whether
\* or not the write was refused.
UpdateUnchecked == fota_status \in {"downing", "downed"} /\ finished
UpdateReady == fota_status = "downed"

at_fota_update ==
    /\ UpdateReady
    /\ fota_status' = "update"
    /\ \/ Permitted /\ info' = flash_base
       \/ Refused /\ UNCHANGED info
    /\ UNCHANGED <<context, flash, outcome, image, boot, refusedAt>>

-----------------------------------------------------------------------------
(***************************************************************************)
(* Restarts, and what the secondary boot loader does.                      *)
(***************************************************************************)
Restart ==
    /\ fota_status' = "off"
    /\ FreshContext
    /\ ota_status_flag' = "XY_ERR"
    /\ low' = FALSE
    /\ boot' \in IF low \/ boot = "lowvol" THEN {"other"} ELSE {"lowvol", "other"}
    /\ UNCHANGED <<info, result, image, refusedAt>>

\* The reset that ends an update, a power failure, low voltage found for the
\* first time, or an assertion.
Reset ==
    /\ fota_status # "off"
    /\ Restart
    /\ UNCHANGED <<flash, fota_res>>

\* The same between two calls to flash of one block.
ResetInBlock(p, n) ==
    /\ Sends(p, n) /\ ~low
    /\ \/ /\ HeadEnds(Block(p, n)) /\ HeadOk(FullHead(Block(p, n)))
          /\ flash' \in HeadStages(PacketBase(FullHead(Block(p, n))), FullHead(Block(p, n)))
       \/ recv_size >= HeadLen /\ flash' \in BodyStages
    /\ Restart
    /\ UNCHANGED fota_res

\* Another task found the voltage low once more.
xy_check_low_vBat ==
    /\ fota_status # "off" /\ Refused
    /\ UNCHANGED <<fota_status, context, flash, info, outcome, image, boot, refusedAt>>

\* The image a package in flash at address a leads to.
Holds(p, a) == \A i \in 1..p.len : flash[a + i - 1] = <<p, i>>
Applied(a) == {p.new : p \in {q \in Packages : q.old = image /\ Holds(q, a)}}

\* The secondary boot loader applies the package, or gives it up and keeps the
\* image; a package that is not whole or not for this image breaks it.
BootLoader ==
    \/ info = None /\ UNCHANGED <<info, result, image>>
    \/ info # None /\ info' = None /\ result' = 2 /\ UNCHANGED image
    \/ /\ info # None /\ info' = None /\ result' = 1
       /\ image' \in IF Applied(info) = {} THEN {Broken} ELSE Applied(info)

Boot ==
    /\ fota_status = "off"
    /\ BootLoader
    /\ fota_status' = "idle"
    /\ UNCHANGED <<context, flash, fota_res, ota_status_flag, low, boot, refusedAt>>

ResultBitsShifted == IF result = 1 THEN {1, 2} ELSE {1, 4}
ResultBits == IF result = 1 THEN {2, 4} ELSE {2, 8}

\* The result is saved, then erased: refused, it will be read once more.
ota_update_result ==
    /\ Ready /\ result # None
    /\ SAVE_FAC_PARAM(fota_res \cup ResultBits)
    /\ ota_status_flag' = IF result = 1 THEN "XY_OK" ELSE "XY_ERR"
    /\ \/ Permitted /\ result' = None
       \/ Refused /\ UNCHANGED result
    /\ UNCHANGED <<fota_status, context, flash, info, image, boot, refusedAt>>

\* A restart after one of a command's saves: of ota_update_deInit, or before
\* the result is erased.
ResetInSave ==
    /\ Ready /\ ~low
    /\ \/ fota_status # "idle" /\ fota_res' = {2}
       \/ result # None /\ fota_res' = fota_res \cup ResultBits
    /\ Restart
    /\ UNCHANGED flash

Next ==
    \/ at_fota_Flash_Erase
    \/ \E p \in Packages, n \in BlockLens : at_fota_downing(p, n)
    \/ at_fota_check
    \/ at_fota_update
    \/ ota_update_result
    \/ xy_check_low_vBat
    \/ Reset
    \/ \E p \in Packages, n \in BlockLens : ResetInBlock(p, n)
    \/ ResetInSave
    \/ Boot

Spec == Init /\ [][Next]_vars

-----------------------------------------------------------------------------
\* The one way around the header's checks: after a refused header the rest is
\* taken as body unchecked, and if the refused block began where the hashed
\* part does, the digest is that of a whole package.
HeaderSlips == refusedAt = ShaPart

\* What is handed to the boot loader is a whole, genuine package made for the
\* image in flash and lying where the boot loader is told: whatever blocks
\* were repeated, mixed or refused before, whichever writes were refused for
\* low voltage, and whenever the system restarted.  A package with gaps may
\* pass the check, but then the flag is refused as well.
Intact(a) == \E p \in Packages : p.genuine /\ p.old = image /\ Holds(p, a)

HandedOverIsWhole ==
    /\ fota_status \in {"downed", "update"} /\ ~low /\ ~HeaderSlips => Intact(flash_base)
    /\ info # None /\ ~HeaderSlips => Intact(info)

\* The hash covers what lies in flash: after an accepted header, and as long
\* as no write was refused, every block that was hashed was programmed at the
\* place its order gives it.
HashIsOfFlash ==
    /\ fota_status = "downing" /\ ~finished /\ ~low
    /\ recv_size >= HeadLen /\ refusedAt = None
    => /\ Len(hashed) = recv_size - ShaPart
       /\ \A i \in 1..Len(hashed) : flash[flash_base + ShaPart + i - 1] = hashed[i]

\* No download, refused or cut short, erases or programs the running image.
RunningImageKept == \A a \in Addrs : a < AreaBase => flash[a] = Code

\* The image changes only by a genuine delta made for it.
OnlyGenuineUpdates ==
    [][image' # image /\ ~HeaderSlips =>
          \E p \in Packages : p.genuine /\ p.old = image /\ p.new = image']_vars

\* Does not hold: the update promised without the exception above.
HandedOverAlwaysWhole == info # None => Intact(info)

-----------------------------------------------------------------------------
(***************************************************************************)
(* The inductive invariant of the proofs.                                  *)
(***************************************************************************)
Downing == fota_status = "downing"

HeadReceived ==
    /\ recv_size <= AreaLen
    /\ Len(head) = IF recv_size < HeadLen THEN recv_size ELSE HeadLen
    /\ Downing /\ recv_size < HeadLen =>
          hashed = <<>> /\ recv_size = pos /\ refusedAt = None

\* After an accepted header flash holds it, and behind it what was hashed.
AcceptedHead ==
    /\ refusedAt = None
    /\ ~low =>
        /\ Len(hashed) = recv_size - ShaPart
        /\ ota_version_check(head)
        /\ flash_base + AreaLen <= FlashEnd
        /\ \A i \in 1..HeadLen : flash[flash_base + i - 1] = head[i]
        /\ \A i \in 1..Len(hashed) : flash[flash_base + ShaPart + i - 1] = hashed[i]
        /\ \A a \in (flash_base + recv_size)..(flash_base + AreaLen - 1) : flash[a] = Erased

\* After a refused one the hash is of what came from the refused block on.
RefusedHead ==
    /\ refusedAt \in Nat
    /\ pos = refusedAt + Len(hashed)
    /\ hashed # <<>> => hashed[1][2] = refusedAt + 1

HeadDecided ==
    Downing /\ ~finished /\ recv_size >= HeadLen => AcceptedHead \/ RefusedHead

InfoOnlyForBoot == info # None => fota_status \in {"update", "off"}
BaseAboveImage == flash_base >= AreaBase

FotaInv ==
    /\ HeadReceived /\ HeadDecided
    /\ HandedOverIsWhole /\ InfoOnlyForBoot
    /\ BaseAboveImage /\ RunningImageKept
=============================================================================
