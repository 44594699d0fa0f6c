------------------------------ MODULE FtlPages ------------------------------
(***************************************************************************)
(* The page format of the EFTL wear-levelling layer (SYSLIB/flash).        *)
(*                                                                         *)
(* A region is a ring of NPages 4K sectors.  A sector holds a magic word   *)
(* at offset 0, the user data from offset 4, and a tail tag: a checksum of *)
(* everything below the tag and the 32-bit write_num, which the checksum   *)
(* does not cover.  The data is the value of every parameter stored in it. *)
(* Contents that were erased or damaged are the single value Damaged: the  *)
(* checksum is taken to detect exactly that.                               *)
(***************************************************************************)
EXTENDS Integers

CONSTANTS
    NPages,          \* tpage_total: sectors of the region
    Params,          \* the parameters a sector stores, written one at a time
    Vals,            \* the values of a parameter
    Damaged,         \* contents whose checksum does not match
    ErasedNum,       \* 0xFFFFFFFF, the write_num of an erased sector
    DefaultContents  \* what a first write starts from: zeroes, or the main factory NV

Contents == [Params -> Vals]

ASSUME NPagesAssumption    == NPages \in Nat \ {0}
ASSUME ErasedNumAssumption == ErasedNum \in Nat /\ ErasedNum > 2
ASSUME DamagedAssumption   == Damaged \notin Contents
ASSUME DefaultAssumption   == DefaultContents \in Contents

Pages == 0 .. NPages - 1

\* "no page": cur_ftl_idx = -1
NoPage == -1

Page == [magic : BOOLEAN, num : 0 .. ErasedNum, data : Contents \cup {Damaged}]

\* A sector after FLASH_SectorErase: all bits one.
Blank == [magic |-> FALSE, num |-> ErasedNum, data |-> Damaged]

\* The calls: xy_ftl_read, and xy_ftl_write of one parameter.
ReadOp == [kind |-> "read"]
WriteOps == [kind : {"write"}, param : Params, val : Vals]

(***************************************************************************)
(* The three tests of a page: its head and tail look written, its stored   *)
(* checksum matches, and both.                                             *)
(***************************************************************************)
HeadTailOk(page) == page.magic /\ page.num # ErasedNum /\ page.num # 0

ChecksumOk(page) == page.data # Damaged

PageValid(page) == HeadTailOk(page) /\ ChecksumOk(page)

\* The write_num given to the page written after one numbered n.
NextNumStuck(n) == IF n = ErasedNum THEN 1 ELSE n
NextNum(n) == (IF n = ErasedNum THEN 0 ELSE n) + 1

\* The ring order in which pages are written.
NextPageUnwrapped(p) == p + 1
NextPageStuck(p) == p
NextPage(p) == (p + 1) % NPages

(***************************************************************************)
(* One pass of the scan loop started with max_writenum = floor: the pages  *)
(* it may take are the written ones numbered floor or more, and it keeps   *)
(* the last of those with the highest number.                              *)
(***************************************************************************)
ScanCandidates(f, floor) == {p \in Pages : HeadTailOk(f[p]) /\ floor <= f[p].num}

IsScanResult(f, floor, p) ==
    /\ p \in ScanCandidates(f, floor)
    /\ \A q \in ScanCandidates(f, floor) :
          \/ f[q].num < f[p].num
          \/ f[q].num = f[p].num /\ q <= p

\* The page image xy_ftl_write builds to store v in parameter p: the current
\* page (or the default contents, numbered 0) with the parameter replaced and
\* the write_num advanced.
PageImage(f, cur, p, v) ==
    [magic |-> TRUE,
     num   |-> IF cur = NoPage THEN 1 ELSE NextNum(f[cur].num),
     data  |-> IF cur = NoPage THEN [DefaultContents EXCEPT ![p] = v]
                               ELSE [f[cur].data EXCEPT ![p] = v]]
=============================================================================
