----------------------------- MODULE FtlProofs -----------------------------
(***************************************************************************)
(* Proofs about one EFTL region, with one call at a time (Ftl) and with    *)
(* several tasks (FtlTasks), for every number of sectors and tasks, every  *)
(* set of parameters and values, and every width of write_num.             *)
(***************************************************************************)
EXTENDS Ftl, FtlTasks, TLAPS, WellFoundedInduction, FiniteSetTheorems

USE NPagesAssumption, ErasedNumAssumption, DamagedAssumption, DefaultAssumption,
    FlagsAssumption, NoneAssumption

-----------------------------------------------------------------------------
(* Facts about the operators of FtlPages.                                  *)

\* The ring order stays in the region.
LEMMA NextPageType == \A p \in Pages : NextPage(p) \in Pages
  BY SMT DEF NextPage, Pages

\* In a ring of several sectors the sector written next is another one.
LEMMA NextPageDiffers == NPages > 1 => \A p \in Pages : NextPage(p) # p
  BY SMT DEF NextPage, Pages

\* Advancing a 32-bit write_num stays in its width.
LEMMA NextNumType == \A n \in 0 .. ErasedNum : NextNum(n) \in 1 .. ErasedNum
  BY SMT DEF NextNum

LEMMA BlankType == Blank \in Page
  BY DEF Blank, Page

\* The image xy_ftl_write builds from no page, or from an intact one, is a page.
LEMMA PageImageType ==
  ASSUME NEW f \in [Pages -> Page], NEW c \in Pages \cup {NoPage},
         NEW p \in Params, NEW v \in Vals,
         c # NoPage => ChecksumOk(f[c])
  PROVE  PageImage(f, c, p, v) \in Page
  <1>1. CASE c = NoPage
    <2>1. [DefaultContents EXCEPT ![p] = v] \in Contents
      BY DEF Contents
    <2>2. QED
      BY <1>1, <2>1 DEF PageImage, Page
  <1>2. CASE c # NoPage
    <2>1. f[c].data \in Contents /\ f[c].num \in 0 .. ErasedNum
      BY <1>2 DEF ChecksumOk, Page
    <2>2. [f[c].data EXCEPT ![p] = v] \in Contents
      BY <2>1 DEF Contents
    <2>3. NextNum(f[c].num) \in 0 .. ErasedNum
      BY <2>1, NextNumType
    <2>4. QED
      BY <1>2, <2>2, <2>3 DEF PageImage, Page
  <1>3. QED
    BY <1>1, <1>2

\* What an interrupted erase or program leaves is a page.
LEMMA TornType ==
  ASSUME NEW x \in Page
  PROVE  TornErase(x) \subseteq Page /\ TornProgram(x) \subseteq Page
  <1>1. x.num \in 0 .. ErasedNum /\ ErasedNum \in 0 .. ErasedNum
        /\ x.magic \in BOOLEAN /\ x.data \in Contents \cup {Damaged}
    BY DEF Page
  <1>2. \A m \in BOOLEAN, n \in 0 .. ErasedNum, d \in Contents \cup {Damaged} :
           [magic |-> m, num |-> n, data |-> d] \in Page
    BY DEF Page
  <1>3. TornMagic(x.magic) \subseteq BOOLEAN
    BY <1>1, Zenon DEF TornMagic
  <1>4. TornNum(x.num) \subseteq 0 .. ErasedNum /\ TornNum(ErasedNum) \subseteq 0 .. ErasedNum
    BY <1>1 DEF TornNum
  <1>5. TornErase(x) \subseteq Page
    BY <1>2, <1>3, <1>4, BlankType DEF TornErase
  <1>6. TornProgram(x) \subseteq Page
    BY <1>1, <1>2, <1>3, <1>4, BlankType DEF TornProgram
  <1>7. QED
    BY <1>5, <1>6

-----------------------------------------------------------------------------
(* Type correctness, together with the fact that makes it inductive: a     *)
(* page that passed the checksum is still good when it is used.            *)

LEMMA TypeInit == Init => TypeOK /\ VerifiedInv
  <1> SUFFICES ASSUME Init PROVE TypeOK /\ VerifiedInv
    OBVIOUS
  <1>1. flash \in [Pages -> Page] /\ buf \in Page
    BY BlankType DEF Init
  <1>2. 0 \in Pages /\ 0 \in 0 .. ErasedNum
    BY DEF Pages
  <1>3. QED
    BY <1>1, <1>2 DEF Init, TypeOK, VerifiedInv, PCs, Results, NoResult

LEMMA TypeStep == TypeOK /\ VerifiedInv /\ [Next]_vars => TypeOK' /\ VerifiedInv'
  <1> SUFFICES ASSUME TypeOK, VerifiedInv, [Next]_vars
               PROVE  TypeOK' /\ VerifiedInv'
    OBVIOUS
  <1> USE DEF TypeOK, VerifiedInv, PCs
  <1>a. NoResult \in Results
    BY DEF NoResult, Results
  <1>b. 0 \in Pages /\ 0 \in 0 .. ErasedNum
    BY DEF Pages
  <1>1. CASE LowVoltageReset
    BY <1>1, <1>a DEF LowVoltageReset, Reboot, call
  <1>2. CASE CallRead
    BY <1>2, <1>a, <1>b DEF CallRead, StartCall, power
  <1>3. CASE CallWrite
    BY <1>3, <1>a, <1>b DEF CallWrite, StartCall, power
  <1>4. CASE Scan
    BY <1>4, <1>b DEF Scan, power, Page, IsScanResult
  <1>5. CASE Verify
    BY <1>5, NextPageType DEF Verify, power
  <1>6. CASE DropBadPage
    BY <1>6, BlankType DEF DropBadPage, call
  <1>7. CASE ReadPage
    <2>1. cur # NoPage => flash[cur].data \in Contents \cup {Damaged}
      BY DEF Page
    <2>2. QED
      BY <1>7, <2>1 DEF ReadPage, Return, call, power, Results
  <1>8. CASE SkipEqualWrite
    BY <1>8 DEF SkipEqualWrite, Return, call, power, Results
  <1>9. CASE ComposePage
    <2>1. op \in WriteOps /\ op.param \in Params /\ op.val \in Vals
      BY <1>9 DEF ComposePage, ReadOp, WriteOps
    <2>2. cur # NoPage => ChecksumOk(flash[cur])
      BY <1>9 DEF ComposePage
    <2>3. buf' \in Page
      BY <1>9, <2>1, <2>2, PageImageType DEF ComposePage
    <2>4. QED
      BY <1>9, <2>3 DEF ComposePage, power
  <1>10. CASE FlashWrite
    <2>1. CASE VbatPermits /\ pc' = "erase" /\ UNCHANGED <<ret, low>>
      BY <1>10, <2>1 DEF FlashWrite, call
    <2>2. CASE VbatRefuses /\ low' = TRUE /\ Return("lowvbat", None)
      BY <1>10, <2>2 DEF FlashWrite, Return, call, Results
    <2>3. QED
      BY <1>10, <2>1, <2>2 DEF FlashWrite
  <1>11. CASE EraseNext
    BY <1>11, BlankType DEF EraseNext, call, power
  <1>12. CASE ProgramNext
    BY <1>12 DEF ProgramNext, call, power
  <1>13. CASE ReturnWritten
    BY <1>13 DEF ReturnWritten, Return, call, power, Results
  <1>14. CASE PowerLoss
    <2>1. flash' \in [Pages -> Page]
      BY <1>14, TornType DEF PowerLoss
    <2>2. QED
      BY <1>14, <2>1, <1>a DEF PowerLoss, Reboot, call
  <1>15. CASE SectorDecays
    <2>1. \A p \in Pages : [flash[p] EXCEPT !.data = Damaged] \in Page
      BY DEF Page
    <2>2. flash' \in [Pages -> Page]
      BY <1>15, <2>1 DEF SectorDecays
    <2>3. QED
      BY <1>15, <2>2 DEF SectorDecays, call, power
  <1>16. CASE VoltageChange
    BY <1>16 DEF VoltageChange, call
  <1>17. CASE UNCHANGED vars
    BY <1>17 DEF vars
  <1>18. QED
    BY <1>1, <1>2, <1>3, <1>4, <1>5, <1>6, <1>7, <1>8, <1>9, <1>10, <1>11, <1>12,
       <1>13, <1>14, <1>15, <1>16, <1>17 DEF Next, Step

\* The region, the local variables of the call in progress and its result
\* keep their types, whatever faults are possible.
THEOREM TypeCorrect == Spec => []TypeOK
  <1>1. Init => TypeOK /\ VerifiedInv
    BY TypeInit
  <1>2. TypeOK /\ VerifiedInv /\ [Next]_vars => TypeOK' /\ VerifiedInv'
    BY TypeStep
  <1>3. QED
    BY <1>1, <1>2, PTL DEF Spec

\* xy_ftl_read never returns damaged contents as good ones, whatever an
\* interrupted erase or program and a worn sector leave in the flash.
THEOREM DamageIsNeverRead == Spec => []NoDamagedRead
  <1>1. Init => NoDamagedRead
    BY DEF Init, NoResult, NoDamagedRead
  <1>2. TypeOK /\ VerifiedInv /\ NoDamagedRead /\ [Next]_vars => NoDamagedRead'
    <2> SUFFICES ASSUME TypeOK, VerifiedInv, NoDamagedRead, [Next]_vars
                 PROVE  NoDamagedRead'
      OBVIOUS
    <2> USE DEF NoDamagedRead
    <2>1. CASE ReadPage
      <3>1. cur # NoPage => flash[cur].data # Damaged
        BY <2>1 DEF ReadPage, VerifiedInv, ChecksumOk
      <3>2. QED
        BY <2>1, <3>1 DEF ReadPage, Return
    <2>2. CASE \/ SkipEqualWrite \/ ReturnWritten \/ FlashWrite
      BY <2>2 DEF SkipEqualWrite, ReturnWritten, FlashWrite, Return
    <2>3. CASE \/ LowVoltageReset \/ PowerLoss \/ CallRead \/ CallWrite
      BY <2>3 DEF LowVoltageReset, PowerLoss, Reboot, CallRead, CallWrite, StartCall, NoResult
    <2>4. CASE \/ Scan \/ Verify \/ DropBadPage \/ ComposePage \/ EraseNext \/ ProgramNext
               \/ SectorDecays \/ VoltageChange \/ UNCHANGED vars
      BY <2>4 DEF Scan, Verify, DropBadPage, ComposePage, EraseNext, ProgramNext,
                  SectorDecays, VoltageChange, vars
    <2>5. QED
      BY <2>1, <2>2, <2>3, <2>4 DEF Next, Step
  <1>3. QED
    BY <1>1, <1>2, TypeInit, TypeStep, PTL DEF Spec

-----------------------------------------------------------------------------
(* The ring.  Sectors of the kind the tags describe faithfully: an         *)
(* interrupted operation garbles no tag and no sector goes bad.            *)

CleanRing == NPages > 1 /\ ~GarbledTags /\ ~PageDecay

\* Changing a sector that is not the newest, without numbering it anew,
\* disturbs nothing.
LEMMA HarmlessUpdate ==
  ASSUME TypeOK, NumsDiffer, TopIsIntact,
         NEW t \in Pages, Top(t),
         NEW p \in Pages, p # t,
         NEW x \in Page,
         HeadTailOk(x) => Written(p) /\ x.num = flash[p].num,
         flash' = [flash EXCEPT ![p] = x]
  PROVE  NumsDiffer' /\ TopIsIntact' /\ Top(t)' /\ (NumLimit => NumLimit')
  <1>1. \A q \in Pages : Written(q)' => Written(q) /\ flash'[q].num = flash[q].num
    BY DEF TypeOK, Written
  <1>2. flash'[t] = flash[t] /\ Written(t)'
    BY DEF TypeOK, Top, Written
  <1>3. NumsDiffer'
    BY <1>1 DEF NumsDiffer
  <1>4. Top(t)'
    BY <1>1, <1>2 DEF Top
  <1>5. \A q \in Pages : Top(q)' => q = t
    <2> SUFFICES ASSUME NEW q \in Pages, Top(q)' PROVE q = t
      OBVIOUS
    <2>1. flash[t].num <= flash[q].num /\ Written(q)
      BY <1>1, <1>2 DEF Top
    <2>2. flash[q].num <= flash[t].num /\ Written(t)
      BY <2>1 DEF Top
    <2>3. flash[q].num \in Int /\ flash[t].num \in Int
      BY DEF TypeOK, Page
    <2>4. flash[q].num = flash[t].num
      BY <2>1, <2>2, <2>3
    <2>5. QED
      BY <2>1, <2>2, <2>4 DEF NumsDiffer
  <1>6. TopIsIntact'
    BY <1>2, <1>5 DEF TopIsIntact
  <1>7. NumLimit => NumLimit'
    BY <1>1 DEF NumLimit, Written
  <1>8. QED
    BY <1>3, <1>4, <1>6, <1>7

\* In a region with no written sector, a sector that does not look written
\* changes nothing.
LEMMA EmptyUpdate ==
  ASSUME TypeOK, \A q \in Pages : ~Written(q),
         NEW p \in Pages, NEW x \in Page, ~HeadTailOk(x),
         flash' = [flash EXCEPT ![p] = x]
  PROVE  /\ \A q \in Pages : ~Written(q)'
         /\ NumsDiffer' /\ TopIsIntact' /\ NumLimit'
  <1>1. \A q \in Pages : ~Written(q)'
    BY DEF TypeOK, Written
  <1>2. QED
    BY <1>1 DEF NumsDiffer, TopIsIntact, Top, NumLimit, Written

\* A good page numbered above all others becomes the newest.
LEMMA NewestUpdate ==
  ASSUME TypeOK, NumsDiffer,
         NEW p \in Pages, NEW x \in Page, PageValid(x),
         \A q \in Pages : Written(q) => flash[q].num < x.num,
         flash' = [flash EXCEPT ![p] = x]
  PROVE  NumsDiffer' /\ TopIsIntact' /\ Top(p)'
  <1>0. x.num \in Int /\ \A q \in Pages : flash[q].num \in Int
    BY DEF TypeOK, Page
  <1>1. flash'[p] = x /\ \A q \in Pages : q # p => flash'[q] = flash[q]
    BY DEF TypeOK
  <1>2. Written(p)' /\ \A q \in Pages : q # p /\ Written(q)' => Written(q) /\ flash'[q].num < x.num
    BY <1>1 DEF Written, PageValid
  <1>3. NumsDiffer'
    BY <1>0, <1>1, <1>2 DEF NumsDiffer, Written
  <1>4. Top(p)'
    BY <1>0, <1>1, <1>2 DEF Top
  <1>5. \A q \in Pages : Top(q)' => q = p
    BY <1>0, <1>1, <1>2 DEF Top
  <1>6. TopIsIntact'
    BY <1>1, <1>5 DEF TopIsIntact, PageValid
  <1>7. QED
    BY <1>3, <1>4, <1>6

\* The image of a write is a good page numbered above all written sectors.
LEMMA ImageIsNewest ==
  ASSUME TypeOK, TopIsIntact, ChosenInv, NumLimit, op \in WriteOps
  PROVE  LET img == PageImage(flash, cur, op.param, op.val)
         IN  /\ img \in Page
             /\ PageValid(img)
             /\ \A q \in Pages : Written(q) => flash[q].num < img.num
  <1> DEFINE img == PageImage(flash, cur, op.param, op.val)
  <1>1. op.param \in Params /\ op.val \in Vals
    BY DEF WriteOps
  <1>2. CASE cur = NoPage
    <2>0. NoPage \notin Pages
      BY DEF NoPage, Pages
    <2>1. \A q \in Pages : ~Written(q)
      BY <1>2, <2>0 DEF ChosenInv, Top
    <2>2. img \in Page
      BY <1>1, <1>2, PageImageType DEF TypeOK
    <2>3. img.magic = TRUE /\ img.num = 1 /\ img.data \in Contents
      BY <1>1, <1>2 DEF PageImage, Contents
    <2>4. PageValid(img)
      BY <2>3 DEF PageValid, HeadTailOk, ChecksumOk
    <2>5. QED
      BY <2>1, <2>2, <2>4
  <1>3. CASE cur # NoPage
    <2>1. Top(cur) /\ cur \in Pages /\ Written(cur)
      BY <1>3 DEF ChosenInv, Top
    <2>2. flash[cur].data \in Contents /\ flash[cur].num \in 1 .. ErasedNum - 2
      BY <2>1 DEF TopIsIntact, ChecksumOk, TypeOK, Page, NumLimit, Written, HeadTailOk
    <2>3. img \in Page
      BY <1>1, <1>3, <2>1, PageImageType DEF TypeOK, TopIsIntact
    <2>4. img.magic = TRUE /\ img.num = flash[cur].num + 1 /\ img.data \in Contents
      BY <1>1, <1>3, <2>2 DEF PageImage, NextNum, Contents
    <2>5. PageValid(img)
      BY <2>2, <2>4 DEF PageValid, HeadTailOk, ChecksumOk
    <2>6. \A q \in Pages : Written(q) => flash[q].num < img.num
      BY <2>1, <2>2, <2>4 DEF Top, TypeOK, Page
    <2>7. QED
      BY <2>3, <2>5, <2>6
  <1>4. QED
    BY <1>2, <1>3

\* Without garbled tags, an interrupted erase numbers no sector anew and an
\* interrupted program leaves the whole page or an unnumbered sector.
LEMMA TornIsHarmless ==
  ASSUME ~GarbledTags, NEW x \in Page
  PROVE  /\ \A y \in TornErase(x) : HeadTailOk(y) => HeadTailOk(x) /\ y.num = x.num
         /\ \A y \in TornProgram(x) : y = x \/ ~HeadTailOk(y)
  <1>1. TornMagic(x.magic) = {x.magic, FALSE}
    BY DEF TornMagic
  <1>2. TornNum(x.num) = {x.num, ErasedNum} /\ TornNum(ErasedNum) = {ErasedNum}
    BY DEF TornNum
  <1>3. ASSUME NEW y \in TornErase(x), HeadTailOk(y)
        PROVE  HeadTailOk(x) /\ y.num = x.num
    <2>1. CASE y = x
      BY <1>3, <2>1
    <2>2. CASE y = Blank
      BY <1>3, <2>2 DEF Blank, HeadTailOk
    <2>3. CASE \E m \in TornMagic(x.magic), n \in TornNum(x.num) :
                  y = [magic |-> m, num |-> n, data |-> Damaged]
      <3>1. PICK m \in {x.magic, FALSE}, n \in {x.num, ErasedNum} :
                  y = [magic |-> m, num |-> n, data |-> Damaged]
        BY <1>1, <1>2, <2>3
      <3>2. y.magic = m /\ y.num = n /\ y.magic /\ y.num # ErasedNum /\ y.num # 0
        BY <1>3, <3>1 DEF HeadTailOk
      <3>3. m = x.magic /\ n = x.num
        BY <3>2
      <3>4. QED
        BY <3>2, <3>3 DEF HeadTailOk
    <2>4. QED
      BY <1>3, <2>1, <2>2, <2>3 DEF TornErase
  <1>4. ASSUME NEW y \in TornProgram(x), y # x
        PROVE  ~HeadTailOk(y)
    BY <1>2, <1>4 DEF TornProgram, Blank, HeadTailOk
  <1>5. QED
    BY <1>3, <1>4

\* A sector operation on the sector after the newest one: the ring survives.
LEMMA NextSectorUpdate ==
  ASSUME CleanRing, TypeOK, NumsDiffer, TopIsIntact, ChosenInv,
         NEW x \in Page,
         HeadTailOk(x) => Written(next) /\ x.num = flash[next].num,
         flash' = [flash EXCEPT ![next] = x]
  PROVE  /\ NumsDiffer' /\ TopIsIntact'
         /\ NumLimit => NumLimit'
         /\ UNCHANGED <<cur, next>> => ChosenInv'
         /\ cur # NoPage => cur \in Pages /\ flash'[cur] = flash[cur]
  <1>0. PICK n \in Pages : n = next
    BY DEF TypeOK
  <1>0a. flash' = [flash EXCEPT ![n] = x] /\ (HeadTailOk(x) => Written(n) /\ x.num = flash[n].num)
    BY <1>0
  <1>1. CASE cur = NoPage
    <2>1. NoPage \notin Pages
      BY DEF NoPage, Pages
    <2>2. next = 0 /\ \A q \in Pages : ~Written(q)
      BY <1>1, <2>1 DEF ChosenInv, Top
    <2>3. ~HeadTailOk(x)
      BY <1>0a, <2>2
    <2>4. /\ \A q \in Pages : ~Written(q)'
          /\ NumsDiffer' /\ TopIsIntact' /\ NumLimit'
      BY <1>0a, <2>2, <2>3, EmptyUpdate
    <2>5. QED
      BY <1>1, <2>2, <2>4 DEF ChosenInv
  <1>2. CASE cur # NoPage
    <2>1. PICK c \in Pages : c = cur
      BY <1>2 DEF ChosenInv, Top
    <2>2. Top(c) /\ n = NextPage(c)
      BY <1>0, <1>2, <2>1 DEF ChosenInv
    <2>3. n # c
      BY <2>2, NextPageDiffers DEF CleanRing
    <2>4. NumsDiffer' /\ TopIsIntact' /\ (NumLimit => NumLimit') /\ Top(c)'
      BY <1>0a, <2>2, <2>3, HarmlessUpdate
    <2>5. flash'[c] = flash[c]
      BY <1>0a, <2>3 DEF TypeOK
    <2>6. UNCHANGED <<cur, next>> => ChosenInv'
      BY <1>0, <2>1, <2>2, <2>4 DEF ChosenInv, Top
    <2>7. QED
      BY <2>1, <2>4, <2>5, <2>6
  <1>3. QED
    BY <1>1, <1>2

LEMMA RingInit == Init => RingInv
  <1> SUFFICES ASSUME Init PROVE RingInv
    OBVIOUS
  <1>1. \A p \in Pages : ~Written(p)
    BY DEF Init, Written, HeadTailOk, Blank
  <1>2. QED
    BY <1>1 DEF Init, RingInv, NumsDiffer, TopIsIntact, Top, CallInv, Writing

LEMMA RingStep ==
  ASSUME CleanRing, TypeOK, VerifiedInv, RingInv, [Next]_vars
  PROVE  RingInv'
  <1> USE DEF RingInv
  <1>a. ASSUME UNCHANGED flash
        PROVE  NumsDiffer' /\ TopIsIntact' /\ (NumLimit => NumLimit')
    BY <1>a DEF NumsDiffer, TopIsIntact, Top, Written, NumLimit
  <1>b. ASSUME pc' = "idle"
        PROVE  CallInv'
    BY <1>b DEF CallInv, Writing
  <1>1. CASE LowVoltageReset
    BY <1>1, <1>a, <1>b DEF LowVoltageReset, Reboot
  <1>2. CASE CallRead
    <2>1. op' \notin WriteOps
      BY <1>2 DEF CallRead, StartCall, ReadOp, WriteOps
    <2>2. QED
      BY <1>2, <1>a, <2>1 DEF CallRead, StartCall, CallInv, Writing
  <1>3. CASE CallWrite
    BY <1>3, <1>a DEF CallWrite, StartCall, CallInv, Writing
  <1>4. CASE Scan
    <2>0. UNCHANGED <<flash, op>> /\ maxn = 0 /\ (op \in WriteOps => NumLimit)
      BY <1>4 DEF Scan, CallInv
    <2>1. \A p \in Pages : Written(p) <=> p \in ScanCandidates(flash, maxn)
      BY <2>0 DEF ScanCandidates, Written, HeadTailOk, TypeOK, Page
    <2>2. CASE ScanCandidates(flash, maxn) = {} /\ cur' = NoPage /\ next' = 0 /\ pc' = "chosen"
      <3>1. ChosenInv'
        BY <2>0, <2>1, <2>2 DEF ChosenInv, Written
      <3>2. CallInv'
        BY <2>0, <2>2, <3>1, <1>a DEF CallInv, Writing
      <3>3. QED
        BY <2>0, <1>a, <3>2
    <2>3. CASE \E p \in Pages : IsScanResult(flash, maxn, p) /\ cur' = p /\ pc' = "verify"
      <3>1. PICK p \in Pages : IsScanResult(flash, maxn, p) /\ cur' = p /\ pc' = "verify"
        BY <2>3
      <3>2. Top(p)
        BY <3>1, <2>1 DEF Top, IsScanResult, TypeOK, Page
      <3>3. Top(cur)'
        BY <2>0, <3>1, <3>2 DEF Top, Written
      <3>4. CallInv'
        BY <2>0, <3>1, <3>3, <1>a DEF CallInv, Writing
      <3>5. QED
        BY <2>0, <1>a, <3>4
    <2>4. QED
      BY <1>4, <2>2, <2>3 DEF Scan
  <1>5. CASE Verify
    <2>0. UNCHANGED <<flash, op, cur>> /\ Top(cur) /\ cur \in Pages
      BY <1>5 DEF Verify, CallInv, Top
    <2>1. ChecksumOk(flash[cur])
      BY <2>0 DEF TopIsIntact
    <2>2. pc = "verify" /\ next' = NextPage(cur) /\ pc' = "chosen"
      BY <1>5, <2>1 DEF Verify
    <2>3. ChosenInv'
      BY <2>0, <2>2 DEF ChosenInv, Top, Written
    <2>4. CallInv'
      BY <2>0, <2>2, <2>3, <1>a DEF CallInv, Writing
    <2>5. QED
      BY <2>0, <2>4, <1>a
  <1>6. CASE DropBadPage
    BY <1>6 DEF DropBadPage, CallInv
  <1>7. CASE ReadPage \/ SkipEqualWrite \/ ReturnWritten
    BY <1>7, <1>a, <1>b DEF ReadPage, SkipEqualWrite, ReturnWritten, Return
  <1>8. CASE ComposePage
    <2>1. UNCHANGED <<flash, op, cur, next>> /\ pc = "chosen" /\ pc' = "flash"
          /\ op \in WriteOps /\ buf' = PageImage(flash, cur, op.param, op.val)
      BY <1>8 DEF ComposePage, TypeOK, ReadOp
    <2>2. ChosenInv'
      BY <2>1 DEF CallInv, ChosenInv, Top, Written
    <2>3. CallInv'
      BY <2>1, <2>2, <1>a DEF CallInv, Writing
    <2>4. QED
      BY <2>1, <2>3, <1>a
  <1>9. CASE FlashWrite
    <2>1. UNCHANGED <<flash, op, cur, next, buf>> /\ pc = "flash" /\ pc' \in {"erase", "idle"}
      BY <1>9 DEF FlashWrite, Return, call
    <2>2. ChosenInv'
      BY <2>1 DEF CallInv, Writing, ChosenInv, Top, Written
    <2>3. CallInv'
      BY <2>1, <2>2, <1>a DEF CallInv, Writing
    <2>4. QED
      BY <2>1, <2>3, <1>a
  <1>10. CASE EraseNext
    <2>1. /\ UNCHANGED <<op, cur, next, buf>> /\ pc = "erase" /\ pc' = "program"
          /\ flash' = [flash EXCEPT ![next] = Blank]
      BY <1>10 DEF EraseNext, call
    <2>2. ChosenInv /\ NumLimit /\ op \in WriteOps /\ buf = PageImage(flash, cur, op.param, op.val)
      BY <2>1 DEF CallInv, Writing
    <2>3. ~HeadTailOk(Blank)
      BY DEF Blank, HeadTailOk
    <2>4. /\ NumsDiffer' /\ TopIsIntact' /\ NumLimit' /\ ChosenInv'
          /\ cur # NoPage => cur \in Pages /\ flash'[cur] = flash[cur]
      BY <2>1, <2>2, <2>3, BlankType, NextSectorUpdate
    <2>5. buf' = PageImage(flash, cur, op.param, op.val)'
      BY <2>1, <2>2, <2>4 DEF PageImage
    <2>6. CallInv'
      BY <2>1, <2>2, <2>4, <2>5 DEF CallInv, Writing
    <2>7. QED
      BY <2>4, <2>6
  <1>11. CASE ProgramNext
    <2>1. /\ UNCHANGED <<op, cur, next, buf>> /\ pc = "program" /\ pc' = "ack"
          /\ flash' = [flash EXCEPT ![next] = buf]
      BY <1>11 DEF ProgramNext, call
    <2>2. ChosenInv /\ NumLimit /\ op \in WriteOps /\ buf = PageImage(flash, cur, op.param, op.val)
      BY <2>1 DEF CallInv, Writing
    <2>3. PICK n \in Pages : n = next
      BY DEF TypeOK
    <2>4. PICK x \in Page : x = buf
      BY DEF TypeOK
    <2>5. PageValid(x) /\ \A q \in Pages : Written(q) => flash[q].num < x.num
      BY <2>2, <2>4, ImageIsNewest
    <2>6. NumsDiffer' /\ TopIsIntact' /\ Top(n)'
      BY <2>1, <2>3, <2>4, <2>5, NewestUpdate
    <2>7. Top(next)'
      BY <2>1, <2>3, <2>6 DEF Top
    <2>8. CallInv'
      BY <2>1, <2>2, <2>7 DEF CallInv, Writing
    <2>9. QED
      BY <2>6, <2>8
  <1>12. CASE PowerLoss
    <2>0. pc' = "idle"
      BY <1>12 DEF PowerLoss, Reboot
    <2>1. CASE UNCHANGED flash
      BY <2>0, <2>1, <1>a, <1>b
    <2>2. CASE pc = "erase" /\ \E x \in TornErase(flash[next]) : flash' = [flash EXCEPT ![next] = x]
      <3>1. PICK x \in TornErase(flash[next]) : flash' = [flash EXCEPT ![next] = x]
        BY <2>2
      <3>2. ChosenInv /\ flash[next] \in Page
        BY <2>2 DEF CallInv, Writing, TypeOK
      <3>3. x \in Page
        BY <3>2, TornType
      <3>4. HeadTailOk(x) => Written(next) /\ x.num = flash[next].num
        BY <3>2, TornIsHarmless DEF CleanRing, Written
      <3>5. NumsDiffer' /\ TopIsIntact'
        BY <3>1, <3>2, <3>3, <3>4, NextSectorUpdate
      <3>6. QED
        BY <2>0, <3>5, <1>b
    <2>3. CASE pc = "program" /\ \E x \in TornProgram(buf) : flash' = [flash EXCEPT ![next] = x]
      <3>1. PICK x \in TornProgram(buf) : flash' = [flash EXCEPT ![next] = x]
        BY <2>3
      <3>2. ChosenInv /\ NumLimit /\ op \in WriteOps /\ buf = PageImage(flash, cur, op.param, op.val)
        BY <2>3 DEF CallInv, Writing
      <3>3. x \in Page /\ (x = buf \/ ~HeadTailOk(x))
        BY TornType, TornIsHarmless DEF CleanRing, TypeOK
      <3>4. CASE ~HeadTailOk(x)
        BY <2>0, <3>1, <3>2, <3>3, <3>4, <1>b, NextSectorUpdate
      <3>5. CASE x = buf
        <4>1. PICK n \in Pages : n = next
          BY DEF TypeOK
        <4>2. PageValid(x) /\ \A q \in Pages : Written(q) => flash[q].num < x.num
          BY <3>2, <3>5, ImageIsNewest
        <4>3. NumsDiffer' /\ TopIsIntact'
          BY <3>1, <3>3, <4>1, <4>2, NewestUpdate
        <4>4. QED
          BY <2>0, <4>3, <1>b
      <3>6. QED
        BY <3>3, <3>4, <3>5
    <2>4. QED
      BY <1>12, <2>1, <2>2, <2>3 DEF PowerLoss, CallInv
  <1>13. CASE SectorDecays
    BY <1>13 DEF SectorDecays, CleanRing
  <1>14. CASE VoltageChange \/ UNCHANGED vars
    <2>1. UNCHANGED <<flash, pc, op, maxn, cur, next, buf>>
      BY <1>14 DEF VoltageChange, vars, call
    <2>2. QED
      BY <2>1, <1>a DEF CallInv, Writing, ChosenInv, Top, Written, NumLimit
  <1>15. QED
    BY <1>1, <1>2, <1>3, <1>4, <1>5, <1>6, <1>7, <1>8, <1>9, <1>10, <1>11, <1>12,
       <1>13, <1>14 DEF Next, Step

\* In every ring of two or more sectors, whenever power is lost, the newest
\* written sector is unique and good: xy_choose_valid_ftl finds the last
\* completed write and never has to drop a page.
THEOREM RingCorrect == CleanRing => (Spec => []RingInv)
  <1>1. Init => TypeOK /\ VerifiedInv /\ RingInv
    BY TypeInit, RingInit
  <1>2. ASSUME CleanRing
        PROVE  TypeOK /\ VerifiedInv /\ RingInv /\ [Next]_vars => TypeOK' /\ VerifiedInv' /\ RingInv'
    BY <1>2, TypeStep, RingStep
  <1>3. SUFFICES ASSUME CleanRing PROVE Spec => []RingInv
    OBVIOUS
  <1>4. QED
    BY <1>1, <1>2, <1>3, PTL DEF Spec

-----------------------------------------------------------------------------
(* Refinement: a clean ring implements one cell of non-volatile memory.    *)

StoredInv ==
    /\ \A t \in Pages : Top(t) => /\ Stored = flash[t].data
                                 /\ Stored \in Contents
                                 /\ \A p \in Pages : Newest(p) <=> p = t
    /\ (\A p \in Pages : ~Written(p)) => Stored = None /\ \A p \in Pages : ~Newest(p)

\* What the region holds is what its newest written sector holds.
LEMMA StoredIsTop == TypeOK /\ NumsDiffer /\ TopIsIntact => StoredInv
  <1> SUFFICES ASSUME TypeOK, NumsDiffer, TopIsIntact PROVE StoredInv
    OBVIOUS
  <1>1. ASSUME NEW t \in Pages, Top(t)
        PROVE  /\ Stored = flash[t].data /\ Stored \in Contents
               /\ \A p \in Pages : Newest(p) <=> p = t
    <2>0. \A p \in Pages : flash[p].num \in Int
      BY DEF TypeOK, Page
    <2>1. t \in ValidPages
      BY <1>1 DEF ValidPages, PageValid, TopIsIntact, Top, Written
    <2>2. \A p \in Pages : p \in ValidPages => Written(p) /\ flash[p].num <= flash[t].num
      BY <1>1 DEF ValidPages, PageValid, Top, Written
    <2>3. Newest(t)
      BY <2>1, <2>2 DEF Newest, ValidPages
    <2>4. \A p \in Pages : Newest(p) => p = t
      <3> SUFFICES ASSUME NEW p \in Pages, Newest(p), p # t PROVE FALSE
        OBVIOUS
      <3>1. flash[t].num <= flash[p].num /\ Written(p) /\ flash[p].num <= flash[t].num
        BY <2>1, <2>2 DEF Newest
      <3>2. flash[t].num = flash[p].num
        BY <2>0, <3>1
      <3>3. QED
        BY <1>1, <3>1, <3>2 DEF NumsDiffer, Top
    <2>5. (CHOOSE p \in Pages : Newest(p)) = t
      BY <2>3, <2>4
    <2>6. Stored = flash[t].data
      BY <2>1, <2>5 DEF Stored
    <2>7. flash[t].data \in Contents
      BY <1>1 DEF TopIsIntact, ChecksumOk, TypeOK, Page
    <2>8. QED
      BY <2>3, <2>4, <2>6, <2>7
  <1>2. ASSUME \A p \in Pages : ~Written(p)
        PROVE  Stored = None /\ \A p \in Pages : ~Newest(p)
    <2>1. ValidPages = {}
      BY <1>2 DEF ValidPages, PageValid, Written
    <2>2. QED
      BY <2>1 DEF Stored, Newest
  <1>3. QED
    BY <1>1, <1>2 DEF StoredInv

LEMMA StoredIsTopNext == (TypeOK /\ NumsDiffer /\ TopIsIntact)' => StoredInv'
  BY StoredIsTop, PTL

\* No step of a call touches the sector that holds the newest valid copy.
LEMMA NewestUntouched ==
  ASSUME CleanRing, TypeOK, RingInv, [Next]_vars,
         NEW p \in Pages, Newest(p)
  PROVE  flash'[p] = flash[p]
  <1> USE DEF RingInv
  <1>1. ASSUME ChosenInv, NEW x \in Page, flash' = [flash EXCEPT ![next] = x]
        PROVE  flash'[p] = flash[p]
    <2>1. PICK c \in Pages : c = cur /\ Top(c) /\ next = NextPage(c)
      BY <1>1, StoredIsTop DEF StoredInv, ChosenInv, Top
    <2>2. p = c
      BY <2>1, StoredIsTop DEF StoredInv
    <2>3. next # p
      BY <2>1, <2>2, NextPageDiffers DEF CleanRing
    <2>4. QED
      BY <1>1, <2>3 DEF TypeOK
  <1>2. CASE EraseNext
    BY <1>1, <1>2, BlankType DEF EraseNext, CallInv, Writing
  <1>3. CASE ProgramNext
    BY <1>1, <1>3 DEF ProgramNext, CallInv, Writing, TypeOK
  <1>4. CASE PowerLoss
    <2>1. TornErase(flash[next]) \subseteq Page /\ TornProgram(buf) \subseteq Page
      BY TornType DEF TypeOK
    <2>2. QED
      BY <1>1, <1>4, <2>1 DEF PowerLoss, CallInv, Writing
  <1>5. CASE UNCHANGED flash
    BY <1>5
  <1>6. CASE DropBadPage \/ SectorDecays
    BY <1>6 DEF DropBadPage, SectorDecays, CallInv, CleanRing
  <1>7. QED
    BY <1>2, <1>3, <1>4, <1>5, <1>6
       DEF Next, Step, LowVoltageReset, CallRead, CallWrite, StartCall, Scan, Verify, ReadPage,
           SkipEqualWrite, ComposePage, FlashWrite, ReturnWritten, VoltageChange, vars

\* In a clean ring the newest copy survives every step: the erase and the
\* programming of a write, and a power loss in the middle of either.
THEOREM NewestCopyIsSafe == CleanRing => (Spec => NewestCopySurvives)
  <1> SUFFICES ASSUME CleanRing PROVE Spec => NewestCopySurvives
    OBVIOUS
  <1>1. TypeOK /\ RingInv /\ [Next]_vars => [\A p \in Pages : Newest(p) => flash'[p] = flash[p]]_vars
    BY NewestUntouched
  <1>2. Spec => []RingInv
    BY RingCorrect
  <1>3. QED
    BY <1>1, <1>2, TypeCorrect, PTL DEF Spec, NewestCopySurvives

LEMMA CellInit == Init => Cell!Init
  <1> SUFFICES ASSUME Init PROVE Cell!Init
    OBVIOUS
  <1>1. ValidPages = {}
    BY DEF Init, ValidPages, PageValid, HeadTailOk, Blank
  <1>2. Stored = None
    BY <1>1 DEF Stored
  <1>3. QED
    BY <1>2 DEF Init, Cell!Init, Cell!ReadReq, Cell!NoResult, ReadOp, NoResult

\* Steps that leave the flash and the phase of the call alone are invisible.
LEMMA CellStutter ==
  ASSUME UNCHANGED <<flash, op, ret>>, pc # "idle", pc' # "idle", pc # "ack", pc' # "ack"
  PROVE  UNCHANGED Cell!cellVars
  <1>1. Stored' = Stored
    BY DEF Stored, Newest, ValidPages
  <1>2. (pc # "idle")' = (pc # "idle") /\ (pc = "ack")' = (pc = "ack")
    OBVIOUS
  <1>3. QED
    BY <1>1, <1>2, Zenon DEF Cell!cellVars

LEMMA CellStep ==
  ASSUME CleanRing, TypeOK, VerifiedInv, RingInv, TypeOK', RingInv', [Next]_vars
  PROVE  [Cell!Next]_(Cell!cellVars)
  <1> USE DEF RingInv
  <1>0. StoredInv /\ StoredInv'
    BY StoredIsTop, StoredIsTopNext
  <1>a. ASSUME UNCHANGED flash PROVE Stored' = Stored
    BY <1>a DEF Stored, Newest, ValidPages
  <1>b. ASSUME pc = "chosen"
        PROVE  \/ cur = NoPage /\ Stored = None
               \/ cur # NoPage /\ cur \in Pages /\ Stored = flash[cur].data /\ Stored \in Contents
    BY <1>0, <1>b DEF CallInv, ChosenInv, Top, StoredInv, NoPage, Pages
  <1>1. CASE CallRead
    <2>1. Cell!Call(Cell!ReadReq)
      BY <1>1, <1>a DEF CallRead, StartCall, Cell!Call, Cell!ReadReq, ReadOp, NoResult, Cell!NoResult
    <2>2. QED
      BY <2>1 DEF Cell!Next
  <1>2. CASE CallWrite
    <2>1. PICK o \in WriteOps : StartCall(o)
      BY <1>2 DEF CallWrite
    <2>2. Cell!Call(o) /\ o \in Cell!WriteReqs
      BY <2>1, <1>a DEF StartCall, Cell!Call, Cell!WriteReqs, WriteOps, NoResult, Cell!NoResult
    <2>3. QED
      BY <2>2 DEF Cell!Next
  <1>3. CASE Scan \/ Verify \/ ComposePage
    <2>1. UNCHANGED <<flash, op, ret>> /\ pc # "idle" /\ pc' # "idle" /\ pc # "ack" /\ pc' # "ack"
      BY <1>3 DEF Scan, Verify, ComposePage
    <2>2. QED
      BY <2>1, CellStutter
  <1>4. CASE ReadPage
    <2>1. Cell!AnswerRead
      BY <1>4, <1>a, <1>b DEF ReadPage, Return, call, Cell!AnswerRead, Cell!Finish, Cell!Ok
    <2>2. QED
      BY <2>1 DEF Cell!Next
  <1>5. CASE SkipEqualWrite
    <2>1. Stored \in Contents /\ Stored[op.param] = op.val /\ op.kind = "write"
      BY <1>5, <1>b DEF SkipEqualWrite
    <2>2. Stored # None /\ Stored = [Stored EXCEPT ![op.param] = op.val]
      BY <2>1 DEF Contents
    <2>3. Cell!Finish(Cell!Ok(None))
      BY <1>5, <1>a DEF SkipEqualWrite, Return, call, Cell!Finish, Cell!Ok
    <2>4. Cell!AnswerWrite
      BY <2>1, <2>2, <2>3 DEF Cell!AnswerWrite, Cell!Applied
    <2>5. QED
      BY <2>4 DEF Cell!Next
  <1>6. CASE FlashWrite
    <2>1. CASE pc' = "erase"
      BY <1>6, <2>1, CellStutter DEF FlashWrite, Return, call
    <2>2. CASE Return("lowvbat", None)
      <3>1. op.kind = "write"
        BY <1>6 DEF FlashWrite, CallInv, Writing, WriteOps
      <3>2. Cell!RefuseWrite
        BY <1>6, <2>2, <3>1, <1>a DEF FlashWrite, Return, call, Cell!RefuseWrite, Cell!Finish
      <3>3. QED
        BY <3>2 DEF Cell!Next
    <2>3. QED
      BY <1>6, <2>1, <2>2 DEF FlashWrite
  <1>7. ASSUME Writing
        PROVE  /\ op.kind = "write"
               /\ Cell!Applied = buf.data
    <2>1. ChosenInv /\ op \in WriteOps /\ buf = PageImage(flash, cur, op.param, op.val)
      BY <1>7 DEF CallInv
    <2>2. CASE cur = NoPage
      <3>1. Stored = None
        BY <1>0, <2>1, <2>2 DEF ChosenInv, Top, StoredInv, NoPage, Pages
      <3>2. QED
        BY <2>1, <2>2, <3>1 DEF Cell!Applied, PageImage, WriteOps
    <2>3. CASE cur # NoPage
      <3>1. Stored = flash[cur].data /\ Stored \in Contents
        BY <1>0, <2>1, <2>3 DEF ChosenInv, Top, StoredInv
      <3>2. QED
        BY <2>1, <2>3, <3>1 DEF Cell!Applied, PageImage, WriteOps
    <2>4. QED
      BY <2>2, <2>3
  <1>8. ASSUME ChosenInv, NEW x \in Page, flash' = [flash EXCEPT ![next] = x],
               HeadTailOk(x) => Written(next) /\ x.num = flash[next].num
        PROVE  Stored' = Stored
    <2>1. PICK n \in Pages : n = next
      BY DEF TypeOK
    <2>2. CASE cur = NoPage
      <3>1. \A q \in Pages : ~Written(q)
        BY <1>8, <2>2 DEF ChosenInv, Top, NoPage, Pages
      <3>2. ~HeadTailOk(x)
        BY <1>8, <2>1, <3>1 DEF Written
      <3>3. \A q \in Pages : ~Written(q)'
        BY <1>8, <2>1, <3>1, <3>2, EmptyUpdate
      <3>4. QED
        BY <1>0, <3>1, <3>3 DEF StoredInv
    <2>3. CASE cur # NoPage
      <3>1. PICK c \in Pages : c = cur /\ Top(c) /\ n = NextPage(c)
        BY <1>8, <2>1, <2>3 DEF ChosenInv, Top
      <3>2. n # c
        BY <3>1, NextPageDiffers DEF CleanRing
      <3>3. HeadTailOk(x) => Written(n) /\ x.num = flash[n].num
        BY <1>8, <2>1 DEF Written
      <3>4. Top(c)'
        BY <1>8, <2>1, <3>1, <3>2, <3>3, HarmlessUpdate
      <3>5. flash'[c] = flash[c]
        BY <1>8, <2>1, <3>2 DEF TypeOK
      <3>6. QED
        BY <1>0, <3>1, <3>4, <3>5 DEF StoredInv
    <2>4. QED
      BY <2>2, <2>3
  <1>9. ASSUME Writing, flash' = [flash EXCEPT ![next] = buf]
        PROVE  Stored' = buf.data
    <2>1. ChosenInv /\ NumLimit /\ op \in WriteOps /\ buf = PageImage(flash, cur, op.param, op.val)
      BY <1>9 DEF CallInv, Writing
    <2>2. PICK n \in Pages : n = next
      BY DEF TypeOK
    <2>3. PICK x \in Page : x = buf
      BY DEF TypeOK
    <2>4. PageValid(x) /\ \A q \in Pages : Written(q) => flash[q].num < x.num
      BY <2>1, <2>3, ImageIsNewest
    <2>5. Top(n)' /\ flash'[n] = x
      BY <1>9, <2>2, <2>3, <2>4, NewestUpdate DEF TypeOK
    <2>6. QED
      BY <1>0, <2>3, <2>5 DEF StoredInv
  <1>10. CASE EraseNext
    <2>1. Stored' = Stored
      BY <1>8, <1>10, BlankType DEF EraseNext, CallInv, Writing, Blank, HeadTailOk
    <2>2. UNCHANGED <<op, ret>> /\ pc = "erase" /\ pc' = "program"
      BY <1>10 DEF EraseNext, call
    <2>3. QED
      BY <2>1, <2>2, Zenon DEF Cell!cellVars
  <1>11. CASE ProgramNext
    <2>1. pc = "program" /\ pc' = "ack" /\ UNCHANGED <<op, ret>> /\ flash' = [flash EXCEPT ![next] = buf]
      BY <1>11 DEF ProgramNext, call
    <2>2. Cell!Commit
      BY <1>7, <1>9, <2>1 DEF Cell!Commit, Writing
    <2>3. QED
      BY <2>2 DEF Cell!Next
  <1>12. CASE ReturnWritten
    <2>1. op.kind = "write"
      BY <1>12 DEF ReturnWritten, CallInv, WriteOps
    <2>2. Cell!AnswerWrite
      BY <1>12, <2>1, <1>a DEF ReturnWritten, Return, call, Cell!AnswerWrite, Cell!Finish, Cell!Ok
    <2>3. QED
      BY <2>2 DEF Cell!Next
  <1>13. CASE LowVoltageReset
    <2>1. Cell!Reset
      BY <1>13, <1>a DEF LowVoltageReset, Reboot, call, Cell!Reset, NoResult, Cell!NoResult
    <2>2. QED
      BY <2>1 DEF Cell!Next
  <1>14. CASE PowerLoss
    <2>0. pc' = "idle" /\ ret' = NoResult /\ UNCHANGED op
      BY <1>14 DEF PowerLoss, Reboot, call
    <2>1. Stored' = Stored \/ (Writing /\ Stored' = buf.data)
      <3>1. CASE UNCHANGED flash
        BY <3>1, <1>a
      <3>2. CASE pc = "erase" /\ \E x \in TornErase(flash[next]) : flash' = [flash EXCEPT ![next] = x]
        <4>1. PICK x \in TornErase(flash[next]) : flash' = [flash EXCEPT ![next] = x]
          BY <3>2
        <4>2. flash[next] \in Page /\ ChosenInv
          BY <3>2 DEF TypeOK, CallInv, Writing
        <4>3. x \in Page /\ (HeadTailOk(x) => Written(next) /\ x.num = flash[next].num)
          BY <4>2, TornType, TornIsHarmless DEF CleanRing, Written
        <4>4. QED
          BY <1>8, <4>1, <4>2, <4>3
      <3>3. CASE pc = "program" /\ \E x \in TornProgram(buf) : flash' = [flash EXCEPT ![next] = x]
        <4>1. PICK x \in TornProgram(buf) : flash' = [flash EXCEPT ![next] = x]
          BY <3>3
        <4>2. x \in Page /\ (x = buf \/ ~HeadTailOk(x)) /\ Writing /\ ChosenInv
          BY <3>3, TornType, TornIsHarmless DEF CleanRing, TypeOK, CallInv, Writing
        <4>3. QED
          BY <1>8, <1>9, <4>1, <4>2
      <3>4. QED
        BY <1>14, <3>1, <3>2, <3>3 DEF PowerLoss, CallInv
    <2>2. Cell!Reset
      BY <1>7, <2>0, <2>1 DEF Cell!Reset, NoResult, Cell!NoResult, Writing
    <2>3. QED
      BY <2>2 DEF Cell!Next
  <1>15. CASE VoltageChange \/ UNCHANGED vars
    <2>1. UNCHANGED <<flash, pc, op, ret>>
      BY <1>15 DEF VoltageChange, vars, call
    <2>2. QED
      BY <2>1, <1>a DEF Cell!cellVars
  <1>16. CASE DropBadPage \/ SectorDecays
    BY <1>16 DEF DropBadPage, SectorDecays, CallInv, CleanRing
  <1>17. QED
    BY <1>1, <1>2, <1>3, <1>4, <1>5, <1>6, <1>10, <1>11, <1>12, <1>13, <1>14, <1>15, <1>16
       DEF Next, Step

\* Every clean ring of two or more sectors is one cell of non-volatile
\* memory: writes are atomic under power loss, durable once acknowledged,
\* and change one parameter; reads return what was written last.
THEOREM RingImplementsCell == CleanRing => (Spec => ImplementsCell)
  <1> SUFFICES ASSUME CleanRing PROVE Spec => ImplementsCell
    OBVIOUS
  <1>1. TypeOK /\ VerifiedInv /\ RingInv /\ TypeOK' /\ RingInv' /\ [Next]_vars
          => [Cell!Next]_(Cell!cellVars)
    BY CellStep
  <1>2. TypeOK /\ VerifiedInv /\ [Next]_vars => TypeOK' /\ VerifiedInv'
    BY TypeStep
  <1>3. Spec => []RingInv
    BY RingCorrect
  <1>4. QED
    BY <1>1, <1>2, <1>3, TypeInit, CellInit, PTL DEF Spec, ImplementsCell, Cell!Spec

-----------------------------------------------------------------------------
(* The boot's own scan agrees with the layer.                              *)

\* Every set of numbers has a least element.
LEMMA LeastNumber ==
  ASSUME NEW T, T \subseteq Nat, T # {}
  PROVE  \E x \in T : \A y \in T : x <= y
  <1> DEFINE R == OpToRel(<, Nat)
  <1>1. \A x, y \in Nat : y < x => <<y, x>> \in R
    BY DEF OpToRel
  <1>2. IsWellFoundedOn(R, Nat)
    BY NatLessThanWellFounded
  <1> HIDE DEF R
  <1>3. PICK x \in T : \A y \in T : <<y, x>> \notin R
    BY <1>2, WFMin
  <1>4. \A y \in T : ~(y < x)
    BY <1>1, <1>3
  <1>5. QED
    BY <1>4

\* A region with a written sector has a newest one.
LEMMA TopExists ==
  ASSUME TypeOK, NEW w \in Pages, Written(w)
  PROVE  \E p \in Pages : Top(p)
  <1> DEFINE Left(q) == ErasedNum - flash[q].num
             T == {Left(q) : q \in {r \in Pages : Written(r)}}
  <1>0. \A q \in Pages : flash[q].num \in 0 .. ErasedNum
    BY DEF TypeOK, Page
  <1>1. T \subseteq Nat /\ T # {}
    BY <1>0
  <1>2. PICK x \in T : \A y \in T : x <= y
    BY <1>1, LeastNumber
  <1>3. PICK p \in Pages : Written(p) /\ x = Left(p)
    OBVIOUS
  <1>4. ASSUME NEW q \in Pages, Written(q) PROVE flash[q].num <= flash[p].num
    <2>1. Left(q) \in T
      BY <1>4
    <2>2. ErasedNum - flash[p].num <= ErasedNum - flash[q].num
      BY <1>2, <1>3, <2>1
    <2>3. flash[p].num \in Nat /\ flash[q].num \in Nat
      BY <1>0
    <2>4. QED
      BY <2>2, <2>3
  <1>5. QED
    BY <1>3, <1>4 DEF Top

\* Whenever power is lost, SystemInit takes the clocks from the contents that
\* xy_ftl_read finds once the system is up, although CheckFactoryNvValid does
\* not test the checksum.
THEOREM BootAgrees == CleanRing => (Spec => []ClocksFromStored)
  <1>1. ASSUME TypeOK, RingInv PROVE ClocksFromStored
    <2>0. NumsDiffer /\ TopIsIntact /\ StoredInv
      BY <1>1, StoredIsTop DEF RingInv
    <2>1. ASSUME NEW p \in Pages, CheckFactoryNvValid(p) PROVE Top(p)
      <3>1. \A q \in Pages : flash[q].num \in Int
        BY <1>1 DEF TypeOK, Page
      <3>2. QED
        BY <2>1, <3>1 DEF CheckFactoryNvValid, Top, Written
    <2>2. CASE \E p \in Pages : CheckFactoryNvValid(p)
      <3>1. PICK p \in Pages : p = (CHOOSE q \in Pages : CheckFactoryNvValid(q)) /\ CheckFactoryNvValid(p)
        BY <2>2
      <3>2. Stored = flash[p].data /\ Stored \in Contents
        BY <2>0, <2>1, <3>1 DEF StoredInv
      <3>3. SystemInit = flash[p].data
        BY <2>2, <3>1 DEF SystemInit
      <3>4. QED
        BY <3>2, <3>3 DEF ClocksFromStored
    <2>3. CASE ~\E p \in Pages : CheckFactoryNvValid(p)
      <3>1. ASSUME NEW w \in Pages, Written(w) PROVE FALSE
        <4>1. PICK p \in Pages : Top(p)
          BY <1>1, <3>1, TopExists
        <4>2. \A q \in Pages : HeadTailOk(flash[q]) /\ q # p => flash[q].num <= flash[p].num /\ flash[q].num # flash[p].num
          BY <2>0, <4>1 DEF Top, Written, NumsDiffer
        <4>3. \A q \in Pages : flash[q].num \in Int
          BY <1>1 DEF TypeOK, Page
        <4>4. CheckFactoryNvValid(p)
          BY <4>1, <4>2, <4>3 DEF CheckFactoryNvValid, Top, Written, Pages
        <4>5. QED
          BY <2>3, <4>4
      <3>2. Stored = None
        BY <2>0, <3>1 DEF StoredInv
      <3>3. QED
        BY <2>3, <3>2 DEF SystemInit, ClocksFromStored
    <2>4. QED
      BY <2>2, <2>3
  <1>2. QED
    BY <1>1, TypeCorrect, RingCorrect, PTL

-----------------------------------------------------------------------------
(* Several tasks in one region (FtlTasks).                                 *)

\* The image is built and not yet in the flash.
Pending(t) == taskPc[t] \in {"flash", "program"}

\* An image holds contents, and a bad page to drop is a page.
ImagesInv ==
    \A t \in Tasks :
        /\ Pending(t) => taskBuf[t].magic /\ taskBuf[t].num # 0 /\ taskBuf[t].data \in Contents
        /\ taskPc[t] = "drop" => taskCur[t] # NoPage

\* What a task found intact stays intact while it is not overtaken: the sector may
\* be written again meanwhile, but only by a whole image.
IntactInv ==
    \A t \in Tasks \ overtaken :
        /\ taskPc[t] = "chosen" => ChoiceIntact(t)
        /\ taskData[t] # Damaged

TornInv == TasksTypeOK /\ ImagesInv /\ IntactInv

\* Writes that have not taken their number yet.
Undecided == {t \in Tasks : taskPc[t] \in {"scan", "chosen"} /\ taskOp[t] \in WriteOps}

\* There are numbers left for all of them, so that no written sector looks erased.
NumsInv ==
    /\ \A p \in Pages :
          HeadTailOk(sectors[p]) => sectors[p].num + Cardinality(Undecided) < ErasedNum
    /\ \A t \in Tasks :
          Pending(t) => taskBuf[t].num + Cardinality(Undecided) < ErasedNum

\* As long as nobody was overtaken: a scan that has found nothing has a written
\* sector before it, and what a task found, or has just written, is still written.
ChoiceInv(t) ==
    /\ taskPc[t] # "drop"
    /\ taskPc[t] = "scan" /\ taskCur[t] = NoPage =>
          taskMax[t] = 0 /\ \E p \in Pages : taskI[t] <= p /\ HeadTailOk(sectors[p])
    /\ taskPc[t] \in {"chosen", "flash"} => taskCur[t] # NoPage
    /\ taskPc[t] \in {"scan", "chosen", "flash"} /\ taskCur[t] # NoPage =>
          HeadTailOk(sectors[taskCur[t]])
    /\ taskPc[t] = "ack" => HeadTailOk(sectors[NextPage(taskCur[t])])

\* Some sector is always written, and a written sector holds contents.
WrittenInv ==
    /\ \E p \in Pages : HeadTailOk(sectors[p])
    /\ \A p \in Pages : HeadTailOk(sectors[p]) => sectors[p].data \in Contents

SettledInv == (\A t \in Tasks : ChoiceInv(t)) /\ WrittenInv /\ NumsInv

\* The sector after a chosen one, or after no page, is a sector.
LEMMA NextChoiceType == \A c \in Pages \cup {NoPage} : NextPage(c) \in Pages
  BY SMT DEF NextPage, Pages, NoPage

\* An image built from an intact page, or from none, holds contents.
LEMMA PageImageParts ==
  ASSUME NEW f \in [Pages -> Page], NEW c \in Pages \cup {NoPage},
         NEW p \in Params, NEW v \in Vals,
         c # NoPage => ChecksumOk(f[c])
  PROVE  LET img == PageImage(f, c, p, v)
         IN  img \in Page /\ img.magic /\ img.num # 0 /\ img.data \in Contents
  <1> DEFINE img == PageImage(f, c, p, v)
  <1>1. img \in Page
    BY PageImageType
  <1>2. CASE c = NoPage
    <2>1. img.magic /\ img.num = 1 /\ img.data = [DefaultContents EXCEPT ![p] = v]
      BY <1>2 DEF PageImage
    <2>2. QED
      BY <1>1, <2>1 DEF Contents
  <1>3. CASE c # NoPage
    <2>1. f[c].data \in Contents /\ f[c].num \in 0 .. ErasedNum
      BY <1>3 DEF ChecksumOk, Page
    <2>2. img.magic /\ img.num = NextNum(f[c].num) /\ img.data = [f[c].data EXCEPT ![p] = v]
      BY <1>3 DEF PageImage
    <2>3. img.num \in 1 .. ErasedNum
      BY <2>1, <2>2, NextNumType
    <2>4. QED
      BY <1>1, <2>1, <2>2, <2>3 DEF Contents
  <1>4. QED
    BY <1>2, <1>3

\* What programming over a written page leaves is a page.
LEMMA ProgramOverType ==
  ASSUME NEW old \in Page, NEW new \in Page
  PROVE  ProgramOver(old, new) \subseteq Page
  <1>1. /\ old.num \in 0 .. ErasedNum /\ new.num \in 0 .. ErasedNum
        /\ old.magic \in BOOLEAN /\ new.magic \in BOOLEAN
        /\ new.data \in Contents \cup {Damaged}
    BY DEF Page
  <1> DEFINE ns == IF old.num = new.num THEN {new.num} ELSE {k \in 0 .. new.num : k <= old.num}
  <1>2. \A n \in ns : n \in 0 .. ErasedNum
    BY <1>1
  <1> HIDE DEF ns
  <1>3. \A n \in ns : [magic |-> old.magic /\ new.magic, num |-> n,
                       data |-> IF old.data = new.data THEN new.data ELSE Damaged] \in Page
    BY <1>1, <1>2 DEF Page
  <1>4. QED
    BY <1>3 DEF ProgramOver, ns

LEMMA TornInvInit == TasksInit => TornInv
  <1> SUFFICES ASSUME TasksInit PROVE TornInv
    OBVIOUS
  <1> USE DEF TasksInit
  <1>1. FirstPage \in Page /\ DefaultContents # Damaged
    BY DEF FirstPage, Page
  <1>2. 0 \in 0 .. NPages /\ 0 \in 0 .. ErasedNum
    OBVIOUS
  <1>3. TasksTypeOK
    BY <1>1, <1>2, BlankType DEF TasksTypeOK
  <1>4. ImagesInv /\ IntactInv
    BY <1>1 DEF ImagesInv, IntactInv, Pending
  <1>5. QED
    BY <1>3, <1>4 DEF TornInv

\* Fewer tasks, and one fewer, in numbers.
LEMMA FewerTasks ==
  ASSUME NEW A \in SUBSET Tasks, NEW B \in SUBSET A
  PROVE  /\ Cardinality(A) \in Nat /\ Cardinality(B) \in Nat
         /\ Cardinality(A) <= Cardinality(Tasks) /\ Cardinality(B) <= Cardinality(A)
         /\ \A t \in A \ B : Cardinality(B) + 1 <= Cardinality(A)
  <1>1. IsFiniteSet(A) /\ IsFiniteSet(B)
    BY TasksAssumption, FS_Subset
  <1>2. Cardinality(A) \in Nat /\ Cardinality(B) \in Nat
    BY <1>1, FS_CardinalityType
  <1>3. Cardinality(A) <= Cardinality(Tasks) /\ Cardinality(B) <= Cardinality(A)
    BY <1>1, TasksAssumption, FS_Subset
  <1>4. ASSUME NEW t \in A \ B PROVE Cardinality(B) + 1 <= Cardinality(A)
    <2>1. IsFiniteSet(A \ {t}) /\ Cardinality(A \ {t}) = Cardinality(A) - 1
      BY <1>1, FS_RemoveElement
    <2>2. B \in SUBSET (A \ {t})
      OBVIOUS
    <2>3. Cardinality(B) <= Cardinality(A \ {t})
      BY <2>1, <2>2, FS_Subset
    <2>4. QED
      BY <1>2, <2>1, <2>3
  <1>5. QED
    BY <1>2, <1>3, <1>4

\* Every step keeps what a task found intact, unless it overtakes that task.
LEMMA TornInvStep == TornInv /\ [TasksNext]_tasksVars => TornInv'
  <1> SUFFICES ASSUME TornInv, [TasksNext]_tasksVars PROVE TornInv'
    OBVIOUS
  <1>0. TasksTypeOK /\ ImagesInv /\ IntactInv
    BY DEF TornInv
  <1>t. /\ sectors \in [Pages -> Page] /\ loaded \in BOOLEAN
        /\ taskPc \in [Tasks -> {"idle", "scan", "drop", "chosen", "flash", "program", "ack"}]
        /\ taskOp \in [Tasks -> {ReadOp} \cup WriteOps]
        /\ taskI \in [Tasks -> 0 .. NPages] /\ taskMax \in [Tasks -> 0 .. ErasedNum]
        /\ taskCur \in [Tasks -> Pages \cup {NoPage}]
        /\ taskBuf \in [Tasks -> Page] /\ taskData \in [Tasks -> Contents \cup {Damaged}]
        /\ overtaken \in SUBSET Tasks
    BY <1>0 DEF TasksTypeOK
  <1>p. NoPage \notin Pages /\ 0 \in 0 .. NPages /\ 0 \in 0 .. ErasedNum
    BY DEF Pages, NoPage
  <1>1. ASSUME NEW t \in Tasks, NEW o \in {ReadOp} \cup WriteOps, Call(t, o)
        PROVE  TornInv'
    <2> USE <1>1 DEF Call
    <2>1. TasksTypeOK'
      BY <1>t, <1>p DEF TasksTypeOK
    <2>2. ImagesInv'
      BY <1>0, <1>t DEF ImagesInv, Pending
    <2>3. IntactInv'
      BY <1>0, <1>t DEF IntactInv, ChoiceIntact
    <2>4. QED
      BY <2>1, <2>2, <2>3 DEF TornInv
  <1>2. ASSUME NEW t \in Tasks, ScanSector(t) PROVE TornInv'
    <2> USE <1>2 DEF ScanSector
    <2>1. taskI[t] \in Pages /\ taskI[t] + 1 \in 0 .. NPages
      BY <1>t DEF Pages
    <2>2. sectors[taskI[t]].num \in 0 .. ErasedNum
      BY <1>t, <2>1 DEF Page
    <2>3. TasksTypeOK'
      BY <1>t, <2>1, <2>2 DEF TasksTypeOK
    <2>4. \A u \in Tasks \ {t} : taskCur'[u] = taskCur[u]
      BY <1>t
    <2>5. ImagesInv'
      BY <1>0, <2>4 DEF ImagesInv, Pending
    <2>6. IntactInv'
      BY <1>0, <2>4 DEF IntactInv, ChoiceIntact
    <2>7. QED
      BY <2>3, <2>5, <2>6 DEF TornInv
  <1>3. ASSUME NEW t \in Tasks, VerifyChosen(t) PROVE TornInv'
    <2> USE <1>3 DEF VerifyChosen, scan
    <2>1. TasksTypeOK'
      BY <1>t DEF TasksTypeOK
    <2>2. ~ChoiceIntact(t) => taskCur[t] # NoPage
      BY DEF ChoiceIntact
    <2>3. ImagesInv'
      BY <1>0, <1>t, <2>2 DEF ImagesInv, Pending
    <2>4. IntactInv'
      BY <1>0, <1>t DEF IntactInv, ChoiceIntact
    <2>5. QED
      BY <2>1, <2>3, <2>4 DEF TornInv
  <1>4. ASSUME NEW t \in Tasks, DropSector(t) PROVE TornInv'
    <2> USE <1>4 DEF DropSector
    <2>1. taskCur[t] \in Pages
      BY <1>0, <1>t DEF ImagesInv
    <2>2. overtaken' \in SUBSET Tasks
      BY <1>t DEF InCall
    <2>3. TasksTypeOK'
      BY <1>t, <1>p, <2>2, BlankType DEF TasksTypeOK
    <2>4. ImagesInv'
      BY <1>0, <1>t DEF ImagesInv, Pending
    <2>5. \A u \in Tasks \ overtaken' : u # t => taskPc'[u] = "idle" /\ taskPc[u] = "idle"
      BY <1>t DEF InCall
    <2>6. IntactInv'
      BY <1>0, <1>t, <2>5 DEF IntactInv
    <2>7. QED
      BY <2>3, <2>4, <2>6 DEF TornInv
  <1>5. ASSUME NEW t \in Tasks, CopyPage(t) PROVE TornInv'
    <2> USE <1>5 DEF CopyPage, scan
    <2>1. taskCur[t] # NoPage => sectors[taskCur[t]].data \in Contents \cup {Damaged}
      BY <1>t DEF Page
    <2>2. TasksTypeOK'
      BY <1>t, <2>1 DEF TasksTypeOK
    <2>3. ImagesInv'
      BY <1>0, <1>t DEF ImagesInv, Pending
    <2>4. t \notin overtaken /\ taskCur[t] # NoPage => sectors[taskCur[t]].data # Damaged
      BY <1>0 DEF IntactInv, ChoiceIntact, ChecksumOk
    <2>5. \A u \in Tasks \ overtaken : taskData'[u] # Damaged
      BY <1>0, <1>t, <2>4 DEF IntactInv
    <2>6. IntactInv'
      BY <1>0, <1>t, <2>5 DEF IntactInv, ChoiceIntact
    <2>7. QED
      BY <2>2, <2>3, <2>6 DEF TornInv
  <1>6. ASSUME NEW t \in Tasks, ComposeImage(t) PROVE TornInv'
    <2>0. /\ taskPc[t] = "chosen" /\ taskOp[t] \in WriteOps
          /\ UNCHANGED <<sectors, loaded, taskOp, taskI, taskMax, taskCur, taskData, overtaken>>
      BY <1>6 DEF ComposeImage, scan
    <2>1. PICK f \in SeenBy(t) :
             \/ /\ taskPc' = [taskPc EXCEPT ![t] = "idle"] /\ taskBuf' = taskBuf
             \/ /\ taskBuf' = [taskBuf EXCEPT ![t] =
                                 PageImage(f, taskCur[t], taskOp[t].param, taskOp[t].val)]
                /\ taskPc' = [taskPc EXCEPT ![t] = "flash"]
      BY <1>6 DEF ComposeImage
    <2>2. f \in [Pages -> Page] /\ (taskCur[t] # NoPage => ChecksumOk(f[taskCur[t]]))
      <3>1. CASE ChoiceIntact(t)
        <4>1. f = sectors
          BY <3>1 DEF SeenBy
        <4>2. QED
          BY <1>t, <3>1, <4>1 DEF ChoiceIntact
      <3>2. CASE ~ChoiceIntact(t)
        <4>1. taskCur[t] \in Pages
          BY <1>t, <3>2 DEF ChoiceIntact
        <4>2. PICK d \in Contents : f = [sectors EXCEPT ![taskCur[t]].data = d]
          BY <3>2 DEF SeenBy
        <4>3. [sectors[taskCur[t]] EXCEPT !.data = d] \in Page
          BY <1>t, <4>1 DEF Page
        <4>4. f \in [Pages -> Page] /\ f[taskCur[t]].data = d
          BY <1>t, <4>1, <4>2, <4>3 DEF Page
        <4>5. QED
          BY <4>4 DEF ChecksumOk
      <3>3. QED
        BY <3>1, <3>2
    <2>3. taskOp[t].param \in Params /\ taskOp[t].val \in Vals
      BY <2>0 DEF WriteOps
    <2> DEFINE img == PageImage(f, taskCur[t], taskOp[t].param, taskOp[t].val)
    <2>4. img \in Page /\ img.magic /\ img.num # 0 /\ img.data \in Contents
      BY <1>t, <2>2, <2>3, PageImageParts
    <2> HIDE DEF img
    <2>5. \/ /\ taskPc' = [taskPc EXCEPT ![t] = "idle"] /\ taskBuf' = taskBuf
          \/ /\ taskPc' = [taskPc EXCEPT ![t] = "flash"] /\ taskBuf' = [taskBuf EXCEPT ![t] = img]
      BY <2>1 DEF img
    <2>6. TasksTypeOK'
      BY <1>t, <2>0, <2>4, <2>5 DEF TasksTypeOK
    <2>7. ImagesInv'
      BY <1>0, <1>t, <2>0, <2>4, <2>5 DEF ImagesInv, Pending
    <2>8. IntactInv'
      BY <1>0, <1>t, <2>0, <2>5 DEF IntactInv, ChoiceIntact
    <2>9. QED
      BY <2>6, <2>7, <2>8 DEF TornInv
  <1>7. ASSUME NEW t \in Tasks, WriteSector(t) PROVE TornInv'
    <2> DEFINE k == NextPage(taskCur[t])
               b == taskBuf[t]
    <2>1. k \in Pages /\ b \in Page
      BY <1>t, NextChoiceType
    <2>2. b.data \in Contents
      BY <1>0, <1>7 DEF ImagesInv, Pending, WriteSector
    <2>3. /\ sectors' = [sectors EXCEPT ![k] = b] /\ taskPc' = [taskPc EXCEPT ![t] = "ack"]
          /\ UNCHANGED <<loaded, taskOp, taskI, taskMax, taskCur, taskBuf, taskData, overtaken>>
      BY <1>7 DEF WriteSector, scan
    <2> HIDE DEF k, b
    <2>4. TasksTypeOK'
      BY <1>t, <2>1, <2>3 DEF TasksTypeOK
    <2>5. ImagesInv'
      BY <1>0, <1>t, <2>3 DEF ImagesInv, Pending
    <2>6. \A p \in Pages : ChecksumOk(sectors[p]) => ChecksumOk(sectors'[p])
      BY <1>t, <2>1, <2>2, <2>3 DEF ChecksumOk
    <2>7. IntactInv'
      <3>1. \A u \in Tasks : ChoiceIntact(u) => ChoiceIntact(u)'
        BY <1>t, <2>3, <2>6 DEF ChoiceIntact
      <3>2. QED
        BY <1>0, <1>t, <2>3, <3>1 DEF IntactInv
    <2>8. QED
      BY <2>4, <2>5, <2>7 DEF TornInv
  <1>8. ASSUME NEW t \in Tasks, EraseSector(t) PROVE TornInv'
    <2> USE <1>8 DEF EraseSector, scan
    <2>1. NextPage(taskCur[t]) \in Pages
      BY <1>t, NextChoiceType
    <2>2. overtaken' \in SUBSET Tasks
      BY <1>t DEF InCall
    <2>3. TasksTypeOK'
      BY <1>t, <2>1, <2>2, BlankType DEF TasksTypeOK
    <2>4. ImagesInv'
      BY <1>0, <1>t DEF ImagesInv, Pending
    <2>5. \A u \in Tasks \ overtaken' : u # t => taskPc'[u] = "idle" /\ taskPc[u] = "idle"
      BY <1>t DEF InCall
    <2>6. IntactInv'
      BY <1>0, <1>t, <2>5 DEF IntactInv
    <2>7. QED
      BY <2>3, <2>4, <2>6 DEF TornInv
  <1>9. ASSUME NEW t \in Tasks, ProgramSector(t) PROVE TornInv'
    <2> DEFINE k == NextPage(taskCur[t])
               b == taskBuf[t]
    <2>1. k \in Pages /\ b \in Page /\ sectors[k] \in Page
      BY <1>t, NextChoiceType
    <2>2. b.data \in Contents
      BY <1>0, <1>9 DEF ImagesInv, Pending, ProgramSector
    <2>3. /\ taskPc' = [taskPc EXCEPT ![t] = "ack"]
          /\ UNCHANGED <<loaded, taskOp, taskI, taskMax, taskCur, taskBuf, taskData>>
      BY <1>9 DEF ProgramSector, scan
    <2>4. \/ sectors' = [sectors EXCEPT ![k] = b] /\ overtaken' = overtaken
          \/ /\ \E page \in ProgramOver(sectors[k], b) : sectors' = [sectors EXCEPT ![k] = page]
             /\ overtaken' = overtaken \cup InCall
      BY <1>9 DEF ProgramSector
    <2> HIDE DEF k, b
    <2>5. ImagesInv'
      BY <1>0, <1>t, <2>3 DEF ImagesInv, Pending
    <2>6. CASE sectors' = [sectors EXCEPT ![k] = b] /\ overtaken' = overtaken
      <3>1. TasksTypeOK'
        BY <1>t, <2>1, <2>3, <2>6 DEF TasksTypeOK
      <3>2. \A p \in Pages : ChecksumOk(sectors[p]) => ChecksumOk(sectors'[p])
        BY <1>t, <2>1, <2>2, <2>6 DEF ChecksumOk
      <3>3. \A u \in Tasks : ChoiceIntact(u) => ChoiceIntact(u)'
        BY <1>t, <2>3, <3>2 DEF ChoiceIntact
      <3>4. IntactInv'
        BY <1>0, <1>t, <2>3, <2>6, <3>3 DEF IntactInv
      <3>5. QED
        BY <2>5, <3>1, <3>4 DEF TornInv
    <2>7. CASE /\ \E page \in ProgramOver(sectors[k], b) : sectors' = [sectors EXCEPT ![k] = page]
               /\ overtaken' = overtaken \cup InCall
      <3>1. sectors' \in [Pages -> Page]
        BY <1>t, <2>1, <2>7, ProgramOverType
      <3>2. overtaken' \in SUBSET Tasks
        BY <1>t, <2>7 DEF InCall
      <3>3. TasksTypeOK'
        BY <1>t, <2>3, <3>1, <3>2 DEF TasksTypeOK
      <3>4. \A u \in Tasks \ overtaken' : taskPc[u] = "idle" /\ u \notin overtaken
        BY <1>t, <2>7 DEF InCall
      <3>5. \A u \in Tasks \ overtaken' : taskPc'[u] # "chosen"
        BY <1>t, <2>3, <3>4
      <3>6. IntactInv'
        BY <1>0, <2>3, <3>4, <3>5 DEF IntactInv
      <3>7. QED
        BY <2>5, <3>3, <3>6 DEF TornInv
    <2>8. QED
      BY <2>4, <2>6, <2>7
  <1>10. ASSUME NEW t \in Tasks, ReturnTested(t) PROVE TornInv'
    <2> USE <1>10 DEF ReturnTested, scan
    <2>1. TasksTypeOK'
      BY <1>t, BlankType DEF TasksTypeOK
    <2>2. \A u \in Tasks : taskPc'[u] # "idle" => taskPc'[u] = taskPc[u] /\ taskBuf'[u] = taskBuf[u]
      BY <1>t
    <2>3. ImagesInv'
      BY <1>0, <2>2 DEF ImagesInv, Pending
    <2>4. IntactInv'
      BY <1>0, <2>2 DEF IntactInv, ChoiceIntact
    <2>5. QED
      BY <2>1, <2>3, <2>4 DEF TornInv
  <1>11. CASE DspSwitches \/ UNCHANGED tasksVars
    <2>1. UNCHANGED <<sectors, taskPc, taskOp, taskI, taskMax, taskCur, taskBuf, taskData, overtaken>>
          /\ loaded' \in BOOLEAN
      BY <1>t, <1>11 DEF DspSwitches, tasksVars, scan
    <2>2. TasksTypeOK'
      BY <1>t, <2>1 DEF TasksTypeOK
    <2>3. ImagesInv' /\ IntactInv'
      BY <1>0, <2>1 DEF ImagesInv, Pending, IntactInv, ChoiceIntact
    <2>4. QED
      BY <2>2, <2>3 DEF TornInv
  <1>12. QED
    BY <1>1, <1>2, <1>3, <1>4, <1>5, <1>6, <1>7, <1>8, <1>9, <1>10, <1>11 DEF TasksNext

\* The numbers left are enough when no more writes are undecided than before.
LEMMA NumsKept ==
  ASSUME TasksTypeOK, NumsInv, Undecided' \in SUBSET Undecided, UNCHANGED sectors,
         \A t \in Tasks : Pending(t)' => Pending(t) /\ taskBuf'[t] = taskBuf[t]
  PROVE  NumsInv'
  <1> DEFINE c == Cardinality(Undecided)
             d == Cardinality(Undecided')
  <1>1. Undecided \in SUBSET Tasks
    BY DEF Undecided
  <1>2. c \in Nat /\ d \in Nat /\ d <= c
    BY <1>1, FewerTasks
  <1> HIDE DEF c, d
  <1>3. \A p \in Pages : sectors[p].num \in Nat
    BY DEF TasksTypeOK, Page
  <1>4. \A t \in Tasks : taskBuf[t].num \in Nat
    BY DEF TasksTypeOK, Page
  <1>5. /\ \A p \in Pages : HeadTailOk(sectors[p]) => sectors[p].num + c < ErasedNum
        /\ \A t \in Tasks : Pending(t) => taskBuf[t].num + c < ErasedNum
    BY DEF NumsInv, c
  <1>6. \A p \in Pages : HeadTailOk(sectors'[p]) => sectors'[p].num + d < ErasedNum
    BY <1>2, <1>3, <1>5
  <1>7. \A t \in Tasks : Pending(t)' => taskBuf'[t].num + d < ErasedNum
    BY <1>2, <1>4, <1>5
  <1>8. QED
    BY <1>6, <1>7 DEF NumsInv, d

\* A whole image put into any sector keeps the ring settled.
LEMMA ImageKeeps ==
  ASSUME TornInv, SettledInv, NEW t \in Tasks, Pending(t),
         sectors' = [sectors EXCEPT ![NextPage(taskCur[t])] = taskBuf[t]],
         taskPc' = [taskPc EXCEPT ![t] = "ack"],
         UNCHANGED <<taskOp, taskI, taskMax, taskCur, taskBuf>>
  PROVE  SettledInv'
  <1> DEFINE k == NextPage(taskCur[t])
             b == taskBuf[t]
             c == Cardinality(Undecided)
  <1>0. TasksTypeOK /\ ImagesInv /\ (\A u \in Tasks : ChoiceInv(u)) /\ WrittenInv /\ NumsInv
    BY DEF TornInv, SettledInv
  <1>t. /\ sectors \in [Pages -> Page] /\ taskBuf \in [Tasks -> Page]
        /\ taskPc \in [Tasks -> {"idle", "scan", "drop", "chosen", "flash", "program", "ack"}]
        /\ taskCur \in [Tasks -> Pages \cup {NoPage}]
    BY <1>0 DEF TasksTypeOK
  <1>1. k \in Pages /\ b \in Page /\ b.data \in Contents /\ b.magic /\ b.num # 0
    BY <1>0, <1>t, NextChoiceType DEF ImagesInv
  <1>2. c \in Nat /\ b.num + c < ErasedNum
    <2>1. Undecided \in SUBSET Tasks
      BY DEF Undecided
    <2>2. QED
      BY <1>0, <2>1, FewerTasks DEF NumsInv
  <1>3. HeadTailOk(b)
    <2>1. b.num \in Nat
      BY <1>1 DEF Page
    <2>2. QED
      BY <1>1, <1>2, <2>1 DEF HeadTailOk
  <1>4. k = NextPage(taskCur'[t])
    OBVIOUS
  <1>5. sectors' = [sectors EXCEPT ![k] = b]
    OBVIOUS
  <1> HIDE DEF k, b, c
  <1>6. \A p \in Pages : sectors'[p] = IF p = k THEN b ELSE sectors[p]
    BY <1>t, <1>1, <1>5
  <1>7. \A p \in Pages : HeadTailOk(sectors[p]) => HeadTailOk(sectors'[p])
    BY <1>3, <1>6
  <1>8. ASSUME NEW u \in Tasks PROVE ChoiceInv(u)'
    <2>1. CASE u = t
      <3>1. taskPc'[u] = "ack" /\ HeadTailOk(sectors'[NextPage(taskCur'[u])])
        BY <1>t, <1>1, <1>3, <1>4, <1>6, <2>1
      <3>2. QED
        BY <3>1 DEF ChoiceInv
    <2>2. CASE u # t
      <3>1. taskPc'[u] = taskPc[u]
        BY <1>t, <2>2
      <3>2. NextPage(taskCur[u]) \in Pages /\ taskCur[u] \in Pages \cup {NoPage}
        BY <1>t, NextChoiceType
      <3>3. QED
        BY <1>0, <1>7, <3>1, <3>2 DEF ChoiceInv
    <2>3. QED
      BY <2>1, <2>2
  <1>9. WrittenInv'
    BY <1>0, <1>1, <1>6, <1>7 DEF WrittenInv
  <1>10. NumsInv'
    <2>1. Undecided' = Undecided
      BY <1>t DEF Undecided, Pending
    <2>2. \A p \in Pages : HeadTailOk(sectors'[p]) => sectors'[p].num + c < ErasedNum
      BY <1>0, <1>2, <1>6 DEF NumsInv, c
    <2>3. \A u \in Tasks : Pending(u)' => Pending(u)
      BY <1>t DEF Pending
    <2>4. \A u \in Tasks : Pending(u)' => taskBuf'[u].num + c < ErasedNum
      BY <1>0, <2>3 DEF NumsInv, c
    <2>5. QED
      BY <2>1, <2>2, <2>4 DEF NumsInv, c
  <1>11. QED
    BY <1>8, <1>9, <1>10 DEF SettledInv

LEMMA SettledInit == TasksInit => SettledInv
  <1> SUFFICES ASSUME TasksInit PROVE SettledInv
    OBVIOUS
  <1> USE DEF TasksInit
  <1>1. 0 \in Pages /\ sectors[0] = FirstPage
    BY DEF Pages
  <1>2. /\ HeadTailOk(FirstPage) /\ FirstPage.num = 1 /\ ~HeadTailOk(Blank)
        /\ FirstPage.data \in Contents
    BY DEF HeadTailOk, FirstPage, Blank
  <1>3. \A p \in Pages : HeadTailOk(sectors[p]) => sectors[p] = FirstPage
    BY <1>2
  <1>4. WrittenInv
    BY <1>1, <1>2, <1>3 DEF WrittenInv
  <1>5. \A t \in Tasks : ChoiceInv(t)
    BY DEF ChoiceInv
  <1>6. NumsInv
    <2>1. Undecided = {}
      BY DEF Undecided
    <2>2. Cardinality(Undecided) = 0
      BY <2>1, FS_EmptySet
    <2>3. QED
      BY <1>2, <1>3, <2>2 DEF NumsInv, Pending
  <1>7. QED
    BY <1>4, <1>5, <1>6 DEF SettledInv

\* In a ring of several sectors every step that overtakes nobody keeps the ring settled.
LEMMA SettledStep ==
  ASSUME NPages > 1, TornInv, SettledInv, overtaken = {}, overtaken' = {}, [TasksNext]_tasksVars
  PROVE  SettledInv'
  <1>0. TasksTypeOK /\ ImagesInv /\ (\A t \in Tasks : ChoiceInv(t)) /\ WrittenInv /\ NumsInv
    BY DEF TornInv, SettledInv
  <1>t. /\ sectors \in [Pages -> Page]
        /\ taskPc \in [Tasks -> {"idle", "scan", "drop", "chosen", "flash", "program", "ack"}]
        /\ taskOp \in [Tasks -> {ReadOp} \cup WriteOps]
        /\ taskI \in [Tasks -> 0 .. NPages] /\ taskMax \in [Tasks -> 0 .. ErasedNum]
        /\ taskCur \in [Tasks -> Pages \cup {NoPage}]
        /\ taskBuf \in [Tasks -> Page]
    BY <1>0 DEF TasksTypeOK
  <1>p. NoPage \notin Pages /\ 0 \in 0 .. NPages /\ \A p \in Pages : 0 <= p /\ p \in Int
    BY DEF Pages, NoPage
  <1>1. ASSUME NEW t \in Tasks, NEW o \in {ReadOp} \cup WriteOps, Call(t, o)
        PROVE  SettledInv'
    <2> USE <1>1 DEF Call
    <2>1. ASSUME NEW u \in Tasks PROVE ChoiceInv(u)'
      <3>1. CASE u = t
        <4>1. taskPc'[u] = "scan" /\ taskCur'[u] = NoPage /\ taskMax'[u] = 0 /\ taskI'[u] = 0
          BY <1>t, <3>1
        <4>2. \E p \in Pages : 0 <= p /\ HeadTailOk(sectors'[p])
          BY <1>0, <1>p DEF WrittenInv
        <4>3. QED
          BY <4>1, <4>2 DEF ChoiceInv
      <3>2. CASE u # t
        <4>1. taskPc'[u] = taskPc[u] /\ taskCur'[u] = taskCur[u] /\ taskMax'[u] = taskMax[u]
              /\ taskI'[u] = taskI[u]
          BY <1>t, <3>2
        <4>2. QED
          BY <1>0, <4>1 DEF ChoiceInv
      <3>3. QED
        BY <3>1, <3>2
    <2>2. WrittenInv'
      BY <1>0 DEF WrittenInv
    <2>3. NumsInv'
      <3>0. \A u \in Tasks : Pending(u)' => Pending(u) /\ taskBuf'[u] = taskBuf[u]
        BY <1>t DEF Pending
      <3>1. CASE o = ReadOp
        <4>1. ReadOp \notin WriteOps
          BY DEF ReadOp, WriteOps
        <4>2. Undecided' \in SUBSET Undecided
          BY <1>t, <3>1, <4>1 DEF Undecided
        <4>3. QED
          BY <1>0, <3>0, <4>2, NumsKept
      <3>2. CASE o \in WriteOps
        <4> DEFINE d == Cardinality(Undecided')
                   n == Cardinality(Tasks)
        <4>1. Undecided' \in SUBSET Tasks
          BY DEF Undecided
        <4>2. d \in Nat /\ n \in Nat /\ d <= n
          BY <4>1, FewerTasks
        <4>3. /\ \A p \in Pages : HeadTailOk(sectors[p]) => sectors[p].num + n < ErasedNum
              /\ \A u \in Tasks : Pending(u) => taskBuf[u].num + n < ErasedNum
          BY <3>2 DEF TasksNumLimit, Pending
        <4> HIDE DEF d, n
        <4>4. \A p \in Pages : HeadTailOk(sectors[p]) => sectors[p].num + d < ErasedNum
          BY <1>t, <4>2, <4>3 DEF Page
        <4>5. \A u \in Tasks : taskBuf[u].num \in Nat
          BY <1>t DEF Page
        <4>6. \A u \in Tasks : Pending(u)' => taskBuf[u].num + d < ErasedNum
          BY <3>0, <4>2, <4>3, <4>5
        <4>7. QED
          BY <4>4, <4>6 DEF NumsInv, d
      <3>3. QED
        BY <3>1, <3>2
    <2>4. QED
      BY <2>1, <2>2, <2>3 DEF SettledInv
  <1>2. ASSUME NEW t \in Tasks, ScanSector(t) PROVE SettledInv'
    <2> USE <1>2 DEF ScanSector
    <2>1. taskI[t] \in Pages /\ taskI' = [taskI EXCEPT ![t] = taskI[t] + 1]
      BY <1>t DEF Pages
    <2>2. /\ taskCur'[t] # NoPage => HeadTailOk(sectors[taskCur'[t]])
          /\ taskCur'[t] = NoPage =>
                taskMax'[t] = 0 /\ \E p \in Pages : taskI[t] + 1 <= p /\ HeadTailOk(sectors[p])
          /\ \A u \in Tasks \ {t} : taskCur'[u] = taskCur[u] /\ taskMax'[u] = taskMax[u]
      <3>1. CASE taskI[t] \in ScanCandidates(sectors, taskMax[t])
        BY <1>t, <1>p, <2>1, <3>1 DEF ScanCandidates
      <3>2. CASE taskI[t] \notin ScanCandidates(sectors, taskMax[t])
        <4>1. taskCur' = taskCur /\ taskMax' = taskMax
          BY <3>2
        <4>2. taskCur[t] # NoPage => HeadTailOk(sectors[taskCur[t]])
          BY <1>0 DEF ChoiceInv
        <4>3. ASSUME taskCur[t] = NoPage
              PROVE  taskMax[t] = 0 /\ \E p \in Pages : taskI[t] + 1 <= p /\ HeadTailOk(sectors[p])
          <5>1. taskMax[t] = 0
            BY <1>0, <4>3 DEF ChoiceInv
          <5>2. PICK p \in Pages : taskI[t] <= p /\ HeadTailOk(sectors[p])
            BY <1>0, <4>3 DEF ChoiceInv
          <5>3. sectors[taskI[t]].num \in Nat
            BY <1>t, <2>1 DEF Page
          <5>4. ~HeadTailOk(sectors[taskI[t]])
            BY <2>1, <3>2, <5>1, <5>3 DEF ScanCandidates
          <5>5. p # taskI[t]
            BY <5>2, <5>4
          <5>6. taskI[t] + 1 <= p
            BY <1>p, <2>1, <5>2, <5>5
          <5>7. QED
            BY <5>1, <5>2, <5>6
        <4>4. QED
          BY <4>1, <4>2, <4>3
      <3>3. QED
        BY <3>1, <3>2
    <2>3. ASSUME NEW u \in Tasks PROVE ChoiceInv(u)'
      <3>1. CASE u = t
        <4>1. taskI'[u] = taskI[t] + 1 /\ taskPc'[u] = "scan" /\ sectors' = sectors
          BY <1>t, <2>1, <3>1
        <4>2. QED
          BY <2>2, <3>1, <4>1 DEF ChoiceInv
      <3>2. CASE u # t
        <4>1. taskI'[u] = taskI[u] /\ taskMax'[u] = taskMax[u] /\ taskCur'[u] = taskCur[u]
          BY <1>t, <2>1, <2>2, <3>2
        <4>2. QED
          BY <1>0, <4>1 DEF ChoiceInv
      <3>3. QED
        BY <3>1, <3>2
    <2>4. WrittenInv' /\ NumsInv'
      BY <1>0 DEF WrittenInv, NumsInv, Undecided, Pending
    <2>5. QED
      BY <2>3, <2>4 DEF SettledInv
  <1>3. ASSUME NEW t \in Tasks, VerifyChosen(t) PROVE SettledInv'
    <2> USE <1>3 DEF VerifyChosen, scan
    <2>1. taskCur[t] # NoPage
      <3>1. \A p \in Pages : ~(taskI[t] <= p)
        BY DEF Pages
      <3>2. QED
        BY <1>0, <3>1 DEF ChoiceInv
    <2>2. taskCur[t] \in Pages /\ HeadTailOk(sectors[taskCur[t]])
      BY <1>0, <1>t, <2>1 DEF ChoiceInv
    <2>3. ChoiceIntact(t)
      BY <1>0, <2>2 DEF WrittenInv, ChoiceIntact, ChecksumOk
    <2>4. taskPc' = [taskPc EXCEPT ![t] = "chosen"]
      BY <2>3
    <2>5. \A u \in Tasks : ChoiceInv(u)'
      BY <1>0, <1>t, <2>1, <2>2, <2>4 DEF ChoiceInv
    <2>6. WrittenInv'
      BY <1>0 DEF WrittenInv
    <2>7. Undecided' \in SUBSET Undecided /\ \A u \in Tasks : Pending(u)' => Pending(u) /\ taskBuf'[u] = taskBuf[u]
      BY <1>t, <2>4 DEF Undecided, Pending
    <2>8. NumsInv'
      BY <1>0, <2>7, NumsKept
    <2>9. QED
      BY <2>5, <2>6, <2>8 DEF SettledInv
  <1>4. ASSUME NEW t \in Tasks, DropSector(t) PROVE SettledInv'
    BY <1>0, <1>4 DEF DropSector, ChoiceInv
  <1>5. ASSUME NEW t \in Tasks, CopyPage(t) PROVE SettledInv'
    <2> USE <1>5 DEF CopyPage, scan
    <2>1. \A u \in Tasks : ChoiceInv(u)'
      BY <1>0, <1>t DEF ChoiceInv
    <2>2. WrittenInv'
      BY <1>0 DEF WrittenInv
    <2>3. Undecided' \in SUBSET Undecided /\ \A u \in Tasks : Pending(u)' => Pending(u) /\ taskBuf'[u] = taskBuf[u]
      BY <1>t DEF Undecided, Pending
    <2>4. NumsInv'
      BY <1>0, <2>3, NumsKept
    <2>5. QED
      BY <2>1, <2>2, <2>4 DEF SettledInv
  <1>6. ASSUME NEW t \in Tasks, ComposeImage(t) PROVE SettledInv'
    <2>0. /\ taskPc[t] = "chosen" /\ taskOp[t] \in WriteOps
          /\ UNCHANGED <<sectors, taskOp, taskI, taskMax, taskCur>>
      BY <1>6 DEF ComposeImage, scan
    <2>1. taskCur[t] \in Pages /\ HeadTailOk(sectors[taskCur[t]]) /\ taskCur[t] # NoPage
      BY <1>0, <1>t, <2>0 DEF ChoiceInv
    <2>2. ChoiceIntact(t)
      BY <1>0, <2>1 DEF WrittenInv, ChoiceIntact, ChecksumOk
    <2> DEFINE img == PageImage(sectors, taskCur[t], taskOp[t].param, taskOp[t].val)
               n == sectors[taskCur[t]].num
               c == Cardinality(Undecided)
               d == Cardinality(Undecided')
    <2>3. \/ /\ taskPc' = [taskPc EXCEPT ![t] = "idle"] /\ taskBuf' = taskBuf
          \/ /\ taskPc' = [taskPc EXCEPT ![t] = "flash"] /\ taskBuf' = [taskBuf EXCEPT ![t] = img]
      BY <1>6, <2>2 DEF ComposeImage, SeenBy
    <2>4. n \in Nat /\ n # ErasedNum /\ n + c < ErasedNum
      BY <1>0, <1>t, <2>1 DEF NumsInv, HeadTailOk, Page
    <2>5. img.num = n + 1
      <3>1. img.num = NextNum(n)
        BY <2>1 DEF PageImage
      <3>2. QED
        BY <2>4, <3>1 DEF NextNum
    <2> HIDE DEF img, n, c, d
    <2>6. \A u \in Tasks : ChoiceInv(u)'
      BY <1>0, <1>t, <2>0, <2>1, <2>3 DEF ChoiceInv
    <2>7. WrittenInv'
      BY <1>0, <2>0 DEF WrittenInv
    <2>8. NumsInv'
      <3>1. Undecided \in SUBSET Tasks /\ Undecided' \in SUBSET Undecided /\ t \in Undecided \ Undecided'
        BY <1>t, <2>0, <2>3 DEF Undecided
      <3>2. c \in Nat /\ d \in Nat /\ d + 1 <= c
        BY <3>1, FewerTasks DEF c, d
      <3>3. img.num + d < ErasedNum
        BY <2>4, <2>5, <3>2
      <3>4. /\ \A p \in Pages : HeadTailOk(sectors[p]) => sectors[p].num + c < ErasedNum
            /\ \A u \in Tasks : Pending(u) => taskBuf[u].num + c < ErasedNum
        BY <1>0 DEF NumsInv, c
      <3>5. \A p \in Pages : HeadTailOk(sectors[p]) => sectors[p].num + d < ErasedNum
        BY <1>t, <3>2, <3>4 DEF Page
      <3>6. ASSUME NEW u \in Tasks, Pending(u)' PROVE taskBuf'[u].num + d < ErasedNum
        <4>1. CASE u = t
          <5>1. taskBuf'[u] = img
            BY <1>t, <2>3, <3>6, <4>1 DEF Pending
          <5>2. QED
            BY <3>3, <5>1
        <4>2. CASE u # t
          <5>1. Pending(u) /\ taskBuf'[u] = taskBuf[u]
            BY <1>t, <2>3, <3>6, <4>2 DEF Pending
          <5>2. taskBuf[u].num \in Nat
            BY <1>t DEF Page
          <5>3. QED
            BY <3>2, <3>4, <5>1, <5>2
        <4>3. QED
          BY <4>1, <4>2
      <3>7. QED
        BY <2>0, <3>5, <3>6 DEF NumsInv, d
    <2>9. QED
      BY <2>6, <2>7, <2>8 DEF SettledInv
  <1>7. ASSUME NEW t \in Tasks, WriteSector(t) PROVE SettledInv'
    BY <1>7, ImageKeeps DEF WriteSector, Pending, scan
  <1>8. ASSUME NEW t \in Tasks, EraseSector(t) PROVE SettledInv'
    <2> DEFINE k == NextPage(taskCur[t])
    <2>0. /\ taskPc[t] = "flash" /\ sectors' = [sectors EXCEPT ![k] = Blank]
          /\ taskPc' = [taskPc EXCEPT ![t] = "program"]
          /\ UNCHANGED <<taskOp, taskI, taskMax, taskCur, taskBuf>>
      BY <1>8 DEF EraseSector, scan
    <2>1. \A u \in Tasks : u # t => taskPc[u] = "idle"
      BY <1>8 DEF EraseSector, InCall
    <2>2. taskCur[t] \in Pages /\ HeadTailOk(sectors[taskCur[t]])
      BY <1>0, <1>t, <2>0 DEF ChoiceInv
    <2>3. k \in Pages /\ taskCur[t] # k
      BY <2>2, NextPageType, NextPageDiffers
    <2> HIDE DEF k
    <2>4. \A u \in Tasks : taskPc'[u] \in {"idle", "program"}
      BY <1>t, <2>0, <2>1
    <2>5. \A u \in Tasks : ChoiceInv(u)'
      BY <2>4 DEF ChoiceInv
    <2>6. ~HeadTailOk(Blank)
      BY DEF HeadTailOk, Blank
    <2>7. \A p \in Pages : HeadTailOk(sectors'[p]) => sectors'[p] = sectors[p]
      BY <1>t, <2>0, <2>6
    <2>8. HeadTailOk(sectors'[taskCur[t]])
      BY <1>t, <2>0, <2>2, <2>3
    <2>9. WrittenInv'
      BY <1>0, <2>2, <2>7, <2>8 DEF WrittenInv
    <2>10. NumsInv'
      <3>1. Undecided' = Undecided
        BY <1>t, <2>0 DEF Undecided
      <3>2. \A u \in Tasks : Pending(u)' => Pending(u) /\ taskBuf'[u] = taskBuf[u]
        BY <1>t, <2>0 DEF Pending
      <3>3. QED
        BY <1>0, <2>7, <3>1, <3>2 DEF NumsInv
    <2>11. QED
      BY <2>5, <2>9, <2>10 DEF SettledInv
  <1>9. ASSUME NEW t \in Tasks, ProgramSector(t) PROVE SettledInv'
    <2>1. t \in InCall
      BY <1>9 DEF ProgramSector, InCall
    <2>2. sectors' = [sectors EXCEPT ![NextPage(taskCur[t])] = taskBuf[t]]
      BY <1>9, <2>1 DEF ProgramSector
    <2>3. QED
      BY <1>9, <2>2, ImageKeeps DEF ProgramSector, Pending, scan
  <1>10. ASSUME NEW t \in Tasks, ReturnTested(t) PROVE SettledInv'
    <2> USE <1>10 DEF ReturnTested, scan
    <2>1. \A u \in Tasks : taskPc'[u] # "idle" => taskPc'[u] = taskPc[u] /\ taskBuf'[u] = taskBuf[u]
      BY <1>t
    <2>2. \A u \in Tasks : ChoiceInv(u)'
      BY <1>0, <2>1 DEF ChoiceInv
    <2>3. WrittenInv'
      BY <1>0 DEF WrittenInv
    <2>4. Undecided' \in SUBSET Undecided /\ \A u \in Tasks : Pending(u)' => Pending(u) /\ taskBuf'[u] = taskBuf[u]
      BY <2>1 DEF Undecided, Pending
    <2>5. NumsInv'
      BY <1>0, <2>4, NumsKept
    <2>6. QED
      BY <2>2, <2>3, <2>5 DEF SettledInv
  <1>11. CASE DspSwitches \/ UNCHANGED tasksVars
    <2>1. UNCHANGED <<sectors, taskPc, taskOp, taskI, taskMax, taskCur, taskBuf>>
      BY <1>11 DEF DspSwitches, tasksVars, scan
    <2>2. \A u \in Tasks : ChoiceInv(u)'
      BY <1>0, <2>1 DEF ChoiceInv
    <2>3. WrittenInv' /\ NumsInv'
      BY <1>0, <2>1 DEF WrittenInv, NumsInv, Undecided, Pending
    <2>4. QED
      BY <2>2, <2>3 DEF SettledInv
  <1>12. QED
    BY <1>1, <1>2, <1>3, <1>4, <1>5, <1>6, <1>7, <1>8, <1>9, <1>10, <1>11 DEF TasksNext

\* No step takes a task out of the ones that were overtaken.
LEMMA OvertakenGrows == [TasksNext]_tasksVars => overtaken \subseteq overtaken'
  BY DEF TasksNext, tasksVars, Call, ScanSector, VerifyChosen, DropSector, CopyPage, ComposeImage,
         WriteSector, EraseSector, ProgramSector, ReturnTested, DspSwitches

\* For any number of tasks, and any ring of two sectors or more: while no task was
\* in a call when another one left a sector erased, every scan of
\* xy_choose_valid_ftl settles on a good page, however often the DSP writes the
\* ring meanwhile and also when it begins between this core's erase and its
\* programming; and a task that was never overtaken so never copies out an erased
\* or half-written sector, whatever other tasks did to the ring.
THEOREM NoTaskReadsTornSector == NPages > 1 => (TasksSpec => []NoTornRead)
  <1> DEFINE Inv == TornInv /\ (overtaken = {} => SettledInv)
  <1>1. TasksInit => Inv
    BY TornInvInit, SettledInit
  <1>2. ASSUME NPages > 1 PROVE Inv /\ [TasksNext]_tasksVars => Inv'
    <2> SUFFICES ASSUME Inv, [TasksNext]_tasksVars PROVE Inv'
      OBVIOUS
    <2>1. TornInv'
      BY TornInvStep
    <2>2. overtaken' = {} => overtaken = {}
      BY OvertakenGrows
    <2>3. overtaken' = {} => SettledInv'
      BY <1>2, <2>2, SettledStep
    <2>4. QED
      BY <2>1, <2>3
  <1>3. Inv => NoTornRead
    <2> SUFFICES ASSUME Inv PROVE NoTornRead
      OBVIOUS
    <2>1. \A t \in Tasks \ overtaken : taskData[t] # Damaged
      BY DEF TornInv, IntactInv
    <2>2. ASSUME overtaken = {}, NEW t \in Tasks, taskPc[t] = "scan", taskI[t] = NPages
          PROVE  taskCur[t] # NoPage /\ ChecksumOk(sectors[taskCur[t]])
      <3>1. \A p \in Pages : ~(taskI[t] <= p)
        BY <2>2 DEF Pages
      <3>2. taskCur[t] # NoPage /\ HeadTailOk(sectors[taskCur[t]])
        BY <2>2, <3>1 DEF SettledInv, ChoiceInv
      <3>3. taskCur[t] \in Pages
        BY <3>2 DEF TornInv, TasksTypeOK
      <3>4. sectors[taskCur[t]].data \in Contents
        BY <2>2, <3>2, <3>3 DEF SettledInv, WrittenInv
      <3>5. QED
        BY <3>2, <3>4 DEF ChecksumOk
    <2>3. ASSUME overtaken = {}, NEW t \in Tasks, taskPc[t] = "ack"
          PROVE  sectors[NextPage(taskCur[t])].magic
      BY <2>3 DEF SettledInv, ChoiceInv, HeadTailOk
    <2>4. QED
      BY <2>1, <2>2, <2>3 DEF NoTornRead, ScanSettles
  <1>4. SUFFICES ASSUME NPages > 1 PROVE TasksSpec => []NoTornRead
    OBVIOUS
  <1>5. Inv /\ [TasksNext]_tasksVars => Inv'
    BY <1>2, <1>4
  <1>6. QED
    BY <1>1, <1>3, <1>5, PTL DEF TasksSpec

=============================================================================
