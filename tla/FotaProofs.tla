---------------------------- MODULE FotaProofs ----------------------------
(***************************************************************************)
(* Proofs about the update over AT commands: whatever blocks the host      *)
(* sends, whichever writes are refused and whenever the system restarts,   *)
(* the boot loader is handed a whole, genuine package made for the image,  *)
(* unless a header was refused in a block that began where the hashed part *)
(* does; and no download touches the running image.                        *)
(***************************************************************************)
EXTENDS Fota, SequenceTheorems, TLAPS

(***************************************************************************)
(* Lemmas about blocks and flash.                                          *)
(***************************************************************************)

\* What a block that the host may send consists of.
LEMMA BlockIs ==
    ASSUME TypeOK, NEW p \in Packages, NEW n \in BlockLens
    PROVE  /\ Block(p, n) \in Seq(Units)
           /\ Len(Block(p, n)) = n /\ n \in Nat \ {0}
           /\ Block(p, n)[1] = <<p, pos + 1>>
<1>1. pos \in Nat /\ n \in Nat \ {0}
  BY SizesAssumption DEF TypeOK
<1>2. \A i \in 1..n : <<p, pos + i>> \in Units
  BY <1>1 DEF Units
<1>3. Block(p, n) = [i \in 1..n |-> <<p, pos + i>>]
  BY DEF Block
<1>4. n \in Nat
  BY <1>1
<1>5. Block(p, n) \in [1..n -> Units]
  BY <1>2, <1>3
<1>6. Block(p, n) \in Seq(Units) /\ Len(Block(p, n)) = n
  <2> HIDE DEF Block
  <2> QED BY <1>4, <1>5, SeqDef, LenProperties
<1>7. Block(p, n)[1] = <<p, pos + 1>>
  BY <1>1, <1>3
<1> QED
  BY <1>1, <1>6, <1>7

\* Programming data into erased flash.
LEMMA WriteIs ==
    ASSUME NEW f \in [Addrs -> Contents],
           NEW b \in Nat, NEW data \in Seq(Units)
    PROVE  /\ xy_flash_write_no_erase(f, b, data)
                 \in [Addrs -> Contents]
           /\ \A a \in Addrs : a \in b..(b + Len(data) - 1) /\ f[a] = Erased
                 => xy_flash_write_no_erase(f, b, data)[a] = data[a - b + 1]
           /\ \A a \in Addrs : a \notin b..(b + Len(data) - 1)
                 => xy_flash_write_no_erase(f, b, data)[a] = f[a]
<1>1. Addrs \subseteq Int
  BY SizesAssumption DEF Addrs
<1>2. ASSUME NEW a \in Addrs, a \in b..(b + Len(data) - 1)
      PROVE  a - b + 1 \in 1..Len(data) /\ data[a - b + 1] \in Units
  BY <1>1, <1>2
<1> QED
  BY <1>1, <1>2 DEF xy_flash_write_no_erase, Contents

\* The first write of a package: its header and what follows it, and erased
\* flash behind.
LEMMA WriteHeadIs ==
    ASSUME TypeOK, NEW b \in Nat, NEW h \in Seq(Units), NEW r \in Seq(Units),
           Len(h) = HeadLen, HeadLen + Len(r) <= AreaLen, b + AreaLen <= FlashEnd
    PROVE  /\ WriteHead(b, h, r) \in [Addrs -> Contents]
           /\ \A i \in 1..HeadLen : WriteHead(b, h, r)[b + i - 1] = h[i]
           /\ \A i \in 1..Len(r) : WriteHead(b, h, r)[b + HeadLen + i - 1] = r[i]
           /\ \A a \in (b + HeadLen + Len(r))..(b + AreaLen - 1) :
                 WriteHead(b, h, r)[a] = Erased
<1> DEFINE e == xy_flash_erase(flash, b, AreaLen)
           w == xy_flash_write_no_erase(e, b, h)
           v == xy_flash_write_no_erase(w, b + HeadLen, r)
<1>1. HeadLen \in Nat /\ AreaLen \in Nat /\ FlashEnd \in Nat /\ Len(r) \in Nat
  BY SizesAssumption
<1>2. /\ e \in [Addrs -> Contents]
      /\ \A a \in b..(b + AreaLen - 1) : a \in Addrs /\ e[a] = Erased
  BY <1>1 DEF xy_flash_erase, TypeOK, Addrs, Contents
<1>3. /\ w \in [Addrs -> Contents]
      /\ \A a \in b..(b + HeadLen - 1) : w[a] = h[a - b + 1]
      /\ \A a \in (b + HeadLen)..(b + AreaLen - 1) : w[a] = Erased
  <2> HIDE DEF e
  <2>1. \A a \in b..(b + HeadLen - 1) : a \in b..(b + AreaLen - 1)
    BY <1>1
  <2>2. \A a \in (b + HeadLen)..(b + AreaLen - 1) :
           a \in b..(b + AreaLen - 1) /\ a \notin b..(b + HeadLen - 1)
    BY <1>1
  <2>3. /\ w \in [Addrs -> Contents]
        /\ \A a \in Addrs : a \in b..(b + Len(h) - 1) /\ e[a] = Erased => w[a] = h[a - b + 1]
        /\ \A a \in Addrs : a \notin b..(b + Len(h) - 1) => w[a] = e[a]
    BY <1>2, WriteIs
  <2> HIDE DEF w
  <2> QED BY <2>1, <2>2, <2>3, <1>2
<1>4. /\ v \in [Addrs -> Contents]
      /\ \A a \in b..(b + HeadLen - 1) : v[a] = h[a - b + 1]
      /\ \A a \in (b + HeadLen)..(b + HeadLen + Len(r) - 1) : v[a] = r[a - (b + HeadLen) + 1]
      /\ \A a \in (b + HeadLen + Len(r))..(b + AreaLen - 1) : v[a] = Erased
  <2> HIDE DEF w, e
  <2>1. \A a \in b..(b + HeadLen - 1) :
           a \in b..(b + AreaLen - 1) /\ a \notin (b + HeadLen)..(b + HeadLen + Len(r) - 1)
    BY <1>1
  <2>2. \A a \in (b + HeadLen)..(b + HeadLen + Len(r) - 1) :
           a \in b..(b + AreaLen - 1) /\ a \in (b + HeadLen)..(b + AreaLen - 1)
    BY <1>1
  <2>3. \A a \in (b + HeadLen + Len(r))..(b + AreaLen - 1) :
           /\ a \in b..(b + AreaLen - 1) /\ a \in (b + HeadLen)..(b + AreaLen - 1)
           /\ a \notin (b + HeadLen)..(b + HeadLen + Len(r) - 1)
    BY <1>1
  <2>4. b + HeadLen \in Nat
    BY <1>1
  <2>5. /\ v \in [Addrs -> Contents]
        /\ \A a \in Addrs : a \in (b + HeadLen)..(b + HeadLen + Len(r) - 1) /\ w[a] = Erased
              => v[a] = r[a - (b + HeadLen) + 1]
        /\ \A a \in Addrs : a \notin (b + HeadLen)..(b + HeadLen + Len(r) - 1) => v[a] = w[a]
    <3> DEFINE c == b + HeadLen
    <3>1. c \in Nat /\ v = xy_flash_write_no_erase(w, c, r)
      BY <2>4
    <3>2. w \in [Addrs -> Contents]
      BY <1>3
    <3> HIDE DEF c, v
    <3>3. /\ v \in [Addrs -> Contents]
          /\ \A a \in Addrs : a \in c..(c + Len(r) - 1) /\ w[a] = Erased
                => v[a] = r[a - c + 1]
          /\ \A a \in Addrs : a \notin c..(c + Len(r) - 1) => v[a] = w[a]
      BY <3>1, <3>2, WriteIs
    <3> QED BY <3>3 DEF c
  <2> HIDE DEF v
  <2> QED BY <2>1, <2>2, <2>3, <2>5, <1>2, <1>3
<1>5. WriteHead(b, h, r) = v
  BY DEF WriteHead, WithHead
<1> HIDE DEF v
<1>6. ASSUME NEW i \in 1..HeadLen PROVE v[b + i - 1] = h[i]
  <2>1. b + i - 1 \in b..(b + HeadLen - 1) /\ (b + i - 1) - b + 1 = i
    BY <1>1
  <2> QED BY <2>1, <1>4
<1>7. ASSUME NEW i \in 1..Len(r) PROVE v[b + HeadLen + i - 1] = r[i]
  <2>1. /\ b + HeadLen + i - 1 \in (b + HeadLen)..(b + HeadLen + Len(r) - 1)
        /\ (b + HeadLen + i - 1) - (b + HeadLen) + 1 = i
    BY <1>1
  <2> QED BY <2>1, <1>4
<1> QED
  BY <1>4, <1>5, <1>6, <1>7

-----------------------------------------------------------------------------
(***************************************************************************)
(* Flash whose running image is untouched.                                 *)
(***************************************************************************)
Safe(f) == f \in [Addrs -> Contents] /\ \A a \in Addrs : a < AreaBase => f[a] = Code

\* An erase above the running image keeps it.
LEMMA SafeErase ==
    ASSUME NEW f, Safe(f), NEW b \in Nat, b >= AreaBase, NEW n \in Nat
    PROVE  Safe(xy_flash_erase(f, b, n))
<1>1. \A a \in Addrs : a < AreaBase => a \notin b..(b + n - 1)
  BY SizesAssumption DEF Addrs
<1> QED BY <1>1 DEF Safe, xy_flash_erase, Contents

\* A write above it does too.
LEMMA SafeWrite ==
    ASSUME NEW f, Safe(f), NEW b \in Nat, b >= AreaBase, NEW data \in Seq(Units)
    PROVE  Safe(xy_flash_write_no_erase(f, b, data))
<1>1. \A a \in Addrs : a < AreaBase => a \notin b..(b + Len(data) - 1)
  BY SizesAssumption DEF Addrs
<1>2. f \in [Addrs -> Contents] /\ \A a \in Addrs : a < AreaBase => f[a] = Code
  BY DEF Safe
<1> DEFINE w == xy_flash_write_no_erase(f, b, data)
<1>3. /\ w \in [Addrs -> Contents]
      /\ \A a \in Addrs : a \notin b..(b + Len(data) - 1) => w[a] = f[a]
  BY <1>2, WriteIs
<1> HIDE DEF w
<1>4. Safe(w)
  BY <1>1, <1>2, <1>3 DEF Safe
<1> QED BY <1>4 DEF w

\* What programming a header, and what follows it, leaves in flash at any stage.
LEMMA SafeHead ==
    ASSUME Safe(flash), NEW b \in Nat, b >= AreaBase,
           NEW h \in Seq(Units), NEW r \in Seq(Units)
    PROVE  Safe(WriteHead(b, h, r)) /\ \A f \in HeadStages(b, h) : Safe(f)
<1> DEFINE e == xy_flash_erase(flash, b, AreaLen)
           w == xy_flash_write_no_erase(e, b, h)
           c == b + HeadLen
<1>1. Safe(e)
  BY SafeErase, SizesAssumption
<1>2. Safe(w)
  <2> HIDE DEF e
  <2> QED BY <1>1, SafeWrite
<1>3. c \in Nat /\ c >= AreaBase
  BY SizesAssumption
<1>4. Safe(xy_flash_write_no_erase(w, c, r))
  <2> HIDE DEF w, c
  <2> QED BY <1>2, <1>3, SafeWrite
<1> QED BY <1>1, <1>2, <1>4 DEF WriteHead, WithHead, HeadStages

\* The same for a block of the body, at any stage.
LEMMA SafeBody ==
    ASSUME TypeOK, BaseAboveImage, RunningImageKept, NEW pkt \in Seq(Units)
    PROVE  Safe(WriteBody(pkt)) /\ \A f \in BodyStages : Safe(f)
<1> DEFINE c == flash_base + recv_size
<1>1. /\ Safe(flash) /\ flash_base \in Nat /\ flash_base >= AreaBase
      /\ head \in Seq(Units) /\ c \in Nat /\ c >= AreaBase
  BY SizesAssumption DEF Safe, TypeOK, BaseAboveImage, RunningImageKept
<1>2. Safe(WriteHead(flash_base, head, pkt)) /\ \A f \in HeadStages(flash_base, head) : Safe(f)
  BY <1>1, SafeHead
<1>3. Safe(xy_flash_write_no_erase(flash, c, pkt))
  <2> HIDE DEF c
  <2> QED BY <1>1, SafeWrite
<1> QED BY <1>1, <1>2, <1>3 DEF WriteBody, BodyStages

\* The calls of a command, done or refused: as long as nothing was refused,
\* flash holds all that was to be written.
LEMMA ProgramsIs ==
    ASSUME Safe(flash), NEW full, NEW parts, Programs(full, parts),
           Safe(full), \A f \in parts : Safe(f)
    PROVE  /\ Safe(flash)' /\ low' \in BOOLEAN
           /\ ~low' => ~low /\ flash' = full
<1>1. CASE Permitted /\ flash' = full
  BY <1>1, Zenon DEF Permitted, Safe
<1>2. CASE Refused /\ flash' \in IF low THEN {flash} ELSE parts
  <2>1. low' = TRUE
    BY <1>2 DEF Refused
  <2>2. flash' = flash \/ flash' \in parts
    BY <1>2
  <2> QED BY <2>1, <2>2, Zenon DEF Safe
<1> QED BY <1>1, <1>2 DEF Programs

-----------------------------------------------------------------------------
(***************************************************************************)
(* Lemmas about the header.                                                *)
(***************************************************************************)

\* The header a packet completes, and what the packet holds behind it.
LEMMA FullHeadIs ==
    ASSUME TypeOK, HeadReceived, NEW pkt \in Seq(Units), HeadEnds(pkt)
    PROVE  /\ FullHead(pkt) \in Seq(Units) /\ Len(FullHead(pkt)) = HeadLen
           /\ AfterHead(pkt) \in Seq(Units)
           /\ Len(AfterHead(pkt)) = recv_size + Len(pkt) - HeadLen
           /\ PacketBase(FullHead(pkt)) \in Nat
           /\ PacketBase(FullHead(pkt)) + AreaLen <= FlashEnd
<1>1. /\ recv_size \in Nat /\ HeadLen \in Nat /\ Len(pkt) \in Nat
      /\ recv_size < HeadLen /\ recv_size + Len(pkt) >= HeadLen
      /\ head \in Seq(Units) /\ Len(head) = recv_size
  BY SizesAssumption DEF TypeOK, HeadReceived, HeadEnds
<1> DEFINE k == HeadLen - recv_size
           s == SubSeq(pkt, 1, k)
<1>2. k \in 1..Len(pkt)
  BY <1>1
<1>3. s \in Seq(Units) /\ Len(s) = k
  BY <1>2, SubSeqProperties
<1>4. FullHead(pkt) \in Seq(Units) /\ Len(FullHead(pkt)) = HeadLen
  <2>1. head \o s \in Seq(Units) /\ Len(head \o s) = recv_size + k
    <3> HIDE DEF s, k
    <3> QED BY <1>1, <1>3, ConcatProperties
  <2> QED BY <2>1, <1>1 DEF FullHead
<1>5. AfterHead(pkt) \in Seq(Units) /\ Len(AfterHead(pkt)) = recv_size + Len(pkt) - HeadLen
  <2>1. k + 1 \in 1..(Len(pkt) + 1)
    BY <1>2
  <2>2. /\ SubSeq(pkt, k + 1, Len(pkt)) \in Seq(Units)
        /\ Len(SubSeq(pkt, k + 1, Len(pkt)))
             = IF k + 1 <= Len(pkt) THEN Len(pkt) - (k + 1) + 1 ELSE 0
    <3>1. \A i \in (k + 1)..Len(pkt) : pkt[i] \in Units
      BY <1>1, <1>2
    <3>2. k + 1 \in Int /\ Len(pkt) \in Int
      BY <1>1
    <3> HIDE DEF k
    <3> QED BY <3>1, <3>2, SubSeqProperties
  <2> QED BY <2>1, <2>2, <1>1, <1>2 DEF AfterHead
<1>6. FullHead(pkt)[HeadLen] \in Units
  BY <1>4, <1>1
<1> QED
  BY <1>4, <1>5, <1>6, PackagesAssumption, SizesAssumption
  DEF PacketBase, Units, PackageRecords

\* What hmacInput is given when the header is accepted: its hashed part and
\* what follows.
LEMMA HashedHeadIs ==
    ASSUME NEW h \in Seq(Units), NEW r \in Seq(Units), Len(h) = HeadLen
    PROVE  LET q == SubSeq(h, ShaPart + 1, HeadLen) \o r
           IN  /\ q \in Seq(Units) /\ Len(q) = HeadLen - ShaPart + Len(r)
               /\ \A i \in 1..(HeadLen - ShaPart) : q[i] = h[ShaPart + i]
               /\ \A i \in 1..Len(r) : q[HeadLen - ShaPart + i] = r[i]
<1> DEFINE t == SubSeq(h, ShaPart + 1, HeadLen)
<1>1. ShaPart \in Nat /\ HeadLen \in Nat /\ ShaPart < HeadLen
  BY SizesAssumption
<1>2. /\ t \in Seq(Units) /\ Len(t) = HeadLen - ShaPart
      /\ \A i \in 1..(HeadLen - ShaPart) : t[i] = h[ShaPart + i]
  <2>1. \A i \in (ShaPart + 1)..HeadLen : h[i] \in Units
    BY <1>1
  <2>2. ShaPart + 1 \in Int /\ HeadLen \in Int
    BY <1>1
  <2>3. /\ t \in Seq(Units)
        /\ Len(t) = IF ShaPart + 1 <= HeadLen THEN HeadLen - (ShaPart + 1) + 1 ELSE 0
        /\ \A i \in 1..(HeadLen - (ShaPart + 1) + 1) : t[i] = h[ShaPart + 1 + i - 1]
    BY <2>1, <2>2, SubSeqProperties
  <2> HIDE DEF t
  <2> QED BY <2>3, <1>1
<1> HIDE DEF t
<1>3. /\ t \o r \in Seq(Units) /\ Len(t \o r) = Len(t) + Len(r)
      /\ \A i \in 1..(Len(t) + Len(r)) :
            (t \o r)[i] = IF i <= Len(t) THEN t[i] ELSE r[i - Len(t)]
  BY <1>2, ConcatProperties
<1> DEFINE q == t \o r
<1>5. /\ q \in Seq(Units) /\ Len(q) = HeadLen - ShaPart + Len(r)
      /\ \A i \in 1..(HeadLen - ShaPart) : q[i] = h[ShaPart + i]
      /\ \A i \in 1..Len(r) : q[HeadLen - ShaPart + i] = r[i]
  <2> HIDE DEF q
  <2>1. Len(r) \in Nat
    OBVIOUS
  <2>2. \A i \in 1..(HeadLen - ShaPart) : i \in 1..(Len(t) + Len(r)) /\ i <= Len(t)
    BY <1>1, <1>2, <2>1
  <2>4. /\ q \in Seq(Units) /\ Len(q) = Len(t) + Len(r)
        /\ \A i \in 1..(Len(t) + Len(r)) : q[i] = IF i <= Len(t) THEN t[i] ELSE r[i - Len(t)]
    BY <1>3 DEF q
  <2>5. \A i \in 1..(HeadLen - ShaPart) : q[i] = h[ShaPart + i]
    BY <2>2, <2>4, <1>2
  <2>6. \A i \in 1..Len(r) : q[HeadLen - ShaPart + i] = r[i]
    <3> SUFFICES ASSUME NEW i \in 1..Len(r) PROVE q[HeadLen - ShaPart + i] = r[i]
      OBVIOUS
    <3> DEFINE j == HeadLen - ShaPart + i
    <3>1. j \in 1..(Len(t) + Len(r)) /\ ~(j <= Len(t)) /\ j - Len(t) = i
      BY <1>1, <1>2, <2>1
    <3> HIDE DEF j
    <3>2. q[j] = r[j - Len(t)]
      BY <3>1, <2>4
    <3>3. q[j] = r[i]
      BY <3>1, <3>2
    <3> QED BY <3>3 DEF j
  <2> QED BY <2>4, <2>5, <2>6, <1>2
<1> QED
  BY <1>5, Zenon DEF t

-----------------------------------------------------------------------------
(***************************************************************************)
(* The four ways a block is taken.                                         *)
(***************************************************************************)
\* A block that does not end the header.
LEMMA HeadPartStep ==
    ASSUME TypeOK, FotaInv, NEW p \in Packages, NEW n \in BlockLens,
           at_fota_downing(p, n), HeadPart(Block(p, n))
    PROVE  TypeOK' /\ HeadReceived' /\ HeadDecided' /\ BaseAboveImage' /\ RunningImageKept'
<1> DEFINE pkt == Block(p, n)
<1>1. Downing /\ ~TooLarge(pkt)
  BY DEF at_fota_downing, Sends, Downing
<1>2. pkt \in Seq(Units) /\ Len(pkt) \in Nat
  BY BlockIs
<1>3. /\ recv_size \in Nat /\ pos \in Nat /\ HeadLen \in Nat /\ AreaLen \in Nat
      /\ head \in Seq(Units) /\ recv_size + Len(pkt) < HeadLen
  BY SizesAssumption DEF TypeOK, HeadPart
<1>4. recv_size = pos /\ hashed = <<>> /\ Len(head) = recv_size /\ refusedAt = None
  BY <1>1, <1>2, <1>3 DEF FotaInv, HeadReceived
<1>5. head' \in Seq(Units) /\ Len(head') = Len(head) + Len(pkt)
  <2> HIDE DEF pkt
  <2>1. head \o pkt \in Seq(Units) /\ Len(head \o pkt) = Len(head) + Len(pkt)
    BY <1>2, <1>3, ConcatProperties
  <2> QED BY <2>1 DEF HeadPart, pkt
<1>6. /\ recv_size' = recv_size + Len(pkt) /\ recv_size' <= AreaLen
      /\ pos' = pos + Len(pkt)
      /\ UNCHANGED <<flash_base, hashed, flash, low, refusedAt>>
  BY <1>1, <1>2, <1>3 DEF HeadPart, Taken, TooLarge
<1> HIDE DEF pkt
<1>7. HeadReceived' /\ HeadDecided'
  BY <1>2, <1>3, <1>4, <1>5, <1>6 DEF HeadReceived, HeadDecided
<1>8. BaseAboveImage' /\ RunningImageKept'
  BY <1>6 DEF FotaInv, BaseAboveImage, RunningImageKept
<1>9. TypeOK'
  BY <1>2, <1>3, <1>5, <1>6 DEF TypeOK, at_fota_downing, outcome
<1> QED BY <1>7, <1>8, <1>9

\* A block that ends a header which is refused.
LEMMA HeadRefusedStep ==
    ASSUME TypeOK, FotaInv, NEW p \in Packages, NEW n \in BlockLens,
           at_fota_downing(p, n), HeadRefused(Block(p, n))
    PROVE  TypeOK' /\ HeadReceived' /\ HeadDecided' /\ BaseAboveImage' /\ RunningImageKept'
<1> DEFINE pkt == Block(p, n)
<1>1. Downing /\ ~TooLarge(pkt) /\ HeadEnds(pkt)
  BY DEF at_fota_downing, Sends, Downing, HeadRefused
<1>2. pkt \in Seq(Units) /\ Len(pkt) \in Nat
  BY BlockIs
<1>3. /\ recv_size \in Nat /\ pos \in Nat /\ HeadLen \in Nat /\ AreaLen \in Nat
      /\ recv_size < HeadLen /\ recv_size + Len(pkt) >= HeadLen
      /\ recv_size + Len(pkt) <= AreaLen
  BY <1>1, <1>2, SizesAssumption DEF TypeOK, HeadEnds, TooLarge
<1>4. hashed = <<>>
  BY <1>1, <1>3 DEF FotaInv, HeadReceived
<1>5. FullHead(pkt) \in Seq(Units) /\ Len(FullHead(pkt)) = HeadLen
  BY <1>1, <1>2, FullHeadIs DEF FotaInv
<1>6. /\ head' = FullHead(pkt) /\ recv_size' = HeadLen /\ refusedAt' = pos
      /\ UNCHANGED <<pos, flash_base, hashed, flash, low>>
  BY DEF HeadRefused
<1> HIDE DEF pkt
<1>7. RefusedHead'
  <2>1. Len(hashed') = 0 /\ hashed' = <<>>
    BY <1>4, <1>6
  <2> QED BY <2>1, <1>3, <1>6 DEF RefusedHead
<1>8. HeadReceived' /\ HeadDecided'
  BY <1>3, <1>5, <1>6, <1>7 DEF HeadReceived, HeadDecided
<1>9. BaseAboveImage' /\ RunningImageKept'
  BY <1>6 DEF FotaInv, BaseAboveImage, RunningImageKept
<1>10. TypeOK'
  BY <1>3, <1>5, <1>6 DEF TypeOK, at_fota_downing, outcome
<1> QED BY <1>8, <1>9, <1>10

\* A block that ends a header which is accepted.
LEMMA HeadAcceptedStep ==
    ASSUME TypeOK, FotaInv, NEW p \in Packages, NEW n \in BlockLens,
           at_fota_downing(p, n), HeadAccepted(Block(p, n))
    PROVE  TypeOK' /\ HeadReceived' /\ HeadDecided' /\ BaseAboveImage' /\ RunningImageKept'
<1> DEFINE pkt == Block(p, n)
           h == FullHead(pkt)
           r == AfterHead(pkt)
           b == PacketBase(h)
           q == SubSeq(h, ShaPart + 1, HeadLen) \o r
<1>1. Downing /\ ~TooLarge(pkt) /\ HeadEnds(pkt) /\ HeadOk(h)
  BY DEF at_fota_downing, Sends, Downing, HeadAccepted
<1>2. pkt \in Seq(Units) /\ Len(pkt) \in Nat
  BY BlockIs
<1>3. /\ recv_size \in Nat /\ HeadLen \in Nat /\ AreaLen \in Nat /\ ShaPart \in Nat
      /\ recv_size < HeadLen /\ recv_size + Len(pkt) >= HeadLen
      /\ recv_size + Len(pkt) <= AreaLen /\ ShaPart < HeadLen
  BY <1>1, <1>2, SizesAssumption DEF TypeOK, HeadEnds, TooLarge
<1>4. hashed = <<>> /\ refusedAt = None
  BY <1>1, <1>3 DEF FotaInv, HeadReceived
<1>5. /\ h \in Seq(Units) /\ Len(h) = HeadLen
      /\ r \in Seq(Units) /\ Len(r) = recv_size + Len(pkt) - HeadLen
      /\ b \in Nat /\ b + AreaLen <= FlashEnd
  BY <1>1, <1>2, FullHeadIs DEF FotaInv
<1>6. /\ head' = h /\ recv_size' = recv_size + Len(pkt) /\ flash_base' = b
      /\ hashed' = HmacInput(q) /\ Programs(WriteHead(b, h, r), HeadStages(b, h))
      /\ pos' = pos + Len(pkt) /\ refusedAt' = refusedAt
      /\ UNCHANGED <<fota_status, finished, info, outcome, image, boot>>
  BY DEF HeadAccepted, at_fota_downing, Taken
<1>7. /\ q \in Seq(Units) /\ Len(q) = HeadLen - ShaPart + Len(r)
      /\ \A i \in 1..(HeadLen - ShaPart) : q[i] = h[ShaPart + i]
      /\ \A i \in 1..Len(r) : q[HeadLen - ShaPart + i] = r[i]
  <2> HIDE DEF h, r
  <2> QED BY <1>5, HashedHeadIs, Zenon
<1>8. ota_version_check(h)
  BY <1>1 DEF HeadOk
<1>9. /\ Safe(flash)' /\ low' \in BOOLEAN
      /\ ~low' => flash' = WriteHead(b, h, r)
      /\ b >= AreaBase
  <2>1. b >= AreaBase
    BY <1>1 DEF HeadOk
  <2>2. Safe(flash)
    BY DEF Safe, TypeOK, FotaInv, RunningImageKept
  <2> HIDE DEF b, h, r
  <2>3. Safe(WriteHead(b, h, r)) /\ \A f \in HeadStages(b, h) : Safe(f)
    BY <2>1, <2>2, <1>5, SafeHead
  <2> QED BY <2>1, <2>2, <2>3, <1>6, ProgramsIs
<1>10. ~low' =>
      /\ \A i \in 1..HeadLen : flash'[b + i - 1] = h[i]
      /\ \A i \in 1..Len(r) : flash'[b + HeadLen + i - 1] = r[i]
      /\ \A a \in (b + HeadLen + Len(r))..(b + AreaLen - 1) : flash'[a] = Erased
  <2> HIDE DEF b, h, r
  <2>1. HeadLen + Len(r) <= AreaLen
    BY <1>2, <1>3, <1>5
  <2>2. /\ WriteHead(b, h, r) \in [Addrs -> Contents]
        /\ \A i \in 1..HeadLen : WriteHead(b, h, r)[b + i - 1] = h[i]
        /\ \A i \in 1..Len(r) : WriteHead(b, h, r)[b + HeadLen + i - 1] = r[i]
        /\ \A a \in (b + HeadLen + Len(r))..(b + AreaLen - 1) :
              WriteHead(b, h, r)[a] = Erased
    BY <2>1, <1>5, WriteHeadIs, SMTT(30)
  <2> QED BY <2>2, <1>9, Zenon
<1>11. hashed' \in Seq(Units)
  <2> HIDE DEF q
  <2>1. hashed \o q \in Seq(Units)
    BY <1>7, ConcatProperties DEF TypeOK
  <2> QED BY <2>1, <1>6 DEF TypeOK, HmacInput
<1>12. ~finished => hashed' = q
  <2> HIDE DEF q
  <2>1. hashed \o q = q
    BY <1>4, <1>7, ConcatEmptySeq
  <2> QED BY <2>1, <1>6 DEF HmacInput
<1>13. ota_version_check(head)'
  BY <1>6, <1>8 DEF ota_version_check
<1> HIDE DEF b, h, r, q, pkt
<1>14. ~finished /\ ~low' => \A i \in 1..Len(hashed') : flash'[b + ShaPart + i - 1] = hashed'[i]
  <2> SUFFICES ASSUME ~low', NEW i \in 1..Len(q) PROVE flash'[b + ShaPart + i - 1] = q[i]
    BY <1>12
  <2> DEFINE m == Len(r)
  <2>3. HeadLen \in Nat /\ ShaPart \in Nat /\ ShaPart < HeadLen
    BY <1>2, <1>3
  <2>4. b \in Nat /\ m \in Nat /\ i \in 1..(HeadLen - ShaPart + m)
    BY <1>5, <1>7
  <2>1. CASE i <= HeadLen - ShaPart
    <3> DEFINE j == ShaPart + i
    <3>1. j \in 1..HeadLen /\ i \in 1..(HeadLen - ShaPart) /\ b + ShaPart + i - 1 = b + j - 1
      BY <2>1, <2>3, <2>4
    <3> HIDE DEF j
    <3>2. flash'[b + j - 1] = h[j]
      BY <3>1, <1>10
    <3>3. q[i] = h[ShaPart + i]
      BY <3>1, <1>7
    <3> QED BY <3>1, <3>2, <3>3 DEF j
  <2>2. CASE ~(i <= HeadLen - ShaPart)
    <3> DEFINE j == i - (HeadLen - ShaPart)
    <3>1. /\ j \in 1..m /\ b + ShaPart + i - 1 = b + HeadLen + j - 1
          /\ HeadLen - ShaPart + j = i
      BY <2>2, <2>3, <2>4
    <3> HIDE DEF j
    <3>2. flash'[b + HeadLen + j - 1] = r[j]
      BY <3>1, <1>10
    <3>3. q[HeadLen - ShaPart + j] = r[j]
      BY <3>1, <1>7
    <3> QED BY <3>1, <3>2, <3>3
  <2> QED BY <2>1, <2>2
<1>15. ~finished => AcceptedHead'
  <2> SUFFICES ASSUME ~finished PROVE AcceptedHead'
    OBVIOUS
  <2>1. Len(hashed') = recv_size' - ShaPart
    <3>1. Len(r) = recv_size' - HeadLen /\ recv_size' \in Nat /\ hashed' = q
      BY <1>2, <1>3, <1>5, <1>6, <1>12
    <3>2. Len(hashed') = HeadLen - ShaPart + (recv_size' - HeadLen)
      BY <3>1, <1>7
    <3> QED BY <3>1, <3>2, <1>3
  <2>2. ~low' => \A a \in (flash_base' + recv_size')..(flash_base' + AreaLen - 1) :
                    flash'[a] = Erased
    <3>1. flash_base' + recv_size' = b + HeadLen + Len(r)
      BY <1>2, <1>3, <1>5, <1>6
    <3> QED BY <3>1, <1>6, <1>10
  <2> QED BY <2>1, <2>2, <1>4, <1>5, <1>6, <1>10, <1>13, <1>14 DEF AcceptedHead
<1>16. HeadReceived' /\ HeadDecided'
  BY <1>2, <1>3, <1>5, <1>6, <1>15 DEF HeadReceived, HeadDecided
<1>17. flash' \in [Addrs -> Contents] /\ RunningImageKept' /\ BaseAboveImage'
  BY <1>6, <1>9 DEF Safe, RunningImageKept, BaseAboveImage
<1>18. pos' \in Nat /\ recv_size' \in Nat /\ flash_base' \in Nat
  BY <1>2, <1>3, <1>5, <1>6 DEF TypeOK
<1>19. head' \in Seq(Units) /\ low' \in BOOLEAN /\ refusedAt' \in Nat \cup {None}
  BY <1>5, <1>6, <1>9, Zenon DEF TypeOK
<1>20. TypeOK'
  BY <1>6, <1>11, <1>17, <1>18, <1>19 DEF TypeOK, outcome
<1> QED BY <1>16, <1>17, <1>20

\* After an accepted header a block extends what was programmed.
LEMMA WriteBodyExtends ==
    ASSUME TypeOK, HeadReceived, AcceptedHead, ~low, recv_size >= HeadLen,
           NEW pkt \in Seq(Units), recv_size + Len(pkt) <= AreaLen
    PROVE  LET f == WriteBody(pkt)
           IN  /\ \A i \in 1..HeadLen : f[flash_base + i - 1] = head[i]
               /\ \A i \in 1..Len(hashed) : f[flash_base + ShaPart + i - 1] = hashed[i]
               /\ \A i \in 1..Len(pkt) : f[flash_base + recv_size + i - 1] = pkt[i]
               /\ \A a \in (flash_base + recv_size + Len(pkt))..(flash_base + AreaLen - 1) :
                     f[a] = Erased
<1> DEFINE f == WriteBody(pkt)
           b == flash_base
<1>1. /\ HeadLen \in Nat /\ ShaPart \in Nat /\ ShaPart < HeadLen /\ AreaLen \in Nat
      /\ recv_size \in Nat /\ b \in Nat /\ FlashEnd \in Nat /\ b + AreaLen <= FlashEnd
      /\ head \in Seq(Units) /\ Len(head) = HeadLen /\ Len(pkt) \in Nat
      /\ hashed \in Seq(Units) /\ Len(hashed) = recv_size - ShaPart
  BY SizesAssumption DEF TypeOK, HeadReceived, AcceptedHead
<1>2. /\ \A i \in 1..HeadLen : flash[b + i - 1] = head[i]
      /\ \A i \in 1..Len(hashed) : flash[b + ShaPart + i - 1] = hashed[i]
      /\ \A a \in (b + recv_size)..(b + AreaLen - 1) : flash[a] = Erased
  BY DEF AcceptedHead
<1>3. CASE recv_size = HeadLen
  <2>1. f = WriteHead(b, head, pkt)
    BY <1>3 DEF WriteBody
  <2> HIDE DEF f
  <2>2. HeadLen + Len(pkt) <= AreaLen
    BY <1>3
  <2>3. /\ \A i \in 1..HeadLen : f[b + i - 1] = head[i]
        /\ \A i \in 1..Len(pkt) : f[b + HeadLen + i - 1] = pkt[i]
        /\ \A a \in (b + HeadLen + Len(pkt))..(b + AreaLen - 1) : f[a] = Erased
    <3>1. /\ \A i \in 1..HeadLen : WriteHead(b, head, pkt)[b + i - 1] = head[i]
          /\ \A i \in 1..Len(pkt) : WriteHead(b, head, pkt)[b + HeadLen + i - 1] = pkt[i]
          /\ \A a \in (b + HeadLen + Len(pkt))..(b + AreaLen - 1) :
                WriteHead(b, head, pkt)[a] = Erased
      <4>1. /\ b \in Nat /\ head \in Seq(Units) /\ pkt \in Seq(Units) /\ Len(head) = HeadLen
            /\ HeadLen + Len(pkt) <= AreaLen /\ b + AreaLen <= FlashEnd
        BY <2>2, <1>1
      <4> HIDE DEF b
      <4> QED BY <4>1, WriteHeadIs, SMTT(30)
    <3> QED BY <3>1, <2>1
  <2>4. ASSUME NEW i \in 1..Len(hashed) PROVE f[b + ShaPart + i - 1] = hashed[i]
    <3> DEFINE j == ShaPart + i
    <3>1. j \in 1..HeadLen /\ b + ShaPart + i - 1 = b + j - 1
      BY <1>1, <1>3
    <3> HIDE DEF j
    <3>2. f[b + j - 1] = flash[b + j - 1]
      BY <3>1, <2>3, <1>2
    <3> QED BY <3>1, <3>2, <1>2
  <2> QED BY <2>3, <2>4, <1>3 DEF f
<1>4. CASE recv_size > HeadLen
  <2>1. f = xy_flash_write_no_erase(flash, b + recv_size, pkt)
    BY <1>1, <1>4 DEF WriteBody
  <2> HIDE DEF f
  <2>2. b + recv_size \in Nat
    BY <1>1
  <2>3. /\ \A a \in Addrs : a \in (b + recv_size)..(b + recv_size + Len(pkt) - 1)
                            /\ flash[a] = Erased => f[a] = pkt[a - (b + recv_size) + 1]
        /\ \A a \in Addrs : a \notin (b + recv_size)..(b + recv_size + Len(pkt) - 1)
                            => f[a] = flash[a]
    <3>1. flash \in [Addrs -> Contents]
      BY DEF TypeOK
    <3> DEFINE c == b + recv_size
    <3>2. c \in Nat /\ f = xy_flash_write_no_erase(flash, c, pkt)
      BY <2>1, <2>2
    <3> HIDE DEF c
    <3>3. /\ \A a \in Addrs : a \in c..(c + Len(pkt) - 1) /\ flash[a] = Erased
                => f[a] = pkt[a - c + 1]
          /\ \A a \in Addrs : a \notin c..(c + Len(pkt) - 1) => f[a] = flash[a]
      BY <3>1, <3>2, WriteIs
    <3> QED BY <3>3 DEF c
  <2>4. ASSUME NEW i \in 1..HeadLen PROVE f[b + i - 1] = head[i]
    <3>1. /\ b + i - 1 \in Addrs
          /\ b + i - 1 \notin (b + recv_size)..(b + recv_size + Len(pkt) - 1)
      BY <1>1, <1>4 DEF Addrs
    <3> QED BY <3>1, <2>3, <1>2
  <2>5. ASSUME NEW i \in 1..Len(hashed) PROVE f[b + ShaPart + i - 1] = hashed[i]
    <3>1. /\ b + ShaPart + i - 1 \in Addrs
          /\ b + ShaPart + i - 1 \notin (b + recv_size)..(b + recv_size + Len(pkt) - 1)
      BY <1>1, <1>4 DEF Addrs
    <3> QED BY <3>1, <2>3, <1>2
  <2>6. ASSUME NEW i \in 1..Len(pkt) PROVE f[b + recv_size + i - 1] = pkt[i]
    <3> DEFINE a == b + recv_size + i - 1
    <3>1. /\ a \in Addrs /\ a \in (b + recv_size)..(b + recv_size + Len(pkt) - 1)
          /\ a \in (b + recv_size)..(b + AreaLen - 1) /\ a - (b + recv_size) + 1 = i
      BY <1>1, <1>4 DEF Addrs
    <3> HIDE DEF a
    <3>2. f[a] = pkt[a - (b + recv_size) + 1]
      BY <3>1, <2>3, <1>2
    <3>3. f[a] = pkt[i]
      BY <3>1, <3>2
    <3> QED BY <3>3 DEF a
  <2>7. ASSUME NEW a \in (b + recv_size + Len(pkt))..(b + AreaLen - 1) PROVE f[a] = Erased
    <3>1. /\ a \in Addrs /\ a \notin (b + recv_size)..(b + recv_size + Len(pkt) - 1)
          /\ a \in (b + recv_size)..(b + AreaLen - 1)
      BY <1>1, <1>4 DEF Addrs
    <3> QED BY <3>1, <2>3, <1>2
  <2> QED BY <2>4, <2>5, <2>6, <2>7 DEF f
<1>5. recv_size = HeadLen \/ recv_size > HeadLen
  BY <1>1
<1> HIDE DEF f, b
<1> QED
  BY <1>3, <1>4, <1>5, Zenon DEF f, b

\* A block of the body, whatever became of the header.
LEMMA BodyPartStep ==
    ASSUME TypeOK, FotaInv, NEW p \in Packages, NEW m \in BlockLens,
           at_fota_downing(p, m), BodyPart(Block(p, m))
    PROVE  TypeOK' /\ HeadReceived' /\ HeadDecided' /\ BaseAboveImage' /\ RunningImageKept'
<1> DEFINE pkt == Block(p, m)
           n == Len(pkt)
<1>1. Downing /\ ~TooLarge(pkt) /\ recv_size >= HeadLen
  BY DEF at_fota_downing, Sends, Downing, BodyPart
<1>2. /\ pos \in Nat /\ pkt \in Seq(Units)
      /\ n \in Nat \ {0} /\ pkt[1] = <<p, pos + 1>>
  BY <1>1, BlockIs DEF TypeOK
<1>3. /\ recv_size \in Nat /\ HeadLen \in Nat /\ AreaLen \in Nat /\ ShaPart \in Nat
      /\ ShaPart < HeadLen /\ recv_size + n <= AreaLen /\ flash_base \in Nat
  BY <1>1, <1>2, SizesAssumption DEF TypeOK, TooLarge
<1>4. /\ recv_size' = recv_size + n /\ head' = head /\ flash_base' = flash_base
      /\ hashed' = HmacInput(pkt) /\ Programs(WriteBody(pkt), BodyStages)
      /\ pos' = pos + n /\ refusedAt' = refusedAt
      /\ UNCHANGED <<fota_status, finished, info, outcome, image, boot>>
  BY DEF BodyPart, at_fota_downing, Taken
<1> HIDE DEF n
<1>5. Safe(flash)' /\ low' \in BOOLEAN /\ (~low' => ~low /\ flash' = WriteBody(pkt))
  <2>1. Safe(flash) /\ BaseAboveImage /\ RunningImageKept
    BY DEF Safe, TypeOK, FotaInv, RunningImageKept
  <2> HIDE DEF pkt
  <2>2. Safe(WriteBody(pkt)) /\ \A f \in BodyStages : Safe(f)
    BY <2>1, <1>2, SafeBody
  <2> QED BY <2>1, <2>2, <1>4, ProgramsIs
<1> HIDE DEF pkt
<1>6. /\ hashed \o pkt \in Seq(Units) /\ Len(hashed \o pkt) = Len(hashed) + n
      /\ \A i \in 1..(Len(hashed) + n) :
            (hashed \o pkt)[i] = IF i <= Len(hashed) THEN hashed[i] ELSE pkt[i - Len(hashed)]
  BY <1>2, ConcatProperties DEF TypeOK, n
<1>7. hashed' \in Seq(Units)
  BY <1>4, <1>6 DEF TypeOK, HmacInput
<1>8. ASSUME ~finished PROVE AcceptedHead' \/ RefusedHead'
  <2> DEFINE q == hashed'
  <2>1. q = hashed \o pkt
    BY <1>4, <1>8 DEF HmacInput
  <2>2. /\ Len(q) = Len(hashed) + n /\ Len(hashed) \in Nat
        /\ \A i \in 1..(Len(hashed) + n) :
              q[i] = IF i <= Len(hashed) THEN hashed[i] ELSE pkt[i - Len(hashed)]
    BY <2>1, <1>6 DEF TypeOK
  <2> HIDE DEF q
  <2>3. AcceptedHead \/ RefusedHead
    BY <1>1, <1>8 DEF FotaInv, HeadDecided
  <2>6. CASE AcceptedHead /\ low'
    BY <2>6, <1>4 DEF AcceptedHead
  <2>4. CASE AcceptedHead /\ ~low'
    <3>0. ~low /\ flash' = WriteBody(pkt)
      BY <2>4, <1>5
    <3>1. /\ \A i \in 1..HeadLen : flash'[flash_base + i - 1] = head[i]
          /\ \A i \in 1..Len(hashed) : flash'[flash_base + ShaPart + i - 1] = hashed[i]
          /\ \A i \in 1..n : flash'[flash_base + recv_size + i - 1] = pkt[i]
          /\ \A a \in (flash_base + recv_size + n)..(flash_base + AreaLen - 1) :
                flash'[a] = Erased
      BY <2>4, <3>0, <1>1, <1>2, <1>3, WriteBodyExtends, Zenon DEF FotaInv, n
    <3>2. Len(hashed) = recv_size - ShaPart
      BY <2>4, <3>0 DEF AcceptedHead
    <3>3. ASSUME NEW i \in 1..Len(q) PROVE flash'[flash_base + ShaPart + i - 1] = q[i]
      <4>1. CASE i <= Len(hashed)
        <5>1. i \in 1..Len(hashed) /\ i \in 1..(Len(hashed) + n)
          BY <4>1, <2>2, <1>2
        <5> QED BY <5>1, <4>1, <2>2, <3>1
      <4>2. CASE ~(i <= Len(hashed))
        <5> DEFINE j == i - Len(hashed)
        <5>1. /\ j \in 1..n /\ i \in 1..(Len(hashed) + n)
              /\ flash_base + ShaPart + i - 1 = flash_base + recv_size + j - 1
          BY <4>2, <2>2, <3>2, <1>2, <1>3
        <5>2. q[i] = pkt[j]
          BY <5>1, <4>2, <2>2
        <5> HIDE DEF j
        <5>3. flash'[flash_base + recv_size + j - 1] = pkt[j]
          BY <5>1, <3>1
        <5> QED BY <5>1, <5>2, <5>3
      <4> QED BY <4>1, <4>2
    <3>4. Len(q) = recv_size' - ShaPart
      BY <3>2, <2>2, <1>2, <1>3, <1>4
    <3>5. ota_version_check(head)'
      BY <2>4, <3>0, <1>4 DEF AcceptedHead, ota_version_check
    <3>6. flash_base' + recv_size' = flash_base + recv_size + n
      BY <1>2, <1>3, <1>4
    <3>7. flash_base' + AreaLen <= FlashEnd /\ refusedAt' = None
      BY <2>4, <3>0, <1>4 DEF AcceptedHead
    <3> QED BY <3>1, <3>3, <3>4, <3>5, <3>6, <3>7, <1>4 DEF AcceptedHead, q
  <2>5. CASE RefusedHead
    <3>1. refusedAt \in Nat /\ pos = refusedAt + Len(hashed)
      BY <2>5 DEF RefusedHead
    <3>2. pos' = refusedAt' + Len(q) /\ refusedAt' \in Nat
      BY <3>1, <2>2, <1>2, <1>4
    <3>3. q[1][2] = refusedAt + 1
      <4>1. 1 \in 1..(Len(hashed) + n)
        BY <2>2, <1>2
      <4>2. CASE hashed = <<>>
        <5>1. q[1] = pkt[1]
          BY <4>1, <4>2, <2>2
        <5>2. Len(hashed) = 0
          BY <4>2
        <5> QED BY <5>1, <5>2, <3>1, <1>2
      <4>3. CASE hashed # <<>>
        <5>1. Len(hashed) >= 1
          BY <4>3, <2>2, EmptySeq DEF TypeOK
        <5>2. q[1] = hashed[1]
          BY <4>1, <5>1, <2>2
        <5> QED BY <5>2, <4>3, <2>5 DEF RefusedHead
      <4> QED BY <4>2, <4>3
    <3> QED BY <3>2, <3>3, <1>4 DEF RefusedHead, q
  <2> QED BY <2>3, <2>4, <2>5, <2>6
<1>9. HeadReceived' /\ HeadDecided'
  <2>1. Len(head) = HeadLen
    BY <1>1, <1>3 DEF FotaInv, HeadReceived
  <2> QED BY <2>1, <1>1, <1>2, <1>3, <1>4, <1>8 DEF HeadReceived, HeadDecided
<1>10. flash' \in [Addrs -> Contents] /\ RunningImageKept' /\ BaseAboveImage'
  BY <1>4, <1>5 DEF Safe, RunningImageKept, BaseAboveImage, FotaInv
<1>11. TypeOK'
  BY <1>2, <1>3, <1>4, <1>5, <1>7, <1>10 DEF TypeOK, outcome
<1> QED BY <1>9, <1>10, <1>11

-----------------------------------------------------------------------------
(***************************************************************************)
(* The check, the hand-over and the boot loader.                           *)
(***************************************************************************)

\* A check that succeeds has found a whole, genuine package in flash, unless
\* a write was refused or the header's checks were passed by.
LEMMA CheckedIsWhole ==
    ASSUME TypeOK, FotaInv, Downing, ota_delta_check_sync, ~low, ~HeaderSlips
    PROVE  Intact(flash_base)
<1>1. PICK p \in Packages : ShaOf(p) /\ hashed = Digest(p)
  BY DEF ota_delta_check_sync
<1>2. /\ p.len \in Nat /\ p.len > HeadLen /\ HeadLen \in Nat /\ ShaPart \in Nat \ {0}
      /\ ShaPart < HeadLen /\ recv_size \in Nat /\ flash_base \in Nat
  BY PackagesAssumption, SizesAssumption DEF PackageRecords, TypeOK
<1>3. /\ Len(hashed) = p.len - ShaPart
      /\ \A i \in 1..(p.len - ShaPart) : hashed[i] = <<p, ShaPart + i>>
  BY <1>1, <1>2 DEF Digest
<1>4. hashed # <<>>
  BY <1>2, <1>3
<1>5. recv_size >= HeadLen
  BY <1>2, <1>4 DEF FotaInv, HeadReceived
<1>6. hashed[1] = <<p, ShaPart + 1>>
  BY <1>2, <1>3
<1>7. AcceptedHead
  <2>1. ~RefusedHead
    <3> SUFFICES ASSUME RefusedHead PROVE FALSE
      OBVIOUS
    <3>1. refusedAt \in Nat /\ refusedAt + 1 = ShaPart + 1
      BY <1>4, <1>6 DEF RefusedHead
    <3> QED BY <3>1, <1>2 DEF HeaderSlips
  <2> QED BY <2>1, <1>5 DEF FotaInv, HeadDecided, ota_delta_check_sync
<1>8. p.genuine /\ \A i \in 1..ShaPart : head[i] = <<p, i>>
  BY <1>1 DEF ShaOf
<1>9. ASSUME NEW i \in 1..p.len PROVE flash[flash_base + i - 1] = <<p, i>>
  <2>1. CASE i <= ShaPart
    <3>1. i \in 1..ShaPart /\ i \in 1..HeadLen
      BY <2>1, <1>2
    <3> QED BY <3>1, <1>7, <1>8 DEF AcceptedHead
  <2>2. CASE ~(i <= ShaPart)
    <3> DEFINE j == i - ShaPart
    <3>1. /\ j \in 1..(p.len - ShaPart) /\ ShaPart + j = i
          /\ flash_base + i - 1 = flash_base + ShaPart + j - 1
      BY <2>2, <1>2
    <3> HIDE DEF j
    <3>2. flash[flash_base + ShaPart + j - 1] = hashed[j]
      BY <3>1, <1>3, <1>7 DEF AcceptedHead
    <3>3. hashed[j] = <<p, ShaPart + j>>
      BY <3>1, <1>3
    <3> QED BY <3>1, <3>2, <3>3
  <2> QED BY <2>1, <2>2
<1>10. p.old = image
  <2>1. ShaPart + 1 \in 1..p.len /\ ShaPart + 1 \in 1..HeadLen
    BY <1>2
  <2>2. head[ShaPart + 1] = <<p, ShaPart + 1>>
    BY <2>1, <1>7, <1>9 DEF AcceptedHead
  <2>3. head[ShaPart + 1][1].old = image
    BY <1>7 DEF AcceptedHead, ota_version_check
  <2> QED BY <2>2, <2>3
<1> QED
  BY <1>8, <1>9, <1>10 DEF Intact, Holds

\* The boot loader finds one package only, and takes the image it leads to.
LEMMA AppliedIsGenuine ==
    ASSUME TypeOK, NEW a \in Nat, Intact(a), NEW v \in Applied(a)
    PROVE  \E p \in Packages : p.genuine /\ p.old = image /\ v = p.new
<1>1. PICK p \in Packages : p.genuine /\ p.old = image /\ Holds(p, a)
  BY DEF Intact
<1>2. PICK q \in Packages : q.old = image /\ Holds(q, a) /\ v = q.new
  BY DEF Applied
<1>3. 1 \in 1..p.len /\ 1 \in 1..q.len
  BY PackagesAssumption, SizesAssumption DEF PackageRecords
<1>4. flash[a] = <<p, 1>> /\ flash[a] = <<q, 1>>
  <2>1. a + 1 - 1 = a
    OBVIOUS
  <2> QED BY <1>1, <1>2, <1>3, <2>1 DEF Holds
<1> QED
  BY <1>1, <1>2, <1>4

\* The boot loader changes the image by a genuine delta, or not at all.
LEMMA BootKeepsPromise ==
    ASSUME TypeOK, FotaInv, Boot, ~HeaderSlips
    PROVE  \/ image' = image
           \/ \E p \in Packages : p.genuine /\ p.old = image /\ image' = p.new
<1>1. CASE image' = image
  BY <1>1
<1>2. CASE image' # image
  <2>1. /\ info # None
        /\ image' \in IF Applied(info) = {} THEN {Broken} ELSE Applied(info)
    BY <1>2 DEF Boot, BootLoader
  <2>2. info \in Nat /\ Intact(info)
    BY <2>1 DEF TypeOK, FotaInv, HandedOverIsWhole
  <2>3. Applied(info) # {}
    BY <2>2 DEF Intact, Applied
  <2>4. image' \in Applied(info)
    BY <2>1, <2>3
  <2> DEFINE v == image'
  <2>5. v \in Applied(info)
    BY <2>4
  <2> HIDE DEF v
  <2>6. \E p \in Packages : p.genuine /\ p.old = image /\ v = p.new
    BY <2>2, <2>5, AppliedIsGenuine
  <2> QED BY <2>6 DEF v
<1> QED BY <1>1, <1>2

-----------------------------------------------------------------------------
(***************************************************************************)
(* The invariant.                                                          *)
(***************************************************************************)
\* What a new context starts from.
LEMMA NothingReceived == <<>> \in Seq(Units) /\ AreaBase \in Nat /\ 0 \in Nat
BY SizesAssumption

\* The invariant holds at the start.
LEMMA FotaInit == Init => TypeOK /\ FotaInv
<1> SUFFICES ASSUME Init PROVE TypeOK /\ FotaInv
  OBVIOUS
<1>1. flash \in [Addrs -> Contents] /\ RunningImageKept
  BY DEF Init, Contents, RunningImageKept
<1>2. TypeOK
  BY <1>1, NothingReceived DEF Init, TypeOK
<1>3. HeadReceived /\ HeadDecided
  BY SizesAssumption DEF Init, HeadReceived, HeadDecided, Downing
<1>4. HandedOverIsWhole /\ InfoOnlyForBoot /\ BaseAboveImage
  BY SizesAssumption DEF Init, HandedOverIsWhole, InfoOnlyForBoot, BaseAboveImage
<1> QED BY <1>1, <1>2, <1>3, <1>4 DEF FotaInv

\* Nothing the invariant speaks of but the latch, which may be set.
LEMMA LatchKeepsInv ==
    ASSUME FotaInv, low => low',
           UNCHANGED <<fota_status, context, flash, info, image, refusedAt>>
    PROVE  FotaInv'
<1>1. HeadReceived'
  BY DEF FotaInv, HeadReceived, Downing, context
<1>2. AcceptedHead => AcceptedHead'
  BY DEF AcceptedHead, ota_version_check, context
<1>3. RefusedHead => RefusedHead'
  BY DEF RefusedHead, context
<1>4. HeadDecided'
  BY <1>2, <1>3 DEF FotaInv, HeadDecided, Downing, context
<1>5. HandedOverIsWhole'
  BY DEF FotaInv, HandedOverIsWhole, HeaderSlips, Intact, Holds, context
<1>6. InfoOnlyForBoot' /\ BaseAboveImage' /\ RunningImageKept'
  BY DEF FotaInv, InfoOnlyForBoot, BaseAboveImage, RunningImageKept, context
<1> QED BY <1>1, <1>4, <1>5, <1>6 DEF FotaInv

\* A restart, with flash as the last call left it: nothing is handed over
\* that was not before.
LEMMA RestartKeepsInv ==
    ASSUME TypeOK, FotaInv, Restart, fota_res' \in SUBSET {2, 4, 8}, Safe(flash)',
           info # None => flash' = flash
    PROVE  TypeOK' /\ FotaInv'
<1>1. /\ fota_status' = "off" /\ UNCHANGED <<info, result, image, refusedAt>>
      /\ pos' = 0 /\ head' = <<>> /\ recv_size' = 0 /\ flash_base' = AreaBase
      /\ hashed' = <<>> /\ finished' = FALSE /\ ota_status_flag' = "XY_ERR"
      /\ low' = FALSE /\ boot' \in {"lowvol", "other"}
  BY DEF Restart, FreshContext
<1>2. flash' \in [Addrs -> Contents] /\ RunningImageKept'
  BY DEF Safe, RunningImageKept
<1>3. TypeOK'
  BY <1>1, <1>2, NothingReceived DEF TypeOK
<1>4. HeadReceived' /\ HeadDecided'
  BY <1>1, SizesAssumption DEF HeadReceived, HeadDecided, Downing
<1>5. InfoOnlyForBoot' /\ BaseAboveImage'
  BY <1>1, SizesAssumption DEF InfoOnlyForBoot, BaseAboveImage
<1>6. HandedOverIsWhole'
  <2> SUFFICES ASSUME info' # None, ~HeaderSlips' PROVE Intact(info)'
    BY <1>1 DEF HandedOverIsWhole
  <2>1. flash' = flash /\ info' = info /\ image' = image /\ ~HeaderSlips
    BY <1>1 DEF HeaderSlips
  <2>2. Intact(info)
    BY <2>1 DEF FotaInv, HandedOverIsWhole
  <2> QED BY <2>1, <2>2 DEF Intact, Holds
<1> QED BY <1>2, <1>3, <1>4, <1>5, <1>6 DEF FotaInv

\* A restart between two calls to flash of a block.
LEMMA ResetInBlockStep ==
    ASSUME TypeOK, FotaInv, NEW p \in Packages, NEW n \in BlockLens, ResetInBlock(p, n)
    PROVE  TypeOK' /\ FotaInv'
<1> DEFINE pkt == Block(p, n)
           h == FullHead(pkt)
           b == PacketBase(h)
<1>1. pkt \in Seq(Units)
  BY BlockIs
<1>2. Safe(flash) /\ HeadReceived /\ BaseAboveImage /\ RunningImageKept
  BY DEF Safe, TypeOK, FotaInv, RunningImageKept
<1>3. Safe(flash)'
  <2>1. CASE HeadEnds(pkt) /\ HeadOk(h) /\ flash' \in HeadStages(b, h)
    <3>1. h \in Seq(Units) /\ b \in Nat
      BY <2>1, <1>1, <1>2, FullHeadIs
    <3>2. b >= AreaBase
      BY <2>1 DEF HeadOk
    <3> HIDE DEF h, b
    <3>3. \A f \in HeadStages(b, h) : Safe(f)
      BY <3>1, <3>2, <1>1, <1>2, SafeHead
    <3> QED BY <3>3, <2>1, Zenon DEF Safe
  <2>2. CASE flash' \in BodyStages
    <3>1. \A f \in BodyStages : Safe(f)
      BY <1>1, <1>2, SafeBody
    <3> QED BY <3>1, <2>2, Zenon DEF Safe
  <2> QED BY <2>1, <2>2 DEF ResetInBlock
<1>4. info = None
  BY DEF ResetInBlock, Sends, FotaInv, InfoOnlyForBoot
<1>5. fota_res' \in SUBSET {2, 4, 8} /\ Restart
  BY DEF ResetInBlock, TypeOK
<1> QED BY <1>3, <1>4, <1>5, RestartKeepsInv

\* The bits ota_update_result sets.
LEMMA ResultBitsType == ResultBits \subseteq {2, 4, 8}
BY DEF ResultBits

\* The invariant is inductive.
LEMMA FotaStep == TypeOK /\ FotaInv /\ [Next]_vars => TypeOK' /\ FotaInv'
<1> SUFFICES ASSUME TypeOK, FotaInv, [Next]_vars PROVE TypeOK' /\ FotaInv'
  OBVIOUS
<1>0. /\ HeadReceived /\ HeadDecided /\ HandedOverIsWhole
      /\ InfoOnlyForBoot /\ BaseAboveImage /\ RunningImageKept
  BY DEF FotaInv
<1>1. CASE at_fota_Flash_Erase
  <2>1. /\ info' = None /\ fota_status' = "downing" /\ UNCHANGED <<flash, image>>
        /\ refusedAt' = None
    BY <1>0, <1>1 DEF at_fota_Flash_Erase, Ready, InfoOnlyForBoot
  <2>2. fota_res' = {}
    BY <1>1 DEF at_fota_Flash_Erase, SAVE_FAC_PARAM
  <2>3. TypeOK'
    BY <1>1, <2>2, NothingReceived DEF at_fota_Flash_Erase, FreshContext, TypeOK
  <2>4. HeadReceived' /\ HeadDecided' /\ BaseAboveImage'
    BY <1>1, SizesAssumption
    DEF at_fota_Flash_Erase, FreshContext, HeadReceived, HeadDecided, BaseAboveImage
  <2>5. HandedOverIsWhole' /\ InfoOnlyForBoot' /\ RunningImageKept'
    BY <2>1, <1>0 DEF HandedOverIsWhole, InfoOnlyForBoot, RunningImageKept
  <2> QED BY <2>3, <2>4, <2>5 DEF FotaInv
<1>2. ASSUME NEW p \in Packages, NEW n \in BlockLens, at_fota_downing(p, n)
      PROVE  TypeOK' /\ FotaInv'
  <2>1. TypeOK' /\ HeadReceived' /\ HeadDecided' /\ BaseAboveImage' /\ RunningImageKept'
    BY <1>2, HeadPartStep, HeadRefusedStep, HeadAcceptedStep, BodyPartStep
    DEF at_fota_downing, ota_downlink_packet_proc
  <2>2. info' = None /\ fota_status' = "downing"
    BY <1>0, <1>2 DEF at_fota_downing, Sends, InfoOnlyForBoot
  <2>3. HandedOverIsWhole' /\ InfoOnlyForBoot'
    BY <2>2 DEF HandedOverIsWhole, InfoOnlyForBoot
  <2> QED BY <2>1, <2>3 DEF FotaInv
<1>3. CASE at_fota_check
  <2>1. /\ info' = None /\ fota_status' \in {"downing", "downed"} /\ finished' = TRUE
        /\ UNCHANGED <<pos, head, recv_size, flash_base, hashed, flash, image, low, refusedAt>>
    BY <1>0, <1>3 DEF at_fota_check, InfoOnlyForBoot
  <2>2. TypeOK'
    BY <1>3, <2>1 DEF at_fota_check, TypeOK, outcome
  <2>3. HeadReceived' /\ HeadDecided'
    BY <1>0, <1>3, <2>1 DEF at_fota_check, HeadReceived, HeadDecided, Downing
  <2>4. fota_status' = "downed" /\ ~low' /\ ~HeaderSlips' => Intact(flash_base)'
    <3> SUFFICES ASSUME fota_status' = "downed", ~low', ~HeaderSlips' PROVE Intact(flash_base)'
      OBVIOUS
    <3>1. Intact(flash_base)
      BY <1>3, <2>1, CheckedIsWhole DEF at_fota_check, Downing, HeaderSlips
    <3> QED BY <3>1, <2>1 DEF Intact, Holds
  <2>5. HandedOverIsWhole' /\ InfoOnlyForBoot'
    BY <2>1, <2>4 DEF HandedOverIsWhole, InfoOnlyForBoot
  <2>6. BaseAboveImage' /\ RunningImageKept'
    BY <2>1, <1>0 DEF BaseAboveImage, RunningImageKept
  <2> QED BY <2>2, <2>3, <2>5, <2>6 DEF FotaInv
<1>4. CASE at_fota_update
  <2>1. /\ fota_status = "downed" /\ fota_status' = "update" /\ low' \in BOOLEAN
        /\ UNCHANGED <<context, flash, outcome, image, boot, refusedAt>>
    BY <1>4 DEF at_fota_update, UpdateReady, Permitted, Refused
  <2>2. \/ ~low /\ ~low' /\ info' = flash_base
        \/ low' /\ info' = None
    BY <1>0, <1>4, <2>1 DEF at_fota_update, Permitted, Refused, InfoOnlyForBoot
  <2>3. ~low' /\ ~HeaderSlips' => Intact(flash_base)'
    <3> SUFFICES ASSUME ~low', ~HeaderSlips' PROVE Intact(flash_base)'
      OBVIOUS
    <3>1. Intact(flash_base)
      BY <2>1, <2>2, <1>0 DEF HandedOverIsWhole, HeaderSlips
    <3> QED BY <3>1, <2>1 DEF Intact, Holds, context
  <2>4. HandedOverIsWhole' /\ InfoOnlyForBoot'
    <3>1. flash_base' = flash_base
      BY <2>1 DEF context
    <3>2. CASE ~low /\ ~low' /\ info' = flash_base
      <4>1. info' = flash_base'
        BY <3>1, <3>2
      <4>2. ~HeaderSlips' => Intact(info)'
        BY <4>1, <2>3, <3>2 DEF Intact, Holds
      <4> QED BY <4>2, <2>1, <2>3 DEF HandedOverIsWhole, InfoOnlyForBoot
    <3>3. CASE low' /\ info' = None
      BY <3>3, <2>1 DEF HandedOverIsWhole, InfoOnlyForBoot
    <3> QED BY <2>2, <3>2, <3>3
  <2>5. TypeOK'
    BY <2>1, <2>2 DEF TypeOK, context, outcome
  <2>6. HeadReceived' /\ HeadDecided'
    BY <1>0, <2>1 DEF HeadReceived, HeadDecided, Downing, context
  <2>7. BaseAboveImage' /\ RunningImageKept'
    BY <2>1, <1>0 DEF BaseAboveImage, RunningImageKept, context
  <2> QED BY <2>4, <2>5, <2>6, <2>7 DEF FotaInv
<1>5. CASE ota_update_result
  <2>1. /\ UNCHANGED <<fota_status, context, flash, info, image, boot, refusedAt>>
        /\ low' \in BOOLEAN /\ (low => low') /\ result' \in {1, 2, None}
    BY <1>5 DEF ota_update_result, Permitted, Refused, TypeOK
  <2>2. fota_res' \in SUBSET {2, 4, 8}
    BY <1>5, ResultBitsType DEF ota_update_result, SAVE_FAC_PARAM, TypeOK
  <2>3. ota_status_flag' \in {"XY_OK", "XY_ERR"}
    BY <1>5 DEF ota_update_result
  <2>4. TypeOK'
    BY <2>1, <2>2, <2>3 DEF TypeOK, context
  <2> QED BY <2>1, <2>4, LatchKeepsInv
<1>6. CASE xy_check_low_vBat
  <2>1. /\ UNCHANGED <<fota_status, context, flash, info, outcome, image, boot, refusedAt>>
        /\ low' = TRUE
    BY <1>6 DEF xy_check_low_vBat, Refused
  <2>2. TypeOK'
    BY <2>1 DEF TypeOK, context, outcome
  <2> QED BY <2>1, <2>2, LatchKeepsInv
<1>7. CASE Reset
  <2>1. Restart /\ UNCHANGED <<flash, fota_res>>
    BY <1>7 DEF Reset
  <2>2. Safe(flash)' /\ fota_res' \in SUBSET {2, 4, 8}
    BY <1>0, <2>1 DEF Safe, TypeOK, RunningImageKept
  <2> QED BY <2>1, <2>2, RestartKeepsInv
<1>8. ASSUME NEW p \in Packages, NEW n \in BlockLens, ResetInBlock(p, n)
      PROVE  TypeOK' /\ FotaInv'
  BY <1>8, ResetInBlockStep
<1>9. CASE ResetInSave
  <2>1. Restart /\ UNCHANGED flash
    BY <1>9 DEF ResetInSave
  <2>2. fota_res' \in SUBSET {2, 4, 8}
    BY <1>9, ResultBitsType DEF ResetInSave, TypeOK
  <2>3. Safe(flash)'
    BY <1>0, <2>1 DEF Safe, TypeOK, RunningImageKept
  <2> QED BY <2>1, <2>2, <2>3, RestartKeepsInv
<1>10. CASE Boot
  <2>1. /\ info' = None /\ fota_status' = "idle" /\ result' \in {1, 2, None}
        /\ UNCHANGED <<context, flash, fota_res, ota_status_flag, low, boot, refusedAt>>
    BY <1>10 DEF Boot, BootLoader, TypeOK
  <2>2. image' \in Images \cup {Broken}
    BY <1>10, PackagesAssumption DEF Boot, BootLoader, Applied, PackageRecords, TypeOK
  <2>3. TypeOK'
    BY <2>1, <2>2 DEF TypeOK, context
  <2>4. HeadReceived' /\ HeadDecided'
    BY <1>0, <2>1 DEF HeadReceived, HeadDecided, Downing, context
  <2>5. HandedOverIsWhole' /\ InfoOnlyForBoot'
    BY <2>1 DEF HandedOverIsWhole, InfoOnlyForBoot
  <2>6. BaseAboveImage' /\ RunningImageKept'
    BY <2>1, <1>0 DEF BaseAboveImage, RunningImageKept, context
  <2> QED BY <2>3, <2>4, <2>5, <2>6 DEF FotaInv
<1>11. CASE UNCHANGED vars
  <2>1. /\ UNCHANGED <<fota_status, context, flash, info, outcome, image, low, boot, refusedAt>>
    BY <1>11 DEF vars
  <2>2. TypeOK'
    BY <2>1 DEF context, outcome, TypeOK
  <2> QED BY <2>1, <2>2, LatchKeepsInv
<1> QED
  BY <1>1, <1>2, <1>3, <1>4, <1>5, <1>6, <1>7, <1>8, <1>9, <1>10, <1>11 DEF Next

\* Type correctness of the update's state.
THEOREM FotaTypeCorrect == Spec => []TypeOK
BY FotaInit, FotaStep, PTL DEF Spec

\* The inductive invariant: what at_fota.c and xy_fota.c keep between commands.
THEOREM FotaCorrect == Spec => []FotaInv
BY FotaInit, FotaStep, PTL DEF Spec

\* Whatever blocks were sent, of whatever lengths and from whatever packages,
\* whichever calls to flash were refused and whenever the system restarted:
\* what ota_update_start hands to the boot loader is a whole, genuine package
\* for the present image, unless a header was refused in a block that began
\* where the hashed part does.
THEOREM HandOverIsSafe == Spec => []HandedOverIsWhole
<1>1. FotaInv => HandedOverIsWhole
  BY DEF FotaInv
<1> QED BY <1>1, FotaCorrect, PTL

\* The digest that ota_delta_check_sync compares is of what lies in flash,
\* as long as no call was refused and no header.
THEOREM DigestIsOfFlash == Spec => []HashIsOfFlash
<1>1. TypeOK /\ FotaInv => HashIsOfFlash
  <2> SUFFICES ASSUME TypeOK, FotaInv, Downing, ~finished, ~low, recv_size >= HeadLen,
                      refusedAt = None
               PROVE  /\ Len(hashed) = recv_size - ShaPart
                      /\ \A i \in 1..Len(hashed) :
                            flash[flash_base + ShaPart + i - 1] = hashed[i]
    BY DEF HashIsOfFlash, Downing
  <2>1. ~RefusedHead
    BY ValuesAssumption DEF RefusedHead
  <2> QED BY <2>1 DEF FotaInv, HeadDecided, AcceptedHead
<1> QED BY <1>1, FotaTypeCorrect, FotaCorrect, PTL

\* No download erases or programs the running image: not the block that is
\* refused, not the one that follows it unchecked, not one that is cut short.
THEOREM RunningImageIsSafe == Spec => []RunningImageKept
<1>1. FotaInv => RunningImageKept
  BY DEF FotaInv
<1> QED BY <1>1, FotaCorrect, PTL

\* The image changes only by a genuine delta made for it, with the exception
\* HandOverIsSafe names.
THEOREM UpdateIsGenuine == Spec => OnlyGenuineUpdates
<1> DEFINE Step == image' # image /\ ~HeaderSlips =>
              \E p \in Packages : p.genuine /\ p.old = image /\ p.new = image'
<1>1. TypeOK /\ FotaInv /\ [Next]_vars => [Step]_vars
  <2> SUFFICES ASSUME TypeOK, FotaInv, Next, image' # image, ~HeaderSlips
               PROVE  \E p \in Packages : p.genuine /\ p.old = image /\ p.new = image'
    OBVIOUS
  <2>1. Boot
    BY DEF Next, at_fota_Flash_Erase, at_fota_downing, at_fota_check, at_fota_update,
       ota_update_result, xy_check_low_vBat, Reset, ResetInBlock, ResetInSave, Restart
  <2> QED BY <2>1, BootKeepsPromise
<1> QED BY <1>1, FotaTypeCorrect, FotaCorrect, PTL DEF Spec, OnlyGenuineUpdates
=============================================================================
