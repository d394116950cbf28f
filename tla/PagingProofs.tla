---------------------------- MODULE PagingProofs ----------------------------
(***************************************************************************)
(* Proofs about Paging, for all 64-bit addresses and table entries, any    *)
(* set of machines and any number of calls.                                *)
(***************************************************************************)
EXTENDS Paging, SequenceTheorems, TLAPS

(***************************************************************************)
(* Facts about 64-bit words that the proofs about the page walk rest on.   *)
(***************************************************************************)
(* Extracting a field and shifting it back leaves its bits where they were *)
(* (entry.to_page << 12 and the like).                                     *)
LEMMA FieldInPlace ==
  ASSUME NEW w, NEW pos \in Nat, NEW len \in Nat, pos + len <= 64
  PROVE  Shl(extract(w, pos, len), pos) = w \cap (pos .. pos + len - 1)
<1>1. ASSUME NEW i
      PROVE  i \in Shl(extract(w, pos, len), pos) <=> i \in w \cap (pos .. pos + len - 1)
  BY SMT DEF Shl, extract
<1> QED BY <1>1

(* The sum in one line. *)
LEMMA PlusSum ==
  ASSUME NEW a, NEW b
  PROVE  Plus(a, b) = Xor(Xor(a, b), CarryInto(a, b)) \cap Bit
<1> DEFINE sum(x, y) == Xor(Xor(x, y), CarryInto(x, y)) \cap Bit
<1>1. Plus(a, b) = UNION {sum(x, y) : x \in {a}, y \in {b}} BY DEF Plus
<1> HIDE DEF sum
<1>2. {sum(x, y) : x \in {a}, y \in {b}} = {sum(a, b)} OBVIOUS
<1>3. Plus(a, b) = sum(a, b) BY <1>1, <1>2
<1> QED BY <1>3 DEF sum

(* Addition of words without a common bit is their union.                  *)
LEMMA PlusDisjoint ==
  ASSUME NEW a \in Word, NEW b \in Word, a \cap b = {}
  PROVE  Plus(a, b) = a \cup b
<1>1. CarryInto(a, b) = {} BY DEF CarryInto
<1>2. Xor(a, b) = a \cup b BY DEF Xor
<1>3. Xor(a \cup b, {}) = a \cup b BY DEF Xor
<1> QED BY <1>1, <1>2, <1>3, PlusSum DEF Word

(* The low bits of a word. *)
LEMMA LowBits ==
  ASSUME NEW v, NEW n \in Nat
  PROVE  extract(v, 0, n) = v \cap (0 .. n - 1)
<1>1. ASSUME NEW i PROVE i \in extract(v, 0, n) <=> i \in v \cap (0 .. n - 1)
  BY SMT DEF extract
<1> QED BY <1>1

(* Operations on words yield words. *)
LEMMA WordClosure ==
  ASSUME NEW a, NEW b, NEW s, NEW k \in Nat
  PROVE  Plus(a, b) \in Word /\ Shl(s, k) \in Word
<1>1. Shl(s, k) \subseteq 0 .. 63
  <2> SUFFICES ASSUME NEW i \in Shl(s, k) PROVE i \in 0 .. 63 OBVIOUS
  <2> QED BY SMT DEF Shl
<1> QED BY <1>1, PlusSum DEF Word, Bit

(***************************************************************************)
(* The architecture, mode by mode.                                         *)
(***************************************************************************)
LEMMA Arch32 ==
  /\ Depth("B32") = 2 /\ FrameBits("B32") = 12 .. 31 /\ BaseBits("B32") = 12 .. 31
  /\ EntryBits("B32") = 2 /\ LargeDepths("B32") = {1}
  /\ Low("B32", 1) = 22 /\ Low("B32", 2) = 12
  /\ High("B32", 1) = 31 /\ High("B32", 2) = 21
BY SMT DEF Depth, FrameBits, BaseBits, EntryBits, LargeDepths, Low, High

LEMMA ArchPae ==
  /\ Depth("PAE") = 3 /\ FrameBits("PAE") = 12 .. 51 /\ BaseBits("PAE") = 5 .. 31
  /\ EntryBits("PAE") = 3 /\ LargeDepths("PAE") = {2}
  /\ Low("PAE", 1) = 30 /\ Low("PAE", 2) = 21 /\ Low("PAE", 3) = 12
  /\ High("PAE", 1) = 31 /\ High("PAE", 2) = 29 /\ High("PAE", 3) = 20
BY SMT DEF Depth, FrameBits, BaseBits, EntryBits, LargeDepths, Low, High

LEMMA ArchL4 ==
  ASSUME NEW m \in FourLevel
  PROVE  /\ Depth(m) = 4 /\ FrameBits(m) = 12 .. 51 /\ BaseBits(m) = 12 .. 51
         /\ EntryBits(m) = 3 /\ LargeDepths(m) = {2, 3}
         /\ Low(m, 1) = 39 /\ Low(m, 2) = 30 /\ Low(m, 3) = 21 /\ Low(m, 4) = 12
         /\ High(m, 1) = 47 /\ High(m, 2) = 38 /\ High(m, 3) = 29 /\ High(m, 4) = 20
BY SMT DEF FourLevel, Depth, FrameBits, BaseBits, EntryBits, LargeDepths, Low, High

LEMMA DepthBound ==
  ASSUME NEW m \in Walking
  PROVE  Depth(m) \in 2 .. 4
BY SMT DEF Walking, FourLevel, Depth

(***************************************************************************)
(* The address the code computes for the next read is the address of the   *)
(* entry the processor would read: top table, 4-KByte tables reached from  *)
(* an 8-byte entry, and from the low half of a 32-bit one.                 *)
(***************************************************************************)
LEMMA ScaledIndex ==
  ASSUME NEW v, NEW lo \in Nat, NEW n \in Nat, NEW k \in Nat, k + n <= 64
  PROVE  Shl(extract(v, lo, n), k) = Slot(v, lo, n, k)
<1>1. ASSUME NEW i
      PROVE  i \in Shl(extract(v, lo, n), k) <=> i \in Slot(v, lo, n, k)
  <2>1. CASE i \in k .. 63
    <3>1. (i - k) + lo = i + lo - k BY <2>1, SMT
    <3>2. i - k \in extract(v, lo, n) <=> (i - k \in 0 .. n - 1 /\ i + lo - k \in v)
      BY <3>1 DEF extract
    <3>3. i - k \in 0 .. n - 1 <=> i \in k .. k + n - 1 BY <2>1, SMT
    <3> QED BY <2>1, <3>2, <3>3 DEF Shl, Slot
  <2>2. CASE i \notin k .. 63
    <3>1. i \notin k .. k + n - 1 BY <2>2, SMT
    <3> QED BY <2>2, <3>1 DEF Shl, Slot
  <2> QED BY <2>1, <2>2
<1> QED BY <1>1

LEMMA SlotBits ==
  ASSUME NEW v, NEW lo \in Nat, NEW n \in Nat, NEW k \in Nat, k + n <= 64
  PROVE  Slot(v, lo, n, k) \in Word /\ Slot(v, lo, n, k) \subseteq k .. k + n - 1
<1>1. Slot(v, lo, n, k) \subseteq k .. k + n - 1 BY DEF Slot
<1>2. k .. k + n - 1 \subseteq 0 .. 63 BY SMT
<1> QED BY <1>1, <1>2 DEF Word, Bit

LEMMA TopEntryAddr ==
  ASSUME NEW b \in Word, NEW v \in Word,
         NEW k \in Nat, NEW lo \in Nat, NEW n \in Nat, k + n <= 64,
         b \subseteq k + n .. 63
  PROVE  Plus(b, Shl(extract(v, lo, n), k)) = b \cup Slot(v, lo, n, k)
<1>1. Shl(extract(v, lo, n), k) = Slot(v, lo, n, k) BY ScaledIndex, SMT
<1>2. Slot(v, lo, n, k) \in Word /\ Slot(v, lo, n, k) \subseteq k .. k + n - 1
  BY SlotBits
<1>3. b \cap Slot(v, lo, n, k) = {} BY <1>2, SMT
<1> QED BY <1>1, <1>2, <1>3, PlusDisjoint

LEMMA TableEntryAddr ==
  ASSUME NEW e \in Word, NEW v \in Word, NEW lo \in Nat
  PROVE  Plus(Shl(extract(e, 12, 40), 12), Shl(extract(v, lo, 9), 3))
         = (e \cap (12 .. 51)) \cup Slot(v, lo, 9, 3)
<1>1. Shl(extract(e, 12, 40), 12) = e \cap (12 .. 51)
  <2>1. Shl(extract(e, 12, 40), 12) = e \cap (12 .. 12 + 40 - 1) BY FieldInPlace, SMT
  <2> QED BY <2>1, 12 + 40 - 1 = 51
<1>2. e \cap (12 .. 51) \in Word /\ e \cap (12 .. 51) \subseteq 3 + 9 .. 63
  BY SMT DEF Word, Bit
<1>3. ASSUME NEW b \in Word, b \subseteq 3 + 9 .. 63,
             NEW k \in Nat, k = 3, NEW n \in Nat, n = 9
      PROVE  Plus(b, Shl(extract(v, lo, n), k)) = b \cup Slot(v, lo, n, k)
  <2>1. k + n <= 64 /\ b \subseteq k + n .. 63 BY <1>3
  <2> QED BY <2>1, TopEntryAddr
<1>4. ASSUME NEW b \in Word, b \subseteq 3 + 9 .. 63
      PROVE  Plus(b, Shl(extract(v, lo, 9), 3)) = b \cup Slot(v, lo, 9, 3)
  BY <1>3, <1>4
<1> QED BY <1>1, <1>2, <1>4

LEMMA Table32EntryAddr ==
  ASSUME NEW e \in Word, NEW v \in Word, NEW lo \in Nat
  PROVE  Plus(Shl(extract(e, 12, 40) \cap (0 .. 19), 12), Shl(extract(v, lo, 10), 2))
         = (e \cap (12 .. 31)) \cup Slot(v, lo, 10, 2)
<1>1. Shl(extract(e, 12, 40) \cap (0 .. 19), 12) = e \cap (12 .. 31)
  <2>1. ASSUME NEW i
        PROVE  i \in Shl(extract(e, 12, 40) \cap (0 .. 19), 12) <=> i \in e \cap (12 .. 31)
    BY SMT DEF Shl, extract
  <2> QED BY <2>1
<1>2. e \cap (12 .. 31) \in Word /\ e \cap (12 .. 31) \subseteq 2 + 10 .. 63
  BY SMT DEF Word, Bit
<1>3. ASSUME NEW b \in Word, b \subseteq 2 + 10 .. 63,
             NEW k \in Nat, k = 2, NEW n \in Nat, n = 10
      PROVE  Plus(b, Shl(extract(v, lo, n), k)) = b \cup Slot(v, lo, n, k)
  <2>1. k + n <= 64 /\ b \subseteq k + n .. 63 BY <1>3
  <2> QED BY <2>1, TopEntryAddr
<1>4. ASSUME NEW b \in Word, b \subseteq 2 + 10 .. 63
      PROVE  Plus(b, Shl(extract(v, lo, 10), 2)) = b \cup Slot(v, lo, 10, 2)
  BY <1>3, <1>4
<1> QED BY <1>1, <1>2, <1>4

(* The top table of each mode. *)
LEMMA TopTableAddr ==
  ASSUME NEW b \in Word, NEW v \in Word
  PROVE  /\ b \subseteq 12 .. 31 =>
              Plus(b, Shl(extract(v, 22, 10), 2)) = b \cup Slot(v, 22, 10, 2)
         /\ b \subseteq 5 .. 31 =>
              Plus(b, Shl(extract(v, 30, 2), 3)) = b \cup Slot(v, 30, 2, 3)
         /\ b \subseteq 12 .. 51 =>
              Plus(b, Shl(extract(v, 39, 9), 3)) = b \cup Slot(v, 39, 9, 3)
<1>1. ASSUME NEW lo \in Nat, NEW n \in Nat, NEW k \in Nat,
             k + n <= 12, b \subseteq k + n .. 63
      PROVE  Plus(b, Shl(extract(v, lo, n), k)) = b \cup Slot(v, lo, n, k)
  <2>1. k + n <= 64 BY <1>1
  <2> QED BY <2>1, <1>1, TopEntryAddr
<1>2. ASSUME NEW n \in Nat, NEW k \in Nat, n = 10, k = 2, b \subseteq 12 .. 31
      PROVE  Plus(b, Shl(extract(v, 22, n), k)) = b \cup Slot(v, 22, n, k)
  <2>1. k + n <= 12 /\ b \subseteq k + n .. 63 BY <1>2
  <2> QED BY <2>1, <1>1
<1>3. ASSUME NEW n \in Nat, NEW k \in Nat, n = 2, k = 3, b \subseteq 5 .. 31
      PROVE  Plus(b, Shl(extract(v, 30, n), k)) = b \cup Slot(v, 30, n, k)
  <2>1. k + n <= 12 /\ b \subseteq k + n .. 63 BY <1>3
  <2> QED BY <2>1, <1>1
<1>4. ASSUME NEW n \in Nat, NEW k \in Nat, n = 9, k = 3, b \subseteq 12 .. 51
      PROVE  Plus(b, Shl(extract(v, 39, n), k)) = b \cup Slot(v, 39, n, k)
  <2>1. k + n <= 12 /\ b \subseteq k + n .. 63 BY <1>4
  <2> QED BY <2>1, <1>1
<1> QED BY <1>2, <1>3, <1>4

(***************************************************************************)
(* The address the code returns for a leaf is the architectural one.       *)
(***************************************************************************)
LEMMA Leaf32Addr ==
  ASSUME NEW e, NEW v
  PROVE  /\ Shl(PTEntry_to_page(e) \cap (0 .. 19), 12) \cup extract(v, 0, 12)
            = PageAddr("B32", v, e, 2)
         /\ extract(v, 0, 22) \cup Shl(PDEntry4MB_to_page(e), 22)
            \cup Shl(PDEntry4MB_page_high(e), 32)
            = PageAddr("B32", v, e, 1)
<1>1. Shl(extract(e, 12, 40) \cap (0 .. 19), 12) = e \cap (12 .. 31)
  <2>1. ASSUME NEW i
        PROVE  i \in Shl(extract(e, 12, 40) \cap (0 .. 19), 12) <=> i \in e \cap (12 .. 31)
    BY SMT DEF Shl, extract
  <2> QED BY <2>1
<1>2. Shl(extract(e, 22, 10), 22) = e \cap (22 .. 31)
  <2>1. ASSUME NEW i
        PROVE  i \in Shl(extract(e, 22, 10), 22) <=> i \in e \cap (22 .. 31)
    BY SMT DEF Shl, extract
  <2> QED BY <2>1
<1>3. Shl(extract(e, 13, 8), 32) = {i \in 32 .. 39 : i - 19 \in e}
  <2>1. ASSUME NEW i
        PROVE  i \in Shl(extract(e, 13, 8), 32) <=> i \in {j \in 32 .. 39 : j - 19 \in e}
    BY SMT DEF Shl, extract
  <2> QED BY <2>1
<1>4. extract(v, 0, 12) = v \cap (0 .. 11) /\ extract(v, 0, 22) = v \cap (0 .. 21)
  <2>1. ASSUME NEW n \in Nat PROVE extract(v, 0, n) = v \cap (0 .. n - 1) BY LowBits
  <2> QED BY <2>1, 12 - 1 = 11, 22 - 1 = 21
<1>5. PageAddr("B32", v, e, 2) = (e \cap (12 .. 31)) \cup (v \cap (0 .. 11))
  BY Arch32, 12 - 1 = 11 DEF PageAddr, PageBase
<1>6. PageAddr("B32", v, e, 1)
      = (e \cap (22 .. 31)) \cup {i \in 32 .. 39 : i - 19 \in e} \cup (v \cap (0 .. 21))
  BY Arch32, 22 - 1 = 21 DEF PageAddr, PageBase
<1>7. Shl(PTEntry_to_page(e) \cap (0 .. 19), 12) \cup extract(v, 0, 12)
      = PageAddr("B32", v, e, 2)
  BY <1>1, <1>4, <1>5 DEF PTEntry_to_page
<1>8. extract(v, 0, 22) \cup Shl(PDEntry4MB_to_page(e), 22)
      \cup Shl(PDEntry4MB_page_high(e), 32) = PageAddr("B32", v, e, 1)
  BY <1>2, <1>3, <1>4, <1>6 DEF PDEntry4MB_to_page, PDEntry4MB_page_high
<1> QED BY <1>7, <1>8

LEMMA WideLeafAddr ==
  ASSUME NEW m \in Walking \ {"B32"}, NEW d \in 1 .. 4, NEW e, NEW v
  PROVE  /\ Low(m, d) = 12 => Shl(PTEntry_to_page(e), 12) \cup extract(v, 0, 12)
                              = PageAddr(m, v, e, d)
         /\ Low(m, d) = 21 => Shl(PDEntry2MB_to_page(e), 21) \cup extract(v, 0, 21)
                              = PageAddr(m, v, e, d)
         /\ Low(m, d) = 30 => Shl(PDPTEntry1GB_to_page(e), 30) \cup extract(v, 0, 30)
                              = PageAddr(m, v, e, d)
<1>1. PageAddr(m, v, e, d) = (e \cap (Low(m, d) .. 51)) \cup (v \cap (0 .. Low(m, d) - 1))
  BY DEF PageAddr, PageBase
<1>2. ASSUME NEW pos \in Nat, NEW len \in Nat, pos + len = 52, Low(m, d) = pos
      PROVE  Shl(extract(e, pos, len), pos) \cup extract(v, 0, pos) = PageAddr(m, v, e, d)
  <2>1. pos + len <= 64 /\ pos + len - 1 = 51 BY <1>2, SMT
  <2>2. Shl(extract(e, pos, len), pos) = e \cap (pos .. 51) BY <2>1, FieldInPlace
  <2>3. extract(v, 0, pos) = v \cap (0 .. pos - 1) BY LowBits
  <2> QED BY <1>1, <1>2, <2>2, <2>3
<1>3. Low(m, d) = 12 => Shl(extract(e, 12, 40), 12) \cup extract(v, 0, 12)
                        = PageAddr(m, v, e, d)
  BY <1>2, 12 + 40 = 52
<1>4. Low(m, d) = 21 => Shl(extract(e, 21, 31), 21) \cup extract(v, 0, 21)
                        = PageAddr(m, v, e, d)
  BY <1>2, 21 + 31 = 52
<1>5. Low(m, d) = 30 => Shl(extract(e, 30, 22), 30) \cup extract(v, 0, 30)
                        = PageAddr(m, v, e, d)
  BY <1>2, 30 + 22 = 52
<1> QED BY <1>3, <1>4, <1>5
        DEF PTEntry_to_page, PDEntry2MB_to_page, PDPTEntry1GB_to_page

(***************************************************************************)
(* The walk.  Partial: what has been read so far is the beginning of a     *)
(* walk of virt, and every entry of it points to a table.                  *)
(***************************************************************************)
Partial(m, b, v, mm, es) ==
  /\ IsWalk(m, b, v, mm, es)
  /\ Len(es) < Depth(m)
  /\ Len(es) > 0 => 0 \in es[Len(es)] /\ ~IsLeaf(m, es[Len(es)], Len(es))

Remember(mm, a, w) == [x \in DOMAIN mm \cup {a} |-> IF x = a THEN w ELSE mm[x]]

NextAddr(m, b, v, es) == EntryAddr(m, b, v, es, Len(es) + 1)

(* Reading the next entry of a partial walk leads to one of four outcomes. *)
LEMMA WalkExtends ==
  ASSUME NEW m \in Walking, NEW b, NEW v, NEW mm, NEW es \in Seq(Word),
         NEW w \in Word \cup {Unreadable},
         Partial(m, b, v, mm, es),
         NextAddr(m, b, v, es) \in DOMAIN mm => w = mm[NextAddr(m, b, v, es)]
  PROVE  LET mn == Remember(mm, NextAddr(m, b, v, es), w)
             en == Append(es, w)
             d  == Len(es) + 1
         IN  /\ w = Unreadable => Faults(m, b, v, mn, es)
             /\ w # Unreadable /\ 0 \notin w => Faults(m, b, v, mn, en)
             /\ w # Unreadable /\ 0 \in w /\ IsLeaf(m, w, d) =>
                  Translates(m, b, v, mn, en, PageAddr(m, v, w, d))
             /\ w # Unreadable /\ 0 \in w /\ ~IsLeaf(m, w, d) =>
                  Partial(m, b, v, mn, en)
<1> DEFINE a  == NextAddr(m, b, v, es)
           mn == Remember(mm, a, w)
           en == Append(es, w)
           n  == Len(es)
<1>1. n \in Nat /\ Depth(m) \in 2 .. 4 /\ n < Depth(m)
  BY DepthBound, LenProperties DEF Partial
<1>2. DOMAIN mm \subseteq DOMAIN mn /\ a \in DOMAIN mn /\ mn[a] = w
      /\ \A x \in DOMAIN mm : mn[x] = mm[x]
  BY DEF Remember
<1>3. IsWalk(m, b, v, mn, es)
  <2>1. IsWalk(m, b, v, mm, es) BY DEF Partial
  <2> QED BY <1>2, <2>1 DEF IsWalk
<1>4. CASE w = Unreadable
  BY <1>1, <1>2, <1>3, <1>4 DEF Faults, NextAddr, Partial
<1>5. CASE w # Unreadable
  <2>1. w \in Word /\ en \in Seq(Word) /\ Len(en) = n + 1 /\ en[n + 1] = w
        /\ \A d \in 1 .. n : en[d] = es[d]
    BY <1>1, <1>5, AppendProperties
  <2>2. ASSUME NEW d \in 1 .. n + 1
        PROVE  EntryAddr(m, b, v, en, d) = EntryAddr(m, b, v, es, d)
    <3>1. CASE d = 1 BY <3>1 DEF EntryAddr
    <3>2. CASE d # 1
      <4>1. d - 1 \in 1 .. n BY <1>1, <3>2, SMT
      <4> QED BY <4>1, <2>1 DEF EntryAddr
    <3> QED BY <3>1, <3>2
  <2>3. IsWalk(m, b, v, mn, en)
    <3>1. Len(en) \in 0 .. Depth(m) BY <1>1, <2>1
    <3>2. ASSUME NEW d \in 1 .. Len(en)
          PROVE  /\ EntryAddr(m, b, v, en, d) \in DOMAIN mn
                 /\ en[d] = mn[EntryAddr(m, b, v, en, d)]
                 /\ en[d] # Unreadable
      <4>1. CASE d = n + 1
        <5>1. EntryAddr(m, b, v, en, d) = a BY <1>1, <2>2, <4>1 DEF NextAddr
        <5> QED BY <1>2, <1>5, <2>1, <4>1, <5>1
      <4>2. CASE d # n + 1
        <5>1. d \in 1 .. n BY <1>1, <2>1, <4>2, SMT
        <5>2. EntryAddr(m, b, v, en, d) = EntryAddr(m, b, v, es, d) /\ en[d] = es[d]
          BY <5>1, <2>1, <2>2, <1>1
        <5> QED BY <1>3, <5>1, <5>2 DEF IsWalk
      <4> QED BY <4>1, <4>2
    <3>3. ASSUME NEW d \in 1 .. Len(en) - 1 PROVE 0 \in en[d] /\ ~IsLeaf(m, en[d], d)
      <4>1. d \in 1 .. n /\ en[d] = es[d] BY <1>1, <2>1, SMT
      <4>2. CASE d = n BY <4>1, <4>2, <1>1 DEF Partial
      <4>3. CASE d # n
        <5>1. d \in 1 .. n - 1 BY <4>1, <4>3, <1>1, SMT
        <5> QED BY <4>1, <5>1, <1>3 DEF IsWalk
      <4> QED BY <4>2, <4>3
    <3> QED BY <3>1, <3>2, <3>3 DEF IsWalk
  <2>4. CASE 0 \notin w BY <1>1, <1>5, <2>1, <2>3, <2>4 DEF Faults
  <2>5. CASE 0 \in w /\ IsLeaf(m, w, n + 1)
    BY <1>1, <1>5, <2>1, <2>3, <2>5 DEF Translates
  <2>6. CASE 0 \in w /\ ~IsLeaf(m, w, n + 1)
    <3>1. n + 1 # Depth(m) BY <2>6 DEF IsLeaf
    <3> QED BY <1>1, <1>5, <2>1, <2>3, <2>6, <3>1 DEF Partial
  <2> QED BY <1>5, <2>4, <2>5, <2>6
<1> QED BY <1>4, <1>5

(***************************************************************************)
(* The code takes exactly the steps of that walk.                          *)
(***************************************************************************)
WalkInv ==
  pc = "walk" =>
    /\ mode \in Walking /\ phys = Undefined /\ Len(walk) < Depth(mode)
    /\ Aligned => Partial(mode, base, virt, mem, walk)

Inv == TypeOK /\ WalkInv /\ TranslationCorrect

(* One read of the code seen as a step of the architectural walk. *)
ArchStep(w) ==
  /\ pc = "walk" /\ mode \in Walking
  /\ ReadPhysical({mode}, Len(walk), NextAddr(mode, base, virt, walk), w)
  /\ \/ Failed(w)
     \/ \E k \in Kinds : Absent(w, k)
     \/ /\ IsLeaf(mode, w, Len(walk) + 1)
        /\ \E k \in Kinds : Maps(w, k, PageAddr(mode, virt, w, Len(walk) + 1))
     \/ ~IsLeaf(mode, w, Len(walk) + 1) /\ PointsToTable(w)

LEMMA WalkWords ==
  ASSUME TypeOK
  PROVE  \A d \in 1 .. Len(walk) : walk[d] \in Word
BY ElementOfSeq DEF TypeOK

LEMMA WalkStep32 ==
  ASSUME TypeOK, WalkInv, Aligned, NEW w \in Contents,
         Read32BitPde(w) \/ Read32BitPte(w)
  PROVE  ArchStep(w)
<1>1. CASE Read32BitPde(w)
  <2>1. mode = "B32" /\ Len(walk) = 0 /\ Len(walk) + 1 = 1 /\ pc = "walk"
    BY <1>1 DEF Read32BitPde, ReadPhysical
  <2>2. base \in Word /\ virt \in Word /\ base \subseteq 12 .. 31
    BY <2>1, Arch32 DEF TypeOK, Aligned
  <2>3. NextAddr(mode, base, virt, walk) = Plus(base, Shl(extract(virt, 22, 10), 2))
    <3>1. Offset("B32", virt, 1) = Slot(virt, 22, 10, 2)
      BY Arch32, 31 - 22 + 1 = 10 DEF Offset
    <3> QED BY <2>1, <2>2, <3>1, TopTableAddr DEF NextAddr, EntryAddr
  <2>4. IsLeaf(mode, w, Len(walk) + 1) <=> LargePage(w)
    BY <2>1, Arch32 DEF IsLeaf, LargePage
  <2>5. extract(virt, 0, 22) \cup Shl(PDEntry4MB_to_page(w), 22)
        \cup Shl(PDEntry4MB_page_high(w), 32) = PageAddr(mode, virt, w, Len(walk) + 1)
    <3>1. extract(virt, 0, 22) \cup Shl(PDEntry4MB_to_page(w), 22)
          \cup Shl(PDEntry4MB_page_high(w), 32) = PageAddr("B32", virt, w, 1)
      BY ONLY Leaf32Addr, Zenon
    <3> QED BY ONLY <2>1, <3>1
  <2> QED BY <1>1, <2>1, <2>3, <2>4, <2>5 DEF Read32BitPde, ArchStep, Kinds, Walking, ReadPhysical
<1>2. CASE Read32BitPte(w)
  <2>1. mode = "B32" /\ Len(walk) = 1 /\ Len(walk) + 1 = 2 /\ pc = "walk"
    BY <1>2 DEF Read32BitPte, ReadPhysical
  <2>2. walk[1] \in Word /\ virt \in Word BY <2>1, WalkWords DEF TypeOK
  <2>3. NextAddr(mode, base, virt, walk)
        = Plus(Shl(PDEntry_to_pt(walk[1]) \cap (0 .. 19), 12), Shl(extract(virt, 12, 10), 2))
    <3>1. Offset("B32", virt, 2) = Slot(virt, 12, 10, 2)
      BY Arch32, 21 - 12 + 1 = 10 DEF Offset
    <3> QED BY <2>1, <2>2, <3>1, Arch32, Table32EntryAddr
            DEF NextAddr, EntryAddr, PDEntry_to_pt
  <2>4. IsLeaf(mode, w, Len(walk) + 1) BY <2>1, Arch32 DEF IsLeaf
  <2>5. Shl(PTEntry_to_page(w) \cap (0 .. 19), 12) \cup extract(virt, 0, 12)
        = PageAddr(mode, virt, w, Len(walk) + 1)
    BY <2>1, Leaf32Addr, Zenon
  <2> QED BY <1>2, <2>1, <2>3, <2>4, <2>5 DEF Read32BitPte, ArchStep, Kinds, Walking, ReadPhysical
<1> QED BY <1>1, <1>2

LEMMA WalkStepPae ==
  ASSUME TypeOK, WalkInv, Aligned, NEW w \in Contents,
         ReadPaePdpte(w) \/ ReadPaePde(w) \/ ReadPaePte(w)
  PROVE  ArchStep(w)
<1> USE DEF ReadPaePdpte, ReadPaePde, ReadPaePte
<1>0. mode = "PAE" /\ pc = "walk" /\ mode \in Walking /\ mode \in Walking \ {"B32"}
  BY DEF ReadPhysical, Walking
<1>1. CASE ReadPaePdpte(w)
  <2>1. Len(walk) = 0 /\ Len(walk) + 1 = 1 BY <1>1 DEF ReadPhysical
  <2>2. base \in Word /\ virt \in Word /\ base \subseteq 5 .. 31
    BY <1>0, ArchPae DEF TypeOK, Aligned
  <2>3. NextAddr(mode, base, virt, walk) = Plus(base, Shl(extract(virt, 30, 2), 3))
    <3>1. Offset("PAE", virt, 1) = Slot(virt, 30, 2, 3)
      BY ArchPae, 31 - 30 + 1 = 2 DEF Offset
    <3> QED BY <1>0, <2>1, <2>2, <3>1, TopTableAddr DEF NextAddr, EntryAddr
  <2>4. ~IsLeaf(mode, w, Len(walk) + 1) BY <1>0, <2>1, ArchPae DEF IsLeaf
  <2> QED BY <1>0, <1>1, <2>1, <2>3, <2>4 DEF ArchStep, Kinds, ReadPhysical
<1>2. CASE ReadPaePde(w)
  <2>1. Len(walk) = 1 /\ Len(walk) + 1 = 2 BY <1>2 DEF ReadPhysical
  <2>2. walk[1] \in Word /\ virt \in Word BY <2>1, WalkWords DEF TypeOK
  <2>3. NextAddr(mode, base, virt, walk)
        = Plus(Shl(PDPTEntry_to_pd(walk[1]), 12), Shl(extract(virt, 21, 9), 3))
    <3>1. Offset("PAE", virt, 2) = Slot(virt, 21, 9, 3)
      BY ArchPae, 29 - 21 + 1 = 9 DEF Offset
    <3> QED BY <1>0, <2>1, <2>2, <3>1, ArchPae, TableEntryAddr
            DEF NextAddr, EntryAddr, PDPTEntry_to_pd
  <2>4. IsLeaf(mode, w, Len(walk) + 1) <=> LargePage(w)
    BY <1>0, <2>1, ArchPae DEF IsLeaf, LargePage
  <2>5. Shl(PDEntry2MB_to_page(w), 21) \cup extract(virt, 0, 21)
        = PageAddr(mode, virt, w, Len(walk) + 1)
    BY <1>0, <2>1, ArchPae, WideLeafAddr
  <2> QED BY <1>0, <1>2, <2>1, <2>3, <2>4, <2>5, SMTT(30) DEF ArchStep, Kinds, ReadPhysical
<1>3. CASE ReadPaePte(w)
  <2>1. Len(walk) = 2 /\ Len(walk) + 1 = 3 BY <1>3 DEF ReadPhysical
  <2>2. walk[2] \in Word /\ virt \in Word BY <2>1, WalkWords DEF TypeOK
  <2>3. NextAddr(mode, base, virt, walk)
        = Plus(Shl(PDEntry_to_pt(walk[2]), 12), Shl(extract(virt, 12, 9), 3))
    <3>1. Offset("PAE", virt, 3) = Slot(virt, 12, 9, 3)
      BY ArchPae, 20 - 12 + 1 = 9 DEF Offset
    <3> QED BY <1>0, <2>1, <2>2, <3>1, ArchPae, TableEntryAddr
            DEF NextAddr, EntryAddr, PDEntry_to_pt
  <2>4. IsLeaf(mode, w, Len(walk) + 1) BY <1>0, <2>1, ArchPae DEF IsLeaf
  <2>5. Shl(PTEntry_to_page(w), 12) \cup extract(virt, 0, 12)
        = PageAddr(mode, virt, w, Len(walk) + 1)
    BY <1>0, <2>1, ArchPae, WideLeafAddr
  <2> QED BY <1>0, <1>3, <2>1, <2>3, <2>4, <2>5 DEF ArchStep, Kinds, ReadPhysical
<1> QED BY <1>1, <1>2, <1>3

LEMMA WalkStepL4 ==
  ASSUME TypeOK, WalkInv, Aligned, NEW w \in Contents,
         ReadPml4e(w) \/ ReadPdpte(w) \/ ReadPde(w) \/ ReadPte(w)
  PROVE  ArchStep(w)
<1> USE DEF ReadPml4e, ReadPdpte, ReadPde, ReadPte
<1>0. mode \in FourLevel /\ pc = "walk" /\ mode \in Walking /\ mode \in Walking \ {"B32"}
      /\ mode # "B32" /\ mode # "PAE"
  BY DEF ReadPhysical, Walking, FourLevel
<1>1. CASE ReadPml4e(w)
  <2>1. Len(walk) = 0 /\ Len(walk) + 1 = 1 BY <1>1 DEF ReadPhysical
  <2>2. base \in Word /\ virt \in Word /\ base \subseteq 12 .. 51
    <3>1. base \in Word /\ virt \in Word BY DEF TypeOK
    <3>2. BaseBits(mode) = 12 .. 51 BY <1>0, ArchL4
    <3>3. base \subseteq BaseBits(mode) BY <1>0 DEF Aligned
    <3> QED BY <3>1, <3>2, <3>3
  <2>3. NextAddr(mode, base, virt, walk) = Plus(base, Shl(extract(virt, 39, 9), 3))
    <3>1. Offset(mode, virt, 1) = Slot(virt, 39, 9, 3)
      BY <1>0, ArchL4, 47 - 39 + 1 = 9 DEF Offset
    <3> QED BY <1>0, <2>1, <2>2, <3>1, TopTableAddr DEF NextAddr, EntryAddr
  <2>4. ~IsLeaf(mode, w, Len(walk) + 1) BY <1>0, <2>1, ArchL4 DEF IsLeaf
  <2> QED BY <1>0, <1>1, <2>1, <2>3, <2>4 DEF ArchStep, Kinds, ReadPhysical
<1>2. CASE ReadPdpte(w)
  <2>1. Len(walk) = 1 /\ Len(walk) + 1 = 2 BY <1>2 DEF ReadPhysical
  <2>2. walk[1] \in Word /\ virt \in Word BY <2>1, WalkWords DEF TypeOK
  <2>3. NextAddr(mode, base, virt, walk)
        = Plus(Shl(PML4Entry_to_pdpt(walk[1]), 12), Shl(extract(virt, 30, 9), 3))
    <3>1. Offset(mode, virt, 2) = Slot(virt, 30, 9, 3)
      BY <1>0, ArchL4, 38 - 30 + 1 = 9 DEF Offset
    <3> QED BY <1>0, <2>1, <2>2, <3>1, ArchL4, TableEntryAddr
            DEF NextAddr, EntryAddr, PML4Entry_to_pdpt
  <2>4. IsLeaf(mode, w, Len(walk) + 1) <=> LargePage(w)
    BY <1>0, <2>1, ArchL4 DEF IsLeaf, LargePage
  <2>5. Shl(PDPTEntry1GB_to_page(w), 30) \cup extract(virt, 0, 30)
        = PageAddr(mode, virt, w, Len(walk) + 1)
    BY <1>0, <2>1, ArchL4, WideLeafAddr
  <2> QED BY <1>0, <1>2, <2>1, <2>3, <2>4, <2>5 DEF ArchStep, Kinds, ReadPhysical
<1>3. CASE ReadPde(w)
  <2>1. Len(walk) = 2 /\ Len(walk) + 1 = 3 BY <1>3 DEF ReadPhysical
  <2>2. walk[2] \in Word /\ virt \in Word BY <2>1, WalkWords DEF TypeOK
  <2>3. NextAddr(mode, base, virt, walk)
        = Plus(Shl(PDPTEntry_to_pd(walk[2]), 12), Shl(extract(virt, 21, 9), 3))
    <3>1. Offset(mode, virt, 3) = Slot(virt, 21, 9, 3)
      BY <1>0, ArchL4, 29 - 21 + 1 = 9 DEF Offset
    <3> QED BY <1>0, <2>1, <2>2, <3>1, ArchL4, TableEntryAddr
            DEF NextAddr, EntryAddr, PDPTEntry_to_pd
  <2>4. IsLeaf(mode, w, Len(walk) + 1) <=> LargePage(w)
    BY <1>0, <2>1, ArchL4 DEF IsLeaf, LargePage
  <2>5. Shl(PDEntry2MB_to_page(w), 21) \cup extract(virt, 0, 21)
        = PageAddr(mode, virt, w, Len(walk) + 1)
    BY <1>0, <2>1, ArchL4, WideLeafAddr
  <2> QED BY <1>0, <1>3, <2>1, <2>3, <2>4, <2>5 DEF ArchStep, Kinds, ReadPhysical
<1>4. CASE ReadPte(w)
  <2>1. Len(walk) = 3 /\ Len(walk) + 1 = 4 BY <1>4 DEF ReadPhysical
  <2>2. walk[3] \in Word /\ virt \in Word BY <2>1, WalkWords DEF TypeOK
  <2>3. NextAddr(mode, base, virt, walk)
        = Plus(Shl(PDEntry_to_pt(walk[3]), 12), Shl(extract(virt, 12, 9), 3))
    <3>1. Offset(mode, virt, 4) = Slot(virt, 12, 9, 3)
      BY <1>0, ArchL4, 20 - 12 + 1 = 9 DEF Offset
    <3> QED BY <1>0, <2>1, <2>2, <3>1, ArchL4, TableEntryAddr
            DEF NextAddr, EntryAddr, PDEntry_to_pt
  <2>4. IsLeaf(mode, w, Len(walk) + 1) BY <1>0, <2>1, ArchL4 DEF IsLeaf
  <2>5. Shl(PTEntry_to_page(w), 12) \cup extract(virt, 0, 12)
        = PageAddr(mode, virt, w, Len(walk) + 1)
    BY <1>0, <2>1, ArchL4, WideLeafAddr
  <2> QED BY <1>0, <1>4, <2>1, <2>3, <2>4, <2>5 DEF ArchStep, Kinds, ReadPhysical
<1> QED BY <1>1, <1>2, <1>3, <1>4

(***************************************************************************)
(* Type correctness.  Every value that is stored comes from an operator    *)
(* that returns words, for any arguments.                                  *)
(***************************************************************************)
TypedOutcome(w) ==
  \/ Failed(w)
  \/ \E k \in Kinds : Absent(w, k)
  \/ \E k \in Kinds : \E pa \in Word : Maps(w, k, pa)
  \/ PointsToTable(w)

LEMMA ReadIsTyped ==
  ASSUME TypeOK, NEW m, NEW n, n \in 0 .. 3, NEW a, a \in Word, NEW w \in Contents,
         ReadPhysical(m, n, a, w), TypedOutcome(w)
  PROVE  TypeOK'
<1>1. DOMAIN mem' \subseteq Word /\ \A x \in DOMAIN mem' : mem'[x] \in Contents
  BY DEF ReadPhysical, TypeOK
<1>2. target' \in Targets /\ named' \in BOOLEAN /\ mode' \in Modes
      /\ base' \in Word /\ virt' \in Word /\ calls' \in 0 .. MaxCalls
  BY DEF ReadPhysical, TypeOK
<1>3. CASE Failed(w)
  BY <1>1, <1>2, <1>3 DEF TypeOK, Failed, Return
<1>4. ASSUME w # Unreadable
      PROVE  Append(walk, w) \in Seq(Word) /\ Len(Append(walk, w)) \in 0 .. 4
  <2>1. w \in Word BY <1>4, ContentsAssumption
  <2>2. walk \in Seq(Word) /\ Len(walk) = n BY DEF TypeOK, ReadPhysical
  <2> QED BY <2>1, <2>2, AppendProperties
<1>5. ASSUME NEW k \in Kinds, Absent(w, k) PROVE TypeOK'
  BY <1>1, <1>2, <1>4, <1>5 DEF TypeOK, Absent, Return
<1>6. ASSUME NEW k \in Kinds, NEW pa \in Word, Maps(w, k, pa) PROVE TypeOK'
  BY <1>1, <1>2, <1>4, <1>6 DEF TypeOK, Maps, Return
<1>7. CASE PointsToTable(w)
  BY <1>1, <1>2, <1>4, <1>7 DEF TypeOK, PointsToTable
<1> QED BY <1>3, <1>5, <1>6, <1>7 DEF TypedOutcome

LEMMA PagesAreWords ==
  ASSUME NEW s, NEW r, NEW v \in Word, NEW p \in Nat, NEW q \in Nat, NEW n \in Nat
  PROVE  /\ Shl(s, p) \cup extract(v, 0, n) \in Word
         /\ extract(v, 0, n) \cup Shl(s, p) \cup Shl(r, q) \in Word
<1>1. extract(v, 0, n) = v \cap (0 .. n - 1) BY LowBits
<1>2. Shl(s, p) \in Word /\ Shl(r, q) \in Word BY WordClosure
<1> QED BY <1>1, <1>2 DEF Word

LEMMA WalkStepTyped ==
  ASSUME TypeOK, WalkStep
  PROVE  TypeOK'
<1>1. PICK w \in Contents :
        \/ Read32BitPde(w) \/ Read32BitPte(w)
        \/ ReadPaePdpte(w) \/ ReadPaePde(w) \/ ReadPaePte(w)
        \/ ReadPml4e(w) \/ ReadPdpte(w) \/ ReadPde(w) \/ ReadPte(w)
  BY DEF WalkStep
<1>2. \A a, b : Plus(a, b) \in Word BY WordClosure, 0 \in Nat
<1>3. virt \in Word BY DEF TypeOK
<1>4. ASSUME NEW m, NEW n, n \in 0 .. 3, NEW x, NEW y, ReadPhysical(m, n, Plus(x, y), w),
             TypedOutcome(w)
      PROVE  TypeOK'
  BY <1>2, <1>4, ReadIsTyped
<1>5. CASE Read32BitPde(w)
  <2>1. TypedOutcome(w) BY <1>3, <1>5, PagesAreWords DEF Read32BitPde, TypedOutcome, Kinds
  <2> QED BY <1>4, <1>5, <2>1 DEF Read32BitPde
<1>6. CASE Read32BitPte(w)
  <2>1. TypedOutcome(w) BY <1>3, <1>6, PagesAreWords DEF Read32BitPte, TypedOutcome, Kinds
  <2> QED BY <1>4, <1>6, <2>1 DEF Read32BitPte
<1>7. CASE ReadPaePdpte(w)
  <2>1. TypedOutcome(w) BY <1>3, <1>7, PagesAreWords DEF ReadPaePdpte, TypedOutcome, Kinds
  <2> QED BY <1>4, <1>7, <2>1 DEF ReadPaePdpte
<1>8. CASE ReadPaePde(w)
  <2>1. TypedOutcome(w) BY <1>3, <1>8, PagesAreWords DEF ReadPaePde, TypedOutcome, Kinds
  <2> QED BY <1>4, <1>8, <2>1 DEF ReadPaePde
<1>9. CASE ReadPaePte(w)
  <2>1. TypedOutcome(w) BY <1>3, <1>9, PagesAreWords DEF ReadPaePte, TypedOutcome, Kinds
  <2> QED BY <1>4, <1>9, <2>1 DEF ReadPaePte
<1>10. CASE ReadPml4e(w)
  <2>1. TypedOutcome(w) BY <1>3, <1>10, PagesAreWords DEF ReadPml4e, TypedOutcome, Kinds
  <2> QED BY <1>4, <1>10, <2>1 DEF ReadPml4e
<1>11. CASE ReadPdpte(w)
  <2>1. TypedOutcome(w) BY <1>3, <1>11, PagesAreWords DEF ReadPdpte, TypedOutcome, Kinds
  <2> QED BY <1>4, <1>11, <2>1 DEF ReadPdpte
<1>12. CASE ReadPde(w)
  <2>1. TypedOutcome(w) BY <1>3, <1>12, PagesAreWords DEF ReadPde, TypedOutcome, Kinds
  <2> QED BY <1>4, <1>12, <2>1 DEF ReadPde
<1>13. CASE ReadPte(w)
  <2>1. TypedOutcome(w) BY <1>3, <1>13, PagesAreWords DEF ReadPte, TypedOutcome, Kinds
  <2> QED BY <1>4, <1>13, <2>1 DEF ReadPte
<1> QED BY <1>1, <1>5, <1>6, <1>7, <1>8, <1>9, <1>10, <1>11, <1>12, <1>13

LEMMA InitTyped == Init => TypeOK
<1> SUFFICES ASSUME Init PROVE TypeOK OBVIOUS
<1>1. << >> \in Seq(Word) /\ Len(<< >>) = 0 BY EmptySeq
<1>2. walk \in Seq(Word) /\ Len(walk) \in 0 .. 4 BY <1>1 DEF Init
<1>3. result.kind \in Kinds /\ result.entries \in Seq(Word)
  BY <1>1 DEF Init, NoResult, Kinds
<1>4. DOMAIN mem \subseteq Word /\ \A a \in DOMAIN mem : mem[a] \in Contents BY DEF Init
<1>5. base \in Word /\ virt \in Word BY DEF Init, Word
<1>6. pc \in {"new", "ready", "walk", "returned"} /\ target \in Targets
      /\ named \in BOOLEAN /\ mode \in Modes /\ ret \in BOOLEAN
      /\ phys \in Word \cup {Undefined}
  BY DEF Init, Modes
<1>7. calls \in 0 .. MaxCalls BY MaxCallsAssumption DEF Init
<1> QED BY ONLY <1>2, <1>3, <1>4, <1>5, <1>6, <1>7 DEF TypeOK

LEMMA StepTyped ==
  ASSUME TypeOK, [Next]_vars
  PROVE  TypeOK'
<1>1. CASE Construct
  <2>1. /\ pc' = "ready" /\ named' \in BOOLEAN
        /\ UNCHANGED <<target, virt, phys, ret, walk, result, mem, calls>>
    BY <1>1 DEF Construct, FromRegisters, FromDirBase, Built
  <2>2. mode' \in Modes
    BY <1>1 DEF Construct, FromRegisters, FromDirBase, RegisterMode, Modes
  <2>3. base' \in Word
    <3>1. CASE FromRegisters
      <4>1. target \in Target => target.cr3 \in Word BY DEF Target
      <4>2. target.cr3 \in Word BY <4>1, TargetsAssumption DEF TypeOK
      <4> QED BY <3>1, <4>2 DEF FromRegisters, RegisterBase, Word
    <3>2. CASE \E b \in DirBases, m32 \in BOOLEAN : FromDirBase(b, m32)
      BY <3>2, DirBasesAssumption DEF FromDirBase
    <3> QED BY <1>1, <3>1, <3>2 DEF Construct
  <2> QED BY <2>1, <2>2, <2>3 DEF TypeOK
<1>2. ASSUME NEW v \in VirtAddrs, Translate(v) PROVE TypeOK'
  <2>1. v \in Word BY VirtAddrsAssumption
  <2>2. calls' \in 0 .. MaxCalls BY <1>2, MaxCallsAssumption DEF Translate, TypeOK
  <2>3. << >> \in Seq(Word) /\ Len(<< >>) = 0 BY EmptySeq
  <2>4. walk' \in Seq(Word) /\ Len(walk') \in 0 .. 4 BY <1>2, <2>3 DEF Translate
  <2>5. pc' \in {"new", "ready", "walk", "returned"}
        /\ phys' \in Word \cup {Undefined} /\ ret' \in BOOLEAN
    BY <1>2, <2>1 DEF Translate, TypeOK
  <2> QED BY <1>2, <2>1, <2>2, <2>4, <2>5 DEF Translate, TypeOK
<1>3. CASE WalkStep BY <1>3, WalkStepTyped
<1>4. CASE UNCHANGED vars BY <1>4 DEF vars, TypeOK
<1> QED BY <1>1, <1>2, <1>3, <1>4 DEF Next

(* Every execution of a Paging object keeps its fields and locals well     *)
(* typed: in particular phys is a word or was never assigned, and no walk  *)
(* reads more than four entries (class Paging, kd.cpp).                    *)
THEOREM PagingTyped == Spec => []TypeOK
<1>1. Init => TypeOK BY InitTyped
<1>2. TypeOK /\ [Next]_vars => TypeOK' BY StepTyped
<1> QED BY <1>1, <1>2, PTL DEF Spec

(***************************************************************************)
(* Translation correctness.                                                *)
(***************************************************************************)
LEMMA WalkStepCorrect ==
  ASSUME Inv, WalkStep
  PROVE  WalkInv' /\ TranslationCorrect'
<1> USE DEF Inv
<1>1. pc = "walk" /\ mode \in Walking /\ phys = Undefined
      /\ mode' = mode /\ base' = base /\ virt' = virt
  BY DEF WalkStep, WalkInv, ReadPhysical, Read32BitPde, Read32BitPte,
         ReadPaePdpte, ReadPaePde, ReadPaePte, ReadPml4e, ReadPdpte, ReadPde, ReadPte
<1>2. Aligned' <=> Aligned BY <1>1 DEF Aligned
<1>3. CASE Aligned
  <2>1. PICK w \in Contents : ArchStep(w)
    BY <1>3, WalkStep32, WalkStepPae, WalkStepL4 DEF WalkStep
  <2>2. Partial(mode, base, virt, mem, walk) /\ walk \in Seq(Word)
        /\ w \in Word \cup {Unreadable}
    BY <1>1, <1>3, ContentsAssumption DEF WalkInv, TypeOK
  <2>3. NextAddr(mode, base, virt, walk) \in DOMAIN mem
          => w = mem[NextAddr(mode, base, virt, walk)]
    BY <2>1 DEF ArchStep, ReadPhysical
  <2>4. mem' = Remember(mem, NextAddr(mode, base, virt, walk), w)
    BY <2>1 DEF ArchStep, ReadPhysical, Remember
  <2>5. /\ w = Unreadable => Faults(mode, base, virt, mem', walk)
        /\ w # Unreadable /\ 0 \notin w =>
             Faults(mode, base, virt, mem', Append(walk, w))
        /\ w # Unreadable /\ 0 \in w /\ IsLeaf(mode, w, Len(walk) + 1) =>
             Translates(mode, base, virt, mem', Append(walk, w),
                        PageAddr(mode, virt, w, Len(walk) + 1))
        /\ w # Unreadable /\ 0 \in w /\ ~IsLeaf(mode, w, Len(walk) + 1) =>
             Partial(mode, base, virt, mem', Append(walk, w))
    BY <1>1, <2>2, <2>3, <2>4, WalkExtends
  <2>6. CASE Failed(w)
    BY <1>1, <2>5, <2>6 DEF Failed, Return, WalkInv, TranslationCorrect
  <2>7. ASSUME NEW k \in Kinds, Absent(w, k) PROVE WalkInv' /\ TranslationCorrect'
    BY <1>1, <2>5, <2>7 DEF Absent, Return, WalkInv, TranslationCorrect, Present
  <2>8. ASSUME NEW k \in Kinds, IsLeaf(mode, w, Len(walk) + 1),
               Maps(w, k, PageAddr(mode, virt, w, Len(walk) + 1))
        PROVE  WalkInv' /\ TranslationCorrect'
    BY <1>1, <2>5, <2>8 DEF Maps, Return, WalkInv, TranslationCorrect, Present
  <2>9. CASE ~IsLeaf(mode, w, Len(walk) + 1) /\ PointsToTable(w)
    <3>1. Partial(mode, base, virt, mem', walk') /\ pc' = "walk" /\ phys' = Undefined
      BY <1>1, <2>5, <2>9 DEF PointsToTable, Present
    <3> QED BY <1>1, <3>1 DEF WalkInv, TranslationCorrect, Partial
  <2> QED BY <2>1, <2>6, <2>7, <2>8, <2>9 DEF ArchStep
<1>4. CASE ~Aligned
  <2>1. TranslationCorrect' BY <1>2, <1>4 DEF TranslationCorrect
  <2>2. ASSUME pc' = "walk" PROVE phys' = Undefined /\ Len(walk') < Depth(mode)
    <3>1. PICK w \in Contents : PointsToTable(w) /\ Len(walk) + 1 < Depth(mode)
      <4>1. \A w \in Contents : \A k, pa : ~Failed(w) /\ ~Absent(w, k) /\ ~Maps(w, k, pa)
        BY <2>2 DEF Failed, Absent, Maps, Return
      <4>2. ASSUME NEW w \in Contents, Read32BitPde(w) \/ Read32BitPte(w)
            PROVE  PointsToTable(w) /\ Len(walk) + 1 < Depth(mode)
        BY <4>1, <4>2, Arch32 DEF Read32BitPde, Read32BitPte, ReadPhysical
      <4>3. ASSUME NEW w \in Contents, ReadPaePdpte(w) \/ ReadPaePde(w) \/ ReadPaePte(w)
            PROVE  PointsToTable(w) /\ Len(walk) + 1 < Depth(mode)
        <5>1. PointsToTable(w) /\ (ReadPaePdpte(w) \/ ReadPaePde(w))
          BY <4>1, <4>3 DEF ReadPaePdpte, ReadPaePde, ReadPaePte
        <5>2. mode = "PAE" /\ Len(walk) \in 0 .. 1
          BY <5>1 DEF ReadPaePdpte, ReadPaePde, ReadPhysical
        <5>3. Len(walk) + 1 < Depth(mode)
          <6>1. \A n \in 0 .. 1 : n + 1 < 3 OBVIOUS
          <6> QED BY ONLY <5>2, <6>1, ArchPae, Zenon
        <5> QED BY ONLY <5>1, <5>3
      <4>4. ASSUME NEW w \in Contents,
                   ReadPml4e(w) \/ ReadPdpte(w) \/ ReadPde(w) \/ ReadPte(w)
            PROVE  PointsToTable(w) /\ Len(walk) + 1 < Depth(mode)
        <5>1. PointsToTable(w) /\ (ReadPml4e(w) \/ ReadPdpte(w) \/ ReadPde(w))
          BY <4>1, <4>4 DEF ReadPml4e, ReadPdpte, ReadPde, ReadPte
        <5>2. mode \in FourLevel /\ Len(walk) \in 0 .. 2
          BY <5>1 DEF ReadPml4e, ReadPdpte, ReadPde, ReadPhysical
        <5>3. Depth(mode) = 4 BY <5>2, ArchL4
        <5>4. Len(walk) + 1 < Depth(mode)
          <6>1. \A n \in 0 .. 2 : n + 1 < 4 OBVIOUS
          <6> QED BY ONLY <5>2, <5>3, <6>1, Zenon
        <5> QED BY ONLY <5>1, <5>4
      <4> QED BY <4>2, <4>3, <4>4 DEF WalkStep
    <3>2. w \in Word /\ walk \in Seq(Word)
      BY <3>1, ContentsAssumption DEF PointsToTable, TypeOK
    <3>3. Len(walk') = Len(walk) + 1 BY <3>1, <3>2, AppendProperties DEF PointsToTable
    <3> QED BY <1>1, <3>1, <3>3 DEF PointsToTable
  <2> QED BY <1>1, <1>2, <1>4, <2>1, <2>2 DEF WalkInv
<1> QED BY <1>3, <1>4

LEMMA CallCorrect ==
  ASSUME Inv, NEW v \in VirtAddrs, Translate(v)
  PROVE  WalkInv' /\ TranslationCorrect'
<1>1. mode' = mode /\ base' = base /\ walk' = << >> /\ mem' = mem /\ virt' = v
  BY DEF Translate
<1>2. CASE mode \notin Walking
  <2>1. pc' = "returned" BY <1>2 DEF Translate
  <2> QED BY <1>1, <1>2, <2>1 DEF WalkInv, TranslationCorrect
<1>3. CASE mode \in Walking
  <2>1. pc' = "walk" /\ phys' = Undefined
    BY <1>3 DEF Translate, Walking, FourLevel
  <2>2. Len(<< >>) = 0 BY EmptySeq
  <2>3. Depth(mode) \in 2 .. 4 BY <1>3, DepthBound
  <2>4. Partial(mode, base, v, mem, << >>) BY <2>2, <2>3 DEF Partial, IsWalk
  <2> QED BY <1>1, <1>3, <2>1, <2>2, <2>3, <2>4 DEF WalkInv, TranslationCorrect
<1> QED BY <1>2, <1>3

LEMMA InvInductive ==
  ASSUME Inv, [Next]_vars
  PROVE  Inv'
<1>1. TypeOK' BY StepTyped DEF Inv
<1>2. CASE Construct
  <2>1. pc' = "ready" BY <1>2 DEF Construct, FromRegisters, FromDirBase, Built
  <2> QED BY <1>1, <2>1 DEF Inv, WalkInv, TranslationCorrect
<1>3. ASSUME NEW v \in VirtAddrs, Translate(v) PROVE Inv'
  BY <1>1, <1>3, CallCorrect DEF Inv
<1>4. CASE WalkStep BY <1>1, <1>4, WalkStepCorrect DEF Inv
<1>5. CASE UNCHANGED vars
  BY <1>1, <1>5 DEF Inv, vars, WalkInv, TranslationCorrect, Aligned
<1> QED BY <1>2, <1>3, <1>4, <1>5 DEF Next

(* For every paging mode, address, content of memory and pattern of failed *)
(* reads, Translate returns the physical address the processor would use,  *)
(* or fails where the processor or the debugger must (TranslatePML4,       *)
(* TranslatePAE, Translate32Bit).                                          *)
THEOREM TranslationIsCorrect == Spec => []TranslationCorrect
<1>1. Init => Inv
  BY InitTyped DEF Init, Inv, WalkInv, TranslationCorrect
<1>2. Inv /\ [Next]_vars => Inv' BY InvInductive
<1>3. Inv => TranslationCorrect BY DEF Inv
<1> QED BY <1>1, <1>2, <1>3, PTL DEF Spec

(***************************************************************************)
(* The object: how it is built, and what it keeps of a walk.               *)
(***************************************************************************)
LEMMA RegistersOfTarget ==
  ASSUME TypeOK, FromRegisters, target.cr0 \subseteq 0 .. 31
  PROVE  RegistersSelectTables'
<1> SUFFICES ASSUME target.readable,
                    target.msrReadable \/ (target.ptr64 = "S_OK" <=> 8 \in target.efer)
             PROVE  /\ mode' = ProcessorMode(target.cr0, target.cr4, target.efer)
                    /\ mode' # "None" => base' = target.cr3 \cap BaseBits(mode')
  BY DEF FromRegisters, Built, RegistersSelectTables
<1>1. target.cr0 \cap (31 .. 63) = {} <=> 31 \notin target.cr0 BY SMT
<1>2. 8 \in ia32_efer(target) <=> 8 \in target.efer BY DEF ia32_efer
<1>3. mode' = ProcessorMode(target.cr0, target.cr4, target.efer)
  BY <1>1, <1>2 DEF FromRegisters, RegisterMode, ProcessorMode
<1>4. base' = RegisterBase(mode', target.cr3) BY DEF FromRegisters
<1>5. mode' \in {"None", "B32", "PAE"} \cup FourLevel
  BY <1>3 DEF ProcessorMode, FourLevel
<1>6. BaseBits("B32") = 12 .. 31 /\ BaseBits("PAE") = 5 .. 31
      /\ \A m \in FourLevel : BaseBits(m) = 12 .. 51
  BY Arch32, ArchPae, ArchL4
<1>7. "B32" \notin FourLevel /\ "PAE" \notin FourLevel BY DEF FourLevel
<1> QED BY <1>3, <1>4, <1>5, <1>6, <1>7 DEF RegisterBase

(* An object built from the registers uses the mode and the top table of   *)
(* the processor, whichever registers the machine has, provided that bits  *)
(* 63:32 of CR0, which are reserved, are zero as processors require        *)
(* (second constructor of Paging, which tests them with bit 31).           *)
THEOREM RegistersAreUsed ==
  ASSUME \A t \in Targets : t.cr0 \subseteq 0 .. 31
  PROVE  Spec => []RegistersSelectTables
<1> DEFINE RegInv == TypeOK /\ RegistersSelectTables
<1>1. Init => RegInv BY InitTyped DEF Init, RegistersSelectTables
<1>2. RegInv /\ [Next]_vars => RegInv'
  <2> SUFFICES ASSUME RegInv, [Next]_vars PROVE RegistersSelectTables' BY StepTyped
  <2>1. CASE FromRegisters
    <3>1. target.cr0 \subseteq 0 .. 31 BY DEF TypeOK
    <3> QED BY <2>1, <3>1, RegistersOfTarget
  <2>2. ASSUME NEW b, NEW m32, FromDirBase(b, m32) PROVE RegistersSelectTables'
    BY <2>2 DEF FromDirBase, RegistersSelectTables
  <2>3. ASSUME NEW v, Translate(v) PROVE RegistersSelectTables'
    BY <2>3 DEF Translate, RegistersSelectTables
  <2>4. CASE WalkStep
    <3>1. /\ pc = "walk"
          /\ UNCHANGED <<target, named, mode, base>>
      BY <2>4 DEF WalkStep, Read32BitPde, Read32BitPte, ReadPaePdpte, ReadPaePde,
                  ReadPaePte, ReadPml4e, ReadPdpte, ReadPde, ReadPte, ReadPhysical
    <3> QED BY <3>1 DEF RegistersSelectTables
  <2>5. CASE UNCHANGED vars BY <2>5 DEF vars, RegistersSelectTables
  <2> QED BY <2>1, <2>2, <2>3, <2>4, <2>5 DEF Next, Construct
<1>3. RegInv => RegistersSelectTables OBVIOUS
<1> QED BY <1>1, <1>2, <1>3, PTL DEF Spec

(* A walk that goes on has read entries that are present, and few enough.  *)
AllPresent ==
  pc = "walk" => \A i \in 1 .. Len(walk) : Present(walk[i])

(* What the read of depth n + 1 does with result.                          *)
KeptOutcome(w, n) ==
  \/ Failed(w)
  \/ Absent(w, SmallKind(mode))
  \/ n + 1 < Depth(mode) /\ Maps(w, LargeKinds(mode)[n + 1], phys')
  \/ n + 1 = Depth(mode) /\ Maps(w, SmallKind(mode), phys')
  \/ PointsToTable(w)

LEMMA OutcomeKept ==
  ASSUME TypeOK, AllPresent, ResultIsOfLastWalk, NEW n \in Nat, NEW w \in Contents,
         pc = "walk", Len(walk) = n, mode' = mode, KeptOutcome(w, n)
  PROVE  AllPresent' /\ ResultIsOfLastWalk'
<1>1. CASE Failed(w)
  <2>1. walk # << >> => Len(walk) \in 1 .. Len(walk)
    BY EmptySeq DEF TypeOK
  <2> QED BY <1>1, <2>1 DEF Failed, Return, AllPresent, ResultIsOfLastWalk
<1>2. ASSUME w # Unreadable
      PROVE  /\ Len(Append(walk, w)) = n + 1
             /\ Append(walk, w)[n + 1] = w
             /\ \A i \in 1 .. n : Append(walk, w)[i] = walk[i]
  <2>1. w \in Word /\ walk \in Seq(Word) BY <1>2, ContentsAssumption DEF TypeOK
  <2> QED BY <2>1, AppendProperties
<1>3. CASE Absent(w, SmallKind(mode))
  BY <1>2, <1>3 DEF Absent, Return, AllPresent, ResultIsOfLastWalk
<1>4. CASE n + 1 < Depth(mode) /\ Maps(w, LargeKinds(mode)[n + 1], phys')
  BY <1>2, <1>4 DEF Maps, Return, AllPresent, ResultIsOfLastWalk
<1>5. CASE n + 1 = Depth(mode) /\ Maps(w, SmallKind(mode), phys')
  <2>1. ~(n + 1 < n + 1) OBVIOUS
  <2> QED BY <1>2, <1>5, <2>1 DEF Maps, Return, AllPresent, ResultIsOfLastWalk
<1>6. CASE PointsToTable(w)
  <2>1. walk' = Append(walk, w) /\ pc' = "walk" /\ Present(w) BY <1>6 DEF PointsToTable
  <2>2. ASSUME NEW i \in 1 .. n + 1 PROVE Present(Append(walk, w)[i])
    <3>1. i \in 1 .. n \/ i = n + 1 OBVIOUS
    <3> QED BY <1>2, <1>6, <2>1, <3>1 DEF AllPresent, PointsToTable
  <2> QED BY <1>2, <1>6, <2>1, <2>2 DEF AllPresent, ResultIsOfLastWalk, PointsToTable
<1> QED BY <1>1, <1>3, <1>4, <1>5, <1>6 DEF KeptOutcome

LEMMA WalkStepKept ==
  ASSUME TypeOK, AllPresent, ResultIsOfLastWalk, WalkStep
  PROVE  AllPresent' /\ ResultIsOfLastWalk'
<1>1. PICK w \in Contents :
        \/ Read32BitPde(w) \/ Read32BitPte(w)
        \/ ReadPaePdpte(w) \/ ReadPaePde(w) \/ ReadPaePte(w)
        \/ ReadPml4e(w) \/ ReadPdpte(w) \/ ReadPde(w) \/ ReadPte(w)
  BY DEF WalkStep
<1>2. ASSUME NEW n \in Nat, NEW m, NEW a, ReadPhysical(m, n, a, w), KeptOutcome(w, n)
      PROVE  AllPresent' /\ ResultIsOfLastWalk'
  BY <1>2, OutcomeKept DEF ReadPhysical
<1>3. ASSUME NEW k, NEW pa, Maps(w, k, pa) PROVE Maps(w, k, phys')
  BY <1>3 DEF Maps, Return
<1>4. CASE Read32BitPde(w) \/ Read32BitPte(w)
  <2>1. mode = "B32" BY <1>4 DEF Read32BitPde, Read32BitPte, ReadPhysical
  <2>2. SmallKind(mode) = "32Bit" /\ LargeKinds(mode)[1] = "32BitLarge" /\ Depth(mode) = 2
    BY <2>1, Arch32 DEF SmallKind, LargeKinds
  <2>3. Read32BitPde(w) => KeptOutcome(w, 0)
    BY <1>3, <2>2 DEF Read32BitPde, KeptOutcome
  <2>4. Read32BitPte(w) => KeptOutcome(w, 1)
    BY <1>3, <2>2 DEF Read32BitPte, KeptOutcome
  <2> QED BY <1>2, <1>4, <2>3, <2>4 DEF Read32BitPde, Read32BitPte
<1>5. CASE ReadPaePdpte(w) \/ ReadPaePde(w) \/ ReadPaePte(w)
  <2>1. mode = "PAE" BY <1>5 DEF ReadPaePdpte, ReadPaePde, ReadPaePte, ReadPhysical
  <2>2. SmallKind(mode) = "Pae" /\ LargeKinds(mode)[2] = "PaeLarge" /\ Depth(mode) = 3
    BY <2>1, ArchPae DEF SmallKind, LargeKinds
  <2>3. ReadPaePdpte(w) => KeptOutcome(w, 0)
    BY <1>3, <2>2 DEF ReadPaePdpte, KeptOutcome
  <2>4. ReadPaePde(w) => KeptOutcome(w, 1)
    BY <1>3, <2>2 DEF ReadPaePde, KeptOutcome
  <2>5. ReadPaePte(w) => KeptOutcome(w, 2)
    BY <1>3, <2>2 DEF ReadPaePte, KeptOutcome
  <2> QED BY <1>2, <1>5, <2>3, <2>4, <2>5 DEF ReadPaePdpte, ReadPaePde, ReadPaePte
<1>6. CASE ReadPml4e(w) \/ ReadPdpte(w) \/ ReadPde(w) \/ ReadPte(w)
  <2>1. mode \in FourLevel BY <1>6 DEF ReadPml4e, ReadPdpte, ReadPde, ReadPte, ReadPhysical
  <2>2. /\ SmallKind(mode) = "Pml4" /\ Depth(mode) = 4
        /\ LargeKinds(mode)[2] = "Pml4Large1G" /\ LargeKinds(mode)[3] = "Pml4Large2M"
    BY <2>1, ArchL4 DEF SmallKind, LargeKinds, FourLevel
  <2>3. ReadPml4e(w) => KeptOutcome(w, 0)
    BY <1>3, <2>2 DEF ReadPml4e, KeptOutcome
  <2>4. ReadPdpte(w) => KeptOutcome(w, 1)
    BY <1>3, <2>2 DEF ReadPdpte, KeptOutcome
  <2>5. ReadPde(w) => KeptOutcome(w, 2)
    BY <1>3, <2>2 DEF ReadPde, KeptOutcome
  <2>6. ReadPte(w) => KeptOutcome(w, 3)
    BY <1>3, <2>2 DEF ReadPte, KeptOutcome
  <2> QED BY <1>2, <1>6, <2>3, <2>4, <2>5, <2>6 DEF ReadPml4e, ReadPdpte, ReadPde, ReadPte
<1> QED BY <1>1, <1>4, <1>5, <1>6

LEMMA StepKept ==
  ASSUME TypeOK, AllPresent, ResultIsOfLastWalk, [Next]_vars
  PROVE  AllPresent' /\ ResultIsOfLastWalk'
<1>1. CASE Construct
  <2>1. pc' = "ready" BY <1>1 DEF Construct, FromRegisters, FromDirBase, Built
  <2> QED BY <2>1 DEF AllPresent, ResultIsOfLastWalk
<1>2. ASSUME NEW v, Translate(v) PROVE AllPresent' /\ ResultIsOfLastWalk'
  <2>1. walk' = << >> /\ mode' = mode BY <1>2 DEF Translate
  <2>2. mode \in Walking => pc' = "walk"
    BY <1>2 DEF Translate, Walking, FourLevel
  <2>3. 1 .. Len(walk') = {} BY <2>1, EmptySeq
  <2> QED BY <2>1, <2>2, <2>3 DEF AllPresent, ResultIsOfLastWalk
<1>3. CASE WalkStep BY <1>3, WalkStepKept
<1>4. CASE UNCHANGED vars BY <1>4 DEF vars, AllPresent, ResultIsOfLastWalk
<1> QED BY <1>1, <1>2, <1>3, <1>4 DEF Next

(* What PrintResult shows after a Translate that was not cut short by a    *)
(* failed read are the entries of that walk, under the heading of the page *)
(* size, however often the object was used before (result_).               *)
THEOREM ResultIsFresh == Spec => []ResultIsOfLastWalk
<1> DEFINE ResInv == TypeOK /\ AllPresent /\ ResultIsOfLastWalk
<1>1. Init => ResInv BY InitTyped DEF Init, AllPresent, ResultIsOfLastWalk
<1>2. ResInv /\ [Next]_vars => ResInv' BY StepTyped, StepKept
<1>3. ResInv => ResultIsOfLastWalk OBVIOUS
<1> QED BY <1>1, <1>2, <1>3, PTL DEF Spec

(***************************************************************************)
(* Refinement: a Translate is one answer of the processor.                 *)
(***************************************************************************)

(* A read fails, ends the walk with a result or goes on to a table.        *)
PageKinds == Kinds \ {"none"}

ReadsTo(w) ==
  \/ Failed(w)
  \/ \E k \in PageKinds : Absent(w, k)
  \/ \E k \in PageKinds : \E pa \in Word : Maps(w, k, pa)
  \/ PointsToTable(w)

LEMMA ReadOutcome ==
  ASSUME TypeOK, WalkStep
  PROVE  /\ pc = "walk" /\ mode' = mode
         /\ \A a \in DOMAIN mem : a \in DOMAIN mem' /\ mem'[a] = mem[a]
         /\ UNCHANGED <<target, named, base, virt, calls>>
         /\ \E w \in Contents : ReadsTo(w)
<1>1. PICK w \in Contents :
        \/ Read32BitPde(w) \/ Read32BitPte(w)
        \/ ReadPaePdpte(w) \/ ReadPaePde(w) \/ ReadPaePte(w)
        \/ ReadPml4e(w) \/ ReadPdpte(w) \/ ReadPde(w) \/ ReadPte(w)
  BY DEF WalkStep
<1>2. ASSUME NEW m, NEW n, NEW a, ReadPhysical(m, n, a, w)
      PROVE  /\ pc = "walk" /\ mode' = mode
             /\ \A x \in DOMAIN mem : x \in DOMAIN mem' /\ mem'[x] = mem[x]
             /\ UNCHANGED <<target, named, base, virt, calls>>
  BY <1>2 DEF ReadPhysical
<1>3. \E m, n, a : ReadPhysical(m, n, a, w)
  BY <1>1 DEF Read32BitPde, Read32BitPte, ReadPaePdpte, ReadPaePde, ReadPaePte,
              ReadPml4e, ReadPdpte, ReadPde, ReadPte
<1>4. virt \in Word BY DEF TypeOK
<1>5. /\ "32Bit" \in PageKinds /\ "32BitLarge" \in PageKinds
      /\ "Pae" \in PageKinds /\ "PaeLarge" \in PageKinds
      /\ "Pml4" \in PageKinds /\ "Pml4Large2M" \in PageKinds /\ "Pml4Large1G" \in PageKinds
  BY DEF Kinds, PageKinds
<1>6. ASSUME Read32BitPde(w) PROVE ReadsTo(w)
  BY <1>4, <1>5, <1>6, PagesAreWords DEF Read32BitPde, ReadsTo
<1>7. ASSUME Read32BitPte(w) PROVE ReadsTo(w)
  BY <1>4, <1>5, <1>7, PagesAreWords DEF Read32BitPte, ReadsTo
<1>8. ASSUME ReadPaePdpte(w) PROVE ReadsTo(w)
  BY <1>5, <1>8 DEF ReadPaePdpte, ReadsTo
<1>9. ASSUME ReadPaePde(w) PROVE ReadsTo(w)
  BY <1>4, <1>5, <1>9, PagesAreWords DEF ReadPaePde, ReadsTo
<1>10. ASSUME ReadPaePte(w) PROVE ReadsTo(w)
  BY <1>4, <1>5, <1>10, PagesAreWords DEF ReadPaePte, ReadsTo
<1>11. ASSUME ReadPml4e(w) PROVE ReadsTo(w)
  BY <1>5, <1>11 DEF ReadPml4e, ReadsTo
<1>12. ASSUME ReadPdpte(w) PROVE ReadsTo(w)
  BY <1>4, <1>5, <1>12, PagesAreWords DEF ReadPdpte, ReadsTo
<1>13. ASSUME ReadPde(w) PROVE ReadsTo(w)
  BY <1>4, <1>5, <1>13, PagesAreWords DEF ReadPde, ReadsTo
<1>14. ASSUME ReadPte(w) PROVE ReadsTo(w)
  BY <1>4, <1>5, <1>14, PagesAreWords DEF ReadPte, ReadsTo
<1>15. ReadsTo(w)
  BY <1>1, <1>6, <1>7, <1>8, <1>9, <1>10, <1>11, <1>12, <1>13, <1>14
<1> QED BY <1>2, <1>3, <1>15

(* The abstract specification speaks of the same processor. *)
LEMMA SameProcessor ==
  /\ Processor!Modes = Modes /\ Processor!Walking = Walking
  /\ \A m : Processor!BaseBits(m) = BaseBits(m)
  /\ \A m, b, v, mm, es :
       /\ Processor!Faults(m, b, v, mm, es) = Faults(m, b, v, mm, es)
       /\ \A pa : Processor!Translates(m, b, v, mm, es, pa) = Translates(m, b, v, mm, es, pa)
<1>1. Processor!Modes = Modes /\ Processor!Walking = Walking
  BY DEF Processor!Modes, Modes, Processor!Walking, Walking, Processor!FourLevel, FourLevel
<1>2. ASSUME NEW m
      PROVE  /\ Processor!Depth(m) = Depth(m)
             /\ Processor!FrameBits(m) = FrameBits(m)
             /\ Processor!BaseBits(m) = BaseBits(m)
             /\ Processor!EntryBits(m) = EntryBits(m)
             /\ Processor!LargeDepths(m) = LargeDepths(m)
             /\ \A d : Processor!Low(m, d) = Low(m, d) /\ Processor!High(m, d) = High(m, d)
  BY DEF Processor!Depth, Depth, Processor!FrameBits, FrameBits, Processor!BaseBits, BaseBits,
         Processor!EntryBits, EntryBits, Processor!LargeDepths, LargeDepths,
         Processor!Low, Low, Processor!High, High
<1>3. ASSUME NEW m, NEW v, NEW d
      PROVE  Processor!Offset(m, v, d) = Offset(m, v, d)
  BY <1>2 DEF Processor!Offset, Offset, Processor!Slot, Slot
<1>4. ASSUME NEW m, NEW b, NEW v, NEW es, NEW d
      PROVE  Processor!EntryAddr(m, b, v, es, d) = EntryAddr(m, b, v, es, d)
  BY <1>2, <1>3 DEF Processor!EntryAddr, EntryAddr
<1>5. ASSUME NEW m, NEW e, NEW d
      PROVE  /\ Processor!IsLeaf(m, e, d) = IsLeaf(m, e, d)
             /\ Processor!PageBase(m, e, d) = PageBase(m, e, d)
             /\ \A v : Processor!PageAddr(m, v, e, d) = PageAddr(m, v, e, d)
  BY <1>2 DEF Processor!IsLeaf, IsLeaf, Processor!PageBase, PageBase,
              Processor!PageAddr, PageAddr
<1>6. ASSUME NEW m, NEW b, NEW v, NEW mm, NEW es
      PROVE  Processor!IsWalk(m, b, v, mm, es) = IsWalk(m, b, v, mm, es)
  BY <1>2, <1>4, <1>5 DEF Processor!IsWalk, IsWalk
<1>7. ASSUME NEW m, NEW b, NEW v, NEW mm, NEW es
      PROVE  Processor!Faults(m, b, v, mm, es) = Faults(m, b, v, mm, es)
  BY <1>2, <1>4, <1>5, <1>6 DEF Processor!Faults, Faults
<1>8. ASSUME NEW m, NEW b, NEW v, NEW mm, NEW es, NEW pa
      PROVE  Processor!Translates(m, b, v, mm, es, pa) = Translates(m, b, v, mm, es, pa)
  BY <1>5, <1>6 DEF Processor!Translates, Translates
<1> QED BY <1>1, <1>2, <1>7, <1>8

LEMMA WalkIsCandidate ==
  ASSUME NEW m \in Walking, NEW b, NEW v, NEW mm, NEW es \in Seq(Word),
         IsWalk(m, b, v, mm, es)
  PROVE  es \in Processor!Candidates(mm)
<1>1. Len(es) \in 0 .. 4
  <2>1. Len(es) \in 0 .. Depth(m) /\ Depth(m) \in 2 .. 4 BY DepthBound DEF IsWalk
  <2>2. \A n, k : n \in 0 .. k /\ k \in 2 .. 4 => n \in 0 .. 4 OBVIOUS
  <2> QED BY <2>1, <2>2
<1>2. es \in [1 .. Len(es) -> {mm[a] : a \in DOMAIN mm}]
  <2>1. \A d \in 1 .. Len(es) : es[d] \in {mm[a] : a \in DOMAIN mm} BY DEF IsWalk
  <2> QED BY <2>1
<1> QED BY <1>1, <1>2 DEF Processor!Candidates

(* The object is built, and asked, as the processor is. *)
LEMMA ConstructConfigures ==
  ASSUME TypeOK, \A b \in DirBases : b \subseteq 12 .. 31, Construct
  PROVE  Processor!Configure /\ Aligned'
<1>1. /\ pc = "new" /\ pc' = "ready" /\ UNCHANGED <<virt, mem, ret, phys>>
  BY DEF Construct, FromRegisters, FromDirBase, Built
<1>2. mode' \in Modes
  BY DEF Construct, FromRegisters, FromDirBase, RegisterMode, Modes
<1>3. \A m \in Modes : 12 .. 31 \subseteq BaseBits(m)
  <2>1. 12 .. 31 \subseteq 5 .. 31 /\ 12 .. 31 \subseteq 12 .. 51 BY SMT
  <2> QED BY <2>1 DEF BaseBits, FrameBits
<1>4. base' \subseteq BaseBits(mode')
  <2>1. CASE FromRegisters
    BY <2>1 DEF FromRegisters, RegisterBase, BaseBits, FrameBits, FourLevel
  <2>2. ASSUME NEW b \in DirBases, NEW m32 \in BOOLEAN, FromDirBase(b, m32)
        PROVE  base' \subseteq BaseBits(mode')
    <3>1. base' = b /\ b \subseteq 12 .. 31 BY <2>2 DEF FromDirBase
    <3> QED BY <1>2, <1>3, <3>1
  <2> QED BY <2>1, <2>2 DEF Construct
<1> QED BY <1>1, <1>2, <1>4, SameProcessor DEF Processor!Configure, Aligned

LEMMA CallAsks ==
  ASSUME NEW v \in VirtAddrs, Translate(v)
  PROVE  Processor!Ask(v)
BY SameProcessor DEF Translate, Processor!Ask

(* A read that goes on reveals memory; the last one answers. *)
LEMMA ReadAnswers ==
  ASSUME Inv, Aligned, WalkStep
  PROVE  Processor!Reveal \/ Processor!Answer
<1>1. /\ pc = "walk" /\ UNCHANGED <<mode, base, virt>>
      /\ Processor!Extends(mem')
  BY ReadOutcome DEF Inv, Processor!Extends
<1>2. PICK w \in Contents : ReadsTo(w) BY ReadOutcome DEF Inv
<1>3. CASE PointsToTable(w)
  BY <1>1, <1>3 DEF PointsToTable, Processor!Reveal
<1>4. CASE ~PointsToTable(w)
  <2>1. pc' = "returned"
    BY <1>2, <1>4 DEF ReadsTo, Failed, Absent, Maps, Return
  <2>2. mode \in Walking BY <1>1 DEF Inv, WalkInv
  <2>3. IF ret' THEN Translates(mode, base, virt, mem', walk', phys')
                ELSE phys' = Undefined /\ Faults(mode, base, virt, mem', walk')
    <3>1. TranslationCorrect' BY WalkStepCorrect
    <3>2. Aligned' BY <1>1 DEF Aligned
    <3> QED BY <1>1, <2>1, <2>2, <3>1, <3>2 DEF TranslationCorrect
  <2>4. walk' \in Processor!Candidates(mem')
    <3>1. walk' \in Seq(Word) BY WalkStepTyped DEF Inv, TypeOK
    <3>2. IsWalk(mode, base, virt, mem', walk') BY <2>3 DEF Translates, Faults
    <3> QED BY <2>2, <3>1, <3>2, WalkIsCandidate
  <2>5. ret' \in BOOLEAN BY WalkStepTyped DEF Inv, TypeOK
  <2> QED BY <1>1, <2>1, <2>3, <2>4, <2>5, SameProcessor DEF Processor!Answer
<1> QED BY <1>3, <1>4

(* Every use of the class, over any memory, is a sequence of answers of    *)
(* the processor for one fixed memory, when the bases the user names are   *)
(* addresses of tables (class Paging).                                     *)
THEOREM PagingIsMmu ==
  ASSUME \A b \in DirBases : b \subseteq 12 .. 31
  PROVE  Spec => ImplementsMmu
<1> DEFINE MmuInv == Inv /\ Aligned
<1>1. Init => MmuInv /\ Processor!Init
  BY InitTyped DEF Init, Inv, WalkInv, TranslationCorrect, Aligned, Processor!Init
<1>2. MmuInv /\ [Next]_vars => MmuInv' /\ [Processor!Next]_(Processor!mmuvars)
  <2> SUFFICES ASSUME MmuInv, [Next]_vars
               PROVE  Aligned' /\ [Processor!Next]_(Processor!mmuvars)
    BY InvInductive
  <2>1. CASE Construct BY <2>1, ConstructConfigures DEF Inv, Processor!Next
  <2>2. ASSUME NEW v \in VirtAddrs, Translate(v)
        PROVE  Aligned' /\ [Processor!Next]_(Processor!mmuvars)
    <3>1. Aligned' BY <2>2 DEF Translate, Aligned
    <3> QED BY <2>2, <3>1, CallAsks DEF Processor!Next
  <2>3. CASE WalkStep
    <3>1. Aligned' BY <2>3, ReadOutcome DEF Inv, Aligned
    <3> QED BY <2>3, <3>1, ReadAnswers DEF Processor!Next
  <2>4. CASE UNCHANGED vars BY <2>4 DEF vars, Processor!mmuvars, Aligned
  <2> QED BY <2>1, <2>2, <2>3, <2>4 DEF Next
<1> QED BY <1>1, <1>2, PTL DEF Spec, ImplementsMmu, Processor!Spec
=============================================================================
