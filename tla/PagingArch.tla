----------------------------- MODULE PagingArch -----------------------------
(***************************************************************************)
(* The processor's linear-address translation, as definitions over one     *)
(* paging mode and one picture of physical memory.  Stated once for all    *)
(* paging modes and independently of the code of Paging: a table entry     *)
(* contributes its own address bits in place, the linear address           *)
(* contributes the rest, and no shift or addition is involved.             *)
(***************************************************************************)
EXTENDS Words, Sequences

CONSTANTS
  Unreadable,  \* content of physical memory the debugger cannot read
  Undefined    \* content of an out parameter that was never assigned

ASSUME UnreadableAssumption == Unreadable \notin Word
ASSUME UndefinedAssumption  == Undefined \notin Word

Modes    == {"Invalid", "None", "B32", "PAE", "L4", "L4PCID"}
FourLevel == {"L4", "L4PCID"}
Walking  == {"B32", "PAE"} \cup FourLevel

(* The mode CR0.PG, CR4.PAE, IA32_EFER.LME and CR4.PCIDE select. *)
ProcessorMode(cr0, cr4, efer) ==
  IF 31 \notin cr0 THEN "None"
  ELSE IF 5 \notin cr4 THEN "B32"
  ELSE IF 8 \notin efer THEN "PAE"
  ELSE IF 17 \in cr4 THEN "L4PCID" ELSE "L4"

(* Depth 1 is the table CR3 points to. *)
Depth(m) == IF m = "B32" THEN 2 ELSE IF m = "PAE" THEN 3 ELSE 4

(* The bits Low .. High of a linear address select the entry at depth d.   *)
Low(m, d)  == IF m = "B32" THEN 32 - 10 * d
              ELSE IF m = "PAE" THEN 39 - 9 * d ELSE 48 - 9 * d
High(m, d) == IF m = "B32" THEN Low(m, d) + 9
              ELSE IF m = "PAE" /\ d = 1 THEN 31 ELSE Low(m, d) + 8

(* Entries are 2^EntryBits bytes; table addresses are FrameBits of an      *)
(* entry, and BaseBits of CR3 for the top table.                           *)
EntryBits(m) == IF m = "B32" THEN 2 ELSE 3
FrameBits(m) == IF m = "B32" THEN 12 .. 31 ELSE 12 .. 51
BaseBits(m)  == IF m = "PAE" THEN 5 .. 31 ELSE FrameBits(m)

(* Bit 7 means "maps a large page" at these depths only.                   *)
LargeDepths(m) == IF m = "B32" THEN {1} ELSE IF m = "PAE" THEN {2} ELSE {2, 3}

(* The n bits of v from lo up, as the offset of an entry of 2^k bytes.     *)
Slot(v, lo, n, k) == {i \in k .. k + n - 1 : i + lo - k \in v}

Offset(m, v, d) == Slot(v, Low(m, d), High(m, d) - Low(m, d) + 1, EntryBits(m))

(* Physical address of the entry a walk of v reads at depth d, when es are *)
(* the entries read at the depths above.                                   *)
EntryAddr(m, b, v, es, d) ==
  (IF d = 1 THEN b ELSE es[d - 1] \cap FrameBits(m)) \cup Offset(m, v, d)

IsLeaf(m, e, d) == d = Depth(m) \/ (d \in LargeDepths(m) /\ 7 \in e)

(* The page base of a leaf at depth d.  A 4-MByte page takes bits 39:32    *)
(* from bits 20:13 of its entry (PSE-36).                                  *)
PageBase(m, e, d) ==
  IF m = "B32" /\ d = 1
  THEN (e \cap (22 .. 31)) \cup {i \in 32 .. 39 : i - 19 \in e}
  ELSE e \cap (Low(m, d) .. IF m = "B32" THEN 31 ELSE 51)

PageAddr(m, v, e, d) == PageBase(m, e, d) \cup (v \cap (0 .. Low(m, d) - 1))

(* es is what a walk of v finds in memory mm, from the top down, and only  *)
(* the last entry of es may end the walk.                                  *)
IsWalk(m, b, v, mm, es) ==
  /\ Len(es) \in 0 .. Depth(m)
  /\ \A d \in 1 .. Len(es) :
       /\ EntryAddr(m, b, v, es, d) \in DOMAIN mm
       /\ es[d] = mm[EntryAddr(m, b, v, es, d)]
       /\ es[d] # Unreadable
  /\ \A d \in 1 .. Len(es) - 1 : 0 \in es[d] /\ ~IsLeaf(m, es[d], d)

(* The walk es ends in a present leaf, and maps v to pa.                   *)
Translates(m, b, v, mm, es, pa) ==
  /\ IsWalk(m, b, v, mm, es)
  /\ Len(es) > 0 /\ 0 \in es[Len(es)] /\ IsLeaf(m, es[Len(es)], Len(es))
  /\ pa = PageAddr(m, v, es[Len(es)], Len(es))

(* The walk es ends in an entry that is not present, or goes on in memory  *)
(* that cannot be read.                                                    *)
Faults(m, b, v, mm, es) ==
  /\ IsWalk(m, b, v, mm, es)
  /\ \/ Len(es) > 0 /\ 0 \notin es[Len(es)]
     \/ /\ Len(es) < Depth(m)
        /\ Len(es) > 0 => ~IsLeaf(m, es[Len(es)], Len(es))
        /\ EntryAddr(m, b, v, es, Len(es) + 1) \in DOMAIN mm
        /\ mm[EntryAddr(m, b, v, es, Len(es) + 1)] = Unreadable
=============================================================================
