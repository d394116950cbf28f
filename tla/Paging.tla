------------------------------- MODULE Paging -------------------------------
(***************************************************************************)
(* class Paging of kd.cpp: one paging-translation object.  It is built     *)
(* from the control registers of the target or from a directory base the   *)
(* user names, and Translate walks the tables in physical memory, one      *)
(* ReadPhysical per level, any of which may fail.                          *)
(*                                                                         *)
(* Physical memory is not enumerated in the initial state.  The target is  *)
(* halted while a command runs, so its memory is a fixed unknown: a read   *)
(* of an address not read before may return any content, a second read of  *)
(* the same address returns the same again.                                *)
(***************************************************************************)
EXTENDS PageEntries, PagingArch

CONSTANTS
  VirtAddrs,   \* the addresses Translate is called with
  Contents,    \* what ReadPhysical can return: raw words, or Unreadable
  Targets,     \* control registers of the machines that are debugged
  DirBases,    \* directory bases users name
  MaxCalls     \* bound: calls of Translate on one object (commands make two)

ASSUME VirtAddrsAssumption == VirtAddrs \subseteq Word
ASSUME ContentsAssumption  == Contents \subseteq Word \cup {Unreadable}
ASSUME DirBasesAssumption  == DirBases \subseteq Word
ASSUME MaxCallsAssumption  == MaxCalls \in Nat

(* What a target shows the constructor: cr0, cr3 and cr4 with readable     *)
(* telling whether the debugger can evaluate them, IA32_EFER with          *)
(* msrReadable for GetMsr, and the answer of IsPointer64Bit.               *)
HResult == {"S_OK", "S_FALSE", "E_FAIL"}
Target  == [cr0: Word, cr3: Word, cr4: Word, efer: Word,
            readable: BOOLEAN, msrReadable: BOOLEAN, ptr64: HResult]

ASSUME TargetsAssumption == Targets \subseteq Target

VARIABLES
  pc,      \* "new", "ready", "walk" (inside Translate*) or "returned"
  target,  \* the target the object was built from
  named,   \* was it built from a directory base the user named?
  mode,    \* mode_
  base,    \* base_
  virt,    \* parameter virt of Translate
  phys,    \* out parameter phys of Translate
  ret,     \* return value of the last Translate
  walk,    \* the locals pml4e, pdpte, pde, pte that have been read, in order
  result,  \* result_: the kind of TranslationResult and the entries it holds
  mem,     \* physical memory read so far
  calls    \* calls of Translate so far

vars == <<pc, target, named, mode, base, virt, phys, ret, walk, result, mem, calls>>

NoResult == [kind |-> "none", entries |-> << >>]
Kinds    == {"none", "32Bit", "32BitLarge", "Pae", "PaeLarge",
             "Pml4", "Pml4Large2M", "Pml4Large1G"}

Init ==
  /\ pc = "new" /\ target \in Targets /\ named = FALSE
  /\ mode = "Invalid" /\ base = {} /\ virt = {}
  /\ phys = Undefined /\ ret = FALSE /\ walk = << >> /\ result = NoResult
  /\ mem = [a \in {} |-> Unreadable] /\ calls = 0

-----------------------------------------------------------------------------
(* Construction.                                                           *)

(* Mutant: the guess is preferred to the register. *)
Mutant_ia32_efer(t) == IF t.ptr64 = "S_OK" THEN {8} ELSE {}

(* IA32_EFER, or the guess made from IsPointer64Bit when GetMsr fails.     *)
ia32_efer(t) == IF t.msrReadable THEN t.efer
                ELSE IF t.ptr64 = "S_OK" THEN {8} ELSE {}

(* 1 << 31 is a negative int: converted to 64 bits it masks bits 63:31.    *)
RegisterMode(t) ==
  IF t.cr0 \cap (31 .. 63) = {} THEN "None"
  ELSE IF 5 \notin t.cr4 THEN "B32"
  ELSE IF 8 \notin ia32_efer(t) THEN "PAE"
  ELSE IF 17 \in t.cr4 THEN "L4PCID" ELSE "L4"

RegisterBase(m, cr3) ==
  IF m = "B32" THEN cr3 \cap (12 .. 31)
  ELSE IF m = "PAE" THEN cr3 \cap (5 .. 31)
  ELSE IF m \in FourLevel THEN cr3 \cap (12 .. 51) ELSE {}

Built == /\ pc = "new" /\ pc' = "ready"
         /\ UNCHANGED <<target, virt, phys, ret, walk, result, mem, calls>>

(* Paging(runner) *)
FromRegisters ==
  /\ Built
  /\ named' = FALSE
  /\ mode' = IF target.readable THEN RegisterMode(target) ELSE "Invalid"
  /\ base' = IF target.readable THEN RegisterBase(mode', target.cr3) ELSE {}

(* Paging(runner, base, maybe32bit): the base is used as it is given. *)
FromDirBase(dirbase, maybe32bit) ==
  /\ Built
  /\ named' = TRUE
  /\ base' = dirbase
  /\ mode' = IF target.ptr64 = "S_OK" THEN "L4"
             ELSE IF target.ptr64 = "E_FAIL" THEN "Invalid"
             ELSE IF maybe32bit THEN "B32" ELSE "PAE"

-----------------------------------------------------------------------------
(* Translate.                                                              *)

(* The call, up to the first ReadPhysical.  The caller's phys is an        *)
(* uninitialized local.                                                    *)
Translate(v) ==
  /\ pc \in {"ready", "returned"} /\ calls < MaxCalls
  /\ calls' = calls + 1 /\ virt' = v /\ walk' = << >>
  /\ \/ mode = "Invalid" /\ pc' = "returned" /\ ret' = FALSE /\ phys' = Undefined
     \/ mode = "None"    /\ pc' = "returned" /\ ret' = TRUE  /\ phys' = v
     \/ mode \in Walking /\ pc' = "walk" /\ phys' = Undefined /\ UNCHANGED ret
  /\ UNCHANGED <<target, named, mode, base, result, mem>>

(* ReadPhysical(a, entry.raw) returns w, in a walk in one of the modes m   *)
(* that has read n entries. *)
ReadPhysical(m, n, a, w) ==
  /\ pc = "walk" /\ mode \in m /\ Len(walk) = n
  /\ a \in DOMAIN mem => w = mem[a]
  /\ mem' = [x \in DOMAIN mem \cup {a} |-> IF x = a THEN w ELSE mem[x]]
  /\ UNCHANGED <<target, named, mode, base, virt, calls>>

Return(ok, pa) == pc' = "returned" /\ ret' = ok /\ phys' = pa

(* Mutants: the entry of a failed read is kept; a result that is there is  *)
(* not replaced; the present bit of a table pointer is not looked at.      *)
Mutant_Failed(w) ==
  w = Unreadable /\ Return(FALSE, phys) /\ walk' = Append(walk, w) /\ UNCHANGED result

Mutant_Absent(w, kind) ==
  /\ w # Unreadable /\ ~Present(w)
  /\ walk' = Append(walk, w)
  /\ result' = IF result = NoResult THEN [kind |-> kind, entries |-> walk'] ELSE result
  /\ Return(FALSE, phys)

Mutant_PointsToTable(w) ==
  /\ w # Unreadable
  /\ walk' = Append(walk, w)
  /\ UNCHANGED <<pc, ret, phys, result>>

(* The five ways on from a read: it failed; the entry is not present; the  *)
(* entry maps the page (translation complete); or it points to a table.    *)
Failed(w) == w = Unreadable /\ Return(FALSE, phys) /\ UNCHANGED <<walk, result>>

Absent(w, kind) ==
  /\ w # Unreadable /\ ~Present(w)
  /\ walk' = Append(walk, w)
  /\ result' = [kind |-> kind, entries |-> walk']
  /\ Return(FALSE, phys)

Maps(w, kind, pa) ==
  /\ w # Unreadable /\ Present(w)
  /\ walk' = Append(walk, w)
  /\ result' = [kind |-> kind, entries |-> walk']
  /\ Return(TRUE, pa)

PointsToTable(w) ==
  /\ w # Unreadable /\ Present(w)
  /\ walk' = Append(walk, w)
  /\ UNCHANGED <<pc, ret, phys, result>>

(* Translate32Bit.  pde.raw and pte.raw are 64-bit, the tables hold 32-bit *)
(* entries: each read also fetches the following entry into bits 63:32.    *)
Read32BitPde(w) ==
  /\ ReadPhysical({"B32"}, 0, Plus(base, Shl(extract(virt, 22, 10), 2)), w)
  /\ \/ Failed(w) \/ Absent(w, "32Bit")
     \/ LargePage(w) /\ Maps(w, "32BitLarge",
                             extract(virt, 0, 22)
                             \cup Shl(PDEntry4MB_to_page(w), 22)
                             \cup Shl(PDEntry4MB_page_high(w), 32))
     \/ ~LargePage(w) /\ PointsToTable(w)

(* Mutant: the neighbouring entry in bits 63:32 is not masked off. *)
Mutant_Read32BitPte(w) ==
  /\ ReadPhysical({"B32"}, 1, Plus(Shl(PDEntry_to_pt(walk[1]), 12),
                                   Shl(extract(virt, 12, 10), 2)), w)
  /\ \/ Failed(w) \/ Absent(w, "32Bit")
     \/ Maps(w, "32Bit", Shl(PTEntry_to_page(w), 12) \cup extract(virt, 0, 12))

Read32BitPte(w) ==
  /\ ReadPhysical({"B32"}, 1, Plus(Shl(PDEntry_to_pt(walk[1]) \cap (0 .. 19), 12),
                                   Shl(extract(virt, 12, 10), 2)), w)
  /\ \/ Failed(w) \/ Absent(w, "32Bit")
     \/ Maps(w, "32Bit", Shl(PTEntry_to_page(w) \cap (0 .. 19), 12)
                         \cup extract(virt, 0, 12))

(* TranslatePAE *)
ReadPaePdpte(w) ==
  /\ ReadPhysical({"PAE"}, 0, Plus(base, Shl(extract(virt, 30, 2), 3)), w)
  /\ Failed(w) \/ Absent(w, "Pae") \/ PointsToTable(w)

ReadPaePde(w) ==
  /\ ReadPhysical({"PAE"}, 1, Plus(Shl(PDPTEntry_to_pd(walk[1]), 12),
                                   Shl(extract(virt, 21, 9), 3)), w)
  /\ \/ Failed(w) \/ Absent(w, "Pae")
     \/ LargePage(w) /\ Maps(w, "PaeLarge", Shl(PDEntry2MB_to_page(w), 21)
                                            \cup extract(virt, 0, 21))
     \/ ~LargePage(w) /\ PointsToTable(w)

ReadPaePte(w) ==
  /\ ReadPhysical({"PAE"}, 2, Plus(Shl(PDEntry_to_pt(walk[2]), 12),
                                   Shl(extract(virt, 12, 9), 3)), w)
  /\ \/ Failed(w) \/ Absent(w, "Pae")
     \/ Maps(w, "Pae", Shl(PTEntry_to_page(w), 12) \cup extract(virt, 0, 12))

(* TranslatePML4 *)
ReadPml4e(w) ==
  /\ ReadPhysical(FourLevel, 0, Plus(base, Shl(extract(virt, 39, 9), 3)), w)
  /\ Failed(w) \/ Absent(w, "Pml4") \/ PointsToTable(w)

ReadPdpte(w) ==
  /\ ReadPhysical(FourLevel, 1, Plus(Shl(PML4Entry_to_pdpt(walk[1]), 12),
                                     Shl(extract(virt, 30, 9), 3)), w)
  /\ \/ Failed(w) \/ Absent(w, "Pml4")
     \/ LargePage(w) /\ Maps(w, "Pml4Large1G", Shl(PDPTEntry1GB_to_page(w), 30)
                                               \cup extract(virt, 0, 30))
     \/ ~LargePage(w) /\ PointsToTable(w)

ReadPde(w) ==
  /\ ReadPhysical(FourLevel, 2, Plus(Shl(PDPTEntry_to_pd(walk[2]), 12),
                                     Shl(extract(virt, 21, 9), 3)), w)
  /\ \/ Failed(w) \/ Absent(w, "Pml4")
     \/ LargePage(w) /\ Maps(w, "Pml4Large2M", Shl(PDEntry2MB_to_page(w), 21)
                                               \cup extract(virt, 0, 21))
     \/ ~LargePage(w) /\ PointsToTable(w)

ReadPte(w) ==
  /\ ReadPhysical(FourLevel, 3, Plus(Shl(PDEntry_to_pt(walk[3]), 12),
                                     Shl(extract(virt, 12, 9), 3)), w)
  /\ \/ Failed(w) \/ Absent(w, "Pml4")
     \/ Maps(w, "Pml4", Shl(PTEntry_to_page(w), 12) \cup extract(virt, 0, 12))

WalkStep == \E w \in Contents :
  \/ Read32BitPde(w) \/ Read32BitPte(w)
  \/ ReadPaePdpte(w) \/ ReadPaePde(w) \/ ReadPaePte(w)
  \/ ReadPml4e(w) \/ ReadPdpte(w) \/ ReadPde(w) \/ ReadPte(w)

Construct == FromRegisters \/ \E b \in DirBases, m32 \in BOOLEAN : FromDirBase(b, m32)

Next == Construct \/ (\E v \in VirtAddrs : Translate(v)) \/ WalkStep

Spec == Init /\ [][Next]_vars

-----------------------------------------------------------------------------
(* Properties.                                                             *)

TypeOK ==
  /\ pc \in {"new", "ready", "walk", "returned"}
  /\ target \in Targets /\ named \in BOOLEAN
  /\ mode \in Modes /\ base \in Word /\ virt \in Word
  /\ phys \in Word \cup {Undefined} /\ ret \in BOOLEAN
  /\ walk \in Seq(Word) /\ Len(walk) \in 0 .. 4
  /\ result.kind \in Kinds /\ result.entries \in Seq(Word)
  /\ DOMAIN mem \subseteq Word
  /\ \A a \in DOMAIN mem : mem[a] \in Contents
  /\ calls \in 0 .. MaxCalls

(* The top table is where the processor's base register can point.  A base *)
(* the user names is not masked, so it may be anywhere.                    *)
Aligned == base \subseteq BaseBits(mode)

(* Translate returns true with exactly the physical address the processor  *)
(* would use, and false only if the processor would fault on an entry or   *)
(* the debugger could not read one.  In 32-bit mode this says too that the *)
(* neighbouring entry fetched with each 8-byte read never reaches the      *)
(* address (TranslatePML4, TranslatePAE, Translate32Bit).                  *)
TranslationCorrect ==
  pc = "returned" /\ mode \in Walking /\ Aligned =>
    IF ret THEN Translates(mode, base, virt, mem, walk, phys)
           ELSE phys = Undefined /\ Faults(mode, base, virt, mem, walk)

(* What PrintResult would show after a Translate that was not cut short by *)
(* a failed read: the entries of this walk, none left over from an earlier *)
(* Translate on the same object, under the heading of the page size the    *)
(* processor would use (result_ in TranslatePML4 and its siblings).        *)
LargeKinds(m) == IF m = "B32" THEN <<"32BitLarge">>
                 ELSE IF m = "PAE" THEN <<"none", "PaeLarge">>
                 ELSE <<"none", "Pml4Large1G", "Pml4Large2M">>
SmallKind(m)  == IF m = "B32" THEN "32Bit" ELSE IF m = "PAE" THEN "Pae" ELSE "Pml4"

ResultIsOfLastWalk ==
  pc = "returned" /\ mode \in Walking
  /\ (ret \/ (walk # << >> /\ ~Present(walk[Len(walk)]))) =>
       /\ result.entries = walk
       /\ result.kind = IF ret /\ Len(walk) < Depth(mode)
                        THEN LargeKinds(mode)[Len(walk)] ELSE SmallKind(mode)

(* An object built from the registers uses the mode and the top table of   *)
(* the processor, whenever the MSR can be read or the guess made in its    *)
(* place from IsPointer64Bit is right (second constructor of Paging).      *)
RegistersSelectTables ==
  pc # "new" /\ ~named /\ target.readable
  /\ (target.msrReadable \/ (target.ptr64 = "S_OK" <=> 8 \in target.efer)) =>
    /\ mode = ProcessorMode(target.cr0, target.cr4, target.efer)
    /\ mode # "None" => base = target.cr3 \cap BaseBits(mode)

(* Every Translate is one answer of the processor for one fixed memory.    *)
(* Holds when the bases the user names are table addresses.                *)
Processor == INSTANCE Mmu
ImplementsMmu == Processor!Spec
=============================================================================
