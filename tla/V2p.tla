-------------------------------- MODULE V2p --------------------------------
(***************************************************************************)
(* The commands !v2p and !pfn2 of kd.cpp: one invocation, from its         *)
(* arguments to the last line it prints.  It drives the Paging object that *)
(* this module extends, and adds the printing of the translation, the PFN  *)
(* database and the dump of a PFN record.                                  *)
(***************************************************************************)
EXTENDS Paging

CONSTANTS
  Requests,   \* what users enter
  NoDirBase,  \* the DirBase argument of a request that has none
  PteBases,   \* values of nt!MmPteBase; 0 where it cannot be read
  PfnBases,   \* values of nt!MmPfnDatabase; 0 where it cannot be read
  Nothing     \* a line that was not printed

Request == [command: {"v2p", "pfn2"}, arg: Word,
            dirbase: Word \cup {NoDirBase}, flag32: BOOLEAN]

ASSUME NoDirBaseAssumption == NoDirBase \notin Word
ASSUME NothingAssumption   == Nothing \notin Word \cup {Undefined}
ASSUME RequestsAssumption  == Requests \subseteq Request
ASSUME NamedBasesAssumption ==
  \A r \in Requests : r.dirbase \in DirBases \cup {NoDirBase}
ASSUME BasesAssumption     == PteBases \subseteq Word /\ PfnBases \subseteq Word

VARIABLES
  step,     \* where the command is
  request,  \* its arguments
  pfnBase,  \* pfnBase_ of PfnDatabase
  pteBase,  \* what GetPteBase returned
  shown     \* what was printed

cmdvars == <<step, request, pfnBase, pteBase, shown>>
allvars == <<vars, cmdvars>>

Ended == {"done", "crashed"}

V2pInit ==
  /\ Init /\ step = "entered" /\ request \in Requests
  /\ pfnBase = {} /\ pteBase \in PteBases
  /\ shown = [entries |-> << >>, ptes |-> [d \in {} |-> {}], phys |-> Nothing,
              record |-> Nothing]

Goto(s) == step' = s
Show(line, x) == shown' = [shown EXCEPT ![line] = x]

paged == request.dirbase # NoDirBase
is64  == target.ptr64 = "S_OK"

-----------------------------------------------------------------------------
(* The page-table addresses that are printed next to the entries.          *)

(* GetPageTableHierarchyForVirtual: the formula of GetPteAddress applied n *)
(* times, width being the number of address bits above the page offset.    *)
PteAddress(b, a, width) == Plus(b, Shl(extract(a, 12, width), 3))
(* Mutant: the addresses from the bottom up. *)
Mutant_Hierarchy(b, v, width, n) ==
  LET up[i \in 1 .. n] ==
        UNION {PteAddress(b, a, width) : a \in {IF i = 1 THEN v ELSE up[i - 1]}}
  IN  [d \in 0 .. n - 1 |-> up[d + 1]]

Hierarchy(b, v, width, n) ==
  LET up[i \in 1 .. n] ==
        UNION {PteAddress(b, a, width) : a \in {IF i = 1 THEN v ELSE up[i - 1]}}
  IN  [d \in 0 .. n - 1 |-> up[n - d]]

ValidPteBase(b) == extract(b, 0, 39) = {} /\ extract(b, 48, 16) = 0 .. 15

(* The addresses by depth of the table; 0 is the one next to DirBase.      *)
VirtPtes(m, v) ==
  IF m = "PAE" THEN [d \in {2, 3} |-> Hierarchy({30, 31}, v, 20, 4)[d]]
  ELSE IF m \in FourLevel
  THEN IF ValidPteBase(pteBase) THEN Hierarchy(pteBase, v, 36, 5) ELSE [d \in 0 .. 4 |-> {}]
  ELSE [d \in {} |-> {}]

(* The rows printed for a result.  One of small pages holds an entry for   *)
(* every level, zero where the walk did not get.                           *)
Filled(r) == [d \in 1 .. Depth(mode) |->
                IF d <= Len(r.entries) THEN r.entries[d] ELSE {}]

(* Mutant: a row for every level. *)
Mutant_SmallRows(r) == Filled(r)

(* Print returns after the first entry that is not present. *)
SmallRows(r) ==
  LET last == CHOOSE d \in 1 .. Depth(mode) :
                /\ d = Depth(mode) \/ ~Present(Filled(r)[d])
                /\ \A c \in 1 .. d - 1 : Present(Filled(r)[c])
  IN  SubSeq(Filled(r), 1, last)

(* A result of a large page is printed by one call, every entry of it. *)
LargeRows(r) == r.entries

Rows(r) ==
  IF r.kind = "none" THEN << >>
  ELSE IF r.kind = SmallKind(mode) THEN SmallRows(r) ELSE LargeRows(r)

(* The first Printf of the two Print functions of 32-bit paging is given   *)
(* two arguments for three conversions: the index stands for the base, the *)
(* entry for the index, and nothing for the entry.  The row of the page    *)
(* directory is never the entry; the row of the page table is printed by a *)
(* Printf of its own.                                                      *)
RowsOf(r) ==
  IF r.kind \in {"32Bit", "32BitLarge"} THEN [Rows(r) EXCEPT ![1] = Undefined] ELSE Rows(r)

-----------------------------------------------------------------------------
(* The command.                                                            *)

(* Early returns: no argument, a value that cannot be evaluated, and !pfn2 *)
(* on a 32-bit target.  DirBase is evaluated just before the object is     *)
(* built.                                                                  *)
Refuse == /\ step = "entered" \/ (step = "construct" /\ paged)
          /\ Goto("done")
          /\ UNCHANGED <<vars, request, pfnBase, pteBase, shown>>

Begin == /\ step = "entered"
         /\ IF request.command = "v2p"
            THEN /\ Goto("construct")
                 /\ request' = IF is64 THEN request
                               ELSE [request EXCEPT !.arg = @ \cap (0 .. 31)]
            ELSE Goto(IF is64 THEN "database" ELSE "done") /\ UNCHANGED request
         /\ UNCHANGED <<vars, pfnBase, pteBase, shown>>

MakePaging ==
  /\ step = "construct"
  /\ IF paged
     THEN FromDirBase(request.dirbase, request.command = "v2p" /\ request.flag32)
     ELSE FromRegisters
  /\ Goto(IF request.command = "v2p" THEN "translate" ELSE "record")
  /\ UNCHANGED <<request, pfnBase, pteBase, shown>>

CallTranslate ==
  /\ step = "translate" /\ request.arg \in VirtAddrs /\ Translate(request.arg)
  /\ Goto("walk")
  /\ UNCHANGED <<request, pfnBase, pteBase, shown>>

Walk == step \in {"walk", "recordwalk"} /\ WalkStep /\ UNCHANGED cmdvars

(* paging->PrintResult().  In 32-bit paging the Printf that is short of an *)
(* argument prints an undefined row, or faults.                            *)
PrintResult ==
  /\ step = "walk" /\ pc = "returned"
  /\ \/ /\ shown' = [shown EXCEPT !.entries = RowsOf(result),
                                  !.ptes = IF result.kind = "none" THEN @
                                           ELSE VirtPtes(mode, virt)]
        /\ Goto(IF ret THEN "address" ELSE "done")
     \/ result.kind \in {"32Bit", "32BitLarge"} /\ Goto("crashed") /\ UNCHANGED shown
  /\ UNCHANGED <<vars, request, pfnBase, pteBase>>

PrintAddress ==
  /\ step = "address"
  /\ Show("phys", phys)
  /\ Goto(IF is64 THEN "database" ELSE "done")
  /\ UNCHANGED <<vars, request, pfnBase, pteBase>>

(* PfnDatabase(runner) and its operator bool.  The type may be unknown. *)
OpenDatabase ==
  /\ step = "database"
  /\ pfnBase' \in PfnBases
  /\ \/ pfnBase' # {} /\ Goto(IF request.command = "pfn2" /\ paged
                              THEN "construct" ELSE "record")
     \/ Goto("done")
  /\ UNCHANGED <<vars, request, pteBase, shown>>

(* Mutant: the address is not shifted to a page number. *)
Mutant_pfn == IF request.command = "v2p" THEN phys ELSE request.arg

(* pfnBase_ + pfn * entrySize_ *)
pfn == IF request.command = "v2p" THEN extract(phys, 12, 52) ELSE request.arg
RecordAddr(b, n) == Plus(b, Plus(Shl(n, 4), Shl(n, 5)))

(* DumpRecord without a Paging object: ReadVirtual, which may fail. *)
DumpVirtual ==
  /\ step = "record" /\ ~paged
  /\ Show("record", RecordAddr(pfnBase, pfn)) \/ UNCHANGED shown
  /\ Goto("done")
  /\ UNCHANGED <<vars, request, pfnBase, pteBase>>

(* DumpRecord with one: Translate, then ReadPhysical at the address. *)
TranslateRecord ==
  /\ step = "record" /\ paged
  /\ RecordAddr(pfnBase, pfn) \in VirtAddrs /\ Translate(RecordAddr(pfnBase, pfn))
  /\ Goto("recordwalk")
  /\ UNCHANGED <<request, pfnBase, pteBase, shown>>

(* Mutant: the record is read where a failed Translate left phys. *)
Mutant_DumpPhysical ==
  /\ step = "recordwalk" /\ pc = "returned"
  /\ Show("record", phys) \/ UNCHANGED shown
  /\ Goto("done")
  /\ UNCHANGED <<vars, request, pfnBase, pteBase>>

DumpPhysical ==
  /\ step = "recordwalk" /\ pc = "returned"
  /\ (ret /\ Show("record", phys)) \/ UNCHANGED shown
  /\ Goto("done")
  /\ UNCHANGED <<vars, request, pfnBase, pteBase>>

V2pNext ==
  \/ Refuse \/ Begin \/ MakePaging \/ CallTranslate \/ Walk \/ PrintResult
  \/ PrintAddress \/ OpenDatabase \/ DumpVirtual \/ TranslateRecord \/ DumpPhysical

V2pSpec == V2pInit /\ [][V2pNext]_allvars

-----------------------------------------------------------------------------
(* Properties.                                                             *)

V2pTypeOK ==
  /\ TypeOK
  /\ step \in {"entered", "construct", "translate", "walk", "address", "database",
               "record", "recordwalk"} \cup Ended
  /\ request \in Request /\ pfnBase \in Word /\ pteBase \in PteBases
  /\ shown.entries \in Seq(Word \cup {Undefined})
  /\ \A d \in DOMAIN shown.entries : shown.entries[d] = Undefined => d = 1 /\ mode = "B32"
  /\ \A d \in DOMAIN shown.ptes : d \in 0 .. 4 /\ shown.ptes[d] \in Word
  /\ {shown.phys, shown.record} \subseteq Word \cup {Nothing}

(* What rows with an undefined one may stand for: any entry in its place.  *)
Readings(rows) ==
  { [d \in DOMAIN rows |-> IF rows[d] = Undefined THEN w ELSE rows[d]] : w \in Contents }

(* The lines of a translation agree: the rows are the entries the          *)
(* processor would use for the address the user asked for, no zero entry   *)
(* that stands for one not read, and the physical address printed after    *)
(* them is where they lead; without that line they show the reason.  In    *)
(* 32-bit paging this is said of every row but that of the page directory, *)
(* which no reader can use.  No address is printed that a failed Translate *)
(* left uninitialized, and none without its rows unless paging is off      *)
(* (PrintResult and the end of !v2p).                                      *)
ShownTranslation ==
  /\ shown.entries # << >> /\ mode \in Walking /\ Aligned =>
       /\ shown.phys # Nothing =>
            \E es \in Readings(shown.entries) :
              Translates(mode, base, request.arg, mem, es, shown.phys)
       /\ shown.phys = Nothing /\ step = "done" =>
            \E es \in Readings(shown.entries) : Faults(mode, base, request.arg, mem, es)
  /\ shown.phys # Nothing =>
       shown.phys # Undefined /\ (shown.entries # << >> \/ mode = "None")

(* The virtual address printed next to an entry maps that entry: walked    *)
(* with the self-map slot in front and the tables of the translated        *)
(* address after it, it leads to the entry's place in its table            *)
(* (GetPageTableHierarchyForVirtual).                                      *)
MapsEntry(m, b, v, d, va) ==
  LET n    == Depth(m) + 1 - d
      self == Offset(m, b, 1)
  IN  /\ \A j \in 1 .. Depth(m) : Offset(m, va, j) = IF j <= n THEN self ELSE Offset(m, v, j - n)
      /\ va \cap (0 .. 11) = IF d = 0 THEN self ELSE Offset(m, v, d)
      /\ va \cap (48 .. 63) = b \cap (48 .. 63)

SelfMapAddresses ==
  \/ mode \in FourLevel /\ ~ValidPteBase(pteBase)
  \/ \A d \in DOMAIN shown.ptes :
       MapsEntry(mode, IF mode = "PAE" THEN {30, 31} ELSE pteBase,
                 request.arg, d, shown.ptes[d])

(* The PFN record that is decoded is the one of the page just shown, or of *)
(* the number asked for, found through the tables the user named           *)
(* (DumpRecord after Translate was called a second time).                  *)
RecordOfThePage ==
  shown.record # Nothing =>
    LET n  == IF request.command = "v2p" THEN extract(shown.phys, 12, 52) ELSE request.arg
        at == RecordAddr(pfnBase, n)
    IN  IF ~paged THEN shown.record = at
        ELSE mode \in Walking /\ Aligned =>
               Translates(mode, base, at, mem, walk, shown.record)

(* README.md lists "!v2p <VirtAddr> [<DirBase>] [32]  - paging translation": *)
(* a translation that succeeds is shown.                                     *)
TranslationIsShown ==
  step \in Ended /\ request.command = "v2p" /\ ret /\ calls = 1 => shown.phys # Nothing

(* The command makes no other use of the Paging object than Paging allows. *)
UsesPaging == Spec
=============================================================================
