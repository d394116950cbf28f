----------------------------- MODULE ImportWalk -----------------------------
(***************************************************************************)
(* peimage.cpp, !imp and !delay: the walks over the import, bound import   *)
(* and delay-load tables of an image and over the thunks of its modules.   *)
(* Addresses are relative to the image.  load_data zeroes what it cannot   *)
(* read, so memory is a function whose domain is what can be read, and a   *)
(* structure that is cut short is one whose last members are zero.         *)
(***************************************************************************)
EXTENDS Integers, Sequences, FiniteSets

CONSTANTS
  Images,     \* the images that are dumped, loaded by PEImage::Load
  Targets,    \* second arguments of !imp; without one it is ""
  Lower,      \* Lower[name]: name in lower case
  Flag        \* stands for 2^31: cells from Flag on have the highest bit set

VARIABLES
  image,   \* the image of this command
  cmd,     \* the command and its argument
  step,    \* where it is
  bound,   \* boundDir: its keys
  raw,     \* desc_raw
  index,   \* index_desc
  thunks,  \* locals of DumpIATEntries: its two tables and index_entry
  lines    \* what was printed

vars == <<image, cmd, step, bound, raw, index, thunks, lines>>

-----------------------------------------------------------------------------
(* Memory: 4-byte cells, strings, hints, and descriptors of three kinds.   *)
At(f, a, zero) == IF a \in DOMAIN f THEN f[a] ELSE zero

Cell(a)      == At(image.cells, a, 0)
(* RvaString copies 100 bytes without a terminator of its own: strings is  *)
(* of names shorter than that, a longer one is read beyond the copy.       *)
RvaString(a) == At(image.strings, a, "")
NoImport == [Characteristics |-> 0, TimeDateStamp |-> 0, Name |-> 0, FirstThunk |-> 0]
NoBound  == [OffsetModuleName |-> 0, NumberOfModuleForwarderRefs |-> 0]
NoDelay  == [DllNameRVA |-> 0, ImportNameTableRVA |-> 0, ImportAddressTableRVA |-> 0]

(* load_pointer: as wide as pointers are in the target.                    *)
Pointer(a, width) == [lo |-> Cell(a), hi |-> IF width = 8 THEN Cell(a + 4) ELSE 0]
load_pointer(a) == Pointer(a, image.ptr)
Zero(p) == p.lo = 0 /\ p.hi = 0
Hint(p) == IF p.hi = 0 THEN At(image.hints, p.lo, 0) ELSE 0

Width == IF image.is64bit_ THEN 8 ELSE 4

-----------------------------------------------------------------------------
NoCall == [name |-> 0, func |-> 0, i |-> 0, back |-> "end"]

Init ==
  /\ image \in Images
  /\ cmd \in [name: {"imp"}, arg: Targets \cup {""}] \cup [name: {"delay"}, arg: {"", "0", "1"}]
  /\ step = IF cmd.name = "imp" THEN "bound" ELSE "delay"
  /\ raw = IF cmd.name = "imp" THEN image.bound.va ELSE image.delay.va
  /\ bound = {} /\ index = 0 /\ lines = << >>
  /\ thunks = NoCall

Goto(s) == step' = s
Emit(line) == lines' = Append(lines, line)
InDir(dir) == raw < dir.va + dir.size

(* Mutant: the number of a descriptor does not advance. *)
Mutant_Advance(size) == raw' = raw + size /\ UNCHANGED index
Advance(size) == raw' = raw + size /\ index' = index + 1

(* Mutant: the tables of addresses and of names are exchanged. *)
Mutant_CallEntries(name, func, back) ==
  thunks' = [name |-> func, func |-> name, i |-> 0, back |-> back] /\ Goto("entries")

(* DumpIATEntries is called and goes back to where it was called from.     *)
CallEntries(name, func, back) ==
  thunks' = [name |-> name, func |-> func, i |-> 0, back |-> back] /\ Goto("entries")

(* Mutant: forwarders are not skipped. *)
Mutant_BoundSize(desc) == 8
BoundSize(desc) == 8 + 8 * desc.NumberOfModuleForwarderRefs

(* LoadBoundImportDirectory; a descriptor is followed by its forwarders.   *)
ReadBound ==
  LET desc == At(image.bounds, raw, NoBound)
  IN  /\ step = "bound" /\ InDir(image.bound) /\ desc.OffsetModuleName # 0
      /\ bound' = bound \cup {Lower[RvaString(image.bound.va + desc.OffsetModuleName)]}
      /\ raw' = raw + BoundSize(desc)
      /\ UNCHANGED <<image, cmd, step, index, thunks, lines>>

BoundEnds ==
  /\ step = "bound"
  /\ InDir(image.bound) => At(image.bounds, raw, NoBound).OffsetModuleName = 0
  /\ raw' = image.imp.va /\ Goto("imp")
  /\ UNCHANGED <<image, cmd, bound, index, thunks, lines>>

(* The mark after the name of a module.                                    *)
boundStatus(desc, name) ==
  IF bound # {} THEN IF desc.TimeDateStamp = -1 /\ Lower[name] \in bound THEN "*" ELSE "?"
  ELSE IF desc.TimeDateStamp = -1 THEN "?" ELSE ""

(* DumpIAT, a descriptor: one line if every module is listed, its thunks   *)
(* if they are asked for.                                                  *)
ReadImport ==
  LET desc == At(image.imports, raw, NoImport)
      name == RvaString(desc.Name)
  IN  /\ step = "imp" /\ InDir(image.imp) /\ desc.Characteristics # 0
      /\ Advance(20)
      /\ IF cmd.arg \in {"", "*"}
         THEN Emit(<<"module", index, raw, name, boundStatus(desc, name)>>)
         ELSE UNCHANGED lines
      /\ IF cmd.arg \in {"*", name}
         THEN CallEntries(desc.Characteristics, desc.FirstThunk, "imp")
         ELSE UNCHANGED <<step, thunks>>
      /\ UNCHANGED <<image, cmd, bound>>

(* DumpDelayloadTable, a descriptor. *)
ReadDelay ==
  LET desc == At(image.delays, raw, NoDelay)
  IN  /\ step = "delay" /\ InDir(image.delay) /\ desc.DllNameRVA # 0
      /\ Advance(32)
      /\ Emit(<<"module", index, raw, RvaString(desc.DllNameRVA), "">>)
      /\ IF cmd.arg = "1"
         THEN CallEntries(desc.ImportNameTableRVA, desc.ImportAddressTableRVA, "delay")
         ELSE UNCHANGED <<step, thunks>>
      /\ UNCHANGED <<image, cmd, bound>>

DescriptorsEnd ==
  /\ \/ step = "imp" /\ (InDir(image.imp) => At(image.imports, raw, NoImport).Characteristics = 0)
     \/ step = "delay" /\ (InDir(image.delay) => At(image.delays, raw, NoDelay).DllNameRVA = 0)
  /\ Goto("end")
  /\ UNCHANGED <<image, cmd, bound, raw, index, thunks, lines>>

(* A thunk with the highest bit of the image's width set is an ordinal.    *)
IsOrdinal(p) == IF image.is64bit_ THEN p.hi >= Flag ELSE p.lo >= Flag
Imported(p) == IF IsOrdinal(p) THEN <<"ordinal", p.lo % Flag>>
               ELSE <<"name", RvaString(p.lo + 2), Hint(p)>>

(* Mutant: the loop is not left. *)
Mutant_Leave == UNCHANGED step
Leave == Goto(thunks.back)

(* DumpIATEntries, one entry. *)
ReadEntry ==
  LET name == load_pointer(thunks.name + thunks.i * Width)
      slot == thunks.func + thunks.i * Width
  IN  /\ step = "entries"
      /\ IF Zero(name) THEN Leave /\ UNCHANGED <<lines, thunks>>
         ELSE /\ Emit(<<"entry", index - 1, thunks.i, Imported(name), slot, load_pointer(slot)>>)
              /\ thunks' = [thunks EXCEPT !.i = @ + 1] /\ UNCHANGED step
      /\ UNCHANGED <<image, cmd, bound, raw, index>>

Next == \/ ReadBound \/ BoundEnds \/ ReadImport \/ ReadDelay
        \/ DescriptorsEnd \/ ReadEntry

Spec == Init /\ [][Next]_vars

-----------------------------------------------------------------------------
(* What the tables of the image say, whatever the walk does.               *)
Firsts(n, P(_)) == {i \in 0 .. n - 1 : \A j \in 0 .. i : P(j)}
Slots(dir, size) == (dir.size + size - 1) \div size
Imports == LET desc(i) == At(image.imports, image.imp.va + 20 * i, NoImport)
               used(i) == desc(i).Characteristics # 0
           IN  {<<i, desc(i)>> : i \in Firsts(Slots(image.imp, 20), used)}
Delays  == LET desc(i) == At(image.delays, image.delay.va + 32 * i, NoDelay)
               used(i) == desc(i).DllNameRVA # 0
           IN  {<<i, desc(i)>> : i \in Firsts(Slots(image.delay, 32), used)}

Entries(i, name, func) ==
  LET p(k)    == Pointer(name + k * Width, Width)
      used(k) == ~Zero(p(k))
  IN  {<<"entry", i, k, Imported(p(k)), func + k * Width, Pointer(func + k * Width, Width)>> :
         k \in Firsts(Cardinality(DOMAIN image.cells), used)}

ImportLines ==
  UNION {LET name == RvaString(d[2].Name) IN
         (IF cmd.arg \in {"", "*"} THEN {<<"module", d[1], name>>} ELSE {}) \cup
         (IF cmd.arg \in {"*", name}
          THEN Entries(d[1], d[2].Characteristics, d[2].FirstThunk) ELSE {}) : d \in Imports}
DelayLines ==
  UNION {{<<"module", d[1], RvaString(d[2].DllNameRVA)>>} \cup
         (IF cmd.arg = "1"
          THEN Entries(d[1], d[2].ImportNameTableRVA, d[2].ImportAddressTableRVA) ELSE {}) :
         d \in Delays}

Shown(line) == IF line[1] = "module" THEN <<"module", line[2], line[4]>> ELSE line
Before(a, b) == a[2] < b[2] \/ (a[2] = b[2] /\ (a[1] = "module" \/ a[3] < b[3]))

(* The walk stands in one table at a time, at the descriptor after the one *)
(* whose thunks it lists (DumpIAT, DumpDelayloadTable).                    *)
TypeOK ==
  /\ step \in {"bound", "imp", "delay", "entries", "end"}
  /\ bound \subseteq {Lower[n] : n \in DOMAIN Lower}
  /\ index \in Nat /\ thunks.i \in Nat
  /\ step \in {"imp", "delay"} => raw = 20 * index + image.imp.va \/ raw = 32 * index + image.delay.va

(* A command that ends has shown every module and every import its         *)
(* argument asks for, each once, in the order of the tables, each name     *)
(* with the slot of its address, and nothing else, also where memory       *)
(* cannot be read.                                                         *)
Listed ==
  /\ {Shown(lines[i]) : i \in 1 .. Len(lines)} = IF cmd.name = "imp" THEN ImportLines ELSE DelayLines
  /\ \A i \in 1 .. Len(lines) - 1 : Before(lines[i], lines[i + 1])

TablesAreListed == step = "end" /\ image.ptr = Width => Listed

(* The bound descriptors: the first, and any that follows one of them, as  *)
(* far as they are used.                                                   *)
NextBound(a) == a + 8 + 8 * At(image.bounds, a, NoBound).NumberOfModuleForwarderRefs
UsedBound(a) == /\ a < image.bound.va + image.bound.size
                /\ At(image.bounds, a, NoBound).OffsetModuleName # 0
Follows(P) == /\ UsedBound(image.bound.va) => image.bound.va \in P
              /\ \A a \in P : UsedBound(NextBound(a)) => NextBound(a) \in P
BoundPlaces == {a \in DOMAIN image.bounds :
                  \A P \in SUBSET DOMAIN image.bounds : Follows(P) => a \in P}
BoundModules == {Lower[RvaString(image.bound.va + image.bounds[a].OffsetModuleName)] :
                   a \in BoundPlaces}

(* A module is marked '*' exactly if it is in the bound import directory   *)
(* and says that it is bound; a mark '?' says that the two disagree ("If   *)
(* BID exists, each thunk should be bound").                               *)
MarkedIfBound ==
  cmd.name = "imp" => \A i \in 1 .. Len(lines) : lines[i][1] = "module" =>
    LET says == \E d \in Imports : d[1] = lines[i][2] /\ d[2].TimeDateStamp = -1
        has  == Lower[lines[i][4]] \in BoundModules
    IN  /\ lines[i][5] = "*" <=> says /\ has
        /\ lines[i][5] = "" <=> ~says /\ BoundModules = {}
=============================================================================
