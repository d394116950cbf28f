---------------------------- MODULE ImageCommand ----------------------------
(***************************************************************************)
(* The commands of peimage.cpp from their argument string to their last    *)
(* line: get_args, then PEImage::Load, then the walk over a table.  A      *)
(* command makes an image of its own, and nothing of it outlives the       *)
(* command, so a behaviour is one command.                                 *)
(*                                                                         *)
(* Each part is a module with a state of its own; the parts run one after  *)
(* another and share the variables below.  When a part ends, what the next *)
(* one needs is kept and the rest forgotten: of the arguments, that there  *)
(* is a second one; of the headers, the machine.  The tables a walk finds  *)
(* are those of any image with that machine.                               *)
(***************************************************************************)
EXTENDS Integers, Sequences, FiniteSets

CONSTANTS
  Chars, MaxLen,                     \* see GetArgs
  Cuts,                              \* see ShortRead
  SectionImages, SumBits,            \* see PEImageLoad
  ImportImages, Targets, Lower, Flag,            \* see ImportWalk
  ExportImages,                                  \* see ExportTable
  UnwindImages, Pcs, CHandlers, Unnamed,         \* see ExceptionWalk
  VersionImages, RT_VERSION, MaxDepth,           \* see ResourceWalk
  GuardImages, SizeBits                          \* see GuardTable

ASSUME CharsAssumption    == " " \in Chars /\ MaxLen \in Nat
ASSUME CutsAssumption     == 1 \in Cuts /\ Cuts \subseteq Nat \ {0}
ASSUME BitsAssumption     == {SumBits, SizeBits} \subseteq Nat \ {0}
ASSUME FlagAssumption     == Flag \in Nat \ {0}
ASSUME LowerAssumption    == "" \in DOMAIN Lower /\ \A n \in DOMAIN Lower : Lower[Lower[n]] = Lower[n]
ASSUME MaxDepthAssumption == MaxDepth \in Nat \ {0}
(* Facts of arithmetic: a sum or a size of some bits has values. *)
ASSUME PowersAssumption == {2 ^ SumBits, 2 ^ SizeBits} \subseteq Nat \ {0}

(* What the headers of an image hold (the structures of winnt.h). *)
Region == [va: Nat, size: Nat]
Header == [named: BOOLEAN, va: Nat, size: Nat]
ASSUME SectionImagesAssumption ==
  \A img \in SectionImages :
    /\ img.NumberOfSections \in Nat
    /\ img.dirs \in Seq(Region) \ {<< >>} /\ img.sections \in Seq(Header)
(* Memory is finite; Lower has every name that is in it.                   *)
ImportDescriptor == [Characteristics: Nat, TimeDateStamp: Int, Name: Nat, FirstThunk: Nat]
BoundDescriptor == [OffsetModuleName: Nat, NumberOfModuleForwarderRefs: Nat]
DelayDescriptor == [DllNameRVA: Nat, ImportNameTableRVA: Nat, ImportAddressTableRVA: Nat]
ASSUME ImportImagesAssumption ==
  \A img \in ImportImages :
    /\ {img.imp, img.bound, img.delay} \subseteq Region
    /\ \A a \in DOMAIN img.imports : img.imports[a] \in ImportDescriptor
    /\ \A a \in DOMAIN img.bounds : img.bounds[a] \in BoundDescriptor
    /\ \A a \in DOMAIN img.delays : img.delays[a] \in DelayDescriptor
    /\ IsFiniteSet(DOMAIN img.cells)
    /\ \A a \in DOMAIN img.strings : img.strings[a] \in DOMAIN Lower
(* Arrays are no longer than the directory says; elements are numbers.     *)
ASSUME ExportImagesAssumption ==
  \A img \in ExportImages :
    /\ {img.NumberOfFunctions, img.NumberOfNames} \subseteq Nat /\ img.dir \in Region
    /\ DOMAIN img.functions \subseteq 0 .. img.NumberOfFunctions - 1
    /\ \A f \in DOMAIN img.functions : img.functions[f] \in Nat
UnwindInfo == [Version: Nat, Handler: BOOLEAN, CountOfCodes: Nat]
ASSUME UnwindImagesAssumption ==
  \A img \in UnwindImages :
    /\ img.dir \in Region /\ \A a \in DOMAIN img.words : img.words[a] \in Nat
    /\ \A a \in DOMAIN img.infos : img.infos[a] \in UnwindInfo
(* A handler without a symbol is not known to be the one of C.             *)
ASSUME HandlersAssumption == Pcs \subseteq Nat /\ CHandlers \cap Unnamed = {}
DirectoryEntry == [Id: Nat, NameIsString: BOOLEAN, DataIsDirectory: BOOLEAN, Offset: Nat]
ASSUME VersionImagesAssumption ==
  \A img \in VersionImages : \A d \in DOMAIN img.dirs : img.dirs[d] \in Seq(DirectoryEntry)
Config == [Extra: Nat, Count: Nat]
ASSUME GuardImagesAssumption ==
  \A img \in GuardImages : img.guard \in Config /\ img.follows \in Config

VARIABLES
  command,   \* its name
  phase,     \* "args", "call", "load", "member" or "walk"
  args, arg,     \* the argument string, and what its second word stands for
  image,         \* what is in memory
  rows,          \* the lines printed
  step, raw, index, built, loaded   \* the locals of the parts

vars == <<command, phase, args, arg, image, rows, step, raw, index, built, loaded>>

Args == INSTANCE GetArgs WITH p <- index, prev <- raw, string_array <- built
Sec  == INSTANCE PEImageLoad WITH Images <- SectionImages, pe <- loaded, sections_ <- built
Imp  == INSTANCE ImportWalk WITH Images <- ImportImages, cmd <- arg, bound <- built,
                                 thunks <- loaded, lines <- rows
Ext  == INSTANCE ExportTable WITH Images <- ExportImages, i <- index, table <- built
Ex   == INSTANCE ExceptionWalk WITH Images <- UnwindImages, pc <- arg, row <- built
Ver  == INSTANCE ResourceWalk WITH Images <- VersionImages, stack <- loaded, version <- built
Cfg  == INSTANCE GuardTable WITH Images <- GuardImages, directory <- loaded, cb <- built,
                                 i <- index, p <- raw

Commands == {"sec", "imp", "delay", "ext", "ex", "ver", "cfg"}

(* The part a command is in, and the variables that are not of it.         *)
Parsing  == phase = "args"
Loading  == phase = "load" \/ (phase = "walk" /\ command = "sec")
Walks(C) == phase = "walk" /\ command \in C

-----------------------------------------------------------------------------
(* The second argument, if it is given: a module, "1" or an address.  To   *)
(* the other commands it means nothing.                                    *)
Second(given) ==
  CASE command = "imp"   -> [name: {command}, arg: IF given THEN Targets ELSE {""}]
    [] command = "delay" -> [name: {command}, arg: IF given THEN {"0", "1"} ELSE {""}]
    [] command = "ex"    -> IF given THEN Pcs ELSE {0}
    [] OTHER             -> {0}

Init == /\ command \in Commands /\ phase = "args" /\ Args!Init
        /\ arg \in Second(FALSE) /\ image = 0 /\ rows = << >> /\ loaded = 0

(* The first values of the locals of a part; those it has not got are 0.   *)
Locals(s, r, b, l) ==
  step' = s /\ raw' = r /\ index' = 0 /\ built' = b /\ loaded' = l /\ rows' = << >>

(* if (vargs.size() > 0): of the words, the second is used later.          *)
Given == built # << >>
ArgsGiven ==
  /\ Parsing /\ step = "end" /\ Given /\ phase' = "call"
  /\ arg' \in Second(Len(built) >= 2) /\ args' = << >>
  /\ Locals("call", 0, 0, 0) /\ UNCHANGED <<command, image>>

(* PEImage pe = GetExpression(vargs[0]): any address may be named.         *)
LoadImage ==
  /\ phase = "call" /\ phase' = "load" /\ image' \in SectionImages
  /\ Locals("dos", 0, << >>, Sec!NoImage(Len(image'.dirs)))
  /\ UNCHANGED <<command, args, arg>>

(* if (pe): the image was loaded.  !sec prints its headers, for the others *)
(* its machine is kept.                                                    *)
ImageLoaded ==
  /\ phase = "load" /\ step = "rows"
  /\ IF command = "sec" THEN phase' = "walk" /\ UNCHANGED <<image, rows, step, raw, index, built, loaded>>
     ELSE phase' = "member" /\ image' = 0 /\ Locals("member", 0, loaded.Machine, loaded.is64bit_)
  /\ UNCHANGED <<command, args, arg>>

(* The table the walk begins with. *)
FirstTable(img) == IF command = "imp" THEN img.bound.va ELSE img.delay.va

(* The member function of the command begins to walk.                      *)
Dump ==
  /\ phase = "member" /\ phase' = "walk"
  /\ \/ /\ command \in {"imp", "delay"}
        /\ image' \in {img \in ImportImages : img.is64bit_ = loaded}
        /\ Locals(IF command = "imp" THEN "bound" ELSE "delay", FirstTable(image'), {}, Imp!NoCall)
     \/ /\ command = "ext" /\ image' \in ExportImages
        /\ Locals(Ext!First(image'), 0, Ext!NoRows(image'.NumberOfFunctions), 0)
     \/ /\ command = "ex"
        /\ image' \in {img \in UnwindImages : img.Machine = built}
        /\ Locals("table", image'.dir.va, Ex!NoRow, 0)
     \/ /\ command = "ver" /\ image' \in VersionImages
        /\ Locals("walk", 0, 0, <<Ver!Frame(Ver!Root)>>)
     \/ /\ command = "cfg" /\ image' \in GuardImages
        /\ Locals(Cfg!First(image'), 0, 0, Cfg!NoConfig)
  /\ UNCHANGED <<command, args, arg>>

(* A step of the part the command is in. *)
Step ==
  /\ \/ Parsing /\ Args!Next /\ UNCHANGED <<image, rows, loaded>>
     \/ Loading /\ (phase = "load" => step # "rows") /\ Sec!Next /\ UNCHANGED <<args, raw, index>>
     \/ Walks({"imp", "delay"}) /\ Imp!Next /\ UNCHANGED args
     \/ Walks({"ext"}) /\ Ext!Next /\ UNCHANGED <<args, raw, loaded>>
     \/ Walks({"ex"})  /\ Ex!Next  /\ UNCHANGED <<args, loaded>>
     \/ Walks({"ver"}) /\ Ver!Next /\ UNCHANGED <<args, rows, raw, index>>
     \/ Walks({"cfg"}) /\ Cfg!Next /\ UNCHANGED args
  /\ UNCHANGED <<command, phase, arg>>

Next == ArgsGiven \/ LoadImage \/ ImageLoaded \/ Dump \/ Step

(* The engine runs a command until it returns. *)
Spec == Init /\ [][Next]_vars /\ WF_vars(Next)

-----------------------------------------------------------------------------
(* Each part is in a state of its own kind (the commands of peimage.cpp).  *)
TypeOK ==
  /\ Parsing => Args!TypeOK
  /\ Loading => Sec!TypeOK
  /\ Walks({"imp", "delay"}) => Imp!TypeOK
  /\ Walks({"ext"}) => Ext!TypeOK
  /\ Walks({"ex"})  => Ex!TypeOK
  /\ Walks({"ver"}) => Ver!TypeOK
  /\ Walks({"cfg"}) => Cfg!TypeOK

(* get_args gives the words of its argument, for every string.             *)
WordsOfArgs == Parsing => Args!WordsOfArgs

(* Whichever headers cannot be read or are read in part, what Load leaves  *)
(* is of the image that is in memory, and !sec prints a row only of one    *)
(* that is valid (Load, DumpSectionTable).                                 *)
LoadedIsTheImage == Loading => Sec!LoadedIsTheImage

(* !sec names a section next to a directory exactly if it holds it.        *)
SectionHoldsDirectory == Loading => Sec!SectionHoldsDirectory

(* !imp and !delay list every module and import asked for, once each and   *)
(* in order, whatever can be read, and mark the modules that are bound     *)
(* (DumpIAT, DumpDelayloadTable, LoadBoundImportDirectory).                *)
ImportsAreListed ==
  Walks({"imp", "delay"}) => Imp!TablesAreListed /\ Imp!MarkedIfBound

(* !ext shows every function that is used once, under a name the table     *)
(* gives it, and forwarded exactly if it points into the directory         *)
(* (DumpExportTable).                                                      *)
ExportsAreListed == Walks({"ext"}) => Ext!EveryFunctionOnce /\ Ext!JoinedByOrdinal

(* !ex shows every function of an x64 image, or the one around an address, *)
(* once and in order (DumpExceptionRecords).                               *)
FunctionsAreListed == Walks({"ex"}) => Ex!EveryFunctionOnce

(* !ex reads a handler from the first aligned place after the codes, and   *)
(* the scopes of a C handler from behind it (DumpUnwindInfo).              *)
HandlersAreFound == Walks({"ex"}) => Ex!HandlerFollowsCodes /\ Ex!ScopesFollowHandler

(* !ver shows the last valid version below RT_VERSION (GetVersion).        *)
VersionOfTheImage == Walks({"ver"}) => Ver!VersionOfTheImage

(* !cfg shows the table of call targets to its end, item by item if the    *)
(* size of an item was read, and copies nothing from beyond its buffer     *)
(* (DumpLoadConfigInternal).                                               *)
RowsOfTheTable == Walks({"cfg"}) => Cfg!RowsOfTheTable

(* A command returns, although the walks have no bound of their own.       *)
(* Excused are those that may leave their memory or not end: !ext with an  *)
(* export ordinal from beyond the table, !ver with resources that form a   *)
(* cycle or are nested deeper than MaxDepth, and !cfg with a table whose   *)
(* items are longer than two words or whose size does not fit its 32 bits, *)
(* or with one that what follows a shorter configuration makes look so.    *)
Returned == step = "end" /\ (Parsing => ~Given)
Excused  == \/ Walks({"ext"}) /\ ~Ext!InTable
            \/ Walks({"ver"}) /\ ~Ver!IsTree
            \/ Walks({"cfg"}) /\ ~Cfg!Fits
CommandReturns == <>(Returned \/ Excused)
=============================================================================
