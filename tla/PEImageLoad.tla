---------------------------- MODULE PEImageLoad ----------------------------
(***************************************************************************)
(* PEImage::Load and DumpSectionTable of peimage.cpp, the part all image   *)
(* commands begin with and the command !sec.  Each load_data of a header   *)
(* may fail or stop short at any byte.  Sums are SumBits wide.             *)
(*                                                                         *)
(* An image is what is in memory where its DOS header, as it was read, and *)
(* the offset in it lead to.                                               *)
(***************************************************************************)
EXTENDS Integers, Sequences, ShortRead

CONSTANTS
  Images,    \* what is in memory where an image is said to be
  SumBits    \* width of the sums of LookupSection, 32 in the code

VARIABLES
  image,
  step,       \* "dos", "pe", "file", "optional", "sections", "rows" or "end"
  pe,         \* the members of the object, and what is kept of its headers
  sections_,
  rows        \* the index LookupSection gave for each directory shown

vars == <<image, step, pe, sections_, rows>>

NoDir == [va |-> 0, size |-> 0]

(* base_ says whether the image was loaded. *)
NoImage(n) == [base_ |-> FALSE, is64bit_ |-> FALSE, directories_ |-> [k \in 1 .. n |-> NoDir],
               Machine |-> "0", NumberOfSections |-> 0]

Init == /\ image \in Images /\ step = "dos" /\ pe = NoImage(Len(image.dirs))
        /\ sections_ = << >> /\ rows = << >>

Goto(s) == step' = s

(* The DOS and the PE signature. *)
CheckDos == /\ step = "dos" /\ Goto(IF image.mz THEN "pe" ELSE "end")
            /\ UNCHANGED <<image, pe, sections_, rows>>
CheckPe  == /\ step = "pe" /\ Goto(IF image.pe THEN "file" ELSE "end")
            /\ UNCHANGED <<image, pe, sections_, rows>>

(* The file header: the machine, which no other is the beginning of, then  *)
(* the number of sections; and the switch on the machine.                  *)
LoadFileHeader ==
  /\ step = "file"
  /\ \E m \in {"0", image.Machine}, n \in Cut(image.NumberOfSections) :
       /\ m = "0" => n = 0
       /\ pe' = [pe EXCEPT !.Machine = m, !.NumberOfSections = n]
       /\ Goto(IF m \in {"ARM64", "AMD64", "I386"} THEN "optional" ELSE "end")
  /\ UNCHANGED <<image, sections_, rows>>

(* Mutant: any magic number is taken. *)
Mutant_MagicOf(m) == image.Magic
MagicOf(m) == IF m = "I386" THEN "PE32" ELSE "PE32PLUS"

(* What may be kept of a directory: its address comes before its size. *)
PartOfDir(d) == [va: Cut(d.va), size: {0}] \cup [va: {d.va}, size: Cut(d.size)]

(* The optional header is read up to some place in a directory, the last   *)
(* one if it is read whole; or its magic number is not the one, or lost.   *)
LoadOptional ==
  /\ step = "optional"
  /\ \/ Goto("end") /\ UNCHANGED pe
     \/ /\ image.Magic = MagicOf(pe.Machine) /\ Goto("sections")
        /\ \E n \in DOMAIN image.dirs : \E part \in PartOfDir(image.dirs[n]) :
             pe' = [pe EXCEPT !.is64bit_ = pe.Machine # "I386",
                              !.directories_ = [k \in DOMAIN @ |-> CASE k < n -> image.dirs[k]
                                                                     [] k = n -> part
                                                                     [] k > n -> NoDir]]
  /\ UNCHANGED <<image, sections_, rows>>

(* What may be kept of a section header: its name, size and address.       *)
PartOfSection(s) ==
  [named: BOOLEAN, size: {0}, va: {0}]
  \cup [named: {TRUE}, size: Cut(s.size), va: {0}]
  \cup [named: {TRUE}, size: {s.size}, va: Cut(s.va)]

Sections == 0 .. pe.NumberOfSections - 1

(* The section table, up to a section whose name is none or not read; the  *)
(* whole header is read after its name was.                                *)
LoadSection ==
  /\ step = "sections"
  /\ LET i == Len(sections_)
     IN  \/ /\ i \in Sections /\ i < Len(image.sections) /\ image.sections[i + 1].named
            /\ \E s \in PartOfSection(image.sections[i + 1]) : sections_' = Append(sections_, s)
            /\ UNCHANGED <<pe, step>>
         \/ pe' = [pe EXCEPT !.base_ = TRUE] /\ Goto("rows") /\ UNCHANGED sections_
  /\ UNCHANGED <<image, rows>>

(* Mutant: a directory may end behind its section. *)
Mutant_Comparer(d, s) == d.va >= s.va /\ d.va <= (s.va + s.size) % 2 ^ SumBits
Comparer(d, s) == /\ d.va >= s.va
                  /\ (d.va + d.size) % 2 ^ SumBits <= (s.va + s.size) % 2 ^ SumBits

(* The first section the comparer takes, 0 if there is none. *)
LookupSection(d) ==
  LET found == {k \in 1 .. Len(sections_) : Comparer(d, sections_[k])}
  IN  IF found = {} THEN 0 ELSE CHOOSE k \in found : \A j \in found : k <= j

(* !sec, a row of the directories; the command of an image that was not    *)
(* loaded prints nothing.                                                  *)
DumpSectionTable ==
  /\ step = "rows" /\ pe.base_
  /\ LET d == pe.directories_[Len(rows) + 1]
     IN  rows' = Append(rows, IF d.va # 0 /\ d.size # 0 THEN LookupSection(d) ELSE 0)
  /\ Goto(IF Len(rows') = Len(pe.directories_) THEN "end" ELSE "rows")
  /\ UNCHANGED <<image, pe, sections_>>

Next == \/ CheckDos \/ CheckPe \/ LoadFileHeader \/ LoadOptional
        \/ LoadSection \/ DumpSectionTable

Spec == Init /\ [][Next]_vars

-----------------------------------------------------------------------------
(* No more sections than the image says it has, and a row per directory    *)
(* (Load, DumpSectionTable).                                               *)
TypeOK ==
  /\ step \in {"dos", "pe", "file", "optional", "sections", "rows", "end"}
  /\ {pe.base_, pe.is64bit_} \subseteq BOOLEAN
  /\ Len(sections_) <= pe.NumberOfSections /\ Len(pe.directories_) = Len(image.dirs)
  /\ rows \in Seq(0 .. Len(sections_)) /\ Len(rows) <= Len(pe.directories_)

(* An image that is loaded, or of which a row was printed, has both        *)
(* signatures and the optional header its machine goes with, whichever     *)
(* reads failed or stopped short.  A directory of it is a part of that of  *)
(* the image, whole if anything is kept of a later one; its sections are   *)
(* parts of the first ones of the table, no more than the image has.       *)
LoadedIsTheImage ==
  pe.base_ \/ rows # << >> =>
    /\ image.mz /\ image.pe /\ image.Machine = pe.Machine
    /\ image.Magic = IF pe.is64bit_ THEN "PE32PLUS" ELSE "PE32"
    /\ \A k \in DOMAIN image.dirs :
         /\ pe.directories_[k] \in PartOfDir(image.dirs[k])
         /\ \A j \in 1 .. k - 1 :
              pe.directories_[k] # NoDir => pe.directories_[j] = image.dirs[j]
    /\ Len(sections_) <= image.NumberOfSections /\ Len(sections_) <= Len(image.sections)
    /\ \A k \in 1 .. Len(sections_) :
         image.sections[k].named /\ sections_[k] \in PartOfSection(image.sections[k])

(* The section named next to a directory holds all of it, and one is named *)
(* if one holds it, as long as no end leaves 32 bits (LookupSection).      *)
Fits(r) == r.va + r.size < 2 ^ SumBits
Holds(s, d) == \A a \in d.va .. d.va + d.size - 1 : a \in s.va .. s.va + s.size - 1
SectionHoldsDirectory ==
  \A k \in 1 .. Len(rows) :
    LET d == pe.directories_[k]
        holding == {j \in 1 .. Len(sections_) : Holds(sections_[j], d)}
    IN  d.va # 0 /\ d.size # 0 /\ Fits(d) /\ (\A j \in 1 .. Len(sections_) : Fits(sections_[j])) =>
          IF rows[k] = 0 THEN holding = {} ELSE rows[k] \in holding
=============================================================================
