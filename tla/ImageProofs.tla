---------------------------- MODULE ImageProofs ----------------------------
(***************************************************************************)
(* What TLAPS proves of the commands of peimage.cpp.  Of each part of a    *)
(* command there is an inductive invariant, named for it (ArgsInv, SecInv, *)
(* CfgInv, ExtInv, ExInv, ImpInv, VerInv), that holds while the command is *)
(* in that part; what the part promises follows from it at its end.        *)
(*                                                                         *)
(* A lemma ...Enters says that the invariant holds when the part begins,   *)
(* and there is one for each action of the part; a lemma ...Step combines  *)
(* them to a step of ImageCommand, a lemma ...InvHolds to its behaviours.  *)
(***************************************************************************)
EXTENDS ImageCommand, SequenceTheorems, FiniteSetTheorems, WellFoundedInduction, TLAPS

-----------------------------------------------------------------------------
(* A set of numbers that is not empty has a smallest one. *)
LEMMA SmallestNumber ==
  ASSUME NEW T, T \subseteq Nat, T # {}
  PROVE  \E x \in T : \A y \in T : x <= y
<1>1. PICK x \in T : \A y \in T : ~(<<y, x>> \in OpToRel(<, Nat))
  BY NatLessThanWellFounded, WFMin
<1>2. \A y \in T : ~(y < x) BY <1>1 DEF OpToRel
<1> QED BY <1>2

(* What Append does to a sequence, element by element. *)
LEMMA Appended ==
  ASSUME NEW S, NEW s \in Seq(S), NEW x \in S, NEW t, t = Append(s, x)
  PROVE  /\ t \in Seq(S) /\ Len(s) \in Nat /\ Len(t) = Len(s) + 1 /\ t[Len(s) + 1] = x
         /\ \A j \in 1 .. Len(s) : t[j] = s[j]
         /\ \A j \in 1 .. Len(t) : j \in 1 .. Len(s) \/ j = Len(s) + 1
<1>1. /\ t \in Seq(S) /\ Len(s) \in Nat /\ Len(t) = Len(s) + 1 /\ t[Len(s) + 1] = x
      /\ \A j \in 1 .. Len(s) : t[j] = s[j]
  BY AppendProperties, LenProperties
<1> QED BY <1>1

(***************************************************************************)
(* PEImage::Load and !sec.  The inductive invariant: what was read so far  *)
(* is known from the step the walk is at, and each row is the answer of    *)
(* LookupSection.                                                          *)
(***************************************************************************)
Read == {"0"} \cup {img.Machine : img \in SectionImages}
Object == [base_: BOOLEAN, is64bit_: BOOLEAN, directories_: Seq(Region),
           Machine: Read, NumberOfSections: Nat]

SecTyped ==
  /\ image \in SectionImages /\ loaded \in Object /\ built \in Seq(Header)
  /\ step \in {"dos", "pe", "file", "optional", "sections", "rows", "end"}
  /\ Len(loaded.directories_) = Len(image.dirs)
  /\ Len(built) <= loaded.NumberOfSections
  /\ rows \in Seq(0 .. Len(built)) /\ Len(rows) <= Len(loaded.directories_)
  /\ step = "rows" => Len(rows) < Len(loaded.directories_)
  /\ step \notin {"rows", "end"} \/ ~loaded.base_ => rows = << >>
  /\ step \in {"dos", "pe", "file", "optional"} => built = << >>

Machines == {"ARM64", "AMD64", "I386"}
SecRead ==
  /\ loaded.base_ => step \in {"rows", "end"}
  /\ step = "rows" => loaded.base_
  /\ step \in {"pe", "file", "optional", "sections"} \/ loaded.base_ => image.mz
  /\ step \in {"file", "optional", "sections"} \/ loaded.base_ => image.pe
  /\ step \in {"optional", "sections"} \/ loaded.base_ =>
       loaded.Machine = image.Machine /\ loaded.Machine \in Machines
  /\ step = "sections" \/ loaded.base_ =>
       image.Magic = Sec!MagicOf(loaded.Machine) /\ loaded.is64bit_ = (loaded.Machine # "I386")
  /\ loaded.NumberOfSections <= image.NumberOfSections
  /\ \A k \in 1 .. Len(image.dirs) :
       /\ loaded.directories_[k] \in Sec!PartOfDir(image.dirs[k])
       /\ \A j \in 1 .. k - 1 :
            loaded.directories_[k] # Sec!NoDir => loaded.directories_[j] = image.dirs[j]

SecSections ==
  /\ Len(built) <= Len(image.sections)
  /\ \A k \in 1 .. Len(built) :
       image.sections[k].named /\ built[k] \in Sec!PartOfSection(image.sections[k])

SecRows ==
  \A k \in 1 .. Len(rows) :
    LET d == loaded.directories_[k]
    IN  rows[k] = IF d.va # 0 /\ d.size # 0 THEN Sec!LookupSection(d) ELSE 0

SecInv == SecTyped /\ SecRead /\ SecSections /\ SecRows

(* The steps of a command that leave it in this part. *)
LEMMA LoadingSteps ==
  ASSUME [Next]_vars, Loading'
  PROVE  \/ LoadImage
         \/ Loading /\ Sec!Next
         \/ Loading /\ UNCHANGED <<image, step, loaded, built, rows>>
<1>1. CASE ArgsGiven BY <1>1 DEF ArgsGiven, Loading
<1>2. CASE ImageLoaded BY <1>2 DEF ImageLoaded, Loading
<1>3. CASE Dump BY <1>3 DEF Dump, Loading
<1>4. CASE Step BY <1>4 DEF Step, Loading, Parsing, Walks
<1>5. CASE UNCHANGED vars BY <1>5 DEF vars, Loading
<1> QED BY <1>1, <1>2, <1>3, <1>4, <1>5 DEF Next

(* What the headers of an image are. *)
LEMMA SecImage ==
  ASSUME NEW img \in SectionImages
  PROVE  /\ img.NumberOfSections \in Nat
         /\ img.dirs \in Seq(Region) /\ Len(img.dirs) \in Nat /\ Len(img.dirs) > 0
         /\ DOMAIN img.dirs = 1 .. Len(img.dirs) /\ \A k \in 1 .. Len(img.dirs) : img.dirs[k] \in Region
         /\ img.sections \in Seq(Header) /\ Len(img.sections) \in Nat
         /\ \A k \in 1 .. Len(img.sections) : img.sections[k] \in Header
<1>1. /\ img.NumberOfSections \in Nat
      /\ img.dirs \in Seq(Region) /\ img.dirs # << >> /\ img.sections \in Seq(Header)
  BY SectionImagesAssumption
<1> QED BY <1>1, LenProperties, ElementOfSeq, EmptySeq

(* What a short read leaves of a number is a number that is no greater. *)
LEMMA CutIsPart ==
  ASSUME NEW x \in Nat
  PROVE  /\ \A y \in Sec!Cut(x) : y \in Nat /\ y <= x
         /\ 0 \in Sec!Cut(x) /\ x \in Sec!Cut(x) /\ Cfg!Cut(x) = Sec!Cut(x)
<1>1. ASSUME NEW c \in Nat \ {0} PROVE x % c \in Nat /\ x % c <= x
  <2>1. CASE x < c
    <3>1. x % c = x BY <2>1
    <3> QED BY <3>1
  <2>2. CASE x >= c
    <3>1. x % c \in 0 .. c - 1 OBVIOUS
    <3> QED BY <2>2, <3>1
  <2> QED BY <2>1, <2>2
<1>2. x % 1 = 0 OBVIOUS
<1> QED BY <1>1, <1>2, CutsAssumption DEF Sec!Cut, Cfg!Cut

(* Parts of what the headers hold have their types. *)
LEMMA PartsTyped ==
  /\ Sec!NoDir \in Region
  /\ \A d \in Region : /\ Sec!PartOfDir(d) \subseteq Region
                       /\ {d, Sec!NoDir} \subseteq Sec!PartOfDir(d)
  /\ \A s \in Header : Sec!PartOfSection(s) \subseteq Header
<1>1. Sec!NoDir \in Region BY DEF Sec!NoDir, Region
<1>2. ASSUME NEW d \in Region
      PROVE  Sec!PartOfDir(d) \subseteq Region /\ {d, Sec!NoDir} \subseteq Sec!PartOfDir(d)
  <2>1. d.va \in Nat /\ d.size \in Nat /\ d = [va |-> d.va, size |-> d.size] BY DEF Region
  <2>2. /\ Sec!Cut(d.va) \subseteq Nat /\ Sec!Cut(d.size) \subseteq Nat
        /\ 0 \in Sec!Cut(d.va) /\ d.size \in Sec!Cut(d.size)
    BY <2>1, CutIsPart
  <2>3. Sec!PartOfDir(d) \subseteq Region BY <2>1, <2>2 DEF Sec!PartOfDir, Region
  <2>4. d \in Sec!PartOfDir(d) /\ Sec!NoDir \in Sec!PartOfDir(d)
    BY <2>1, <2>2 DEF Sec!PartOfDir, Sec!NoDir
  <2> QED BY <2>3, <2>4
<1>3. ASSUME NEW s \in Header PROVE Sec!PartOfSection(s) \subseteq Header
  <2>1. s.va \in Nat /\ s.size \in Nat BY DEF Header
  <2>2. Sec!Cut(s.va) \subseteq Nat /\ Sec!Cut(s.size) \subseteq Nat BY <2>1, CutIsPart
  <2> DEFINE Parts(N, A, B) == [named: N, size: A, va: B]
  <2>3. \A N \in SUBSET BOOLEAN, A \in SUBSET Nat, B \in SUBSET Nat : Parts(N, A, B) \subseteq Header
    BY DEF Header
  <2>4. Sec!PartOfSection(s) = Parts(BOOLEAN, {0}, {0}) \cup Parts({TRUE}, Sec!Cut(s.size), {0})
                               \cup Parts({TRUE}, {s.size}, Sec!Cut(s.va))
    BY DEF Sec!PartOfSection
  <2> HIDE DEF Parts
  <2>5. {0} \in SUBSET Nat /\ {s.size} \in SUBSET Nat
        /\ {TRUE} \in SUBSET BOOLEAN /\ BOOLEAN \in SUBSET BOOLEAN
    BY <2>1
  <2>6. Parts(BOOLEAN, {0}, {0}) \subseteq Header BY <2>3, <2>5
  <2>7. Parts({TRUE}, Sec!Cut(s.size), {0}) \subseteq Header BY <2>2, <2>3, <2>5
  <2>8. Parts({TRUE}, {s.size}, Sec!Cut(s.va)) \subseteq Header BY <2>2, <2>3, <2>5
  <2> QED BY <2>4, <2>6, <2>7, <2>8
<1> QED BY <1>1, <1>2, <1>3

(* The object before Load. *)
LEMMA NoImageTyped ==
  ASSUME NEW n \in Nat
  PROVE  /\ Sec!NoImage(n) \in Object /\ Len(Sec!NoImage(n).directories_) = n
         /\ ~Sec!NoImage(n).base_ /\ Sec!NoImage(n).NumberOfSections = 0
         /\ \A k \in 1 .. n : Sec!NoImage(n).directories_[k] = Sec!NoDir
<1> DEFINE dirs == [k \in 1 .. n |-> Sec!NoDir]
<1>1. Sec!NoDir \in Region BY DEF Sec!NoDir, Region
<1>2. dirs \in Seq(Region) /\ Len(dirs) = n /\ \A k \in 1 .. n : dirs[k] = Sec!NoDir BY <1>1
<1> HIDE DEF dirs
<1>3. Sec!NoImage(n) = [base_ |-> FALSE, is64bit_ |-> FALSE, directories_ |-> dirs,
                        Machine |-> "0", NumberOfSections |-> 0]
  BY DEF Sec!NoImage, dirs
<1>4. Sec!NoImage(n) \in Object
  <2>1. "0" \in Read BY DEF Read
  <2> QED BY <1>2, <1>3, <2>1 DEF Object
<1>5. Sec!NoImage(n).directories_ = dirs /\ ~Sec!NoImage(n).base_
      /\ Sec!NoImage(n).NumberOfSections = 0
  BY <1>3
<1> QED BY <1>2, <1>4, <1>5

LEMMA SecEnters == ASSUME LoadImage PROVE SecInv'
<1>1. /\ image' \in SectionImages /\ step' = "dos" /\ built' = << >> /\ rows' = << >>
      /\ loaded' = Sec!NoImage(Len(image'.dirs))
  BY DEF LoadImage, Locals
<1>2. Len(image'.dirs) \in Nat BY <1>1, SecImage
<1>3. << >> \in Seq(Header) /\ << >> \in Seq(0 .. Len(built')) /\ Len(<< >>) = 0 BY EmptySeq
<1>4. Len(image'.sections) \in Nat BY <1>1, SecImage
<1>5. SecTyped' BY <1>1, <1>2, <1>3, NoImageTyped DEF SecTyped
<1>6. SecRead'
  <2>1. \A k \in 1 .. Len(image'.dirs) : /\ loaded'.directories_[k] = Sec!NoDir
                                         /\ Sec!NoDir \in Sec!PartOfDir(image'.dirs[k])
    BY <1>1, <1>2, NoImageTyped, SecImage, PartsTyped
  <2>2. /\ ~loaded'.base_ /\ loaded'.NumberOfSections = 0 /\ image'.NumberOfSections \in Nat
    BY <1>1, <1>2, NoImageTyped, SecImage
  <2> QED BY <1>1, <2>1, <2>2 DEF SecRead, Sec!PartOfDir, Sec!NoDir, Sec!Cut
<1>7. SecSections' BY <1>1, <1>3, <1>4 DEF SecSections
<1>8. SecRows' BY <1>1, <1>3 DEF SecRows
<1> QED BY <1>5, <1>6, <1>7, <1>8 DEF SecInv

(* Steps that leave the sections and rows alone leave their promises.      *)
LEMMA SecSignatures == ASSUME SecInv, Sec!CheckDos \/ Sec!CheckPe PROVE SecInv'
<1>1. UNCHANGED <<image, loaded, built, rows>> BY DEF Sec!CheckDos, Sec!CheckPe
<1>2. \/ step = "dos" /\ step' = IF image.mz THEN "pe" ELSE "end"
      \/ step = "pe" /\ step' = IF image.pe THEN "file" ELSE "end"
  BY DEF Sec!CheckDos, Sec!CheckPe, Sec!Goto
<1>3. SecTyped' BY <1>1, <1>2 DEF SecInv, SecTyped
<1>4. SecRead' BY <1>1, <1>2 DEF SecInv, SecRead
<1>5. SecSections' BY <1>1 DEF SecInv, SecSections
<1>6. SecRows' BY <1>1 DEF SecInv, SecRows, Sec!LookupSection
<1> QED BY <1>3, <1>4, <1>5, <1>6 DEF SecInv

LEMMA SecFileHeader == ASSUME SecInv, Sec!LoadFileHeader PROVE SecInv'
<1>1. PICK m \in {"0", image.Machine}, n \in Sec!Cut(image.NumberOfSections) :
        /\ m = "0" => n = 0
        /\ loaded' = [loaded EXCEPT !.Machine = m, !.NumberOfSections = n]
        /\ step' = IF m \in Machines THEN "optional" ELSE "end"
  BY DEF Sec!LoadFileHeader, Sec!Goto, Machines
<1>2. UNCHANGED <<image, built, rows>> /\ step = "file" BY DEF Sec!LoadFileHeader
<1>3. loaded \in Object /\ image \in SectionImages BY DEF SecInv, SecTyped
<1>4. m \in Read /\ n \in Nat /\ n <= image.NumberOfSections
  <2>1. m \in Read BY <1>1, <1>3 DEF Read
  <2>2. image.NumberOfSections \in Nat BY <1>3, SecImage
  <2> QED BY <1>1, <2>1, <2>2, CutIsPart
<1>5. /\ loaded' \in Object /\ loaded'.Machine = m /\ loaded'.NumberOfSections = n
      /\ loaded'.directories_ = loaded.directories_ /\ loaded'.base_ = loaded.base_
  BY <1>1, <1>3, <1>4 DEF Object
<1>6. built = << >> /\ rows = << >> /\ Len(<< >>) = 0 BY <1>2, EmptySeq DEF SecInv, SecTyped
<1>7. SecTyped' BY <1>1, <1>2, <1>4, <1>5, <1>6 DEF SecInv, SecTyped
<1>8. ~loaded.base_ /\ image.mz /\ image.pe BY <1>2 DEF SecInv, SecRead
<1>9. SecRead' BY <1>1, <1>2, <1>4, <1>5, <1>8 DEF SecInv, SecRead, Machines
<1>10. SecSections' BY <1>2 DEF SecInv, SecSections
<1>11. SecRows' BY <1>2, <1>6 DEF SecRows
<1> QED BY <1>7, <1>9, <1>10, <1>11 DEF SecInv

LEMMA SecOptional == ASSUME SecInv, Sec!LoadOptional PROVE SecInv'
<1>1. /\ UNCHANGED <<image, built, rows>> /\ step = "optional"
      /\ loaded \in Object /\ image \in SectionImages /\ Len(loaded.directories_) = Len(image.dirs)
  BY DEF Sec!LoadOptional, SecInv, SecTyped
<1>2. built = << >> /\ rows = << >> /\ Len(<< >>) = 0 BY <1>1, EmptySeq DEF SecInv, SecTyped
<1>3. CASE step' = "end" /\ UNCHANGED loaded
  <2>1. SecTyped' BY <1>1, <1>3 DEF SecInv, SecTyped
  <2>2. SecRead' BY <1>1, <1>3 DEF SecInv, SecRead
  <2>3. SecSections' BY <1>1 DEF SecInv, SecSections
  <2>4. SecRows' BY <1>1, <1>2 DEF SecRows
  <2> QED BY <2>1, <2>2, <2>3, <2>4 DEF SecInv
<1>4. CASE /\ image.Magic = Sec!MagicOf(loaded.Machine) /\ step' = "sections"
           /\ \E n \in DOMAIN image.dirs : \E part \in Sec!PartOfDir(image.dirs[n]) :
                loaded' = [loaded EXCEPT !.is64bit_ = loaded.Machine # "I386",
                             !.directories_ = [k \in DOMAIN @ |-> CASE k < n -> image.dirs[k]
                                                                    [] k = n -> part
                                                                    [] k > n -> Sec!NoDir]]
  <2>0. PICK n \in DOMAIN image.dirs :
          \E part \in Sec!PartOfDir(image.dirs[n]) :
            loaded' = [loaded EXCEPT !.is64bit_ = loaded.Machine # "I386",
                         !.directories_ = [k \in DOMAIN @ |-> CASE k < n -> image.dirs[k]
                                                                [] k = n -> part
                                                                [] k > n -> Sec!NoDir]]
    BY <1>4
  <2>1. PICK part \in Sec!PartOfDir(image.dirs[n]) :
          loaded' = [loaded EXCEPT !.is64bit_ = loaded.Machine # "I386",
                       !.directories_ = [k \in DOMAIN @ |-> CASE k < n -> image.dirs[k]
                                                              [] k = n -> part
                                                              [] k > n -> Sec!NoDir]]
    BY <2>0
  <2> DEFINE dirs == [k \in 1 .. Len(image.dirs) |-> CASE k < n -> image.dirs[k]
                                                      [] k = n -> part
                                                      [] k > n -> Sec!NoDir]
  <2>2. /\ Len(image.dirs) \in Nat /\ \A k \in 1 .. Len(image.dirs) : image.dirs[k] \in Region
        /\ DOMAIN loaded.directories_ = 1 .. Len(image.dirs) /\ n \in 1 .. Len(image.dirs)
    BY <1>1, SecImage, LenProperties DEF Object
  <2>3. /\ part \in Region /\ Sec!NoDir \in Region
        /\ \A k \in 1 .. Len(image.dirs) :
             {image.dirs[k], Sec!NoDir} \subseteq Sec!PartOfDir(image.dirs[k])
    BY <2>1, <2>2, PartsTyped
  <2>4. /\ dirs \in Seq(Region) /\ Len(dirs) = Len(image.dirs)
        /\ \A k \in 1 .. Len(image.dirs) :
             /\ dirs[k] \in Sec!PartOfDir(image.dirs[k])
             /\ \A j \in 1 .. k - 1 : dirs[k] # Sec!NoDir => dirs[j] = image.dirs[j]
    <3>1. ASSUME NEW k \in 1 .. Len(image.dirs)
          PROVE  /\ k < n => dirs[k] = image.dirs[k]
                 /\ k = n => dirs[k] = part
                 /\ k > n => dirs[k] = Sec!NoDir
                 /\ k < n \/ k = n \/ k > n
      BY <2>2
    <3>2. dirs \in [1 .. Len(image.dirs) -> Region] BY <2>2, <2>3, <3>1
    <3>3. dirs \in Seq(Region) /\ Len(dirs) = Len(image.dirs) BY <2>2, <3>2, SeqDef
    <3> HIDE DEF dirs
    <3>4. ASSUME NEW k \in 1 .. Len(image.dirs) PROVE dirs[k] \in Sec!PartOfDir(image.dirs[k])
      BY <2>1, <2>3, <3>1
    <3>5. ASSUME NEW k \in 1 .. Len(image.dirs), NEW j \in 1 .. k - 1, dirs[k] # Sec!NoDir
          PROVE  dirs[j] = image.dirs[j]
      <4>1. ~(k > n) BY <3>1, <3>5
      <4>2. j \in 1 .. Len(image.dirs) /\ j < n BY <2>2, <4>1
      <4> QED BY <3>1, <4>2
    <3> QED BY <3>3, <3>4, <3>5
  <2>5. loaded' = [loaded EXCEPT !.is64bit_ = loaded.Machine # "I386", !.directories_ = dirs]
    BY <2>1, <2>2
  <2> HIDE DEF dirs
  <2>6. /\ loaded' \in Object /\ loaded'.is64bit_ = (loaded.Machine # "I386")
        /\ loaded'.directories_ = dirs /\ loaded'.base_ = loaded.base_
        /\ loaded'.Machine = loaded.Machine /\ loaded'.NumberOfSections = loaded.NumberOfSections
    BY <1>1, <2>4, <2>5 DEF Object
  <2>7. SecTyped' BY <1>1, <1>4, <2>4, <2>6 DEF SecInv, SecTyped
  <2>8. SecRead' BY <1>1, <1>4, <2>4, <2>6 DEF SecInv, SecRead
  <2>9. SecSections' BY <1>1 DEF SecInv, SecSections
  <2>10. SecRows' BY <1>1, <1>2 DEF SecRows
  <2> QED BY <2>7, <2>8, <2>9, <2>10 DEF SecInv
<1> QED BY <1>3, <1>4 DEF Sec!LoadOptional, Sec!Goto

LEMMA SecSection == ASSUME SecInv, Sec!LoadSection PROVE SecInv'
<1>1. /\ UNCHANGED <<image, rows>> /\ step = "sections" /\ rows = << >> /\ ~loaded.base_
      /\ loaded \in Object /\ image \in SectionImages /\ built \in Seq(Header)
      /\ Len(built) \in Nat
  BY LenProperties DEF Sec!LoadSection, SecInv, SecTyped, SecRead
<1>2. Len(<< >>) = 0 /\ \A S : << >> \in Seq(S) BY EmptySeq
<1>3. SecRows' BY <1>1, <1>2 DEF SecRows
<1>4. CASE loaded' = [loaded EXCEPT !.base_ = TRUE] /\ step' = "rows" /\ UNCHANGED built
  <2>1. /\ loaded' \in Object /\ loaded'.base_ = TRUE /\ loaded'.directories_ = loaded.directories_
        /\ loaded'.Machine = loaded.Machine /\ loaded'.is64bit_ = loaded.is64bit_
        /\ loaded'.NumberOfSections = loaded.NumberOfSections
    BY <1>1, <1>4 DEF Object
  <2>2. Len(image.dirs) > 0 BY <1>1, SecImage
  <2>3. SecTyped' BY <1>1, <1>2, <1>4, <2>1, <2>2 DEF SecInv, SecTyped
  <2>4. SecRead' BY <1>1, <1>4, <2>1 DEF SecInv, SecRead
  <2>5. SecSections' BY <1>1, <1>4 DEF SecInv, SecSections
  <2> QED BY <1>3, <2>3, <2>4, <2>5 DEF SecInv
<1>5. CASE /\ Len(built) \in Sec!Sections /\ Len(built) < Len(image.sections)
           /\ image.sections[Len(built) + 1].named
           /\ \E s \in Sec!PartOfSection(image.sections[Len(built) + 1]) :
                built' = Append(built, s)
           /\ UNCHANGED <<loaded, step>>
  <2>1. PICK s \in Sec!PartOfSection(image.sections[Len(built) + 1]) : built' = Append(built, s)
    BY <1>5
  <2>2. Len(built) + 1 \in 1 .. Len(image.sections) BY <1>1, <1>5, SecImage
  <2>3. s \in Header
    <3>1. image.sections[Len(built) + 1] \in Header BY <1>1, <2>2, SecImage
    <3> QED BY <2>1, <3>1, PartsTyped
  <2>4. /\ built' \in Seq(Header) /\ Len(built') = Len(built) + 1 /\ built'[Len(built) + 1] = s
        /\ \A j \in 1 .. Len(built) : built'[j] = built[j]
        /\ \A j \in 1 .. Len(built') : j \in 1 .. Len(built) \/ j = Len(built) + 1
    BY <1>1, <2>1, <2>3, Appended
  <2>5. Len(built) + 1 <= loaded.NumberOfSections BY <1>1, <1>5 DEF Sec!Sections, Object
  <2>6. SecTyped' BY <1>1, <1>2, <1>5, <2>4, <2>5 DEF SecInv, SecTyped
  <2>7. SecRead' BY <1>1, <1>5 DEF SecInv, SecRead
  <2>8. SecSections'
    <3>1. ASSUME NEW k \in 1 .. Len(built')
          PROVE  image.sections[k].named /\ built'[k] \in Sec!PartOfSection(image.sections[k])
      <4>1. CASE k \in 1 .. Len(built) BY <2>4, <4>1 DEF SecInv, SecSections
      <4>2. CASE k = Len(built) + 1 BY <1>5, <2>1, <2>4, <4>2
      <4> QED BY <2>4, <4>1, <4>2
    <3>2. Len(built') <= Len(image.sections) BY <2>2, <2>4
    <3> QED BY <1>1, <3>1, <3>2 DEF SecSections
  <2> QED BY <1>3, <2>6, <2>7, <2>8 DEF SecInv
<1> QED BY <1>4, <1>5 DEF Sec!LoadSection, Sec!Goto

(* LookupSection finds one of the sections the comparer takes, if any.     *)
Taken(d) == {k \in 1 .. Len(built) : Sec!Comparer(d, built[k])}
(* LookupSection gives a section the comparer takes, or there is none. *)
LEMMA LookupFinds ==
  ASSUME built \in Seq(Header), NEW d
  PROVE  /\ Sec!LookupSection(d) \in 0 .. Len(built)
         /\ IF Taken(d) = {} THEN Sec!LookupSection(d) = 0 ELSE Sec!LookupSection(d) \in Taken(d)
<1>1. Len(built) \in Nat BY LenProperties
<1>2. Sec!LookupSection(d) = IF Taken(d) = {} THEN 0
                             ELSE CHOOSE k \in Taken(d) : \A j \in Taken(d) : k <= j
  BY DEF Sec!LookupSection, Taken
<1>3. Taken(d) \subseteq Nat /\ Taken(d) \subseteq 1 .. Len(built) BY <1>1 DEF Taken
<1>4. Taken(d) # {} => \E k \in Taken(d) : \A j \in Taken(d) : k <= j BY <1>3, SmallestNumber
<1>5. Taken(d) # {} => (CHOOSE k \in Taken(d) : \A j \in Taken(d) : k <= j) \in Taken(d)
  BY <1>4
<1> HIDE DEF Taken
<1>6. IF Taken(d) = {} THEN Sec!LookupSection(d) = 0 ELSE Sec!LookupSection(d) \in Taken(d)
  BY <1>2, <1>5
<1> QED BY <1>1, <1>3, <1>6

LEMMA SecRow == ASSUME SecInv, Sec!DumpSectionTable PROVE SecInv'
<1> DEFINE d == loaded.directories_[Len(rows) + 1]
           x == IF d.va # 0 /\ d.size # 0 THEN Sec!LookupSection(d) ELSE 0
<1>1. /\ UNCHANGED <<image, loaded, built>> /\ step = "rows" /\ built \in Seq(Header)
      /\ rows \in Seq(0 .. Len(built)) /\ loaded \in Object
      /\ Len(rows) < Len(loaded.directories_)
      /\ Len(loaded.directories_) \in Nat /\ Len(built) \in Nat
      /\ loaded.base_
  BY LenProperties DEF Sec!DumpSectionTable, SecInv, SecTyped, Object
<1>2. /\ rows' = Append(rows, x)
      /\ step' = IF Len(rows') = Len(loaded.directories_) THEN "end" ELSE "rows"
  BY DEF Sec!DumpSectionTable, Sec!Goto
<1>3. x \in 0 .. Len(built) BY <1>1, LookupFinds
<1> HIDE DEF x
<1>4. /\ rows' \in Seq(0 .. Len(built)) /\ Len(rows) \in Nat /\ Len(rows') = Len(rows) + 1
      /\ rows'[Len(rows) + 1] = x /\ \A j \in 1 .. Len(rows) : rows'[j] = rows[j]
      /\ \A j \in 1 .. Len(rows') : j \in 1 .. Len(rows) \/ j = Len(rows) + 1
  BY <1>1, <1>2, <1>3, Appended
<1>5. SecTyped' BY <1>1, <1>2, <1>4 DEF SecInv, SecTyped
<1>6. SecRead' BY <1>1, <1>2 DEF SecInv, SecRead
<1>7. SecSections' BY <1>1 DEF SecInv, SecSections
<1>8. ASSUME NEW k \in 1 .. Len(rows')
      PROVE  rows'[k] = IF loaded.directories_[k].va # 0 /\ loaded.directories_[k].size # 0
                        THEN Sec!LookupSection(loaded.directories_[k]) ELSE 0
  <2>1. CASE k \in 1 .. Len(rows) BY <1>4, <2>1 DEF SecInv, SecRows
  <2>2. CASE k = Len(rows) + 1 BY <1>4, <2>2 DEF x
  <2> QED BY <1>4, <2>1, <2>2
<1>9. SecRows'
  <2>1. \A e : Sec!LookupSection(e)' = Sec!LookupSection(e) BY <1>1 DEF Sec!LookupSection
  <2> QED BY <1>1, <1>8 DEF SecRows, Sec!LookupSection
<1> QED BY <1>5, <1>6, <1>7, <1>9 DEF SecInv

LEMMA SecStep == ASSUME Loading => SecInv, [Next]_vars PROVE (Loading => SecInv)'
<1> SUFFICES ASSUME Loading' PROVE SecInv' OBVIOUS
<1>1. CASE LoadImage BY <1>1, SecEnters
<1>2. CASE Loading /\ Sec!Next
  BY <1>2, SecSignatures, SecFileHeader, SecOptional, SecSection, SecRow DEF Sec!Next
<1>3. CASE Loading /\ UNCHANGED <<image, step, loaded, built, rows>>
  <2>1. SecTyped' BY <1>3 DEF SecInv, SecTyped
  <2>2. SecRead' BY <1>3 DEF SecInv, SecRead
  <2>3. SecSections' BY <1>3 DEF SecInv, SecSections
  <2>4. SecRows' BY <1>3 DEF SecInv, SecRows, Sec!LookupSection
  <2> QED BY <2>1, <2>2, <2>3, <2>4 DEF SecInv
<1> QED BY <1>1, <1>2, <1>3, LoadingSteps

LEMMA SecInvHolds == Spec => [](Loading => SecInv)
<1>1. Init => (Loading => SecInv) BY DEF Init, Loading
<1> QED BY <1>1, SecStep, PTL DEF Spec

(* Where no end leaves its bits, the comparer takes the sections that hold *)
(* a directory.                                                            *)
LEMMA ComparerHolds ==
  ASSUME NEW d \in Region, NEW s \in Header, d.size # 0, Sec!Fits(d), Sec!Fits(s)
  PROVE  Sec!Comparer(d, s) <=> Sec!Holds(s, d)
<1>1. /\ d.va \in Nat /\ d.size \in Nat /\ d.size > 0 /\ s.va \in Nat /\ s.size \in Nat
      /\ 2 ^ SumBits \in Nat
  BY PowersAssumption DEF Region, Header
<1> DEFINE P == 2 ^ SumBits
<1>2. d.va + d.size < P /\ s.va + s.size < P BY DEF Sec!Fits
<1>3. P \in Nat BY <1>1
<1> HIDE DEF P
<1>4. \A n \in Nat : n < P => n % P = n BY <1>3
<1>5. (d.va + d.size) % P = d.va + d.size /\ (s.va + s.size) % P = s.va + s.size
  BY <1>1, <1>2, <1>4
<1>6. Sec!Comparer(d, s) <=> d.va >= s.va /\ d.va + d.size <= s.va + s.size
  BY <1>5 DEF Sec!Comparer, P
<1>7. ASSUME Sec!Holds(s, d) PROVE d.va >= s.va /\ d.va + d.size <= s.va + s.size
  <2>1. d.va \in d.va .. d.va + d.size - 1 /\ d.va + d.size - 1 \in d.va .. d.va + d.size - 1
    BY <1>1
  <2>2. d.va \in s.va .. s.va + s.size - 1 /\ d.va + d.size - 1 \in s.va .. s.va + s.size - 1
    BY <1>7, <2>1 DEF Sec!Holds
  <2> QED BY <1>1, <2>2
<1>8. ASSUME d.va >= s.va, d.va + d.size <= s.va + s.size PROVE Sec!Holds(s, d)
  BY <1>1, <1>8 DEF Sec!Holds
<1> QED BY <1>6, <1>7, <1>8

(* An image that Load accepts, or !sec prints a row of, has both           *)
(* signatures and the optional header of its machine, and what is kept of  *)
(* it is what is in memory up to the places where the reads stopped.       *)
THEOREM LoadIsFaithful == Spec => []LoadedIsTheImage
<1>1. (Loading => SecInv) => LoadedIsTheImage
  <2> SUFFICES ASSUME SecInv, loaded.base_ \/ rows # << >> PROVE Sec!LoadedIsTheImage
    BY DEF LoadedIsTheImage, Sec!LoadedIsTheImage
  <2>0. loaded.base_ BY DEF SecInv, SecTyped, SecRead
  <2>1. /\ DOMAIN image.dirs = 1 .. Len(image.dirs) /\ image.NumberOfSections \in Nat
        /\ Len(built) \in Nat /\ loaded.NumberOfSections \in Nat
    BY SecImage, LenProperties DEF SecInv, SecTyped, Object
  <2>2. image.Magic = IF loaded.is64bit_ THEN "PE32PLUS" ELSE "PE32"
    BY <2>0 DEF SecInv, SecRead, Sec!MagicOf
  <2>3. Len(built) <= image.NumberOfSections BY <2>1 DEF SecInv, SecTyped, SecRead
  <2> QED BY <2>0, <2>1, <2>2, <2>3 DEF SecInv, SecRead, SecSections, Sec!LoadedIsTheImage
<1> QED BY <1>1, SecInvHolds, PTL

(* The section !sec names for a directory holds all of it, and it names    *)
(* one if there is one, for every section table without an end beyond 32   *)
(* bits (LookupSection).                                                   *)
THEOREM SectionsHold == Spec => []SectionHoldsDirectory
<1>1. (Loading => SecInv) => SectionHoldsDirectory
  <2> SUFFICES ASSUME SecInv, NEW k \in 1 .. Len(rows),
                      loaded.directories_[k].va # 0, loaded.directories_[k].size # 0,
                      Sec!Fits(loaded.directories_[k]),
                      \A j \in 1 .. Len(built) : Sec!Fits(built[j])
               PROVE  LET holding == {j \in 1 .. Len(built) :
                                        Sec!Holds(built[j], loaded.directories_[k])}
                      IN  IF rows[k] = 0 THEN holding = {} ELSE rows[k] \in holding
    BY DEF SectionHoldsDirectory, Sec!SectionHoldsDirectory
  <2> DEFINE d == loaded.directories_[k]
  <2>1. built \in Seq(Header) /\ Len(built) \in Nat /\ \A j \in 1 .. Len(built) : built[j] \in Header
    BY LenProperties, ElementOfSeq DEF SecInv, SecTyped
  <2>2. d \in Region
    <3>1. /\ loaded.directories_ \in Seq(Region) /\ Len(rows) <= Len(loaded.directories_)
          /\ Len(rows) \in Nat /\ Len(loaded.directories_) \in Nat
      BY LenProperties DEF SecInv, SecTyped, Object
    <3>2. k \in 1 .. Len(loaded.directories_) BY <3>1
    <3> QED BY <3>1, <3>2, ElementOfSeq
  <2>3. rows[k] = Sec!LookupSection(d) BY DEF SecInv, SecRows
  <2> HIDE DEF d
  <2>4. Taken(d) = {j \in 1 .. Len(built) : Sec!Holds(built[j], d)}
    BY <2>1, <2>2, ComparerHolds DEF Taken, d
  <2>5. 0 \notin Taken(d) BY <2>1 DEF Taken
  <2> QED BY <2>1, <2>3, <2>4, <2>5, LookupFinds DEF d
<1> QED BY <1>1, SecInvHolds, PTL

-----------------------------------------------------------------------------
(***************************************************************************)
(* !cfg.  The inductive invariant: the place p is that of row i, and if    *)
(* the table fits, each row so far is its place, or says that it was not   *)
(* read: also if the size of an item was lost, as items are then taken for *)
(* smaller ones.                                                           *)
(***************************************************************************)
Table == {"config", "table", "rows", "end", "crashed"}
Copies == (0 .. Cfg!table_size - 4) \cup {Cfg!NotRead, Cfg!Garbage}

CfgTyped ==
  /\ image \in GuardImages /\ loaded \in Config /\ step \in Table
  /\ built \in 0 .. Cfg!table_size
  /\ index \in 0 .. loaded.Count /\ raw = index * Cfg!item_size
  /\ rows \in Seq(Int) /\ Len(rows) = index
  /\ \A k \in 1 .. index : rows[k] \in Copies
  /\ step \in {"config", "table"} => index = 0
  /\ step = "config" => built = 0

(* What was loaded is no more than is described. *)
CfgPart == loaded.Extra \in {0, Cfg!Described.Extra} /\ loaded.Count <= Cfg!Described.Count

CfgRows ==
  /\ step = "end" /\ rows # << >> => Len(rows) = loaded.Count
  /\ Cfg!Fits =>
    /\ step # "crashed"
    /\ \A k \in 1 .. Len(rows) :
         LET at == (k - 1) * Cfg!item_size
         IN  rows[k] = IF at + 4 <= built THEN at ELSE Cfg!NotRead

CfgInv == CfgTyped /\ CfgPart /\ CfgRows

(* The steps that lead to a state of !cfg. *)
LEMMA CfgSteps ==
  ASSUME [Next]_vars, Walks({"cfg"})'
  PROVE  \/ /\ image' \in GuardImages
            /\ Locals(Cfg!First(image'), 0, 0, Cfg!NoConfig)
         \/ Walks({"cfg"}) /\ Cfg!Next
         \/ Walks({"cfg"}) /\ UNCHANGED <<image, step, loaded, built, index, raw, rows>>
<1>1. phase' = "walk" /\ command' = "cfg" BY DEF Walks
<1>2. CASE ArgsGiven BY <1>1, <1>2 DEF ArgsGiven
<1>3. CASE LoadImage BY <1>1, <1>3 DEF LoadImage
<1>4. CASE ImageLoaded BY <1>1, <1>4 DEF ImageLoaded
<1>5. CASE Dump BY <1>1, <1>5 DEF Dump
<1>6. CASE Step BY <1>1, <1>6 DEF Step, Loading, Parsing, Walks
<1>7. CASE UNCHANGED vars BY <1>7 DEF vars, Walks
<1> QED BY <1>2, <1>3, <1>4, <1>5, <1>6, <1>7 DEF Next

(* The size of a table that fits. *)
LEMMA TableSize ==
  ASSUME loaded \in Config
  PROVE  /\ Cfg!item_size \in Nat /\ Cfg!item_size >= 4 /\ Cfg!item_size = 4 + loaded.Extra
         /\ loaded.Count \in Nat /\ Cfg!table_size \in Nat
<1>1. loaded.Extra \in Nat /\ loaded.Count \in Nat BY DEF Config
<1>2. Cfg!item_size \in Nat /\ Cfg!item_size >= 4 BY <1>1 DEF Cfg!item_size
<1> DEFINE P == 2 ^ SizeBits
<1>3. P \in Nat \ {0} BY PowersAssumption
<1> HIDE DEF P
<1>4. Cfg!item_size * loaded.Count \in Nat BY <1>1, <1>2
<1>5. Cfg!table_size = (Cfg!item_size * loaded.Count) % P BY DEF Cfg!table_size, P
<1>6. Cfg!table_size \in Nat BY <1>3, <1>4, <1>5
<1> QED BY <1>1, <1>2, <1>6 DEF Cfg!item_size

(* What the guard members of an image are. *)
LEMMA DescribedTyped ==
  ASSUME image \in GuardImages
  PROVE  Cfg!Described \in Config /\ Cfg!Described.Extra \in Nat /\ Cfg!Described.Count \in Nat
BY GuardImagesAssumption DEF Cfg!Described, Config

(* The table of an image that fits is as large as its items, and not       *)
(* larger if they are taken for smaller or fewer ones.                     *)
LEMMA FittingSize ==
  ASSUME loaded \in Config, image \in GuardImages, Cfg!Fits, CfgPart
  PROVE  Cfg!table_size = Cfg!item_size * loaded.Count /\ Cfg!item_size <= 8
<1> DEFINE P == 2 ^ SizeBits
           e == loaded.Extra
           c == loaded.Count
           E == Cfg!Described.Extra
           C == Cfg!Described.Count
<1>1. /\ e \in Nat /\ c \in Nat /\ E \in Nat /\ C \in Nat
      /\ e \in {0, E} /\ c <= C
  BY DescribedTyped DEF Config, CfgPart
<1>2. P \in Nat \ {0} BY PowersAssumption
<1>3. Cfg!table_size = ((4 + e) * c) % P /\ Cfg!item_size = 4 + e
  BY DEF Cfg!table_size, Cfg!item_size
<1>4. E <= 4 /\ (4 + E) * C < P BY DEF Cfg!Fits
<1> HIDE DEF P, e, c, E, C
<1>5. (4 + e) * c \in Nat /\ (4 + e) * c < P
  <2>1. E \in 0 .. 4 BY <1>1, <1>4
  <2>2. CASE E = 0 BY <1>1, <1>2, <1>4, <2>2
  <2>3. CASE E = 1 BY <1>1, <1>2, <1>4, <2>3
  <2>4. CASE E = 2 BY <1>1, <1>2, <1>4, <2>4
  <2>5. CASE E = 3 BY <1>1, <1>2, <1>4, <2>5
  <2>6. CASE E = 4 BY <1>1, <1>2, <1>4, <2>6
  <2> QED BY <2>1, <2>2, <2>3, <2>4, <2>5, <2>6
<1>6. \A n \in Nat : n < P => n % P = n BY <1>2
<1>7. Cfg!table_size = (4 + e) * c BY <1>3, <1>5, <1>6
<1>8. Cfg!item_size <= 8 BY <1>1, <1>3, <1>4
<1> QED BY <1>3, <1>7, <1>8 DEF c

(* Places in the table. *)
LEMMA Places ==
  ASSUME NEW s \in Nat, NEW i \in Nat, NEW c \in Nat, i < c
  PROVE  /\ i * s \in Nat /\ i * s + s = (i + 1) * s
         /\ i * s + s <= s * c
<1>1. i * s \in Nat /\ i * s + s = (i + 1) * s OBVIOUS
<1>2. c - (i + 1) \in Nat BY SMT
<1>3. \A d \in Nat : s * (i + 1 + d) = i * s + s + s * d /\ s * d >= 0 BY SMT
<1>4. c = i + 1 + (c - (i + 1)) OBVIOUS
<1> QED BY <1>1, <1>2, <1>3, <1>4

LEMMA CfgEnters ==
  ASSUME image' \in GuardImages, Locals(Cfg!First(image'), 0, 0, Cfg!NoConfig)
  PROVE  CfgInv'
<1>1. /\ step' = Cfg!First(image') /\ raw' = 0 /\ index' = 0 /\ built' = 0
      /\ loaded' = Cfg!NoConfig /\ rows' = << >>
  BY DEF Locals
<1>2. Cfg!NoConfig \in Config /\ Cfg!NoConfig.Count = 0 BY DEF Cfg!NoConfig, Config
<1>3. << >> \in Seq(Int) /\ Len(<< >>) = 0 BY EmptySeq
<1>4. step' \in Table BY <1>1 DEF Cfg!First, Table
<1>5. built' \in 0 .. Cfg!table_size' /\ raw' = index' * Cfg!item_size'
  <2>1. loaded' \in Config BY <1>1, <1>2
  <2>2. Cfg!table_size' \in Nat /\ Cfg!item_size' \in Nat
    <3>1. loaded'.Extra \in Nat /\ loaded'.Count \in Nat BY <2>1 DEF Config
    <3> DEFINE P == 2 ^ SizeBits
    <3>2. P \in Nat \ {0} BY PowersAssumption
    <3> HIDE DEF P
    <3>3. Cfg!item_size' \in Nat BY <3>1 DEF Cfg!item_size
    <3>4. Cfg!table_size' = (Cfg!item_size' * loaded'.Count) % P
      BY DEF Cfg!table_size, Cfg!item_size, P
    <3>5. Cfg!item_size' * loaded'.Count \in Nat BY <3>1, <3>3
    <3> QED BY <3>2, <3>3, <3>4, <3>5
  <2>3. \A n \in Nat : 0 \in 0 .. n /\ 0 = 0 * n OBVIOUS
  <2> QED BY <1>1, <2>2, <2>3
<1>6. CfgTyped' BY <1>1, <1>2, <1>3, <1>4, <1>5 DEF CfgTyped
<1>7. CfgRows' BY <1>1, <1>3 DEF CfgRows, Cfg!First
<1>8. CfgPart'
  <2>1. Cfg!Described'.Count \in Nat BY GuardImagesAssumption DEF Cfg!Described, Config
  <2> QED BY <1>1, <2>1 DEF CfgPart, Cfg!NoConfig
<1> QED BY <1>6, <1>7, <1>8 DEF CfgInv

LEMMA CfgLoadConfig == ASSUME CfgInv, Cfg!LoadConfig PROVE CfgInv'
<1>1. /\ step = "config" /\ step' = "table" /\ UNCHANGED <<image, built, index, raw, rows>>
      /\ loaded' \in {Cfg!Described} \cup [Extra: {0}, Count: Cfg!Cut(Cfg!Described.Count)]
  BY DEF Cfg!LoadConfig
<1>2. /\ image \in GuardImages /\ index = 0 /\ built = 0 /\ rows \in Seq(Int) /\ Len(rows) = 0
      /\ raw = 0 * Cfg!item_size /\ loaded \in Config
  BY <1>1 DEF CfgInv, CfgTyped
<1>3. loaded' \in Config /\ loaded'.Extra \in {0, Cfg!Described.Extra}
      /\ loaded'.Count <= Cfg!Described.Count
  <2> DEFINE c == Cfg!Described.Count
  <2>1. Cfg!Described \in Config /\ c \in Nat BY <1>2, DescribedTyped
  <2>2. \A y \in Cfg!Cut(c) : y \in Nat /\ y <= c
    <3> HIDE DEF c
    <3> QED BY <2>1, CutIsPart
  <2>3. CASE loaded' = Cfg!Described BY <2>1, <2>3
  <2>4. CASE loaded' \in [Extra: {0}, Count: Cfg!Cut(c)] BY <2>2, <2>4 DEF Config
  <2> QED BY <1>1, <2>3, <2>4
<1>4. /\ Cfg!item_size' \in Nat /\ Cfg!table_size' \in Nat /\ loaded'.Count \in Nat
  <2>1. loaded'.Extra \in Nat /\ loaded'.Count \in Nat BY <1>3 DEF Config
  <2> DEFINE P == 2 ^ SizeBits
  <2>2. P \in Nat \ {0} BY PowersAssumption
  <2> HIDE DEF P
  <2>3. Cfg!item_size' \in Nat BY <2>1 DEF Cfg!item_size
  <2>4. Cfg!table_size' = (Cfg!item_size' * loaded'.Count) % P
    BY DEF Cfg!table_size, Cfg!item_size, P
  <2>5. Cfg!item_size' * loaded'.Count \in Nat BY <2>1, <2>3
  <2> QED BY <2>1, <2>2, <2>3, <2>4, <2>5
<1>5. raw' = index' * Cfg!item_size' BY <1>1, <1>2, <1>4, TableSize
<1>6. CfgTyped'
  <2>1. index' = 0 /\ \A n \in Nat : 0 \in 0 .. n BY <1>1, <1>2
  <2>2. \A k \in 1 .. index' : FALSE BY <2>1
  <2> QED BY <1>1, <1>2, <1>3, <1>4, <1>5, <2>1, <2>2 DEF CfgTyped, Table
<1>7. CfgRows' BY <1>1, <1>2 DEF CfgRows, Cfg!Fits
<1>8. CfgPart' BY <1>1, <1>3 DEF CfgPart, Cfg!Described
<1> QED BY <1>6, <1>7, <1>8 DEF CfgInv

LEMMA CfgReadTable == ASSUME CfgInv, Cfg!ReadTable PROVE CfgInv'
<1>1. /\ step = "table" /\ UNCHANGED <<image, loaded, index, raw, rows>>
      /\ step' \in {"end", "rows"}
      /\ built' = built \/ built' \in 0 .. Cfg!table_size
  BY DEF Cfg!ReadTable
<1>2. Cfg!table_size' = Cfg!table_size /\ Cfg!item_size' = Cfg!item_size
  BY <1>1 DEF Cfg!table_size, Cfg!item_size
<1>3. index = 0 /\ Len(rows) = 0 /\ rows = << >>
  BY <1>1, EmptySeq DEF CfgInv, CfgTyped
<1>4. CfgTyped' BY <1>1, <1>2, <1>3 DEF CfgInv, CfgTyped, Table
<1>5. CfgRows' BY <1>1, <1>3 DEF CfgInv, CfgRows, Cfg!Fits
<1>6. CfgPart' BY <1>1 DEF CfgInv, CfgPart, Cfg!Described
<1> QED BY <1>4, <1>5, <1>6 DEF CfgInv

LEMMA CfgPrintRow == ASSUME CfgInv, Cfg!PrintRow PROVE CfgInv'
<1>1. /\ step = "rows" /\ UNCHANGED <<image, loaded, built>> /\ index < loaded.Count
      /\ loaded \in Config /\ image \in GuardImages /\ rows \in Seq(Int) /\ Len(rows) = index
      /\ index \in 0 .. loaded.Count /\ built \in 0 .. Cfg!table_size
      /\ raw = index * Cfg!item_size
  BY DEF Cfg!PrintRow, Cfg!InLoop, CfgInv, CfgTyped
<1>2. /\ Cfg!item_size \in Nat /\ Cfg!item_size >= 4 /\ loaded.Count \in Nat
      /\ Cfg!table_size \in Nat /\ index \in Nat
  BY <1>1, TableSize
<1>3. raw \in Nat /\ raw + Cfg!item_size = (index + 1) * Cfg!item_size
      /\ raw + Cfg!item_size <= Cfg!item_size * loaded.Count
  BY <1>1, <1>2, Places
<1>4. Cfg!table_size' = Cfg!table_size /\ Cfg!item_size' = Cfg!item_size
      /\ Cfg!Fits' = Cfg!Fits /\ CfgPart' /\ CfgPart
  BY <1>1 DEF Cfg!table_size, Cfg!item_size, Cfg!Fits, Cfg!Described, CfgInv, CfgPart
<1>5. Cfg!Copied = (IF raw + 4 <= built THEN raw ELSE Cfg!NotRead)
      /\ Cfg!NotRead \in Int /\ Cfg!Garbage \in Int
  BY DEF Cfg!Copied, Cfg!NotRead, Cfg!Garbage
<1>6. Cfg!Copied \in Copies BY <1>1, <1>2, <1>3, <1>5 DEF Copies
<1>7. CASE ~Cfg!InBounds /\ step' = "crashed" /\ UNCHANGED <<index, raw, rows>>
  <2>1. ~Cfg!Fits
    <3>1. SUFFICES ASSUME Cfg!Fits PROVE FALSE OBVIOUS
    <3>3. Cfg!table_size = Cfg!item_size * loaded.Count /\ Cfg!item_size <= 8
      BY <1>1, <1>4, <3>1, FittingSize
    <3> QED BY <1>3, <1>7, <3>3 DEF Cfg!InBounds
  <2>2. CfgTyped' BY <1>1, <1>4, <1>7 DEF CfgInv, CfgTyped, Table, Copies
  <2>3. CfgRows' BY <1>4, <1>7, <2>1 DEF CfgRows
  <2> QED BY <1>4, <2>2, <2>3 DEF CfgInv
<1>8. CASE /\ rows' = Append(rows, IF Cfg!InBounds THEN Cfg!Copied ELSE Cfg!Garbage)
           /\ index' = index + 1 /\ raw' = raw + Cfg!item_size /\ UNCHANGED step
  <2> DEFINE x == IF Cfg!InBounds THEN Cfg!Copied ELSE Cfg!Garbage
  <2>1. x \in Copies /\ x \in Int BY <1>2, <1>3, <1>5, <1>6 DEF Copies
  <2> HIDE DEF x
  <2>2. rows' = Append(rows, x) BY <1>8 DEF x
  <2>3. /\ rows' \in Seq(Int) /\ Len(rows') = index + 1 /\ rows'[index + 1] = x
        /\ \A j \in 1 .. index : rows'[j] = rows[j]
        /\ \A j \in 1 .. index + 1 : j \in 1 .. index \/ j = index + 1
    BY <1>1, <2>1, <2>2, Appended
  <2>4. \A k \in 1 .. index + 1 : rows'[k] \in Copies
    BY <2>1, <2>3 DEF CfgInv, CfgTyped
  <2>5. index + 1 \in 0 .. loaded.Count BY <1>1, <1>2
  <2>6. CfgTyped'
    BY <1>1, <1>3, <1>4, <1>8, <2>3, <2>4, <2>5 DEF CfgInv, CfgTyped, Copies
  <2>7. ASSUME Cfg!Fits
        PROVE  \A k \in 1 .. index + 1 :
                 LET at == (k - 1) * Cfg!item_size
                 IN  rows'[k] = IF at + 4 <= built THEN at ELSE Cfg!NotRead
    <3>2. Cfg!table_size = Cfg!item_size * loaded.Count /\ Cfg!item_size <= 8
      BY <1>1, <1>4, <2>7, FittingSize
    <3>3. Cfg!InBounds BY <1>3, <3>2 DEF Cfg!InBounds
    <3>4. x = IF raw + 4 <= built THEN raw ELSE Cfg!NotRead BY <1>5, <3>3 DEF x
    <3>5. ASSUME NEW k \in 1 .. index
          PROVE  rows'[k] = IF (k - 1) * Cfg!item_size + 4 <= built THEN (k - 1) * Cfg!item_size
                            ELSE Cfg!NotRead
      BY <1>1, <2>3, <2>7 DEF CfgInv, CfgRows
    <3>6. ASSUME NEW k \in 1 .. index + 1
          PROVE  rows'[k] = IF (k - 1) * Cfg!item_size + 4 <= built THEN (k - 1) * Cfg!item_size
                            ELSE Cfg!NotRead
      <4>1. CASE k \in 1 .. index BY <3>5, <4>1
      <4>2. CASE k = index + 1
        <5>1. k - 1 = index BY <1>2, <4>2
        <5>2. (k - 1) * Cfg!item_size = raw BY <1>1, <5>1
        <5> QED BY <2>3, <3>4, <4>2, <5>2
      <4> QED BY <2>3, <4>1, <4>2
    <3> QED BY <3>6
  <2>8. CfgRows' BY <1>1, <1>4, <1>8, <2>3, <2>7 DEF CfgRows
  <2> QED BY <1>4, <2>6, <2>8 DEF CfgInv
<1> QED BY <1>7, <1>8 DEF Cfg!PrintRow, Cfg!Step

(* The end of the rows, and steps that change nothing. *)
LEMMA CfgStays ==
  ASSUME CfgInv, UNCHANGED <<image, loaded, built, index, raw, rows>>,
         step' = step \/ (step = "rows" /\ step' = "end" /\ ~Cfg!InLoop)
  PROVE  CfgInv'
<1>1. Cfg!table_size' = Cfg!table_size /\ Cfg!item_size' = Cfg!item_size
      /\ Cfg!Fits' = Cfg!Fits /\ CfgPart'
  BY DEF Cfg!table_size, Cfg!item_size, Cfg!Fits, Cfg!Described, CfgInv, CfgPart
<1>2. CfgTyped' BY <1>1 DEF CfgInv, CfgTyped, Copies, Table
<1>3. step' = "end" /\ step # "end" => Len(rows) = loaded.Count
  <2>1. loaded.Count \in Nat /\ index \in 0 .. loaded.Count /\ Len(rows) = index
    BY DEF CfgInv, CfgTyped, Config
  <2> QED BY <2>1 DEF Cfg!InLoop
<1>4. CfgRows' BY <1>1, <1>3 DEF CfgInv, CfgRows
<1> QED BY <1>1, <1>2, <1>4 DEF CfgInv

LEMMA CfgStep ==
  ASSUME Walks({"cfg"}) => CfgInv, [Next]_vars
  PROVE  (Walks({"cfg"}) => CfgInv)'
<1> SUFFICES ASSUME Walks({"cfg"})' PROVE CfgInv' OBVIOUS
<1>1. CASE image' \in GuardImages /\ Locals(Cfg!First(image'), 0, 0, Cfg!NoConfig)
  BY <1>1, CfgEnters
<1>2. CASE Walks({"cfg"}) /\ Cfg!Next
  <2>1. CASE Cfg!RowsEnd BY <1>2, <2>1, CfgStays DEF Cfg!RowsEnd
  <2> QED BY <1>2, <2>1, CfgLoadConfig, CfgReadTable, CfgPrintRow DEF Cfg!Next
<1>3. CASE Walks({"cfg"}) /\ UNCHANGED <<image, step, loaded, built, index, raw, rows>>
  BY <1>3, CfgStays
<1> QED BY <1>1, <1>2, <1>3, CfgSteps

LEMMA CfgInvHolds == Spec => [](Walks({"cfg"}) => CfgInv)
<1>1. Init => (Walks({"cfg"}) => CfgInv) BY DEF Init, Walks
<1> QED BY <1>1, CfgStep, PTL DEF Spec

(* For every table whose items fit in two words and whose size fits in its *)
(* variable, and wherever the reads of the configuration and of the table  *)
(* stopped: the copies stay in the buffer, the rows go on to the end of    *)
(* what was loaded, and row k is item k if the size of an item was loaded. *)
THEOREM RowsAreItems == Spec => []RowsOfTheTable
<1>1. (Walks({"cfg"}) => CfgInv) => RowsOfTheTable
  <2> SUFFICES ASSUME CfgInv, Cfg!Fits PROVE Cfg!RowsOfTheTable
    BY DEF RowsOfTheTable, Cfg!RowsOfTheTable
  <2> DEFINE E == Cfg!Described.Extra
  <2>1. /\ loaded \in Config /\ image \in GuardImages /\ index \in 0 .. loaded.Count
        /\ Len(rows) = index /\ built \in 0 .. Cfg!table_size
        /\ step # "crashed" /\ (step = "end" /\ rows # << >> => Len(rows) = loaded.Count)
    BY DEF CfgInv, CfgTyped, CfgRows
  <2>2. ASSUME loaded.Extra = E, NEW k \in 1 .. Len(rows)
        PROVE  LET at == (k - 1) * (4 + E)
               IN  rows[k] \in {at, Cfg!NotRead} /\ (at + 4 + E <= built => rows[k] = at)
    <3>2. Cfg!item_size = 4 + E /\ E \in Nat
      BY <2>1, <2>2, DescribedTyped DEF Cfg!item_size
    <3> DEFINE at == (k - 1) * (4 + E)
    <3>3. rows[k] = IF at + 4 <= built THEN at ELSE Cfg!NotRead
      BY <3>2 DEF CfgInv, CfgRows
    <3>4. Cfg!table_size \in Nat /\ loaded.Count \in Nat BY <2>1, TableSize
    <3>5. k - 1 \in Nat /\ built \in Nat BY <2>1, <3>4
    <3> HIDE DEF E
    <3>6. at \in Nat BY <3>2, <3>5, Places
    <3> HIDE DEF at
    <3>7. at + 4 + E <= built => at + 4 <= built BY <3>2, <3>5, <3>6
    <3> QED BY <3>3, <3>7 DEF at
  <2> QED BY <2>1, <2>2 DEF Cfg!RowsOfTheTable
<1> QED BY <1>1, CfgInvHolds, PTL

-----------------------------------------------------------------------------
(***************************************************************************)
(* !ext.  The inductive invariant: which elements of the three arrays were *)
(* read is known from the step and the loop counter, so are the functions  *)
(* that have a row.  The elements themselves are those of the table.       *)
(***************************************************************************)
NoF == image.NumberOfFunctions
Text == {""} \cup UNION {{img.strings[r] : r \in DOMAIN img.strings} : img \in ExportImages}
Cells == [entry_: Nat, name_: Text]
ExportRow == [ordinal: Nat, name: Text, forward: BOOLEAN, target: Text]

(* The names of function k among the first m of the array of names. *)
NumbersOf(img, k, m) == {n \in 0 .. m - 1 : img.ordinals[n] = k}
NamesAmong(img, k, m) == {img.strings[img.names[n]] : n \in NumbersOf(img, k, m)}
NamesRead == CASE step = "functions" -> 0
               [] step = "names" -> index
               [] OTHER -> image.NumberOfNames

(* How many functions a row was made for, if they are used. *)
RowsMade == IF image.dir.va = 0 THEN 0
            ELSE IF step = "rows" THEN index
            ELSE IF step = "end" THEN NoF ELSE 0

(* The row of a function of the table t below number m. *)
IsRowOf(r, img, t, m) ==
  /\ r.ordinal \in 0 .. m - 1 /\ t[r.ordinal].entry_ # 0 /\ r.name = t[r.ordinal].name_
  /\ r.forward <=> /\ t[r.ordinal].entry_ >= img.dir.va
                   /\ t[r.ordinal].entry_ < img.dir.va + img.dir.size

ExtTyped ==
  /\ image \in ExportImages /\ step \in {"functions", "names", "rows", "end", "crashed"}
  /\ index \in Nat /\ (index = 0 \/ index < IF step \in {"names", "crashed"}
                                            THEN image.NumberOfNames ELSE NoF)
  /\ built \in [0 .. NoF - 1 -> Cells] /\ rows \in Seq(ExportRow)
  /\ image.dir.va = 0 => step = "end"

EntriesRead ==
  image.dir.va # 0 =>
    \A k \in 0 .. NoF - 1 :
      built[k].entry_ = IF step = "functions" /\ k >= index THEN 0 ELSE Ext!At(image.functions, k, 0)

NamesJoined ==
  Ext!Whole /\ Ext!InTable /\ image.dir.va # 0 =>
    /\ step # "crashed"
    /\ \A k \in 0 .. NoF - 1 :
         IF NamesAmong(image, k, NamesRead) = {} THEN built[k].name_ = ""
         ELSE built[k].name_ \in NamesAmong(image, k, NamesRead)

RowsAreMade ==
  /\ \A n \in 1 .. Len(rows) : IsRowOf(rows[n], image, built, RowsMade)
  /\ \A k \in 0 .. RowsMade - 1 : built[k].entry_ # 0 => \E n \in 1 .. Len(rows) : rows[n].ordinal = k
  /\ \A n \in 1 .. Len(rows) - 1 : rows[n].ordinal < rows[n + 1].ordinal

ExtInv == ExtTyped /\ EntriesRead /\ NamesJoined /\ RowsAreMade

(* The steps that lead to a state of !ext. *)
LEMMA ExtSteps ==
  ASSUME [Next]_vars, Walks({"ext"})'
  PROVE  \/ /\ image' \in ExportImages
            /\ Locals(Ext!First(image'), 0, Ext!NoRows(image'.NumberOfFunctions), 0)
         \/ Walks({"ext"}) /\ Ext!Next
         \/ Walks({"ext"}) /\ UNCHANGED <<image, step, built, index, rows>>
<1>1. phase' = "walk" /\ command' = "ext" BY DEF Walks
<1>2. CASE ArgsGiven BY <1>1, <1>2 DEF ArgsGiven
<1>3. CASE LoadImage BY <1>1, <1>3 DEF LoadImage
<1>4. CASE ImageLoaded BY <1>1, <1>4 DEF ImageLoaded
<1>5. CASE Dump BY <1>1, <1>5 DEF Dump
<1>6. CASE Step BY <1>1, <1>6 DEF Step, Loading, Parsing, Walks
<1>7. CASE UNCHANGED vars BY <1>7 DEF vars, Walks
<1> QED BY <1>2, <1>3, <1>4, <1>5, <1>6, <1>7 DEF Next

(* What an export directory is. *)
LEMMA ExtImage ==
  ASSUME NEW img \in ExportImages
  PROVE  /\ img.NumberOfFunctions \in Nat /\ img.NumberOfNames \in Nat
         /\ img.dir.va \in Nat /\ img.dir.size \in Nat
         /\ DOMAIN img.functions \subseteq 0 .. img.NumberOfFunctions - 1
         /\ \A f \in DOMAIN img.functions : img.functions[f] \in Nat
BY ExportImagesAssumption DEF Region

(* An element is what can be read of it, or 0. *)
LEMMA ElementsTyped ==
  ASSUME image \in ExportImages
  PROVE  /\ \A k : Ext!At(image.functions, k, 0) \in Nat
         /\ \A r : Ext!RvaString(r) \in Text
<1>1. \A k : Ext!At(image.functions, k, 0) \in Nat BY ExtImage DEF Ext!At
<1>2. ASSUME NEW r PROVE Ext!RvaString(r) \in Text
  <2>1. r \in DOMAIN image.strings => image.strings[r] \in {image.strings[q] : q \in DOMAIN image.strings}
    OBVIOUS
  <2>2. r \in DOMAIN image.strings => image.strings[r] \in Text BY <2>1 DEF Text
  <2>3. "" \in Text BY DEF Text
  <2> QED BY <2>2, <2>3 DEF Ext!RvaString, Ext!At
<1> QED BY <1>1, <1>2

(* What the loops have in common. *)
LEMMA Loops ==
  ASSUME NEW n \in Nat, NEW next, index \in Nat, index = 0 \/ index < n, Ext!Loop(n, next)
  PROVE  \/ index + 1 < n /\ index' = index + 1 /\ step' = step
         \/ index + 1 >= n /\ index' = 0 /\ step' = next /\ (n = 0 \/ index + 1 = n)
BY DEF Ext!Loop

LEMMA ExtEnters ==
  ASSUME image' \in ExportImages,
         Locals(Ext!First(image'), 0, Ext!NoRows(image'.NumberOfFunctions), 0)
  PROVE  ExtInv'
<1>1. /\ step' = Ext!First(image') /\ index' = 0 /\ rows' = << >>
      /\ built' = [k \in 0 .. image'.NumberOfFunctions - 1 |-> [entry_ |-> 0, name_ |-> ""]]
  BY DEF Locals, Ext!NoRows
<1>2. Len(<< >>) = 0 /\ << >> \in Seq(ExportRow) BY EmptySeq
<1>3. image'.NumberOfFunctions \in Nat /\ image'.NumberOfNames \in Nat BY ExtImage
<1>4. ExtTyped'
  <2>1. [entry_ |-> 0, name_ |-> ""] \in Cells BY DEF Cells, Text
  <2> QED BY <1>1, <1>2, <2>1 DEF ExtTyped, Ext!First, NoF
<1>5. step' = IF image'.dir.va = 0 THEN "end" ELSE "functions" BY <1>1 DEF Ext!First
<1>6. EntriesRead'
  <2> SUFFICES ASSUME image'.dir.va # 0
               PROVE  \A k \in 0 .. image'.NumberOfFunctions - 1 :
                        built'[k].entry_ = IF step' = "functions" /\ k >= index' THEN 0
                                           ELSE Ext!At(image'.functions, k, 0)
    BY DEF EntriesRead, NoF, Ext!At
  <2>1. \A k \in 0 .. image'.NumberOfFunctions - 1 : k >= 0 BY <1>3
  <2>2. \A k \in 0 .. image'.NumberOfFunctions - 1 : built'[k] = [entry_ |-> 0, name_ |-> ""]
    BY <1>1
  <2> QED BY <1>1, <1>5, <2>1, <2>2
<1>7. NamesJoined'
  <2>1. \A k : NamesAmong(image', k, 0) = {}
    <3>1. \A n : n \notin 0 .. 0 - 1 OBVIOUS
    <3> QED BY <3>1 DEF NamesAmong, NumbersOf
  <2>2. image'.dir.va # 0 => step' = "functions" /\ NamesRead' = 0 BY <1>5 DEF NamesRead
  <2>3. \A k \in 0 .. image'.NumberOfFunctions - 1 : built'[k].name_ = "" BY <1>1
  <2> QED BY <2>1, <2>2, <2>3 DEF NamesJoined, NoF
<1>8. RowsAreMade'
  <2>1. RowsMade' = 0 BY <1>5 DEF RowsMade
  <2>2. Len(rows') = 0 BY <1>1, <1>2
  <2> QED BY <2>1, <2>2 DEF RowsAreMade
<1> QED BY <1>4, <1>6, <1>7, <1>8 DEF ExtInv

(* table[i].entry_ = AddressOfFunctions[i] *)
LEMMA ExtReadFunction == ASSUME ExtInv, Ext!ReadFunction PROVE ExtInv'
<1>1. /\ step = "functions" /\ UNCHANGED <<image, rows>> /\ image \in ExportImages
      /\ image.dir.va # 0 /\ index \in Nat /\ (index = 0 \/ index < NoF)
      /\ built \in [0 .. NoF - 1 -> Cells] /\ rows \in Seq(ExportRow) /\ RowsMade = 0
  BY DEF Ext!ReadFunction, ExtInv, ExtTyped, RowsMade
<1>2. NoF \in Nat /\ image.NumberOfNames \in Nat /\ NoF' = NoF BY <1>1, ExtImage DEF NoF
<1>3. \/ index + 1 < NoF /\ index' = index + 1 /\ step' = step
      \/ index + 1 >= NoF /\ index' = 0 /\ step' = "names" /\ (NoF = 0 \/ index + 1 = NoF)
  BY <1>1, <1>2, Loops DEF Ext!ReadFunction, NoF
<1> DEFINE e == Ext!At(image.functions, index, 0)
<1>4. built' = IF index \in DOMAIN built THEN [built EXCEPT ![index].entry_ = e] ELSE built
  BY DEF Ext!ReadFunction
<1>5. e \in Nat BY <1>1, ElementsTyped
<1> HIDE DEF e
<1>6. /\ built' \in [0 .. NoF - 1 -> Cells]
      /\ \A k \in 0 .. NoF - 1 :
           /\ built'[k].name_ = built[k].name_
           /\ built'[k].entry_ = IF k = index THEN e ELSE built[k].entry_
  BY <1>1, <1>4, <1>5 DEF Cells
<1>7. ExtTyped' BY <1>1, <1>2, <1>3, <1>6 DEF ExtTyped
<1>8. EntriesRead'
  <2>1. ASSUME NEW k \in 0 .. NoF - 1
        PROVE  built'[k].entry_ = IF step' = "functions" /\ k >= index' THEN 0
                                  ELSE Ext!At(image.functions, k, 0)
    <3>1. built[k].entry_ = IF k >= index THEN 0 ELSE Ext!At(image.functions, k, 0)
      BY <1>1 DEF ExtInv, EntriesRead
    <3>2. CASE k = index BY <1>1, <1>2, <1>3, <1>6, <3>2 DEF e
    <3>3. CASE k # index BY <1>1, <1>2, <1>3, <1>6, <3>1, <3>3
    <3> QED BY <3>2, <3>3
  <2> QED BY <1>1, <1>2, <2>1 DEF EntriesRead, Ext!At
<1>9. NamesRead = 0 /\ NamesRead' = 0 BY <1>1, <1>3 DEF NamesRead
<1>10. NamesJoined'
  <2>1. Ext!Whole' = Ext!Whole /\ Ext!InTable' = Ext!InTable
    BY <1>1, <1>2, <1>6 DEF Ext!Whole, Ext!InTable
  <2> QED BY <1>1, <1>2, <1>3, <1>6, <1>9, <2>1 DEF ExtInv, NamesJoined
<1>11. RowsAreMade'
  <2>1. RowsMade' = 0 BY <1>1, <1>3 DEF RowsMade
  <2>2. Len(rows) = 0
    <3>1. \A n \in 1 .. Len(rows) : FALSE BY <1>1 DEF ExtInv, RowsAreMade, IsRowOf
    <3>2. Len(rows) \in Nat BY <1>1, LenProperties
    <3> QED BY <3>1, <3>2
  <2> QED BY <1>1, <2>1, <2>2 DEF RowsAreMade
<1> QED BY <1>7, <1>8, <1>10, <1>11 DEF ExtInv

(* The names of a function among one more element of the array. *)
LEMMA NamesGrow ==
  ASSUME Ext!Whole, NEW m \in Nat, m < image.NumberOfNames, NEW k
  PROVE  NamesAmong(image, k, m + 1) = NamesAmong(image, k, m)
           \cup (IF image.ordinals[m] = k THEN {image.strings[image.names[m]]} ELSE {})
<1>1. \A n : n \in 0 .. m <=> n \in 0 .. m - 1 \/ n = m OBVIOUS
<1>2. NumbersOf(image, k, m + 1) = NumbersOf(image, k, m) \cup (IF image.ordinals[m] = k THEN {m} ELSE {})
  BY <1>1 DEF NumbersOf
<1> QED BY <1>2 DEF NamesAmong

(* table[AddressOfNameOrdinals[i]].name_ = AddressOfNames[i] *)
LEMMA ExtReadName == ASSUME ExtInv, Ext!ReadName PROVE ExtInv'
<1>1. /\ step = "names" /\ UNCHANGED <<image, rows>> /\ image \in ExportImages
      /\ image.dir.va # 0 /\ index \in Nat /\ (index = 0 \/ index < image.NumberOfNames)
      /\ built \in [0 .. NoF - 1 -> Cells] /\ rows \in Seq(ExportRow) /\ RowsMade = 0
      /\ NamesRead = index /\ DOMAIN built = 0 .. NoF - 1
  BY DEF Ext!ReadName, ExtInv, ExtTyped, RowsMade, NamesRead
<1>2. NoF \in Nat /\ image.NumberOfNames \in Nat /\ NoF' = NoF BY <1>1, ExtImage DEF NoF
<1>3. Len(rows) = 0
  <2>1. \A n \in 1 .. Len(rows) : FALSE BY <1>1 DEF ExtInv, RowsAreMade, IsRowOf
  <2>2. Len(rows) \in Nat BY <1>1, LenProperties
  <2> QED BY <2>1, <2>2
<1>4. Ext!Whole' = Ext!Whole /\ (built' \in [0 .. NoF - 1 -> Cells] => Ext!InTable' = Ext!InTable)
  BY <1>1, <1>2 DEF Ext!Whole, Ext!InTable
<1> DEFINE o == Ext!Ordinal(index)
           s == Ext!RvaString(Ext!At(image.names, index, 0))
           Loop == \/ index + 1 < image.NumberOfNames /\ index' = index + 1 /\ step' = step
                   \/ /\ index + 1 >= image.NumberOfNames /\ index' = 0 /\ step' = "rows"
                      /\ image.NumberOfNames = 0 \/ index + 1 = image.NumberOfNames
           Stored == /\ Loop
                     /\ built' = IF index < image.NumberOfNames
                                 THEN [built EXCEPT ![o].name_ = s] ELSE built
                     /\ index < image.NumberOfNames => o \in DOMAIN built
           Lost == /\ index < image.NumberOfNames /\ o \notin DOMAIN built /\ built' = built
                   /\ Loop \/ (step' = "crashed" /\ index' = index)
<1>5. Stored \/ Lost BY <1>1, <1>2, Loops DEF Ext!ReadName
<1>6. s \in Text BY <1>1, ElementsTyped
<1> HIDE DEF s
<1>7. /\ built' \in [0 .. NoF - 1 -> Cells]
      /\ \A k \in 0 .. NoF - 1 :
           /\ built'[k].entry_ = built[k].entry_
           /\ built'[k].name_ = IF Stored /\ index < image.NumberOfNames /\ k = o THEN s
                                ELSE built[k].name_
  <2>1. CASE Stored /\ index < image.NumberOfNames
    <3> HIDE DEF o, Loop
    <3>1. o \in 0 .. NoF - 1 /\ built' = [built EXCEPT ![o].name_ = s] BY <1>1, <2>1
    <3>2. built' \in [0 .. NoF - 1 -> Cells]
          /\ \A k \in 0 .. NoF - 1 : /\ built'[k].entry_ = built[k].entry_
                                     /\ built'[k].name_ = IF k = o THEN s ELSE built[k].name_
      BY <1>1, <1>6, <3>1 DEF Cells
    <3> QED BY <2>1, <3>2
  <2>2. CASE ~(Stored /\ index < image.NumberOfNames)
    <3>1. built' = built BY <1>5, <2>2
    <3> HIDE DEF Stored
    <3> QED BY <1>1, <2>2, <3>1
  <2> QED BY <2>1, <2>2
<1>8. /\ step' \in {"names", "rows", "crashed"} /\ index' \in Nat
      /\ index' = 0 \/ (index' < image.NumberOfNames /\ step' \in {"names", "crashed"})
  BY <1>1, <1>2, <1>5
<1>9. ExtTyped' BY <1>1, <1>2, <1>7, <1>8 DEF ExtTyped
<1>10. EntriesRead'
  <2>1. \A k \in 0 .. NoF - 1 : built[k].entry_ = Ext!At(image.functions, k, 0)
    BY <1>1 DEF ExtInv, EntriesRead
  <2> QED BY <1>1, <1>2, <1>7, <1>8, <2>1 DEF EntriesRead, Ext!At
<1>11. NamesJoined'
  <2>1. SUFFICES ASSUME Ext!Whole, Ext!InTable
        PROVE  /\ step' # "crashed"
               /\ \A k \in 0 .. NoF - 1 :
                    IF NamesAmong(image, k, NamesRead') = {} THEN built'[k].name_ = ""
                    ELSE built'[k].name_ \in NamesAmong(image, k, NamesRead')
    BY <1>1, <1>2, <1>4, <1>7 DEF NamesJoined
  <2>2. ASSUME index < image.NumberOfNames
        PROVE  o = image.ordinals[index] /\ o \in DOMAIN built /\ s = image.strings[image.names[index]]
    <3>1. index \in DOMAIN image.ordinals /\ index \in DOMAIN image.names
      BY <1>1, <1>2, <2>1, <2>2 DEF Ext!Whole
    <3>2. image.ordinals[index] \in DOMAIN built BY <2>1, <3>1 DEF Ext!InTable
    <3>3. image.names[index] \in DOMAIN image.strings BY <2>1, <3>1 DEF Ext!Whole
    <3> QED BY <3>1, <3>2, <3>3 DEF Ext!Ordinal, Ext!At, Ext!RvaString, s
  <2>3. Stored /\ step' # "crashed" BY <1>1, <1>5, <2>2
  <2>4. NamesRead' = IF index < image.NumberOfNames THEN index + 1 ELSE 0
    BY <1>1, <1>2, <2>3 DEF NamesRead
  <2>5. ASSUME NEW k \in 0 .. NoF - 1
        PROVE  IF NamesAmong(image, k, NamesRead') = {} THEN built'[k].name_ = ""
               ELSE built'[k].name_ \in NamesAmong(image, k, NamesRead')
    <3>1. IF NamesAmong(image, k, index) = {} THEN built[k].name_ = ""
          ELSE built[k].name_ \in NamesAmong(image, k, index)
      BY <1>1, <2>1 DEF ExtInv, NamesJoined
    <3>2. CASE index < image.NumberOfNames
      <4>1. NamesAmong(image, k, NamesRead') = NamesAmong(image, k, index)
              \cup (IF o = k THEN {s} ELSE {})
        BY <1>1, <2>1, <2>2, <2>4, <3>2, NamesGrow
      <4>2. built'[k].name_ = IF k = o THEN s ELSE built[k].name_ BY <1>7, <2>3, <3>2
      <4> HIDE DEF o
      <4> QED BY <3>1, <4>1, <4>2
    <3>3. CASE ~(index < image.NumberOfNames)
      <4>1. index = 0 /\ NamesRead' = index BY <1>1, <2>4, <3>3
      <4>2. built'[k].name_ = built[k].name_ BY <1>7, <3>3
      <4> QED BY <3>1, <4>1, <4>2
    <3> QED BY <3>2, <3>3
  <2> HIDE DEF Stored, Lost, Loop, o
  <2> QED BY <2>3, <2>5
<1>12. RowsAreMade'
  <2>1. RowsMade' = 0 BY <1>1, <1>2, <1>5 DEF RowsMade
  <2> QED BY <1>1, <1>3, <2>1 DEF RowsAreMade
<1> QED BY <1>9, <1>10, <1>11, <1>12 DEF ExtInv

(* A row, unless the entry is not used. *)
LEMMA ExtPrintRow == ASSUME ExtInv, Ext!PrintRow PROVE ExtInv'
<1>1. /\ step = "rows" /\ UNCHANGED <<image, built>> /\ image \in ExportImages
      /\ image.dir.va # 0 /\ index \in Nat /\ (index = 0 \/ index < NoF)
      /\ built \in [0 .. NoF - 1 -> Cells] /\ rows \in Seq(ExportRow) /\ RowsMade = index
      /\ NamesRead = image.NumberOfNames /\ DOMAIN built = 0 .. NoF - 1
  BY DEF Ext!PrintRow, ExtInv, ExtTyped, RowsMade, NamesRead
<1>2. NoF \in Nat /\ image.NumberOfNames \in Nat /\ NoF' = NoF BY <1>1, ExtImage DEF NoF
<1>3. \/ index + 1 < NoF /\ index' = index + 1 /\ step' = step
      \/ index + 1 >= NoF /\ index' = 0 /\ step' = "end" /\ (NoF = 0 \/ index + 1 = NoF)
  BY <1>1, <1>2, Loops DEF Ext!PrintRow, NoF
<1>4. RowsMade' = (IF NoF = 0 THEN 0 ELSE index + 1) /\ NamesRead' = image.NumberOfNames
  BY <1>1, <1>2, <1>3 DEF RowsMade, NamesRead
<1>5. EntriesRead' BY <1>1, <1>2, <1>3 DEF ExtInv, EntriesRead, Ext!At
<1>6. NamesJoined'
  <2>1. Ext!Whole' = Ext!Whole /\ Ext!InTable' = Ext!InTable BY <1>1 DEF Ext!Whole, Ext!InTable
  <2> QED BY <1>1, <1>2, <1>3, <1>4, <2>1 DEF ExtInv, NamesJoined
<1>7. ASSUME NEW r, IsRowOf(r, image, built, RowsMade) PROVE IsRowOf(r, image', built', RowsMade')
  <2>1. r.ordinal \in 0 .. RowsMade' - 1 BY <1>1, <1>2, <1>4, <1>7 DEF IsRowOf
  <2> QED BY <1>1, <1>7, <2>1 DEF IsRowOf
<1>8. CASE ~(index \in DOMAIN built /\ built[index].entry_ # 0)
  <2>1. rows' = rows BY <1>8 DEF Ext!PrintRow
  <2>2. ExtTyped' BY <1>1, <1>2, <1>3, <2>1 DEF ExtTyped
  <2>3. \A n \in 1 .. Len(rows') : IsRowOf(rows'[n], image', built', RowsMade') BY <1>7, <2>1 DEF ExtInv, RowsAreMade
  <2>4. \A k \in 0 .. RowsMade' - 1 : built[k].entry_ # 0 => k \in 0 .. RowsMade - 1
    BY <1>1, <1>2, <1>4, <1>8
  <2>5. RowsAreMade'
    <3>1. \A k \in 0 .. RowsMade' - 1 :
            built'[k].entry_ # 0 => \E n \in 1 .. Len(rows') : rows'[n].ordinal = k
      BY <1>1, <2>1, <2>4 DEF ExtInv, RowsAreMade
    <3>2. \A n \in 1 .. Len(rows') - 1 : rows'[n].ordinal < rows'[n + 1].ordinal
      BY <2>1 DEF ExtInv, RowsAreMade
    <3> QED BY <2>1, <2>3, <3>1, <3>2 DEF RowsAreMade
  <2> QED BY <1>5, <1>6, <2>2, <2>5 DEF ExtInv
<1>9. CASE index \in DOMAIN built /\ built[index].entry_ # 0
  <2> DEFINE e == built[index]
             r == [ordinal |-> index, name |-> e.name_, forward |-> Ext!is_forwarder(e),
                   target |-> IF Ext!is_forwarder(e) THEN Ext!RvaString(e.entry_) ELSE ""]
  <2>1. rows' = Append(rows, r) BY <1>9 DEF Ext!PrintRow
  <2>2. e \in Cells BY <1>1, <1>9
  <2>3. r \in ExportRow
    <3>1. e.name_ \in Text /\ e.entry_ \in Nat BY <2>2 DEF Cells
    <3>2. Ext!is_forwarder(e) \in BOOLEAN BY DEF Ext!is_forwarder
    <3>3. Ext!RvaString(e.entry_) \in Text /\ "" \in Text BY <1>1, ElementsTyped DEF Text
    <3> HIDE DEF e
    <3> QED BY <1>1, <3>1, <3>2, <3>3 DEF ExportRow
  <2>4. r.ordinal = index /\ r.name = built[index].name_
        /\ (r.forward <=> Ext!is_forwarder(built[index]))
    OBVIOUS
  <2> HIDE DEF r, e
  <2>5. /\ rows' \in Seq(ExportRow) /\ Len(rows) \in Nat /\ Len(rows') = Len(rows) + 1
        /\ rows'[Len(rows) + 1] = r /\ \A j \in 1 .. Len(rows) : rows'[j] = rows[j]
        /\ \A j \in 1 .. Len(rows') : j \in 1 .. Len(rows) \/ j = Len(rows) + 1
    BY <1>1, <2>1, <2>3, Appended
  <2>6. NoF # 0 /\ RowsMade' = index + 1 BY <1>1, <1>2, <1>4, <1>9
  <2>7. IsRowOf(r, image', built', RowsMade')
    <3>1. r.ordinal \in 0 .. RowsMade' - 1 BY <1>1, <2>4, <2>6
    <3> QED BY <1>1, <1>9, <2>4, <3>1 DEF IsRowOf, Ext!is_forwarder
  <2>8. ExtTyped' BY <1>1, <1>2, <1>3, <2>5 DEF ExtTyped
  <2>9. ASSUME NEW n \in 1 .. Len(rows') PROVE IsRowOf(rows'[n], image', built', RowsMade')
    <3>1. CASE n \in 1 .. Len(rows)
      <4>1. rows'[n] = rows[n] /\ IsRowOf(rows[n], image, built, RowsMade) BY <2>5, <3>1 DEF ExtInv, RowsAreMade
      <4> QED BY <1>7, <4>1
    <3>2. CASE n = Len(rows) + 1 BY <2>5, <2>7, <3>2
    <3> QED BY <2>5, <3>1, <3>2
  <2>10. ASSUME NEW k \in 0 .. RowsMade' - 1, built[k].entry_ # 0
         PROVE  \E n \in 1 .. Len(rows') : rows'[n].ordinal = k
    <3>1. CASE k = index
      <4>1. Len(rows) + 1 \in 1 .. Len(rows') BY <2>5
      <4> QED BY <2>4, <2>5, <3>1, <4>1
    <3>2. CASE k # index
      <4>1. k \in 0 .. RowsMade - 1 BY <1>1, <2>6, <3>2
      <4>2. PICK n \in 1 .. Len(rows) : rows[n].ordinal = k
        BY <2>10, <4>1 DEF ExtInv, RowsAreMade
      <4>3. n \in 1 .. Len(rows') BY <2>5
      <4> QED BY <2>5, <4>2, <4>3
    <3> QED BY <3>1, <3>2
  <2>11. ASSUME NEW n \in 1 .. Len(rows') - 1 PROVE rows'[n].ordinal < rows'[n + 1].ordinal
    <3>1. n \in 1 .. Len(rows) BY <2>5
    <3>2. CASE n < Len(rows)
      <4>1. n \in 1 .. Len(rows) - 1 /\ n + 1 \in 1 .. Len(rows) BY <2>5, <3>1, <3>2
      <4> QED BY <2>5, <3>1, <4>1 DEF ExtInv, RowsAreMade
    <3>3. CASE n = Len(rows)
      <4>1. rows[n].ordinal \in 0 .. RowsMade - 1 BY <3>1 DEF ExtInv, RowsAreMade, IsRowOf
      <4>2. rows'[n] = rows[n] /\ rows'[n + 1] = r BY <2>5, <3>1, <3>3
      <4> QED BY <1>1, <2>4, <4>1, <4>2
    <3> QED BY <2>5, <3>1, <3>2, <3>3
  <2>12. RowsAreMade' BY <1>1, <2>9, <2>10, <2>11 DEF RowsAreMade
  <2> QED BY <1>5, <1>6, <2>8, <2>12 DEF ExtInv
<1> QED BY <1>8, <1>9

LEMMA ExtStep ==
  ASSUME Walks({"ext"}) => ExtInv, [Next]_vars
  PROVE  (Walks({"ext"}) => ExtInv)'
<1> SUFFICES ASSUME Walks({"ext"})' PROVE ExtInv' OBVIOUS
<1>1. CASE /\ image' \in ExportImages
           /\ Locals(Ext!First(image'), 0, Ext!NoRows(image'.NumberOfFunctions), 0)
  BY <1>1, ExtEnters
<1>2. CASE Walks({"ext"}) /\ Ext!Next
  BY <1>2, ExtReadFunction, ExtReadName, ExtPrintRow DEF Ext!Next
<1>3. CASE Walks({"ext"}) /\ UNCHANGED <<image, step, built, index, rows>>
  <2>1. ExtTyped' /\ EntriesRead' BY <1>3 DEF ExtInv, ExtTyped, EntriesRead, NoF, Ext!At
  <2>2. NamesJoined'
    <3>1. NamesRead' = NamesRead BY <1>3 DEF NamesRead
    <3> QED BY <1>3, <3>1 DEF ExtInv, NamesJoined, Ext!Whole, Ext!InTable, NoF
  <2>3. RowsAreMade' BY <1>3 DEF ExtInv, RowsAreMade, IsRowOf, RowsMade, NoF
  <2> QED BY <2>1, <2>2, <2>3 DEF ExtInv
<1> QED BY <1>1, <1>2, <1>3, ExtSteps

LEMMA ExtInvHolds == Spec => [](Walks({"ext"}) => ExtInv)
<1>1. Init => (Walks({"ext"}) => ExtInv) BY DEF Init, Walks
<1> QED BY <1>1, ExtStep, PTL DEF Spec

(* !ext shows every function that can be read and is used, once and in     *)
(* order, with a name of its own where the arrays can be read, forwarded   *)
(* exactly if it points into the directory: for arrays of any length, any  *)
(* part of which may be missing.                                           *)
THEOREM ExportsAreShown == Spec => []ExportsAreListed
<1>1. (Walks({"ext"}) => ExtInv) => ExportsAreListed
  <2> SUFFICES ASSUME ExtInv, step = "end" PROVE Ext!EveryFunctionOnce /\ Ext!JoinedByOrdinal
    BY DEF ExportsAreListed, Ext!EveryFunctionOnce, Ext!JoinedByOrdinal
  <2>1. /\ image \in ExportImages /\ NoF \in Nat /\ image.NumberOfNames \in Nat
        /\ image.dir.va \in Nat /\ image.dir.size \in Nat
        /\ DOMAIN image.functions \subseteq 0 .. NoF - 1
        /\ \A f \in DOMAIN image.functions : image.functions[f] \in Nat
    BY ExtImage DEF ExtInv, ExtTyped, NoF
  <2>2. RowsMade = (IF image.dir.va = 0 THEN 0 ELSE NoF)
    BY DEF RowsMade
  <2>3. image.dir.va # 0 => \A k \in 0 .. NoF - 1 : built[k].entry_ = Ext!At(image.functions, k, 0)
    BY DEF ExtInv, EntriesRead
  <2>4. ASSUME NEW n \in 1 .. Len(rows)
        PROVE  /\ image.dir.va # 0 /\ rows[n].ordinal \in 0 .. NoF - 1
               /\ rows[n].ordinal \in DOMAIN image.functions
               /\ built[rows[n].ordinal].entry_ = image.functions[rows[n].ordinal]
               /\ image.functions[rows[n].ordinal] # 0
               /\ rows[n].name = built[rows[n].ordinal].name_
               /\ rows[n].forward <=> Ext!is_forwarder(built[rows[n].ordinal])
    <3>1. IsRowOf(rows[n], image, built, RowsMade) BY DEF ExtInv, RowsAreMade
    <3>2. image.dir.va # 0 /\ rows[n].ordinal \in 0 .. NoF - 1 BY <2>1, <2>2, <3>1 DEF IsRowOf
    <3>3. /\ built[rows[n].ordinal].entry_ # 0 /\ rows[n].name = built[rows[n].ordinal].name_
          /\ rows[n].forward <=> Ext!is_forwarder(built[rows[n].ordinal])
      BY <3>1 DEF IsRowOf, Ext!is_forwarder
    <3>4. built[rows[n].ordinal].entry_ = Ext!At(image.functions, rows[n].ordinal, 0) BY <2>3, <3>2
    <3> HIDE DEF ExtInv
    <3> QED BY <3>2, <3>3, <3>4 DEF Ext!At
  <2>5. {rows[k].ordinal : k \in 1 .. Len(rows)} =
          {f \in DOMAIN image.functions : image.dir.va # 0 /\ image.functions[f] # 0}
    <3>1. ASSUME NEW f \in DOMAIN image.functions, image.dir.va # 0, image.functions[f] # 0
          PROVE  \E n \in 1 .. Len(rows) : rows[n].ordinal = f
      <4>1. f \in 0 .. RowsMade - 1 /\ built[f].entry_ # 0
        BY <2>1, <2>2, <2>3, <3>1 DEF Ext!At
      <4> QED BY <4>1 DEF ExtInv, RowsAreMade
    <3> QED BY <2>4, <3>1
  <2>6. ASSUME NEW n \in 1 .. Len(rows)
        PROVE  rows[n].forward <=>
                 image.functions[rows[n].ordinal] - image.dir.va \in 0 .. image.dir.size - 1
    <3> DEFINE f == image.functions[rows[n].ordinal]
    <3>1. f \in Nat /\ built[rows[n].ordinal].entry_ = f
          /\ (rows[n].forward <=> Ext!is_forwarder(built[rows[n].ordinal]))
      BY <2>1, <2>4
    <3>2. rows[n].forward <=> f >= image.dir.va /\ f < image.dir.va + image.dir.size
      BY <3>1 DEF Ext!is_forwarder
    <3> HIDE DEF f
    <3>3. rows[n].forward <=> f - image.dir.va \in 0 .. image.dir.size - 1 BY <2>1, <3>1, <3>2, SMTT(30)
    <3> QED BY <3>3 DEF f
  <2>7. Ext!EveryFunctionOnce
    BY <2>5, <2>6 DEF Ext!EveryFunctionOnce, ExtInv, RowsAreMade
  <2>8. ASSUME Ext!Whole, Ext!InTable, NEW n \in 1 .. Len(rows)
        PROVE  IF Ext!NamesOf(rows[n].ordinal) = {} THEN rows[n].name = ""
               ELSE rows[n].name \in Ext!NamesOf(rows[n].ordinal)
    <3> DEFINE k == rows[n].ordinal
    <3>1. NamesRead = image.NumberOfNames BY DEF NamesRead
    <3>2. Ext!NamesOf(k) = NamesAmong(image, k, image.NumberOfNames)
      <4>1. {j \in DOMAIN image.names : j \in DOMAIN image.ordinals
                                        /\ image.ordinals[j] = k
                                        /\ image.names[j] \in DOMAIN image.strings}
              = NumbersOf(image, k, image.NumberOfNames)
        BY <2>8 DEF Ext!Whole, NumbersOf
      <4> QED BY <4>1 DEF Ext!NamesOf, NamesAmong
    <3>3. k \in 0 .. NoF - 1 /\ rows[n].name = built[k].name_ /\ image.dir.va # 0 BY <2>4
    <3> HIDE DEF k
    <3>4. IF NamesAmong(image, k, NamesRead) = {} THEN built[k].name_ = ""
          ELSE built[k].name_ \in NamesAmong(image, k, NamesRead)
      BY <2>8, <3>3 DEF ExtInv, NamesJoined
    <3> QED BY <3>1, <3>2, <3>3, <3>4 DEF k
  <2>9. Ext!JoinedByOrdinal BY <2>8 DEF Ext!JoinedByOrdinal
  <2> QED BY <2>7, <2>9
<1> QED BY <1>1, ExtInvHolds, PTL

-----------------------------------------------------------------------------
(***************************************************************************)
(* !ex.  The inductive invariant: raw stands at entry number index, every  *)
(* function below it that is asked for has its row, and the row under      *)
(* construction is that of entry index.                                    *)
(***************************************************************************)
WordIn(img, a) == Ex!At(img.words, a, 0)
InfoIn(img, a) == Ex!At(img.infos, a, [Version |-> 0, Handler |-> FALSE, CountOfCodes |-> 0])

(* Entry number k is that of a function that is asked for. *)
Asked(img, pc, k) ==
  LET a == img.dir.va + 12 * k
  IN  WordIn(img, a + 8) # 0 /\ (pc = 0 \/ (pc >= WordIn(img, a) /\ pc < WordIn(img, a + 4)))

Scope == [record: [at: Nat, BeginAddress: Nat, EndAddress: Nat], mark: BOOLEAN]
UnwindRow == [at: Nat, index: Nat, info: Nat, supported: BOOLEAN, ops: Seq(Nat),
              handler: Nat, scopes: Seq(Scope)]

HandlerOf(r) ==
  r.handler # 0 => LET last == r.info + 4 + 2 * Len(r.ops)
                   IN  r.handler % 4 = r.info % 4 /\ r.handler \in last .. last + 3
ScopesOf(img, r) ==
  /\ Len(r.scopes) <= 100
  /\ r.scopes # << >> => WordIn(img, r.handler) \in CHandlers \cup Unnamed
  /\ r.handler # 0 /\ WordIn(img, r.handler) \in CHandlers =>
       Len(r.scopes) = 100 \/ Len(r.scopes) = WordIn(img, r.handler + 4)
  /\ \A j \in 1 .. Len(r.scopes) : r.scopes[j].record.at = r.handler + 8 + 16 * (j - 1)
CodesOf(img, r) == Len(r.ops) = IF r.supported THEN InfoIn(img, r.info).CountOfCodes ELSE 0

(* The row of a function, printed; and the row of entry k, begun. *)
Printed(img, r) == HandlerOf(r) /\ ScopesOf(img, r) /\ CodesOf(img, r)
Begun(img, r, k) ==
  /\ r \in UnwindRow /\ r.at = img.dir.va + 12 * k /\ r.index = k /\ r.info = WordIn(img, r.at + 8)
  /\ r.supported /\ r.handler = 0 /\ r.scopes = << >>
  /\ Len(r.ops) <= InfoIn(img, r.info).CountOfCodes

ExTyped ==
  /\ image \in UnwindImages /\ arg \in Nat /\ index \in Nat
  /\ step \in {"table", "info", "codes", "end"} /\ raw = image.dir.va + 12 * index
  /\ index = 0 \/ 12 * (index - 1) < image.dir.size
  /\ step = "end" /\ Ex!Is64bit => 12 * index >= image.dir.size
  /\ step \in {"info", "codes"} => /\ 12 * index < image.dir.size /\ Asked(image, arg, index)
                                   /\ Begun(image, built, index)
  /\ step = "info" => built.ops = << >>

ExRows ==
  /\ rows \in Seq(UnwindRow)
  /\ \A n \in 1 .. Len(rows) :
       /\ rows[n].index < index /\ Asked(image, arg, rows[n].index)
       /\ Printed(image, rows[n])
  /\ \A k \in 0 .. index - 1 : Asked(image, arg, k) => \E n \in 1 .. Len(rows) : rows[n].index = k
  /\ \A n \in 1 .. Len(rows) - 1 : rows[n].index < rows[n + 1].index

ExInv == ExTyped /\ ExRows
ExArg == command = "ex" => arg \in Nat

(* The argument of !ex is an address. *)
LEMMA ExArgStep == ASSUME ExArg, [Next]_vars PROVE ExArg'
<1> SUFFICES ASSUME command' = "ex" PROVE arg' \in Nat BY DEF ExArg
<1>1. CASE ArgsGiven
  <2>1. command = "ex" /\ arg' \in Second(Len(built) >= 2) BY <1>1 DEF ArgsGiven
  <2>2. \A given : Second(given) \subseteq Pcs \cup {0} BY <2>1 DEF Second
  <2>3. arg' \in Pcs \cup {0} BY <2>1, <2>2
  <2> QED BY <2>3, HandlersAssumption
<1>2. CASE ~ArgsGiven
  <2>1. command' = command /\ arg' = arg
    BY <1>2 DEF Next, LoadImage, ImageLoaded, Dump, Step, vars
  <2> QED BY <2>1 DEF ExArg
<1> QED BY <1>1, <1>2

(* The steps that lead to a state of !ex. *)
LEMMA ExSteps ==
  ASSUME [Next]_vars, Walks({"ex"})'
  PROVE  \/ /\ image' \in UnwindImages
            /\ Locals("table", image'.dir.va, Ex!NoRow, 0)
         \/ Walks({"ex"}) /\ Ex!Next
         \/ Walks({"ex"}) /\ UNCHANGED <<image, arg, step, raw, built, index, rows>>
<1>1. phase' = "walk" /\ command' = "ex" BY DEF Walks
<1>2. CASE ArgsGiven BY <1>1, <1>2 DEF ArgsGiven
<1>3. CASE LoadImage BY <1>1, <1>3 DEF LoadImage
<1>4. CASE ImageLoaded BY <1>1, <1>4 DEF ImageLoaded
<1>5. CASE Dump BY <1>1, <1>5 DEF Dump
<1>6. CASE Step BY <1>1, <1>6 DEF Step, Loading, Parsing, Walks
<1>7. CASE UNCHANGED vars BY <1>7 DEF vars, Walks
<1> QED BY <1>2, <1>3, <1>4, <1>5, <1>6, <1>7 DEF Next

(* What an exception directory is. *)
LEMMA UnwindImage ==
  ASSUME NEW img \in UnwindImages
  PROVE  /\ img.dir.va \in Nat /\ img.dir.size \in Nat
         /\ \A a : WordIn(img, a) \in Nat /\ InfoIn(img, a) \in UnwindInfo
<1>1. img.dir.va \in Nat /\ img.dir.size \in Nat BY UnwindImagesAssumption DEF Region
<1>2. \A a : WordIn(img, a) \in Nat BY UnwindImagesAssumption DEF WordIn, Ex!At
<1>3. [Version |-> 0, Handler |-> FALSE, CountOfCodes |-> 0] \in UnwindInfo BY DEF UnwindInfo
<1>4. \A a : InfoIn(img, a) \in UnwindInfo BY <1>3, UnwindImagesAssumption DEF InfoIn, Ex!At
<1> QED BY <1>1, <1>2, <1>4

LEMMA ExEnters ==
  ASSUME image' \in UnwindImages, arg' \in Nat, Locals("table", image'.dir.va, Ex!NoRow, 0)
  PROVE  ExInv'
<1>1. step' = "table" /\ raw' = image'.dir.va /\ index' = 0 /\ rows' = << >> BY DEF Locals
<1>2. Len(<< >>) = 0 /\ << >> \in Seq(UnwindRow) BY EmptySeq
<1>3. ExTyped' BY <1>1, UnwindImage DEF ExTyped
<1>4. ExRows' BY <1>1, <1>2 DEF ExRows
<1> QED BY <1>3, <1>4 DEF ExInv

(* A step that leaves entry and rows alone. *)
LEMMA ExStays ==
  ASSUME ExInv, UNCHANGED <<image, arg, index, rows>>
  PROVE  ExRows'
BY DEF ExInv, ExRows

(* The ends of the table. *)
LEMMA ExIdle == ASSUME ExInv, Ex!Refuse \/ Ex!TableEnds PROVE ExInv'
<1>1. UNCHANGED <<image, arg, index, rows, raw, built>> /\ step = "table" /\ step' = "end"
  BY DEF Ex!Refuse, Ex!TableEnds, Ex!Goto
<1>2. image \in UnwindImages /\ index \in Nat /\ raw = image.dir.va + 12 * index
  BY DEF ExInv, ExTyped
<1>3. Ex!Is64bit => 12 * index >= image.dir.size
  BY <1>2, UnwindImage DEF Ex!Refuse, Ex!TableEnds
<1>4. Ex!Is64bit' = Ex!Is64bit BY <1>1 DEF Ex!Is64bit
<1>5. ExTyped' BY <1>1, <1>3, <1>4 DEF ExInv, ExTyped
<1> QED BY <1>1, <1>5, ExStays DEF ExInv

(* The next entry, without a row. *)
LEMMA AskedIsSelected ==
  ASSUME ExInv PROVE Ex!Selected(Ex!Entry(raw)) <=> Asked(image, arg, index)
BY DEF ExInv, ExTyped, Asked, WordIn, Ex!Selected, Ex!Covers, Ex!Entry, Ex!Word

LEMMA ExReadEntry == ASSUME ExInv, Ex!ReadEntry PROVE ExInv'
<1>1. /\ UNCHANGED <<image, arg, rows>> /\ step = "table" /\ image \in UnwindImages /\ arg \in Nat
      /\ index \in Nat /\ raw = image.dir.va + 12 * index /\ raw < image.dir.va + image.dir.size
  BY DEF ExInv, ExTyped, Ex!ReadEntry
<1>2. /\ image.dir.va \in Nat /\ image.dir.size \in Nat
      /\ \A a : WordIn(image, a) \in Nat /\ InfoIn(image, a) \in UnwindInfo
  BY <1>1, UnwindImage
<1>3. 12 * index < image.dir.size BY <1>1, <1>2
<1>4. Ex!Selected(Ex!Entry(raw)) <=> Asked(image, arg, index) BY AskedIsSelected
<1>5. CASE Asked(image, arg, index)
  <2>1. /\ built' = [Ex!NoRow EXCEPT !.at = raw, !.index = index, !.info = Ex!Entry(raw).UnwindData]
        /\ step' = "info" /\ UNCHANGED <<raw, index>>
    BY <1>4, <1>5 DEF Ex!ReadEntry, Ex!Goto
  <2>2. Ex!Entry(raw).UnwindData = WordIn(image, raw + 8) BY DEF Ex!Entry, Ex!Word, WordIn
  <2>3. built' = [at |-> raw, index |-> index, info |-> WordIn(image, raw + 8), supported |-> TRUE,
                  ops |-> << >>, handler |-> 0, scopes |-> << >>]
    BY <2>1, <2>2 DEF Ex!NoRow
  <2>4. /\ << >> \in Seq(Nat) /\ << >> \in Seq(Scope) /\ Len(<< >>) = 0 /\ raw \in Nat
        /\ WordIn(image, raw + 8) \in Nat
    BY <1>1, <1>2, EmptySeq
  <2>5. built' \in UnwindRow BY <1>1, <2>3, <2>4 DEF UnwindRow
  <2>6. InfoIn(image, WordIn(image, raw + 8)).CountOfCodes \in Nat BY <1>2 DEF UnwindInfo
  <2>7. Begun(image, built', index) /\ built'.ops = << >>
    BY <1>1, <2>3, <2>4, <2>5, <2>6 DEF Begun
  <2>8. ExTyped' BY <1>1, <1>3, <1>5, <2>1, <2>7 DEF ExInv, ExTyped
  <2>9. ExRows' BY <1>1, <2>1, ExStays
  <2> QED BY <2>8, <2>9 DEF ExInv
<1>6. CASE ~Asked(image, arg, index)
  <2>1. raw' = raw + 12 /\ index' = index + 1 /\ UNCHANGED <<built, step>>
    BY <1>4, <1>6 DEF Ex!ReadEntry, Ex!Advance
  <2>2. ExTyped' BY <1>1, <1>2, <1>3, <2>1 DEF ExInv, ExTyped
  <2>3. ASSUME NEW n \in 1 .. Len(rows) PROVE rows[n].index < index + 1
    <3>1. rows[n].index < index /\ rows[n] \in UnwindRow BY ElementOfSeq DEF ExInv, ExRows
    <3> QED BY <1>1, <3>1 DEF UnwindRow
  <2>4. \A k \in 0 .. index : k \in 0 .. index - 1 \/ k = index BY <1>1
  <2>5. ASSUME NEW k \in 0 .. index, Asked(image, arg, k)
        PROVE  \E n \in 1 .. Len(rows) : rows[n].index = k
    BY <1>6, <2>4, <2>5 DEF ExInv, ExRows
  <2>6. index' - 1 = index BY <1>1, <2>1
  <2>7. ExRows' BY <1>1, <2>1, <2>3, <2>5, <2>6 DEF ExInv, ExRows
  <2> QED BY <2>2, <2>7 DEF ExInv
<1> QED BY <1>5, <1>6

(* The row is printed, and the next entry is read. *)
LEMMA ExFinish ==
  ASSUME ExInv, step \in {"info", "codes"}, UNCHANGED <<image, arg>>,
         NEW r \in UnwindRow, r.index = index, Printed(image, r), Ex!Finish(r)
  PROVE  ExInv'
<1>1. /\ image \in UnwindImages /\ arg \in Nat /\ index \in Nat /\ raw = image.dir.va + 12 * index
      /\ 12 * index < image.dir.size /\ Asked(image, arg, index) /\ rows \in Seq(UnwindRow)
  BY DEF ExInv, ExTyped, ExRows
<1>2. image.dir.va \in Nat /\ image.dir.size \in Nat BY <1>1, UnwindImage
<1>3. rows' = Append(rows, r) /\ step' = "table" /\ raw' = raw + 12 /\ index' = index + 1
  BY DEF Ex!Finish, Ex!Goto, Ex!Advance
<1>4. ExTyped'
  <2>1. image.dir.va + 12 * index + 12 = image.dir.va + 12 * (index + 1) BY <1>1, <1>2
  <2>2. raw' = image.dir.va + 12 * (index + 1) BY <1>1, <1>3, <2>1
  <2>3. index' - 1 = index BY <1>1, <1>3
  <2>4. 12 * (index' - 1) < image.dir.size BY <1>1, <2>3
  <2> QED BY <1>1, <1>3, <2>2, <2>4 DEF ExTyped
<1>5. /\ rows' \in Seq(UnwindRow) /\ Len(rows) \in Nat /\ Len(rows') = Len(rows) + 1
      /\ rows'[Len(rows) + 1] = r /\ \A j \in 1 .. Len(rows) : rows'[j] = rows[j]
      /\ \A j \in 1 .. Len(rows') : j \in 1 .. Len(rows) \/ j = Len(rows) + 1
  BY <1>1, <1>3, Appended
<1>6. \A n \in 1 .. Len(rows) : rows[n].index \in Nat /\ rows[n].index < index
  <2>1. \A n \in 1 .. Len(rows) : rows[n] \in UnwindRow BY <1>1, ElementOfSeq
  <2> QED BY <2>1 DEF ExInv, ExRows, UnwindRow
<1>7. ASSUME NEW n \in 1 .. Len(rows')
      PROVE  rows'[n].index < index + 1 /\ Asked(image, arg, rows'[n].index) /\ Printed(image, rows'[n])
  <2>1. CASE n \in 1 .. Len(rows)
    <3>1. Asked(image, arg, rows[n].index) /\ Printed(image, rows[n]) BY <2>1 DEF ExInv, ExRows
    <3> QED BY <1>1, <1>5, <1>6, <2>1, <3>1
  <2>2. CASE n = Len(rows) + 1 BY <1>1, <1>5, <2>2
  <2> QED BY <1>5, <2>1, <2>2
<1>8. ASSUME NEW k \in 0 .. index, Asked(image, arg, k)
      PROVE  \E n \in 1 .. Len(rows') : rows'[n].index = k
  <2>1. CASE k = index
    <3>1. Len(rows) + 1 \in 1 .. Len(rows') BY <1>5
    <3> QED BY <1>5, <2>1, <3>1
  <2>2. CASE k # index
    <3>1. k \in 0 .. index - 1 BY <1>1, <2>2
    <3>2. PICK n \in 1 .. Len(rows) : rows[n].index = k BY <1>8, <3>1 DEF ExInv, ExRows
    <3>3. n \in 1 .. Len(rows') BY <1>5
    <3> QED BY <1>5, <3>2, <3>3
  <2> QED BY <2>1, <2>2
<1>9. ASSUME NEW n \in 1 .. Len(rows') - 1 PROVE rows'[n].index < rows'[n + 1].index
  <2>1. n \in 1 .. Len(rows) BY <1>5
  <2>2. CASE n < Len(rows)
    <3>1. n \in 1 .. Len(rows) - 1 /\ n + 1 \in 1 .. Len(rows) BY <1>5, <2>1, <2>2
    <3> QED BY <1>5, <2>1, <3>1 DEF ExInv, ExRows
  <2>3. CASE n = Len(rows) BY <1>5, <1>6, <2>1, <2>3
  <2> QED BY <1>5, <2>1, <2>2, <2>3
<1>10. index' - 1 = index BY <1>1, <1>3
<1>11. ExRows' BY <1>1, <1>3, <1>5, <1>7, <1>8, <1>9, <1>10 DEF ExRows
<1> QED BY <1>4, <1>11 DEF ExInv

LEMMA ExReadInfo == ASSUME ExInv, Ex!ReadInfo PROVE ExInv'
<1>1. /\ step = "info" /\ UNCHANGED <<image, arg>> /\ image \in UnwindImages
      /\ Begun(image, built, index) /\ built.ops = << >>
  BY DEF ExInv, ExTyped, Ex!ReadInfo
<1>2. CASE UNCHANGED <<built, rows, raw, index>> /\ step' = "codes"
  <2>1. ExTyped' BY <1>1, <1>2 DEF ExInv, ExTyped
  <2> QED BY <1>1, <1>2, <2>1, ExStays DEF ExInv
<1>3. CASE Ex!Finish([built EXCEPT !.supported = FALSE])
  <2> DEFINE r == [built EXCEPT !.supported = FALSE]
  <2>1. built \in UnwindRow BY <1>1 DEF Begun
  <2>2. /\ r.index = built.index /\ r.ops = built.ops /\ r.handler = built.handler
        /\ r.scopes = built.scopes /\ r.supported = FALSE /\ r \in UnwindRow
    BY <2>1 DEF UnwindRow
  <2> HIDE DEF r
  <2>3. r.index = index /\ r.ops = << >> /\ r.handler = 0 /\ r.scopes = << >> BY <1>1, <2>2 DEF Begun
  <2>4. Len(<< >>) = 0 BY EmptySeq
  <2>5. Printed(image, r) BY <2>2, <2>3, <2>4 DEF Printed, HandlerOf, ScopesOf, CodesOf
  <2> QED BY <1>1, <1>3, <2>2, <2>3, <2>5, ExFinish DEF r
<1> QED BY <1>2, <1>3 DEF Ex!ReadInfo, Ex!Goto

LEMMA ExReadCode == ASSUME ExInv, Ex!ReadCode PROVE ExInv'
<1>1. /\ step = "codes" /\ UNCHANGED <<image, arg, step, raw, index, rows>>
      /\ image \in UnwindImages /\ built \in UnwindRow /\ Begun(image, built, index)
      /\ built' = [built EXCEPT !.ops = Append(@, built.info + 4 + 2 * Len(@))]
  BY DEF ExInv, ExTyped, Ex!ReadCode, Begun
<1>2. Len(built.ops) < InfoIn(image, built.info).CountOfCodes
  BY DEF Ex!ReadCode, Ex!Counted, Ex!Info, InfoIn
<1>3. InfoIn(image, built.info).CountOfCodes \in Nat BY <1>1, UnwindImage DEF UnwindInfo
<1> DEFINE op == built.info + 4 + 2 * Len(built.ops)
           ops == Append(built.ops, op)
<1>4. built.ops \in Seq(Nat) /\ built.info \in Nat /\ Len(built.ops) \in Nat
  BY <1>1, LenProperties DEF UnwindRow
<1>5. op \in Nat BY <1>4
<1> HIDE DEF op
<1>6. ops \in Seq(Nat) /\ Len(ops) = Len(built.ops) + 1 BY <1>4, <1>5, Appended
<1>7. built' = [built EXCEPT !.ops = ops] BY <1>1 DEF op
<1> HIDE DEF ops
<1>8. /\ built' \in UnwindRow /\ built'.at = built.at /\ built'.index = built.index
      /\ built'.info = built.info /\ built'.supported = built.supported
      /\ built'.handler = built.handler /\ built'.scopes = built.scopes /\ built'.ops = ops
  BY <1>1, <1>6, <1>7 DEF UnwindRow
<1>9. Begun(image, built', index)
  <2>1. Len(ops) <= InfoIn(image, built.info).CountOfCodes BY <1>2, <1>3, <1>4, <1>6
  <2>2. Begun(image, built, index) BY <1>1
  <2> QED BY ONLY <1>8, <2>1, <2>2 DEF Begun
<1>10. ExTyped' BY <1>1, <1>9 DEF ExInv, ExTyped
<1> QED BY <1>1, <1>10, ExStays DEF ExInv

(* The padding of the codes. *)
LEMMA PaddedCodes ==
  ASSUME NEW a \in Nat, NEW c \in Nat, NEW h, h = a + 4 + 2 * (2 * ((c + 1) \div 2))
  PROVE  h \in Nat /\ h % 4 = a % 4 /\ h \in a + 4 + 2 * c .. a + 4 + 2 * c + 3
<1> DEFINE q == (c + 1) \div 2
<1>1. q \in Nat /\ 2 * q >= c /\ 2 * q <= c + 1 OBVIOUS
<1> HIDE DEF q
<1>2. h = a + 4 * (q + 1) BY <1>1 DEF q
<1>3. (a + 4 * (q + 1)) % 4 = a % 4 BY <1>1
<1> QED BY <1>1, <1>2, <1>3

(* The scopes of a handler are those of its table, a hundred at most. *)
LEMMA ExScopes ==
  ASSUME image \in UnwindImages, arg \in Nat, NEW a \in Nat
  PROVE  /\ Ex!Scopes(a) \in Seq(Scope) /\ Len(Ex!Scopes(a)) <= 100
         /\ Len(Ex!Scopes(a)) = 100 \/ Len(Ex!Scopes(a)) = WordIn(image, a)
         /\ \A j \in 1 .. Len(Ex!Scopes(a)) : Ex!Scopes(a)[j].record.at = a + 4 + 16 * (j - 1)
<1> DEFINE n == Ex!ScopeCount(Ex!Word(a))
           r(k) == Ex!ScopeAt(a + 4 + 16 * (k - 1))
           s == [k \in 1 .. n |-> [record |-> r(k), mark |-> arg # 0 /\ Ex!Covers(r(k))]]
<1>1. \A b : Ex!Word(b) = WordIn(image, b) /\ WordIn(image, b) \in Nat
  BY UnwindImage DEF Ex!Word, WordIn
<1>2. n \in Nat /\ n <= 100 /\ (n = 100 \/ n = WordIn(image, a)) BY <1>1 DEF Ex!ScopeCount
<1>3. Ex!Scopes(a) = s BY DEF Ex!Scopes
<1> HIDE DEF n
<1>4. \A k \in 1 .. n : r(k) \in [at: Nat, BeginAddress: Nat, EndAddress: Nat]
                        /\ r(k).at = a + 4 + 16 * (k - 1)
  BY <1>1, <1>2 DEF Ex!ScopeAt
<1>5. \A k \in 1 .. n : (arg # 0 /\ Ex!Covers(r(k))) \in BOOLEAN BY DEF Ex!Covers
<1> HIDE DEF r
<1>6. s \in Seq(Scope) /\ Len(s) = n BY <1>2, <1>4, <1>5 DEF Scope
<1>7. \A k \in 1 .. n : s[k].record.at = a + 4 + 16 * (k - 1) BY <1>4
<1> HIDE DEF s
<1> QED BY <1>2, <1>3, <1>6, <1>7

LEMMA ExReadHandler == ASSUME ExInv, Ex!ReadHandler PROVE ExInv'
<1> DEFINE at == Ex!HandlerAt(built.info)
<1>1. /\ step = "codes" /\ UNCHANGED <<image, arg>> /\ image \in UnwindImages /\ arg \in Nat
      /\ built \in UnwindRow /\ Begun(image, built, index)
  BY DEF ExInv, ExTyped, Ex!ReadHandler, Begun
<1>2. PICK specific \in Ex!Specific(Ex!Word(at)) :
        Ex!Finish(IF ~Ex!Info(built.info).Handler THEN built
                  ELSE [built EXCEPT !.handler = at,
                                     !.scopes = IF specific THEN Ex!Scopes(at + 4) ELSE << >>])
  BY DEF Ex!ReadHandler
<1>3. /\ built.info \in Nat /\ Len(built.ops) \in Nat
      /\ InfoIn(image, built.info).CountOfCodes \in Nat
  BY <1>1, LenProperties, UnwindImage DEF UnwindRow, UnwindInfo
<1>4. Len(built.ops) = InfoIn(image, built.info).CountOfCodes
  BY <1>1, <1>3 DEF Begun, Ex!ReadHandler, Ex!Counted, Ex!Info, InfoIn
<1>5. at = built.info + 4 + 2 * (2 * ((Len(built.ops) + 1) \div 2))
  BY <1>4 DEF Ex!HandlerAt, Ex!Info, InfoIn
<1> HIDE DEF at
<1>6. /\ at \in Nat /\ at % 4 = built.info % 4
      /\ at \in built.info + 4 + 2 * Len(built.ops) .. built.info + 4 + 2 * Len(built.ops) + 3
  BY <1>3, <1>5, PaddedCodes
<1>7. CASE ~Ex!Info(built.info).Handler
  <2>1. Ex!Finish(built) BY <1>2, <1>7
  <2>2. Len(<< >>) = 0 BY EmptySeq
  <2>3. Printed(image, built)
    BY <1>1, <1>4, <2>2 DEF Printed, HandlerOf, ScopesOf, CodesOf, Begun
  <2> QED BY <1>1, <2>1, <2>3, ExFinish DEF Begun
<1>8. CASE Ex!Info(built.info).Handler
  <2> DEFINE s == IF specific THEN Ex!Scopes(at + 4) ELSE << >>
             r == [built EXCEPT !.handler = at, !.scopes = s]
  <2>1. Ex!Finish(r) BY <1>2, <1>8
  <2>2. Len(<< >>) = 0 /\ << >> \in Seq(Scope) BY EmptySeq
  <2>3. at + 4 \in Nat /\ at + 4 + 4 = at + 8 BY <1>6
  <2>4. /\ s \in Seq(Scope) /\ Len(s) <= 100
        /\ specific => Len(s) = 100 \/ Len(s) = WordIn(image, at + 4)
        /\ \A j \in 1 .. Len(s) : s[j].record.at = at + 8 + 16 * (j - 1)
    <3>1. CASE specific BY <1>1, <2>3, <3>1, ExScopes
    <3>2. CASE ~specific BY <2>2, <3>2
    <3> QED BY <3>1, <3>2
  <2>5. s # << >> => specific OBVIOUS
  <2> HIDE DEF s
  <2>6. /\ r \in UnwindRow /\ r.index = built.index /\ r.info = built.info /\ r.ops = built.ops
        /\ r.supported = built.supported /\ r.handler = at /\ r.scopes = s
    BY <1>1, <1>6, <2>4 DEF UnwindRow
  <2> HIDE DEF r
  <2>7. /\ specific => WordIn(image, at) \in CHandlers \cup Unnamed
        /\ WordIn(image, at) \in CHandlers => specific
    BY HandlersAssumption DEF Ex!Specific, Ex!Word, WordIn
  <2>8. HandlerOf(r) BY <1>6, <2>6 DEF HandlerOf
  <2>9. ScopesOf(image, r) BY <2>4, <2>5, <2>6, <2>7 DEF ScopesOf
  <2>10. CodesOf(image, r) BY <1>1, <1>4, <2>6 DEF CodesOf, Begun
  <2>11. r.index = index BY <1>1, <2>6 DEF Begun
  <2> QED BY <1>1, <2>1, <2>6, <2>8, <2>9, <2>10, <2>11, ExFinish DEF Printed
<1> QED BY <1>7, <1>8

LEMMA ExStep ==
  ASSUME ExArg', Walks({"ex"}) => ExInv, [Next]_vars
  PROVE  (Walks({"ex"}) => ExInv)'
<1> SUFFICES ASSUME Walks({"ex"})' PROVE ExInv' OBVIOUS
<1>1. CASE image' \in UnwindImages /\ Locals("table", image'.dir.va, Ex!NoRow, 0)
  <2>1. arg' \in Nat BY DEF ExArg, Walks
  <2> QED BY <1>1, <2>1, ExEnters
<1>2. CASE Walks({"ex"}) /\ Ex!Next
  BY <1>2, ExIdle, ExReadEntry, ExReadInfo, ExReadCode, ExReadHandler DEF Ex!Next
<1>3. CASE Walks({"ex"}) /\ UNCHANGED <<image, arg, step, raw, built, index, rows>>
  <2>1. ExTyped' BY <1>3 DEF ExInv, ExTyped, Ex!Is64bit
  <2> QED BY <1>3, <2>1, ExStays DEF ExInv
<1> QED BY <1>1, <1>2, <1>3, ExSteps

LEMMA ExInvHolds == Spec => [](Walks({"ex"}) => ExInv)
<1>1. Init => ExArg /\ (Walks({"ex"}) => ExInv)
  <2> SUFFICES ASSUME Init PROVE ExArg /\ ~Walks({"ex"}) OBVIOUS
  <2>1. command = "ex" => arg = 0 BY DEF Init, Second
  <2> QED BY <2>1 DEF ExArg, Init, Walks
<1> QED BY <1>1, ExArgStep, ExStep, PTL DEF Spec

(* !ex shows every function of an x64 image that is asked for, once and in *)
(* order: for tables of any length, any part of which may be missing.      *)
THEOREM FunctionsAreShown == Spec => []FunctionsAreListed
<1>1. (Walks({"ex"}) => ExInv) => FunctionsAreListed
  <2> SUFFICES ASSUME ExInv, step = "end", Ex!Is64bit PROVE Ex!EveryFunctionOnce
    BY DEF FunctionsAreListed, Ex!EveryFunctionOnce, Ex!Is64bit
  <2> DEFINE size == image.dir.size
             n == (size + 11) \div 12
  <2>1. /\ image \in UnwindImages /\ arg \in Nat /\ index \in Nat /\ size \in Nat
        /\ index = 0 \/ 12 * (index - 1) < size
        /\ 12 * index >= size
    BY UnwindImage DEF ExInv, ExTyped
  <2> HIDE DEF size
  <2>2. index = n BY <2>1
  <2> HIDE DEF n
  <2>3. \A k : LET e == Ex!Entry(image.dir.va + 12 * k)
               IN  Asked(image, arg, k) <=>
                     /\ e.UnwindData # 0
                     /\ arg # 0 => arg \in e.BeginAddress .. e.EndAddress - 1
    <3> SUFFICES ASSUME NEW k
                 PROVE  LET a == image.dir.va + 12 * k
                        IN  arg = 0 \/ (arg >= WordIn(image, a) /\ arg < WordIn(image, a + 4)) <=>
                            (arg # 0 => arg \in WordIn(image, a) .. WordIn(image, a + 4) - 1)
      BY DEF Asked, Ex!Entry, Ex!Word, WordIn
    <3> DEFINE b == WordIn(image, image.dir.va + 12 * k)
               e == WordIn(image, image.dir.va + 12 * k + 4)
    <3>1. b \in Nat /\ e \in Nat BY <2>1, UnwindImage
    <3> HIDE DEF b, e
    <3>2. arg >= b /\ arg < e <=> arg \in b .. e - 1 BY <2>1, <3>1
    <3> QED BY <3>2 DEF b, e
  <2>4. {rows[k].index : k \in 1 .. Len(rows)} = {k \in 0 .. n - 1 : Asked(image, arg, k)}
    <3>1. ASSUME NEW k \in 1 .. Len(rows)
          PROVE  rows[k].index \in 0 .. n - 1 /\ Asked(image, arg, rows[k].index)
      <4>1. rows[k] \in UnwindRow BY ElementOfSeq DEF ExInv, ExRows
      <4>2. rows[k].index \in Nat /\ rows[k].index < index /\ Asked(image, arg, rows[k].index)
        BY <4>1 DEF ExInv, ExRows, UnwindRow
      <4> QED BY <2>1, <2>2, <4>2
    <3>2. ASSUME NEW k \in 0 .. n - 1, Asked(image, arg, k)
          PROVE  \E j \in 1 .. Len(rows) : rows[j].index = k
      BY <2>2, <3>2 DEF ExInv, ExRows
    <3> QED BY <3>1, <3>2
  <2>5. \A k \in 1 .. Len(rows) - 1 : rows[k].index < rows[k + 1].index BY DEF ExInv, ExRows
  <2> HIDE DEF ExInv
  <2> QED BY <2>3, <2>4, <2>5 DEF Ex!EveryFunctionOnce, n, size
<1> QED BY <1>1, ExInvHolds, PTL

(* The handler !ex shows is the word at the first aligned place after the  *)
(* codes, and the scopes are those behind it, never more than a hundred.   *)
THEOREM HandlersAreRead == Spec => []HandlersAreFound
<1>1. (Walks({"ex"}) => ExInv) => HandlersAreFound
  <2> SUFFICES ASSUME ExInv PROVE Ex!HandlerFollowsCodes /\ Ex!ScopesFollowHandler
    BY DEF HandlersAreFound
  <2>1. \A n \in 1 .. Len(rows) : HandlerOf(rows[n]) /\ ScopesOf(image, rows[n])
    BY DEF ExInv, ExRows, Printed
  <2>2. Ex!HandlerFollowsCodes BY <2>1 DEF HandlerOf, Ex!HandlerFollowsCodes
  <2>3. Ex!ScopesFollowHandler BY <2>1 DEF ScopesOf, WordIn, Ex!ScopesFollowHandler, Ex!Word
  <2> QED BY <2>2, <2>3
<1> QED BY <1>1, ExInvHolds, PTL

-----------------------------------------------------------------------------
(***************************************************************************)
(* get_args.  The inductive invariant: the words so far are those that     *)
(* start before prev, and between prev and p there is no space.            *)
(***************************************************************************)
StartsOf(a) == {i \in 1 .. Len(a) : a[i] # Args!Space /\ (i = 1 \/ a[i - 1] = Args!Space)}
EndIn(a, i) == CHOOSE j \in i .. Len(a) :
                 (\A k \in i .. j : a[k] # Args!Space) /\ (j = Len(a) \/ a[j + 1] = Args!Space)

WordAt(a, i) == SubSeq(a, i, EndIn(a, i))

(* s holds, in order, the words of a that start before m. *)
WordsBefore(s, a, m) ==
  \E start \in [1 .. Len(s) -> StartsOf(a)] :
    /\ \A n \in 1 .. Len(s) : start[n] < m /\ s[n] = WordAt(a, start[n])
    /\ \A n \in 1 .. Len(s) - 1 : start[n] < start[n + 1]
    /\ \A i \in StartsOf(a) : i < m => \E n \in 1 .. Len(s) : start[n] = i

ArgsInv ==
  /\ args \in Seq(Chars) /\ built \in Seq(Seq(Chars)) /\ step \in {"scan", "end"}
  /\ index \in 1 .. Len(args) + 1 /\ raw \in 1 .. index
  /\ raw = 1 \/ args[raw - 1] = Args!Space
  /\ \A i \in raw .. index - 1 : args[i] # Args!Space
  /\ step = "end" => index = Len(args) + 1
  /\ WordsBefore(built, args, IF step = "scan" THEN raw ELSE index + 1)

(* The steps that lead to a state of get_args. *)
LEMMA ParsingSteps ==
  ASSUME [Next]_vars, Parsing'
  PROVE  Parsing /\ (Args!Next \/ UNCHANGED <<args, step, raw, index, built>>)
BY DEF Next, ArgsGiven, LoadImage, ImageLoaded, Dump, Step, Parsing, Loading, Walks, vars

(* A word ends at the first space after it. *)
LEMMA WordEnds ==
  ASSUME NEW a \in Seq(Chars), NEW q \in 1 .. Len(a), NEW e \in q .. Len(a),
         \A i \in q .. e : a[i] # Args!Space, e = Len(a) \/ a[e + 1] = Args!Space
  PROVE  EndIn(a, q) = e
<1> DEFINE P(j) == (\A k \in q .. j : a[k] # Args!Space) /\ (j = Len(a) \/ a[j + 1] = Args!Space)
<1>1. Len(a) \in Nat BY LenProperties
<1>2. P(e) OBVIOUS
<1>3. ASSUME NEW j \in q .. Len(a), P(j) PROVE j = e
  <2>1. CASE j < e
    <3>1. j + 1 \in q .. e /\ j # Len(a) BY <1>1, <2>1
    <3> QED BY <1>3, <3>1
  <2>2. CASE j > e
    <3>1. e + 1 \in q .. j /\ e # Len(a) BY <1>1, <2>2
    <3> QED BY <1>3, <3>1
  <2> QED BY <1>1, <2>1, <2>2
<1> HIDE DEF P
<1>4. (CHOOSE j \in q .. Len(a) : P(j)) = e BY <1>2, <1>3
<1> QED BY <1>4 DEF EndIn, P

(* The words that start before p, once the one between q and p is kept.    *)
LEMMA AnotherWord ==
  ASSUME NEW a \in Seq(Chars), NEW s \in Seq(Seq(Chars)),
         NEW p \in 1 .. Len(a) + 1, NEW q \in 1 .. p,
         q = 1 \/ a[q - 1] = Args!Space, \A i \in q .. p - 1 : a[i] # Args!Space,
         p = Len(a) + 1 \/ a[p] = Args!Space, WordsBefore(s, a, q),
         NEW t, t = IF p > q THEN Append(s, SubSeq(a, q, p - 1)) ELSE s
  PROVE  t \in Seq(Seq(Chars)) /\ WordsBefore(t, a, p + 1)
<1>1. Len(a) \in Nat /\ Len(s) \in Nat BY LenProperties
<1>2. PICK start \in [1 .. Len(s) -> StartsOf(a)] :
        /\ \A n \in 1 .. Len(s) : start[n] < q /\ s[n] = WordAt(a, start[n])
        /\ \A n \in 1 .. Len(s) - 1 : start[n] < start[n + 1]
        /\ \A i \in StartsOf(a) : i < q => \E n \in 1 .. Len(s) : start[n] = i
  BY DEF WordsBefore
<1>3. \A i \in StartsOf(a) : i \in Nat BY <1>1 DEF StartsOf
<1>7. \A n \in 1 .. Len(s) : start[n] \in Nat /\ start[n] < q /\ start[n] < p + 1
  <2>1. \A n \in 1 .. Len(s) : start[n] \in Nat BY <1>2, <1>3
  <2>2. \A n \in 1 .. Len(s) : start[n] < q BY <1>2
  <2> QED BY <2>1, <2>2
<1>4. ASSUME NEW i \in StartsOf(a), i < p + 1 PROVE i < q \/ (i = q /\ p > q)
  <2>1. i \in 1 .. Len(a) /\ a[i] # Args!Space /\ (i = 1 \/ a[i - 1] = Args!Space) BY DEF StartsOf
  <2>2. CASE i > q
    <3>1. i - 1 \in q .. p - 1 /\ i # 1 BY <1>4, <2>1, <2>2
    <3> QED BY <2>1, <3>1
  <2>3. CASE i = q /\ ~(p > q) BY <1>1, <2>1, <2>3
  <2> QED BY <1>1, <2>1, <2>2, <2>3
<1>5. CASE ~(p > q)
  <2>1. t = s BY <1>5
  <2>3. \A i \in StartsOf(a) : i < p + 1 => \E n \in 1 .. Len(s) : start[n] = i
    BY <1>2, <1>4, <1>5
  <2>4. \A n \in 1 .. Len(s) : start[n] < p + 1 /\ s[n] = WordAt(a, start[n]) BY <1>2, <1>7
  <2>5. \A n \in 1 .. Len(s) - 1 : start[n] < start[n + 1] BY <1>2
  <2>6. WordsBefore(s, a, p + 1) BY <2>3, <2>4, <2>5 DEF WordsBefore
  <2> QED BY <2>1, <2>6
<1>6. CASE p > q
  <2>1. q \in 1 .. Len(a) /\ p - 1 \in q .. Len(a) BY <1>1, <1>6
  <2>2. q \in StartsOf(a)
    <3>1. a[q] # Args!Space BY <1>6
    <3> QED BY <2>1, <3>1 DEF StartsOf
  <2>3. p - 1 = Len(a) \/ a[p - 1 + 1] = Args!Space BY <1>1
  <2>4. EndIn(a, q) = p - 1 BY <2>1, <2>3, WordEnds
  <2> DEFINE w == SubSeq(a, q, p - 1)
             start2 == [n \in 1 .. Len(t) |-> IF n \in 1 .. Len(s) THEN start[n] ELSE q]
  <2>5. w \in Seq(Chars) BY <2>1, <1>1, SubSeqProperties
  <2>6. w = WordAt(a, q) BY <2>4 DEF WordAt
  <2>7. t = Append(s, w) BY <1>6
  <2> HIDE DEF w
  <2>8. /\ t \in Seq(Seq(Chars)) /\ Len(t) = Len(s) + 1 /\ t[Len(s) + 1] = w
        /\ \A j \in 1 .. Len(s) : t[j] = s[j]
        /\ \A j \in 1 .. Len(t) : j \in 1 .. Len(s) \/ j = Len(s) + 1
    BY <2>5, <2>7, Appended
  <2>9. start2 \in [1 .. Len(t) -> StartsOf(a)] BY <1>2, <2>2
  <2>10. /\ \A n \in 1 .. Len(s) : start2[n] = start[n]
         /\ start2[Len(s) + 1] = q
    BY <1>1, <2>8
  <2> HIDE DEF start2
  <2>11. ASSUME NEW n \in 1 .. Len(t)
         PROVE  start2[n] < p + 1 /\ t[n] = WordAt(a, start2[n])
    <3>1. CASE n \in 1 .. Len(s)
      <4>1. s[n] = WordAt(a, start[n]) BY <1>2, <3>1
      <4> QED BY <1>7, <2>8, <2>10, <3>1, <4>1
    <3>2. CASE n = Len(s) + 1 
      <4>1. start2[n] = q /\ t[n] = w BY <2>8, <2>10, <3>2
      <4>2. q < p + 1 BY <1>1
      <4> QED BY <2>6, <4>1, <4>2
    <3> QED BY <2>8, <3>1, <3>2
  <2>12. ASSUME NEW n \in 1 .. Len(t) - 1 PROVE start2[n] < start2[n + 1]
    <3>1. n \in 1 .. Len(s) BY <1>1, <2>8
    <3>2. CASE n < Len(s)
      <4>1. n \in 1 .. Len(s) - 1 /\ n + 1 \in 1 .. Len(s) BY <1>1, <3>1, <3>2
      <4> QED BY <1>2, <2>10, <3>1, <4>1
    <3>3. CASE n = Len(s)
      <4>1. start2[n + 1] = q /\ start2[n] = start[n] BY <2>10, <3>1, <3>3
      <4> QED BY <1>2, <3>1, <4>1
    <3> QED BY <1>1, <3>1, <3>2, <3>3
  <2>13. ASSUME NEW i \in StartsOf(a), i < p + 1 PROVE \E n \in 1 .. Len(t) : start2[n] = i
    <3>1. CASE i < q
      <4>1. PICK n \in 1 .. Len(s) : start[n] = i BY <1>2, <3>1
      <4>2. n \in 1 .. Len(t) BY <1>1, <2>8
      <4> QED BY <2>10, <4>1, <4>2
    <3>2. CASE i = q
      <4>1. Len(s) + 1 \in 1 .. Len(t) BY <1>1, <2>8
      <4> QED BY <2>10, <3>2, <4>1
    <3> QED BY <1>4, <2>13, <3>1, <3>2
  <2>14. WordsBefore(t, a, p + 1)
    <3>1. /\ \A n \in 1 .. Len(t) :
               start2[n] < p + 1 /\ t[n] = WordAt(a, start2[n])
          /\ \A n \in 1 .. Len(t) - 1 : start2[n] < start2[n + 1]
          /\ \A i \in StartsOf(a) : i < p + 1 => \E n \in 1 .. Len(t) : start2[n] = i
      BY <2>11, <2>12, <2>13
    <3> QED BY <2>9, <3>1 DEF WordsBefore
  <2> QED BY <2>8, <2>14
<1> QED BY <1>5, <1>6

LEMMA ArgsBegin == ASSUME Init PROVE ArgsInv
<1>1. Args!Init BY DEF Init
<1>2. args \in Seq(Chars) BY <1>1 DEF Args!Init, Args!Strings
<1>3. Len(args) \in Nat BY <1>2, LenProperties
<1>4. << >> \in Seq(Seq(Chars)) /\ Len(<< >>) = 0 BY EmptySeq
<1>5. WordsBefore(<< >>, args, 1)
  <2> DEFINE start == [n \in 1 .. 0 |-> 1]
  <2>1. start \in [1 .. Len(<< >>) -> StartsOf(args)] BY <1>4
  <2>2. \A i \in StartsOf(args) : ~(i < 1) BY <1>3 DEF StartsOf
  <2> HIDE DEF start
  <2>3. \A n : n \notin 1 .. Len(<< >>) /\ n \notin 1 .. Len(<< >>) - 1 BY <1>4
  <2> QED BY <2>1, <2>2, <2>3 DEF WordsBefore
<1> QED BY <1>1, <1>2, <1>3, <1>4, <1>5 DEF Args!Init, ArgsInv

LEMMA ArgsScan == ASSUME ArgsInv, Args!Scan PROVE ArgsInv'
<1>1. /\ args' = args /\ step' = step /\ index' = index + 1
      /\ args \in Seq(Chars) /\ Len(args) \in Nat /\ index \in 1 .. Len(args) /\ raw \in 1 .. index
      /\ step = "scan" /\ raw \in 1 .. index /\ built \in Seq(Seq(Chars))
      /\ raw = 1 \/ args[raw - 1] = Args!Space
      /\ \A i \in raw .. index - 1 : args[i] # Args!Space
      /\ WordsBefore(built, args, raw)
  BY LenProperties DEF ArgsInv, Args!Scan
<1>2. CASE args[index] = Args!Space
  <2>1. raw' = index + 1
        /\ built' = IF index > raw THEN Append(built, SubSeq(args, raw, index - 1)) ELSE built
    BY <1>2 DEF Args!Scan, Args!Emplace, Args!Start
  <2>2. built' \in Seq(Seq(Chars)) /\ WordsBefore(built', args, index + 1)
    <3>1. index \in 1 .. Len(args) + 1 BY <1>1
    <3> QED BY <1>1, <1>2, <2>1, <3>1, AnotherWord
  <2>3. raw' \in 1 .. index' /\ index' \in 1 .. Len(args) + 1 /\ raw' - 1 = index
        /\ \A i : i \notin raw' .. index' - 1
    BY <1>1, <2>1
  <2> QED BY <1>1, <1>2, <2>1, <2>2, <2>3 DEF ArgsInv
<1>3. CASE args[index] # Args!Space
  <2>1. raw' = raw /\ built' = built BY <1>3 DEF Args!Scan
  <2>2. \A i \in raw .. index' - 1 : i \in raw .. index - 1 \/ i = index BY <1>1
  <2>3. \A i \in raw .. index' - 1 : args[i] # Args!Space BY <1>1, <1>3, <2>2
  <2>4. raw \in 1 .. index' /\ index' \in 1 .. Len(args) + 1 BY <1>1
  <2> QED BY <1>1, <2>1, <2>3, <2>4 DEF ArgsInv
<1> QED BY <1>2, <1>3

LEMMA ArgsFinish == ASSUME ArgsInv, Args!Finish PROVE ArgsInv'
<1>1. /\ UNCHANGED <<args, index, raw>> /\ step = "scan" /\ step' = "end"
      /\ built' = IF index > raw THEN Append(built, SubSeq(args, raw, index - 1)) ELSE built
      /\ args \in Seq(Chars) /\ Len(args) \in Nat /\ index > Len(args)
  BY LenProperties DEF ArgsInv, Args!Finish, Args!Emplace
<1>2. index = Len(args) + 1 BY <1>1 DEF ArgsInv
<1>3. built' \in Seq(Seq(Chars)) /\ WordsBefore(built', args, index + 1)
  BY <1>1, <1>2, AnotherWord DEF ArgsInv
<1> QED BY <1>1, <1>2, <1>3 DEF ArgsInv

LEMMA ArgsInvHolds == Spec => [](Parsing => ArgsInv)
<1>1. Init => (Parsing => ArgsInv) BY ArgsBegin
<1>2. ASSUME Parsing => ArgsInv, [Next]_vars PROVE (Parsing => ArgsInv)'
  <2> SUFFICES ASSUME Parsing' PROVE ArgsInv' OBVIOUS
  <2>1. Parsing /\ (Args!Next \/ UNCHANGED <<args, step, raw, index, built>>) BY <1>2, ParsingSteps
  <2>2. CASE Args!Next BY <1>2, <2>1, <2>2, ArgsScan, ArgsFinish DEF Args!Next
  <2>3. CASE UNCHANGED <<args, step, raw, index, built>> BY <1>2, <2>1, <2>3 DEF ArgsInv
  <2> QED BY <2>1, <2>2, <2>3
<1> QED BY <1>1, <1>2, PTL DEF Spec

(* get_args gives the words of a string of any length, whatever stands     *)
(* before, between and after them.                                         *)
THEOREM ArgsAreWords == Spec => []WordsOfArgs
<1>1. (Parsing => ArgsInv) => WordsOfArgs
  <2> SUFFICES ASSUME ArgsInv, step = "end" PROVE Args!WordsOfArgs
    BY DEF WordsOfArgs, Args!WordsOfArgs
  <2>1. Len(args) \in Nat /\ index = Len(args) + 1 /\ WordsBefore(built, args, index + 1)
    BY LenProperties DEF ArgsInv
  <2>2. Args!Starts = StartsOf(args) BY DEF Args!Starts, Args!StartsWord, StartsOf
  <2>3. \A i : Args!EndOf(i) = EndIn(args, i) BY DEF Args!EndOf, EndIn
  <2>4. \A i \in StartsOf(args) : i < index + 1 BY <2>1 DEF StartsOf
  <2> QED BY <2>1, <2>2, <2>3, <2>4 DEF WordsBefore, WordAt, Args!WordsOfArgs
<1> QED BY <1>1, ArgsInvHolds, PTL

-----------------------------------------------------------------------------
(***************************************************************************)
(* !imp and !delay.  What the tables of the image hold is a function of    *)
(* the image, the argument and the modules that are bound: Descriptor,     *)
(* Thunk, and the lines Module and Entry.  The inductive invariant: the    *)
(* lines printed are those of the descriptors below index, without the     *)
(* entries the walk over the thunks of the last one has still to read.     *)
(***************************************************************************)
ImportDesc(k) == Imp!At(image.imports, image.imp.va + 20 * k, Imp!NoImport)
DelayDesc(k)  == Imp!At(image.delays, image.delay.va + 32 * k, Imp!NoDelay)
Directory == IF arg.name = "imp" THEN image.imp ELSE image.delay
Size      == IF arg.name = "imp" THEN 20 ELSE 32

Descriptor ==
  [k \in Nat |->
     IF arg.name = "imp"
     THEN [used  |-> ImportDesc(k).Characteristics # 0, name |-> Imp!RvaString(ImportDesc(k).Name),
           names |-> ImportDesc(k).Characteristics, slots |-> ImportDesc(k).FirstThunk,
           mark  |-> Imp!boundStatus(ImportDesc(k), Imp!RvaString(ImportDesc(k).Name))]
     ELSE [used  |-> DelayDesc(k).DllNameRVA # 0, name |-> Imp!RvaString(DelayDesc(k).DllNameRVA),
           names |-> DelayDesc(k).ImportNameTableRVA,
           slots |-> DelayDesc(k).ImportAddressTableRVA, mark |-> ""]]
Thunk == [k \in Nat |-> [j \in Nat |-> Imp!load_pointer(Descriptor[k].names + j * Imp!Width)]]
Slot  == [k \in Nat |-> [j \in Nat |-> Descriptor[k].slots + j * Imp!Width]]

Module == [k \in Nat |-> <<"module", k, Directory.va + Size * k, Descriptor[k].name, Descriptor[k].mark>>]
Entry  == [k \in Nat |-> [j \in Nat |->
             <<"entry", k, j, Imp!Imported(Thunk[k][j]), Slot[k][j], Imp!load_pointer(Slot[k][j])>>]]

(* The modules whose line, and those whose thunks, are asked for. *)
Named   == {k \in Nat : arg.name = "imp" => arg.arg \in {"", "*"}}
Entered == {k \in Nat : IF arg.name = "imp" THEN arg.arg \in {"*", Descriptor[k].name}
                        ELSE arg.arg = "1"}
(* The thunks before the first that is zero. *)
Run == [k \in Nat |-> {j \in Nat : \A i \in 0 .. j : ~Imp!Zero(Thunk[k][i])}]

(* The lines that are due, and all there can be. *)
Due == {e \in Nat \X Nat : /\ e[1] < index /\ e[1] \in Entered /\ e[2] \in Run[e[1]]
                           /\ step = "entries" /\ e[1] = index - 1 => e[2] < loaded.i}
Wanted == {Module[k] : k \in {k \in Named : k < index}} \cup {Entry[e[1]][e[2]] : e \in Due}
Lines  == {Module[k] : k \in Nat} \cup {Entry[e[1]][e[2]] : e \in Nat \X Nat}

ImpTyped ==
  /\ image \in ImportImages /\ arg.name \in {"imp", "delay"} /\ index \in Nat
  /\ step \in {"bound", "entries", "end", arg.name}
  /\ step = "bound" => index = 0 /\ rows = << >> /\ arg.name = "imp" /\ raw \in Nat
  /\ step # "bound" => raw = Directory.va + Size * index
  /\ \A k \in 0 .. index - 1 : Size * k < Directory.size /\ Descriptor[k].used
  /\ step = "end" => Size * index >= Directory.size \/ ~Descriptor[index].used

ImpThunks ==
  /\ loaded.i \in Nat
  /\ step = "entries" =>
       /\ index > 0 /\ index - 1 \in Entered
       /\ loaded = [name |-> Descriptor[index - 1].names, func |-> Descriptor[index - 1].slots,
                    i |-> loaded.i, back |-> arg.name]
       /\ \A j \in 0 .. loaded.i - 1 : ~Imp!Zero(Thunk[index - 1][j])

ImpPrinted ==
  step # "bound" =>
    /\ rows \in Seq(Lines) /\ {rows[n] : n \in 1 .. Len(rows)} = Wanted
    /\ \A n \in 1 .. Len(rows) - 1 : Imp!Before(rows[n], rows[n + 1])

(* The bound import directory: D are the descriptors that were read.       *)
Used     == {a \in DOMAIN image.bounds : Imp!UsedBound(a)}
After    == [a \in DOMAIN image.bounds |-> Imp!NextBound(a)]
Closed   == {P \in SUBSET DOMAIN image.bounds : Imp!Follows(P)}
ModuleAt == [a \in DOMAIN image.bounds |->
               Lower[Imp!RvaString(image.bound.va + image.bounds[a].OffsetModuleName)]]
Collected(D) ==
  /\ built = {ModuleAt[a] : a \in D} /\ \A P \in Closed : D \subseteq P
  /\ image.bound.va \in Used => image.bound.va \in D \/ raw = image.bound.va
  /\ \A a \in D : After[a] \in Used => After[a] \in D \/ raw = After[a]
  /\ raw \in Used => \A P \in Closed : raw \in P

ImpBound ==
  /\ built \subseteq {Lower[n] : n \in DOMAIN Lower}
  /\ step = "bound" => \E D \in SUBSET DOMAIN image.bounds : Collected(D)
  /\ step # "bound" => built = IF arg.name = "imp" THEN Imp!BoundModules ELSE {}

ImpInv == ImpTyped /\ ImpThunks /\ ImpPrinted /\ ImpBound
ImpArg == command \in {"imp", "delay"} => arg.name = command

(* The argument is that of the command. *)
LEMMA ImpArgStep == ASSUME ImpArg, [Next]_vars PROVE ImpArg'
<1> SUFFICES ASSUME command' \in {"imp", "delay"} PROVE arg'.name = command' BY DEF ImpArg
<1>1. CASE ArgsGiven
  <2>1. command' = command /\ arg' \in Second(Len(built) >= 2) BY <1>1 DEF ArgsGiven
  <2>2. CASE command = "imp" BY <2>1, <2>2 DEF Second
  <2>3. CASE command = "delay" BY <2>1, <2>3 DEF Second
  <2> QED BY <2>1, <2>2, <2>3
<1>2. CASE ~ArgsGiven
  <2>1. command' = command /\ arg' = arg
    BY <1>2 DEF Next, LoadImage, ImageLoaded, Dump, Step, vars
  <2> QED BY <2>1 DEF ImpArg
<1> QED BY <1>1, <1>2

(* The steps that lead to a state of !imp or !delay. *)
LEMMA ImpSteps ==
  ASSUME [Next]_vars, Walks({"imp", "delay"})'
  PROVE  \/ /\ image' \in ImportImages /\ arg' = arg /\ command' = command
            /\ Locals(IF command = "imp" THEN "bound" ELSE "delay", FirstTable(image'), {}, Imp!NoCall)
         \/ Walks({"imp", "delay"}) /\ Imp!Next
         \/ Walks({"imp", "delay"}) /\ UNCHANGED <<image, arg, step, raw, built, loaded, index, rows>>
<1>1. phase' = "walk" /\ command' \in {"imp", "delay"} BY DEF Walks
<1>2. CASE ArgsGiven BY <1>1, <1>2 DEF ArgsGiven
<1>3. CASE LoadImage BY <1>1, <1>3 DEF LoadImage
<1>4. CASE ImageLoaded BY <1>1, <1>4 DEF ImageLoaded
<1>5. CASE Dump BY <1>1, <1>5 DEF Dump
<1>6. CASE Step BY <1>1, <1>6 DEF Step, Loading, Parsing, Walks
<1>7. CASE UNCHANGED vars BY <1>7 DEF vars, Walks
<1> QED BY <1>2, <1>3, <1>4, <1>5, <1>6, <1>7 DEF Next

-----------------------------------------------------------------------------
(* What the tables hold does not change.                                   *)
LEMMA SameTables ==
  ASSUME UNCHANGED <<image, arg, built>>
  PROVE  UNCHANGED <<Directory, Size, Descriptor, Thunk, Slot, Module, Entry, Named, Entered, Run, Lines>>
<1>1. Directory' = Directory /\ Size' = Size BY DEF Directory, Size
<1>2. Descriptor' = Descriptor
  BY DEF Descriptor, ImportDesc, DelayDesc, Imp!RvaString, Imp!boundStatus
<1>3. \A a : Imp!load_pointer(a)' = Imp!load_pointer(a)
  BY DEF Imp!load_pointer, Imp!Pointer, Imp!Cell
<1>4. Imp!Width' = Imp!Width BY DEF Imp!Width
<1>5. Thunk' = Thunk /\ Slot' = Slot
  BY <1>2, <1>4 DEF Thunk, Slot, Imp!load_pointer, Imp!Pointer, Imp!Cell
<1>6. Module' = Module BY <1>1, <1>2 DEF Module
<1>7. Entry' = Entry
  BY <1>5 DEF Entry, Imp!Imported, Imp!IsOrdinal, Imp!RvaString, Imp!Hint,
              Imp!load_pointer, Imp!Pointer, Imp!Cell
<1>8. Named' = Named /\ Entered' = Entered BY <1>2 DEF Named, Entered
<1>9. Run' = Run BY <1>5 DEF Run
<1>10. Lines' = Lines BY <1>6, <1>7 DEF Lines
<1> QED BY <1>1, <1>2, <1>5, <1>6, <1>7, <1>8, <1>9, <1>10

(* What the tables of imports are. *)
LEMMA ImportImage ==
  ASSUME image \in ImportImages
  PROVE  /\ image.imp \in Region /\ image.bound \in Region /\ image.delay \in Region
         /\ Directory.va \in Nat /\ Directory.size \in Nat /\ Size \in {20, 32}
         /\ \A k \in Nat : Descriptor[k].names \in Nat
         /\ \A a : Imp!RvaString(a) \in DOMAIN Lower
<1>1. image.imp \in Region /\ image.bound \in Region /\ image.delay \in Region
  BY ImportImagesAssumption
<1>2. Directory.va \in Nat /\ Directory.size \in Nat /\ Size \in {20, 32}
  BY <1>1 DEF Directory, Size, Region
<1>3. \A k : ImportDesc(k).Characteristics \in Nat
  BY ImportImagesAssumption DEF ImportDesc, Imp!At, Imp!NoImport, ImportDescriptor
<1>4. \A k : DelayDesc(k).ImportNameTableRVA \in Nat
  BY ImportImagesAssumption DEF DelayDesc, Imp!At, Imp!NoDelay, DelayDescriptor
<1>5. \A k \in Nat : Descriptor[k].names \in Nat BY <1>3, <1>4 DEF Descriptor
<1>6. \A a : Imp!RvaString(a) \in DOMAIN Lower
  BY ImportImagesAssumption, LowerAssumption DEF Imp!RvaString, Imp!At
<1> QED BY <1>1, <1>2, <1>5, <1>6

-----------------------------------------------------------------------------
LEMMA ImpEnters ==
  ASSUME image' \in ImportImages, command \in {"imp", "delay"}, arg'.name = command,
         Locals(IF command = "imp" THEN "bound" ELSE "delay", FirstTable(image'), {}, Imp!NoCall)
  PROVE  ImpInv'
<1>1. /\ step' = IF command = "imp" THEN "bound" ELSE "delay"
      /\ raw' = IF command = "imp" THEN image'.bound.va ELSE image'.delay.va
      /\ index' = 0 /\ built' = {} /\ rows' = << >> /\ loaded' = Imp!NoCall
  BY DEF Locals, FirstTable
<1>2. Len(<< >>) = 0 /\ \A S : << >> \in Seq(S) BY EmptySeq
<1>3. image'.bound.va \in Nat /\ image'.delay.va \in Nat BY ImportImagesAssumption DEF Region
<1>4. \A k : k \notin 0 .. index' - 1 /\ ~(k \in Nat /\ k < index') BY <1>1
<1>5. ImpTyped' BY <1>1, <1>3, <1>4 DEF ImpTyped, Directory, Size
<1>6. ImpThunks' BY <1>1 DEF ImpThunks, Imp!NoCall
<1>7. Wanted' = {} BY <1>4 DEF Wanted, Due, Named
<1>8. ImpPrinted' BY <1>1, <1>2, <1>7 DEF ImpPrinted
<1>9. ImpBound'
  <2>1. ASSUME command = "imp" PROVE Collected({})'
    <3>1. raw' = image'.bound.va BY <1>1, <2>1
    <3>2. raw' \in Used' => \A P \in Closed' : raw' \in P
      BY <3>1 DEF Used, Closed, Imp!Follows
    <3> QED BY <1>1, <3>1, <3>2 DEF Collected
  <2>2. {} \in SUBSET DOMAIN image'.bounds OBVIOUS
  <2> QED BY <1>1, <2>1, <2>2 DEF ImpBound
<1> QED BY <1>5, <1>6, <1>8, <1>9 DEF ImpInv

(* A descriptor of the bound import directory. *)
LEMMA SameBound ==
  ASSUME UNCHANGED image PROVE UNCHANGED <<Used, After, Closed, ModuleAt>>
<1>1. Used' = Used /\ After' = After
  BY DEF Used, After, Imp!UsedBound, Imp!NextBound
<1>2. Closed' = Closed BY DEF Closed, Imp!Follows, Imp!UsedBound, Imp!NextBound
<1>3. ModuleAt' = ModuleAt BY DEF ModuleAt, Imp!RvaString
<1> QED BY <1>1, <1>2, <1>3

LEMMA ImpReadBound == ASSUME ImpInv, Imp!ReadBound PROVE ImpInv'
<1> DEFINE desc == Imp!At(image.bounds, raw, Imp!NoBound)
           name == Lower[Imp!RvaString(image.bound.va + desc.OffsetModuleName)]
<1>1. /\ UNCHANGED <<image, arg, step, index, loaded, rows>> /\ step = "bound"
      /\ raw < image.bound.va + image.bound.size /\ desc.OffsetModuleName # 0
      /\ built' = built \cup {name} /\ raw' = raw + Imp!BoundSize(desc)
      /\ image \in ImportImages /\ index = 0 /\ arg.name = "imp"
  BY DEF ImpInv, ImpTyped, Imp!ReadBound, Imp!InDir
<1>2. raw \in DOMAIN image.bounds /\ desc = image.bounds[raw]
  BY <1>1 DEF Imp!At, Imp!NoBound
<1>3. raw \in Used /\ ModuleAt[raw] = name
  BY <1>1, <1>2 DEF Used, ModuleAt, Imp!UsedBound
<1>4. raw' = After[raw] /\ raw' \in Nat
  <2>1. desc.NumberOfModuleForwarderRefs \in Nat
    BY <1>1, <1>2, ImportImagesAssumption DEF BoundDescriptor
  <2>2. raw \in Nat BY <1>1 DEF ImpInv, ImpTyped
  <2>3. raw' = raw + (8 + 8 * desc.NumberOfModuleForwarderRefs) BY <1>1 DEF Imp!BoundSize
  <2>4. After[raw] = raw + 8 + 8 * desc.NumberOfModuleForwarderRefs
    BY <1>2 DEF After, Imp!NextBound
  <2> HIDE DEF desc
  <2> QED BY <2>1, <2>2, <2>3, <2>4
<1>5. name \in {Lower[n] : n \in DOMAIN Lower} BY <1>1, ImportImage
<1> HIDE DEF name, desc
<1>6. PICK D \in SUBSET DOMAIN image.bounds : Collected(D) BY <1>1 DEF ImpInv, ImpBound
<1>7. \E E \in SUBSET DOMAIN image'.bounds : Collected(E)'
  <2>0. PICK E : E = D \cup {raw} OBVIOUS
  <2>1. UNCHANGED <<Used, After, Closed, ModuleAt>> BY <1>1, SameBound
  <2>2. /\ built = {ModuleAt[a] : a \in D} /\ \A P \in Closed : D \subseteq P
        /\ image.bound.va \in Used => image.bound.va \in D \/ raw = image.bound.va
        /\ \A a \in D : After[a] \in Used => After[a] \in D \/ raw = After[a]
        /\ \A P \in Closed : raw \in P
    BY <1>3, <1>6 DEF Collected
  <2>3. built' = {ModuleAt[a] : a \in E} BY <1>1, <1>3, <2>0, <2>2
  <2>4. ASSUME raw' \in Used, NEW P \in Closed PROVE raw' \in P
    BY <1>2, <1>4, <2>2, <2>4 DEF Closed, Used, After, Imp!Follows
  <2>5. \A P \in Closed : E \subseteq P BY <2>0, <2>2
  <2>6. image.bound.va \in Used => image.bound.va \in E BY <2>0, <2>2
  <2>7. \A a \in E : After[a] \in Used => After[a] \in E \/ raw' = After[a]
    BY <1>4, <2>0, <2>2
  <2>8. E \in SUBSET DOMAIN image'.bounds BY <1>1, <1>2, <2>0
  <2>9. Collected(E)'
    <3>1. UNCHANGED image BY <1>1
    <3> QED BY <2>1, <2>3, <2>4, <2>5, <2>6, <2>7, <3>1 DEF Collected
  <2> QED BY <2>8, <2>9
<1>8. \A k : k \notin 0 .. index - 1 BY <1>1
<1>9. ImpTyped' BY <1>1, <1>4, <1>8 DEF ImpInv, ImpTyped
<1>10. ImpThunks' BY <1>1 DEF ImpInv, ImpThunks
<1>11. ImpPrinted' BY <1>1 DEF ImpPrinted
<1>12. ImpBound'
  <2>1. built' \subseteq {Lower[n] : n \in DOMAIN Lower} BY <1>1, <1>5 DEF ImpInv, ImpBound
  <2> QED BY <1>1, <1>7, <2>1 DEF ImpBound
<1> QED BY <1>9, <1>10, <1>11, <1>12 DEF ImpInv

(* The bound import directory ends: D are all of its descriptors.          *)
LEMMA ImpBoundEnds == ASSUME ImpInv, Imp!BoundEnds PROVE ImpInv'
<1>1. /\ UNCHANGED <<image, arg, built, index, loaded, rows>> /\ step = "bound"
      /\ raw' = image.imp.va /\ step' = "imp" /\ index = 0 /\ rows = << >> /\ arg.name = "imp"
      /\ image \in ImportImages
      /\ raw < image.bound.va + image.bound.size =>
           Imp!At(image.bounds, raw, Imp!NoBound).OffsetModuleName = 0
  BY DEF ImpInv, ImpTyped, Imp!BoundEnds, Imp!InDir, Imp!Goto
<1>2. raw \notin Used BY <1>1 DEF Used, Imp!UsedBound
<1>3. PICK D \in SUBSET DOMAIN image.bounds : Collected(D) BY <1>1 DEF ImpInv, ImpBound
<1>4. built = Imp!BoundModules
  <2>1. /\ image.bound.va \in Used => image.bound.va \in D
        /\ \A a \in D : After[a] \in Used => After[a] \in D
    BY <1>2, <1>3 DEF Collected
  <2>2. \A a : Imp!UsedBound(a) => a \in Used BY DEF Used, Imp!UsedBound, Imp!At, Imp!NoBound
  <2>3. Imp!Follows(D) BY <2>1, <2>2 DEF Imp!Follows, After
  <2>4. D \in Closed BY <2>3 DEF Closed
  <2>5. Imp!BoundPlaces = {a \in DOMAIN image.bounds : \A P \in Closed : a \in P}
    BY DEF Imp!BoundPlaces, Closed
  <2>6. Imp!BoundPlaces = D BY <1>3, <2>4, <2>5 DEF Collected
  <2>7. Imp!BoundModules = {ModuleAt[a] : a \in D} BY <2>6 DEF Imp!BoundModules, ModuleAt
  <2> QED BY <1>3, <2>7 DEF Collected
<1>5. Imp!BoundModules' = Imp!BoundModules
  BY <1>1 DEF Imp!BoundModules, Imp!BoundPlaces, Imp!Follows, Imp!UsedBound, Imp!NextBound,
              Imp!RvaString
<1>6. \A k : k \notin 0 .. index' - 1 /\ ~(k \in Nat /\ k < index') BY <1>1
<1>7. raw' = Directory'.va + Size' * index'
  <2>1. Directory' = image.imp /\ Size' = 20 BY <1>1 DEF Directory, Size
  <2>2. image.imp.va \in Nat BY <1>1, ImportImage DEF Region
  <2> QED BY <1>1, <2>1, <2>2
<1>8. ImpTyped' BY <1>1, <1>6, <1>7 DEF ImpInv, ImpTyped
<1>9. ImpThunks' BY <1>1 DEF ImpInv, ImpThunks
<1>10. ImpPrinted'
  <2>1. Wanted' = {} BY <1>6 DEF Wanted, Due, Named
  <2>2. Len(<< >>) = 0 /\ \A S : << >> \in Seq(S) BY EmptySeq
  <2> QED BY <1>1, <2>1, <2>2 DEF ImpPrinted
<1>11. ImpBound' BY <1>1, <1>4, <1>5 DEF ImpInv, ImpBound
<1> QED BY <1>8, <1>9, <1>10, <1>11 DEF ImpInv

-----------------------------------------------------------------------------
(* A line is printed after those it follows. *)
LEMMA PrintsLine ==
  ASSUME ImpPrinted, step # "bound", Lines' = Lines, NEW x \in Lines, rows' = Append(rows, x),
         Wanted' = Wanted \cup {x}, \A y \in Wanted : Imp!Before(y, x)
  PROVE  ImpPrinted'
<1> DEFINE t == rows'
<1>1. /\ rows \in Seq(Lines) /\ {rows[n] : n \in 1 .. Len(rows)} = Wanted
      /\ \A n \in 1 .. Len(rows) - 1 : Imp!Before(rows[n], rows[n + 1])
  BY DEF ImpPrinted
<1>2. /\ t \in Seq(Lines) /\ Len(rows) \in Nat /\ Len(t) = Len(rows) + 1 /\ t[Len(rows) + 1] = x
      /\ \A j \in 1 .. Len(rows) : t[j] = rows[j]
      /\ \A j \in 1 .. Len(t) : j \in 1 .. Len(rows) \/ j = Len(rows) + 1
  <2>1. t = Append(rows, x) /\ rows \in Seq(Lines) BY <1>1
  <2> HIDE DEF t
  <2> QED BY <2>1, Appended
<1> HIDE DEF t
<1>3. {t[n] : n \in 1 .. Len(t)} = Wanted \cup {x}
  <2>1. ASSUME NEW n \in 1 .. Len(t) PROVE t[n] \in Wanted \cup {x} BY <1>1, <1>2
  <2>2. ASSUME NEW y \in Wanted PROVE \E n \in 1 .. Len(t) : t[n] = y
    <3>1. PICK n \in 1 .. Len(rows) : rows[n] = y BY <1>1
    <3>2. n \in 1 .. Len(t) /\ t[n] = y BY <1>2, <3>1
    <3> QED BY <3>2
  <2>3. Len(t) \in 1 .. Len(t) /\ t[Len(t)] = x BY <1>2
  <2> QED BY <2>1, <2>2, <2>3
<1>4. ASSUME NEW n \in 1 .. Len(t) - 1 PROVE Imp!Before(t[n], t[n + 1])
  <2>1. CASE n = Len(rows)
    <3>1. n \in 1 .. Len(rows) /\ t[n] = rows[n] /\ t[n + 1] = x BY <1>2, <2>1
    <3>2. rows[n] \in Wanted BY <1>1, <3>1
    <3> QED BY <3>1, <3>2
  <2>2. CASE n # Len(rows)
    <3>1. n \in 1 .. Len(rows) - 1 /\ n \in 1 .. Len(rows) /\ n + 1 \in 1 .. Len(rows) BY <1>2, <2>2
    <3>2. t[n] = rows[n] /\ t[n + 1] = rows[n + 1] BY <1>2, <3>1
    <3> QED BY <1>1, <3>1, <3>2
  <2> QED BY <2>1, <2>2
<1> QED BY <1>2, <1>3, <1>4 DEF ImpPrinted, t

(* What a line says of its place. *)
LEMMA PlaceOfLine ==
  ASSUME NEW k \in Nat
  PROVE  /\ Module[k][1] = "module" /\ Module[k][2] = k
         /\ \A j \in Nat : Entry[k][j][1] = "entry" /\ Entry[k][j][2] = k /\ Entry[k][j][3] = j
BY DEF Module, Entry

(* A set of modules that stays the same. *)
LEMMA SameBuilt ==
  ASSUME ImpBound, UNCHANGED <<image, arg, built>>, step # "bound", step' # "bound"
  PROVE  ImpBound'
<1>1. Imp!BoundModules' = Imp!BoundModules
  BY DEF Imp!BoundModules, Imp!BoundPlaces, Imp!Follows, Imp!UsedBound, Imp!NextBound, Imp!RvaString
<1> QED BY <1>1 DEF ImpBound

(* A descriptor was read: the lines wanted are one or none more. *)
LEMMA ReadsModule ==
  ASSUME ImpInv, UNCHANGED <<image, arg, built>>, step = arg.name,
         Size * index < Directory.size, Descriptor[index].used,
         index' = index + 1, raw' = raw + Size,
         rows' = IF index \in Named THEN Append(rows, Module[index]) ELSE rows,
         step' = IF index \in Entered THEN "entries" ELSE step,
         loaded' = IF index \in Entered
                   THEN [name |-> Descriptor[index].names, func |-> Descriptor[index].slots,
                         i |-> 0, back |-> arg.name] ELSE loaded
  PROVE  ImpInv'
<1>1. UNCHANGED <<Directory, Size, Descriptor, Thunk, Slot, Module, Entry, Named, Entered, Run, Lines>>
  BY SameTables
<1>2. /\ image \in ImportImages /\ arg.name \in {"imp", "delay"} /\ index \in Nat
      /\ raw = Directory.va + Size * index
      /\ Directory.va \in Nat /\ Directory.size \in Nat /\ Size \in {20, 32}
      /\ \A k \in 0 .. index - 1 : Size * k < Directory.size /\ Descriptor[k].used
  BY ImportImage DEF ImpInv, ImpTyped
<1>3. ImpTyped'
  <2>1. raw' = Directory.va + Size * index'
    <3>1. raw' = Directory.va + Size * index + Size /\ index' = index + 1 BY <1>2
    <3>2. CASE Size = 20
      <4>1. raw' = Directory.va + 20 * index + 20 BY <3>1, <3>2
      <4>2. Directory.va + 20 * index + 20 = Directory.va + 20 * (index + 1) BY <1>2
      <4> QED BY <3>1, <3>2, <4>1, <4>2
    <3>3. CASE Size = 32
      <4>1. raw' = Directory.va + 32 * index + 32 BY <3>1, <3>3
      <4>2. Directory.va + 32 * index + 32 = Directory.va + 32 * (index + 1) BY <1>2
      <4> QED BY <3>1, <3>3, <4>1, <4>2
    <3> QED BY <1>2, <3>2, <3>3
  <2>2. \A k \in 0 .. index' - 1 : Size * k < Directory.size /\ Descriptor[k].used
    <3> SUFFICES ASSUME NEW k \in 0 .. index' - 1 PROVE k \in 0 .. index - 1 \/ k = index BY <1>2
    <3> QED BY <1>2
  <2>3. step' \in {"entries", "imp", "delay"} /\ index' \in Nat /\ (step' = "entries" \/ step' = arg.name) BY <1>2
  <2> QED BY <1>1, <1>2, <2>1, <2>2, <2>3 DEF ImpTyped
<1>4. ImpThunks'
  <2>1. CASE index \in Entered
    <3>1. loaded'.i = 0 BY <2>1
    <3>2. index' - 1 = index /\ index' > 0 BY <1>2
    <3>3. loaded' = [name |-> Descriptor[index].names, func |-> Descriptor[index].slots,
                     i |-> loaded'.i, back |-> arg.name]
      BY <2>1, <3>1
    <3>4. \A j \in 0 .. loaded'.i - 1 : ~Imp!Zero(Thunk[index][j]) BY <3>1
    <3> QED BY <1>1, <2>1, <3>1, <3>2, <3>3, <3>4 DEF ImpThunks
  <2>2. CASE index \notin Entered BY <1>2, <2>2 DEF ImpInv, ImpThunks
  <2> QED BY <2>1, <2>2
<1>5. Due' = Due
  <2>1. index' - 1 = index BY <1>2
  <2>2. \A e \in Nat \X Nat : e[1] < index' <=> e[1] < index \/ e[1] = index
    <3> TAKE e \in Nat \X Nat
    <3>1. e[1] \in Nat /\ index \in Nat /\ index' = index + 1 BY <1>2
    <3> QED BY ONLY <3>1
  <2>3. step # "entries" BY <1>2
  <2>4. CASE index \in Entered
    <3>1. step' = "entries" /\ loaded'.i = 0 BY <2>4
    <3>2. \A e \in Nat \X Nat : ~(e[2] < 0) /\ (e[1] < index => e[1] # index) BY <1>2
    <3> QED BY <1>1, <2>1, <2>2, <2>3, <3>1, <3>2 DEF Due
  <2>5. CASE index \notin Entered
    <3>1. step' = step BY <2>5
    <3> QED BY <1>1, <2>2, <2>3, <2>5, <3>1 DEF Due
  <2> QED BY <2>4, <2>5
<1>6. Wanted' = IF index \in Named THEN Wanted \cup {Module[index]} ELSE Wanted
  <2>1. {k \in Named : k < index'} =
          {k \in Named : k < index} \cup (IF index \in Named THEN {index} ELSE {})
    <3>1. \A k \in Named : k \in Nat BY DEF Named
    <3> QED BY <1>2, <3>1
  <2> DEFINE N == {k \in Named : k < index}
             E == {Entry[e[1]][e[2]] : e \in Due}
  <2>2. Wanted = {Module[k] : k \in N} \cup E BY DEF Wanted
  <2>3. Wanted' = {Module[k] : k \in N \cup (IF index \in Named THEN {index} ELSE {})} \cup E
    BY <1>1, <1>5, <2>1 DEF Wanted
  <2> HIDE DEF N, E
  <2> QED BY <2>2, <2>3
<1>7. ImpPrinted'
  <2>1. /\ rows \in Seq(Lines) /\ {rows[n] : n \in 1 .. Len(rows)} = Wanted
        /\ \A n \in 1 .. Len(rows) - 1 : Imp!Before(rows[n], rows[n + 1])
    BY <1>2 DEF ImpInv, ImpPrinted
  <2>2. CASE index \in Named
    <3>1. Module[index] \in Lines BY <1>2 DEF Lines
    <3>2. \A y \in Wanted : Imp!Before(y, Module[index])
      <4>1. \A k \in Nat : k < index => Imp!Before(Module[k], Module[index])
        BY <1>2, PlaceOfLine, SMTT(30) DEF Imp!Before
      <4>2. ASSUME NEW k \in Nat, NEW j \in Nat, k < index
            PROVE  Imp!Before(Entry[k][j], Module[index])
        <5>1. Entry[k][j][2] = k /\ Module[index][2] = index BY <1>2, PlaceOfLine
        <5> QED BY <4>2, <5>1 DEF Imp!Before
      <4>3. \A k \in Named : k \in Nat BY DEF Named
      <4>4. \A e \in Due : e[1] \in Nat /\ e[2] \in Nat /\ e[1] < index BY DEF Due
      <4> QED BY <4>1, <4>2, <4>3, <4>4 DEF Wanted
    <3>3. rows' = Append(rows, Module[index]) BY <2>2
    <3>4. Wanted' = Wanted \cup {Module[index]} BY <1>6, <2>2
    <3> QED BY <1>1, <1>2, <3>1, <3>2, <3>3, <3>4, PrintsLine DEF ImpInv
  <2>3. CASE index \notin Named
    <3>1. rows' = rows /\ Wanted' = Wanted BY <1>6, <2>3
    <3> QED BY <1>1, <2>1, <3>1 DEF ImpPrinted
  <2> QED BY <2>2, <2>3
<1>8. ImpBound' BY <1>2, SameBuilt DEF ImpInv
<1> QED BY <1>3, <1>4, <1>7, <1>8 DEF ImpInv

(* A descriptor of the import or of the delay-load table. *)
LEMMA ImpReadImport == ASSUME ImpInv, Imp!ReadImport PROVE ImpInv'
<1>1. /\ step = "imp" /\ arg.name = "imp" /\ index \in Nat /\ image \in ImportImages
      /\ raw = image.imp.va + 20 * index /\ raw < image.imp.va + image.imp.size
      /\ Directory = image.imp /\ Size = 20
  BY DEF ImpInv, ImpTyped, Imp!ReadImport, Imp!InDir, Directory, Size
<1> DEFINE desc == ImportDesc(index)
           name == Imp!RvaString(desc.Name)
<1>2. desc = Imp!At(image.imports, raw, Imp!NoImport) BY <1>1 DEF ImportDesc
<1>3. /\ desc.Characteristics # 0 /\ raw' = raw + 20 /\ index' = index + 1
      /\ UNCHANGED <<image, arg, built>>
      /\ IF arg.arg \in {"", "*"}
         THEN rows' = Append(rows, <<"module", index, raw, name, Imp!boundStatus(desc, name)>>)
         ELSE rows' = rows
      /\ IF arg.arg \in {"*", name}
         THEN /\ step' = "entries"
              /\ loaded' = [name |-> desc.Characteristics, func |-> desc.FirstThunk,
                            i |-> 0, back |-> "imp"]
         ELSE step' = step /\ loaded' = loaded
  BY <1>2 DEF Imp!ReadImport, Imp!Advance, Imp!Emit, Imp!CallEntries, Imp!Goto
<1>4. Descriptor[index] =
        [used |-> desc.Characteristics # 0, name |-> name, names |-> desc.Characteristics,
         slots |-> desc.FirstThunk, mark |-> Imp!boundStatus(desc, name)]
  BY <1>1 DEF Descriptor
<1> HIDE DEF desc, name
<1>10. Descriptor[index].used
  <2>1. Descriptor[index].used = (desc.Characteristics # 0) BY <1>4
  <2> QED BY <1>3, <2>1
<1>5. /\ Descriptor[index].name = name
      /\ Descriptor[index].names = desc.Characteristics /\ Descriptor[index].slots = desc.FirstThunk
      /\ Descriptor[index].mark = Imp!boundStatus(desc, name)
  BY <1>4
<1>6. Module[index] = <<"module", index, raw, name, Imp!boundStatus(desc, name)>>
  BY <1>1, <1>5 DEF Module
<1>7. index \in Named <=> arg.arg \in {"", "*"} BY <1>1 DEF Named
<1>8. index \in Entered <=> arg.arg \in {"*", name} BY <1>1, <1>5 DEF Entered
<1>9. Size * index < Directory.size
  <2>1. image.imp.va \in Nat /\ image.imp.size \in Nat BY <1>1, ImportImage DEF Region
  <2> QED BY <1>1, <2>1
<1> QED BY <1>1, <1>3, <1>5, <1>6, <1>7, <1>8, <1>9, <1>10, ReadsModule

LEMMA ImpReadDelay == ASSUME ImpInv, Imp!ReadDelay PROVE ImpInv'
<1>1. /\ step = "delay" /\ arg.name = "delay" /\ index \in Nat /\ image \in ImportImages
      /\ raw = image.delay.va + 32 * index /\ raw < image.delay.va + image.delay.size
      /\ Directory = image.delay /\ Size = 32
  BY DEF ImpInv, ImpTyped, Imp!ReadDelay, Imp!InDir, Directory, Size
<1> DEFINE desc == DelayDesc(index)
           name == Imp!RvaString(desc.DllNameRVA)
<1>2. desc = Imp!At(image.delays, raw, Imp!NoDelay) BY <1>1 DEF DelayDesc
<1>3. /\ desc.DllNameRVA # 0 /\ raw' = raw + 32 /\ index' = index + 1
      /\ UNCHANGED <<image, arg, built>>
      /\ rows' = Append(rows, <<"module", index, raw, name, "">>)
      /\ IF arg.arg = "1"
         THEN /\ step' = "entries"
              /\ loaded' = [name |-> desc.ImportNameTableRVA, func |-> desc.ImportAddressTableRVA,
                            i |-> 0, back |-> "delay"]
         ELSE step' = step /\ loaded' = loaded
  BY <1>2 DEF Imp!ReadDelay, Imp!Advance, Imp!Emit, Imp!CallEntries, Imp!Goto
<1>4. Descriptor[index].used
  <2>1. Descriptor[index].used = (desc.DllNameRVA # 0) BY <1>1 DEF Descriptor
  <2> QED BY <1>3, <2>1
<1>5. /\ Descriptor[index].name = name
      /\ Descriptor[index].names = desc.ImportNameTableRVA
      /\ Descriptor[index].slots = desc.ImportAddressTableRVA /\ Descriptor[index].mark = ""
  BY <1>1 DEF Descriptor
<1> HIDE DEF desc, name
<1>6. Module[index] = <<"module", index, raw, name, "">> BY <1>1, <1>5 DEF Module
<1>7. index \in Named BY <1>1 DEF Named
<1>8. index \in Entered <=> arg.arg = "1" BY <1>1 DEF Entered
<1>9. Size * index < Directory.size
  <2>1. image.delay.va \in Nat /\ image.delay.size \in Nat BY <1>1, ImportImage DEF Region
  <2> QED BY <1>1, <2>1
<1> QED BY <1>1, <1>3, <1>4, <1>5, <1>6, <1>7, <1>8, <1>9, ReadsModule

-----------------------------------------------------------------------------
(* A thunk of the last descriptor.                                         *)
LEMMA ImpReadEntry == ASSUME ImpInv, Imp!ReadEntry PROVE ImpInv'
<1> DEFINE k == index - 1
           i == loaded.i
<1>1. /\ step = "entries" /\ UNCHANGED <<image, arg, built, raw, index>>
      /\ image \in ImportImages /\ arg.name \in {"imp", "delay"} /\ index \in Nat /\ index > 0
      /\ k \in Nat /\ k \in Entered /\ i \in Nat
      /\ loaded = [name |-> Descriptor[k].names, func |-> Descriptor[k].slots,
                   i |-> i, back |-> arg.name]
      /\ \A j \in 0 .. i - 1 : ~Imp!Zero(Thunk[k][j])
  BY DEF ImpInv, ImpTyped, ImpThunks, Imp!ReadEntry
<1>2. UNCHANGED <<Directory, Size, Descriptor, Thunk, Slot, Module, Entry, Named, Entered, Run, Lines>>
  BY <1>1, SameTables
<1>3. /\ loaded.name = Descriptor[k].names /\ loaded.func = Descriptor[k].slots
      /\ loaded.back = arg.name
  BY <1>1
<1>4. /\ Thunk[k][i] = Imp!load_pointer(loaded.name + i * Imp!Width)
      /\ Slot[k][i] = loaded.func + i * Imp!Width
      /\ Entry[k][i] = <<"entry", k, i, Imp!Imported(Thunk[k][i]), Slot[k][i],
                         Imp!load_pointer(Slot[k][i])>>
  BY <1>1, <1>3 DEF Thunk, Slot, Entry
<1>5. IF Imp!Zero(Thunk[k][i])
      THEN step' = arg.name /\ rows' = rows /\ loaded' = loaded
      ELSE rows' = Append(rows, Entry[k][i]) /\ loaded' = [loaded EXCEPT !.i = @ + 1] /\ step' = step
  BY <1>3, <1>4 DEF Imp!ReadEntry, Imp!Leave, Imp!Goto, Imp!Emit
<1>6. \A j \in Nat : j \in Run[k] <=> \A h \in 0 .. j : ~Imp!Zero(Thunk[k][h])
  BY <1>1 DEF Run
<1> HIDE DEF k, i
<1>7. ImpBound' BY <1>1, <1>5, SameBuilt DEF ImpInv
<1>8. ImpTyped'
  <2>1. step' \in {"entries", "imp", "delay"} /\ (step' = "entries" \/ step' = arg.name) BY <1>1, <1>5
  <2> QED BY <1>1, <1>2, <2>1 DEF ImpInv, ImpTyped
<1>9. /\ rows \in Seq(Lines) /\ {rows[n] : n \in 1 .. Len(rows)} = Wanted
      /\ \A n \in 1 .. Len(rows) - 1 : Imp!Before(rows[n], rows[n + 1])
  BY <1>1 DEF ImpInv, ImpPrinted
<1>10. CASE Imp!Zero(Thunk[k][i])
  <2>1. step' = arg.name /\ rows' = rows /\ loaded' = loaded /\ step' # "entries" BY <1>1, <1>5, <1>10
  <2>2. ImpThunks' BY <1>1, <2>1 DEF ImpThunks, i
  <2>3. \A j \in Run[k] : j \in Nat /\ j < i
    <3> SUFFICES ASSUME NEW j \in Run[k] PROVE j \in Nat /\ j < i OBVIOUS
    <3>1. j \in Nat BY <1>1 DEF Run
    <3>2. i \notin 0 .. j BY <1>6, <1>10, <3>1
    <3> QED BY <1>1, <3>1, <3>2
  <2>4. Due' = Due BY <1>1, <1>2, <2>1, <2>3 DEF Due, k, i
  <2>5. Wanted' = Wanted BY <1>1, <1>2, <2>4 DEF Wanted
  <2>6. ImpPrinted' BY <1>2, <1>9, <2>1, <2>5 DEF ImpPrinted
  <2> QED BY <1>7, <1>8, <2>2, <2>6 DEF ImpInv
<1>11. CASE ~Imp!Zero(Thunk[k][i])
  <2>1. rows' = Append(rows, Entry[k][i]) /\ step' = "entries" BY <1>1, <1>5, <1>11
  <2>2. /\ loaded'.i = i + 1
        /\ loaded' = [name |-> Descriptor[k].names, func |-> Descriptor[k].slots,
                      i |-> i + 1, back |-> arg.name]
    BY <1>1, <1>5, <1>11 DEF i
  <2>3. \A j \in 0 .. i : ~Imp!Zero(Thunk[k][j])
    <3> SUFFICES ASSUME NEW j \in 0 .. i PROVE j \in 0 .. i - 1 \/ j = i BY <1>1, <1>11
    <3> QED BY <1>1
  <2>4. index' - 1 = k /\ (i + 1) - 1 = i BY <1>1 DEF k
  <2>5. ImpThunks' BY <1>1, <1>2, <2>1, <2>2, <2>3, <2>4 DEF ImpThunks
  <2>6. i \in Run[k] BY <1>1, <1>6, <2>3
  <2>7. Due' = Due \cup {<<k, i>>}
    <3>1. \A e \in Nat \X Nat : e[2] < i + 1 <=> e[2] < i \/ e[2] = i BY <1>1
    <3>2. \A e \in Nat \X Nat : e = <<k, i>> <=> e[1] = k /\ e[2] = i OBVIOUS
    <3>3. <<k, i>> \in Nat \X Nat /\ k < index BY <1>1 DEF k
    <3>4. Due = {e \in Nat \X Nat : /\ e[1] < index /\ e[1] \in Entered /\ e[2] \in Run[e[1]]
                                    /\ e[1] = k => e[2] < i}
      BY <1>1 DEF Due, k, i
    <3>5. Due' = {e \in Nat \X Nat : /\ e[1] < index /\ e[1] \in Entered /\ e[2] \in Run[e[1]]
                                     /\ e[1] = k => e[2] < i + 1}
      BY <1>1, <1>2, <2>1, <2>2, <2>4 DEF Due
    <3>6. \A e : e \in Due' => e \in Due \cup {<<k, i>>} BY <3>1, <3>2, <3>4, <3>5
    <3>7. \A e : e \in Due => e \in Due' BY <3>1, <3>4, <3>5
    <3>8. <<k, i>> \in Due' BY <1>1, <2>6, <3>1, <3>3, <3>5
    <3> QED BY <3>6, <3>7, <3>8
  <2>8. Wanted' = Wanted \cup {Entry[k][i]}
    <3> DEFINE M == {Module[m] : m \in {m \in Named : m < index}}
               D == Due
    <3>1. Wanted = M \cup {Entry[e[1]][e[2]] : e \in D} BY DEF Wanted
    <3>2. Wanted' = M \cup {Entry[e[1]][e[2]] : e \in D \cup {<<k, i>>}} BY <1>1, <1>2, <2>7 DEF Wanted
    <3> HIDE DEF M, D
    <3>3. {Entry[e[1]][e[2]] : e \in D \cup {<<k, i>>}} = {Entry[e[1]][e[2]] : e \in D} \cup {Entry[k][i]}
      <4> DEFINE last == <<k, i>>
      <4>1. last[1] = k /\ last[2] = i OBVIOUS
      <4> HIDE DEF last
      <4>2. {Entry[e[1]][e[2]] : e \in D \cup {last}} =
              {Entry[e[1]][e[2]] : e \in D} \cup {Entry[last[1]][last[2]]}
        OBVIOUS
      <4> QED BY <4>1, <4>2 DEF last
    <3> QED BY <3>1, <3>2, <3>3
  <2>9. Entry[k][i] \in Lines
    <3>1. <<k, i>> \in Nat \X Nat BY <1>1
    <3> QED BY <3>1 DEF Lines
  <2>10. \A y \in Wanted : Imp!Before(y, Entry[k][i])
    <3>1. Entry[k][i][2] = k /\ Entry[k][i][3] = i BY <1>1, PlaceOfLine
    <3>2. ASSUME NEW m \in Named, m < index PROVE Imp!Before(Module[m], Entry[k][i])
      <4>1. m \in Nat BY DEF Named
      <4>2. m < k \/ m = k BY <1>1, <3>2, <4>1 DEF k
      <4>3. Module[m][1] = "module" /\ Module[m][2] = m BY <4>1, PlaceOfLine
      <4> QED BY <3>1, <4>2, <4>3 DEF Imp!Before
    <3>3. ASSUME NEW e \in Due PROVE Imp!Before(Entry[e[1]][e[2]], Entry[k][i])
      <4>1. e[1] \in Nat /\ e[2] \in Nat /\ e[1] < index /\ (e[1] = k => e[2] < i)
        BY <1>1 DEF Due, k, i
      <4>2. e[1] < k \/ (e[1] = k /\ e[2] < i) BY <1>1, <4>1 DEF k
      <4>3. Entry[e[1]][e[2]][2] = e[1] /\ Entry[e[1]][e[2]][3] = e[2] BY <4>1, PlaceOfLine
      <4> QED BY <3>1, <4>2, <4>3 DEF Imp!Before
    <3> QED BY <3>2, <3>3 DEF Wanted
  <2>11. ImpPrinted' BY <1>1, <1>2, <2>1, <2>8, <2>9, <2>10, PrintsLine DEF ImpInv
  <2> QED BY <1>7, <1>8, <2>5, <2>11 DEF ImpInv
<1> QED BY <1>10, <1>11

LEMMA ImpDescriptorsEnd == ASSUME ImpInv, Imp!DescriptorsEnd PROVE ImpInv'
<1>1. /\ UNCHANGED <<image, arg, built, raw, index, loaded, rows>> /\ step' = "end"
      /\ step \in {"imp", "delay"} /\ step = arg.name /\ image \in ImportImages /\ index \in Nat
      /\ raw = Directory.va + Size * index
  BY DEF ImpInv, ImpTyped, Imp!DescriptorsEnd, Imp!Goto
<1>2. UNCHANGED <<Directory, Size, Descriptor, Thunk, Slot, Module, Entry, Named, Entered, Run, Lines>>
  BY <1>1, SameTables
<1>3. Size * index >= Directory.size \/ ~Descriptor[index].used
  <2>1. Directory.va \in Nat /\ Directory.size \in Nat /\ Size \in {20, 32} BY <1>1, ImportImage
  <2>2. CASE Directory.va + Size * index < Directory.va + Directory.size
    <3>1. CASE arg.name = "imp"
      <4>1. Directory = image.imp /\ Size = 20 /\ step = "imp" BY <1>1, <3>1 DEF Directory, Size
      <4>2. ImportDesc(index).Characteristics = 0
        BY <1>1, <2>2, <4>1 DEF Imp!DescriptorsEnd, Imp!InDir, ImportDesc
      <4>3. Descriptor[index].used = (ImportDesc(index).Characteristics # 0)
        BY <1>1, <3>1 DEF Descriptor
      <4> QED BY <4>2, <4>3
    <3>2. CASE arg.name # "imp"
      <4>1. Directory = image.delay /\ Size = 32 /\ step = "delay" BY <1>1, <3>2 DEF Directory, Size
      <4>2. DelayDesc(index).DllNameRVA = 0
        BY <1>1, <2>2, <4>1 DEF Imp!DescriptorsEnd, Imp!InDir, DelayDesc
      <4>3. Descriptor[index].used = (DelayDesc(index).DllNameRVA # 0)
        BY <1>1, <3>2 DEF Descriptor
      <4> QED BY <4>2, <4>3
    <3> QED BY <3>1, <3>2
  <2>3. CASE ~(Directory.va + Size * index < Directory.va + Directory.size)
    BY <1>1, <2>1, <2>3
  <2> QED BY <2>2, <2>3
<1>4. ImpTyped' BY <1>1, <1>2, <1>3 DEF ImpInv, ImpTyped
<1>5. ImpThunks' BY <1>1 DEF ImpInv, ImpThunks
<1>6. ImpPrinted'
  <2>1. Due' = Due BY <1>1, <1>2 DEF Due
  <2>2. Wanted' = Wanted BY <1>1, <1>2, <2>1 DEF Wanted
  <2> QED BY <1>1, <1>2, <2>2 DEF ImpInv, ImpPrinted
<1>7. ImpBound' BY <1>1, SameBuilt DEF ImpInv
<1> QED BY <1>4, <1>5, <1>6, <1>7 DEF ImpInv

(* Steps that change nothing. *)
LEMMA ImpRests ==
  ASSUME ImpInv, UNCHANGED <<image, arg, step, raw, built, loaded, index, rows>> PROVE ImpInv'
<1>1. UNCHANGED <<Directory, Size, Descriptor, Thunk, Slot, Module, Entry, Named, Entered, Run, Lines>>
  BY SameTables
<1>2. ImpTyped' BY <1>1 DEF ImpInv, ImpTyped
<1>3. ImpThunks' BY <1>1 DEF ImpInv, ImpThunks
<1>4. Due' = Due BY <1>1 DEF Due
<1>5. Wanted' = Wanted BY <1>1, <1>4 DEF Wanted
<1>6. ImpPrinted' BY <1>1, <1>5 DEF ImpInv, ImpPrinted
<1>7. UNCHANGED <<Used, After, Closed, ModuleAt>> BY SameBound
<1>8. \A D : Collected(D) => Collected(D)' BY <1>7 DEF Collected
<1>9. Imp!BoundModules' = Imp!BoundModules
  BY DEF Imp!BoundModules, Imp!BoundPlaces, Imp!Follows, Imp!UsedBound, Imp!NextBound, Imp!RvaString
<1>10. ImpBound' BY <1>8, <1>9 DEF ImpInv, ImpBound
<1> QED BY <1>2, <1>3, <1>6, <1>10 DEF ImpInv

LEMMA ImpStep ==
  ASSUME ImpArg, Walks({"imp", "delay"}) => ImpInv, [Next]_vars
  PROVE  (Walks({"imp", "delay"}) => ImpInv)'
<1> SUFFICES ASSUME Walks({"imp", "delay"})' PROVE ImpInv' OBVIOUS
<1>1. CASE /\ image' \in ImportImages /\ arg' = arg /\ command' = command
           /\ Locals(IF command = "imp" THEN "bound" ELSE "delay", FirstTable(image'), {}, Imp!NoCall)
  <2>1. command \in {"imp", "delay"} BY <1>1 DEF Walks
  <2> QED BY <1>1, <2>1, ImpEnters DEF ImpArg
<1>2. CASE Walks({"imp", "delay"}) /\ Imp!Next
  <2>1. CASE Imp!ReadBound BY <1>2, <2>1, ImpReadBound
  <2>2. CASE Imp!BoundEnds BY <1>2, <2>2, ImpBoundEnds
  <2>3. CASE Imp!ReadImport BY <1>2, <2>3, ImpReadImport
  <2>4. CASE Imp!ReadDelay BY <1>2, <2>4, ImpReadDelay
  <2>5. CASE Imp!DescriptorsEnd BY <1>2, <2>5, ImpDescriptorsEnd
  <2>6. CASE Imp!ReadEntry BY <1>2, <2>6, ImpReadEntry
  <2> QED BY <1>2, <2>1, <2>2, <2>3, <2>4, <2>5, <2>6 DEF Imp!Next
<1>3. CASE /\ Walks({"imp", "delay"})
           /\ UNCHANGED <<image, arg, step, raw, built, loaded, index, rows>>
  BY <1>3, ImpRests
<1> QED BY <1>1, <1>2, <1>3, ImpSteps

LEMMA ImpInvHolds == Spec => [](ImpArg /\ (Walks({"imp", "delay"}) => ImpInv))
<1>1. Init => ImpArg /\ (Walks({"imp", "delay"}) => ImpInv)
  <2> SUFFICES ASSUME Init PROVE ImpArg /\ ~Walks({"imp", "delay"}) OBVIOUS
  <2>1. CASE command = "imp" BY <2>1 DEF Init, Second, ImpArg, Walks
  <2>2. CASE command = "delay" BY <2>2 DEF Init, Second, ImpArg, Walks
  <2>3. CASE command \notin {"imp", "delay"} BY <2>3 DEF Init, ImpArg, Walks
  <2> QED BY <2>1, <2>2, <2>3
<1> QED BY <1>1, ImpArgStep, ImpStep, PTL DEF Spec

-----------------------------------------------------------------------------
(* What the tables say, in the terms of the invariant. *)
LEMMA DescriptorPlaces ==
  ASSUME NEW s \in Nat, NEW k \in Nat
  PROVE  /\ k \in 0 .. (s + 20 - 1) \div 20 - 1 <=> 20 * k < s
         /\ k \in 0 .. (s + 32 - 1) \div 32 - 1 <=> 32 * k < s
OBVIOUS

(* The descriptors of the tables are those the walk passed. *)
LEMMA DescriptorsRead ==
  ASSUME image \in ImportImages
  PROVE  /\ arg.name = "imp" =>
              Imp!Imports = {<<k, ImportDesc(k)>> : k \in {k \in Nat :
                /\ Size * k < Directory.size /\ \A j \in 0 .. k : Descriptor[j].used}}
         /\ arg.name = "delay" =>
              Imp!Delays = {<<k, DelayDesc(k)>> : k \in {k \in Nat :
                /\ Size * k < Directory.size /\ \A j \in 0 .. k : Descriptor[j].used}}
<1>1. image.imp.size \in Nat /\ image.delay.size \in Nat BY ImportImage DEF Region
<1>2. \A k \in Nat : \A j \in 0 .. k : j \in Nat OBVIOUS
<1>3. ASSUME arg.name = "imp"
      PROVE  Imp!Imports = {<<k, ImportDesc(k)>> : k \in {k \in Nat :
               /\ Size * k < Directory.size /\ \A j \in 0 .. k : Descriptor[j].used}}
  <2>1. Directory = image.imp /\ Size = 20 BY <1>3 DEF Directory, Size
  <2>2. \A j \in Nat : Descriptor[j].used = (ImportDesc(j).Characteristics # 0)
    BY <1>3 DEF Descriptor
  <2>3. Imp!Imports = {<<k, ImportDesc(k)>> : k \in {k \in 0 .. (image.imp.size + 20 - 1) \div 20 - 1 :
                          \A j \in 0 .. k : ImportDesc(j).Characteristics # 0}}
    BY DEF Imp!Imports, Imp!Firsts, Imp!Slots, ImportDesc
  <2>4. {k \in 0 .. (image.imp.size + 20 - 1) \div 20 - 1 :
            \A j \in 0 .. k : ImportDesc(j).Characteristics # 0} =
        {k \in Nat : Size * k < Directory.size /\ \A j \in 0 .. k : Descriptor[j].used}
    <3>1. \A k \in 0 .. (image.imp.size + 20 - 1) \div 20 - 1 : k \in Nat OBVIOUS
    <3>2. \A k \in Nat : (\A j \in 0 .. k : ImportDesc(j).Characteristics # 0) <=>
                         (\A j \in 0 .. k : Descriptor[j].used)
      BY <1>2, <2>2
    <3>3. \A k \in Nat : k \in 0 .. (image.imp.size + 20 - 1) \div 20 - 1 <=> 20 * k < image.imp.size
      BY <1>1, DescriptorPlaces
    <3> QED BY <2>1, <3>1, <3>2, <3>3
  <2> QED BY <2>3, <2>4
<1>4. ASSUME arg.name = "delay"
      PROVE  Imp!Delays = {<<k, DelayDesc(k)>> : k \in {k \in Nat :
               /\ Size * k < Directory.size /\ \A j \in 0 .. k : Descriptor[j].used}}
  <2>1. Directory = image.delay /\ Size = 32 BY <1>4 DEF Directory, Size
  <2>2. \A j \in Nat : Descriptor[j].used = (DelayDesc(j).DllNameRVA # 0)
    BY <1>4 DEF Descriptor
  <2>3. Imp!Delays = {<<k, DelayDesc(k)>> : k \in {k \in 0 .. (image.delay.size + 32 - 1) \div 32 - 1 :
                          \A j \in 0 .. k : DelayDesc(j).DllNameRVA # 0}}
    BY DEF Imp!Delays, Imp!Firsts, Imp!Slots, DelayDesc
  <2>4. {k \in 0 .. (image.delay.size + 32 - 1) \div 32 - 1 :
            \A j \in 0 .. k : DelayDesc(j).DllNameRVA # 0} =
        {k \in Nat : Size * k < Directory.size /\ \A j \in 0 .. k : Descriptor[j].used}
    <3>1. \A k \in 0 .. (image.delay.size + 32 - 1) \div 32 - 1 : k \in Nat OBVIOUS
    <3>2. \A k \in Nat : (\A j \in 0 .. k : DelayDesc(j).DllNameRVA # 0) <=>
                         (\A j \in 0 .. k : Descriptor[j].used)
      BY <1>2, <2>2
    <3>3. \A k \in Nat : k \in 0 .. (image.delay.size + 32 - 1) \div 32 - 1 <=> 32 * k < image.delay.size
      BY <1>1, DescriptorPlaces
    <3> QED BY <2>1, <3>1, <3>2, <3>3
  <2> QED BY <2>3, <2>4
<1> QED BY <1>3, <1>4

(* A run of thunks that are not zero ends where memory ends: each of them  *)
(* has a cell of its own.                                                  *)
LEMMA RunIsShort ==
  ASSUME image \in ImportImages, NEW k \in Nat, NEW j \in Run[k], image.ptr = Imp!Width
  PROVE  j < Cardinality(DOMAIN image.cells)
<1> DEFINE C == DOMAIN image.cells
           names == Descriptor[k].names
           W == Imp!Width
<1>1. j \in Nat /\ \A i \in 0 .. j : ~Imp!Zero(Thunk[k][i]) BY DEF Run
<1>2. names \in Nat /\ W \in {4, 8} /\ IsFiniteSet(C)
  BY ImportImage, ImportImagesAssumption DEF Imp!Width
<1>3. \A i \in 0 .. j : names + i * W \in C \/ (W = 8 /\ names + i * W + 4 \in C)
  <2> SUFFICES ASSUME NEW i \in 0 .. j PROVE names + i * W \in C \/ (W = 8 /\ names + i * W + 4 \in C)
    OBVIOUS
  <2> DEFINE a == names + i * W
  <2>1. Thunk[k][i] = [lo |-> Imp!Cell(a), hi |-> IF W = 8 THEN Imp!Cell(a + 4) ELSE 0]
    BY <1>1 DEF Thunk, Imp!load_pointer, Imp!Pointer
  <2>2. ~Imp!Zero(Thunk[k][i]) BY <1>1
  <2> HIDE DEF a, W
  <2>3. Imp!Cell(a) # 0 \/ (W = 8 /\ Imp!Cell(a + 4) # 0) BY <2>1, <2>2 DEF Imp!Zero
  <2>4. \A b : Imp!Cell(b) # 0 => b \in C BY DEF Imp!Cell, Imp!At
  <2> QED BY <2>3, <2>4 DEF a
<1> DEFINE f == [i \in 0 .. j |-> IF names + i * W \in C THEN names + i * W ELSE names + i * W + 4]
<1> HIDE DEF names, W, C
<1>4. f \in [0 .. j -> C] BY <1>3
<1>5. \A x, y \in 0 .. j : f[x] = f[y] => x = y
  <2> SUFFICES ASSUME NEW x \in 0 .. j, NEW y \in 0 .. j, f[x] = f[y] PROVE x = y OBVIOUS
  <2>1. CASE W = 4
    <3>1. f[x] = names + x * 4 /\ f[y] = names + y * 4 BY <1>3, <2>1
    <3> QED BY <1>1, <1>2, <3>1
  <2>2. CASE W = 8
    <3>1. /\ f[x] = names + x * 8 \/ f[x] = names + x * 8 + 4
          /\ f[y] = names + y * 8 \/ f[y] = names + y * 8 + 4
      BY <2>2
    <3> QED BY <1>1, <1>2, <3>1
  <2> QED BY <1>2, <2>1, <2>2
<1> HIDE DEF f
<1>6. f \in Injection(0 .. j, C) BY <1>4, <1>5 DEF Injection, IsInjective
<1>7. Cardinality(0 .. j) = j + 1 BY <1>1, FS_Interval
<1>8. IsFiniteSet(0 .. j) /\ Cardinality(0 .. j) <= Cardinality(C) BY <1>2, <1>6, FS_Injection
<1>9. Cardinality(C) \in Nat BY <1>2, FS_CardinalityType
<1> QED BY <1>1, <1>7, <1>8, <1>9 DEF C

(* The entries of a descriptor are those of its run of thunks. *)
LEMMA EntriesOfRun ==
  ASSUME image \in ImportImages, NEW k \in Nat, image.ptr = Imp!Width
  PROVE  Imp!Entries(k, Descriptor[k].names, Descriptor[k].slots) = {Entry[k][j] : j \in Run[k]}
<1> DEFINE n == Cardinality(DOMAIN image.cells)
<1>1. \A a : Imp!Pointer(a, Imp!Width) = Imp!load_pointer(a) BY DEF Imp!load_pointer
<1>2. n \in Nat BY ImportImagesAssumption, FS_CardinalityType
<1>3. {j \in 0 .. n - 1 : \A i \in 0 .. j : ~Imp!Zero(Imp!Pointer(Descriptor[k].names + i * Imp!Width, Imp!Width))}
        = Run[k]
  <2>1. \A j \in Nat : j \in Run[k] <=> \A i \in 0 .. j : ~Imp!Zero(Thunk[k][i]) BY DEF Run
  <2>2. \A i \in Nat : Thunk[k][i] = Imp!Pointer(Descriptor[k].names + i * Imp!Width, Imp!Width)
    BY <1>1 DEF Thunk
  <2>3. \A j \in Run[k] : j \in Nat /\ j < n BY RunIsShort DEF Run
  <2> HIDE DEF n
  <2> QED BY <1>2, <2>1, <2>2, <2>3
<1> DEFINE e(j) == <<"entry", k, j, Imp!Imported(Imp!Pointer(Descriptor[k].names + j * Imp!Width, Imp!Width)),
                       Descriptor[k].slots + j * Imp!Width,
                       Imp!Pointer(Descriptor[k].slots + j * Imp!Width, Imp!Width)>>
<1>4. Imp!Entries(k, Descriptor[k].names, Descriptor[k].slots) = {e(j) : j \in Run[k]}
  <2>1. Imp!Cardinality(DOMAIN image.cells) = n BY DEF Imp!Cardinality, Cardinality
  <2> HIDE DEF n
  <2> QED BY <1>3, <2>1 DEF Imp!Entries, Imp!Firsts
<1>5. \A j \in Run[k] : Entry[k][j] = e(j)
  <2>1. \A j \in Run[k] : j \in Nat BY DEF Run
  <2> QED BY <1>1, <2>1 DEF Entry, Thunk, Slot
<1> HIDE DEF e
<1> QED BY <1>4, <1>5

-----------------------------------------------------------------------------
(* What is shown of a descriptor. *)
Piece(k) == (IF k \in Named THEN {<<"module", k, Descriptor[k].name>>} ELSE {}) \cup
            (IF k \in Entered THEN {Entry[k][j] : j \in Run[k]} ELSE {})

(* The lines printed, in the terms of what is shown of a descriptor. *)
LEMMA WantedIsShown ==
  ASSUME index \in Nat, step = "end"
  PROVE  {Imp!Shown(y) : y \in Wanted} = UNION {Piece(k) : k \in 0 .. index - 1}
<1>1. \A k \in Nat : Imp!Shown(Module[k]) = <<"module", k, Descriptor[k].name>>
  BY DEF Imp!Shown, Module
<1>2. \A k, j \in Nat : Imp!Shown(Entry[k][j]) = Entry[k][j]
  <2> SUFFICES ASSUME NEW k \in Nat, NEW j \in Nat PROVE Imp!Shown(Entry[k][j]) = Entry[k][j] OBVIOUS
  <2>1. Entry[k][j][1] = "entry" BY PlaceOfLine
  <2> QED BY <2>1 DEF Imp!Shown
<1>3. \A k : k \in 0 .. index - 1 <=> k \in Nat /\ k < index OBVIOUS
<1>4. \A k \in Named : k \in Nat BY DEF Named
<1>5. \A k \in Nat : \A j \in Run[k] : j \in Nat BY DEF Run
<1>6. Due = {e \in Nat \X Nat : e[1] < index /\ e[1] \in Entered /\ e[2] \in Run[e[1]]} BY DEF Due
<1>7. ASSUME NEW y \in Wanted PROVE \E k \in 0 .. index - 1 : Imp!Shown(y) \in Piece(k)
  <2>1. CASE \E k \in Named : k < index /\ y = Module[k]
    <3>1. PICK k \in Named : k < index /\ y = Module[k] BY <2>1
    <3>2. k \in 0 .. index - 1 /\ Imp!Shown(y) = <<"module", k, Descriptor[k].name>>
      BY <1>1, <1>3, <1>4, <3>1
    <3> QED BY <3>1, <3>2 DEF Piece
  <2>2. CASE \E e \in Due : y = Entry[e[1]][e[2]]
    <3>1. PICK e \in Due : y = Entry[e[1]][e[2]] BY <2>2
    <3>2. e[1] \in Nat /\ e[2] \in Nat /\ e[1] < index /\ e[1] \in Entered /\ e[2] \in Run[e[1]]
      BY <1>6
    <3>3. Imp!Shown(y) = Entry[e[1]][e[2]] /\ e[1] \in 0 .. index - 1 BY <1>2, <1>3, <3>1, <3>2
    <3>4. Imp!Shown(y) \in Piece(e[1]) BY <3>2, <3>3 DEF Piece
    <3> QED BY <3>3, <3>4
  <2> QED BY <2>1, <2>2 DEF Wanted
<1>8. ASSUME NEW k \in 0 .. index - 1, NEW x \in Piece(k)
      PROVE  \E y \in Wanted : Imp!Shown(y) = x
  <2>1. k \in Nat /\ k < index BY <1>3
  <2>2. CASE k \in Named /\ x = <<"module", k, Descriptor[k].name>>
    <3>1. Module[k] \in Wanted BY <2>1, <2>2 DEF Wanted
    <3> QED BY <1>1, <2>1, <2>2, <3>1
  <2>3. CASE k \in Entered /\ \E j \in Run[k] : x = Entry[k][j]
    <3>1. PICK j \in Run[k] : x = Entry[k][j] BY <2>3
    <3>2. j \in Nat BY <1>5, <2>1
    <3> DEFINE e == <<k, j>>
    <3>3. e \in Nat \X Nat /\ e[1] = k /\ e[2] = j BY <2>1, <3>2
    <3> HIDE DEF e
    <3>4. e \in Due BY <1>6, <2>1, <2>3, <3>3
    <3>5. Entry[e[1]][e[2]] \in Wanted BY <3>4 DEF Wanted
    <3> QED BY <1>2, <2>1, <3>1, <3>2, <3>3, <3>5
  <2> QED BY <2>2, <2>3 DEF Piece
<1> QED BY <1>7, <1>8

(* What the tables ask for, in the same terms. *)
LEMMA TableIsShown ==
  ASSUME ImpInv, step = "end", image.ptr = Imp!Width
  PROVE  (IF arg.name = "imp" THEN Imp!ImportLines ELSE Imp!DelayLines)
            = UNION {Piece(k) : k \in 0 .. index - 1}
<1> DEFINE K == {k \in Nat : /\ Size * k < Directory.size /\ \A j \in 0 .. k : Descriptor[j].used}
<1>1. /\ image \in ImportImages /\ arg.name \in {"imp", "delay"} /\ index \in Nat
      /\ \A k \in 0 .. index - 1 : Size * k < Directory.size /\ Descriptor[k].used
      /\ Size * index >= Directory.size \/ ~Descriptor[index].used
      /\ Directory.size \in Nat /\ Size \in {20, 32}
  BY ImportImage DEF ImpInv, ImpTyped
<1>2. K = 0 .. index - 1
  <2>1. ASSUME NEW k \in 0 .. index - 1 PROVE k \in K
    <3>1. \A j \in 0 .. k : j \in 0 .. index - 1 BY <1>1
    <3> QED BY <1>1, <3>1
  <2>2. ASSUME NEW k \in K PROVE k \in 0 .. index - 1
    <3>1. k \in Nat /\ Size * k < Directory.size /\ \A j \in 0 .. k : Descriptor[j].used OBVIOUS
    <3>2. SUFFICES ASSUME k >= index PROVE FALSE BY <1>1, <3>1
    <3>3. index \in 0 .. k BY <1>1, <3>1, <3>2
    <3>4. Size * index <= Size * k BY <1>1, <3>1, <3>2
    <3>5. Size * index < Directory.size BY <1>1, <3>1, <3>4
    <3> QED BY <1>1, <3>1, <3>3, <3>5
  <2> QED BY <2>1, <2>2
<1>3. \A k \in 0 .. index - 1 : k \in Nat BY <1>1
<1>4. \A k \in 0 .. index - 1 :
        Imp!Entries(k, Descriptor[k].names, Descriptor[k].slots) = {Entry[k][j] : j \in Run[k]}
  BY <1>1, <1>3, EntriesOfRun
<1>5. CASE arg.name = "imp"
  <2>1. Imp!Imports = {<<k, ImportDesc(k)>> : k \in 0 .. index - 1}
    BY <1>1, <1>2, <1>5, DescriptorsRead
  <2>2. ASSUME NEW k \in 0 .. index - 1
        PROVE  Piece(k) =
                 LET name == Imp!RvaString(ImportDesc(k).Name) IN
                 (IF arg.arg \in {"", "*"} THEN {<<"module", k, name>>} ELSE {}) \cup
                 (IF arg.arg \in {"*", name}
                  THEN Imp!Entries(k, ImportDesc(k).Characteristics, ImportDesc(k).FirstThunk) ELSE {})
    <3>1. /\ Descriptor[k].name = Imp!RvaString(ImportDesc(k).Name)
          /\ Descriptor[k].names = ImportDesc(k).Characteristics
          /\ Descriptor[k].slots = ImportDesc(k).FirstThunk
      BY <1>3, <1>5 DEF Descriptor
    <3>2. k \in Named <=> arg.arg \in {"", "*"} BY <1>3, <1>5 DEF Named
    <3>3. k \in Entered <=> arg.arg \in {"*", Descriptor[k].name} BY <1>3, <1>5 DEF Entered
    <3> QED BY <1>4, <3>1, <3>2, <3>3 DEF Piece
  <2> DEFINE Of(d) ==
        LET name == Imp!RvaString(d[2].Name) IN
        (IF arg.arg \in {"", "*"} THEN {<<"module", d[1], name>>} ELSE {}) \cup
        (IF arg.arg \in {"*", name}
         THEN Imp!Entries(d[1], d[2].Characteristics, d[2].FirstThunk) ELSE {})
  <2>3. Imp!ImportLines = UNION {Of(d) : d \in Imp!Imports} BY DEF Imp!ImportLines
  <2>4. \A k \in 0 .. index - 1 : Of(<<k, ImportDesc(k)>>) = Piece(k) BY <2>2
  <2> HIDE DEF Of
  <2>5. {Of(d) : d \in Imp!Imports} = {Piece(k) : k \in 0 .. index - 1} BY <2>1, <2>4
  <2> QED BY <1>5, <2>3, <2>5
<1>6. CASE arg.name = "delay"
  <2>1. Imp!Delays = {<<k, DelayDesc(k)>> : k \in 0 .. index - 1}
    BY <1>1, <1>2, <1>6, DescriptorsRead
  <2>2. ASSUME NEW k \in 0 .. index - 1
        PROVE  Piece(k) =
                 {<<"module", k, Imp!RvaString(DelayDesc(k).DllNameRVA)>>} \cup
                 (IF arg.arg = "1"
                  THEN Imp!Entries(k, DelayDesc(k).ImportNameTableRVA,
                                   DelayDesc(k).ImportAddressTableRVA) ELSE {})
    <3>1. /\ Descriptor[k].name = Imp!RvaString(DelayDesc(k).DllNameRVA)
          /\ Descriptor[k].names = DelayDesc(k).ImportNameTableRVA
          /\ Descriptor[k].slots = DelayDesc(k).ImportAddressTableRVA
      BY <1>3, <1>6 DEF Descriptor
    <3>2. k \in Named BY <1>3, <1>6 DEF Named
    <3>3. k \in Entered <=> arg.arg = "1" BY <1>3, <1>6 DEF Entered
    <3> QED BY <1>4, <3>1, <3>2, <3>3 DEF Piece
  <2> DEFINE Of(d) ==
        {<<"module", d[1], Imp!RvaString(d[2].DllNameRVA)>>} \cup
        (IF arg.arg = "1"
         THEN Imp!Entries(d[1], d[2].ImportNameTableRVA, d[2].ImportAddressTableRVA) ELSE {})
  <2>3. Imp!DelayLines = UNION {Of(d) : d \in Imp!Delays} BY DEF Imp!DelayLines
  <2>4. \A k \in 0 .. index - 1 : Of(<<k, DelayDesc(k)>>) = Piece(k) BY <2>2
  <2> HIDE DEF Of
  <2>5. {Of(d) : d \in Imp!Delays} = {Piece(k) : k \in 0 .. index - 1} BY <2>1, <2>4
  <2> QED BY <1>6, <2>3, <2>5
<1> QED BY <1>1, <1>5, <1>6

(* The mark of a line is that of its descriptor, of which Imports has one. *)
LEMMA MarksAreRight == ASSUME ImpInv PROVE Imp!MarkedIfBound
<1> SUFFICES ASSUME arg.name = "imp", NEW n \in 1 .. Len(rows), rows[n][1] = "module"
             PROVE  LET says == \E d \in Imp!Imports : d[1] = rows[n][2] /\ d[2].TimeDateStamp = -1
                        has  == Lower[rows[n][4]] \in Imp!BoundModules
                    IN  /\ rows[n][5] = "*" <=> says /\ has
                        /\ rows[n][5] = "" <=> ~says /\ Imp!BoundModules = {}
  BY DEF Imp!MarkedIfBound
<1>1. step # "bound"
  <2>1. Len(<< >>) = 0 BY EmptySeq
  <2> QED BY <2>1 DEF ImpInv, ImpTyped
<1>2. rows[n] \in Wanted /\ built = Imp!BoundModules BY <1>1 DEF ImpInv, ImpPrinted, ImpBound
<1>3. \A e \in Due : Entry[e[1]][e[2]][1] = "entry" BY PlaceOfLine DEF Due
<1>4. PICK k \in Named : k < index /\ rows[n] = Module[k] BY <1>2, <1>3 DEF Wanted
<1>5. /\ image \in ImportImages /\ index \in Nat
      /\ \A j \in 0 .. index - 1 : Size * j < Directory.size /\ Descriptor[j].used
  BY DEF ImpInv, ImpTyped
<1>6. k \in Nat /\ k \in 0 .. index - 1 /\ \A j \in 0 .. k : j \in 0 .. index - 1
  <2>1. k \in Nat BY DEF Named
  <2> QED BY <1>4, <1>5, <2>1
<1> DEFINE desc == ImportDesc(k)
           name == Imp!RvaString(desc.Name)
<1>7. rows[n][2] = k /\ rows[n][4] = name /\ rows[n][5] = Imp!boundStatus(desc, name)
  BY <1>4, <1>6 DEF Module, Descriptor
<1>8. (\E d \in Imp!Imports : d[1] = k /\ d[2].TimeDateStamp = -1) <=> desc.TimeDateStamp = -1
  <2> DEFINE K == {m \in Nat : Size * m < Directory.size /\ \A j \in 0 .. m : Descriptor[j].used}
  <2>1. Imp!Imports = {<<m, ImportDesc(m)>> : m \in K} BY <1>5, DescriptorsRead
  <2>2. k \in K BY <1>5, <1>6
  <2> HIDE DEF K
  <2>3. <<k, desc>> \in Imp!Imports BY <2>1, <2>2
  <2>4. \A d \in Imp!Imports : d[1] = k => d[2] = desc BY <2>1
  <2>5. <<k, desc>>[1] = k /\ <<k, desc>>[2] = desc OBVIOUS
  <2> HIDE DEF desc
  <2> QED BY <2>3, <2>4, <2>5
<1> HIDE DEF desc, name
<1> QED BY <1>2, <1>7, <1>8 DEF Imp!boundStatus

(* !imp and !delay show every module and import they are asked for, once   *)
(* and in order, and mark the modules that are bound: for tables of any    *)
(* length and memory of any extent, any part of which cannot be read.      *)
THEOREM ImportsAreShown == Spec => []ImportsAreListed
<1>1. (Walks({"imp", "delay"}) => ImpInv) => ImportsAreListed
  <2> SUFFICES ASSUME ImpInv PROVE Imp!TablesAreListed /\ Imp!MarkedIfBound
    BY DEF ImportsAreListed
  <2>1. ASSUME step = "end", image.ptr = Imp!Width PROVE Imp!Listed
    <3>1. /\ {rows[n] : n \in 1 .. Len(rows)} = Wanted /\ index \in Nat
          /\ arg.name \in {"imp", "delay"}
          /\ \A n \in 1 .. Len(rows) - 1 : Imp!Before(rows[n], rows[n + 1])
      BY <2>1 DEF ImpInv, ImpTyped, ImpPrinted
    <3>2. {Imp!Shown(rows[n]) : n \in 1 .. Len(rows)} = {Imp!Shown(y) : y \in Wanted} BY <3>1
    <3>3. {Imp!Shown(rows[n]) : n \in 1 .. Len(rows)} = UNION {Piece(k) : k \in 0 .. index - 1}
      BY <2>1, <3>1, <3>2, WantedIsShown
    <3>4. (IF arg.name = "imp" THEN Imp!ImportLines ELSE Imp!DelayLines)
             = UNION {Piece(k) : k \in 0 .. index - 1}
      BY <2>1, TableIsShown
    <3> QED BY <3>1, <3>3, <3>4 DEF Imp!Listed
  <2> QED BY <2>1, MarksAreRight DEF Imp!TablesAreListed
<1> QED BY <1>1, ImpInvHolds, PTL

-----------------------------------------------------------------------------
(***************************************************************************)
(* !ver.  The trail of the stack is the way to the entry it stands at: of  *)
(* each loop the entry that was taken, of the innermost the next one.  The *)
(* inductive invariant: the trail is a way, and the version is that of the *)
(* last of the ways to a version that come before it.                      *)
(***************************************************************************)
StackFrames == [dir: Nat, i: Nat]
TrailOf(s) == [k \in 1 .. Len(s) |->
                 [dir |-> s[Len(s) + 1 - k].dir,
                  i   |-> IF k < Len(s) THEN s[Len(s) + 1 - k].i - 1 ELSE s[1].i]]

(* A step of the trail is that of its loop. *)
LEMMA TrailStep ==
  ASSUME NEW s \in Seq(StackFrames), NEW k \in 1 .. Len(s)
  PROVE  /\ Len(s) \in Nat /\ Len(s) + 1 - k \in 1 .. Len(s)
         /\ TrailOf(s)[k].dir = s[Len(s) + 1 - k].dir /\ TrailOf(s)[k].dir \in Nat
         /\ TrailOf(s)[k].i = IF k < Len(s) THEN s[Len(s) + 1 - k].i - 1 ELSE s[1].i
         /\ TrailOf(s)[k].i \in Int
         /\ TrailOf(s)[k] = [dir |-> TrailOf(s)[k].dir, i |-> TrailOf(s)[k].i]
<1>1. Len(s) \in Nat BY LenProperties
<1>2. Len(s) + 1 - k \in 1 .. Len(s) /\ 1 \in 1 .. Len(s) BY <1>1
<1>3. s[Len(s) + 1 - k] \in StackFrames /\ s[1] \in StackFrames BY <1>2, ElementOfSeq
<1>4. TrailOf(s)[k] = [dir |-> s[Len(s) + 1 - k].dir,
                       i   |-> IF k < Len(s) THEN s[Len(s) + 1 - k].i - 1 ELSE s[1].i]
  BY DEF TrailOf
<1>5. s[Len(s) + 1 - k].dir \in Nat /\ s[Len(s) + 1 - k].i \in Nat /\ s[1].i \in Nat BY <1>3 DEF StackFrames
<1> QED BY <1>1, <1>2, <1>4, <1>5

(* What the steps of the walk do to the trail. *)
LEMMA TrailCounts ==
  ASSUME NEW s \in Seq(StackFrames), s # << >>, NEW t, t = [s EXCEPT ![1].i = @ + 1]
  PROVE  /\ t \in Seq(StackFrames) /\ Len(t) = Len(s) /\ Len(s) \in Nat \ {0}
         /\ \A k \in 1 .. Len(s) - 1 : TrailOf(t)[k] = TrailOf(s)[k]
         /\ TrailOf(t)[Len(s)] = [dir |-> TrailOf(s)[Len(s)].dir, i |-> TrailOf(s)[Len(s)].i + 1]
         /\ t[1].dir = s[1].dir /\ t[1].i = s[1].i + 1 /\ \A k \in 2 .. Len(s) : t[k] = s[k]
<1>1. Len(s) \in Nat \ {0} /\ 1 \in 1 .. Len(s) BY LenProperties, EmptySeq
<1>2. s[1] \in StackFrames BY <1>1, ElementOfSeq
<1> DEFINE e == [dir |-> s[1].dir, i |-> s[1].i + 1]
<1>3. e \in StackFrames /\ e.dir = s[1].dir /\ e.i = s[1].i + 1 BY <1>2 DEF StackFrames
<1>4. t = [s EXCEPT ![1] = e]
  <2> DEFINE g == s[1]
  <2>1. g \in [dir: Nat, i: Nat] BY <1>2 DEF StackFrames
  <2> HIDE DEF g
  <2>2. [g EXCEPT !.i = @ + 1] = [dir |-> g.dir, i |-> g.i + 1] BY <2>1
  <2> QED BY <2>2 DEF g
<1> HIDE DEF e
<1>5. /\ t \in Seq(StackFrames) /\ Len(t) = Len(s)
      /\ \A j \in 1 .. Len(s) : t[j] = IF j = 1 THEN e ELSE s[j]
  BY <1>1, <1>3, <1>4, ExceptSeq
<1>6. t[1] = e /\ \A k \in 2 .. Len(s) : t[k] = s[k] BY <1>1, <1>5
<1>7. \A k \in 1 .. Len(s) - 1 : TrailOf(t)[k] = TrailOf(s)[k]
  <2> SUFFICES ASSUME NEW k \in 1 .. Len(s) - 1 PROVE TrailOf(t)[k] = TrailOf(s)[k] OBVIOUS
  <2>1. k \in 1 .. Len(s) /\ k < Len(s) /\ Len(s) + 1 - k \in 2 .. Len(s) BY <1>1
  <2>2. t[Len(s) + 1 - k] = s[Len(s) + 1 - k] BY <1>6, <2>1
  <2> QED BY <1>5, <2>1, <2>2 DEF TrailOf
<1>8. /\ TrailOf(s)[Len(s)] = [dir |-> s[1].dir, i |-> s[1].i]
      /\ TrailOf(t)[Len(s)] = [dir |-> t[1].dir, i |-> t[1].i]
  <2>1. Len(s) \in 1 .. Len(s) /\ ~(Len(s) < Len(s)) /\ Len(s) + 1 - Len(s) = 1 BY <1>1
  <2> QED BY <1>5, <2>1 DEF TrailOf
<1>9. TrailOf(s)[Len(s)].dir = s[1].dir /\ TrailOf(s)[Len(s)].i = s[1].i BY <1>8
<1>10. t[1].dir = s[1].dir /\ t[1].i = s[1].i + 1 BY <1>3, <1>6
<1>11. TrailOf(t)[Len(s)] = [dir |-> TrailOf(s)[Len(s)].dir, i |-> TrailOf(s)[Len(s)].i + 1]
  BY <1>8, <1>9, <1>10
<1> QED BY <1>1, <1>5, <1>6, <1>7, <1>10, <1>11

(* What a concatenation does to a sequence, element by element. *)
LEMMA Prepended ==
  ASSUME NEW S, NEW u \in Seq(S), NEW f \in S, NEW t, t = <<f>> \o u
  PROVE  /\ t \in Seq(S) /\ Len(t) = Len(u) + 1 /\ t[1] = f
         /\ \A j \in 1 .. Len(u) : t[j + 1] = u[j]
<1> DEFINE g == <<f>>
<1>1. g \in Seq(S) /\ Len(g) = 1 /\ g[1] = f OBVIOUS
<1>2. t = g \o u OBVIOUS
<1> HIDE DEF g
<1>3. /\ t \in Seq(S) /\ Len(t) = Len(g) + Len(u)
      /\ \A j \in 1 .. Len(g) + Len(u) : t[j] = IF j <= Len(g) THEN g[j] ELSE u[j - Len(g)]
  <2>1. /\ g \o u \in Seq(S) /\ Len(g \o u) = Len(g) + Len(u)
        /\ \A j \in 1 .. Len(g) + Len(u) : (g \o u)[j] = IF j <= Len(g) THEN g[j] ELSE u[j - Len(g)]
    BY <1>1, ConcatProperties
  <2> QED BY ONLY <1>2, <2>1
<1>4. Len(u) \in Nat BY LenProperties
<1>5. \A j \in 1 .. 1 + Len(u) : t[j] = IF j <= 1 THEN g[j] ELSE u[j - 1] BY ONLY <1>1, <1>3
<1>6. t[1] = f BY ONLY <1>1, <1>4, <1>5
<1>7. \A j \in 1 .. Len(u) : t[j + 1] = u[j]
  <2> SUFFICES ASSUME NEW j \in 1 .. Len(u) PROVE t[j + 1] = u[j] OBVIOUS
  <2>1. j + 1 \in 1 .. 1 + Len(u) /\ ~(j + 1 <= 1) /\ (j + 1) - 1 = j BY <1>4
  <2>2. t[j + 1] = u[(j + 1) - 1] BY ONLY <1>5, <2>1
  <2> QED BY ONLY <2>1, <2>2
<1>8. Len(t) = Len(u) + 1 BY ONLY <1>1, <1>3, <1>4
<1> QED BY <1>3, <1>6, <1>7, <1>8

(* A directory is entered. *)
LEMMA TrailEnters ==
  ASSUME NEW s \in Seq(StackFrames), s # << >>, NEW t \in Seq(StackFrames), Len(t) = Len(s) + 1,
         t[2].dir = s[1].dir, t[2].i = s[1].i + 1, \A k \in 2 .. Len(s) : t[k + 1] = s[k]
  PROVE  /\ \A k \in 1 .. Len(s) : TrailOf(t)[k] = TrailOf(s)[k]
         /\ TrailOf(t)[Len(s) + 1] = [dir |-> t[1].dir, i |-> t[1].i]
<1>1. Len(s) \in Nat \ {0} BY LenProperties, EmptySeq
<1>8. \A k \in 1 .. Len(s) : TrailOf(t)[k] = TrailOf(s)[k]
  <2> SUFFICES ASSUME NEW k \in 1 .. Len(s) PROVE TrailOf(t)[k] = TrailOf(s)[k] OBVIOUS
  <2>1. /\ k \in 1 .. Len(t) /\ k < Len(t) /\ Len(s) + 1 - k \in 1 .. Len(s)
        /\ Len(t) + 1 - k = (Len(s) + 1 - k) + 1
    BY <1>1
  <2>3. TrailOf(t)[k] = [dir |-> t[(Len(s) + 1 - k) + 1].dir, i |-> t[(Len(s) + 1 - k) + 1].i - 1]
    BY <2>1 DEF TrailOf
  <2>4. CASE k = Len(s)
    <3>1. Len(s) + 1 - k = 1 /\ ~(k < Len(s)) BY <1>1, <2>4
    <3>2. t[2].i - 1 = s[1].i
      <4>1. s[1] \in StackFrames BY <1>1, ElementOfSeq
      <4>2. s[1].i \in Nat BY <4>1 DEF StackFrames
      <4> QED BY <1>1, <4>2
    <3>3. TrailOf(s)[k] = [dir |-> s[1].dir, i |-> s[1].i] BY <3>1 DEF TrailOf
    <3> QED BY <1>1, <2>3, <3>1, <3>2, <3>3
  <2>5. CASE k < Len(s)
    <3>1. Len(s) + 1 - k \in 2 .. Len(s) BY <1>1, <2>5
    <3>2. TrailOf(s)[k] = [dir |-> s[Len(s) + 1 - k].dir, i |-> s[Len(s) + 1 - k].i - 1]
      BY <2>5 DEF TrailOf
    <3> QED BY <1>1, <2>3, <3>1, <3>2
  <2> QED BY <1>1, <2>4, <2>5
<1>9. TrailOf(t)[Len(s) + 1] = [dir |-> t[1].dir, i |-> t[1].i]
  <2>1. Len(s) + 1 \in 1 .. Len(t) /\ ~(Len(s) + 1 < Len(t)) /\ Len(t) + 1 - (Len(s) + 1) = 1
    BY <1>1
  <2> QED BY <2>1 DEF TrailOf
<1> QED BY <1>8, <1>9

(* A directory is left. *)
LEMMA TrailReturns ==
  ASSUME NEW s \in Seq(StackFrames), s # << >>, NEW t, t = Tail(s)
  PROVE  /\ t \in Seq(StackFrames) /\ Len(t) = Len(s) - 1 /\ Len(s) \in Nat \ {0}
         /\ \A k \in 1 .. Len(s) - 2 : TrailOf(t)[k] = TrailOf(s)[k]
         /\ Len(s) > 1 => TrailOf(t)[Len(s) - 1] =
              [dir |-> TrailOf(s)[Len(s) - 1].dir, i |-> TrailOf(s)[Len(s) - 1].i + 1]
<1>1. Len(s) \in Nat \ {0} BY LenProperties, EmptySeq
<1>2. t \in Seq(StackFrames) /\ Len(t) = Len(s) - 1 /\ \A i \in 1 .. Len(s) - 1 : t[i] = s[i + 1]
  BY HeadTailProperties
<1>3. \A k \in 1 .. Len(s) - 1 : /\ Len(t) + 1 - k \in 1 .. Len(s) - 1
                                 /\ t[Len(t) + 1 - k] = s[Len(s) + 1 - k]
  <2> SUFFICES ASSUME NEW k \in 1 .. Len(s) - 1
               PROVE  /\ Len(t) + 1 - k \in 1 .. Len(s) - 1
                      /\ t[Len(t) + 1 - k] = s[Len(s) + 1 - k]
    OBVIOUS
  <2>1. Len(t) + 1 - k \in 1 .. Len(s) - 1 /\ (Len(t) + 1 - k) + 1 = Len(s) + 1 - k BY <1>1, <1>2
  <2> QED BY <1>2, <2>1
<1>4. \A k \in 1 .. Len(s) - 2 : TrailOf(t)[k] = TrailOf(s)[k]
  <2> SUFFICES ASSUME NEW k \in 1 .. Len(s) - 2 PROVE TrailOf(t)[k] = TrailOf(s)[k] OBVIOUS
  <2>1. k \in 1 .. Len(t) /\ k < Len(t) /\ k \in 1 .. Len(s) /\ k < Len(s) /\ k \in 1 .. Len(s) - 1
    BY <1>1, <1>2
  <2> QED BY <1>3, <2>1 DEF TrailOf
<1>5. ASSUME Len(s) > 1
      PROVE  TrailOf(t)[Len(s) - 1] =
               [dir |-> TrailOf(s)[Len(s) - 1].dir, i |-> TrailOf(s)[Len(s) - 1].i + 1]
  <2> DEFINE k == Len(s) - 1
  <2>1. /\ k \in 1 .. Len(t) /\ ~(k < Len(t)) /\ k \in 1 .. Len(s) /\ k < Len(s)
        /\ Len(t) + 1 - k = 1 /\ Len(s) + 1 - k = 2 /\ k \in 1 .. Len(s) - 1 /\ 2 \in 1 .. Len(s)
    BY <1>1, <1>2, <1>5
  <2>2. t[1] = s[2] BY <1>3, <2>1
  <2>3. TrailOf(t)[k] = [dir |-> s[2].dir, i |-> s[2].i] BY <2>1, <2>2 DEF TrailOf
  <2>4. TrailOf(s)[k] = [dir |-> s[2].dir, i |-> s[2].i - 1] BY <2>1 DEF TrailOf
  <2>5. s[2] \in StackFrames BY <2>1, ElementOfSeq
  <2>6. s[2].i \in Nat BY <2>5 DEF StackFrames
  <2> HIDE DEF k
  <2>7. TrailOf(s)[k].dir = s[2].dir /\ TrailOf(s)[k].i + 1 = s[2].i BY <2>4, <2>6
  <2> QED BY <2>3, <2>7 DEF k
<1> QED BY <1>1, <1>2, <1>4, <1>5

-----------------------------------------------------------------------------
Listing(img, d) == IF d \in DOMAIN img.dirs THEN img.dirs[d] ELSE << >>
EntryIn(img, s) == Listing(img, s.dir)[s.i]
DataIn(img, w) == Ver!At(img.data, EntryIn(img, w[Len(w)]).Offset, Ver!NoData)
IsRootOfVersions(e) == ~e.NameIsString /\ e.Id = RT_VERSION

(* t, of n steps, is a way to where a walk can stand. *)
Nested(img, t, n) ==
  /\ n > 0 => t[1].dir = Ver!Root
  /\ \A k \in 1 .. n : t[k].i \in Nat \ {0} /\ t[k] = [dir |-> t[k].dir, i |-> t[k].i]
  /\ \A k \in 1 .. n : t[k].i <= Len(Listing(img, t[k].dir)) + IF k = n THEN 1 ELSE 0
  /\ \A k \in 1 .. n - 1 : /\ Ver!HasName(EntryIn(img, t[k])) /\ EntryIn(img, t[k]).DataIsDirectory
                           /\ EntryIn(img, t[k]).Offset = t[k + 1].dir
  /\ n > 1 => IsRootOfVersions(EntryIn(img, t[1]))

IsWay(img, w) ==
  /\ Len(w) \in Nat \ {0} /\ w[1].dir = Ver!Root
  /\ \A k \in 1 .. Len(w) : w[k].i \in Nat \ {0} /\ w[k] = [dir |-> w[k].dir, i |-> w[k].i]
  /\ \A k \in 1 .. Len(w) : w[k].i <= Len(Listing(img, w[k].dir))
  /\ \A k \in 1 .. Len(w) - 1 : /\ EntryIn(img, w[k]).DataIsDirectory
                                /\ EntryIn(img, w[k]).Offset = w[k + 1].dir
  /\ ~EntryIn(img, w[Len(w)]).DataIsDirectory

(* w comes before the way t, of n steps. *)
Behind(w, t, n) == \E k \in 1 .. Len(w) : /\ k \in 1 .. n /\ w[k].i < t[k].i
                                          /\ \A j \in 1 .. k - 1 : w[j] = t[j]

LastIn(img, V, v) == \/ V = {} /\ v = 0
                     \/ \E p \in V : v = DataIn(img, p).version /\ \A w \in V : ~Ver!Precedes(p, w)

-----------------------------------------------------------------------------
(* The steps of a way are numbers within their directories. *)
LEMMA WayFacts ==
  ASSUME NEW img, NEW w, IsWay(img, w)
  PROVE  /\ Len(w) \in Nat \ {0} /\ \A k \in 1 .. Len(w) : w[k].i \in Nat \ {0}
         /\ \A k \in 1 .. Len(w) : w[k].i <= Len(Listing(img, w[k].dir))
<1>1. Len(w) \in Nat \ {0} BY DEF IsWay
<1>2. \A k \in 1 .. Len(w) : w[k].i \in Nat \ {0} BY Zenon DEF IsWay
<1>3. \A k \in 1 .. Len(w) : w[k].i <= Len(Listing(img, w[k].dir)) BY Zenon DEF IsWay
<1> QED BY <1>1, <1>2, <1>3

(* So are those of a trail, the last of which may be one more. *)
LEMMA NestedFacts ==
  ASSUME NEW img, NEW n, NEW t, Nested(img, t, n)
  PROVE  /\ \A k \in 1 .. n : t[k].i \in Nat \ {0}
         /\ \A k \in 1 .. n : t[k].i <= Len(Listing(img, t[k].dir)) + IF k = n THEN 1 ELSE 0
BY Zenon DEF Nested

(* Two ways that agree so far are in the same directory. *)
LEMMA SameDirectory ==
  ASSUME NEW img, NEW w, IsWay(img, w), NEW n \in Nat, NEW t, Nested(img, t, n),
         NEW k \in 1 .. n, k \in 1 .. Len(w), \A j \in 1 .. k - 1 : w[j] = t[j]
  PROVE  w[k].dir = t[k].dir /\ (w[k].i = t[k].i => w[k] = t[k])
<1>1. w[k].dir = t[k].dir
  <2>1. CASE k = 1 BY <2>1 DEF IsWay, Nested
  <2>2. CASE k # 1
    <3>1. /\ k - 1 \in 1 .. k - 1 /\ k - 1 \in 1 .. n - 1 /\ k - 1 \in 1 .. Len(w) - 1
          /\ (k - 1) + 1 = k
      BY <2>2 DEF IsWay
    <3>2. w[k - 1] = t[k - 1] BY <3>1
    <3>3. w[k].dir = EntryIn(img, w[k - 1]).Offset
      <4>1. EntryIn(img, w[k - 1]).Offset = w[(k - 1) + 1].dir BY <3>1 DEF IsWay
      <4> QED BY <3>1, <4>1
    <3>4. t[k].dir = EntryIn(img, t[k - 1]).Offset
      <4>1. EntryIn(img, t[k - 1]).Offset = t[(k - 1) + 1].dir BY <3>1 DEF Nested
      <4> QED BY <3>1, <4>1
    <3> QED BY <3>2, <3>3, <3>4
  <2> QED BY <2>1, <2>2
<1>2. w[k] = [dir |-> w[k].dir, i |-> w[k].i] /\ t[k] = [dir |-> t[k].dir, i |-> t[k].i]
  BY DEF IsWay, Nested
<1>3. ASSUME w[k].i = t[k].i PROVE w[k] = t[k] BY <1>1, <1>2, <1>3
<1> QED BY <1>1, <1>3

(* When the innermost loop counts on, the ways below its entry fall behind. *)
LEMMA BehindCounts ==
  ASSUME NEW img, NEW w, IsWay(img, w), NEW n \in Nat \ {0}, NEW t, Nested(img, t, n), NEW u,
         \A k \in 1 .. n - 1 : u[k] = t[k], u[n].i = t[n].i + 1
  PROVE  Behind(w, u, n) <=> Behind(w, t, n) \/ (n <= Len(w) /\ \A j \in 1 .. n : w[j] = t[j])
<1>1. Len(w) \in Nat /\ (\A k \in 1 .. Len(w) : w[k].i \in Int) /\ (\A k \in 1 .. n : t[k].i \in Int)
  BY WayFacts, NestedFacts
<1>2. ASSUME NEW k \in 1 .. n, k \in 1 .. Len(w)
      PROVE  (\A j \in 1 .. k - 1 : w[j] = u[j]) <=> (\A j \in 1 .. k - 1 : w[j] = t[j])
  <2>1. \A j \in 1 .. k - 1 : j \in 1 .. n - 1 OBVIOUS
  <2> QED BY <2>1
<1>3. ASSUME Behind(w, u, n), ~Behind(w, t, n)
      PROVE  n <= Len(w) /\ \A j \in 1 .. n : w[j] = t[j]
  <2>1. PICK k \in 1 .. Len(w) : k \in 1 .. n /\ w[k].i < u[k].i /\ \A j \in 1 .. k - 1 : w[j] = u[j]
    BY <1>3 DEF Behind
  <2>2. \A j \in 1 .. k - 1 : w[j] = t[j] BY <1>2, <2>1
  <2>3. ~(w[k].i < t[k].i) BY <1>3, <2>1, <2>2 DEF Behind
  <2>4. k = n
    <3>1. SUFFICES ASSUME k # n PROVE FALSE OBVIOUS
    <3>2. k \in 1 .. n - 1 BY <2>1, <3>1
    <3> QED BY <2>1, <2>3, <3>2
  <2>5. w[k].i = t[k].i BY <1>1, <2>1, <2>3, <2>4
  <2>6. w[k] = t[k] BY <2>1, <2>2, <2>5, SameDirectory
  <2>7. \A j \in 1 .. n : j \in 1 .. k - 1 \/ j = k BY <2>4
  <2> QED BY <1>1, <2>1, <2>2, <2>4, <2>6, <2>7
<1>4. ASSUME Behind(w, t, n) PROVE Behind(w, u, n)
  <2>1. PICK k \in 1 .. Len(w) : k \in 1 .. n /\ w[k].i < t[k].i /\ \A j \in 1 .. k - 1 : w[j] = t[j]
    BY <1>4 DEF Behind
  <2>2. w[k].i < u[k].i
    <3>1. CASE k = n BY <1>1, <2>1, <3>1
    <3>2. CASE k # n
      <4>1. k \in 1 .. n - 1 BY <2>1, <3>2
      <4> QED BY <2>1, <4>1
    <3> QED BY <3>1, <3>2
  <2>3. \A j \in 1 .. k - 1 : w[j] = u[j] BY <1>2, <2>1
  <2> QED BY <2>1, <2>2, <2>3 DEF Behind
<1>5. ASSUME n <= Len(w), \A j \in 1 .. n : w[j] = t[j] PROVE Behind(w, u, n)
  <2>1. n \in 1 .. Len(w) /\ n \in 1 .. n /\ \A j \in 1 .. n - 1 : j \in 1 .. n BY <1>1, <1>5
  <2>2. w[n].i < u[n].i BY <1>1, <1>5, <2>1
  <2>3. \A j \in 1 .. n - 1 : w[j] = u[j] BY <1>5, <2>1
  <2> QED BY <2>1, <2>2, <2>3 DEF Behind
<1> QED BY <1>3, <1>4, <1>5

(* When a directory is entered, no way falls behind. *)
LEMMA BehindEnters ==
  ASSUME NEW img, NEW w, IsWay(img, w), NEW n \in Nat \ {0}, NEW t, NEW u,
         \A k \in 1 .. n : u[k] = t[k], u[n + 1].i = 1
  PROVE  Behind(w, u, n + 1) <=> Behind(w, t, n)
<1>1. \A k \in 1 .. Len(w) : ~(w[k].i < 1) BY WayFacts
<1>2. \A k \in 1 .. n + 1 : k \in 1 .. n \/ k = n + 1 OBVIOUS
<1>3. \A k \in 1 .. n : k \in 1 .. n + 1 /\ \A j \in 1 .. k - 1 : j \in 1 .. n OBVIOUS
<1>4. ASSUME Behind(w, u, n + 1) PROVE Behind(w, t, n)
  <2>1. PICK k \in 1 .. Len(w) : k \in 1 .. n + 1 /\ w[k].i < u[k].i /\ \A j \in 1 .. k - 1 : w[j] = u[j]
    BY <1>4 DEF Behind
  <2>2. k \in 1 .. n BY <1>1, <1>2, <2>1
  <2> QED BY <1>3, <2>1, <2>2 DEF Behind
<1>5. ASSUME Behind(w, t, n) PROVE Behind(w, u, n + 1)
  <2>1. PICK k \in 1 .. Len(w) : k \in 1 .. n /\ w[k].i < t[k].i /\ \A j \in 1 .. k - 1 : w[j] = t[j]
    BY <1>5 DEF Behind
  <2> QED BY <1>3, <2>1 DEF Behind
<1> QED BY <1>4, <1>5

(* When a directory is left, no way falls behind: all in it are already. *)
LEMMA BehindReturns ==
  ASSUME NEW img, NEW w, IsWay(img, w), NEW n \in Nat, n > 1, NEW t, Nested(img, t, n), NEW u,
         Len(Listing(img, t[n].dir)) \in Nat,
         t[n].i > Len(Listing(img, t[n].dir)),
         \A k \in 1 .. n - 2 : u[k] = t[k], u[n - 1].i = t[n - 1].i + 1
  PROVE  Behind(w, u, n - 1) <=> Behind(w, t, n)
<1> DEFINE m == n - 1
<1>1. m \in Nat \ {0} /\ m \in 1 .. n - 1 /\ m + 1 = n /\ n \in 1 .. n /\ m - 1 = n - 2
  OBVIOUS
<1>2. Len(w) \in Nat /\ (\A k \in 1 .. Len(w) : w[k].i \in Int) /\ (\A k \in 1 .. n : t[k].i \in Int)
  <2>1. Len(w) \in Nat /\ \A k \in 1 .. Len(w) : w[k].i \in Int BY WayFacts
  <2>2. \A k \in 1 .. n : t[k].i \in Nat \ {0} BY NestedFacts
  <2> QED BY <2>1, <2>2
<1>3. EntryIn(img, t[m]).DataIsDirectory BY <1>1 DEF Nested
<1>4. u[m].i = t[m].i + 1 /\ \A k \in 1 .. m - 1 : u[k] = t[k] BY <1>1
<1> HIDE DEF m
<1>5. \A k \in 1 .. m : (\A j \in 1 .. k - 1 : w[j] = u[j]) <=> (\A j \in 1 .. k - 1 : w[j] = t[j])
  <2> SUFFICES ASSUME NEW k \in 1 .. m
               PROVE  (\A j \in 1 .. k - 1 : w[j] = u[j]) <=> (\A j \in 1 .. k - 1 : w[j] = t[j])
    OBVIOUS
  <2>1. \A j \in 1 .. k - 1 : j \in 1 .. m - 1 BY <1>1
  <2> QED BY <1>4, <2>1
<1>6. ASSUME Behind(w, u, m) PROVE Behind(w, t, n)
  <2>1. PICK k \in 1 .. Len(w) : k \in 1 .. m /\ w[k].i < u[k].i /\ \A j \in 1 .. k - 1 : w[j] = u[j]
    BY <1>6 DEF Behind
  <2>2. k \in 1 .. n /\ \A j \in 1 .. k - 1 : w[j] = t[j] BY <1>1, <1>5, <2>1
  <2>3. SUFFICES ASSUME ~(w[k].i < t[k].i) PROVE Behind(w, t, n) BY <2>1, <2>2 DEF Behind
  <2>4. k = m
    <3>1. SUFFICES ASSUME k # m PROVE FALSE OBVIOUS
    <3>2. k \in 1 .. m - 1 BY <1>1, <2>1, <3>1
    <3> QED BY <1>4, <2>1, <2>3, <3>2
  <2>5. w[m].i = t[m].i BY <1>2, <1>4, <2>1, <2>2, <2>3, <2>4
  <2>6. w[m] = t[m] BY <2>1, <2>2, <2>4, <2>5, SameDirectory
  <2>7. Len(w) # m BY <1>3, <2>6 DEF IsWay
  <2>8. n \in 1 .. Len(w) BY <1>1, <1>2, <2>1, <2>4, <2>7
  <2>9. \A j \in 1 .. n - 1 : w[j] = t[j]
    <3>1. \A j \in 1 .. n - 1 : j \in 1 .. k - 1 \/ j = m BY <1>1, <2>4
    <3> QED BY <2>2, <2>6, <3>1
  <2>10. w[n].dir = t[n].dir
    <3>1. n \in Nat /\ n \in 1 .. n BY <1>1
    <3> QED BY <2>8, <2>9, <3>1, SameDirectory
  <2>11. w[n].i <= Len(Listing(img, t[n].dir)) BY <2>8, <2>10 DEF IsWay
  <2>12. w[n].i < t[n].i
    <3> DEFINE l == Len(Listing(img, t[n].dir))
    <3>1. w[n].i <= l /\ t[n].i > l /\ l \in Nat BY <2>11
    <3> HIDE DEF l
    <3> QED BY <1>1, <1>2, <2>8, <3>1
  <2> QED BY <1>1, <2>8, <2>9, <2>12 DEF Behind
<1>7. ASSUME Behind(w, t, n) PROVE Behind(w, u, m)
  <2>1. PICK k \in 1 .. Len(w) : k \in 1 .. n /\ w[k].i < t[k].i /\ \A j \in 1 .. k - 1 : w[j] = t[j]
    BY <1>7 DEF Behind
  <2>2. CASE k \in 1 .. m
    <3>1. \A j \in 1 .. k - 1 : w[j] = u[j] BY <1>5, <2>1, <2>2
    <3>2. w[k].i < u[k].i
      <4>1. CASE k = m BY <1>2, <1>4, <2>1, <4>1
      <4>2. CASE k # m
        <5>1. k \in 1 .. m - 1 BY <1>1, <2>2, <4>2
        <5> QED BY <1>4, <2>1, <5>1
      <4> QED BY <4>1, <4>2
    <3> QED BY <2>1, <2>2, <3>1, <3>2 DEF Behind
  <2>3. CASE k = n
    <3>1. m \in 1 .. k - 1 /\ m \in 1 .. Len(w) /\ m \in 1 .. n /\ m \in 1 .. m BY <1>1, <1>2, <2>1, <2>3
    <3>2. w[m] = t[m] BY <2>1, <3>1
    <3>3. w[m].i < u[m].i BY <1>2, <1>4, <3>1, <3>2
    <3>4. \A j \in 1 .. m - 1 : j \in 1 .. k - 1 BY <1>1, <2>3
    <3>5. \A j \in 1 .. m - 1 : w[j] = u[j] BY <1>4, <2>1, <3>4
    <3> QED BY <3>1, <3>3, <3>5 DEF Behind
  <2> QED BY <1>1, <2>1, <2>2, <2>3
<1> QED BY <1>6, <1>7 DEF m

(* At the end of the root every way is behind. *)
LEMMA BehindAll ==
  ASSUME NEW img, NEW w, IsWay(img, w), NEW t, t[1].dir = Ver!Root,
         t[1].i > Len(Listing(img, t[1].dir)), t[1].i \in Int, Len(Listing(img, t[1].dir)) \in Nat
  PROVE  Behind(w, t, 1)
<1>1. 1 \in 1 .. Len(w) /\ w[1].dir = t[1].dir BY WayFacts DEF IsWay
<1>2. w[1].i <= Len(Listing(img, t[1].dir)) /\ w[1].i \in Int BY <1>1, WayFacts
<1> DEFINE l == Len(Listing(img, t[1].dir))
<1>3. w[1].i <= l /\ l < t[1].i /\ l \in Int BY <1>2
<1> HIDE DEF l
<1>4. w[1].i < t[1].i BY <1>2, <1>3
<1>5. 1 \in 1 .. 1 /\ \A j \in 1 .. 1 - 1 : w[j] = t[j] OBVIOUS
<1> QED BY <1>1, <1>4, <1>5 DEF Behind

-----------------------------------------------------------------------------
(* The ways to a version that the walk has behind it. *)
Trail == TrailOf(loaded)
Passed == IF step = "end" THEN Ver!VersionWays
          ELSE {w \in Ver!VersionWays : Behind(w, Trail, Len(loaded))}

VerTyped ==
  /\ image \in VersionImages /\ loaded \in Seq(StackFrames) /\ Len(loaded) <= MaxDepth
  /\ step \in {"walk", "end", "overflow"} /\ (step = "end" <=> loaded = << >>)
  /\ Nested(image, Trail, Len(loaded))
VerInv == VerTyped /\ (step # "overflow" => LastIn(image, Passed, built))

(* What resources are. *)
LEMMA VersionImage ==
  ASSUME image \in VersionImages
  PROVE  /\ \A d : Len(Listing(image, d)) \in Nat
         /\ \A d : \A i \in 1 .. Len(Listing(image, d)) :
              d \in DOMAIN image.dirs /\ Listing(image, d)[i] \in DirectoryEntry
         /\ \A d : Ver!Dir(d) = Listing(image, d)
         /\ \A s : Ver!EntryAt(s) = EntryIn(image, s)
         /\ \A w : Ver!DataOf(w) = DataIn(image, w)
<1>1. \A d \in DOMAIN image.dirs : image.dirs[d] \in Seq(DirectoryEntry) BY VersionImagesAssumption
<1>2. \A d : IF d \in DOMAIN image.dirs
             THEN Listing(image, d) = image.dirs[d] /\ Listing(image, d) \in Seq(DirectoryEntry)
             ELSE Len(Listing(image, d)) = 0
  BY <1>1, EmptySeq DEF Listing
<1>3. \A d : Len(Listing(image, d)) \in Nat BY <1>2, LenProperties
<1>4. ASSUME NEW d, NEW i \in 1 .. Len(Listing(image, d))
      PROVE  d \in DOMAIN image.dirs /\ Listing(image, d)[i] \in DirectoryEntry
  <2>1. d \in DOMAIN image.dirs BY <1>2
  <2>2. Listing(image, d) \in Seq(DirectoryEntry) BY <1>2, <2>1
  <2> QED BY <2>1, <2>2, ElementOfSeq
<1>5. \A d : Ver!Dir(d) = Listing(image, d) BY DEF Ver!Dir, Ver!At, Listing
<1>6. \A s : Ver!EntryAt(s) = EntryIn(image, s) BY <1>5 DEF Ver!EntryAt, EntryIn
<1>7. \A w : Ver!DataOf(w) = DataIn(image, w) BY <1>6 DEF Ver!DataOf, DataIn
<1> QED BY <1>3, <1>4, <1>5, <1>6, <1>7

(* The steps of a way. *)
LEMMA StepsAre ==
  ASSUME image \in VersionImages, NEW s
  PROVE  s \in Ver!Steps <=> /\ s = [dir |-> s.dir, i |-> s.i] /\ s.i \in Nat \ {0}
                             /\ s.i <= Len(Listing(image, s.dir))
<1>1. ASSUME s \in Ver!Steps
      PROVE  /\ s = [dir |-> s.dir, i |-> s.i] /\ s.i \in Nat \ {0}
             /\ s.i <= Len(Listing(image, s.dir))
  <2>1. PICK d \in DOMAIN image.dirs : s \in [dir: {d}, i: 1 .. Len(image.dirs[d])]
    BY <1>1 DEF Ver!Steps
  <2>2. Len(image.dirs[d]) \in Nat /\ Listing(image, d) = image.dirs[d]
    BY VersionImage DEF Listing
  <2>3. s = [dir |-> s.dir, i |-> s.i] /\ s.dir = d /\ s.i \in 1 .. Len(image.dirs[d]) BY <2>1
  <2> QED BY <2>2, <2>3
<1>2. ASSUME s = [dir |-> s.dir, i |-> s.i], s.i \in Nat \ {0}, s.i <= Len(Listing(image, s.dir))
      PROVE  s \in Ver!Steps
  <2> DEFINE d == s.dir
  <2>1. Len(Listing(image, d)) \in Nat BY VersionImage
  <2>2. s.i \in 1 .. Len(Listing(image, d)) BY <1>2, <2>1
  <2>3. d \in DOMAIN image.dirs BY <2>2, VersionImage
  <2>4. s.i \in 1 .. Len(image.dirs[d]) BY <2>2, <2>3 DEF Listing
  <2>5. [dir |-> d, i |-> s.i] \in [dir: {d}, i: 1 .. Len(image.dirs[d])] BY <2>4
  <2>6. s \in [dir: {d}, i: 1 .. Len(image.dirs[d])] BY <1>2, <2>5
  <2> HIDE DEF d
  <2> QED BY <2>3, <2>6 DEF Ver!Steps
<1> QED BY <1>1, <1>2

(* What a way to a version is. *)
LEMMA VersionWay ==
  ASSUME image \in VersionImages, NEW w
  PROVE  w \in Ver!VersionWays <=>
           /\ \E n \in 1 .. MaxDepth : w \in [1 .. n -> Ver!Steps]
           /\ w[1].dir = Ver!Root
           /\ \A k \in 1 .. Len(w) - 1 : /\ EntryIn(image, w[k]).DataIsDirectory
                                         /\ w[k + 1].dir = EntryIn(image, w[k]).Offset
           /\ IsRootOfVersions(EntryIn(image, w[1]))
           /\ ~EntryIn(image, w[Len(w)]).DataIsDirectory
           /\ DataIn(image, w).large /\ DataIn(image, w).valid
           /\ \A k \in 1 .. Len(w) : Ver!HasName(EntryIn(image, w[k]))
<1>1. (\A s : Ver!EntryAt(s) = EntryIn(image, s)) /\ Ver!DataOf(w) = DataIn(image, w)
  BY VersionImage
<1>2. w \in Ver!Ways <=>
         /\ \E n \in 1 .. MaxDepth : w \in [1 .. n -> Ver!Steps]
         /\ w[1].dir = Ver!Root
         /\ \A k \in 1 .. Len(w) - 1 : /\ EntryIn(image, w[k]).DataIsDirectory
                                       /\ w[k + 1].dir = EntryIn(image, w[k]).Offset
  BY <1>1 DEF Ver!Ways
<1>3. Ver!LeadsToVersion(w) <=>
         /\ IsRootOfVersions(EntryIn(image, w[1])) /\ ~EntryIn(image, w[Len(w)]).DataIsDirectory
         /\ DataIn(image, w).large /\ DataIn(image, w).valid
  BY <1>1, Zenon DEF Ver!LeadsToVersion, IsRootOfVersions
<1>4. Ver!AllNamed(w) <=> \A k \in 1 .. Len(w) : Ver!HasName(EntryIn(image, w[k]))
  BY <1>1 DEF Ver!AllNamed
<1>5. w \in Ver!VersionWays <=> w \in Ver!Ways /\ Ver!LeadsToVersion(w) /\ Ver!AllNamed(w)
  BY DEF Ver!VersionWays
<1> QED BY <1>2, <1>3, <1>4, <1>5, Zenon

(* The length of a sequence that is given as a function. *)
LEMMA LenOfWay ==
  ASSUME NEW S, NEW n \in Nat, NEW w \in [1 .. n -> S]
  PROVE  Len(w) = n /\ w \in Seq(S)
<1>1. w \in Seq(S) BY SeqDef
<1>2. Len(w) \in Nat /\ DOMAIN w = 1 .. Len(w) BY <1>1, LenProperties
<1>3. 1 .. n = 1 .. Len(w) BY <1>2
<1>4. n = Len(w)
  <2>1. CASE n = 0 BY <1>2, <1>3, <2>1
  <2>2. CASE n > 0
    <3>1. n \in 1 .. Len(w) /\ (Len(w) > 0 => Len(w) \in 1 .. n) BY <1>2, <1>3, <2>2
    <3> QED BY <1>2, <3>1
  <2> QED BY <2>1, <2>2
<1> QED BY <1>1, <1>4

(* A way to a version is a way. *)
LEMMA VersionWayIsWay ==
  ASSUME image \in VersionImages, NEW w \in Ver!VersionWays
  PROVE  IsWay(image, w)
<1>1. PICK n \in 1 .. MaxDepth : w \in [1 .. n -> Ver!Steps] BY VersionWay
<1>2. n \in Nat \ {0} /\ Len(w) = n BY <1>1, LenOfWay, MaxDepthAssumption
<1>3. \A k \in 1 .. Len(w) : w[k] \in Ver!Steps BY <1>1, <1>2
<1>4. \A k \in 1 .. Len(w) : /\ w[k] = [dir |-> w[k].dir, i |-> w[k].i] /\ w[k].i \in Nat \ {0}
                             /\ w[k].i <= Len(Listing(image, w[k].dir))
  BY <1>3, StepsAre
<1>5. /\ w[1].dir = Ver!Root
      /\ \A k \in 1 .. Len(w) - 1 : /\ EntryIn(image, w[k]).DataIsDirectory
                                    /\ EntryIn(image, w[k]).Offset = w[k + 1].dir
      /\ ~EntryIn(image, w[Len(w)]).DataIsDirectory
  BY VersionWay
<1>6. Len(w) \in Nat \ {0} BY <1>2
<1> QED BY <1>4, <1>5, <1>6, Zenon DEF IsWay

(* Where the walk stands. *)
LEMMA VerStands ==
  ASSUME VerTyped, step = "walk", NEW n, n = Len(loaded)
  PROVE  /\ n \in Nat \ {0} /\ n <= MaxDepth /\ loaded # << >> /\ Nested(image, Trail, n)
         /\ Trail[n].dir = Ver!Top.dir /\ Trail[n].i = Ver!Top.i
         /\ Trail[n].i \in Nat \ {0} /\ Trail[n] = [dir |-> Trail[n].dir, i |-> Trail[n].i]
         /\ Ver!Dir(Ver!Top.dir) = Listing(image, Trail[n].dir)
         /\ Ver!Entry = EntryIn(image, Trail[n])
         /\ Len(Listing(image, Trail[n].dir)) \in Nat
<1>1. loaded \in Seq(StackFrames) /\ loaded # << >> /\ n <= MaxDepth /\ Nested(image, Trail, n)
  BY DEF VerTyped
<1>2. n \in Nat \ {0} BY <1>1, LenProperties, EmptySeq
<1>3. n \in 1 .. Len(loaded) /\ ~(n < Len(loaded)) /\ Len(loaded) + 1 - n = 1 BY <1>2
<1>4. /\ Trail[n].dir = loaded[1].dir /\ Trail[n].i = loaded[1].i
      /\ Trail[n] = [dir |-> Trail[n].dir, i |-> Trail[n].i]
  BY <1>1, <1>3, TrailStep DEF Trail
<1>5. Trail[n].i \in Nat \ {0} BY <1>1, <1>2, <1>3, NestedFacts
<1>6. image \in VersionImages BY DEF VerTyped
<1>7. Ver!Dir(loaded[1].dir) = Listing(image, Trail[n].dir) BY <1>4, <1>6, VersionImage
<1>8. Ver!Entry = EntryIn(image, Trail[n])
  BY <1>4, <1>7 DEF Ver!Entry, Ver!Top, EntryIn
<1> QED BY <1>1, <1>2, <1>4, <1>5, <1>6, <1>7, <1>8, VersionImage DEF Ver!Top

(* The ways are those of the image. *)
LEMMA SameWays == ASSUME UNCHANGED image PROVE Ver!VersionWays' = Ver!VersionWays
BY DEF Ver!VersionWays, Ver!Ways, Ver!Steps, Ver!LeadsToVersion, Ver!AllNamed, Ver!DataOf,
       Ver!EntryAt, Ver!Dir, Ver!At

(* A trail that stands at an entry is a sequence of steps. *)
LEMMA TrailIsWay ==
  ASSUME VerTyped, NEW n, n = Len(loaded), n \in Nat \ {0},
         Trail[n].i <= Len(Listing(image, Trail[n].dir))
  PROVE  /\ Trail \in [1 .. n -> Ver!Steps] /\ Len(Trail) = n
<1>1. Nested(image, Trail, n) /\ image \in VersionImages BY DEF VerTyped
<1>2. \A k \in 1 .. n : Trail[k] = [dir |-> Trail[k].dir, i |-> Trail[k].i] /\ Trail[k].i \in Nat \ {0}
  BY <1>1, Zenon DEF Nested
<1>3. \A k \in 1 .. n : Trail[k].i <= Len(Listing(image, Trail[k].dir))
  <2> SUFFICES ASSUME NEW k \in 1 .. n PROVE Trail[k].i <= Len(Listing(image, Trail[k].dir)) OBVIOUS
  <2>1. CASE k = n BY <2>1
  <2>2. CASE k # n
    <3>1. Trail[k].i <= Len(Listing(image, Trail[k].dir)) + 0 BY <1>1, <2>2, NestedFacts
    <3>2. Len(Listing(image, Trail[k].dir)) \in Nat BY <1>1, VersionImage
    <3> QED BY <3>1, <3>2
  <2> QED BY <2>1, <2>2
<1>4. \A k \in 1 .. n : Trail[k] \in Ver!Steps BY <1>1, <1>2, <1>3, StepsAre
<1>5. Trail = [k \in 1 .. n |-> Trail[k]] BY DEF Trail, TrailOf
<1>6. Trail \in [1 .. n -> Ver!Steps] BY <1>4, <1>5
<1> QED BY <1>6, LenOfWay

(* Of two ways that differ, only one comes before the other. *)
LEMMA NotBoth ==
  ASSUME NEW w, NEW t, NEW n, Len(t) = n, Behind(w, t, n),
         \A k \in 1 .. n : t[k].i \in Int, \A k \in 1 .. Len(w) : w[k].i \in Int
  PROVE  ~Ver!Precedes(t, w)
<1> SUFFICES ASSUME Ver!Precedes(t, w) PROVE FALSE OBVIOUS
<1>1. PICK a \in 1 .. Len(w) : a \in 1 .. n /\ w[a].i < t[a].i /\ \A j \in 1 .. a - 1 : w[j] = t[j]
  BY DEF Behind
<1>2. PICK b \in 1 .. n : b \in 1 .. Len(w) /\ t[b].i < w[b].i /\ \A j \in 1 .. b - 1 : t[j] = w[j]
  BY DEF Ver!Precedes
<1>3. CASE a < b
  <2>1. a \in 1 .. b - 1 BY <1>1, <1>3
  <2>2. t[a] = w[a] BY <1>2, <2>1
  <2> QED BY <1>1, <2>2
<1>4. CASE b < a
  <2>1. b \in 1 .. a - 1 BY <1>2, <1>4
  <2>2. t[b] = w[b] BY <1>1, <2>1
  <2> QED BY <1>2, <2>2
<1>5. CASE a = b BY <1>1, <1>2, <1>5
<1> QED BY <1>3, <1>4, <1>5

-----------------------------------------------------------------------------
(* The steps of a way to a version are counted from 1. *)
LEMMA VersionWaysCount ==
  image \in VersionImages => \A w \in Ver!VersionWays : \A k \in 1 .. Len(w) : w[k].i \in Nat \ {0}
BY VersionWayIsWay, WayFacts

LEMMA VerEnters ==
  ASSUME image' \in VersionImages, Locals("walk", 0, 0, <<Ver!Frame(Ver!Root)>>)
  PROVE  VerInv'
<1> DEFINE s == loaded'
           f == [dir |-> Ver!Root, i |-> 1]
<1>1. step' = "walk" /\ built' = 0 /\ s = <<f>> BY DEF Locals, Ver!Frame
<1>2. f \in StackFrames /\ f.dir = Ver!Root /\ f.i = 1 BY DEF StackFrames, Ver!Root
<1> HIDE DEF f
<1>3. s \in Seq(StackFrames) /\ Len(s) = 1 /\ s[1] = f /\ s # << >>
  <2>1. s \in Seq(StackFrames) /\ Len(s) = 1 /\ s[1] = f BY <1>1, <1>2
  <2> QED BY <2>1, EmptySeq
<1> HIDE DEF s
<1> DEFINE t == TrailOf(s)
<1>4. t[1].dir = Ver!Root /\ t[1].i = 1 /\ t[1] = [dir |-> t[1].dir, i |-> t[1].i]
  <2>1. 1 \in 1 .. Len(s) /\ ~(1 < Len(s)) /\ Len(s) + 1 - 1 = 1 BY <1>3
  <2> QED BY <1>2, <1>3, <2>1, TrailStep
<1> HIDE DEF t
<1>5. \A d : Len(Listing(image', d)) \in Nat
  <2>1. \A d \in DOMAIN image'.dirs : image'.dirs[d] \in Seq(DirectoryEntry) BY VersionImagesAssumption
  <2> QED BY <2>1, EmptySeq, LenProperties DEF Listing
<1>6. Nested(image', t, 1)
  <2>1. \A k \in 1 .. 1 : k = 1 OBVIOUS
  <2>2. \A k \in 1 .. 1 - 1 : FALSE OBVIOUS
  <2>3. t[1].i \in Nat \ {0} /\ t[1].i <= Len(Listing(image', t[1].dir)) + 1 BY <1>4, <1>5
  <2> QED BY <1>4, <2>1, <2>2, <2>3 DEF Nested
<1>7. VerTyped' BY <1>1, <1>3, <1>6, MaxDepthAssumption DEF VerTyped, Trail, s, t
<1>8. Passed' = {}
  <2>2. (image \in VersionImages => \A w \in Ver!VersionWays : \A k \in 1 .. Len(w) : w[k].i \in Nat \ {0})'
    BY VersionWaysCount, PTL
  <2>3. \A w \in Ver!VersionWays' : ~Behind(w, t, 1)
    <3> SUFFICES ASSUME NEW w \in Ver!VersionWays', NEW k \in 1 .. Len(w), k \in 1 .. 1, w[k].i < t[k].i
                 PROVE  FALSE
      BY DEF Behind
    <3>1. k = 1 OBVIOUS
    <3>2. w[1].i \in Nat \ {0} BY <2>2, <3>1
    <3> QED BY <1>4, <3>1, <3>2
  <2> QED BY <1>1, <1>3, <2>3 DEF Passed, Trail, s, t
<1> QED BY <1>1, <1>7, <1>8 DEF VerInv, LastIn

(* The counter of the innermost loop advances. *)
LEMMA VerCounts ==
  ASSUME VerTyped, step = "walk", UNCHANGED <<image, step>>, loaded' = Ver!Next1(loaded),
         Ver!Top.i <= Len(Ver!Dir(Ver!Top.dir))
  PROVE  /\ VerTyped'
         /\ Passed' = Passed \cup {w \in Ver!VersionWays :
              Len(loaded) <= Len(w) /\ \A j \in 1 .. Len(loaded) : w[j] = Trail[j]}
<1> DEFINE n == Len(loaded)
           t == Trail
           u == TrailOf(loaded')
           l == Len(Listing(image, t[n].dir))
<1>1. /\ n \in Nat \ {0} /\ n <= MaxDepth /\ loaded # << >> /\ Nested(image, t, n)
      /\ t[n].i \in Nat \ {0} /\ l \in Nat /\ t[n].i <= l
  BY VerStands
<1>2. loaded \in Seq(StackFrames) /\ image \in VersionImages BY DEF VerTyped
<1>3. loaded' = [loaded EXCEPT ![1].i = @ + 1] BY DEF Ver!Next1
<1>4. /\ loaded' \in Seq(StackFrames) /\ Len(loaded') = n
      /\ \A k \in 1 .. n - 1 : u[k] = t[k]
      /\ u[n] = [dir |-> t[n].dir, i |-> t[n].i + 1]
  <2> DEFINE s == loaded
  <2>1. s \in Seq(StackFrames) /\ s # << >> BY <1>1, <1>2
  <2> HIDE DEF s
  <2> DEFINE v == [s EXCEPT ![1].i = @ + 1]
  <2>0. v = [s EXCEPT ![1].i = @ + 1] OBVIOUS
  <2> HIDE DEF v
  <2>2. /\ v \in Seq(StackFrames) /\ Len(v) = Len(s)
        /\ \A k \in 1 .. Len(s) - 1 : TrailOf(v)[k] = TrailOf(s)[k]
        /\ TrailOf(v)[Len(s)] = [dir |-> TrailOf(s)[Len(s)].dir, i |-> TrailOf(s)[Len(s)].i + 1]
    BY <2>0, <2>1, TrailCounts, ZenonT(60)
  <2>3. v = loaded' BY <1>3 DEF s, v
  <2> QED BY <2>2, <2>3 DEF s, Trail
<1> HIDE DEF n, t, u, l
<1>5. u[n].dir = t[n].dir /\ u[n].i = t[n].i + 1 /\ u[n] = [dir |-> u[n].dir, i |-> u[n].i] BY <1>4
<1>6. Nested(image, u, n)
  <2>1. n > 0 => u[1].dir = Ver!Root
    <3>1. t[1].dir = Ver!Root BY <1>1 DEF Nested
    <3>2. 1 = n \/ 1 \in 1 .. n - 1 BY <1>1
    <3> QED BY <1>4, <1>5, <3>1, <3>2
  <2>2. \A k \in 1 .. n : t[k].i \in Nat \ {0} /\ t[k] = [dir |-> t[k].dir, i |-> t[k].i]
    BY <1>1, Zenon DEF Nested
  <2>3. \A k \in 1 .. n : k = n \/ k \in 1 .. n - 1 BY <1>1
  <2>4. \A k \in 1 .. n : u[k].i \in Nat \ {0} /\ u[k] = [dir |-> u[k].dir, i |-> u[k].i]
    <3> SUFFICES ASSUME NEW k \in 1 .. n
                 PROVE  u[k].i \in Nat \ {0} /\ u[k] = [dir |-> u[k].dir, i |-> u[k].i]
      OBVIOUS
    <3>1. CASE k = n BY <1>1, <1>5, <3>1
    <3>2. CASE k \in 1 .. n - 1
      <4>1. u[k] = t[k] BY <1>4, <3>2
      <4>2. t[k].i \in Nat \ {0} /\ t[k] = [dir |-> t[k].dir, i |-> t[k].i] BY <2>2
      <4> QED BY <4>1, <4>2, Zenon
    <3> QED BY <2>3, <3>1, <3>2
  <2>5. \A k \in 1 .. n : u[k].i <= Len(Listing(image, u[k].dir)) + IF k = n THEN 1 ELSE 0
    <3> SUFFICES ASSUME NEW k \in 1 .. n
                 PROVE  u[k].i <= Len(Listing(image, u[k].dir)) + IF k = n THEN 1 ELSE 0
      OBVIOUS
    <3>1. CASE k = n
      <4>1. u[n].i <= Len(Listing(image, u[n].dir)) + 1 BY <1>1, <1>5 DEF l
      <4> QED BY <3>1, <4>1
    <3>2. CASE k # n
      <4>1. u[k] = t[k] BY <1>4, <2>3, <3>2
      <4>2. t[k].i <= Len(Listing(image, t[k].dir)) + IF k = n THEN 1 ELSE 0 BY <1>1, NestedFacts
      <4> QED BY <4>1, <4>2
    <3> QED BY <3>1, <3>2
  <2>6. \A k \in 1 .. n - 1 : /\ Ver!HasName(EntryIn(image, u[k])) /\ EntryIn(image, u[k]).DataIsDirectory
                              /\ EntryIn(image, u[k]).Offset = u[k + 1].dir
    <3> SUFFICES ASSUME NEW k \in 1 .. n - 1
                 PROVE  /\ Ver!HasName(EntryIn(image, u[k])) /\ EntryIn(image, u[k]).DataIsDirectory
                        /\ EntryIn(image, u[k]).Offset = u[k + 1].dir
      OBVIOUS
    <3>1. u[k] = t[k] BY <1>4
    <3>2. u[k + 1].dir = t[k + 1].dir
      <4>1. k + 1 = n \/ k + 1 \in 1 .. n - 1 BY <1>1
      <4> QED BY <1>4, <1>5, <4>1
    <3>3. /\ Ver!HasName(EntryIn(image, t[k])) /\ EntryIn(image, t[k]).DataIsDirectory
          /\ EntryIn(image, t[k]).Offset = t[k + 1].dir
      BY <1>1, Zenon DEF Nested
    <3> QED BY <3>1, <3>2, <3>3, Zenon
  <2>7. n > 1 => IsRootOfVersions(EntryIn(image, u[1]))
    <3>1. n > 1 => u[1] = t[1] BY <1>1, <1>4
    <3> QED BY <1>1, <3>1 DEF Nested
  <2> QED BY <2>1, <2>4, <2>5, <2>6, <2>7, Zenon DEF Nested
<1>7. loaded' # << >> BY <1>1, <1>4, EmptySeq
<1>8. VerTyped' BY <1>1, <1>2, <1>4, <1>6, <1>7 DEF VerTyped, Trail, u
<1>9. ASSUME NEW w \in Ver!VersionWays
      PROVE  Behind(w, u, n) <=> Behind(w, t, n) \/ (n <= Len(w) /\ \A j \in 1 .. n : w[j] = t[j])
  <2>1. IsWay(image, w) BY <1>2, VersionWayIsWay
  <2> QED BY <1>1, <1>4, <1>5, <2>1, BehindCounts
<1>10. Ver!VersionWays' = Ver!VersionWays BY SameWays
<1>11. Passed' = {w \in Ver!VersionWays : Behind(w, u, n)} BY <1>4, <1>10 DEF Passed, Trail, u
<1>12. Passed = {w \in Ver!VersionWays : Behind(w, t, n)} BY DEF Passed, t, n
<1>13. Passed' = Passed \cup {w \in Ver!VersionWays : n <= Len(w) /\ \A j \in 1 .. n : w[j] = t[j]}
  BY <1>9, <1>11, <1>12
<1> QED BY <1>8, <1>13 DEF n, t

-----------------------------------------------------------------------------
(* An entry is taken if it has a name and is below RT_VERSION. *)
LEMMA VerTaken ==
  ASSUME VerTyped, step = "walk", NEW n, n = Len(loaded)
  PROVE  Ver!Taken(Ver!Entry) <=> /\ Ver!HasName(EntryIn(image, Trail[n]))
                                  /\ IsRootOfVersions(EntryIn(image, Trail[1]))
<1>1. n \in Nat \ {0} /\ Nested(image, Trail, n) /\ Ver!Entry = EntryIn(image, Trail[n]) BY VerStands
<1> DEFINE e == EntryIn(image, Trail[n])
<1>2. Ver!Taken(e) <=> Ver!HasName(e) /\ (n > 1 \/ IsRootOfVersions(e))
  BY DEF Ver!Taken, Ver!Matches, IsRootOfVersions
<1>3. n > 1 => IsRootOfVersions(EntryIn(image, Trail[1])) BY <1>1 DEF Nested
<1>4. ~(n > 1) => n = 1 BY <1>1
<1> QED BY <1>1, <1>2, <1>3, <1>4

(* An entry that is passed over is on no way to a version. *)
LEMMA VerPassesOver == ASSUME VerInv, Ver!PassOver PROVE VerInv'
<1> DEFINE n == Len(loaded)
           X == {w \in Ver!VersionWays : n <= Len(w) /\ \A j \in 1 .. n : w[j] = Trail[j]}
<1>1. /\ VerTyped /\ step = "walk" /\ UNCHANGED <<image, step, built>> /\ loaded' = Ver!Next1(loaded)
      /\ ~Ver!Taken(Ver!Entry) /\ Ver!Top.i <= Len(Ver!Dir(Ver!Top.dir))
  BY DEF VerInv, Ver!PassOver, Ver!InLoop
<1>2. VerTyped' /\ Passed' = Passed \cup X BY <1>1, VerCounts
<1>3. image \in VersionImages BY <1>1 DEF VerTyped
<1>4. X = {}
  <2> SUFFICES ASSUME NEW w \in Ver!VersionWays, n <= Len(w), \A j \in 1 .. n : w[j] = Trail[j]
               PROVE  FALSE
    OBVIOUS
  <2>1. /\ IsRootOfVersions(EntryIn(image, w[1]))
        /\ \A k \in 1 .. Len(w) : Ver!HasName(EntryIn(image, w[k]))
    BY <1>3, VersionWay
  <2>2. n \in Nat \ {0} BY <1>1, VerStands
  <2>3. Len(w) \in Nat BY <1>3, VersionWayIsWay, WayFacts
  <2>4. n \in 1 .. Len(w) /\ n \in 1 .. n /\ 1 \in 1 .. n BY <2>2, <2>3
  <2>5. Ver!HasName(EntryIn(image, Trail[n])) /\ IsRootOfVersions(EntryIn(image, Trail[1]))
    <3>1. w[n] = Trail[n] /\ w[1] = Trail[1] BY <2>4
    <3> HIDE DEF n
    <3>2. Ver!HasName(EntryIn(image, w[n])) BY <2>1, <2>4
    <3> QED BY <2>1, <3>1, <3>2
  <2> QED BY <1>1, <2>5, VerTaken
<1>5. Passed' = Passed BY <1>2, <1>4
<1> QED BY <1>1, <1>2, <1>5 DEF VerInv

(* Data that is a version is the last so far. *)
LEMMA VerCallsBack == ASSUME VerInv, Ver!CallBack PROVE VerInv'
<1> DEFINE n == Len(loaded)
           t == Trail
           d == DataIn(image, t)
           X == {w \in Ver!VersionWays : n <= Len(w) /\ \A j \in 1 .. n : w[j] = t[j]}
<1>1. /\ VerTyped /\ step = "walk" /\ UNCHANGED <<image, step>> /\ loaded' = Ver!Next1(loaded)
      /\ Ver!Taken(Ver!Entry) /\ ~Ver!Entry.DataIsDirectory
      /\ Ver!Top.i <= Len(Ver!Dir(Ver!Top.dir))
  BY DEF VerInv, Ver!CallBack, Ver!InLoop
<1>2. VerTyped' /\ Passed' = Passed \cup X BY <1>1, VerCounts
<1>3. image \in VersionImages /\ LastIn(image, Passed, built) BY <1>1 DEF VerInv, VerTyped
<1>4. /\ n \in Nat \ {0} /\ n <= MaxDepth /\ Nested(image, t, n)
      /\ Ver!Entry = EntryIn(image, t[n]) /\ t[n].i <= Len(Listing(image, t[n].dir))
  BY <1>1, VerStands
<1>5. t \in [1 .. n -> Ver!Steps] /\ Len(t) = n BY <1>1, <1>4, TrailIsWay
<1>6. /\ Ver!HasName(EntryIn(image, t[n])) /\ IsRootOfVersions(EntryIn(image, t[1]))
      /\ ~EntryIn(image, t[n]).DataIsDirectory
  BY <1>1, <1>4, VerTaken
<1>7. d = Ver!At(image.data, Ver!Entry.Offset, Ver!NoData) BY <1>4, <1>5 DEF DataIn
<1>8. built' = IF Ver!Accepted(d) THEN d.version ELSE built
  BY <1>7 DEF Ver!CallBack
<1>9. Passed = {w \in Ver!VersionWays : Behind(w, t, n)} BY <1>1 DEF Passed
<1> HIDE DEF n, t, d
<1>10. \A w \in X : w = t
  <2> SUFFICES ASSUME NEW w \in Ver!VersionWays, n <= Len(w), \A j \in 1 .. n : w[j] = t[j]
               PROVE  w = t
    OBVIOUS
  <2>1. PICK m \in 1 .. MaxDepth : w \in [1 .. m -> Ver!Steps] BY <1>3, VersionWay
  <2>2. m \in Nat /\ Len(w) = m BY <2>1, LenOfWay, MaxDepthAssumption
  <2>3. m = n
    <3>1. SUFFICES ASSUME m # n PROVE FALSE OBVIOUS
    <3>2. n \in 1 .. Len(w) - 1 /\ n \in 1 .. n BY <1>4, <2>2, <3>1
    <3>3. EntryIn(image, w[n]).DataIsDirectory BY <1>3, <3>2, VersionWay
    <3> QED BY <1>6, <3>2, <3>3
  <2> QED BY <1>5, <2>1, <2>3
<1>11. CASE Ver!Accepted(d)
  <2>1. t \in Ver!VersionWays
    <3>1. n \in 1 .. MaxDepth BY <1>4, MaxDepthAssumption
    <3>2. \E m \in 1 .. MaxDepth : t \in [1 .. m -> Ver!Steps] BY <1>5, <3>1
    <3>3. t[1].dir = Ver!Root BY <1>4 DEF Nested
    <3>4. \A k \in 1 .. Len(t) - 1 : /\ EntryIn(image, t[k]).DataIsDirectory
                                     /\ t[k + 1].dir = EntryIn(image, t[k]).Offset
                                     /\ Ver!HasName(EntryIn(image, t[k]))
      BY <1>4, <1>5, Zenon DEF Nested
    <3>5. \A k \in 1 .. Len(t) : k \in 1 .. Len(t) - 1 \/ k = n BY <1>4, <1>5
    <3>6. \A k \in 1 .. Len(t) : Ver!HasName(EntryIn(image, t[k])) BY <1>6, <3>4, <3>5, Zenon
    <3>7. DataIn(image, t).large /\ DataIn(image, t).valid BY <1>11, Zenon DEF Ver!Accepted, d
    <3>8. ~EntryIn(image, t[Len(t)]).DataIsDirectory BY <1>5, <1>6
    <3>9. \A k \in 1 .. Len(t) - 1 : /\ EntryIn(image, t[k]).DataIsDirectory
                                     /\ t[k + 1].dir = EntryIn(image, t[k]).Offset
      BY <3>4, Zenon
    <3> QED BY <1>3, <1>6, <3>2, <3>3, <3>6, <3>7, <3>8, <3>9, VersionWay, Zenon
  <2>2. X = {t}
    <3>1. n <= Len(t) /\ \A j \in 1 .. n : t[j] = t[j] BY <1>4, <1>5
    <3> QED BY <1>10, <2>1, <3>1
  <2>3. Passed' = Passed \cup {t} BY <1>2, <2>2
  <2>4. \A w \in Passed \cup {t} : ~Ver!Precedes(t, w)
    <3>1. \A k \in 1 .. n : t[k].i \in Int BY <1>4, NestedFacts
    <3>2. ~Ver!Precedes(t, t)
      <4> SUFFICES ASSUME Ver!Precedes(t, t) PROVE FALSE OBVIOUS
      <4>1. PICK k \in 1 .. Len(t) : t[k].i < t[k].i BY DEF Ver!Precedes
      <4>2. t[k].i \in Int BY <1>5, <3>1
      <4> QED BY <4>1, <4>2
    <3>3. ASSUME NEW w \in Passed PROVE ~Ver!Precedes(t, w)
      <4>1. w \in Ver!VersionWays /\ Behind(w, t, n) BY <1>9
      <4>2. \A k \in 1 .. Len(w) : w[k].i \in Int BY <1>3, <4>1, VersionWayIsWay, WayFacts
      <4> QED BY <1>5, <3>1, <4>1, <4>2, NotBoth
    <3> QED BY <3>2, <3>3
  <2>5. built' = DataIn(image, t).version BY <1>8, <1>11 DEF d
  <2>6. LastIn(image, Passed', built')
    <3>1. t \in Passed' BY <2>3
    <3> QED BY <2>3, <2>4, <2>5, <3>1 DEF LastIn
  <2> QED BY <1>1, <1>2, <2>6 DEF VerInv
<1>12. CASE ~Ver!Accepted(d)
  <2>1. X = {}
    <3> SUFFICES ASSUME NEW w \in X PROVE FALSE OBVIOUS
    <3>1. w = t /\ w \in Ver!VersionWays BY <1>10
    <3>2. DataIn(image, w).large /\ DataIn(image, w).valid BY <1>3, <3>1, VersionWay
    <3>3. DataIn(image, t).large /\ DataIn(image, t).valid BY <3>1, <3>2
    <3> QED BY <1>12, <3>3, Zenon DEF Ver!Accepted, d
  <2>2. Passed' = Passed /\ built' = built BY <1>2, <1>8, <1>12, <2>1
  <2> QED BY <1>1, <1>2, <1>3, <2>2 DEF VerInv
<1> QED BY <1>11, <1>12

(* A directory is entered, unless there is no room on the stack. *)
LEMMA VerIterates == ASSUME VerInv, Ver!IterateDirectory PROVE VerInv'
<1> DEFINE n == Len(loaded)
           t == Trail
           d == Ver!Entry.Offset
<1>1. /\ VerTyped /\ step = "walk" /\ UNCHANGED <<image, built>>
      /\ Ver!Taken(Ver!Entry) /\ Ver!Entry.DataIsDirectory
      /\ Ver!Top.i <= Len(Ver!Dir(Ver!Top.dir))
      /\ IF n < MaxDepth THEN loaded' = Ver!Enter(d) /\ step' = step
         ELSE step' = "overflow" /\ loaded' = loaded
  BY DEF VerInv, Ver!IterateDirectory, Ver!InLoop
<1>2. CASE ~(n < MaxDepth)
  <2>1. loaded # << >> BY <1>1 DEF VerTyped
  <2> QED BY <1>1, <1>2, <2>1 DEF VerInv, VerTyped, Trail
<1>3. CASE n < MaxDepth
  <2>1. image \in VersionImages /\ LastIn(image, Passed, built) BY <1>1 DEF VerInv, VerTyped
  <2>2. /\ n \in Nat \ {0} /\ Nested(image, t, n) /\ loaded # << >>
        /\ Ver!Entry = EntryIn(image, t[n]) /\ t[n].i <= Len(Listing(image, t[n].dir))
        /\ t[n].i \in Nat \ {0} /\ Len(Listing(image, t[n].dir)) \in Nat
    BY <1>1, VerStands
  <2>3. /\ Ver!HasName(EntryIn(image, t[n])) /\ IsRootOfVersions(EntryIn(image, t[1]))
        /\ EntryIn(image, t[n]).DataIsDirectory /\ d = EntryIn(image, t[n]).Offset
    BY <1>1, <2>2, VerTaken
  <2>4. d \in Nat
    <3>1. t[n].i \in 1 .. Len(Listing(image, t[n].dir)) BY <2>2
    <3>2. EntryIn(image, t[n]) \in DirectoryEntry BY <2>1, <3>1, VersionImage DEF EntryIn
    <3> QED BY <2>3, <3>2 DEF DirectoryEntry
  <2>5. Passed = {w \in Ver!VersionWays : Behind(w, t, n)} BY <1>1 DEF Passed
  <2> DEFINE u == TrailOf(loaded')
  <2>6. /\ loaded' \in Seq(StackFrames) /\ Len(loaded') = n + 1
        /\ \A k \in 1 .. n : u[k] = t[k]
        /\ u[n + 1] = [dir |-> d, i |-> 1]
    <3> DEFINE s == loaded
               f == [dir |-> d, i |-> 1]
    <3>1. s \in Seq(StackFrames) /\ s # << >> BY <1>1, <2>2 DEF VerTyped
    <3>2. f \in StackFrames /\ f.dir = d /\ f.i = 1 BY <2>4 DEF StackFrames
    <3>3. loaded' = <<f>> \o [s EXCEPT ![1].i = @ + 1]
      BY <1>1, <1>3 DEF Ver!Enter, Ver!Frame, Ver!Next1
    <3> HIDE DEF s, f
    <3> DEFINE v == [s EXCEPT ![1].i = @ + 1]
    <3>0. v = [s EXCEPT ![1].i = @ + 1] OBVIOUS
    <3> HIDE DEF v
    <3>4. /\ v \in Seq(StackFrames) /\ Len(v) = Len(s)
          /\ v[1].dir = s[1].dir /\ v[1].i = s[1].i + 1 /\ \A k \in 2 .. Len(s) : v[k] = s[k]
      BY <3>0, <3>1, TrailCounts, ZenonT(60)
    <3>5. loaded' = <<f>> \o v BY <3>3 DEF v
    <3> DEFINE z == loaded'
    <3>6. z = <<f>> \o v BY <3>5
    <3> HIDE DEF z
    <3>7. /\ z \in Seq(StackFrames) /\ Len(z) = Len(v) + 1 /\ z[1] = f
          /\ \A j \in 1 .. Len(v) : z[j + 1] = v[j]
      BY ONLY <3>2, <3>4, <3>6, Prepended
    <3>8. /\ \A k \in 1 .. Len(s) : TrailOf(z)[k] = TrailOf(s)[k]
          /\ TrailOf(z)[Len(s) + 1] = [dir |-> z[1].dir, i |-> z[1].i]
      <4>1. z \in Seq(StackFrames) /\ Len(z) = Len(s) + 1 /\ \A j \in 1 .. Len(s) : z[j + 1] = v[j]
        BY ONLY <3>4, <3>7
      <4>2. Len(s) \in Nat \ {0} BY <3>1, LenProperties, EmptySeq
      <4>3. z[2] = v[1]
        <5>1. 1 \in 1 .. Len(s) /\ 1 + 1 = 2 BY <4>2
        <5>2. z[1 + 1] = v[1] BY ONLY <4>1, <5>1
        <5> QED BY ONLY <5>1, <5>2
      <4>4. \A k \in 2 .. Len(s) : k \in 1 .. Len(s) OBVIOUS
      <4>5. z[2].dir = s[1].dir /\ z[2].i = s[1].i + 1 /\ \A k \in 2 .. Len(s) : z[k + 1] = s[k]
        BY ONLY <3>4, <4>1, <4>3, <4>4
      <4> QED BY ONLY <3>1, <4>1, <4>5, TrailEnters
    <3>9. TrailOf(z)[Len(s) + 1] = [dir |-> d, i |-> 1] BY <3>2, <3>7, <3>8
    <3> QED BY <3>4, <3>7, <3>8, <3>9 DEF s, z, Trail
  <2> HIDE DEF n, t, u, d
  <2>7. u[n + 1].dir = d /\ u[n + 1].i = 1 /\ u[n + 1] = [dir |-> u[n + 1].dir, i |-> u[n + 1].i]
    BY <2>6
  <2>8. \A k \in 1 .. n + 1 : k \in 1 .. n \/ k = n + 1 BY <2>2
  <2>9. Nested(image, u, n + 1)
    <3>1. u[1] = t[1] /\ u[1].dir = Ver!Root
      <4>1. 1 \in 1 .. n BY <2>2
      <4> QED BY <2>2, <2>6, <4>1 DEF Nested
    <3>2. ASSUME NEW k \in 1 .. n + 1
          PROVE  u[k].i \in Nat \ {0} /\ u[k] = [dir |-> u[k].dir, i |-> u[k].i]
      <4>1. CASE k \in 1 .. n
        <5>1. u[k] = t[k] BY <2>6, <4>1
        <5>2. t[k].i \in Nat \ {0} /\ t[k] = [dir |-> t[k].dir, i |-> t[k].i]
          BY <2>2, <4>1, Zenon DEF Nested
        <5> QED BY <5>1, <5>2, Zenon
      <4>2. CASE k = n + 1 BY <2>7, <4>2
      <4> QED BY <2>8, <4>1, <4>2
    <3>3. ASSUME NEW k \in 1 .. n + 1
          PROVE  u[k].i <= Len(Listing(image, u[k].dir)) + IF k = n + 1 THEN 1 ELSE 0
      <4>0. Len(Listing(image, u[k].dir)) \in Nat BY <2>1, VersionImage
      <4>1. CASE k \in 1 .. n
        <5>1. u[k] = t[k] /\ k # n + 1 BY <2>2, <2>6, <4>1
        <5>2. t[k].i <= Len(Listing(image, t[k].dir)) + IF k = n THEN 1 ELSE 0
          BY <2>2, <4>1, NestedFacts
        <5>3. u[k].i <= Len(Listing(image, u[k].dir))
          <6>1. CASE k = n BY <2>2, <5>1, <6>1
          <6>2. CASE k # n BY <4>0, <5>1, <5>2, <6>2
          <6> QED BY <6>1, <6>2
        <5>4. u[k].i \in Nat BY <3>2
        <5> QED BY <4>0, <5>1, <5>3, <5>4
      <4>2. CASE k = n + 1
        <5>1. 1 <= Len(Listing(image, u[k].dir)) + 1 BY <4>0
        <5> QED BY <2>7, <4>2, <5>1
      <4> QED BY <2>8, <4>1, <4>2
    <3>4. ASSUME NEW k \in 1 .. n
          PROVE  /\ Ver!HasName(EntryIn(image, u[k])) /\ EntryIn(image, u[k]).DataIsDirectory
                 /\ EntryIn(image, u[k]).Offset = u[k + 1].dir
      <4>1. u[k] = t[k] BY <2>6
      <4>2. CASE k = n BY <2>3, <2>7, <4>1, <4>2
      <4>3. CASE k # n
        <5>1. k \in 1 .. n - 1 /\ k + 1 \in 1 .. n BY <2>2, <4>3
        <5>2. u[k + 1] = t[k + 1] BY <2>6, <5>1
        <5>3. /\ Ver!HasName(EntryIn(image, t[k])) /\ EntryIn(image, t[k]).DataIsDirectory
              /\ EntryIn(image, t[k]).Offset = t[k + 1].dir
          BY <2>2, <5>1, Zenon DEF Nested
        <5> QED BY <4>1, <5>2, <5>3, Zenon
      <4> QED BY <4>2, <4>3
    <3>5. IsRootOfVersions(EntryIn(image, u[1])) BY <2>3, <3>1
    <3> DEFINE m == n + 1
    <3>6. m - 1 = n /\ m > 0 BY <2>2
    <3>7. \A k \in 1 .. m : u[k].i \in Nat \ {0} /\ u[k] = [dir |-> u[k].dir, i |-> u[k].i]
      BY <3>2
    <3>8. \A k \in 1 .. m : u[k].i <= Len(Listing(image, u[k].dir)) + IF k = m THEN 1 ELSE 0
      BY <3>3
    <3> HIDE DEF m
    <3>9. \A k \in 1 .. m - 1 : /\ Ver!HasName(EntryIn(image, u[k])) /\ EntryIn(image, u[k]).DataIsDirectory
                                /\ EntryIn(image, u[k]).Offset = u[k + 1].dir
      BY <3>4, <3>6
    <3>10. m > 0 => u[1].dir = Ver!Root BY <3>1
    <3>11. m > 1 => IsRootOfVersions(EntryIn(image, u[1])) BY <3>5
    <3>12. Nested(image, u, m) BY <3>7, <3>8, <3>9, <3>10, <3>11, Zenon DEF Nested
    <3> QED BY <3>12 DEF m
  <2>10. ASSUME NEW w \in Ver!VersionWays PROVE Behind(w, u, n + 1) <=> Behind(w, t, n)
    <3>1. IsWay(image, w) BY <2>1, VersionWayIsWay
    <3> QED BY <2>2, <2>6, <2>7, <3>1, BehindEnters
  <2>11. Ver!VersionWays' = Ver!VersionWays BY <1>1, SameWays
  <2>12. step' = "walk" BY <1>1, <1>3 DEF n
  <2>13. Passed' = {w \in Ver!VersionWays : Behind(w, u, n + 1)}
    BY <2>6, <2>11, <2>12 DEF Passed, Trail, u
  <2>14. Passed' = Passed BY <2>5, <2>10, <2>13
  <2>15. loaded' # << >> BY <2>2, <2>6, EmptySeq
  <2>16. n + 1 <= MaxDepth BY <1>3, <2>2, MaxDepthAssumption DEF n
  <2>17. VerTyped' BY <1>1, <2>1, <2>6, <2>9, <2>12, <2>15, <2>16 DEF VerTyped, Trail, u
  <2> QED BY <1>1, <2>1, <2>14, <2>17 DEF VerInv
<1> QED BY <1>2, <1>3

-----------------------------------------------------------------------------
(* The end of a directory: what lies in it is behind, as its entry is. *)
LEMMA VerReturns == ASSUME VerInv, Ver!Return PROVE VerInv'
<1> DEFINE n == Len(loaded)
           t == Trail
           u == TrailOf(loaded')
           l == Len(Listing(image, t[n].dir))
<1>1. /\ VerTyped /\ step = "walk" /\ UNCHANGED <<image, built>> /\ loaded' = Tail(loaded)
      /\ step' = IF loaded' = << >> THEN "end" ELSE step
      /\ Ver!Top.i > Len(Ver!Dir(Ver!Top.dir))
  BY DEF VerInv, Ver!Return
<1>2. /\ n \in Nat \ {0} /\ n <= MaxDepth /\ loaded # << >> /\ Nested(image, t, n)
      /\ t[n].i \in Nat \ {0} /\ l \in Nat /\ t[n].i > l
  BY <1>1, VerStands
<1>3. image \in VersionImages /\ LastIn(image, Passed, built) /\ loaded \in Seq(StackFrames)
  BY <1>1 DEF VerInv, VerTyped
<1>4. /\ loaded' \in Seq(StackFrames) /\ Len(loaded') = n - 1
      /\ \A k \in 1 .. n - 2 : u[k] = t[k]
      /\ n > 1 => u[n - 1] = [dir |-> t[n - 1].dir, i |-> t[n - 1].i + 1]
  BY <1>1, <1>2, <1>3, TrailReturns DEF Trail
<1>5. Ver!VersionWays' = Ver!VersionWays BY <1>1, SameWays
<1>6. Passed = {w \in Ver!VersionWays : Behind(w, t, n)} BY <1>1 DEF Passed
<1>7. n - 1 <= MaxDepth /\ n - 1 \in Nat BY <1>2, MaxDepthAssumption
<1>8. CASE n = 1
  <2>1. loaded' = << >> BY <1>4, <1>8, EmptySeq
  <2>2. step' = "end" BY <1>1, <2>1
  <2>3. Nested(image, u, n - 1)
    <3>1. \A k \in 1 .. n - 1 : FALSE BY <1>8
    <3>2. \A k \in 1 .. (n - 1) - 1 : FALSE BY <1>8
    <3>3. ~(n - 1 > 0) /\ ~(n - 1 > 1) BY <1>8
    <3> DEFINE m == n - 1
    <3>4. /\ (\A k \in 1 .. m : FALSE) /\ (\A k \in 1 .. m - 1 : FALSE) /\ ~(m > 0) /\ ~(m > 1)
      BY <3>1, <3>2, <3>3
    <3> HIDE DEF m, u
    <3>5. Nested(image, u, m) BY <3>4, Zenon DEF Nested
    <3> QED BY <3>5 DEF m
  <2>4. \A w \in Ver!VersionWays : Behind(w, t, n)
    <3> SUFFICES ASSUME NEW w \in Ver!VersionWays PROVE Behind(w, t, 1) BY <1>8
    <3>1. IsWay(image, w) BY <1>3, VersionWayIsWay
    <3>2. t[1].dir = Ver!Root BY <1>2, <1>8 DEF Nested
    <3>3. t[1].i > Len(Listing(image, t[1].dir)) /\ t[1].i \in Int /\ Len(Listing(image, t[1].dir)) \in Nat
      BY <1>2, <1>8
    <3> HIDE DEF t
    <3> QED BY <3>1, <3>2, <3>3, BehindAll
  <2>5. Passed' = Passed BY <1>5, <1>6, <2>2, <2>4 DEF Passed
  <2>6. VerTyped' BY <1>1, <1>3, <1>4, <1>7, <2>1, <2>2, <2>3 DEF VerTyped, Trail
  <2> QED BY <1>1, <1>3, <2>5, <2>6 DEF VerInv
<1>9. CASE n # 1
  <2> HIDE DEF n, t, u, l
  <2> DEFINE m == n - 1
  <2>1. n > 1 /\ n > 0 /\ n \in Nat /\ m \in Nat \ {0} /\ m \in 1 .. n - 1 /\ m - 1 = n - 2 /\ m + 1 = n BY <1>2, <1>9
  <2> HIDE DEF m
  <2>2. loaded' # << >> /\ step' = "walk"
    <3>1. loaded' # << >> BY <1>4, <2>1, EmptySeq
    <3> QED BY <1>1, <3>1
  <2>3. /\ u[m] = [dir |-> t[m].dir, i |-> t[m].i + 1] /\ \A k \in 1 .. m - 1 : u[k] = t[k]
    BY <1>4, <2>1 DEF m
  <2>4. u[m].dir = t[m].dir /\ u[m].i = t[m].i + 1 BY <2>3
  <2>5. /\ t[m].i \in Nat \ {0} /\ t[m].i <= Len(Listing(image, t[m].dir))
        /\ Len(Listing(image, t[m].dir)) \in Nat
    <3>1. t[m].i \in Nat \ {0} /\ t[m].i <= Len(Listing(image, t[m].dir)) + IF m = n THEN 1 ELSE 0
      <4>1. m \in 1 .. n BY <2>1
      <4> QED BY <1>2, <4>1, NestedFacts
    <3>2. Len(Listing(image, t[m].dir)) \in Nat BY <1>3, VersionImage
    <3>3. m # n BY <2>1
    <3> QED BY <3>1, <3>2, <3>3
  <2>6. \A k \in 1 .. m : k \in 1 .. m - 1 \/ k = m BY <2>1
  <2>7. \A k \in 1 .. m - 1 : k \in 1 .. n - 1 /\ k \in 1 .. n /\ k # n BY <2>1
  <2>8. Nested(image, u, m)
    <3>1. ASSUME NEW k \in 1 .. m
          PROVE  u[k].i \in Nat \ {0} /\ u[k] = [dir |-> u[k].dir, i |-> u[k].i]
      <4>1. CASE k \in 1 .. m - 1
        <5>1. u[k] = t[k] BY <2>3, <4>1
        <5>2. t[k].i \in Nat \ {0} /\ t[k] = [dir |-> t[k].dir, i |-> t[k].i]
          BY <1>2, <2>7, <4>1, Zenon DEF Nested
        <5> QED BY <5>1, <5>2, Zenon
      <4>2. CASE k = m
        <5>1. u[m] = [dir |-> u[m].dir, i |-> u[m].i] /\ u[m].i \in Nat \ {0} BY <2>3, <2>4, <2>5
        <5> QED BY <4>2, <5>1
      <4> QED BY <2>6, <4>1, <4>2
    <3>2. ASSUME NEW k \in 1 .. m
          PROVE  u[k].i <= Len(Listing(image, u[k].dir)) + IF k = m THEN 1 ELSE 0
      <4>0. Len(Listing(image, u[k].dir)) \in Nat BY <1>3, VersionImage
      <4>1. CASE k \in 1 .. m - 1
        <5>1. u[k] = t[k] /\ k # m /\ k \in 1 .. n /\ k # n BY <2>1, <2>3, <2>7, <4>1
        <5>2. t[k].i <= Len(Listing(image, t[k].dir)) + IF k = n THEN 1 ELSE 0
          BY <1>2, <5>1, NestedFacts
        <5> QED BY <5>1, <5>2
      <4>2. CASE k = m
        <5>1. u[m].i <= Len(Listing(image, u[m].dir)) + 1
          <6> DEFINE x == Len(Listing(image, t[m].dir))
          <6>1. x \in Nat /\ t[m].i <= x /\ t[m].i \in Nat /\ u[m].i = t[m].i + 1 BY <2>4, <2>5
          <6> HIDE DEF x
          <6>2. u[m].i <= x + 1 BY <6>1
          <6> QED BY <2>4, <6>2 DEF x
        <5> QED BY <4>2, <5>1
      <4> QED BY <2>6, <4>1, <4>2
    <3>3. ASSUME NEW k \in 1 .. m - 1
          PROVE  /\ Ver!HasName(EntryIn(image, u[k])) /\ EntryIn(image, u[k]).DataIsDirectory
                 /\ EntryIn(image, u[k]).Offset = u[k + 1].dir
      <4>1. u[k] = t[k] BY <2>3
      <4>2. u[k + 1].dir = t[k + 1].dir
        <5>1. k + 1 \in 1 .. m BY <2>1
        <5> QED BY <2>3, <2>4, <2>6, <5>1
      <4>3. /\ Ver!HasName(EntryIn(image, t[k])) /\ EntryIn(image, t[k]).DataIsDirectory
            /\ EntryIn(image, t[k]).Offset = t[k + 1].dir
        BY <1>2, <2>7, Zenon DEF Nested
      <4> QED BY <4>1, <4>2, <4>3, Zenon
    <3>4. u[1].dir = Ver!Root /\ (m > 1 => IsRootOfVersions(EntryIn(image, u[1])))
      <4>1. t[1].dir = Ver!Root /\ (n > 1 => IsRootOfVersions(EntryIn(image, t[1])))
        BY <1>2, <2>1, Zenon DEF Nested
      <4>2. 1 \in 1 .. m BY <2>1
      <4>3. u[1].dir = t[1].dir BY <2>3, <2>4, <2>6, <4>2
      <4>4. m > 1 => u[1] = t[1]
        <5>1. m > 1 => 1 \in 1 .. m - 1 BY <2>1
        <5> QED BY <2>3, <5>1
      <4> QED BY <2>1, <4>1, <4>3, <4>4
    <3>5. m > 0 => u[1].dir = Ver!Root BY <3>4
    <3> QED BY <3>1, <3>2, <3>3, <3>4, <3>5, Zenon DEF Nested
  <2>9. ASSUME NEW w \in Ver!VersionWays PROVE Behind(w, u, m) <=> Behind(w, t, n)
    <3>1. IsWay(image, w) BY <1>3, VersionWayIsWay
    <3>2. t[n].i > Len(Listing(image, t[n].dir)) /\ Len(Listing(image, t[n].dir)) \in Nat
      BY <1>2 DEF l
    <3>3. (\A k \in 1 .. n - 2 : u[k] = t[k]) /\ u[n - 1].i = t[n - 1].i + 1
      BY <1>4, <2>1, <2>4 DEF m
    <3>4. Behind(w, u, n - 1) <=> Behind(w, t, n)
      BY <1>2, <2>1, <3>1, <3>2, <3>3, BehindReturns
    <3> QED BY <3>4 DEF m
  <2>10. Len(loaded') = m BY <1>4 DEF m
  <2>11. Passed' = {w \in Ver!VersionWays : Behind(w, u, m)}
    BY <1>5, <2>2, <2>10 DEF Passed, Trail, u
  <2>12. Passed' = Passed BY <1>6, <2>9, <2>11
  <2>13. VerTyped' BY <1>1, <1>3, <1>4, <1>7, <2>2, <2>8, <2>10 DEF VerTyped, Trail, u, m
  <2> QED BY <1>1, <1>3, <2>12, <2>13 DEF VerInv
<1> QED BY <1>8, <1>9

-----------------------------------------------------------------------------
(* The steps that lead to a state of !ver. *)
LEMMA VerSteps ==
  ASSUME [Next]_vars, Walks({"ver"})'
  PROVE  \/ image' \in VersionImages /\ Locals("walk", 0, 0, <<Ver!Frame(Ver!Root)>>)
         \/ Walks({"ver"}) /\ Ver!Next
         \/ Walks({"ver"}) /\ UNCHANGED <<image, step, loaded, built>>
<1>1. phase' = "walk" /\ command' = "ver" BY DEF Walks
<1>2. CASE ArgsGiven BY <1>1, <1>2 DEF ArgsGiven
<1>3. CASE LoadImage BY <1>1, <1>3 DEF LoadImage
<1>4. CASE ImageLoaded BY <1>1, <1>4 DEF ImageLoaded
<1>5. CASE Dump BY <1>1, <1>5 DEF Dump
<1>6. CASE Step BY <1>1, <1>6 DEF Step, Loading, Parsing, Walks
<1>7. CASE UNCHANGED vars BY <1>7 DEF vars, Walks
<1> QED BY <1>2, <1>3, <1>4, <1>5, <1>6, <1>7 DEF Next

(* Steps that change nothing. *)
LEMMA VerRests == ASSUME VerInv, UNCHANGED <<image, step, loaded, built>> PROVE VerInv'
<1>1. Ver!VersionWays' = Ver!VersionWays BY SameWays
<1>2. Trail' = Trail BY DEF Trail, TrailOf
<1>3. Passed' = Passed BY <1>1, <1>2 DEF Passed
<1> QED BY <1>2, <1>3 DEF VerInv, VerTyped

LEMMA VerStep ==
  ASSUME Walks({"ver"}) => VerInv, [Next]_vars PROVE (Walks({"ver"}) => VerInv)'
<1> SUFFICES ASSUME Walks({"ver"})' PROVE VerInv' OBVIOUS
<1>1. CASE image' \in VersionImages /\ Locals("walk", 0, 0, <<Ver!Frame(Ver!Root)>>)
  BY <1>1, VerEnters
<1>2. CASE Walks({"ver"}) /\ Ver!Next
  <2>1. CASE Ver!PassOver BY <1>2, <2>1, VerPassesOver
  <2>2. CASE Ver!IterateDirectory BY <1>2, <2>2, VerIterates
  <2>3. CASE Ver!CallBack BY <1>2, <2>3, VerCallsBack
  <2>4. CASE Ver!Return BY <1>2, <2>4, VerReturns
  <2> QED BY <1>2, <2>1, <2>2, <2>3, <2>4 DEF Ver!Next
<1>3. CASE Walks({"ver"}) /\ UNCHANGED <<image, step, loaded, built>> BY <1>3, VerRests
<1> QED BY <1>1, <1>2, <1>3, VerSteps

LEMMA VerInvHolds == Spec => [](Walks({"ver"}) => VerInv)
<1>1. Init => (Walks({"ver"}) => VerInv) BY DEF Init, Walks
<1> QED BY <1>1, VerStep, PTL DEF Spec

(* The version !ver shows is that of the last entry, in the order of the   *)
(* directories, that is valid and below RT_VERSION, and 0 if there is      *)
(* none: for resources of any shape, shared directories and cycles beside  *)
(* the way included, whenever the walk ends within the stack.              *)
THEOREM VersionIsTheLast == Spec => []VersionOfTheImage
<1>1. (Walks({"ver"}) => VerInv) => VersionOfTheImage
  <2> SUFFICES ASSUME VerInv, step = "end" PROVE Ver!IsTheLast(Ver!VersionWays)
    BY DEF VersionOfTheImage, Ver!VersionOfTheImage
  <2>1. LastIn(image, Ver!VersionWays, built) /\ image \in VersionImages
    BY DEF VerInv, VerTyped, Passed
  <2>2. \A w : Ver!DataOf(w) = DataIn(image, w) BY <2>1, VersionImage
  <2> QED BY <2>1, <2>2 DEF LastIn, Ver!IsTheLast
<1> QED BY <1>1, VerInvHolds, PTL

-----------------------------------------------------------------------------
(* The stack is that of its trail. *)
LEMMA VerTypes == ASSUME VerInv PROVE Ver!TypeOK
<1> DEFINE n == Len(loaded)
           t == Trail
<1>1. /\ image \in VersionImages /\ loaded \in Seq(StackFrames) /\ n <= MaxDepth
      /\ step \in {"walk", "end", "overflow"} /\ Nested(image, t, n)
  BY DEF VerInv, VerTyped
<1>2. n \in Nat BY <1>1, LenProperties
<1>3. ASSUME NEW k \in 1 .. n
      PROVE  /\ n + 1 - k \in 1 .. n /\ loaded[k] \in StackFrames
             /\ t[n + 1 - k].dir = loaded[k].dir
             /\ t[n + 1 - k].i = IF n + 1 - k < n THEN loaded[k].i - 1 ELSE loaded[1].i
             /\ n + 1 - k < n <=> k # 1
  <2> DEFINE j == n + 1 - k
  <2>1. j \in 1 .. n /\ n + 1 - j = k /\ (j < n <=> k # 1) BY <1>2
  <2>2. loaded[k] \in StackFrames BY <1>1, ElementOfSeq
  <2>3. /\ TrailOf(loaded)[j].dir = loaded[n + 1 - j].dir
        /\ TrailOf(loaded)[j].i = IF j < n THEN loaded[n + 1 - j].i - 1 ELSE loaded[1].i
    <3> HIDE DEF j
    <3> QED BY <1>1, <2>1, TrailStep
  <2> QED BY <2>1, <2>2, <2>3 DEF Trail
<1>4. \A d : Len(Listing(image, d)) \in Nat /\ Ver!Dir(d) = Listing(image, d) BY <1>1, VersionImage
<1>5. ASSUME NEW k \in 1 .. n PROVE loaded[k].i \in 1 .. Len(Ver!Dir(loaded[k].dir)) + 1
  <2> DEFINE j == n + 1 - k
             l == Len(Listing(image, loaded[k].dir))
  <2>1. t[j].i \in Nat \ {0} /\ t[j].i <= l + IF j = n THEN 1 ELSE 0
    <3>1. j \in 1 .. n /\ t[j].dir = loaded[k].dir BY <1>3
    <3> HIDE DEF j, t
    <3> QED BY <1>1, <3>1, NestedFacts
  <2>2. l \in Nat /\ Len(Ver!Dir(loaded[k].dir)) = l BY <1>4
  <2>3. loaded[k].i \in Nat BY <1>3 DEF StackFrames
  <2>4. t[j].i = IF k # 1 THEN loaded[k].i - 1 ELSE loaded[k].i
    BY <1>3
  <2>5. j = n <=> k = 1 BY <1>2
  <2> HIDE DEF j, l, t, n
  <2>6. loaded[k].i \in 1 .. l + 1
    <3>1. CASE k = 1 BY <2>1, <2>2, <2>3, <2>4, <2>5, <3>1
    <3>2. CASE k # 1 BY <2>1, <2>2, <2>3, <2>4, <2>5, <3>2
    <3> QED BY <3>1, <3>2
  <2> QED BY <2>2, <2>6
<1>6. ASSUME NEW k \in 1 .. n - 1
      PROVE  /\ loaded[k + 1].i > 1
             /\ Ver!Dir(loaded[k + 1].dir)[loaded[k + 1].i - 1].DataIsDirectory
             /\ Ver!Dir(loaded[k + 1].dir)[loaded[k + 1].i - 1].Offset = loaded[k].dir
  <2> DEFINE m == k + 1
             j == n + 1 - m
  <2>1. /\ m \in 1 .. n /\ k \in 1 .. n /\ m # 1 /\ j \in 1 .. n - 1 /\ j \in 1 .. n
        /\ j + 1 = n + 1 - k
    BY <1>2
  <2>2. t[j].dir = loaded[m].dir /\ t[j].i = loaded[m].i - 1 /\ t[j + 1].dir = loaded[k].dir
    BY <1>3, <2>1
  <2>3. loaded[m].i \in Nat BY <1>3, <2>1 DEF StackFrames
  <2> HIDE DEF m, j, t
  <2>4. t[j].i \in Nat \ {0} BY <1>1, <2>1, NestedFacts
  <2>5. EntryIn(image, t[j]).DataIsDirectory /\ EntryIn(image, t[j]).Offset = t[j + 1].dir
    BY <1>1, <2>1, Zenon DEF Nested
  <2>6. EntryIn(image, t[j]) = Ver!Dir(loaded[m].dir)[loaded[m].i - 1]
    BY <1>4, <2>2 DEF EntryIn
  <2>7. loaded[m].i > 1 BY <2>2, <2>3, <2>4
  <2> QED BY <2>2, <2>5, <2>6, <2>7 DEF m
<1> QED BY <1>1, <1>5, <1>6 DEF Ver!TypeOK

(* Every part of a command is in a state of its own kind, whichever of the *)
(* seven commands it is and whatever can be read: of the numbers of lines, *)
(* of the places the loops stand at and of the stack of directories.       *)
THEOREM PartsAreTyped == Spec => []TypeOK
<1>1. (Parsing => ArgsInv) => (Parsing => Args!TypeOK)
  BY DEF ArgsInv, Args!TypeOK, Args!Space
<1>2. (Loading => SecInv) => (Loading => Sec!TypeOK)
  BY DEF SecInv, SecTyped, Object, Sec!TypeOK
<1>3. ImpArg /\ (Walks({"imp", "delay"}) => ImpInv) => (Walks({"imp", "delay"}) => Imp!TypeOK)
  <2> SUFFICES ASSUME ImpInv PROVE Imp!TypeOK OBVIOUS
  <2>1. /\ arg.name \in {"imp", "delay"} /\ step \in {"bound", "entries", "end", arg.name}
        /\ index \in Nat /\ (step # "bound" => raw = Directory.va + Size * index)
    BY DEF ImpInv, ImpTyped
  <2>2. built \subseteq {Lower[n] : n \in DOMAIN Lower} /\ loaded.i \in Nat
    BY DEF ImpInv, ImpBound, ImpThunks
  <2>3. image \in ImportImages BY DEF ImpInv, ImpTyped
  <2>4. image.imp.va \in Nat /\ image.delay.va \in Nat BY <2>3, ImportImage DEF Region
  <2>5. step \in {"imp", "delay"} => raw = 20 * index + image.imp.va \/ raw = 32 * index + image.delay.va
    <3>1. CASE step = "imp"
      <4>1. arg.name = "imp" BY <2>1, <3>1
      <4> QED BY <2>1, <2>4, <3>1, <4>1 DEF Directory, Size
    <3>2. CASE step = "delay"
      <4>1. arg.name = "delay" BY <2>1, <3>2
      <4> QED BY <2>1, <2>4, <3>2, <4>1 DEF Directory, Size
    <3> QED BY <3>1, <3>2
  <2> QED BY <2>1, <2>2, <2>5 DEF Imp!TypeOK
<1>4. (Walks({"ext"}) => ExtInv) => (Walks({"ext"}) => Ext!TypeOK)
  <2> SUFFICES ASSUME ExtInv PROVE Ext!TypeOK OBVIOUS
  <2>1. ExtTyped /\ RowsAreMade BY DEF ExtInv
  <2>2. DOMAIN built = 0 .. image.NumberOfFunctions - 1 BY <2>1 DEF ExtTyped, NoF
  <2>3. ASSUME NEW k \in 1 .. Len(rows) PROVE rows[k].ordinal \in DOMAIN built
    <3>1. rows[k].ordinal \in 0 .. RowsMade - 1 BY <2>1 DEF RowsAreMade, IsRowOf
    <3>2. RowsMade \in 0 .. NoF
      <4>1. NoF \in Nat BY <2>1, ExportImagesAssumption DEF ExtTyped, NoF
      <4>2. index \in Nat /\ (step = "rows" => index = 0 \/ index < NoF) BY <2>1 DEF ExtTyped
      <4> QED BY <4>1, <4>2 DEF RowsMade
    <3>3. NoF \in Nat BY <2>1, ExportImagesAssumption DEF ExtTyped, NoF
    <3>4. \A r, x, m : x \in Nat /\ r \in 0 .. x /\ m \in 0 .. r - 1 => m \in 0 .. x - 1 OBVIOUS
    <3>5. rows[k].ordinal \in 0 .. NoF - 1 BY <3>1, <3>2, <3>3, <3>4
    <3> QED BY <2>2, <3>5 DEF NoF
  <2> QED BY <2>1, <2>2, <2>3 DEF ExtTyped, Ext!TypeOK, NoF
<1>5. (Walks({"ex"}) => ExInv) => (Walks({"ex"}) => Ex!TypeOK)
  <2> SUFFICES ASSUME ExInv PROVE Ex!TypeOK OBVIOUS
  <2>1. ExTyped /\ ExRows BY DEF ExInv
  <2>2. step \in {"info", "codes"} => built.at = raw BY <2>1 DEF ExTyped, Begun
  <2>3. \A n \in 1 .. Len(rows) : CodesOf(image, rows[n]) BY <2>1 DEF ExRows, Printed
  <2>4. \A a : InfoIn(image, a) = Ex!Info(a) BY DEF InfoIn, Ex!Info, Ex!At
  <2>5. \A n \in 1 .. Len(rows) :
          Len(rows[n].ops) = IF rows[n].supported THEN Ex!Info(rows[n].info).CountOfCodes ELSE 0
    BY <2>3, <2>4 DEF CodesOf
  <2> QED BY <2>1, <2>2, <2>5 DEF ExTyped, Ex!TypeOK
<1>6. (Walks({"cfg"}) => CfgInv) => (Walks({"cfg"}) => Cfg!TypeOK)
  <2> SUFFICES ASSUME CfgInv PROVE Cfg!TypeOK OBVIOUS
  <2>1. CfgTyped BY DEF CfgInv
  <2> QED BY <2>1 DEF CfgTyped, Cfg!TypeOK, Copies, Table
<1>7. (Walks({"ver"}) => VerInv) => (Walks({"ver"}) => Ver!TypeOK) BY VerTypes
<1>8. TypeOK <=> /\ Parsing => Args!TypeOK
                 /\ Loading => Sec!TypeOK
                 /\ Walks({"imp", "delay"}) => Imp!TypeOK
                 /\ Walks({"ext"}) => Ext!TypeOK
                 /\ Walks({"ex"})  => Ex!TypeOK
                 /\ Walks({"ver"}) => Ver!TypeOK
                 /\ Walks({"cfg"}) => Cfg!TypeOK
  BY Zenon DEF TypeOK
<1> QED BY <1>1, <1>2, <1>3, <1>4, <1>5, <1>6, <1>7, <1>8, ArgsInvHolds, SecInvHolds,
           ImpInvHolds, ExtInvHolds, ExInvHolds, VerInvHolds, CfgInvHolds, PTL
=============================================================================
