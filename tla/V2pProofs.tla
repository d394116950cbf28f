----------------------------- MODULE V2pProofs -----------------------------
(***************************************************************************)
(* Proofs about V2p, for every machine, every request and every content of *)
(* memory.                                                                 *)
(***************************************************************************)
EXTENDS V2p, PagingProofs

(* The arguments stay what a user can enter. *)
Entered == /\ request.dirbase \in DirBases \cup {NoDirBase}
           /\ request.command \in {"v2p", "pfn2"} /\ request.flag32 \in BOOLEAN
           /\ request \in Request

LEMMA EnteredInit == V2pInit => Entered
BY RequestsAssumption, NamedBasesAssumption DEF V2pInit, Entered, Request

LEMMA EnteredStep ==
  ASSUME Entered, [V2pNext]_allvars
  PROVE  Entered'
<1>1. CASE Begin
  <2>1. CASE request' = request BY <2>1 DEF Entered
  <2>2. CASE request' = [request EXCEPT !.arg = @ \cap (0 .. 31)]
    <3>1. /\ request' \in Request /\ request'.dirbase = request.dirbase
          /\ request'.command = request.command /\ request'.flag32 = request.flag32
      BY <2>2 DEF Entered, Request, Word
    <3> QED BY <3>1 DEF Entered
  <2> QED BY <1>1, <2>1, <2>2 DEF Begin
<1>2. CASE UNCHANGED allvars BY <1>2 DEF allvars, cmdvars, Entered
<1>3. CASE V2pNext /\ ~Begin
  <2>1. request' = request
    BY <1>3 DEF V2pNext, Refuse, MakePaging, CallTranslate, Walk, PrintResult, PrintAddress,
                OpenDatabase, DumpVirtual, TranslateRecord, DumpPhysical, cmdvars
  <2> QED BY <2>1 DEF Entered
<1> QED BY <1>1, <1>2, <1>3

(* A step of a command builds the object, calls Translate, goes on with a  *)
(* walk, or leaves the object alone.                                       *)
LEMMA StepOfPaging ==
  ASSUME Entered, [V2pNext]_allvars
  PROVE  [Next]_vars
<1>1. CASE MakePaging
  <2>1. CASE paged
    <3>1. request.dirbase \in DirBases BY <2>1 DEF Entered, paged
    <3>2. PICK m32 \in BOOLEAN : m32 = (request.command = "v2p" /\ request.flag32)
      BY DEF Entered
    <3>3. FromDirBase(request.dirbase, m32) BY <1>1, <2>1, <3>2 DEF MakePaging
    <3> QED BY <3>1, <3>3 DEF Next, Construct
  <2>2. CASE ~paged BY <1>1, <2>2 DEF MakePaging, Next, Construct
  <2> QED BY <2>1, <2>2
<1>2. CASE CallTranslate BY <1>2 DEF CallTranslate, Next
<1>3. CASE TranslateRecord BY <1>3 DEF TranslateRecord, Next
<1>4. CASE Walk BY <1>4 DEF Walk, Next
<1>5. CASE UNCHANGED allvars BY <1>5 DEF allvars
<1>6. CASE Refuse \/ Begin \/ PrintResult \/ PrintAddress \/ OpenDatabase
           \/ DumpVirtual \/ DumpPhysical
  BY <1>6 DEF Refuse, Begin, PrintResult, PrintAddress, OpenDatabase, DumpVirtual, DumpPhysical
<1> QED BY <1>1, <1>2, <1>3, <1>4, <1>5, <1>6 DEF V2pNext

(* Whatever a command does, it uses its Paging object as Paging allows     *)
(* (!v2p, !pfn2 and DumpRecord).                                           *)
THEOREM CommandUsesPaging == V2pSpec => UsesPaging
<1>1. V2pInit => Init /\ Entered BY EnteredInit DEF V2pInit
<1>2. Entered /\ [V2pNext]_allvars => Entered' /\ [Next]_vars BY EnteredStep, StepOfPaging
<1> QED BY <1>1, <1>2, PTL DEF V2pSpec, UsesPaging, Spec

(* Every translation a command makes, the one of the user's address and    *)
(* the one of the PFN record, is the processor's.                          *)
THEOREM CommandTranslates == V2pSpec => []TranslationCorrect
<1>1. Spec => []TranslationCorrect BY TranslationIsCorrect
<1>2. V2pSpec => Spec BY CommandUsesPaging DEF UsesPaging
<1> QED BY <1>1, <1>2, PTL

(***************************************************************************)
(* What a Translate leaves for the lines that are printed after it.        *)
(***************************************************************************)
PagingInv == Inv /\ AllPresent /\ ResultIsOfLastWalk

(* A first Translate that has returned succeeded with a result, ran with   *)
(* paging off, or failed at an entry that is not present or a failed read. *)
Outcome ==
  /\ pc \in {"walk", "returned"}
  /\ pc = "walk" => mode \in Walking /\ result = NoResult
  /\ pc = "returned" =>
       \/ ret /\ phys \in Word /\ mode = "None" /\ result = NoResult
       \/ ret /\ phys \in Word /\ mode \in Walking /\ walk # << >> /\ result.kind # "none"
       \/ ~ret /\ result = NoResult
       \/ ~ret /\ mode \in Walking /\ walk # << >> /\ ~Present(walk[Len(walk)])
  /\ pc = "returned" /\ mode \in Walking =>
       /\ Len(walk) <= Depth(mode)
       /\ \A d \in 1 .. Len(walk) - 1 : Present(walk[d])

LEMMA OutcomeOfWalk ==
  ASSUME PagingInv, Outcome, WalkStep
  PROVE  Outcome'
<1>0. TypeOK /\ WalkInv /\ AllPresent BY DEF PagingInv, Inv
<1>1. PICK w \in Contents : ReadsTo(w) BY <1>0, ReadOutcome
<1>2. pc = "walk" /\ mode' = mode /\ mode \in Walking /\ result = NoResult
  BY <1>0, ReadOutcome DEF Outcome
<1>3. walk \in Seq(Word) /\ Len(walk) \in Nat /\ Len(walk) < Depth(mode)
      /\ Depth(mode) \in 2 .. 4 /\ \A d \in 1 .. Len(walk) : Present(walk[d])
  BY <1>0, <1>2, DepthBound DEF TypeOK, WalkInv, AllPresent
<1>4. ASSUME w # Unreadable
      PROVE  LET en == Append(walk, w)
             IN  /\ en # << >> /\ en[Len(en)] = w /\ Len(en) <= Depth(mode)
                 /\ \A d \in 1 .. Len(en) - 1 : Present(en[d])
  <2>1. w \in Word BY <1>4, ContentsAssumption
  <2> QED BY <1>3, <2>1, AppendProperties, EmptySeq
<1>5. CASE Failed(w)
  <2>1. pc' = "returned" /\ ret' = FALSE /\ walk' = walk /\ result' = NoResult
    BY <1>2, <1>5 DEF Failed, Return
  <2> QED BY <1>2, <1>3, <2>1 DEF Outcome
<1>6. ASSUME NEW k \in PageKinds, Absent(w, k) PROVE Outcome'
  <2>1. /\ pc' = "returned" /\ ret' = FALSE /\ walk' = Append(walk, w)
        /\ w # Unreadable /\ ~Present(w)
    BY <1>6 DEF Absent, Return
  <2> QED BY <1>2, <1>4, <2>1 DEF Outcome
<1>7. ASSUME NEW k \in PageKinds, NEW pa \in Word, Maps(w, k, pa) PROVE Outcome'
  <2>1. /\ pc' = "returned" /\ ret' = TRUE /\ phys' = pa /\ walk' = Append(walk, w)
        /\ w # Unreadable /\ result'.kind # "none"
    BY <1>7 DEF Maps, Return, PageKinds
  <2> QED BY <1>2, <1>4, <2>1 DEF Outcome
<1>8. CASE PointsToTable(w) BY <1>2, <1>8 DEF PointsToTable, Outcome
<1> QED BY <1>1, <1>5, <1>6, <1>7, <1>8 DEF ReadsTo

LEMMA OutcomeOfCall ==
  ASSUME result = NoResult, NEW v \in Word, Translate(v)
  PROVE  Outcome' /\ virt' = v
<1>1. mode' = mode /\ result' = result /\ virt' = v BY DEF Translate
<1>2. CASE mode = "Invalid" BY <1>1, <1>2 DEF Translate, Outcome, Walking, FourLevel
<1>3. CASE mode = "None" BY <1>1, <1>3 DEF Translate, Outcome, Walking, FourLevel
<1>4. CASE mode \in Walking BY <1>1, <1>4 DEF Translate, Outcome, Walking, FourLevel
<1> QED BY <1>1, <1>2, <1>3, <1>4 DEF Translate

(* Print stops at the entry the walk stopped at. *)
LEMMA SmallRowsAreWalk ==
  ASSUME TypeOK, mode \in Walking, result.entries = walk, walk # << >>,
         Len(walk) <= Depth(mode),
         \A d \in 1 .. Len(walk) - 1 : Present(walk[d]),
         Len(walk) = Depth(mode) \/ ~Present(walk[Len(walk)])
  PROVE  SmallRows(result) = walk
<1> DEFINE n == Len(walk)
           f == Filled(result)
           Last(d) == /\ d = Depth(mode) \/ ~Present(f[d])
                      /\ \A c \in 1 .. d - 1 : Present(f[c])
<1>1. walk \in Seq(Word) /\ n \in Nat /\ n > 0 BY EmptySeq, LenProperties DEF TypeOK
<1>2. Depth(mode) \in 2 .. 4 BY DepthBound
<1>3. n \in 1 .. Depth(mode) BY <1>1, <1>2
<1>4. \A d \in 1 .. n : f[d] = walk[d]
  BY <1>1, <1>2, <1>3 DEF Filled
<1>5. Last(n) BY <1>1, <1>4
<1>6. ASSUME NEW d \in 1 .. Depth(mode), Last(d) PROVE d = n
  <2>1. CASE d < n
    <3>1. d \in 1 .. n - 1 /\ d # Depth(mode) BY <1>1, <1>2, <2>1
    <3> QED BY <1>4, <1>6, <3>1
  <2>2. CASE d > n
    <3>1. n \in 1 .. d - 1 /\ n # Depth(mode) BY <1>1, <1>2, <2>2
    <3> QED BY <1>1, <1>4, <1>6, <3>1
  <2> QED BY <1>1, <1>2, <2>1, <2>2
<1> HIDE DEF Last
<1>7. (CHOOSE d \in 1 .. Depth(mode) : Last(d)) = n BY <1>3, <1>5, <1>6
<1>8. SmallRows(result) = SubSeq(f, 1, n) BY <1>7 DEF SmallRows, Last
<1>9. SubSeq(f, 1, n) = walk
  <2>1. SubSeq(f, 1, n) = [d \in 1 .. n |-> f[d]]
    BY <1>1, SMT
  <2>2. walk = [d \in 1 .. n |-> walk[d]] BY <1>1
  <2> QED BY <1>4, <2>1, <2>2
<1> QED BY <1>8, <1>9

(* The rows of a result: those of the walk, or none.                       *)
LEMMA RowsOfWalk ==
  ASSUME PagingInv, Outcome, pc = "returned"
  PROVE  /\ mode \in Walking /\ ret => Rows(result) = walk /\ walk # << >>
         /\ mode \notin Walking => Rows(result) = << >>
         /\ ret => phys \in Word /\ (mode = "None" \/ mode \in Walking)
         /\ ~ret => Rows(result) \in {<< >>, walk}
<1>0. TypeOK /\ ResultIsOfLastWalk /\ ret \in BOOLEAN BY DEF PagingInv, Inv, TypeOK
<1>1. CASE result.kind = "none"
  <2>1. Rows(result) = << >> BY <1>1 DEF Rows
  <2>2. ~(ret /\ mode \in Walking)
    <3>1. "None" \notin Walking BY DEF Walking, FourLevel
    <3> QED BY <1>1, <3>1 DEF Outcome
  <2> QED BY <2>1, <2>2 DEF Outcome
<1>2. CASE result.kind # "none"
  <2>1. NoResult.kind = "none" BY DEF NoResult
  <2>2. /\ mode \in Walking /\ walk # << >>
        /\ ret => phys \in Word
        /\ ret \/ ~Present(walk[Len(walk)])
    BY <1>2, <2>1 DEF Outcome
  <2>3. /\ Len(walk) <= Depth(mode)
        /\ \A d \in 1 .. Len(walk) - 1 : Present(walk[d])
    BY <2>2 DEF Outcome
  <2>4. /\ result.entries = walk
        /\ result.kind = IF ret /\ Len(walk) < Depth(mode)
                         THEN LargeKinds(mode)[Len(walk)] ELSE SmallKind(mode)
    BY <1>0, <2>2 DEF ResultIsOfLastWalk
  <2>5. Len(walk) \in Nat /\ Len(walk) # 0 /\ Depth(mode) \in 2 .. 4
    BY <1>0, <2>2, EmptySeq, DepthBound DEF TypeOK
  <2>6. Rows(result) = walk
    <3>1. CASE result.kind # SmallKind(mode)
      BY <1>2, <2>4, <3>1 DEF Rows, LargeRows
    <3>2. CASE result.kind = SmallKind(mode)
      <4>1. ret /\ Len(walk) < Depth(mode) => FALSE
        <5> SUFFICES ASSUME ret, Len(walk) < Depth(mode) PROVE FALSE OBVIOUS
        <5>1. result.kind = LargeKinds(mode)[Len(walk)] BY <2>4
        <5>2. Len(walk) \in 1 .. Depth(mode) - 1 BY <2>5
        <5>3. LargeKinds(mode)[Len(walk)] # SmallKind(mode)
          BY <2>2, <5>2 DEF LargeKinds, SmallKind, Walking, FourLevel, Depth
        <5> QED BY <3>2, <5>1, <5>3
      <4>2. Len(walk) = Depth(mode) \/ ~Present(walk[Len(walk)])
        BY <2>2, <2>3, <2>5, <4>1
      <4>3. SmallRows(result) = walk
        BY <1>0, <2>2, <2>3, <2>4, <4>2, SmallRowsAreWalk
      <4> QED BY <1>2, <3>2, <4>3 DEF Rows
    <3> QED BY <3>1, <3>2
  <2> QED BY <2>2, <2>6
<1> QED BY <1>1, <1>2

(* The results of 32-bit paging are those of that mode. *)
LEMMA KindsOf32Bit ==
  ASSUME PagingInv, Outcome, pc = "returned", result.kind \in {"32Bit", "32BitLarge"}
  PROVE  mode = "B32" /\ walk # << >>
<1>1. NoResult.kind = "none" BY DEF NoResult
<1>2. /\ mode \in Walking /\ walk # << >> /\ (ret \/ ~Present(walk[Len(walk)]))
      /\ Len(walk) <= Depth(mode) /\ walk \in Seq(Word) /\ ResultIsOfLastWalk
  BY <1>1 DEF Outcome, PagingInv, Inv, TypeOK
<1>3. Len(walk) \in Nat /\ Len(walk) # 0 /\ Depth(mode) \in 2 .. 4
  BY <1>2, EmptySeq, DepthBound
<1>4. result.kind = IF ret /\ Len(walk) < Depth(mode)
                    THEN LargeKinds(mode)[Len(walk)] ELSE SmallKind(mode)
  BY <1>2 DEF ResultIsOfLastWalk
<1>5. CASE ret /\ Len(walk) < Depth(mode)
  <2>1. Len(walk) \in 1 .. Depth(mode) - 1 BY <1>3, <1>5
  <2>2. result.kind = LargeKinds(mode)[Len(walk)] BY <1>4, <1>5
  <2> QED BY <1>2, <2>1, <2>2 DEF LargeKinds, Walking, FourLevel, Depth
<1>6. CASE ~(ret /\ Len(walk) < Depth(mode))
  <2>1. result.kind = SmallKind(mode) BY <1>4, <1>6
  <2> QED BY <1>2, <2>1 DEF SmallKind, Walking, FourLevel
<1> QED BY <1>5, <1>6

(* What a walk has read is what memory can return. *)
LEMMA WalkIsRead ==
  ASSUME PagingInv, pc = "returned", mode \in Walking, Aligned, walk # << >>
  PROVE  walk[1] \in Contents
<1>1. TypeOK /\ TranslationCorrect BY DEF PagingInv, Inv
<1>2. Len(walk) \in Nat /\ Len(walk) # 0 BY <1>1, EmptySeq DEF TypeOK
<1>3. 1 \in 1 .. Len(walk) BY <1>2
<1>4. IsWalk(mode, base, virt, mem, walk)
  BY <1>1 DEF TranslationCorrect, Translates, Faults
<1> QED BY <1>1, <1>3, <1>4 DEF IsWalk, TypeOK

(* The rows PrintResult prints are a walk's, the undefined one apart.      *)
LEMMA ReadingOfWalk ==
  ASSUME NEW es \in Seq(Word), es # << >>, es[1] \in Contents,
         NEW rows, rows = es \/ rows = [es EXCEPT ![1] = Undefined]
  PROVE  es \in Readings(rows)
<1>1. DOMAIN rows = DOMAIN es /\ DOMAIN es = 1 .. Len(es) OBVIOUS
<1>2. \A d \in 1 .. Len(es) : es[d] \in Word BY ElementOfSeq
<1>3. es = [d \in DOMAIN rows |-> IF rows[d] = Undefined THEN es[1] ELSE rows[d]]
  <2>1. \A d \in 1 .. Len(es) :
          es[d] = IF rows[d] = Undefined THEN es[1] ELSE rows[d]
    BY <1>1, <1>2, UndefinedAssumption
  <2>2. es = [d \in 1 .. Len(es) |-> es[d]] OBVIOUS
  <2> QED BY <1>1, <2>1, <2>2
<1> QED BY <1>3 DEF Readings

LEMMA RowsOfOutcome ==
  ASSUME PagingInv, Outcome, pc = "returned"
  PROVE  /\ mode \in Walking /\ ret => RowsOf(result) # << >>
         /\ mode \notin Walking => RowsOf(result) = << >>
         /\ ret => phys \in Word /\ (mode = "None" \/ mode \in Walking)
         /\ RowsOf(result) # << >> /\ mode \in Walking /\ Aligned =>
              walk \in Readings(RowsOf(result))
         /\ RowsOf(result) \in Seq(Word \cup {Undefined})
         /\ \A d \in DOMAIN RowsOf(result) :
              RowsOf(result)[d] = Undefined => d = 1 /\ mode = "B32"
<1>1. /\ mode \in Walking /\ ret => Rows(result) = walk /\ walk # << >>
      /\ mode \notin Walking => Rows(result) = << >>
      /\ ret => phys \in Word /\ (mode = "None" \/ mode \in Walking)
      /\ Rows(result) \in {<< >>, walk}
  <2>1. /\ mode \in Walking /\ ret => Rows(result) = walk /\ walk # << >>
        /\ mode \notin Walking => Rows(result) = << >>
        /\ ret => phys \in Word /\ (mode = "None" \/ mode \in Walking)
        /\ ~ret => Rows(result) \in {<< >>, walk}
    BY RowsOfWalk
  <2>2. ret \in BOOLEAN BY DEF PagingInv, Inv, TypeOK
  <2> QED BY <2>1, <2>2
<1>2. walk \in Seq(Word) BY DEF PagingInv, Inv, TypeOK
<1>3. /\ RowsOf(result) = << >> <=> Rows(result) = << >>
      /\ RowsOf(result) \in {Rows(result), [Rows(result) EXCEPT ![1] = Undefined]}
      /\ RowsOf(result) # Rows(result) => mode = "B32"
  <2>1. CASE result.kind \in {"32Bit", "32BitLarge"}
    <3>1. RowsOf(result) = [Rows(result) EXCEPT ![1] = Undefined] BY <2>1 DEF RowsOf
    <3>2. mode = "B32" BY <2>1, KindsOf32Bit
    <3>3. DOMAIN RowsOf(result) = DOMAIN Rows(result) BY <3>1
    <3>4. RowsOf(result) = << >> <=> Rows(result) = << >>
      BY <1>1, <1>2, <3>1, <3>3
    <3> QED BY <3>1, <3>2, <3>4
  <2>2. CASE result.kind \notin {"32Bit", "32BitLarge"}
    BY <2>2 DEF RowsOf
  <2> QED BY <2>1, <2>2
<1>4. RowsOf(result) # << >> => RowsOf(result) \in {walk, [walk EXCEPT ![1] = Undefined]}
                                /\ walk # << >>
  BY <1>1, <1>3
<1>5. RowsOf(result) # << >> /\ mode \in Walking /\ Aligned =>
        walk \in Readings(RowsOf(result))
  BY <1>2, <1>4, WalkIsRead, ReadingOfWalk
<1>6. RowsOf(result) \in Seq(Word \cup {Undefined})
  <2> DEFINE W == Word \cup {Undefined}
  <2>1. << >> \in Seq(W) BY EmptySeq
  <2>2. walk \in Seq(W)
    <3>1. Len(walk) \in Nat /\ walk = [d \in 1 .. Len(walk) |-> walk[d]] BY <1>2
    <3>2. \A d \in 1 .. Len(walk) : walk[d] \in W BY <1>2, ElementOfSeq
    <3> QED BY <3>1, <3>2
  <2>3. [walk EXCEPT ![1] = Undefined] \in Seq(W)
    <3>1. Undefined \in W OBVIOUS
    <3>2. Len(walk) \in Nat /\ DOMAIN walk = 1 .. Len(walk) BY <1>2
    <3>3. \A d \in 1 .. Len(walk) : walk[d] \in W BY <1>2, ElementOfSeq
    <3>4. [walk EXCEPT ![1] = Undefined]
            = [d \in 1 .. Len(walk) |-> IF d = 1 THEN Undefined ELSE walk[d]]
      BY <3>2
    <3> HIDE DEF W
    <3>5. [walk EXCEPT ![1] = Undefined] \in [1 .. Len(walk) -> W] BY <3>1, <3>3, <3>4
    <3> QED BY <3>2, <3>5, SeqDef
  <2> QED BY <1>4, <2>1, <2>2, <2>3
<1>7. \A d \in DOMAIN RowsOf(result) :
        RowsOf(result)[d] = Undefined => d = 1 /\ mode = "B32"
  <2>1. \A d \in DOMAIN walk : walk[d] # Undefined
    BY <1>2, ElementOfSeq, UndefinedAssumption
  <2>2. CASE RowsOf(result) = walk BY <2>1, <2>2
  <2>3. CASE RowsOf(result) = << >> BY <2>3
  <2>4. CASE RowsOf(result) # walk /\ RowsOf(result) # << >>
    <3>1. RowsOf(result) = [walk EXCEPT ![1] = Undefined] BY <1>4, <2>4
    <3>2. mode = "B32" BY <1>1, <1>3, <2>4
    <3> QED BY <2>1, <3>1, <3>2
  <2> QED BY <2>2, <2>3, <2>4
<1> QED BY <1>1, <1>3, <1>4, <1>5, <1>6, <1>7

(* A translation stays the processor's when more of memory is read.        *)
LEMMA StaysTranslated ==
  ASSUME NEW m, NEW b, NEW v, NEW mm, NEW mn, NEW es, NEW pa,
         \A a \in DOMAIN mm : a \in DOMAIN mn /\ mn[a] = mm[a],
         Translates(m, b, v, mm, es, pa)
  PROVE  Translates(m, b, v, mn, es, pa)
BY DEF Translates, IsWalk

(***************************************************************************)
(* The lines of a command.                                                 *)
(***************************************************************************)
Lines == {"entries", "ptes", "phys", "record"}

(* What is printed, by how far the command is. *)
LinesInv ==
  /\ DOMAIN shown = Lines
  /\ step \in {"entered", "construct", "translate", "walk"} =>
       shown.entries = << >> /\ shown.phys = Nothing
  /\ request.command = "pfn2" => shown.entries = << >> /\ shown.phys = Nothing
  /\ step = "address" => shown.phys = Nothing
  /\ step \in {"database", "record", "recordwalk"} =>
       shown.phys # Nothing \/ shown.entries = << >>
  /\ step \notin Ended => shown.record = Nothing
  /\ step \in {"translate", "walk", "address"} => request.command = "v2p"
  /\ step \in {"database", "record"} /\ request.command = "v2p" => shown.phys = phys

RecordNumber == IF request.command = "v2p" THEN extract(shown.phys, 12, 52) ELSE request.arg

(* What the Paging object holds for the lines to come.                     *)
CallInv ==
  /\ step \in {"entered", "construct", "translate"} /\ request.command = "v2p" =>
       result = NoResult
  /\ step = "walk" => virt = request.arg /\ Outcome
  /\ step = "address" =>
       /\ phys \in Word /\ (mode = "None" \/ shown.entries # << >>)
       /\ mode \in Walking /\ Aligned =>
            \E es \in Readings(shown.entries) :
              Translates(mode, base, request.arg, mem, es, phys)
  /\ step = "recordwalk" => paged /\ virt = RecordAddr(pfnBase, RecordNumber)

CmdInv == LinesInv /\ CallInv /\ ShownTranslation /\ RecordOfThePage

LEMMA PagingInvStep ==
  ASSUME PagingInv, Entered, [V2pNext]_allvars
  PROVE  PagingInv'
<1>1. [Next]_vars BY StepOfPaging
<1>2. Inv' BY <1>1, InvInductive DEF PagingInv
<1>3. AllPresent' /\ ResultIsOfLastWalk' BY <1>1, StepKept DEF PagingInv, Inv
<1> QED BY <1>2, <1>3 DEF PagingInv

LEMMA CmdInvInit == V2pInit => PagingInv /\ CmdInv
<1> SUFFICES ASSUME V2pInit PROVE PagingInv /\ CmdInv OBVIOUS
<1>1. Init /\ step = "entered" BY DEF V2pInit
<1>2. PagingInv
  BY <1>1, InitTyped DEF Init, PagingInv, Inv, WalkInv, TranslationCorrect, AllPresent,
                          ResultIsOfLastWalk
<1>3. /\ shown.entries = << >> /\ shown.phys = Nothing /\ shown.record = Nothing
      /\ DOMAIN shown = Lines
  BY DEF V2pInit, Lines
<1>4. result = NoResult BY <1>1 DEF Init
<1> QED BY <1>1, <1>2, <1>3, <1>4
        DEF CmdInv, LinesInv, CallInv, ShownTranslation, RecordOfThePage, Ended

(* Steps that print nothing, leave the Paging object alone and end the     *)
(* command.                                                                *)
LEMMA StepStays ==
  ASSUME CmdInv, UNCHANGED allvars
  PROVE  CmdInv'
BY DEF CmdInv, LinesInv, CallInv, ShownTranslation, RecordOfThePage, Outcome, Aligned, paged,
       RecordNumber, allvars, cmdvars, vars

LEMMA StepRefuse ==
  ASSUME CmdInv, Refuse
  PROVE  CmdInv'
<1>1. step \in {"entered", "construct"} /\ step' = "done"
      /\ UNCHANGED <<shown, mode, base, mem, request, pfnBase, walk, phys>>
  BY DEF Refuse, Goto, vars
<1>2. shown.entries = << >> /\ shown.phys = Nothing /\ shown.record = Nothing
  BY <1>1 DEF CmdInv, LinesInv, Ended
<1> QED BY <1>1, <1>2 DEF CmdInv, LinesInv, CallInv, ShownTranslation, RecordOfThePage, Ended

LEMMA StepBegin ==
  ASSUME CmdInv, Entered, Begin
  PROVE  CmdInv'
<1>1. step = "entered" /\ UNCHANGED <<shown, mode, base, mem, pfnBase, walk, phys, result>>
  BY DEF Begin, vars
<1>2. shown.entries = << >> /\ shown.phys = Nothing /\ shown.record = Nothing
  BY <1>1 DEF CmdInv, LinesInv, Ended
<1>3. request'.command = request.command
  BY DEF Begin, Entered, Request
<1>4. \/ step' = "construct"
      \/ step' \in {"database", "done"} /\ request'.command = "pfn2"
  BY <1>3 DEF Begin, Goto, Entered
<1> QED BY <1>1, <1>2, <1>3, <1>4
        DEF CmdInv, LinesInv, CallInv, ShownTranslation, RecordOfThePage, Ended

LEMMA StepMakePaging ==
  ASSUME CmdInv, Entered, MakePaging
  PROVE  CmdInv'
<1>1. step = "construct" /\ UNCHANGED <<shown, request, pfnBase, result>>
  BY DEF MakePaging, FromDirBase, FromRegisters, Built
<1>2. step' = IF request.command = "v2p" THEN "translate" ELSE "record"
  BY DEF MakePaging, Goto
<1>3. shown.entries = << >> /\ shown.phys = Nothing /\ shown.record = Nothing
  BY <1>1 DEF CmdInv, LinesInv, Ended
<1> QED BY <1>1, <1>2, <1>3
        DEF CmdInv, LinesInv, CallInv, ShownTranslation, RecordOfThePage, Ended

LEMMA StepCallTranslate ==
  ASSUME CmdInv, CallTranslate
  PROVE  CmdInv'
<1>1. step = "translate" /\ step' = "walk" /\ UNCHANGED <<shown, request, pfnBase>>
  BY DEF CallTranslate, Goto
<1>2. /\ shown.entries = << >> /\ shown.phys = Nothing /\ shown.record = Nothing
      /\ request.command = "v2p"
  BY <1>1 DEF CmdInv, LinesInv, Ended
<1>3. result = NoResult BY <1>1, <1>2 DEF CmdInv, CallInv
<1>4. Outcome' /\ virt' = request.arg
  BY <1>3, OutcomeOfCall, VirtAddrsAssumption DEF CallTranslate
<1> QED BY <1>1, <1>2, <1>4
        DEF CmdInv, LinesInv, CallInv, ShownTranslation, RecordOfThePage, Ended

LEMMA StepWalk ==
  ASSUME CmdInv, PagingInv, Walk
  PROVE  CmdInv'
<1>1. step \in {"walk", "recordwalk"} /\ WalkStep
      /\ UNCHANGED <<step, shown, request, pfnBase>>
  BY DEF Walk, cmdvars
<1>2. /\ mode' = mode /\ base' = base /\ virt' = virt
      /\ \A a \in DOMAIN mem : a \in DOMAIN mem' /\ mem'[a] = mem[a]
  BY <1>1, ReadOutcome DEF PagingInv, Inv
<1>3. shown.record = Nothing /\ step \notin Ended BY <1>1 DEF CmdInv, LinesInv, Ended
<1>4. LinesInv' BY <1>1 DEF CmdInv, LinesInv
<1>5. CallInv'
  <2>1. step = "walk" => Outcome' BY <1>1, OutcomeOfWalk DEF CmdInv, CallInv
  <2> QED BY <1>1, <1>2, <2>1 DEF CmdInv, CallInv, RecordNumber, paged
<1>6. ShownTranslation'
  <2>1. Aligned' <=> Aligned BY <1>2 DEF Aligned
  <2>2. (\E es \in Readings(shown.entries) :
           Translates(mode, base, request.arg, mem, es, shown.phys))
        => \E es \in Readings(shown.entries) :
             Translates(mode, base, request.arg, mem', es, shown.phys)
    BY <1>2, StaysTranslated
  <2> QED BY <1>1, <1>2, <1>3, <2>1, <2>2 DEF CmdInv, ShownTranslation, Ended
<1> QED BY <1>1, <1>3, <1>4, <1>5, <1>6 DEF CmdInv, RecordOfThePage

LEMMA StepPrintResult ==
  ASSUME CmdInv, PagingInv, PrintResult
  PROVE  CmdInv'
<1>1. step = "walk" /\ pc = "returned"
      /\ UNCHANGED <<mode, base, mem, virt, phys, result, walk, request, pfnBase>>
  BY DEF PrintResult, vars
<1>2. /\ shown.entries = << >> /\ shown.phys = Nothing /\ shown.record = Nothing
      /\ DOMAIN shown = Lines /\ request.command = "v2p"
  BY <1>1 DEF CmdInv, LinesInv, Ended
<1>3. virt = request.arg /\ Outcome BY <1>1 DEF CmdInv, CallInv
<1>4. CASE step' = "crashed" /\ shown' = shown
  BY <1>1, <1>2, <1>4 DEF CmdInv, LinesInv, CallInv, ShownTranslation, RecordOfThePage, Ended
<1>5. CASE /\ shown' = [shown EXCEPT !.entries = RowsOf(result),
                                     !.ptes = IF result.kind = "none" THEN @
                                              ELSE VirtPtes(mode, virt)]
           /\ step' = IF ret THEN "address" ELSE "done"
  <2>1. /\ shown'.entries = RowsOf(result) /\ shown'.phys = Nothing
        /\ shown'.record = Nothing /\ DOMAIN shown' = Lines
    BY <1>2, <1>5 DEF Lines
  <2>2. ret \in BOOLEAN /\ TranslationCorrect BY DEF PagingInv, Inv, TypeOK
  <2>3. LinesInv' BY <1>1, <1>2, <1>5, <2>1 DEF LinesInv, Ended
  <2>4. RecordOfThePage' BY <2>1 DEF RecordOfThePage
  <2>5. Aligned' <=> Aligned BY <1>1 DEF Aligned
  <2>6. "None" \notin Walking BY DEF Walking, FourLevel
  <2>7. CASE ret
    <3>1. CallInv'
      BY <1>1, <1>3, <1>5, <2>1, <2>2, <2>5, <2>6, <2>7, RowsOfOutcome
      DEF CallInv, TranslationCorrect
    <3>2. ShownTranslation' BY <1>5, <2>1, <2>7 DEF ShownTranslation
    <3> QED BY <2>3, <2>4, <3>1, <3>2 DEF CmdInv
  <2>8. CASE ~ret
    <3>1. CallInv' BY <1>5, <2>8 DEF CallInv
    <3>2. ShownTranslation'
      BY <1>1, <1>3, <1>5, <2>1, <2>2, <2>5, <2>8, RowsOfOutcome
      DEF ShownTranslation, TranslationCorrect
    <3> QED BY <2>3, <2>4, <3>1, <3>2 DEF CmdInv
  <2> QED BY <2>7, <2>8
<1> QED BY <1>4, <1>5 DEF PrintResult, Goto

LEMMA StepPrintAddress ==
  ASSUME CmdInv, PrintAddress
  PROVE  CmdInv'
<1>1. /\ step = "address" /\ step' \in {"database", "done"}
      /\ shown' = [shown EXCEPT !.phys = phys]
      /\ UNCHANGED <<mode, base, mem, virt, phys, result, walk, request, pfnBase>>
  BY DEF PrintAddress, Goto, Show, vars
<1>2. shown.record = Nothing /\ DOMAIN shown = Lines /\ request.command = "v2p"
  BY <1>1 DEF CmdInv, LinesInv, Ended
<1>3. /\ shown'.phys = phys /\ shown'.entries = shown.entries
      /\ shown'.record = Nothing /\ DOMAIN shown' = Lines
  BY <1>1, <1>2 DEF Lines
<1>4. /\ phys \in Word /\ (mode = "None" \/ shown.entries # << >>)
      /\ mode \in Walking /\ Aligned =>
           \E es \in Readings(shown.entries) :
             Translates(mode, base, request.arg, mem, es, phys)
  BY <1>1 DEF CmdInv, CallInv
<1>5. phys # Nothing /\ phys # Undefined BY <1>4, NothingAssumption, UndefinedAssumption
<1>6. LinesInv' BY <1>1, <1>2, <1>3, <1>5 DEF LinesInv, Ended
<1>7. CallInv' BY <1>1 DEF CallInv
<1>8. ShownTranslation' BY <1>1, <1>3, <1>4, <1>5 DEF ShownTranslation, Aligned
<1>9. RecordOfThePage' BY <1>3 DEF RecordOfThePage
<1> QED BY <1>6, <1>7, <1>8, <1>9 DEF CmdInv

LEMMA StepOpenDatabase ==
  ASSUME CmdInv, Entered, OpenDatabase
  PROVE  CmdInv'
<1>1. /\ step = "database"
      /\ UNCHANGED <<shown, mode, base, mem, virt, phys, result, walk, request>>
  BY DEF OpenDatabase, vars
<1>2. \/ step' \in {"record", "done"}
      \/ step' = "construct" /\ request.command = "pfn2"
  BY DEF OpenDatabase, Goto
<1>3. /\ shown.record = Nothing /\ DOMAIN shown = Lines
      /\ shown.phys # Nothing \/ shown.entries = << >>
      /\ request.command = "v2p" => shown.phys = phys
      /\ request.command = "pfn2" => shown.entries = << >> /\ shown.phys = Nothing
  BY <1>1 DEF CmdInv, LinesInv, Ended
<1>4. LinesInv' BY <1>1, <1>2, <1>3 DEF LinesInv, Ended
<1>5. CallInv' BY <1>1, <1>2 DEF CallInv
<1>6. ShownTranslation' BY <1>1, <1>2, <1>3 DEF CmdInv, ShownTranslation, Aligned
<1>7. RecordOfThePage' BY <1>1, <1>3 DEF RecordOfThePage
<1> QED BY <1>4, <1>5, <1>6, <1>7 DEF CmdInv

LEMMA StepDumpVirtual ==
  ASSUME CmdInv, DumpVirtual
  PROVE  CmdInv'
<1>1. /\ step = "record" /\ step' = "done" /\ ~paged
      /\ UNCHANGED <<mode, base, mem, virt, phys, result, walk, request, pfnBase>>
      /\ \/ shown' = [shown EXCEPT !.record = RecordAddr(pfnBase, pfn)]
         \/ shown' = shown
  BY DEF DumpVirtual, Goto, Show, vars
<1>2. /\ DOMAIN shown = Lines /\ shown.record = Nothing
      /\ shown.phys # Nothing \/ shown.entries = << >>
      /\ request.command = "v2p" => shown.phys = phys
  BY <1>1 DEF CmdInv, LinesInv, Ended
<1>3. /\ shown'.phys = shown.phys /\ shown'.entries = shown.entries
      /\ shown'.record \in {Nothing, RecordAddr(pfnBase, pfn)} /\ DOMAIN shown' = Lines
  BY <1>1, <1>2 DEF Lines
<1>4. LinesInv' BY <1>1, <1>2, <1>3 DEF CmdInv, LinesInv, Ended
<1>5. CallInv' BY <1>1 DEF CallInv
<1>6. ShownTranslation' BY <1>1, <1>2, <1>3 DEF CmdInv, ShownTranslation, Aligned
<1>7. RecordOfThePage'
  <2>1. pfn = RecordNumber BY <1>2 DEF pfn, RecordNumber
  <2> QED BY <1>1, <1>3, <2>1 DEF RecordOfThePage, RecordNumber, paged
<1> QED BY <1>4, <1>5, <1>6, <1>7 DEF CmdInv

LEMMA StepTranslateRecord ==
  ASSUME CmdInv, TranslateRecord
  PROVE  CmdInv'
<1>1. /\ step = "record" /\ step' = "recordwalk" /\ paged
      /\ virt' = RecordAddr(pfnBase, pfn)
      /\ UNCHANGED <<mode, base, mem, shown, request, pfnBase>>
  BY DEF TranslateRecord, Goto, Translate
<1>2. /\ DOMAIN shown = Lines /\ shown.record = Nothing
      /\ shown.phys # Nothing \/ shown.entries = << >>
      /\ request.command = "v2p" => shown.phys = phys
  BY <1>1 DEF CmdInv, LinesInv, Ended
<1>3. LinesInv' BY <1>1, <1>2 DEF CmdInv, LinesInv, Ended
<1>4. CallInv'
  <2>1. pfn = RecordNumber BY <1>2 DEF pfn, RecordNumber
  <2> QED BY <1>1, <2>1 DEF CallInv, RecordNumber, paged
<1>5. ShownTranslation' BY <1>1, <1>2 DEF CmdInv, ShownTranslation, Aligned
<1>6. RecordOfThePage' BY <1>1, <1>2 DEF RecordOfThePage
<1> QED BY <1>3, <1>4, <1>5, <1>6 DEF CmdInv

LEMMA StepDumpPhysical ==
  ASSUME CmdInv, PagingInv, DumpPhysical
  PROVE  CmdInv'
<1>1. /\ step = "recordwalk" /\ pc = "returned" /\ step' = "done"
      /\ UNCHANGED <<mode, base, mem, virt, phys, result, walk, request, pfnBase>>
      /\ \/ ret /\ shown' = [shown EXCEPT !.record = phys]
         \/ shown' = shown
  BY DEF DumpPhysical, Goto, Show, vars
<1>2. /\ DOMAIN shown = Lines /\ shown.record = Nothing
      /\ shown.phys # Nothing \/ shown.entries = << >>
  BY <1>1 DEF CmdInv, LinesInv, Ended
<1>3. /\ shown'.phys = shown.phys /\ shown'.entries = shown.entries
      /\ shown'.record # Nothing => ret /\ shown'.record = phys
      /\ DOMAIN shown' = Lines
  BY <1>1, <1>2 DEF Lines
<1>4. LinesInv' BY <1>1, <1>2, <1>3 DEF CmdInv, LinesInv, Ended
<1>5. CallInv' BY <1>1 DEF CallInv
<1>6. ShownTranslation' BY <1>1, <1>2, <1>3 DEF CmdInv, ShownTranslation, Aligned
<1>7. RecordOfThePage'
  <2>1. paged /\ virt = RecordAddr(pfnBase, RecordNumber) BY <1>1 DEF CmdInv, CallInv
  <2>2. ret /\ mode \in Walking /\ Aligned => Translates(mode, base, virt, mem, walk, phys)
    BY <1>1 DEF PagingInv, Inv, TranslationCorrect
  <2>3. paged' /\ (Aligned' <=> Aligned) BY <1>1, <2>1 DEF paged, Aligned
  <2> QED BY <1>1, <1>3, <2>1, <2>2, <2>3 DEF RecordOfThePage, RecordNumber
<1> QED BY <1>4, <1>5, <1>6, <1>7 DEF CmdInv

LEMMA CmdInvStep ==
  ASSUME PagingInv, CmdInv, Entered, [V2pNext]_allvars
  PROVE  CmdInv'
BY StepStays, StepRefuse, StepBegin, StepMakePaging, StepCallTranslate, StepWalk,
   StepPrintResult, StepPrintAddress, StepOpenDatabase, StepDumpVirtual,
   StepTranslateRecord, StepDumpPhysical
DEF V2pNext

LEMMA CommandInvariant == V2pSpec => [](Entered /\ PagingInv /\ CmdInv)
<1> DEFINE Whole == Entered /\ PagingInv /\ CmdInv
<1>1. V2pInit => Whole BY EnteredInit, CmdInvInit
<1>2. Whole /\ [V2pNext]_allvars => Whole'
  BY EnteredStep, PagingInvStep, CmdInvStep
<1> QED BY <1>1, <1>2, PTL DEF V2pSpec

(* The lines of a translation agree, for every machine, request and memory:*)
(* the rows, without that of a 32-bit page directory, are the entries the  *)
(* processor would use for the address that was asked for, and the         *)
(* physical address after them is where these lead (PrintResult and the    *)
(* end of !v2p).                                                           *)
THEOREM LinesAgree == V2pSpec => []ShownTranslation
<1>1. CmdInv => ShownTranslation BY DEF CmdInv
<1> QED BY <1>1, CommandInvariant, PTL

(* The PFN record that is decoded is the one of the page just shown, or of *)
(* the number asked for (DumpRecord after a second Translate).             *)
THEOREM RecordIsOfThePage == V2pSpec => []RecordOfThePage
<1>1. CmdInv => RecordOfThePage BY DEF CmdInv
<1> QED BY <1>1, CommandInvariant, PTL

(***************************************************************************)
(* The page-table addresses printed next to the entries.                   *)
(***************************************************************************)
(* The function Hierarchy defines: one address after the other. *)
Upwards(b, v, width, n) ==
  CHOOSE up : up = [i \in 1 .. n |->
    UNION {PteAddress(b, a, width) : a \in {IF i = 1 THEN v ELSE up[i - 1]}}]

LEMMA HierarchyIsUpwards ==
  ASSUME NEW b, NEW v, NEW width, NEW n
  PROVE  Hierarchy(b, v, width, n) = [d \in 0 .. n - 1 |-> Upwards(b, v, width, n)[n - d]]
BY DEF Hierarchy, Upwards

(* It exists: GetPteAddress applied again and again. *)
LEMMA UpwardsSteps ==
  ASSUME NEW b, NEW v, NEW width, NEW n \in Nat, n = 4 \/ n = 5
  PROVE  /\ Upwards(b, v, width, n)[1] = PteAddress(b, v, width)
         /\ \A i \in 2 .. n : Upwards(b, v, width, n)[i]
                               = PteAddress(b, Upwards(b, v, width, n)[i - 1], width)
<1> DEFINE P(a) == PteAddress(b, a, width)
           f == [i \in 1 .. n |-> IF i = 1 THEN P(v) ELSE IF i = 2 THEN P(P(v))
                                  ELSE IF i = 3 THEN P(P(P(v)))
                                  ELSE IF i = 4 THEN P(P(P(P(v)))) ELSE P(P(P(P(P(v)))))]
           One(x) == UNION {P(a) : a \in {x}}
           Is(up) == up = [i \in 1 .. n |-> One(IF i = 1 THEN v ELSE up[i - 1])]
           up == Upwards(b, v, width, n)
<1>1. up = CHOOSE u : Is(u) BY DEF Upwards
<1> HIDE DEF P, up
<1>2. \A x : One(x) = P(x)
  <2> TAKE x
  <2>1. {P(a) : a \in {x}} = {P(x)} OBVIOUS
  <2> QED BY <2>1
<1> HIDE DEF One
<1>3. Is(f)
  <2>1. \A i \in 1 .. n : f[i] = One(IF i = 1 THEN v ELSE f[i - 1])
    <3> TAKE i \in 1 .. n
    <3>1. i \in {1, 2, 3, 4, 5} OBVIOUS
    <3> QED BY <3>1, <1>2
  <2> DEFINE g == [i \in 1 .. n |-> One(IF i = 1 THEN v ELSE f[i - 1])]
  <2>2. f = g BY <2>1
  <2> QED BY <2>2
<1> HIDE DEF f
<1>4. Is(up) BY <1>1, <1>3
<1>5. \A i \in 1 .. n : up[i] = One(IF i = 1 THEN v ELSE up[i - 1])
  <2> DEFINE g == [i \in 1 .. n |-> One(IF i = 1 THEN v ELSE up[i - 1])]
  <2>1. up = g BY <1>4
  <2>2. \A i \in 1 .. n : g[i] = One(IF i = 1 THEN v ELSE up[i - 1]) OBVIOUS
  <2> QED BY <2>1, <2>2
<1>6. \A i \in 1 .. n : up[i] = P(IF i = 1 THEN v ELSE up[i - 1]) BY <1>2, <1>5
<1>7. up[1] = P(v) /\ \A i \in 2 .. n : up[i] = P(up[i - 1])
  <2>1. 1 \in 1 .. n /\ \A i \in 2 .. n : i \in 1 .. n /\ i # 1 OBVIOUS
  <2> QED BY <1>6, <2>1
<1> QED BY <1>7 DEF P, up

(* One application, for a base with no bit below the indices. *)
Above(b, top, a) == b \cup {i \in 3 .. top : i + 9 \in a}

LEMMA PteAddressIsAbove ==
  ASSUME NEW b \in Word, NEW a \in Word
  PROVE  /\ b \subseteq 39 .. 63 => PteAddress(b, a, 36) = Above(b, 38, a)
         /\ b \subseteq 23 .. 63 => PteAddress(b, a, 20) = Above(b, 22, a)
<1>1. ASSUME NEW n \in Nat, NEW k \in Nat, NEW lo \in Nat, k + n <= 64, b \subseteq k + n .. 63,
             k = 3, lo = 12
      PROVE  PteAddress(b, a, n) = Above(b, k + n - 1, a)
  <2>1. Plus(b, Shl(extract(a, lo, n), k)) = b \cup Slot(a, lo, n, k) BY <1>1, TopEntryAddr
  <2>2. Slot(a, lo, n, k) = {i \in 3 .. k + n - 1 : i + 9 \in a}
    <3>1. \A i \in Int : i + lo - k = i + 9 BY <1>1
    <3> QED BY <1>1, <3>1 DEF Slot
  <2> QED BY <1>1, <2>1, <2>2 DEF PteAddress, Above
<1>2. ASSUME NEW k \in Nat, NEW lo \in Nat, NEW n \in Nat, k = 3, lo = 12, n = 36,
             b \subseteq 39 .. 63
      PROVE  PteAddress(b, a, n) = Above(b, 38, a)
  <2>1. k + n <= 64 /\ k + n = 39 /\ k + n - 1 = 38 BY <1>2
  <2> QED BY <2>1, <1>1, <1>2
<1>3. ASSUME NEW k \in Nat, NEW lo \in Nat, NEW n \in Nat, k = 3, lo = 12, n = 20,
             b \subseteq 23 .. 63
      PROVE  PteAddress(b, a, n) = Above(b, 22, a)
  <2>1. k + n <= 64 /\ k + n = 23 /\ k + n - 1 = 22 BY <1>3
  <2> QED BY <2>1, <1>1, <1>3
<1> QED BY <1>2, <1>3

LEMMA AboveIsWord ==
  ASSUME NEW b \in Word, NEW top \in 3 .. 63, NEW a
  PROVE  Above(b, top, a) \in Word
<1>1. 3 .. top \subseteq 0 .. 63 OBVIOUS
<1> QED BY <1>1 DEF Above, Word, Bit

(* The addresses of Hierarchy, written with Above. *)
LEMMA HierarchyLevels ==
  ASSUME NEW b \in Word, NEW v \in Word, NEW n \in Nat, n = 4 \/ n = 5, NEW top \in {22, 38},
         b \subseteq top + 1 .. 63
  PROVE  LET up == Upwards(b, v, top - 2, n)
         IN  /\ up[1] = Above(b, top, v)
             /\ \A i \in 2 .. n : up[i] = Above(b, top, up[i - 1])
             /\ \A i \in 1 .. n : up[i] \in Word
<1> DEFINE up == Upwards(b, v, top - 2, n)
<1>1. \A a \in Word : PteAddress(b, a, top - 2) = Above(b, top, a) /\ Above(b, top, a) \in Word
  <2> TAKE a \in Word
  <2>1. CASE top = 22
    <3>1. top - 2 = 20 /\ b \subseteq 23 .. 63 BY <2>1
    <3> QED BY <2>1, <3>1, PteAddressIsAbove, AboveIsWord
  <2>2. CASE top = 38
    <3>1. top - 2 = 36 /\ b \subseteq 39 .. 63 BY <2>2
    <3> QED BY <2>2, <3>1, PteAddressIsAbove, AboveIsWord
  <2> QED BY <2>1, <2>2
<1>2. /\ up[1] = PteAddress(b, v, top - 2)
      /\ \A i \in 2 .. n : up[i] = PteAddress(b, up[i - 1], top - 2)
  <2>1. \A w : /\ Upwards(b, v, w, n)[1] = PteAddress(b, v, w)
               /\ \A i \in 2 .. n : Upwards(b, v, w, n)[i]
                                     = PteAddress(b, Upwards(b, v, w, n)[i - 1], w)
    <3> TAKE w
    <3> HIDE DEF up
    <3> QED BY UpwardsSteps
  <2> QED BY <2>1
<1> HIDE DEF up
<1>3. up[1] = Above(b, top, v) /\ up[1] \in Word BY <1>1, <1>2
<1>4. \A i \in 2 .. n : up[i - 1] \in Word => up[i] = Above(b, top, up[i - 1]) /\ up[i] \in Word
  BY <1>1, <1>2
<1>5. up[2] \in Word BY <1>3, <1>4, 2 \in 2 .. n, 2 - 1 = 1
<1>6. up[3] \in Word BY <1>5, <1>4, 3 \in 2 .. n, 3 - 1 = 2
<1>7. up[4] \in Word BY <1>6, <1>4, 4 \in 2 .. n, 4 - 1 = 3
<1>8. n = 5 => up[5] \in Word BY <1>7, <1>4, 5 - 1 = 4
<1>9. \A i \in 1 .. n : up[i] \in Word
  <2>1. \A i \in 1 .. n : i \in {1, 2, 3, 4} \/ (n = 5 /\ i = 5) OBVIOUS
  <2> QED BY <2>1, <1>3, <1>5, <1>6, <1>7, <1>8
<1>10. \A i \in 2 .. n : up[i - 1] \in Word
  <2>1. \A i \in 2 .. n : i - 1 \in 1 .. n OBVIOUS
  <2> QED BY <2>1, <1>9
<1>11. /\ up[1] = Above(b, top, v)
       /\ \A i \in 2 .. n : up[i] = Above(b, top, up[i - 1])
       /\ \A i \in 1 .. n : up[i] \in Word
  BY <1>3, <1>4, <1>9, <1>10
<1> QED BY <1>11 DEF up

(* The indices of a four-level table address: those of the address it maps,*)
(* one level further down, with the self-map slot in front.                *)
LEMMA OffsetL4 ==
  ASSUME NEW m \in FourLevel, NEW x
  PROVE  \A j \in 1 .. 4 : Offset(m, x, j) = {i \in 3 .. 11 : i + 45 - 9 * j \in x}
<1> TAKE j \in 1 .. 4
<1>1. EntryBits(m) = 3 /\ High(m, j) - Low(m, j) + 1 = 9 /\ Low(m, j) = 48 - 9 * j
  BY SMT DEF FourLevel, EntryBits, Low, High
<1>2. Offset(m, x, j) = Slot(x, 48 - 9 * j, 9, 3) BY <1>1 DEF Offset
<1>3. \A i \in Int : i + (48 - 9 * j) - 3 = i + 45 - 9 * j OBVIOUS
<1>4. Slot(x, 48 - 9 * j, 9, 3) = {i \in 3 .. 11 : i + 45 - 9 * j \in x}
  BY <1>3, 3 + 9 - 1 = 11 DEF Slot
<1> QED BY <1>2, <1>4

LEMMA AboveL4 ==
  ASSUME NEW m \in FourLevel, NEW b, b \subseteq 39 .. 63, NEW a
  PROVE  /\ Offset(m, Above(b, 38, a), 1) = Offset(m, b, 1)
         /\ \A j \in 2 .. 4 : Offset(m, Above(b, 38, a), j) = Offset(m, a, j - 1)
         /\ Above(b, 38, a) \cap (0 .. 11) = Offset(m, a, 4)
         /\ Above(b, 38, a) \cap (48 .. 63) = b \cap (48 .. 63)
<1> DEFINE va == Above(b, 38, a)
<1>1. \A k \in Int : /\ k \in 3 .. 38 => (k \in va <=> k + 9 \in a)
                     /\ k > 38 => (k \in va <=> k \in b)
                     /\ k < 3 => k \notin va
  BY DEF Above
<1>2. \A j \in 1 .. 4 : /\ Offset(m, va, j) = {i \in 3 .. 11 : i + 45 - 9 * j \in va}
                        /\ Offset(m, a, j) = {i \in 3 .. 11 : i + 45 - 9 * j \in a}
                        /\ Offset(m, b, j) = {i \in 3 .. 11 : i + 45 - 9 * j \in b}
  BY OffsetL4
<1> HIDE DEF va
<1>3. Offset(m, va, 1) = Offset(m, b, 1)
  <2>1. \A i \in 3 .. 11 : i + 45 - 9 * 1 \in va <=> i + 45 - 9 * 1 \in b
    <3> TAKE i \in 3 .. 11
    <3>1. i + 45 - 9 * 1 \in Int /\ i + 45 - 9 * 1 > 38 OBVIOUS
    <3> QED BY <1>1, <3>1
  <2> QED BY <1>2, <2>1
<1>4. ASSUME NEW j \in 2 .. 4 PROVE Offset(m, va, j) = Offset(m, a, j - 1)
  <2>1. \A i \in 3 .. 11 : i + 45 - 9 * j \in va <=> i + 45 - 9 * (j - 1) \in a
    <3> TAKE i \in 3 .. 11
    <3>1. i + 45 - 9 * j \in 3 .. 38 /\ i + 45 - 9 * (j - 1) = i + 45 - 9 * j + 9 OBVIOUS
    <3> QED BY <1>1, <3>1
  <2>2. j \in 1 .. 4 /\ j - 1 \in 1 .. 4 OBVIOUS
  <2>3. Offset(m, va, j) = {i \in 3 .. 11 : i + 45 - 9 * j \in va} BY <1>2, <2>2
  <2>4. Offset(m, a, j - 1) = {i \in 3 .. 11 : i + 45 - 9 * (j - 1) \in a} BY <1>2, <2>2
  <2> QED BY ONLY <2>1, <2>3, <2>4, Zenon
<1>5. va \cap (0 .. 11) = Offset(m, a, 4)
  <2>1. \A i \in 3 .. 11 : i \in va <=> i + 45 - 9 * 4 \in a
    <3> TAKE i \in 3 .. 11
    <3>1. i \in 3 .. 38 /\ i + 45 - 9 * 4 = i + 9 OBVIOUS
    <3> QED BY <1>1, <3>1
  <2>2. \A i \in 0 .. 11 : i \in va => i \in 3 .. 11 BY <1>1
  <2> QED BY <1>2, <2>1, <2>2
<1>6. va \cap (48 .. 63) = b \cap (48 .. 63) BY <1>1
<1> QED BY <1>3, <1>4, <1>5, <1>6 DEF va

LEMMA HierarchyMapsL4 ==
  ASSUME NEW m \in FourLevel, NEW b \in Word, b \subseteq 39 .. 63, NEW v \in Word
  PROVE  \A d \in 0 .. 4 : /\ MapsEntry(m, b, v, d, Hierarchy(b, v, 36, 5)[d])
                           /\ Hierarchy(b, v, 36, 5)[d] \in Word
<1> DEFINE up == Upwards(b, v, 36, 5)
           self == Offset(m, b, 1)
           Sound(n) == \A j \in 1 .. 4 :
             Offset(m, up[n], j) = IF j <= n THEN self ELSE Offset(m, v, j - n)
<1>1. /\ up[1] = Above(b, 38, v)
      /\ \A i \in 2 .. 5 : up[i] = Above(b, 38, up[i - 1])
      /\ \A i \in 1 .. 5 : up[i] \in Word
  <2>1. ASSUME NEW top \in {22, 38}, top = 38, NEW n \in Nat, n = 5
        PROVE  /\ Upwards(b, v, top - 2, n)[1] = Above(b, top, v)
               /\ \A i \in 2 .. n : Upwards(b, v, top - 2, n)[i]
                                    = Above(b, top, Upwards(b, v, top - 2, n)[i - 1])
               /\ \A i \in 1 .. n : Upwards(b, v, top - 2, n)[i] \in Word
    <3>1. b \subseteq top + 1 .. 63 BY <2>1
    <3> QED BY <2>1, <3>1, HierarchyLevels
  <2> QED BY <2>1, 38 - 2 = 36
<1>2. \A d \in 0 .. 4 : Hierarchy(b, v, 36, 5)[d] = up[5 - d]
  BY HierarchyIsUpwards, 5 - 1 = 4
<1> HIDE DEF up
<1>0. \A a : /\ Offset(m, Above(b, 38, a), 1) = self
             /\ \A j \in 2 .. 4 : Offset(m, Above(b, 38, a), j) = Offset(m, a, j - 1)
             /\ Above(b, 38, a) \cap (0 .. 11) = Offset(m, a, 4)
             /\ Above(b, 38, a) \cap (48 .. 63) = b \cap (48 .. 63)
  BY AboveL4
<1> HIDE DEF self
<1>3. Sound(1)
  <2>1. \A j \in 1 .. 4 : (j <= 1 <=> j = 1) /\ (j # 1 => j \in 2 .. 4) OBVIOUS
  <2> QED BY <1>1, <2>1, <1>0
<1>4. ASSUME NEW n \in 1 .. 4, Sound(n) PROVE Sound(n + 1)
  <2>1. up[n + 1] = Above(b, 38, up[n])
    <3>1. n + 1 \in 2 .. 5 /\ n + 1 - 1 = n OBVIOUS
    <3> QED BY <1>1, <3>1
  <2> SUFFICES ASSUME NEW j \in 1 .. 4
               PROVE  Offset(m, up[n + 1], j)
                      = IF j <= n + 1 THEN self ELSE Offset(m, v, j - (n + 1))
    OBVIOUS
  <2>2. CASE j = 1
    <3>1. 1 <= n + 1 OBVIOUS
    <3> QED BY <2>1, <2>2, <3>1, <1>0
  <2>3. CASE j # 1
    <3>1. /\ j \in 2 .. 4 /\ j - 1 \in 1 .. 4 /\ j - 1 - n = j - (n + 1)
          /\ j - 1 <= n <=> j <= n + 1
      BY <2>3
    <3>2. Offset(m, up[n + 1], j) = Offset(m, up[n], j - 1) BY <2>1, <3>1, <1>0
    <3> QED BY <1>4, <3>1, <3>2
  <2> QED BY <2>2, <2>3
<1> HIDE DEF Sound
<1>5. \A n \in 1 .. 5 : Sound(n)
  <2>1. Sound(2) BY <1>3, <1>4, 1 + 1 = 2
  <2>2. Sound(3) BY <2>1, <1>4, 2 + 1 = 3
  <2>3. Sound(4) BY <2>2, <1>4, 3 + 1 = 4
  <2>4. Sound(5) BY <2>3, <1>4, 4 + 1 = 5
  <2>5. \A n \in 1 .. 5 : n \in {1, 2, 3, 4, 5} OBVIOUS
  <2> QED BY <1>3, <2>1, <2>2, <2>3, <2>4, <2>5
<1> USE DEF Sound
<1> SUFFICES ASSUME NEW d \in 0 .. 4
             PROVE  MapsEntry(m, b, v, d, up[5 - d]) /\ up[5 - d] \in Word
  BY <1>2
<1>6. 5 - d \in 1 .. 5 /\ Depth(m) + 1 - d = 5 - d /\ Depth(m) = 4 BY ArchL4
<1>7. \A j \in 1 .. 4 : Offset(m, up[5 - d], j)
                         = IF j <= 5 - d THEN self ELSE Offset(m, v, j - (5 - d))
  BY <1>5, <1>6
<1>8. /\ up[5 - d] \cap (0 .. 11) = IF d = 0 THEN self ELSE Offset(m, v, d)
      /\ up[5 - d] \cap (48 .. 63) = b \cap (48 .. 63)
  <2>1. CASE d = 4 BY <1>1, <2>1, <1>0, 5 - 4 = 1
  <2>2. CASE d # 4
    <3>1. /\ 5 - d \in 2 .. 5 /\ 5 - d - 1 = 4 - d /\ 4 - d \in 1 .. 5
          /\ 4 <= 4 - d <=> d = 0 /\ 4 - (4 - d) = d
      BY <2>2
    <3>2. up[5 - d] = Above(b, 38, up[4 - d]) BY <1>1, <3>1
    <3>3. Offset(m, up[4 - d], 4) = IF 4 <= 4 - d THEN self ELSE Offset(m, v, 4 - (4 - d))
      BY <1>5, <3>1
    <3> QED BY <3>1, <3>2, <3>3, <1>0
  <2> QED BY <2>1, <2>2
<1> QED BY <1>1, <1>6, <1>7, <1>8 DEF MapsEntry, self

(* PAE: the two levels that are printed, below the fixed base 0xC0000000.  *)
LEMMA OffsetPae ==
  ASSUME NEW x
  PROVE  /\ Offset("PAE", x, 1) = {i \in 3 .. 4 : i + 27 \in x}
         /\ Offset("PAE", x, 2) = {i \in 3 .. 11 : i + 18 \in x}
         /\ Offset("PAE", x, 3) = {i \in 3 .. 11 : i + 9 \in x}
<1>1. \A i \in Int : i + 30 - 3 = i + 27 /\ i + 21 - 3 = i + 18 /\ i + 12 - 3 = i + 9 OBVIOUS
<1>2. Slot(x, 30, 2, 3) = {i \in 3 .. 4 : i + 27 \in x}
  BY <1>1, 3 + 2 - 1 = 4 DEF Slot
<1>3. Slot(x, 21, 9, 3) = {i \in 3 .. 11 : i + 18 \in x}
  BY <1>1, 3 + 9 - 1 = 11 DEF Slot
<1>4. Slot(x, 12, 9, 3) = {i \in 3 .. 11 : i + 9 \in x}
  BY <1>1, 3 + 9 - 1 = 11 DEF Slot
<1>5. 31 - 30 + 1 = 2 /\ 29 - 21 + 1 = 9 /\ 20 - 12 + 1 = 9 OBVIOUS
<1> QED BY <1>2, <1>3, <1>4, <1>5, ArchPae DEF Offset

LEMMA AbovePae ==
  ASSUME NEW a
  PROVE  LET va == Above({30, 31}, 22, a)
         IN  /\ Offset("PAE", va, 1) = {3, 4}
             /\ Offset("PAE", va, 2) = Offset("PAE", a, 1)
             /\ Offset("PAE", va, 3) = Offset("PAE", a, 2)
             /\ va \cap (0 .. 11) = Offset("PAE", a, 3)
             /\ va \cap (48 .. 63) = {}
<1> DEFINE va == Above({30, 31}, 22, a)
<1>1. \A k \in Int : /\ k \in 3 .. 22 => (k \in va <=> k + 9 \in a)
                     /\ k \in {30, 31} => k \in va
                     /\ k \notin 3 .. 22 /\ k \notin {30, 31} => k \notin va
  BY DEF Above
<1> HIDE DEF va
<1>2. Offset("PAE", va, 1) = {3, 4}
  <2>1. \A i \in 3 .. 4 : i + 27 \in va BY <1>1
  <2>2. Offset("PAE", va, 1) = 3 .. 4 BY <2>1, OffsetPae
  <2> QED BY <2>2
<1>3. Offset("PAE", va, 2) = Offset("PAE", a, 1)
  <2>1. \A i \in 3 .. 11 : i + 18 \in va <=> i \in 3 .. 4 /\ i + 27 \in a
    <3> TAKE i \in 3 .. 11
    <3>1. i + 18 + 9 = i + 27 /\ i + 18 \in Int /\ i + 18 \notin {30, 31}
          /\ (i + 18 \in 3 .. 22 <=> i \in 3 .. 4)
      OBVIOUS
    <3> QED BY <1>1, <3>1
  <2>2. \A i : i \in 3 .. 4 => i \in 3 .. 11 OBVIOUS
  <2>3. {i \in 3 .. 11 : i + 18 \in va} = {i \in 3 .. 4 : i + 27 \in a} BY <2>1, <2>2, Zenon
  <2> QED BY <2>3, OffsetPae
<1>4. Offset("PAE", va, 3) = Offset("PAE", a, 2)
  <2>1. \A i \in 3 .. 11 : i + 9 \in va <=> i + 18 \in a
    <3> TAKE i \in 3 .. 11
    <3>1. i + 9 + 9 = i + 18 /\ i + 9 \in 3 .. 22 OBVIOUS
    <3> QED BY <1>1, <3>1
  <2> QED BY <2>1, OffsetPae
<1>5. va \cap (0 .. 11) = Offset("PAE", a, 3)
  <2>1. \A i \in 0 .. 11 : i \in va <=> i \in 3 .. 11 /\ i + 9 \in a BY <1>1
  <2>2. \A i : i \in 3 .. 11 => i \in 0 .. 11 OBVIOUS
  <2>3. va \cap (0 .. 11) = {i \in 3 .. 11 : i + 9 \in a} BY <2>1, <2>2, Zenon
  <2> QED BY <2>3, OffsetPae
<1>6. va \cap (48 .. 63) = {} BY <1>1
<1> QED BY <1>2, <1>3, <1>4, <1>5, <1>6 DEF va

LEMMA HierarchyMapsPae ==
  ASSUME NEW v \in Word
  PROVE  \A d \in {2, 3} :
           /\ MapsEntry("PAE", {30, 31}, v, d, Hierarchy({30, 31}, v, 20, 4)[d])
           /\ Hierarchy({30, 31}, v, 20, 4)[d] \in Word
<1> DEFINE b == {30, 31}
           up == Upwards(b, v, 20, 4)
<1>0. b \in Word /\ b \subseteq 23 .. 63 BY DEF Word, Bit
<1>1. /\ up[1] = Above(b, 22, v)
      /\ up[2] = Above(b, 22, up[1])
      /\ up[1] \in Word /\ up[2] \in Word
  <2> HIDE DEF b
  <2>1. ASSUME NEW top \in {22, 38}, top = 22, NEW n \in Nat, n = 4
        PROVE  /\ Upwards(b, v, top - 2, n)[1] = Above(b, top, v)
               /\ \A i \in 2 .. n : Upwards(b, v, top - 2, n)[i]
                                    = Above(b, top, Upwards(b, v, top - 2, n)[i - 1])
               /\ \A i \in 1 .. n : Upwards(b, v, top - 2, n)[i] \in Word
    <3>1. b \subseteq top + 1 .. 63 BY <1>0, <2>1
    <3> QED BY <1>0, <2>1, <3>1, HierarchyLevels
  <2>2. /\ up[1] = Above(b, 22, v)
        /\ \A i \in 2 .. 4 : up[i] = Above(b, 22, up[i - 1])
        /\ \A i \in 1 .. 4 : up[i] \in Word
    BY <2>1, 22 - 2 = 20
  <2> HIDE DEF up
  <2> QED BY <2>2, 2 - 1 = 1
<1>2. Hierarchy(b, v, 20, 4)[3] = up[1] /\ Hierarchy(b, v, 20, 4)[2] = up[2]
  BY HierarchyIsUpwards, 4 - 1 = 3, 4 - 3 = 1, 4 - 2 = 2
<1> HIDE DEF up
<1>3. Offset("PAE", b, 1) = {3, 4} BY OffsetPae
<1>4. b \cap (48 .. 63) = {} OBVIOUS
<1>5. \A j \in 1 .. 3 : j \in {1, 2, 3} OBVIOUS
<1>6. MapsEntry("PAE", b, v, 3, up[1])
  <2>1. /\ Offset("PAE", up[1], 1) = {3, 4}
        /\ Offset("PAE", up[1], 2) = Offset("PAE", v, 1)
        /\ Offset("PAE", up[1], 3) = Offset("PAE", v, 2)
        /\ up[1] \cap (0 .. 11) = Offset("PAE", v, 3)
        /\ up[1] \cap (48 .. 63) = {}
    BY <1>1, AbovePae
  <2> HIDE DEF b
  <2>2. /\ 3 + 1 - 3 = 1 /\ 1 <= 1 /\ ~(2 <= 1) /\ ~(3 <= 1) /\ 2 - 1 = 1 /\ 3 - 1 = 2 OBVIOUS
  <2> QED BY <1>3, <1>4, <1>5, <2>1, <2>2, ArchPae, SMTT(30) DEF MapsEntry
<1>7. MapsEntry("PAE", b, v, 2, up[2])
  <2>1. /\ Offset("PAE", up[2], 1) = {3, 4}
        /\ Offset("PAE", up[2], 2) = {3, 4}
        /\ Offset("PAE", up[2], 3) = Offset("PAE", v, 1)
        /\ up[2] \cap (0 .. 11) = Offset("PAE", v, 2)
        /\ up[2] \cap (48 .. 63) = {}
    BY <1>1, AbovePae
  <2> HIDE DEF b
  <2>2. /\ 3 + 1 - 2 = 2 /\ 1 <= 2 /\ 2 <= 2 /\ ~(3 <= 2) /\ 3 - 2 = 1 OBVIOUS
  <2> QED BY <1>3, <1>4, <1>5, <2>1, <2>2, ArchPae, SMTT(30) DEF MapsEntry
<1> QED BY <1>1, <1>2, <1>6, <1>7

(* What VirtPtes gives for the mode of the object. *)
LEMMA VirtPtesMap ==
  ASSUME NEW m \in Modes, NEW v \in Word, pteBase \in Word
  PROVE  /\ \A d \in DOMAIN VirtPtes(m, v) : d \in 0 .. 4 /\ VirtPtes(m, v)[d] \in Word
         /\ \/ m \in FourLevel /\ ~ValidPteBase(pteBase)
            \/ \A d \in DOMAIN VirtPtes(m, v) :
                 MapsEntry(m, IF m = "PAE" THEN {30, 31} ELSE pteBase, v, d, VirtPtes(m, v)[d])
<1>1. CASE m = "PAE"
  <2>1. VirtPtes(m, v) = [d \in {2, 3} |-> Hierarchy({30, 31}, v, 20, 4)[d]]
    BY <1>1 DEF VirtPtes
  <2>2. 2 \in 0 .. 4 /\ 3 \in 0 .. 4 OBVIOUS
  <2> QED BY <1>1, <2>1, <2>2, HierarchyMapsPae
<1>2. CASE m \in FourLevel
  <2>0. m # "PAE" BY <1>2 DEF FourLevel
  <2>1. CASE ValidPteBase(pteBase)
    <3>1. VirtPtes(m, v) = Hierarchy(pteBase, v, 36, 5) BY <1>2, <2>0, <2>1 DEF VirtPtes
    <3>2. DOMAIN VirtPtes(m, v) = 0 .. 4 BY <3>1, HierarchyIsUpwards, 5 - 1 = 4
    <3>3. pteBase \subseteq 39 .. 63
      <4>1. extract(pteBase, 0, 39) = pteBase \cap (0 .. 39 - 1) BY LowBits
      <4> QED BY <2>1, <4>1 DEF ValidPteBase, Word, Bit
    <3> QED BY <1>2, <2>0, <3>1, <3>2, <3>3, HierarchyMapsL4
  <2>2. CASE ~ValidPteBase(pteBase)
    <3>1. VirtPtes(m, v) = [d \in 0 .. 4 |-> {}] BY <1>2, <2>0, <2>2 DEF VirtPtes
    <3>2. {} \in Word BY DEF Word
    <3> QED BY <1>2, <2>2, <3>1, <3>2
  <2> QED BY <2>1, <2>2
<1>3. CASE m # "PAE" /\ m \notin FourLevel
  <2>1. DOMAIN VirtPtes(m, v) = {} BY <1>3 DEF VirtPtes
  <2> QED BY <2>1
<1> QED BY <1>1, <1>2, <1>3

(***************************************************************************)
(* What the lines are: their types, and whose addresses are printed.       *)
(***************************************************************************)
Steps == {"entered", "construct", "translate", "walk", "address", "database",
          "record", "recordwalk"} \cup Ended

(* The addresses printed are those of the mode the entries were read in: a *)
(* command that goes on to print builds no other object.                   *)
PtesInv ==
  \/ DOMAIN shown.ptes = {}
  \/ /\ shown.ptes = VirtPtes(mode, request.arg) /\ request.command = "v2p"
     /\ step \notin {"entered", "construct"}

PrintedInv ==
  /\ step \in Steps /\ pfnBase \in Word /\ pteBase \in PteBases
  /\ shown.entries \in Seq(Word \cup {Undefined})
  /\ \A d \in DOMAIN shown.entries : shown.entries[d] = Undefined => d = 1 /\ mode = "B32"
  /\ shown.phys \in Word \cup {Nothing} /\ shown.record \in Word \cup {Nothing}
  /\ pc = "returned" /\ ret => phys \in Word

(* What a step may do to the lines. *)
LEMMA LinesStep ==
  ASSUME PagingInv, CmdInv, [V2pNext]_allvars
  PROVE  \/ shown' = shown
         \/ /\ PrintResult
            /\ shown' = [shown EXCEPT !.entries = RowsOf(result),
                                      !.ptes = IF result.kind = "none" THEN @
                                               ELSE VirtPtes(mode, request.arg)]
         \/ PrintAddress /\ shown' = [shown EXCEPT !.phys = phys]
         \/ DumpVirtual /\ shown' = [shown EXCEPT !.record = RecordAddr(pfnBase, pfn)]
         \/ DumpPhysical /\ ret /\ shown' = [shown EXCEPT !.record = phys]
<1>1. CASE PrintResult
  <2>1. virt = request.arg BY <1>1 DEF PrintResult, CmdInv, CallInv
  <2> QED BY <1>1, <2>1 DEF PrintResult
<1>2. CASE PrintAddress \/ DumpVirtual \/ DumpPhysical
  BY <1>2 DEF PrintAddress, DumpVirtual, DumpPhysical, Show
<1>3. CASE \/ Refuse \/ Begin \/ MakePaging \/ CallTranslate \/ Walk \/ OpenDatabase
           \/ TranslateRecord \/ UNCHANGED allvars
  BY <1>3 DEF Refuse, Begin, MakePaging, CallTranslate, Walk, OpenDatabase, TranslateRecord,
              allvars, cmdvars
<1> QED BY <1>1, <1>2, <1>3 DEF V2pNext

LEMMA ReturnedInWord ==
  ASSUME PagingInv, Entered, [V2pNext]_allvars, pc = "returned" /\ ret => phys \in Word
  PROVE  (pc = "returned" /\ ret => phys \in Word)'
<1>1. [Next]_vars BY StepOfPaging
<1>2. CASE Construct
  <2>1. pc' = "ready" BY <1>2 DEF Construct, FromRegisters, FromDirBase, Built
  <2> QED BY <2>1
<1>3. ASSUME NEW v \in VirtAddrs, Translate(v) PROVE (pc = "returned" /\ ret => phys \in Word)'
  <2>1. v \in Word BY VirtAddrsAssumption
  <2> QED BY <1>3, <2>1 DEF Translate
<1>4. CASE WalkStep
  <2>1. pc = "walk" /\ \E w \in Contents : ReadsTo(w) BY <1>4, ReadOutcome DEF PagingInv, Inv
  <2> QED BY <2>1 DEF ReadsTo, Failed, Absent, Maps, PointsToTable, Return
<1>5. CASE UNCHANGED vars BY <1>5 DEF vars
<1> QED BY <1>1, <1>2, <1>3, <1>4, <1>5 DEF Next

LEMMA PrintedInit == V2pInit => PrintedInv /\ PtesInv
<1> SUFFICES ASSUME V2pInit PROVE PrintedInv /\ PtesInv OBVIOUS
<1>1. /\ step = "entered" /\ pfnBase = {} /\ pteBase \in PteBases /\ pc = "new"
      /\ shown.entries = << >> /\ shown.phys = Nothing /\ shown.record = Nothing
      /\ DOMAIN shown.ptes = {}
  BY DEF V2pInit, Init
<1>2. {} \in Word BY DEF Word
<1> QED BY <1>1, <1>2 DEF PrintedInv, PtesInv, Steps

LEMMA PrintedStep ==
  ASSUME PagingInv, CmdInv, Entered, PrintedInv, [V2pNext]_allvars
  PROVE  PrintedInv'
<1>1. step' \in Steps
  BY DEF PrintedInv, Steps, Ended, V2pNext, Refuse, Begin, MakePaging, CallTranslate, Walk,
         PrintResult, PrintAddress, OpenDatabase, DumpVirtual, TranslateRecord, DumpPhysical,
         Goto, allvars, cmdvars
<1>2. pfnBase' \in Word /\ pteBase' \in PteBases
  BY BasesAssumption
  DEF PrintedInv, V2pNext, Refuse, Begin, MakePaging, CallTranslate, Walk, PrintResult,
      PrintAddress, OpenDatabase, DumpVirtual, TranslateRecord, DumpPhysical, allvars, cmdvars
<1>3. (pc = "returned" /\ ret => phys \in Word)' BY ReturnedInWord DEF PrintedInv
<1>4. DOMAIN shown = {"entries", "ptes", "phys", "record"} BY DEF CmdInv, LinesInv, Lines
<1>5. shown'.entries # << >> => mode' = mode
  <2>1. CASE step = "construct"
    <3>1. shown.entries = << >> BY <2>1 DEF CmdInv, LinesInv
    <3>2. shown' = shown BY <2>1, LinesStep DEF PrintResult, PrintAddress, DumpVirtual, DumpPhysical
    <3> QED BY <3>1, <3>2
  <2>2. CASE step # "construct"
    <3>1. WalkStep => mode' = mode BY ReadOutcome DEF PagingInv, Inv
    <3> QED BY <2>2, <3>1
            DEF V2pNext, Refuse, Begin, MakePaging, CallTranslate, Walk, PrintResult, PrintAddress,
                OpenDatabase, DumpVirtual, TranslateRecord, DumpPhysical, Translate, allvars, vars
  <2> QED BY <2>1, <2>2
<1>6. /\ shown'.entries \in Seq(Word \cup {Undefined})
      /\ \A d \in DOMAIN shown'.entries :
           shown'.entries[d] = Undefined => d = 1 /\ mode' = "B32"
      /\ shown'.phys \in Word \cup {Nothing}
      /\ shown'.record \in Word \cup {Nothing}
  <2>0. /\ shown.entries \in Seq(Word \cup {Undefined})
        /\ \A d \in DOMAIN shown.entries :
             shown.entries[d] = Undefined => d = 1 /\ mode = "B32"
        /\ shown.phys \in Word \cup {Nothing}
        /\ shown.record \in Word \cup {Nothing}
    BY DEF PrintedInv
  <2>1. CASE shown' = shown BY <1>5, <2>0, <2>1
  <2>2. CASE /\ PrintResult
             /\ shown' = [shown EXCEPT !.entries = RowsOf(result),
                                       !.ptes = IF result.kind = "none" THEN @
                                                ELSE VirtPtes(mode, request.arg)]
    <3>1. Outcome /\ pc = "returned" /\ mode' = mode
      BY <2>2 DEF PrintResult, CmdInv, CallInv, vars
    <3>2. /\ RowsOf(result) \in Seq(Word \cup {Undefined})
          /\ \A d \in DOMAIN RowsOf(result) :
               RowsOf(result)[d] = Undefined => d = 1 /\ mode = "B32"
      BY <3>1, RowsOfOutcome
    <3>3. /\ shown'.entries = RowsOf(result) /\ shown'.phys = shown.phys
          /\ shown'.record = shown.record
      BY <1>4, <2>2
    <3> QED BY <2>0, <3>1, <3>2, <3>3
  <2>3. CASE PrintAddress /\ shown' = [shown EXCEPT !.phys = phys]
    <3>1. phys \in Word /\ mode' = mode BY <2>3 DEF PrintAddress, CmdInv, CallInv, vars
    <3>2. /\ shown'.entries = shown.entries /\ shown'.phys = phys
          /\ shown'.record = shown.record
      BY <1>4, <2>3
    <3> QED BY <2>0, <3>1, <3>2
  <2>4. CASE DumpVirtual /\ shown' = [shown EXCEPT !.record = RecordAddr(pfnBase, pfn)]
    <3>1. RecordAddr(pfnBase, pfn) \in Word BY WordClosure, 0 \in Nat DEF RecordAddr
    <3>2. mode' = mode BY <2>4 DEF DumpVirtual, vars
    <3>3. /\ shown'.entries = shown.entries /\ shown'.phys = shown.phys
          /\ shown'.record = RecordAddr(pfnBase, pfn)
      BY <1>4, <2>4
    <3> QED BY <2>0, <3>1, <3>2, <3>3
  <2>5. CASE DumpPhysical /\ ret /\ shown' = [shown EXCEPT !.record = phys]
    <3>1. phys \in Word /\ mode' = mode BY <2>5 DEF DumpPhysical, PrintedInv, vars
    <3>2. /\ shown'.entries = shown.entries /\ shown'.phys = shown.phys
          /\ shown'.record = phys
      BY <1>4, <2>5
    <3> QED BY <2>0, <3>1, <3>2
  <2> QED BY <2>1, <2>2, <2>3, <2>4, <2>5, LinesStep
<1> QED BY <1>1, <1>2, <1>3, <1>6 DEF PrintedInv

LEMMA PtesStep ==
  ASSUME PagingInv, CmdInv, Entered, PrintedInv, PtesInv, [V2pNext]_allvars
  PROVE  PtesInv'
<1>0. \A m, v : VirtPtes(m, v)' = VirtPtes(m, v)
  <2>1. pteBase' = pteBase
    BY DEF V2pNext, Refuse, Begin, MakePaging, CallTranslate, Walk, PrintResult, PrintAddress,
           OpenDatabase, DumpVirtual, TranslateRecord, DumpPhysical, allvars, cmdvars
  <2> QED BY <2>1 DEF VirtPtes
<1>1. DOMAIN shown = {"entries", "ptes", "phys", "record"} BY DEF CmdInv, LinesInv, Lines
<1>2. CASE DOMAIN shown'.ptes = {} BY <1>2 DEF PtesInv
<1>3. CASE PrintResult /\ result.kind # "none"
  <2>1. /\ step = "walk" /\ step' \in {"address", "done", "crashed"}
        /\ mode' = mode /\ request' = request /\ request.command = "v2p"
    BY <1>3 DEF PrintResult, Goto, vars, CmdInv, LinesInv
  <2>2. shown' = shown \/ shown'.ptes = VirtPtes(mode, request.arg)
    BY <1>1, <1>3, LinesStep DEF PrintAddress, DumpVirtual, DumpPhysical, PrintResult
  <2> QED BY <1>0, <2>1, <2>2 DEF PtesInv
<1>4. CASE /\ DOMAIN shown'.ptes # {} /\ ~(PrintResult /\ result.kind # "none")
  <2>1. shown'.ptes = shown.ptes BY <1>1, <1>4, LinesStep
  <2>2. /\ shown.ptes = VirtPtes(mode, request.arg) /\ request.command = "v2p"
        /\ step \notin {"entered", "construct"}
    BY <1>4, <2>1 DEF PtesInv
  <2>3. step' \notin {"entered", "construct"} /\ mode' = mode /\ request' = request
    <3>1. ~Begin /\ ~MakePaging BY <2>2 DEF Begin, MakePaging
    <3>2. WalkStep => mode' = mode BY ReadOutcome DEF PagingInv, Inv
    <3> QED BY <2>2, <3>1, <3>2
            DEF V2pNext, Refuse, CallTranslate, Walk, PrintResult, PrintAddress, OpenDatabase,
                DumpVirtual, TranslateRecord, DumpPhysical, Goto, Translate, allvars, cmdvars, vars
  <2> QED BY <1>0, <2>1, <2>2, <2>3 DEF PtesInv
<1> QED BY <1>2, <1>3, <1>4

LEMMA LinesInvariant == V2pSpec => [](Entered /\ PagingInv /\ CmdInv /\ PrintedInv /\ PtesInv)
<1> DEFINE Whole == Entered /\ PagingInv /\ CmdInv
           Lined == PrintedInv /\ PtesInv
<1>1. V2pInit => Lined BY PrintedInit
<1>2. Whole /\ Lined /\ [V2pNext]_allvars => Lined' BY PrintedStep, PtesStep
<1>3. V2pSpec => []Whole BY CommandInvariant
<1> QED BY <1>1, <1>2, <1>3, PTL DEF V2pSpec

(* The virtual address printed next to every entry, at every level and for *)
(* every base of the page tables that the kernel can choose, leads through *)
(* the self-map slot to that entry (GetPageTableHierarchyForVirtual).      *)
THEOREM AddressesMapEntries == V2pSpec => []SelfMapAddresses
<1>1. Entered /\ PagingInv /\ PrintedInv /\ PtesInv => SelfMapAddresses
  <2> SUFFICES ASSUME Entered, PagingInv, PrintedInv, PtesInv PROVE SelfMapAddresses OBVIOUS
  <2>1. mode \in Modes /\ request.arg \in Word /\ pteBase \in Word
    BY BasesAssumption DEF Entered, Request, PagingInv, Inv, TypeOK, PrintedInv
  <2> QED BY <2>1, VirtPtesMap DEF SelfMapAddresses, PtesInv
<1> QED BY <1>1, LinesInvariant, PTL

(* What a command prints are 64-bit words, whichever reads failed: never   *)
(* the uninitialized phys, and no row that is not an entry but that of the *)
(* page directory in 32-bit paging, which is undefined.                    *)
THEOREM LinesAreTyped == V2pSpec => []V2pTypeOK
<1>1. Entered /\ PagingInv /\ PrintedInv /\ PtesInv => V2pTypeOK
  <2> SUFFICES ASSUME Entered, PagingInv, PrintedInv, PtesInv PROVE V2pTypeOK OBVIOUS
  <2>1. mode \in Modes /\ request.arg \in Word /\ pteBase \in Word
    BY BasesAssumption DEF Entered, Request, PagingInv, Inv, TypeOK, PrintedInv
  <2>2. \A d \in DOMAIN shown.ptes : d \in 0 .. 4 /\ shown.ptes[d] \in Word
    BY <2>1, VirtPtesMap DEF PtesInv
  <2>3. TypeOK /\ request \in Request BY DEF Entered, PagingInv, Inv
  <2> QED BY <2>2, <2>3 DEF V2pTypeOK, PrintedInv, Steps
<1> QED BY <1>1, LinesInvariant, PTL
=============================================================================
