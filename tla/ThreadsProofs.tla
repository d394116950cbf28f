--------------------------- MODULE ThreadsProofs ---------------------------
(***************************************************************************)
(* Proofs about Threads, for every list of threads, any number of changes  *)
(* and of calls that fail, and every count a failed call may leave.        *)
(***************************************************************************)
EXTENDS Threads, SequenceTheorems, TLAPS

(***************************************************************************)
(* The inductive invariant.  Restoring: until the first switch the thread  *)
(* is the one the command began on, and what it saved is that one, or the  *)
(* call that saves it has failed.  Listing: the rows are those of the      *)
(* threads before cmd.i, and the list is the engine's.  OwnRows: each row  *)
(* shows its own thread, where no call failed for it.                      *)
(***************************************************************************)
Cmd == [all: BOOLEAN, original_index: SUBSET Ids, n: Nat, indexes: Seq(Nat), i: Nat]
Address == {Null, Garbage} \cup {Teb(t) : t \in Ids} \cup {Teb32(t) : t \in Ids}
Row == [id: Nat, base: Address, tlshead: Nat]

Typed ==
  /\ CacheTypeOK /\ cmd \in Cmd /\ current \in Ids /\ began \in Ids /\ rows \in Seq(Row)
  /\ step \in {"idle", "one", "save", "count", "list", "switch", "show"}

Saved == <<"GetCurrentThreadId">> \in failed \/ cmd.original_index = {began}

Restoring ==
  /\ step = "idle" => ThreadRestored
  /\ step \in {"one", "save", "count", "list"} => current = began
  /\ step \in {"count", "list", "switch", "show"} => Saved

Answered == failed \cap {<<"GetNumberThreads">>, <<"GetThreadIdsByIndex">>} = {}

Listing ==
  /\ step \in {"one", "save", "count", "list"} => rows = << >>
  /\ step \in {"one", "save", "count", "list"} => cmd.indexes = << >> /\ cmd.i = 0
  /\ step = "one" => ~cmd.all
  /\ step = "list" => <<"GetNumberThreads">> \in failed \/ cmd.n = Len(ThreadList)
  /\ step \in {"switch", "show"} =>
       /\ Len(cmd.indexes) = cmd.n /\ cmd.i \in 1 .. cmd.n + 1 /\ Len(rows) = cmd.i - 1
       /\ \A j \in 1 .. Len(rows) : rows[j].id = cmd.indexes[j]
       /\ Answered => cmd.indexes = ThreadList
  /\ step = "show" => /\ cmd.i <= cmd.n
                      /\ <<"switch", cmd.i>> \in failed \/ current = cmd.indexes[cmd.i]
  /\ step = "idle" /\ cmd.all /\ <<"DebugCreate">> \notin failed /\ Answered =>
       Len(rows) = Len(ThreadList) /\ \A j \in 1 .. Len(rows) : rows[j].id = ThreadList[j]
  /\ step = "idle" => Len(cmd.indexes) \in {0, cmd.n} /\ cmd.i \in 0 .. cmd.n + 1

OwnRows ==
  \A i \in 1 .. Len(rows) :
    <<"switch", i>> \notin failed /\ <<"teb", rows[i].id>> \notin failed => OwnTeb(rows[i])

ThreadsInv == Typed /\ Restoring /\ Listing /\ OwnRows

(***************************************************************************)
(* The caches.                                                             *)
(***************************************************************************)
LEMMA LookupTyped ==
  ASSUME CacheTypeOK, NEW f \in Fields, get_field_offset(f)
  PROVE  CacheTypeOK' /\ Offset(f) \in Nat
<1>1. OffsetIn[build][f] \in Nat BY OffsetInAssumption DEF CacheTypeOK
<1>2. offset_map_' = [n \in DOMAIN offset_map_ \cup {f} |->
                        IF n \in DOMAIN offset_map_ THEN offset_map_[n] ELSE OffsetIn[build][f]]
      /\ UNCHANGED <<build, field_info_map_>>
  BY DEF get_field_offset, Kept, full_symbol_name
<1>3. DOMAIN offset_map_' \subseteq Fields /\ \A n \in DOMAIN offset_map_' : offset_map_'[n] \in Nat
  BY <1>1, <1>2 DEF CacheTypeOK
<1>4. asked' \in [Questions -> Nat]
  <2>1. asked' = [asked EXCEPT ![<<"offset", f>>] = IF Found(offset_map_, f) THEN @ ELSE @ + 1]
    BY DEF get_field_offset, Ask
  <2>2. <<"offset", f>> \in Questions BY DEF Questions
  <2>3. asked \in [Questions -> Nat] BY DEF CacheTypeOK
  <2>4. asked[<<"offset", f>>] \in Nat BY <2>2, <2>3
  <2> QED BY <2>1, <2>2, <2>3, <2>4
<1>5. Offset(f) \in Nat BY <1>2, <1>3 DEF Offset, full_symbol_name
<1> QED BY <1>2, <1>3, <1>4, <1>5 DEF CacheTypeOK

LEMMA ReloadTyped ==
  ASSUME CacheTypeOK, Reload \/ UNCHANGED cachevars
  PROVE  CacheTypeOK'
BY DEF CacheTypeOK, Reload, cachevars

LEMMA TlsFieldIsField == TlsField \in Fields
BY FieldsAssumption DEF TlsField

(***************************************************************************)
(* A row.                                                                  *)
(***************************************************************************)
LEMMA ShowsRow ==
  ASSUME Typed, NEW id \in Nat, ShowThread(id)
  PROVE  /\ CacheTypeOK' /\ failed \subseteq failed'
         /\ \E r \in Row :
              /\ rows' = Append(rows, r) /\ r.id = id
              /\ current = id /\ <<"teb", id>> \notin failed' => OwnTeb(r)
<1>1. CacheTypeOK' /\ Offset(TlsField) \in Nat
  BY LookupTyped, TlsFieldIsField DEF ShowThread, Typed
<1>2. PICK teb \in {Teb(current), Garbage} :
        /\ IF teb = Garbage THEN Fail(<<"teb", id>>) ELSE UNCHANGED failed
        /\ \E base \in GetTeb(teb) :
             rows' = Append(rows, [id |-> id, base |-> base, tlshead |-> Offset(TlsField)])
  BY DEF ShowThread
<1>3. PICK base \in GetTeb(teb) :
        rows' = Append(rows, [id |-> id, base |-> base, tlshead |-> Offset(TlsField)])
  BY <1>2
<1> DEFINE r == [id |-> id, base |-> base, tlshead |-> Offset(TlsField)]
<1>4. failed \subseteq failed' /\ (teb = Garbage => <<"teb", id>> \in failed')
  BY <1>2 DEF Fail, FailIf
<1>5. Teb(current)[2] = current /\ current \in Ids BY DEF Teb, Typed
<1>6. base \in Address BY <1>2, <1>3, <1>5 DEF GetTeb, Address
<1>7. r \in Row BY <1>1, <1>6 DEF Row
<1>8. ASSUME current = id, <<"teb", id>> \notin failed' PROVE OwnTeb(r)
  <2>1. teb = Teb(current) /\ teb # Garbage BY <1>2, <1>4, <1>8
  <2>2. base \in {Null, IF is32on64(target) THEN Teb32(id) ELSE Teb(id)}
    BY <1>3, <1>5, <1>8, <2>1 DEF GetTeb
  <2>3. r.base = base /\ r.id = id OBVIOUS
  <2> HIDE DEF r
  <2> QED BY <2>2, <2>3 DEF OwnTeb
<1>9. r.id = id OBVIOUS
<1> HIDE DEF r
<1>10. rows' = Append(rows, r) BY <1>3 DEF r
<1> QED BY <1>1, <1>4, <1>7, <1>8, <1>9, <1>10

LEMMA AppendRow ==
  ASSUME rows \in Seq(Row), NEW r \in Row, rows' = Append(rows, r)
  PROVE  /\ rows' \in Seq(Row) /\ Len(rows) \in Nat /\ Len(rows') = Len(rows) + 1
         /\ rows'[Len(rows) + 1] = r /\ \A j \in 1 .. Len(rows) : rows'[j] = rows[j]
         /\ \A j \in 1 .. Len(rows') : j \in 1 .. Len(rows) \/ j = Len(rows) + 1
<1>1. /\ rows' \in Seq(Row) /\ Len(rows) \in Nat /\ Len(rows') = Len(rows) + 1
      /\ rows'[Len(rows) + 1] = r /\ \A j \in 1 .. Len(rows) : rows'[j] = rows[j]
  BY AppendProperties, LenProperties
<1> QED BY <1>1

LEMMA OwnRowsAppend ==
  ASSUME OwnRows, rows \in Seq(Row), NEW r \in Row, rows' = Append(rows, r),
         failed \subseteq failed', target' = target,
         <<"switch", Len(rows) + 1>> \notin failed' /\ <<"teb", r.id>> \notin failed' => OwnTeb(r)
  PROVE  OwnRows'
<1>1. ASSUME NEW j \in 1 .. Len(rows'),
             <<"switch", j>> \notin failed', <<"teb", rows'[j].id>> \notin failed'
      PROVE  OwnTeb(rows'[j])
  <2>1. CASE j \in 1 .. Len(rows)
    <3>1. rows'[j] = rows[j] BY <2>1, AppendRow
    <3>2. <<"switch", j>> \notin failed /\ <<"teb", rows[j].id>> \notin failed BY <1>1, <3>1
    <3> QED BY <2>1, <3>1, <3>2 DEF OwnRows
  <2>2. CASE j = Len(rows) + 1 BY <1>1, <2>2, AppendRow
  <2> QED BY <2>1, <2>2, AppendRow
<1> QED BY <1>1 DEF OwnRows, OwnTeb, is32on64

(* Rows that stay keep their promise. *)
LEMMA OwnRowsStay ==
  ASSUME OwnRows, rows' = rows, failed \subseteq failed', target' = target
  PROVE  OwnRows'
BY DEF OwnRows, OwnTeb

LEMMA NoRows ==
  ASSUME rows' = << >>
  PROVE  OwnRows' /\ rows' \in Seq(Row) /\ Len(rows') = 0
<1>1. Len(<< >>) = 0 /\ << >> \in Seq(Row) BY EmptySeq
<1> QED BY <1>1 DEF OwnRows

LEMMA NoCmdTyped == NoCmd \in Cmd /\ [NoCmd EXCEPT !.all = TRUE] \in Cmd /\ Len(<< >>) = 0
BY EmptySeq DEF NoCmd, Cmd

LEMMA IdsAreNumbers == Ids \subseteq Nat
BY ThreadListAssumption DEF Ids

(***************************************************************************)
(* The steps between the commands, and the command without -all.           *)
(***************************************************************************)
LEMMA ThreadsInvInit == Init => ThreadsInv
<1> SUFFICES ASSUME Init PROVE ThreadsInv OBVIOUS
<1>1. CacheTypeOK
  <2>1. asked \in [Questions -> Nat] BY DEF Init, CacheInit
  <2> QED BY <2>1 DEF Init, CacheInit, CacheTypeOK
<1>2. rows = << >> /\ Len(rows) = 0 /\ rows \in Seq(Row) BY EmptySeq DEF Init
<1>3. Typed BY <1>1, <1>2, NoCmdTyped DEF Init, Typed
<1>4. Restoring BY DEF Init, Restoring, ThreadRestored
<1>5. Listing BY <1>2, NoCmdTyped DEF Init, Listing, NoCmd
<1>6. OwnRows BY <1>2 DEF OwnRows
<1> QED BY <1>3, <1>4, <1>5, <1>6 DEF ThreadsInv

LEMMA TsStep == ASSUME ThreadsInv, Ts PROVE ThreadsInv'
<1>1. rows' = << >> /\ OwnRows' /\ rows' \in Seq(Row) /\ Len(rows') = 0 BY NoRows DEF Ts
<1>2. CacheTypeOK' BY ReloadTyped DEF Ts, ThreadsInv, Typed
<1>3. Typed' BY <1>1, <1>2, NoCmdTyped DEF Ts, Goto, ThreadsInv, Typed, Ids
<1>4. Restoring' BY DEF Ts, Goto, Restoring
<1>5. Listing' BY <1>1 DEF Ts, Goto, Listing, NoCmd
<1> QED BY <1>1, <1>3, <1>4, <1>5 DEF ThreadsInv

LEMMA TsAllStep == ASSUME ThreadsInv, TsAll PROVE ThreadsInv'
<1>1. rows' = << >> /\ OwnRows' /\ rows' \in Seq(Row) /\ Len(rows') = 0 BY NoRows DEF TsAll
<1>2. CacheTypeOK' BY ReloadTyped DEF TsAll, ThreadsInv, Typed
<1>3. Typed' BY <1>1, <1>2, NoCmdTyped DEF TsAll, Goto, ThreadsInv, Typed
<1>4. Restoring' BY DEF TsAll, Goto, Restoring, ThreadRestored
<1>5. cmd'.indexes = << >> /\ cmd'.i = 0 /\ Len(cmd'.indexes) = 0 /\ cmd'.n = 0
  BY NoCmdTyped DEF TsAll, NoCmd
<1>6. Listing' BY <1>1, <1>5 DEF TsAll, Goto, Listing
<1> QED BY <1>1, <1>3, <1>4, <1>6 DEF ThreadsInv

LEMMA ChangeStep == ASSUME ThreadsInv, Change PROVE ThreadsInv'
<1>1. rows' = << >> /\ OwnRows' /\ rows' \in Seq(Row) /\ Len(rows') = 0 BY NoRows DEF Change
<1>2. CacheTypeOK' BY ReloadTyped DEF Change, ThreadsInv, Typed, cachevars
<1>3. Typed' BY <1>1, <1>2, NoCmdTyped DEF Change, ThreadsInv, Typed
<1>4. Restoring' BY DEF Change, Restoring, ThreadRestored
<1>5. Listing' BY <1>1, NoCmdTyped DEF Change, Listing, NoCmd
<1> QED BY <1>1, <1>3, <1>4, <1>5 DEF ThreadsInv

LEMMA OneStep == ASSUME ThreadsInv, One PROVE ThreadsInv'
<1>1. current \in Nat /\ Len(<< >>) = 0 BY IdsAreNumbers, EmptySeq DEF ThreadsInv, Typed
<1>2. PICK r \in Row : /\ rows' = Append(rows, r) /\ r.id = current
                       /\ <<"teb", current>> \notin failed' => OwnTeb(r)
  BY <1>1, ShowsRow DEF One, ThreadsInv
<1>3. CacheTypeOK' /\ failed \subseteq failed' BY <1>1, ShowsRow DEF One, ThreadsInv
<1>4. OwnRows' BY <1>2, <1>3, OwnRowsAppend DEF One, ThreadsInv, Typed
<1>5. rows' \in Seq(Row) BY <1>2, AppendRow DEF ThreadsInv, Typed
<1>6. Typed' BY <1>3, <1>5 DEF One, Goto, ThreadsInv, Typed
<1>7. Restoring' BY DEF One, Goto, ThreadsInv, Restoring, ThreadRestored
<1>8. Listing'
  <2>1. ~cmd.all /\ cmd.indexes = << >> /\ cmd.i = 0 /\ cmd.n \in Nat
    BY DEF One, ThreadsInv, Typed, Cmd, Listing
  <2> QED BY <1>1, <2>1 DEF One, Goto, Listing
<1> QED BY <1>4, <1>6, <1>7, <1>8 DEF ThreadsInv

(***************************************************************************)
(* The steps of forEachThread.                                             *)
(***************************************************************************)
LEMMA GetCurrentThreadIdStep == ASSUME ThreadsInv, GetCurrentThreadId PROVE ThreadsInv'
<1>1. failed \subseteq failed' BY DEF GetCurrentThreadId, Fail, FailIf
<1>2. CacheTypeOK' BY ReloadTyped DEF GetCurrentThreadId, ThreadsInv, Typed
<1>3. cmd' = [cmd EXCEPT !.original_index = {current}] \/ cmd' = cmd
  BY DEF GetCurrentThreadId, Set
<1>4. cmd' \in Cmd /\ cmd'.indexes = cmd.indexes /\ cmd'.i = cmd.i
  BY <1>3 DEF ThreadsInv, Typed, Cmd
<1>5. Typed' BY <1>2, <1>4 DEF GetCurrentThreadId, Goto, ThreadsInv, Typed
<1>6. cmd'.original_index = {current} \/ <<"GetCurrentThreadId">> \in failed'
  BY DEF GetCurrentThreadId, Set, Fail, FailIf, ThreadsInv, Typed, Cmd
<1>7. current = began BY DEF GetCurrentThreadId, ThreadsInv, Restoring
<1>8. Restoring' BY <1>6, <1>7 DEF GetCurrentThreadId, Goto, Restoring, Saved
<1>9. Listing' BY <1>4 DEF GetCurrentThreadId, Goto, ThreadsInv, Listing
<1>10. OwnRows' BY <1>1, OwnRowsStay DEF GetCurrentThreadId, ThreadsInv
<1> QED BY <1>5, <1>8, <1>9, <1>10 DEF ThreadsInv

LEMMA GetNumberThreadsStep == ASSUME ThreadsInv, GetNumberThreads PROVE ThreadsInv'
<1>1. failed \subseteq failed' BY DEF GetNumberThreads, Fail, FailIf
<1>2. CacheTypeOK' BY ReloadTyped DEF GetNumberThreads, ThreadsInv, Typed
<1>3. \/ /\ step' = "list"
         /\ \E n \in Nat : /\ cmd' = [cmd EXCEPT !.n = n]
                           /\ <<"GetNumberThreads">> \in failed' \/ n = Len(ThreadList)
      \/ step' = "idle" /\ cmd' = cmd /\ <<"GetNumberThreads">> \in failed'
  <2>1. Len(ThreadList) \in Nat BY ThreadListAssumption, LenProperties
  <2>2. MaxGarbage \in Nat BY BoundsAssumption
  <2>3. \A n \in 0 .. MaxGarbage : n \in Nat BY <2>2
  <2> QED BY <2>1, <2>3 DEF GetNumberThreads, Set, Goto, Fail, FailIf
<1>4. /\ cmd' \in Cmd /\ cmd'.indexes = cmd.indexes /\ cmd'.i = cmd.i /\ cmd'.all = cmd.all
      /\ cmd'.original_index = cmd.original_index
  BY <1>3 DEF ThreadsInv, Typed, Cmd
<1>5. Typed' BY <1>2, <1>3, <1>4 DEF GetNumberThreads, ThreadsInv, Typed
<1>6. current = began /\ Saved BY DEF GetNumberThreads, ThreadsInv, Restoring
<1>7. Restoring'
  BY <1>1, <1>3, <1>4, <1>6 DEF GetNumberThreads, Restoring, Saved, ThreadRestored
<1>8. Listing'
  <2>1. rows = << >> /\ cmd.indexes = << >> /\ cmd.i = 0
    BY DEF GetNumberThreads, ThreadsInv, Listing
  <2>2. CASE step' = "list"
    <3>1. <<"GetNumberThreads">> \in failed' \/ cmd'.n = Len(ThreadList)
      BY <1>3, <2>2 DEF ThreadsInv, Typed, Cmd
    <3> QED BY <1>4, <2>1, <2>2, <3>1 DEF GetNumberThreads, Listing
  <2>3. CASE step' = "idle"
    <3>1. cmd' = cmd /\ ~Answered' BY <1>3, <2>3 DEF Answered
    <3>2. cmd.n \in Nat /\ Len(<< >>) = 0 BY EmptySeq DEF ThreadsInv, Typed, Cmd
    <3> QED BY <2>1, <2>3, <3>1, <3>2 DEF Listing
  <2> QED BY <1>3, <2>2, <2>3
<1>9. OwnRows' BY <1>1, OwnRowsStay DEF GetNumberThreads, ThreadsInv
<1> QED BY <1>5, <1>7, <1>8, <1>9 DEF ThreadsInv

LEMMA ListOfIds ==
  ASSUME NEW n \in Nat
  PROVE  /\ [j \in 1 .. n |-> 0] \in Seq(Nat) /\ Len([j \in 1 .. n |-> 0]) = n
         /\ n <= Len(ThreadList) => /\ SubSeq(ThreadList, 1, n) \in Seq(Nat)
                                    /\ Len(SubSeq(ThreadList, 1, n)) = n
         /\ SubSeq(ThreadList, 1, Len(ThreadList)) = ThreadList
<1>1. [j \in 1 .. n |-> 0] \in Seq(Nat) /\ Len([j \in 1 .. n |-> 0]) = n OBVIOUS
<1>2. Len(ThreadList) \in Nat /\ ThreadList \in Seq(Nat) BY ThreadListAssumption, LenProperties
<1>3. ASSUME n <= Len(ThreadList)
      PROVE  SubSeq(ThreadList, 1, n) \in Seq(Nat) /\ Len(SubSeq(ThreadList, 1, n)) = n
  BY <1>2, <1>3, SubSeqProperties
<1>4. SubSeq(ThreadList, 1, Len(ThreadList)) = ThreadList BY <1>2, SubSeqFull
<1> QED BY <1>1, <1>3, <1>4

LEMMA GetThreadIdsByIndexStep == ASSUME ThreadsInv, GetThreadIdsByIndex PROVE ThreadsInv'
<1>1. failed \subseteq failed' BY DEF GetThreadIdsByIndex, FailIf
<1>2. CacheTypeOK' BY ReloadTyped DEF GetThreadIdsByIndex, ThreadsInv, Typed
<1>3. cmd \in Cmd /\ cmd.n \in Nat BY DEF ThreadsInv, Typed, Cmd
<1>4. PICK list \in Seq(Nat) :
        /\ cmd' = [cmd EXCEPT !.indexes = list, !.i = 1] /\ Len(list) = cmd.n
        /\ \/ cmd.n <= Len(ThreadList) /\ list = SubSeq(ThreadList, 1, cmd.n) /\ failed' = failed
           \/ <<"GetThreadIdsByIndex">> \in failed'
  BY <1>3, ListOfIds DEF GetThreadIdsByIndex, FailIf
<1>5. /\ cmd' \in Cmd /\ cmd'.indexes = list /\ cmd'.i = 1 /\ cmd'.n = cmd.n
      /\ cmd'.original_index = cmd.original_index
  BY <1>3, <1>4 DEF Cmd
<1>6. Typed' BY <1>2, <1>5 DEF GetThreadIdsByIndex, Goto, ThreadsInv, Typed
<1>7. Restoring' BY <1>1, <1>5 DEF GetThreadIdsByIndex, Goto, ThreadsInv, Restoring, Saved
<1>8. Answered' => list = ThreadList
  BY <1>1, <1>3, <1>4, ListOfIds DEF Answered, GetThreadIdsByIndex, ThreadsInv, Listing
<1>9. Listing'
  <2>1. rows = << >> /\ Len(rows) = 0 BY EmptySeq DEF GetThreadIdsByIndex, ThreadsInv, Listing
  <2> QED BY <1>3, <1>4, <1>5, <1>8, <2>1 DEF GetThreadIdsByIndex, Goto, Listing
<1>10. OwnRows' BY <1>1, OwnRowsStay DEF GetThreadIdsByIndex, ThreadsInv
<1> QED BY <1>6, <1>7, <1>9, <1>10 DEF ThreadsInv

LEMMA SwitchStep == ASSUME ThreadsInv, Switch PROVE ThreadsInv'
<1>1. /\ failed \subseteq failed' /\ current' \in Ids
      /\ <<"switch", cmd.i>> \in failed' \/ current' = cmd.indexes[cmd.i]
  BY DEF Switch, SetCurrentThreadId, FailIf, ThreadsInv, Typed
<1>2. CacheTypeOK' BY ReloadTyped DEF Switch, ThreadsInv, Typed
<1>3. Typed' BY <1>1, <1>2 DEF Switch, Goto, ThreadsInv, Typed, Ids
<1>4. Restoring' BY <1>1 DEF Switch, Goto, ThreadsInv, Restoring, Saved
<1>5. Answered' => Answered BY <1>1 DEF Answered
<1>6. Listing' BY <1>1, <1>5 DEF Switch, Goto, ThreadsInv, Listing
<1>7. OwnRows' BY <1>1, OwnRowsStay DEF Switch, ThreadsInv
<1> QED BY <1>3, <1>4, <1>6, <1>7 DEF ThreadsInv

LEMMA CallbackStep == ASSUME ThreadsInv, Callback PROVE ThreadsInv'
<1> DEFINE id == cmd.indexes[cmd.i]
<1>1. /\ cmd \in Cmd /\ cmd.i \in 1 .. cmd.n /\ Len(cmd.indexes) = cmd.n /\ Len(rows) = cmd.i - 1
      /\ cmd.n \in Nat /\ rows \in Seq(Row) /\ OwnRows
      /\ <<"switch", cmd.i>> \in failed \/ current = id
  BY DEF Callback, ThreadsInv, Typed, Listing, Cmd
<1>2. id \in Nat BY <1>1, ElementOfSeq DEF Cmd
<1> HIDE DEF id
<1>3. PICK r \in Row : /\ rows' = Append(rows, r) /\ r.id = id
                       /\ current = id /\ <<"teb", id>> \notin failed' => OwnTeb(r)
  BY <1>2, ShowsRow DEF Callback, ThreadsInv, id
<1>4. CacheTypeOK' /\ failed \subseteq failed' BY <1>2, ShowsRow DEF Callback, ThreadsInv, id
<1>5. OwnRows'
  <2>1. <<"switch", Len(rows) + 1>> \notin failed' /\ <<"teb", r.id>> \notin failed' => OwnTeb(r)
    <3>1. Len(rows) + 1 = cmd.i BY <1>1
    <3> QED BY <1>1, <1>3, <1>4, <3>1
  <2>2. target' = target BY DEF Callback
  <2> QED BY <1>1, <1>3, <1>4, <2>1, <2>2, OwnRowsAppend
<1>6. /\ cmd' \in Cmd /\ cmd'.i = cmd.i + 1 /\ cmd'.n = cmd.n /\ cmd'.indexes = cmd.indexes
      /\ cmd'.original_index = cmd.original_index
  <2>1. cmd' = [cmd EXCEPT !.i = cmd.i + 1] BY DEF Callback, Set
  <2>2. cmd.i + 1 \in Nat BY <1>1
  <2> QED BY <1>1, <2>1, <2>2 DEF Cmd
<1>7. /\ rows' \in Seq(Row) /\ Len(rows') = cmd.i /\ rows'[cmd.i].id = id
      /\ \A j \in 1 .. cmd.i - 1 : rows'[j] = rows[j]
  BY <1>1, <1>3, AppendRow
<1>8. Typed' BY <1>4, <1>6, <1>7 DEF Callback, Goto, ThreadsInv, Typed
<1>9. Restoring' BY <1>4, <1>6 DEF Callback, Goto, ThreadsInv, Restoring, Saved
<1>10. \A j \in 1 .. Len(rows') : rows'[j].id = cmd'.indexes[j]
  <2>1. \A j \in 1 .. cmd.i - 1 : rows[j].id = cmd.indexes[j]
    BY <1>1 DEF Callback, ThreadsInv, Listing
  <2>2. \A j \in 1 .. cmd.i : j \in 1 .. cmd.i - 1 \/ j = cmd.i BY <1>1
  <2> QED BY <1>6, <1>7, <2>1, <2>2 DEF id
<1>11. Answered' => cmd'.indexes = ThreadList
  <2>1. Answered' => Answered BY <1>4 DEF Answered
  <2> QED BY <1>6, <2>1 DEF Callback, ThreadsInv, Listing
<1>12. Listing' BY <1>1, <1>6, <1>7, <1>10, <1>11, SMTT(30) DEF Callback, Goto, Listing
<1> QED BY <1>5, <1>8, <1>9, <1>12 DEF ThreadsInv

LEMMA RestoreStep == ASSUME ThreadsInv, Restore PROVE ThreadsInv'
<1>1. failed \subseteq failed' /\ current' \in Ids
  BY DEF Restore, SetCurrentThreadId, FailIf, ThreadsInv, Typed
<1>2. CacheTypeOK' BY ReloadTyped DEF Restore, ThreadsInv, Typed
<1>3. Typed' BY <1>1, <1>2 DEF Restore, Goto, ThreadsInv, Typed, Ids
<1>4. <<"GetCurrentThreadId">> \in failed' \/ <<"restore">> \in failed' \/ current' = began
  <2>1. CASE cmd.original_index = {began}
    BY <2>1 DEF Restore, SetCurrentThreadId, FailIf
  <2>2. CASE <<"GetCurrentThreadId">> \in failed BY <1>1, <2>2
  <2> QED BY <2>1, <2>2 DEF Restore, ThreadsInv, Restoring, Saved
<1>5. Restoring' BY <1>4 DEF Restore, Goto, Restoring, ThreadRestored
<1>6. /\ Len(cmd.indexes) = cmd.n /\ cmd.i = cmd.n + 1 /\ Len(rows) = cmd.n /\ cmd.n \in Nat
      /\ \A j \in 1 .. Len(rows) : rows[j].id = cmd.indexes[j]
      /\ Answered' => cmd.indexes = ThreadList
  BY <1>1 DEF Restore, ThreadsInv, Typed, Cmd, Listing, Answered
<1>7. Listing' BY <1>6 DEF Restore, Goto, Listing
<1>8. OwnRows' BY <1>1, OwnRowsStay DEF Restore, ThreadsInv
<1> QED BY <1>3, <1>5, <1>7, <1>8 DEF ThreadsInv

LEMMA StutterStep == ASSUME ThreadsInv, UNCHANGED vars PROVE ThreadsInv'
<1>1. CacheTypeOK' BY ReloadTyped DEF vars, ThreadsInv, Typed
<1>2. Typed' BY <1>1 DEF vars, tvars, ThreadsInv, Typed
<1>3. Restoring' BY DEF vars, tvars, ThreadsInv, Restoring, ThreadRestored, Saved
<1>4. Listing' BY DEF vars, tvars, ThreadsInv, Listing, Answered
<1>5. OwnRows' BY OwnRowsStay DEF vars, tvars, ThreadsInv
<1> QED BY <1>2, <1>3, <1>4, <1>5 DEF ThreadsInv

LEMMA ThreadsInvHolds == Spec => []ThreadsInv
<1>1. ThreadsInv /\ [Next]_vars => ThreadsInv'
  BY TsStep, TsAllStep, OneStep, GetCurrentThreadIdStep, GetNumberThreadsStep,
     GetThreadIdsByIndexStep, SwitchStep, CallbackStep, RestoreStep, ChangeStep, StutterStep
     DEF Next, Proceed
<1> QED BY <1>1, ThreadsInvInit, PTL DEF Spec

(***************************************************************************)
(* The theorems.                                                           *)
(***************************************************************************)

(* The locals of forEachThread and the rows of !ts stay well typed: the    *)
(* loop never reads beyond the vectors, whatever count a failed            *)
(* GetNumberThreads leaves.                                                *)
THEOREM ThreadsTyped == Spec => []TypeOK
<1>1. ThreadsInv => TypeOK
  <2> SUFFICES ASSUME ThreadsInv PROVE TypeOK OBVIOUS
  <2>1. cmd.original_index \subseteq Ids /\ cmd.n \in Nat BY DEF ThreadsInv, Typed, Cmd
  <2>2. Len(<< >>) = 0 BY EmptySeq
  <2>3. Len(cmd.indexes) \in {0, cmd.n} /\ cmd.i \in 0 .. cmd.n + 1
    BY <2>1, <2>2 DEF ThreadsInv, Typed, Listing
  <2> QED BY <2>1, <2>3 DEF ThreadsInv, Typed, TypeOK
<1> QED BY <1>1, ThreadsInvHolds, PTL

(* Every !ts leaves the debugger on the thread it was on, unless the       *)
(* engine would not say which one that is or refuses to go back.           *)
THEOREM ThreadIsRestored == Spec => []ThreadRestored
<1>1. ThreadsInv => ThreadRestored BY DEF ThreadsInv, Restoring, ThreadRestored
<1> QED BY <1>1, ThreadsInvHolds, PTL

(* Each row of !ts -all shows the TEB of the thread it names, and the list *)
(* is that of the engine, in its order, however many threads there are.    *)
THEOREM ListingIsOfThreads == Spec => []RowsAreThreads
<1>1. ThreadsInv => RowsAreThreads
  <2> SUFFICES ASSUME ThreadsInv PROVE RowsAreThreads OBVIOUS
  <2>1. ASSUME step = "idle" /\ cmd.all,
               failed \cap {<<"DebugCreate">>, <<"GetNumberThreads">>, <<"GetThreadIdsByIndex">>} = {}
        PROVE  [i \in 1 .. Len(rows) |-> rows[i].id] = ThreadList
    <3> DEFINE names == [i \in 1 .. Len(rows) |-> rows[i].id]
    <3>1. Len(rows) = Len(ThreadList) /\ \A j \in 1 .. Len(rows) : rows[j].id = ThreadList[j]
      BY <2>1 DEF ThreadsInv, Listing, Answered
    <3>2. Len(rows) \in Nat /\ rows \in Seq(Row) BY LenProperties DEF ThreadsInv, Typed
    <3>3. \A j \in 1 .. Len(rows) : rows[j].id \in Nat
      <4>1. \A j \in 1 .. Len(rows) : rows[j] \in Row BY <3>2, ElementOfSeq
      <4> QED BY <4>1 DEF Row
    <3>4. names \in Seq(Nat) /\ Len(names) = Len(rows) BY <3>2, <3>3
    <3>5. \A j \in 1 .. Len(names) : names[j] = ThreadList[j] BY <3>1, <3>4
    <3> HIDE DEF names
    <3>6. names = ThreadList BY <3>1, <3>4, <3>5, SeqEqual, ThreadListAssumption
    <3> QED BY <3>6 DEF names
  <2> QED BY <2>1 DEF RowsAreThreads, ThreadsInv, OwnRows
<1> QED BY <1>1, ThreadsInvHolds, PTL

(***************************************************************************)
(* Which layout a TEB is read with.  The processor types were those of one *)
(* machine, if both were read, and no command changes them: so the only    *)
(* field ever asked for is TlsField, the cache keeps its first answer, and *)
(* each row shows that; and the kind of TEB a row has follows from the     *)
(* same types.                                                             *)
(***************************************************************************)
BothRead == "0" \notin {target.actualProcessorType, target.effectiveProcessorType}

TargetRead ==
  BothRead => \E m \in Machines : /\ target.actualProcessorType = m.actual
                                 /\ target.effectiveProcessorType = m.effective
                                 /\ machine.actual = m.actual

FirstAnswer ==
  \/ DOMAIN offset_map_ = {} /\ symbols = {}
  \/ /\ DOMAIN offset_map_ = {TlsField}
     /\ \E b \in Builds : symbols = {b} /\ offset_map_[TlsField] = OffsetIn[b][TlsField]

ShowsTeb(r) ==
  /\ \E b \in symbols : r.tlshead = OffsetIn[b][TlsField]
  /\ \/ r.base \in {Null, Garbage}
     \/ r.base[1] = IF is32on64(target) THEN "TEB32" ELSE "TEB"

Layout == TargetRead /\ FirstAnswer /\ \A i \in 1 .. Len(rows) : ShowsTeb(rows[i])

(* A lookup asks once and keeps the answer. *)
LEMMA LookupKeeps ==
  ASSUME CacheTypeOK, FirstAnswer, NEW id, ShowThread(id), target' = target
  PROVE  /\ FirstAnswer'
         /\ \E b \in symbols' : Offset(TlsField) = OffsetIn[b][TlsField]
         /\ symbols \subseteq symbols'
<1>1. offset_map_' = [n \in DOMAIN offset_map_ \cup {TlsField} |->
                        IF n \in DOMAIN offset_map_ THEN offset_map_[n]
                        ELSE OffsetIn[build][TlsField]]
  BY DEF ShowThread, get_field_offset, Kept, full_symbol_name
<1>2. symbols' = IF symbols = {} THEN {build} ELSE symbols BY DEF ShowThread
<1>3. build \in Builds BY DEF CacheTypeOK
<1>4. TlsField' = TlsField BY DEF TlsField
<1>5. Offset(TlsField) = offset_map_'[TlsField] BY DEF Offset, full_symbol_name
<1>6. CASE DOMAIN offset_map_ = {} /\ symbols = {}
  <2>1. DOMAIN offset_map_' = {TlsField} /\ offset_map_'[TlsField] = OffsetIn[build][TlsField]
    BY <1>1, <1>6
  <2> QED BY <1>2, <1>3, <1>4, <1>5, <1>6, <2>1 DEF FirstAnswer
<1>7. ASSUME DOMAIN offset_map_ = {TlsField}, NEW b \in Builds, symbols = {b},
             offset_map_[TlsField] = OffsetIn[b][TlsField]
      PROVE  /\ FirstAnswer'
             /\ \E c \in symbols' : Offset(TlsField) = OffsetIn[c][TlsField]
             /\ symbols \subseteq symbols'
  <2>1. DOMAIN offset_map_' = {TlsField} /\ offset_map_'[TlsField] = OffsetIn[b][TlsField]
    BY <1>1, <1>7
  <2>2. symbols' = {b} BY <1>2, <1>7
  <2> QED BY <1>4, <1>5, <1>7, <2>1, <2>2 DEF FirstAnswer
<1> QED BY <1>6, <1>7 DEF FirstAnswer

LEMMA ShowsLayout ==
  ASSUME Typed, Layout, NEW id, ShowThread(id), UNCHANGED <<machine, target>>
  PROVE  Layout'
<1>1. /\ FirstAnswer' /\ symbols \subseteq symbols'
      /\ \E b \in symbols' : Offset(TlsField) = OffsetIn[b][TlsField]
  BY LookupKeeps DEF Typed, Layout
<1>2. PICK teb \in {Teb(current), Garbage} :
        \E base \in GetTeb(teb) :
          rows' = Append(rows, [id |-> id, base |-> base, tlshead |-> Offset(TlsField)])
  BY DEF ShowThread
<1>3. PICK base \in GetTeb(teb) :
        rows' = Append(rows, [id |-> id, base |-> base, tlshead |-> Offset(TlsField)])
  BY <1>2
<1>4. \/ base \in {Null, Garbage}
      \/ base[1] = IF is32on64(target) THEN "TEB32" ELSE "TEB"
  BY <1>2, <1>3 DEF GetTeb, Teb, Teb32
<1> DEFINE r == [id |-> id, base |-> base, tlshead |-> Offset(TlsField)]
<1>5. rows \in Seq(Row) /\ Len(rows) \in Nat BY LenProperties DEF Typed
<1>6. r.tlshead = Offset(TlsField) /\ r.base = base OBVIOUS
<1> HIDE DEF r
<1>7. rows' = Append(rows, r) BY <1>3 DEF r
<1>8. /\ Len(rows') = Len(rows) + 1 /\ rows'[Len(rows) + 1] = r
      /\ \A j \in 1 .. Len(rows) : rows'[j] = rows[j]
  <2>1. rows \in Seq(Row \cup {r}) BY <1>5
  <2> QED BY <1>7, <2>1, AppendProperties
<1>9. TlsField' = TlsField /\ (is32on64(target') <=> is32on64(target))
  BY DEF TlsField
<1>10. ASSUME NEW j \in 1 .. Len(rows')
       PROVE  /\ \E b \in symbols' : rows'[j].tlshead = OffsetIn[b][TlsField]
              /\ \/ rows'[j].base \in {Null, Garbage}
                 \/ rows'[j].base[1] = IF is32on64(target) THEN "TEB32" ELSE "TEB"
  <2>1. j \in 1 .. Len(rows) \/ j = Len(rows) + 1 BY <1>5, <1>8
  <2>2. CASE j \in 1 .. Len(rows)
    <3>1. ShowsTeb(rows[j]) /\ rows'[j] = rows[j] BY <1>8, <2>2 DEF Layout
    <3> QED BY <1>1, <3>1 DEF ShowsTeb
  <2>3. CASE j = Len(rows) + 1 BY <1>1, <1>4, <1>6, <1>8, <2>3
  <2> QED BY <2>1, <2>2, <2>3
<1>11. TargetRead' BY DEF Layout, TargetRead, BothRead
<1>12. (\A j \in 1 .. Len(rows) : ShowsTeb(rows[j]))' BY <1>9, <1>10 DEF ShowsTeb
<1> QED BY <1>1, <1>11, <1>12 DEF Layout

LEMMA LayoutStays ==
  ASSUME Layout, UNCHANGED <<offset_map_, symbols, target>>, machine'.actual = machine.actual,
         rows' = rows \/ rows' = << >>
  PROVE  Layout'
<1>1. TlsField' = TlsField /\ (is32on64(target') <=> is32on64(target)) BY DEF TlsField
<1>2. FirstAnswer' BY <1>1 DEF Layout, FirstAnswer
<1>3. TargetRead' BY DEF Layout, TargetRead, BothRead
<1>4. (\A j \in 1 .. Len(rows) : ShowsTeb(rows[j]))'
  <2>1. CASE rows' = << >>
    <3>1. Len(<< >>) = 0 BY EmptySeq
    <3> QED BY <2>1, <3>1
  <2>2. CASE rows' = rows BY <1>1, <2>2 DEF Layout, ShowsTeb
  <2> QED BY <2>1, <2>2
<1> QED BY <1>2, <1>3, <1>4 DEF Layout

LEMMA LayoutStep == ASSUME Typed, Layout, [Next]_vars PROVE Layout'
<1>1. CASE One \/ Callback BY <1>1, ShowsLayout DEF One, Callback
<1>2. CASE Ts \/ TsAll BY <1>2, LayoutStays DEF Ts, TsAll, cachevars
<1>3. CASE Change BY <1>3, LayoutStays DEF Change, Reload, cachevars
<1>4. CASE \/ GetCurrentThreadId \/ GetNumberThreads \/ GetThreadIdsByIndex \/ Switch \/ Restore
           \/ UNCHANGED vars
  BY <1>4, LayoutStays
     DEF GetCurrentThreadId, GetNumberThreads, GetThreadIdsByIndex, Switch, Restore,
         vars, tvars, cachevars
<1> QED BY <1>1, <1>2, <1>3, <1>4 DEF Next, Proceed

(* A 32-bit TEB is read with the layout of a 32-bit TEB and a 64-bit one   *)
(* with that of a 64-bit TEB, all by the symbols loaded when the first was *)
(* shown, for every machine whose types could be read at load time,        *)
(* whatever became of its effective type and of the symbols since.         *)
THEOREM LayoutFits == Spec => []LayoutOfTheTeb
<1>1. Init => Layout
  <2> SUFFICES ASSUME Init PROVE Layout OBVIOUS
  <2>1. DOMAIN offset_map_ = {} /\ symbols = {} /\ rows = << >> /\ machine \in Machines
    BY DEF Init, CacheInit
  <2>2. /\ target.actualProcessorType \in {machine.actual, "0"}
        /\ target.effectiveProcessorType \in {machine.effective, "0"}
    BY DEF Init
  <2>3. TargetRead BY <2>1, <2>2 DEF TargetRead, BothRead
  <2> QED BY <2>1, <2>3, EmptySeq DEF Layout, FirstAnswer
<1>2. ThreadsInv /\ Layout /\ [Next]_vars => Layout' BY LayoutStep DEF ThreadsInv
<1>3. Layout => LayoutOfTheTeb
  <2> SUFFICES ASSUME Layout, BothRead, NEW i \in 1 .. Len(rows),
                      rows[i].base \notin {Null, Garbage}
               PROVE  \E b \in symbols :
                        rows[i].tlshead
                          = OffsetIn[b][<<TypeOfTeb(rows[i].base), "ThreadLocalStoragePointer">>]
    BY DEF LayoutOfTheTeb, BothRead
  <2>1. PICK m \in Machines : /\ target.actualProcessorType = m.actual
                              /\ target.effectiveProcessorType = m.effective
                              /\ machine.actual = m.actual
    BY DEF Layout, TargetRead
  <2>2. /\ m.actual \in {"AMD64", "I386"} /\ m.effective \in {"AMD64", "I386"}
        /\ m.actual = "I386" => m.effective = "I386"
    BY MachinesAssumption
  <2>3. /\ \E b \in symbols : rows[i].tlshead = OffsetIn[b][TlsField]
        /\ rows[i].base[1] = IF is32on64(target) THEN "TEB32" ELSE "TEB"
    BY DEF Layout, ShowsTeb
  <2>4. TlsField = <<TypeOfTeb(rows[i].base), "ThreadLocalStoragePointer">>
    BY <2>1, <2>2, <2>3 DEF TlsField, TypeOfTeb, is32on64
  <2> QED BY <2>3, <2>4
<1> QED BY <1>1, <1>2, <1>3, ThreadsInvHolds, PTL DEF Spec
=============================================================================
