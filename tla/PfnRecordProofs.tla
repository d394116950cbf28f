--------------------------- MODULE PfnRecordProofs ---------------------------
(***************************************************************************)
(* Proofs about PfnRecord and the caches of SymbolCache, for any symbols,  *)
(* known and unknown fields, and sessions of any length.                   *)
(***************************************************************************)
EXTENDS PfnRecord, FiniteSetTheorems, TLAPS

(***************************************************************************)
(* The eleven members.                                                     *)
(***************************************************************************)
Index11 == 1 .. 11

LEMMA MembersAreEleven ==
  /\ Len(Members) = 11
  /\ \A i \in Index11 : Members[i] \in Offsets <=> i <= 3
  /\ \A i, j \in Index11 : Members[i] = Members[j] => i = j
<1>1. Len(Members) = 11 BY SMT DEF Members
<1>2. ASSUME NEW i \in Index11 PROVE Members[i] \in Offsets <=> i <= 3
  BY SMT DEF Members, Offsets, Index11
<1>3. ASSUME NEW i \in Index11, NEW j \in Index11, Members[i] = Members[j] PROVE i = j
  BY <1>3, SMT DEF Members, Index11
<1> QED BY <1>1, <1>2, <1>3

LEMMA FieldsDiffer ==
  \A i, j \in Index11 : FieldOf(i) = FieldOf(j) => i = j
<1> SUFFICES ASSUME NEW i \in Index11, NEW j \in Index11, FieldOf(i) = FieldOf(j)
             PROVE  i = j
  OBVIOUS
<1>1. FieldNames[i] = FieldNames[j] BY DEF FieldOf
<1> QED BY <1>1, SMT DEF FieldNames, Index11

First(n) == {Members[j] : j \in 1 .. n}

LEMMA FirstGrows ==
  ASSUME NEW n \in 0 .. 10
  PROVE  First(n + 1) = First(n) \cup {Members[n + 1]} /\ Members[n + 1] \notin First(n)
<1>1. First(n + 1) = First(n) \cup {Members[n + 1]}
  <2>1. 1 .. n + 1 = (1 .. n) \cup {n + 1} OBVIOUS
  <2> QED BY <2>1 DEF First
<1>2. ASSUME NEW j \in 1 .. n, Members[j] = Members[n + 1] PROVE FALSE
  <2>1. j \in Index11 /\ n + 1 \in Index11 /\ j # n + 1 BY DEF Index11
  <2> QED BY <1>2, <2>1, MembersAreEleven
<1> QED BY <1>1, <1>2 DEF First

LEMMA CountFirst ==
  ASSUME NEW n \in 0 .. 11
  PROVE  Cardinality(First(n)) = n
<1> DEFINE Counted(k) == IsFiniteSet(First(k)) /\ Cardinality(First(k)) = k
<1>1. Counted(0)
  <2>1. First(0) = {} BY DEF First
  <2> QED BY <2>1, FS_EmptySet
<1>2. ASSUME NEW k \in 0 .. 10, Counted(k) PROVE Counted(k + 1)
  <2>1. First(k + 1) = First(k) \cup {Members[k + 1]} /\ Members[k + 1] \notin First(k)
    BY FirstGrows
  <2>2. /\ IsFiniteSet(First(k) \cup {Members[k + 1]})
        /\ Cardinality(First(k) \cup {Members[k + 1]}) = Cardinality(First(k)) + 1
    BY <1>2, <2>1, FS_AddElement
  <2> QED BY <1>2, <2>1, <2>2
<1> HIDE DEF Counted
<1>3. Counted(1) BY <1>1, <1>2, 0 + 1 = 1
<1>4. Counted(2) BY <1>3, <1>2, 1 + 1 = 2
<1>5. Counted(3) BY <1>4, <1>2, 2 + 1 = 3
<1>6. Counted(4) BY <1>5, <1>2, 3 + 1 = 4
<1>7. Counted(5) BY <1>6, <1>2, 4 + 1 = 5
<1>8. Counted(6) BY <1>7, <1>2, 5 + 1 = 6
<1>9. Counted(7) BY <1>8, <1>2, 6 + 1 = 7
<1>10. Counted(8) BY <1>9, <1>2, 7 + 1 = 8
<1>11. Counted(9) BY <1>10, <1>2, 8 + 1 = 9
<1>12. Counted(10) BY <1>11, <1>2, 9 + 1 = 10
<1>13. Counted(11) BY <1>12, <1>2, 10 + 1 = 11
<1>14. Counted(n)
  BY <1>1, <1>3, <1>4, <1>5, <1>6, <1>7, <1>8, <1>9, <1>10, <1>11, <1>12, <1>13
<1> QED BY <1>14 DEF Counted

(***************************************************************************)
(* The caches.  A field is asked for exactly when it enters its map.       *)
(***************************************************************************)
AskedWhenKept ==
  /\ \A f \in Fields : asked[<<"offset", f>>] = IF f \in DOMAIN offset_map_ THEN 1 ELSE 0
  /\ \A f \in Fields : asked[<<"info", f>>] = IF f \in DOMAIN field_info_map_ THEN 1 ELSE 0

CacheInv == CacheTypeOK /\ AskedWhenKept

LEMMA OffsetKept ==
  ASSUME CacheInv, NEW f \in Fields, get_field_offset(f)
  PROVE  /\ CacheInv'
         /\ DOMAIN offset_map_' = DOMAIN offset_map_ \cup {f}
         /\ \A g \in DOMAIN offset_map_ : offset_map_'[g] = offset_map_[g]
         /\ f \notin DOMAIN offset_map_ => offset_map_'[f] = OffsetIn[build][f]
         /\ Offset(f) = offset_map_'[f]
<1>1. offset_map_' = [n \in DOMAIN offset_map_ \cup {f} |->
                        IF n \in DOMAIN offset_map_ THEN offset_map_[n] ELSE OffsetIn[build][f]]
  BY DEF get_field_offset, Kept, full_symbol_name
<1>2. build' = build /\ field_info_map_' = field_info_map_ BY DEF get_field_offset
<1>3. OffsetIn[build][f] \in Nat BY OffsetInAssumption DEF CacheInv, CacheTypeOK
<1>4. asked \in [Questions -> Nat] BY DEF CacheInv, CacheTypeOK
<1>5. /\ asked' \in [Questions -> Nat]
      /\ asked'[<<"offset", f>>] = IF f \in DOMAIN offset_map_ THEN asked[<<"offset", f>>]
                                   ELSE asked[<<"offset", f>>] + 1
      /\ \A q \in Questions : q # <<"offset", f>> => asked'[q] = asked[q]
  <2>1. asked' = [asked EXCEPT ![<<"offset", f>>] =
                    IF f \in DOMAIN offset_map_ THEN asked[<<"offset", f>>]
                    ELSE asked[<<"offset", f>>] + 1]
    BY DEF get_field_offset, Ask, Found, full_symbol_name
  <2>2. asked[<<"offset", f>>] \in Nat BY <1>4 DEF Questions
  <2>3. (IF f \in DOMAIN offset_map_ THEN asked[<<"offset", f>>]
         ELSE asked[<<"offset", f>>] + 1) \in Nat
    BY <2>2
  <2>4. PICK n \in Nat :
          /\ n = IF f \in DOMAIN offset_map_ THEN asked[<<"offset", f>>] ELSE asked[<<"offset", f>>] + 1
          /\ asked' = [asked EXCEPT ![<<"offset", f>>] = n]
    BY <2>1, <2>3
  <2>5. /\ asked' \in [Questions -> Nat] /\ asked'[<<"offset", f>>] = n
        /\ \A q \in Questions : q # <<"offset", f>> => asked'[q] = asked[q]
    <3>1. <<"offset", f>> \in Questions BY DEF Questions
    <3> QED BY ONLY <1>4, <2>4, <3>1
  <2> QED BY <2>4, <2>5
<1>6. CacheTypeOK' BY <1>1, <1>2, <1>3, <1>5 DEF CacheInv, CacheTypeOK
<1>7. AskedWhenKept'
  <2>1. ASSUME NEW g \in Fields
        PROVE  asked'[<<"offset", g>>] = IF g \in DOMAIN offset_map_' THEN 1 ELSE 0
    <3>1. CASE g = f BY <1>1, <1>5, <3>1 DEF CacheInv, AskedWhenKept
    <3>2. CASE g # f
      <4>1. <<"offset", g>> \in Questions /\ <<"offset", g>> # <<"offset", f>>
        BY <3>2 DEF Questions
      <4> QED BY <1>1, <1>5, <3>2, <4>1 DEF CacheInv, AskedWhenKept
    <3> QED BY <3>1, <3>2
  <2>2. ASSUME NEW g \in Fields
        PROVE  asked'[<<"info", g>>] = IF g \in DOMAIN field_info_map_' THEN 1 ELSE 0
    <3>1. <<"info", g>> \in Questions /\ <<"info", g>> # <<"offset", f>> BY DEF Questions
    <3> QED BY <1>2, <1>5, <3>1 DEF CacheInv, AskedWhenKept
  <2> QED BY <2>1, <2>2 DEF AskedWhenKept
<1> QED BY <1>1, <1>6, <1>7 DEF CacheInv, Offset, full_symbol_name

LEMMA InfoKept ==
  ASSUME CacheInv, NEW f \in Fields, get_field_info(f)
  PROVE  /\ CacheInv'
         /\ DOMAIN field_info_map_' = DOMAIN field_info_map_ \cup {f}
         /\ \A g \in DOMAIN field_info_map_ : field_info_map_'[g] = field_info_map_[g]
         /\ f \notin DOMAIN field_info_map_ => field_info_map_'[f] = InfoIn[build][f]
         /\ FieldInfo(f) = field_info_map_'[f]
<1>1. field_info_map_' = [n \in DOMAIN field_info_map_ \cup {f} |->
                            IF n \in DOMAIN field_info_map_ THEN field_info_map_[n]
                            ELSE InfoIn[build][f]]
  BY DEF get_field_info, Kept, full_symbol_name
<1>2. build' = build /\ offset_map_' = offset_map_ BY DEF get_field_info
<1>3. InfoIn[build][f] \in Info BY InfoInAssumption DEF CacheInv, CacheTypeOK
<1>4. asked \in [Questions -> Nat] BY DEF CacheInv, CacheTypeOK
<1>5. /\ asked' \in [Questions -> Nat]
      /\ asked'[<<"info", f>>] = IF f \in DOMAIN field_info_map_ THEN asked[<<"info", f>>]
                                 ELSE asked[<<"info", f>>] + 1
      /\ \A q \in Questions : q # <<"info", f>> => asked'[q] = asked[q]
  <2>1. asked' = [asked EXCEPT ![<<"info", f>>] =
                    IF f \in DOMAIN field_info_map_ THEN asked[<<"info", f>>]
                    ELSE asked[<<"info", f>>] + 1]
    BY DEF get_field_info, Ask, Found, full_symbol_name
  <2>2. asked[<<"info", f>>] \in Nat BY <1>4 DEF Questions
  <2>3. (IF f \in DOMAIN field_info_map_ THEN asked[<<"info", f>>]
         ELSE asked[<<"info", f>>] + 1) \in Nat
    BY <2>2
  <2>4. PICK n \in Nat :
          /\ n = IF f \in DOMAIN field_info_map_ THEN asked[<<"info", f>>] ELSE asked[<<"info", f>>] + 1
          /\ asked' = [asked EXCEPT ![<<"info", f>>] = n]
    BY <2>1, <2>3
  <2>5. /\ asked' \in [Questions -> Nat] /\ asked'[<<"info", f>>] = n
        /\ \A q \in Questions : q # <<"info", f>> => asked'[q] = asked[q]
    <3>1. <<"info", f>> \in Questions BY DEF Questions
    <3> QED BY ONLY <1>4, <2>4, <3>1
  <2> QED BY <2>4, <2>5
<1>6. CacheTypeOK' BY <1>1, <1>2, <1>3, <1>5 DEF CacheInv, CacheTypeOK
<1>7. AskedWhenKept'
  <2>1. ASSUME NEW g \in Fields
        PROVE  asked'[<<"info", g>>] = IF g \in DOMAIN field_info_map_' THEN 1 ELSE 0
    <3>1. CASE g = f BY <1>1, <1>5, <3>1 DEF CacheInv, AskedWhenKept
    <3>2. CASE g # f
      <4>1. <<"info", g>> \in Questions /\ <<"info", g>> # <<"info", f>>
        BY <3>2 DEF Questions
      <4> QED BY <1>1, <1>5, <3>2, <4>1 DEF CacheInv, AskedWhenKept
    <3> QED BY <3>1, <3>2
  <2>2. ASSUME NEW g \in Fields
        PROVE  asked'[<<"offset", g>>] = IF g \in DOMAIN offset_map_' THEN 1 ELSE 0
    <3>1. <<"offset", g>> \in Questions /\ <<"offset", g>> # <<"info", f>> BY DEF Questions
    <3> QED BY <1>2, <1>5, <3>1 DEF CacheInv, AskedWhenKept
  <2> QED BY <2>1, <2>2 DEF AskedWhenKept
<1> QED BY <1>1, <1>6, <1>7 DEF CacheInv, FieldInfo, full_symbol_name

(***************************************************************************)
(* The object.  Field i is looked up when n = i - 1 members are there.     *)
(***************************************************************************)
Cached(i) == IF i <= 3 THEN FieldOf(i) \in DOMAIN offset_map_
             ELSE FieldOf(i) \in DOMAIN field_info_map_
Value(i)  == IF i <= 3 THEN offset_map_[FieldOf(i)] ELSE field_info_map_[FieldOf(i)]

LEMMA MemberAdded ==
  ASSUME NEW n \in 0 .. 10, DOMAIN members = First(n), NEW v,
         Initialized(Members[n + 1], v)
  PROVE  /\ DOMAIN members' = First(n + 1)
         /\ members'[Members[n + 1]] = v
         /\ \A j \in 1 .. n : members'[Members[j]] = members[Members[j]]
<1>1. First(n + 1) = First(n) \cup {Members[n + 1]} /\ Members[n + 1] \notin First(n)
  BY FirstGrows
<1>2. members' = [m \in First(n) \cup {Members[n + 1]} |->
                    IF m = Members[n + 1] THEN v ELSE members[m]]
  BY DEF Initialized
<1>3. \A j \in 1 .. n : Members[j] \in First(n) BY DEF First
<1> QED BY <1>1, <1>2, <1>3

LEMMA FieldsAreFields == \A i \in Index11 : FieldOf(i) \in Fields
BY PfnFieldsAssumption, MembersAreEleven DEF Index11

LEMMA LookedUp ==
  ASSUME CacheInv, NEW n \in 0 .. 10, DOMAIN members = First(n), Initialize
  PROVE  /\ CacheInv' /\ step = "construct"
         /\ UNCHANGED <<build, step, shown, had>>
         /\ \A j \in Index11 : Cached(j)' <=> Cached(j) \/ j = n + 1
         /\ \A j \in Index11 : Cached(j) => Value(j)' = Value(j)
         /\ ~Cached(n + 1) => Value(n + 1)' = Place(build, n + 1)
         /\ DOMAIN members' = First(n + 1)
         /\ members'[Members[n + 1]] = Value(n + 1)'
         /\ \A j \in 1 .. n : members'[Members[j]] = members[Members[j]]
<1> DEFINE i == n + 1
           f == FieldOf(i)
<1>1. i \in Index11 /\ f \in Fields BY FieldsAreFields DEF Index11
<1>2. Cardinality(DOMAIN members) + 1 = i BY CountFirst
<1>3. step = "construct" /\ UNCHANGED <<step, shown, had>> BY DEF Initialize
<1>4. \A j \in Index11 : FieldOf(j) = f <=> j = i BY <1>1, FieldsDiffer
<1>5. CASE i <= 3
  <2>1. Members[i] \in Offsets BY <1>1, <1>5, MembersAreEleven
  <2>2. get_field_offset(f) /\ Initialized(Members[i], Offset(f))
    BY <1>2, <2>1 DEF Initialize
  <2>3. /\ CacheInv'
        /\ DOMAIN offset_map_' = DOMAIN offset_map_ \cup {f}
        /\ \A g \in DOMAIN offset_map_ : offset_map_'[g] = offset_map_[g]
        /\ f \notin DOMAIN offset_map_ => offset_map_'[f] = OffsetIn[build][f]
        /\ Offset(f) = offset_map_'[f]
    BY <1>1, <2>2, OffsetKept
  <2>4. build' = build /\ field_info_map_' = field_info_map_ BY <2>2 DEF get_field_offset
  <2> HIDE DEF i, f
  <2>5. \A j \in Index11 : Cached(j)' <=> Cached(j) \/ j = i
    BY <1>1, <1>4, <1>5, <2>3, <2>4 DEF Cached, FieldOf
  <2>6. \A j \in Index11 : Cached(j) => Value(j)' = Value(j)
    BY <2>3, <2>4 DEF Cached, Value, FieldOf
  <2>7. Value(i)' = offset_map_'[f] BY <1>5 DEF Value, f
  <2>8. ~Cached(i) => Value(i)' = Place(build, i)
    BY <1>5, <2>1, <2>3, <2>7 DEF Cached, Place, f
  <2>9. Initialized(Members[i], Value(i)') BY <2>2, <2>3, <2>7
  <2>10. /\ DOMAIN members' = First(i)
         /\ members'[Members[i]] = Value(i)'
         /\ \A j \in 1 .. n : members'[Members[j]] = members[Members[j]]
    BY <2>9, MemberAdded DEF i
  <2> QED BY <1>3, <2>3, <2>4, <2>5, <2>6, <2>8, <2>10 DEF i
<1>6. CASE ~(i <= 3)
  <2>1. Members[i] \notin Offsets BY <1>1, <1>6, MembersAreEleven
  <2>2. get_field_info(f) /\ Initialized(Members[i], FieldInfo(f))
    BY <1>2, <2>1 DEF Initialize
  <2>3. /\ CacheInv'
        /\ DOMAIN field_info_map_' = DOMAIN field_info_map_ \cup {f}
        /\ \A g \in DOMAIN field_info_map_ : field_info_map_'[g] = field_info_map_[g]
        /\ f \notin DOMAIN field_info_map_ => field_info_map_'[f] = InfoIn[build][f]
        /\ FieldInfo(f) = field_info_map_'[f]
    BY <1>1, <2>2, InfoKept
  <2>4. build' = build /\ offset_map_' = offset_map_ BY <2>2 DEF get_field_info
  <2> HIDE DEF i, f
  <2>5. \A j \in Index11 : Cached(j)' <=> Cached(j) \/ j = i
    BY <1>1, <1>4, <1>6, <2>3, <2>4 DEF Cached, FieldOf
  <2>6. \A j \in Index11 : Cached(j) => Value(j)' = Value(j)
    BY <2>3, <2>4 DEF Cached, Value, FieldOf
  <2>7. Value(i)' = field_info_map_'[f] BY <1>6 DEF Value, f
  <2>8. ~Cached(i) => Value(i)' = Place(build, i)
    BY <1>6, <2>1, <2>3, <2>7 DEF Cached, Place, f
  <2>9. Initialized(Members[i], Value(i)') BY <2>2, <2>3, <2>7
  <2>10. /\ DOMAIN members' = First(i)
         /\ members'[Members[i]] = Value(i)'
         /\ \A j \in 1 .. n : members'[Members[j]] = members[Members[j]]
    BY <2>9, MemberAdded DEF i
  <2> QED BY <1>3, <2>3, <2>4, <2>5, <2>6, <2>8, <2>10 DEF i
<1> QED BY <1>5, <1>6

(***************************************************************************)
(* A session.  The fields in the caches were all answered by one build:    *)
(* until the first database is complete, by the one that is loaded, since  *)
(* nothing else happens while it is built; after it, no field is asked for *)
(* again.                                                                  *)
(***************************************************************************)
OneBuild(n) ==
  \E b \in had :
    /\ \A i \in Index11 : Cached(i) => Value(i) = Place(b, i)
    /\ \/ \A i \in Index11 : Cached(i)
       \/ \A i \in Index11 : ~Cached(i)
       \/ step = "construct" /\ b = build /\ \A i \in Index11 : Cached(i) => i <= n

RecordOf(n) ==
  /\ DOMAIN members = First(n)
  /\ \A i \in 1 .. n : Cached(i) /\ members[Members[i]] = Value(i)
  /\ OneBuild(n)
  /\ step \in {"dump", "decoded"} => n = 11
  /\ step = "decoded" => shown = members

SessionInv == CacheInv /\ build \in had /\ \E n \in 0 .. 11 : RecordOf(n)

LEMMA InitSession == Init => SessionInv
<1> SUFFICES ASSUME Init PROVE SessionInv OBVIOUS
<1>1. CacheInv
  BY DEF Init, CacheInit, CacheInv, CacheTypeOK, AskedWhenKept, Questions
<1>2. First(0) = {} /\ DOMAIN members = {} BY DEF First, Init, NoMembers
<1>3. \A i \in Index11 : ~Cached(i) BY DEF Init, CacheInit, Cached
<1>4. RecordOf(0) BY <1>2, <1>3 DEF RecordOf, OneBuild, Init
<1> QED BY <1>1, <1>4 DEF SessionInv, Init

(* The caches, which most actions leave alone. *)
LEMMA SameCaches ==
  ASSUME UNCHANGED <<offset_map_, field_info_map_>>, NEW i
  PROVE  (Cached(i)' <=> Cached(i)) /\ Value(i)' = Value(i)
BY DEF Cached, Value

LEMMA InitializeKeeps ==
  ASSUME CacheInv, build \in had, NEW n \in 0 .. 11, RecordOf(n), Initialize
  PROVE  CacheInv' /\ n < 11 /\ RecordOf(n + 1)'
<1>1. n \in 0 .. 10
  <2>1. n + 1 <= 11 BY CountFirst, MembersAreEleven DEF Initialize, RecordOf
  <2> QED BY <2>1
<1>2. /\ CacheInv' /\ step = "construct"
      /\ UNCHANGED <<build, step, shown, had>>
      /\ \A j \in Index11 : Cached(j)' <=> Cached(j) \/ j = n + 1
      /\ \A j \in Index11 : Cached(j) => Value(j)' = Value(j)
      /\ ~Cached(n + 1) => Value(n + 1)' = Place(build, n + 1)
      /\ DOMAIN members' = First(n + 1)
      /\ members'[Members[n + 1]] = Value(n + 1)'
      /\ \A j \in 1 .. n : members'[Members[j]] = members[Members[j]]
  BY <1>1, LookedUp DEF RecordOf
<1>3. n + 1 \in Index11 /\ \A j \in 1 .. n : j \in Index11 BY <1>1 DEF Index11
<1>4. \A i \in 1 .. n + 1 : Cached(i)' /\ (members[Members[i]] = Value(i))'
  <2> SUFFICES ASSUME NEW i \in 1 .. n + 1
               PROVE  Cached(i)' /\ members'[Members[i]] = Value(i)'
    OBVIOUS
  <2>1. CASE i = n + 1 BY <1>2, <1>3, <2>1
  <2>2. CASE i \in 1 .. n
    <3>1. Cached(i) /\ members[Members[i]] = Value(i) BY <2>2 DEF RecordOf
    <3> QED BY <1>2, <1>3, <2>2, <3>1
  <2> QED BY <1>1, <2>1, <2>2
<1>5. OneBuild(n + 1)'
  <2>1. PICK b \in had :
          /\ \A i \in Index11 : Cached(i) => Value(i) = Place(b, i)
          /\ \/ \A i \in Index11 : Cached(i)
             \/ \A i \in Index11 : ~Cached(i)
             \/ step = "construct" /\ b = build /\ \A i \in Index11 : Cached(i) => i <= n
    BY DEF RecordOf, OneBuild
  <2>2. CASE \A i \in Index11 : Cached(i)
    <3>1. \A i \in Index11 : Cached(i)' /\ Value(i)' = Place(b, i)
      BY <1>2, <2>1, <2>2
    <3> QED BY <1>2, <3>1 DEF OneBuild, Place
  <2>3. CASE \A i \in Index11 : Cached(i) => i <= n /\ Value(i) = Place(build, i)
    <3>1. ASSUME NEW i \in Index11, Cached(i)'
          PROVE  i <= n + 1 /\ Value(i)' = Place(build, i)
      <4>1. CASE Cached(i) BY <1>1, <1>2, <2>3, <4>1 DEF Index11
      <4>2. CASE ~Cached(i) BY <1>1, <1>2, <3>1, <4>2
      <4> QED BY <4>1, <4>2
    <3> QED BY <1>2, <3>1 DEF OneBuild, Place
  <2> QED BY <2>1, <2>2, <2>3
<1> QED BY <1>1, <1>2, <1>4, <1>5 DEF RecordOf

LEMMA SessionInductive ==
  ASSUME SessionInv, [Next]_vars
  PROVE  SessionInv'
<1>1. PICK n \in 0 .. 11 : RecordOf(n) BY DEF SessionInv
<1>2. CacheInv /\ build \in had BY DEF SessionInv
<1>3. ASSUME UNCHANGED cachevars
      PROVE  /\ CacheInv' /\ build' = build
             /\ \A i : (Cached(i)' <=> Cached(i)) /\ Value(i)' = Value(i)
  BY <1>2, <1>3, SameCaches DEF cachevars, CacheInv, CacheTypeOK, AskedWhenKept
<1>4. PICK b \in had :
        /\ \A i \in Index11 : Cached(i) => Value(i) = Place(b, i)
        /\ \/ \A i \in Index11 : Cached(i)
           \/ \A i \in Index11 : ~Cached(i)
           \/ step = "construct" /\ b = build /\ \A i \in Index11 : Cached(i) => i <= n
  BY <1>1 DEF RecordOf, OneBuild
<1>5. CASE Open
  <2>1. step # "construct" /\ UNCHANGED <<cachevars, had>> BY <1>5 DEF Open
  <2>2. OneBuild(0)' BY <1>3, <1>4, <2>1 DEF OneBuild, Place
  <2>3. First(0) = {} BY DEF First
  <2>4. RecordOf(0)' BY <1>5, <2>2, <2>3 DEF RecordOf, Open, NoMembers
  <2> QED BY <1>2, <1>3, <2>1, <2>4 DEF SessionInv
<1>6. CASE Initialize
  <2>1. CacheInv' /\ n < 11 /\ RecordOf(n + 1)' BY <1>1, <1>2, <1>6, InitializeKeeps
  <2>2. build' = build /\ had' = had
    BY <1>6 DEF Initialize, get_field_offset, get_field_info
  <2>3. n + 1 \in 0 .. 11 BY <2>1
  <2> QED BY <1>2, <2>1, <2>2, <2>3 DEF SessionInv
<1>7. CASE Test \/ DumpRecord
  <2>1. UNCHANGED <<cachevars, members, had>> BY <1>7 DEF Test, DumpRecord
  <2>2. n = 11 BY <1>1, <1>7, CountFirst, MembersAreEleven DEF Test, DumpRecord, RecordOf
  <2>3. \A i \in Index11 : Cached(i) BY <1>1, <2>2 DEF RecordOf, Index11
  <2>4. OneBuild(11)' BY <1>3, <1>4, <2>1, <2>3 DEF OneBuild, Place
  <2>5. step' = "decoded" => shown' = members
    BY <1>7 DEF Test, DumpRecord
  <2>6. RecordOf(11)' BY <1>1, <1>3, <2>1, <2>2, <2>4, <2>5 DEF RecordOf
  <2> QED BY <1>2, <1>3, <2>1, <2>6 DEF SessionInv
<1>8. CASE ChangeSymbols
  <2>1. /\ UNCHANGED <<offset_map_, field_info_map_, asked, members>> /\ step' = "idle"
        /\ build' \in Builds /\ had' = had \cup {build'} /\ step # "construct"
    BY <1>8 DEF ChangeSymbols, Reload
  <2>2. CacheInv' BY <1>2, <2>1 DEF CacheInv, CacheTypeOK, AskedWhenKept
  <2>3. \A i : (Cached(i)' <=> Cached(i)) /\ Value(i)' = Value(i) BY <2>1, SameCaches
  <2>4. OneBuild(n)' BY <1>4, <2>1, <2>3 DEF OneBuild, Place
  <2>5. RecordOf(n)' BY <1>1, <2>1, <2>3, <2>4 DEF RecordOf
  <2> QED BY <2>1, <2>2, <2>5 DEF SessionInv
<1>9. CASE UNCHANGED vars
  <2>1. UNCHANGED <<cachevars, step, members, shown, had>> BY <1>9 DEF vars, pfnvars
  <2>2. OneBuild(n)' BY <1>3, <1>4, <2>1 DEF OneBuild, Place
  <2>3. RecordOf(n)' BY <1>1, <1>3, <2>1, <2>2 DEF RecordOf
  <2> QED BY <1>2, <1>3, <2>1, <2>3 DEF SessionInv
<1> QED BY <1>5, <1>6, <1>7, <1>8, <1>9 DEF Next

(* The engine is asked about a field at most once, in a session of any     *)
(* length and with any symbols, whether it knew the field or not           *)
(* (symbol_manager).                                                       *)
THEOREM EngineAskedOnce == Spec => []AskedOnce
<1>1. SessionInv /\ [Next]_vars => SessionInv' BY SessionInductive
<1>2. SessionInv => AskedOnce
  <2> SUFFICES ASSUME CacheInv, NEW q \in Questions PROVE asked[q] <= 1
    BY DEF SessionInv, AskedOnce
  <2>1. PICK k \in {"offset", "info"}, f \in Fields : q = <<k, f>> BY DEF Questions
  <2>2. asked[<<k, f>>] \in {0, 1} BY <2>1 DEF CacheInv, AskedWhenKept
  <2> QED BY <2>1, <2>2
<1> QED BY <1>1, <1>2, InitSession, PTL DEF Spec

(* A record is decoded at the places its eleven fields have in the symbols *)
(* of one build, although two caches that outlive the command are filled   *)
(* field by field and keep failures: no symbols change while a database is *)
(* built, and the first one asks for every field (PfnDatabase).            *)
THEOREM DecodedByOneBuild == Spec => []OneBuildDecodes
<1>1. SessionInv /\ [Next]_vars => SessionInv' BY SessionInductive
<1>2. SessionInv => OneBuildDecodes
  <2> SUFFICES ASSUME SessionInv, step = "decoded"
               PROVE  \E b \in had : \A i \in 1 .. Len(Members) : shown[Members[i]] = Place(b, i)
    BY DEF OneBuildDecodes
  <2>1. RecordOf(11) BY DEF SessionInv, RecordOf
  <2>2. \A i \in Index11 : Cached(i) /\ shown[Members[i]] = Value(i)
    BY <2>1 DEF RecordOf, Index11
  <2>3. PICK b \in had : \A i \in Index11 : Cached(i) => Value(i) = Place(b, i)
    BY <2>1 DEF RecordOf, OneBuild
  <2> QED BY <2>2, <2>3, MembersAreEleven DEF Index11
<1> QED BY <1>1, <1>2, InitSession, PTL DEF Spec
=============================================================================
