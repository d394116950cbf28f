----------------------------- MODULE PfnRecord -----------------------------
(***************************************************************************)
(* PfnDatabase of kd.cpp over a session: every !pfn2, and every !v2p of a  *)
(* 64-bit target, builds the object anew, asks for the size of a record    *)
(* and, through the cache, for the places of its fields, and decodes one   *)
(* record with them.  V2p models where the record is read; here is how it  *)
(* is understood.                                                          *)
(***************************************************************************)
EXTENDS SymbolCache, Sequences, FiniteSets

CONSTANT SizeIn   \* sizeof(_MMPFN) in each build, 0 where the type is unknown

ASSUME SizeInAssumption == SizeIn \in [Builds -> Nat]

VARIABLES
  step,       \* "idle", "construct", "dump", "decoded" or "crashed"
  entrySize,  \* entrySize_
  members,    \* the members initialized so far: name -> place
  shown,      \* the places the last record was decoded at
  had         \* the symbols this session has had

pfnvars == <<step, entrySize, members, shown, had>>
vars == <<cachevars, pfnvars>>

(* The members in their order of initialization; the first three are       *)
(* offsets, the others come from get_field_info.                           *)
Members == << "toPteAddr_", "toPte_", "toVar_", "fieldPteFrame_", "fieldPartition_",
              "fieldSpare_", "fieldPageIdentity_", "bitResident_", "bitFileOnly_",
              "bitPfnExists_", "bitProto_" >>
Offsets == {"toPteAddr_", "toPte_", "toVar_"}

FieldNames ==
  << "PteAddress", "OriginalPte", "u4", "u4.PteFrame", "u4.Partition", "u4.Spare",
     "u4.PageIdentity", "u4.ResidentPage", "u4.FileOnly", "u4.PfnExists",
     "u4.PrototypePte" >>
FieldOf(i) == <<"nt!_MMPFN", FieldNames[i]>>

ASSUME PfnFieldsAssumption == \A i \in 1 .. Len(Members) : FieldOf(i) \in Fields

NoMembers == [m \in {} |-> 0]

Init ==
  /\ CacheInit
  /\ step = "idle" /\ entrySize = 0 /\ members = NoMembers
  /\ shown = NoMembers /\ had = {build}

-----------------------------------------------------------------------------
(* PfnDatabase(runner): the size is asked for at each construction. *)
Open ==
  /\ step \in {"idle", "decoded"}
  /\ step' = "construct" /\ entrySize' = SizeIn[build]
  /\ members' = NoMembers /\ shown' = NoMembers
  /\ UNCHANGED <<cachevars, had>>

(* The member initializer of m, which has none before. *)
Initialized(m, place) ==
  members' = [n \in DOMAIN members \cup {m} |-> IF n = m THEN place ELSE members[n]]

(* Mutant: the places of the two page-table members are exchanged. *)
Mutant_Initialize ==
  LET i == Cardinality(DOMAIN members) + 1
      f == FieldOf(IF i = 1 THEN 2 ELSE IF i = 2 THEN 1 ELSE i)
  IN  /\ step = "construct" /\ i <= Len(Members)
      /\ IF Members[i] \in Offsets
         THEN get_field_offset(f) /\ Initialized(Members[i], Offset(f))
         ELSE get_field_info(f) /\ Initialized(Members[i], FieldInfo(f))
      /\ UNCHANGED <<step, entrySize, shown, had>>

Initialize ==
  LET i == Cardinality(DOMAIN members) + 1
      f == FieldOf(i)
  IN  /\ step = "construct" /\ i <= Len(Members)
      /\ IF Members[i] \in Offsets
         THEN get_field_offset(f) /\ Initialized(Members[i], Offset(f))
         ELSE get_field_info(f) /\ Initialized(Members[i], FieldInfo(f))
      /\ UNCHANGED <<step, entrySize, shown, had>>

(* The end of the constructor, which evaluates and reads nt!MmPfnDatabase, *)
(* and the test of the object: operator bool.                              *)
Test ==
  /\ step = "construct" /\ Cardinality(DOMAIN members) = Len(Members)
  /\ step' = "idle" \/ (entrySize # 0 /\ step' = "dump")
  /\ UNCHANGED <<cachevars, entrySize, members, shown, had>>

(* Every place of the record that is read lies in it. *)
Inside(places) == \A m \in Offsets : places[m] + 8 <= entrySize

(* DumpRecord.  The read may fail.  What lies outside of the record is     *)
(* read all the same: the debugger may fault.                              *)
DumpRecord ==
  /\ step = "dump"
  /\ \/ step' = "idle" /\ UNCHANGED shown
     \/ step' = "decoded" /\ shown' = members
     \/ ~Inside(members) /\ step' = "crashed" /\ UNCHANGED shown
  /\ UNCHANGED <<cachevars, entrySize, members, had>>

ChangeSymbols ==
  /\ step \in {"idle", "decoded"} /\ step' = "idle" /\ shown' = NoMembers
  /\ Reload /\ had' = had \cup {build'}
  /\ UNCHANGED <<entrySize, members>>

Next == Open \/ Initialize \/ Test \/ DumpRecord \/ ChangeSymbols

Spec == Init /\ [][Next]_vars

-----------------------------------------------------------------------------
Place(b, i) == IF Members[i] \in Offsets THEN OffsetIn[b][FieldOf(i)]
               ELSE InfoIn[b][FieldOf(i)]

(* A record is decoded at the places all its fields have in the symbols of *)
(* one build, and of the loaded one as long as symbols have not changed:   *)
(* the eleven members are taken from two caches that commands share, but   *)
(* none is asked for without the others (the member initializers of        *)
(* PfnDatabase).                                                           *)
OneBuildDecodes ==
  step = "decoded" =>
    \E b \in had : \A i \in 1 .. Len(Members) : shown[Members[i]] = Place(b, i)

(* The command's own test of the database, operator bool, lets a record be *)
(* decoded only if it is known what it looks like: all that is read of it  *)
(* lies inside.                                                            *)
RecordInside == step \in {"dump", "decoded"} => Inside(members)
=============================================================================
