------------------------- MODULE VtableCacheProofs -------------------------
(***************************************************************************)
(* Proofs about VtableCache, for every set of vtables and symbols and any  *)
(* number of calls and exchanges of symbols.                               *)
(***************************************************************************)
EXTENDS VtableCache, TLAPS

(***************************************************************************)
(* The inductive invariant.  Origin: a type in the buffer was the answer   *)
(* for some vtable, and so the type a failed lookup finds there, which is  *)
(* what a later entry of the map may be.                                   *)
(***************************************************************************)
Origin(type, ans) == type = "" \/ \E v \in Vtables : <<v, type>> \in ans

(* An entry of the map has an answer of its own, or the buffer named its   *)
(* type when its lookup failed.                                            *)
OwnAnswer(vt, type, ans) ==
  <<vt, type>> \in ans /\ \E b \in Builds : SymbolIn[b][vt] = [type |-> type, displacement |-> 0]
EntryIsFounded(vt, type, ans, fails) ==
  \/ type = ""
  \/ OwnAnswer(vt, type, ans)
  \/ <<vt, type>> \in fails /\ \E v \in Vtables : <<v, type>> \in ans

CacheInv ==
  /\ build \in Builds /\ DOMAIN vtable_map_ \subseteq Vtables
  /\ Origin(symbol_name, answered)
  /\ \A vt \in DOMAIN vtable_map_ : EntryIsFounded(vt, vtable_map_[vt], answered, failed)
  /\ resolved # <<0, "">> =>
       resolved[1] \in DOMAIN vtable_map_ /\ resolved[2] = vtable_map_[resolved[1]]
LEMMA FoundedGrows ==
  ASSUME NEW vt, NEW type, EntryIsFounded(vt, type, answered, failed),
         answered \subseteq answered', failed \subseteq failed'
  PROVE  EntryIsFounded(vt, type, answered', failed')
BY DEF EntryIsFounded, OwnAnswer

(* A lookup leaves in the buffer what the engine said, or what was there.  *)
LEMMA GetSymbolFounded ==
  ASSUME CacheInv, NEW vt \in Vtables, NEW sym, GetSymbol(vt, sym)
  PROVE  /\ answered \subseteq answered' /\ failed \subseteq failed'
         /\ Origin(symbol_name', answered') /\ symbol_name' = sym.type
         /\ sym.displacement = 0 => EntryIsFounded(vt, sym.type, answered', failed')
<1>1. /\ answered \subseteq answered' /\ failed \subseteq failed' /\ symbol_name' = sym.type
      /\ build \in Builds /\ Origin(symbol_name, answered)
  BY DEF GetSymbol, CacheInv
<1>2. CASE SymbolIn[build][vt] # Failed
  <2>1. sym = SymbolIn[build][vt] /\ <<vt, sym.type>> \in answered' BY <1>2 DEF GetSymbol
  <2>2. sym \in Symbol BY <1>1, <1>2, <2>1, SymbolInAssumption
  <2>3. sym.displacement = 0 => sym = [type |-> sym.type, displacement |-> 0]
    BY <2>2 DEF Symbol
  <2> QED BY <1>1, <2>1, <2>3 DEF Origin, EntryIsFounded, OwnAnswer
<1>3. CASE SymbolIn[build][vt] = Failed
  <2>1. /\ sym.type \in {"", symbol_name} /\ <<vt, sym.type>> \in failed'
        /\ answered' = answered
    <3>1. sym \in {Empty, [Empty EXCEPT !.type = symbol_name]} BY <1>3 DEF GetSymbol
    <3>2. [Empty EXCEPT !.type = symbol_name].type = symbol_name BY DEF Empty
    <3>3. Empty.type = "" BY DEF Empty
    <3>4. sym.type \in {"", symbol_name} BY <3>1, <3>2, <3>3
    <3> QED BY <1>3, <3>4 DEF GetSymbol
  <2>2. Origin(sym.type, answered') BY <1>1, <2>1 DEF Origin
  <2>3. EntryIsFounded(vt, sym.type, answered', failed')
    BY <2>1, <2>2 DEF Origin, EntryIsFounded
  <2> QED BY <1>1, <2>2, <2>3
<1> QED BY <1>2, <1>3

LEMMA PushFounded ==
  ASSUME CacheInv, NEW vt \in Vtables, NEW sym, push(vt, sym)
  PROVE  /\ Origin(symbol_name', answered') /\ DOMAIN vtable_map_' = DOMAIN vtable_map_ \cup {vt}
         /\ \A v \in DOMAIN vtable_map_' : EntryIsFounded(v, vtable_map_'[v], answered', failed')
<1>1. GetSymbol(vt, sym)
      /\ Assign(vt, IF sym.displacement = 0 THEN sym.type ELSE Entry(vt))
  BY DEF push
<1>2. /\ answered \subseteq answered' /\ failed \subseteq failed' /\ Origin(symbol_name', answered')
      /\ sym.displacement = 0 => EntryIsFounded(vt, sym.type, answered', failed')
  BY <1>1, GetSymbolFounded
<1>3. ASSUME NEW v, NEW type, EntryIsFounded(v, type, answered, failed) PROVE EntryIsFounded(v, type, answered', failed')
  BY <1>2, <1>3, FoundedGrows
<1>4. EntryIsFounded(vt, Entry(vt), answered, failed)
  <2>1. EntryIsFounded(vt, "", answered, failed) BY DEF EntryIsFounded
  <2> QED BY <2>1 DEF CacheInv, Entry
<1> DEFINE type == IF sym.displacement = 0 THEN sym.type ELSE Entry(vt)
<1>5. EntryIsFounded(vt, type, answered', failed') BY <1>2, <1>3, <1>4
<1> HIDE DEF type
<1>6. vtable_map_' = [v \in DOMAIN vtable_map_ \cup {vt} |-> IF v = vt THEN type ELSE vtable_map_[v]]
  BY <1>1 DEF Assign, type
<1>7. ASSUME NEW v \in DOMAIN vtable_map_' PROVE EntryIsFounded(v, vtable_map_'[v], answered', failed')
  <2>1. CASE v = vt BY <1>5, <1>6, <2>1
  <2>2. CASE v # vt
    <3>1. v \in DOMAIN vtable_map_ /\ vtable_map_'[v] = vtable_map_[v] BY <1>6, <1>7, <2>2
    <3>2. EntryIsFounded(v, vtable_map_[v], answered, failed) BY <3>1 DEF CacheInv
    <3> QED BY <1>3, <3>1, <3>2
  <2> QED BY <2>1, <2>2
<1> QED BY <1>2, <1>6, <1>7

LEMMA CacheInvStep == ASSUME CacheInv, [Next]_vars PROVE CacheInv'
<1>1. CASE resolve_type
  <2>1. PICK vt \in Vtables :
          /\ \/ Known(vt) /\ UNCHANGED <<vtable_map_, symbol_name, answered, failed>>
             \/ ~Known(vt) /\ \E sym \in Buffers : push(vt, sym)
          /\ resolved' = <<vt, Returned(vt)>> /\ UNCHANGED build
    BY <1>1 DEF resolve_type
  <2>2. CASE Known(vt)
    <3>1. UNCHANGED <<vtable_map_, symbol_name, answered, failed>> BY <2>1, <2>2
    <3>2. vt \in DOMAIN vtable_map_ BY <2>2 DEF Known, Entry
    <3> QED BY <2>1, <3>1, <3>2 DEF CacheInv, Origin, EntryIsFounded, OwnAnswer, Returned
  <2>3. CASE ~Known(vt)
    <3>1. PICK sym : push(vt, sym) BY <2>1, <2>3
    <3>2. Origin(symbol_name', answered') /\ DOMAIN vtable_map_' = DOMAIN vtable_map_ \cup {vt}
          /\ \A v \in DOMAIN vtable_map_' : EntryIsFounded(v, vtable_map_'[v], answered', failed')
      BY <3>1, PushFounded
    <3> QED BY <2>1, <3>2 DEF CacheInv, Returned
  <2> QED BY <2>2, <2>3
<1>2. CASE Reload BY <1>2 DEF Reload, CacheInv, Origin, EntryIsFounded, OwnAnswer
<1>3. CASE UNCHANGED vars BY <1>3 DEF vars, CacheInv, Origin, EntryIsFounded, OwnAnswer
<1> QED BY <1>1, <1>2, <1>3 DEF Next

(***************************************************************************)
(* The theorem.                                                            *)
(***************************************************************************)

(* A type resolve_type returns is the engine's answer for that vtable, now *)
(* or under earlier symbols, or the answer for another one that the static *)
(* buffer still held when the lookup of this one failed: a type is never   *)
(* made up, however lookups and reloads follow each other (push).          *)
THEOREM ResolvedWasAnswered == Spec => []TypesWereAnswered
<1>1. Init => CacheInv
  <2> SUFFICES ASSUME Init PROVE CacheInv OBVIOUS
  <2>1. DOMAIN vtable_map_ = {} BY DEF Init
  <2> QED BY <2>1 DEF Init, CacheInv, Origin
<1>2. CacheInv /\ [Next]_vars => CacheInv' BY CacheInvStep
<1>3. CacheInv => TypesWereAnswered
  <2> SUFFICES ASSUME CacheInv PROVE TypesWereAnswered OBVIOUS
  <2>1. \A vt \in DOMAIN vtable_map_ : EntryIsFounded(vt, vtable_map_[vt], answered, failed) BY DEF CacheInv
  <2>2. resolved # <<0, "">> => resolved[2] = vtable_map_[resolved[1]] BY DEF CacheInv
  <2> QED BY <2>1, <2>2 DEF TypesWereAnswered, EntryIsFounded, OwnAnswer
<1> QED BY <1>1, <1>2, <1>3, PTL DEF Spec
=============================================================================
