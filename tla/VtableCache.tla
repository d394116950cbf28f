---------------------------- MODULE VtableCache ----------------------------
(***************************************************************************)
(* vtable_manager.cpp: the types of objects, by the address of their       *)
(* vtable.  Lookups go through one static buffer, which a lookup that      *)
(* fails may leave as an earlier one filled it, with the displacement 0 it *)
(* was called with.  Symbols may be exchanged between two calls.  No code  *)
(* of the repository calls resolve_type: the callers are any.              *)
(***************************************************************************)
EXTENDS Integers

CONSTANTS
  Builds,      \* the symbols that can be loaded
  Vtables,     \* what load_pointer can return, 0 for an object that cannot be read
  SymbolIn,    \* SymbolIn[b][vt]: a Symbol, or Failed
  Failed       \* GetSymbol finds nothing

(* A symbol is of a type whose vtable it marks, or has no mark (type ""). *)
Symbol == [type: STRING, displacement: Nat]
Empty  == [type |-> "", displacement |-> 0]

ASSUME SymbolInAssumption ==
  \A b \in Builds : \A vt \in Vtables : SymbolIn[b][vt] \in Symbol \cup {Failed}

VARIABLES
  build,         \* the symbols the engine has loaded
  vtable_map_,   \* vtable_map_: vt -> type, "" for none
  symbol_name,   \* the type named by the static buffer of push
  answered,      \* pairs <<vt, type>> the engine found
  failed,        \* pairs <<vt, type>>: type was in the buffer when vt was not found
  resolved       \* what resolve_type returned: <<vt, type>>

vars == <<build, vtable_map_, symbol_name, answered, failed, resolved>>

Init == /\ build \in Builds /\ vtable_map_ = [vt \in {} |-> ""] /\ symbol_name = ""
        /\ answered = {} /\ failed = {} /\ resolved = <<0, "">>

(* vtable_map_[vt], which enters an empty string for a new address. *)
Entry(vt) == IF vt \in DOMAIN vtable_map_ THEN vtable_map_[vt] ELSE ""
Assign(vt, type) ==
  vtable_map_' = [v \in DOMAIN vtable_map_ \cup {vt} |-> IF v = vt THEN type ELSE vtable_map_[v]]

(* GetSymbol, with the buffer as it was: the symbol, or on a failure the   *)
(* buffer emptied or left.                                                 *)
GetSymbol(vt, sym) ==
  /\ \/ SymbolIn[build][vt] # Failed /\ sym = SymbolIn[build][vt]
     \/ SymbolIn[build][vt] = Failed /\ sym \in {Empty, [Empty EXCEPT !.type = symbol_name]}
  /\ symbol_name' = sym.type
  /\ IF SymbolIn[build][vt] = Failed
     THEN failed' = failed \cup {<<vt, sym.type>>} /\ UNCHANGED answered
     ELSE answered' = answered \cup {<<vt, sym.type>>} /\ UNCHANGED failed

(* Mutant: a symbol somewhere before the address is taken. *)
Mutant_push(vt, sym) == GetSymbol(vt, sym) /\ Assign(vt, sym.type)
push(vt, sym) ==
  GetSymbol(vt, sym) /\ Assign(vt, IF sym.displacement = 0 THEN sym.type ELSE Entry(vt))

Known(vt) == Entry(vt) # ""

Answers == {SymbolIn[b][vt] : b \in Builds, vt \in Vtables} \ {Failed}
Buffers == Answers \cup {[s EXCEPT !.displacement = 0] : s \in Answers} \cup {Empty}

Returned(vt) == vtable_map_'[vt]

resolve_type ==
  \E vt \in Vtables :
    /\ \/ Known(vt) /\ UNCHANGED <<vtable_map_, symbol_name, answered, failed>>
       \/ ~Known(vt) /\ \E sym \in Buffers : push(vt, sym)
    /\ resolved' = <<vt, Returned(vt)>> /\ UNCHANGED build

(* Symbols are exchanged, once. *)
Reload == /\ build = CHOOSE b \in Builds : TRUE
          /\ build' \in Builds \ {build}
          /\ UNCHANGED <<vtable_map_, symbol_name, answered, failed, resolved>>

Next == resolve_type \/ Reload

Spec == Init /\ [][Next]_vars

-----------------------------------------------------------------------------
(* A type is the engine's answer for its own vtable, now or under earlier  *)
(* symbols, except where a lookup of that vtable failed while the buffer   *)
(* named the type, and then another vtable was found to have it (push).    *)
(* What resolve_type returns is the entry.                                 *)
TypesWereAnswered ==
  /\ \A vt \in DOMAIN vtable_map_ :
       LET type == vtable_map_[vt]
       IN  \/ type = ""
           \/ /\ <<vt, type>> \in answered
              /\ \E b \in Builds : SymbolIn[b][vt] = [type |-> type, displacement |-> 0]
           \/ <<vt, type>> \in failed /\ \E v \in Vtables : <<v, type>> \in answered
  /\ resolved # <<0, "">> => resolved[2] = vtable_map_[resolved[1]]
=============================================================================
