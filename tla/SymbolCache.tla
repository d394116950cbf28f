---------------------------- MODULE SymbolCache ----------------------------
(***************************************************************************)
(* symbol_manager.cpp: the two maps that remember, for the life of the     *)
(* extension, what the engine answered about a field of a type.  The       *)
(* symbols themselves belong to the engine: they may be missing when a     *)
(* command asks, and be loaded or exchanged between two commands.          *)
(***************************************************************************)
EXTENDS Integers

CONSTANTS
  Builds,       \* the symbols that can be loaded; one of them may be "none"
  Fields,       \* pairs <<type, field>>
  OffsetIn,     \* OffsetIn[b][f]: the offset of f in build b, or Unknown
  InfoIn,       \* InfoIn[b][f]: its bit position and size, NoInfo if missing
  Unknown       \* stands for 0xffffffff, an offset beyond every type

NoInfo  == [Position |-> 0, Size |-> 0]
Info    == [Position: Nat, Size: Nat]

ASSUME UnknownAssumption  == Unknown \in Nat \ {0}
ASSUME OffsetInAssumption == OffsetIn \in [Builds -> [Fields -> Nat]]
ASSUME InfoInAssumption   == InfoIn \in [Builds -> [Fields -> Info]]

VARIABLES
  build,            \* the symbols the engine has loaded
  offset_map_,      \* offset_map_: full symbol name -> offset
  field_info_map_,  \* field_info_map_: full symbol name -> FIELD_INFO
  asked             \* how often the engine was asked about a field, by question

cachevars == <<build, offset_map_, field_info_map_, asked>>

Questions == {"offset", "info"} \X Fields

CacheInit ==
  /\ build \in Builds
  /\ offset_map_ = [n \in {} |-> Unknown] /\ field_info_map_ = [n \in {} |-> NoInfo]
  /\ asked = [q \in Questions |-> 0]

(* Mutant: the key is the name of the field. *)
Mutant_full_symbol_name(f) == f[2]

(* The key of both maps: type + '.' + field. *)
full_symbol_name(f) == f

Kept(map, f, answer) ==
  LET key == full_symbol_name(f)
  IN  [n \in DOMAIN map \cup {key} |-> IF n \in DOMAIN map THEN map[n] ELSE answer]

Found(map, f) == full_symbol_name(f) \in DOMAIN map
Ask(q, found) == asked' = [asked EXCEPT ![q] = IF found THEN @ ELSE @ + 1]

(* Mutant: a failure is asked for again. *)
Mutant_get_field_offset(f) ==
  LET again == Found(offset_map_, f) /\ offset_map_[f] = Unknown
  IN  /\ offset_map_' = IF again THEN [offset_map_ EXCEPT ![f] = OffsetIn[build][f]]
                        ELSE Kept(offset_map_, f, OffsetIn[build][f])
      /\ Ask(<<"offset", f>>, Found(offset_map_, f) /\ ~again)
      /\ UNCHANGED <<build, field_info_map_>>

(* A lookup: what the map holds stays, else the answer of the engine is    *)
(* kept, a failure like any other.                                         *)
get_field_offset(f) ==
  /\ offset_map_' = Kept(offset_map_, f, OffsetIn[build][f])
  /\ Ask(<<"offset", f>>, Found(offset_map_, f))
  /\ UNCHANGED <<build, field_info_map_>>

get_field_info(f) ==
  /\ field_info_map_' = Kept(field_info_map_, f, InfoIn[build][f])
  /\ Ask(<<"info", f>>, Found(field_info_map_, f))
  /\ UNCHANGED <<build, offset_map_>>

(* What a lookup returns is what the map holds after it. *)
Offset(f) == offset_map_'[full_symbol_name(f)]
FieldInfo(f) == field_info_map_'[full_symbol_name(f)]

(* The user loads, unloads or exchanges symbols between two commands.      *)
Reload == build' \in Builds \ {build} /\ UNCHANGED <<offset_map_, field_info_map_, asked>>

-----------------------------------------------------------------------------
(* Offsets are numbers and the keys of both maps name fields that were     *)
(* asked for (the two unordered_maps of symbol_manager).                   *)
CacheTypeOK ==
  /\ build \in Builds
  /\ DOMAIN offset_map_ \subseteq Fields /\ DOMAIN field_info_map_ \subseteq Fields
  /\ \A f \in DOMAIN offset_map_ : offset_map_[f] \in Nat
  /\ \A f \in DOMAIN field_info_map_ : field_info_map_[f] \in Info
  /\ asked \in [Questions -> Nat]

(* The engine is asked about a field at most once, whether it knew it or   *)
(* not: a lookup that fails may be slow ("Regardless of the result, we     *)
(* update the map to block subsequent attempts").                          *)
AskedOnce == \A q \in Questions : asked[q] <= 1
=============================================================================
