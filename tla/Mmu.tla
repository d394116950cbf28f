-------------------------------- MODULE Mmu --------------------------------
(***************************************************************************)
(* What Paging::Translate promises: a translation is one step, and its     *)
(* answer is the architectural one for the memory the target has.  Paging  *)
(* is shown to implement this specification.                               *)
(***************************************************************************)
EXTENDS PagingArch

CONSTANT VirtAddrs   \* the linear addresses a translation may be asked for

VARIABLES
  pc,    \* "new", "ready", "walk" or "returned"
  mode,  \* paging mode of the target
  base,  \* physical address of the top table
  virt,  \* address under translation
  mem,   \* the part of physical memory seen so far: entry address -> word
  ret,   \* was the last translation successful?
  phys   \* and its result

mmuvars == <<pc, mode, base, virt, mem, ret, phys>>

-----------------------------------------------------------------------------
(* The specification.  Memory is only ever revealed: the target is halted  *)
(* while a command runs.                                                   *)

Extends(mm) == /\ DOMAIN mem \subseteq DOMAIN mm
               /\ \A a \in DOMAIN mem : mm[a] = mem[a]

Candidates(mm) == UNION {[1 .. n -> {mm[a] : a \in DOMAIN mm}] : n \in 0 .. 4}

Init ==
  /\ pc = "new" /\ mode = "Invalid" /\ base = {} /\ virt = {}
  /\ mem = [a \in {} |-> Unreadable] /\ ret = FALSE /\ phys = Undefined

Configure ==
  /\ pc = "new" /\ pc' = "ready"
  /\ mode' \in Modes
  /\ base' \subseteq BaseBits(mode')
  /\ UNCHANGED <<virt, mem, ret, phys>>

Ask(v) ==
  /\ pc \in {"ready", "returned"}
  /\ virt' = v
  /\ \/ mode \in Walking /\ pc' = "walk" /\ phys' = Undefined /\ UNCHANGED ret
     \/ mode = "None" /\ pc' = "returned" /\ ret' = TRUE /\ phys' = v
     \/ mode = "Invalid" /\ pc' = "returned" /\ ret' = FALSE /\ phys' = Undefined
  /\ UNCHANGED <<mode, base, mem>>

Reveal ==
  /\ pc = "walk"
  /\ Extends(mem')
  /\ UNCHANGED <<pc, mode, base, virt, ret, phys>>

Answer ==
  /\ pc = "walk" /\ pc' = "returned"
  /\ Extends(mem')
  /\ \/ /\ ret' = TRUE
        /\ \E es \in Candidates(mem') : Translates(mode, base, virt, mem', es, phys')
     \/ /\ ret' = FALSE /\ phys' = Undefined
        /\ \E es \in Candidates(mem') : Faults(mode, base, virt, mem', es)
  /\ UNCHANGED <<mode, base, virt>>

Next == Configure \/ (\E v \in VirtAddrs : Ask(v)) \/ Reveal \/ Answer

Spec == Init /\ [][Next]_mmuvars
=============================================================================
