------------------------------ MODULE ShortRead ------------------------------
(***************************************************************************)
(* load_data of common.h.  The structure is zeros before it is read, the   *)
(* bytes that ReadMemory did read stay in it, and that it read too few is  *)
(* logged and no more: what a short read leaves of a structure is its      *)
(* beginning.  A number the read stops in keeps its low bytes.             *)
(***************************************************************************)
EXTENDS Integers

CONSTANT Cuts   \* the powers of 256 below the widest number, with 1

(* What may be kept of the number x, from nothing to all of it. *)
Cut(x) == {x} \cup {x % c : c \in Cuts}
=============================================================================
