------------------------------- MODULE Words -------------------------------
(***************************************************************************)
(* address_t and the other 64-bit quantities of the extension, as the set  *)
(* of the positions of their 1 bits.  Masks are intersections with an      *)
(* interval, "|" is union, and every width is the real one: nothing is     *)
(* scaled down for model checking, and the theorems about these operators  *)
(* hold for all 2^64 values.                                               *)
(***************************************************************************)
EXTENDS Integers

Bit  == 0 .. 63
Word == SUBSET Bit

(* extract(n, pos, len): bits pos .. pos+len-1 of n, shifted down.  The    *)
(* lowest field of a C bit-field struct is read in the same way.           *)
extract(n, pos, len) == {i \in 0 .. len - 1 : i + pos \in n}

(* w << k, which is also w * 2^k; bits pushed beyond bit 63 are lost.      *)
Shl(w, k) == {i \in k .. 63 : i - k \in w}

(* The positions that receive a carry when a and b are added: some lower   *)
(* position generates one and every position in between propagates it.     *)
CarryInto(a, b) ==
  IF a \cap b = {} THEN {}
  ELSE {i \in Bit : \E j \in a \cap b : j < i /\ (j + 1 .. i - 1) \subseteq a \cup b}

Xor(a, b) == (a \cup b) \ (a \cap b)

(* a + b modulo 2^64.  Naming the summands x and y has TLC evaluate each   *)
(* of them once.                                                           *)
Plus(a, b) == UNION {Xor(Xor(x, y), CarryInto(x, y)) \cap Bit : x \in {a}, y \in {b}}
=============================================================================
