--------------------------- MODULE MCVtableCache ---------------------------
(* Two sets of symbols: a vtable is known in one, both or none of them, of *)
(* another type in each, or behind a symbol.                               *)
EXTENDS VtableCache

Sym(type, displacement) == [type |-> type, displacement |-> displacement]
MCVtables == 0 .. 3
MCSymbolIn ==
  [b \in Builds |->
    [vt \in MCVtables |->
      IF b = "old" THEN <<Sym("A", 0), Sym("B", 0), Failed>>[IF vt = 0 THEN 3 ELSE vt]
      ELSE <<Sym("B", 0), Sym("C", 8), Sym("D", 0)>>[IF vt = 0 THEN 2 ELSE vt]]]
=============================================================================
