------------------------------- MODULE MCV2p -------------------------------
(* Finite instances of V2p for TLC: 64-bit words, a few of them. *)
EXTENDS V2p

MCUnreadable == {64}
MCUndefined  == {65}
MCNoDirBase  == {66}
MCNothing    == {67}

MCContents == { {0, 1, 12, 30}, {0, 7, 13, 21, 30, 51}, {6, 12}, MCUnreadable }

(* One machine of each kind, and one whose registers cannot be evaluated.  *)
Machine(r0, r4, efer, known, ptr) ==
  [cr0 |-> r0, cr3 |-> {3, 12, 31}, cr4 |-> r4, efer |-> efer,
   readable |-> known, msrReadable |-> TRUE, ptr64 |-> ptr]
MCTargets ==
  { Machine({0, 31}, {5}, {8}, TRUE, "S_OK"), Machine({0, 31}, {5, 17}, {8}, TRUE, "S_OK"),
    Machine({0, 31}, {5}, {}, TRUE, "S_FALSE"), Machine({0, 31}, {}, {}, TRUE, "S_FALSE"),
    Machine({0}, {}, {}, TRUE, "S_FALSE"), Machine({0}, {}, {}, FALSE, "E_FAIL"),
    Machine({0, 31}, {5}, {8}, FALSE, "S_OK") }

MCDirBases == { {12, 30} }
MCArgs     == { {0, 12, 22, 31, 39, 45, 62}, {3, 11, 20, 21, 30, 46, 47} }
MCRequests == [command: {"v2p", "pfn2"}, arg: MCArgs,
               dirbase: MCDirBases \cup {MCNoDirBase}, flag32: BOOLEAN]

(* Two self-map slots, an address that is none, and an unreadable symbol.  *)
MCPteBases == { (48 .. 63) \cup {39, 41, 47}, (48 .. 63) \cup {46}, {30, 47}, {} }
MCPfnBases == { (47 .. 63) \cup {41}, {} }

(* The arguments, and the records of all pages a walk of them can end in.  *)
MCPages == { PageAddr(m, v, e, d) : m \in {"L4"}, v \in MCArgs,
                                    e \in MCContents \ {MCUnreadable}, d \in 2 .. 4 }
MCVirtAddrs ==
  MCArgs \cup { v \cap (0 .. 31) : v \in MCArgs }
         \cup { RecordAddr(b, n) : b \in MCPfnBases,
                  n \in MCArgs \cup { extract(p, 12, 52) : p \in MCPages } }
=============================================================================
