------------------------------ MODULE MCPaging ------------------------------
(* Finite instances of Paging for TLC: real 64-bit words, a few of them.   *)
EXTENDS Paging

MCUnreadable == {64}    \* no word: bit 64 does not exist
MCUndefined  == {65}

(* Different indexes at every level, and an offset with low and high bits. *)
MCVirtAddrs ==
  { {0, 3, 11, 12, 22, 25, 31, 39, 45, 63},
    {1, 13, 20, 21, 30, 38, 40, 47, 48},
    {} }

MCTables == { {0, 1, 12, 30}, {0, 5, 31, 51, 63}, {0, 13, 21, 34, 52} }
MCPages  == { {0, 7, 12, 13, 20, 22, 30, 39}, {0, 7, 21, 31, 51, 59} }
MCContents == MCTables \cup MCPages \cup { {}, {7, 12, 30, 51}, MCUnreadable }

MCFewContents == { {0, 1, 12, 30}, {0, 7, 13, 21, 30, 51}, {6, 12}, MCUnreadable }
MCTwoVirtAddrs == { {0, 12, 22, 31, 39, 45}, {11, 20, 21, 30, 47} }

(* Machines: control registers with high, low and ignored bits set.        *)
MCRegisters ==
  [cr0: { {0}, {0, 31} }, cr3: { {3, 4, 5, 12, 30, 31, 47, 63} },
   cr4: { {}, {5}, {5, 17}, {17} }, efer: { {}, {8, 10} },
   readable: BOOLEAN, msrReadable: BOOLEAN, ptr64: HResult]
MCTargets  == MCRegisters
MCAliasedBases == { {12, 30}, {3, 12, 13, 30, 41} }  \* the second is no table address

MCRunningTargets == {t \in MCRegisters : t.readable /\ t.msrReadable /\ 31 \in t.cr0
                                         /\ t.ptr64 = (IF 8 \in t.efer THEN "S_OK" ELSE "S_FALSE")
                                         /\ (8 \in t.efer => 5 \in t.cr4)}
MCTableBases == { {12, 30} }
=============================================================================
