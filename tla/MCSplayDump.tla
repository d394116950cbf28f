---------------------------- MODULE MCSplayDump ----------------------------
(* Finite instances of SplayDump for TLC. *)
EXTENDS SplayDump, TLC

(* Links between four nodes: trees, chains, cycles and joins of branches.  *)
MCSpace == 8
Pairs(S)  == [left: S, right: S]
MCNodes   == Pairs({0, 2}) \cup Pairs({0, 3}) \cup {[left |-> 2, right |-> 3],
               [left |-> 3, right |-> 1], [left |-> 1, right |-> 4]}
MCRoots   == {0, 1, 2 + MCSpace}   \* the last is sign-extended in a 32-bit target
=============================================================================
