---------------------------- MODULE MCPfnRecord ----------------------------
(* Sessions with two sets of symbols and with none. *)
EXTENDS PfnRecord

MCBuilds == {"none", "old", "new"}
MCFields == {"nt!_MMPFN"} \X {FieldNames[i] : i \in 1 .. Len(FieldNames)}
MCSizeIn == [none |-> 0, old |-> 48, new |-> 48]

(* The old build has no spare bits, and two members in exchanged places.   *)
OldOffset == [PteAddress |-> 16, OriginalPte |-> 8, u4 |-> 40]
NewOffset == [PteAddress |-> 8, OriginalPte |-> 16, u4 |-> 40]
Known(t, f) == IF f \in DOMAIN t THEN t[f] ELSE Unknown
MCOffsetIn ==
  [b \in MCBuilds |-> [f \in MCFields |->
     IF b = "none" THEN Unknown
     ELSE Known(IF b = "old" THEN OldOffset ELSE NewOffset, f[2])]]
Index(name) == CHOOSE i \in 1 .. Len(FieldNames) : FieldNames[i] = name
MCInfoIn ==
  [b \in MCBuilds |-> [f \in MCFields |->
     IF b = "none" \/ (b = "old" /\ f[2] = "u4.Spare") THEN NoInfo
     ELSE [Position |-> 3 * Index(f[2]) + (IF b = "old" THEN 1 ELSE 0), Size |-> 3]]]
=============================================================================
