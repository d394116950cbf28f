---------------------------- MODULE ExportTable ----------------------------
(***************************************************************************)
(* PEImage::DumpExportTable of peimage.cpp, the command !ext: the three    *)
(* parallel arrays of an export directory are joined in one table, which   *)
(* is then printed.  The arrays are functions whose domains are the        *)
(* elements that can be read; load_data gives 0 for the others.            *)
(***************************************************************************)
EXTENDS Integers, Sequences

CONSTANT Images   \* images; dir.va is 0 if they have no export directory

VARIABLES
  image,   \* the image of this command
  step,    \* "functions", "names", "rows", "end" or "crashed"
  i,       \* the loop counter
  table,   \* the local table
  rows     \* what was printed

vars == <<image, step, i, table, rows>>

At(f, k, zero) == IF k \in DOMAIN f THEN f[k] ELSE zero
(* RvaString copies 100 bytes without a terminator of its own: strings is  *)
(* of names shorter than that, a longer one is read beyond the copy.       *)
RvaString(rva) == At(image.strings, rva, "")

NoRows(n) == [k \in 0 .. n - 1 |-> [entry_ |-> 0, name_ |-> ""]]

First(img) == IF img.dir.va = 0 THEN "end" ELSE "functions"

Init == /\ image \in Images /\ step = First(image) /\ i = 0 /\ rows = << >>
        /\ table = NoRows(image.NumberOfFunctions)

Loop(n, next) == IF i + 1 < n THEN i' = i + 1 /\ UNCHANGED step ELSE i' = 0 /\ step' = next

(* Mutant: ordinals are counted from one. *)
Mutant_Ordinal(k) == At(image.ordinals, k, 0) - 1
Ordinal(k) == At(image.ordinals, k, 0)

(* table[i].entry_ = AddressOfFunctions[i]; there may be none. *)
ReadFunction ==
  /\ step = "functions"
  /\ table' = IF i \in DOMAIN table
              THEN [table EXCEPT ![i].entry_ = At(image.functions, i, 0)] ELSE table
  /\ Loop(image.NumberOfFunctions, "names")
  /\ UNCHANGED <<image, rows>>

(* table[AddressOfNameOrdinals[i]].name_ = AddressOfNames[i]; an ordinal   *)
(* beyond the table is not tested for, what it writes to is undefined.     *)
ReadName ==
  /\ step = "names"
  /\ IF i < image.NumberOfNames /\ Ordinal(i) \notin DOMAIN table
     THEN /\ UNCHANGED table
          /\ Loop(image.NumberOfNames, "rows") \/ (step' = "crashed" /\ UNCHANGED i)
     ELSE /\ table' = IF i < image.NumberOfNames
                      THEN [table EXCEPT ![Ordinal(i)].name_ = RvaString(At(image.names, i, 0))]
                      ELSE table
          /\ Loop(image.NumberOfNames, "rows")
  /\ UNCHANGED <<image, rows>>

(* Mutant: the end of the directory is taken for a part of it. *)
Mutant_is_forwarder(e) == e.entry_ >= image.dir.va /\ e.entry_ <= image.dir.va + image.dir.size
is_forwarder(e) == e.entry_ >= image.dir.va /\ e.entry_ < image.dir.va + image.dir.size

(* A row, unless the entry is not used. *)
PrintRow ==
  /\ step = "rows"
  /\ rows' = IF i \in DOMAIN table /\ table[i].entry_ # 0
             THEN Append(rows, [ordinal |-> i, name |-> table[i].name_,
                                forward |-> is_forwarder(table[i]),
                                target |-> IF is_forwarder(table[i])
                                           THEN RvaString(table[i].entry_) ELSE ""])
             ELSE rows
  /\ Loop(image.NumberOfFunctions, "end")
  /\ UNCHANGED <<image, table>>

Next == ReadFunction \/ ReadName \/ PrintRow

Spec == Init /\ [][Next]_vars

-----------------------------------------------------------------------------
NamesOf(k) == {image.strings[image.names[n]] :
                 n \in {n \in DOMAIN image.names : n \in DOMAIN image.ordinals
                                                   /\ image.ordinals[n] = k
                                                   /\ image.names[n] \in DOMAIN image.strings}}
Whole == /\ DOMAIN image.ordinals = 0 .. image.NumberOfNames - 1
         /\ DOMAIN image.names = DOMAIN image.ordinals
         /\ \A n \in DOMAIN image.names : image.names[n] \in DOMAIN image.strings
InTable == \A n \in DOMAIN image.ordinals : image.ordinals[n] \in DOMAIN table

(* The three loops stay inside of the table they fill (DumpExportTable).   *)
TypeOK ==
  /\ step \in {"functions", "names", "rows", "end", "crashed"}
  /\ i = 0 \/ i < IF step \in {"names", "crashed"} THEN image.NumberOfNames ELSE image.NumberOfFunctions
  /\ DOMAIN table = 0 .. image.NumberOfFunctions - 1
  /\ \A k \in 1 .. Len(rows) : rows[k].ordinal \in DOMAIN table

(* A command that ends has a row for each function that can be read and is *)
(* used, in order; it is called forwarded exactly if it points into the    *)
(* directory.                                                              *)
EveryFunctionOnce ==
  step = "end" =>
    /\ {rows[k].ordinal : k \in 1 .. Len(rows)} =
         {f \in DOMAIN image.functions : image.dir.va # 0 /\ image.functions[f] # 0}
    /\ \A k \in 1 .. Len(rows) - 1 : rows[k].ordinal < rows[k + 1].ordinal
    /\ \A k \in 1 .. Len(rows) :
         rows[k].forward <=>
           image.functions[rows[k].ordinal] - image.dir.va \in 0 .. image.dir.size - 1

(* The names are joined to the functions by their ordinals: where the      *)
(* arrays can be read, a row has a name of its function, if it has one.    *)
JoinedByOrdinal ==
  step = "end" /\ Whole /\ InTable =>
    \A k \in 1 .. Len(rows) :
      IF NamesOf(rows[k].ordinal) = {} THEN rows[k].name = ""
      ELSE rows[k].name \in NamesOf(rows[k].ordinal)
=============================================================================
