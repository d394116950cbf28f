----------------------------- MODULE GuardTable -----------------------------
(***************************************************************************)
(* DumpLoadConfig of peimage.cpp, the command !cfg: the load configuration *)
(* of an image and the table of its valid call targets.  An item of the    *)
(* table is the address of a function, 4 bytes, and up to 15 bytes about   *)
(* it; how many is in the flags.  A row is known by the place in the table *)
(* its address was copied from.                                            *)
(***************************************************************************)
EXTENDS Integers, Sequences, ShortRead

CONSTANTS
  Images,    \* images; va is 0 if they have no load configuration
  SizeBits   \* width of table_size, 32 bits in the code

VARIABLES
  image,
  step,       \* "config", "table", "rows", "end" or "crashed"
  directory,  \* what was loaded of the configuration
  cb,         \* the bytes that ReadMemory read into buf
  i, p,       \* the row, and its place in buf
  rows        \* what was printed

vars == <<image, step, directory, cb, i, p, rows>>

NoConfig == [Extra |-> 0, Count |-> 0]
NotRead == -1
Garbage == -2

First(img) == IF img.va = 0 THEN "end" ELSE "config"

Init == /\ image \in Images /\ step = First(image) /\ directory = NoConfig
        /\ cb = 0 /\ i = 0 /\ p = 0 /\ rows = << >>

(* The guard members in memory: if the structure of the image ends before  *)
(* them, what follows it is taken for them.                                *)
Described == IF image.hasGuard THEN image.guard ELSE image.follows

(* load_data<T>(dir_start).  The flags are behind the count, and the size  *)
(* of an item is in their last byte: a short read loses it first.          *)
LoadConfig ==
  /\ step = "config" /\ step' = "table"
  /\ directory' \in {Described} \cup [Extra: {0}, Count: Cut(Described.Count)]
  /\ UNCHANGED <<image, cb, i, p, rows>>

item_size == 4 + directory.Extra
table_size == (item_size * directory.Count) % (2 ^ SizeBits)

(* ReadMemory may fail, or stop at any byte, which is not looked at.       *)
ReadTable ==
  /\ step = "table"
  /\ \/ step' = "end" /\ UNCHANGED cb
     \/ step' = "rows" /\ cb' \in 0 .. table_size
  /\ UNCHANGED <<image, directory, i, p, rows>>

(* Mutant: items have no bytes after the address. *)
Mutant_Step == 4
Step == item_size

Copied == IF p + 4 <= cb THEN p ELSE NotRead
InBounds == p + item_size <= table_size /\ item_size <= 8

InLoop == i < directory.Count

(* A row: memcpy of one item to two words.  What is copied from beyond the *)
(* buffer or to beyond the words is undefined.                             *)
PrintRow ==
  /\ step = "rows" /\ InLoop
  /\ \/ /\ rows' = Append(rows, IF InBounds THEN Copied ELSE Garbage)
        /\ i' = i + 1 /\ p' = p + Step /\ UNCHANGED step
     \/ ~InBounds /\ step' = "crashed" /\ UNCHANGED <<i, p, rows>>
  /\ UNCHANGED <<image, directory, cb>>

RowsEnd == step = "rows" /\ ~InLoop /\ step' = "end"
           /\ UNCHANGED <<image, directory, cb, i, p, rows>>

Next == LoadConfig \/ ReadTable \/ PrintRow \/ RowsEnd

Spec == Init /\ [][Next]_vars

-----------------------------------------------------------------------------
(* A row per function so far, copied from inside of the buffer or not      *)
(* known (DumpLoadConfigInternal).                                         *)
TypeOK ==
  /\ step \in {"config", "table", "rows", "end", "crashed"}
  /\ cb \in 0 .. table_size /\ Len(rows) = i /\ i <= directory.Count
  /\ \A k \in 1 .. i : rows[k] \in 0 .. table_size - 4 \cup {NotRead, Garbage}

(* If its items fit in two words and its size in table_size, no copy       *)
(* leaves the buffer of the table, however much of the configuration was   *)
(* read; a command that begins to show the table shows all of it; and if   *)
(* the size of an item was read, row k is item k of the table for every    *)
(* item that was read to its end.                                          *)
Fits == Described.Extra <= 4 /\ (4 + Described.Extra) * Described.Count < 2 ^ SizeBits

RowsOfTheTable ==
  Fits =>
    /\ step # "crashed"
    /\ step = "end" /\ rows # << >> => Len(rows) = directory.Count
    /\ directory.Extra = Described.Extra =>
         \A k \in 1 .. Len(rows) :
           LET at == (k - 1) * (4 + Described.Extra)
           IN  rows[k] \in {at, NotRead} /\ (at + 4 + Described.Extra <= cb => rows[k] = at)

=============================================================================
