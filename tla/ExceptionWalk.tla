--------------------------- MODULE ExceptionWalk ---------------------------
(***************************************************************************)
(* The command !ex (DumpExceptionRecords, DumpUnwindInfo, DumpScopeTable   *)
(* of peimage.cpp, the structures of exception_handling.h): for every      *)
(* function of an image, or for the one that holds an address, its unwind  *)
(* codes, its handler and the scopes of a C handler.  Addresses are        *)
(* relative to the image; what cannot be read is 0.                        *)
(***************************************************************************)
EXTENDS Integers, Sequences

CONSTANTS
  Images,     \* the images that are dumped
  Pcs,        \* second arguments of !ex; 0 if there is none
  CHandlers,  \* addresses whose symbol is _C_specific_handler
  Unnamed     \* addresses that no symbol is found for

VARIABLES
  image, pc,
  step,    \* "table", "info", "codes", "handler" or "end"
  raw,     \* entry_raw
  index,
  row,     \* the text under construction for one function
  rows     \* what was printed

vars == <<image, pc, step, raw, index, row, rows>>

At(f, a, zero) == IF a \in DOMAIN f THEN f[a] ELSE zero
Word(a) == At(image.words, a, 0)
Entry(a) == [BeginAddress |-> Word(a), EndAddress |-> Word(a + 4), UnwindData |-> Word(a + 8)]
Info(a) == At(image.infos, a, [Version |-> 0, Handler |-> FALSE, CountOfCodes |-> 0])
ScopeAt(a) == [at |-> a, BeginAddress |-> Word(a), EndAddress |-> Word(a + 4)]
Covers(r) == pc >= r.BeginAddress /\ pc < r.EndAddress

NoRow == [at |-> 0, index |-> 0, info |-> 0, supported |-> TRUE, ops |-> << >>,
          handler |-> 0, scopes |-> << >>]

Init == /\ image \in Images /\ pc \in Pcs
        /\ step = "table" /\ raw = image.dir.va /\ index = 0
        /\ row = NoRow /\ rows = << >>

Goto(s) == step' = s
Is64bit == image.Machine \in {"AMD64", "ARM64"}

Refuse == /\ step = "table" /\ ~Is64bit /\ Goto("end")
          /\ UNCHANGED <<image, pc, raw, index, row, rows>>

(* Mutant: the end of a function is taken for a part of it. *)
Mutant_Selected(e) ==
  e.UnwindData # 0 /\ (pc = 0 \/ (pc >= e.BeginAddress /\ pc <= e.EndAddress))
Selected(e) == e.UnwindData # 0 /\ (pc = 0 \/ Covers(e))

Advance == raw' = raw + 12 /\ index' = index + 1

ReadEntry ==
  /\ step = "table" /\ Is64bit /\ raw < image.dir.va + image.dir.size
  /\ IF Selected(Entry(raw))
     THEN /\ row' = [NoRow EXCEPT !.at = raw, !.index = index, !.info = Entry(raw).UnwindData]
          /\ Goto("info") /\ UNCHANGED <<raw, index>>
     ELSE Advance /\ UNCHANGED <<row, step>>
  /\ UNCHANGED <<image, pc, rows>>

TableEnds == /\ step = "table" /\ Is64bit /\ raw >= image.dir.va + image.dir.size /\ Goto("end")
             /\ UNCHANGED <<image, pc, raw, index, row, rows>>

(* dprintf of the text, and the next entry of the table. *)
Finish(r) == rows' = Append(rows, r) /\ row' = NoRow /\ Goto("table") /\ Advance

(* DumpUnwindInfo, up to the codes: other versions are refused. *)
ReadInfo ==
  /\ step = "info"
  /\ IF Info(row.info).Version >= 2
     THEN Finish([row EXCEPT !.supported = FALSE])
     ELSE Goto("codes") /\ UNCHANGED <<row, rows, raw, index>>
  /\ UNCHANGED <<image, pc>>

(* Mutant: the handler follows the last code. *)
Mutant_HandlerAt(a) == a + 4 + 2 * Info(a).CountOfCodes
(* The codes are padded to an even number. *)
HandlerAt(a) == a + 4 + 2 * (2 * ((Info(a).CountOfCodes + 1) \div 2))
Counted == Len(row.ops) < Info(row.info).CountOfCodes

ReadCode ==
  /\ step = "codes" /\ Counted
  /\ row' = [row EXCEPT !.ops = Append(@, row.info + 4 + 2 * Len(@))]
  /\ UNCHANGED <<image, pc, step, raw, index, rows>>

(* Mutant: a count that is too large ends the table. *)
Mutant_ScopeCount(n) == IF n > 100 THEN 0 ELSE n
ScopeCount(n) == IF n > 100 THEN 100 ELSE n

(* DumpScopeTable: the records, of which those around the address are      *)
(* marked.                                                                 *)
Scopes(a) ==
  [k \in 1 .. ScopeCount(Word(a)) |->
     LET r == ScopeAt(a + 4 + 16 * (k - 1))
     IN  [record |-> r, mark |-> pc # 0 /\ Covers(r)]]

(* GetSymbol finds the handler to be _C_specific_handler; symbol and       *)
(* displacement are not initialized, so if it fails they may say anything. *)
Specific(handler) == IF handler \in Unnamed THEN BOOLEAN ELSE {handler \in CHandlers}

ReadHandler ==
  LET at == HandlerAt(row.info)
  IN  /\ step = "codes" /\ ~Counted
      /\ \E specific \in Specific(Word(at)) :
           Finish(IF ~Info(row.info).Handler THEN row
                  ELSE [row EXCEPT !.handler = at,
                                   !.scopes = IF specific THEN Scopes(at + 4) ELSE << >>])
      /\ UNCHANGED <<image, pc>>

Next == Refuse \/ ReadEntry \/ TableEnds \/ ReadInfo \/ ReadCode \/ ReadHandler

Spec == Init /\ [][Next]_vars

-----------------------------------------------------------------------------
(* The text of a function is for the entry the walk stands at, and has     *)
(* as many codes as it counts (DumpUnwindInfo).                            *)
TypeOK ==
  /\ step \in {"table", "info", "codes", "end"}
  /\ raw = image.dir.va + 12 * index
  /\ step \in {"info", "codes"} => row.at = raw
  /\ \A k \in 1 .. Len(rows) :
       Len(rows[k].ops) = IF rows[k].supported THEN Info(rows[k].info).CountOfCodes ELSE 0

(* Of an x64 image, the only ones the command says it supports, a command  *)
(* that ends has shown each function of the table once and in order, or    *)
(* the one that holds the address it was given, and no code that is not    *)
(* code: an entry without unwind data and one that cannot be read are      *)
(* passed over.                                                            *)
EveryFunctionOnce ==
  step = "end" /\ image.Machine = "AMD64" =>
    /\ {rows[k].index : k \in 1 .. Len(rows)} =
         {k \in 0 .. (image.dir.size + 11) \div 12 - 1 : LET e == Entry(image.dir.va + 12 * k) IN
            e.UnwindData # 0 /\ (pc # 0 => pc \in e.BeginAddress .. e.EndAddress - 1)}
    /\ \A k \in 1 .. Len(rows) - 1 : rows[k].index < rows[k + 1].index

(* The handler is read from the first aligned place after the codes, as    *)
(* GetLanguageSpecificDataPtr says (exception_handling.h): from no code    *)
(* and not from beyond the padding.                                        *)
HandlerFollowsCodes ==
  \A k \in 1 .. Len(rows) : rows[k].handler # 0 =>
    LET last == rows[k].info + 4 + 2 * Len(rows[k].ops)
    IN  rows[k].handler % 4 = rows[k].info % 4 /\ rows[k].handler \in last .. last + 3

(* The scopes of a C handler follow it; whatever stands there, no more     *)
(* than a hundred are shown ("Probably this data is not ScopeTable"), and  *)
(* fewer only if the table has no more; the marked ones hold the address.  *)
(* Where no symbol is found for a handler, the table may be shown or not.  *)
ScopesFollowHandler ==
  \A k \in 1 .. Len(rows) : LET s == rows[k].scopes IN
    /\ Len(s) <= 100 /\ (s # << >> => Word(rows[k].handler) \in CHandlers \cup Unnamed)
    /\ rows[k].handler # 0 /\ Word(rows[k].handler) \in CHandlers =>
         Len(s) = 100 \/ Len(s) = Word(rows[k].handler + 4)
    /\ \A j \in 1 .. Len(s) : s[j].record.at = rows[k].handler + 8 + 16 * (j - 1)
=============================================================================
