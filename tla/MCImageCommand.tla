--------------------------- MODULE MCImageCommand ---------------------------
(* Small images for every command.  What cannot be read is missing from    *)
(* their memory.                                                           *)
EXTENDS ImageCommand, TLC

-----------------------------------------------------------------------------
(* Headers, valid and not; directories and sections in sums of five bits.  *)
Range(va, size) == [va |-> va, size |-> size]
Section(name, va, size) == [named |-> name, va |-> va, size |-> size]
Dirs1 == <<Range(4, 4), Range(8, 3), Range(0, 0)>>
Dirs2 == <<Range(12, 4), Range(30, 5), Range(6, 1)>>
Headers(mz, pe, machines, magics, counts, dirs, sections) ==
  [mz: mz, pe: pe, Machine: machines, Magic: magics, NumberOfSections: counts, dirs: dirs, sections: sections]
Layouts == {<<Section(TRUE, 4, 4), Section(TRUE, 8, 8), Section(TRUE, 20, 6)>>,
            <<Section(TRUE, 8, 8), Section(FALSE, 4, 4)>>, <<Section(TRUE, 2, 9), Section(TRUE, 28, 8)>>}
MCSectionImages ==
  Headers({TRUE}, {TRUE}, {"AMD64"}, {"PE32PLUS"}, {0, 2, 4}, {Dirs1, Dirs2}, Layouts)
  \cup Headers(BOOLEAN, BOOLEAN, {"ARM64", "AMD64", "I386", "other"}, {"PE32", "PE32PLUS", "0"}, {1},
               {<<Range(4, 4)>>}, {<<Section(TRUE, 4, 4)>>})

-----------------------------------------------------------------------------
(* Import tables of both widths, with and without a bound import           *)
(* directory, whole and with parts missing.                                *)
MCFlag    == 100000
MCTargets == {"*", "b.dll"}
MCLower   == ("" :> "") @@ ("A.dll" :> "a.dll") @@ ("a.dll" :> "a.dll") @@ ("b.dll" :> "b.dll")
             @@ ("c.dll" :> "c.dll") @@ ("Fa" :> "Fa") @@ ("Fb" :> "Fb")

(* Two modules at 100; the first has two imports, one of them by ordinal.  *)
(* The tables of a width of w bytes are at 1000 and follow each other.     *)
Thunks(w) ==
  LET cell(t, k, v) == (1000 + 12 * w * t + k * w) :> v
      high(t, k, v) == IF w = 8 THEN (1004 + 12 * w * t + k * w) :> v ELSE <<>>
  IN  cell(0, 0, 500) @@ cell(0, 1, IF w = 8 THEN 7 ELSE MCFlag + 7) @@ high(0, 1, MCFlag)
      @@ cell(0, 2, 0) @@ cell(0, 3, 510) @@ cell(0, 4, 0)
      @@ cell(1, 0, 900) @@ cell(1, 1, 901) @@ cell(1, 3, 902)

Import(names, stamp, name, slots) ==
  [Characteristics |-> names, TimeDateStamp |-> stamp, Name |-> name, FirstThunk |-> slots]

ImportStrings == (600 :> "A.dll") @@ (610 :> "b.dll") @@ (250 :> "a.dll") @@ (260 :> "c.dll") @@ (270 :> "b.dll")
             @@ (502 :> "Fa") @@ (512 :> "Fb")

ImportImage(w, ptr, stamp, boundSize, impSize, lost) ==
  LET without(f) == [a \in DOMAIN f \ lost |-> f[a]]
  IN  [is64bit_ |-> w = 8, ptr |-> ptr,
       imp |-> [va |-> 100, size |-> impSize], bound |-> [va |-> 200, size |-> boundSize],
       delay |-> [va |-> 300, size |-> 64],
       imports |-> without((100 :> Import(1000, stamp, 600, 1000 + 12 * w))
                           @@ (120 :> Import(1000 + 3 * w, -1, 610, 1000 + 15 * w))),
       bounds |-> without((200 :> [OffsetModuleName |-> 50, NumberOfModuleForwarderRefs |-> 1])
                          @@ (208 :> [OffsetModuleName |-> 70, NumberOfModuleForwarderRefs |-> 0])
                          @@ (216 :> [OffsetModuleName |-> 60, NumberOfModuleForwarderRefs |-> 0])
                          @@ (224 :> [OffsetModuleName |-> 0, NumberOfModuleForwarderRefs |-> 0])),
       delays |-> without(300 :> [DllNameRVA |-> 610, ImportNameTableRVA |-> 1000,
                                  ImportAddressTableRVA |-> 1000 + 12 * w]),
       cells |-> without(Thunks(w)), strings |-> without(ImportStrings),
       hints |-> (500 :> 3) @@ (510 :> 4)]

LostParts == { {}, {120}, {208}, {216}, {300}, {600, 250}, {1000}, {1004, 1008} }
MCImportImages == {ImportImage(w, w, stamp, bs, is, lost) :
               w \in {4, 8}, stamp \in {0, -1}, bs \in {0, 32}, is \in {20, 60}, lost \in LostParts}
            \cup {ImportImage(4, 8, 0, 0, 60, {})}

-----------------------------------------------------------------------------
(* Exports of three functions, any element of which may be missing.  What  *)
(* is at address 0 is the DOS header.                                      *)
ExportStrings == (0 :> "MZ") @@ (50 :> "f") @@ (51 :> "g") @@ (52 :> "other.h")
Partial(f, lost) == [k \in DOMAIN f \ lost |-> f[k]]
Order(f) == [k \in 0 .. Len(f) - 1 |-> f[k + 1]]

MCExportImages ==
  {[NumberOfFunctions |-> 3, NumberOfNames |-> 2, dir |-> [va |-> 40, size |-> 20],
    functions |-> Partial(Order(f), lostF), ordinals |-> Partial(Order(o), lostO),
    names |-> Partial(Order(n), lostN), strings |-> ExportStrings] :
     f \in {<<7, 52, 9>>, <<60, 0, 39>>}, o \in {<<0, 2>>, <<2, 1>>, <<1, 1>>, <<0, 5>>},
     n \in {<<50, 51>>, <<51, 59>>},
     lostF \in {{}, {1}}, lostO \in {{}, {1}, {0, 1}}, lostN \in {{}, {0}}}
  \cup {[NumberOfFunctions |-> n, NumberOfNames |-> 0, dir |-> [va |-> 40 * (1 - n), size |-> 0],
          functions |-> Order(IF n = 0 THEN <<>> ELSE <<7>>), ordinals |-> <<>>, names |-> <<>>, strings |-> ExportStrings] : n \in {0, 1}}

-----------------------------------------------------------------------------
(* Unwind tables of two functions, with up to three codes, handlers of     *)
(* every kind and scope tables of any length.                              *)
Unwind(v, h, n) == [Version |-> v, Handler |-> h, CountOfCodes |-> n]
Functions == (100 :> 10) @@ (104 :> 20) @@ (108 :> 200) @@ (112 :> 20) @@ (116 :> 30) @@ (120 :> 300)
ScopeTable(h, n, at) == (at :> h) @@ (at + 4 :> n) @@ (at + 8 :> 12) @@ (at + 12 :> 15)

MCCHandlers == {7}
MCUnnamed == {9}
MCPcs == {0, 12, 20, 40}
MCUnwindImages ==
  {[Machine |-> m, dir |-> [va |-> 100, size |-> size],
    words |-> [a \in DOMAIN Functions \ lost |-> Functions[a]]
              @@ ScopeTable(h, n, 204 + 4 * ((c + 1) \div 2)),
    infos |-> (200 :> Unwind(1, TRUE, c)) @@ (300 :> Unwind(v, FALSE, 1))] :
     m \in {"AMD64"}, size \in {24, 36}, h \in {7, 8, 9}, n \in {0, 1, 101}, c \in 0 .. 3,
     v \in {1, 2}, lost \in {{}, {108}}}
  \cup {[Machine |-> m, dir |-> [va |-> 100, size |-> 24], words |-> Functions,
         infos |-> << >>] : m \in {"ARM64", "I386"}}

-----------------------------------------------------------------------------
(* Resource directories of two and three levels, with names, other types,  *)
(* languages, data that is no version, missing parts and a cycle.          *)
Resource(id, string, dir, to) == [Id |-> id, NameIsString |-> string, DataIsDirectory |-> dir, Offset |-> to]
Zero == Resource(0, FALSE, FALSE, 0)
Data(v) == [large |-> v # 3, valid |-> v # 4, version |-> v]

Roots == { <<Resource(16, FALSE, TRUE, 1)>>, <<Resource(16, TRUE, TRUE, 2), Resource(3, FALSE, TRUE, 2), Resource(16, FALSE, TRUE, 1)>>,
           <<Zero, Resource(16, FALSE, TRUE, 1), Resource(16, FALSE, TRUE, 2)>> }
Types == { <<Resource(1, FALSE, TRUE, 2)>>, <<Resource(1, FALSE, TRUE, 2), Resource(2, TRUE, TRUE, 3)>>,
           <<Resource(1, FALSE, FALSE, 11), Resource(2, FALSE, TRUE, 2)>>, <<Zero>>, <<Resource(1, FALSE, TRUE, 0)>> }
Languages == { <<Resource(9, FALSE, FALSE, 11)>>, <<Resource(9, FALSE, FALSE, 12), Resource(7, FALSE, FALSE, 13)>>,
               <<Resource(0, FALSE, FALSE, 11)>>, <<Resource(9, FALSE, FALSE, 14), Resource(5, FALSE, FALSE, 15)>>,
               <<Resource(0, FALSE, FALSE, 12), Zero, Resource(8, FALSE, FALSE, 11)>> }
MCVersionImages == [dirs: {(0 :> r) @@ (1 :> t) @@ (2 :> l) @@ (3 :> <<Resource(4, FALSE, FALSE, 12)>>) :
                      r \in Roots, t \in Types, l \in Languages},
             data: {[o \in 11 .. 14 |-> Data(o - 10)]}]

-----------------------------------------------------------------------------
(* Guard tables of items of 4 to 9 bytes, some longer than five bits say.  *)
Guard(extra, count) == [Extra |-> extra, Count |-> count]
MCGuardImages ==
  {[va |-> 1, hasGuard |-> TRUE, guard |-> Guard(e, n), follows |-> Guard(0, 0)] : 
     e \in {0, 1, 4, 5}, n \in {0, 1, 3, 7}}
  \cup {[va |-> va, hasGuard |-> FALSE, guard |-> Guard(0, 0), follows |-> Guard(e, n)] :
          va \in {0, 1}, e \in {0, 1, 5}, n \in {0, 2, 5}}
=============================================================================
