---------------------------- MODULE ResourceWalk ----------------------------
(***************************************************************************)
(* ResourceDirectory and PEImage::GetVersion of peimage.cpp, the command   *)
(* !ver: a recursive walk over the resource directories of an image that   *)
(* looks for version data below the entry RT_VERSION of the root.  The     *)
(* recursion is a stack of loops.  What cannot be read is 0: a directory   *)
(* without entries, an entry without a name, data without a size.          *)
(***************************************************************************)
EXTENDS Integers, Sequences

CONSTANTS
  Images,     \* resource sections: [dirs, data]; dirs[d] is a sequence of entries
  RT_VERSION, \* the id the root is filtered by
  MaxDepth    \* the calls a stack has room for

VARIABLES
  image,
  step,     \* "walk", "end" or "overflow"
  stack,    \* the loops under way, the innermost first: directory and counter
  version   \* the local that the callback assigns; 0 if it did not

vars == <<image, step, stack, version>>

At(f, a, zero) == IF a \in DOMAIN f THEN f[a] ELSE zero
Dir(d) == At(image.dirs, d, << >>)
NoData == [large |-> FALSE, valid |-> FALSE, version |-> 0]

Root == 0
Frame(d) == [dir |-> d, i |-> 1]
Init == image \in Images /\ step = "walk" /\ stack = <<Frame(Root)>> /\ version = 0

Top == stack[1]
Entry == Dir(Top.dir)[Top.i]
Next1(s) == [s EXCEPT ![1].i = @ + 1]

(* id != filter: only the root is filtered, and a name is never RT_VERSION.*)
Matches(e, depth) == depth > 1 \/ (~e.NameIsString /\ e.Id = RT_VERSION)

HasName(e) == e.NameIsString \/ e.Id # 0
Taken(e) == HasName(e) /\ Matches(e, Len(stack))

InLoop == step = "walk" /\ stack # << >> /\ Top.i <= Len(Dir(Top.dir))

PassOver == /\ InLoop /\ ~Taken(Entry)
            /\ stack' = Next1(stack)
            /\ UNCHANGED <<image, step, version>>

Enter(d) == <<Frame(d)>> \o Next1(stack)

IterateDirectory ==
  /\ InLoop /\ Taken(Entry) /\ Entry.DataIsDirectory
  /\ IF Len(stack) < MaxDepth THEN stack' = Enter(Entry.Offset) /\ UNCHANGED step
     ELSE step' = "overflow" /\ UNCHANGED stack
  /\ UNCHANGED <<image, version>>

(* Mutant: the size of the data is not looked at. *)
Mutant_Accepted(d) == d.valid
Accepted(d) == d.large /\ d.valid

(* The callback: data that is too small or has not the signature of a      *)
(* version is passed over, a later version replaces an earlier one.        *)
CallBack ==
  /\ InLoop /\ Taken(Entry) /\ ~Entry.DataIsDirectory
  /\ LET d == At(image.data, Entry.Offset, NoData)
     IN  version' = IF Accepted(d) THEN d.version ELSE version
  /\ stack' = Next1(stack)
  /\ UNCHANGED <<image, step>>

Return ==
  /\ step = "walk" /\ stack # << >> /\ Top.i > Len(Dir(Top.dir))
  /\ stack' = Tail(stack)
  /\ step' = IF Tail(stack) = << >> THEN "end" ELSE step
  /\ UNCHANGED <<image, version>>

Next == PassOver \/ IterateDirectory \/ CallBack \/ Return

Spec == Init /\ [][Next]_vars

-----------------------------------------------------------------------------
(* A way leads from the root to an entry: each of its steps is an entry of *)
(* the directory the step before leads to.                                 *)
Steps == UNION {[dir: {d}, i: 1 .. Len(image.dirs[d])] : d \in DOMAIN image.dirs}
EntryAt(s) == Dir(s.dir)[s.i]
Ways == {w \in UNION {[1 .. n -> Steps] : n \in 1 .. MaxDepth} :
           /\ w[1].dir = Root
           /\ \A k \in 1 .. Len(w) - 1 :
                EntryAt(w[k]).DataIsDirectory /\ w[k + 1].dir = EntryAt(w[k]).Offset}

DataOf(w) == At(image.data, EntryAt(w[Len(w)]).Offset, NoData)
LeadsToVersion(w) == /\ ~EntryAt(w[1]).NameIsString /\ EntryAt(w[1]).Id = RT_VERSION
                     /\ ~EntryAt(w[Len(w)]).DataIsDirectory
                     /\ DataOf(w).large /\ DataOf(w).valid
AllNamed(w) == \A k \in 1 .. Len(w) : HasName(EntryAt(w[k]))
VersionWays == {w \in Ways : LeadsToVersion(w) /\ AllNamed(w)}

(* v comes before w in the order of the directories.                       *)
Precedes(v, w) == \E k \in 1 .. Len(v) : /\ k \in 1 .. Len(w) /\ v[k].i < w[k].i
                                         /\ \A j \in 1 .. k - 1 : v[j] = w[j]

(* There is no cycle: of any directories, one leads to none of them.       *)
IsTree ==
  \A D \in SUBSET DOMAIN image.dirs \ {{}} : \E d \in D : \A i \in 1 .. Len(image.dirs[d]) :
    image.dirs[d][i].DataIsDirectory => image.dirs[d][i].Offset \notin D

(* The loops are nested as the directories are, each counting in its own   *)
(* (ResourceDirectory::Iterate).                                           *)
TypeOK ==
  /\ step \in {"walk", "end", "overflow"} /\ Len(stack) <= MaxDepth
  /\ \A k \in 1 .. Len(stack) : stack[k].i \in 1 .. Len(Dir(stack[k].dir)) + 1
  /\ \A k \in 1 .. Len(stack) - 1 :
       LET up == stack[k + 1] IN
         up.i > 1 /\ Dir(up.dir)[up.i - 1].DataIsDirectory
                  /\ Dir(up.dir)[up.i - 1].Offset = stack[k].dir

(* The version that is shown is the last valid one below RT_VERSION in the *)
(* order of the directories, and 0 only if none can be reached: other      *)
(* resources and named ones never are taken for it (GetVersion).           *)
IsTheLast(V) == \/ V = {} /\ version = 0
                \/ \E v \in V : /\ version = DataOf(v).version
                               /\ \A w \in V : ~Precedes(v, w)

VersionOfTheImage == step = "end" => IsTheLast(VersionWays)
=============================================================================
