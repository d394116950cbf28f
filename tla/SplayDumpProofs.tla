-------------------------- MODULE SplayDumpProofs --------------------------
(***************************************************************************)
(* Proofs about SplayDump, for every graph of links, of any size, and any  *)
(* number of commands, aborted ones included.                              *)
(***************************************************************************)
EXTENDS SplayDump, SequenceTheorems, WellFoundedInduction, TLAPS

(***************************************************************************)
(* Sequences of records with an address.                                   *)
(***************************************************************************)
Addrs(s)    == {s[i].addr : i \in 1 .. Len(s)}
Distinct(s) == \A i, j \in 1 .. Len(s) : s[i].addr = s[j].addr => i = j

LEMMA AppendAddrs ==
  ASSUME NEW S, NEW s \in Seq(S), NEW x \in S
  PROVE  /\ Addrs(Append(s, x)) = Addrs(s) \cup {x.addr}
         /\ Distinct(s) /\ x.addr \notin Addrs(s) => Distinct(Append(s, x))
<1> DEFINE t == Append(s, x)
<1>1. Len(s) \in Nat /\ Len(t) = Len(s) + 1 /\ t[Len(s) + 1] = x
      /\ \A i \in 1 .. Len(s) : t[i] = s[i]
  BY AppendProperties, LenProperties
<1> HIDE DEF t
<1>2. 1 .. Len(t) = 1 .. Len(s) \cup {Len(s) + 1} BY <1>1
<1>3. Addrs(t) = Addrs(s) \cup {x.addr}
  <2>1. ASSUME NEW i \in 1 .. Len(t) PROVE t[i].addr \in Addrs(s) \cup {x.addr}
    BY <1>1, <1>2 DEF Addrs
  <2>2. ASSUME NEW i \in 1 .. Len(s) PROVE s[i].addr \in Addrs(t)
    BY <1>1, <1>2 DEF Addrs
  <2>3. x.addr \in Addrs(t) BY <1>1, <1>2 DEF Addrs
  <2> QED BY <2>1, <2>2, <2>3 DEF Addrs
<1>4. ASSUME Distinct(s), x.addr \notin Addrs(s),
             NEW i \in 1 .. Len(t), NEW j \in 1 .. Len(t), t[i].addr = t[j].addr
      PROVE  i = j
  <2>1. CASE i \in 1 .. Len(s) /\ j \in 1 .. Len(s) BY <1>1, <1>4, <2>1 DEF Distinct
  <2>2. CASE i = Len(s) + 1 /\ j = Len(s) + 1 BY <2>2
  <2>3. CASE i \in 1 .. Len(s) /\ j = Len(s) + 1 BY <1>1, <1>4, <2>3 DEF Addrs
  <2>4. CASE i = Len(s) + 1 /\ j \in 1 .. Len(s) BY <1>1, <1>4, <2>4 DEF Addrs
  <2> QED BY <1>2, <2>1, <2>2, <2>3, <2>4
<1> QED BY <1>3, <1>4 DEF Distinct, t

LEMMA TailAddrs ==
  ASSUME NEW S, NEW s \in Seq(S), s # << >>
  PROVE  /\ Addrs(s) = Addrs(Tail(s)) \cup {Head(s).addr}
         /\ Distinct(s) => Distinct(Tail(s)) /\ Head(s).addr \notin Addrs(Tail(s))
<1> DEFINE t == Tail(s)
<1>1. Len(s) \in Nat /\ Len(s) > 0 /\ Head(s) = s[1] BY LenProperties, EmptySeq
<1>2. Len(t) = Len(s) - 1 /\ \A i \in 1 .. Len(t) : t[i] = s[i + 1]
  BY HeadTailProperties
<1> HIDE DEF t
<1>3. ASSUME NEW i \in 1 .. Len(t) PROVE i + 1 \in 1 .. Len(s) BY <1>1, <1>2
<1>4. ASSUME NEW i \in 1 .. Len(s), i # 1 PROVE i - 1 \in 1 .. Len(t) /\ t[i - 1] = s[i]
  <2>1. i - 1 \in 1 .. Len(t) /\ (i - 1) + 1 = i BY <1>1, <1>2, <1>4
  <2> QED BY <1>2, <2>1
<1>5. 1 \in 1 .. Len(s) BY <1>1
<1>6. Addrs(s) = Addrs(t) \cup {Head(s).addr}
  <2>1. ASSUME NEW i \in 1 .. Len(s) PROVE s[i].addr \in Addrs(t) \cup {s[1].addr}
    BY <1>4 DEF Addrs
  <2>2. ASSUME NEW i \in 1 .. Len(t) PROVE t[i].addr \in Addrs(s)
    BY <1>2, <1>3 DEF Addrs
  <2>3. s[1].addr \in Addrs(s) BY <1>5 DEF Addrs
  <2> QED BY <1>1, <2>1, <2>2, <2>3 DEF Addrs
<1>7. ASSUME Distinct(s), NEW i \in 1 .. Len(t), NEW j \in 1 .. Len(t), t[i].addr = t[j].addr
      PROVE  i = j
  <2>1. i + 1 = j + 1 BY <1>2, <1>3, <1>7 DEF Distinct
  <2> QED BY <2>1
<1>8. ASSUME Distinct(s), NEW i \in 1 .. Len(t) PROVE t[i].addr # s[1].addr
  <2>1. i + 1 \in 1 .. Len(s) /\ i + 1 # 1 BY <1>3
  <2> QED BY <1>2, <1>5, <1>8, <2>1 DEF Distinct
<1> QED BY <1>1, <1>6, <1>7, <1>8 DEF Distinct, Addrs, t

(***************************************************************************)
(* AddTreeItem.                                                            *)
(***************************************************************************)
LEMMA NodeFields ==
  ASSUME NEW wide \in BOOLEAN, NEW w \in Readable(wide)
  PROVE  w.left \in Nat /\ w.right \in Nat
BY NodesAssumption DEF Readable

(* What a call with the current visited set and memory leaves, whether the *)
(* address is known, unreadable or new.                                    *)
LEMMA AddTreeItemTyped ==
  ASSUME NEW seen \in SUBSET Nat, NEW wide \in BOOLEAN, NEW mm,
         DOMAIN mm \subseteq Nat,
         \A x \in DOMAIN mm : mm[x] \in Readable(wide) \cup {Unreadable},
         NEW q \in Seq(Item), NEW lvl \in Nat, NEW a \in Nat,
         NEW w \in Readable(wide) \cup {Unreadable},
         AddTreeItem(seen, mm, q, lvl, a, w)
  PROVE  /\ check' \in SUBSET Nat /\ DOMAIN mem' \subseteq Nat
         /\ \A x \in DOMAIN mem' : mem'[x] \in Readable(wide) \cup {Unreadable}
         /\ queue' \in Seq(Item)
<1>1. check' \in SUBSET Nat BY DEF AddTreeItem
<1>2. DOMAIN mem' \subseteq Nat
      /\ \A x \in DOMAIN mem' : mem'[x] \in Readable(wide) \cup {Unreadable}
  <2>1. CASE a \in seen BY <2>1 DEF AddTreeItem
  <2>2. CASE a \notin seen BY <2>2 DEF AddTreeItem
  <2> QED BY <2>1, <2>2
<1>3. queue' \in Seq(Item)
  <2>1. CASE Added(seen, a, w)
    <3>1. w \in Readable(wide) BY <2>1 DEF Added
    <3>2. w.left \in Nat /\ w.right \in Nat BY <3>1, NodeFields
    <3>3. TreeItem(lvl, a, w) \in Item BY <3>2 DEF TreeItem, Item
    <3> QED BY <2>1, <3>3, AppendProperties DEF AddTreeItem
  <2>2. CASE ~Added(seen, a, w) BY <2>2 DEF AddTreeItem
  <2> QED BY <2>1, <2>2
<1> QED BY <1>1, <1>2, <1>3

LEMMA HeadIsItem ==
  ASSUME TypeOK, queue # << >>
  PROVE  /\ Head(queue) \in Item /\ Tail(queue) \in Seq(Item)
         /\ Head(queue).level \in Nat /\ Head(queue).addr \in Nat
         /\ Head(queue).left \in Nat /\ Head(queue).right \in Nat
<1>1. Head(queue) \in Item /\ Tail(queue) \in Seq(Item) BY HeadTailProperties DEF TypeOK
<1> QED BY <1>1 DEF Item

LEMMA AddChildTyped ==
  ASSUME TypeOK, queue # << >>, NEW q \in Seq(Item), NEW side \in Side,
         NEW w \in Readable(is64) \cup {Unreadable}, AddChild(q, side, w)
  PROVE  /\ check' \in SUBSET Nat /\ DOMAIN mem' \subseteq Nat
         /\ \A x \in DOMAIN mem' : mem'[x] \in Readable(is64) \cup {Unreadable}
         /\ queue' \in Seq(Item) /\ messages' \subseteq Nat \X Side
<1>1. Head(queue)[side] \in Nat BY HeadIsItem DEF Side
<1>2. CASE Head(queue)[side] = 0
  <2>1. queue' = q /\ UNCHANGED <<check, mem, messages>> BY <1>2 DEF AddChild
  <2> QED BY <2>1 DEF TypeOK
<1>3. CASE Head(queue)[side] # 0
  <2>1. AddTreeItem(check, mem, q, Head(queue).level + 1, Head(queue)[side], w)
    BY <1>3 DEF AddChild
  <2>2. Head(queue).level + 1 \in Nat /\ Head(queue).addr \in Nat BY HeadIsItem
  <2>3. messages' \subseteq messages \cup {<<Head(queue).addr, side>>}
    BY <1>3 DEF AddChild
  <2>4. messages' \subseteq Nat \X Side BY <2>2, <2>3 DEF TypeOK
  <2> QED BY <1>1, <2>1, <2>2, <2>4, AddTreeItemTyped DEF TypeOK
<1> QED BY <1>2, <1>3

LEMMA SplayStepTyped ==
  ASSUME TypeOK, [Next]_vars
  PROVE  TypeOK'
<1>1. ASSUME NEW r \in Roots, NEW wide \in BOOLEAN,
             NEW w \in Readable(wide) \cup {Unreadable}, Invoke(r, wide, w)
      PROVE  TypeOK'
  <2> DEFINE none == [a \in {} |-> Unreadable]
  <2>1. root' \in Nat
    <3>1. r \in Nat /\ Space \in Nat \ {0} BY RootsAssumption, SpaceAssumption
    <3>2. r % Space \in Nat BY <3>1
    <3> QED BY <1>1, <3>1, <3>2 DEF Invoke
  <2>2. AddTreeItem({}, none, << >>, 0, root', w) BY <1>1 DEF Invoke
  <2>3. << >> \in Seq(Item) /\ << >> \in Seq(Row) BY EmptySeq
  <2>4. /\ check' \in SUBSET Nat /\ DOMAIN mem' \subseteq Nat
        /\ \A x \in DOMAIN mem' : mem'[x] \in Readable(wide) \cup {Unreadable}
        /\ queue' \in Seq(Item)
    <3>1. DOMAIN none = {} OBVIOUS
    <3> HIDE DEF none
    <3> QED BY <2>1, <2>2, <2>3, <3>1, AddTreeItemTyped
  <2>5. pc' = "loop" /\ is64' = wide /\ level' = 0 /\ count' = 0 /\ rows' = << >>
        /\ messages' = {}
    BY <1>1 DEF Invoke
  <2> QED BY <2>1, <2>3, <2>4, <2>5 DEF TypeOK
<1>2. CASE PrintItem
  <2>1. queue # << >> BY <1>2 DEF PrintItem
  <2> DEFINE row == [level |-> level, count |-> count,
                     addr |-> Head(queue).addr, depth |-> Head(queue).level]
  <2>2. row \in Row BY <2>1, HeadIsItem DEF Row, TypeOK
  <2>3. rows' = Append(rows, row) BY <1>2 DEF PrintItem
  <2>4. rows' \in Seq(Row)
    <3> HIDE DEF row
    <3> QED BY <2>2, <2>3, AppendProperties DEF TypeOK
  <2>5. level' \in Nat /\ count' \in Nat BY <1>2, <2>1, HeadIsItem DEF PrintItem, TypeOK
  <2> QED BY <1>2, <2>1, <2>4, <2>5 DEF PrintItem, TypeOK
<1>3. ASSUME NEW w \in Readable(is64) \cup {Unreadable}, AddLeft(w) PROVE TypeOK'
  <2>1. queue # << >> /\ queue \in Seq(Item) BY <1>3 DEF AddLeft, TypeOK
  <2>2. AddChild(queue, "left", w) BY <1>3 DEF AddLeft
  <2>3. /\ check' \in SUBSET Nat /\ DOMAIN mem' \subseteq Nat
        /\ \A x \in DOMAIN mem' : mem'[x] \in Readable(is64) \cup {Unreadable}
        /\ queue' \in Seq(Item) /\ messages' \subseteq Nat \X Side
    BY <2>1, <2>2, AddChildTyped DEF Side
  <2>4. queue' # << >>
    <3>1. ASSUME NEW x PROVE Append(queue, x) # << >> BY <2>1
    <3> QED BY <2>1, <2>2, <3>1 DEF AddChild, AddTreeItem
  <2> QED BY <1>3, <2>3, <2>4 DEF AddLeft, TypeOK
<1>4. ASSUME NEW w \in Readable(is64) \cup {Unreadable}, AddRight(w) PROVE TypeOK'
  <2>1. queue # << >> /\ AddChild(Tail(queue), "right", w)
    BY <1>4 DEF AddRight, TypeOK
  <2>2. Tail(queue) \in Seq(Item) BY <2>1, HeadIsItem
  <2>3. /\ check' \in SUBSET Nat /\ DOMAIN mem' \subseteq Nat
        /\ \A x \in DOMAIN mem' : mem'[x] \in Readable(is64) \cup {Unreadable}
        /\ queue' \in Seq(Item) /\ messages' \subseteq Nat \X Side
    BY <2>1, <2>2, AddChildTyped DEF Side
  <2> QED BY <1>4, <2>3 DEF AddRight, TypeOK
<1>5. CASE Finish BY <1>5 DEF Finish, TypeOK
<1>6. CASE Abort BY <1>6 DEF Abort, TypeOK
<1>7. CASE UNCHANGED vars BY <1>7 DEF vars, TypeOK
<1> QED BY <1>1, <1>2, <1>3, <1>4, <1>5, <1>6, <1>7 DEF Next, Command, Step, Visit

LEMMA SplayInitTyped == Init => TypeOK
<1> SUFFICES ASSUME Init PROVE TypeOK OBVIOUS
<1>1. << >> \in Seq(Item) /\ << >> \in Seq(Row) BY EmptySeq
<1>2. DOMAIN mem = {} BY DEF Init
<1>3. queue \in Seq(Item) /\ rows \in Seq(Row) BY <1>1 DEF Init
<1>4. root \in Nat /\ check \subseteq Nat /\ level \in Nat /\ count \in Nat
      /\ messages \subseteq Nat \X Side /\ is64 \in BOOLEAN /\ pc = "idle"
  BY DEF Init
<1> QED BY <1>2, <1>3, <1>4 DEF TypeOK

(* The globals and locals of !dt stay well typed over any sequence of      *)
(* commands, and the front item exists whenever it is used (dt.cpp).       *)
THEOREM SplayDumpTyped == Spec => []TypeOK
<1>1. Init => TypeOK BY SplayInitTyped
<1>2. TypeOK /\ [Next]_vars => TypeOK' BY SplayStepTyped
<1> QED BY <1>1, <1>2, PTL DEF Spec

(***************************************************************************)
(* The inductive invariant.  todo is the part of the queue whose rows are  *)
(* still to be printed; Once says that it and the rows list every node     *)
(* found, each once; Mirror that queued items are what memory holds;       *)
(* Followed that the links of the printed rows were followed; Least that   *)
(* nothing else was read.                                                  *)
(***************************************************************************)
InTurn == pc \in {"left", "right", "aborted"}

todo == IF InTurn THEN Tail(queue) ELSE queue

Once == /\ Distinct(rows) /\ Distinct(todo)
        /\ Addrs(rows) \cap Addrs(todo) = {}
        /\ Addrs(rows) \cup Addrs(todo) = Found

Holds(mm, x) == /\ x.addr \in DOMAIN mm /\ mm[x.addr] # Unreadable
                /\ x.left = mm[x.addr].left /\ x.right = mm[x.addr].right
Mirror == \A k \in 1 .. Len(queue) : Holds(mem, queue[k])

Cursor == InTurn => queue # << >> /\ Head(queue).addr \in Addrs(rows)

FollowedIn(mm, seen, a, side) == mm[a][side] = 0 \/ mm[a][side] \in seen

Followed ==
  \A a \in Addrs(rows) :
    IF InTurn /\ a = Head(queue).addr
    THEN pc = "right" => FollowedIn(mem, check, a, "left")
    ELSE FollowedIn(mem, check, a, "left") /\ FollowedIn(mem, check, a, "right")

Least == \A S : Closed(S) => check \subseteq S

DumpInv == /\ DOMAIN mem = check /\ (pc # "idle" => root \in check)
           /\ Once /\ Mirror /\ Cursor /\ Followed /\ Least
           /\ (pc \in {"idle", "done"} => queue = << >>)

LEMMA QueueHead ==
  ASSUME TypeOK, queue # << >>
  PROVE  1 \in 1 .. Len(queue) /\ Head(queue) = queue[1]
BY EmptySeq, LenProperties DEF TypeOK

(* What one call of AddTreeItem does to the graph that was read.           *)
LEMMA AddTreeItemGraph ==
  ASSUME DOMAIN mem = check, NEW q, NEW lvl, NEW a,
         NEW w \in Readable(is64) \cup {Unreadable},
         AddTreeItem(check, mem, q, lvl, a, w)
  PROVE  /\ DOMAIN mem' = check' /\ check' = check \cup {a}
         /\ \A x \in check : mem'[x] = mem[x]
         /\ Found' = Found \cup (IF Added(check, a, w) THEN {a} ELSE {})
         /\ Added(check, a, w) => mem'[a] = w
<1>1. check' = check \cup {a} BY DEF AddTreeItem
<1>2. CASE a \in check BY <1>1, <1>2 DEF AddTreeItem, Found, Added
<1>3. CASE a \notin check
  <2>1. mem' = [x \in DOMAIN mem \cup {a} |-> IF x = a THEN w ELSE mem[x]]
    BY <1>3 DEF AddTreeItem
  <2>2. DOMAIN mem' = check' /\ mem'[a] = w /\ \A x \in check : mem'[x] = mem[x]
    BY <1>1, <1>3, <2>1
  <2>3. Found' = Found \cup (IF w # Unreadable THEN {a} ELSE {})
    BY <1>1, <2>2 DEF Found
  <2> QED BY <1>1, <1>3, <2>2, <2>3 DEF Added
<1> QED BY <1>2, <1>3

(* The queue after a child was looked at: as it was, or with a new item.   *)
LEMMA AddChildQueue ==
  ASSUME TypeOK, DOMAIN mem = check, queue # << >>, NEW q, NEW side \in Side,
         NEW w \in Readable(is64) \cup {Unreadable}, AddChild(q, side, w)
  PROVE  \/ queue' = q /\ Found' = Found
         \/ \E x \in Item : /\ queue' = Append(q, x) /\ Holds(mem', x)
                            /\ x.addr \notin Found /\ Found' = Found \cup {x.addr}
<1> DEFINE a == Head(queue)[side]
           x == TreeItem(Head(queue).level + 1, a, w)
<1>1. CASE a = 0 BY <1>1 DEF AddChild, Found
<1>2. CASE a # 0
  <2>1. AddTreeItem(check, mem, q, Head(queue).level + 1, a, w) BY <1>2 DEF AddChild
  <2>2. CASE Added(check, a, w)
    <3>1. w \in Readable(is64) /\ is64 \in BOOLEAN /\ w # Unreadable
      BY <2>2 DEF Added, TypeOK
    <3>2. w.left \in Nat /\ w.right \in Nat BY <3>1, NodeFields
    <3>3. Head(queue).level + 1 \in Nat /\ a \in Nat BY HeadIsItem DEF Side
    <3>4. x \in Item /\ x.addr = a /\ x.left = w.left /\ x.right = w.right
      BY <3>2, <3>3 DEF TreeItem, Item
    <3>5. queue' = Append(q, x) BY <2>1, <2>2 DEF AddTreeItem
    <3>6. a \notin Found BY <2>2 DEF Added, Found
    <3>7. DOMAIN mem' = check \cup {a} /\ mem'[a] = w /\ Found' = Found \cup {a}
      <4>1. /\ DOMAIN mem' = check' /\ check' = check \cup {a} /\ mem'[a] = w
            /\ Found' = Found \cup (IF Added(check, a, w) THEN {a} ELSE {})
        BY <2>1, <2>2, AddTreeItemGraph
      <4> QED BY <2>2, <4>1
    <3> HIDE DEF x
    <3>8. Holds(mem', x) BY <3>1, <3>4, <3>7 DEF Holds
    <3> QED BY <3>4, <3>5, <3>6, <3>7, <3>8
  <2>3. CASE ~Added(check, a, w)
    <3>1. queue' = q BY <2>1, <2>3 DEF AddTreeItem
    <3>2. Found' = Found
      <4>1. Found' = Found \cup (IF Added(check, a, w) THEN {a} ELSE {}) BY <2>1, AddTreeItemGraph
      <4> QED BY <2>3, <4>1
    <3> QED BY <3>1, <3>2
  <2> QED BY <2>2, <2>3
<1> QED BY <1>1, <1>2

(* The graph after a child was looked at.                                  *)
LEMMA AddChildGraph ==
  ASSUME TypeOK, DumpInv, pc \in {"left", "right"}, NEW q, NEW side \in Side,
         NEW w \in Readable(is64) \cup {Unreadable}, AddChild(q, side, w), root' = root
  PROVE  /\ DOMAIN mem' = check' /\ check \subseteq check'
         /\ \A x \in check : mem'[x] = mem[x]
         /\ FollowedIn(mem', check', Head(queue).addr, side)
         /\ Least'
<1> DEFINE item == Head(queue)
           a == item[side]
<1>1. queue # << >> /\ item.addr \in Found /\ a = mem[item.addr][side] /\ Found \subseteq check
  <2>1. queue # << >> BY DEF TypeOK
  <2>2. Holds(mem, item) BY <2>1, QueueHead DEF DumpInv, Mirror
  <2>3. item.addr \in Found /\ a = mem[item.addr][side] BY <2>2 DEF Holds, Found, Side
  <2> QED BY <2>1, <2>3 DEF Found, DumpInv
<1>2. CASE a = 0
  <2>1. UNCHANGED <<check, mem>> BY <1>2 DEF AddChild
  <2>2. Found' = Found BY <2>1 DEF Found
  <2>3. Links' = Links BY <2>1, <2>2 DEF Links
  <2>4. \A S : Closed(S)' <=> Closed(S) BY <2>1, <2>3 DEF Closed, Target
  <2>5. Least' BY <2>1, <2>4 DEF DumpInv, Least
  <2> QED BY <1>1, <1>2, <2>1, <2>5 DEF DumpInv, FollowedIn
<1>3. CASE a # 0
  <2>1. AddTreeItem(check, mem, q, item.level + 1, a, w) BY <1>3 DEF AddChild
  <2>2. /\ DOMAIN mem' = check' /\ check' = check \cup {a}
        /\ \A x \in check : mem'[x] = mem[x]
        /\ Found \subseteq Found'
    BY <2>1, AddTreeItemGraph DEF DumpInv
  <2>3. mem'[item.addr][side] = a BY <1>1, <2>2
  <2>4. ASSUME NEW S, Closed(S)' PROVE check' \subseteq S
    <3>1. ASSUME NEW e \in Links PROVE e \in Links' /\ Target(e)' = Target(e)
      <4>1. e \in Found \X Side /\ e[1] \in check BY <1>1 DEF Links
      <4>2. mem'[e[1]] = mem[e[1]] BY <2>2, <4>1
      <4> QED BY <2>2, <4>1, <4>2 DEF Links, Target
    <3>2. Closed(S) BY <2>4, <3>1 DEF Closed
    <3>3. check \subseteq S /\ item.addr \in S BY <1>1, <3>2 DEF DumpInv, Least
    <3>4. PICK e \in Links' : e[1] = item.addr /\ e[2] = side
      <4>1. <<item.addr, side>> \in Links' BY <1>1, <1>3, <2>2, <2>3 DEF Links
      <4> QED BY <4>1
    <3>5. a \in S
      <4>1. Target(e)' = a BY <2>3, <3>4 DEF Target
      <4>2. e[1] \in S => Target(e)' \in S BY <2>4, <3>4 DEF Closed
      <4> QED BY <3>3, <3>4, <4>1, <4>2
    <3> QED BY <2>2, <3>3, <3>5
  <2>5. Least' BY <2>4 DEF Least
  <2> QED BY <2>2, <2>3, <2>5 DEF FollowedIn
<1> QED BY <1>2, <1>3

(* Once and Mirror over the three things that happen to the lists.         *)
LEMMA OnceKept ==
  ASSUME Once, todo \in Seq(Item), rows' = rows,
         \/ todo' = todo /\ Found' = Found
         \/ \E x \in Item : /\ todo' = Append(todo, x)
                            /\ x.addr \notin Found /\ Found' = Found \cup {x.addr}
  PROVE  Once'
<1>1. CASE todo' = todo /\ Found' = Found
  <2>1. Distinct(rows)' /\ Addrs(rows)' = Addrs(rows) BY DEF Once, Distinct, Addrs
  <2>2. Distinct(todo)' /\ Addrs(todo)' = Addrs(todo) BY <1>1 DEF Once, Distinct, Addrs
  <2> QED BY <1>1, <2>1, <2>2 DEF Once
<1>2. ASSUME NEW x \in Item, todo' = Append(todo, x),
             x.addr \notin Found, Found' = Found \cup {x.addr}
      PROVE  Once'
  <2>1. Distinct(rows)' /\ Addrs(rows)' = Addrs(rows) BY DEF Once, Distinct, Addrs
  <2>2. /\ Addrs(Append(todo, x)) = Addrs(todo) \cup {x.addr}
        /\ Distinct(Append(todo, x))
    BY <1>2, AppendAddrs DEF Once
  <2>3. Distinct(todo)' /\ Addrs(todo)' = Addrs(todo) \cup {x.addr}
    BY <1>2, <2>2 DEF Distinct, Addrs
  <2> QED BY <1>2, <2>1, <2>3 DEF Once
<1> QED BY <1>1, <1>2

LEMMA MirrorAppend ==
  ASSUME NEW q \in Seq(Item), \A k \in 1 .. Len(q) : Holds(mem', q[k]),
         \/ queue' = q
         \/ \E x \in Item : queue' = Append(q, x) /\ Holds(mem', x)
  PROVE  Mirror'
<1>1. CASE queue' = q BY <1>1 DEF Mirror, Holds
<1>2. ASSUME NEW x \in Item, queue' = Append(q, x), Holds(mem', x) PROVE Mirror'
  <2>1. /\ Len(queue') = Len(q) + 1 /\ Len(q) \in Nat /\ queue'[Len(q) + 1] = x
        /\ \A i \in 1 .. Len(q) : queue'[i] = q[i]
    BY <1>2, AppendProperties, LenProperties
  <2>2. ASSUME NEW k \in 1 .. Len(queue') PROVE Holds(mem', queue'[k])
    <3>1. k \in 1 .. Len(q) \/ k = Len(q) + 1 BY <2>1
    <3> QED BY <1>2, <2>1, <3>1
  <2> QED BY <2>2 DEF Mirror, Holds
<1> QED BY <1>1, <1>2

(* A child was looked at and the turn is not over, or it is.               *)
LEMMA VisitInv ==
  ASSUME TypeOK, DumpInv, NEW w \in Readable(is64) \cup {Unreadable}, AddLeft(w) \/ AddRight(w)
  PROVE  DumpInv'
<1> DEFINE q == IF pc = "left" THEN queue ELSE Tail(queue)
           side == IF pc = "left" THEN "left" ELSE "right"
<1>1. /\ pc \in {"left", "right"} /\ InTurn /\ queue # << >> /\ queue \in Seq(Item)
      /\ Tail(queue) \in Seq(Item) /\ AddChild(q, side, w) /\ side \in Side
      /\ UNCHANGED <<root, rows, is64>> /\ todo = Tail(queue) /\ q \in Seq(Item)
      /\ pc' = IF pc = "left" THEN "right" ELSE "loop"
  <2>1. pc \in {"left", "right"} /\ queue # << >> /\ queue \in Seq(Item)
    BY DEF AddLeft, AddRight, TypeOK
  <2>2. Tail(queue) \in Seq(Item) BY <2>1, HeadIsItem
  <2> QED BY <2>1, <2>2 DEF AddLeft, AddRight, InTurn, todo, Side
<1> HIDE DEF q, side
<1>2. /\ DOMAIN mem' = check' /\ check \subseteq check'
      /\ \A x \in check : mem'[x] = mem[x]
      /\ FollowedIn(mem', check', Head(queue).addr, side) /\ Least'
  BY <1>1, AddChildGraph
<1>3. \/ queue' = q /\ Found' = Found
      \/ \E x \in Item : /\ queue' = Append(q, x) /\ Holds(mem', x)
                         /\ x.addr \notin Found /\ Found' = Found \cup {x.addr}
  BY <1>1, AddChildQueue DEF DumpInv
<1>4. Once'
  <2>1. CASE pc = "left"
    <3>1. q = queue /\ todo' = Tail(queue') BY <1>1, <2>1 DEF q, todo, InTurn
    <3>2. ASSUME NEW x \in Item PROVE Tail(Append(queue, x)) = Append(Tail(queue), x)
      BY <1>1, HeadTailAppend
    <3> QED BY <1>1, <1>3, <3>1, <3>2, OnceKept DEF DumpInv
  <2>2. CASE pc = "right"
    <3>1. q = Tail(queue) /\ todo' = queue' BY <1>1, <2>2 DEF q, todo, InTurn
    <3> QED BY <1>1, <1>3, <3>1, OnceKept DEF DumpInv
  <2> QED BY <1>1, <2>1, <2>2
<1>5. Mirror'
  <2>1. \A k \in 1 .. Len(queue) : Holds(mem', queue[k])
    BY <1>2 DEF DumpInv, Mirror, Holds
  <2>2. \A k \in 1 .. Len(q) : Holds(mem', q[k])
    <3>1. CASE pc = "left" BY <2>1, <3>1 DEF q
    <3>2. CASE pc # "left"
      <4>1. q = Tail(queue) BY <3>2 DEF q
      <4>2. Len(q) = Len(queue) - 1 /\ \A k \in 1 .. Len(q) : q[k] = queue[k + 1]
        BY <1>1, <4>1, HeadTailProperties
      <4>3. Len(queue) \in Nat BY <1>1, LenProperties
      <4>4. \A k \in 1 .. Len(q) : k + 1 \in 1 .. Len(queue) BY <4>2, <4>3
      <4> QED BY <2>1, <4>2, <4>4
    <3> QED BY <3>1, <3>2
  <2> QED BY <1>1, <1>3, <2>2, MirrorAppend
<1>6. pc = "left" => queue' # << >> /\ Head(queue') = Head(queue)
  <2> SUFFICES ASSUME pc = "left" PROVE queue' # << >> /\ Head(queue') = Head(queue)
    OBVIOUS
  <2>1. q = queue BY DEF q
  <2>2. ASSUME NEW x \in Item
        PROVE  Append(queue, x) # << >> /\ Head(Append(queue, x)) = Head(queue)
    BY <1>1, HeadTailAppend, AppendProperties
  <2> QED BY <1>1, <1>3, <2>1, <2>2
<1>7. Cursor'
  <2>1. Addrs(rows)' = Addrs(rows) BY <1>1 DEF Addrs
  <2> QED BY <1>1, <1>6, <2>1 DEF Cursor, InTurn, DumpInv
<1>8. Followed'
  <2>1. Addrs(rows)' = Addrs(rows) BY <1>1 DEF Addrs
  <2>2. Addrs(rows) \subseteq check BY DEF DumpInv, Once, Found
  <2>3. ASSUME NEW a \in check, NEW s, FollowedIn(mem, check, a, s)
        PROVE  FollowedIn(mem', check', a, s)
    BY <1>2, <2>3 DEF FollowedIn
  <2>4. ASSUME NEW a \in Addrs(rows), a # Head(queue).addr
        PROVE  FollowedIn(mem', check', a, "left") /\ FollowedIn(mem', check', a, "right")
    <3>1. FollowedIn(mem, check, a, "left") /\ FollowedIn(mem, check, a, "right")
      BY <1>1, <2>4 DEF DumpInv, Followed
    <3> QED BY <2>2, <2>3, <3>1
  <2>5. CASE pc = "left"
    <3>1. FollowedIn(mem', check', Head(queue).addr, "left") BY <1>2, <2>5 DEF side
    <3> QED BY <1>1, <1>6, <2>1, <2>4, <2>5, <3>1 DEF Followed, InTurn
  <2>6. CASE pc = "right"
    <3>1. FollowedIn(mem', check', Head(queue).addr, "right") BY <1>2, <2>6 DEF side
    <3>2. Head(queue).addr \in Addrs(rows) BY <1>1 DEF DumpInv, Cursor
    <3>3. FollowedIn(mem, check, Head(queue).addr, "left")
      BY <1>1, <2>6, <3>2 DEF DumpInv, Followed
    <3>4. FollowedIn(mem', check', Head(queue).addr, "left") BY <2>2, <2>3, <3>2, <3>3
    <3> QED BY <1>1, <2>1, <2>4, <2>6, <3>1, <3>4 DEF Followed, InTurn
  <2> QED BY <1>1, <2>5, <2>6
<1> QED BY <1>1, <1>2, <1>4, <1>5, <1>7, <1>8 DEF DumpInv

(* A new command.  Nothing is asked of the state an earlier one left.      *)
LEMMA InvokeInv ==
  ASSUME TypeOK, TypeOK', NEW r, NEW wide \in BOOLEAN,
         NEW w \in Readable(wide) \cup {Unreadable}, Invoke(r, wide, w)
  PROVE  DumpInv'
<1> DEFINE x == TreeItem(0, root', w)
<1>1. pc' = "loop" /\ rows' = << >> /\ check' = {root'} /\ ~InTurn' /\ todo' = queue'
  BY DEF Invoke, AddTreeItem, InTurn, todo
<1>2. DOMAIN mem' = {root'} /\ mem'[root'] = w BY DEF Invoke, AddTreeItem
<1>3. Found' = IF w # Unreadable THEN {root'} ELSE {} BY <1>2 DEF Found
<1>4. CASE w = Unreadable
  <2>1. queue' = << >> BY <1>4 DEF Invoke, AddTreeItem, Added
  <2>2. Len(<< >>) = 0 BY EmptySeq
  <2>3. Distinct(<< >>) /\ Addrs(<< >>) = {} BY <2>2 DEF Distinct, Addrs
  <2>4. Once' BY <1>1, <1>3, <1>4, <2>1, <2>3 DEF Once, Distinct, Addrs
  <2>5. Mirror' BY <2>1, <2>2 DEF Mirror
  <2>6. Followed' BY <1>1, <2>2 DEF Followed, Addrs
  <2>7. Least' BY <1>1 DEF Least, Closed
  <2> QED BY <1>1, <1>2, <2>4, <2>5, <2>6, <2>7 DEF DumpInv, Cursor
<1>5. CASE w # Unreadable
  <2>1. queue' = Append(<< >>, x) BY <1>5 DEF Invoke, AddTreeItem, Added
  <2>2. x.addr = root' /\ x.left = w.left /\ x.right = w.right BY DEF TreeItem
  <2>3. x \in Item
    <3>1. w.left \in Nat /\ w.right \in Nat BY <1>5, NodeFields
    <3>2. root' \in Nat BY DEF TypeOK
    <3> QED BY <3>1, <3>2 DEF TreeItem, Item
  <2> HIDE DEF x
  <2>4. << >> \in Seq(Item) /\ Len(<< >>) = 0 BY EmptySeq
  <2>5. Len(queue') = 1 /\ queue'[1] = x
    BY <2>1, <2>3, <2>4, AppendProperties
  <2>6. Distinct(queue') /\ Addrs(queue') = {root'}
    BY <2>2, <2>5 DEF Distinct, Addrs
  <2>7. Distinct(<< >>) /\ Addrs(<< >>) = {} BY <2>4 DEF Distinct, Addrs
  <2>8. Once'
    <3>1. Distinct(rows)' /\ Addrs(rows)' = {} BY <1>1, <2>7 DEF Distinct, Addrs
    <3>2. Distinct(todo)' /\ Addrs(todo)' = {root'} BY <1>1, <2>6 DEF Distinct, Addrs
    <3> QED BY <1>3, <1>5, <3>1, <3>2 DEF Once
  <2>9. Mirror' BY <1>2, <1>5, <2>2, <2>5 DEF Mirror, Holds
  <2>10. Followed' BY <1>1, <2>4 DEF Followed, Addrs
  <2>11. Least' BY <1>1 DEF Least, Closed
  <2> QED BY <1>1, <1>2, <2>8, <2>9, <2>10, <2>11 DEF DumpInv, Cursor
<1> QED BY <1>4, <1>5

(* The front item moves from the list to do to the rows.                   *)
LEMMA PrintInv ==
  ASSUME TypeOK, DumpInv, PrintItem
  PROVE  DumpInv'
<1> DEFINE row == [level |-> level, count |-> count,
                   addr |-> Head(queue).addr, depth |-> Head(queue).level]
<1>1. /\ pc = "loop" /\ pc' = "left" /\ queue # << >> /\ queue \in Seq(Item)
      /\ UNCHANGED <<root, queue, check, mem>> /\ rows' = Append(rows, row)
      /\ ~InTurn /\ InTurn' /\ todo = queue /\ todo' = Tail(queue)
  BY DEF PrintItem, TypeOK, InTurn, todo
<1>2. row \in Row /\ row.addr = Head(queue).addr /\ rows \in Seq(Row)
  BY <1>1, HeadIsItem DEF Row, TypeOK
<1> HIDE DEF row
<1>3. Addrs(rows') = Addrs(rows) \cup {Head(queue).addr}
      /\ (Head(queue).addr \notin Addrs(rows) => Distinct(rows'))
  BY <1>1, <1>2, AppendAddrs DEF DumpInv, Once
<1>4. /\ Addrs(queue) = Addrs(Tail(queue)) \cup {Head(queue).addr}
      /\ Distinct(Tail(queue)) /\ Head(queue).addr \notin Addrs(Tail(queue))
  BY <1>1, TailAddrs DEF DumpInv, Once
<1>5. Found' = Found BY <1>1 DEF Found
<1>6. Once'
  <2>1. Addrs(rows) \cap Addrs(queue) = {} /\ Addrs(rows) \cup Addrs(queue) = Found
    BY <1>1 DEF DumpInv, Once
  <2>2. Distinct(rows') /\ Addrs(rows') \cap Addrs(Tail(queue)) = {}
        /\ Addrs(rows') \cup Addrs(Tail(queue)) = Found
    BY <1>3, <1>4, <2>1
  <2>3. Distinct(rows)' /\ Distinct(todo)' BY <1>1, <1>4, <2>2 DEF Distinct
  <2>4. Addrs(rows)' = Addrs(rows') /\ Addrs(todo)' = Addrs(Tail(queue))
    BY <1>1 DEF Addrs
  <2> QED BY <1>5, <2>2, <2>3, <2>4 DEF Once
<1>7. Addrs(rows)' = Addrs(rows) \cup {Head(queue).addr} BY <1>3 DEF Addrs
<1>8. Followed'
  <2>1. \A a \in Addrs(rows) : FollowedIn(mem, check, a, "left")
                               /\ FollowedIn(mem, check, a, "right")
    BY <1>1 DEF DumpInv, Followed
  <2> QED BY <1>1, <1>7, <2>1 DEF Followed, FollowedIn
<1>9. Mirror' BY <1>1 DEF DumpInv, Mirror
<1>10. Cursor' BY <1>1, <1>7 DEF Cursor
<1>11. Least'
  <2>1. Links' = Links /\ \A e : Target(e)' = Target(e) BY <1>1, <1>5 DEF Links, Target
  <2>2. \A S : Closed(S)' <=> Closed(S) BY <1>1, <2>1 DEF Closed
  <2> QED BY <1>1, <2>2 DEF DumpInv, Least
<1> QED BY <1>1, <1>6, <1>8, <1>9, <1>10, <1>11 DEF DumpInv

(* Steps that only move the control. *)
LEMMA ControlInv ==
  ASSUME TypeOK, DumpInv, Finish \/ Abort \/ UNCHANGED vars
  PROVE  DumpInv'
<1>1. UNCHANGED <<root, queue, check, rows, mem>> BY DEF Finish, Abort, vars
<1>2. InTurn' <=> InTurn BY DEF Finish, Abort, vars, InTurn
<1>3. pc' = "right" => pc = "right" BY DEF Finish, Abort, vars
<1>4. (pc' # "idle" => root \in check) /\ (pc' \in {"idle", "done"} => queue = << >>)
  BY DEF Finish, Abort, vars, DumpInv
<1>5. Found' = Found /\ Links' = Links BY <1>1 DEF Found, Links
<1>6. Once'
  <2>1. todo' = todo BY <1>1, <1>2 DEF todo
  <2>2. Distinct(rows)' = Distinct(rows) /\ Addrs(rows)' = Addrs(rows)
    BY <1>1 DEF Distinct, Addrs
  <2>3. Distinct(todo)' = Distinct(todo) /\ Addrs(todo)' = Addrs(todo)
    BY <2>1 DEF Distinct, Addrs
  <2> QED BY <1>5, <2>2, <2>3 DEF DumpInv, Once
<1>7. Mirror' /\ Cursor' BY <1>1, <1>2 DEF DumpInv, Mirror, Cursor, Addrs
<1>8. Followed' BY <1>1, <1>2, <1>3 DEF DumpInv, Followed, Addrs
<1>9. Least'
  <2>1. \A S : Closed(S)' <=> Closed(S) BY <1>1, <1>5 DEF Closed, Target
  <2> QED BY <1>1, <2>1 DEF DumpInv, Least
<1> QED BY <1>1, <1>4, <1>6, <1>7, <1>8, <1>9 DEF DumpInv

LEMMA DumpInvInit == Init => DumpInv
<1> SUFFICES ASSUME Init PROVE DumpInv OBVIOUS
<1>1. Len(<< >>) = 0 BY EmptySeq
<1>2. DOMAIN mem = {} /\ check = {} /\ rows = << >> /\ queue = << >> /\ pc = "idle" BY DEF Init
<1>3. ~InTurn /\ todo = << >> BY <1>2 DEF InTurn, todo
<1>4. Distinct(<< >>) /\ Addrs(<< >>) = {} BY <1>1 DEF Distinct, Addrs
<1>5. Once BY <1>2, <1>3, <1>4 DEF Once, Found
<1>6. Mirror /\ Cursor /\ Followed BY <1>1, <1>2, <1>3, <1>4 DEF Mirror, Cursor, Followed
<1>7. Least BY <1>2 DEF Least
<1> QED BY <1>2, <1>5, <1>6, <1>7 DEF DumpInv

LEMMA DumpInvStep ==
  ASSUME TypeOK, DumpInv, [Next]_vars
  PROVE  DumpInv'
<1>1. TypeOK' BY SplayStepTyped
<1>2. ASSUME NEW r \in Roots, NEW wide \in BOOLEAN,
             NEW w \in Readable(wide) \cup {Unreadable}, Invoke(r, wide, w)
      PROVE  DumpInv'
  BY <1>1, <1>2, InvokeInv
<1>3. CASE PrintItem BY <1>3, PrintInv
<1>4. CASE Visit BY <1>4, VisitInv DEF Visit
<1>5. CASE Finish \/ Abort \/ UNCHANGED vars BY <1>5, ControlInv
<1> QED BY <1>2, <1>3, <1>4, <1>5 DEF Next, Command, Step

(***************************************************************************)
(* In a 32-bit target an address has one name: the root is masked, and     *)
(* links are read as ULONGs.                                               *)
(***************************************************************************)
Fit == is64 \/ \A a \in check : a < Space

LEMMA FitStep ==
  ASSUME TypeOK, DumpInv, Fit, [Next]_vars
  PROVE  Fit'
<1>1. ASSUME NEW r \in Roots, NEW wide \in BOOLEAN,
             NEW w \in Readable(wide) \cup {Unreadable}, Invoke(r, wide, w)
      PROVE  Fit'
  <2>1. check' = {root'} /\ is64' = wide /\ root' = IF wide THEN r ELSE r % Space
    BY <1>1 DEF Invoke, AddTreeItem
  <2>2. r % Space < Space BY RootsAssumption, SpaceAssumption
  <2> QED BY <2>1, <2>2 DEF Fit
<1>2. ASSUME NEW q, NEW side \in Side, NEW w, AddChild(q, side, w), queue # << >>,
             is64' = is64
      PROVE  Fit'
  <2>1. CASE Head(queue)[side] = 0 BY <1>2, <2>1 DEF AddChild, Fit
  <2>2. CASE Head(queue)[side] # 0
    <3>1. check' = check \cup {Head(queue)[side]} BY <1>2, <2>2 DEF AddChild, AddTreeItem
    <3>2. is64 \/ Head(queue)[side] < Space
      <4>1. Holds(mem, Head(queue)) BY <1>2, QueueHead DEF DumpInv, Mirror
      <4>2. mem[Head(queue).addr] \in Readable(is64) BY <4>1 DEF Holds, TypeOK
      <4>3. Head(queue)[side] = mem[Head(queue).addr][side] BY <4>1 DEF Holds, Side
      <4> QED BY <4>2, <4>3 DEF Readable, Side
    <3> QED BY <1>2, <3>1, <3>2 DEF Fit
  <2> QED BY <2>1, <2>2
<1>3. CASE Visit
  <2>1. ASSUME NEW w, AddLeft(w) PROVE Fit'
    BY <1>2, <2>1 DEF AddLeft, Side, TypeOK
  <2>2. ASSUME NEW w, AddRight(w) PROVE Fit'
    BY <1>2, <2>2 DEF AddRight, Side, TypeOK
  <2> QED BY <1>3, <2>1, <2>2 DEF Visit
<1>4. CASE PrintItem \/ Finish \/ Abort \/ UNCHANGED vars
  BY <1>4 DEF PrintItem, Finish, Abort, vars, Fit
<1> QED BY <1>1, <1>3, <1>4 DEF Next, Command, Step

(* Whatever the links are, no node is printed twice, under one name or two *)
(* (CorruptionCheck, and the mask "preventing sign extension").            *)
THEOREM NoNodeTwice == Spec => []OncePerNode
<1> DEFINE I == TypeOK /\ DumpInv /\ Fit
<1>1. Init => I
  <2>1. Init => Fit BY DEF Init, Fit
  <2> QED BY <2>1, SplayInitTyped, DumpInvInit
<1>2. I /\ [Next]_vars => I' BY SplayStepTyped, DumpInvStep, FitStep
<1>3. I => OncePerNode
  <2> SUFFICES ASSUME I PROVE OncePerNode OBVIOUS
  <2>1. \A i, j \in 1 .. Len(rows) : rows[i].addr = rows[j].addr => i = j
    BY DEF DumpInv, Once, Distinct
  <2>2. Addrs(rows) \subseteq check BY DEF DumpInv, Once, Found
  <2>3. \A i \in 1 .. Len(rows) : rows[i].addr \in check BY <2>2 DEF Addrs
  <2> QED BY <2>1, <2>3 DEF Fit, OncePerNode
<1> HIDE DEF I
<1> QED BY <1>1, <1>2, <1>3, PTL DEF Spec

(* Whatever the links are, a dump that ends has printed the readable nodes *)
(* reachable from the root, all of them and no others (the loop of !dt).   *)
THEOREM DumpIsComplete == Spec => []Complete
<1>1. Init => TypeOK /\ DumpInv BY SplayInitTyped, DumpInvInit
<1>2. TypeOK /\ DumpInv /\ [Next]_vars => (TypeOK /\ DumpInv)'
  BY SplayStepTyped, DumpInvStep
<1>3. DumpInv => Complete
  <2> SUFFICES ASSUME DumpInv, pc = "done"
               PROVE  /\ Printed = Found /\ Closed(DOMAIN mem)
                      /\ \A S \in SUBSET DOMAIN mem : Closed(S) => S = DOMAIN mem
    BY DEF Complete
  <2>1. queue = << >> /\ ~InTurn /\ todo = << >> BY DEF DumpInv, InTurn, todo
  <2>2. Len(<< >>) = 0 BY EmptySeq
  <2>3. Addrs(rows) = Found BY <2>1, <2>2 DEF DumpInv, Once, Addrs
  <2>4. Printed = Found BY <2>3 DEF Printed, Addrs
  <2>5. ASSUME NEW e \in Links PROVE Target(e) \in DOMAIN mem
    <3>1. e[1] \in Addrs(rows) /\ e[2] \in {"left", "right"} /\ Target(e) # 0
      BY <2>3 DEF Links, Target, Side
    <3>2. FollowedIn(mem, check, e[1], e[2]) BY <2>1, <3>1 DEF DumpInv, Followed
    <3> QED BY <3>1, <3>2 DEF FollowedIn, Target, DumpInv
  <2>6. Closed(DOMAIN mem) BY <2>5 DEF Closed, DumpInv
  <2>7. \A S \in SUBSET DOMAIN mem : Closed(S) => S = DOMAIN mem BY DEF DumpInv, Least
  <2> QED BY <2>4, <2>6, <2>7
<1> QED BY <1>1, <1>2, <1>3, PTL DEF Spec

(***************************************************************************)
(* The spanning tree.  Visited are the links the loop has followed so far. *)
(* Those without a message lead to the nodes found, one to each but the    *)
(* root.                                                                   *)
(***************************************************************************)
Ahead(e) == /\ pc \in {"left", "right"} /\ e[1] = Head(queue).addr
            /\ pc = "left" \/ e[2] = "right"

Visited == {e \in Links : e[1] \in Addrs(rows) /\ ~Ahead(e)}
Tree    == Visited \ messages

TreeInv ==
  pc # "aborted" =>
    /\ messages \subseteq Visited
    /\ {Target(e) : e \in Tree} = Found \ {root}
    /\ \A e, f \in Tree : Target(e) = Target(f) => e = f

LEMMA LinksArePairs ==
  ASSUME NEW e \in Links
  PROVE  e = <<e[1], e[2]>> /\ e[1] \in Found /\ e[2] \in {"left", "right"}
BY DEF Links, Side

(* What a step that looks at a child does to the visited links.            *)
LEMMA VisitedGrows ==
  ASSUME TypeOK, DumpInv, NEW w \in Readable(is64) \cup {Unreadable},
         NEW side \in Side, NEW q, AddChild(q, side, w),
         \/ pc = "left" /\ pc' = "right" /\ side = "left" /\ q = queue
         \/ pc = "right" /\ pc' = "loop" /\ side = "right",
         UNCHANGED <<root, rows, is64>>
  PROVE  LET link == <<Head(queue).addr, side>> IN
         /\ link \notin Visited
         /\ Visited' = Visited \cup (Links' \cap {link})
         /\ \A e \in Visited : Target(e)' = Target(e)
         /\ Head(queue)[side] = mem[Head(queue).addr][side]
         /\ Head(queue).addr \in Found /\ Head(queue).addr \in Found'
         /\ mem'[Head(queue).addr] = mem[Head(queue).addr]
<1> DEFINE item == Head(queue)
           link == <<item.addr, side>>
<1>1. queue # << >> /\ queue \in Seq(Item) /\ InTurn /\ pc \in {"left", "right"}
  BY DEF TypeOK, InTurn
<1>2. Holds(mem, item) BY <1>1, QueueHead DEF DumpInv, Mirror
<1>3. item.addr \in Found /\ item[side] = mem[item.addr][side]
      /\ item.addr \in Addrs(rows)
  BY <1>1, <1>2 DEF Holds, Found, Side, DumpInv, Cursor
<1>4. /\ \A x \in check : mem'[x] = mem[x]
      /\ Found \subseteq Found' /\ Found' \ Found \subseteq {x \in Found' : x \notin Addrs(rows)}
  <2>1. \A x \in check : mem'[x] = mem[x] BY AddChildGraph
  <2>2. Found \subseteq Found' BY <1>1, AddChildQueue DEF DumpInv
  <2>3. Addrs(rows) \subseteq Found BY DEF DumpInv, Once
  <2> QED BY <2>1, <2>2, <2>3
<1>5. Addrs(rows) \subseteq Found /\ Found \subseteq check BY DEF DumpInv, Once, Found
<1>6. Addrs(rows)' = Addrs(rows) BY DEF Addrs
<1>7. \A e : e[1] \in Addrs(rows) => (e \in Links' <=> e \in Links) /\ Target(e)' = Target(e)
  <2> SUFFICES ASSUME NEW e, e[1] \in Addrs(rows)
               PROVE  (e \in Links' <=> e \in Links) /\ Target(e)' = Target(e)
    OBVIOUS
  <2>1. mem'[e[1]] = mem[e[1]] BY <1>4, <1>5
  <2>2. e \in Found \X Side <=> e \in Found' \X Side BY <1>4, <1>5
  <2> QED BY <2>1, <2>2 DEF Links, Target
<1>8. pc = "left" => Head(queue') = item
  <2> SUFFICES ASSUME pc = "left" PROVE Head(queue') = item OBVIOUS
  <2>1. \/ queue' = queue
        \/ \E x \in Item : queue' = Append(queue, x)
    BY <1>1, AddChildQueue DEF DumpInv
  <2>2. ASSUME NEW x \in Item PROVE Head(Append(queue, x)) = Head(queue)
    BY <1>1, HeadTailAppend
  <2> QED BY <2>1, <2>2
<1> HIDE DEF item
<1>9. link \notin Visited BY <1>3 DEF Visited, Ahead, item
<1>10. \A e \in Links' : Ahead(e)' <=> pc = "left" /\ e[1] = item.addr /\ e[2] = "right"
  BY <1>8 DEF Ahead
<1>11. \A e \in Links :
         Ahead(e) <=> e[1] = item.addr /\ (pc = "left" \/ e[2] = "right")
  <2> SUFFICES ASSUME NEW e \in Links
               PROVE  Ahead(e) <=> e[1] = item.addr /\ (pc = "left" \/ e[2] = "right")
    OBVIOUS
  <2>1. pc \in {"left", "right"} BY <1>1
  <2>2. item.addr = Head(queue).addr BY DEF item
  <2> QED BY ONLY <2>1, <2>2, Zenon DEF Ahead
<1>12. Visited' = Visited \cup (Links' \cap {link})
  <2>1. ASSUME NEW e \in Links', e[1] \in Addrs(rows), e # link
        PROVE  e \in Visited' <=> e \in Visited
    <3>1. e \in Links /\ e = <<e[1], e[2]>> /\ e[2] \in {"left", "right"}
      BY <1>7, <2>1, LinksArePairs
    <3>2. e[1] = item.addr => e[2] # side BY <2>1, <3>1
    <3>3. Ahead(e)' <=> Ahead(e)
      <4>1. Ahead(e)' <=> pc = "left" /\ e[1] = item.addr /\ e[2] = "right"
        BY <1>10
      <4>2. Ahead(e) <=> e[1] = item.addr /\ (pc = "left" \/ e[2] = "right")
        BY <1>11, <3>1
      <4>3. CASE pc = "left" /\ side = "left"
        BY ONLY <3>1, <3>2, <4>1, <4>2, <4>3, Zenon
      <4>4. CASE pc = "right" /\ side = "right"
        <5>1. pc # "left" BY <4>4
        <5> QED BY ONLY <3>1, <3>2, <4>1, <4>2, <4>4, <5>1, Zenon
      <4> QED BY <4>3, <4>4
    <3>4. e \in Visited' <=> e \in Links' /\ e[1] \in Addrs(rows)' /\ ~Ahead(e)'
      BY DEF Visited
    <3>5. e \in Visited <=> e \in Links /\ e[1] \in Addrs(rows) /\ ~Ahead(e)
      BY DEF Visited
    <3> QED BY ONLY <1>6, <2>1, <3>1, <3>3, <3>4, <3>5, Zenon
  <2>2. link \in Links' => link \in Visited'
    BY <1>3, <1>6, <1>10 DEF Visited
  <2>3. \A e \in Visited : e \in Links' /\ e[1] \in Addrs(rows) BY <1>7 DEF Visited
  <2>4. \A e \in Visited' : e \in Links' /\ e[1] \in Addrs(rows) BY <1>6 DEF Visited
  <2> QED BY <1>9, <2>1, <2>2, <2>3, <2>4
<1>13. \A e \in Visited : Target(e)' = Target(e) BY <1>7 DEF Visited
<1>14. item.addr \in Found' /\ mem'[item.addr] = mem[item.addr] BY <1>3, <1>4, <1>5
<1> QED BY <1>3, <1>9, <1>12, <1>13, <1>14 DEF item

LEMMA ChildTree ==
  ASSUME TypeOK, DumpInv, TreeInv, NEW w \in Readable(is64) \cup {Unreadable},
         NEW side \in Side, NEW q, AddChild(q, side, w),
         \/ pc = "left" /\ pc' = "right" /\ side = "left" /\ q = queue
         \/ pc = "right" /\ pc' = "loop" /\ side = "right",
         UNCHANGED <<root, rows, is64>>
  PROVE  TreeInv'
<1> DEFINE addr == Head(queue).addr
           link == <<addr, side>>
           a == Head(queue)[side]
<1>1. /\ link \notin Visited
      /\ Visited' = Visited \cup (Links' \cap {link})
      /\ \A e \in Visited : Target(e)' = Target(e)
      /\ a = mem[addr][side] /\ addr \in Found'
      /\ mem'[addr] = mem[addr]
  BY VisitedGrows
<1>2. /\ messages \subseteq Visited
      /\ {Target(e) : e \in Tree} = Found \ {root}
      /\ \A e, f \in Tree : Target(e) = Target(f) => e = f
  BY DEF TreeInv
<1>3. (link \in Links' <=> a # 0) /\ \A e : e = link => Target(e)' = a
  <2>1. link[1] = addr /\ link[2] = side OBVIOUS
  <2>2. mem'[link[1]][link[2]] = a BY <1>1, <2>1
  <2>3. link \in Found' \X Side BY <1>1
  <2> HIDE DEF link
  <2> QED BY <2>2, <2>3 DEF Links, Target
<1>4. \A e \in Tree : e \in Visited /\ Target(e)' = Target(e) /\ Target(e) \in Found
  BY <1>1, <1>2 DEF Tree
<1> HIDE DEF a, link, addr
<1>5. CASE a = 0
  <2>1. UNCHANGED <<check, mem, messages>> BY <1>5 DEF AddChild, a
  <2>2. Visited' = Visited /\ Found' = Found BY <1>1, <1>3, <1>5, <2>1 DEF Found
  <2>3. Tree' = Tree BY <2>1, <2>2 DEF Tree
  <2>4. {Target(e)' : e \in Tree} = {Target(e) : e \in Tree} BY <1>4
  <2> QED BY <1>2, <1>4, <2>1, <2>2, <2>3, <2>4 DEF TreeInv
<1>6. CASE a # 0
  <2>1. /\ AddTreeItem(check, mem, q, Head(queue).level + 1, a, w)
        /\ messages' = IF Added(check, a, w) THEN messages ELSE messages \cup {link}
    BY <1>6 DEF AddChild, a, link, addr
  <2>2. Found' = Found \cup (IF Added(check, a, w) THEN {a} ELSE {})
    BY <2>1, AddTreeItemGraph DEF DumpInv
  <2>3. Visited' = Visited \cup {link} BY <1>1, <1>3, <1>6
  <2>4. CASE Added(check, a, w)
    <3>1. a \notin Found /\ a # root
      <4>1. Found \subseteq check /\ root \in check BY DEF DumpInv, Found
      <4> QED BY <2>4, <4>1 DEF Added
    <3>2. messages' = messages /\ Found' = Found \cup {a} BY <2>1, <2>2, <2>4
    <3>3. Tree' = Tree \cup {link} BY <1>1, <1>2, <2>3, <3>2 DEF Tree
    <3>4. {Target(e)' : e \in Tree'} = {Target(e) : e \in Tree} \cup {a}
      BY <1>3, <1>4, <3>3
    <3>5. {Target(e)' : e \in Tree'} = Found' \ {root} BY <1>2, <3>1, <3>2, <3>4
    <3>6. ASSUME NEW e \in Tree', NEW f \in Tree', Target(e)' = Target(f)' PROVE e = f
      <4>1. CASE e \in Tree /\ f \in Tree BY <1>2, <1>4, <3>6, <4>1
      <4>2. CASE e = link /\ f = link BY <4>2
      <4>3. CASE e \in Tree /\ f = link BY <1>3, <1>4, <3>1, <3>6, <4>3
      <4>4. CASE e = link /\ f \in Tree BY <1>3, <1>4, <3>1, <3>6, <4>4
      <4> QED BY <3>3, <4>1, <4>2, <4>3, <4>4
    <3> QED BY <1>2, <2>3, <3>2, <3>5, <3>6 DEF TreeInv
  <2>5. CASE ~Added(check, a, w)
    <3>1. messages' = messages \cup {link} /\ Found' = Found BY <2>1, <2>2, <2>5
    <3>2. Tree' = Tree BY <1>1, <1>2, <2>3, <3>1 DEF Tree
    <3>3. {Target(e)' : e \in Tree} = {Target(e) : e \in Tree} BY <1>4
    <3> QED BY <1>2, <1>4, <2>3, <3>1, <3>2, <3>3 DEF TreeInv
  <2> QED BY <2>4, <2>5
<1> QED BY <1>5, <1>6

LEMMA TreeStep ==
  ASSUME TypeOK, DumpInv, TreeInv, [Next]_vars
  PROVE  TreeInv'
<1>1. ASSUME NEW r, NEW wide, NEW w, Invoke(r, wide, w) PROVE TreeInv'
  <2>1. rows' = << >> /\ messages' = {} /\ Found' \subseteq {root'}
    BY <1>1 DEF Invoke, AddTreeItem, Found
  <2>2. Addrs(rows)' = {} BY <2>1, EmptySeq DEF Addrs
  <2>3. Visited' = {} /\ Tree' = {} BY <2>2 DEF Visited, Tree
  <2> QED BY <2>1, <2>3 DEF TreeInv
<1>2. CASE PrintItem
  <2>1. /\ pc = "loop" /\ pc' = "left" /\ queue # << >> /\ todo = queue
        /\ UNCHANGED <<root, queue, check, messages, mem>>
    BY <1>2 DEF PrintItem, todo, InTurn
  <2>2. Addrs(rows)' = Addrs(rows) \cup {Head(queue).addr}
    <3> DEFINE row == [level |-> level, count |-> count,
                       addr |-> Head(queue).addr, depth |-> Head(queue).level]
    <3>1. rows' = Append(rows, row) BY <1>2 DEF PrintItem
    <3>2. row \in Row /\ row.addr = Head(queue).addr /\ rows \in Seq(Row)
      BY <2>1, HeadIsItem DEF Row, TypeOK
    <3> HIDE DEF row
    <3>3. Addrs(Append(rows, row)) = Addrs(rows) \cup {Head(queue).addr}
      BY <3>2, AppendAddrs
    <3> QED BY <3>1, <3>3 DEF Addrs
  <2>3. Head(queue).addr \notin Addrs(rows)
    <3>1. Head(queue).addr \in Addrs(queue) BY <2>1, QueueHead DEF Addrs
    <3> QED BY <2>1, <3>1 DEF DumpInv, Once
  <2>4. Found' = Found /\ Links' = Links /\ \A e : Target(e)' = Target(e)
    BY <2>1 DEF Found, Links, Target
  <2>5. Visited' = Visited BY <2>1, <2>2, <2>3, <2>4 DEF Visited, Ahead
  <2>6. Tree' = Tree BY <2>1, <2>5 DEF Tree
  <2> QED BY <2>1, <2>4, <2>5, <2>6 DEF TreeInv
<1>3. ASSUME NEW w \in Readable(is64) \cup {Unreadable}, AddLeft(w) PROVE TreeInv'
  <2>1. "left" \in Side BY DEF Side
  <2> QED BY <1>3, <2>1, ChildTree DEF AddLeft
<1>4. ASSUME NEW w \in Readable(is64) \cup {Unreadable}, AddRight(w) PROVE TreeInv'
  <2>1. "right" \in Side BY DEF Side
  <2> QED BY <1>4, <2>1, ChildTree DEF AddRight
<1>5. CASE Finish \/ UNCHANGED vars
  <2>1. UNCHANGED <<root, queue, rows, messages, mem>> BY <1>5 DEF Finish, vars
  <2>2. (pc = "loop" /\ pc' = "done") \/ pc' = pc BY <1>5 DEF Finish, vars
  <2>3. /\ Found' = Found /\ Links' = Links /\ Addrs(rows)' = Addrs(rows)
        /\ \A e : Target(e)' = Target(e)
    BY <2>1 DEF Found, Links, Target, Addrs
  <2>4. \A e : Ahead(e)' <=> Ahead(e) BY <2>1, <2>2 DEF Ahead
  <2>5. Visited' = Visited BY <2>3, <2>4 DEF Visited
  <2>6. Tree' = Tree BY <2>1, <2>5 DEF Tree
  <2> QED BY <2>1, <2>2, <2>3, <2>5, <2>6 DEF TreeInv
<1>6. CASE Abort BY <1>6 DEF Abort, TreeInv
<1> QED BY <1>1, <1>2, <1>3, <1>4, <1>5, <1>6 DEF Next, Command, Step, Visit

(* Whatever the links are, those without a message are a spanning tree of  *)
(* the nodes printed: every other link closes a cycle, joins two branches  *)
(* or leads to memory that cannot be read, and has its message (the two    *)
(* else-branches of the loop of !dt).                                      *)
THEOREM MessagesLeaveTree == Spec => []SpanningTree
<1> DEFINE I == TypeOK /\ DumpInv /\ TreeInv
<1>1. Init => I
  <2> SUFFICES ASSUME Init PROVE TreeInv BY SplayInitTyped, DumpInvInit
  <2>1. rows = << >> /\ messages = {} /\ DOMAIN mem = {} BY DEF Init
  <2>2. Addrs(rows) = {} /\ Found = {} BY <2>1, EmptySeq DEF Addrs, Found
  <2>3. Visited = {} /\ Tree = {} BY <2>2 DEF Visited, Tree
  <2> QED BY <2>1, <2>2, <2>3 DEF TreeInv
<1>2. I /\ [Next]_vars => I' BY SplayStepTyped, DumpInvStep, TreeStep
<1>3. I => SpanningTree
  <2> SUFFICES ASSUME DumpInv, TreeInv, pc = "done" PROVE SpanningTree
    BY DEF SpanningTree
  <2>1. queue = << >> /\ todo = queue BY DEF DumpInv, todo, InTurn
  <2>2. Addrs(todo) = {} BY <2>1, EmptySeq DEF Addrs
  <2>3. Addrs(rows) = Found BY <2>2 DEF DumpInv, Once
  <2>4. Printed = Found BY <2>3 DEF Printed, Addrs
  <2>5. \A e \in Links : e[1] \in Found BY LinksArePairs
  <2>6. Visited = Links BY <2>3, <2>5 DEF Visited, Ahead
  <2> QED BY <2>4, <2>6 DEF TreeInv, Tree, SpanningTree
<1> HIDE DEF I
<1> QED BY <1>1, <1>2, <1>3, PTL DEF Spec

(***************************************************************************)
(* A !dt dump is a search of a graph: the first states of SplayDump map to *)
(* those of GraphSearch, and each of its steps to a step or a stutter.     *)
(***************************************************************************)

(* The addresses of a list of rows. *)
LEMMA ShownSeq ==
  ASSUME NEW s \in Seq(Row)
  PROVE  /\ [i \in 1 .. Len(s) |-> s[i].addr] \in Seq(Nat)
         /\ Len([i \in 1 .. Len(s) |-> s[i].addr]) = Len(s)
<1> DEFINE t == [i \in 1 .. Len(s) |-> s[i].addr]
<1>1. Len(s) \in Nat BY LenProperties
<1>2. \A i \in 1 .. Len(s) : s[i].addr \in Nat
  <2>1. \A i \in 1 .. Len(s) : s[i] \in Row BY ElementOfSeq
  <2> QED BY <2>1 DEF Row
<1>3. t \in [1 .. Len(s) -> Nat] BY <1>2
<1>4. DOMAIN t = 1 .. Len(s) OBVIOUS
<1> HIDE DEF t
<1>5. t \in Seq(Nat) BY <1>1, <1>3, SeqDef
<1>6. Len(t) \in Nat /\ DOMAIN t = 1 .. Len(t) BY <1>5, LenProperties
<1>7. Len(t) = Len(s) BY <1>1, <1>4, <1>6
<1> QED BY <1>5, <1>7 DEF t

(* The state of the search, in terms of that of the dump. *)
LEMMA SearchState ==
  ASSUME TypeOK
  PROVE  /\ DOMAIN GraphRead = Found /\ Search!Known = DOMAIN mem
         /\ Search!Listed = Addrs(rows) /\ Len(Shown) = Len(rows)
         /\ Shown \in Seq(Nat)
<1>1. Shown \in Seq(Nat) /\ Len(Shown) = Len(rows) BY ShownSeq DEF TypeOK, Shown
<1>2. \A i \in 1 .. Len(rows) : Shown[i] = rows[i].addr BY DEF Shown
<1>3. Search!Listed = Addrs(rows) BY <1>1, <1>2 DEF Search!Listed, Addrs
<1>4. DOMAIN GraphRead = Found BY DEF GraphRead
<1>5. Found \subseteq DOMAIN mem BY DEF Found
<1> QED BY <1>1, <1>3, <1>4, <1>5 DEF Search!Known

(* A new command begins a search. *)
LEMMA InvokeBegins ==
  ASSUME TypeOK, TypeOK', NEW r, NEW wide \in BOOLEAN, NEW w, Invoke(r, wide, w)
  PROVE  Search!Begin
<1>1. StatusOf(pc) # "busy" /\ StatusOf(pc') = "busy" BY DEF Invoke, StatusOf
<1>2. DOMAIN mem' = {root'} /\ Found' \subseteq {root'} /\ rows' = << >>
  BY DEF Invoke, AddTreeItem, Found
<1>3. Shown' = << >>
  <2>1. Shown' \in Seq(Nat) /\ Len(Shown') = Len(rows') BY ShownSeq DEF TypeOK, Shown
  <2>2. Len(<< >>) = 0 BY EmptySeq
  <2> QED BY <1>2, <2>1, <2>2, EmptySeq
<1>4. DOMAIN GraphRead' = Found' /\ GraphRead' = [x \in DOMAIN GraphRead' |-> GraphRead'[x]]
  BY DEF GraphRead
<1>5. Search!Known' = {root'} BY <1>2, <1>4 DEF Search!Known
<1> QED BY <1>1, <1>2, <1>3, <1>4, <1>5 DEF Search!Begin

(* Printing an item shows its node, which was not shown before. *)
LEMMA PrintShows ==
  ASSUME TypeOK, DumpInv, PrintItem
  PROVE  Search!Show
<1> DEFINE a == Head(queue).addr
           row == [level |-> level, count |-> count, addr |-> a, depth |-> Head(queue).level]
<1>1. /\ pc = "loop" /\ pc' = "left" /\ queue # << >> /\ queue \in Seq(Item)
      /\ mem' = mem /\ rows' = Append(rows, row) /\ todo = queue
  BY DEF PrintItem, TypeOK, InTurn, todo
<1>2. a \in Found /\ a \notin Addrs(rows)
  BY <1>1, TailAddrs DEF DumpInv, Once
<1>3. Shown' = Append(Shown, a)
  <2>1. row \in Row /\ row.addr = a /\ rows \in Seq(Row)
    BY <1>1, HeadIsItem DEF Row, TypeOK
  <2> HIDE DEF row, a
  <2>2. /\ Len(rows') = Len(rows) + 1 /\ Len(rows) \in Nat /\ rows'[Len(rows) + 1] = row
        /\ \A i \in 1 .. Len(rows) : rows'[i] = rows[i]
    BY <1>1, <2>1, AppendProperties, LenProperties
  <2>3. rows' \in Seq(Row) BY <1>1, <2>1, AppendProperties
  <2>4. Shown' \in Seq(Nat) /\ Len(Shown') = Len(rows) + 1
        /\ \A i \in 1 .. Len(rows) + 1 : Shown'[i] = rows'[i].addr
    BY <2>2, <2>3, ShownSeq DEF Shown
  <2>5. Shown \in Seq(Nat) /\ Len(Shown) = Len(rows)
        /\ \A i \in 1 .. Len(rows) : Shown[i] = rows[i].addr
    BY SearchState DEF Shown
  <2>6. a \in Nat BY <1>1, HeadIsItem DEF a
  <2> DEFINE t == Append(Shown, a)
  <2>7. t \in Seq(Nat) /\ Len(t) = Len(rows) + 1 /\ t[Len(rows) + 1] = a
        /\ \A i \in 1 .. Len(rows) : t[i] = Shown[i]
    BY <2>5, <2>6, AppendProperties
  <2> HIDE DEF t
  <2>8. ASSUME NEW i \in 1 .. Len(rows) + 1 PROVE Shown'[i] = t[i]
    <3>1. i \in 1 .. Len(rows) \/ i = Len(rows) + 1 BY <2>2
    <3> QED BY <2>1, <2>2, <2>4, <2>5, <2>7, <3>1
  <2>9. Shown' = t BY <2>4, <2>7, <2>8, SeqEqual
  <2> QED BY <2>9 DEF t
<1>4. StatusOf(pc) = "busy" /\ StatusOf(pc') = "busy" BY <1>1 DEF StatusOf
<1>5. Found' = Found /\ GraphRead' = GraphRead BY <1>1 DEF Found, GraphRead
<1> QED BY <1>1, <1>2, <1>3, <1>4, <1>5, SearchState DEF Search!Show

(* Looking at a child follows a link, or changes nothing of the search.    *)
LEMMA VisitFollows ==
  ASSUME TypeOK, DumpInv, NEW w \in Readable(is64) \cup {Unreadable}, AddLeft(w) \/ AddRight(w)
  PROVE  Search!Follow \/ UNCHANGED Search!vars
<1> DEFINE side == IF pc = "left" THEN "left" ELSE "right"
           q == IF pc = "left" THEN queue ELSE Tail(queue)
           item == Head(queue)
           b == item.addr
           a == item[side]
<1>1. /\ pc \in {"left", "right"} /\ pc' \in {"right", "loop"} /\ rows' = rows
      /\ queue # << >> /\ side \in Side /\ AddChild(q, side, w)
  BY DEF AddLeft, AddRight, Side, TypeOK
<1>2. StatusOf(pc) = "busy" /\ StatusOf(pc') = "busy" /\ Shown' = Shown
  BY <1>1 DEF StatusOf, Shown
<1>3. b \in Found /\ b \in Addrs(rows) /\ a = mem[b][side]
  <2>1. Holds(mem, item) BY <1>1, QueueHead DEF DumpInv, Mirror
  <2> QED BY <1>1, <2>1 DEF Holds, Found, Side, DumpInv, Cursor, InTurn
<1>4. CASE a = 0 \/ a \in check
  <2>1. mem' = mem BY <1>1, <1>4 DEF AddChild, AddTreeItem
  <2>2. Found' = Found /\ GraphRead' = GraphRead BY <2>1 DEF Found, GraphRead
  <2> QED BY <1>2, <2>1, <2>2 DEF Search!vars
<1>5. CASE a # 0 /\ a \notin check
  <2>1. AddTreeItem(check, mem, q, item.level + 1, a, w) BY <1>1, <1>5 DEF AddChild
  <2>2. DOMAIN mem = check BY DEF DumpInv
  <2>3. /\ DOMAIN mem' = check \cup {a} /\ mem'[a] = w
        /\ \A x \in check : mem'[x] = mem[x]
    BY <1>5, <2>1, <2>2 DEF AddTreeItem
  <2>4. a \in GraphRead[b] BY <1>3, <1>5 DEF GraphRead, Children
  <2>5. Found \subseteq check /\ Found' = Found \cup (IF w = Unreadable THEN {} ELSE {a})
    BY <1>5, <2>2, <2>3 DEF Found
  <2>6. \A x \in Found : Children(mem'[x]) = Children(mem[x]) BY <2>3, <2>5
  <2>7. CASE w = Unreadable
    <3>1. Found' = Found /\ GraphRead' = GraphRead BY <2>5, <2>6, <2>7 DEF GraphRead
    <3>2. DOMAIN mem' \ Found' = (DOMAIN mem \ Found) \cup {a} BY <1>5, <2>2, <2>3, <2>5, <3>1
    <3>3. Search!Miss(a) BY <3>1, <3>2 DEF Search!Miss
    <3> QED BY <1>2, <1>3, <1>5, <2>2, <2>4, <3>3, SearchState DEF Search!Follow
  <2>8. CASE w # Unreadable
    <3>1. Found' = Found \cup {a} BY <2>5, <2>8
    <3>2. DOMAIN GraphRead' = DOMAIN GraphRead \cup {a}
          /\ GraphRead' = [x \in Found' |-> GraphRead'[x]]
      BY <3>1 DEF GraphRead
    <3>3. \A x \in Found' : GraphRead'[x] = IF x = a THEN GraphRead'[a] ELSE GraphRead[x]
      BY <2>6, <3>1 DEF GraphRead
    <3>4. DOMAIN mem' \ Found' = DOMAIN mem \ Found BY <1>5, <2>2, <2>3, <2>5, <3>1
    <3>5. GraphRead' = [x \in DOMAIN GraphRead' |->
                          IF x = a THEN GraphRead'[a] ELSE GraphRead[x]]
      BY <3>2, <3>3 DEF GraphRead
    <3>6. Search!Read(a) BY <3>2, <3>4, <3>5 DEF Search!Read
    <3> QED BY <1>2, <1>3, <1>5, <2>2, <2>4, <3>6, SearchState DEF Search!Follow
  <2> QED BY <2>7, <2>8
<1> QED BY <1>4, <1>5

(* A dump that ends has listed what it read and followed every link. *)
LEMMA FinishEnds ==
  ASSUME TypeOK, DumpInv, Finish
  PROVE  Search!End
<1>1. pc = "loop" /\ pc' = "done" /\ queue = << >> /\ UNCHANGED <<rows, mem>>
  BY DEF Finish
<1>2. todo = << >> /\ ~InTurn BY <1>1 DEF todo, InTurn
<1>3. Addrs(rows) = Found
  <2>1. Len(<< >>) = 0 BY EmptySeq
  <2> QED BY <1>2, <2>1 DEF DumpInv, Once, Addrs
<1>4. ASSUME NEW b \in Found PROVE GraphRead[b] \subseteq DOMAIN mem
  <2>1. FollowedIn(mem, check, b, "left") /\ FollowedIn(mem, check, b, "right")
    BY <1>2, <1>3 DEF DumpInv, Followed
  <2>2. GraphRead[b] = {mem[b].left, mem[b].right} \ {0} BY DEF GraphRead, Children
  <2> QED BY <2>1, <2>2 DEF FollowedIn, DumpInv
<1>5. StatusOf(pc) = "busy" /\ StatusOf(pc') = "ended" BY <1>1 DEF StatusOf
<1>6. Found' = Found /\ GraphRead' = GraphRead /\ Shown' = Shown
  BY <1>1 DEF Found, GraphRead, Shown
<1> QED BY <1>1, <1>3, <1>4, <1>5, <1>6, SearchState DEF Search!End

(* Every command of !dt, whatever links it finds and wherever it is broken *)
(* off, is a search that lists each node it reads once, follows links of   *)
(* listed nodes only and ends when none is left (the loop of !dt).         *)
THEOREM DumpIsSearch == Spec => RefinesSearch
<1>1. Init => Search!Init
  <2> SUFFICES ASSUME Init PROVE Search!Init OBVIOUS
  <2>1. Len(<< >>) = 0 BY EmptySeq
  <2>2. DOMAIN mem = {} /\ rows = << >> /\ pc = "idle" BY DEF Init
  <2>3. Found = {} BY <2>2 DEF Found
  <2>4. GraphRead = [a \in {} |-> {}] BY <2>3 DEF GraphRead
  <2>5. Shown = << >>
    <3>1. Shown \in Seq(Nat) /\ Len(Shown) = 0 BY <2>1, <2>2, SplayInitTyped, SearchState
    <3> QED BY <3>1, EmptySeq
  <2> QED BY <2>2, <2>3, <2>4, <2>5 DEF Search!Init, StatusOf
<1>2. TypeOK /\ DumpInv /\ [Next]_vars => [Search!Next]_(Search!vars)
  <2> SUFFICES ASSUME TypeOK, DumpInv, [Next]_vars PROVE [Search!Next]_(Search!vars)
    OBVIOUS
  <2>1. TypeOK' BY SplayStepTyped
  <2>2. CASE Command BY <2>1, <2>2, InvokeBegins DEF Command, Search!Next
  <2>3. CASE PrintItem BY <2>3, PrintShows DEF Search!Next
  <2>4. CASE Visit BY <2>4, VisitFollows DEF Visit, Search!Next
  <2>5. CASE Finish BY <2>5, FinishEnds DEF Search!Next
  <2>6. CASE Abort
    <3>1. StatusOf(pc) = "busy" /\ StatusOf(pc') = "broken" BY <2>6 DEF Abort, StatusOf
    <3>2. GraphRead' = GraphRead /\ Shown' = Shown /\ mem' = mem /\ Found' = Found
      BY <2>6 DEF Abort, GraphRead, Shown, Found
    <3> QED BY <3>1, <3>2 DEF Search!Break, Search!Next
  <2>7. CASE UNCHANGED vars
    <3>1. GraphRead' = GraphRead /\ Shown' = Shown /\ UNCHANGED <<pc, mem>> /\ Found' = Found
      BY <2>7 DEF vars, GraphRead, Shown, Found
    <3> QED BY <3>1 DEF Search!vars, StatusOf
  <2> QED BY <2>2, <2>3, <2>4, <2>5, <2>6, <2>7 DEF Next, Step
<1>3. Init => TypeOK /\ DumpInv BY SplayInitTyped, DumpInvInit
<1>4. TypeOK /\ DumpInv /\ [Next]_vars => (TypeOK /\ DumpInv)'
  BY SplayStepTyped, DumpInvStep
<1> QED BY <1>1, <1>2, <1>3, <1>4, PTL DEF Spec, RefinesSearch, Search!Spec

(***************************************************************************)
(* The order of the rows.  What is on a list is placed: an address with    *)
(* the level it was given.                                                 *)
(***************************************************************************)
RowPairs(s)   == {<<s[i].addr, s[i].depth>> : i \in 1 .. Len(s)}
QueuePairs(s) == {<<s[k].addr, s[k].level>> : k \in 1 .. Len(s)}
Placed        == RowPairs(rows) \cup QueuePairs(queue)

(* The loop has looked at this child of a printed node. *)
Looked(a, side) == \/ ~(InTurn /\ a = Head(queue).addr)
                   \/ pc = "right" /\ side = "left"

(* Where an address is placed a walk of that many links leads to it; the   *)
(* root is placed first; and a child is at most one level below every      *)
(* parent that was looked at.                                              *)
Reached   == \A x \in Placed : x[1] \in Ends(x[2])
RootFirst == \A x \in Placed : x[1] = root => x[2] = 0
Near      == \A x \in RowPairs(rows), side \in Side : Looked(x[1], side) =>
               \A y \in Placed : y[1] = mem[x[1]][side] => y[2] <= x[2] + 1

(* The queue holds two levels at most, in order, and the rows come before. *)
QueueOrder ==
  /\ InTurn => /\ <<Head(queue).addr, Head(queue).level>> \in RowPairs(rows)
               /\ Head(queue).level = level
  /\ \A k \in 1 .. Len(queue) : level <= queue[k].level /\ queue[k].level <= level + 1
  /\ \A k, m \in 1 .. Len(queue) : k < m => queue[k].level <= queue[m].level

Numbered(r, c) == r.level < level \/ (r.level = level /\ r.count < c)
RowOrder ==
  /\ \A i \in 1 .. Len(rows) : /\ rows[i].depth <= level
                               /\ Numbered(rows[i], IF InTurn THEN count + 1 ELSE count)
  /\ \A i, j \in 1 .. Len(rows) : i < j =>
       /\ rows[i].depth <= rows[j].depth
       /\ \/ rows[i].level < rows[j].level
          \/ rows[i].level = rows[j].level /\ rows[i].count < rows[j].count

OrderInv == Reached /\ RootFirst /\ Near /\ QueueOrder /\ RowOrder

(* The lists and their pairs. *)
LEMMA PairsOfRows ==
  ASSUME NEW s \in Seq(Row), NEW x \in Row
  PROVE  RowPairs(Append(s, x)) = RowPairs(s) \cup {<<x.addr, x.depth>>}
<1> DEFINE t == Append(s, x)
<1>1. Len(s) \in Nat /\ Len(t) = Len(s) + 1 /\ t[Len(s) + 1] = x
      /\ \A i \in 1 .. Len(s) : t[i] = s[i]
  BY AppendProperties, LenProperties
<1> HIDE DEF t
<1>2. 1 .. Len(t) = 1 .. Len(s) \cup {Len(s) + 1} BY <1>1
<1>3. RowPairs(t) \subseteq RowPairs(s) \cup {<<x.addr, x.depth>>} BY <1>1, <1>2 DEF RowPairs
<1>4. RowPairs(s) \subseteq RowPairs(t)
  <2>1. \A i \in 1 .. Len(s) : i \in 1 .. Len(t) /\ t[i] = s[i] BY <1>1, <1>2
  <2> QED BY <2>1 DEF RowPairs
<1>5. <<x.addr, x.depth>> \in RowPairs(t)
  <2>1. Len(s) + 1 \in 1 .. Len(t) BY <1>2
  <2> QED BY <1>1, <2>1 DEF RowPairs
<1> QED BY <1>3, <1>4, <1>5 DEF t

LEMMA PairsOfQueue ==
  ASSUME NEW s \in Seq(Item)
  PROVE  /\ \A x \in Item : QueuePairs(Append(s, x)) = QueuePairs(s) \cup {<<x.addr, x.level>>}
         /\ s # << >> => QueuePairs(s) = QueuePairs(Tail(s)) \cup {<<Head(s).addr, Head(s).level>>}
<1>1. ASSUME NEW x \in Item
      PROVE  QueuePairs(Append(s, x)) = QueuePairs(s) \cup {<<x.addr, x.level>>}
  <2> DEFINE t == Append(s, x)
  <2>1. Len(s) \in Nat /\ Len(t) = Len(s) + 1 /\ t[Len(s) + 1] = x
        /\ \A i \in 1 .. Len(s) : t[i] = s[i]
    BY AppendProperties, LenProperties
  <2> HIDE DEF t
  <2>2. 1 .. Len(t) = 1 .. Len(s) \cup {Len(s) + 1} BY <2>1
  <2>3. QueuePairs(t) \subseteq QueuePairs(s) \cup {<<x.addr, x.level>>}
    BY <2>1, <2>2 DEF QueuePairs
  <2>4. QueuePairs(s) \subseteq QueuePairs(t)
    <3>1. \A i \in 1 .. Len(s) : i \in 1 .. Len(t) /\ t[i] = s[i] BY <2>1, <2>2
    <3> QED BY <3>1 DEF QueuePairs
  <2>5. <<x.addr, x.level>> \in QueuePairs(t)
    <3>1. Len(s) + 1 \in 1 .. Len(t) BY <2>2
    <3> QED BY <2>1, <3>1 DEF QueuePairs
  <2> QED BY <2>3, <2>4, <2>5 DEF t
<1>2. ASSUME s # << >>
      PROVE  QueuePairs(s) = QueuePairs(Tail(s)) \cup {<<Head(s).addr, Head(s).level>>}
  <2> DEFINE t == Tail(s)
  <2>1. Len(s) \in Nat /\ Len(s) > 0 /\ Head(s) = s[1] BY <1>2, LenProperties, EmptySeq
  <2>2. Len(t) = Len(s) - 1 /\ \A i \in 1 .. Len(t) : t[i] = s[i + 1]
    BY <1>2, HeadTailProperties
  <2> HIDE DEF t
  <2>3. \A i \in 1 .. Len(s) : i = 1 \/ (i - 1 \in 1 .. Len(t) /\ t[i - 1] = s[i])
    <3> TAKE i \in 1 .. Len(s)
    <3>1. i # 1 => i - 1 \in 1 .. Len(t) /\ (i - 1) + 1 = i BY <2>1, <2>2
    <3> QED BY <2>2, <3>1
  <2>4. \A i \in 1 .. Len(t) : i + 1 \in 1 .. Len(s) BY <2>1, <2>2
  <2>5. QueuePairs(s) \subseteq QueuePairs(t) \cup {<<s[1].addr, s[1].level>>}
    BY <2>3 DEF QueuePairs
  <2>6. QueuePairs(t) \subseteq QueuePairs(s) BY <2>2, <2>4 DEF QueuePairs
  <2>7. <<s[1].addr, s[1].level>> \in QueuePairs(s)
    <3>1. 1 \in 1 .. Len(s) BY <2>1
    <3> QED BY <3>1 DEF QueuePairs
  <2> QED BY <2>1, <2>5, <2>6, <2>7 DEF t
<1> QED BY <1>1, <1>2

LEMMA PlacedTyped ==
  ASSUME TypeOK, DumpInv
  PROVE  /\ \A x \in Placed : x = <<x[1], x[2]>> /\ x[1] \in Found /\ x[2] \in Nat
         /\ Found \subseteq check
<1>1. ASSUME NEW i \in 1 .. Len(rows)
      PROVE  rows[i].addr \in Found /\ rows[i].depth \in Nat
  <2>1. rows[i] \in Row BY DEF TypeOK
  <2> QED BY <2>1 DEF Row, DumpInv, Once, Addrs
<1>2. ASSUME NEW k \in 1 .. Len(queue)
      PROVE  queue[k].addr \in Found /\ queue[k].level \in Nat
  <2>1. queue[k] \in Item BY DEF TypeOK
  <2> QED BY <2>1 DEF Item, DumpInv, Mirror, Holds, Found
<1>3. Found \subseteq check BY DEF Found, DumpInv
<1> QED BY <1>1, <1>2, <1>3 DEF Placed, RowPairs, QueuePairs

(* The rows name an address once, so they give it one depth. *)
LEMMA OneDepth ==
  ASSUME DumpInv, NEW x \in RowPairs(rows), NEW y \in RowPairs(rows), x[1] = y[1]
  PROVE  x[2] = y[2]
BY DEF RowPairs, DumpInv, Once, Distinct

(* Walks go on as more is read. *)
LEMMA WalksKept ==
  ASSUME root' = root, DOMAIN mem \subseteq DOMAIN mem',
         \A x \in DOMAIN mem : mem'[x] = mem[x], NEW n \in Nat
  PROVE  Walks(n) \subseteq Walks(n)' /\ Ends(n) \subseteq Ends(n)'
<1>1. ASSUME NEW e \in Links PROVE e \in Links' /\ Target(e)' = Target(e)
  <2>1. e \in Found \X Side /\ e[1] \in DOMAIN mem BY DEF Links, Found
  <2>2. mem'[e[1]] = mem[e[1]] BY <2>1
  <2>3. Found \subseteq Found' BY DEF Found
  <2> QED BY <2>1, <2>2, <2>3 DEF Links, Target
<1>2. ASSUME NEW p \in Walks(n) PROVE p \in Walks(n)'
  <2>1. p \in [0 .. n -> DOMAIN mem'] BY DEF Walks
  <2>2. p[0] = root' BY DEF Walks
  <2>3. \A k \in 1 .. n : \E e \in Links' : e[1] = p[k - 1] /\ Target(e)' = p[k]
    BY <1>1 DEF Walks
  <2> QED BY <2>1, <2>2, <2>3 DEF Walks
<1> QED BY <1>2 DEF Ends

(* A link of a node on a walk, which may just have been read, makes the    *)
(* walk longer by one.                                                     *)
LEMMA WalkExtends ==
  ASSUME root' = root, DOMAIN mem \subseteq DOMAIN mem',
         \A x \in DOMAIN mem : mem'[x] = mem[x],
         NEW n \in Nat, NEW a \in Ends(n), NEW e \in Links', e[1] = a,
         NEW t \in DOMAIN mem', t = Target(e)'
  PROVE  t \in Ends(n + 1)'
<1>1. PICK p \in Walks(n)' : p[n] = a BY WalksKept DEF Ends
<1> DEFINE q == [k \in 0 .. n + 1 |-> IF k = n + 1 THEN t ELSE p[k]]
<1>2. /\ p \in [0 .. n -> DOMAIN mem'] /\ p[0] = root'
      /\ \A k \in 1 .. n : \E f \in Links' : f[1] = p[k - 1] /\ Target(f)' = p[k]
  BY <1>1 DEF Walks
<1>3. q \in [0 .. n + 1 -> DOMAIN mem']
  <2>1. \A k \in 0 .. n + 1 : k # n + 1 => k \in 0 .. n OBVIOUS
  <2> QED BY <1>2, <2>1
<1>4. q[n + 1] = t /\ \A k \in 0 .. n : q[k] = p[k]
  <2>1. n + 1 \in 0 .. n + 1 /\ \A k \in 0 .. n : k \in 0 .. n + 1 /\ k # n + 1 OBVIOUS
  <2> QED BY <2>1
<1> HIDE DEF q
<1>5. q[0] = root' BY <1>2, <1>4, 0 \in 0 .. n
<1>6. ASSUME NEW k \in 1 .. n + 1
      PROVE  \E f \in Links' : f[1] = q[k - 1] /\ Target(f)' = q[k]
  <2>1. CASE k = n + 1
    <3>1. k - 1 = n /\ n \in 0 .. n BY <2>1
    <3> QED BY <1>1, <1>4, <2>1, <3>1
  <2>2. CASE k # n + 1
    <3>1. k \in 1 .. n /\ k - 1 \in 0 .. n /\ k \in 0 .. n BY <2>2
    <3> QED BY <1>2, <1>4, <3>1
  <2> QED BY <2>1, <2>2
<1>7. \E u \in Walks(n + 1)' : u[n + 1] = t
  <2>1. PICK u : u = q OBVIOUS
  <2>2. u \in Walks(n + 1)' BY <1>3, <1>5, <1>6, <2>1 DEF Walks
  <2> QED BY <1>4, <2>1, <2>2
<1> QED BY <1>7 DEF Ends

(* What looking at a child does to the memory and the queue. *)
LEMMA ChildPlaced ==
  ASSUME TypeOK, DumpInv, queue # << >>, NEW q, NEW side \in Side,
         NEW w \in Readable(is64) \cup {Unreadable}, AddChild(q, side, w)
  PROVE  /\ Head(queue)[side] = mem[Head(queue).addr][side]
         /\ DOMAIN mem \subseteq DOMAIN mem' /\ \A x \in DOMAIN mem : mem'[x] = mem[x]
         /\ \/ queue' = q
            \/ \E x \in Item : /\ queue' = Append(q, x) /\ x.level = Head(queue).level + 1
                               /\ x.addr = Head(queue)[side] /\ x.addr # 0
                               /\ x.addr \notin check /\ x.addr \in DOMAIN mem'
<1> DEFINE a == Head(queue)[side]
           x == TreeItem(Head(queue).level + 1, a, w)
<1>1. a = mem[Head(queue).addr][side]
  <2>1. Holds(mem, Head(queue)) BY QueueHead DEF DumpInv, Mirror
  <2> QED BY <2>1 DEF Holds, Side
<1>2. CASE a = 0 BY <1>1, <1>2 DEF AddChild
<1>3. CASE a # 0
  <2>1. AddTreeItem(check, mem, q, Head(queue).level + 1, a, w) BY <1>3 DEF AddChild
  <2>2. DOMAIN mem' = check \cup {a} /\ \A y \in DOMAIN mem : mem'[y] = mem[y]
    BY <2>1, AddTreeItemGraph DEF DumpInv
  <2>3. CASE Added(check, a, w)
    <3>1. w \in Readable(is64) /\ is64 \in BOOLEAN BY <2>3 DEF Added, TypeOK
    <3>2. w.left \in Nat /\ w.right \in Nat BY <3>1, NodeFields
    <3>3. Head(queue).level + 1 \in Nat /\ a \in Nat BY HeadIsItem DEF Side
    <3>4. x \in Item /\ x.addr = a /\ x.level = Head(queue).level + 1
      BY <3>2, <3>3 DEF TreeItem, Item
    <3>5. queue' = Append(q, x) BY <2>1, <2>3 DEF AddTreeItem
    <3>6. a \notin check BY <2>3 DEF Added
    <3> HIDE DEF x
    <3> QED BY <1>1, <1>3, <2>2, <3>4, <3>5, <3>6 DEF DumpInv
  <2>4. CASE ~Added(check, a, w)
    <3>1. queue' = q BY <2>1, <2>4 DEF AddTreeItem
    <3> QED BY <1>1, <2>2, <3>1 DEF DumpInv
  <2> QED BY <2>3, <2>4
<1> QED BY <1>2, <1>3

(* A child that was looked at was entered into the visited set.            *)
LEMMA LookedTarget ==
  ASSUME TypeOK, DumpInv, NEW x \in RowPairs(rows), NEW side \in Side, Looked(x[1], side)
  PROVE  mem[x[1]][side] = 0 \/ mem[x[1]][side] \in check
<1>1. x[1] \in Addrs(rows) BY DEF RowPairs, Addrs
<1> QED BY <1>1 DEF DumpInv, Followed, FollowedIn, Looked, Side

LEMMA PlacedLow ==
  ASSUME TypeOK, DumpInv, OrderInv, NEW x \in Placed
  PROVE  x[2] \in Nat /\ x[2] <= level + 1
<1>1. level \in Nat BY DEF TypeOK
<1>2. x[2] \in Nat BY PlacedTyped
<1>3. CASE x \in RowPairs(rows)
  <2>1. PICK i \in 1 .. Len(rows) : x = <<rows[i].addr, rows[i].depth>> BY <1>3 DEF RowPairs
  <2>2. x[2] <= level BY <2>1 DEF OrderInv, RowOrder
  <2> QED BY <1>1, <1>2, <2>2
<1>4. CASE x \in QueuePairs(queue)
  <2>1. PICK k \in 1 .. Len(queue) : x = <<queue[k].addr, queue[k].level>>
    BY <1>4 DEF QueuePairs
  <2> QED BY <1>2, <2>1 DEF OrderInv, QueueOrder
<1> QED BY <1>3, <1>4 DEF Placed

Sorted(q) == /\ \A k \in 1 .. Len(q) : level <= q[k].level /\ q[k].level <= level + 1
             /\ \A k, m \in 1 .. Len(q) : k < m => q[k].level <= q[m].level

LEMMA SortedAppend ==
  ASSUME NEW q \in Seq(Item), level \in Nat, Sorted(q), NEW x \in Item, x.level = level + 1
  PROVE  Sorted(Append(q, x))
<1> DEFINE t == Append(q, x)
<1>1. Len(q) \in Nat /\ Len(t) = Len(q) + 1 /\ t[Len(q) + 1] = x
      /\ \A i \in 1 .. Len(q) : t[i] = q[i]
  BY AppendProperties, LenProperties
<1> HIDE DEF t
<1>2. 1 .. Len(t) = 1 .. Len(q) \cup {Len(q) + 1} BY <1>1
<1>3. \A k \in 1 .. Len(t) : level <= t[k].level /\ t[k].level <= level + 1
  BY <1>1, <1>2 DEF Sorted
<1>4. ASSUME NEW k \in 1 .. Len(t), NEW m \in 1 .. Len(t), k < m
      PROVE  t[k].level <= t[m].level
  <2>1. CASE m \in 1 .. Len(q)
    <3>1. k \in 1 .. Len(q) BY <1>1, <1>4, <2>1
    <3> QED BY <1>1, <1>4, <2>1, <3>1 DEF Sorted
  <2>2. CASE m = Len(q) + 1
    <3>1. t[m].level = level + 1 BY <1>1, <2>2
    <3> QED BY <1>3, <3>1
  <2> QED BY <1>2, <2>1, <2>2
<1> QED BY <1>3, <1>4 DEF Sorted, t

LEMMA SortedTail ==
  ASSUME NEW q \in Seq(Item), q # << >>, Sorted(q)
  PROVE  Sorted(Tail(q))
<1> DEFINE t == Tail(q)
<1>1. Len(q) \in Nat /\ Len(q) > 0 BY LenProperties, EmptySeq
<1>2. Len(t) = Len(q) - 1 /\ \A i \in 1 .. Len(t) : t[i] = q[i + 1] BY HeadTailProperties
<1> HIDE DEF t
<1>3. \A i \in 1 .. Len(t) : i + 1 \in 1 .. Len(q) BY <1>1, <1>2
<1>4. \A k, m \in 1 .. Len(t) : k < m => k + 1 < m + 1 OBVIOUS
<1> QED BY <1>2, <1>3, <1>4 DEF Sorted, t

(* Looking at a child, with what is left of the queue in q.                *)
LEMMA ChildOrder ==
  ASSUME TypeOK, DumpInv, OrderInv, InTurn, queue # << >>,
         NEW q \in Seq(Item), QueuePairs(q) \subseteq Placed, Sorted(q), NEW side \in Side,
         NEW w \in Readable(is64) \cup {Unreadable}, AddChild(q, side, w),
         root' = root, rows' = rows, level' = level,
         \A a : \A s \in Side :
           Looked(a, s)' => Looked(a, s) \/ (a = Head(queue).addr /\ s = side)
  PROVE  /\ Reached' /\ RootFirst' /\ Near'
         /\ queue' = q \/ \E x \in Item : queue' = Append(q, x) /\ x.level = level + 1
<1> DEFINE c == mem[Head(queue).addr][side]
<1>1. /\ Head(queue)[side] = c
      /\ DOMAIN mem \subseteq DOMAIN mem' /\ \A x \in DOMAIN mem : mem'[x] = mem[x]
      /\ \/ queue' = q
         \/ \E x \in Item : /\ queue' = Append(q, x) /\ x.level = Head(queue).level + 1
                            /\ x.addr = c /\ x.addr # 0
                            /\ x.addr \notin check /\ x.addr \in DOMAIN mem'
  BY ChildPlaced
<1>2. /\ <<Head(queue).addr, level>> \in RowPairs(rows) /\ Head(queue).level = level
      /\ level \in Nat
  BY DEF OrderInv, QueueOrder, TypeOK
<1>3. <<Head(queue).addr, level>> \in Placed BY <1>2 DEF Placed
<1>4. Head(queue).addr \in Found /\ Found \subseteq DOMAIN mem
      /\ \A y \in Placed : y[1] \in Found /\ y[2] \in Nat
      /\ Found \subseteq check
  BY <1>3, PlacedTyped DEF Found
<1> HIDE DEF c
<1>5. ASSUME NEW y \in Placed'
      PROVE  \/ y \in Placed
             \/ /\ y[1] = c /\ y[2] = level + 1 /\ c # 0 /\ c \notin check /\ c \in DOMAIN mem'
  <2>1. y \in RowPairs(rows) \cup QueuePairs(queue') BY DEF Placed, RowPairs, QueuePairs
  <2>2. CASE y \in RowPairs(rows) BY <2>2 DEF Placed
  <2>3. CASE y \in QueuePairs(queue')
    <3>1. CASE queue' = q BY <2>3, <3>1
    <3>2. CASE \E x \in Item : /\ queue' = Append(q, x) /\ x.level = Head(queue).level + 1
                            /\ x.addr = c /\ x.addr # 0
                            /\ x.addr \notin check /\ x.addr \in DOMAIN mem'
      <4>1. PICK x \in Item : /\ queue' = Append(q, x) /\ x.level = Head(queue).level + 1
                            /\ x.addr = c /\ x.addr # 0
                            /\ x.addr \notin check /\ x.addr \in DOMAIN mem' BY <3>2
      <4>2. QueuePairs(Append(q, x)) = QueuePairs(q) \cup {<<x.addr, x.level>>}
        BY PairsOfQueue
      <4>3. y \in QueuePairs(q) \/ y = <<x.addr, x.level>> BY <2>3, <4>1, <4>2
      <4> QED BY <1>2, <4>1, <4>3
    <3> QED BY <1>1, <3>1, <3>2
  <2> QED BY <2>1, <2>2, <2>3
<1>6. Reached'
  <2>1. ASSUME NEW y \in Placed' PROVE y[1] \in Ends(y[2])'
    <3>1. CASE y \in Placed
      <4>1. y[1] \in Ends(y[2]) /\ y[2] \in Nat BY <1>4, <3>1 DEF OrderInv, Reached
      <4>2. PICK n \in Nat : n = y[2] BY <4>1
      <4>3. Ends(n) \subseteq Ends(n)' BY <1>1, WalksKept
      <4> QED BY <4>1, <4>2, <4>3
    <3>2. CASE /\ y[1] = c /\ y[2] = level + 1 /\ c # 0 /\ c \notin check /\ c \in DOMAIN mem'
      <4>1. PICK n \in Nat : n = level BY <1>2
      <4>2. PICK a : a = Head(queue).addr OBVIOUS
      <4>3. a \in Ends(n)
        <5>1. <<a, n>> \in Placed BY <1>3, <4>1, <4>2
        <5>2. <<a, n>>[1] \in Ends(<<a, n>>[2]) BY <5>1 DEF OrderInv, Reached
        <5> QED BY <5>2
      <4>4. PICK e : e = <<a, side>> OBVIOUS
      <4>5. mem'[a] = mem[a] /\ mem'[a][side] = c /\ a \in Found
        BY <1>1, <1>4, <4>2 DEF c
      <4>6. e \in Links' /\ e[1] = a
        <5>1. a \in Found' BY <1>1, <4>5 DEF Found
        <5> QED BY <3>2, <4>4, <4>5, <5>1 DEF Links
      <4>7. y[1] = Target(e)' /\ y[1] \in DOMAIN mem' BY <3>2, <4>4, <4>5 DEF Target
      <4>8. PICK t \in DOMAIN mem' : t = y[1] BY <4>7
      <4>9. t \in Ends(n + 1)' BY <1>1, <4>3, <4>6, <4>7, <4>8, WalkExtends
      <4>10. y[2] = n + 1 BY <3>2, <4>1
      <4> QED BY <4>8, <4>9, <4>10
    <3> QED BY <1>5, <3>1, <3>2
  <2> QED BY <2>1 DEF Reached
<1>7. RootFirst'
  <2>1. root \in check BY DEF DumpInv, InTurn
  <2>2. ASSUME NEW y \in Placed', y[1] = root PROVE y[2] = 0
    <3>1. y \in Placed BY <1>5, <2>1, <2>2
    <3> QED BY <2>2, <3>1 DEF OrderInv, RootFirst
  <2> QED BY <2>2 DEF RootFirst
<1>8. Near'
  <2>1. ASSUME NEW x \in RowPairs(rows), NEW s \in Side, Looked(x[1], s)',
               NEW y \in Placed', y[1] = mem'[x[1]][s]
        PROVE  y[2] <= x[2] + 1
    <3>1. x \in Placed BY DEF Placed
    <3>2. mem'[x[1]] = mem[x[1]] BY <1>1, <1>4, <3>1
    <3>3. CASE Looked(x[1], s)
      <4>1. mem[x[1]][s] = 0 \/ mem[x[1]][s] \in check BY <3>3, LookedTarget
      <4>2. y \in Placed BY <1>5, <2>1, <3>2, <4>1
      <4> QED BY <2>1, <3>2, <3>3, <4>2 DEF OrderInv, Near
    <3>4. CASE x[1] = Head(queue).addr
      <4>1. x[2] = level
        <5>1. x[1] = <<Head(queue).addr, level>>[1] BY <3>4
        <5>2. x[2] = <<Head(queue).addr, level>>[2] BY <1>2, <5>1, OneDepth
        <5> QED BY <5>2
      <4>2. y[2] <= level + 1
        <5>1. CASE y \in Placed BY <5>1, PlacedLow
        <5>2. CASE y[2] = level + 1 BY <1>2, <5>2
        <5> QED BY <1>5, <5>1, <5>2
      <4> QED BY <4>1, <4>2
    <3> QED BY <2>1, <3>3, <3>4
  <2>2. ASSUME NEW x \in RowPairs(rows)' PROVE x \in RowPairs(rows) BY DEF RowPairs
  <2> QED BY <2>1, <2>2 DEF Near
<1>9. queue' = q \/ \E x \in Item : queue' = Append(q, x) /\ x.level = level + 1
  BY <1>1, <1>2
<1> QED BY <1>6, <1>7, <1>8, <1>9

LEMMA VisitOrder ==
  ASSUME TypeOK, DumpInv, OrderInv, NEW w \in Readable(is64) \cup {Unreadable},
         AddLeft(w) \/ AddRight(w)
  PROVE  OrderInv'
<1>1. /\ queue # << >> /\ InTurn /\ Head(queue).level = level /\ level \in Nat /\ count \in Nat
      /\ <<Head(queue).addr, level>> \in RowPairs(rows) /\ queue \in Seq(Item)
      /\ Tail(queue) \in Seq(Item)
  <2>1. InTurn /\ queue # << >> BY DEF AddLeft, AddRight, InTurn, TypeOK
  <2>2. Tail(queue) \in Seq(Item) BY <2>1, HeadIsItem
  <2> QED BY <2>1, <2>2 DEF OrderInv, QueueOrder, TypeOK
<1>2. Sorted(queue) BY DEF OrderInv, QueueOrder, Sorted
<1>3. CASE AddLeft(w)
  <2>1. AddChild(queue, "left", w) /\ UNCHANGED <<root, rows, level, count>>
        /\ pc = "left" /\ pc' = "right"
    BY <1>3 DEF AddLeft
  <2>2. QueuePairs(queue) \subseteq Placed BY DEF Placed
  <2>3. Head(queue)' = Head(queue) /\ queue' # << >>
    <3>1. ASSUME NEW x \in Item
          PROVE  Head(Append(queue, x)) = Head(queue) /\ Append(queue, x) # << >>
      <4>1. Len(queue) \in Nat /\ Len(queue) > 0 BY <1>1, LenProperties, EmptySeq
      <4> QED BY <1>1, <4>1, AppendProperties
    <3>2. queue' = queue \/ \E x \in Item : queue' = Append(queue, x)
      BY <1>1, <2>1, ChildPlaced DEF Side
    <3> QED BY <1>1, <3>1, <3>2
  <2>4. \A a : \A s \in Side :
          Looked(a, s)' => Looked(a, s) \/ (a = Head(queue).addr /\ s = "left")
    BY <2>1, <2>3 DEF Looked, InTurn
  <2>5. /\ Reached' /\ RootFirst' /\ Near'
        /\ queue' = queue \/ \E x \in Item : queue' = Append(queue, x) /\ x.level = level + 1
    <3>1. "left" \in Side BY DEF Side
    <3> QED BY <1>1, <1>2, <2>1, <2>2, <2>4, <3>1, ChildOrder
  <2>6. Sorted(queue') BY <1>1, <1>2, <2>5, SortedAppend
  <2>7. QueueOrder'
    <3>1. <<Head(queue).addr, Head(queue).level>>' \in RowPairs(rows)'
      BY <1>1, <2>1, <2>3 DEF RowPairs
    <3> QED BY <1>1, <2>1, <2>3, <2>6, <3>1 DEF QueueOrder, Sorted
  <2>8. RowOrder'
    <3>1. InTurn /\ InTurn' BY <2>1 DEF InTurn
    <3> QED BY <2>1, <3>1 DEF OrderInv, RowOrder, Numbered
  <2> QED BY <2>5, <2>7, <2>8 DEF OrderInv
<1>4. CASE AddRight(w)
  <2>1. AddChild(Tail(queue), "right", w) /\ UNCHANGED <<root, rows, level>>
        /\ pc = "right" /\ pc' = "loop" /\ count' = count + 1
    BY <1>4 DEF AddRight
  <2>2. QueuePairs(Tail(queue)) \subseteq Placed BY <1>1, PairsOfQueue DEF Placed
  <2>3. Sorted(Tail(queue)) BY <1>1, <1>2, SortedTail
  <2>4. \A a : \A s \in Side :
          Looked(a, s)' => Looked(a, s) \/ (a = Head(queue).addr /\ s = "right")
    BY <2>1 DEF Looked, InTurn, Side
  <2>5. /\ Reached' /\ RootFirst' /\ Near'
        /\ \/ queue' = Tail(queue)
           \/ \E x \in Item : queue' = Append(Tail(queue), x) /\ x.level = level + 1
    <3>1. "right" \in Side BY DEF Side
    <3> QED BY <1>1, <2>1, <2>2, <2>3, <2>4, <3>1, ChildOrder
  <2>6. Sorted(queue') BY <1>1, <2>3, <2>5, SortedAppend
  <2>7. QueueOrder'
    <3>1. ~InTurn' BY <2>1 DEF InTurn
    <3> QED BY <2>1, <2>6, <3>1 DEF QueueOrder, Sorted
  <2>8. RowOrder'
    <3>1. InTurn /\ ~InTurn' BY <2>1 DEF InTurn
    <3> QED BY <2>1, <3>1 DEF OrderInv, RowOrder, Numbered
  <2> QED BY <2>5, <2>7, <2>8 DEF OrderInv
<1> QED BY <1>3, <1>4

LEMMA PrintOrder ==
  ASSUME TypeOK, DumpInv, OrderInv, PrintItem
  PROVE  OrderInv'
<1> DEFINE row == [level |-> level, count |-> count,
                   addr |-> Head(queue).addr, depth |-> Head(queue).level]
<1>1. /\ queue # << >> /\ rows' = Append(rows, row) /\ level' = Head(queue).level
      /\ count' = (IF Head(queue).level # level THEN 0 ELSE count)
      /\ UNCHANGED <<root, queue, check, messages, mem>> /\ pc = "loop" /\ pc' = "left"
  BY DEF PrintItem
<1>2. /\ 1 \in 1 .. Len(queue) /\ Head(queue) = queue[1] /\ queue \in Seq(Item)
      /\ rows \in Seq(Row) /\ level \in Nat /\ count \in Nat /\ Head(queue).level \in Nat
      /\ Head(queue).addr \in Nat
  BY <1>1, QueueHead, HeadIsItem DEF TypeOK
<1>3. row \in Row /\ row.level = level /\ row.count = count /\ row.addr = Head(queue).addr
      /\ row.depth = Head(queue).level
  BY <1>2 DEF Row
<1> HIDE DEF row
<1>4. ~InTurn /\ InTurn' BY <1>1 DEF InTurn
<1>5. RowPairs(rows') = RowPairs(rows) \cup {<<row.addr, row.depth>>}
  BY <1>1, <1>2, <1>3, PairsOfRows
<1>6. <<row.addr, row.depth>> \in QueuePairs(queue) BY <1>2, <1>3 DEF QueuePairs
<1>7. Placed' = Placed
  <2>1. Placed' = RowPairs(rows') \cup QueuePairs(queue) BY <1>1 DEF Placed, RowPairs, QueuePairs
  <2> QED BY <1>5, <1>6, <2>1 DEF Placed
<1>8. level <= Head(queue).level /\ Head(queue).level <= level + 1
  BY <1>2 DEF OrderInv, QueueOrder
<1>9. Reached'
  <2>1. \A n : Ends(n)' = Ends(n) BY <1>1 DEF Ends, Walks, Links, Found, Target
  <2> QED BY <1>7, <2>1 DEF OrderInv, Reached
<1>10. RootFirst' BY <1>1, <1>7 DEF OrderInv, RootFirst
<1>11. Near'
  <2>1. ASSUME NEW x \in RowPairs(rows'), NEW s \in Side, Looked(x[1], s)'
        PROVE  x \in RowPairs(rows) /\ Looked(x[1], s)
    <3>1. x[1] # Head(queue).addr BY <1>1, <1>4, <2>1 DEF Looked
    <3>2. x # <<row.addr, row.depth>> BY <1>3, <3>1
    <3> QED BY <1>4, <1>5, <3>2 DEF Looked
  <2>2. ASSUME NEW x \in RowPairs(rows)' PROVE x \in RowPairs(rows') BY DEF RowPairs
  <2> QED BY <1>1, <1>7, <2>1, <2>2 DEF OrderInv, Near
<1>12. QueueOrder'
  <2>1. <<Head(queue).addr, Head(queue).level>>' \in RowPairs(rows)'
    <3>1. <<Head(queue).addr, Head(queue).level>> \in RowPairs(rows') BY <1>3, <1>5
    <3> QED BY <1>1, <3>1 DEF RowPairs
  <2>2. \A k, m \in 1 .. Len(queue) : k < m => queue[k].level <= queue[m].level
    BY DEF OrderInv, QueueOrder
  <2>3. \A k \in 1 .. Len(queue) : queue[k].level \in Nat /\ queue[k].level <= level + 1
    <3>1. \A k \in 1 .. Len(queue) : queue[k] \in Item BY <1>2
    <3> QED BY <3>1 DEF OrderInv, QueueOrder, Item
  <2>4. ASSUME NEW k \in 1 .. Len(queue)
        PROVE  Head(queue).level <= queue[k].level /\ queue[k].level <= Head(queue).level + 1
    <3>1. k = 1 \/ 1 < k OBVIOUS
    <3>2. queue[1].level <= queue[k].level BY <1>2, <2>2, <2>3, <3>1
    <3> QED BY <1>2, <1>8, <2>3, <3>2
  <2> QED BY <1>1, <2>1, <2>2, <2>4 DEF QueueOrder
<1>13. RowOrder'
  <2>1. Len(rows) \in Nat /\ Len(rows') = Len(rows) + 1 /\ rows'[Len(rows) + 1] = row
        /\ \A i \in 1 .. Len(rows) : rows'[i] = rows[i]
    BY <1>1, <1>2, <1>3, AppendProperties, LenProperties
  <2>2. 1 .. Len(rows') = 1 .. Len(rows) \cup {Len(rows) + 1} BY <2>1
  <2>3. \A i \in 1 .. Len(rows) :
          /\ rows[i].depth \in Nat /\ rows[i].level \in Nat /\ rows[i].count \in Nat
          /\ rows[i].depth <= level
          /\ rows[i].level < level \/ (rows[i].level = level /\ rows[i].count < count)
    <3>1. \A i \in 1 .. Len(rows) : rows[i] \in Row BY <1>2
    <3>2. \A i \in 1 .. Len(rows) : rows[i].depth <= level /\ Numbered(rows[i], count)
      BY <1>4 DEF OrderInv, RowOrder
    <3>3. ASSUME NEW i \in 1 .. Len(rows)
          PROVE  /\ rows[i].depth \in Nat /\ rows[i].level \in Nat /\ rows[i].count \in Nat
                 /\ rows[i].depth <= level
                 /\ rows[i].level < level \/ (rows[i].level = level /\ rows[i].count < count)
      <4>1. rows[i] \in Row /\ Numbered(rows[i], count) BY <3>1, <3>2
      <4>2. rows[i].depth \in Nat /\ rows[i].level \in Nat /\ rows[i].count \in Nat
        BY <4>1 DEF Row
      <4> QED BY <3>2, <4>1, <4>2 DEF Numbered
    <3> QED BY <3>3
  <2>4. ASSUME NEW i \in 1 .. Len(rows')
        PROVE  /\ rows'[i].depth <= level'
               /\ \/ rows'[i].level < level'
                  \/ rows'[i].level = level' /\ rows'[i].count < count' + 1
    <3>1. CASE i \in 1 .. Len(rows)
      <4>1. rows'[i] = rows[i] /\ rows[i].depth <= level /\ rows[i].depth \in Nat
            /\ rows[i].level \in Nat /\ rows[i].count \in Nat
            /\ (rows[i].level < level \/ (rows[i].level = level /\ rows[i].count < count))
        BY <2>1, <2>3, <3>1
      <4> QED BY <1>1, <1>2, <1>8, <4>1, SMTT(30)
    <3>2. CASE i = Len(rows) + 1
      <4>1. rows'[i] = row BY <2>1, <3>2
      <4>2. row.level < level' \/ (row.level = level' /\ row.count < count' + 1)
        BY <1>1, <1>2, <1>3, <1>8
      <4>3. row.depth <= level' BY <1>1, <1>2, <1>3
      <4> QED BY <4>1, <4>2, <4>3
    <3> QED BY <2>2, <3>1, <3>2
  <2>5. ASSUME NEW i \in 1 .. Len(rows'), NEW j \in 1 .. Len(rows'), i < j
        PROVE  /\ rows'[i].depth <= rows'[j].depth
               /\ \/ rows'[i].level < rows'[j].level
                  \/ rows'[i].level = rows'[j].level /\ rows'[i].count < rows'[j].count
    <3>1. i \in 1 .. Len(rows) BY <2>1, <2>5
    <3>2. CASE j \in 1 .. Len(rows)
      BY <2>1, <2>5, <3>1, <3>2 DEF OrderInv, RowOrder
    <3>3. CASE j = Len(rows) + 1
      <4>1. rows'[i] = rows[i] /\ rows[i].depth <= level /\ rows[i].depth \in Nat
            /\ (rows[i].level < level \/ (rows[i].level = level /\ rows[i].count < count))
        BY <2>1, <2>3, <3>1
      <4>2. rows'[j] = row BY <2>1, <3>3
      <4> QED BY <1>2, <1>3, <1>8, <4>1, <4>2, SMTT(30)
    <3> QED BY <2>2, <3>2, <3>3
  <2> QED BY <1>4, <2>4, <2>5 DEF RowOrder, Numbered
<1> QED BY <1>9, <1>10, <1>11, <1>12, <1>13 DEF OrderInv

LEMMA InvokeOrder ==
  ASSUME NEW r \in Roots, NEW wide \in BOOLEAN, NEW w \in Readable(wide) \cup {Unreadable},
         Invoke(r, wide, w)
  PROVE  OrderInv'
<1> DEFINE none == [a \in {} |-> Unreadable]
<1>1. /\ AddTreeItem({}, none, << >>, 0, root', w) /\ pc' = "loop"
      /\ level' = 0 /\ count' = 0 /\ rows' = << >> /\ ~InTurn'
  BY DEF Invoke, InTurn
<1>2. root' \in DOMAIN mem'
  <2>1. mem' = [x \in DOMAIN none \cup {root'} |-> IF x = root' THEN w ELSE none[x]]
    BY <1>1 DEF AddTreeItem
  <2> HIDE DEF none
  <2> QED BY <2>1
<1>3. queue' = << >> \/ \E x \in Item : queue' = Append(<< >>, x) /\ x.level = 0 /\ x.addr = root'
  <2>1. CASE Added({}, root', w)
    <3>1. w \in Readable(wide) BY <2>1 DEF Added
    <3>2. w.left \in Nat /\ w.right \in Nat BY <3>1, NodeFields
    <3>3. root' \in Nat
      <4>1. r \in Nat /\ Space \in Nat \ {0} BY RootsAssumption, SpaceAssumption
      <4>2. r % Space \in Nat BY <4>1
      <4> QED BY <4>1, <4>2 DEF Invoke
    <3>4. PICK x : x = TreeItem(0, root', w) OBVIOUS
    <3>5. x \in Item /\ x.level = 0 /\ x.addr = root' BY <3>2, <3>3, <3>4 DEF TreeItem, Item
    <3> QED BY <1>1, <2>1, <3>4, <3>5 DEF AddTreeItem
  <2>2. CASE ~Added({}, root', w) BY <1>1, <2>2 DEF AddTreeItem
  <2> QED BY <2>1, <2>2
<1>4. RowPairs(rows') = {} BY <1>1 DEF RowPairs
<1>5. ASSUME NEW y \in Placed' PROVE y[1] = root' /\ y[2] = 0
  <2>1. y \in QueuePairs(queue')
    <3>1. Placed' = RowPairs(rows') \cup QueuePairs(queue') BY DEF Placed, RowPairs, QueuePairs
    <3> QED BY <1>4, <3>1
  <2>2. QueuePairs(<< >>) = {} BY DEF QueuePairs
  <2>3. PICK x \in Item : queue' = Append(<< >>, x) /\ x.level = 0 /\ x.addr = root'
    BY <1>3, <2>1, <2>2
  <2>4. QueuePairs(queue') = {<<x.addr, x.level>>}
    <3>1. QueuePairs(Append(<< >>, x)) = QueuePairs(<< >>) \cup {<<x.addr, x.level>>}
      BY PairsOfQueue, << >> \in Seq(Item)
    <3> QED BY <2>2, <2>3, <3>1
  <2> QED BY <2>1, <2>3, <2>4
<1>6. Reached'
  <2>1. PICK p : p = [k \in 0 .. 0 |-> root'] OBVIOUS
  <2>2. p[0] = root' /\ p \in [0 .. 0 -> DOMAIN mem'] BY <1>2, <2>1
  <2>3. p \in Walks(0)' BY <2>2 DEF Walks
  <2>4. root' \in Ends(0)' BY <2>2, <2>3 DEF Ends
  <2> QED BY <1>5, <2>4 DEF Reached
<1>7. RootFirst' BY <1>5 DEF RootFirst
<1>8. Near'
  <2>1. RowPairs(rows)' = {} BY <1>4 DEF RowPairs
  <2> QED BY <2>1 DEF Near
<1>9. QueueOrder'
  <2>1. \A k \in 1 .. Len(queue') : queue'[k].level = 0
    <3>1. CASE queue' = << >> BY <3>1
    <3>2. ASSUME NEW x \in Item, queue' = Append(<< >>, x), x.level = 0
          PROVE  \A k \in 1 .. Len(queue') : queue'[k].level = 0
      <4>1. Append(<< >>, x) = <<x>> OBVIOUS
      <4> QED BY <3>2, <4>1
    <3> QED BY <1>3, <3>1, <3>2
  <2> QED BY <1>1, <2>1 DEF QueueOrder
<1>10. RowOrder' BY <1>1 DEF RowOrder
<1> QED BY <1>6, <1>7, <1>8, <1>9, <1>10 DEF OrderInv

LEMMA ControlOrder ==
  ASSUME TypeOK, DumpInv, OrderInv, Finish \/ Abort \/ UNCHANGED vars
  PROVE  OrderInv'
<1>1. UNCHANGED <<root, queue, level, count, rows, mem>>
      /\ (InTurn' <=> InTurn) /\ (pc' = "right" => pc = "right")
  BY DEF Finish, Abort, vars, InTurn
<1>2. Placed' = Placed /\ RowPairs(rows)' = RowPairs(rows)
  BY <1>1 DEF Placed, RowPairs, QueuePairs
<1>3. Reached'
  <2>1. \A n : Ends(n)' = Ends(n) BY <1>1 DEF Ends, Walks, Links, Found, Target
  <2> QED BY <1>2, <2>1 DEF OrderInv, Reached
<1>4. RootFirst' BY <1>1, <1>2 DEF OrderInv, RootFirst
<1>5. Near'
  <2>1. \A a, s : Looked(a, s)' => Looked(a, s) BY <1>1 DEF Looked
  <2> QED BY <1>1, <1>2, <2>1 DEF OrderInv, Near
<1>6. QueueOrder' BY <1>1, <1>2 DEF OrderInv, QueueOrder
<1>7. RowOrder' BY <1>1 DEF OrderInv, RowOrder, Numbered
<1> QED BY <1>3, <1>4, <1>5, <1>6, <1>7 DEF OrderInv

LEMMA OrderInit == Init => OrderInv
<1> SUFFICES ASSUME Init PROVE OrderInv OBVIOUS
<1>1. rows = << >> /\ queue = << >> /\ ~InTurn BY DEF Init, InTurn
<1>2. RowPairs(rows) = {} /\ Placed = {} BY <1>1 DEF RowPairs, QueuePairs, Placed
<1> QED BY <1>1, <1>2 DEF OrderInv, Reached, RootFirst, Near, QueueOrder, RowOrder

LEMMA OrderStep ==
  ASSUME TypeOK, DumpInv, OrderInv, [Next]_vars
  PROVE  OrderInv'
BY VisitOrder, PrintOrder, InvokeOrder, ControlOrder DEF Next, Command, Step, Visit

LEMMA SmallestNumber ==
  ASSUME NEW T, T \subseteq Nat, T # {}
  PROVE  \E x \in T : \A y \in T : x <= y
<1>1. PICK x \in T : \A y \in T : ~(<<y, x>> \in OpToRel(<, Nat))
  BY NatLessThanWellFounded, WFMin
<1>2. \A y \in T : ~(y < x) BY <1>1 DEF OpToRel
<1> QED BY <1>2

(* In a finished dump no walk is shorter than the depth of a row.  A walk  *)
(* that is would have a first node placed deeper than it comes.            *)
LEMMA NoShorterWalk ==
  ASSUME TypeOK, DumpInv, OrderInv, pc = "done", NEW n \in Nat, NEW p \in Walks(n),
         NEW x \in RowPairs(rows), x[1] = p[n]
  PROVE  x[2] <= n
<1> DEFINE Deeper(k) == \E y \in RowPairs(rows) : y[1] = p[k] /\ k < y[2]
           T == {k \in 0 .. n : Deeper(k)}
<1>1. queue = << >> /\ ~InTurn BY DEF DumpInv, InTurn
<1>2. RowPairs(rows) \subseteq Placed /\ \A y \in RowPairs(rows) : y[2] \in Nat
  BY PlacedTyped DEF Placed
<1>3. \A a \in Found : \E y \in RowPairs(rows) : y[1] = a
  <2>1. Addrs(rows) = Found
    <3>1. todo = << >> BY <1>1 DEF todo
    <3> QED BY <3>1 DEF DumpInv, Once, Addrs
  <2>2. ASSUME NEW i \in 1 .. Len(rows)
        PROVE  \E y \in RowPairs(rows) : y[1] = rows[i].addr
    <3>1. <<rows[i].addr, rows[i].depth>> \in RowPairs(rows) BY DEF RowPairs
    <3> QED BY <3>1
  <2> QED BY <2>1, <2>2 DEF Addrs
<1> SUFFICES ASSUME n < x[2] PROVE FALSE BY <1>2
<1>4. n \in T BY 0 <= n
<1>5. PICK k \in T : \A m \in T : k <= m
  <2>1. T \subseteq Nat OBVIOUS
  <2> HIDE DEF T
  <2> QED BY <1>4, <2>1, SmallestNumber
<1>6. PICK y \in RowPairs(rows) : y[1] = p[k] /\ k < y[2] OBVIOUS
<1>7. k \in 0 .. n /\ p[0] = root
      /\ \A m \in 1 .. n : \E e \in Links : e[1] = p[m - 1] /\ Target(e) = p[m]
  BY DEF Walks
<1>8. CASE k = 0
  <2>1. y[2] = 0 BY <1>2, <1>6, <1>7, <1>8 DEF OrderInv, RootFirst
  <2> QED BY <1>6, <1>8, <2>1
<1>9. CASE k # 0
  <2>1. k \in 1 .. n /\ k - 1 \in 0 .. n BY <1>7, <1>9
  <2>2. PICK e \in Links : e[1] = p[k - 1] /\ Target(e) = p[k] BY <1>7, <2>1
  <2>3. e[1] \in Found /\ e[2] \in Side BY DEF Links
  <2>4. PICK z \in RowPairs(rows) : z[1] = e[1] BY <1>3, <2>3
  <2>5. k - 1 \notin T
    <3> HIDE DEF T
    <3> QED BY <1>5, <1>7
  <2>6. z[2] <= k - 1
    <3>1. z[2] \in Nat /\ k \in Nat BY <1>2, <1>7
    <3>2. ~(k - 1 < z[2]) BY <2>1, <2>2, <2>4, <2>5
    <3> QED BY <3>1, <3>2
  <2>7. Looked(z[1], e[2]) BY <1>1 DEF Looked
  <2>8. y[1] = mem[z[1]][e[2]] /\ y \in Placed BY <1>2, <1>6, <2>2, <2>4 DEF Target
  <2>9. y[2] <= z[2] + 1 BY <2>3, <2>7, <2>8 DEF OrderInv, Near
  <2>10. y[2] \in Nat /\ z[2] \in Nat /\ k \in Nat BY <1>2, <1>7
  <2> HIDE DEF T
  <2> QED BY <1>6, <2>6, <2>9, <2>10
<1> QED BY <1>8, <1>9

LEMMA OrderIsBreadthFirst == TypeOK /\ DumpInv /\ OrderInv => BreadthFirst
<1> SUFFICES ASSUME TypeOK, DumpInv, OrderInv PROVE BreadthFirst OBVIOUS
<1>1. ASSUME pc = "done", NEW i \in 1 .. Len(rows)
      PROVE  /\ rows[i].addr \in Ends(rows[i].depth)
             /\ \A n \in 0 .. rows[i].depth - 1 : rows[i].addr \notin Ends(n)
  <2> DEFINE x == <<rows[i].addr, rows[i].depth>>
  <2>1. x \in RowPairs(rows) /\ x \in Placed BY DEF RowPairs, Placed
  <2>2. rows[i].depth \in Nat /\ x[1] = rows[i].addr /\ x[2] = rows[i].depth
    BY <2>1, PlacedTyped
  <2> HIDE DEF x
  <2>3. rows[i].addr \in Ends(rows[i].depth) BY <2>1, <2>2 DEF OrderInv, Reached
  <2>4. ASSUME NEW n \in 0 .. rows[i].depth - 1, rows[i].addr \in Ends(n) PROVE FALSE
    <3>1. n \in Nat /\ n < rows[i].depth BY <2>2
    <3>2. PICK p \in Walks(n) : p[n] = rows[i].addr BY <2>4 DEF Ends
    <3>3. x[2] <= n BY <1>1, <2>1, <2>2, <3>1, <3>2, NoShorterWalk
    <3> QED BY <2>2, <3>1, <3>3
  <2> QED BY <2>3, <2>4
<1> QED BY <1>1 DEF BreadthFirst, OrderInv, RowOrder

(* The rows come breadth first: each at its distance from the root, in     *)
(* non-decreasing order, for every graph of links, cycles, shared nodes    *)
(* and unreadable nodes included, and the pair L=level#count grows with    *)
(* the rows, whatever commands were aborted before (the loop of !dt, the   *)
(* Level of an item and ItemCount).                                        *)
THEOREM RowsAreBreadthFirst == Spec => []BreadthFirst
<1> DEFINE I == TypeOK /\ DumpInv /\ OrderInv
<1>1. Init => I BY SplayInitTyped, DumpInvInit, OrderInit
<1>2. I /\ [Next]_vars => I' BY SplayStepTyped, DumpInvStep, OrderStep
<1>3. I => BreadthFirst BY OrderIsBreadthFirst
<1> QED BY <1>1, <1>2, <1>3, PTL DEF Spec
=============================================================================
