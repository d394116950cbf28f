----------------------------- MODULE SplayDump -----------------------------
(***************************************************************************)
(* The !dt command of dt.cpp: a breadth-first dump of a tree of            *)
(* RTL_SPLAY_LINKS in the target's memory.  The queue and the set of       *)
(* visited addresses are globals that outlive a command.                   *)
(*                                                                         *)
(* The links are whatever the target holds: any graph, with nodes that     *)
(* cannot be read.  A command reads an address at most once, so what a     *)
(* read returns is chosen when it is made and remembered in mem.           *)
(***************************************************************************)
EXTENDS Integers, Sequences

CONSTANTS
  Roots,       \* values GetExpression returns for the argument
  Nodes,       \* the pairs of children a node can hold, 0 for none
  Space,       \* 2^32, the size of a 32-bit address space
  Unreadable   \* what ReadMemory returns when it fails

ASSUME RootsAssumption      == Roots \subseteq Nat
ASSUME NodesAssumption      == Nodes \subseteq [left: Nat, right: Nat]
ASSUME SpaceAssumption      == Space \in Nat \ {0}
ASSUME UnreadableAssumption == Unreadable \notin Nodes

VARIABLES
  pc,         \* "idle", "loop", "left", "right", "done" or "aborted"
  root,       \* RootAddress
  queue,      \* TraverseQueue
  check,      \* CorruptionCheck
  level,      \* CurrentLevel
  count,      \* ItemCount
  rows,       \* the items printed, with the level and number they are given
  messages,   \* the links reported by "Item %s was duplicated!"
  is64,       \* IsPtr64()
  mem         \* what this command has read: address -> node

vars == <<pc, root, queue, check, level, count, rows, messages, is64, mem>>

Item == [level: Nat, addr: Nat, left: Nat, right: Nat]
Row  == [level: Nat, count: Nat, addr: Nat, depth: Nat]
Side == {"left", "right"}

(* TREE_ITEM32 holds ULONGs. *)
Readable(wide) == IF wide THEN Nodes ELSE {w \in Nodes : w.left < Space /\ w.right < Space}

Init ==
  /\ pc = "idle" /\ root = 0 /\ queue = << >> /\ check = {} /\ level = 0 /\ count = 0
  /\ rows = << >> /\ messages = {} /\ is64 = FALSE /\ mem = [a \in {} |-> Unreadable]

-----------------------------------------------------------------------------
(* AddTreeItem(lvl, a) with visited set seen, memory read so far mm and    *)
(* queue q, when ReadMemory(a) returns w.                                  *)
(* Mutant: only the read decides. *)
Mutant_Added(seen, a, w) == w # Unreadable

Added(seen, a, w) == a \notin seen /\ w # Unreadable

TreeItem(lvl, a, w) == [level |-> lvl, addr |-> a, left |-> w.left, right |-> w.right]

(* Mutant: the address is not entered into the visited set. *)
Mutant_AddTreeItem(seen, mm, q, lvl, a, w) ==
  /\ check' = seen
  /\ mem' = [x \in DOMAIN mm \cup {a} |-> IF x = a THEN w ELSE mm[x]]
  /\ queue' = IF Added(seen, a, w) THEN Append(q, TreeItem(lvl, a, w)) ELSE q

AddTreeItem(seen, mm, q, lvl, a, w) ==
  /\ check' = seen \cup {a}
  /\ mem' = IF a \in seen THEN mm
            ELSE [x \in DOMAIN mm \cup {a} |-> IF x = a THEN w ELSE mm[x]]
  /\ queue' = IF Added(seen, a, w) THEN Append(q, TreeItem(lvl, a, w)) ELSE q

(* Mutant: the visited set of the command before is not cleared. *)
Mutant_Invoke(r, wide, w) ==
  /\ pc \in {"idle", "done", "aborted"} /\ r # 0
  /\ pc' = "loop" /\ is64' = wide
  /\ root' = IF wide THEN r ELSE r % Space
  /\ AddTreeItem(check, [a \in {} |-> Unreadable], << >>, 0, root', w)
  /\ level' = 0 /\ count' = 0 /\ rows' = << >> /\ messages' = {}

(* The command: drops what an earlier one left in the globals, and adds    *)
(* the root.  A root of 0 returns at once.                                 *)
Invoke(r, wide, w) ==
  /\ pc \in {"idle", "done", "aborted"} /\ r # 0
  /\ pc' = "loop" /\ is64' = wide
  /\ root' = IF wide THEN r ELSE r % Space
  /\ AddTreeItem({}, [a \in {} |-> Unreadable], << >>, 0, root', w)
  /\ level' = 0 /\ count' = 0 /\ rows' = << >> /\ messages' = {}

(* One turn of the loop.  The row is printed before the level is updated.  *)
PrintItem ==
  /\ pc = "loop" /\ queue # << >> /\ pc' = "left"
  /\ rows' = Append(rows, [level |-> level, count |-> count,
                           addr |-> Head(queue).addr, depth |-> Head(queue).level])
  /\ level' = Head(queue).level
  /\ count' = IF Head(queue).level # level THEN 0 ELSE count
  /\ UNCHANGED <<root, queue, check, messages, is64, mem>>

(* Mutant: a child gets the level of its parent. *)
Mutant_AddChild(q, side, w) ==
  LET item == Head(queue)
      a    == item[side]
  IN  \/ a = 0 /\ queue' = q /\ UNCHANGED <<check, mem, messages>>
      \/ /\ a # 0
         /\ AddTreeItem(check, mem, q, item.level, a, w)
         /\ messages' = IF Added(check, a, w) THEN messages
                        ELSE messages \cup {<<item.addr, side>>}

(* The child a of the item at the front is added to queue q. *)
AddChild(q, side, w) ==
  LET item == Head(queue)
      a    == item[side]
  IN  \/ a = 0 /\ queue' = q /\ UNCHANGED <<check, mem, messages>>
      \/ /\ a # 0
         /\ AddTreeItem(check, mem, q, item.level + 1, a, w)
         /\ messages' = IF Added(check, a, w) THEN messages
                        ELSE messages \cup {<<item.addr, side>>}

(* Mutant: the front item is popped before its right child is looked at. *)
Mutant_AddLeft(w) ==
  /\ pc = "left" /\ pc' = "right"
  /\ AddChild(Tail(queue), "left", w)
  /\ UNCHANGED <<root, level, count, rows, is64>>

AddLeft(w) ==
  /\ pc = "left" /\ pc' = "right"
  /\ AddChild(queue, "left", w)
  /\ UNCHANGED <<root, level, count, rows, is64>>

(* The right child, and the end of the turn: the front item is popped. *)
AddRight(w) ==
  /\ pc = "right" /\ pc' = "loop"
  /\ AddChild(Tail(queue), "right", w)
  /\ count' = count + 1
  /\ UNCHANGED <<root, level, rows, is64>>

(* Mutant: the loop expects an item before it tests for one. *)
Mutant_Finish ==
  /\ pc = "loop" /\ queue = << >> /\ rows # << >> /\ pc' = "done"
  /\ UNCHANGED <<root, queue, check, level, count, rows, messages, is64, mem>>

Finish == /\ pc = "loop" /\ queue = << >> /\ pc' = "done"
          /\ UNCHANGED <<root, queue, check, level, count, rows, messages, is64, mem>>

(* An exception (out of memory in push or insert) leaves the command and   *)
(* is caught by the debugger engine.                                       *)
Abort == /\ pc \in {"left", "right"} /\ pc' = "aborted"
         /\ UNCHANGED <<root, queue, check, level, count, rows, messages, is64, mem>>

Command == \E r \in Roots, wide \in BOOLEAN :
             \E w \in Readable(wide) \cup {Unreadable} : Invoke(r, wide, w)

Visit == \E w \in Readable(is64) \cup {Unreadable} : AddLeft(w) \/ AddRight(w)

Step == PrintItem \/ Visit \/ Finish

Next == Command \/ Step \/ Abort

(* The engine runs a command to its end; the user need not enter one.      *)
Spec == Init /\ [][Next]_vars /\ WF_vars(Step)

-----------------------------------------------------------------------------
(* The graph that was read.                                                *)

Printed == {rows[i].addr : i \in 1 .. Len(rows)}
Found   == {a \in DOMAIN mem : mem[a] # Unreadable}
Links   == {e \in Found \X Side : mem[e[1]][e[2]] # 0}
Target(e) == mem[e[1]][e[2]]

(* S holds the root and all children of the readable nodes it holds.       *)
Closed(S) == root \in S /\ \A e \in Links : e[1] \in S => Target(e) \in S

(* The walks of n links from the root, and the addresses they end at.      *)
Walks(n) == {p \in [0 .. n -> DOMAIN mem] :
  p[0] = root /\ \A k \in 1 .. n : \E e \in Links : e[1] = p[k - 1] /\ Target(e) = p[k]}
Ends(n)  == {p[n] : p \in Walks(n)}

-----------------------------------------------------------------------------
(* Properties.                                                             *)

TypeOK ==
  /\ pc \in {"idle", "loop", "left", "right", "done", "aborted"}
  /\ root \in Nat /\ queue \in Seq(Item) /\ check \subseteq Nat
  /\ level \in Nat /\ count \in Nat /\ rows \in Seq(Row)
  /\ messages \subseteq Nat \X Side /\ is64 \in BOOLEAN
  /\ DOMAIN mem \subseteq Nat
  /\ \A a \in DOMAIN mem : mem[a] \in Readable(is64) \cup {Unreadable}
  /\ pc \in {"left", "right"} => queue # << >>

(* A corrupted tree never makes the dump print a node twice, also when the *)
(* root was typed as a sign-extended 32-bit address, which would be a      *)
(* second name of the node, or an earlier command was aborted              *)
(* (CorruptionCheck, AddTreeItem and the mask of the root).                *)
OncePerNode ==
  /\ \A i, j \in 1 .. Len(rows) : rows[i].addr = rows[j].addr => i = j
  /\ is64 \/ \A i \in 1 .. Len(rows) : rows[i].addr < Space

(* A finished dump has printed the readable part of the tree, whole: the   *)
(* nodes reachable from the root and no others (the loop of !dt).          *)
Complete ==
  pc = "done" =>
    /\ Printed = Found
    /\ Closed(DOMAIN mem)
    /\ \A S \in SUBSET DOMAIN mem : Closed(S) => S = DOMAIN mem

(* The order is breadth first: every row comes at its distance from the    *)
(* root, in non-decreasing order, even where the links are no tree (the    *)
(* Level of an item).  The pair L=level#count that is printed grows with   *)
(* the rows and so identifies them, although the first row of a level has  *)
(* the numbers of the level before (dprintf precedes CurrentLevel).        *)
BreadthFirst ==
  /\ pc = "done" => \A i \in 1 .. Len(rows) :
       LET d == rows[i].depth
       IN  rows[i].addr \in Ends(d) /\ \A n \in 0 .. d - 1 : rows[i].addr \notin Ends(n)
  /\ \A i, j \in 1 .. Len(rows) : i < j =>
       /\ rows[i].depth <= rows[j].depth
       /\ \/ rows[i].level < rows[j].level
          \/ rows[i].level = rows[j].level /\ rows[i].count < rows[j].count

(* The links no message was printed for are a spanning tree of the rows:   *)
(* a dump without a message is a dump of a tree, and every link that       *)
(* closes a cycle, joins two branches or leads to memory that cannot be    *)
(* read has its message (the two else-branches of the loop).               *)
SpanningTree ==
  pc = "done" =>
    /\ messages \subseteq Links
    /\ {Target(e) : e \in Links \ messages} = Printed \ {root}
    /\ \A e, f \in Links \ messages : Target(e) = Target(f) => e = f

(* "Item %s was duplicated!" is printed for items that were reached before.*)
DuplicatesWereSeen ==
  pc = "done" => \A e \in messages :
    Target(e) = root \/ \E f \in Links \ {e} : Target(f) = Target(e)

(* Every dump ends, whatever cycles the links have.                        *)
DumpEnds == pc = "loop" ~> pc \in {"done", "aborted"}

-----------------------------------------------------------------------------
(* The dump as a search of a graph.                                        *)
StatusOf(p) == IF p \in {"loop", "left", "right"} THEN "busy"
               ELSE IF p = "done" THEN "ended" ELSE IF p = "aborted" THEN "broken" ELSE "idle"
Children(w) == {w.left, w.right} \ {0}
GraphRead   == [a \in Found |-> Children(mem[a])]
Shown       == [i \in 1 .. Len(rows) |-> rows[i].addr]

Search == INSTANCE GraphSearch WITH
            status <- StatusOf(pc), graph <- GraphRead, missing <- DOMAIN mem \ Found,
            shown <- Shown

(* Every command is a search: a node is listed at most once and only after *)
(* it was found over links of listed nodes, and the command ends only when *)
(* every link was followed (the loop of !dt).                              *)
RefinesSearch == Search!Spec
=============================================================================
