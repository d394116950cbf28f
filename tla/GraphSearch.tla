---------------------------- MODULE GraphSearch ----------------------------
(***************************************************************************)
(* What a dump of linked nodes promises, whatever order it takes them in:  *)
(* the nodes of a graph that is read while it is searched are listed, each *)
(* once, and the search ends only when nothing is left to list or follow.  *)
(* SplayDump implements it with a queue and a set of visited addresses.    *)
(***************************************************************************)
EXTENDS Naturals, Sequences

VARIABLES
  status,    \* "idle", "busy", "ended" or "broken"
  graph,     \* the nodes read: address -> the addresses linked to
  missing,   \* the addresses that could not be read
  shown      \* the addresses listed, in order

vars == <<status, graph, missing, shown>>

Listed == {shown[i] : i \in 1 .. Len(shown)}
Known  == DOMAIN graph \cup missing

Init == status = "idle" /\ graph = [a \in {} |-> {}] /\ missing = {} /\ shown = << >>

(* A search from some address, which is read or found missing. *)
Begin == /\ status # "busy" /\ status' = "busy" /\ shown' = << >>
         /\ DOMAIN graph' \cap missing' = {}
         /\ \E a \in Known' : Known' = {a} /\ graph' = [x \in DOMAIN graph' |-> graph'[x]]

Show == \E a \in DOMAIN graph \ Listed :
          /\ status = "busy" /\ shown' = Append(shown, a)
          /\ UNCHANGED <<status, graph, missing>>

(* A link of a listed node leads to an address not known yet. *)
Read(a) == /\ DOMAIN graph' = DOMAIN graph \cup {a} /\ missing' = missing
           /\ graph' = [x \in DOMAIN graph' |-> IF x = a THEN graph'[a] ELSE graph[x]]
Miss(a) == missing' = missing \cup {a} /\ graph' = graph

Follow == \E b \in Listed \cap DOMAIN graph : \E a \in graph[b] \ Known :
            status = "busy" /\ (Read(a) \/ Miss(a)) /\ UNCHANGED <<status, shown>>

End == /\ status = "busy" /\ status' = "ended"
       /\ DOMAIN graph = Listed /\ \A b \in DOMAIN graph : graph[b] \subseteq Known
       /\ UNCHANGED <<graph, missing, shown>>

(* The search is given up. *)
Break == status = "busy" /\ status' = "broken" /\ UNCHANGED <<graph, missing, shown>>

Next == Begin \/ Show \/ Follow \/ End \/ Break

Spec == Init /\ [][Next]_vars
=============================================================================
