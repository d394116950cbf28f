------------------------------ MODULE GetArgs ------------------------------
(***************************************************************************)
(* get_args of utils.cpp: the words of a command's argument string.  Both  *)
(* pointers are indices into args; the end of args is its terminator.      *)
(***************************************************************************)
EXTENDS Integers, Sequences

CONSTANTS
  Chars,     \* the characters, " " among them
  MaxLen     \* bound: the longest argument string

VARIABLES
  args, p, prev, string_array,   \* as in the code
  step                           \* "scan" or "end"

vars == <<args, p, prev, string_array, step>>

Space == " "
Strings == UNION {[1 .. n -> Chars] : n \in 0 .. MaxLen}

Init == args \in Strings /\ p = 1 /\ prev = 1 /\ string_array = << >> /\ step = "scan"

(* Mutant: two spaces enclose an empty word. *)
Mutant_Emplace == string_array' = Append(string_array, SubSeq(args, prev, p - 1))
Emplace == string_array' = IF p > prev THEN Append(string_array, SubSeq(args, prev, p - 1))
                           ELSE string_array

Start == p + 1

(* A turn of the loop. *)
Scan == /\ p <= Len(args) /\ p' = p + 1
        /\ IF args[p] = Space THEN Emplace /\ prev' = Start ELSE UNCHANGED <<prev, string_array>>
        /\ UNCHANGED <<args, step>>

(* The word the string ends with. *)
Finish == p > Len(args) /\ step = "scan" /\ step' = "end" /\ Emplace /\ UNCHANGED <<args, p, prev>>

Next == Scan \/ Finish

Spec == Init /\ [][Next]_vars

-----------------------------------------------------------------------------
(* The pointers stay in the string and its terminator, and what is between *)
(* them holds no space (the loop of get_args).                             *)
TypeOK == /\ p \in 1 .. Len(args) + 1 /\ prev \in 1 .. p /\ step \in {"scan", "end"}
          /\ \A i \in prev .. p - 1 : args[i] # Space

(* The words of args, by the indexes of their first and last characters.   *)
StartsWord(i) == args[i] # Space /\ (i = 1 \/ args[i - 1] = Space)
Starts == {i \in 1 .. Len(args) : StartsWord(i)}
EndOf(i) == CHOOSE j \in i .. Len(args) :
              (\A k \in i .. j : args[k] # Space) /\ (j = Len(args) \/ args[j + 1] = Space)

(* In the end the strings are the runs of characters between spaces, all   *)
(* of them and in their order ("  1   2 " gives "1", "2").                 *)
WordsOfArgs ==
  step = "end" =>
    \E start \in [1 .. Len(string_array) -> Starts] :
      /\ \A n \in 1 .. Len(string_array) :
           string_array[n] = SubSeq(args, start[n], EndOf(start[n]))
      /\ \A n \in 1 .. Len(string_array) - 1 : start[n] < start[n + 1]
      /\ \A i \in Starts : \E n \in 1 .. Len(string_array) : start[n] = i
=============================================================================
