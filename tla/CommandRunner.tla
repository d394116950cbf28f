--------------------------- MODULE CommandRunner ---------------------------
(***************************************************************************)
(* class CommandRunner of kd.cpp, the client a command of that file makes  *)
(* for itself: three members that refer to each other, one of them         *)
(* counted by the engine although it lives inside of the object; and       *)
(* Printf and Run, which meet again in the output callback.  The code of a *)
(* command (its body) and of a callback is any sequence of their calls,    *)
(* except that a callback does not call Run.  No command of the repository *)
(* calls Run: what is said of it is said of the class.                     *)
(***************************************************************************)
EXTENDS Integers, Sequences

CONSTANT MaxCalls   \* bound on the calls of Printf and Run, and on the lines of a command
ASSUME MaxCallsAssumption == MaxCalls \in Nat

VARIABLES
  life,        \* what is constructed, or destroyed already
  client_,     \* is client_ set?
  control_,    \* is control_ set?
  ref_,        \* outputCB_.ref_
  callback_,   \* is outputCB_.callback_ set?
  clientRefs,  \* references to the engine's client object
  registered,  \* does the client refer to outputCB_?
  stack,       \* the calls under way, the innermost first
  calls,       \* calls and lines so far
  printed,     \* Printf calls of the body
  shown,       \* of these, the ones the user saw
  captured     \* the lines the callback was given since Run was called

vars == <<life, client_, control_, ref_, callback_, clientRefs, registered,
          stack, calls, printed, shown, captured>>
members  == <<client_, control_, ref_, clientRefs, registered>>
observed == <<printed, shown, captured>>

Init ==
  /\ life = "DebugCreate" /\ client_ = FALSE /\ control_ = FALSE
  /\ ref_ = 1 /\ callback_ = FALSE /\ clientRefs = 0 /\ registered = FALSE
  /\ stack = << >> /\ calls = 0 /\ printed = 0 /\ shown = 0 /\ captured = << >>

Unobserved == UNCHANGED <<callback_, stack, calls, observed>>

-----------------------------------------------------------------------------
(* CommandRunner::CommandRunner, which returns at the first failure.       *)
DebugCreate ==
  /\ life = "DebugCreate"
  /\ \/ client_' = TRUE /\ clientRefs' = 1 /\ life' = "SetOutputCallbacks"
     \/ UNCHANGED <<client_, clientRefs>> /\ life' = "alive"
  /\ UNCHANGED <<control_, ref_, registered>> /\ Unobserved

(* Mutant: the reference of the engine is the first one (ref_ starts at 0).*)
Mutant_SetOutputCallbacks ==
  /\ life = "SetOutputCallbacks"
  /\ \/ registered' = TRUE /\ ref_' = 1 /\ life' = "QueryControl"
     \/ UNCHANGED <<registered, ref_>> /\ life' = "alive"
  /\ UNCHANGED <<client_, control_, clientRefs>> /\ Unobserved

(* The client keeps a reference of its own: AddRef. *)
SetOutputCallbacks ==
  /\ life = "SetOutputCallbacks"
  /\ \/ registered' = TRUE /\ ref_' = ref_ + 1 /\ life' = "QueryControl"
     \/ UNCHANGED <<registered, ref_>> /\ life' = "alive"
  /\ UNCHANGED <<client_, control_, clientRefs>> /\ Unobserved

QueryControl ==
  /\ life = "QueryControl" /\ life' = "alive"
  /\ \/ control_' = TRUE /\ clientRefs' = clientRefs + 1
     \/ UNCHANGED <<control_, clientRefs>>
  /\ UNCHANGED <<client_, ref_, registered>> /\ Unobserved

-----------------------------------------------------------------------------
(* Calls. *)
Top == IF stack = << >> THEN "body" ELSE Head(stack)
Calling(f) == stack' = <<f>> \o stack
Return == stack' = Tail(stack)
Entered == life = "alive" /\ calls < MaxCalls /\ calls' = calls + 1

(* Mutant: re-entrancy is not prevented. *)
Mutant_Printf ==
  /\ Entered /\ Top \in {"body", "callback"}
  /\ IF control_ THEN Calling("OutputVaList") ELSE UNCHANGED stack
  /\ printed' = IF Top = "body" THEN printed + 1 ELSE printed
  /\ UNCHANGED <<life, callback_, members, shown, captured>>

Printf ==
  /\ Entered /\ Top \in {"body", "callback"}
  /\ IF control_ /\ ~callback_ THEN Calling("OutputVaList") ELSE UNCHANGED stack
  /\ printed' = IF Top = "body" THEN printed + 1 ELSE printed
  /\ UNCHANGED <<life, callback_, members, shown, captured>>

(* The engine shows the text to the user, and hands it to the callbacks of *)
(* every client.                                                           *)
OutputVaList ==
  /\ Top = "OutputVaList"
  /\ shown' = IF "callback" \in {stack[i] : i \in 1 .. Len(stack)} THEN shown ELSE shown + 1
  /\ stack' = IF registered THEN <<"OutputOfPrintf">> \o Tail(stack) ELSE Tail(stack)
  /\ UNCHANGED <<life, callback_, members, calls, printed, captured>>

(* OutputCallback::Output *)
Output ==
  /\ Top \in {"OutputOfPrintf", "OutputOfCommand"}
  /\ IF callback_
     THEN stack' = <<"callback">> \o Tail(stack) /\ captured' = Append(captured, Top)
     ELSE Return /\ UNCHANGED captured
  /\ UNCHANGED <<life, callback_, members, calls, printed, shown>>

CallbackReturns ==
  /\ Top = "callback" /\ Return
  /\ UNCHANGED <<life, callback_, members, calls, observed>>

Run ==
  /\ Entered /\ Top = "body"
  /\ IF control_ THEN callback_' = TRUE /\ Calling("Execute") ELSE UNCHANGED <<callback_, stack>>
  /\ captured' = << >>
  /\ UNCHANGED <<life, members, printed, shown>>

(* The command writes a line, which only this client's callbacks are given *)
(* (DEBUG_OUTCTL_THIS_CLIENT).                                             *)
ExecuteWrites ==
  /\ Entered /\ Top = "Execute"
  /\ IF registered THEN Calling("OutputOfCommand") ELSE UNCHANGED stack
  /\ UNCHANGED <<life, callback_, members, observed>>

(* Mutant: the callback stays when the command fails. *)
Mutant_ExecuteReturns ==
  /\ Top = "Execute" /\ Return
  /\ callback_' \in BOOLEAN
  /\ UNCHANGED <<life, members, calls, observed>>

(* Execute returns, successful or not. *)
ExecuteReturns ==
  /\ Top = "Execute" /\ Return
  /\ callback_' = FALSE
  /\ UNCHANGED <<life, members, calls, observed>>

-----------------------------------------------------------------------------
(* ~CommandRunner: outputCB_, control_, client_.  The client releases the  *)
(* callbacks when its last reference goes, after outputCB_ was destroyed.  *)
DestroyOutput ==
  /\ life = "alive" /\ stack = << >> /\ life' = "DestroyControl"
  /\ callback_' = FALSE
  /\ UNCHANGED <<members, stack, calls, observed>>

Released(n) ==
  /\ clientRefs' = clientRefs - n
  /\ IF clientRefs - n = 0 /\ registered THEN registered' = FALSE /\ ref_' = ref_ - 1
     ELSE UNCHANGED <<registered, ref_>>

DestroyControl ==
  /\ life = "DestroyControl" /\ life' = "DestroyClient"
  /\ Released(IF control_ THEN 1 ELSE 0) /\ control_' = FALSE
  /\ UNCHANGED client_ /\ Unobserved

(* Mutant: the pointer is released without a look at it. *)
Mutant_DestroyClient ==
  /\ life = "DestroyClient" /\ life' = "gone"
  /\ Released(1) /\ client_' = FALSE
  /\ UNCHANGED control_ /\ Unobserved

DestroyClient ==
  /\ life = "DestroyClient" /\ life' = "gone"
  /\ Released(IF client_ THEN 1 ELSE 0) /\ client_' = FALSE
  /\ UNCHANGED control_ /\ Unobserved

Next ==
  \/ DebugCreate \/ SetOutputCallbacks \/ QueryControl
  \/ Printf \/ OutputVaList \/ Output \/ CallbackReturns
  \/ Run \/ ExecuteWrites \/ ExecuteReturns
  \/ DestroyOutput \/ DestroyControl \/ DestroyClient

Spec == Init /\ [][Next]_vars

-----------------------------------------------------------------------------
Frames == {"OutputVaList", "OutputOfPrintf", "OutputOfCommand", "callback", "Execute"}

(* The members of the object and the calls under way are well typed, and   *)
(* control_ is set only along with client_.                                *)
TypeOK ==
  /\ life \in {"DebugCreate", "SetOutputCallbacks", "QueryControl", "alive",
               "DestroyControl", "DestroyClient", "gone"}
  /\ {client_, control_, callback_, registered} \subseteq BOOLEAN
  /\ ref_ \in Nat /\ clientRefs \in 0 .. 2
  /\ control_ => client_
  /\ stack \in Seq(Frames) /\ calls \in 0 .. MaxCalls
  /\ shown \in 0 .. printed /\ captured \in Seq({"OutputOfPrintf", "OutputOfCommand"})

(* outputCB_ is a member: Release must never delete it, not even when the  *)
(* client lets it go after it was destroyed; and with the object, whatever *)
(* of it was constructed, all references to it and to the client are gone. *)
ReferencesBalance ==
  /\ ref_ = IF registered THEN 2 ELSE 1
  /\ life = "gone" => clientRefs = 0 /\ ~registered

(* A callback that prints is not called again for what it printed ("Prevent*)
(* re-entrancy", kd.cpp): it gets the lines of its command and no others.  *)
CapturedIsOwn ==
  /\ \A i \in 1 .. Len(captured) : captured[i] = "OutputOfCommand"
  /\ \A i, j \in 1 .. Len(stack) : stack[i] = "callback" /\ stack[j] = "callback" => i = j

(* What a command prints while it runs no other reaches the user, also     *)
(* after a command it ran has failed: the guard against re-entrancy is     *)
(* lifted again on every path of Run.                                      *)
PrintfIsShown == stack = << >> /\ control_ => shown = printed
=============================================================================
