------------------------ MODULE CommandRunnerProofs ------------------------
(***************************************************************************)
(* Proofs about CommandRunner, for commands of any length: MaxCalls is any *)
(* number.                                                                 *)
(***************************************************************************)
EXTENDS CommandRunner, SequenceTheorems, TLAPS

(***************************************************************************)
(* The inductive invariant.  Counted: the references to the client are     *)
(* those of the two smart pointers, and one of them holds the client as    *)
(* long as it refers to the callbacks.  Nested: the calls under way are of *)
(* six shapes, as callback_ is set exactly while Execute runs.  Balanced:  *)
(* what is printed and not shown is the call under way.                    *)
(***************************************************************************)
Constructing == {"DebugCreate", "SetOutputCallbacks", "QueryControl"}
One(b) == IF b THEN 1 ELSE 0

Stages ==
  /\ client_ \in BOOLEAN /\ control_ \in BOOLEAN
  /\ callback_ \in BOOLEAN /\ registered \in BOOLEAN
  /\ life \in Constructing \cup {"alive", "DestroyControl", "DestroyClient", "gone"}
  /\ (registered => client_) /\ (control_ => client_)
  /\ life = "DebugCreate" => ~client_
  /\ life \in {"SetOutputCallbacks", "QueryControl"} => client_ /\ ~control_
  /\ life = "SetOutputCallbacks" => ~registered
  /\ life \in {"DestroyClient", "gone"} => ~control_
  /\ life = "gone" => ~client_

References ==
  clientRefs = One(client_) + One(control_) /\ ref_ = IF registered THEN 2 ELSE 1

Counted == Stages /\ References

InRun  == {<<"Execute">>, <<"OutputOfCommand", "Execute">>, <<"callback", "Execute">>}
Shapes == {<< >>, <<"OutputVaList">>, <<"OutputOfPrintf">>} \cup InRun

Nested == /\ stack \in Shapes /\ (callback_ <=> stack \in InRun)
          /\ (life # "alive" => stack = << >>) /\ (stack # << >> => control_)

Balanced == /\ printed \in Nat /\ shown \in 0 .. printed
            /\ life \in Constructing => printed = 0
            /\ control_ => printed = shown + One(stack = <<"OutputVaList">>)

Typed == /\ calls \in 0 .. MaxCalls
         /\ captured \in Seq({"OutputOfCommand"})

RunnerInv == Counted /\ Nested /\ Balanced /\ Typed

(***************************************************************************)
(* The shapes of the stack.                                                *)
(***************************************************************************)
LEMMA OfShapes ==
  /\ \A f : Head(<<f>>) = f /\ Tail(<<f>>) = << >> /\ <<f>> # << >> /\ <<f>> \o << >> = <<f>>
  /\ \A f, g : /\ Head(<<f, g>>) = f /\ Tail(<<f, g>>) = <<g>> /\ <<f, g>> # << >>
               /\ <<f>> \o <<g>> = <<f, g>>
  /\ \A f, g, k : <<f, g>> # <<k>>
  /\ \A f, g : <<f>> = <<g>> => f = g
  /\ \A f, g, k, l : <<f, g>> = <<k, l>> => f = k /\ g = l
<1>1. \A f : Head(<<f>>) = f /\ Tail(<<f>>) = << >> OBVIOUS
<1>2. \A f : <<f>> # << >> OBVIOUS
<1>3. \A f : <<f>> \o << >> = <<f>> OBVIOUS
<1>4. \A f, g : Head(<<f, g>>) = f /\ Tail(<<f, g>>) = <<g>> OBVIOUS
<1>5. \A f, g : <<f, g>> # << >> OBVIOUS
<1>6. \A f, g : <<f>> \o <<g>> = <<f, g>>
  <2> TAKE f, g
  <2> DEFINE s == <<f>> \o <<g>>
  <2>1. <<f>> \in Seq({f, g}) /\ <<g>> \in Seq({f, g}) /\ <<f, g>> \in Seq({f, g}) OBVIOUS
  <2>2. Len(<<f>>) = 1 /\ Len(<<g>>) = 1 /\ Len(<<f, g>>) = 2
        /\ <<f>>[1] = f /\ <<g>>[1] = g /\ <<f, g>>[1] = f /\ <<f, g>>[2] = g
    OBVIOUS
  <2>3. s \in Seq({f, g}) /\ Len(s) = 2 /\ s[1] = f /\ s[2] = g
    BY <2>1, <2>2, ConcatProperties
  <2> HIDE DEF s
  <2>4. \A i \in 1 .. 2 : s[i] = <<f, g>>[i] BY <2>2, <2>3
  <2>5. s = <<f, g>> BY <2>1, <2>2, <2>3, <2>4, SeqEqual
  <2> QED BY <2>5 DEF s
<1>7. \A f, g, k : <<f, g>> # <<k>> OBVIOUS
<1>8. \A f, g : <<f>> = <<g>> => f = g OBVIOUS
<1>9. \A f, g, k, l : <<f, g>> = <<k, l>> => f = k /\ g = l OBVIOUS
<1> QED BY <1>1, <1>2, <1>3, <1>4, <1>5, <1>6, <1>7, <1>8, <1>9

LEMMA RunnerInit == Init => RunnerInv
<1> SUFFICES ASSUME Init PROVE RunnerInv OBVIOUS
<1>1. Counted
  <2>1. Stages BY DEF Init, Stages, Constructing
  <2>2. References BY DEF Init, References, One
  <2> QED BY <2>1, <2>2 DEF Counted
<1>2. Nested
  <2>1. stack = << >> /\ callback_ = FALSE BY DEF Init
  <2>2. << >> \notin InRun BY OfShapes DEF InRun
  <2> QED BY <2>1, <2>2 DEF Nested, Shapes
<1>3. Balanced BY DEF Init, Balanced
<1>4. Typed BY MaxCallsAssumption, EmptySeq DEF Init, Typed
<1> QED BY <1>1, <1>2, <1>3, <1>4 DEF RunnerInv

(* The constructor and the destructor make no calls that nest. *)
LEMMA LifeStep ==
  ASSUME RunnerInv,
         \/ DebugCreate \/ SetOutputCallbacks \/ QueryControl
         \/ DestroyOutput \/ DestroyControl \/ DestroyClient
  PROVE  RunnerInv'
<1> USE DEF RunnerInv, Unobserved, observed
<1>1. CASE DebugCreate
  <2>1. Counted'
    <3>1. Stages' BY <1>1 DEF DebugCreate, Counted, Stages, Constructing
    <3>2. References' BY <1>1 DEF DebugCreate, Counted, Stages, References, One
    <3> QED BY <3>1, <3>2 DEF Counted
  <2>2. Nested' BY <1>1 DEF DebugCreate, Nested, members
  <2>3. Balanced' BY <1>1 DEF DebugCreate, Balanced, Counted, Constructing
  <2> QED BY <1>1, <2>1, <2>2, <2>3 DEF DebugCreate, Typed
<1>2. CASE SetOutputCallbacks
  <2>1. Counted'
    <3>1. Stages' BY <1>2 DEF SetOutputCallbacks, Counted, Stages, Constructing
    <3>2. References' BY <1>2 DEF SetOutputCallbacks, Counted, Stages, References, One
    <3> QED BY <3>1, <3>2 DEF Counted
  <2>2. Nested' BY <1>2 DEF SetOutputCallbacks, Nested, members
  <2>3. Balanced' BY <1>2 DEF SetOutputCallbacks, Balanced, Counted, Constructing
  <2> QED BY <1>2, <2>1, <2>2, <2>3 DEF SetOutputCallbacks, Typed
<1>3. CASE QueryControl
  <2>1. Counted'
    <3>1. Stages' BY <1>3 DEF QueryControl, Counted, Stages, Constructing
    <3>2. References' BY <1>3 DEF QueryControl, Counted, Stages, References, One
    <3> QED BY <3>1, <3>2 DEF Counted
  <2>2. Nested' BY <1>3 DEF QueryControl, Nested, members
  <2>3. Balanced'
    <3>1. stack = << >> /\ stack' = << >> BY <1>3 DEF QueryControl, Nested
    <3>2. stack' # <<"OutputVaList">> BY <3>1, OfShapes
    <3>3. printed = 0 /\ shown = 0 BY <1>3 DEF QueryControl, Balanced, Constructing
    <3> QED BY <1>3, <3>2, <3>3 DEF QueryControl, Balanced, One, Constructing
  <2> QED BY <1>3, <2>1, <2>2, <2>3 DEF QueryControl, Typed
<1>4. CASE DestroyOutput
  <2>1. Counted'
    <3>1. Stages' BY <1>4 DEF DestroyOutput, members, Counted, Stages, Constructing
    <3>2. References' BY <1>4 DEF DestroyOutput, members, Counted, Stages, References, One
    <3> QED BY <3>1, <3>2 DEF Counted
  <2>2. Nested'
    <3>1. << >> \notin InRun BY OfShapes DEF InRun
    <3> QED BY <1>4, <3>1 DEF DestroyOutput, Nested
  <2>3. Balanced' BY <1>4 DEF DestroyOutput, members, Balanced, Constructing
  <2> QED BY <1>4, <2>1, <2>2, <2>3 DEF DestroyOutput, Typed
<1>5. CASE DestroyControl
  <2>1. Counted'
    <3>1. Stages' BY <1>5 DEF DestroyControl, Released, Counted, Stages, Constructing
    <3>2. References' BY <1>5 DEF DestroyControl, Released, Counted, Stages, References, One
    <3> QED BY <3>1, <3>2 DEF Counted
  <2>2. Nested' BY <1>5 DEF DestroyControl, Nested, members
  <2>3. Balanced' BY <1>5 DEF DestroyControl, Balanced, Constructing
  <2> QED BY <1>5, <2>1, <2>2, <2>3 DEF DestroyControl, Typed
<1>6. CASE DestroyClient
  <2>1. Counted'
    <3>1. registered' = FALSE
      <4>1. CASE client_
        <5>1. clientRefs = 1 BY <1>6, <4>1 DEF DestroyClient, Counted, Stages, References, One
        <5> QED BY <1>6, <4>1, <5>1 DEF DestroyClient, Released, Counted, Stages
      <4>2. CASE ~client_ BY <1>6, <4>2 DEF DestroyClient, Released, Counted, Stages
      <4> QED BY <4>1, <4>2
    <3>2. Stages' BY <1>6, <3>1 DEF DestroyClient, Released, Counted, Stages, Constructing
    <3>3. References' BY <1>6 DEF DestroyClient, Released, Counted, Stages, References, One
    <3> QED BY <3>2, <3>3 DEF Counted
  <2>2. Nested' BY <1>6 DEF DestroyClient, Nested, members
  <2>3. Balanced' BY <1>6 DEF DestroyClient, Balanced, Constructing
  <2> QED BY <1>6, <2>1, <2>2, <2>3 DEF DestroyClient, Typed
<1> QED BY <1>1, <1>2, <1>3, <1>4, <1>5, <1>6

(* The innermost call tells the shape of all of them. *)
LEMMA ShapeOfTop ==
  ASSUME Nested
  PROVE  /\ Top = "body" => stack = << >>
         /\ Top = "OutputVaList" => stack = <<"OutputVaList">>
         /\ Top = "OutputOfPrintf" => stack = <<"OutputOfPrintf">>
         /\ Top = "Execute" => stack = <<"Execute">>
         /\ Top = "OutputOfCommand" => stack = <<"OutputOfCommand", "Execute">>
         /\ Top = "callback" => stack = <<"callback", "Execute">>
BY OfShapes DEF Nested, Shapes, InRun, Top

(* The calls of a live object. *)
LEMMA CallStep ==
  ASSUME RunnerInv,
         \/ Printf \/ OutputVaList \/ Output \/ CallbackReturns
         \/ Run \/ ExecuteWrites \/ ExecuteReturns
  PROVE  RunnerInv'
<1> USE DEF RunnerInv
<1>1. CASE Printf
  <2>1. /\ Top \in {"body", "callback"} /\ life = "alive" /\ UNCHANGED <<life, callback_, members, shown>>
        /\ printed' = IF Top = "body" THEN printed + 1 ELSE printed
    BY <1>1 DEF Printf, Entered
  <2>2. CASE control_ /\ ~callback_
    <3>1. Top = "body" /\ stack = << >>
      BY <2>1, <2>2, ShapeOfTop DEF Nested, InRun
    <3>2. stack' = <<"OutputVaList">> BY <1>1, <2>2, <3>1, OfShapes DEF Printf, Calling
    <3>3. Nested' BY <2>1, <2>2, <3>2, OfShapes DEF Nested, Shapes, InRun, members
    <3>4. Balanced'
      <4>1. stack # <<"OutputVaList">> BY <3>1, OfShapes
      <4> QED BY <2>1, <2>2, <3>1, <3>2, <4>1 DEF Balanced, One, Constructing, members
    <3>5. Counted' BY <2>1 DEF Counted, Stages, References, members, One
    <3> QED BY <1>1, <3>3, <3>4, <3>5, MaxCallsAssumption DEF Printf, Entered, Typed
  <2>3. CASE ~(control_ /\ ~callback_)
    <3>1. stack' = stack BY <1>1, <2>3 DEF Printf
    <3>2. Nested' BY <2>1, <3>1 DEF Nested, members
    <3>3. control_ => Top # "body"
      <4>1. callback_ => stack # << >> BY OfShapes DEF Nested, InRun
      <4> QED BY <2>3, <4>1, ShapeOfTop
    <3>4. Balanced' BY <2>1, <3>1, <3>3 DEF Balanced, Constructing, members, One
    <3>5. Counted' BY <2>1 DEF Counted, Stages, References, members, One
    <3> QED BY <1>1, <3>2, <3>4, <3>5, MaxCallsAssumption DEF Printf, Entered, Typed
  <2> QED BY <2>2, <2>3
<1>2. CASE OutputVaList
  <2>1. stack = <<"OutputVaList">> BY <1>2, ShapeOfTop DEF OutputVaList
  <2>2. Len(stack) = 1 /\ stack[1] # "callback" BY <2>1
  <2>3. shown' = shown + 1 BY <1>2, <2>2 DEF OutputVaList
  <2>4. stack' \in {<<"OutputOfPrintf">>, << >>} /\ stack' # <<"OutputVaList">>
    BY <1>2, <2>1, OfShapes DEF OutputVaList
  <2>5. Counted' BY <1>2 DEF OutputVaList, Counted, Stages, References, members, One
  <2>6. Nested'
    <3>1. life = "alive" /\ ~callback_ BY <2>1, OfShapes DEF Nested, InRun
    <3>2. stack' \notin InRun BY <2>4, OfShapes DEF InRun
    <3>3. control_ BY <2>1, OfShapes DEF Nested
    <3> QED BY <1>2, <2>4, <3>1, <3>2, <3>3 DEF OutputVaList, Nested, Shapes, members
  <2>7. control_ BY <2>1, OfShapes DEF Nested
  <2>8. Balanced' BY <1>2, <2>1, <2>3, <2>4, <2>7 DEF OutputVaList, Balanced, One, members
  <2> QED BY <1>2, <2>5, <2>6, <2>8 DEF OutputVaList, Typed
<1>3. CASE Output
  <2>1. stack \in {<<"OutputOfPrintf">>, <<"OutputOfCommand", "Execute">>}
    BY <1>3, ShapeOfTop DEF Output
  <2>2. life = "alive" /\ (callback_ <=> stack = <<"OutputOfCommand", "Execute">>)
    BY <2>1, OfShapes DEF Nested, InRun
  <2>3. stack' = IF callback_ THEN <<"callback", "Execute">> ELSE << >>
    <3>1. CASE callback_
      <4>1. stack' = <<"callback">> \o Tail(stack) BY <1>3, <3>1 DEF Output
      <4>2. stack = <<"OutputOfCommand", "Execute">> BY <2>2, <3>1
      <4>3. Tail(stack) = <<"Execute">> BY <4>2
      <4>4. <<"callback">> \o <<"Execute">> = <<"callback", "Execute">> BY OfShapes
      <4> QED BY <3>1, <4>1, <4>3, <4>4
    <3>2. CASE ~callback_
      <4>1. stack = <<"OutputOfPrintf">> BY <2>1, <2>2, <3>2
      <4> QED BY <1>3, <3>2, <4>1, OfShapes DEF Output, Return
    <3> QED BY <3>1, <3>2
  <2>4. Nested' BY <1>3, <2>2, <2>3, OfShapes DEF Output, Nested, Shapes, InRun, members
  <2>5. stack # <<"OutputVaList">> /\ stack' # <<"OutputVaList">> BY <2>1, <2>3, OfShapes
  <2>6. Balanced' BY <1>3, <2>5 DEF Output, Balanced, members
  <2>7. Counted' BY <1>3 DEF Output, Counted, Stages, References, members, One
  <2>8. Typed'
    <3>1. CASE callback_
      <4>1. Top = "OutputOfCommand" BY <2>2, <3>1, OfShapes DEF Top
      <4>2. captured' = Append(captured, "OutputOfCommand") BY <1>3, <3>1, <4>1 DEF Output
      <4> QED BY <1>3, <4>2, AppendProperties DEF Output, Typed
    <3>2. CASE ~callback_ BY <1>3, <3>2 DEF Output, Typed
    <3> QED BY <3>1, <3>2
  <2> QED BY <2>4, <2>6, <2>7, <2>8
<1>4. CASE CallbackReturns
  <2>1. stack = <<"callback", "Execute">> BY <1>4, ShapeOfTop DEF CallbackReturns
  <2>2. stack' = <<"Execute">> BY <1>4, <2>1, OfShapes DEF CallbackReturns, Return
  <2>3. life = "alive" /\ callback_ BY <2>1, OfShapes DEF Nested, InRun
  <2>4. Nested' BY <1>4, <2>2, <2>3, OfShapes DEF CallbackReturns, Nested, Shapes, InRun, members
  <2>5. stack # <<"OutputVaList">> /\ stack' # <<"OutputVaList">> BY <2>1, <2>2, OfShapes
  <2>6. Balanced' BY <1>4, <2>5 DEF CallbackReturns, Balanced, members, observed
  <2>7. Counted' BY <1>4 DEF CallbackReturns, Counted, Stages, References, members, One
  <2> QED BY <1>4, <2>4, <2>6, <2>7 DEF CallbackReturns, observed, Typed
<1>5. CASE Run
  <2>1. stack = << >> /\ life = "alive" BY <1>5, ShapeOfTop DEF Run, Entered
  <2>2. ~callback_ BY <2>1, OfShapes DEF Nested, InRun
  <2>3. IF control_ THEN stack' = <<"Execute">> /\ callback_' = TRUE
        ELSE stack' = << >> /\ callback_' = FALSE
    BY <1>5, <2>1, <2>2, OfShapes DEF Run, Calling, Counted
  <2>4. Nested' BY <1>5, <2>1, <2>3, OfShapes DEF Run, Nested, Shapes, InRun, members
  <2>5. stack # <<"OutputVaList">> /\ stack' # <<"OutputVaList">> BY <2>1, <2>3, OfShapes
  <2>6. Balanced' BY <1>5, <2>5 DEF Run, Balanced, members
  <2>7. Counted' BY <1>5, <2>3 DEF Run, Counted, Stages, References, members, One
  <2>8. Typed' BY <1>5, EmptySeq, MaxCallsAssumption DEF Run, Entered, Typed
  <2> QED BY <2>4, <2>6, <2>7, <2>8
<1>6. CASE ExecuteWrites
  <2>1. stack = <<"Execute">> /\ life = "alive" BY <1>6, ShapeOfTop DEF ExecuteWrites, Entered
  <2>2. callback_ BY <2>1 DEF Nested, InRun
  <2>3. stack' \in {<<"Execute">>, <<"OutputOfCommand", "Execute">>}
    BY <1>6, <2>1, OfShapes DEF ExecuteWrites, Calling
  <2>4. Nested' BY <1>6, <2>1, <2>2, <2>3 DEF ExecuteWrites, Nested, Shapes, InRun, members
  <2>5. stack # <<"OutputVaList">> /\ stack' # <<"OutputVaList">> BY <2>1, <2>3, OfShapes
  <2>6. Balanced' BY <1>6, <2>5 DEF ExecuteWrites, Balanced, members, observed
  <2>7. Counted' BY <1>6 DEF ExecuteWrites, Counted, Stages, References, members, One
  <2> QED BY <1>6, <2>4, <2>6, <2>7, MaxCallsAssumption DEF ExecuteWrites, Entered, observed, Typed
<1>7. CASE ExecuteReturns
  <2>1. stack = <<"Execute">> BY <1>7, ShapeOfTop DEF ExecuteReturns
  <2>2. stack' = << >> /\ callback_' = FALSE BY <1>7, <2>1, OfShapes DEF ExecuteReturns, Return
  <2>3. Nested' BY <1>7, <2>2, OfShapes DEF ExecuteReturns, Nested, Shapes, InRun, members
  <2>4. stack # <<"OutputVaList">> /\ stack' # <<"OutputVaList">> BY <2>1, <2>2, OfShapes
  <2>5. Balanced' BY <1>7, <2>4 DEF ExecuteReturns, Balanced, members, observed
  <2>6. Counted' BY <1>7, <2>2 DEF ExecuteReturns, Counted, Stages, References, members, One
  <2> QED BY <1>7, <2>3, <2>5, <2>6 DEF ExecuteReturns, observed, Typed
<1> QED BY <1>1, <1>2, <1>3, <1>4, <1>5, <1>6, <1>7

LEMMA RunnerStep == RunnerInv /\ [Next]_vars => RunnerInv'
<1> SUFFICES ASSUME RunnerInv, [Next]_vars PROVE RunnerInv' OBVIOUS
<1>1. CASE UNCHANGED vars
  <2>1. Counted' BY <1>1 DEF vars, RunnerInv, Counted, Stages, References
  <2>2. Nested' /\ Balanced' /\ Typed' BY <1>1 DEF vars, RunnerInv, Nested, Balanced, Typed
  <2> QED BY <2>1, <2>2 DEF RunnerInv
<1> QED BY <1>1, LifeStep, CallStep DEF Next

LEMMA RunnerAlways == Spec => []RunnerInv
BY RunnerInit, RunnerStep, PTL DEF Spec

(* The members of a CommandRunner and the calls under way are well typed,  *)
(* whatever fails and however many calls are made (class CommandRunner).   *)
THEOREM RunnerTyped == Spec => []TypeOK
<1>1. RunnerInv => TypeOK
  <2> SUFFICES ASSUME RunnerInv PROVE TypeOK OBVIOUS
  <2>1. Stages /\ References BY DEF RunnerInv, Counted
  <2>2. clientRefs \in 0 .. 2 /\ ref_ \in Nat BY <2>1 DEF References, Stages, One
  <2>3. /\ life \in {"DebugCreate", "SetOutputCallbacks", "QueryControl", "alive",
                     "DestroyControl", "DestroyClient", "gone"}
        /\ {client_, control_, callback_, registered} \subseteq BOOLEAN
        /\ control_ => client_
    BY <2>1 DEF Stages, Constructing
  <2>4. stack \in Seq(Frames)
    <3>1. \A f \in Frames : <<f>> \in Seq(Frames) OBVIOUS
    <3>2. \A f, g \in Frames : <<f, g>> \in Seq(Frames) OBVIOUS
    <3>3. << >> \in Seq(Frames) BY EmptySeq
    <3> QED BY <3>1, <3>2, <3>3 DEF RunnerInv, Nested, Shapes, InRun, Frames
  <2>5. captured \in Seq({"OutputOfPrintf", "OutputOfCommand"})
    BY SeqMonotonic DEF RunnerInv, Typed
  <2> QED BY <2>2, <2>3, <2>4, <2>5 DEF TypeOK, RunnerInv, Balanced, Typed
<1> QED BY <1>1, RunnerAlways, PTL

(* outputCB_ is never deleted through its count, though it is counted, and *)
(* no reference to it or to the client outlives the object, whichever step *)
(* of the construction failed (OutputCallback::Release, ~CommandRunner).   *)
THEOREM RunnerReleases == Spec => []ReferencesBalance
<1>1. RunnerInv => ReferencesBalance
  <2> SUFFICES ASSUME RunnerInv PROVE ReferencesBalance OBVIOUS
  <2>1. Stages /\ References BY DEF RunnerInv, Counted
  <2>2. life = "gone" => ~client_ /\ ~control_ /\ ~registered BY <2>1 DEF Stages
  <2>3. life = "gone" => clientRefs = 0 BY <2>1, <2>2 DEF References, One
  <2> QED BY <2>1, <2>2, <2>3 DEF ReferencesBalance, References
<1> QED BY <1>1, RunnerAlways, PTL

(* A callback gets the lines of its command and none of its own, and is    *)
(* not called while it runs ("Prevent re-entrancy" in Printf).             *)
THEOREM NoReentry == Spec => []CapturedIsOwn
<1>1. RunnerInv => CapturedIsOwn
  <2> SUFFICES ASSUME RunnerInv PROVE CapturedIsOwn OBVIOUS
  <2>1. \A i \in 1 .. Len(captured) : captured[i] = "OutputOfCommand"
    <3>1. captured \in Seq({"OutputOfCommand"}) BY DEF RunnerInv, Typed
    <3>2. \A i \in 1 .. Len(captured) : captured[i] \in {"OutputOfCommand"}
      BY <3>1, ElementOfSeq
    <3> QED BY <3>2
  <2>2. \A i, j \in 1 .. Len(stack) : stack[i] = "callback" /\ stack[j] = "callback" => i = j
    BY DEF RunnerInv, Nested, Shapes, InRun
  <2> QED BY <2>1, <2>2 DEF CapturedIsOwn
<1> QED BY <1>1, RunnerAlways, PTL

(* What a command prints outside of Run reaches the user: the guard of     *)
(* Printf is lifted whenever no command runs (Run).                        *)
THEOREM PrintfShows == Spec => []PrintfIsShown
<1>1. RunnerInv => PrintfIsShown
  <2> SUFFICES ASSUME RunnerInv, stack = << >>, control_ PROVE shown = printed
    BY DEF PrintfIsShown
  <2>1. stack # <<"OutputVaList">> BY OfShapes
  <2> QED BY <2>1 DEF RunnerInv, Balanced, One
<1> QED BY <1>1, RunnerAlways, PTL
=============================================================================
