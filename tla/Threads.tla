------------------------------ MODULE Threads ------------------------------
(***************************************************************************)
(* thread.cpp and forEachThread of common.cpp: !ts shows the TEB of the    *)
(* current thread, !ts -all makes every thread of the debugger current,    *)
(* one after the other, shows its TEB and goes back.  Which of the two     *)
(* TEBs of a WOW64 thread is meant is decided by processor types that were *)
(* read when the extension was loaded.  Any call of the engine may fail.   *)
(***************************************************************************)
EXTENDS SymbolCache, Sequences, FiniteSets

CONSTANTS
  ThreadList,   \* the engine's ids of the threads, in the order of GetThreadIdsByIndex
  Machines,     \* pairs of processor types the engine can report
  MaxGarbage,   \* bound on a thread count that was never written
  MaxFailures,  \* bound on the calls of one command that fail
  MaxChanges    \* bound on what the user changes between commands

ASSUME ThreadListAssumption == ThreadList \in Seq(Nat) /\ ThreadList # << >>
(* A 32-bit processor runs 32-bit code only. *)
ASSUME MachinesAssumption ==
  /\ Machines \subseteq [actual: {"AMD64", "I386"}, effective: {"AMD64", "I386"}]
  /\ \A m \in Machines : m.actual = "I386" => m.effective = "I386"
ASSUME FieldsAssumption ==
  {"ntdll!_TEB", "ntdll!_TEB32"} \X {"ThreadLocalStoragePointer"} \subseteq Fields
ASSUME BoundsAssumption == {MaxGarbage, MaxFailures, MaxChanges} \subseteq Nat

VARIABLES
  machine,   \* the processor types of the engine now
  target,    \* target_info_instance; "0" is a type that was not read
  current,   \* the engine's current thread
  step,      \* where the command is
  cmd,       \* locals of forEachThread: original_index, indexes and i
  rows,      \* what the command has shown
  failed,    \* the calls of this command that failed
  began,     \* the thread that was current when the command was entered
  changes,   \* changes of symbols or machine so far
  symbols    \* history: the build that was loaded when the first TEB was shown

tvars == <<machine, target, current, step, cmd, rows, failed, began, changes, symbols>>
vars == <<cachevars, tvars>>

Ids == {ThreadList[i] : i \in 1 .. Len(ThreadList)}
NoCmd == [all |-> FALSE, original_index |-> {}, n |-> 0, indexes |-> << >>, i |-> 0]

(* WinDbgExtensionDllInit calls target_info::init: either type may stay 0. *)
Init ==
  /\ CacheInit
  /\ machine \in Machines
  /\ target \in [actualProcessorType: {machine.actual, "0"},
                 effectiveProcessorType: {machine.effective, "0"}]
  /\ current \in Ids /\ began = current
  /\ step = "idle" /\ cmd = NoCmd /\ rows = << >> /\ failed = {} /\ changes = 0
  /\ symbols = {}

Goto(s) == step' = s
(* A call fails when it must, and when it may: refused says it must.       *)
FailIf(refused, call) ==
  /\ refused \/ Cardinality(failed) < MaxFailures
  /\ failed' = failed \cup {call}
Fail(call) == FailIf(FALSE, call)
Set(field, x) == cmd' = [cmd EXCEPT ![field] = x]

-----------------------------------------------------------------------------
(* class Thread.  An address is that of a TEB of a thread, null, which is  *)
(* what a failed load_pointer returns, or a number that was never written; *)
(* the pointer in a TEB is named by the offset it was loaded from.         *)
Teb(t)   == <<"TEB", t>>
Teb32(t) == <<"TEB32", t>>
Null     == <<"null">>
Garbage  == <<"garbage">>

is32on64(tgt) == tgt.actualProcessorType = "AMD64" /\ tgt.effectiveProcessorType = "I386"

(* GetTeb, given what GetTebAddress left in teb.  The first pointer of the *)
(* TEB of a WOW64 thread is the address of its 32-bit TEB.                 *)
GetTeb(teb) ==
  IF ~is32on64(target) THEN {teb}
  ELSE {IF teb = Garbage THEN Garbage ELSE Teb32(teb[2]), Null}

(* Mutant: the actual processor decides. *)
Mutant_TlsField ==
  IF target.actualProcessorType = "AMD64" THEN <<"ntdll!_TEB", "ThreadLocalStoragePointer">>
  ELSE <<"ntdll!_TEB32", "ThreadLocalStoragePointer">>

TlsField ==
  IF target.effectiveProcessorType = "AMD64" THEN <<"ntdll!_TEB", "ThreadLocalStoragePointer">>
  ELSE <<"ntdll!_TEB32", "ThreadLocalStoragePointer">>

(* Thread::load(0) and dump, for the row of thread id. *)
ShowThread(id) ==
  /\ get_field_offset(TlsField)
  /\ symbols' = IF symbols = {} THEN {build} ELSE symbols
  /\ \E teb \in {Teb(current), Garbage} :
       /\ IF teb = Garbage THEN Fail(<<"teb", id>>) ELSE UNCHANGED failed
       /\ \E base \in GetTeb(teb) :
            rows' = Append(rows, [id |-> id, base |-> base, tlshead |-> Offset(TlsField)])

-----------------------------------------------------------------------------
(* !ts *)
Ts ==
  /\ step = "idle"
  /\ began' = current /\ cmd' = NoCmd /\ failed' = {}
  /\ rows' = << >> /\ Goto("one")
  /\ UNCHANGED <<cachevars, machine, target, current, changes, symbols>>

One ==
  /\ step = "one" /\ ShowThread(current) /\ Goto("idle")
  /\ UNCHANGED <<machine, target, current, cmd, began, changes>>

(* !ts -all; without a client or its IDebugSystemObjects4 nothing is done. *)
TsAll ==
  /\ step = "idle"
  /\ began' = current /\ cmd' = [NoCmd EXCEPT !.all = TRUE]
  /\ rows' = << >>
  /\ \/ Goto("save") /\ failed' = {}
     \/ Goto("idle") /\ failed' = {<<"DebugCreate">>}
  /\ UNCHANGED <<cachevars, machine, target, current, changes, symbols>>

(* system->GetCurrentThreadId(&original_index) *)
GetCurrentThreadId ==
  /\ step = "save" /\ Goto("count")
  /\ \/ Set("original_index", {current}) /\ UNCHANGED failed
     \/ Fail(<<"GetCurrentThreadId">>) /\ UNCHANGED cmd
  /\ UNCHANGED <<cachevars, machine, target, current, rows, began, changes, symbols>>

(* system->GetNumberThreads(&n), and the two vectors of n elements: a      *)
(* count that was not written may be too large for them, which ends the    *)
(* command by an exception.                                                *)
GetNumberThreads ==
  /\ step = "count"
  /\ \/ Set("n", Len(ThreadList)) /\ UNCHANGED failed /\ Goto("list")
     \/ Fail(<<"GetNumberThreads">>)
        /\ \/ \E n \in 0 .. MaxGarbage : Set("n", n) /\ Goto("list")
           \/ UNCHANGED cmd /\ Goto("idle")
  /\ UNCHANGED <<cachevars, machine, target, current, rows, began, changes, symbols>>

(* system->GetThreadIdsByIndex(0, n, ...); the vectors hold zeros.  It     *)
(* fails for more threads than there are.                                  *)
GetThreadIdsByIndex ==
  /\ step = "list" /\ Goto("switch")
  /\ \/ /\ cmd.n <= Len(ThreadList)
        /\ cmd' = [cmd EXCEPT !.indexes = SubSeq(ThreadList, 1, cmd.n), !.i = 1]
        /\ UNCHANGED failed
     \/ /\ cmd' = [cmd EXCEPT !.indexes = [j \in 1 .. cmd.n |-> 0], !.i = 1]
        /\ FailIf(cmd.n > Len(ThreadList), <<"GetThreadIdsByIndex">>)
  /\ UNCHANGED <<cachevars, machine, target, current, rows, began, changes, symbols>>

(* What a SetCurrentThreadId does; the engine refuses what is no thread.   *)
SetCurrentThreadId(t, call) ==
  \/ current' = t /\ t \in Ids /\ UNCHANGED failed
  \/ UNCHANGED current /\ FailIf(t \notin Ids, call)

(* Mutants: the loop stops after a failure and does not go back; and a     *)
(* thread that cannot be made current is tried again.                      *)
Mutant_Switch ==
  /\ step = "switch" /\ cmd.i <= cmd.n
  /\ SetCurrentThreadId(cmd.indexes[cmd.i], <<"switch", cmd.i>>)
  /\ Goto(IF failed' = failed THEN "show" ELSE "idle")
  /\ UNCHANGED <<cachevars, machine, target, cmd, rows, began, changes, symbols>>

Mutant_SwitchAgain ==
  /\ step = "switch" /\ cmd.i <= cmd.n
  /\ SetCurrentThreadId(cmd.indexes[cmd.i], <<"switch", cmd.i>>)
  /\ Goto(IF <<"switch", cmd.i>> \in failed' THEN "switch" ELSE "show")
  /\ UNCHANGED <<cachevars, machine, target, cmd, rows, began, changes, symbols>>

Switch ==
  /\ step = "switch" /\ cmd.i <= cmd.n
  /\ SetCurrentThreadId(cmd.indexes[cmd.i], <<"switch", cmd.i>>)
  /\ Goto("show")
  /\ UNCHANGED <<cachevars, machine, target, cmd, rows, began, changes, symbols>>

(* callback(indexes[i], ids[i]) *)
Callback ==
  /\ step = "show" /\ ShowThread(cmd.indexes[cmd.i])
  /\ Set("i", cmd.i + 1) /\ Goto("switch")
  /\ UNCHANGED <<machine, target, current, began, changes>>

(* system->SetCurrentThreadId(original_index), a number that may never     *)
(* have been written.                                                      *)
Restore ==
  /\ step = "switch" /\ cmd.i > cmd.n /\ Goto("idle")
  /\ \E t \in IF cmd.original_index = {} THEN Ids ELSE cmd.original_index :
       SetCurrentThreadId(t, <<"restore">>)
  /\ UNCHANGED <<cachevars, machine, target, cmd, rows, began, changes, symbols>>

(* Between commands the user changes symbols, thread or machine.           *)
Change ==
  /\ step = "idle" /\ changes < MaxChanges /\ changes' = changes + 1
  /\ \/ Reload /\ UNCHANGED <<machine, current>>
     \/ current' \in Ids /\ UNCHANGED <<cachevars, machine>>
     \/ machine' \in {m \in Machines : m.actual = machine.actual}
        /\ UNCHANGED <<cachevars, current>>
  /\ rows' = << >> /\ failed' = {} /\ began' = current' /\ cmd' = NoCmd
  /\ UNCHANGED <<target, step, symbols>>

Proceed ==
  \/ One \/ GetCurrentThreadId \/ GetNumberThreads \/ GetThreadIdsByIndex
  \/ Switch \/ Callback \/ Restore

Next == Ts \/ TsAll \/ Proceed \/ Change

(* The engine runs a command until it returns. *)
Spec == Init /\ [][Next]_vars /\ WF_vars(Proceed)

-----------------------------------------------------------------------------
(* The locals of forEachThread and the rows of !ts are well typed.         *)
TypeOK ==
  /\ CacheTypeOK
  /\ step \in {"idle", "one", "save", "count", "list", "switch", "show"}
  /\ current \in Ids /\ began \in Ids
  /\ cmd.original_index \subseteq Ids
  /\ Len(cmd.indexes) \in {0, cmd.n} /\ cmd.i \in 0 .. cmd.n + 1

(* A command leaves the debugger on the thread it was on, whichever of its *)
(* calls fail in between, unless the engine would not say which thread it  *)
(* is on or refuses to go back (forEachThread).                            *)
ThreadRestored ==
  step = "idle" /\ failed \cap {<<"GetCurrentThreadId">>, <<"restore">>} = {} => current = began

(* Each row shows the TEB of the thread it names, and the list has every   *)
(* thread once, in order, when the engine answered; a call that failed     *)
(* for one thread spoils no other thread's row.                            *)
OwnTeb(r) == r.base \in {Null, IF is32on64(target) THEN Teb32(r.id) ELSE Teb(r.id)}

RowsAreThreads ==
  /\ step = "idle" /\ cmd.all
     /\ failed \cap {<<"DebugCreate">>, <<"GetNumberThreads">>, <<"GetThreadIdsByIndex">>} = {} =>
       [i \in 1 .. Len(rows) |-> rows[i].id] = ThreadList
  /\ \A i \in 1 .. Len(rows) :
       <<"switch", i>> \notin failed /\ <<"teb", rows[i].id>> \notin failed => OwnTeb(rows[i])

(* Each TEB that was found is read with the layout of its own kind, a      *)
(* 32-bit one with that of a 32-bit TEB, and all of them with that of one  *)
(* build: the symbols loaded when the first TEB was shown.  It holds also  *)
(* when the effective machine has changed since the types were read, and   *)
(* after other symbols were loaded, as long as both types could be read    *)
(* (GetTeb and Thread::load decide by two different tests of them).        *)
TypeOfTeb(base) ==
  IF base[1] = "TEB32" \/ machine.actual = "I386" THEN "ntdll!_TEB32" ELSE "ntdll!_TEB"

LayoutOfTheTeb ==
  "0" \notin {target.actualProcessorType, target.effectiveProcessorType} =>
    \A i \in 1 .. Len(rows) : rows[i].base \notin {Null, Garbage} =>
      \E b \in symbols :
        rows[i].tlshead
          = OffsetIn[b][<<TypeOfTeb(rows[i].base), "ThreadLocalStoragePointer">>]

(* Every command returns. *)
TsEnds == (step # "idle") ~> (step = "idle")
=============================================================================
