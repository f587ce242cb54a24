------------------------------ MODULE ToggleHook ------------------------------
(***************************************************************************)
(* exporthook.c with a wrapper of hook_libc.c: the wrapper puts the first  *)
(* words of the function back (hook_precall), calls it, and writes the     *)
(* jump again (hook_postcall).  gettimeofday_new of epoll.c does the same  *)
(* under a mutex.                                                          *)
(***************************************************************************)
EXTENDS Patch

CONSTANTS
  MaxInstalls,  \* times the application calls doHook
  Nobody

ASSUME ToggleAssumption ==
  MaxInstalls \in Nat /\ Nobody \notin Threads

VARIABLES
  store,     \* h->store: the words hook_precall writes
  locked,    \* the wrapper takes a mutex: gettimeofday_new
  holder,    \* of that mutex
  installs   \* calls of doHook so far

vars == <<patchVars, store, locked, holder, installs>>

Init ==
  /\ PatchInit
  /\ store = Original /\ locked \in BOOLEAN /\ holder = Nobody /\ installs = 0

(* exporthook, through doHook: the words are saved, then replaced.         *)
DoHook(t) ==
  /\ t = Installer /\ installs < MaxInstalls
  /\ Begin(t, <<"save", 0>>)
  /\ installs' = installs + 1
  /\ UNCHANGED <<word, calls, ran, lost, store, locked, holder>>

Save(t, k) ==
  /\ At(t, <<"save", k>>)
  /\ store' = [store EXCEPT ![k] = word[k]]
  /\ Goto(t, IF k = 2 THEN <<"patch", 0>> ELSE <<"save", k + 1>>)
  /\ UNCHANGED <<word, locked, holder, installs>> /\ Unmarked

WriteJump(t, k) ==
  /\ At(t, <<"patch", k>>)
  /\ word' = [word EXCEPT ![k] = "jump"]
  /\ IF k = 2 THEN Pop(t) ELSE Goto(t, <<"patch", k + 1>>)
  /\ UNCHANGED <<store, locked, holder, installs>> /\ Unmarked

(* The wrapper.                                                            *)
Entry == IF locked THEN <<"lock", 0>> ELSE <<"pre", 0>>

Lock(t) ==
  /\ At(t, <<"lock", 0>>) /\ holder = Nobody
  /\ holder' = t
  /\ Goto(t, <<"pre", 0>>)
  /\ UNCHANGED <<word, store, locked, installs>> /\ Unmarked

(* Mutant: the loop of hook_precall ends one word early.                   *)
PrecallShort(t, k) ==
  /\ At(t, <<"pre", k>>)
  /\ Len(stack[t]) < Depth
  /\ word' = [word EXCEPT ![k] = IF k = 2 THEN @ ELSE store[k]]
  /\ Replace(t, IF k = 2 THEN << <<"orig", 0>>, <<"post", 0>> >> ELSE << <<"pre", k + 1>> >>)
  /\ UNCHANGED <<store, locked, holder, installs>> /\ Unmarked

(* Mutant: the original is not called.                                     *)
PrecallOnly(t, k) ==
  /\ At(t, <<"pre", k>>)
  /\ Len(stack[t]) < Depth
  /\ word' = [word EXCEPT ![k] = store[k]]
  /\ Goto(t, IF k = 2 THEN <<"post", 0>> ELSE <<"pre", k + 1>>)
  /\ UNCHANGED <<store, locked, holder, installs>> /\ Unmarked

(* hook_precall, followed by the call of the original.                     *)
Precall(t, k) ==
  /\ At(t, <<"pre", k>>)
  /\ Len(stack[t]) < Depth
  /\ word' = [word EXCEPT ![k] = store[k]]
  /\ Replace(t, IF k = 2 THEN << <<"orig", 0>>, <<"post", 0>> >> ELSE << <<"pre", k + 1>> >>)
  /\ UNCHANGED <<store, locked, holder, installs>> /\ Unmarked

(* Mutant: the mutex is released before hook_postcall.                     *)
PostcallUnlocked(t, k) ==
  /\ At(t, <<"post", k>>)
  /\ word' = [word EXCEPT ![k] = "jump"]
  /\ IF k = 2 THEN Pop(t) ELSE Goto(t, <<"post", k + 1>>)
  /\ holder' = IF k = 0 /\ holder = t THEN Nobody ELSE holder
  /\ UNCHANGED <<store, locked, installs>> /\ Unmarked

(* Mutant: hook_postcall is left out when another thread is in the wrapper.*)
PostcallLast(t, k) ==
  LET others == {u \in Threads \ {t} : \E j \in 1 .. Len(stack[u]) : stack[u][j][1] = "post"} IN
  /\ At(t, <<"post", k>>)
  /\ word' = IF others = {} THEN [word EXCEPT ![k] = "jump"] ELSE word
  /\ IF k = 2 THEN Pop(t) ELSE Goto(t, <<"post", k + 1>>)
  /\ holder' = IF k = 2 /\ holder = t THEN Nobody ELSE holder
  /\ UNCHANGED <<store, locked, installs>> /\ Unmarked

(* Mutant: the mutex is not released.                                      *)
PostcallHolding(t, k) ==
  /\ At(t, <<"post", k>>)
  /\ word' = [word EXCEPT ![k] = "jump"]
  /\ IF k = 2 THEN Pop(t) ELSE Goto(t, <<"post", k + 1>>)
  /\ UNCHANGED <<store, locked, holder, installs>> /\ Unmarked

(* hook_postcall, and the return of the wrapper.                           *)
Postcall(t, k) ==
  /\ At(t, <<"post", k>>)
  /\ word' = [word EXCEPT ![k] = "jump"]
  /\ IF k = 2 THEN Pop(t) ELSE Goto(t, <<"post", k + 1>>)
  /\ holder' = IF k = 2 /\ holder = t THEN Nobody ELSE holder
  /\ UNCHANGED <<store, locked, installs>> /\ Unmarked

Step(t) ==
  \/ Function(t, Entry) /\ UNCHANGED <<store, locked, holder, installs>>
  \/ Lock(t)
  \/ \E k \in Words : Save(t, k) \/ WriteJump(t, k) \/ Precall(t, k) \/ Postcall(t, k)

Next ==
  \E t \in Threads :
    \/ Call(t) /\ UNCHANGED <<store, locked, holder, installs>>
    \/ DoHook(t) \/ Step(t)

Spec == Init /\ [][Next]_vars
FairSpec == Spec /\ \A t \in Threads : WF_vars(Step(t))
-----------------------------------------------------------------------------
Quiet == \A t \in Threads : stack[t] = <<>>

(* Type invariant of the code, the stacks and the mutex.                   *)
TypeOK ==
  /\ word \in [Words -> {"orig", "jump"}] /\ store \in [Words -> {"orig", "jump"}]
  /\ \A t \in Threads : \A j \in 1 .. Len(stack[t]) :
       stack[t][j] \in ({"lock", "save", "patch", "pre", "post"} \X Words) \cup ({"orig"} \X (0 .. 3))
  /\ locked \in BOOLEAN /\ holder \in Threads \cup {Nobody}
  /\ lost \in BOOLEAN /\ overlap \in BOOLEAN
  /\ \A t \in Threads : calls[t] \in 0 .. MaxCalls /\ ran[t] \in Nat

(* Threads that take turns are safe: half-written code is only executed    *)
(* when a call overlaps another call or the installation.                  *)
SafeInTurn == lost => overlap

(* However wrappers interleave, word by word, the hook is back in place    *)
(* once nobody is inside: every hook_precall is undone by a hook_postcall. *)
HookedWhenQuiet == Quiet /\ installs > 0 => word = Jumped

(* "Write the original instructions back" (hook.c): a thread that calls    *)
(* the original from the wrapper finds the original, as long as no other   *)
(* thread is around or all hold the mutex, and the hook was installed      *)
(* once.  A second doHook saves its own jump as the original words.        *)
WrapperSeesOriginal ==
  installs = 1 /\ (locked \/ ~overlap) =>
    \A t \in Threads : Len(stack[t]) > 1 => word = Original

(* Every call that returns has run the original once, hooked or not, with  *)
(* or without re-entry of the wrapper.                                     *)
OriginalOnce ==
  [][\A t \in Threads :
       stack[t] # <<>> /\ stack'[t] = <<>> /\ Head(stack[t])[1] # "patch" => ran'[t] = 1]_vars

(* Under the mutex a call returns, unless some thread has been lost, or    *)
(* hook_precall wrote the jump of a second doHook: the wrapper then enters *)
(* itself until it waits for the mutex it holds.                           *)
CallReturns ==
  locked => \A t \in Threads :
    (stack[t] # <<>>) ~> (stack[t] = <<>> \/ lost \/ installs > 1)
=============================================================================
