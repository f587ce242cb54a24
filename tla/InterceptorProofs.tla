-------------------------- MODULE InterceptorProofs --------------------------
(***************************************************************************)
(* Proofs about Interceptor: between API calls isEnabled agrees with the   *)
(* code, and no replacement runs without its original, for all threads,    *)
(* functions and hook types and without the bounds of the run.             *)
(*                                                                         *)
(* The second part is about the call stacks: however calls nest, the       *)
(* entries of a hook and thread are exactly its calls in between the two   *)
(* thunks, so each thunk returns to its own caller, and no thread goes     *)
(* astray but by the two races and the stale caches the model marks.       *)
(***************************************************************************)
EXTENDS Interceptor, TLAPS

Half == <<"jump", "orig">>
Other == <<"orig", "jump">>
Code == {Original, Jumped, Half, Other}

Agrees(f) == word[f] = IF f \in enabled THEN Jumped ELSE Original

(* Where an API call stands, and that it works on one known function.      *)
OpOK ==
  \/ op = Idle
  \/ op \in {"key", "build"} \X Functions \X Types
  \/ op \in {"enable"} \X Functions \X {1}
  \/ op \in {"patch", "restore"} \X Functions \X {1, 2}

(* What the code looks like while the words of a function are written.     *)
CodeOK ==
  /\ word \in [Functions -> Code]
  /\ \A f \in Functions : Agrees(f) \/ Patching(f)
  /\ op[1] = "patch" => /\ op[2] \in enabled
                        /\ word[op[2]] = IF op[3] = 1 THEN Original ELSE Half
  /\ op[1] = "restore" =>
       IF op[3] = 1 THEN Agrees(op[2]) ELSE word[op[2]] \in {Original, Other}

HookInv ==
  /\ type \in [Functions -> Types \cup {"none"}]
  /\ enabled \subseteq Functions
  /\ OpOK /\ CodeOK

LEMMA HookInitially == Init => HookInv
  BY DEF Init, HookInv, OpOK, CodeOK, Agrees, Idle, Code, Original

LEMMA Words ==
  ASSUME NEW f \in Functions, word \in [Functions -> Code], NEW v \in {"jump", "orig"}
  PROVE  /\ [word EXCEPT ![f][1] = v][f] = <<v, word[f][2]>>
         /\ [word EXCEPT ![f][2] = v][f] = <<word[f][1], v>>
         /\ \A k \in {1, 2} : \A g \in Functions \ {f} : [word EXCEPT ![f][k] = v][g] = word[g]
         /\ \A k \in {1, 2} : [word EXCEPT ![f][k] = v] \in [Functions -> Code]
<1>1. word[f] \in Code
  OBVIOUS
<1>2. [word[f] EXCEPT ![1] = v] = <<v, word[f][2]>>
  BY <1>1 DEF Code, Original, Jumped, Half, Other
<1>3. [word[f] EXCEPT ![2] = v] = <<word[f][1], v>>
  BY <1>1 DEF Code, Original, Jumped, Half, Other
<1>4. <<v, word[f][2]>> \in Code /\ <<word[f][1], v>> \in Code
  BY <1>1 DEF Code, Original, Jumped, Half, Other
<1> QED BY <1>2, <1>3, <1>4

(* An API call begins.                                                     *)
LEMMA AskKeeps ==
  ASSUME HookInv, NEW f \in Functions, NEW y \in Types,
         Hook(f, y) \/ EnableHook(f) \/ DisableHook(f)
  PROVE  HookInv'
<1> USE DEF HookInv, OpOK, CodeOK, Agrees, Patching, Ask, hooks, Idle
<1>1. CASE Hook(f, y)
  BY <1>1 DEF Hook
<1>2. CASE EnableHook(f)
  BY <1>2 DEF EnableHook
<1>3. CASE DisableHook(f)
  BY <1>3 DEF DisableHook
<1> QED BY <1>1, <1>2, <1>3

(* It goes on to the point where it writes code.                           *)
LEMMA BuildKeeps ==
  ASSUME HookInv, MoveKeys \/ NewKey \/ BuildHook \/ Enable
  PROVE  HookInv'
<1> USE DEF HookInv, OpOK, CodeOK, Agrees, Patching, Doing, Then, hooks, Idle
<1>1. CASE MoveKeys
  BY <1>1 DEF MoveKeys
<1>2. CASE NewKey
  BY <1>2 DEF NewKey
<1>3. CASE BuildHook
  BY <1>3 DEF BuildHook
<1>4. ASSUME Enable PROVE HookInv'
  <2> USE <1>4 DEF Enable
  <2>1. op[2] \in Functions /\ Agrees(op[2])
    OBVIOUS
  <2>2. CASE op[2] \in enabled
    <3>1. enabled' = enabled
      BY <2>2
    <3> QED BY <2>2, <3>1
  <2>3. CASE op[2] \notin enabled
    <3>1. op' = <<"patch", op[2], 1>>
      BY <2>3
    <3>2. \A g \in Functions : g # op[2] => Agrees(g)'
      BY <2>3
    <3> QED BY <2>1, <2>3, <3>1, <3>2
  <2> QED BY <2>2, <2>3
<1> QED BY <1>1, <1>2, <1>3, <1>4

(* It writes a word.                                                       *)
LEMMA WordKeeps ==
  ASSUME HookInv, Patch \/ Restore
  PROVE  HookInv'
<1> USE DEF HookInv, OpOK, CodeOK, Agrees, Patching, Doing, Then, Idle
<1>0. op[2] \in Functions /\ op[3] \in {1, 2}
  BY DEF Patch, Restore
<1>1. ASSUME Patch PROVE HookInv'
  <2> USE <1>1 DEF Patch, Write
  <2>1. word' \in [Functions -> Code] /\ \A g \in Functions \ {op[2]} : word'[g] = word[g]
    BY <1>0, Words, ZenonT(40)
  <2>2. CASE op[3] = 1
    <3>1. word'[op[2]] = Half /\ op' = <<"patch", op[2], 2>>
      BY <1>0, <2>2, Words DEF Original, Half
    <3> QED BY <1>0, <2>1, <3>1
  <2>3. CASE op[3] = 2
    <3>1. word'[op[2]] = Jumped /\ op' = <<"idle">>
      BY <1>0, <2>3, Words DEF Jumped, Half
    <3> QED BY <1>0, <2>1, <3>1
  <2> QED BY <1>0, <2>2, <2>3
<1>2. ASSUME Restore PROVE HookInv'
  <2> USE <1>2 DEF Restore, Write
  <2>1. word' \in [Functions -> Code] /\ \A g \in Functions \ {op[2]} : word'[g] = word[g]
    BY <1>0, Words, ZenonT(40)
  <2>2. CASE op[3] = 1
    <3>1. op' = <<"restore", op[2], 2>> /\ enabled' = enabled
      BY <2>2
    <3>2. word'[op[2]] \in {Original, Other}
      BY <1>0, <2>2, Words DEF Original, Jumped, Other
    <3> QED BY <1>0, <2>1, <3>1, <3>2
  <2>3. CASE op[3] = 2
    <3>1. op' = <<"idle">> /\ enabled' = enabled \ {op[2]}
      BY <2>3
    <3>2. word'[op[2]] = Original
      BY <1>0, <2>3, Words, SMTT(30) DEF Original, Other
    <3> QED BY <1>0, <2>1, <3>1, <3>2
  <2> QED BY <1>0, <2>2, <2>3
<1> QED BY <1>1, <1>2

(* The threads that call write no code.                                    *)
LEMMA ThreadsKeepHooks ==
  ASSUME NEW t \in Threads, Run(t) \/ CallOrigin(t) \/ \E f \in Functions : Call(t, f)
  PROVE  UNCHANGED <<hooks, op>>
  BY DEF Run, Execute, Redirect, Astray, StaleSlice, Begin, BeginRaced, PreDone, StubDone, Return, End,
         EndAstray, PostDone, CallOrigin, Call, Unhooking, Lose

LEMMA HookStep == HookInv /\ [Next]_vars => HookInv'
<1> SUFFICES ASSUME HookInv, [Next]_vars PROVE HookInv'
  OBVIOUS
<1>1. ASSUME UNCHANGED <<hooks, op>> PROVE HookInv'
  BY <1>1 DEF HookInv, OpOK, CodeOK, Agrees, Patching, hooks
<1>2. CASE UNCHANGED vars
  BY <1>1, <1>2 DEF vars
<1>3. CASE Hooker
  <2>1. CASE \E f \in Functions, y \in Types : Hook(f, y)
    BY <2>1, AskKeeps
  <2>2. ASSUME NEW f \in Functions, EnableHook(f) \/ DisableHook(f) PROVE HookInv'
    <3>1. type[f] \in Types
      BY <2>2 DEF EnableHook, DisableHook, HookInv
    <3> QED BY <2>2, <3>1, AskKeeps
  <2> QED BY <1>3, <2>1, <2>2, BuildKeeps, WordKeeps DEF Hooker
<1>4. CASE \E t \in Threads : Run(t) \/ CallOrigin(t) \/ \E f \in Functions : Call(t, f)
  BY <1>1, <1>4, ThreadsKeepHooks
<1> QED BY <1>2, <1>3, <1>4 DEF Next

(* Between API calls isEnabled says what the code says (ZzEnableHook,      *)
(* ZzDisableHook and the thunks of interceptor-arm.c).                     *)
THEOREM EnabledIsPatched == Spec => []EnabledMeansPatched
<1>1. HookInv => EnabledMeansPatched
  BY DEF HookInv, CodeOK, Agrees, Patching, EnabledMeansPatched
<1> QED BY <1>1, HookInitially, HookStep, PTL DEF Spec
-------------------------------------------------------------------------------
(* The frames of the threads.                                              *)
Places == {"first", "second", "enter", "pre", "stub", "body", "replacement", "leave", "post"}
Frames == [fn : Functions, at : Places, diverted : BOOLEAN, popped : Nat]

Ready(frame) == frame.at = "replacement" => frame.fn \in origin
Called(y) == y \in {"replace", "prepost", "both"}

FramesOK ==
  /\ stack \in [Threads -> Seq(Frames)]
  /\ \A t \in Threads : \A i \in DOMAIN stack[t] : Ready(stack[t][i])
EntriesOK == callstack \in [Functions -> [Threads -> Seq(Nat)]]
OriginOK == \A f \in Functions : Called(type[f]) => f \in origin
StackInv == FramesOK /\ EntriesOK /\ OriginOK

LEMMA StackInitially == Init => StackInv
  BY DEF Init, StackInv, FramesOK, EntriesOK, OriginOK, Called

(* A new innermost frame, in place of the old one or above it.             *)
LEMMA ReplaceTop ==
  ASSUME NEW F, NEW s \in Seq(F), s # <<>>, NEW x \in F
  PROVE  /\ <<x>> \o Tail(s) \in Seq(F)
         /\ \A i \in DOMAIN (<<x>> \o Tail(s)) :
              (<<x>> \o Tail(s))[i] = IF i = 1 THEN x ELSE s[i]
         /\ DOMAIN (<<x>> \o Tail(s)) = DOMAIN s
  OBVIOUS

LEMMA PopTop ==
  ASSUME NEW F, NEW s \in Seq(F), s # <<>>
  PROVE  /\ <<>> \o Tail(s) \in Seq(F)
         /\ \A i \in DOMAIN (<<>> \o Tail(s)) : i + 1 \in DOMAIN s /\ (<<>> \o Tail(s))[i] = s[i + 1]
  OBVIOUS

LEMMA PushTop ==
  ASSUME NEW F, NEW s \in Seq(F), NEW x \in F
  PROVE  /\ <<x>> \o s \in Seq(F)
         /\ \A i \in DOMAIN (<<x>> \o s) :
              \/ i = 1 /\ (<<x>> \o s)[i] = x
              \/ i - 1 \in DOMAIN s /\ (<<x>> \o s)[i] = s[i - 1]
  OBVIOUS

(* A thread whose innermost frame changes to x, with *origin_ptr unchanged.*)
LEMMA MovesKeep ==
  ASSUME FramesOK, NEW t \in Threads, stack[t] # <<>>, NEW x \in Frames, Ready(x),
         Replace(t, <<x>>), UNCHANGED origin
  PROVE  FramesOK'
<1> USE DEF FramesOK, Replace
<1>1. stack[t] \in Seq(Frames)
  OBVIOUS
<1>2. stack' = [stack EXCEPT ![t] = <<x>> \o Tail(stack[t])]
  OBVIOUS
<1>3. <<x>> \o Tail(stack[t]) \in Seq(Frames)
  BY <1>1, ReplaceTop
<1>4. \A i \in DOMAIN (<<x>> \o Tail(stack[t])) : Ready((<<x>> \o Tail(stack[t]))[i])
  BY <1>1, ReplaceTop
<1>5. stack'[t] = <<x>> \o Tail(stack[t]) /\ \A u \in Threads \ {t} : stack'[u] = stack[u]
  BY <1>2
<1>6. stack' \in [Threads -> Seq(Frames)]
  BY <1>2, <1>3
<1>7. ASSUME NEW u \in Threads, NEW i \in DOMAIN stack'[u] PROVE Ready(stack[u][i])'
  BY <1>4, <1>5 DEF Ready
<1> QED BY <1>6, <1>7

LEMMA ReturnsKeep ==
  ASSUME FramesOK, NEW t \in Threads, stack[t] # <<>>, Replace(t, <<>>), UNCHANGED origin
  PROVE  FramesOK'
<1> USE DEF FramesOK, Replace
<1>1. stack[t] \in Seq(Frames)
  OBVIOUS
<1>2. stack' = [stack EXCEPT ![t] = <<>> \o Tail(stack[t])]
  OBVIOUS
<1>3. <<>> \o Tail(stack[t]) \in Seq(Frames)
  BY <1>1, PopTop
<1>4. \A i \in DOMAIN (<<>> \o Tail(stack[t])) : Ready((<<>> \o Tail(stack[t]))[i])
  BY <1>1, PopTop
<1>5. stack'[t] = <<>> \o Tail(stack[t]) /\ \A u \in Threads \ {t} : stack'[u] = stack[u]
  BY <1>2
<1>6. stack' \in [Threads -> Seq(Frames)]
  BY <1>2, <1>3
<1>7. ASSUME NEW u \in Threads, NEW i \in DOMAIN stack'[u] PROVE Ready(stack[u][i])'
  BY <1>4, <1>5 DEF Ready
<1> QED BY <1>6, <1>7

LEMMA PushesKeep ==
  ASSUME FramesOK, NEW t \in Threads, NEW f \in Functions, NEW at \in {"first", "body"},
         Push(t, Frame(f, at)), UNCHANGED origin
  PROVE  FramesOK'
<1> USE DEF FramesOK, Push
<1> DEFINE x == Frame(f, at)
<1>1. x \in Frames /\ Ready(x)
  BY DEF Frame, Frames, Places, Ready
<1> HIDE DEF x
<1>2. stack[t] \in Seq(Frames)
  OBVIOUS
<1>3. stack' = [stack EXCEPT ![t] = <<x>> \o stack[t]]
  BY DEF x
<1>4. <<x>> \o stack[t] \in Seq(Frames)
  BY <1>1, <1>2, PushTop
<1>5. \A i \in DOMAIN (<<x>> \o stack[t]) : Ready((<<x>> \o stack[t])[i])
  BY <1>1, <1>2, PushTop
<1>6. stack'[t] = <<x>> \o stack[t] /\ \A u \in Threads \ {t} : stack'[u] = stack[u]
  BY <1>3
<1>7. stack' \in [Threads -> Seq(Frames)]
  BY <1>3, <1>4
<1>8. ASSUME NEW u \in Threads, NEW i \in DOMAIN stack'[u] PROVE Ready(stack[u][i])'
  BY <1>5, <1>6 DEF Ready
<1> QED BY <1>7, <1>8

(* The call stacks stay sequences of depths.                               *)
LEMMA EntriesKeep ==
  ASSUME StackInv, NEW t \in Threads, NEW f \in Functions
  PROVE  /\ [callstack EXCEPT ![f][t] = <<Len(stack[t])>> \o @] \in [Functions -> [Threads -> Seq(Nat)]]
         /\ [callstack EXCEPT ![f][t] = <<Len(stack[t])>>] \in [Functions -> [Threads -> Seq(Nat)]]
         /\ callstack[f][t] # <<>> =>
              /\ [callstack EXCEPT ![f][t] = Tail(@)] \in [Functions -> [Threads -> Seq(Nat)]]
              /\ Head(callstack[f][t]) \in Nat
<1> USE DEF StackInv, FramesOK, EntriesOK
<1>1. callstack[f] \in [Threads -> Seq(Nat)] /\ callstack[f][t] \in Seq(Nat) /\ stack[t] \in Seq(Frames)
  OBVIOUS
<1>2. Len(stack[t]) \in Nat
  BY <1>1
<1>3. <<Len(stack[t])>> \in Seq(Nat) /\ <<Len(stack[t])>> \o callstack[f][t] \in Seq(Nat)
  BY <1>1, <1>2
<1>4. callstack[f][t] # <<>> => Tail(callstack[f][t]) \in Seq(Nat) /\ Head(callstack[f][t]) \in Nat
  BY <1>1
<1>5. ASSUME NEW s \in Seq(Nat)
      PROVE  [callstack EXCEPT ![f][t] = s] \in [Functions -> [Threads -> Seq(Nat)]]
  BY <1>1, <1>5
<1> QED BY <1>3, <1>4, <1>5

LEMMA Innermost ==
  ASSUME FramesOK, NEW t \in Threads, stack[t] # <<>>
  PROVE  Head(stack[t]) \in Frames /\ Ready(Head(stack[t])) /\ Fn(t) \in Functions
<1>1. stack[t] \in Seq(Frames)
  BY DEF FramesOK
<1>2. 1 \in DOMAIN stack[t] /\ Head(stack[t]) = stack[t][1] /\ stack[t][1] \in Frames
  BY <1>1
<1> QED BY <1>2 DEF FramesOK, Fn, Frames

LEMMA GotoKeeps ==
  ASSUME FramesOK, NEW t \in Threads, stack[t] # <<>>, NEW at \in Places,
         at = "replacement" => Fn(t) \in origin, Goto(t, at), UNCHANGED origin
  PROVE  FramesOK'
<1> DEFINE x == [Head(stack[t]) EXCEPT !.at = at]
<1>1. x \in Frames /\ Ready(x)
  BY Innermost DEF Frames, Ready, Fn
<1>2. Replace(t, <<x>>)
  BY DEF Goto
<1> QED BY <1>1, <1>2, MovesKeep

(* Every step of a thread that calls.                                      *)
LEMMA ThreadKeepsFrames ==
  ASSUME StackInv, NEW t \in Threads, Run(t) \/ CallOrigin(t) \/ \E f \in Functions : Call(t, f)
  PROVE  StackInv'
<1> USE DEF StackInv
<1>1. UNCHANGED <<type, origin>> /\ OriginOK'
  BY ThreadsKeepHooks DEF hooks, OriginOK
<1>2. CASE Execute(t)
  BY <1>1, <1>2, GotoKeeps DEF Execute, In, Places, EntriesOK
<1>3. ASSUME Redirect(t) PROVE StackInv'
  <2>1. stack[t] # <<>> /\ UNCHANGED callstack
    BY <1>3 DEF Redirect, In
  <2>2. Type(t) = "replace" => Fn(t) \in origin
    BY <2>1, Innermost DEF OriginOK, Called, Type
  <2>3. FramesOK'
    BY <1>1, <1>3, <2>1, <2>2, GotoKeeps DEF Redirect, Places
  <2> QED BY <1>1, <2>1, <2>3 DEF EntriesOK
<1>4. CASE Astray(t) \/ StaleSlice(t) \/ EndAstray(t)
  BY <1>1, <1>4 DEF Astray, StaleSlice, EndAstray, Lose, threads, FramesOK, EntriesOK, Ready
<1>5. ASSUME Begin(t) PROVE StackInv'
  <2>1. stack[t] # <<>> /\ Fn(t) \in Functions
    BY <1>5, Innermost DEF Begin, In
  <2>2. FramesOK'
    BY <1>1, <1>5, <2>1, GotoKeeps DEF Begin, Places
  <2>3. EntriesOK'
    BY <1>5, <2>1, EntriesKeep DEF Begin, EntriesOK
  <2> QED BY <1>1, <2>2, <2>3
<1>6. ASSUME BeginRaced(t) PROVE StackInv'
  <2>1. stack[t] # <<>> /\ Fn(t) \in Functions
    BY <1>6, Innermost DEF BeginRaced, In
  <2>2. FramesOK'
    <3>1. CASE UNCHANGED threads
      BY <1>1, <3>1 DEF threads, FramesOK, Ready
    <3>2. CASE Goto(t, "pre")
      BY <1>1, <2>1, <3>2, GotoKeeps DEF Places
    <3> QED BY <1>6, <3>1, <3>2 DEF BeginRaced
  <2>3. EntriesOK'
    <3>1. CASE UNCHANGED callstack
      BY <3>1 DEF EntriesOK
    <3>2. CASE callstack' = [callstack EXCEPT ![Fn(t)][t] = <<Len(stack[t])>>]
      BY <2>1, <3>2, EntriesKeep DEF EntriesOK
    <3> QED BY <1>6, <3>1, <3>2 DEF BeginRaced, threads
  <2> QED BY <1>1, <2>2, <2>3
<1>7. ASSUME PreDone(t) PROVE StackInv'
  <2> DEFINE at == CASE Type(t) = "both" -> "replacement"
                     [] Type(t) = "insn" -> "leave"
                     [] OTHER -> "body"
             x == [Head(stack[t]) EXCEPT !.at = at, !.diverted = Type(t) # "insn"]
  <2>1. stack[t] # <<>> /\ UNCHANGED callstack /\ Replace(t, <<x>>)
    BY <1>7 DEF PreDone, In
  <2>2. at = "replacement" => Fn(t) \in origin
    BY <2>1, Innermost DEF OriginOK, Called, Type
  <2>3. at \in Places
    BY DEF Places
  <2> HIDE DEF at
  <2>4. x \in Frames /\ Ready(x)
    BY <2>1, <2>2, <2>3, Innermost DEF Frames, Ready, Fn
  <2> HIDE DEF x
  <2> QED BY <1>1, <2>1, <2>4, MovesKeep DEF EntriesOK
<1>8. CASE StubDone(t)
  BY <1>1, <1>8, GotoKeeps DEF StubDone, In, Places, EntriesOK
<1>9. CASE Return(t)
  BY <1>1, <1>9, GotoKeeps, ReturnsKeep DEF Return, In, Places, EntriesOK
<1>10. ASSUME End(t) PROVE StackInv'
  <2> DEFINE x == [Head(stack[t]) EXCEPT !.at = "post", !.popped = Head(Entries(t))]
  <2>1. stack[t] # <<>> /\ Fn(t) \in Functions /\ Entries(t) # <<>> /\ Replace(t, <<x>>)
    BY <1>10, Innermost DEF End, In
  <2>2. EntriesOK' /\ Head(Entries(t)) \in Nat
    BY <1>10, <2>1, EntriesKeep DEF End, Entries, EntriesOK
  <2>3. x \in Frames /\ Ready(x)
    BY <2>1, <2>2, Innermost DEF Frames, Places, Ready
  <2> HIDE DEF x
  <2> QED BY <1>1, <2>1, <2>2, <2>3, MovesKeep
<1>11. ASSUME PostDone(t) PROVE StackInv'
  <2>1. stack[t] # <<>> /\ UNCHANGED callstack
    BY <1>11 DEF PostDone, In
  <2>2. FramesOK'
    <3>1. CASE UNCHANGED stack
      BY <1>1, <3>1 DEF FramesOK, Ready
    <3>2. CASE Goto(t, "body") \/ Replace(t, <<>>)
      BY <1>1, <2>1, <3>2, GotoKeeps, ReturnsKeep DEF Places
    <3> QED BY <1>11, <3>1, <3>2 DEF PostDone
  <2> QED BY <1>1, <2>1, <2>2 DEF EntriesOK
<1>12. ASSUME CallOrigin(t) PROVE StackInv'
  <2>1. Fn(t) \in Functions /\ UNCHANGED callstack
    BY <1>12, Innermost DEF CallOrigin, In, Lose, threads
  <2>2. FramesOK'
    BY <1>1, <1>12, <2>1, PushesKeep DEF CallOrigin, Lose, threads, FramesOK, Ready
  <2> QED BY <1>1, <2>1, <2>2 DEF EntriesOK
<1>13. ASSUME NEW f \in Functions, Call(t, f) PROVE StackInv'
  BY <1>1, <1>13, PushesKeep DEF Call, EntriesOK
<1> QED BY <1>2, <1>3, <1>4, <1>5, <1>6, <1>7, <1>8, <1>9, <1>10, <1>11, <1>12, <1>13 DEF Run

LEMMA HookerKeepsFrames ==
  ASSUME HookInv, StackInv, Hooker
  PROVE  StackInv'
<1> USE DEF StackInv
<1>1. UNCHANGED threads /\ origin \subseteq origin'
  BY DEF Hooker, Hook, EnableHook, DisableHook, MoveKeys, NewKey, BuildHook, Enable, Patch,
         Restore, hooks
<1>2. FramesOK' /\ EntriesOK'
  BY <1>1 DEF threads, FramesOK, EntriesOK, Ready
<1>3. OriginOK'
  <2>1. CASE UNCHANGED <<type, origin>>
    BY <2>1 DEF OriginOK
  <2>2. CASE BuildHook
    <3>1. op[2] \in Functions
      BY <2>2 DEF BuildHook, Doing, HookInv, OpOK, Idle
    <3>2. type' = [type EXCEPT ![op[2]] = op[3]]
      BY <2>2 DEF BuildHook
    <3>3. Called(op[3]) => op[2] \in origin'
      BY <2>2 DEF BuildHook, Called
    <3> QED BY <1>1, <3>1, <3>2, <3>3 DEF OriginOK, HookInv, Called
  <2> QED BY <2>1, <2>2 DEF Hooker, Hook, EnableHook, DisableHook, MoveKeys, NewKey, Enable,
                            Patch, Restore, hooks
<1> QED BY <1>2, <1>3

LEMMA StackStep == HookInv /\ StackInv /\ [Next]_vars => StackInv'
<1> SUFFICES ASSUME HookInv, StackInv, [Next]_vars PROVE StackInv'
  OBVIOUS
<1>1. CASE UNCHANGED vars
  BY <1>1 DEF vars, hooks, threads, StackInv, FramesOK, EntriesOK, OriginOK, Ready
<1> QED BY <1>1, ThreadKeepsFrames, HookerKeepsFrames DEF Next

(* A replacement runs only when its original can be called: ZzBuildHook    *)
(* sets *origin_ptr before ZzEnableHook writes the jump.                   *)
THEOREM OriginIsReady == Spec => []OriginReady
<1>1. HookInv /\ StackInv => OriginReady
  <2> SUFFICES ASSUME FramesOK PROVE OriginReady
    BY DEF StackInv
  <2> QED BY DEF FramesOK, Ready, OriginReady
<1> QED BY <1>1, HookInitially, StackInitially, HookStep, StackStep, PTL DEF Spec

-----------------------------------------------------------------------------
(* The depths of the frames of f in between its thunks.                    *)
Inside(s, f) == {Len(s) + 1 - i : i \in {j \in DOMAIN s : s[j].fn = f /\ Between(s[j])}}
Values(r) == {r[i] : i \in DOMAIN r}
Decreasing(r) == \A i, j \in DOMAIN r : i < j => r[i] > r[j]
Match(s, r, f) == Values(r) = Inside(s, f) /\ Decreasing(r)

LEMMA InsideMember ==
  ASSUME NEW s \in Seq(Frames), NEW f, NEW d
  PROVE  d \in Inside(s, f) <=> /\ d \in 1 .. Len(s)
                                /\ s[Len(s) + 1 - d].fn = f /\ Between(s[Len(s) + 1 - d])
<1>0. DOMAIN s = 1 .. Len(s) /\ Len(s) \in Nat
  OBVIOUS
<1>1. ASSUME d \in Inside(s, f)
      PROVE  d \in 1 .. Len(s) /\ s[Len(s) + 1 - d].fn = f /\ Between(s[Len(s) + 1 - d])
  <2>1. PICK i \in DOMAIN s : d = Len(s) + 1 - i /\ s[i].fn = f /\ Between(s[i])
    BY <1>1 DEF Inside
  <2>2. i = Len(s) + 1 - d /\ d \in 1 .. Len(s)
    BY <1>0, <2>1
  <2> QED BY <2>1, <2>2
<1>2. ASSUME d \in 1 .. Len(s), s[Len(s) + 1 - d].fn = f, Between(s[Len(s) + 1 - d])
      PROVE  d \in Inside(s, f)
  <2>1. Len(s) + 1 - d \in DOMAIN s /\ d = Len(s) + 1 - (Len(s) + 1 - d)
    BY <1>0, <1>2
  <2> QED BY <1>2, <2>1 DEF Inside
<1> QED BY <1>1, <1>2

LEMMA InsidePush ==
  ASSUME NEW s \in Seq(Frames), NEW x \in Frames, NEW f, ~Between(x)
  PROVE  Inside(<<x>> \o s, f) = Inside(s, f)
<1> DEFINE p == <<x>> \o s
<1>1. /\ p \in Seq(Frames) /\ Len(p) = Len(s) + 1 /\ Len(s) \in Nat
      /\ p[1] = x /\ \A i \in 1 .. Len(s) : p[i + 1] = s[i]
  OBVIOUS
<1> HIDE DEF p
<1>2. ASSUME NEW d PROVE d \in Inside(p, f) <=> d \in Inside(s, f)
  <2>1. ASSUME d \in 1 .. Len(s) PROVE p[Len(p) + 1 - d] = s[Len(s) + 1 - d]
    <3>1. Len(s) + 1 - d \in 1 .. Len(s) /\ Len(p) + 1 - d = (Len(s) + 1 - d) + 1
      BY <1>1, <2>1
    <3> QED BY <1>1, <3>1
  <2>a. d \in Inside(p, f) <=> /\ d \in 1 .. Len(p)
                                /\ p[Len(p) + 1 - d].fn = f /\ Between(p[Len(p) + 1 - d])
    BY <1>1, InsideMember
  <2>b. d \in Inside(s, f) <=> /\ d \in 1 .. Len(s)
                                /\ s[Len(s) + 1 - d].fn = f /\ Between(s[Len(s) + 1 - d])
    BY InsideMember
  <2>2. CASE d = Len(p)
    <3>1. Len(p) + 1 - d = 1 /\ d \notin 1 .. Len(s)
      BY <1>1, <2>2
    <3> QED BY <1>1, <3>1, <2>a, <2>b
  <2>3. CASE d # Len(p)
    <3>1. d \in 1 .. Len(p) <=> d \in 1 .. Len(s)
      BY <1>1, <2>3
    <3> QED BY <3>1, <2>1, <2>a, <2>b
  <2> QED BY <2>2, <2>3
<1> QED BY <1>2 DEF p

LEMMA InsideTop ==
  ASSUME NEW s \in Seq(Frames), s # <<>>, NEW x \in Frames, NEW f
  PROVE  Inside(<<x>> \o Tail(s), f) =
           (Inside(s, f) \ {Len(s)}) \cup (IF x.fn = f /\ Between(x) THEN {Len(s)} ELSE {})
<1> DEFINE p == <<x>> \o Tail(s)
<1>1. /\ p \in Seq(Frames) /\ Len(p) = Len(s) /\ Len(s) \in Nat \ {0}
      /\ p[1] = x /\ \A i \in 2 .. Len(s) : p[i] = s[i]
  OBVIOUS
<1> HIDE DEF p
<1>2. ASSUME NEW d
      PROVE  d \in Inside(p, f) <=> \/ d \in Inside(s, f) /\ d # Len(s)
                                    \/ d = Len(s) /\ x.fn = f /\ Between(x)
  <2>1. CASE d = Len(s)
    BY <1>1, <2>1, InsideMember
  <2>2. CASE d # Len(s)
    <3>1. d \in 1 .. Len(s) => Len(s) + 1 - d \in 2 .. Len(s)
      BY <1>1, <2>2
    <3> QED BY <1>1, <2>2, <3>1, InsideMember
  <2> QED BY <2>1, <2>2
<1> QED BY <1>2 DEF p

LEMMA InsidePop ==
  ASSUME NEW s \in Seq(Frames), s # <<>>, NEW f
  PROVE  Inside(<<>> \o Tail(s), f) = Inside(s, f) \ {Len(s)}
<1> DEFINE p == <<>> \o Tail(s)
<1>1. /\ p \in Seq(Frames) /\ Len(p) = Len(s) - 1 /\ Len(s) \in Nat \ {0}
      /\ \A i \in 1 .. Len(s) - 1 : p[i] = s[i + 1]
  OBVIOUS
<1> HIDE DEF p
<1>2. ASSUME NEW d PROVE d \in Inside(p, f) <=> d \in Inside(s, f) /\ d # Len(s)
  <2>1. d \in 1 .. Len(s) - 1 => /\ Len(p) + 1 - d \in 1 .. Len(s) - 1
                                 /\ Len(s) + 1 - d = (Len(p) + 1 - d) + 1
    BY <1>1
  <2>2. d \in 1 .. Len(p) <=> d \in 1 .. Len(s) /\ d # Len(s)
    BY <1>1
  <2>a. d \in Inside(p, f) <=> /\ d \in 1 .. Len(p)
                                /\ p[Len(p) + 1 - d].fn = f /\ Between(p[Len(p) + 1 - d])
    BY <1>1, InsideMember
  <2>b. d \in Inside(s, f) <=> /\ d \in 1 .. Len(s)
                                /\ s[Len(s) + 1 - d].fn = f /\ Between(s[Len(s) + 1 - d])
    BY InsideMember
  <2>3. d \in 1 .. Len(p) => p[Len(p) + 1 - d] = s[Len(s) + 1 - d]
    BY <1>1, <2>1
  <2> QED BY <2>2, <2>3, <2>a, <2>b
<1> QED BY <1>2 DEF p

LEMMA InsideOfTop ==
  ASSUME NEW s \in Seq(Frames), s # <<>>, NEW f
  PROVE  Len(s) \in Inside(s, f) <=> Head(s).fn = f /\ Between(Head(s))
<1>1. Len(s) \in 1 .. Len(s) /\ Head(s) = s[1] /\ Len(s) + 1 - Len(s) = 1
  OBVIOUS
<1>2. Len(s) \in Inside(s, f) <=> /\ Len(s) \in 1 .. Len(s)
                                   /\ s[Len(s) + 1 - Len(s)].fn = f /\ Between(s[Len(s) + 1 - Len(s)])
  BY InsideMember
<1> QED BY <1>1, <1>2
-------------------------------------------------------------------------------
(* An entry for the innermost frame is pushed ...                          *)
LEMMA MatchBegin ==
  ASSUME NEW s \in Seq(Frames), NEW r \in Seq(Nat), NEW f, Match(s, r, f), Len(s) \notin Inside(s, f)
  PROVE  Values(<<Len(s)>> \o r) = Inside(s, f) \cup {Len(s)} /\ Decreasing(<<Len(s)>> \o r)
<1> DEFINE p == <<Len(s)>> \o r
<1>1. /\ Len(s) \in Nat /\ DOMAIN p = 1 .. Len(r) + 1 /\ Len(r) \in Nat /\ DOMAIN r = 1 .. Len(r)
      /\ p[1] = Len(s) /\ \A i \in 2 .. Len(r) + 1 : i - 1 \in DOMAIN r /\ p[i] = r[i - 1]
      /\ \A i \in DOMAIN r : p[i + 1] = r[i] /\ i + 1 \in DOMAIN p
  OBVIOUS
<1> HIDE DEF p
<1>2. \A i \in DOMAIN r : r[i] \in Nat /\ r[i] < Len(s)
  <2>1. \A i \in DOMAIN r : r[i] \in Inside(s, f)
    BY DEF Match, Values
  <2> QED BY <1>1, <2>1, InsideMember
<1>3. Values(p) = Values(r) \cup {Len(s)}
  <2>1. \A i \in DOMAIN p : p[i] \in Values(r) \cup {Len(s)}
    <3> SUFFICES ASSUME NEW i \in DOMAIN p PROVE p[i] \in Values(r) \cup {Len(s)}
      OBVIOUS
    <3>1. CASE i = 1 BY <1>1, <3>1
    <3>2. CASE i # 1
      <4>1. i - 1 \in DOMAIN r /\ p[i] = r[i - 1] BY <1>1, <3>2
      <4> QED BY <4>1 DEF Values
    <3> QED BY <3>1, <3>2
  <2>2. \A i \in DOMAIN r : r[i] \in Values(p)
    BY <1>1 DEF Values
  <2>3. Len(s) \in Values(p)
    <3>1. 1 \in DOMAIN p BY <1>1
    <3> QED BY <1>1, <3>1 DEF Values
  <2> QED BY <2>1, <2>2, <2>3 DEF Values
<1>4. Decreasing(p)
  <2> SUFFICES ASSUME NEW i \in DOMAIN p, NEW j \in DOMAIN p, i < j PROVE p[i] > p[j]
    BY DEF Decreasing
  <2>1. j \in 2 .. Len(r) + 1 /\ j - 1 \in DOMAIN r /\ p[j] = r[j - 1]
    BY <1>1
  <2>2. CASE i = 1
    BY <1>1, <1>2, <2>1, <2>2
  <2>3. CASE i # 1
    <3>1. i - 1 \in DOMAIN r /\ p[i] = r[i - 1] /\ i - 1 < j - 1
      BY <1>1, <2>3
    <3> QED BY <2>1, <3>1 DEF Match, Decreasing
  <2> QED BY <2>2, <2>3
<1> QED BY <1>3, <1>4 DEF p, Match

(* ... and popped.                                                         *)
LEMMA MatchEnd ==
  ASSUME NEW s \in Seq(Frames), NEW r \in Seq(Nat), NEW f, Match(s, r, f), Len(s) \in Inside(s, f)
  PROVE  /\ r # <<>> /\ Head(r) = Len(s)
         /\ Values(Tail(r)) = Inside(s, f) \ {Len(s)} /\ Decreasing(Tail(r))
<1>1. PICK k \in DOMAIN r : r[k] = Len(s)
  BY DEF Match, Values
<1>2. r # <<>> /\ Len(r) \in Nat \ {0} /\ DOMAIN r = 1 .. Len(r) /\ Head(r) = r[1]
  BY <1>1
<1>3. \A i \in DOMAIN r : r[i] \in Nat /\ r[i] <= Len(s)
  <2>1. \A i \in DOMAIN r : r[i] \in Inside(s, f)
    BY DEF Match, Values
  <2> QED BY <2>1, InsideMember
<1>4. k = 1
  <2>1. k # 1 => r[1] > r[k]
    BY <1>2 DEF Match, Decreasing
  <2>2. Len(s) \in Nat
    OBVIOUS
  <2> QED BY <1>1, <1>2, <1>3, <2>1, <2>2
<1>5. /\ DOMAIN Tail(r) = 1 .. Len(r) - 1
      /\ \A i \in DOMAIN Tail(r) : i + 1 \in DOMAIN r /\ Tail(r)[i] = r[i + 1]
      /\ \A i \in DOMAIN r : i # 1 => i - 1 \in DOMAIN Tail(r) /\ Tail(r)[i - 1] = r[i]
  BY <1>2, SMTT(30)
<1>6. \A i \in DOMAIN r : i # 1 => r[i] # Len(s)
  <2> SUFFICES ASSUME NEW i \in DOMAIN r, i # 1 PROVE r[i] # Len(s)
    OBVIOUS
  <2>1. r[1] > r[i]
    BY <1>2 DEF Match, Decreasing
  <2> QED BY <1>1, <1>2, <1>3, <1>4, <2>1
<1>7. Values(Tail(r)) = Values(r) \ {Len(s)}
  <2>1. ASSUME NEW v \in Values(Tail(r)) PROVE v \in Values(r) \ {Len(s)}
    <3>1. PICK i \in DOMAIN Tail(r) : v = Tail(r)[i]
      BY DEF Values
    <3>2. i + 1 \in DOMAIN r /\ v = r[i + 1] /\ i + 1 # 1
      BY <1>2, <1>5, <3>1
    <3> QED BY <1>6, <3>2 DEF Values
  <2>2. ASSUME NEW v \in Values(r) \ {Len(s)} PROVE v \in Values(Tail(r))
    <3>1. PICK i \in DOMAIN r : v = r[i]
      BY DEF Values
    <3>2. i # 1
      BY <1>1, <1>4, <3>1
    <3> QED BY <1>5, <3>1, <3>2 DEF Values
  <2> QED BY <2>1, <2>2
<1>8. Decreasing(Tail(r))
  <2> SUFFICES ASSUME NEW i \in DOMAIN Tail(r), NEW j \in DOMAIN Tail(r), i < j
               PROVE  Tail(r)[i] > Tail(r)[j]
    BY DEF Decreasing
  <2>1. i + 1 \in DOMAIN r /\ j + 1 \in DOMAIN r /\ i + 1 < j + 1
    BY <1>2, <1>5
  <2> QED BY <1>5, <2>1 DEF Match, Decreasing
<1> QED BY <1>1, <1>2, <1>4, <1>7, <1>8 DEF Match
-------------------------------------------------------------------------------
(* What a frame of depth d looks like on its way through the hook.         *)
Shape(fr, d) ==
  /\ fr.at \in {"first", "second", "enter"} => ~fr.diverted
  /\ fr.at = "post" => fr.popped = d

Orderly(t) ==
  /\ \A f \in Functions : Match(stack[t], callstack[f][t], f)
  /\ \A i \in DOMAIN stack[t] : Shape(stack[t][i], DepthOf(t, i))

MatchInv == ~raced => \A t \in Threads : Orderly(t)

(* The innermost frame moves and stays on its side of the thunks.          *)
LEMMA TopMoves ==
  ASSUME FramesOK, NEW t \in Threads, stack[t] # <<>>, \A u \in Threads : Orderly(u),
         NEW x \in Frames, Replace(t, <<x>>), UNCHANGED callstack,
         x.fn = Fn(t), Between(x) <=> Between(Head(stack[t])), Shape(x, Len(stack[t]))
  PROVE  \A u \in Threads : Orderly(u)'
<1> DEFINE s == stack[t]
           p == <<x>> \o Tail(s)
<1>1. s \in Seq(Frames) /\ s # <<>>
  BY DEF FramesOK
<1>2. stack'[t] = p /\ \A u \in Threads \ {t} : stack'[u] = stack[u]
  BY DEF Replace, FramesOK
<1>3. Len(p) = Len(s) /\ DOMAIN p = DOMAIN s /\ \A i \in DOMAIN p : p[i] = IF i = 1 THEN x ELSE s[i]
  BY <1>1
<1>4. Len(s) \in Nat
  BY <1>1
<1>5. ASSUME NEW f PROVE Inside(p, f) = Inside(s, f)
  <2>1. Inside(p, f) = (Inside(s, f) \ {Len(s)})
                         \cup (IF x.fn = f /\ Between(x) THEN {Len(s)} ELSE {})
    BY <1>1, InsideTop
  <2>2. Len(s) \in Inside(s, f) <=> x.fn = f /\ Between(x)
    BY <1>1, InsideOfTop DEF Fn
  <2> QED BY <2>1, <2>2
<1> HIDE DEF p
<1>6. Orderly(t)'
  <2>1. \A f \in Functions : Match(stack'[t], callstack'[f][t], f)
    BY <1>2, <1>5 DEF Orderly, Match
  <2>2. ASSUME NEW i \in DOMAIN p PROVE Shape(p[i], Len(p) + 1 - i)
    <3>1. CASE i = 1 BY <1>3, <1>4, <3>1
    <3>2. CASE i # 1 BY <1>3, <3>2 DEF Orderly, DepthOf
    <3> QED BY <3>1, <3>2
  <2> QED BY <1>2, <2>1, <2>2 DEF Orderly, DepthOf
<1>7. ASSUME NEW u \in Threads \ {t} PROVE Orderly(u)'
  BY <1>2 DEF Orderly, DepthOf
<1> QED BY <1>6, <1>7

(* It returns.                                                             *)
LEMMA TopPopped ==
  ASSUME FramesOK, NEW t \in Threads, stack[t] # <<>>, \A u \in Threads : Orderly(u),
         Replace(t, <<>>), UNCHANGED callstack, ~Between(Head(stack[t]))
  PROVE  \A u \in Threads : Orderly(u)'
<1> DEFINE s == stack[t]
           p == <<>> \o Tail(s)
<1>1. s \in Seq(Frames) /\ s # <<>>
  BY DEF FramesOK
<1>2. stack'[t] = p /\ \A u \in Threads \ {t} : stack'[u] = stack[u]
  BY DEF Replace, FramesOK
<1>3. /\ Len(p) + 1 = Len(s) /\ Len(p) \in Nat
      /\ \A i \in DOMAIN p : i \in Nat /\ i + 1 \in DOMAIN s /\ p[i] = s[i + 1]
  BY <1>1
<1>4. ASSUME NEW f PROVE Inside(p, f) = Inside(s, f)
  <2>1. Inside(p, f) = Inside(s, f) \ {Len(s)}
    BY <1>1, InsidePop
  <2>2. Len(s) \notin Inside(s, f)
    BY <1>1, InsideOfTop
  <2> QED BY <2>1, <2>2
<1> HIDE DEF p
<1>5. Orderly(t)'
  <2>1. \A f \in Functions : Match(stack'[t], callstack'[f][t], f)
    BY <1>2, <1>4 DEF Orderly, Match
  <2>2. ASSUME NEW i \in DOMAIN p PROVE Shape(p[i], Len(p) + 1 - i)
    <3>1. Len(p) + 1 - i = Len(s) + 1 - (i + 1)
      BY <1>3
    <3> QED BY <1>3, <3>1 DEF Orderly, DepthOf
  <2> QED BY <1>2, <2>1, <2>2 DEF Orderly, DepthOf
<1>6. ASSUME NEW u \in Threads \ {t} PROVE Orderly(u)'
  BY <1>2 DEF Orderly, DepthOf
<1> QED BY <1>5, <1>6

(* A call is made.                                                         *)
LEMMA TopPushed ==
  ASSUME FramesOK, NEW t \in Threads, \A u \in Threads : Orderly(u),
         NEW f \in Functions, NEW at \in {"first", "body"}, Push(t, Frame(f, at)), UNCHANGED callstack
  PROVE  \A u \in Threads : Orderly(u)'
<1> DEFINE s == stack[t]
           x == Frame(f, at)
           p == <<x>> \o s
<1>1. s \in Seq(Frames) /\ x \in Frames /\ ~Between(x) /\ \A d : Shape(x, d)
  BY DEF FramesOK, Frame, Frames, Places, Between, Shape
<1>2. stack'[t] = p /\ \A u \in Threads \ {t} : stack'[u] = stack[u]
  BY DEF Push, FramesOK
<1> HIDE DEF x
<1>3. /\ Len(p) = Len(s) + 1 /\ Len(s) \in Nat
      /\ \A i \in DOMAIN p : i \in Nat /\ (\/ i = 1 /\ p[i] = x
                                           \/ i - 1 \in DOMAIN s /\ p[i] = s[i - 1])
  BY <1>1
<1>4. ASSUME NEW g PROVE Inside(p, g) = Inside(s, g)
  BY <1>1, InsidePush
<1> HIDE DEF p
<1>5. Orderly(t)'
  <2>1. \A g \in Functions : Match(stack'[t], callstack'[g][t], g)
    BY <1>2, <1>4 DEF Orderly, Match
  <2>2. ASSUME NEW i \in DOMAIN p PROVE Shape(p[i], Len(p) + 1 - i)
    <3>1. CASE i = 1 /\ p[i] = x BY <1>1, <3>1
    <3>2. CASE i - 1 \in DOMAIN s /\ p[i] = s[i - 1]
      <4>1. Len(p) + 1 - i = Len(s) + 1 - (i - 1)
        BY <1>3
      <4> QED BY <3>2, <4>1 DEF Orderly, DepthOf
    <3> QED BY <1>3, <3>1, <3>2
  <2> QED BY <1>2, <2>1, <2>2 DEF Orderly, DepthOf
<1>6. ASSUME NEW u \in Threads \ {t} PROVE Orderly(u)'
  BY <1>2 DEF Orderly, DepthOf
<1> QED BY <1>5, <1>6

(* It passes a thunk, which gives its hook and thread the entries r.       *)
LEMMA TopTurns ==
  ASSUME StackInv, NEW t \in Threads, stack[t] # <<>>, \A u \in Threads : Orderly(u),
         NEW x \in Frames, Replace(t, <<x>>), x.fn = Fn(t), Shape(x, Len(stack[t])),
         NEW r, callstack' = [callstack EXCEPT ![Fn(t)][t] = r], Decreasing(r),
         Values(r) = (Inside(stack[t], Fn(t)) \ {Len(stack[t])})
                       \cup (IF Between(x) THEN {Len(stack[t])} ELSE {})
  PROVE  \A u \in Threads : Orderly(u)'
<1> DEFINE s == stack[t]
           p == <<x>> \o Tail(s)
<1> USE DEF StackInv
<1>1. s \in Seq(Frames) /\ s # <<>> /\ Fn(t) \in Functions
  BY Innermost DEF FramesOK
<1>2. stack'[t] = p /\ \A u \in Threads \ {t} : stack'[u] = stack[u]
  BY DEF Replace, FramesOK
<1>3. Len(p) = Len(s) /\ DOMAIN p = DOMAIN s /\ \A i \in DOMAIN p : p[i] = IF i = 1 THEN x ELSE s[i]
  BY <1>1
<1>4. Len(s) \in Nat
  BY <1>1
<1>5. /\ callstack'[Fn(t)][t] = r
      /\ \A f \in Functions \ {Fn(t)} : callstack'[f] = callstack[f]
      /\ \A f \in Functions : \A u \in Threads \ {t} : callstack'[f][u] = callstack[f][u]
  BY <1>1 DEF EntriesOK
<1>6. Values(r) = Inside(p, Fn(t))
  <2>1. Inside(p, Fn(t)) = (Inside(s, Fn(t)) \ {Len(s)})
                             \cup (IF x.fn = Fn(t) /\ Between(x) THEN {Len(s)} ELSE {})
    BY <1>1, InsideTop
  <2> QED BY <2>1
<1>7. ASSUME NEW f \in Functions \ {Fn(t)} PROVE Inside(p, f) = Inside(s, f)
  <2>1. Inside(p, f) = (Inside(s, f) \ {Len(s)})
                         \cup (IF x.fn = f /\ Between(x) THEN {Len(s)} ELSE {})
    BY <1>1, InsideTop
  <2>2. Len(s) \notin Inside(s, f)
    BY <1>1, InsideOfTop DEF Fn
  <2> QED BY <2>1, <2>2
<1> HIDE DEF p
<1>8. Orderly(t)'
  <2>1. ASSUME NEW f \in Functions PROVE Match(stack'[t], callstack'[f][t], f)
    <3>1. CASE f = Fn(t) BY <3>1, <1>2, <1>5, <1>6 DEF Match
    <3>2. CASE f # Fn(t) BY <3>2, <1>2, <1>5, <1>7 DEF Orderly, Match
    <3> QED BY <3>1, <3>2
  <2>2. ASSUME NEW i \in DOMAIN p PROVE Shape(p[i], Len(p) + 1 - i)
    <3>1. CASE i = 1 BY <1>3, <1>4, <3>1
    <3>2. CASE i # 1 BY <1>3, <3>2 DEF Orderly, DepthOf
    <3> QED BY <3>1, <3>2
  <2> QED BY <1>2, <2>1, <2>2 DEF Orderly, DepthOf
<1>9. ASSUME NEW u \in Threads \ {t} PROVE Orderly(u)'
  BY <1>2, <1>5 DEF Orderly, DepthOf
<1> QED BY <1>8, <1>9

LEMMA BeginMatches ==
  ASSUME StackInv, NEW t \in Threads, \A u \in Threads : Orderly(u), Begin(t)
  PROVE  \A u \in Threads : Orderly(u)'
<1> DEFINE s == stack[t]
           r == callstack[Fn(t)][t]
           x == [Head(s) EXCEPT !.at = "pre"]
<1>1. s # <<>> /\ Head(s).at = "enter" /\ Fn(t) \in Functions /\ Head(s) \in Frames
  BY Innermost DEF Begin, In, StackInv
<1>2. s \in Seq(Frames) /\ r \in Seq(Nat) /\ Match(s, r, Fn(t))
  BY <1>1 DEF StackInv, FramesOK, EntriesOK, Orderly
<1>3. Shape(Head(s), Len(s))
  <2>1. 1 \in DOMAIN s /\ Head(s) = s[1] /\ Len(s) + 1 - 1 = Len(s)
    BY <1>1, <1>2
  <2> QED BY <2>1 DEF Orderly, DepthOf
<1>4. Len(s) \notin Inside(s, Fn(t))
  BY <1>1, <1>2, <1>3, InsideOfTop DEF Between, Shape
<1>5. Values(<<Len(s)>> \o r) = Inside(s, Fn(t)) \cup {Len(s)} /\ Decreasing(<<Len(s)>> \o r)
  BY <1>2, <1>4, MatchBegin
<1>6. x \in Frames /\ x.fn = Fn(t) /\ Shape(x, Len(s)) /\ Between(x)
  BY <1>1 DEF Frames, Places, Fn, Shape, Between
<1>7. Replace(t, <<x>>) /\ callstack' = [callstack EXCEPT ![Fn(t)][t] = <<Len(s)>> \o r]
  BY DEF Begin, Goto
<1>8. Inside(s, Fn(t)) \cup {Len(s)} = (Inside(s, Fn(t)) \ {Len(s)}) \cup {Len(s)}
  OBVIOUS
<1> HIDE DEF x, r
<1> QED BY <1>1, <1>5, <1>6, <1>7, <1>8, TopTurns

LEMMA EndMatches ==
  ASSUME StackInv, NEW t \in Threads, \A u \in Threads : Orderly(u), End(t)
  PROVE  \A u \in Threads : Orderly(u)'
<1> DEFINE s == stack[t]
           r == callstack[Fn(t)][t]
           x == [Head(s) EXCEPT !.at = "post", !.popped = Head(r)]
<1>1. s # <<>> /\ Head(s).at = "leave" /\ Fn(t) \in Functions /\ Head(s) \in Frames
  BY Innermost DEF End, In, StackInv
<1>2. s \in Seq(Frames) /\ r \in Seq(Nat) /\ Match(s, r, Fn(t))
  BY <1>1 DEF StackInv, FramesOK, EntriesOK, Orderly
<1>3. Len(s) \in Inside(s, Fn(t))
  BY <1>1, <1>2, InsideOfTop DEF Between, Fn
<1>4. /\ Head(r) = Len(s) /\ Values(Tail(r)) = Inside(s, Fn(t)) \ {Len(s)}
      /\ Decreasing(Tail(r))
  BY <1>2, <1>3, MatchEnd
<1>5. Len(s) \in Nat
  BY <1>2
<1>6. x \in Frames /\ x.fn = Fn(t) /\ Shape(x, Len(s)) /\ ~Between(x)
  BY <1>1, <1>4, <1>5 DEF Frames, Places, Fn, Shape, Between
<1>7. Replace(t, <<x>>) /\ callstack' = [callstack EXCEPT ![Fn(t)][t] = Tail(r)]
  BY DEF End, Entries
<1>8. Inside(s, Fn(t)) \ {Len(s)} = (Inside(s, Fn(t)) \ {Len(s)}) \cup {}
  OBVIOUS
<1> HIDE DEF x, r
<1> QED BY <1>1, <1>4, <1>6, <1>7, <1>8, TopTurns
-------------------------------------------------------------------------------
LEMMA TopShape ==
  ASSUME FramesOK, NEW t \in Threads, stack[t] # <<>>, Orderly(t)
  PROVE  Shape(Head(stack[t]), Len(stack[t]))
<1>1. stack[t] \in Seq(Frames)
  BY DEF FramesOK
<1>2. /\ 1 \in DOMAIN stack[t] /\ Head(stack[t]) = stack[t][1]
      /\ Len(stack[t]) + 1 - 1 = Len(stack[t])
  BY <1>1
<1> QED BY <1>2 DEF Orderly, DepthOf

LEMMA GotoMatches ==
  ASSUME FramesOK, NEW t \in Threads, stack[t] # <<>>, \A u \in Threads : Orderly(u),
         NEW at \in Places, Goto(t, at), UNCHANGED callstack,
         LET x == [Head(stack[t]) EXCEPT !.at = at]
         IN  (Between(x) <=> Between(Head(stack[t]))) /\ Shape(x, Len(stack[t]))
  PROVE  \A u \in Threads : Orderly(u)'
<1> DEFINE x == [Head(stack[t]) EXCEPT !.at = at]
<1>1. x \in Frames /\ x.fn = Fn(t)
  BY Innermost DEF Frames, Fn
<1>2. Replace(t, <<x>>)
  BY DEF Goto
<1>3. (Between(x) <=> Between(Head(stack[t]))) /\ Shape(x, Len(stack[t]))
  OBVIOUS
<1> HIDE DEF x
<1> QED BY <1>1, <1>2, <1>3, TopMoves

LEMMA RunMatches ==
  ASSUME StackInv, NEW t \in Threads, \A u \in Threads : Orderly(u), ~raced',
         Run(t) \/ CallOrigin(t) \/ \E f \in Functions : Call(t, f)
  PROVE  \A u \in Threads : Orderly(u)'
<1> USE DEF StackInv
<1>0. stack[t] # <<>> => /\ Head(stack[t]) \in Frames /\ Fn(t) \in Functions
                         /\ Shape(Head(stack[t]), Len(stack[t]))
  BY Innermost, TopShape
<1>1. ASSUME Execute(t) PROVE \A u \in Threads : Orderly(u)'
  <2>1. CASE In(t, "first") /\ Goto(t, "second")
    BY <1>0, <1>1, <2>1, GotoMatches DEF Execute, In, Places, Frames, Shape, Between
  <2>2. CASE In(t, "second") /\ Goto(t, "body")
    BY <1>0, <1>1, <2>2, GotoMatches DEF Execute, In, Places, Frames, Shape, Between
  <2> QED BY <1>1, <2>1, <2>2 DEF Execute
<1>2. ASSUME Redirect(t) PROVE \A u \in Threads : Orderly(u)'
  <2>1. PICK at \in {"replacement", "stub", "enter"} : Goto(t, at)
    BY <1>2 DEF Redirect
  <2> QED BY <1>0, <1>2, <2>1, GotoMatches DEF Redirect, In, Places, Frames, Shape, Between
<1>3. CASE UNCHANGED <<stack, callstack>>
  BY <1>3 DEF Orderly, DepthOf
<1>4. CASE Begin(t) \/ End(t)
  BY <1>4, BeginMatches, EndMatches
<1>5. ASSUME PreDone(t) PROVE \A u \in Threads : Orderly(u)'
  <2> DEFINE at == CASE Type(t) = "both" -> "replacement"
                     [] Type(t) = "insn" -> "leave"
                     [] OTHER -> "body"
             x == [Head(stack[t]) EXCEPT !.at = at, !.diverted = Type(t) # "insn"]
  <2>1. stack[t] # <<>> /\ Head(stack[t]).at = "pre" /\ UNCHANGED callstack /\ Replace(t, <<x>>)
    BY <1>5 DEF PreDone, In
  <2>2. at \in {"replacement", "leave", "body"} /\ (Type(t) = "insn" => at = "leave")
    OBVIOUS
  <2> HIDE DEF at
  <2>3. /\ x \in Frames /\ x.fn = Fn(t) /\ Shape(x, Len(stack[t]))
        /\ Between(x) /\ Between(Head(stack[t]))
    BY <1>0, <2>1, <2>2 DEF Frames, Places, Fn, Shape, Between
  <2> HIDE DEF x
  <2> QED BY <2>1, <2>3, TopMoves
<1>6. CASE StubDone(t)
  BY <1>0, <1>6, GotoMatches DEF StubDone, In, Places, Frames, Shape, Between
<1>7. ASSUME Return(t) PROVE \A u \in Threads : Orderly(u)'
  <2>1. /\ stack[t] # <<>> /\ Head(stack[t]).at \in {"body", "replacement"} /\ UNCHANGED callstack
    BY <1>7 DEF Return, In
  <2>2. CASE Head(stack[t]).diverted
    BY <1>0, <1>7, <2>1, <2>2, GotoMatches DEF Return, Places, Frames, Shape, Between
  <2>3. CASE ~Head(stack[t]).diverted
    BY <1>7, <2>1, <2>3, TopPopped DEF Return, Between
  <2> QED BY <2>2, <2>3
<1>8. ASSUME PostDone(t) PROVE \A u \in Threads : Orderly(u)'
  <2>1. stack[t] # <<>> /\ Head(stack[t]).at = "post" /\ UNCHANGED callstack
    BY <1>8 DEF PostDone, In
  <2>2. CASE ~Head(stack[t]).diverted
    BY <1>0, <1>8, <2>1, <2>2, GotoMatches DEF PostDone, Places, Frames, Shape, Between
  <2>3. CASE Head(stack[t]).diverted
    <3>1. Replace(t, <<>>) \/ UNCHANGED stack
      BY <1>8, <2>3 DEF PostDone
    <3>2. CASE Replace(t, <<>>)
      BY <2>1, <3>2, TopPopped DEF Between
    <3> QED BY <1>3, <2>1, <3>1, <3>2
  <2> QED BY <2>2, <2>3
<1>9. ASSUME CallOrigin(t) PROVE \A u \in Threads : Orderly(u)'
  <2>1. stack[t] # <<>> /\ UNCHANGED callstack
    BY <1>9 DEF CallOrigin, In, Lose, threads
  <2>2. Push(t, Frame(Fn(t), "body")) \/ UNCHANGED stack
    BY <1>9 DEF CallOrigin, Lose, threads
  <2>3. CASE Push(t, Frame(Fn(t), "body"))
    BY <1>0, <2>1, <2>3, TopPushed
  <2> QED BY <1>3, <2>1, <2>2, <2>3
<1>10. ASSUME NEW f \in Functions, Call(t, f) PROVE \A u \in Threads : Orderly(u)'
  BY <1>10, TopPushed DEF Call
<1>11. CASE Astray(t) \/ StaleSlice(t) \/ EndAstray(t)
  BY <1>3, <1>11 DEF Astray, StaleSlice, EndAstray, Lose, threads
<1>12. ~BeginRaced(t)
  BY DEF BeginRaced
<1> QED BY <1>1, <1>2, <1>4, <1>5, <1>6, <1>7, <1>8, <1>9, <1>10, <1>11, <1>12 DEF Run

LEMMA MatchInitially == Init => MatchInv
<1> SUFFICES ASSUME Init, NEW t \in Threads PROVE Orderly(t)
  BY DEF MatchInv
<1>1. stack[t] = <<>> /\ \A f \in Functions : callstack[f][t] = <<>>
  BY DEF Init
<1>2. \A f : Inside(<<>>, f) = {}
  BY DEF Inside
<1>3. Values(<<>>) = {} /\ Decreasing(<<>>)
  BY DEF Values, Decreasing
<1> QED BY <1>1, <1>2, <1>3 DEF Orderly, Match

LEMMA MatchStep == StackInv /\ MatchInv /\ [Next]_vars => MatchInv'
<1> SUFFICES ASSUME StackInv, MatchInv, [Next]_vars, ~raced' PROVE \A u \in Threads : Orderly(u)'
  BY DEF MatchInv
<1>1. ~raced
  BY DEF Next, vars, marks, Hooker, Hook, EnableHook, DisableHook, MoveKeys, NewKey, BuildHook,
         Enable, Patch, Restore, Run, Execute, Redirect, Astray, StaleSlice, Begin, BeginRaced, PreDone,
         StubDone, Return, End, EndAstray, PostDone, CallOrigin, Call, Lose
<1>2. \A u \in Threads : Orderly(u)
  BY <1>1 DEF MatchInv
<1>3. CASE UNCHANGED <<stack, callstack>>
  BY <1>2, <1>3 DEF Orderly, DepthOf
<1>4. CASE Hooker \/ UNCHANGED vars
  BY <1>3, <1>4 DEF Hooker, Hook, EnableHook, DisableHook, MoveKeys, NewKey, BuildHook,
         Enable, Patch, Restore, threads, vars
<1> QED BY <1>2, <1>4, RunMatches DEF Next

(* The entries of a hook and thread are the calls in between the thunks of *)
(* the hook, innermost first (ZzPushCallStack and ZzPopCallStack), for any *)
(* number of threads and hooks and any depth of nesting.                   *)
THEOREM StacksDoMatch == Spec => []StacksMatch
<1>1. MatchInv => StacksMatch
  BY DEF MatchInv, StacksMatch, Orderly, Match, Values, Decreasing, Inside, DepthOf
<1> QED BY <1>1, HookInitially, HookStep, StackInitially, StackStep, MatchInitially, MatchStep,
           PTL DEF Spec
-------------------------------------------------------------------------------
(* A frame in the words of a function sees no half-written jump, unless    *)
(* its thread was there as they were written or met a stale cache.         *)
Clear(fr) ==
  /\ fr.at \in {"first", "second"} /\ Patching(fr.fn) => op[3] = 1
  /\ fr.at = "second" => word[fr.fn][2] = "orig"
Sound(t, i) == Clear(stack[t][i]) \/ (i = 1 /\ t \in stale)
WordsInv == exposed \/ \A t \in Threads : \A i \in DOMAIN stack[t] : Sound(t, i)

MarksOK == lost \in BOOLEAN /\ exposed \in BOOLEAN /\ raced \in BOOLEAN

LEMMA WordsInitially == Init => WordsInv /\ MarksOK /\ SafeUnlessRaced
<1> SUFFICES ASSUME Init PROVE WordsInv /\ MarksOK /\ SafeUnlessRaced
  OBVIOUS
<1>1. MarksOK
  BY DEF Init, MarksOK
<1>2. \A t \in Threads : stack[t] = <<>>
  BY DEF Init
<1>3. WordsInv
  BY <1>2 DEF WordsInv
<1>4. ~lost
  BY DEF Init
<1> QED BY <1>1, <1>3, <1>4 DEF SafeUnlessRaced

(* The marks are never taken back.                                         *)
LEMMA MarksStay ==
  MarksOK /\ [Next]_vars => MarksOK' /\ (exposed => exposed') /\ (raced => raced')
<1> SUFFICES ASSUME MarksOK, [Next]_vars PROVE MarksOK' /\ (exposed => exposed') /\ (raced => raced')
  OBVIOUS
<1> USE DEF MarksOK
<1>1. CASE UNCHANGED vars
  BY <1>1 DEF vars, marks
<1>2. CASE Hooker
  BY <1>2 DEF marks, Hooker, Hook, EnableHook, DisableHook, MoveKeys, NewKey, BuildHook, Enable,
         Patch, Restore, Write, InWords
<1>3. ASSUME NEW t \in Threads, Run(t) PROVE MarksOK' /\ (exposed => exposed') /\ (raced => raced')
  BY <1>3 DEF marks, Run, Execute, Redirect, Astray, StaleSlice, Begin, BeginRaced, PreDone,
         StubDone, Return, End, EndAstray, PostDone, Lose
<1>4. ASSUME NEW t \in Threads, CallOrigin(t) \/ \E f \in Functions : Call(t, f)
      PROVE  MarksOK' /\ (exposed => exposed') /\ (raced => raced')
  BY <1>4 DEF marks, CallOrigin, Call, Lose, Patching
<1> QED BY <1>1, <1>2, <1>3, <1>4 DEF Next

(* While the thread that hooks works.                                      *)
LEMMA HookerKeepsWords ==
  ASSUME HookInv, StackInv, WordsInv, MarksOK, Hooker, ~exposed'
  PROVE  \A t \in Threads : \A i \in DOMAIN stack[t] : Sound(t, i)'
<1>0. [Next]_vars
  BY DEF Next
<1>1. ~exposed /\ \A t \in Threads : \A i \in DOMAIN stack[t] : Sound(t, i)
  BY <1>0, MarksStay DEF WordsInv
<1>2. UNCHANGED <<stack, stale>>
  BY DEF Hooker, Hook, EnableHook, DisableHook, MoveKeys, NewKey, BuildHook, Enable, Patch,
         Restore, threads, marks
<1> SUFFICES ASSUME NEW t \in Threads, NEW i \in DOMAIN stack[t], Clear(stack[t][i])
             PROVE  Clear(stack[t][i])'
  BY <1>1, <1>2 DEF Sound
<1> DEFINE fr == stack[t][i]
<1>3. fr \in Frames /\ Clear(fr)
  <2>1. stack[t] \in Seq(Frames)
    BY DEF StackInv, FramesOK
  <2> QED BY <1>1, <2>1
<1>4. ASSUME Patch \/ Restore PROVE Clear(stack[t][i])'
  <2>1. op' = <<"idle">> \/ op' = <<"patch", op[2], 2>> \/ op' = <<"restore", op[2], 2>>
    BY <1>4 DEF Patch, Restore, Then, Idle
  <2>2. ~InWords(op[2])
    BY <1>4 DEF Patch, Restore, Write
  <2>3. fr.fn = op[2] => fr.at \notin {"first", "second"}
    BY <2>2 DEF InWords
  <2>4. fr.fn # op[2] => word'[fr.fn] = word[fr.fn]
    BY <1>3, <1>4 DEF Patch, Restore, Write, HookInv, CodeOK, Frames
  <2>5. fr.fn # op[2] => ~Patching(fr.fn)'
    BY <1>2, <2>1 DEF Patching
  <2> QED BY <1>2, <1>3, <2>3, <2>4, <2>5 DEF Clear
<1>5. ASSUME Hooker, ~(Patch \/ Restore) PROVE Clear(stack[t][i])'
  <2>1. UNCHANGED word
    BY <1>5 DEF Hooker, Hook, EnableHook, DisableHook, MoveKeys, NewKey, BuildHook, Enable, hooks
  <2>2. Patching(fr.fn)' => op'[3] = 1
    <3>1. \/ op'[1] \in {"key", "build", "enable", "idle"}
          \/ op'[3] = 1
      BY <1>5 DEF Idle, Hooker, Hook, EnableHook, DisableHook, MoveKeys,
         NewKey, BuildHook, Enable, Ask, Then, Doing
    <3> QED BY <3>1 DEF Patching
  <2> QED BY <1>2, <1>3, <2>1, <2>2 DEF Clear
<1> QED BY <1>4, <1>5

(* A thread moves or makes a call: its new frame is clear or the thread    *)
(* stale, and the others stay as they are.                                 *)
LEMMA FramesStaySound ==
  ASSUME StackInv, NEW t \in Threads, UNCHANGED <<word, op>>, stale \ {t} \subseteq stale',
         \A u \in Threads : \A i \in DOMAIN stack[u] : Sound(u, i),
         \/ UNCHANGED stack /\ (t \in stale => t \in stale')
         \/ stack[t] # <<>> /\ Replace(t, <<>>)
         \/ stack[t] # <<>> /\ \E x \in Frames : (Clear(x) \/ t \in stale') /\ Replace(t, <<x>>)
         \/ \E x \in Frames :
              Clear(x) /\ Push(t, x) /\ (stack[t] # <<>> => Clear(Head(stack[t])))
  PROVE  \A u \in Threads : \A i \in DOMAIN stack'[u] : Sound(u, i)'
<1> DEFINE Fine(fr, i) == Clear(fr) \/ (i = 1 /\ t \in stale')
<1> USE DEF StackInv, FramesOK
<1>0. \A fr : Clear(fr) => Clear(fr)'
  BY DEF Clear, Patching
<1>1. CASE UNCHANGED stack /\ (t \in stale => t \in stale')
  BY <1>0, <1>1 DEF Sound
<1>2. ASSUME NEW p, stack' = [stack EXCEPT ![t] = p], \A i \in DOMAIN p : Fine(p[i], i)
      PROVE  \A u \in Threads : \A i \in DOMAIN stack'[u] : Sound(u, i)'
  <2>1. stack'[t] = p /\ \A u \in Threads \ {t} : stack'[u] = stack[u]
    BY <1>2
  <2>2. ASSUME NEW i \in DOMAIN p PROVE Sound(t, i)'
    BY <1>0, <1>2, <2>1 DEF Sound
  <2>3. ASSUME NEW u \in Threads \ {t}, NEW i \in DOMAIN stack[u] PROVE Sound(u, i)'
    BY <1>0, <2>1 DEF Sound
  <2> QED BY <2>1, <2>2, <2>3
<1>3. stack[t] \in Seq(Frames)
  OBVIOUS
<1>4. \A i \in DOMAIN stack[t] : i # 1 => Clear(stack[t][i])
  BY DEF Sound
<1>5. CASE stack[t] # <<>> /\ Replace(t, <<>>)
  <2>1. \A i \in DOMAIN (<<>> \o Tail(stack[t])) : Clear((<<>> \o Tail(stack[t]))[i])
    <3> SUFFICES ASSUME NEW i \in DOMAIN (<<>> \o Tail(stack[t]))
                 PROVE  Clear((<<>> \o Tail(stack[t]))[i])
      OBVIOUS
    <3>1. i + 1 \in DOMAIN stack[t] /\ (<<>> \o Tail(stack[t]))[i] = stack[t][i + 1] /\ i + 1 # 1
      BY <1>3, <1>5, PopTop
    <3> QED BY <1>4, <3>1
  <2> QED BY <1>2, <1>5, <2>1 DEF Replace
<1>6. ASSUME stack[t] # <<>>, NEW x \in Frames, Clear(x) \/ t \in stale', Replace(t, <<x>>)
      PROVE  \A u \in Threads : \A i \in DOMAIN stack'[u] : Sound(u, i)'
  <2>1. \A i \in DOMAIN (<<x>> \o Tail(stack[t])) : Fine((<<x>> \o Tail(stack[t]))[i], i)
    BY <1>3, <1>4, <1>6, ReplaceTop
  <2> QED BY <1>2, <1>6, <2>1 DEF Replace
<1>7. ASSUME NEW x \in Frames, Clear(x), Push(t, x), stack[t] # <<>> => Clear(Head(stack[t]))
      PROVE  \A u \in Threads : \A i \in DOMAIN stack'[u] : Sound(u, i)'
  <2>1. \A i \in DOMAIN stack[t] : Clear(stack[t][i])
    <3>1. \A i \in DOMAIN stack[t] : i = 1 => stack[t] # <<>> /\ Head(stack[t]) = stack[t][i]
      BY <1>3
    <3> QED BY <1>4, <1>7, <3>1
  <2>2. \A i \in DOMAIN (<<x>> \o stack[t]) : Clear((<<x>> \o stack[t])[i])
    BY <1>3, <1>7, <2>1, PushTop
  <2> QED BY <1>2, <1>7, <2>2 DEF Push
<1>8. CASE stack[t] # <<>> /\ \E x \in Frames : (Clear(x) \/ t \in stale') /\ Replace(t, <<x>>)
  BY ONLY <1>6, <1>8
<1>9. CASE \E x \in Frames : Clear(x) /\ Push(t, x) /\ (stack[t] # <<>> => Clear(Head(stack[t])))
  BY ONLY <1>7, <1>9
<1> QED BY <1>1, <1>5, <1>8, <1>9

(* Anywhere but in the words of the function a frame is clear.             *)
LEMMA GotoClears ==
  ASSUME StackInv, NEW t \in Threads, stack[t] # <<>>, NEW at \in Places \ {"first", "second"}, Goto(t, at)
  PROVE  \E x \in Frames : Clear(x) /\ Replace(t, <<x>>)
<1> DEFINE x == [Head(stack[t]) EXCEPT !.at = at]
<1>1. x \in Frames /\ Clear(x)
  BY Innermost DEF StackInv, Frames, Clear
<1>2. Replace(t, <<x>>)
  BY DEF Goto
<1> QED BY <1>1, <1>2

LEMMA ExecuteClears ==
  ASSUME HookInv, StackInv, NEW t \in Threads, stack[t] # <<>>, Clear(Head(stack[t])),
         Head(stack[t]).at = "first", word[Fn(t)][1] = "orig", Goto(t, "second")
  PROVE  \E x \in Frames : Clear(x) /\ Replace(t, <<x>>)
<1> DEFINE x == [Head(stack[t]) EXCEPT !.at = "second"]
<1>1. /\ x \in Frames /\ x.fn = Fn(t) /\ x.at = "second" /\ Fn(t) \in Functions
      /\ Head(stack[t]).fn = Fn(t)
  BY Innermost DEF StackInv, Frames, Places, Fn
<1>2. Patching(Fn(t)) => op[3] = 1
  BY <1>1 DEF Clear
<1>3. word[Fn(t)] \in {Original, Other}
  BY <1>1 DEF HookInv, CodeOK, Code, Original, Jumped, Half, Other
<1>4. word[Fn(t)] = Original
  <2>1. CASE Agrees(Fn(t))
    BY <1>3, <2>1 DEF Agrees, Original, Jumped, Other
  <2>2. CASE ~Agrees(Fn(t))
    <3>1. Patching(Fn(t)) /\ op[3] = 1
      BY <1>1, <1>2, <2>2 DEF HookInv, CodeOK
    <3> QED BY <2>2, <3>1 DEF HookInv, CodeOK, Patching
  <2> QED BY <2>1, <2>2
<1>5. Clear(x)
  BY <1>1, <1>2, <1>4 DEF Clear, Original
<1>6. Replace(t, <<x>>)
  BY DEF Goto
<1> HIDE DEF x
<1> QED BY <1>1, <1>5, <1>6

(* The threads that step out of line leave the others' marks alone.        *)
LEMMA OthersStayStale ==
  ASSUME NEW t \in Threads, Run(t) \/ CallOrigin(t) \/ \E f \in Functions : Call(t, f)
  PROVE  /\ stale \ {t} \subseteq stale'
         /\ ~Execute(t) => stale \subseteq stale'
  BY DEF Run, Execute, Redirect, Astray, StaleSlice, Begin, BeginRaced, PreDone, StubDone, Return,
         End, EndAstray, PostDone, CallOrigin, Call, Noticing, marks

LEMMA ThreadKeepsWords ==
  ASSUME HookInv, StackInv, WordsInv, MarksOK, ~exposed', NEW t \in Threads,
         Run(t) \/ CallOrigin(t) \/ \E f \in Functions : Call(t, f)
  PROVE  \A u \in Threads : \A i \in DOMAIN stack'[u] : Sound(u, i)'
<1> DEFINE Moved == \/ UNCHANGED stack /\ (t \in stale => t \in stale')
                    \/ stack[t] # <<>> /\ Replace(t, <<>>)
                    \/ stack[t] # <<>> /\ \E x \in Frames : (Clear(x) \/ t \in stale') /\ Replace(t, <<x>>)
                    \/ \E x \in Frames :
                         Clear(x) /\ Push(t, x) /\ (stack[t] # <<>> => Clear(Head(stack[t])))
<1>0. [Next]_vars
  BY DEF Next
<1>1. ~exposed /\ \A u \in Threads : \A i \in DOMAIN stack[u] : Sound(u, i)
  BY <1>0, MarksStay DEF WordsInv
<1>2. UNCHANGED <<word, op>>
  BY ThreadsKeepHooks DEF hooks
<1>3. stack[t] # <<>> => /\ Head(stack[t]) \in Frames /\ Fn(t) \in Functions
                         /\ Clear(Head(stack[t])) \/ t \in stale
  <2>1. stack[t] \in Seq(Frames)
    BY DEF StackInv, FramesOK
  <2>2. stack[t] # <<>> => 1 \in DOMAIN stack[t] /\ Head(stack[t]) = stack[t][1]
    BY <2>1
  <2> QED BY <1>1, <2>2, Innermost DEF StackInv, Sound
<1>x. ~Execute(t) => stale \subseteq stale'
  BY OthersStayStale
<1>4. ASSUME Execute(t) PROVE Moved
  <2>1. CASE In(t, "first") /\ Goto(t, "second") /\ Noticing(t, 1, "orig")
    <3>1. CASE t \in stale'
      <4> DEFINE x == [Head(stack[t]) EXCEPT !.at = "second"]
      <4>1. stack[t] # <<>> /\ x \in Frames /\ Replace(t, <<x>>)
        BY <1>3, <2>1 DEF In, Goto, Frames, Places
      <4> QED BY <3>1, <4>1
    <3>2. CASE t \notin stale'
      <4>1. word[Fn(t)][1] = "orig" /\ t \notin stale
        BY <2>1, <3>2 DEF Noticing
      <4> QED BY <1>3, <2>1, <4>1, ExecuteClears DEF In
    <3> QED BY <3>1, <3>2
  <2>2. CASE In(t, "second") /\ Goto(t, "body")
    BY <2>2, GotoClears DEF In, Places
  <2> QED BY <1>4, <2>1, <2>2 DEF Execute
<1>5. ASSUME Redirect(t) \/ Begin(t) \/ StubDone(t) PROVE Moved
  <2>1. PICK at \in {"replacement", "stub", "enter", "pre", "body"} : Goto(t, at)
    BY <1>5 DEF Redirect, Begin, StubDone
  <2> QED BY <1>5, <2>1, GotoClears DEF Redirect, Begin, StubDone, In, Places
<1>6. ASSUME BeginRaced(t) PROVE Moved
  <2>1. stack[t] # <<>> /\ (UNCHANGED stack \/ Goto(t, "pre")) /\ UNCHANGED stale
    BY <1>6 DEF BeginRaced, In, threads
  <2> QED BY <2>1, GotoClears DEF Places
<1>7. ASSUME PreDone(t) PROVE Moved
  <2>1. PICK at \in {"replacement", "leave", "body"}, d \in BOOLEAN :
               Replace(t, <<[Head(stack[t]) EXCEPT !.at = at, !.diverted = d]>>)
    BY <1>7 DEF PreDone
  <2>2. stack[t] # <<>>
    BY <1>7 DEF PreDone, In
  <2> DEFINE x == [Head(stack[t]) EXCEPT !.at = at, !.diverted = d]
  <2>3. x \in Frames /\ Clear(x)
    BY <1>3, <2>2 DEF Frames, Places, Clear
  <2> QED BY <2>1, <2>2, <2>3
<1>8. ASSUME Return(t) \/ PostDone(t) PROVE Moved
  <2>1. stack[t] # <<>> /\ UNCHANGED stale
    BY <1>8 DEF Return, PostDone, In, marks
  <2>2. UNCHANGED stack \/ Replace(t, <<>>) \/ Goto(t, "leave") \/ Goto(t, "body")
    BY <1>8 DEF Return, PostDone
  <2> QED BY <2>1, <2>2, GotoClears DEF Places
<1>9. ASSUME End(t) PROVE Moved
  <2> DEFINE x == [Head(stack[t]) EXCEPT !.at = "post", !.popped = Head(Entries(t))]
  <2>1. stack[t] # <<>> /\ Replace(t, <<x>>) /\ Entries(t) # <<>>
    BY <1>9 DEF End, In
  <2>2. Head(Entries(t)) \in Nat
    BY <1>3, <2>1, EntriesKeep DEF Entries
  <2>3. x \in Frames /\ Clear(x)
    BY <1>3, <2>1, <2>2 DEF Frames, Places, Clear
  <2> QED BY <2>1, <2>3
<1>10. ASSUME Astray(t) \/ StaleSlice(t) \/ EndAstray(t) PROVE Moved
  <2>1. UNCHANGED stack
    BY <1>10 DEF Astray, StaleSlice, EndAstray, Lose, threads
  <2>2. t \in stale => t \in stale'
    BY <1>10 DEF Astray, StaleSlice, EndAstray, Noticing
  <2> QED BY <2>1, <2>2
<1>11. ASSUME CallOrigin(t) PROVE Moved
  <2>1. /\ stack[t] # <<>> /\ Head(stack[t]).at = "replacement" /\ UNCHANGED stale
        /\ UNCHANGED stack \/ Push(t, Frame(Fn(t), "body"))
    BY <1>11 DEF CallOrigin, In, Lose, threads, marks
  <2>3. Clear(Head(stack[t]))
    BY <2>1 DEF Clear
  <2>2. Frame(Fn(t), "body") \in Frames /\ Clear(Frame(Fn(t), "body"))
    BY <1>3, <2>1 DEF Frame, Frames, Places, Clear
  <2> QED BY <2>1, <2>2, <2>3
<1>12. ASSUME NEW f \in Functions, Call(t, f) PROVE Moved
  <2>1. Push(t, Frame(f, "first")) /\ ~Patching(f)
    BY <1>12 DEF Call
  <2>2. Frame(f, "first") \in Frames /\ Clear(Frame(f, "first"))
    BY <2>1 DEF Frame, Frames, Places, Clear
  <2>3. stack[t] # <<>> => Clear(Head(stack[t]))
    BY <1>12 DEF Call, UserCode, Clear
  <2> QED BY <2>1, <2>2, <2>3
<1>13. Moved
  BY <1>4, <1>5, <1>6, <1>7, <1>8, <1>9, <1>10, <1>11, <1>12 DEF Run
<1> HIDE DEF Moved
<1> QED BY <1>1, <1>2, <1>13, OthersStayStale, FramesStaySound DEF Moved

LEMMA WordsStep == HookInv /\ StackInv /\ WordsInv /\ MarksOK /\ [Next]_vars => WordsInv'
<1> SUFFICES ASSUME HookInv, StackInv, WordsInv, MarksOK, [Next]_vars, ~exposed'
             PROVE  \A t \in Threads : \A i \in DOMAIN stack'[t] : Sound(t, i)'
  BY DEF WordsInv
<1>1. CASE UNCHANGED vars
  <2>1. ~exposed
    BY MarksStay
  <2> QED BY <1>1, <2>1 DEF vars, hooks, threads, marks, WordsInv, Sound, Clear, Patching
<1>2. CASE Hooker
  <2>1. UNCHANGED stack
    BY <1>2 DEF Hooker, Hook, EnableHook, DisableHook, MoveKeys, NewKey, BuildHook, Enable, Patch,
           Restore, threads
  <2> QED BY <1>2, <2>1, HookerKeepsWords
<1> QED BY <1>1, <1>2, ThreadKeepsWords DEF Next
-------------------------------------------------------------------------------
(* The ways to go astray, one by one.                                      *)
LEMMA NeverAstray ==
  ASSUME HookInv, StackInv, MatchInv, WordsInv, ~exposed, ~raced, stale' = {}, NEW t \in Threads
  PROVE  /\ ~Astray(t)
         /\ In(t, "leave") => Entries(t) # <<>>
         /\ In(t, "post") => Head(stack[t]).popped = Len(stack[t])
         /\ In(t, "replacement") => Fn(t) \in origin
<1> SUFFICES ASSUME stack[t] # <<>>
             PROVE  /\ ~Astray(t)
                    /\ In(t, "leave") => Entries(t) # <<>>
                    /\ In(t, "post") => Head(stack[t]).popped = Len(stack[t])
                    /\ In(t, "replacement") => Fn(t) \in origin
  BY DEF In, Astray
<1>1. /\ stack[t] \in Seq(Frames) /\ 1 \in DOMAIN stack[t] /\ Head(stack[t]) = stack[t][1]
      /\ Fn(t) \in Functions
  BY Innermost DEF StackInv, FramesOK
<1>2. Clear(Head(stack[t])) \/ t \in stale
  BY <1>1 DEF WordsInv, Sound
<1>3. Orderly(t) /\ Shape(Head(stack[t]), Len(stack[t]))
  BY TopShape DEF MatchInv, StackInv
<1>4. ~Astray(t)
  <2>1. ASSUME In(t, "first"), Noticing(t, 1, "jump"), word[Fn(t)][2] = "orig" PROVE FALSE
    <3>1. word[Fn(t)][1] = "jump" /\ Clear(Head(stack[t]))
      BY <1>2, <2>1 DEF Noticing
    <3>2. word[Fn(t)] = Half
      BY <1>1, <2>1, <3>1 DEF HookInv, CodeOK, Code, Original, Jumped, Half, Other
    <3>3. ~Agrees(Fn(t))
      BY <3>2 DEF Agrees, Original, Jumped, Half
    <3>4. Patching(Fn(t)) /\ op[3] = 1
      BY <1>1, <2>1, <3>1, <3>3 DEF HookInv, CodeOK, Clear, In, Fn
    <3> QED BY <3>2, <3>3, <3>4 DEF HookInv, CodeOK, Patching, Original, Half
  <2>2. ASSUME In(t, "second"), Noticing(t, 2, "jump") PROVE FALSE
    <3>1. word[Fn(t)][2] = "jump" /\ Clear(Head(stack[t]))
      BY <1>2, <2>2 DEF Noticing
    <3> QED BY <2>2, <3>1 DEF Clear, In, Fn
  <2> QED BY <2>1, <2>2 DEF Astray
<1>5. In(t, "leave") => Entries(t) # <<>>
  <2> SUFFICES ASSUME In(t, "leave") PROVE Entries(t) # <<>>
    OBVIOUS
  <2>1. Len(stack[t]) \in Inside(stack[t], Fn(t))
    BY <1>1, InsideOfTop DEF In, Between, Fn
  <2>2. callstack[Fn(t)][t] \in Seq(Nat) /\ Match(stack[t], callstack[Fn(t)][t], Fn(t))
    BY <1>1, <1>3 DEF StackInv, EntriesOK, Orderly
  <2> QED BY <1>1, <2>1, <2>2, MatchEnd DEF Entries
<1>6. In(t, "post") => Head(stack[t]).popped = Len(stack[t])
  BY <1>3 DEF In, Shape
<1>7. In(t, "replacement") => Fn(t) \in origin
  BY Innermost DEF StackInv, In, Ready, Fn
<1> QED BY <1>4, <1>5, <1>6, <1>7

(* Nothing is modelled after a thread went astray.                         *)
LEMMA LostIsLast == Next => ~lost
  BY DEF Next, Hooker, Hook, EnableHook, DisableHook, MoveKeys, NewKey, BuildHook, Enable, Patch,
         Restore, Ask, Doing, Run, Execute, Redirect, Astray, StaleSlice, Begin, BeginRaced, PreDone,
         StubDone, Return, End, EndAstray, PostDone, CallOrigin, Call, In

LEMMA SafeStep ==
  HookInv /\ StackInv /\ MatchInv /\ WordsInv /\ MarksOK /\ SafeUnlessRaced /\ [Next]_vars
    => SafeUnlessRaced'
<1> SUFFICES ASSUME HookInv, StackInv, MatchInv, WordsInv, MarksOK, SafeUnlessRaced, [Next]_vars,
                    lost', ~exposed', ~raced', stale' = {}
             PROVE  FALSE
  BY DEF SafeUnlessRaced
<1>1. ~exposed /\ ~raced /\ ~lost
  <2>1. ~exposed /\ ~raced
    BY MarksStay
  <2>2. CASE Next
    BY <2>1, <2>2, LostIsLast
  <2>3. CASE UNCHANGED vars
    BY <2>1, <2>3 DEF vars, marks, SafeUnlessRaced
  <2> QED BY <2>1, <2>2, <2>3
<1>2. lost' # lost
  BY <1>1
<1>3. ~UNCHANGED vars /\ ~Hooker
  BY <1>2 DEF vars, marks, Hooker, Hook, EnableHook, DisableHook, MoveKeys, NewKey, BuildHook,
         Enable, Patch, Restore
<1>4. PICK t \in Threads : Run(t) \/ CallOrigin(t) \/ \E f \in Functions : Call(t, f)
  BY <1>3 DEF Next
<1>5. /\ ~Astray(t) /\ ~StaleSlice(t)
      /\ In(t, "leave") => Entries(t) # <<>>
      /\ In(t, "post") => Head(stack[t]).popped = Len(stack[t])
      /\ In(t, "replacement") => Fn(t) \in origin
  BY <1>1, NeverAstray DEF StaleSlice
<1>6. ~BeginRaced(t)
  BY DEF BeginRaced
<1>7. ~EndAstray(t)
  BY <1>5 DEF EndAstray
<1>8. ~PostDone(t)
  BY <1>2, <1>5 DEF PostDone
<1>9. ~CallOrigin(t)
  BY <1>2, <1>5 DEF CallOrigin, marks
<1>10. ~\E f \in Functions : Call(t, f)
  BY <1>2 DEF Call
<1> QED BY <1>2, <1>4, <1>5, <1>6, <1>7, <1>8, <1>9, <1>10
        DEF Run, Execute, Redirect, Begin, PreDone, StubDone, Return, End, marks

(* What leads astray in a library that stops no thread and flushes no      *)
(* cache is being in the words of a function while they are written,       *)
(* looking for the call stack while the key list moves, and fetching a     *)
(* word or a slice from before it was written; nothing else does.          *)
THEOREM SafeButForRaces == Spec => []SafeUnlessRaced
<1>1. MarksOK /\ [Next]_vars => MarksOK'
  BY MarksStay
<1> QED BY <1>1, HookInitially, HookStep, StackInitially, StackStep, MatchInitially, MatchStep,
           WordsInitially, WordsStep, SafeStep, PTL DEF Spec
===============================================================================
