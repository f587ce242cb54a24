---------------------------- MODULE CopyHookProofs ----------------------------
(***************************************************************************)
(* CopyHook: what is missing in a page is missing for want of a flush, and *)
(* a call that begins after hook_lwp has returned is not served without    *)
(* the original, proved for any number of threads, calls, installations.   *)
(***************************************************************************)
EXTENDS CopyHook, TLAPS

Frames == ({"patch", "flush", "wrapper"} \X Words) \cup ({"orig", "copy"} \X (0 .. 3))
            \cup ({"page"} \X Pages \X (0 .. 3))

(* Without re-entry a stack has one frame.                                 *)
Stacks == {<<>>} \cup {<<x>> : x \in Frames}

Types ==
  /\ word \in [Words -> {"orig", "jump"}] /\ store \in [Words -> {"orig", "jump"}]
  /\ copy \in [Pages -> [0 .. 3 -> {"none", "orig", "jump", "back"}]]
  /\ stack \in [Threads -> Stacks]
  /\ installs \in 0 .. MaxInstalls /\ old \in 0 .. installs
  /\ thumb \in BOOLEAN /\ done \in BOOLEAN /\ early \subseteq Threads
  /\ ran \in [Threads -> Nat]

Busy == stack[Installer] # <<>> /\ Head(stack[Installer])[1] \in {"patch", "copy"}

(* How far hook_lwp is, whoever is in it.                                  *)
Progress ==
  /\ thumb => word = Original /\ old = 0
  /\ done /\ ~thumb => word = Jumped /\ old > 0
  /\ ~thumb /\ ~Busy => old = installs
  /\ \A n \in Pages : n <= old => \A k \in 0 .. 3 : copy[n][k] # "none"
  /\ done => \A k \in Words : <<0, k>> \notin unflushed

(* What a frame says of the hook: one of hook_lwp, one of the wrapper or   *)
(* of a page, and one of any call.                                         *)
HookFrame(t, x) ==
  /\ x[1] \in {"patch", "copy", "flush"} => t = Installer
  /\ x[1] \in {"patch", "copy"} => ~thumb /\ installs \in Pages /\ old = installs - 1
  /\ x[1] = "patch" => \A j \in Words : j < x[2] => word[j] = "jump"
  /\ x[1] = "copy" => word = Jumped /\ \A j \in 0 .. 3 : j < x[2] => copy[installs][j] # "none"
  /\ x[1] = "flush" /\ ~thumb => word = Jumped /\ old > 0
CallFrame(t, x) ==
  /\ x[1] = "page" => x[2] <= old
  /\ x[1] \in {"wrapper", "page"} => ~thumb
  /\ x[1] \in {"orig", "wrapper", "page"} => ran[t] = 0 /\ (t \notin early => done)
  /\ x[1] = "orig" /\ t \notin early /\ ~thumb => x[2] \in {0, 3}
FrameOK(t) == stack[t] # <<>> => HookFrame(t, Head(stack[t])) /\ CallFrame(t, Head(stack[t]))

CopyInv == Types /\ Progress /\ \A t \in Threads : FrameOK(t)

LEMMA CopyInitially == Init => CopyInv
<1> SUFFICES ASSUME Init PROVE CopyInv
  OBVIOUS
<1> USE CopyAssumption, PatchAssumption DEF Init, PatchInit
<1>1. Types
  <2>1. word \in [Words -> {"orig", "jump"}] /\ store \in [Words -> {"orig", "jump"}]
    BY DEF Original
  <2>2. copy \in [Pages -> [0 .. 3 -> {"none", "orig", "jump", "back"}]]
    OBVIOUS
  <2>3. stack \in [Threads -> Stacks]
    BY DEF Stacks
  <2>4. installs = 0 /\ old = 0 /\ 0 \in 0 .. MaxInstalls /\ 0 \in 0 .. 0
    OBVIOUS
  <2>5. thumb \in BOOLEAN /\ done \in BOOLEAN /\ early \subseteq Threads /\ ran \in [Threads -> Nat]
    OBVIOUS
  <2> QED BY <2>1, <2>2, <2>3, <2>4, <2>5 DEF Types
<1>2. Progress
  BY DEF Progress, Pages
<1>3. \A t \in Threads : stack[t] = <<>>
  OBVIOUS
<1> QED BY <1>1, <1>2, <1>3 DEF CopyInv, FrameOK

(* The stack of the thread that steps.                                     *)
LEMMA OneFrame ==
  ASSUME Types, NEW t \in Threads, stack[t] # <<>>
  PROVE  /\ Head(stack[t]) \in Frames
         /\ \A x : Goto(t, x) => stack' = [stack EXCEPT ![t] = <<x>>]
         /\ Pop(t) => stack' = [stack EXCEPT ![t] = <<>>]
<1>1. PICK y \in Frames : stack[t] = <<y>>
  BY DEF Types, Stacks
<1>2. Tail(stack[t]) = <<>> /\ Head(stack[t]) = y
  BY <1>1
<1>3. \A x : <<x>> \o <<>> = <<x>>
  OBVIOUS
<1>4. <<>> \o <<>> = <<>>
  OBVIOUS
<1> QED BY <1>1, <1>2, <1>3, <1>4 DEF Goto, Pop, Replace

LEMMA NewStack ==
  ASSUME Types, NEW t \in Threads, NEW s \in Stacks, stack' = [stack EXCEPT ![t] = s]
  PROVE  /\ stack' \in [Threads -> Stacks] /\ stack'[t] = s
         /\ \A u \in Threads \ {t} : stack'[u] = stack[u]
  BY DEF Types

(* A step of a caller: it leaves the hook alone.                           *)
LEMMA CallerKeeps ==
  ASSUME CopyInv, NEW t \in Threads, NEW s \in Stacks, stack' = [stack EXCEPT ![t] = s],
         UNCHANGED <<word, thumb, store, copy, unflushed, old, installs, done>>,
         ran' \in [Threads -> Nat], early' \subseteq Threads,
         \A u \in Threads \ {t} : ran'[u] = ran[u] /\ (u \in early' <=> u \in early),
         stack[t] = <<>> \/ Head(stack[t])[1] \in {"orig", "wrapper", "page", "flush"},
         s # <<>> => /\ Head(s)[1] \in {"orig", "wrapper", "page"}
                     /\ CallFrame(t, Head(s))'
  PROVE  CopyInv'
<1> USE PatchAssumption DEF CopyInv
<1>1. /\ stack' \in [Threads -> Stacks] /\ stack'[t] = s
      /\ \A u \in Threads \ {t} : stack'[u] = stack[u]
  BY NewStack
<1>2. Types'
  BY <1>1 DEF Types
<1>3. ~Busy' => ~Busy
  <2>1. CASE t = Installer
    BY <2>1 DEF Busy
  <2>2. CASE t # Installer
    BY <1>1, <2>2 DEF Busy
  <2> QED BY <2>1, <2>2
<1>4. Progress'
  BY <1>3 DEF Progress
<1>5. FrameOK(t)'
  BY <1>1 DEF FrameOK, HookFrame
<1>6. ASSUME NEW u \in Threads \ {t} PROVE FrameOK(u)'
  BY <1>1 DEF FrameOK, HookFrame, CallFrame
<1> QED BY <1>2, <1>4, <1>5, <1>6

LEMMA CallerMoves ==
  ASSUME CopyInv, NEW t \in Threads, NEW x \in Frames, stack' = [stack EXCEPT ![t] = <<x>>],
         UNCHANGED <<word, thumb, store, copy, unflushed, old, installs, done>>,
         ran' \in [Threads -> Nat], early' \subseteq Threads,
         \A u \in Threads \ {t} : ran'[u] = ran[u] /\ (u \in early' <=> u \in early),
         stack[t] = <<>> \/ Head(stack[t])[1] \in {"orig", "wrapper", "page", "flush"},
         x[1] \in {"orig", "wrapper", "page"}, CallFrame(t, x)'
  PROVE  CopyInv'
<1> DEFINE s == <<x>>
<1>1. s \in Stacks /\ Head(s) = x
  BY DEF Stacks
<1>2. CallFrame(t, Head(s))'
  BY <1>1
<1> HIDE DEF s
<1>3. stack' = [stack EXCEPT ![t] = s]
  BY DEF s
<1> QED BY <1>1, <1>2, <1>3, CallerKeeps

(* The steps of callers, one by one.                                       *)
CallStep(t) ==
  \/ CallIt(t)
  \/ Function(t, <<"wrapper", 0>>) /\ UNCHANGED hook
  \/ WrapperSkips(t) \/ WrapperCalls(t)
  \/ \E k \in Words : ExecuteStale(t, k)
  \/ \E k \in 0 .. 3, n \in Pages : ExecuteCopy(t, n, k) \/ RunZeros(t, n, k)

LEMMA CallStepKeeps ==
  ASSUME CopyInv, NEW t \in Threads, CallStep(t)
  PROVE  CopyInv'
<1> USE CopyAssumption, PatchAssumption DEF CopyInv, Unmarked, hook
<1>1. ASSUME CallIt(t) PROVE CopyInv'
  <2>1. /\ stack[t] = <<>> /\ stack' = [stack EXCEPT ![t] = << <<"orig", 0>> >>]
        /\ ran' = [ran EXCEPT ![t] = 0]
        /\ UNCHANGED <<word, thumb, store, copy, unflushed, old, installs, done>>
    BY <1>1 DEF CallIt, Call, Begin
  <2>2. <<"orig", 0>> \in Frames
    BY DEF Frames
  <2>3. /\ ran' \in [Threads -> Nat] /\ ran'[t] = 0 /\ early' \subseteq Threads
        /\ \A u \in Threads \ {t} : ran'[u] = ran[u] /\ (u \in early' <=> u \in early)
        /\ t \notin early' => done'
    BY <1>1, <2>1 DEF CallIt, Types
  <2>4. CallFrame(t, <<"orig", 0>>)'
    BY <2>3 DEF CallFrame
  <2> QED BY <2>1, <2>2, <2>3, <2>4, CallerMoves
<1>2. ASSUME stack[t] # <<>>, NEW x \in Frames, x[1] \in {"orig", "wrapper", "page"}, Goto(t, x),
             Head(stack[t])[1] \in {"orig", "wrapper", "page"},
             UNCHANGED <<word, hook, ran>>,
             x[1] = "page" => x[2] <= old,
             x[1] \in {"wrapper", "page"} => ~thumb,
             x[1] = "orig" /\ t \notin early /\ ~thumb => x[2] \in {0, 3}
      PROVE  CopyInv'
  <2>1. stack' = [stack EXCEPT ![t] = <<x>>]
    BY <1>2, OneFrame
  <2>2. ran[t] = 0 /\ (t \notin early => done)
    BY <1>2 DEF FrameOK, CallFrame
  <2>3. CallFrame(t, x)'
    BY <1>2, <2>2 DEF CallFrame
  <2>4. ran \in [Threads -> Nat] /\ early \subseteq Threads
    BY DEF Types
  <2> QED BY <1>2, <2>1, <2>3, <2>4, CallerMoves
<1>3. ASSUME NEW k \in Words, Execute(t, k), UNCHANGED hook PROVE CopyInv'
  <2>1. stack[t] # <<>> /\ Head(stack[t]) = <<"orig", k>> /\ word[k] = "orig"
    BY <1>3 DEF Execute, At
  <2>2. <<"orig", k + 1>> \in Frames
    BY DEF Frames, Words
  <2>3. t \notin early /\ ~thumb => FALSE
    BY <2>1 DEF FrameOK, CallFrame, Progress, Jumped
  <2> QED BY <1>2, <1>3, <2>1, <2>2, <2>3 DEF Execute
<1>4. ASSUME EnterReplacement(t, <<"wrapper", 0>>), UNCHANGED hook PROVE CopyInv'
  <2>1. stack[t] # <<>> /\ Head(stack[t]) = <<"orig", 0>> /\ word[0] = "jump"
    BY <1>4 DEF EnterReplacement, At
  <2>2. ~thumb
    BY <2>1 DEF Progress, Original, Words
  <2>3. <<"wrapper", 0>> \in Frames
    BY DEF Frames, Words
  <2> QED BY <1>2, <1>4, <2>1, <2>2, <2>3 DEF EnterReplacement
<1>5. ASSUME Lose(t), UNCHANGED hook PROVE CopyInv'
  BY <1>5 DEF Lose, Types, Progress, Busy, FrameOK, HookFrame, CallFrame
<1>6. ASSUME Body(t) \/ WrapperSkips(t), UNCHANGED hook PROVE CopyInv'
  <2>1. /\ stack[t] # <<>> /\ Head(stack[t])[1] \in {"orig", "wrapper"} /\ Pop(t)
        /\ UNCHANGED word /\ (ran' = [ran EXCEPT ![t] = @ + 1] \/ ran' = ran)
    BY <1>6 DEF Body, WrapperSkips, At
  <2>2. stack' = [stack EXCEPT ![t] = <<>>] /\ <<>> \in Stacks
    BY <2>1, OneFrame DEF Stacks
  <2>3. /\ ran' \in [Threads -> Nat] /\ early' \subseteq Threads
        /\ \A u \in Threads \ {t} : ran'[u] = ran[u] /\ (u \in early' <=> u \in early)
    BY <1>6, <2>1, SMTT(30) DEF Types
  <2> QED BY <1>6, <2>1, <2>2, <2>3, CallerKeeps
<1>7. ASSUME WrapperCalls(t) PROVE CopyInv'
  <2>1. stack[t] # <<>> /\ Head(stack[t]) = <<"wrapper", 0>> /\ old # 0 /\ Goto(t, <<"page", old, 0>>)
    BY <1>7 DEF WrapperCalls, At
  <2>2. old \in Pages
    BY <2>1 DEF Types, Pages
  <2>3. <<"page", old, 0>> \in Frames /\ old <= old
    BY <2>2 DEF Frames, Pages
  <2>4. ~thumb
    BY <2>1 DEF FrameOK, CallFrame
  <2> QED BY <1>2, <1>7, <2>1, <2>3, <2>4 DEF WrapperCalls
<1>8. ASSUME NEW k \in 0 .. 3, NEW n \in Pages, ExecuteCopy(t, n, k) PROVE CopyInv'
  <2>1. stack[t] # <<>> /\ Head(stack[t]) = <<"page", n, k>>
    BY <1>8 DEF ExecuteCopy, At
  <2>2. ~thumb /\ n <= old
    BY <2>1 DEF FrameOK, CallFrame
  <2>3. <<"wrapper", 0>> \in Frames /\ <<"orig", 3>> \in Frames /\ (k # 3 => <<"page", n, k + 1>> \in Frames)
    BY DEF Frames, Words
  <2>4. CASE Goto(t, <<"wrapper", 0>>)
    BY <1>2, <1>8, <2>1, <2>2, <2>3, <2>4 DEF ExecuteCopy
  <2>5. CASE Goto(t, <<"orig", 3>>)
    BY <1>2, <1>8, <2>1, <2>2, <2>3, <2>5 DEF ExecuteCopy
  <2>6. CASE k # 3 /\ Goto(t, <<"page", n, k + 1>>)
    BY <1>2, <1>8, <2>1, <2>2, <2>3, <2>6 DEF ExecuteCopy
  <2> QED BY <1>8, <2>4, <2>5, <2>6 DEF ExecuteCopy
<1>9. ASSUME NEW k \in Words, ExecuteStale(t, k) PROVE CopyInv'
  <2>1. stack[t] # <<>> /\ Head(stack[t]) = <<"orig", k>> /\ <<0, k>> \in unflushed
    BY <1>9 DEF ExecuteStale, At
  <2>2. <<"orig", k + 1>> \in Frames
    BY DEF Frames, Words
  <2>3. t \notin early => FALSE
    BY <2>1 DEF FrameOK, CallFrame, Progress
  <2> QED BY <1>2, <1>9, <2>1, <2>2, <2>3 DEF ExecuteStale
<1>10. ASSUME NEW k \in 0 .. 3, NEW n \in Pages, RunZeros(t, n, k) PROVE CopyInv'
  BY <1>10 DEF RunZeros, Types, Progress, Busy, FrameOK, HookFrame, CallFrame
<1> QED BY <1>1, <1>3, <1>4, <1>5, <1>6, <1>7, <1>8, <1>9, <1>10
        DEF CallStep, Function, WrapperSkips
-----------------------------------------------------------------------------
(* The steps of hook_lwp.                                                  *)
LEMMA InstallerKeeps ==
  ASSUME CopyInv, NEW s \in Stacks, stack' = [stack EXCEPT ![Installer] = s],
         UNCHANGED <<thumb, early, ran>>, old' \in Nat, old <= old', done => done',
         s = <<>> \/ \E x \in Frames : /\ s = <<x>> /\ x[1] \in {"patch", "copy", "flush"}
                                      /\ HookFrame(Installer, x)'
  PROVE  \A u \in Threads : FrameOK(u)'
<1> USE PatchAssumption DEF CopyInv
<1>1. stack'[Installer] = s /\ \A u \in Threads \ {Installer} : stack'[u] = stack[u]
  BY NewStack
<1>2. FrameOK(Installer)'
  <2>1. CASE s = <<>>
    BY <1>1, <2>1 DEF FrameOK
  <2>2. ASSUME NEW x \in Frames, s = <<x>>, x[1] \in {"patch", "copy", "flush"}, HookFrame(Installer, x)'
        PROVE  FrameOK(Installer)'
    <3>1. Head(s) = x
      BY <2>2
    <3> QED BY <1>1, <2>2, <3>1 DEF FrameOK, CallFrame
  <2> QED BY <2>1, <2>2
<1>3. ASSUME NEW u \in Threads \ {Installer} PROVE FrameOK(u)'
  <2>1. CASE stack[u] = <<>>
    BY <1>1, <2>1 DEF FrameOK
  <2>2. CASE stack[u] # <<>>
    <3> DEFINE x == Head(stack[u])
    <3>1. HookFrame(u, x) /\ CallFrame(u, x) /\ x \in Frames
      BY <2>2, OneFrame DEF FrameOK
    <3>2. x[1] \notin {"patch", "copy", "flush"}
      BY <3>1 DEF HookFrame
    <3>3. x[1] = "page" => x[2] \in Nat /\ x[2] <= old
      BY <3>1, CopyAssumption DEF Frames, Pages, CallFrame
    <3>4. old \in Nat
      BY CopyAssumption DEF Types
    <3>5. x[1] = "page" => x[2] <= old'
      BY <3>3, <3>4
    <3>6. stack'[u] # <<>> /\ Head(stack'[u]) = x
      BY <1>1, <2>2
    <3> HIDE DEF x
    <3>7. HookFrame(u, x)'
      BY <3>2, <3>6 DEF HookFrame, x
    <3>8. CallFrame(u, x)'
      BY <3>1, <3>5, <3>6 DEF CallFrame, x
    <3> QED BY <3>6, <3>7, <3>8 DEF FrameOK, x
  <2> QED BY <2>1, <2>2
<1> QED BY <1>2, <1>3

LEMMA HookLwpKeeps ==
  ASSUME CopyInv, NEW t \in Threads, HookLwp(t)
  PROVE  CopyInv'
<1> USE CopyAssumption, PatchAssumption DEF CopyInv
<1>0. PICK x : x = IF thumb THEN <<"flush", 0>> ELSE <<"patch", 0>>
  OBVIOUS
<1>1. /\ t = Installer /\ stack[Installer] = <<>> /\ stack' = [stack EXCEPT ![Installer] = <<x>>]
      /\ installs < MaxInstalls /\ installs' = installs + 1 /\ ran' = ran
      /\ store' = (IF thumb THEN store ELSE word)
      /\ UNCHANGED <<word, thumb, copy, unflushed, old, done, early>>
  BY <1>0 DEF HookLwp, Begin
<1>2. x \in Frames /\ x[1] = (IF thumb THEN "flush" ELSE "patch") /\ x[2] = 0
  BY <1>0 DEF Frames, Words
<1>3. <<x>> \in Stacks /\ Head(<<x>>) = x /\ <<x>> # <<>>
  BY <1>2 DEF Stacks
<1>4. stack'[Installer] = <<x>> /\ stack' \in [Threads -> Stacks]
  BY <1>1, <1>3, NewStack
<1>5. installs' \in 0 .. MaxInstalls /\ old' \in 0 .. installs' /\ installs' \in Pages /\ old \in Nat
  BY <1>1 DEF Types, Pages
<1>6. Types'
  BY <1>1, <1>4, <1>5 DEF Types
<1>7. ~thumb => Busy' /\ old = installs' - 1
  <2>1. ~Busy /\ installs \in Nat
    BY <1>1 DEF Busy, Types
  <2> QED BY <1>1, <1>2, <1>3, <1>4, <2>1 DEF Busy, Progress
<1>8. Progress'
  BY <1>1, <1>7 DEF Progress
<1>9. HookFrame(Installer, x)'
  BY <1>1, <1>2, <1>5, <1>7 DEF HookFrame, Words
<1>10. \A u \in Threads : FrameOK(u)'
  <2>1. old' \in Nat /\ old <= old'
    BY <1>1, <1>5
  <2>2. x[1] \in {"patch", "copy", "flush"}
    BY <1>2
  <2> QED BY <1>1, <1>2, <1>3, <1>9, <2>1, <2>2, InstallerKeeps
<1> QED BY <1>6, <1>8, <1>10

LEMMA WriteJumpKeeps ==
  ASSUME CopyInv, NEW t \in Threads, NEW k \in Words, WriteJump(t, k)
  PROVE  CopyInv'
<1> USE CopyAssumption, PatchAssumption DEF CopyInv
<1>0. PICK x : x = IF k = 2 THEN <<"copy", 0>> ELSE <<"patch", k + 1>>
  OBVIOUS
<1>1. /\ stack[t] # <<>> /\ Head(stack[t]) = <<"patch", k>> /\ Goto(t, x)
      /\ word' = [word EXCEPT ![k] = "jump"]
      /\ UNCHANGED <<thumb, store, copy, old, installs, done, early, ran>>
      /\ unflushed' = IF word[k] = "orig" THEN unflushed \cup {<<0, k>>} ELSE unflushed
  BY <1>0 DEF WriteJump, At, Unmarked
<1>2. /\ t = Installer /\ ~thumb /\ installs \in Pages /\ old = installs - 1
      /\ \A j \in Words : j < k => word[j] = "jump"
  BY <1>1 DEF FrameOK, HookFrame
<1>3. x \in Frames /\ x[1] \in {"patch", "copy"} /\ (x[1] = "copy" <=> k = 2) /\ (k # 2 => x[2] = k + 1)
      /\ (k = 2 => x[2] = 0)
  BY <1>0 DEF Frames, Words
<1>4. stack' = [stack EXCEPT ![Installer] = <<x>>]
  BY <1>1, <1>2, OneFrame
<1>5. <<x>> \in Stacks /\ Head(<<x>>) = x /\ <<x>> # <<>>
  BY <1>3 DEF Stacks
<1>6. stack'[Installer] = <<x>> /\ stack' \in [Threads -> Stacks]
  BY <1>4, <1>5, NewStack
<1>7. /\ word' \in [Words -> {"orig", "jump"}]
      /\ \A j \in Words : word'[j] = IF j = k THEN "jump" ELSE word[j]
  BY <1>1 DEF Types
<1>8. Types'
  BY <1>1, <1>6, <1>7 DEF Types
<1>9. k = 2 => word' = Jumped
  <2>1. k = 2 => \A j \in Words : word'[j] = "jump"
    BY <1>2, <1>7 DEF Words
  <2> QED BY <1>7, <2>1 DEF Jumped
<1>10. word = Jumped => word' = Jumped
  BY <1>7 DEF Jumped
<1>11. Progress'
  <2>1. done => unflushed' = unflushed
    BY <1>1, <1>2 DEF Progress, Jumped
  <2>2. done' => \A j \in Words : <<0, j>> \notin unflushed'
    BY <1>1, <2>1 DEF Progress
  <2> QED BY <1>1, <1>2, <1>3, <1>5, <1>6, <1>10, <2>2 DEF Progress, Busy
<1>12. HookFrame(Installer, x)'
  <2>1. k # 2 => \A j \in Words : j < k + 1 => word'[j] = "jump"
    BY <1>2, <1>7 DEF Words
  <2> QED BY <1>1, <1>2, <1>3, <1>9, <2>1 DEF HookFrame
<1>13. \A u \in Threads : FrameOK(u)'
  <2>1. old' \in Nat /\ old <= old'
    BY <1>1 DEF Types
  <2> QED BY <1>1, <1>3, <1>4, <1>5, <1>12, <2>1, InstallerKeeps
<1> QED BY <1>8, <1>11, <1>13

LEMMA WriteCopyKeeps ==
  ASSUME CopyInv, NEW t \in Threads, NEW k \in 0 .. 3, WriteCopy(t, k)
  PROVE  CopyInv'
<1> USE CopyAssumption, PatchAssumption DEF CopyInv
<1>0. PICK x : x = IF k = 3 THEN <<"flush", 0>> ELSE <<"copy", k + 1>>
  OBVIOUS
<1>1. /\ stack[t] # <<>> /\ Head(stack[t]) = <<"copy", k>> /\ Goto(t, x)
      /\ copy' = [copy EXCEPT ![installs][k] = IF k = 3 THEN "back" ELSE store[k]]
      /\ unflushed' = unflushed \cup {<<installs, k>>}
      /\ old' = IF k = 3 THEN installs ELSE old
      /\ UNCHANGED <<word, thumb, store, installs, done, early, ran>>
  BY <1>0 DEF WriteCopy, At, Unmarked
<1>2. /\ t = Installer /\ ~thumb /\ installs \in Pages /\ old = installs - 1 /\ word = Jumped
      /\ \A j \in 0 .. 3 : j < k => copy[installs][j] # "none"
  BY <1>1 DEF FrameOK, HookFrame
<1>3. /\ x \in Frames /\ x[1] \in {"copy", "flush"} /\ (x[1] = "flush" <=> k = 3)
      /\ (k # 3 => x[2] = k + 1)
  BY <1>0 DEF Frames, Words
<1>4. stack' = [stack EXCEPT ![Installer] = <<x>>]
  BY <1>1, <1>2, OneFrame
<1>5. <<x>> \in Stacks /\ Head(<<x>>) = x /\ <<x>> # <<>>
  BY <1>3 DEF Stacks
<1>6. stack'[Installer] = <<x>> /\ stack' \in [Threads -> Stacks]
  BY <1>4, <1>5, NewStack
<1>7. PICK w \in {"orig", "jump", "back"} : w = IF k = 3 THEN "back" ELSE store[k]
  <2>1. k # 3 => k \in Words
    BY DEF Words
  <2> QED BY <2>1 DEF Types
<1>8. /\ copy' \in [Pages -> [0 .. 3 -> {"none", "orig", "jump", "back"}]]
      /\ copy'[installs][k] = w
      /\ \A j \in 0 .. 3 : j # k => copy'[installs][j] = copy[installs][j]
      /\ \A n \in Pages : n # installs => copy'[n] = copy[n]
  BY <1>1, <1>2, <1>7 DEF Types
<1>9. /\ installs \in Nat /\ installs > 0 /\ old' \in 0 .. installs /\ old' \in Nat /\ old <= old'
      /\ Pages \subseteq Nat
  BY <1>1, <1>2 DEF Types, Pages
<1>10. Types'
  BY <1>1, <1>6, <1>8, <1>9 DEF Types
<1>11. \A j \in 0 .. 3 : j <= k => copy'[installs][j] # "none"
  BY <1>2, <1>7, <1>8
<1>12. ASSUME NEW n \in Pages, n <= old', NEW j \in 0 .. 3 PROVE copy'[n][j] # "none"
  <2>1. CASE n = installs
    <3>1. k = 3
      BY <1>1, <1>2, <1>9, <1>12, <2>1
    <3> QED BY <1>11, <2>1, <3>1
  <2>2. CASE n # installs
    <3>1. n <= old
      BY <1>1, <1>2, <1>9, <1>12, <2>2
    <3> QED BY <1>8, <2>2, <3>1 DEF Progress
  <2> QED BY <2>1, <2>2
<1>13. ~Busy' => k = 3
  BY <1>3, <1>5, <1>6 DEF Busy
<1>14. Progress'
  <2>1. \A j \in Words : <<0, j>> # <<installs, k>>
    BY <1>9
  <2>2. done' => \A j \in Words : <<0, j>> \notin unflushed'
    BY <1>1, <2>1, Zenon DEF Progress
  <2> QED BY <1>1, <1>2, <1>9, <1>12, <1>13, <2>2 DEF Progress
<1>15. HookFrame(Installer, x)'
  <2>1. k # 3 => \A j \in 0 .. 3 : j < k + 1 => j <= k
    OBVIOUS
  <2> QED BY <1>1, <1>2, <1>3, <1>9, <1>11, <2>1 DEF HookFrame
<1>16. \A u \in Threads : FrameOK(u)'
  <2>1. x[1] \in {"patch", "copy", "flush"}
    BY <1>3
  <2> QED BY <1>1, <1>3, <1>4, <1>5, <1>9, <1>15, <2>1, InstallerKeeps
<1> QED BY <1>10, <1>14, <1>16

LEMMA FlushKeeps ==
  ASSUME CopyInv, NEW t \in Threads, Flush(t)
  PROVE  CopyInv'
<1> USE CopyAssumption, PatchAssumption DEF CopyInv
<1>1. /\ stack[t] # <<>> /\ Head(stack[t]) = <<"flush", 0>> /\ Pop(t) /\ done' = TRUE
      /\ unflushed' = {w \in unflushed : w[1] # 0}
      /\ UNCHANGED <<word, thumb, store, copy, old, installs, early, ran>>
  BY DEF Flush, At, Unmarked
<1>2. t = Installer /\ (~thumb => word = Jumped /\ old > 0)
  BY <1>1 DEF FrameOK, HookFrame
<1>3. stack' = [stack EXCEPT ![Installer] = <<>>] /\ <<>> \in Stacks
  BY <1>1, <1>2, OneFrame DEF Stacks
<1>4. stack'[Installer] = <<>> /\ stack' \in [Threads -> Stacks]
  BY <1>3, NewStack
<1>5. old \in Nat /\ old' \in Nat /\ old <= old'
  BY <1>1 DEF Types
<1>6. Types'
  BY <1>1, <1>4 DEF Types
<1>7. ~Busy
  BY <1>1, <1>2 DEF Busy
<1>8. Progress'
  <2>1. \A j \in Words : <<0, j>> \notin unflushed'
    BY <1>1
  <2> QED BY <1>1, <1>2, <1>7, <2>1 DEF Progress
<1>9. \A u \in Threads : FrameOK(u)'
  BY <1>1, <1>3, <1>5, InstallerKeeps
<1> QED BY <1>6, <1>8, <1>9

LEMMA CopyStep == CopyInv /\ [Next]_vars => CopyInv'
<1> SUFFICES ASSUME CopyInv, [Next]_vars PROVE CopyInv'
  OBVIOUS
<1>1. CASE UNCHANGED vars
  BY <1>1 DEF vars, patchVars, hook, CopyInv, Types, Progress, Busy, FrameOK, HookFrame, CallFrame
<1>2. ASSUME NEW t \in Threads, HookLwp(t) \/ CallIt(t) \/ Step(t) PROVE CopyInv'
  <2>1. \/ HookLwp(t) \/ Flush(t) \/ CallStep(t) \/ (\E k \in Words : WriteJump(t, k))
        \/ (\E k \in 0 .. 3 : WriteCopy(t, k))
    BY <1>2 DEF Step, CallStep
  <2> QED BY <2>1, HookLwpKeeps, FlushKeeps, CallStepKeeps, WriteJumpKeeps, WriteCopyKeeps
<1> QED BY <1>1, <1>2 DEF Next
-----------------------------------------------------------------------------
LEMMA InvPageWhole == CopyInv => PageWhole
<1> SUFFICES ASSUME CopyInv, NEW t \in Threads, NEW n \in Pages, NEW k \in 0 .. 3, Zeros(t, n, k)
             PROVE  copy[n][k] # "none" /\ <<n, k>> \in unflushed
  BY DEF PageWhole
<1>1. stack[t] # <<>> /\ Head(stack[t]) = <<"page", n, k>>
  BY DEF Zeros, At
<1>2. n <= old
  BY <1>1 DEF CopyInv, FrameOK, CallFrame
<1>3. copy[n][k] # "none"
  BY <1>2 DEF CopyInv, Progress
<1> QED BY <1>3 DEF Zeros

LEMMA InvSafe == CopyInv => SafeOnceDone
<1> SUFFICES ASSUME CopyInv, NEW t \in Threads \ early
             PROVE  ~Astray(t) /\ \A k \in Words : At(t, <<"orig", k>>) => <<0, k>> \notin unflushed
  BY DEF SafeOnceDone
<1>1. ASSUME NEW k \in Words, stack[t] # <<>>, Head(stack[t]) = <<"orig", k>>
      PROVE  done /\ (~thumb => k = 0)
  BY <1>1 DEF CopyInv, FrameOK, CallFrame, Words
<1>2. \A k \in Words : At(t, <<"orig", k>>) => <<0, k>> \notin unflushed
  BY <1>1 DEF At, CopyInv, Progress
<1>3. ASSUME Astray(t) PROVE FALSE
  <2>1. PICK k \in Words : /\ stack[t] # <<>> /\ Head(stack[t]) = <<"orig", k>>
                           /\ (k = 0 => word[0] = "jump" /\ word[2] = "orig")
                           /\ (k # 0 => word[k] = "jump")
    BY <1>3 DEF Astray, At, Words
  <2>2. done /\ (~thumb => k = 0)
    BY <1>1, <2>1
  <2>3. CASE thumb
    <3>1. word = Original
      BY <2>3 DEF CopyInv, Progress
    <3> QED BY <2>1, <3>1 DEF Original, Words
  <2>4. CASE ~thumb
    <3>1. word = Jumped /\ k = 0
      BY <2>2, <2>4 DEF CopyInv, Progress
    <3> QED BY <2>1, <3>1 DEF Jumped, Words
  <2> QED BY <2>3, <2>4
<1> QED BY <1>2, <1>3

(* Nobody but the thread that steps loses a frame.                         *)
LEMMA OwnStack ==
  ASSUME CopyInv, NEW u \in Threads, HookLwp(u) \/ CallIt(u) \/ Step(u), NEW t \in Threads \ {u}
  PROVE  stack'[t] = stack[t]
<1> USE DEF CopyInv
<1>1. \E s : stack' = [stack EXCEPT ![u] = s]
  <2>1. ASSUME NEW x, Goto(u, x) \/ Pop(u) PROVE \E s : stack' = [stack EXCEPT ![u] = s]
    BY <2>1 DEF Goto, Pop, Replace
  <2>2. ASSUME NEW x, Begin(u, x) PROVE \E s : stack' = [stack EXCEPT ![u] = s]
    BY <2>2 DEF Begin
  <2>3. CASE HookLwp(u) \/ CallIt(u)
    BY <2>2, <2>3 DEF HookLwp, CallIt, Call
  <2>4. CASE Flush(u) \/ WrapperSkips(u) \/ WrapperCalls(u)
    BY <2>1, <2>4 DEF Flush, WrapperSkips, WrapperCalls
  <2>5. CASE \E k \in Words : WriteJump(u, k)
    BY <2>1, <2>5 DEF WriteJump
  <2>6. CASE \E k \in 0 .. 3 : WriteCopy(u, k) \/ \E n \in Pages : ExecuteCopy(u, n, k) \/ RunZeros(u, n, k)
    <3>1. CASE \E k \in 0 .. 3, n \in Pages : RunZeros(u, n, k)
      <4>1. stack' = [stack EXCEPT ![u] = stack[u]]
        BY <3>1 DEF RunZeros, Types
      <4> QED BY <4>1
    <3> QED BY <2>1, <2>6, <3>1 DEF WriteCopy, ExecuteCopy
  <2>8. CASE \E k \in Words : ExecuteStale(u, k)
    BY <2>1, <2>8 DEF ExecuteStale
  <2>7. CASE Function(u, <<"wrapper", 0>>)
    <3>1. CASE Lose(u)
      <4>1. stack' = [stack EXCEPT ![u] = stack[u]]
        BY <3>1 DEF Lose, Types
      <4> QED BY <4>1
    <3> QED BY <2>1, <2>7, <3>1 DEF Function, Execute, EnterReplacement, Body
  <2> QED BY <2>3, <2>4, <2>5, <2>6, <2>7, <2>8 DEF Step
<1> QED BY <1>1 DEF Types

(* Only the body, the wrapper without an original and the flush pop.       *)
LEMMA WhoPops ==
  ASSUME CopyInv, NEW t \in Threads, HookLwp(t) \/ CallIt(t) \/ Step(t),
         stack[t] # <<>>, stack'[t] = <<>>
  PROVE  Body(t) \/ WrapperSkips(t) \/ Flush(t)
<1> USE DEF CopyInv
<1>1. ASSUME NEW x, Goto(t, x) PROVE FALSE
  <2>1. Types
    OBVIOUS
  <2>2. stack' = [stack EXCEPT ![t] = <<x>>]
    BY <1>1, <2>1, OneFrame
  <2>3. stack \in [Threads -> Stacks]
    BY <2>1 DEF Types
  <2>4. stack'[t] = <<x>>
    BY <2>2, <2>3
  <2> QED BY <2>4
<1>2. ~HookLwp(t) /\ ~CallIt(t)
  BY DEF HookLwp, CallIt, Call, Begin
<1>3. ~Lose(t)
  BY DEF Lose
<1>4. /\ ~WrapperCalls(t)
      /\ ~(\E k \in Words : WriteJump(t, k) \/ Execute(t, k) \/ ExecuteStale(t, k))
  BY <1>1 DEF WrapperCalls, WriteJump, Execute, ExecuteStale
<1>5. ~(\E k \in 0 .. 3 : WriteCopy(t, k) \/ \E n \in Pages : ExecuteCopy(t, n, k) \/ RunZeros(t, n, k))
  BY <1>1 DEF WriteCopy, ExecuteCopy, RunZeros
<1>6. ~EnterReplacement(t, <<"wrapper", 0>>)
  BY <1>1 DEF EnterReplacement
<1> QED BY <1>2, <1>3, <1>4, <1>5, <1>6 DEF Step, Function

LEMMA ServedStep ==
  ASSUME CopyInv, [Next]_vars, NEW t \in Threads \ early,
         stack[t] # <<>>, stack'[t] = <<>>, Head(stack[t])[1] # "flush"
  PROVE  ran'[t] = 1
<1>1. Next
  BY DEF vars, patchVars
<1>2. HookLwp(t) \/ CallIt(t) \/ Step(t)
  BY <1>1, OwnStack DEF Next
<1>3. ~Flush(t)
  BY DEF Flush, At
<1>4. ~WrapperSkips(t)
  <2> SUFFICES ASSUME WrapperSkips(t) PROVE FALSE
    OBVIOUS
  <2>1. Head(stack[t]) = <<"wrapper", 0>> /\ old = 0
    BY DEF WrapperSkips, At
  <2>2. ~thumb /\ done
    BY <2>1 DEF CopyInv, FrameOK, CallFrame
  <2> QED BY <2>1, <2>2 DEF CopyInv, Progress
<1>5. Body(t)
  BY <1>2, <1>3, <1>4, WhoPops
<1>6. ran[t] = 0
  BY <1>5 DEF Body, At, CopyInv, FrameOK, CallFrame
<1>7. ran' = [ran EXCEPT ![t] = ran[t] + 1] /\ ran \in [Threads -> Nat]
  BY <1>5 DEF Body, CopyInv, Types
<1> QED BY <1>6, <1>7

(* WriteCopy of hook_lwp sets *origFunc last: a thread that is sent to the *)
(* page of the original and runs zeros there lacks a flush and no write,   *)
(* however often hook_lwp runs.                                            *)
THEOREM NoHalfPage == Spec => []PageWhole
  BY CopyInitially, CopyStep, InvPageWhole, PTL DEF Spec

(* Once hook_lwp has returned, a call meets whole and flushed code in the  *)
(* function itself.                                                        *)
THEOREM SafeAfterReturn == Spec => []SafeOnceDone
  BY CopyInitially, CopyStep, InvSafe, PTL DEF Spec

(* A call that begins after hook_lwp has returned runs the original once   *)
(* before it returns, if it does (the page may be fetched as zeros):       *)
(* gettimeofday_new_directly does not take its shortcut.                   *)
THEOREM ServedAfterReturn == Spec => ServedOnceDone
<1> DEFINE Served == \A t \in Threads \ early :
             stack[t] # <<>> /\ stack'[t] = <<>> /\ Head(stack[t])[1] # "flush" => ran'[t] = 1
<1>1. CopyInv /\ [Next]_vars => [Served]_vars
  BY ServedStep
<1> QED BY <1>1, CopyInitially, CopyStep, PTL DEF Spec, ServedOnceDone
===============================================================================
