--------------------------- MODULE ToggleHookProofs ---------------------------
(***************************************************************************)
(* ToggleHook: what the wrapper that rewrites the function around every    *)
(* call keeps, proved for any number of threads, calls, nested wrappers    *)
(* and installations.  The invariants read the stacks through tops and     *)
(* depths; the first lemmas turn each step into an update of the two.      *)
(***************************************************************************)
EXTENDS ToggleHook, TLAPS

(* The frames of a thread; below the innermost one there are only wrappers *)
(* that wait for the original to return.                                   *)
Frames == ({"lock", "save", "patch", "pre", "post"} \X Words) \cup ({"orig"} \X (0 .. 3))
Post == <<"post", 0>>
None == <<"none", 0>>

(* The innermost frame of every thread, None outside, and the number of    *)
(* its frames: all the invariants below need of the stacks.                *)
tops == [t \in Threads |-> IF stack[t] = <<>> THEN None ELSE Head(stack[t])]
depths == [t \in Threads |-> Len(stack[t])]

Shape ==
  /\ stack \in [Threads -> Seq(Frames)]
  /\ \A t \in Threads : \A j \in 2 .. Len(stack[t]) : stack[t][j] = Post

(* Which thread may be in which routine, and what it has done by then.     *)
RoutineOK(t) ==
  /\ tops[t][1] \in {"orig", "lock", "pre"} => ran[t] = 0
  /\ tops[t][1] = "post" => ran[t] = 1
  /\ tops[t][1] \in {"save", "patch"} => depths[t] = 1 /\ t = Installer
  /\ tops[t][1] = "lock" => locked

Basic ==
  /\ Shape
  /\ word \in [Words -> {"orig", "jump"}] /\ store \in [Words -> {"orig", "jump"}]
  /\ calls \in [Threads -> 0 .. MaxCalls] /\ ran \in [Threads -> Nat]
  /\ installs \in Nat /\ locked \in BOOLEAN /\ holder \in Threads \cup {Nobody}
  /\ lost \in BOOLEAN /\ overlap \in BOOLEAN
  /\ \A t \in Threads : RoutineOK(t)

(* Who will still write word k: an installation, and a wrapper that has    *)
(* hook_postcall to come.                                                  *)
Owes(x, depth, k) ==
  \/ depth > 1
  \/ x[1] \in {"save", "pre"}
  \/ x[1] \in {"patch", "post"} /\ x[2] <= k

Debt ==
  installs > 0 =>
    \A k \in Words : word[k] = "jump" \/ \E t \in Threads : Owes(tops[t], depths[t], k)

(* The code when a thread that is alone is at frame x.                     *)
Rest == IF installs > 0 THEN Jumped ELSE Original
TurnOK(x, depth) ==
  /\ x[1] # "orig" \/ depth > 1 => installs > 0
  /\ x[1] # "save" => store \in {Original, Jumped}
  /\ x[1] \in {"orig", "save"} => word \in {Original, Jumped}
  /\ x[1] = "orig" => /\ depth = 1 => word = Rest
                      /\ x[2] > 0 => word = Original
  /\ x[1] = "lock" => word = Jumped
  /\ x[1] = "save" => \A j \in Words : j < x[2] => store[j] = word[j]
  /\ x[1] \in {"patch", "post"} => \A j \in Words : j < x[2] => word[j] = "jump"
  /\ x[1] = "pre" => \A j \in Words : word[j] = IF j < x[2] THEN store[j] ELSE "jump"

Turns ==
  ~overlap =>
    /\ ~lost
    /\ \A t, u \in Threads : tops[t] # None /\ tops[u] # None => t = u
    /\ (\A t \in Threads : tops[t] = None) => word = Rest /\ store \in {Original, Jumped}
    /\ \A t \in Threads : tops[t] # None => TurnOK(tops[t], depths[t])

(* Between hook_precall's first write and hook_postcall's last one.        *)
Inside(x, depth) == x[1] \in {"pre", "post"} \/ depth > 1

(* The first k words are a and the others b.                               *)
Split(k, a, b) == \A j \in Words : word[j] = IF j < k THEN a ELSE b

(* With one installation and one thread inside at a time.                  *)
Single == installs <= 1 /\ (locked \/ ~overlap)
WindowOK(x, depth) ==
  /\ depth > 1 => depth = 2 /\ x[1] = "orig" /\ word = Original
  /\ x[1] = "save" => word = Original
  /\ x[1] \in {"patch", "post"} => Split(x[2], "jump", "orig")
  /\ x[1] = "pre" => Split(x[2], "orig", "jump")
  /\ installs = 0 => x[1] \in {"none", "orig"} /\ depth <= 1
Window ==
  Single =>
    /\ store = Original
    /\ installs = 0 => word = Original
    /\ \A t \in Threads : WindowOK(tops[t], depths[t])
    /\ \A t, u \in Threads : tops[t][1] \in {"save", "patch"} =>
         tops[u][1] # "lock" /\ ~Inside(tops[u], depths[u])
    /\ \A t, u \in Threads : Inside(tops[t], depths[t]) /\ Inside(tops[u], depths[u]) => t = u
    /\ locked => \A t \in Threads : Inside(tops[t], depths[t]) => holder = t
    /\ installs = 1 /\ word # Jumped =>
         \E t \in Threads : Inside(tops[t], depths[t]) \/ tops[t][1] \in {"save", "patch"}

ToggleInv == Basic /\ Debt /\ Turns /\ Window

-----------------------------------------------------------------------------
(* Thread t comes to frame x with depth frames.                            *)
Moves(t, x, depth) ==
  tops' = [tops EXCEPT ![t] = x] /\ depths' = [depths EXCEPT ![t] = depth]

LEMMA TopFacts ==
  ASSUME Shape, NEW t \in Threads
  PROVE  /\ tops[t] \in Frames \cup {None} /\ depths[t] \in Nat
         /\ tops[t] = None <=> depths[t] = 0
         /\ tops[t] = None <=> stack[t] = <<>>
         /\ stack[t] # <<>> => tops[t] = Head(stack[t])
         /\ depths[t] = Len(stack[t])
<1>1. stack[t] \in Seq(Frames)
  BY DEF Shape
<1>2. None \notin Frames
  BY DEF None, Frames
<1>3. stack[t] # <<>> => Head(stack[t]) \in Frames
  BY <1>1
<1>4. Len(stack[t]) \in Nat /\ (Len(stack[t]) = 0 <=> stack[t] = <<>>)
  BY <1>1
<1> QED BY <1>1, <1>2, <1>3, <1>4 DEF tops, depths

LEMMA AtFrame ==
  ASSUME Shape, NEW t \in Threads, NEW x, At(t, x)
  PROVE  tops[t] = x /\ x \in Frames /\ depths[t] \in Nat \ {0} /\ ~lost /\ stack[t] # <<>>
<1>1. stack[t] # <<>> /\ Head(stack[t]) = x /\ ~lost
  BY DEF At
<1>2. stack[t] \in Seq(Frames)
  BY DEF Shape
<1>3. Head(stack[t]) \in Frames /\ Len(stack[t]) \in Nat \ {0}
  BY <1>1, <1>2
<1> QED BY <1>1, <1>3, TopFacts DEF tops, depths

(* The innermost frame is replaced by one or two, or removed.              *)
LEMMA NewTop ==
  ASSUME Shape, NEW t \in Threads, NEW s \in Seq(Frames),
         stack' = [stack EXCEPT ![t] = s],
         \A j \in 2 .. Len(s) : s[j] = Post
  PROVE  Shape' /\ Moves(t, IF s = <<>> THEN None ELSE Head(s), Len(s))
<1>1. /\ stack' \in [Threads -> Seq(Frames)] /\ stack'[t] = s
      /\ \A u \in Threads \ {t} : stack'[u] = stack[u]
  BY DEF Shape
<1>2. Shape'
  <2>1. ASSUME NEW u \in Threads, NEW j \in 2 .. Len(stack'[u]) PROVE stack'[u][j] = Post
    BY <1>1, <2>1 DEF Shape
  <2> QED BY <1>1, <2>1 DEF Shape
<1>3. tops' = [u \in Threads |-> IF stack'[u] = <<>> THEN None ELSE Head(stack'[u])]
  BY DEF tops
<1>4. depths' = [u \in Threads |-> Len(stack'[u])]
  BY DEF depths
<1> QED BY <1>1, <1>2, <1>3, <1>4 DEF Moves, tops, depths

LEMMA TailFacts ==
  ASSUME Shape, NEW t \in Threads, stack[t] # <<>>
  PROVE  /\ Tail(stack[t]) \in Seq(Frames) /\ Len(Tail(stack[t])) = depths[t] - 1
         /\ \A j \in 1 .. Len(Tail(stack[t])) : Tail(stack[t])[j] = Post
<1>1. stack[t] \in Seq(Frames) /\ \A j \in 2 .. Len(stack[t]) : stack[t][j] = Post
  BY DEF Shape
<1>2. \A j \in 1 .. Len(Tail(stack[t])) : Tail(stack[t])[j] = stack[t][j + 1]
  BY <1>1
<1> QED BY <1>1, <1>2, TopFacts

LEMMA GotoMoves ==
  ASSUME Shape, NEW t \in Threads, stack[t] # <<>>, NEW x \in Frames, Goto(t, x)
  PROVE  Shape' /\ Moves(t, x, depths[t])
<1> DEFINE s == <<x>> \o Tail(stack[t])
<1>1. stack' = [stack EXCEPT ![t] = s]
  BY DEF Goto, Replace, Shape
<1>2. /\ s \in Seq(Frames) /\ s # <<>> /\ Head(s) = x /\ Len(s) = depths[t]
      /\ \A j \in 2 .. Len(s) : s[j] = Tail(stack[t])[j - 1]
  BY TailFacts, TopFacts
<1>3. ASSUME NEW j \in 2 .. Len(s) PROVE s[j] = Post
  <2>1. depths[t] \in Nat /\ Len(Tail(stack[t])) = depths[t] - 1
    BY TailFacts, TopFacts
  <2>2. PICK i \in 1 .. Len(Tail(stack[t])) : j = i + 1
    <3>1. j - 1 \in 1 .. Len(Tail(stack[t])) /\ j = (j - 1) + 1
      BY <1>2, <2>1
    <3> QED BY <3>1
  <2>3. s[j] = Tail(stack[t])[i]
    <3>1. j - 1 = i
      BY <2>2
    <3> HIDE DEF s
    <3> QED BY <1>2, <3>1
  <2> QED BY <2>2, <2>3, TailFacts
<1> HIDE DEF s
<1> QED BY <1>1, <1>2, <1>3, NewTop

LEMMA PopMoves ==
  ASSUME Shape, NEW t \in Threads, stack[t] # <<>>, Pop(t)
  PROVE  /\ Shape' /\ (stack'[t] = <<>> <=> depths[t] = 1)
         /\ Moves(t, IF depths[t] > 1 THEN Post ELSE None, depths[t] - 1)
<1> DEFINE s == Tail(stack[t])
<1>1. <<>> \o s = s
  BY TailFacts
<1>2. stack' = [stack EXCEPT ![t] = s]
  BY <1>1 DEF Pop, Replace, Shape
<1>3. s \in Seq(Frames) /\ Len(s) = depths[t] - 1 /\ \A j \in 1 .. Len(s) : s[j] = Post
  BY TailFacts
<1>4. \A j \in 2 .. Len(s) : j \in 1 .. Len(s)
  BY <1>3, TopFacts
<1> HIDE DEF s
<1>5. Shape' /\ Moves(t, IF s = <<>> THEN None ELSE Head(s), Len(s))
  BY <1>2, <1>3, <1>4, NewTop
<1>6. s = <<>> <=> depths[t] = 1
  BY <1>3, TopFacts
<1>7. s # <<>> => Head(s) = Post
  BY <1>3
<1>8. depths[t] \in Nat \ {0}
  BY TopFacts
<1> QED BY <1>2, <1>3, <1>5, <1>6, <1>7, <1>8 DEF Shape

LEMMA CallMoves ==
  ASSUME Shape, NEW t \in Threads, stack[t] # <<>>, NEW x \in Frames, Replace(t, <<x, Post>>)
  PROVE  Shape' /\ Moves(t, x, depths[t] + 1)
<1> DEFINE s == <<x, Post>> \o Tail(stack[t])
<1>1. stack' = [stack EXCEPT ![t] = s]
  BY DEF Replace, Shape
<1>2. Post \in Frames
  BY DEF Post, Frames, Words
<1>3. /\ s \in Seq(Frames) /\ s # <<>> /\ Head(s) = x /\ Len(s) = depths[t] + 1
      /\ \A j \in 2 .. Len(s) : s[j] = IF j = 2 THEN Post ELSE Tail(stack[t])[j - 2]
  BY <1>2, TailFacts, TopFacts
<1>4. ASSUME NEW j \in 2 .. Len(s) PROVE s[j] = Post
  <2>1. CASE j = 2
    BY <1>3, <2>1
  <2>2. CASE j # 2
    <3>1. depths[t] \in Nat /\ Len(Tail(stack[t])) = depths[t] - 1
      BY TailFacts, TopFacts
    <3>2. PICK i \in 1 .. Len(Tail(stack[t])) : j - 2 = i
      <4>1. j - 2 \in 1 .. Len(Tail(stack[t]))
        BY <1>3, <2>2, <3>1
      <4> QED BY <4>1
    <3> HIDE DEF s
    <3>3. s[j] = Tail(stack[t])[i]
      BY <1>3, <2>2, <3>2
    <3> QED BY <3>2, <3>3, TailFacts
  <2> QED BY <2>1, <2>2
<1> HIDE DEF s
<1> QED BY <1>1, <1>3, <1>4, NewTop

LEMMA BeginMoves ==
  ASSUME Shape, NEW t \in Threads, NEW x \in Frames, Begin(t, x)
  PROVE  /\ Shape' /\ Moves(t, x, 1) /\ ~lost /\ tops[t] = None /\ depths[t] = 0
         /\ overlap' = (overlap \/ \E u \in Threads : tops[u] # None)
<1>1. ~lost /\ stack[t] = <<>> /\ stack' = [stack EXCEPT ![t] = <<x>>]
  BY DEF Begin
<1> DEFINE s == <<x>>
<1>2. /\ s \in Seq(Frames) /\ s # <<>> /\ Len(s) = 1 /\ Head(s) = x
      /\ \A j \in 2 .. Len(s) : s[j] = Post
  OBVIOUS
<1>3. Shape' /\ Moves(t, x, 1)
  <2>1. stack' = [stack EXCEPT ![t] = s]
    BY <1>1
  <2> HIDE DEF s
  <2> QED BY <1>2, <2>1, NewTop
<1>4. \A u \in Threads : stack[u] # <<>> <=> tops[u] # None
  BY TopFacts
<1> QED BY <1>1, <1>3, <1>4, TopFacts DEF Begin

LEMMA Moved ==
  ASSUME NEW t \in Threads, NEW x, NEW d, Moves(t, x, d)
  PROVE  /\ tops'[t] = x /\ depths'[t] = d
         /\ \A u \in Threads \ {t} : tops'[u] = tops[u] /\ depths'[u] = depths[u]
<1>1. tops \in [Threads -> {tops[u] : u \in Threads}] /\ depths \in [Threads -> {depths[u] : u \in Threads}]
  BY DEF tops, depths
<1> QED BY <1>1 DEF Moves

(* What a frame says, by name.                                             *)
LEMMA FrameFacts ==
  /\ \A x \in Frames : x[1] \in {"lock", "save", "patch", "pre", "post", "orig"}
  /\ \A x \in Frames : x[1] # "orig" => x[2] \in Words
  /\ \A r \in {"lock", "save", "patch", "pre", "post"}, k \in Words :
       <<r, k>> \in Frames /\ <<r, k>>[1] = r /\ <<r, k>>[2] = k
  /\ \A k \in 0 .. 3 : <<"orig", k>> \in Frames /\ <<"orig", k>>[1] = "orig" /\ <<"orig", k>>[2] = k
  /\ Post \in Frames /\ Post[1] = "post" /\ Post[2] = 0
  /\ None[1] = "none" /\ None[2] = 0 /\ None \notin Frames
  /\ Words = {0, 1, 2}
  BY DEF Frames, Words, Post, None

(* The types and the routines, for a step that leaves both words and the   *)
(* mutex in their types.                                                   *)
LEMMA BasicMoves ==
  ASSUME Basic, NEW t \in Threads, NEW x, NEW d, Moves(t, x, d), Shape',
         word' \in [Words -> {"orig", "jump"}], store' \in [Words -> {"orig", "jump"}],
         calls' \in [Threads -> 0 .. MaxCalls], ran' \in [Threads -> Nat],
         installs' \in Nat, locked' = locked, holder' \in Threads \cup {Nobody},
         lost' \in BOOLEAN, overlap' \in BOOLEAN,
         \A u \in Threads \ {t} : ran'[u] = ran[u],
         x[1] \in {"orig", "lock", "pre"} => ran'[t] = 0,
         x[1] = "post" => ran'[t] = 1,
         x[1] \in {"save", "patch"} => d = 1 /\ t = Installer,
         x[1] = "lock" => locked
  PROVE  Basic'
<1>1. /\ tops'[t] = x /\ depths'[t] = d
      /\ \A u \in Threads \ {t} : tops'[u] = tops[u] /\ depths'[u] = depths[u]
  BY Moved
<1>2. RoutineOK(t)'
  BY <1>1 DEF RoutineOK
<1>3. ASSUME NEW u \in Threads \ {t} PROVE RoutineOK(u)'
  <2>1. RoutineOK(u)
    BY DEF Basic
  <2> QED BY <1>1, <2>1 DEF RoutineOK
<1> QED BY <1>2, <1>3 DEF Basic

-----------------------------------------------------------------------------
(* Every action as an update of tops and depths, and that it keeps Basic.  *)
Hook == <<store, locked, holder, installs>>
From(t, x) == tops[t] = x /\ depths[t] \in Nat \ {0} /\ ~lost /\ ~lost'

LEMMA CallStep ==
  ASSUME Basic, NEW t \in Threads, Call(t), UNCHANGED Hook
  PROVE  /\ Basic' /\ Moves(t, <<"orig", 0>>, 1) /\ tops[t] = None /\ depths[t] = 0
         /\ ~lost /\ ~lost' /\ UNCHANGED word
         /\ overlap' = (overlap \/ \E u \in Threads : tops[u] # None)
<1> USE PatchAssumption, ToggleAssumption DEF Basic
<1> DEFINE x == <<"orig", 0>>
<1>1. x \in Frames /\ x[1] = "orig"
  BY FrameFacts
<1>2. /\ calls[t] < MaxCalls /\ Begin(t, x) /\ calls' = [calls EXCEPT ![t] = @ + 1]
      /\ ran' = [ran EXCEPT ![t] = 0] /\ UNCHANGED <<word, lost>>
  BY DEF Call
<1> HIDE DEF x
<1>3. /\ Shape' /\ Moves(t, x, 1) /\ ~lost /\ tops[t] = None /\ depths[t] = 0
      /\ overlap' = (overlap \/ \E u \in Threads : tops[u] # None)
  BY <1>1, <1>2, BeginMoves
<1>4. /\ calls' \in [Threads -> 0 .. MaxCalls] /\ ran' \in [Threads -> Nat] /\ ran'[t] = 0
      /\ \A u \in Threads \ {t} : ran'[u] = ran[u]
  BY <1>2
<1>5. Basic'
  BY <1>1, <1>2, <1>3, <1>4, BasicMoves DEF Hook
<1> QED BY <1>2, <1>3, <1>5 DEF x

LEMMA InstallStep ==
  ASSUME Basic, NEW t \in Threads, DoHook(t)
  PROVE  /\ Basic' /\ Moves(t, <<"save", 0>>, 1) /\ tops[t] = None /\ depths[t] = 0
         /\ ~lost /\ ~lost' /\ UNCHANGED <<word, store, locked, holder, ran>>
         /\ installs' = installs + 1
         /\ overlap' = (overlap \/ \E u \in Threads : tops[u] # None)
<1> USE PatchAssumption, ToggleAssumption DEF Basic
<1> DEFINE x == <<"save", 0>>
<1>1. x \in Frames /\ x[1] = "save"
  BY FrameFacts
<1>2. /\ t = Installer /\ Begin(t, x) /\ installs' = installs + 1
      /\ UNCHANGED <<word, calls, ran, lost, store, locked, holder>>
  BY DEF DoHook
<1> HIDE DEF x
<1>3. /\ Shape' /\ Moves(t, x, 1) /\ ~lost /\ tops[t] = None /\ depths[t] = 0
      /\ overlap' = (overlap \/ \E u \in Threads : tops[u] # None)
  BY <1>1, <1>2, BeginMoves
<1>4. installs' \in Nat
  BY <1>2
<1>5. Basic'
  BY <1>1, <1>2, <1>3, <1>4, BasicMoves
<1> QED BY <1>2, <1>3, <1>5 DEF x

(* A step inside a routine: the frame changes, the depth does not.         *)
LEMMA GotoStep ==
  ASSUME Basic, NEW t \in Threads, NEW y, At(t, y), NEW x \in Frames, Goto(t, x), Unmarked,
         word' \in [Words -> {"orig", "jump"}], store' \in [Words -> {"orig", "jump"}],
         UNCHANGED <<locked, installs>>, holder' \in Threads \cup {Nobody},
         x[1] \in {"orig", "lock", "pre"} => y[1] \in {"orig", "lock", "pre"},
         x[1] = "post" => y[1] = "post",
         x[1] \in {"save", "patch"} => y[1] \in {"save", "patch"},
         x[1] = "lock" => locked
  PROVE  Basic' /\ Moves(t, x, depths[t]) /\ From(t, y) /\ UNCHANGED <<lost, overlap, ran>>
<1> USE DEF Basic, Unmarked
<1>1. tops[t] = y /\ depths[t] \in Nat \ {0} /\ ~lost /\ stack[t] # <<>>
  BY AtFrame
<1>2. Shape' /\ Moves(t, x, depths[t])
  BY <1>1, GotoMoves
<1>3. /\ x[1] \in {"orig", "lock", "pre"} => ran'[t] = 0
      /\ x[1] = "post" => ran'[t] = 1
      /\ x[1] \in {"save", "patch"} => depths[t] = 1 /\ t = Installer
  BY <1>1 DEF RoutineOK
<1>4. Basic'
  BY <1>2, <1>3, BasicMoves
<1> QED BY <1>1, <1>2, <1>4 DEF From

LEMMA ExecuteStep ==
  ASSUME Basic, NEW t \in Threads, NEW k \in Words, Execute(t, k), UNCHANGED Hook
  PROVE  /\ Basic' /\ Moves(t, <<"orig", k + 1>>, depths[t]) /\ From(t, <<"orig", k>>)
         /\ word[k] = "orig" /\ UNCHANGED <<word, lost, overlap, ran>>
<1> DEFINE x == <<"orig", k + 1>>  y == <<"orig", k>>
<1>1. k \in 0 .. 3 /\ k + 1 \in 0 .. 3
  BY FrameFacts
<1>2. x \in Frames /\ x[1] = "orig" /\ y[1] = "orig"
  BY <1>1, FrameFacts
<1>3. At(t, y) /\ Goto(t, x) /\ word[k] = "orig" /\ UNCHANGED word /\ Unmarked
  BY DEF Execute
<1> HIDE DEF x, y
<1>4. Basic' /\ Moves(t, x, depths[t]) /\ From(t, y) /\ UNCHANGED <<lost, overlap, ran>>
  BY <1>2, <1>3, GotoStep DEF Basic, Hook
<1> QED BY <1>3, <1>4 DEF x, y

LEMMA EnterStep ==
  ASSUME Basic, NEW t \in Threads, EnterReplacement(t, Entry), UNCHANGED Hook
  PROVE  /\ Basic' /\ Moves(t, Entry, depths[t]) /\ From(t, <<"orig", 0>>)
         /\ word[0] = "jump" /\ word[2] = "jump" /\ UNCHANGED <<word, lost, overlap, ran>>
<1> DEFINE x == Entry  y == <<"orig", 0>>
<1>1. x \in Frames /\ (IF locked THEN x[1] = "lock" ELSE x[1] = "pre") /\ y[1] = "orig"
  BY FrameFacts DEF Entry
<1>2. At(t, y) /\ Goto(t, x) /\ word[0] = "jump" /\ word[2] = "jump" /\ UNCHANGED word /\ Unmarked
  BY DEF EnterReplacement
<1> HIDE DEF x, y
<1>3. x[1] \in {"lock", "pre"} /\ (x[1] = "lock" => locked) /\ x[1] # "post"
      /\ x[1] \notin {"save", "patch"}
  BY <1>1
<1>4. PICK z \in Frames : z = x
  BY <1>1
<1>5. Basic' /\ Moves(t, z, depths[t]) /\ From(t, y) /\ UNCHANGED <<lost, overlap, ran>>
  BY <1>1, <1>2, <1>3, <1>4, GotoStep DEF Basic, Hook
<1> QED BY <1>2, <1>4, <1>5 DEF x, y

LEMMA LoseStep ==
  ASSUME Basic, NEW t \in Threads, Lose(t), UNCHANGED Hook
  PROVE  /\ Basic' /\ UNCHANGED <<tops, depths, word, overlap, ran>>
         /\ \/ tops[t] = <<"orig", 0>> /\ word[0] = "jump" /\ word[2] = "orig"
            \/ \E k \in 1 .. 2 : tops[t] = <<"orig", k>> /\ word[k] = "jump"
         /\ depths[t] \in Nat \ {0}
<1>1. UNCHANGED <<tops, depths>>
  BY DEF Lose, tops, depths
<1>2. Basic'
  BY <1>1 DEF Lose, Basic, Shape, RoutineOK, Hook
<1>3. \A x : At(t, x) => tops[t] = x /\ depths[t] \in Nat \ {0}
  BY AtFrame DEF Basic
<1> QED BY <1>1, <1>2, <1>3 DEF Lose, Astray

LEMMA BodyStep ==
  ASSUME Basic, NEW t \in Threads, Body(t), UNCHANGED Hook
  PROVE  /\ Basic' /\ From(t, <<"orig", 3>>) /\ UNCHANGED <<word, overlap>>
         /\ Moves(t, IF depths[t] > 1 THEN Post ELSE None, depths[t] - 1)
         /\ ran'[t] = 1
<1> USE DEF Basic
<1>1. At(t, <<"orig", 3>>) /\ Pop(t) /\ ran' = [ran EXCEPT ![t] = @ + 1]
      /\ UNCHANGED <<word, calls, lost, overlap>>
  BY DEF Body
<1>2. tops[t] = <<"orig", 3>> /\ depths[t] \in Nat \ {0} /\ ~lost /\ stack[t] # <<>>
  BY <1>1, AtFrame
<1>3. Shape' /\ Moves(t, IF depths[t] > 1 THEN Post ELSE None, depths[t] - 1)
  BY <1>1, <1>2, PopMoves
<1>4. ran[t] = 0
  BY <1>2, FrameFacts DEF RoutineOK
<1>5. ran' \in [Threads -> Nat] /\ ran'[t] = 1 /\ \A u \in Threads \ {t} : ran'[u] = ran[u]
  BY <1>1, <1>4
<1>6. PICK x : x = IF depths[t] > 1 THEN Post ELSE None
  OBVIOUS
<1>7. x[1] \in {"post", "none"}
  BY <1>6, FrameFacts
<1>8. Basic'
  BY <1>1, <1>3, <1>5, <1>6, <1>7, BasicMoves DEF Hook
<1> QED BY <1>1, <1>2, <1>3, <1>5, <1>8 DEF From

(* Save goes from word to word and then to the patch.                      *)
LEMMA SaveStep ==
  ASSUME Basic, NEW t \in Threads, NEW k \in Words, Save(t, k)
  PROVE  /\ Basic' /\ From(t, <<"save", k>>)
         /\ Moves(t, IF k = 2 THEN <<"patch", 0>> ELSE <<"save", k + 1>>, depths[t])
         /\ store' = [store EXCEPT ![k] = word[k]]
         /\ UNCHANGED <<word, locked, holder, installs, lost, overlap, ran>>
<1> DEFINE x == IF k = 2 THEN <<"patch", 0>> ELSE <<"save", k + 1>>  y == <<"save", k>>
<1>1. x \in Frames /\ x[1] \in {"save", "patch"} /\ y[1] = "save"
  BY FrameFacts
<1>2. /\ At(t, y) /\ Goto(t, x) /\ store' = [store EXCEPT ![k] = word[k]]
      /\ UNCHANGED <<word, locked, holder, installs>> /\ Unmarked
  BY DEF Save
<1> HIDE DEF x, y
<1>3. store' \in [Words -> {"orig", "jump"}]
  BY <1>2 DEF Basic
<1>4. Basic' /\ Moves(t, x, depths[t]) /\ From(t, y) /\ UNCHANGED <<lost, overlap, ran>>
  BY <1>1, <1>2, <1>3, GotoStep DEF Basic
<1> QED BY <1>2, <1>4 DEF x, y

(* The routines that end with the third word and leave the thread's frame. *)
LEMMA PopStep ==
  ASSUME Basic, NEW t \in Threads, NEW y, At(t, y), Pop(t), Unmarked,
         word' \in [Words -> {"orig", "jump"}],
         UNCHANGED <<store, locked, installs>>, holder' \in Threads \cup {Nobody},
         y[1] \in {"patch", "post"}
  PROVE  /\ Basic' /\ From(t, y) /\ UNCHANGED <<lost, overlap, ran>>
         /\ Moves(t, IF depths[t] > 1 THEN Post ELSE None, depths[t] - 1)
         /\ y[1] = "patch" => depths[t] = 1
<1> USE DEF Basic, Unmarked
<1>1. tops[t] = y /\ depths[t] \in Nat \ {0} /\ ~lost /\ stack[t] # <<>>
  BY AtFrame
<1>2. Shape' /\ Moves(t, IF depths[t] > 1 THEN Post ELSE None, depths[t] - 1)
  BY <1>1, PopMoves
<1>3. PICK x : x = IF depths[t] > 1 THEN Post ELSE None
  OBVIOUS
<1>4. y[1] = "patch" => depths[t] = 1
  BY <1>1 DEF RoutineOK
<1>5. x[1] \in {"post", "none"} /\ (x[1] = "post" => ran'[t] = 1)
  BY <1>1, <1>3, <1>4, FrameFacts DEF RoutineOK
<1>6. Basic'
  BY <1>2, <1>3, <1>5, BasicMoves
<1> QED BY <1>1, <1>2, <1>4, <1>6 DEF From

LEMMA WriteStep ==
  ASSUME Basic, NEW t \in Threads, NEW k \in Words, WriteJump(t, k)
  PROVE  /\ Basic' /\ From(t, <<"patch", k>>) /\ depths[t] = 1
         /\ IF k = 2 THEN Moves(t, None, 0) ELSE Moves(t, <<"patch", k + 1>>, 1)
         /\ word' = [word EXCEPT ![k] = "jump"]
         /\ UNCHANGED <<store, locked, holder, installs, lost, overlap, ran>>
<1> USE DEF Basic
<1> DEFINE x == <<"patch", k + 1>>  y == <<"patch", k>>
<1>1. y[1] = "patch" /\ x[1] = "patch" /\ (k # 2 => x \in Frames)
  BY FrameFacts
<1>2. /\ At(t, y) /\ word' = [word EXCEPT ![k] = "jump"]
      /\ IF k = 2 THEN Pop(t) ELSE Goto(t, x)
      /\ UNCHANGED <<store, locked, holder, installs>> /\ Unmarked
  BY DEF WriteJump
<1>3. word' \in [Words -> {"orig", "jump"}]
  BY <1>2
<1> HIDE DEF x, y
<1>4. depths[t] = 1 /\ From(t, y)
  BY <1>1, <1>2, AtFrame DEF RoutineOK, From, Unmarked
<1>5. CASE k = 2
  <2>1. /\ Basic' /\ UNCHANGED <<lost, overlap, ran>>
        /\ Moves(t, IF depths[t] > 1 THEN Post ELSE None, depths[t] - 1)
    BY <1>1, <1>2, <1>3, <1>5, PopStep
  <2>2. Moves(t, None, 0)
    BY <1>4, <2>1
  <2> QED BY <1>2, <1>4, <1>5, <2>1, <2>2 DEF y
<1>6. CASE k # 2
  <2>1. Basic' /\ Moves(t, x, depths[t]) /\ UNCHANGED <<lost, overlap, ran>>
    BY <1>1, <1>2, <1>3, <1>6, GotoStep
  <2> QED BY <1>2, <1>4, <1>6, <2>1 DEF x, y
<1> QED BY <1>5, <1>6

LEMMA LockStep ==
  ASSUME Basic, NEW t \in Threads, Lock(t)
  PROVE  /\ Basic' /\ From(t, <<"lock", 0>>) /\ Moves(t, <<"pre", 0>>, depths[t])
         /\ holder = Nobody /\ holder' = t
         /\ UNCHANGED <<word, store, locked, installs, lost, overlap, ran>>
<1> DEFINE x == <<"pre", 0>>  y == <<"lock", 0>>
<1>1. x \in Frames /\ x[1] = "pre" /\ y[1] = "lock"
  BY FrameFacts
<1>2. /\ At(t, y) /\ Goto(t, x) /\ holder = Nobody /\ holder' = t
      /\ UNCHANGED <<word, store, locked, installs>> /\ Unmarked
  BY DEF Lock
<1> HIDE DEF x, y
<1>3. Basic' /\ Moves(t, x, depths[t]) /\ From(t, y) /\ UNCHANGED <<lost, overlap, ran>>
  BY <1>1, <1>2, GotoStep DEF Basic
<1> QED BY <1>2, <1>3 DEF x, y

LEMMA PrecallStep ==
  ASSUME Basic, NEW t \in Threads, NEW k \in Words, Precall(t, k)
  PROVE  /\ Basic' /\ From(t, <<"pre", k>>)
         /\ IF k = 2 THEN Moves(t, <<"orig", 0>>, depths[t] + 1)
                     ELSE Moves(t, <<"pre", k + 1>>, depths[t])
         /\ word' = [word EXCEPT ![k] = store[k]]
         /\ UNCHANGED <<store, locked, holder, installs, lost, overlap, ran>>
<1> USE DEF Basic
<1> DEFINE x == <<"pre", k + 1>>  y == <<"pre", k>>  z == <<"orig", 0>>
<1>1. /\ y[1] = "pre" /\ x[1] = "pre" /\ (k # 2 => x \in Frames)
      /\ z \in Frames /\ z[1] = "orig"
  BY FrameFacts
<1>2. /\ At(t, y) /\ word' = [word EXCEPT ![k] = store[k]]
      /\ Replace(t, IF k = 2 THEN <<z, Post>> ELSE <<x>>)
      /\ UNCHANGED <<store, locked, holder, installs>> /\ Unmarked
  BY DEF Precall, Post
<1>3. word' \in [Words -> {"orig", "jump"}]
  BY <1>2
<1> HIDE DEF x, y, z
<1>4. From(t, y) /\ stack[t] # <<>> /\ ran[t] = 0
  BY <1>1, <1>2, AtFrame DEF RoutineOK, From, Unmarked
<1>5. CASE k = 2
  <2>1. Shape' /\ Moves(t, z, depths[t] + 1)
    BY <1>1, <1>2, <1>4, <1>5, CallMoves
  <2>2. Basic'
    BY <1>1, <1>2, <1>3, <1>4, <2>1, BasicMoves DEF Unmarked
  <2> QED BY <1>2, <1>4, <1>5, <2>1, <2>2 DEF y, z, Unmarked
<1>6. CASE k # 2
  <2>1. Basic' /\ Moves(t, x, depths[t]) /\ UNCHANGED <<lost, overlap, ran>>
    BY <1>1, <1>2, <1>3, <1>6, GotoStep DEF Goto
  <2> QED BY <1>2, <1>4, <1>6, <2>1 DEF x, y
<1> QED BY <1>5, <1>6

LEMMA PostcallStep ==
  ASSUME Basic, NEW t \in Threads, NEW k \in Words, Postcall(t, k)
  PROVE  /\ Basic' /\ From(t, <<"post", k>>)
         /\ IF k = 2 THEN Moves(t, IF depths[t] > 1 THEN Post ELSE None, depths[t] - 1)
                     ELSE Moves(t, <<"post", k + 1>>, depths[t])
         /\ word' = [word EXCEPT ![k] = "jump"]
         /\ holder' = IF k = 2 /\ holder = t THEN Nobody ELSE holder
         /\ UNCHANGED <<store, locked, installs, lost, overlap, ran>>
<1> USE DEF Basic
<1> DEFINE x == <<"post", k + 1>>  y == <<"post", k>>
<1>1. y[1] = "post" /\ x[1] = "post" /\ (k # 2 => x \in Frames)
  BY FrameFacts
<1>2. /\ At(t, y) /\ word' = [word EXCEPT ![k] = "jump"]
      /\ IF k = 2 THEN Pop(t) ELSE Goto(t, x)
      /\ holder' = IF k = 2 /\ holder = t THEN Nobody ELSE holder
      /\ UNCHANGED <<store, locked, installs>> /\ Unmarked
  BY DEF Postcall
<1>3. word' \in [Words -> {"orig", "jump"}] /\ holder' \in Threads \cup {Nobody}
  BY <1>2
<1> HIDE DEF x, y
<1>4. CASE k = 2
  <2>1. /\ Basic' /\ From(t, y) /\ UNCHANGED <<lost, overlap, ran>>
        /\ Moves(t, IF depths[t] > 1 THEN Post ELSE None, depths[t] - 1)
    BY <1>1, <1>2, <1>3, <1>4, PopStep
  <2> QED BY <1>2, <1>4, <2>1 DEF y
<1>5. CASE k # 2
  <2>1. Basic' /\ From(t, y) /\ Moves(t, x, depths[t]) /\ UNCHANGED <<lost, overlap, ran>>
    BY <1>1, <1>2, <1>3, <1>5, GotoStep
  <2> QED BY <1>2, <1>5, <2>1 DEF x, y
<1> QED BY <1>4, <1>5

-----------------------------------------------------------------------------
(* The steps of one thread, and of the specification.                      *)
ThreadStep(t) ==
  \/ Call(t) /\ UNCHANGED Hook
  \/ DoHook(t) \/ Lock(t)
  \/ \E k \in Words : Execute(t, k) /\ UNCHANGED Hook
  \/ (EnterReplacement(t, Entry) \/ Lose(t) \/ Body(t)) /\ UNCHANGED Hook
  \/ \E k \in Words : Save(t, k) \/ WriteJump(t, k) \/ Precall(t, k) \/ Postcall(t, k)

LEMMA StepsOfThreads == Next <=> \E t \in Threads : ThreadStep(t)
  BY Zenon DEF Next, Step, Function, ThreadStep, Hook

LEMMA BasicKept == Basic /\ [Next]_vars => Basic'
<1> SUFFICES ASSUME Basic, [Next]_vars PROVE Basic'
  OBVIOUS
<1>1. CASE UNCHANGED vars
  BY <1>1 DEF vars, patchVars, Basic, Shape, RoutineOK, tops, depths
<1>2. ASSUME NEW t \in Threads, ThreadStep(t) PROVE Basic'
  BY <1>2, CallStep, InstallStep, LockStep, ExecuteStep, EnterStep, LoseStep, BodyStep, SaveStep,
     WriteStep, PrecallStep, PostcallStep DEF ThreadStep
<1> QED BY <1>1, <1>2, StepsOfThreads

-----------------------------------------------------------------------------
(* Whoever takes a jump out of the code, or leaves a routine, leaves the   *)
(* word to somebody who will write it.                                     *)
LEMMA DebtMoves ==
  ASSUME Debt, NEW t \in Threads, NEW x, NEW d, Moves(t, x, d), installs' = installs,
         \A k \in Words :
           \/ word'[k] = "jump"
           \/ Owes(x, d, k)
           \/ word'[k] = word[k] /\ ~Owes(tops[t], depths[t], k)
  PROVE  Debt'
<1> SUFFICES ASSUME installs > 0, NEW k \in Words, word'[k] # "jump"
             PROVE  \E u \in Threads : Owes(tops'[u], depths'[u], k)
  BY DEF Debt
<1>1. /\ tops'[t] = x /\ depths'[t] = d
      /\ \A u \in Threads \ {t} : tops'[u] = tops[u] /\ depths'[u] = depths[u]
  BY Moved
<1>2. CASE Owes(x, d, k)
  BY <1>1, <1>2
<1>3. CASE word'[k] = word[k] /\ ~Owes(tops[t], depths[t], k)
  BY <1>1, <1>3 DEF Debt
<1> QED BY <1>2, <1>3

LEMMA DebtStep ==
  ASSUME Basic, Debt, NEW t \in Threads, ThreadStep(t)
  PROVE  Debt'
<1> USE FrameFacts DEF Owes
<1>1. ASSUME Call(t), UNCHANGED Hook PROVE Debt'
  <2>1. Moves(t, <<"orig", 0>>, 1) /\ tops[t] = None /\ depths[t] = 0 /\ UNCHANGED word
    BY <1>1, CallStep
  <2>2. \A k \in Words : ~Owes(tops[t], depths[t], k)
    BY <2>1
  <2> QED BY <1>1, <2>1, <2>2, DebtMoves DEF Hook
<1>2. ASSUME DoHook(t) PROVE Debt'
  <2>1. Moves(t, <<"save", 0>>, 1)
    BY <1>2, InstallStep
  <2>2. \A k \in Words : Owes(tops'[t], depths'[t], k)
    BY <2>1, Moved
  <2> QED BY <2>2 DEF Debt
<1>3. ASSUME Lock(t) PROVE Debt'
  <2>1. /\ From(t, <<"lock", 0>>) /\ Moves(t, <<"pre", 0>>, depths[t])
        /\ UNCHANGED <<word, installs>>
    BY <1>3, LockStep
  <2>2. \A k \in Words : Owes(<<"pre", 0>>, depths[t], k)
    OBVIOUS
  <2> QED BY <2>1, <2>2, DebtMoves
<1>4. ASSUME NEW k \in Words, Execute(t, k), UNCHANGED Hook PROVE Debt'
  <2>1. /\ From(t, <<"orig", k>>) /\ Moves(t, <<"orig", k + 1>>, depths[t]) /\ UNCHANGED word
    BY <1>4, ExecuteStep
  <2>2. \A j \in Words : Owes(tops[t], depths[t], j) => Owes(<<"orig", k + 1>>, depths[t], j)
    BY <2>1 DEF From
  <2> QED BY <1>4, <2>1, <2>2, DebtMoves DEF Hook
<1>5. ASSUME EnterReplacement(t, Entry), UNCHANGED Hook PROVE Debt'
  <2>1. /\ From(t, <<"orig", 0>>) /\ Moves(t, Entry, depths[t]) /\ UNCHANGED word
    BY <1>5, EnterStep
  <2>2. \A j \in Words : Owes(tops[t], depths[t], j) => Owes(Entry, depths[t], j)
    BY <2>1 DEF From
  <2> QED BY <1>5, <2>1, <2>2, DebtMoves DEF Hook
<1>6. ASSUME Lose(t), UNCHANGED Hook PROVE Debt'
  BY <1>6, LoseStep DEF Debt, Hook
<1>7. ASSUME Body(t), UNCHANGED Hook PROVE Debt'
  <2>1. /\ From(t, <<"orig", 3>>) /\ UNCHANGED word
        /\ Moves(t, IF depths[t] > 1 THEN Post ELSE None, depths[t] - 1)
    BY <1>7, BodyStep
  <2>2. CASE depths[t] > 1
    <3>1. \A j \in Words : Owes(Post, depths[t] - 1, j)
      OBVIOUS
    <3> QED BY <1>7, <2>1, <2>2, <3>1, DebtMoves DEF Hook
  <2>3. CASE ~(depths[t] > 1)
    <3>1. \A j \in Words : ~Owes(tops[t], depths[t], j)
      BY <2>1, <2>3 DEF From
    <3> QED BY <1>7, <2>1, <3>1, DebtMoves DEF Hook
  <2> QED BY <2>2, <2>3
<1>8. ASSUME NEW k \in Words, Save(t, k) PROVE Debt'
  <2>1. /\ Moves(t, IF k = 2 THEN <<"patch", 0>> ELSE <<"save", k + 1>>, depths[t])
        /\ UNCHANGED <<word, installs>>
    BY <1>8, SaveStep
  <2>2. \A j \in Words : Owes(IF k = 2 THEN <<"patch", 0>> ELSE <<"save", k + 1>>, depths[t], j)
    OBVIOUS
  <2> QED BY <2>1, <2>2, DebtMoves
<1>9. ASSUME NEW k \in Words, WriteJump(t, k) PROVE Debt'
  <2>1. /\ From(t, <<"patch", k>>) /\ depths[t] = 1
        /\ IF k = 2 THEN Moves(t, None, 0) ELSE Moves(t, <<"patch", k + 1>>, 1)
        /\ word' = [word EXCEPT ![k] = "jump"] /\ installs' = installs
    BY <1>9, WriteStep
  <2>2. word'[k] = "jump" /\ \A j \in Words \ {k} : word'[j] = word[j]
    BY <2>1 DEF Basic
  <2>3. \A j \in Words : j < k => ~Owes(tops[t], depths[t], j)
    BY <2>1 DEF From
  <2>4. CASE k = 2
    BY <2>1, <2>2, <2>3, <2>4, DebtMoves
  <2>5. CASE k # 2
    <3>1. \A j \in Words : j > k => Owes(<<"patch", k + 1>>, 1, j)
      OBVIOUS
    <3> QED BY <2>1, <2>2, <2>3, <2>5, <3>1, DebtMoves
  <2> QED BY <2>4, <2>5
<1>10. ASSUME NEW k \in Words, Precall(t, k) PROVE Debt'
  <2>1. /\ From(t, <<"pre", k>>) /\ installs' = installs
        /\ IF k = 2 THEN Moves(t, <<"orig", 0>>, depths[t] + 1)
                    ELSE Moves(t, <<"pre", k + 1>>, depths[t])
    BY <1>10, PrecallStep
  <2>2. \A j \in Words : /\ Owes(<<"orig", 0>>, depths[t] + 1, j)
                         /\ Owes(<<"pre", k + 1>>, depths[t], j)
    BY <2>1 DEF From
  <2> QED BY <2>1, <2>2, DebtMoves
<1>11. ASSUME NEW k \in Words, Postcall(t, k) PROVE Debt'
  <2>1. /\ From(t, <<"post", k>>) /\ installs' = installs
        /\ IF k = 2 THEN Moves(t, IF depths[t] > 1 THEN Post ELSE None, depths[t] - 1)
                    ELSE Moves(t, <<"post", k + 1>>, depths[t])
        /\ word' = [word EXCEPT ![k] = "jump"]
    BY <1>11, PostcallStep
  <2>2. word'[k] = "jump" /\ \A j \in Words \ {k} : word'[j] = word[j]
    BY <2>1 DEF Basic
  <2>3. CASE depths[t] > 1
    <3>1. \A j \in Words : j > k => Owes(<<"post", k + 1>>, depths[t], j)
      OBVIOUS
    <3>2. \A j \in Words : Owes(Post, depths[t] - 1, j)
      OBVIOUS
    <3>3. CASE k = 2
      BY <2>1, <2>3, <3>2, <3>3, DebtMoves
    <3>4. CASE k # 2
      <4>1. \A j \in Words : Owes(<<"post", k + 1>>, depths[t], j)
        BY <2>3
      <4> QED BY <2>1, <3>4, <4>1, DebtMoves
    <3> QED BY <3>3, <3>4
  <2>4. CASE ~(depths[t] > 1)
    <3>1. \A j \in Words : j < k => ~Owes(tops[t], depths[t], j)
      BY <2>1, <2>4 DEF From
    <3>2. CASE k = 2
      BY <2>1, <2>2, <2>4, <3>1, <3>2, DebtMoves
    <3>3. CASE k # 2
      <4>1. \A j \in Words : j > k => Owes(<<"post", k + 1>>, depths[t], j)
        OBVIOUS
      <4> QED BY <2>1, <2>2, <3>1, <3>3, <4>1, DebtMoves
    <3> QED BY <3>2, <3>3
  <2> QED BY <2>3, <2>4
<1> QED BY <1>1, <1>2, <1>3, <1>4, <1>5, <1>6, <1>7, <1>8, <1>9, <1>10, <1>11 DEF ThreadStep


-----------------------------------------------------------------------------
(* While nobody overlaps there is one thread inside, and what Turns says   *)
(* after a step of it is what it says of its new frame.                    *)
LEMMA TurnMoves ==
  ASSUME Turns, NEW t \in Threads, NEW x, NEW d, Moves(t, x, d),
         tops[t] # None, UNCHANGED overlap,
         ~overlap /\ ~lost /\ TurnOK(tops[t], depths[t]) =>
           /\ ~lost'
           /\ x # None => TurnOK(x, d)'
           /\ x = None => (word = Rest /\ store \in {Original, Jumped})'
  PROVE  Turns'
<1> SUFFICES ASSUME ~overlap PROVE Turns'
  BY DEF Turns
<1>1. /\ tops'[t] = x /\ depths'[t] = d
      /\ \A u \in Threads \ {t} : tops'[u] = tops[u] /\ depths'[u] = depths[u]
  BY Moved
<1>2. TurnOK(tops[t], depths[t]) /\ ~lost /\ \A u \in Threads \ {t} : tops[u] = None
  BY DEF Turns
<1>3. /\ ~lost'
      /\ x # None => TurnOK(x, d)'
      /\ x = None => (word = Rest /\ store \in {Original, Jumped})'
  BY <1>2
<1>4. \A u \in Threads : tops'[u] # None => u = t
  BY <1>1, <1>2
<1>5. None' = None
  BY DEF None
<1>6. ASSUME NEW u \in Threads, tops'[u] # None PROVE TurnOK(tops[u], depths[u])'
  <2>1. u = t /\ x # None
    BY <1>1, <1>4, <1>6
  <2> QED BY <1>1, <1>3, <2>1 DEF TurnOK
<1>7. (\A u \in Threads : tops'[u] = None) => (word = Rest /\ store \in {Original, Jumped})'
  BY <1>1, <1>3
<1> QED BY <1>3, <1>4, <1>5, <1>6, <1>7 DEF Turns, TurnOK

(* A thread that goes in alone finds the code at rest.                     *)
LEMMA TurnBegins ==
  ASSUME Turns, NEW t \in Threads, NEW x, Moves(t, x, 1), x # None, tops[t] = None,
         overlap' = (overlap \/ \E u \in Threads : tops[u] # None), ~lost',
         UNCHANGED <<word, store>>,
         word = Rest /\ store \in {Original, Jumped} => TurnOK(x, 1)'
  PROVE  Turns'
<1> SUFFICES ASSUME ~overlap, \A u \in Threads : tops[u] = None PROVE Turns'
  BY DEF Turns
<1>1. /\ tops'[t] = x /\ depths'[t] = 1
      /\ \A u \in Threads \ {t} : tops'[u] = tops[u] /\ depths'[u] = depths[u]
  BY Moved
<1>2. word = Rest /\ store \in {Original, Jumped}
  BY DEF Turns
<1>3. \A u \in Threads : tops'[u] # None => u = t
  BY <1>1
<1>4. ASSUME NEW u \in Threads, tops'[u] # None PROVE TurnOK(tops[u], depths[u])'
  <2>1. u = t
    BY <1>3, <1>4
  <2> QED BY <1>1, <1>2, <2>1 DEF TurnOK
<1> QED BY <1>1, <1>3, <1>4 DEF Turns, TurnOK, None

LEMMA CodeFacts ==
  /\ Original \in [Words -> {"orig", "jump"}] /\ Jumped \in [Words -> {"orig", "jump"}]
  /\ \A k \in Words : Original[k] = "orig" /\ Jumped[k] = "jump"
  /\ Original # Jumped
  /\ \A w \in [Words -> {"orig", "jump"}] :
       /\ w = Original <=> \A k \in Words : w[k] = "orig"
       /\ w = Jumped <=> \A k \in Words : w[k] = "jump"
<1>1. \A k \in Words : Original[k] = "orig" /\ Jumped[k] = "jump"
  BY DEF Original, Jumped
<1>2. 0 \in Words
  BY DEF Words
<1>3. ASSUME NEW w \in [Words -> {"orig", "jump"}], \A k \in Words : w[k] = "orig" PROVE w = Original
  BY <1>3 DEF Original
<1>4. ASSUME NEW w \in [Words -> {"orig", "jump"}], \A k \in Words : w[k] = "jump" PROVE w = Jumped
  BY <1>4 DEF Jumped
<1> QED BY <1>1, <1>2, <1>3, <1>4 DEF Original, Jumped


LEMMA TurnStep ==
  ASSUME Basic, Turns, NEW t \in Threads, ThreadStep(t)
  PROVE  Turns'
<1> USE FrameFacts, CodeFacts
<1>0. /\ word \in [Words -> {"orig", "jump"}] /\ store \in [Words -> {"orig", "jump"}]
      /\ installs \in Nat /\ (Rest = Original \/ Rest = Jumped)
  BY DEF Basic, Rest
<1>1. ASSUME Call(t), UNCHANGED Hook PROVE Turns'
  <2> DEFINE x == <<"orig", 0>>
  <2>1. /\ Moves(t, x, 1) /\ tops[t] = None /\ ~lost' /\ UNCHANGED <<word, store, installs>>
        /\ overlap' = (overlap \/ \E u \in Threads : tops[u] # None)
    BY <1>1, CallStep DEF Hook
  <2>2. x # None
    OBVIOUS
  <2>3. word = Rest /\ store \in {Original, Jumped} => TurnOK(x, 1)'
    BY <1>0, <2>1 DEF TurnOK, Rest
  <2> HIDE DEF x
  <2> QED BY <2>1, <2>2, <2>3, TurnBegins
<1>2. ASSUME DoHook(t) PROVE Turns'
  <2> DEFINE x == <<"save", 0>>
  <2>1. /\ Moves(t, x, 1) /\ tops[t] = None /\ ~lost' /\ UNCHANGED <<word, store>>
        /\ installs' = installs + 1
        /\ overlap' = (overlap \/ \E u \in Threads : tops[u] # None)
    BY <1>2, InstallStep
  <2>2. x # None
    OBVIOUS
  <2>3. word = Rest /\ store \in {Original, Jumped} => TurnOK(x, 1)'
    BY <1>0, <2>1 DEF TurnOK, Rest
  <2> HIDE DEF x
  <2> QED BY <2>1, <2>2, <2>3, TurnBegins
<1>3. ASSUME Lock(t) PROVE Turns'
  <2> DEFINE x == <<"pre", 0>>
  <2>1. /\ From(t, <<"lock", 0>>) /\ Moves(t, x, depths[t])
        /\ UNCHANGED <<word, store, installs, overlap>>
    BY <1>3, LockStep
  <2>2. tops[t] # None /\ x # None
    BY <2>1 DEF From
  <2>3. PICK d \in Nat : d = depths[t]
    BY <2>1 DEF From
  <2>4. TurnOK(tops[t], depths[t]) => TurnOK(x, d)'
    BY <1>0, <2>1, <2>3 DEF TurnOK, From
  <2> HIDE DEF x
  <2> QED BY <2>1, <2>2, <2>3, <2>4, TurnMoves DEF From
<1>4. ASSUME NEW k \in Words, Execute(t, k), UNCHANGED Hook PROVE Turns'
  <2> DEFINE x == <<"orig", k + 1>>
  <2>1. /\ From(t, <<"orig", k>>) /\ Moves(t, x, depths[t]) /\ word[k] = "orig"
        /\ UNCHANGED <<word, store, installs, overlap>>
    BY <1>4, ExecuteStep DEF Hook
  <2>2. tops[t] # None /\ x # None
    BY <2>1 DEF From
  <2>3. PICK d \in Nat : d = depths[t]
    BY <2>1 DEF From
  <2>4. TurnOK(tops[t], depths[t]) => TurnOK(x, d)'
    <3>1. k \in 0 .. 3 /\ k + 1 \in 0 .. 3
      OBVIOUS
    <3>2. tops[t][1] = "orig" /\ x[1] = "orig" /\ x[2] = k + 1
      BY <2>1, <3>1 DEF From
    <3>3. TurnOK(tops[t], depths[t]) => word = Original
      BY <1>0, <2>1, <3>2 DEF TurnOK
    <3>4. Rest' = Rest
      BY <2>1 DEF Rest, Jumped, Original
    <3> HIDE DEF x
    <3> QED BY <1>0, <2>1, <2>3, <3>2, <3>3, <3>4 DEF TurnOK, Original
  <2> HIDE DEF x
  <2> QED BY <2>1, <2>2, <2>3, <2>4, TurnMoves DEF From
<1>5. ASSUME EnterReplacement(t, Entry), UNCHANGED Hook PROVE Turns'
  <2>1. /\ From(t, <<"orig", 0>>) /\ Moves(t, Entry, depths[t]) /\ word[0] = "jump"
        /\ UNCHANGED <<word, store, installs, overlap>>
    BY <1>5, EnterStep DEF Hook
  <2>2. PICK x : x = Entry
    OBVIOUS
  <2>3. (x = <<"lock", 0>> \/ x = <<"pre", 0>>) /\ tops[t] # None /\ x # None
    BY <2>1, <2>2 DEF From, Entry
  <2>4. PICK d \in Nat \ {0} : d = depths[t]
    BY <2>1 DEF From
  <2>5. TurnOK(tops[t], depths[t]) => word = Jumped /\ installs > 0
    BY <1>0, <2>1, <2>4 DEF TurnOK, From, Rest
  <2>6. TurnOK(tops[t], depths[t]) => TurnOK(x, d)'
    BY <1>0, <2>1, <2>3, <2>5 DEF TurnOK, From, Jumped
  <2> QED BY <2>1, <2>2, <2>3, <2>4, <2>6, TurnMoves DEF From
<1>6. ASSUME Lose(t), UNCHANGED Hook PROVE Turns'
  <2>1. /\ UNCHANGED <<tops, depths, word, overlap>> /\ depths[t] \in Nat \ {0}
        /\ \/ tops[t] = <<"orig", 0>> /\ word[0] = "jump" /\ word[2] = "orig"
           \/ \E k \in 1 .. 2 : tops[t] = <<"orig", k>> /\ word[k] = "jump"
    BY <1>6, LoseStep
  <2>2. TurnOK(tops[t], depths[t]) => FALSE
    <3>1. CASE tops[t] = <<"orig", 0>> /\ word[0] = "jump" /\ word[2] = "orig"
      BY <1>0, <3>1 DEF TurnOK
    <3>2. ASSUME NEW k \in 1 .. 2, tops[t] = <<"orig", k>>, word[k] = "jump"
          PROVE  ~TurnOK(tops[t], depths[t])
      <4>1. k \in Words /\ k \in 0 .. 3 /\ k > 0
        OBVIOUS
      <4> QED BY <1>0, <3>2, <4>1 DEF TurnOK
    <3> QED BY <2>1, <3>1, <3>2
  <2>3. tops[t] # None
    BY <2>1, TopFacts DEF Basic
  <2> QED BY <2>1, <2>2, <2>3 DEF Turns
<1>7. ASSUME Body(t), UNCHANGED Hook PROVE Turns'
  <2>1. /\ From(t, <<"orig", 3>>) /\ UNCHANGED <<word, store, installs, overlap>>
        /\ Moves(t, IF depths[t] > 1 THEN Post ELSE None, depths[t] - 1)
    BY <1>7, BodyStep DEF Hook
  <2>2. PICK x, d : x = (IF depths[t] > 1 THEN Post ELSE None) /\ d = depths[t] - 1
    OBVIOUS
  <2>3. tops[t] # None /\ depths[t] \in Nat \ {0} /\ d \in Nat
    BY <2>1, <2>2 DEF From
  <2>4. TurnOK(tops[t], depths[t]) => store \in {Original, Jumped}
    BY <2>1 DEF TurnOK, From
  <2>5. TurnOK(tops[t], depths[t]) /\ depths[t] > 1 => TurnOK(x, d)'
    BY <2>1, <2>2, <2>3, <2>4 DEF TurnOK, From, Original, Jumped
  <2>6. TurnOK(tops[t], depths[t]) /\ ~(depths[t] > 1) => word = Rest
    <3>1. ~(depths[t] > 1) => depths[t] = 1
      BY <2>3
    <3> QED BY <2>1, <3>1 DEF TurnOK, From
  <2>7. Rest' = Rest
    BY <2>1 DEF Rest, Jumped, Original
  <2>8. UNCHANGED <<Original, Jumped>>
    BY DEF Jumped, Original
  <2> QED BY <2>1, <2>2, <2>3, <2>4, <2>5, <2>6, <2>7, <2>8, TurnMoves DEF From
<1>8. ASSUME NEW k \in Words, Save(t, k) PROVE Turns'
  <2>1. /\ From(t, <<"save", k>>)
        /\ Moves(t, IF k = 2 THEN <<"patch", 0>> ELSE <<"save", k + 1>>, depths[t])
        /\ store' = [store EXCEPT ![k] = word[k]]
        /\ UNCHANGED <<word, installs, overlap, lost>>
    BY <1>8, SaveStep
  <2>2. PICK x, d : x = (IF k = 2 THEN <<"patch", 0>> ELSE <<"save", k + 1>>) /\ d = depths[t]
    OBVIOUS
  <2>3. tops[t] # None /\ depths[t] \in Nat \ {0} /\ x # None
    BY <2>1, <2>2 DEF From
  <2>4. store' \in [Words -> {"orig", "jump"}] /\ store'[k] = word[k]
        /\ \A j \in Words \ {k} : store'[j] = store[j]
    BY <1>0, <2>1
  <2>5. TurnOK(tops[t], depths[t]) =>
          /\ word \in {Original, Jumped} /\ installs > 0
          /\ \A j \in Words : j <= k => store'[j] = word[j]
    BY <2>1, <2>4 DEF TurnOK, From
  <2>6. TurnOK(tops[t], depths[t]) /\ k = 2 => store' = word
    BY <1>0, <2>4, <2>5
  <2>7. UNCHANGED <<Original, Jumped>>
    BY DEF Jumped, Original
  <2>8. TurnOK(tops[t], depths[t]) => TurnOK(x, d)'
    <3>1. CASE k = 2
      <4>1. x[1] = "patch" /\ x[2] = 0
        BY <2>2, <3>1
      <4> QED BY <2>1, <2>5, <2>6, <2>7, <3>1, <4>1 DEF TurnOK
    <3>2. CASE k # 2
      <4>1. x[1] = "save" /\ x[2] = k + 1
        BY <2>2, <3>2
      <4> QED BY <2>1, <2>5, <2>7, <3>2, <4>1 DEF TurnOK
    <3> QED BY <3>1, <3>2
  <2> QED BY <2>1, <2>2, <2>3, <2>8, TurnMoves DEF From
<1>9. ASSUME NEW k \in Words, WriteJump(t, k) PROVE Turns'
  <2>1. /\ From(t, <<"patch", k>>) /\ depths[t] = 1
        /\ IF k = 2 THEN Moves(t, None, 0) ELSE Moves(t, <<"patch", k + 1>>, 1)
        /\ word' = [word EXCEPT ![k] = "jump"]
        /\ UNCHANGED <<store, installs, overlap>>
    BY <1>9, WriteStep
  <2>2. /\ word' \in [Words -> {"orig", "jump"}] /\ word'[k] = "jump"
        /\ \A j \in Words \ {k} : word'[j] = word[j]
    BY <1>0, <2>1
  <2>3. TurnOK(tops[t], depths[t]) =>
          /\ store \in {Original, Jumped} /\ installs > 0
          /\ \A j \in Words : j <= k => word'[j] = "jump"
    BY <2>1, <2>2 DEF TurnOK, From
  <2>4. UNCHANGED <<Original, Jumped>>
    BY DEF Jumped, Original
  <2>5. tops[t] # None
    BY <2>1 DEF From
  <2>6. CASE k = 2
    <3>1. TurnOK(tops[t], depths[t]) => word' = Jumped
      BY <2>2, <2>3, <2>6
    <3>2. TurnOK(tops[t], depths[t]) => (word = Rest /\ store \in {Original, Jumped})'
      BY <2>1, <2>3, <2>4, <3>1 DEF Rest
    <3> QED BY <2>1, <2>5, <2>6, <3>2, TurnMoves DEF From
  <2>7. CASE k # 2
    <3> DEFINE x == <<"patch", k + 1>>
    <3>1. x[1] = "patch" /\ x[2] = k + 1 /\ x # None
      BY <2>7
    <3> HIDE DEF x
    <3>2. TurnOK(tops[t], depths[t]) => TurnOK(x, 1)'
      BY <2>1, <2>3, <2>4, <3>1 DEF TurnOK
    <3> QED BY <2>1, <2>5, <2>7, <3>1, <3>2, TurnMoves DEF From, x
  <2> QED BY <2>6, <2>7
<1>10. ASSUME NEW k \in Words, Precall(t, k) PROVE Turns'
  <2>1. /\ From(t, <<"pre", k>>) /\ UNCHANGED <<store, installs, overlap>>
        /\ IF k = 2 THEN Moves(t, <<"orig", 0>>, depths[t] + 1)
                    ELSE Moves(t, <<"pre", k + 1>>, depths[t])
        /\ word' = [word EXCEPT ![k] = store[k]]
    BY <1>10, PrecallStep
  <2>2. /\ word' \in [Words -> {"orig", "jump"}] /\ word'[k] = store[k]
        /\ \A j \in Words \ {k} : word'[j] = word[j]
    BY <1>0, <2>1
  <2>3. TurnOK(tops[t], depths[t]) =>
          /\ store \in {Original, Jumped} /\ installs > 0
          /\ \A j \in Words : word'[j] = IF j < k + 1 THEN store[j] ELSE "jump"
    BY <2>1, <2>2 DEF TurnOK, From
  <2>4. UNCHANGED <<Original, Jumped>>
    BY DEF Jumped, Original
  <2>5. tops[t] # None /\ depths[t] \in Nat \ {0}
    BY <2>1 DEF From
  <2>6. CASE k = 2
    <3>1. TurnOK(tops[t], depths[t]) => word' = store
      <4>1. ASSUME TurnOK(tops[t], depths[t]), NEW j \in Words PROVE word'[j] = store[j]
        BY <2>3, <2>6, <4>1
      <4> QED BY <1>0, <2>2, <4>1
    <3> DEFINE x == <<"orig", 0>>
    <3>2. x[1] = "orig" /\ x[2] = 0 /\ x # None
      OBVIOUS
    <3> HIDE DEF x
    <3>3. PICK d \in Nat : d = depths[t] + 1 /\ d > 1
      BY <2>5
    <3>4. TurnOK(tops[t], depths[t]) => TurnOK(x, d)'
      BY <2>1, <2>3, <2>4, <3>1, <3>2, <3>3 DEF TurnOK
    <3> QED BY <2>1, <2>5, <2>6, <3>2, <3>3, <3>4, TurnMoves DEF From, x
  <2>7. CASE k # 2
    <3> DEFINE x == <<"pre", k + 1>>
    <3>1. x[1] = "pre" /\ x[2] = k + 1 /\ x # None
      BY <2>7
    <3> HIDE DEF x
    <3>2. PICK d \in Nat : d = depths[t]
      BY <2>5
    <3>3. TurnOK(tops[t], depths[t]) => TurnOK(x, d)'
      BY <2>1, <2>3, <2>4, <3>1 DEF TurnOK
    <3> QED BY <2>1, <2>5, <2>7, <3>1, <3>2, <3>3, TurnMoves DEF From, x
  <2> QED BY <2>6, <2>7
<1>11. ASSUME NEW k \in Words, Postcall(t, k) PROVE Turns'
  <2>1. /\ From(t, <<"post", k>>) /\ UNCHANGED <<store, installs, overlap>>
        /\ IF k = 2 THEN Moves(t, IF depths[t] > 1 THEN Post ELSE None, depths[t] - 1)
                    ELSE Moves(t, <<"post", k + 1>>, depths[t])
        /\ word' = [word EXCEPT ![k] = "jump"]
    BY <1>11, PostcallStep
  <2>2. /\ word' \in [Words -> {"orig", "jump"}] /\ word'[k] = "jump"
        /\ \A j \in Words \ {k} : word'[j] = word[j]
    BY <1>0, <2>1
  <2>3. TurnOK(tops[t], depths[t]) =>
          /\ store \in {Original, Jumped} /\ installs > 0
          /\ \A j \in Words : j <= k => word'[j] = "jump"
    BY <2>1, <2>2 DEF TurnOK, From
  <2>4. UNCHANGED <<Original, Jumped>>
    BY DEF Jumped, Original
  <2>5. tops[t] # None /\ depths[t] \in Nat \ {0}
    BY <2>1 DEF From
  <2>6. CASE k = 2
    <3>1. PICK x, d : x = (IF depths[t] > 1 THEN Post ELSE None) /\ d = depths[t] - 1
      OBVIOUS
    <3>2. TurnOK(tops[t], depths[t]) => (word = Rest /\ store \in {Original, Jumped})'
      <4>1. TurnOK(tops[t], depths[t]) => word' = Jumped
        BY <2>2, <2>3, <2>6
      <4> QED BY <2>1, <2>3, <2>4, <4>1 DEF Rest
    <3>3. TurnOK(tops[t], depths[t]) /\ x # None => TurnOK(x, d)'
      <4>1. x # None => x[1] = "post" /\ x[2] = 0
        BY <3>1
      <4> QED BY <2>1, <2>3, <2>4, <4>1 DEF TurnOK
    <3> QED BY <2>1, <2>5, <2>6, <3>1, <3>2, <3>3, TurnMoves DEF From
  <2>7. CASE k # 2
    <3> DEFINE x == <<"post", k + 1>>
    <3>1. x[1] = "post" /\ x[2] = k + 1 /\ x # None
      BY <2>7
    <3> HIDE DEF x
    <3>2. PICK d \in Nat : d = depths[t]
      BY <2>5
    <3>3. TurnOK(tops[t], depths[t]) => TurnOK(x, d)'
      BY <2>1, <2>3, <2>4, <3>1 DEF TurnOK
    <3> QED BY <2>1, <2>5, <2>7, <3>1, <3>2, <3>3, TurnMoves DEF From, x
  <2> QED BY <2>6, <2>7
<1> QED BY <1>1, <1>2, <1>3, <1>4, <1>5, <1>6, <1>7, <1>8, <1>9, <1>10, <1>11 DEF ThreadStep


-----------------------------------------------------------------------------
(* With one installation, and one thread at a time: the words are exactly  *)
(* as far as the routine that writes them.                                 *)
Installing(x) == x[1] \in {"save", "patch"}

(* What Window says of the thread that steps and of each of the others.    *)
WindowRest(t) ==
  /\ store = Original
  /\ installs = 0 => word = Original
  /\ \A u \in Threads \ {t} :
       /\ WindowOK(tops[u], depths[u])
       /\ Installing(tops[u]) =>
            /\ tops[t][1] # "lock" /\ ~Inside(tops[t], depths[t])
            /\ tops[u][1] # "lock" /\ ~Inside(tops[u], depths[u])
       /\ Installing(tops[t]) => tops[u][1] # "lock" /\ ~Inside(tops[u], depths[u])
       /\ Inside(tops[t], depths[t]) => ~Inside(tops[u], depths[u])
  /\ Installing(tops[t]) => ~Inside(tops[t], depths[t])
  /\ locked => \A u \in Threads : Inside(tops[u], depths[u]) => holder = u
  /\ installs = 1 /\ word # Jumped =>
       \E u \in Threads : Inside(tops[u], depths[u]) \/ Installing(tops[u])
  /\ \A u, v \in Threads \ {t} : Installing(tops[u]) =>
       tops[v][1] # "lock" /\ ~Inside(tops[v], depths[v])
  /\ \A u, v \in Threads \ {t} : Inside(tops[u], depths[u]) /\ Inside(tops[v], depths[v]) => u = v

LEMMA WindowSplits ==
  ASSUME NEW t \in Threads
  PROVE  /\ Window <=> (Single => WindowRest(t) /\ WindowOK(tops[t], depths[t]))
         /\ Window' <=> (Single => WindowRest(t) /\ WindowOK(tops[t], depths[t]))'
<1>1. Window <=> (Single => WindowRest(t) /\ WindowOK(tops[t], depths[t]))
  BY DEF Window, WindowRest, Installing
<1>2. Window' <=> (Single => WindowRest(t) /\ WindowOK(tops[t], depths[t]))'
  BY DEF Window, WindowRest, Installing
<1> QED BY <1>1, <1>2

(* A step that changes no word and nothing of what kind of frame the       *)
(* thread is in.                                                           *)
LEMMA WindowStill ==
  ASSUME Window, NEW t \in Threads, NEW x, NEW d, Moves(t, x, d),
         UNCHANGED <<word, locked, installs, holder>>, Single' => Single,
         Single => store' = Original,
         Inside(x, d) <=> Inside(tops[t], depths[t]),
         Installing(x) <=> Installing(tops[t]),
         Single /\ x[1] = "lock" => tops[t][1] = "lock" \/ \A u \in Threads : ~Installing(tops[u]),
         Single => WindowOK(x, d)
  PROVE  Window'
<1> SUFFICES ASSUME Single' PROVE Window'
  BY DEF Window
<1>1. /\ tops'[t] = x /\ depths'[t] = d
      /\ \A u \in Threads \ {t} : tops'[u] = tops[u] /\ depths'[u] = depths[u]
  BY Moved
<1>2. WindowRest(t) /\ WindowOK(x, d)
  BY WindowSplits
<1>3. UNCHANGED <<Original, Jumped>>
  BY DEF Original, Jumped
<1>4. \A u \in Threads : (Inside(tops'[u], depths'[u]) <=> Inside(tops[u], depths[u]))
                         /\ (Installing(tops'[u]) <=> Installing(tops[u]))
  BY <1>1
<1>5. WindowOK(x, d)' /\ \A u \in Threads \ {t} : WindowOK(tops[u], depths[u])'
  BY <1>1, <1>2, <1>3 DEF WindowOK, Split, WindowRest
<1>6. WindowOK(tops[t], depths[t])'
  BY <1>1, <1>5 DEF WindowOK, Split
<1>7. WindowRest(t)'
  <2>1. \A u \in Threads \ {t} : (Installing(tops[u]) => tops[t][1] # "lock")'
    BY <1>1, <1>2 DEF WindowRest
  <2>2. (Installing(tops[t]) => ~Inside(tops[t], depths[t]))'
    BY <1>2, <1>4 DEF WindowRest, Installing, Inside
  <2> QED BY <1>1, <1>2, <1>3, <1>4, <1>5, <2>1, <2>2 DEF WindowRest, Installing, Inside
<1> QED BY <1>6, <1>7, WindowSplits

(* The one thread inside, or the one that installs, writes a word.         *)
LEMMA WindowWrites ==
  ASSUME Window, NEW t \in Threads, NEW x, NEW d, Moves(t, x, d),
         UNCHANGED <<store, locked, installs>>, Single' => Single,
         Inside(tops[t], depths[t]) \/ Installing(tops[t]),
         \A u \in Threads \ {t} : Installing(tops[t]) => ~Installing(tops[u]),
         Installing(x) => Installing(tops[t]) /\ ~Inside(x, d),
         Inside(x, d) => Inside(tops[t], depths[t]) /\ holder' = holder,
         x[1] # "lock",
         Single /\ WindowOK(tops[t], depths[t]) =>
           /\ installs = 1 /\ WindowOK(x, d)'
           /\ word' = Jumped \/ Inside(x, d) \/ Installing(x)
  PROVE  Window'
<1> SUFFICES ASSUME Single' PROVE Window'
  BY DEF Window
<1>1. /\ tops'[t] = x /\ depths'[t] = d
      /\ \A u \in Threads \ {t} : tops'[u] = tops[u] /\ depths'[u] = depths[u]
  BY Moved
<1>2. WindowRest(t) /\ WindowOK(tops[t], depths[t])
  BY WindowSplits
<1>3. UNCHANGED <<Original, Jumped>>
  BY DEF Original, Jumped
<1>4. /\ installs = 1 /\ WindowOK(x, d)'
      /\ word' = Jumped \/ Inside(x, d) \/ Installing(x)
  BY <1>2
<1>5. \A u \in Threads \ {t} : ~Installing(tops[u]) /\ ~Inside(tops[u], depths[u])
  BY <1>2 DEF WindowRest
<1>6. \A u \in Threads \ {t} : WindowOK(tops[u], depths[u])'
  <2>1. ASSUME NEW u \in Threads \ {t} PROVE WindowOK(tops[u], depths[u])'
    <3>1. WindowOK(tops[u], depths[u]) /\ ~Installing(tops[u]) /\ ~Inside(tops[u], depths[u])
      BY <1>2, <1>5 DEF WindowRest
    <3> QED BY <1>1, <1>4, <3>1 DEF WindowOK, Installing, Inside
  <2> QED BY <2>1
<1>7. WindowOK(tops[t], depths[t])'
  BY <1>1, <1>4 DEF WindowOK, Split
<1>8. /\ Installing(tops[t])' <=> Installing(x)
      /\ Inside(tops[t], depths[t])' <=> Inside(x, d)
      /\ (tops[t][1] # "lock")'
      /\ \A u \in Threads \ {t} : (~Installing(tops[u]) /\ ~Inside(tops[u], depths[u]))'
  BY <1>1, <1>5 DEF Installing, Inside
<1>9. Installing(x) => Installing(tops[t]) /\ \A u \in Threads \ {t} : (tops[u][1] # "lock")'
  BY <1>1, <1>2 DEF WindowRest
<1>10. locked' => \A u \in Threads : (Inside(tops[u], depths[u]) => holder = u)'
  BY <1>1, <1>2, <1>8 DEF WindowRest
<1>11. WindowRest(t)'
  BY <1>1, <1>2, <1>3, <1>4, <1>6, <1>8, <1>9, <1>10 DEF WindowRest
<1> QED BY <1>7, <1>11, WindowSplits


LEMMA WindowStep ==
  ASSUME Basic, Turns, Window, NEW t \in Threads, ThreadStep(t)
  PROVE  Window'
<1> USE FrameFacts, CodeFacts
<1>0. /\ word \in [Words -> {"orig", "jump"}] /\ store \in [Words -> {"orig", "jump"}]
      /\ installs \in Nat /\ UNCHANGED <<Original, Jumped>>
  BY DEF Basic, Original, Jumped
<1>1. ASSUME Call(t), UNCHANGED Hook PROVE Window'
  <2> DEFINE x == <<"orig", 0>>
  <2>1. /\ Moves(t, x, 1) /\ tops[t] = None /\ depths[t] = 0
        /\ UNCHANGED <<word, store, locked, holder, installs>> /\ (overlap => overlap')
    BY <1>1, CallStep, ZenonT(40) DEF Hook
  <2>2. x[1] = "orig"
    OBVIOUS
  <2> HIDE DEF x
  <2>3. (Inside(x, 1) <=> Inside(tops[t], depths[t])) /\ (Installing(x) <=> Installing(tops[t]))
    BY <2>1, <2>2 DEF Inside, Installing
  <2>4. WindowOK(x, 1) /\ (Single' => Single) /\ (Single => store' = Original)
    BY <2>1, <2>2 DEF WindowOK, Single, Window
  <2> QED BY <2>1, <2>2, <2>3, <2>4, WindowStill
<1>2. ASSUME DoHook(t) PROVE Window'
  <2> DEFINE x == <<"save", 0>>
  <2>1. /\ Moves(t, x, 1) /\ tops[t] = None /\ depths[t] = 0
        /\ UNCHANGED <<word, store, locked, holder>> /\ (overlap => overlap')
        /\ installs' = installs + 1
    BY <1>2, InstallStep, ZenonT(40)
  <2>2. x[1] = "save"
    OBVIOUS
  <2> HIDE DEF x
  <2> SUFFICES ASSUME Single' PROVE Window'
    BY DEF Window
  <2>3. /\ tops'[t] = x /\ depths'[t] = 1
        /\ \A u \in Threads \ {t} : tops'[u] = tops[u] /\ depths'[u] = depths[u]
    BY <2>1, Moved
  <2>4. installs = 0 /\ Single
    BY <1>0, <2>1 DEF Single
  <2>5. /\ store = Original /\ word = Original
        /\ \A u \in Threads : tops[u][1] \in {"none", "orig"} /\ depths[u] <= 1
    BY <2>4 DEF Window, WindowOK
  <2>6. \A u \in Threads \ {t} : WindowOK(tops[u], depths[u])'
    <3>1. ASSUME NEW u \in Threads \ {t} PROVE WindowOK(tops[u], depths[u])'
      <4>1. depths[u] \in Nat
        BY TopFacts DEF Basic
      <4> QED BY <1>0, <2>1, <2>3, <2>5, <4>1 DEF WindowOK
    <3> QED BY <3>1
  <2>7. WindowOK(tops[t], depths[t])'
    BY <1>0, <2>1, <2>2, <2>3, <2>5 DEF WindowOK
  <2>8. \A u \in Threads : (~Inside(tops[u], depths[u]))'
    <3>1. ASSUME NEW u \in Threads PROVE (~Inside(tops[u], depths[u]))'
      <4>1. depths[u] \in Nat
        BY TopFacts DEF Basic
      <4> QED BY <2>2, <2>3, <2>5, <4>1 DEF Inside
    <3> QED BY <3>1
  <2>9. \A u \in Threads \ {t} : (~Installing(tops[u]) /\ tops[u][1] # "lock")'
    BY <2>3, <2>5 DEF Installing
  <2>10. Installing(tops[t])' /\ (tops[t][1] # "lock")'
    BY <2>2, <2>3 DEF Installing
  <2>11. WindowRest(t)'
    BY <1>0, <2>1, <2>4, <2>5, <2>6, <2>8, <2>9, <2>10 DEF WindowRest
  <2> QED BY <2>7, <2>11, WindowSplits
<1>3. ASSUME Lock(t) PROVE Window'
  <2> DEFINE x == <<"pre", 0>>
  <2>1. /\ From(t, <<"lock", 0>>) /\ Moves(t, x, depths[t])
        /\ holder = Nobody /\ holder' = t
        /\ UNCHANGED <<word, store, locked, installs, overlap>>
    BY <1>3, LockStep
  <2>2. x[1] = "pre" /\ x[2] = 0 /\ tops[t][1] = "lock"
    BY <2>1 DEF From
  <2> HIDE DEF x
  <2> SUFFICES ASSUME Single' PROVE Window'
    BY DEF Window
  <2>3. /\ tops'[t] = x /\ depths'[t] = depths[t]
        /\ \A u \in Threads \ {t} : tops'[u] = tops[u] /\ depths'[u] = depths[u]
    BY <2>1, Moved
  <2>4. Single /\ locked
    BY <2>1, <2>2 DEF Single, Basic, RoutineOK
  <2>5. WindowRest(t) /\ WindowOK(tops[t], depths[t])
    BY <2>4, WindowSplits
  <2>6. \A u \in Threads : ~Inside(tops[u], depths[u])
    BY <2>1, <2>4, <2>5, ToggleAssumption DEF WindowRest
  <2>7. \A u \in Threads : ~Installing(tops[u])
    BY <2>2, <2>5 DEF WindowRest, Installing
  <2>8. installs = 1 /\ word = Jumped
    <3>1. installs # 0 /\ installs <= 1
      BY <2>2, <2>4, <2>5 DEF WindowOK, Single
    <3> QED BY <1>0, <2>5, <2>6, <2>7, <3>1 DEF WindowRest
  <2>9. WindowOK(tops[t], depths[t])'
    <3>1. ~(depths[t] > 1)
      BY <2>6 DEF Inside
    <3> QED BY <1>0, <2>1, <2>2, <2>3, <2>8, <3>1 DEF WindowOK, Split
  <2>10. \A u \in Threads \ {t} : /\ (~Inside(tops[u], depths[u]) /\ ~Installing(tops[u]))'
                                  /\ WindowOK(tops[u], depths[u])'
    <3>1. ASSUME NEW u \in Threads \ {t}
          PROVE  /\ (~Inside(tops[u], depths[u]) /\ ~Installing(tops[u]))'
                 /\ WindowOK(tops[u], depths[u])'
      <4>1. WindowOK(tops[u], depths[u])
        BY <2>5 DEF WindowRest
      <4>2. (~Inside(tops[u], depths[u]) /\ ~Installing(tops[u]))'
        BY <2>3, <2>6, <2>7 DEF Inside, Installing
      <4> QED BY <1>0, <2>1, <2>3, <4>1, <4>2 DEF WindowOK, Split
    <3> QED BY <3>1
  <2>11. (~Installing(tops[t]))'
    BY <2>2, <2>3 DEF Installing
  <2>12. WindowRest(t)'
    BY <1>0, <2>1, <2>5, <2>8, <2>10, <2>11 DEF WindowRest
  <2> QED BY <2>9, <2>12, WindowSplits
<1>4. ASSUME NEW k \in Words, Execute(t, k), UNCHANGED Hook PROVE Window'
  <2> DEFINE x == <<"orig", k + 1>>
  <2>1. /\ From(t, <<"orig", k>>) /\ Moves(t, x, depths[t])
        /\ UNCHANGED <<word, store, locked, holder, installs, overlap>>
    BY <1>4, ExecuteStep DEF Hook
  <2>2. x[1] = "orig" /\ tops[t][1] = "orig"
    <3>1. k \in 0 .. 3 /\ k + 1 \in 0 .. 3
      OBVIOUS
    <3> QED BY <2>1, <3>1 DEF From
  <2> HIDE DEF x
  <2>3. /\ Inside(x, depths[t]) <=> Inside(tops[t], depths[t])
        /\ Installing(x) <=> Installing(tops[t])
    BY <2>2 DEF Inside, Installing
  <2>4. (Single' => Single) /\ (Single => store' = Original)
    BY <2>1 DEF Single, Window
  <2>5. Single => WindowOK(x, depths[t])
    <3>1. Single => WindowOK(tops[t], depths[t])
      BY DEF Window
    <3> QED BY <2>2, <3>1 DEF WindowOK
  <2> QED BY <2>1, <2>2, <2>3, <2>4, <2>5, WindowStill
<1>5. ASSUME EnterReplacement(t, Entry), UNCHANGED Hook PROVE Window'
  <2>1. /\ From(t, <<"orig", 0>>) /\ Moves(t, Entry, depths[t]) /\ word[0] = "jump" /\ word[2] = "jump"
        /\ UNCHANGED <<word, store, locked, holder, installs, overlap>>
    BY <1>5, EnterStep DEF Hook
  <2>2. (Single' => Single) /\ (Single => store' = Original)
    BY <2>1 DEF Single, Window
  <2>3. tops[t][1] = "orig" /\ tops[t] # None /\ depths[t] \in Nat \ {0}
    BY <2>1 DEF From
  <2>4. Single => installs # 0 /\ ~(depths[t] > 1) /\ \A u \in Threads : ~Installing(tops[u])
    <3>1. SUFFICES ASSUME Single
                   PROVE  installs # 0 /\ ~(depths[t] > 1) /\ \A u \in Threads : ~Installing(tops[u])
      OBVIOUS
    <3>2. installs # 0 /\ ~(depths[t] > 1)
      BY <2>1, <3>1 DEF Window, WindowOK
    <3>3. ASSUME NEW u \in Threads, Installing(tops[u]) PROVE FALSE
      <4>1. WindowOK(tops[u], depths[u])
        BY <3>1 DEF Window
      <4>2. tops[u] \in Frames
        BY <3>3, TopFacts DEF Basic, Installing
      <4>3. tops[u][2] \in Words
        BY <3>3, <4>2 DEF Installing
      <4> QED BY <1>0, <2>1, <3>3, <4>1, <4>3 DEF WindowOK, Installing, Split
    <3> QED BY <3>2, <3>3
  <2>5. CASE locked
    <3> DEFINE x == Entry
    <3>1. x[1] = "lock"
      BY <2>5 DEF Entry
    <3>2. Moves(t, x, depths[t])
      BY <2>1
    <3> HIDE DEF x
    <3>3. /\ Inside(x, depths[t]) <=> Inside(tops[t], depths[t])
          /\ Installing(x) <=> Installing(tops[t])
      BY <2>3, <3>1 DEF Inside, Installing
    <3>4. Single => WindowOK(x, depths[t])
      BY <2>4, <3>1 DEF WindowOK
    <3> QED BY <2>1, <2>2, <2>4, <3>1, <3>2, <3>3, <3>4, WindowStill
  <2>6. CASE ~locked
    <3> DEFINE x == <<"pre", 0>>
    <3>1. x[1] = "pre" /\ x[2] = 0
      OBVIOUS
    <3>2. Moves(t, x, depths[t])
      BY <2>1, <2>6 DEF Entry
    <3> HIDE DEF x
    <3> SUFFICES ASSUME Single' PROVE Window'
      BY DEF Window
    <3>3. /\ tops'[t] = x /\ depths'[t] = depths[t]
          /\ \A u \in Threads \ {t} : tops'[u] = tops[u] /\ depths'[u] = depths[u]
      BY <3>2, Moved
    <3>4. Single /\ ~overlap
      BY <2>2, <2>6 DEF Single
    <3>5. WindowRest(t) /\ WindowOK(tops[t], depths[t])
      BY <3>4, WindowSplits
    <3>6. \A u \in Threads \ {t} : tops[u] = None /\ depths[u] = 0
      BY <2>3, <3>4, TopFacts DEF Turns, Basic
    <3>7. \A u \in Threads \ {t} : /\ (tops[u][1] = "none" /\ depths[u] = 0)'
                                   /\ (~Inside(tops[u], depths[u]) /\ ~Installing(tops[u]))'
      BY <3>3, <3>6 DEF Inside, Installing
    <3>8. installs = 1 /\ word = Jumped
      <4>1. installs = 1
        BY <1>0, <2>4, <3>4 DEF Single
      <4>2. \A u \in Threads : ~Inside(tops[u], depths[u])
        BY <2>3, <2>4, <3>4, <3>6 DEF Inside
      <4> QED BY <2>4, <3>4, <3>5, <4>1, <4>2 DEF WindowRest
    <3>9. WindowOK(tops[t], depths[t])'
      BY <1>0, <2>1, <2>4, <3>1, <3>3, <3>4, <3>8 DEF WindowOK, Split
    <3>10. \A u \in Threads \ {t} : WindowOK(tops[u], depths[u])'
      BY <2>1, <3>7, <3>8 DEF WindowOK
    <3>11. (~Installing(tops[t]))'
      BY <3>1, <3>3 DEF Installing
    <3>12. WindowRest(t)'
      BY <1>0, <2>1, <2>6, <3>5, <3>7, <3>8, <3>10, <3>11 DEF WindowRest
    <3> QED BY <3>9, <3>12, WindowSplits
  <2> QED BY <2>5, <2>6
<1>6. ASSUME Lose(t), UNCHANGED Hook PROVE Window'
  <2>1. UNCHANGED <<tops, depths, word, overlap, store, locked, holder, installs>>
    BY <1>6, LoseStep DEF Hook
  <2> QED BY <1>0, <2>1 DEF Window, Single, WindowOK, Split, Inside
<1>7. ASSUME Body(t), UNCHANGED Hook PROVE Window'
  <2>1. /\ From(t, <<"orig", 3>>)
        /\ UNCHANGED <<word, store, locked, holder, installs, overlap>>
        /\ Moves(t, IF depths[t] > 1 THEN Post ELSE None, depths[t] - 1)
    BY <1>7, BodyStep DEF Hook
  <2>2. PICK x, d : x = (IF depths[t] > 1 THEN Post ELSE None) /\ d = depths[t] - 1
    OBVIOUS
  <2>3. tops[t][1] = "orig" /\ depths[t] \in Nat \ {0}
    BY <2>1 DEF From
  <2>4. (Single' => Single) /\ (Single => store' = Original)
    BY <2>1 DEF Single, Window
  <2>5. /\ Inside(x, d) <=> Inside(tops[t], depths[t])
        /\ Installing(x) <=> Installing(tops[t])
        /\ x[1] # "lock"
    BY <2>2, <2>3 DEF Inside, Installing
  <2>6. Single => WindowOK(x, d)
    <3>1. Single => WindowOK(tops[t], depths[t])
      BY DEF Window
    <3>2. CASE depths[t] > 1
      BY <1>0, <2>2, <3>1, <3>2 DEF WindowOK, Split
    <3>3. CASE ~(depths[t] > 1)
      BY <2>2, <2>3, <3>3 DEF WindowOK
    <3> QED BY <3>2, <3>3
  <2> QED BY <2>1, <2>2, <2>4, <2>5, <2>6, WindowStill
<1>8. ASSUME NEW k \in Words, Save(t, k) PROVE Window'
  <2>1. /\ From(t, <<"save", k>>)
        /\ Moves(t, IF k = 2 THEN <<"patch", 0>> ELSE <<"save", k + 1>>, depths[t])
        /\ store' = [store EXCEPT ![k] = word[k]]
        /\ UNCHANGED <<word, locked, holder, installs, overlap>>
    BY <1>8, SaveStep
  <2>2. PICK x : x = IF k = 2 THEN <<"patch", 0>> ELSE <<"save", k + 1>>
    OBVIOUS
  <2>3. /\ tops[t][1] = "save" /\ x[1] \in {"save", "patch"} /\ (x[1] = "patch" => x[2] = 0)
        /\ depths[t] \in Nat \ {0}
    BY <2>1, <2>2 DEF From
  <2>4. Single => WindowOK(tops[t], depths[t]) /\ store = Original
    BY DEF Window
  <2>5. Single => store' = Original /\ word = Original
    <3>1. Single => word = Original /\ store = Original
      BY <2>3, <2>4 DEF WindowOK
    <3> QED BY <1>0, <2>1, <3>1
  <2>6. Single' => Single
    BY <2>1 DEF Single
  <2>7. Single => WindowOK(x, depths[t])
    BY <1>0, <2>3, <2>4, <2>5 DEF WindowOK, Split
  <2>8. /\ Inside(x, depths[t]) <=> Inside(tops[t], depths[t])
        /\ Installing(x) <=> Installing(tops[t])
        /\ x[1] # "lock"
    BY <2>3 DEF Inside, Installing
  <2> QED BY <2>1, <2>2, <2>5, <2>6, <2>7, <2>8, WindowStill
<1>9. ASSUME NEW k \in Words, WriteJump(t, k) PROVE Window'
  <2>1. /\ From(t, <<"patch", k>>) /\ depths[t] = 1
        /\ IF k = 2 THEN Moves(t, None, 0) ELSE Moves(t, <<"patch", k + 1>>, 1)
        /\ word' = [word EXCEPT ![k] = "jump"]
        /\ UNCHANGED <<store, locked, holder, installs, overlap>>
    BY <1>9, WriteStep
  <2>2. PICK x, d : (x = IF k = 2 THEN None ELSE <<"patch", k + 1>>) /\ d = IF k = 2 THEN 0 ELSE 1
    OBVIOUS
  <2>3. /\ Moves(t, x, d) /\ tops[t][1] = "patch" /\ tops[t][2] = k
        /\ IF k = 2 THEN x[1] = "none" ELSE x[1] = "patch" /\ x[2] = k + 1
    BY <2>1, <2>2 DEF From
  <2>4. /\ word' \in [Words -> {"orig", "jump"}] /\ word'[k] = "jump"
        /\ \A j \in Words \ {k} : word'[j] = word[j]
    BY <1>0, <2>1
  <2>5. Single /\ WindowOK(tops[t], depths[t]) =>
          installs = 1 /\ \A j \in Words : word'[j] = IF j < k + 1 THEN "jump" ELSE "orig"
    BY <1>0, <2>3, <2>4 DEF WindowOK, Split, Single
  <2>6. Single /\ WindowOK(tops[t], depths[t]) =>
          /\ installs = 1 /\ WindowOK(x, d)'
          /\ word' = Jumped \/ Inside(x, d) \/ Installing(x)
    <3>1. CASE k = 2
      BY <2>1, <2>2, <2>3, <2>4, <2>5, <3>1 DEF WindowOK
    <3>2. CASE k # 2
      BY <2>1, <2>2, <2>3, <2>5, <3>2 DEF WindowOK, Split, Installing
    <3> QED BY <3>1, <3>2
  <2>7. /\ Installing(tops[t]) /\ ~Inside(x, d) /\ x[1] # "lock"
        /\ \A u \in Threads \ {t} : ~Installing(tops[u])
    <3>1. Installing(tops[t]) /\ ~Inside(x, d) /\ x[1] # "lock"
      BY <2>2, <2>3 DEF Installing, Inside
    <3> QED BY <3>1 DEF Basic, RoutineOK, Installing
  <2>8. Single' => Single
    BY <2>1 DEF Single
  <2> QED BY <2>1, <2>3, <2>6, <2>7, <2>8, WindowWrites
<1>10. ASSUME NEW k \in Words, Precall(t, k) PROVE Window'
  <2>1. /\ From(t, <<"pre", k>>)
        /\ UNCHANGED <<store, locked, holder, installs, overlap>>
        /\ IF k = 2 THEN Moves(t, <<"orig", 0>>, depths[t] + 1)
                    ELSE Moves(t, <<"pre", k + 1>>, depths[t])
        /\ word' = [word EXCEPT ![k] = store[k]]
    BY <1>10, PrecallStep
  <2>2. PICK x, d : /\ x = (IF k = 2 THEN <<"orig", 0>> ELSE <<"pre", k + 1>>)
                    /\ d = IF k = 2 THEN depths[t] + 1 ELSE depths[t]
    OBVIOUS
  <2>3. /\ Moves(t, x, d) /\ tops[t][1] = "pre" /\ tops[t][2] = k /\ depths[t] \in Nat \ {0}
        /\ IF k = 2 THEN x[1] = "orig" ELSE x[1] = "pre" /\ x[2] = k + 1
    BY <2>1, <2>2 DEF From
  <2>4. /\ word' \in [Words -> {"orig", "jump"}] /\ word'[k] = store[k]
        /\ \A j \in Words \ {k} : word'[j] = word[j]
    BY <1>0, <2>1
  <2>5. Single /\ WindowOK(tops[t], depths[t]) =>
          /\ installs = 1 /\ depths[t] = 1
          /\ \A j \in Words : word'[j] = IF j < k + 1 THEN "orig" ELSE "jump"
    <3>1. Single => store = Original
      BY DEF Window
    <3> QED BY <1>0, <2>3, <2>4, <3>1 DEF WindowOK, Split, Single
  <2>6. Inside(tops[t], depths[t]) /\ Inside(x, d) /\ ~Installing(x) /\ x[1] # "lock"
        /\ ~Installing(tops[t])
    BY <2>2, <2>3 DEF Inside, Installing
  <2>7. Single /\ WindowOK(tops[t], depths[t]) => installs = 1 /\ WindowOK(x, d)'
    <3>1. CASE k = 2
      <4>1. Single /\ WindowOK(tops[t], depths[t]) => word' = Original
        BY <2>4, <2>5, <3>1
      <4> QED BY <1>0, <2>1, <2>2, <2>3, <2>5, <3>1, <4>1 DEF WindowOK
    <3>2. CASE k # 2
      BY <2>1, <2>2, <2>3, <2>5, <3>2 DEF WindowOK, Split
    <3> QED BY <3>1, <3>2
  <2>8. Single' => Single
    BY <2>1 DEF Single
  <2> QED BY <2>1, <2>3, <2>6, <2>7, <2>8, WindowWrites
<1>11. ASSUME NEW k \in Words, Postcall(t, k) PROVE Window'
  <2>1. /\ From(t, <<"post", k>>) /\ UNCHANGED <<store, locked, installs, overlap>>
        /\ IF k = 2 THEN Moves(t, IF depths[t] > 1 THEN Post ELSE None, depths[t] - 1)
                    ELSE Moves(t, <<"post", k + 1>>, depths[t])
        /\ word' = [word EXCEPT ![k] = "jump"]
        /\ holder' = IF k = 2 /\ holder = t THEN Nobody ELSE holder
    BY <1>11, PostcallStep
  <2>2. /\ tops[t][1] = "post" /\ tops[t][2] = k /\ depths[t] \in Nat \ {0}
    BY <2>1 DEF From
  <2>3. /\ word' \in [Words -> {"orig", "jump"}] /\ word'[k] = "jump"
        /\ \A j \in Words \ {k} : word'[j] = word[j]
    BY <1>0, <2>1
  <2>4. Single /\ WindowOK(tops[t], depths[t]) =>
          /\ installs = 1 /\ depths[t] = 1
          /\ \A j \in Words : word'[j] = IF j < k + 1 THEN "jump" ELSE "orig"
    BY <1>0, <2>2, <2>3 DEF WindowOK, Split, Single
  <2>5. Inside(tops[t], depths[t]) /\ ~Installing(tops[t]) /\ (Single' => Single)
    BY <2>1, <2>2 DEF Inside, Installing, Single
  <2> SUFFICES ASSUME Single PROVE Window'
    BY <2>5 DEF Window
  <2>6. depths[t] = 1 /\ installs = 1
    BY <2>4 DEF Window
  <2>7. CASE k = 2
    <3>1. Moves(t, None, 0)
      BY <2>1, <2>6, <2>7
    <3>2. WindowOK(tops[t], depths[t]) => word' = Jumped
      BY <2>3, <2>4, <2>7
    <3>3. WindowOK(None, 0)' /\ ~Inside(None, 0) /\ ~Installing(None) /\ None[1] # "lock"
      BY DEF WindowOK, Inside, Installing, None
    <3> QED BY <2>1, <2>5, <2>6, <3>1, <3>2, <3>3, WindowWrites
  <2>8. CASE k # 2
    <3> DEFINE x == <<"post", k + 1>>
    <3>1. x[1] = "post" /\ x[2] = k + 1 /\ Moves(t, x, 1)
      BY <2>1, <2>6, <2>8
    <3> HIDE DEF x
    <3>2. Inside(x, 1) /\ ~Installing(x) /\ x[1] # "lock"
      BY <3>1 DEF Inside, Installing
    <3>3. WindowOK(tops[t], depths[t]) => WindowOK(x, 1)'
      BY <2>1, <2>4, <2>6, <3>1 DEF WindowOK, Split
    <3>4. holder' = holder
      BY <2>1, <2>8
    <3> QED BY <2>1, <2>5, <2>6, <3>1, <3>2, <3>3, <3>4, WindowWrites
  <2> QED BY <2>7, <2>8
<1> QED BY <1>1, <1>2, <1>3, <1>4, <1>5, <1>6, <1>7, <1>8, <1>9, <1>10, <1>11 DEF ThreadStep


-----------------------------------------------------------------------------
LEMMA ToggleInitially == Init => ToggleInv
<1> SUFFICES ASSUME Init PROVE ToggleInv
  OBVIOUS
<1> USE PatchAssumption, ToggleAssumption, FrameFacts, CodeFacts DEF Init, PatchInit
<1>1. \A t \in Threads : stack[t] = <<>> /\ tops[t] = None /\ depths[t] = 0
  BY DEF tops, depths
<1>2. Shape
  <2>1. \A S : <<>> \in Seq(S) /\ Len(<<>>) = 0
    OBVIOUS
  <2>2. \A t \in Threads : stack[t] = <<>>
    OBVIOUS
  <2>3. stack \in [Threads -> Seq(Frames)]
    BY <2>1
  <2>4. \A t \in Threads : \A j \in 2 .. Len(stack[t]) : FALSE
    BY <2>1, <2>2
  <2> QED BY <2>3, <2>4 DEF Shape
<1>3. Basic
  <2>1. calls \in [Threads -> 0 .. MaxCalls] /\ ran \in [Threads -> Nat]
    OBVIOUS
  <2>2. /\ installs \in Nat /\ locked \in BOOLEAN /\ holder \in Threads \cup {Nobody}
        /\ lost \in BOOLEAN /\ overlap \in BOOLEAN
    OBVIOUS
  <2>3. word \in [Words -> {"orig", "jump"}] /\ store \in [Words -> {"orig", "jump"}]
    OBVIOUS
  <2>4. \A t \in Threads : RoutineOK(t)
    BY <1>1, ZenonT(40) DEF RoutineOK
  <2> QED BY <1>2, <2>1, <2>2, <2>3, <2>4 DEF Basic
<1>4. Debt
  BY DEF Debt
<1>5. Turns
  BY <1>1 DEF Turns, Rest
<1>6. Window
  BY <1>1 DEF Window, WindowOK, Inside
<1> QED BY <1>3, <1>4, <1>5, <1>6 DEF ToggleInv

LEMMA ToggleKept == ToggleInv /\ [Next]_vars => ToggleInv'
<1> SUFFICES ASSUME ToggleInv, [Next]_vars PROVE ToggleInv'
  OBVIOUS
<1>1. Basic'
  BY BasicKept DEF ToggleInv
<1>2. CASE UNCHANGED vars
  <2>1. UNCHANGED <<tops, depths, word, store, installs, overlap, lost, locked, holder>>
    BY <1>2 DEF vars, patchVars, tops, depths
  <2>2. Debt' /\ Turns'
    BY <2>1 DEF ToggleInv, Debt, Turns, TurnOK, Rest, Original, Jumped
  <2>3. Window'
    BY <2>1 DEF ToggleInv, Window, Single, WindowOK, Split, Original, Jumped
  <2> QED BY <1>1, <2>2, <2>3 DEF ToggleInv
<1>3. ASSUME NEW t \in Threads, ThreadStep(t) PROVE ToggleInv'
  BY <1>1, <1>3, DebtStep, TurnStep, WindowStep DEF ToggleInv
<1> QED BY <1>2, <1>3, StepsOfThreads

THEOREM ToggleInvariant == Spec => []ToggleInv
  BY ToggleInitially, ToggleKept, PTL DEF Spec

(* The words, the frames of the stacks and the mutex have their types, and *)
(* the stacks are as nested wrappers of exporthook.c leave them.           *)
THEOREM ToggleTypes == Spec => []TypeOK
<1>1. ToggleInv => TypeOK
  <2> SUFFICES ASSUME ToggleInv PROVE TypeOK
    OBVIOUS
  <2>1. ASSUME NEW t \in Threads, NEW j \in 1 .. Len(stack[t]) PROVE stack[t][j] \in Frames
    BY DEF ToggleInv, Basic, Shape
  <2> QED BY <2>1 DEF ToggleInv, Basic, TypeOK, Frames
<1> QED BY <1>1, ToggleInvariant, PTL

(* Threads that take turns never execute a half-written jump.              *)
THEOREM SafeWhenTakingTurns == Spec => []SafeInTurn
<1>1. ToggleInv => SafeInTurn
  BY DEF ToggleInv, Turns, Basic, SafeInTurn
<1> QED BY <1>1, ToggleInvariant, PTL

(* When all wrappers have returned every hook_precall has been undone,     *)
(* however hook_precall and hook_postcall of several threads interleaved.  *)
THEOREM HookIsBack == Spec => []HookedWhenQuiet
<1>1. ToggleInv => HookedWhenQuiet
  <2> SUFFICES ASSUME ToggleInv, Quiet, installs > 0 PROVE word = Jumped
    BY DEF HookedWhenQuiet
  <2>1. \A t \in Threads : tops[t] = None /\ depths[t] = 0
    BY TopFacts DEF Quiet, ToggleInv, Basic
  <2>2. \A t \in Threads, k \in Words : ~Owes(tops[t], depths[t], k)
    BY <2>1, FrameFacts DEF Owes
  <2>3. \A k \in Words : word[k] = "jump"
    BY <2>2 DEF ToggleInv, Debt
  <2>4. word \in [Words -> {"orig", "jump"}]
    BY DEF ToggleInv, Basic
  <2> QED BY <2>3, <2>4, CodeFacts
<1> QED BY <1>1, ToggleInvariant, PTL

(* Between hook_precall and hook_postcall of the only thread inside, or of *)
(* the one that holds the mutex, the function is the original.             *)
THEOREM OriginalIsSeen == Spec => []WrapperSeesOriginal
<1>1. ToggleInv => WrapperSeesOriginal
  <2> SUFFICES ASSUME ToggleInv, installs = 1, locked \/ ~overlap,
                      NEW t \in Threads, Len(stack[t]) > 1
               PROVE  word = Original
    BY DEF WrapperSeesOriginal
  <2>1. Single /\ depths[t] > 1
    BY DEF Single, depths
  <2> QED BY <2>1 DEF ToggleInv, Window, WindowOK
<1> QED BY <1>1, ToggleInvariant, PTL

(* A call that returns has run the original once, whether it came through  *)
(* the wrapper, through nested wrappers or through none.                   *)
THEOREM RunsOriginalOnce == Spec => OriginalOnce
<1> DEFINE Once == \A t \in Threads :
             stack[t] # <<>> /\ stack'[t] = <<>> /\ Head(stack[t])[1] # "patch" => ran'[t] = 1
<1>1. ToggleInv /\ [Next]_vars => [Once]_vars
  <2> SUFFICES ASSUME ToggleInv, [Next]_vars, NEW t \in Threads,
                      stack[t] # <<>>, stack'[t] = <<>>, Head(stack[t])[1] # "patch"
               PROVE  ran'[t] = 1
    OBVIOUS
  <2>1. Basic /\ Basic' /\ Shape /\ Shape'
    BY BasicKept DEF ToggleInv, Basic
  <2>2. tops[t] # None /\ tops[t][1] # "patch" /\ tops'[t] = None
    <3>1. tops[t] = Head(stack[t]) /\ tops[t] # None
      BY <2>1, TopFacts
    <3>2. tops'[t] = None
      BY DEF tops, None
    <3> QED BY <3>1, <3>2
  <2>3. PICK u \in Threads : ThreadStep(u)
    <3>1. ~UNCHANGED vars
      BY DEF vars, patchVars
    <3> QED BY <3>1, StepsOfThreads
  <2> HIDE DEF Once
  <2>4. u = t
    <3>1. \A v \in Threads \ {u} : stack'[v] = stack[v]
      BY <2>1, <2>3 DEF ThreadStep, Call, Begin, DoHook, Lock, Execute, EnterReplacement, Lose, Body,
         Save, WriteJump, Precall, Postcall, Goto, Pop, Replace, Shape
    <3> QED BY <3>1
  <2>5. ASSUME NEW x, NEW d, Moves(t, x, d) PROVE x = None
    BY <2>2, <2>5, Moved
  <2> USE FrameFacts
  <2>6. ~(Call(t) /\ UNCHANGED Hook) /\ ~DoHook(t) /\ ~Lock(t)
    BY <2>1, <2>5, CallStep, InstallStep, LockStep
  <2>7. \A k \in Words : ~(Execute(t, k) /\ UNCHANGED Hook)
    BY <2>1, <2>5, ExecuteStep
  <2>8. ~(EnterReplacement(t, Entry) /\ UNCHANGED Hook)
    BY <2>1, <2>5, EnterStep DEF Entry
  <2>9. ~(Lose(t) /\ UNCHANGED Hook)
    BY <2>1, <2>2, LoseStep
  <2>10. \A k \in Words : ~Save(t, k) /\ ~WriteJump(t, k) /\ ~Precall(t, k)
    BY <2>1, <2>2, <2>5, SaveStep, WriteStep, PrecallStep DEF From
  <2>11. Body(t) /\ UNCHANGED Hook => ran'[t] = 1
    BY <2>1, BodyStep
  <2>12. ASSUME NEW k \in Words, Postcall(t, k) PROVE ran'[t] = 1
    <3>1. From(t, <<"post", k>>) /\ ran' = ran
      BY <2>1, <2>12, PostcallStep
    <3>2. tops[t][1] = "post"
      BY <3>1 DEF From
    <3> QED BY <2>1, <3>1, <3>2 DEF Basic, RoutineOK
  <2> QED BY <2>3, <2>4, <2>6, <2>7, <2>8, <2>9, <2>10, <2>11, <2>12 DEF ThreadStep
<1> HIDE DEF Once
<1>2. [][Once]_vars => OriginalOnce
  BY DEF OriginalOnce, Once
<1> QED BY <1>1, <1>2, ToggleInvariant, PTL DEF Spec

=============================================================================
