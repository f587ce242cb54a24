------------------------------- MODULE CopyHook -------------------------------
(***************************************************************************)
(* hook_lwp of hook.c, which hook_entry of epoll.c calls once when it is   *)
(* injected, and at every click of the button of HelloJni: the first words *)
(* are replaced for good, a page with a copy of them and a jump behind     *)
(* them stands for the original, and the wrapper calls that page through   *)
(* gettimeofday_old_directly.                                              *)
(*                                                                         *)
(* What is written may not take effect before the cache is flushed (the    *)
(* comment above hook_cacheflush): until then a thread may fetch the words *)
(* or what was there before them.  hook_lwp flushes the function, and its  *)
(* page never.                                                             *)
(***************************************************************************)
EXTENDS Patch

CONSTANT MaxInstalls  \* calls of hook_lwp: bounds the run

ASSUME CopyAssumption == MaxInstalls \in Nat

VARIABLES
  thumb,    \* the function is Thumb code
  store,    \* h->store
  copy,     \* words of each page, "none" until written; word 3 jumps back
  unflushed, \* words written and not flushed: <<0, k>> of the function,
            \* <<n, k>> of page n
  old,      \* the page *origFunc points to, 0: NULL
  installs, \* calls of hook_lwp so far; each one maps the page of its number
  done,     \* hook_lwp has returned (1: success)
  early     \* threads whose current call began before that

hook == <<thumb, store, copy, unflushed, old, installs, done, early>>
vars == <<patchVars, hook>>

Pages == 1 .. MaxInstalls

Init ==
  /\ PatchInit
  /\ thumb \in BOOLEAN /\ store = Original
  /\ copy = [n \in Pages |-> [k \in 0 .. 3 |-> "none"]]
  /\ unflushed = {} /\ old = 0 /\ installs = 0 /\ done = FALSE /\ early = {}

(* find_name and the three loads: of the jump, when it is there already.   *)
HookLwp(t) ==
  /\ t = Installer /\ installs < MaxInstalls
  /\ Begin(t, IF thumb THEN <<"flush", 0>> ELSE <<"patch", 0>>)
  /\ store' = IF thumb THEN store ELSE word
  /\ installs' = installs + 1
  /\ UNCHANGED <<word, calls, ran, lost, thumb, copy, unflushed, old, done, early>>

(* Mutant: the third word is left alone.                                   *)
WriteJumpShort(t, k) ==
  /\ At(t, <<"patch", k>>)
  /\ word' = [word EXCEPT ![k] = IF k = 2 THEN @ ELSE "jump"]
  /\ Goto(t, IF k = 2 THEN <<"copy", 0>> ELSE <<"patch", k + 1>>)
  /\ unflushed' = IF word[k] = "orig" THEN unflushed \cup {<<0, k>>} ELSE unflushed
  /\ UNCHANGED <<thumb, store, copy, old, installs, done, early>> /\ Unmarked

WriteJump(t, k) ==
  /\ At(t, <<"patch", k>>)
  /\ word' = [word EXCEPT ![k] = "jump"]
  /\ Goto(t, IF k = 2 THEN <<"copy", 0>> ELSE <<"patch", k + 1>>)
  /\ unflushed' = IF word[k] = "orig" THEN unflushed \cup {<<0, k>>} ELSE unflushed
  /\ UNCHANGED <<thumb, store, copy, old, installs, done, early>> /\ Unmarked

(* Mutant: *origFunc is set as soon as the page is mapped.                 *)
WriteCopyLate(t, k) ==
  /\ At(t, <<"copy", k>>)
  /\ copy' = [copy EXCEPT ![installs][k] = IF k = 3 THEN "back" ELSE store[k]]
  /\ unflushed' = unflushed \cup {<<installs, k>>}
  /\ Goto(t, IF k = 3 THEN <<"flush", 0>> ELSE <<"copy", k + 1>>)
  /\ old' = installs
  /\ UNCHANGED <<word, thumb, store, installs, done, early>> /\ Unmarked

(* Mutant: *origFunc is never set.                                         *)
WriteCopyUnset(t, k) ==
  /\ At(t, <<"copy", k>>)
  /\ copy' = [copy EXCEPT ![installs][k] = IF k = 3 THEN "back" ELSE store[k]]
  /\ unflushed' = unflushed \cup {<<installs, k>>}
  /\ Goto(t, IF k = 3 THEN <<"flush", 0>> ELSE <<"copy", k + 1>>)
  /\ UNCHANGED <<word, thumb, store, old, installs, done, early>> /\ Unmarked

(* The stored words, then the jump to the function's fourth word (words 3  *)
(* to 5 of the page, one step here), then *origFunc.                       *)
WriteCopy(t, k) ==
  /\ At(t, <<"copy", k>>)
  /\ copy' = [copy EXCEPT ![installs][k] = IF k = 3 THEN "back" ELSE store[k]]
  /\ unflushed' = unflushed \cup {<<installs, k>>}
  /\ Goto(t, IF k = 3 THEN <<"flush", 0>> ELSE <<"copy", k + 1>>)
  /\ old' = IF k = 3 THEN installs ELSE old
  /\ UNCHANGED <<word, thumb, store, installs, done, early>> /\ Unmarked

(* The flush of the function's words and the return.  For Thumb code that  *)
(* is all there is ("TODO THUMB"), and the address flushed was never       *)
(* assigned.                                                               *)
Flush(t) ==
  /\ At(t, <<"flush", 0>>)
  /\ Pop(t)
  /\ unflushed' = {w \in unflushed : w[1] # 0}
  /\ done' = TRUE
  /\ UNCHANGED <<word, thumb, store, copy, old, installs, early>> /\ Unmarked

(* A word that was replaced and not flushed yet is still executed.         *)
ExecuteStale(t, k) ==
  /\ At(t, <<"orig", k>>) /\ <<0, k>> \in unflushed
  /\ Goto(t, <<"orig", k + 1>>)
  /\ UNCHANGED <<word, hook>> /\ Unmarked

(* gettimeofday_new_directly: without an original it returns 0 at once.    *)
WrapperSkips(t) ==
  /\ At(t, <<"wrapper", 0>>) /\ old = 0
  /\ Pop(t)
  /\ UNCHANGED <<word, hook>> /\ Unmarked

WrapperCalls(t) ==
  /\ At(t, <<"wrapper", 0>>) /\ old # 0
  /\ Goto(t, <<"page", old, 0>>)
  /\ UNCHANGED <<word, hook>> /\ Unmarked

(* Mutant: the page ends in a jump to the patched word.                    *)
ExecuteCopyToStart(t, n, k) ==
  /\ At(t, <<"page", n, k>>) /\ copy[n][k] # "none"
  /\ Goto(t, IF copy[n][k] = "jump" THEN <<"wrapper", 0>>
             ELSE IF k = 3 THEN <<"orig", 0>> ELSE <<"page", n, k + 1>>)
  /\ UNCHANGED <<word, hook>> /\ Unmarked

(* The page runs the three words and goes on behind the patched ones.  A   *)
(* copied jump enters the wrapper again, from inside the wrapper.          *)
ExecuteCopy(t, n, k) ==
  /\ At(t, <<"page", n, k>>) /\ copy[n][k] # "none"
  /\ Goto(t, IF copy[n][k] = "jump" THEN <<"wrapper", 0>>
             ELSE IF k = 3 THEN <<"orig", 3>> ELSE <<"page", n, k + 1>>)
  /\ UNCHANGED <<word, hook>> /\ Unmarked

(* The zeros of a fresh mapping are fetched: the word is not written, or   *)
(* it is not flushed.                                                      *)
Zeros(t, n, k) ==
  /\ At(t, <<"page", n, k>>)
  /\ copy[n][k] = "none" \/ <<n, k>> \in unflushed

RunZeros(t, n, k) ==
  /\ Zeros(t, n, k)
  /\ lost' = TRUE
  /\ UNCHANGED <<word, stack, calls, ran, overlap, hook>>

CallIt(t) ==
  /\ Call(t)
  /\ early' = IF done THEN early \ {t} ELSE early \cup {t}
  /\ UNCHANGED <<thumb, store, copy, unflushed, old, installs, done>>

Step(t) ==
  \/ Function(t, <<"wrapper", 0>>) /\ UNCHANGED hook
  \/ Flush(t) \/ WrapperSkips(t) \/ WrapperCalls(t)
  \/ \E k \in Words : WriteJump(t, k) \/ ExecuteStale(t, k)
  \/ \E k \in 0 .. 3 :
       \/ WriteCopy(t, k)
       \/ \E n \in Pages : ExecuteCopy(t, n, k) \/ RunZeros(t, n, k)

Next == \E t \in Threads : HookLwp(t) \/ CallIt(t) \/ Step(t)

Spec == Init /\ [][Next]_vars
FairSpec == Spec /\ \A t \in Threads : WF_vars(Step(t))
-----------------------------------------------------------------------------
(* Type invariant of the pages, the pointer and the stacks.                *)
TypeOK ==
  /\ word \in [Words -> {"orig", "jump"}] /\ store \in [Words -> {"orig", "jump"}]
  /\ copy \in [Pages -> [0 .. 3 -> {"none", "orig", "jump", "back"}]]
  /\ \A t \in Threads : \A j \in 1 .. Len(stack[t]) :
       stack[t][j] \in ({"patch", "flush", "wrapper"} \X Words)
                         \cup ({"orig", "copy"} \X (0 .. 3)) \cup ({"page"} \X Pages \X (0 .. 3))
  /\ unflushed \subseteq ({0} \X Words) \cup (Pages \X (0 .. 3))
  /\ old \in 0 .. installs /\ installs \in 0 .. MaxInstalls
  /\ done \in BOOLEAN /\ early \subseteq Threads

(* Who runs zeros in a page runs them for want of a flush alone: *origFunc *)
(* is set only when every word of the page is in memory.                   *)
PageWhole ==
  \A t \in Threads, n \in Pages, k \in 0 .. 3 :
    Zeros(t, n, k) => copy[n][k] # "none" /\ <<n, k>> \in unflushed

(* A call that begins after hook_lwp has returned runs the original once   *)
(* before it returns (one that runs zeros in the page does not return);    *)
(* only a call that overlaps hook_lwp can return 0 without it.             *)
ServedOnceDone ==
  [][\A t \in Threads \ early :
       stack[t] # <<>> /\ stack'[t] = <<>> /\ Head(stack[t])[1] # "flush" => ran'[t] = 1]_vars

(* In the function itself, half-written code and stale words are met only  *)
(* by a call that overlaps the first hook_lwp: its flush is over when it   *)
(* returns, and a second one writes the words that are there.              *)
SafeOnceDone ==
  \A t \in Threads \ early :
    ~Astray(t) /\ \A k \in Words : At(t, <<"orig", k>>) => <<0, k>> \notin unflushed

(* Every call returns, unless some thread is lost, in half a jump or in a  *)
(* page that nobody flushed, or hook_lwp was run again: the page then      *)
(* holds the jump, and wrapper and page call each other for ever.          *)
CallReturns == \A t \in Threads : (stack[t] # <<>>) ~> (stack[t] = <<>> \/ lost \/ installs > 1)
=============================================================================
