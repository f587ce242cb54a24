----------------------------- MODULE Interceptor -----------------------------
(***************************************************************************)
(* hookzz: one thread builds, enables and disables hooks (interceptor.c,   *)
(* interceptor-arm.c), others call the functions, pass the thunks of       *)
(* thunker-arm.c and keep the return addresses they divert on a stack per  *)
(* hook and thread (stack.c), found through a global list of keys          *)
(* (posix_thread_kit.c).  Nothing is locked, no thread is stopped, and no  *)
(* instruction cache is flushed: a thread may for ever fetch what a word   *)
(* it executes held before it was written.                                 *)
(*                                                                         *)
(* A thread is a sequence of frames, innermost first; `at' is the first or *)
(* second word of the function, its "body" or a step of the hook.  A call  *)
(* stack entry is named by the depth of the frame that pushed it, so that  *)
(* the frame of that depth, popping it, returns to its own caller.         *)
(***************************************************************************)
EXTENDS Naturals, Sequences

CONSTANTS
  Threads, Functions,
  Types,     \* hook types asked for
  KeyCap,    \* keys the list holds before it is reallocated (4)
  Depth,     \* frames on a stack: bounds re-entry
  MaxCalls,  \* calls of the threads, nested ones counted: bounds the run
  MaxOps     \* calls of the API: bounds the run

(* "replace": ZzHookReplace; "prepost": ZzHookPrePost; "both": ZzHook with *)
(* all three callbacks; "insn": ZzHookOneInstruction; "dbi":               *)
(* ZzDynamicBinaryInstrumentation.                                         *)
ASSUME InterceptorAssumption ==
  /\ Types \subseteq {"replace", "prepost", "both", "insn", "dbi"}
  /\ KeyCap \in Nat \ {0} /\ Depth \in Nat /\ MaxCalls \in Nat /\ MaxOps \in Nat

VARIABLES
  type,       \* hook_type of a function's entry, "none" without one
  enabled,    \* functions whose entry has isEnabled
  word,       \* the two words the jump takes, "orig" or "jump"
  origin,     \* functions whose *origin_ptr is set
  written,    \* words <<function, which>> that were ever patched or restored
  op, ops,    \* API call in progress <<step, function, argument>>, calls so far
  keys, cap,  \* size and capacity of the key list
  moving,     \* realloc has freed the list's array, the new one is not stored
  stack,      \* frames of every thread
  callstack,  \* callstack[f][t]: entries, last pushed first
  calls,      \* calls the threads have made
  lost,       \* a thread crashed or ran what is no instruction of its routine
  exposed,    \* a thread was in the words of a function being patched
  raced,      \* the key list was read while it moved
  stale       \* threads in a routine of which they fetched what memory does
              \* not hold

hooks == <<type, enabled, word, origin, written>>
list == <<keys, cap, moving>>
threads == <<stack, callstack, calls>>
marks == <<lost, exposed, raced, stale>>
vars == <<hooks, op, ops, list, threads, marks>>

Idle == <<"idle">>
Jumped == <<"jump", "jump">>
Original == <<"orig", "orig">>

Init ==
  /\ type = [f \in Functions |-> "none"] /\ enabled = {} /\ origin = {} /\ written = {}
  /\ word = [f \in Functions |-> Original]
  /\ op = Idle /\ ops = 0 /\ keys = 0 /\ cap = KeyCap /\ moving = FALSE
  /\ stack = [t \in Threads |-> <<>>] /\ calls = 0
  /\ callstack = [f \in Functions |-> [t \in Threads |-> <<>>]]
  /\ lost = FALSE /\ exposed = FALSE /\ raced = FALSE /\ stale = {}
-------------------------------------------------------------------------------
(* The thread that hooks.                                                  *)

Doing(step) == ~lost /\ op[1] = step
Then(step, arg) == op' = <<step, op[2], arg>>
Ask(step, f, arg) ==
  /\ ~lost /\ op = Idle /\ ops < MaxOps
  /\ ops' = ops + 1 /\ op' = <<step, f, arg>>

(* ZzHook, ZzHookPrePost and the like: build, unless there is an entry     *)
(* (ZZ_ALREADY_HOOK), then enable whatever building returned.  Only        *)
(* ZzDynamicBinaryInstrumentation returns at an entry.                     *)
Hook(f, y) ==
  /\ \/ type[f] = "none" /\ Ask("key", f, y)
     \/ type[f] # "none" /\ y # "dbi" /\ Ask("enable", f, 1)
  /\ UNCHANGED <<hooks, list, threads, marks>>

(* ZzEnableHook on its own; without an entry it does nothing.              *)
EnableHook(f) ==
  /\ type[f] # "none" /\ Ask("enable", f, 1)
  /\ UNCHANGED <<hooks, list, threads, marks>>

(* zz_posix_thread_add_thread_local_key: a full array moves first.         *)
MoveKeys ==
  /\ Doing("key") /\ keys >= cap /\ ~moving
  /\ moving' = TRUE
  /\ UNCHANGED <<hooks, op, ops, keys, cap, threads, marks>>

NewKey ==
  /\ Doing("key") /\ (keys < cap \/ moving)
  /\ keys' = keys + 1 /\ moving' = FALSE
  /\ cap' = IF moving THEN 2 * cap ELSE cap
  /\ Then("build", op[3])
  /\ UNCHANGED <<hooks, ops, threads, marks>>

(* Mutant: *origin_ptr is only set for hooks with callbacks.               *)
BuildHookUnset ==
  /\ Doing("build")
  /\ type' = [type EXCEPT ![op[2]] = op[3]]
  /\ origin' = IF op[3] = "both" THEN origin \cup {op[2]} ELSE origin
  /\ Then("enable", 1)
  /\ UNCHANGED <<enabled, word, written, ops, list, threads, marks>>

(* ZzBuildTrampoline, ZzAddHookFunctionEntry and *origin_ptr, which hooks  *)
(* on one instruction do not have.                                         *)
BuildHook ==
  /\ Doing("build")
  /\ type' = [type EXCEPT ![op[2]] = op[3]]
  /\ origin' = IF op[3] \in {"insn", "dbi"} THEN origin ELSE origin \cup {op[2]}
  /\ Then("enable", 1)
  /\ UNCHANGED <<enabled, word, written, ops, list, threads, marks>>

(* ZzEnableHook up to ZzActivateTrampoline.                                *)
Enable ==
  /\ Doing("enable")
  /\ enabled' = enabled \cup {op[2]}
  /\ IF op[2] \in enabled THEN op' = Idle ELSE Then("patch", 1)
  /\ UNCHANGED <<type, word, origin, written, ops, list, threads, marks>>

(* ZzMemoryPatchCode writes the whole page back; with one patching thread  *)
(* only the hook's words differ.                                           *)
InWords(f) ==
  \E t \in Threads : \E i \in DOMAIN stack[t] : stack[t][i].fn = f /\ stack[t][i].at \in {"first", "second"}
Write(f, k, v) ==
  /\ word' = [word EXCEPT ![f][k] = v]
  /\ written' = written \cup {<<f, k>>}
  /\ exposed' = (exposed \/ InWords(f))

Patch ==
  /\ Doing("patch") /\ Write(op[2], op[3], "jump")
  /\ IF op[3] = 2 THEN op' = Idle ELSE Then("patch", 2)
  /\ UNCHANGED <<type, enabled, origin, ops, list, threads, lost, raced, stale>>

(* ZzDisableHook, called for a function that has an entry.                 *)
DisableHook(f) ==
  /\ type[f] # "none" /\ Ask("restore", f, 1)
  /\ UNCHANGED <<hooks, list, threads, marks>>

(* Mutant: a short prologue was saved.                                     *)
RestoreShort ==
  /\ Doing("restore") /\ Write(op[2], 1, "orig")
  /\ enabled' = enabled \ {op[2]} /\ op' = Idle
  /\ UNCHANGED <<type, origin, ops, list, threads, lost, raced, stale>>

(* Mutant: isEnabled is left set.                                          *)
RestoreEnabled ==
  /\ Doing("restore") /\ Write(op[2], op[3], "orig")
  /\ IF op[3] = 2 THEN op' = Idle ELSE Then("restore", 2)
  /\ UNCHANGED <<type, enabled, origin, ops, list, threads, lost, raced, stale>>

Restore ==
  /\ Doing("restore") /\ Write(op[2], op[3], "orig")
  /\ IF op[3] = 2 THEN enabled' = enabled \ {op[2]} /\ op' = Idle
     ELSE enabled' = enabled /\ Then("restore", 2)
  /\ UNCHANGED <<type, origin, ops, list, threads, lost, raced, stale>>
-------------------------------------------------------------------------------
(* The threads that call.                                                  *)

Frame(f, at) == [fn |-> f, at |-> at, diverted |-> FALSE, popped |-> 0]
In(t, at) == ~lost /\ stack[t] # <<>> /\ Head(stack[t]).at = at
Fn(t) == Head(stack[t]).fn
Type(t) == type[Fn(t)]
Entries(t) == callstack[Fn(t)][t]
Replace(t, frames) == stack' = [stack EXCEPT ![t] = frames \o Tail(@)]
Goto(t, at) == Replace(t, <<[Head(stack[t]) EXCEPT !.at = at]>>)
Push(t, frame) ==
  /\ Len(stack[t]) < Depth /\ calls < MaxCalls
  /\ stack' = [stack EXCEPT ![t] = <<frame>> \o @]
  /\ calls' = calls + 1
Lose == lost' = TRUE /\ UNCHANGED <<hooks, op, ops, list, threads, exposed, raced>>
Unhooking == UNCHANGED <<hooks, op, ops, list>>
Patching(f) == op # Idle /\ op[1] \in {"patch", "restore"} /\ op[2] = f

(* A call from the outside, or from what a callback, a replacement or the  *)
(* function runs.                                                          *)
UserCode == {"pre", "stub", "post", "replacement", "body"}
Call(t, f) ==
  /\ ~lost
  /\ stack[t] # <<>> => Head(stack[t]).at \in UserCode
  /\ Push(t, Frame(f, "first"))
  /\ exposed' = (exposed \/ Patching(f))
  /\ UNCHANGED <<callstack, lost, raced, stale>> /\ Unhooking

(* The processor takes word k of the function for v: it is in memory, or   *)
(* in a cache since before a write.                                        *)
Fetches(t, k, v) == word[Fn(t)][k] = v \/ <<Fn(t), k>> \in written
Noticing(t, k, v) == stale' = IF word[Fn(t)][k] = v THEN stale ELSE stale \cup {t}

Execute(t) ==
  /\ \/ /\ In(t, "first") /\ Fetches(t, 1, "orig") /\ Goto(t, "second")
        /\ Noticing(t, 1, "orig")
     \/ /\ In(t, "second") /\ Fetches(t, 2, "orig") /\ Goto(t, "body")
        /\ stale' = stale \ {t}
  /\ UNCHANGED <<callstack, calls, lost, exposed, raced>> /\ Unhooking

(* The jump, whose second word is data and read from memory: to the        *)
(* replacement, or to a trampoline and its thunk.                          *)
Redirect(t) ==
  /\ In(t, "first") /\ Fetches(t, 1, "jump") /\ word[Fn(t)][2] = "jump"
  /\ Goto(t, CASE Type(t) = "replace" -> "replacement"
               [] Type(t) = "dbi" -> "stub"
               [] OTHER -> "enter")
  /\ UNCHANGED <<callstack, calls, marks>> /\ Unhooking

(* Half of a jump, or the second word of one.                              *)
Astray(t) ==
  /\ \/ In(t, "first") /\ Fetches(t, 1, "jump") /\ word[Fn(t)][2] = "orig" /\ Noticing(t, 1, "jump")
     \/ In(t, "second") /\ Fetches(t, 2, "jump") /\ Noticing(t, 2, "jump")
  /\ Lose

(* The slices and thunks of a hook, which a thread runs before and after   *)
(* each of these, are not flushed when they are built.                     *)
StaleSlice(t) ==
  /\ \E at \in {"enter", "pre", "stub", "replacement", "leave", "post"} : In(t, at)
  /\ stale' = stale \cup {t} /\ Lose

(* function_context_begin_invocation up to pre_call.                       *)
Begin(t) ==
  /\ In(t, "enter")
  /\ callstack' = [callstack EXCEPT ![Fn(t)][t] = <<Len(stack[t])>> \o @]
  /\ Goto(t, "pre")
  /\ UNCHANGED <<calls, marks>> /\ Unhooking

(* The same while the list moves: the array read is freed memory.  If the  *)
(* key is not found there the thread gets a new stack, which is stored     *)
(* only if the next look finds the key.                                    *)
BeginRaced(t) ==
  /\ In(t, "enter") /\ moving
  /\ raced' = TRUE
  /\ \/ lost' = TRUE /\ UNCHANGED threads
     \/ /\ callstack' = [callstack EXCEPT ![Fn(t)][t] = <<Len(stack[t])>>]
        /\ Goto(t, "pre") /\ UNCHANGED <<calls, lost>>
     \/ Goto(t, "pre") /\ UNCHANGED <<callstack, calls, lost>>
  /\ UNCHANGED <<exposed, stale>> /\ Unhooking

(* ... and after it: the next hop, and for a hook with a post_call on the  *)
(* function the return address.                                            *)
PreDone(t) ==
  /\ In(t, "pre")
  /\ LET at == CASE Type(t) = "both" -> "replacement"
                 [] Type(t) = "insn" -> "leave"
                 [] OTHER -> "body"
     IN Replace(t, <<[Head(stack[t]) EXCEPT !.at = at, !.diverted = Type(t) # "insn"]>>)
  /\ UNCHANGED <<callstack, calls, marks>> /\ Unhooking

(* dynamic_binary_instrumentation_invocation.                              *)
StubDone(t) ==
  /\ In(t, "stub") /\ Goto(t, "body")
  /\ UNCHANGED <<callstack, calls, marks>> /\ Unhooking

(* A replacement calls the original through *origin_ptr.                   *)
CallOrigin(t) ==
  /\ In(t, "replacement")
  /\ IF Fn(t) \in origin
     THEN Push(t, Frame(Fn(t), "body")) /\ UNCHANGED <<callstack, marks>> /\ Unhooking
     ELSE Lose /\ UNCHANGED stale

Return(t) ==
  /\ In(t, "body") \/ In(t, "replacement")
  /\ IF Head(stack[t]).diverted THEN Goto(t, "leave") ELSE Replace(t, <<>>)
  /\ UNCHANGED <<callstack, calls, marks>> /\ Unhooking

(* Mutant: the entries of the thread that called last are used.            *)
EndAny(t) ==
  /\ In(t, "leave") /\ Entries(t) # <<>>
  /\ \E u \in Threads : callstack' = [callstack EXCEPT ![Fn(t)][u] = IF @ = <<>> THEN @ ELSE Tail(@)]
  /\ Replace(t, <<[Head(stack[t]) EXCEPT !.at = "post", !.popped = Head(Entries(t))]>>)
  /\ UNCHANGED <<calls, marks>> /\ Unhooking

(* function_context_end_invocation and insn_context_end_invocation up to   *)
(* post_call.                                                              *)
End(t) ==
  /\ In(t, "leave") /\ Entries(t) # <<>>
  /\ callstack' = [callstack EXCEPT ![Fn(t)][t] = Tail(@)]
  /\ Replace(t, <<[Head(stack[t]) EXCEPT !.at = "post", !.popped = Head(Entries(t))]>>)
  /\ UNCHANGED <<calls, marks>> /\ Unhooking

(* No entry, or no stack found: a null pointer is followed.                *)
EndAstray(t) ==
  /\ In(t, "leave") /\ (Entries(t) = <<>> \/ moving)
  /\ lost' = TRUE /\ raced' = (raced \/ moving)
  /\ UNCHANGED <<threads, exposed, stale>> /\ Unhooking

(* ... and after it, back to where the popped entry says.                  *)
PostDone(t) ==
  /\ In(t, "post")
  /\ IF ~Head(stack[t]).diverted THEN Goto(t, "body") /\ UNCHANGED lost
     ELSE IF Head(stack[t]).popped = Len(stack[t]) THEN Replace(t, <<>>) /\ UNCHANGED lost
     ELSE lost' = TRUE /\ UNCHANGED stack
  /\ UNCHANGED <<callstack, calls, exposed, raced, stale>> /\ Unhooking
-------------------------------------------------------------------------------
Hooker ==
  \/ \E f \in Functions, y \in Types : Hook(f, y)
  \/ \E f \in Functions : EnableHook(f) \/ DisableHook(f)
  \/ MoveKeys \/ NewKey \/ BuildHook \/ Enable \/ Patch \/ Restore

Run(t) ==
  \/ Execute(t) \/ Redirect(t) \/ Astray(t) \/ StaleSlice(t) \/ Begin(t) \/ BeginRaced(t) \/ PreDone(t)
  \/ StubDone(t) \/ Return(t) \/ End(t) \/ EndAstray(t) \/ PostDone(t)

Next ==
  \/ Hooker
  \/ \E t \in Threads : Run(t) \/ CallOrigin(t) \/ \E f \in Functions : Call(t, f)

Spec == Init /\ [][Next]_vars
-------------------------------------------------------------------------------
TypeOK ==
  /\ type \in [Functions -> Types \cup {"none"}]
  /\ enabled \subseteq Functions /\ origin \subseteq Functions
  /\ written \subseteq Functions \X {1, 2}
  /\ word \in [Functions -> {Original, Jumped, <<"jump", "orig">>, <<"orig", "jump">>}]
  /\ keys \in 0 .. cap /\ moving \in BOOLEAN
  /\ lost \in BOOLEAN /\ exposed \in BOOLEAN /\ raced \in BOOLEAN /\ stale \subseteq Threads

(* Between API calls isEnabled says what the code of the function says,    *)
(* whatever hooks were refused, repeated or disabled in between.           *)
EnabledMeansPatched ==
  op = Idle => \A f \in Functions : word[f] = IF f \in enabled THEN Jumped ELSE Original

(* A replacement never runs before the caller of ZzHook can be given the   *)
(* original, which hook_lwp of the adbi hook does not manage.              *)
OriginReady ==
  \A t \in Threads : \A i \in DOMAIN stack[t] :
    stack[t][i].at = "replacement" => stack[t][i].fn \in origin

(* The call stack of a hook and thread holds exactly the calls in between  *)
(* its two thunks, innermost first, however they nest and whatever hooks   *)
(* are disabled under way; so each returns to its own caller.              *)
Between(fr) == fr.at = "pre" \/ fr.at = "leave" \/ (fr.diverted /\ fr.at # "post")
DepthOf(t, i) == Len(stack[t]) + 1 - i
StacksMatch ==
  ~raced => \A t \in Threads, f \in Functions :
    LET inside == {DepthOf(t, i) : i \in
                     {j \in DOMAIN stack[t] : stack[t][j].fn = f /\ Between(stack[t][j])}}
        s == callstack[f][t]
    IN /\ {s[i] : i \in DOMAIN s} = inside
       /\ \A i, j \in DOMAIN s : i < j => s[i] > s[j]

(* Only a thread in the words of a function while it is patched, one that  *)
(* looks for its stack while the key list moves, or one that meets a cache *)
(* nobody flushed goes astray: the thunks' stacks never lead a call to the *)
(* wrong place by themselves.                                              *)
SafeUnlessRaced == lost => exposed \/ raced \/ stale # {}
===============================================================================
