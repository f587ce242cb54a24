----------------------------- MODULE HookThreads -----------------------------
(***************************************************************************)
(* The threads of the process running through functions while the engine   *)
(* of InlineHook rewrites them, and freeze/unFreeze (inlineHook.c:93-191), *)
(* which stop the threads and move their pc before the code changes.       *)
(*                                                                         *)
(* The engine runs on the main thread, the one getAllTids leaves out; see  *)
(* Freeze for the protocol between it, the forked helper and the others.   *)
(***************************************************************************)
EXTENDS InlineHook

CONSTANTS
  Threads,   \* the other threads of the process
  Wide       \* <<t, k>>: instruction k of t takes several in the trampoline

VARIABLES
  thread,    \* where each thread is about to execute
  torn,      \* target whose bytes are being written, or NULL
  gone,      \* trampoline unmapped while its item is still in the table, or NULL
  freezer,   \* the freeze in progress: its phase and the item it is for
  tids,      \* threads the helper has listed and not handled yet
  stopped,   \* threads the helper holds
  exposed    \* threads the engine has put at risk (listed in README.md)

threadVars == <<thread, torn, gone, freezer, tids, stopped, exposed>>
allVars == <<vars, threadVars>>

Outside == [at |-> "out", fn |-> NULL, k |-> 0, page |-> NULL, off |-> 0, done |-> 0]
Unborn  == [Outside EXCEPT !.at = "unborn"]
Alive == {x \in Threads : thread[x].at \notin {"unborn", "fault"}}

Length(t) == Len(Boundaries[t])
OrigOff(t, k) == Boundaries[t][k][1]
TrampOff(t, k) == Boundaries[t][k][2]
TailOff(t) == TrampOff(t, Length(t)) + 16   \* the jump back; no boundary

TInit ==
  /\ Init
  /\ thread \in [Threads -> {Outside, Unborn}]   \* "unborn" ones start later
  /\ torn = NULL /\ gone = NULL
  /\ freezer = [phase |-> "none", for |-> NULL]
  /\ tids = {}
  /\ stopped = {}
  /\ exposed = {}

-----------------------------------------------------------------------------
(* Threads.  thread[x].done counts the instructions of the patched bytes   *)
(* that x has executed, wherever it executed them.                         *)
Go(x, where) ==
  /\ thread' = [thread EXCEPT ![x] = where]
  /\ UNCHANGED <<vars, torn, gone, freezer, tids, stopped>>

Runs(x, at) == x \notin stopped /\ thread[x].at = at
Keep == UNCHANGED exposed
Expose(x, risky) == exposed' = IF risky THEN exposed \cup {x} ELSE exposed

(* pthread_create by some running thread                                   *)
Spawn(x) ==
  /\ thread[x].at = "unborn"
  /\ Go(x, Outside)
  /\ Keep

Call(x, t) ==
  /\ Runs(x, "out")
  /\ Go(x, [Outside EXCEPT !.at = "fn", !.fn = t, !.k = 1])
  /\ Keep

(* What instruction fetch may see in the patched bytes of t.               *)
Sees(t) ==
  IF torn = t THEN {"orig", "jump"}
  ELSE {code[t]} \cup (IF t \in stale THEN {"jump"} ELSE {})

(* Fetching from bytes that are half written or differ from the cached     *)
(* ones is one of the risks.                                               *)
Risky(t, seen) == torn = t \/ seen # code[t]

FetchOriginal(x) ==
  LET th == thread[x] IN
  /\ Runs(x, "fn") /\ "orig" \in Sees(th.fn)
  /\ Go(x, IF th.k < Length(th.fn)
           THEN [th EXCEPT !.k = @ + 1, !.done = @ + 1]
           ELSE [th EXCEPT !.at = "body", !.done = @ + 1])
  /\ Expose(x, Risky(th.fn, "orig"))

FetchJump(x) ==
  LET th == thread[x] IN
  /\ Runs(x, "fn") /\ th.k = 1 /\ "jump" \in Sees(th.fn)
  /\ Go(x, [th EXCEPT !.at = "new"])
  /\ Expose(x, Risky(th.fn, "jump"))

(* The middle of a jump, or a jump whose address is not written yet.       *)
FetchGarbage(x) ==
  LET th == thread[x] IN
  /\ Runs(x, "fn") /\ "jump" \in Sees(th.fn)
  /\ th.k > 1 \/ torn = th.fn
  /\ Go(x, [th EXCEPT !.at = "fault"])
  /\ Expose(x, Risky(th.fn, "jump"))

(* One instruction of a trampoline.  At an instruction with a wide copy    *)
(* the thread also stops between boundaries, at its offset + 1.            *)
Trampoline(x) ==
  LET th == thread[x]
      owner == {i \in Live : item[i].tramp = th.page /\ item[i].target = th.fn}
      at == {k \in 1..Length(th.fn) : TrampOff(th.fn, k) \in {th.off, th.off - 1}}
      next(k) == IF k < Length(th.fn) THEN TrampOff(th.fn, k + 1) ELSE TailOff(th.fn)
  IN
  /\ Runs(x, "tramp")
  /\ IF owner = {} \/ th.page \notin mapped \/ th.page = gone
     THEN Go(x, [th EXCEPT !.at = "fault"])
     ELSE IF at = {}
     THEN Go(x, [th EXCEPT !.at = "body"])
     ELSE \E k \in at :
            Go(x, IF <<th.fn, k>> \in Wide /\ th.off = TrampOff(th.fn, k)
                  THEN [th EXCEPT !.off = @ + 1]
                  ELSE [th EXCEPT !.off = next(k), !.done = @ + 1])
  /\ Keep

(* A replacement calls the original through its proto variable ...         *)
CallOriginal(x) ==
  LET th == thread[x] IN
  /\ Runs(x, "new") /\ th.fn \in WithProto
  /\ Go(x, IF proto[th.fn] = NULL THEN [th EXCEPT !.at = "fault"]
           ELSE [th EXCEPT !.at = "tramp", !.page = proto[th.fn], !.off = 0])
  /\ Keep

(* ... or returns, as does the function itself.                            *)
Return(x) ==
  /\ Runs(x, "new") \/ Runs(x, "body")
  /\ Go(x, Outside)
  /\ exposed' = exposed \ {x}

ThreadStep(x) ==
  \/ Spawn(x) \/ \E t \in Targets : Call(x, t)
  \/ FetchOriginal(x) \/ FetchJump(x) \/ FetchGarbage(x)
  \/ Trampoline(x) \/ CallOriginal(x) \/ Return(x)

-----------------------------------------------------------------------------
(* freeze                                                                  *)
Calm == freezer.phase = "none" /\ torn = NULL
Freezing(phase) == freezer.phase = phase

Freeze(t) ==
  /\ Calm /\ Ready
  /\ freezer' = [phase |-> "attach", for |-> t]
  /\ tids' = Alive
  /\ UNCHANGED <<vars, thread, torn, gone, stopped, exposed>>

FreezeAll == Freeze(NULL)
FreezeFor(t) == (\E i \in Find(t) : item[i].status = "HOOKED") /\ Freeze(t)

(* Mutant: the offset in the function is used in the trampoline.           *)
EnabledSameOffset(th) ==
  IF th.at # "fn" \/ Find(th.fn) = {} THEN th
  ELSE LET i == CHOOSE j \in Find(th.fn) : \A m \in Find(th.fn) : j <= m
       IN  [th EXCEPT !.at = "tramp", !.k = 0, !.page = item[i].tramp,
                      !.off = OrigOff(th.fn, th.k)]

(* doProcessThreadPC with ACTION_ENABLE, over all items                    *)
Enabled(th) ==
  LET i == CHOOSE j \in Find(th.fn) : \A m \in Find(th.fn) : j <= m
      off == IF th.at = "fn" /\ Find(th.fn) # {}
             THEN Entry(item[i], 0, OrigLen, OrigOff(th.fn, th.k)) ELSE -1
  IN  IF off = -1 THEN th
      ELSE [th EXCEPT !.at = "tramp", !.k = 0, !.page = item[i].tramp, !.off = off]

(* Mutant: the pc is moved although no boundary matched.                   *)
DisabledAnyway(th, t) ==
  LET i == CHOOSE j \in Find(t) : TRUE
  IN  IF th.at # "tramp" \/ th.page # item[i].tramp THEN th
      ELSE [th EXCEPT !.at = "fn", !.fn = t, !.page = NULL, !.k = 1,
                      !.off = Entry(item[i], OrigLen, 0, th.off)]

(* doProcessThreadPC with ACTION_DISABLE, for the item of target t         *)
Disabled(th, t) ==
  LET i == CHOOSE j \in Find(t) : TRUE
      off == IF th.at = "tramp" /\ th.page = item[i].tramp
             THEN Entry(item[i], OrigLen, 0, th.off) ELSE -1
      at == {k \in 1..Length(t) : OrigOff(t, k) = off}
  IN  IF off = -1 THEN th
      ELSE IF at = {} THEN [th EXCEPT !.at = "fault"]
      ELSE [th EXCEPT !.at = "fn", !.fn = t, !.page = NULL, !.off = 0,
                      !.k = CHOOSE k \in at : TRUE]

(* Mutant: PTRACE_SETREGS forgotten.                                       *)
MovedNever(th) == th

Moved(th) == IF freezer.for = NULL THEN Enabled(th) ELSE Disabled(th, freezer.for)

(* Overwritten boundaries move threads anywhere, or not at all.            *)
Unclean(th) ==
  \E i \in Live : ~CleanCount(item[i]) /\ th.fn = item[i].target

(* In the middle of a function that is still patched: moved there for its  *)
(* hook to be taken off.                                                   *)
Astray(th) == th.at = "fn" /\ th.k > 1 /\ code[th.fn] = "jump"

Attach(x) ==
  /\ Freezing("attach") /\ x \in tids
  /\ tids' = tids \ {x}
  /\ stopped' = stopped \cup {x}
  /\ thread' = [thread EXCEPT ![x] = Moved(@)]
  /\ Expose(x, Unclean(thread[x]))
  /\ UNCHANGED <<vars, torn, gone, freezer>>

(* PTRACE_ATTACH fails and the helper goes on without that thread.  One    *)
(* that has not stopped yet when the helper looks at its pc, which can be  *)
(* before Linux 4.7 (Freeze), is no better off: it is not moved either.    *)
AttachFails(x) ==
  /\ Freezing("attach") /\ x \in tids
  /\ tids' = tids \ {x}
  /\ UNCHANGED <<vars, thread, torn, gone, freezer, stopped, exposed>>

Frozen ==
  /\ Freezing("attach") /\ tids = {}
  /\ freezer' = [freezer EXCEPT !.phase = "frozen"]
  /\ UNCHANGED <<vars, thread, torn, gone, tids, stopped, exposed>>

(* The helper is killed and lets go of all it holds; the caller, which     *)
(* does not look at its status, goes on as if it had stopped.              *)
HelperDies ==
  /\ freezer.phase \in {"attach", "frozen"}
  /\ freezer' = [freezer EXCEPT !.phase = "frozen"]
  /\ tids' = {} /\ stopped' = {}
  /\ exposed' = exposed \cup {x \in stopped : Astray(thread[x])}
  /\ UNCHANGED <<vars, thread, torn, gone>>

UnFreeze ==
  /\ Freezing("done")
  /\ freezer' = [phase |-> "none", for |-> NULL]
  /\ stopped' = {}
  /\ UNCHANGED <<vars, thread, torn, gone, tids, exposed>>

-----------------------------------------------------------------------------
(* The engine among running threads.                                       *)
Becomes(phase) == freezer' = [freezer EXCEPT !.phase = phase]
NoThreadMoves == UNCHANGED <<thread, tids, stopped>>

(* Threads a patch of t catches between two of its instructions: in a      *)
(* freeze those that were missed, started late or were let go too early.   *)
CaughtByPatch(t) ==
  {x \in Alive \ stopped : thread[x].at = "fn" /\ thread[x].fn = t /\ thread[x].k > 1}

(* Threads that lose the trampoline of item i: those in the replacement,   *)
(* those still running in the trampoline, and those stopped off boundary.  *)
CaughtByUnmap(i) ==
  LET t == item[i].target
      onBoundary(x) == \E k \in 1..Length(t) : TrampOff(t, k) = thread[x].off
  IN  {x \in Alive : \/ thread[x].at = "new" /\ thread[x].fn = t
                     \/ /\ thread[x].at = "tramp" /\ thread[x].page = item[i].tramp
                        /\ x \in stopped => ~onBoundary(x)}

(* The table only: registration, loop bookkeeping, the NULL crash.         *)
Bookkeeping ==
  /\ torn = NULL /\ NoThreadMoves /\ UNCHANGED <<torn, gone, exposed>>
  /\ \/ /\ Freezing("none") /\ UNCHANGED freezer
        /\ \/ \E t \in Targets : Register(t) \/ RegisterWhenFull(t) \/ HookStart(t)
           \/ AllStart("unhookAll")
           \/ call.op = "unhookAll" /\ (AllSkip \/ AllReturn)
     \/ /\ Freezing("frozen") /\ freezer.for = NULL
        /\ \/ (AllStart("hookAll") \/ AllSkip) /\ UNCHANGED freezer
           \/ AllReturn /\ Becomes("done")

(* The item whose function the engine writes next: inlineHook, hook() and  *)
(* inlineUnHookAll do so while every thread runs, inlineHookAll and        *)
(* inlineUnHook between freeze and unFreeze.                               *)
Due(i) ==
  \/ /\ Freezing("none")
     /\ \/ call = Idle /\ item[i].status = "REGISTERED"
        \/ call.op = "hook" /\ i = call.cur
        \/ AllVisit("unhookAll", "HOOKED") /\ i = call.cur
  \/ /\ Freezing("frozen")
     /\ IF freezer.for = NULL THEN AllVisit("hookAll", "REGISTERED") /\ i = call.cur
        ELSE i \in Find(freezer.for)

(* The bytes are half written, or not flushed yet ...                      *)
Tear ==
  /\ torn = NULL /\ ~crashed
  /\ \E i \in Live : Due(i) /\ torn' = item[i].target
  /\ NoThreadMoves /\ UNCHANGED <<vars, gone, freezer, exposed>>

(* ... until doInlineHook is done with them, and with *proto_addr.         *)
Complete ==
  /\ torn # NULL /\ gone = NULL
  /\ \/ Freezing("none") /\ (InlineHook(torn) \/ HookFinish)
     \/ Freezing("frozen") /\ HookAllHook
  /\ exposed' = exposed \cup CaughtByPatch(torn)
  /\ torn' = NULL
  /\ NoThreadMoves /\ UNCHANGED <<gone, freezer>>

(* doInlineUnHook unmaps the trampoline, then calls free() ...             *)
Unmap ==
  /\ torn # NULL /\ gone = NULL
  /\ \E i \in Find(torn) :
       /\ item[i].status = "HOOKED"
       /\ gone' = item[i].tramp
       /\ exposed' = exposed \cup CaughtByUnmap(i)
  /\ NoThreadMoves /\ UNCHANGED <<vars, torn, freezer>>

(* ... and, unless a thread that holds the allocator's lock is frozen and  *)
(* free() never returns, deletes the item.                                 *)
Delete ==
  /\ gone # NULL
  /\ \/ Freezing("none") /\ UnHookAllRemove /\ UNCHANGED freezer
     \/ Freezing("frozen") /\ InlineUnHook(freezer.for) /\ Becomes("done")
  /\ torn' = NULL /\ gone' = NULL
  /\ NoThreadMoves /\ UNCHANGED exposed

EngineStep ==
  \/ Bookkeeping \/ Tear \/ Complete \/ Unmap \/ Delete
  \/ FreezeAll \/ (\E t \in Targets : FreezeFor(t))
  \/ Frozen \/ HelperDies \/ UnFreeze

(* A fault of any thread, or of the engine, ends the process.              *)
ProcessAlive == ~crashed /\ \A x \in Threads : thread[x].at # "fault"

TNext ==
  /\ ProcessAlive
  /\ \/ \E x \in Threads : ThreadStep(x) \/ Attach(x) \/ AttachFails(x)
     \/ EngineStep

TSpec == TInit /\ [][TNext]_allVars

-----------------------------------------------------------------------------
(* Type correctness of the thread state.                                   *)
ThreadsTypeOK ==
  /\ thread \in [Threads ->
       [at : {"unborn", "out", "fn", "new", "tramp", "body", "fault"},
        fn : Targets \cup {NULL}, k : Nat, page : Pages \cup {NULL},
        off : Nat, done : Nat]]
  /\ torn \in Targets \cup {NULL} /\ gone \in Pages \cup {NULL}
  /\ freezer \in [phase : {"none", "attach", "frozen", "done"},
                  for : Targets \cup {NULL}]
  /\ tids \subseteq Threads /\ stopped \subseteq Threads /\ exposed \subseteq Threads

(* No thread executes half a patch, a foreign or an unmapped trampoline,   *)
(* unless it is exposed: whoever freeze stopped on a boundary and held     *)
(* until the write was over, and whoever enters a function after the call  *)
(* that hooked it returned, is safe.                                       *)
SafeUnlessExposed ==
  \A x \in Threads : thread[x].at = "fault" => x \in exposed

(* Being moved between a function and its trampoline neither skips nor     *)
(* repeats an instruction: what a thread is about to execute is the one    *)
(* after those it has executed.                                            *)
NothingSkipped ==
  \A x \in Alive \ exposed :
    LET th == thread[x] IN
    /\ th.at = "fn" => th.done = th.k - 1
    /\ th.at = "tramp" =>
         \A k \in 1..Length(th.fn) : TrampOff(th.fn, k) = th.off => th.done = k - 1
    /\ th.at = "body" => th.done = Length(th.fn)
=============================================================================
