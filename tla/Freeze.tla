-------------------------------- MODULE Freeze --------------------------------
(***************************************************************************)
(* freeze and unFreeze of inlineHook.c: the calling thread forks a helper  *)
(* process, which attaches to the other threads with ptrace, waits until   *)
(* each has stopped, moves its pc and stops itself; the caller changes the *)
(* code, continues the helper, which detaches and kills itself, and reaps  *)
(* it with wait(NULL).                                                     *)
(*                                                                         *)
(* Every process and thread takes its own steps here; what moving a pc     *)
(* means is the subject of HookThreads.  Threads may start meanwhile, attaching  *)
(* to one may fail (it has ended, say), and the helper may be killed; what *)
(* the kernel does of ptrace, wait and signals is external.                *)
(***************************************************************************)
EXTENDS FiniteSets, Naturals

CONSTANTS
  Tids,      \* threads of the process
  Late,      \* those of them that have not started at first
  Main,      \* the one whose tid is getpid()
  Helpers,   \* helpers fork can create: bounds the number of freezes
  Others,    \* child processes of the application itself
  Ops,       \* engine calls considered: "hookAll", "unHook"
  NULL

ASSUME FreezeAssumption ==
  /\ Main \in Tids
  /\ Late \subseteq Tids \ {Main}
  /\ Helpers \cap Others = {}
  /\ NULL \notin Tids \cup Helpers \cup Others
  /\ Ops \subseteq {"hookAll", "unHook"}

VARIABLES
  caller,   \* the engine call: its position, thread, operation and helper
  helper,   \* position of every helper in freeze
  todo,     \* tids the helper's current loop has still to visit
  tracer,   \* helper attached to each thread, or NULL
  run,      \* "running", "stopping" (SIGSTOP under way), "stopped"; "unborn"
  heap,     \* thread that holds the allocator's lock, or NULL
  child,    \* state of the application's own children
  waits,    \* the kernel's waitpid waits for a traced thread without __WALL (4.7)
  halted,   \* a SIGSTOP no tracer took has stopped the whole process
  killed,   \* the system has killed a helper
  stolen    \* some wait(NULL) has reaped a child that was not the helper

vars == <<caller, helper, todo, tracer, run, heap, child, waits, halted, killed, stolen>>

(* The engine call; missed are the threads its helper has not got because  *)
(* they started after getAllTids or because PTRACE_ATTACH failed.          *)
Idle == [pc |-> "idle", tid |-> NULL, op |-> "none", helper |-> NULL, missed |-> {}]

Present == {x \in Tids : run[x] # "unborn"}
Listed == Present \ {Main}         \* getAllTids
Held(h) == {x \in Tids : tracer[x] = h}

Init ==
  /\ caller = Idle
  /\ helper = [h \in Helpers |-> "unborn"]
  /\ todo = [h \in Helpers |-> {}]
  /\ tracer = [x \in Tids |-> NULL]
  /\ run = [x \in Tids |-> IF x \in Late THEN "unborn" ELSE "running"]
  /\ heap = NULL
  /\ child = [o \in Others |-> "alive"]
  /\ waits \in BOOLEAN /\ halted = FALSE /\ killed = FALSE /\ stolen = FALSE

-----------------------------------------------------------------------------
(* The calling thread, when it is not stopped itself.  One thread at a     *)
(* time calls the engine, any thread may.                                  *)
Runs(x) == ~halted /\ run[x] \in {"running", "stopping"}
Calls(x) == caller.pc = "idle" /\ Runs(x) /\ heap # x
At(pc) == caller.pc = pc /\ Runs(caller.tid)
Goto(pc) == caller' = [caller EXCEPT !.pc = pc]
Kernel == UNCHANGED <<waits, halted, killed>>

(* freeze: fork, or go on without a helper when fork fails or no thread    *)
(* but the main one exists.                                                *)
Fork(x, op, h) ==
  /\ Calls(x) /\ Listed # {}
  /\ helper[h] = "unborn"
  /\ helper' = [helper EXCEPT ![h] = "attach"]
  /\ todo' = [todo EXCEPT ![h] = Listed]
  /\ caller' = [pc |-> "waitStop", tid |-> x, op |-> op, helper |-> h, missed |-> {}]
  /\ Kernel /\ UNCHANGED <<tracer, run, heap, child, stolen>>

NoFork(x, op) ==
  /\ Calls(x)
  /\ caller' = [pc |-> "patch", tid |-> x, op |-> op, helper |-> NULL, missed |-> {}]
  /\ Kernel /\ UNCHANGED <<helper, todo, tracer, run, heap, child, stolen>>

(* Mutant: waitpid repeated until the status is WIFSTOPPED.                *)
HelperStoppedOnly ==
  /\ At("waitStop")
  /\ helper[caller.helper] = "stopped"
  /\ Goto("patch")
  /\ Kernel /\ UNCHANGED <<helper, todo, tracer, run, heap, child, stolen>>

(* waitpid(pid, NULL, WUNTRACED) returns when the helper stopped or died;  *)
(* its status is not looked at.                                            *)
HelperStopped ==
  /\ At("waitStop")
  /\ helper[caller.helper] \in {"stopped", "zombie"}
  /\ helper' = [helper EXCEPT ![caller.helper] = IF @ = "zombie" THEN "reaped" ELSE @]
  /\ Goto("patch")
  /\ Kernel /\ UNCHANGED <<todo, tracer, run, heap, child, stolen>>

(* doInlineHook, or doInlineUnHook with its call of free().                *)
Patch ==
  /\ At("patch")
  /\ caller.op = "unHook" => heap = NULL
  /\ caller' = IF caller.helper = NULL THEN Idle
                ELSE [caller EXCEPT !.pc = "resume", !.missed = {}]
  /\ Kernel /\ UNCHANGED <<helper, todo, tracer, run, heap, child, stolen>>

(* Mutant: no wait(NULL) after the SIGCONT.                                *)
ResumeOnly ==
  LET h == caller.helper IN
  /\ At("resume")
  /\ helper' = [helper EXCEPT ![h] = IF @ = "stopped" THEN "detach" ELSE @]
  /\ todo' = [todo EXCEPT ![h] = IF helper[h] = "stopped" THEN Held(h) ELSE @]
  /\ caller' = Idle
  /\ Kernel /\ UNCHANGED <<tracer, run, heap, child, stolen>>

(* Mutant: the SIGCONT goes to the process itself.                         *)
ResumeSelf ==
  /\ At("resume") /\ Goto("wait")
  /\ Kernel /\ UNCHANGED <<helper, todo, tracer, run, heap, child, stolen>>

(* unFreeze: kill(pid, SIGCONT), which lets the helper go on to the loop   *)
(* of PTRACE_DETACH (it fails for a thread the helper has not got) ...     *)
Resume ==
  /\ At("resume")
  /\ LET h == caller.helper IN
     IF helper[h] = "stopped"
     THEN /\ helper' = [helper EXCEPT ![h] = "detach"]
          /\ todo' = [todo EXCEPT ![h] = Held(h)]
     ELSE UNCHANGED <<helper, todo>>
  /\ Goto("wait")
  /\ Kernel /\ UNCHANGED <<tracer, run, heap, child, stolen>>

(* ... and wait(NULL), which takes any dead child and fails without one.   *)
WaitHelper(h) ==
  /\ At("wait") /\ helper[h] = "zombie"
  /\ helper' = [helper EXCEPT ![h] = "reaped"]
  /\ stolen' = (stolen \/ h # caller.helper)
  /\ caller' = Idle
  /\ Kernel /\ UNCHANGED <<todo, tracer, run, heap, child>>

WaitOther(o) ==
  /\ At("wait") /\ child[o] = "zombie"
  /\ child' = [child EXCEPT ![o] = "reaped"]
  /\ stolen' = TRUE
  /\ caller' = Idle
  /\ Kernel /\ UNCHANGED <<helper, todo, tracer, run, heap>>

WaitFails ==
  /\ At("wait")
  /\ \A h \in Helpers : helper[h] \in {"unborn", "reaped"}
  /\ \A o \in Others : child[o] = "reaped"
  /\ caller' = Idle
  /\ Kernel /\ UNCHANGED <<helper, todo, tracer, run, heap, child, stolen>>

CallerStep ==
  \/ HelperStopped \/ Patch \/ Resume \/ WaitFails
  \/ (\E h \in Helpers : WaitHelper(h)) \/ (\E o \in Others : WaitOther(o))

-----------------------------------------------------------------------------
(* The helper.  PTRACE_ATTACH sends SIGSTOP; it fails for a thread another *)
(* helper still holds, for one that has ended, or at the kernel's word.     *)
Attach(h, x) ==
  /\ helper[h] = "attach" /\ x \in todo[h]
  /\ tracer[x] = NULL /\ x \in Present
  /\ tracer' = [tracer EXCEPT ![x] = h]
  /\ run' = [run EXCEPT ![x] = "stopping"]
  /\ helper' = [helper EXCEPT ![h] = "waitTid"]
  /\ todo' = [todo EXCEPT ![h] = @ \ {x}]
  /\ Kernel /\ UNCHANGED <<caller, heap, child, stolen>>

AttachFails(h, x) ==
  /\ helper[h] = "attach" /\ x \in todo[h]
  /\ todo' = [todo EXCEPT ![h] = @ \ {x}]
  /\ caller' = IF h = caller.helper /\ tracer[x] = NULL
                THEN [caller EXCEPT !.missed = @ \cup {x}] ELSE caller
  /\ Kernel /\ UNCHANGED <<helper, tracer, run, heap, child, stolen>>

(* Mutant: no waitpid(tid).                                                *)
ThreadPCAtOnce(h) ==
  /\ helper[h] = "waitTid"
  /\ helper' = [helper EXCEPT ![h] = "attach"]
  /\ Kernel /\ UNCHANGED <<caller, todo, tracer, run, heap, child, stolen>>

(* waitpid(tid, NULL, WUNTRACED) and processThreadPC.  Kernels before 4.7  *)
(* find no child to wait for: the tid is a clone and __WALL is not given.  *)
(* waitpid then returns at once, and the thread stops some time later.     *)
ThreadPC(h) ==
  /\ helper[h] = "waitTid"
  /\ waits => \A x \in Held(h) : run[x] = "stopped"
  /\ helper' = [helper EXCEPT ![h] = "attach"]
  /\ Kernel /\ UNCHANGED <<caller, todo, tracer, run, heap, child, stolen>>

(* raise(SIGSTOP)                                                          *)
StopSelf(h) ==
  /\ helper[h] = "attach" /\ todo[h] = {}
  /\ helper' = [helper EXCEPT ![h] = "stopped"]
  /\ Kernel /\ UNCHANGED <<caller, todo, tracer, run, heap, child, stolen>>

(* PTRACE_DETACH, which fails for a thread that has not stopped yet.       *)
Detach(h, x) ==
  /\ helper[h] = "detach" /\ x \in todo[h]
  /\ IF tracer[x] = h /\ run[x] = "stopped"
     THEN /\ tracer' = [tracer EXCEPT ![x] = NULL]
          /\ run' = [run EXCEPT ![x] = "running"]
     ELSE UNCHANGED <<tracer, run>>
  /\ todo' = [todo EXCEPT ![h] = @ \ {x}]
  /\ Kernel /\ UNCHANGED <<caller, helper, heap, child, stolen>>

(* The end of a helper lets go of what it still holds, without             *)
(* PTRACE_DETACH: a SIGSTOP under way stays so, and the one a thread has   *)
(* stopped for is injected, or lost where waitpid has taken it.            *)
Dies(h) ==
  /\ helper' = [helper EXCEPT ![h] = "zombie"] /\ todo' = [todo EXCEPT ![h] = {}]
  /\ tracer' = [x \in Tids |-> IF x \in Held(h) THEN NULL ELSE tracer[x]]
  /\ \E then \in {"running", "stopping"} :
       run' = [x \in Tids |-> IF x \in Held(h) /\ run[x] = "stopped" THEN then ELSE run[x]]
  /\ UNCHANGED <<caller, heap, child, waits, halted, stolen>>

(* raise(SIGKILL)                                                          *)
KillSelf(h) == helper[h] = "detach" /\ todo[h] = {} /\ Dies(h) /\ UNCHANGED killed

(* The system kills the helper, for instance short of memory.              *)
Killed(h) ==
  /\ helper[h] \in {"attach", "waitTid", "stopped", "detach"}
  /\ Dies(h) /\ killed' = TRUE

HelperStep(h) ==
  \/ \E x \in Tids : Attach(h, x) \/ AttachFails(h, x) \/ Detach(h, x)
  \/ ThreadPC(h) \/ StopSelf(h) \/ KillSelf(h)

-----------------------------------------------------------------------------
(* The other threads and processes.  A SIGSTOP stops the thread for its    *)
(* tracer, and without one every thread of the process.                    *)
Stops(x) ==
  /\ run[x] = "stopping" /\ ~halted
  /\ run' = [run EXCEPT ![x] = "stopped"]
  /\ halted' = (tracer[x] = NULL)
  /\ UNCHANGED <<caller, helper, todo, tracer, heap, child, waits, killed, stolen>>

Starts(x) ==
  /\ run[x] = "unborn" /\ ~halted
  /\ run' = [run EXCEPT ![x] = "running"]
  /\ caller' = IF caller.helper # NULL /\ caller.pc \in {"waitStop", "patch"}
                THEN [caller EXCEPT !.missed = @ \cup {x}] ELSE caller
  /\ Kernel /\ UNCHANGED <<helper, todo, tracer, heap, child, stolen>>

Malloc(x) ==
  /\ Runs(x) /\ heap = NULL
  /\ x # caller.tid
  /\ heap' = x
  /\ Kernel /\ UNCHANGED <<caller, helper, todo, tracer, run, child, stolen>>

MallocReturns(x) ==
  /\ Runs(x) /\ heap = x
  /\ heap' = NULL
  /\ Kernel /\ UNCHANGED <<caller, helper, todo, tracer, run, child, stolen>>

Exits(o) ==
  /\ child[o] = "alive"
  /\ child' = [child EXCEPT ![o] = "zombie"]
  /\ Kernel /\ UNCHANGED <<caller, helper, todo, tracer, run, heap, stolen>>

Next ==
  \/ \E x \in Tids, op \in Ops : NoFork(x, op) \/ \E h \in Helpers : Fork(x, op, h)
  \/ CallerStep
  \/ \E h \in Helpers : HelperStep(h) \/ Killed(h)
  \/ \E x \in Tids : Stops(x) \/ Starts(x) \/ Malloc(x) \/ MallocReturns(x)
  \/ \E o \in Others : Exits(o)

(* Threads and processes that can run do run; whoever holds the allocator  *)
(* gives it back, and a thread that waits for it gets it in the end.  No   *)
(* call has to begin, no thread to start, no child to exit and no helper   *)
(* to be killed.                                                           *)
Spec ==
  /\ Init /\ [][Next]_vars
  /\ WF_vars(CallerStep) /\ SF_vars(Patch)
  /\ \A h \in Helpers : WF_vars(HelperStep(h))
  /\ \A x \in Tids : WF_vars(Stops(x)) /\ WF_vars(MallocReturns(x))

-----------------------------------------------------------------------------
(* Type correctness of the protocol state.                                 *)
TypeOK ==
  /\ caller \in [pc : {"idle", "waitStop", "patch", "resume", "wait"}, tid : Tids \cup {NULL},
                 op : Ops \cup {"none"}, helper : Helpers \cup {NULL}, missed : SUBSET Tids]
  /\ helper \in [Helpers -> {"unborn", "attach", "waitTid", "stopped", "detach",
                             "zombie", "reaped"}]
  /\ todo \in [Helpers -> SUBSET Tids]
  /\ tracer \in [Tids -> Helpers \cup {NULL}]
  /\ run \in [Tids -> {"unborn", "running", "stopping", "stopped"}]
  /\ heap \in Tids \cup {NULL}
  /\ child \in [Others -> {"alive", "zombie", "reaped"}]
  /\ {waits, halted, killed, stolen} \subseteq BOOLEAN

(* While the caller changes code its helper is stopped, not still on the   *)
(* way, or the system has killed it.  Every thread but the main one is     *)
(* then held by that helper, not by an earlier one that may yet let it go, *)
(* and has stopped where waitpid waits, unless it started late or could    *)
(* not be attached to.                                                     *)
PatchWhileHeld ==
  \A h \in Helpers :
    caller.pc = "patch" /\ caller.helper = h /\ ~stolen =>
      \/ helper[h] \in {"zombie", "reaped"} /\ killed
      \/ /\ helper[h] = "stopped"
         /\ \A x \in Listed \ caller.missed : tracer[x] = h /\ (waits => run[x] = "stopped")

(* When the engine call has returned no thread of the process is held, or  *)
(* has a SIGSTOP to come that will stop all of them: wait(NULL) returned   *)
(* for a helper that had let them go.  It needs a waitpid that waits, and  *)
(* that no helper was killed.                                              *)
ReturnMeansRunning ==
  caller.pc = "idle" /\ ~stolen =>
    /\ \A x \in Tids : tracer[x] = NULL
    /\ waits /\ ~killed => ~halted /\ \A x \in Present : run[x] = "running"

(* The ways a call can hang: the helper stopped the caller itself, which   *)
(* is not the main thread; doInlineUnHook needs the allocator's lock from  *)
(* a thread that is frozen; the helper died early and wait(NULL) waits for *)
(* a child of the application; the helper died before it had let go of a   *)
(* thread, whose SIGSTOP then stopped the process.                         *)
CallerFrozen == caller.pc # "idle" /\ caller.tid # Main /\ run[caller.tid] = "stopped"
HeapFrozen ==
  /\ caller.pc = "patch" /\ caller.op = "unHook"
  /\ \E x \in Listed : heap = x /\ run[x] = "stopped"
WaitsForOther ==
  /\ caller.pc = "wait" /\ helper[caller.helper] = "reaped"
  /\ \E o \in Others : child[o] = "alive"
ProcessStopped == halted /\ (killed \/ ~waits)

(* There is no other way: a call that does not return is in one of them.   *)
ReturnsOrHangs ==
  caller.pc # "idle" ~>
    (caller.pc = "idle" \/ CallerFrozen \/ HeapFrozen \/ WaitsForOther \/ ProcessStopped)

(* A thread the helper stopped runs again, also when wait(NULL) reaped     *)
(* another child and the call returned before the helper was done, unless  *)
(* the call is stuck between freeze and unFreeze or the process stopped.   *)
StoppedRunAgain ==
  \A x \in Tids :
    run[x] = "stopped" ~> (run[x] # "stopped" \/ CallerFrozen \/ HeapFrozen \/ ProcessStopped)
=============================================================================
