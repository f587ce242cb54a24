------------------------------- MODULE AppGlue -------------------------------
(***************************************************************************)
(* android_native_app_glue.c with its client esUtil_Android.c (gothook and *)
(* inject carry identical copies): the UI thread runs the callbacks of     *)
(* ANativeActivity, writes one-byte commands into a pipe and waits on a    *)
(* condition variable until the application thread has carried them out;   *)
(* the application thread polls the pipe, handles commands and draws.      *)
(***************************************************************************)
EXTENDS Naturals, Sequences

CONSTANTS
  Windows, Queues,   \* native windows and input queues of the framework
  PipeCap,           \* commands the pipe holds (65536)
  MaxNudges,         \* bound of the model on unread commands nobody waits for
  NULL

ASSUME GlueAssumption ==
  /\ PipeCap \in Nat \ {0} /\ MaxNudges \in 0..PipeCap
  /\ NULL \notin Windows \cup Queues \cup {"ui", "old", "new"}

VARIABLES
  glue,   \* struct android_app
  es,     \* ESContext: its window and whether esMain registered callbacks
  pipe,   \* commands written and not read
  mutex,  \* thread that holds android_app.mutex, or NULL
  ui,     \* the callback the UI thread is in
  app,    \* what the application thread is at
  sys,    \* the framework: activity instance, lifecycle, what it has lent
  proc    \* "alive", "exited" or "crashed"

vars == <<glue, es, pipe, mutex, ui, app, sys, proc>>

States == {"START", "RESUME", "PAUSE", "STOP"}
Commands == States \cup {"INPUT", "INIT", "TERM", "SAVE", "NUDGE", "DESTROY"}

UIIdle == [cb |-> "none", arg |-> NULL, pc |-> "idle", out |-> <<>>]
NoContext == [window |-> NULL, draws |-> FALSE]

(* memset(android_app, 0, ...): activityState 0 is APP_CMD_INPUT_CHANGED.  *)
NewGlue(saved) ==
  [running |-> FALSE, window |-> NULL, pendingWindow |-> NULL,
   inputQueue |-> NULL, pendingInputQueue |-> NULL, activityState |-> "INPUT",
   saved |-> saved, stateSaved |-> FALSE,
   destroyRequested |-> FALSE, destroyed |-> FALSE]

Init ==
  /\ glue = NewGlue(NULL)
  /\ es = NoContext
  /\ pipe = <<>>
  /\ mutex = NULL
  /\ ui = UIIdle
  /\ app = [pc |-> "unborn", cmd |-> "NUDGE"]
  /\ sys = [instance |-> "none", life |-> "none", window |-> NULL, queue |-> NULL]
  /\ proc = "alive"

-----------------------------------------------------------------------------
(* The framework enters a callback.                                        *)
Idle == ui.pc = "idle" /\ proc = "alive"
Alive == Idle /\ sys.instance = "app"
Begin(cb, arg) == ui' = [cb |-> cb, arg |-> arg, pc |-> "lock", out |-> <<>>]
Unchanged == UNCHANGED <<glue, es, pipe, mutex, app, proc>>

(* ANativeActivity_onCreate, android_app_create; neither the failure of    *)
(* pipe reaches the framework nor that of pthread_create the wait below.   *)
Create(saved, outcome) ==
  /\ Idle /\ sys.instance = "none"
  /\ glue' = NewGlue(saved)
  /\ IF outcome = "noPipe"
     THEN /\ sys' = [sys EXCEPT !.instance = "null", !.life = "CREATE"]
          /\ UNCHANGED <<ui, app>>
     ELSE /\ sys' = [sys EXCEPT !.instance = "app", !.life = "CREATE"]
          /\ Begin("create", NULL)
          /\ app' = [app EXCEPT !.pc = IF outcome = "ok" THEN "entry" ELSE @]
  /\ UNCHANGED <<es, pipe, mutex, proc>>

(* Any callback of an activity whose instance is NULL.                     *)
NullInstance ==
  /\ Idle /\ sys.instance = "null"
  /\ proc' = "crashed"
  /\ UNCHANGED <<glue, es, pipe, mutex, ui, app, sys>>

(* Activity lifecycle of the framework.                                    *)
Follows(state) ==
  CASE state = "START"  -> {"CREATE", "STOP"}
    [] state = "RESUME" -> {"START", "PAUSE"}
    [] state = "PAUSE"  -> {"RESUME"}
    [] state = "STOP"   -> {"START", "PAUSE"}

OnState(state) ==
  /\ Alive /\ sys.life \in Follows(state)
  /\ Begin("state", state)
  /\ sys' = [sys EXCEPT !.life = state]
  /\ Unchanged

OnSaveInstanceState ==
  /\ Alive /\ sys.life \in {"PAUSE", "STOP"}
  /\ Begin("save", NULL)
  /\ UNCHANGED sys /\ Unchanged

OnNativeWindowCreated(w) ==
  /\ Alive /\ sys.window = NULL
  /\ Begin("window", w)
  /\ sys' = [sys EXCEPT !.window = w]
  /\ Unchanged

OnNativeWindowDestroyed ==
  Alive /\ sys.window # NULL /\ Begin("window", NULL) /\ UNCHANGED sys /\ Unchanged

OnInputQueueCreated(q) ==
  /\ Alive /\ sys.queue = NULL
  /\ Begin("input", q)
  /\ sys' = [sys EXCEPT !.queue = q]
  /\ Unchanged

OnInputQueueDestroyed ==
  Alive /\ sys.queue # NULL /\ Begin("input", NULL) /\ UNCHANGED sys /\ Unchanged

(* NativeActivity takes window and queue back before it destroys.          *)
OnDestroy ==
  /\ Alive /\ sys.life \in {"CREATE", "STOP"}
  /\ sys.window = NULL /\ sys.queue = NULL
  /\ Begin("destroy", NULL)
  /\ UNCHANGED sys /\ Unchanged

(* onConfigurationChanged, onLowMemory, onWindowFocusChanged: one command  *)
(* written without the mutex, and no wait.                                 *)
Nudge ==
  /\ Alive
  /\ Len(SelectSeq(pipe, LAMBDA c : c = "NUDGE")) < MaxNudges /\ Len(pipe) < PipeCap
  /\ pipe' = Append(pipe, "NUDGE")
  /\ UNCHANGED <<glue, es, mutex, ui, app, sys, proc>>

Framework ==
  \/ \E saved \in {NULL, "old"}, outcome \in {"ok", "noPipe", "noThread"} :
       Create(saved, outcome)
  \/ NullInstance \/ OnSaveInstanceState \/ OnDestroy \/ Nudge
  \/ OnNativeWindowDestroyed \/ OnInputQueueDestroyed
  \/ \E state \in States : OnState(state)
  \/ \E w \in Windows : OnNativeWindowCreated(w)
  \/ \E q \in Queues : OnInputQueueCreated(q)

-----------------------------------------------------------------------------
(* The UI thread inside a callback.                                        *)
UIAt(pc) == proc = "alive" /\ ui.pc = pc
Free == mutex = NULL

(* pthread_mutex_lock and the assignments up to the wait; the commands to  *)
(* write are decided by the fields found under the lock.                   *)
UILock ==
  /\ UIAt("lock") /\ Free
  /\ mutex' = "ui"
  /\ glue' = CASE ui.cb = "input"  -> [glue EXCEPT !.pendingInputQueue = ui.arg]
               [] ui.cb = "window" -> [glue EXCEPT !.pendingWindow = ui.arg]
               [] ui.cb = "save"   -> [glue EXCEPT !.stateSaved = FALSE]
               [] OTHER -> glue
  /\ ui' = [ui EXCEPT !.pc = "write", !.out =
              CASE ui.cb = "create" -> <<>>
                [] ui.cb = "input" -> <<"INPUT">>
                [] ui.cb = "window" ->
                     (IF glue.pendingWindow # NULL THEN <<"TERM">> ELSE <<>>)
                       \o (IF ui.arg # NULL THEN <<"INIT">> ELSE <<>>)
                [] ui.cb = "state" -> <<ui.arg>>
                [] ui.cb = "save" -> <<"SAVE">>
                [] ui.cb = "destroy" -> <<"DESTROY">>]
  /\ UNCHANGED <<es, pipe, app, sys, proc>>

(* android_app_write_cmd, which blocks while the pipe is full.             *)
UIWrite ==
  /\ UIAt("write") /\ ui.out # <<>> /\ Len(pipe) < PipeCap
  /\ pipe' = Append(pipe, Head(ui.out))
  /\ ui' = [ui EXCEPT !.out = Tail(@)]
  /\ UNCHANGED <<glue, es, mutex, app, sys, proc>>

(* Mutant: android_app_free waits for destroyRequested.                    *)
DoneOnRequest ==
  CASE ui.cb = "create"  -> glue.running
    [] ui.cb = "input"   -> glue.inputQueue = glue.pendingInputQueue
    [] ui.cb = "window"  -> glue.window = glue.pendingWindow
    [] ui.cb = "state"   -> glue.activityState = ui.arg
    [] ui.cb = "save"    -> glue.stateSaved
    [] ui.cb = "destroy" -> glue.destroyRequested

(* The condition each callback waits for.                                  *)
Done ==
  CASE ui.cb = "create"  -> glue.running
    [] ui.cb = "input"   -> glue.inputQueue = glue.pendingInputQueue
    [] ui.cb = "window"  -> glue.window = glue.pendingWindow
    [] ui.cb = "state"   -> glue.activityState = ui.arg
    [] ui.cb = "save"    -> glue.stateSaved
    [] ui.cb = "destroy" -> glue.destroyed

(* The loop test succeeds: take the saved state, free the structure, or    *)
(* just unlock and return; the framework now has its window or queue back. *)
UIReturn ==
  /\ UIAt("write") /\ ui.out = <<>> /\ Done
  /\ mutex' = NULL
  /\ ui' = UIIdle
  /\ glue' = IF ui.cb = "save" THEN [glue EXCEPT !.saved = NULL] ELSE glue
  /\ sys' = CASE ui.cb = "window" -> [sys EXCEPT !.window = ui.arg]
              [] ui.cb = "input"  -> [sys EXCEPT !.queue = ui.arg]
              [] ui.cb = "destroy" -> [sys EXCEPT !.instance = "freed"]
              [] OTHER -> sys
  /\ UNCHANGED <<es, pipe, app, proc>>

(* It fails, and pthread_cond_wait unlocks and sleeps in one step.         *)
UITestFails ==
  /\ UIAt("write") /\ ui.out = <<>> /\ ~Done
  /\ ui' = [ui EXCEPT !.pc = "wait"]
  /\ UNCHANGED <<glue, es, pipe, mutex, app, sys, proc>>

UISleep ==
  /\ UIAt("wait")
  /\ ui' = [ui EXCEPT !.pc = "asleep"]
  /\ mutex' = NULL
  /\ UNCHANGED <<glue, es, pipe, app, sys, proc>>

(* Mutant: "if" instead of "while" around pthread_cond_wait.               *)
UIWakeReturns ==
  /\ UIAt("woken") /\ Free
  /\ ui' = UIIdle
  /\ sys' = CASE ui.cb = "window" -> [sys EXCEPT !.window = ui.arg]
              [] ui.cb = "input"  -> [sys EXCEPT !.queue = ui.arg]
              [] ui.cb = "destroy" -> [sys EXCEPT !.instance = "freed"]
              [] OTHER -> sys
  /\ UNCHANGED <<glue, es, pipe, mutex, app, proc>>

UIWake ==
  /\ UIAt("woken") /\ Free
  /\ ui' = [ui EXCEPT !.pc = "write"]
  /\ mutex' = "ui"
  /\ UNCHANGED <<glue, es, pipe, app, sys, proc>>

UIStep == UILock \/ UIWrite \/ UIReturn \/ UITestFails \/ UISleep \/ UIWake

-----------------------------------------------------------------------------
(* The application thread.  Its critical sections do not block, so each is *)
(* one step.                                                               *)
AppAt(pc) == proc = "alive" /\ app.pc = pc
Goto(pc) == app' = [app EXCEPT !.pc = pc]

Broadcast == ui' = IF ui.pc = "asleep" THEN [ui EXCEPT !.pc = "woken"] ELSE ui

AppEntry ==
  /\ AppAt("entry") /\ Free
  /\ glue' = [glue EXCEPT !.running = TRUE]
  /\ Broadcast
  /\ Goto("poll")
  /\ UNCHANGED <<es, pipe, mutex, sys, proc>>

(* Mutant: the command source is processed although nothing is ready.      *)
ReadCmdUnready ==
  /\ AppAt("poll")
  /\ pipe' = IF pipe = <<>> THEN pipe ELSE Tail(pipe)
  /\ app' = [pc |-> "pre", cmd |-> IF pipe = <<>> THEN "-1" ELSE Head(pipe)]
  /\ UNCHANGED <<glue, es, mutex, ui, sys, proc>>

(* ALooper_pollAll reports the pipe; android_app_read_cmd.                 *)
ReadCmd ==
  /\ AppAt("poll") /\ pipe # <<>>
  /\ pipe' = Tail(pipe)
  /\ app' = [pc |-> IF Head(pipe) = "SAVE" THEN "readSave" ELSE "pre", cmd |-> Head(pipe)]
  /\ UNCHANGED <<glue, es, mutex, ui, sys, proc>>

FreeSavedState == Free /\ glue' = [glue EXCEPT !.saved = NULL]

(* Mutant: no free_saved_state before SAVE_STATE is handled.               *)
ReadSaveKeeps ==
  /\ AppAt("readSave")
  /\ Goto("pre")
  /\ UNCHANGED <<glue, es, pipe, mutex, ui, sys, proc>>

ReadSave ==
  /\ AppAt("readSave")
  /\ FreeSavedState
  /\ Goto("pre")
  /\ UNCHANGED <<es, pipe, mutex, ui, sys, proc>>

(* android_app_pre_exec_cmd                                                *)
PreUnder(cmds) == AppAt("pre") /\ app.cmd \in cmds /\ Goto("handle")
PreRest == UNCHANGED <<es, pipe, mutex, sys, proc>>

PreLocked ==
  /\ PreUnder({"INPUT", "INIT"} \cup States) /\ Free
  /\ glue' = CASE app.cmd = "INPUT" -> [glue EXCEPT !.inputQueue = glue.pendingInputQueue]
               [] app.cmd = "INIT"  -> [glue EXCEPT !.window = glue.pendingWindow]
               [] OTHER -> [glue EXCEPT !.activityState = app.cmd]
  /\ Broadcast /\ PreRest

PreTerm == PreUnder({"TERM"}) /\ Broadcast /\ UNCHANGED glue /\ PreRest

PreOther ==
  /\ PreUnder({"SAVE", "NUDGE", "DESTROY"})
  /\ glue' = [glue EXCEPT !.destroyRequested = @ \/ app.cmd = "DESTROY"]
  /\ UNCHANGED ui /\ PreRest

(* Mutant: no memset of the context at TERM_WINDOW.                        *)
HandleKeepsContext ==
  /\ AppAt("handle")
  /\ Goto("post")
  /\ es' = IF app.cmd = "INIT" THEN [window |-> glue.window, draws |-> TRUE] ELSE es
  /\ UNCHANGED <<glue, pipe, mutex, ui, sys, proc>>

(* onAppCmd: HandleCommand of esUtil_Android.c.  At SAVE_STATE it stores   *)
(* nothing; another client of the glue may (header, lines 118-121).        *)
Handle ==
  /\ AppAt("handle")
  /\ Goto("post")
  /\ es' = CASE app.cmd = "INIT" -> [window |-> glue.window, draws |-> TRUE]
             [] app.cmd = "TERM" -> NoContext
             [] OTHER -> es
  /\ \/ UNCHANGED glue
     \/ app.cmd = "SAVE" /\ glue' = [glue EXCEPT !.saved = "new"]
  /\ UNCHANGED <<pipe, mutex, ui, sys, proc>>

(* A failing esMain ends the process.                                      *)
EsMainFails ==
  /\ AppAt("handle") /\ app.cmd = "INIT"
  /\ proc' = "exited"
  /\ UNCHANGED <<glue, es, pipe, mutex, ui, app, sys>>

(* android_app_post_exec_cmd, and the test of destroyRequested after it    *)
Processed == Goto(IF glue.destroyRequested THEN "leave" ELSE "poll")
PostUnder(cmds) == AppAt("post") /\ app.cmd \in cmds /\ Processed

(* Mutant: the mutex is not taken for these two.                           *)
PostUnlocked ==
  /\ PostUnder({"TERM", "SAVE"})
  /\ glue' = IF app.cmd = "TERM" THEN [glue EXCEPT !.window = NULL]
                                 ELSE [glue EXCEPT !.stateSaved = TRUE]
  /\ Broadcast
  /\ UNCHANGED <<es, pipe, mutex, sys, proc>>

PostLocked ==
  /\ PostUnder({"TERM", "SAVE"}) /\ Free
  /\ glue' = IF app.cmd = "TERM" THEN [glue EXCEPT !.window = NULL]
                                 ELSE [glue EXCEPT !.stateSaved = TRUE]
  /\ Broadcast
  /\ UNCHANGED <<es, pipe, mutex, sys, proc>>

(* Mutant: the saved state is freed at START already.                      *)
PostStart ==
  /\ PostUnder({"START", "RESUME"}) /\ FreeSavedState
  /\ UNCHANGED <<es, pipe, mutex, ui, sys, proc>>

PostResume ==
  PostUnder({"RESUME"}) /\ FreeSavedState /\ UNCHANGED <<es, pipe, mutex, ui, sys, proc>>

PostOther ==
  /\ PostUnder(Commands \ {"TERM", "SAVE", "RESUME"})
  /\ UNCHANGED <<glue, es, pipe, mutex, ui, sys, proc>>

(* No command is ready: updateFunc, drawFunc, eglSwapBuffers.              *)
Draw ==
  /\ AppAt("poll") /\ pipe = <<>> /\ es.window # NULL /\ es.draws
  /\ Goto("draw")
  /\ UNCHANGED <<glue, es, pipe, mutex, ui, sys, proc>>

Drawn == AppAt("draw") /\ Goto("poll") /\ UNCHANGED <<glue, es, pipe, mutex, ui, sys, proc>>

(* android_app_destroy: the saved state first, then the rest.              *)
Leave ==
  AppAt("leave") /\ FreeSavedState /\ Goto("destroy") /\ UNCHANGED <<es, pipe, mutex, ui, sys, proc>>

Destroy ==
  /\ AppAt("destroy") /\ Free
  /\ glue' = [glue EXCEPT !.destroyed = TRUE]
  /\ Broadcast
  /\ Goto("done")
  /\ UNCHANGED <<es, pipe, mutex, sys, proc>>

AppStep ==
  \/ AppEntry \/ ReadCmd \/ ReadSave \/ PreLocked \/ PreTerm \/ PreOther
  \/ Handle \/ EsMainFails \/ PostLocked \/ PostResume \/ PostOther
  \/ Draw \/ Drawn \/ Leave \/ Destroy

Next == Framework \/ UIStep \/ AppStep

Spec == Init /\ [][Next]_vars

(* Both threads run; whether the framework makes another callback, and     *)
(* whether a frame is drawn, is up to them.                                *)
FairSpec == Spec /\ WF_vars(UIStep) /\ WF_vars(AppStep)

-----------------------------------------------------------------------------
(* Type correctness of glue, client, pipe and both threads.                *)
TypeOK ==
  /\ glue \in [running : BOOLEAN, window : Windows \cup {NULL},
               pendingWindow : Windows \cup {NULL}, inputQueue : Queues \cup {NULL},
               pendingInputQueue : Queues \cup {NULL},
               activityState : States \cup {"INPUT"}, saved : {NULL, "old", "new"},
               stateSaved : BOOLEAN, destroyRequested : BOOLEAN, destroyed : BOOLEAN]
  /\ es \in [window : Windows \cup {NULL}, draws : BOOLEAN]
  /\ pipe \in Seq(Commands) /\ Len(pipe) <= PipeCap
  /\ mutex \in {NULL, "ui"}
  /\ ui \in [cb : {"none", "create", "input", "window", "state", "save", "destroy"},
             arg : Windows \cup Queues \cup States \cup {NULL},
             pc : {"idle", "lock", "write", "wait", "asleep", "woken"},
             out : Seq(Commands)]
  /\ app \in [pc : {"unborn", "entry", "poll", "readSave", "pre", "handle", "post",
                    "draw", "leave", "destroy", "done"}, cmd : Commands]
  /\ sys \in [instance : {"none", "null", "app", "freed"},
              life : States \cup {"none", "CREATE"},
              window : Windows \cup {NULL}, queue : Queues \cup {NULL}]
  /\ proc \in {"alive", "exited", "crashed"}

(* Whenever the application looks at a window it is the one on loan: in a  *)
(* handler of INIT_WINDOW the new one, in one of TERM_WINDOW still the old *)
(* one (the header's lines 207-216), and while it draws, without the       *)
(* mutex, on the copy of the pointer that ESContext keeps.                 *)
UsesLentWindow ==
  /\ app.pc = "handle" /\ app.cmd \in {"INIT", "TERM"} =>
       glue.window # NULL /\ glue.window = sys.window
  /\ es.window # NULL => es.window = glue.window
  /\ app.pc = "draw" => es.window = sys.window /\ sys.window # NULL

(* The structure is freed only after the application thread's last use of  *)
(* it, every command in the pipe read and the saved state released.        *)
FreedLast ==
  sys.instance = "freed" =>
    app.pc = "done" /\ pipe = <<>> /\ glue.saved = NULL /\ mutex = NULL

(* onSaveInstanceState returns what a handler stored, or NULL; never the   *)
(* state of an earlier instance, which android_app_read_cmd frees and the  *)
(* application may never have looked at.                                   *)
SaveReturnsFresh ==
  [][ui.cb = "save" /\ ui'.pc = "idle" => glue.saved # "old"]_vars

(* The state of an earlier instance stays readable until RESUME has been   *)
(* handled, SAVE_STATE asks for a new one, or the application leaves (the  *)
(* header's lines 114-121).                                                *)
OldStateUntilResume ==
  [][glue.saved = "old" /\ glue'.saved # "old" =>
       \/ app.pc = "post" /\ app.cmd = "RESUME"
       \/ app.pc = "readSave"
       \/ app.pc = "leave"]_vars

(* Every callback returns, unless the process ends, pthread_create failed  *)
(* (android_app_create does not look), or the UI thread blocks in write    *)
(* with the mutex held, which the application thread needs before it reads *)
(* the pipe again.                                                         *)
NoThread == ui.cb = "create" /\ app.pc = "unborn"
NeedsMutex ==
  \/ app.pc \in {"readSave", "leave", "destroy"}
  \/ app.pc = "pre" /\ app.cmd \in {"INPUT", "INIT"} \cup States
  \/ app.pc = "post" /\ app.cmd \in {"TERM", "SAVE", "RESUME"}
PipeFull ==
  ui.pc = "write" /\ ui.out # <<>> /\ Len(pipe) = PipeCap /\ NeedsMutex
ReturnsOrPipeFull ==
  ui.pc # "idle" ~> (ui.pc = "idle" \/ proc # "alive" \/ NoThread \/ PipeFull)

(* android_native_app_glue.h:139-140 says of activityState: "May be either *)
(* APP_CMD_START, APP_CMD_RESUME, APP_CMD_PAUSE, or APP_CMD_STOP".         *)
ActivityStateDocumented == glue.running => glue.activityState \in States

-----------------------------------------------------------------------------
WindowLoan == INSTANCE Lease
  WITH Things <- Windows, lent <- sys.window, used <- glue.window
QueueLoan == INSTANCE Lease
  WITH Things <- Queues, lent <- sys.queue, used <- glue.inputQueue

(* Window and input queue change hands as Lease promises: none is used     *)
(* after the framework took it back, and the next loan is the one in use.  *)
ImplementsLease == WindowLoan!LeaseSpec /\ QueueLoan!LeaseSpec
=============================================================================
