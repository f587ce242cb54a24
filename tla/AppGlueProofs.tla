---------------------------- MODULE AppGlueProofs ----------------------------
(***************************************************************************)
(* AppGlue: windows and queues change hands as Lease promises, the         *)
(* application uses only what is on loan, the saved state is neither       *)
(* dropped early nor returned stale, and the structure is freed last,      *)
(* proved for all windows, queues and capacities of the pipe.              *)
(***************************************************************************)
EXTENDS AppGlue, TLAPS

(* The callback has taken the mutex once and has not returned.             *)
Past == ui.pc \in {"write", "wait", "asleep", "woken"}

(* What the framework has lent and what the structure says of it.          *)
Loans ==
  /\ ui.cb # "window" => glue.window = sys.window /\ glue.pendingWindow = sys.window
  /\ ui.cb = "window" =>
       /\ sys.window # NULL /\ ui.arg \in {NULL, sys.window} /\ glue.window \in {NULL, sys.window}
       /\ ui.pc = "lock" =>
            /\ glue.window = glue.pendingWindow
            /\ (ui.arg = NULL) <=> (glue.pendingWindow # NULL)
            /\ glue.pendingWindow \in {NULL, sys.window}
       /\ Past => glue.pendingWindow = ui.arg
  /\ glue.inputQueue \in {NULL, sys.queue} /\ glue.pendingInputQueue \in {NULL, sys.queue}
  /\ ui.cb = "input" => ui.arg \in {NULL, sys.queue} /\ (Past => glue.pendingInputQueue = ui.arg)

(* The commands whose effect the proof follows: each is on its way at most *)
(* once, and while it is its callback waits for the effect.                *)
Tracked == {"INIT", "TERM", "DESTROY"}
Wanted(c) ==
  /\ Past
  /\ \/ c = "INIT" /\ ui.cb = "window" /\ ui.arg # NULL /\ glue.window = NULL
     \/ c = "TERM" /\ ui.cb = "window" /\ ui.arg = NULL /\ glue.window # NULL
     \/ c = "DESTROY" /\ ui.cb = "destroy" /\ ~glue.destroyRequested
Unread(c) == \E i \in 1 .. Len(pipe) : pipe[i] = c
Pending(c) == app.cmd = c /\ (app.pc = "pre" \/ (c = "TERM" /\ app.pc \in {"handle", "post"}))
Orders ==
  /\ ui.out = <<>> \/ (ui.pc = "write" /\ \E c \in Commands : ui.out = <<c>>)
  /\ \A c \in Tracked :
       /\ ui.out = <<c>> => Wanted(c) /\ ~Unread(c) /\ ~Pending(c)
       /\ Unread(c) => Wanted(c) /\ ~Pending(c)
       /\ Pending(c) => Wanted(c)
       /\ \A i, j \in 1 .. Len(pipe) : pipe[i] = c /\ pipe[j] = c => i = j
  /\ \A i \in 1 .. Len(pipe) : pipe[i] = "DESTROY" => i = Len(pipe) /\ ui.out = <<>>
  /\ Pending("DESTROY") => pipe = <<>> /\ ui.out = <<>>

(* The window the application uses, and the saved state.                   *)
Uses ==
  /\ app.pc = "handle" /\ app.cmd = "INIT" => glue.window # NULL
  /\ app.pc = "post" /\ app.cmd = "TERM" => es.window = NULL
  /\ es.window # NULL => es.window = glue.window
  /\ app.pc = "draw" => es.window # NULL
  /\ glue.stateSaved => glue.saved # "old"
  /\ app.cmd = "SAVE" /\ app.pc \in {"pre", "handle", "post"} => glue.saved # "old"
  /\ app.pc = "readSave" => app.cmd = "SAVE"

(* Birth and end of the instance.                                          *)
Ends ==
  /\ (ui.pc = "idle") <=> (ui.cb = "none")
  /\ ui.cb = "state" => ui.arg \in States
  /\ (mutex = "ui") <=> (ui.pc \in {"write", "wait"})
  /\ sys.instance \in {"none", "null"} => app.pc = "unborn" /\ sys.window = NULL /\ sys.queue = NULL
  /\ sys.instance = "none" => ui.pc = "idle" /\ glue.saved = NULL
  /\ sys.instance = "freed" => glue.destroyed /\ ui.pc = "idle"
  /\ glue.destroyed => app.pc = "done"
  /\ app.pc \in {"leave", "destroy", "done"} => glue.destroyRequested
  /\ app.pc \in {"destroy", "done"} => glue.saved = NULL
  /\ glue.destroyRequested => /\ (ui.cb = "destroy" /\ Past) \/ sys.instance = "freed"
                              /\ pipe = <<>> /\ ui.out = <<>>

IInv == TypeOK /\ Loans /\ Orders /\ Uses /\ Ends

(* The type invariant, variable by variable.                               *)
GlueType == [running : BOOLEAN, window : Windows \cup {NULL},
             pendingWindow : Windows \cup {NULL}, inputQueue : Queues \cup {NULL},
             pendingInputQueue : Queues \cup {NULL},
             activityState : States \cup {"INPUT"}, saved : {NULL, "old", "new"},
             stateSaved : BOOLEAN, destroyRequested : BOOLEAN, destroyed : BOOLEAN]
UIType == [cb : {"none", "create", "input", "window", "state", "save", "destroy"},
           arg : Windows \cup Queues \cup States \cup {NULL},
           pc : {"idle", "lock", "write", "wait", "asleep", "woken"},
           out : Seq(Commands)]
AppType == [pc : {"unborn", "entry", "poll", "readSave", "pre", "handle", "post",
                  "draw", "leave", "destroy", "done"}, cmd : Commands]
SysType == [instance : {"none", "null", "app", "freed"},
            life : States \cup {"none", "CREATE"},
            window : Windows \cup {NULL}, queue : Queues \cup {NULL}]
ESType == [window : Windows \cup {NULL}, draws : BOOLEAN]

LEMMA Types ==
  TypeOK <=> /\ glue \in GlueType /\ es \in ESType /\ ui \in UIType /\ app \in AppType
             /\ sys \in SysType /\ pipe \in Seq(Commands) /\ Len(pipe) <= PipeCap
             /\ mutex \in {NULL, "ui"} /\ proc \in {"alive", "exited", "crashed"}
  BY DEF TypeOK, GlueType, ESType, UIType, AppType, SysType

LEMMA TypesNext ==
  ASSUME glue' \in GlueType, es' \in ESType, ui' \in UIType, app' \in AppType,
         sys' \in SysType, pipe' \in Seq(Commands), Len(pipe') <= PipeCap,
         mutex' \in {NULL, "ui"}, proc' \in {"alive", "exited", "crashed"}
  PROVE  TypeOK'
  BY DEF TypeOK, GlueType, ESType, UIType, AppType, SysType

(* Fields of changed records.                                              *)
LEMMA UIField ==
  ASSUME ui \in UIType, NEW x \in {"write", "wait", "asleep", "woken"}, NEW o \in Seq(Commands),
         ui' = [ui EXCEPT !.pc = x, !.out = o]
  PROVE  /\ ui' \in UIType /\ ui'.pc = x /\ ui'.out = o /\ ui'.cb = ui.cb /\ ui'.arg = ui.arg
  BY DEF UIType

LEMMA AppField ==
  ASSUME app \in AppType, NEW x, app' = [app EXCEPT !.pc = x],
         x \in {"poll", "pre", "handle", "post", "draw", "leave", "destroy", "done"}
  PROVE  app' \in AppType /\ app'.pc = x /\ app'.cmd = app.cmd
  BY DEF AppType

LEMMA Initially == Init => IInv
<1> SUFFICES ASSUME Init PROVE IInv
  OBVIOUS
<1> USE GlueAssumption DEF Init, NewGlue, UIIdle, NoContext
<1>1. TypeOK
  BY DEF TypeOK, Commands
<1>2. Loans /\ Uses /\ Ends
  BY DEF Loans, Uses, Ends, Past
<1>3. Orders
  BY DEF Orders, Tracked, Unread, Pending
<1> QED BY <1>1, <1>2, <1>3 DEF IInv
-----------------------------------------------------------------------------
(* The framework's actions that enter a callback.                          *)
LEMMA EnterKeeps ==
  ASSUME IInv, Alive, NEW cb \in {"input", "window", "state", "save", "destroy"},
         NEW arg \in Windows \cup Queues \cup States \cup {NULL},
         Begin(cb, arg), Unchanged, sys' \in [instance : {"none", "null", "app", "freed"},
              life : States \cup {"none", "CREATE"},
              window : Windows \cup {NULL}, queue : Queues \cup {NULL}],
         sys'.instance = sys.instance, cb = "state" => arg \in States,
         cb = "window" => /\ sys'.window # NULL /\ arg \in {NULL, sys'.window}
                          /\ sys.window = IF arg = NULL THEN sys'.window ELSE NULL,
         cb # "window" => sys'.window = sys.window,
         cb = "input" => /\ sys'.queue # NULL /\ arg \in {NULL, sys'.queue}
                         /\ sys.queue = IF arg = NULL THEN sys'.queue ELSE NULL,
         cb # "input" => sys'.queue = sys.queue
  PROVE  IInv'
<1> USE GlueAssumption DEF IInv, Unchanged
<1>1. /\ ui.pc = "idle" /\ ui.cb = "none" /\ sys.instance = "app"
      /\ ui' = [cb |-> cb, arg |-> arg, pc |-> "lock", out |-> <<>>]
  BY DEF Alive, Idle, Begin, Ends
<1>2. ui'.cb = cb /\ ui'.arg = arg /\ ui'.pc = "lock" /\ ui'.out = <<>>
  BY <1>1
<1>3. TypeOK'
  BY <1>1 DEF TypeOK
<1>4. Loans'
  BY <1>1, <1>2 DEF Loans, Past
<1>5. Orders'
  <2>1. \A c \in Tracked : ~Unread(c) /\ ~Pending(c)
    BY <1>1 DEF Orders, Wanted, Past
  <2> QED BY <1>2, <2>1 DEF Orders, Tracked, Unread, Pending
<1>6. Uses'
  BY DEF Uses
<1>7. Ends'
  <2>1. ~glue.destroyRequested /\ ~glue.destroyed
    BY <1>1 DEF Ends, Past
  <2> QED BY <1>1, <1>2, <2>1 DEF Ends
<1> QED BY <1>3, <1>4, <1>5, <1>6, <1>7

LEMMA CreateKeeps ==
  ASSUME IInv, NEW saved \in {NULL, "old"}, NEW outcome \in {"ok", "noPipe", "noThread"},
         Create(saved, outcome)
  PROVE  IInv'
<1> USE GlueAssumption DEF IInv
<1>1. /\ ui.pc = "idle" /\ ui.cb = "none" /\ sys.instance = "none" /\ ui.out = <<>>
      /\ app.pc = "unborn" /\ sys.window = NULL /\ sys.queue = NULL
      /\ glue' = NewGlue(saved) /\ UNCHANGED <<es, pipe, mutex, proc>>
  BY DEF Create, Idle, Ends, Orders
<1>2. PICK i \in {"null", "app"} : /\ sys' = [sys EXCEPT !.instance = i, !.life = "CREATE"]
                                   /\ i = "null" => ui' = ui /\ app' = app
                                   /\ i = "app" => Begin("create", NULL)
  BY DEF Create
<1>3. app'.cmd = app.cmd /\ app'.pc \in {"unborn", "entry"} /\ (i = "null" => app'.pc = "unborn")
      /\ app'.cmd \in Commands /\ app' = [pc |-> app'.pc, cmd |-> app'.cmd]
  <2>1. app = [pc |-> "unborn", cmd |-> app.cmd] /\ app.cmd \in Commands
    BY <1>1 DEF TypeOK
  <2>2. PICK x \in {"unborn", "entry"} : app' = [app EXCEPT !.pc = x] /\ (i = "null" => x = "unborn")
    BY <1>1, <1>2, <2>1 DEF Create
  <2> QED BY <2>1, <2>2
<1>4. /\ ui'.cb \in {"none", "create"} /\ ui'.pc \in {"idle", "lock"} /\ ui'.out = <<>>
      /\ (ui'.pc = "idle") <=> (ui'.cb = "none")
      /\ sys'.instance = i /\ sys'.window = NULL /\ sys'.queue = NULL
  BY <1>1, <1>2 DEF Begin, TypeOK
<1>5. TypeOK'
  <2>1. glue' \in GlueType
    BY <1>1 DEF NewGlue, GlueType
  <2>2. ui \in UIType /\ es \in ESType /\ pipe \in Seq(Commands) /\ Len(pipe) <= PipeCap
        /\ mutex \in {NULL, "ui"} /\ proc \in {"alive", "exited", "crashed"}
    BY Types
  <2>3. [cb |-> "create", arg |-> NULL, pc |-> "lock", out |-> <<>>] \in UIType
    BY DEF UIType
  <2>4. ui' \in UIType
    BY <1>2, <2>2, <2>3 DEF Begin
  <2>5. sys \in SysType
    BY Types
  <2>6. sys' \in SysType
    BY <1>2, <2>5 DEF SysType
  <2>7. app' \in AppType
    BY <1>3 DEF AppType
  <2> QED BY <1>1, <2>1, <2>2, <2>4, <2>6, <2>7, TypesNext
<1>6. Loans'
  BY <1>1, <1>4 DEF Loans, NewGlue
<1>7. Orders'
  <2>1. \A c \in Tracked : ~Unread(c)
    BY <1>1 DEF Orders, Wanted, Past
  <2> QED BY <1>1, <1>3, <1>4, <2>1 DEF Orders, Tracked, Unread, Pending
<1>8. Uses'
  <2>1. es.window = NULL
    BY <1>1 DEF Uses, Loans
  <2> QED BY <1>1, <1>3, <2>1 DEF Uses, NewGlue
<1>9. Ends'
  BY <1>1, <1>3, <1>4 DEF Ends, NewGlue
<1> QED BY <1>5, <1>6, <1>7, <1>8, <1>9

(* One element more, one element less.                                     *)
LEMMA Appended ==
  ASSUME TypeOK, NEW c \in Commands, Len(pipe) < PipeCap, pipe' = Append(pipe, c)
  PROVE  /\ pipe' \in Seq(Commands) /\ Len(pipe') = Len(pipe) + 1 /\ Len(pipe') <= PipeCap
         /\ Len(pipe) \in Nat /\ pipe'[Len(pipe')] = c
         /\ \A i \in 1 .. Len(pipe) : pipe'[i] = pipe[i]
<1> USE GlueAssumption
<1>1. pipe \in Seq(Commands)
  BY DEF TypeOK
<1> QED BY <1>1

LEMMA Removed ==
  ASSUME TypeOK, pipe # <<>>, pipe' = Tail(pipe)
  PROVE  /\ pipe' \in Seq(Commands) /\ Len(pipe') = Len(pipe) - 1 /\ Len(pipe') <= PipeCap
         /\ Len(pipe) \in Nat \ {0} /\ Head(pipe) = pipe[1] /\ Head(pipe) \in Commands
         /\ \A i \in 1 .. Len(pipe') : pipe'[i] = pipe[i + 1]
<1> USE GlueAssumption
<1>1. pipe \in Seq(Commands) /\ Len(pipe) <= PipeCap
  BY DEF TypeOK
<1> QED BY <1>1

LEMMA NudgeKeeps == ASSUME IInv, Nudge PROVE IInv'
<1> USE GlueAssumption DEF IInv
<1>1. /\ ui.pc = "idle" /\ ui.cb = "none" /\ sys.instance = "app" /\ "NUDGE" \in Commands
      /\ Len(pipe) < PipeCap /\ pipe' = Append(pipe, "NUDGE")
      /\ UNCHANGED <<glue, es, mutex, ui, app, sys, proc>>
  BY DEF Nudge, Alive, Idle, Ends, Commands
<1>2. /\ pipe' \in Seq(Commands) /\ Len(pipe') = Len(pipe) + 1 /\ Len(pipe') <= PipeCap
      /\ Len(pipe) \in Nat /\ pipe'[Len(pipe')] = "NUDGE"
      /\ \A i \in 1 .. Len(pipe) : pipe'[i] = pipe[i]
  BY <1>1, Appended
<1>3. TypeOK'
  BY <1>1, <1>2 DEF TypeOK
<1>4. Loans' /\ Uses'
  BY <1>1 DEF Loans, Uses, Past
<1>5. Orders'
  <2>1. \A c \in Tracked : ~Unread(c) /\ ~Pending(c)
    BY <1>1 DEF Orders, Wanted, Past
  <2>2. \A c \in Tracked : \A i \in 1 .. Len(pipe') : pipe'[i] # c
    BY <1>2, <2>1 DEF Unread, Tracked
  <2> QED BY <1>1, <2>1, <2>2 DEF Orders, Tracked, Unread, Pending
<1>6. Ends'
  <2>1. ~glue.destroyRequested
    BY <1>1 DEF Ends, Past
  <2> QED BY <1>1, <2>1 DEF Ends, Past
<1> QED BY <1>3, <1>4, <1>5, <1>6

LEMMA FrameworkKeeps == ASSUME IInv, Framework PROVE IInv'
<1> USE GlueAssumption DEF IInv
<1>1. CASE NullInstance
  BY <1>1 DEF NullInstance, TypeOK, Loans, Orders, Uses, Ends, Past, Wanted, Unread, Pending
<1>2. sys.window \in Windows \cup {NULL} /\ sys.queue \in Queues \cup {NULL}
  BY DEF TypeOK
<1>3. CASE OnSaveInstanceState
  BY <1>3, EnterKeeps DEF OnSaveInstanceState, TypeOK
<1>4. CASE OnDestroy
  BY <1>4, EnterKeeps DEF OnDestroy, TypeOK
<1>5. CASE OnNativeWindowDestroyed
  BY <1>5, EnterKeeps DEF OnNativeWindowDestroyed, TypeOK
<1>6. CASE OnInputQueueDestroyed
  BY <1>6, EnterKeeps DEF OnInputQueueDestroyed, TypeOK
<1>7. ASSUME NEW state \in States, OnState(state) PROVE IInv'
  BY <1>7, EnterKeeps DEF OnState, TypeOK
<1>8. ASSUME NEW w \in Windows, OnNativeWindowCreated(w) PROVE IInv'
  BY <1>8, EnterKeeps DEF OnNativeWindowCreated, TypeOK
<1>9. ASSUME NEW q \in Queues, OnInputQueueCreated(q) PROVE IInv'
  BY <1>9, EnterKeeps DEF OnInputQueueCreated, TypeOK
<1> QED BY <1>1, <1>3, <1>4, <1>5, <1>6, <1>7, <1>8, <1>9, CreateKeeps, NudgeKeeps DEF Framework
-----------------------------------------------------------------------------
(* The UI thread inside a callback.  First the steps that change neither   *)
(* the structure nor what the framework has.                               *)
LEMMA WaitKeeps ==
  ASSUME IInv, UITestFails \/ UISleep \/ UIWake
  PROVE  IInv'
<1> USE GlueAssumption DEF IInv
<1>1. /\ ui.pc \in {"write", "wait", "woken"} /\ ui.out = <<>> /\ mutex' \in {NULL, "ui"}
      /\ UNCHANGED <<glue, es, pipe, app, sys, proc>>
  BY DEF UITestFails, UISleep, UIWake, UIAt, Orders, TypeOK
<1>2. PICK x \in {"write", "wait", "asleep"} :
        ui' = [ui EXCEPT !.pc = x, !.out = <<>>] /\ ((mutex' = "ui") <=> x # "asleep")
  <2>1. \A x : [ui EXCEPT !.pc = x] = [ui EXCEPT !.pc = x, !.out = <<>>]
    <3>1. ui \in UIType
      BY Types
    <3> QED BY <1>1, <3>1 DEF UIType
  <2>2. \E x \in {"write", "wait", "asleep"} : ui' = [ui EXCEPT !.pc = x] /\ ((mutex' = "ui") <=> x # "asleep")
    BY DEF UITestFails, UISleep, UIWake, UIAt, Ends
  <2> QED BY <2>1, <2>2
<1>3. ui' \in UIType /\ ui'.pc = x /\ ui'.cb = ui.cb /\ ui'.arg = ui.arg /\ ui'.out = <<>>
  <2>1. ui \in UIType /\ <<>> \in Seq(Commands)
    BY Types
  <2> QED BY <1>2, <2>1, UIField
<1>4. Past /\ Past'
  BY <1>1, <1>3 DEF Past
<1>5. TypeOK'
  BY <1>1, <1>3, Types, TypesNext
<1>6. Loans' /\ Uses'
  BY <1>1, <1>3, <1>4 DEF Loans, Uses
<1>7. Orders'
  BY <1>1, <1>3, <1>4 DEF Orders, Wanted, Unread, Pending, Tracked
<1>8. Ends'
  BY <1>1, <1>2, <1>3, <1>4 DEF Ends
<1> QED BY <1>5, <1>6, <1>7, <1>8

LEMMA LockKeeps == ASSUME IInv, UILock PROVE IInv'
<1> USE GlueAssumption DEF IInv
<1>1. /\ ui.pc = "lock" /\ ui.cb # "none" /\ ui.out = <<>> /\ ~Past
      /\ mutex' = "ui" /\ UNCHANGED <<es, pipe, app, sys, proc>>
  BY DEF UILock, UIAt, Ends, Orders, Past
<1>2. \A c \in Tracked : ~Unread(c) /\ ~Pending(c)
  BY <1>1 DEF Orders, Wanted
<1>3. ~glue.destroyRequested /\ sys.instance # "freed"
  BY <1>1 DEF Ends
<1>4. ui.cb \in {"create", "input", "window", "state", "save", "destroy"}
  BY <1>1 DEF TypeOK
<1>5. PICK o : /\ ui' = [ui EXCEPT !.pc = "write", !.out = o]
               /\ o = CASE ui.cb = "create" -> <<>>
                        [] ui.cb = "input" -> <<"INPUT">>
                        [] ui.cb = "window" ->
                             (IF glue.pendingWindow # NULL THEN <<"TERM">> ELSE <<>>)
                               \o (IF ui.arg # NULL THEN <<"INIT">> ELSE <<>>)
                        [] ui.cb = "state" -> <<ui.arg>>
                        [] ui.cb = "save" -> <<"SAVE">>
                        [] ui.cb = "destroy" -> <<"DESTROY">>
  BY DEF UILock
<1>6. \/ o = <<>>
      \/ o = <<"INIT">> /\ ui.cb = "window" /\ ui.arg # NULL
      \/ o = <<"TERM">> /\ ui.cb = "window" /\ ui.arg = NULL
      \/ o = <<"DESTROY">> /\ ui.cb = "destroy"
      \/ \E c \in Commands \ Tracked : o = <<c>>
  <2>1. CASE ui.cb = "window"
    <3>1. (ui.arg = NULL) <=> (glue.pendingWindow # NULL)
      BY <1>1, <2>1 DEF Loans
    <3>2. o = (IF glue.pendingWindow # NULL THEN <<"TERM">> ELSE <<>>)
                \o (IF ui.arg # NULL THEN <<"INIT">> ELSE <<>>)
      BY <1>5, <2>1
    <3>3. <<"TERM">> \o <<>> = <<"TERM">> /\ <<>> \o <<"INIT">> = <<"INIT">>
      OBVIOUS
    <3> QED BY <2>1, <3>1, <3>2, <3>3
  <2>2. CASE ui.cb = "create"
    BY <1>5, <2>2
  <2>3. CASE ui.cb = "input"
    BY <1>5, <2>3 DEF Commands, Tracked
  <2>4. CASE ui.cb = "save"
    BY <1>5, <2>4 DEF Commands, Tracked
  <2>5. CASE ui.cb = "destroy"
    BY <1>5, <2>5
  <2>6. CASE ui.cb = "state"
    <3>1. ui.arg \in States /\ o = <<ui.arg>>
      BY <1>5, <2>6 DEF Ends
    <3>2. ui.arg \in Commands \ Tracked
      BY <3>1 DEF Commands, Tracked, States
    <3> QED BY <3>1, <3>2
  <2> QED BY <1>4, <2>1, <2>2, <2>3, <2>4, <2>5, <2>6
<1>7. o = <<>> \/ \E c \in Commands : o = <<c>>
  BY <1>6 DEF Commands
<1>8. /\ ui' \in UIType /\ ui'.pc = "write" /\ ui'.out = o /\ ui'.cb = ui.cb /\ ui'.arg = ui.arg /\ Past'
  <2>1. \A c \in Commands : <<c>> \in Seq(Commands)
    OBVIOUS
  <2>2. <<>> \in Seq(Commands) /\ ui \in UIType
    BY Types
  <2>3. o \in Seq(Commands)
    BY <1>7, <2>1, <2>2
  <2> QED BY <1>5, <2>2, <2>3, UIField DEF Past
<1> HIDE DEF IInv
<1>9. /\ glue' \in GlueType
      /\ glue'.window = glue.window /\ glue'.inputQueue = glue.inputQueue
      /\ glue'.saved = glue.saved /\ glue'.destroyRequested = glue.destroyRequested
      /\ glue'.destroyed = glue.destroyed
      /\ glue'.pendingWindow = IF ui.cb = "window" THEN ui.arg ELSE glue.pendingWindow
      /\ glue'.pendingInputQueue = IF ui.cb = "input" THEN ui.arg ELSE glue.pendingInputQueue
      /\ glue'.stateSaved \in {FALSE, glue.stateSaved}
  <2>1. glue \in GlueType /\ sys \in SysType
    BY Types DEF IInv
  <2>2. CASE ui.cb = "input"
    <3>1. ui.arg \in Queues \cup {NULL}
      BY <2>1, <2>2 DEF IInv, Loans, SysType
    <3> QED BY <2>1, <2>2, <3>1 DEF UILock, GlueType
  <2>3. CASE ui.cb = "window"
    <3>1. ui.arg \in Windows \cup {NULL}
      BY <2>1, <2>3 DEF IInv, Loans, SysType
    <3> QED BY <2>1, <2>3, <3>1 DEF UILock, GlueType
  <2>4. CASE ui.cb = "save"
    BY <2>1, <2>4 DEF UILock, GlueType
  <2>5. CASE ui.cb \notin {"input", "window", "save"}
    <3>1. glue' = glue
      BY <2>5 DEF UILock
    <3> QED BY <2>1, <2>5, <3>1
  <2> QED BY <2>2, <2>3, <2>4, <2>5
<1> USE DEF IInv
<1>10. TypeOK'
  BY <1>1, <1>8, <1>9, Types, TypesNext
<1>11. Loans'
  BY <1>1, <1>8, <1>9 DEF Loans
<1>12. Orders'
  <2>1. \A c \in Tracked : ui'.out = <<c>> => Wanted(c)'
    <3>1. o = <<"INIT">> => Wanted("INIT")'
      BY <1>1, <1>6, <1>8, <1>9 DEF Wanted, Loans, Tracked
    <3>2. o = <<"TERM">> => Wanted("TERM")'
      BY <1>1, <1>6, <1>8, <1>9 DEF Wanted, Loans, Tracked
    <3>3. o = <<"DESTROY">> => Wanted("DESTROY")'
      BY <1>1, <1>3, <1>6, <1>8, <1>9 DEF Wanted, Tracked
    <3> QED BY <1>8, <3>1, <3>2, <3>3 DEF Tracked
  <2> QED BY <1>1, <1>2, <1>7, <1>8, <2>1 DEF Orders, Tracked, Unread, Pending
<1>13. Uses'
  BY <1>1, <1>9 DEF Uses
<1>14. Ends'
  BY <1>1, <1>3, <1>8, <1>9 DEF Ends
<1> QED BY <1>10, <1>11, <1>12, <1>13, <1>14

LEMMA WriteKeeps == ASSUME IInv, UIWrite PROVE IInv'
<1> USE GlueAssumption DEF IInv
<1>1. /\ ui.pc = "write" /\ ui.out # <<>> /\ Len(pipe) < PipeCap /\ pipe' = Append(pipe, Head(ui.out))
      /\ ui' = [ui EXCEPT !.out = Tail(@)] /\ UNCHANGED <<glue, es, mutex, app, sys, proc>>
  BY DEF UIWrite, UIAt
<1>2. PICK c \in Commands : ui.out = <<c>>
  BY <1>1 DEF Orders
<1>3. Head(ui.out) = c /\ Tail(ui.out) = <<>>
  BY <1>2
<1>4. ui' \in UIType /\ ui'.out = <<>> /\ ui'.pc = "write" /\ ui'.cb = ui.cb /\ ui'.arg = ui.arg
  <2>1. ui \in UIType /\ <<>> \in Seq(Commands)
    BY Types
  <2>2. ui' = [ui EXCEPT !.pc = "write", !.out = <<>>]
    BY <1>1, <1>3, <2>1 DEF UIType
  <2> QED BY <2>1, <2>2, UIField
<1>5. Past /\ Past'
  BY <1>1, <1>4 DEF Past
<1>6. /\ pipe' \in Seq(Commands) /\ Len(pipe') = Len(pipe) + 1 /\ Len(pipe') <= PipeCap
      /\ Len(pipe) \in Nat /\ pipe'[Len(pipe')] = c
      /\ \A i \in 1 .. Len(pipe) : pipe'[i] = pipe[i]
  BY <1>1, <1>3, Appended
<1>7. \A i \in 1 .. Len(pipe') : i = Len(pipe') \/ i \in 1 .. Len(pipe)
  BY <1>6
<1>8. TypeOK'
  BY <1>1, <1>4, <1>6, Types, TypesNext
<1>9. Loans' /\ Uses'
  BY <1>1, <1>4, <1>5 DEF Loans, Uses
<1>10. Orders'
  <2>1. \A d \in Tracked : (Wanted(d)' <=> Wanted(d)) /\ (Pending(d)' <=> Pending(d))
    BY <1>1, <1>4, <1>5 DEF Wanted, Pending
  <2>2. ASSUME NEW d \in Tracked
        PROVE  /\ Unread(d)' => Wanted(d) /\ ~Pending(d)
               /\ \A i, j \in 1 .. Len(pipe') : pipe'[i] = d /\ pipe'[j] = d => i = j
    <3>1. CASE d = c
      <4>1. Wanted(d) /\ ~Pending(d) /\ \A i \in 1 .. Len(pipe) : pipe[i] # d
        BY <1>2, <3>1 DEF Orders, Unread
      <4>2. \A i \in 1 .. Len(pipe') : pipe'[i] = d => i = Len(pipe')
        BY <1>6, <1>7, <4>1
      <4> QED BY <4>1, <4>2
    <3>2. CASE d # c
      <4>1. \A i \in 1 .. Len(pipe') : pipe'[i] = d => i \in 1 .. Len(pipe) /\ pipe[i] = d
        BY <1>6, <1>7, <3>2
      <4>2. Unread(d)' => Unread(d)
        BY <4>1 DEF Unread
      <4> QED BY <4>1, <4>2 DEF Orders
    <3> QED BY <3>1, <3>2
  <2>3. \A i \in 1 .. Len(pipe') : pipe'[i] = "DESTROY" => i = Len(pipe')
    BY <1>1, <1>6, <1>7 DEF Orders
  <2>4. ~Pending("DESTROY")
    BY <1>1 DEF Orders
  <2> QED BY <1>4, <2>1, <2>2, <2>3, <2>4 DEF Orders, Tracked
<1>11. Ends'
  <2>1. ~glue.destroyRequested
    BY <1>1 DEF Ends
  <2> QED BY <1>1, <1>4, <1>5, <2>1 DEF Ends
<1> QED BY <1>8, <1>9, <1>10, <1>11

LEMMA ReturnKeeps == ASSUME IInv, UIReturn PROVE IInv'
<1> USE GlueAssumption DEF IInv
<1>1. /\ ui.pc = "write" /\ ui.out = <<>> /\ Done /\ mutex' = NULL
      /\ UNCHANGED <<es, pipe, app, proc>>
  BY DEF UIReturn, UIAt
<1>2. /\ ui' = UIIdle /\ ui'.pc = "idle" /\ ui'.cb = "none" /\ ui'.out = <<>> /\ ui' \in UIType
      /\ Past /\ ~Past'
  BY <1>1 DEF UIReturn, UIIdle, Past, UIType
<1>3. sys.instance # "freed" /\ ui.cb # "none"
  BY <1>1 DEF Ends
<1>4. /\ ui.cb = "window" => glue.window = glue.pendingWindow /\ glue.pendingWindow = ui.arg
      /\ ui.cb = "input" => glue.inputQueue = ui.arg /\ glue.pendingInputQueue = ui.arg
      /\ ui.cb = "destroy" => glue.destroyed /\ glue.destroyRequested
  BY <1>1, <1>2 DEF Done, Loans, Ends
<1>5. \A c \in Tracked : ~Wanted(c)
  BY <1>4 DEF Wanted, Tracked
<1>6. glue \in GlueType /\ sys \in SysType
  BY Types
<1>7. /\ glue' \in GlueType /\ glue'.saved \in {NULL, glue.saved}
      /\ glue'.window = glue.window /\ glue'.pendingWindow = glue.pendingWindow
      /\ glue'.inputQueue = glue.inputQueue /\ glue'.pendingInputQueue = glue.pendingInputQueue
      /\ glue'.destroyed = glue.destroyed /\ glue'.destroyRequested = glue.destroyRequested
  BY <1>6 DEF UIReturn, GlueType
<1>8. /\ ui.cb = "window" => ui.arg \in Windows \cup {NULL}
      /\ ui.cb = "input" => ui.arg \in Queues \cup {NULL}
  BY <1>6 DEF Loans, SysType
<1>9. /\ sys' \in SysType
      /\ sys'.window = IF ui.cb = "window" THEN ui.arg ELSE sys.window
      /\ sys'.queue = IF ui.cb = "input" THEN ui.arg ELSE sys.queue
      /\ sys'.instance = IF ui.cb = "destroy" THEN "freed" ELSE sys.instance
  <2>1. CASE ui.cb = "window"
    BY <1>6, <1>8, <2>1 DEF UIReturn, SysType
  <2>2. CASE ui.cb = "input"
    BY <1>6, <1>8, <2>2 DEF UIReturn, SysType
  <2>3. CASE ui.cb = "destroy"
    BY <1>6, <2>3 DEF UIReturn, SysType
  <2>4. CASE ui.cb \notin {"window", "input", "destroy"}
    <3>1. sys' = sys
      BY <2>4 DEF UIReturn
    <3> QED BY <1>6, <2>4, <3>1
  <2> QED BY <2>1, <2>2, <2>3, <2>4
<1>10. TypeOK'
  BY <1>1, <1>2, <1>7, <1>9, Types, TypesNext
<1>11. Loans'
  BY <1>2, <1>4, <1>7, <1>9 DEF Loans
<1>12. Orders'
  <2>1. \A c \in Tracked : ~Unread(c) /\ ~Pending(c)
    BY <1>5 DEF Orders
  <2> QED BY <1>1, <1>2, <2>1 DEF Orders, Tracked, Unread, Pending
<1>13. Uses'
  <2>1. glue'.stateSaved = glue.stateSaved
    BY <1>6 DEF UIReturn, GlueType
  <2> QED BY <1>1, <1>7, <2>1 DEF Uses
<1>14. Ends'
  <2>1. glue.destroyRequested => ui.cb = "destroy" /\ pipe = <<>>
    BY <1>3 DEF Ends
  <2>2. sys.instance \in {"none", "null"} => sys'.window = NULL /\ sys'.queue = NULL
    BY <1>4, <1>9 DEF Ends, Loans
  <2> QED BY <1>1, <1>2, <1>3, <1>4, <1>7, <1>9, <2>1, <2>2 DEF Ends
<1> QED BY <1>10, <1>11, <1>12, <1>13, <1>14
-----------------------------------------------------------------------------
(* The application thread.                                                 *)
LEMMA Awakened ==
  ASSUME TypeOK, Broadcast \/ UNCHANGED ui
  PROVE  /\ ui' \in UIType /\ ui'.cb = ui.cb /\ ui'.arg = ui.arg /\ ui'.out = ui.out
         /\ Past' <=> Past
         /\ \A p \in {"idle", "lock", "write", "wait"} : (ui'.pc = p) <=> (ui.pc = p)
<1>1. ui \in UIType
  BY Types
<1>2. CASE ui' = ui
  BY <1>1, <1>2 DEF Past
<1>3. CASE ui.pc = "asleep" /\ ui' = [ui EXCEPT !.pc = "woken"]
  BY <1>1, <1>3 DEF Past, UIType
<1> QED BY <1>2, <1>3 DEF Broadcast

(* What every step but the one that reads a command comes down to.         *)
LEMMA AppKeeps ==
  ASSUME IInv, Broadcast \/ UNCHANGED ui, UNCHANGED <<pipe, mutex, sys>>,
         glue' \in GlueType, es' \in ESType, app' \in AppType, proc' \in {"alive", "exited", "crashed"},
         app.pc # "unborn", ~glue.destroyed,
         glue'.pendingWindow = glue.pendingWindow, glue'.pendingInputQueue = glue.pendingInputQueue,
         glue'.window = glue.window
           \/ (glue'.window \in {NULL, sys.window} /\ ui.cb = "window" /\ Past),
         glue'.inputQueue \in {NULL, sys.queue},
         glue'.destroyRequested = glue.destroyRequested \/ Pending("DESTROY"),
         \A c \in Tracked : Pending(c)' => Pending(c),
         \A c \in Tracked : Wanted(c) => Wanted(c)' \/ (Pending(c) /\ ~Pending(c)'),
         Uses',
         glue'.destroyed => app'.pc = "done",
         app'.pc \in {"leave", "destroy", "done"} => glue'.destroyRequested,
         app'.pc \in {"destroy", "done"} => glue'.saved = NULL
  PROVE  IInv'
<1> USE GlueAssumption DEF IInv
<1>1. /\ ui' \in UIType /\ ui'.cb = ui.cb /\ ui'.arg = ui.arg /\ ui'.out = ui.out
      /\ Past' <=> Past
      /\ \A p \in {"idle", "lock", "write", "wait"} : (ui'.pc = p) <=> (ui.pc = p)
  BY Awakened
<1>2. TypeOK'
  BY <1>1, Types, TypesNext
<1>3. Loans'
  BY <1>1 DEF Loans, Past
<1>4. Orders'
  <2>1. \A c \in Tracked : Unread(c)' <=> Unread(c)
    BY DEF Unread
  <2>2. \A c \in Tracked : /\ ui'.out = <<c>> => Wanted(c)' /\ ~Unread(c)' /\ ~Pending(c)'
                           /\ Unread(c)' => Wanted(c)' /\ ~Pending(c)'
                           /\ Pending(c)' => Wanted(c)'
    BY <1>1, <2>1 DEF Orders
  <2>3. Pending("DESTROY")' => pipe' = <<>> /\ ui'.out = <<>>
    BY <1>1 DEF Orders, Tracked
  <2> QED BY <1>1, <2>2, <2>3 DEF Orders
<1>5. Ends'
  <2>1. Pending("DESTROY") => ui.cb = "destroy" /\ Past /\ pipe = <<>> /\ ui.out = <<>>
    BY DEF Orders, Tracked, Wanted
  <2> QED BY <1>1, <2>1 DEF Ends
<1> QED BY <1>2, <1>3, <1>4, <1>5

LEMMA ReadKeeps == ASSUME IInv, ReadCmd PROVE IInv'
<1> USE GlueAssumption DEF IInv
<1>1. /\ app.pc = "poll" /\ pipe # <<>> /\ pipe' = Tail(pipe)
      /\ app' = [pc |-> IF Head(pipe) = "SAVE" THEN "readSave" ELSE "pre", cmd |-> Head(pipe)]
      /\ UNCHANGED <<glue, es, mutex, ui, sys, proc>>
  BY DEF ReadCmd, AppAt
<1>2. /\ pipe' \in Seq(Commands) /\ Len(pipe') = Len(pipe) - 1 /\ Len(pipe') <= PipeCap
      /\ Len(pipe) \in Nat \ {0} /\ Head(pipe) = pipe[1] /\ Head(pipe) \in Commands
      /\ \A i \in 1 .. Len(pipe') : pipe'[i] = pipe[i + 1]
  BY <1>1, Removed
<1>3. \A i \in 1 .. Len(pipe') : i + 1 \in 1 .. Len(pipe) /\ i + 1 # 1
  BY <1>2
<1>4. 1 \in 1 .. Len(pipe)
  BY <1>2
<1>5. /\ app'.pc \in {"readSave", "pre"} /\ app'.cmd = pipe[1] /\ app' \in AppType
      /\ (app'.pc = "readSave" <=> pipe[1] = "SAVE")
  BY <1>1, <1>2 DEF AppType
<1>6. TypeOK'
  BY <1>1, <1>2, <1>5, Types, TypesNext
<1>7. Loans' /\ Uses'
  BY <1>1, <1>5 DEF Loans, Uses, Past
<1>8. Orders'
  <2>1. ASSUME NEW c \in Tracked
        PROVE  /\ Wanted(c)' <=> Wanted(c)
               /\ Unread(c)' => Unread(c) /\ pipe[1] # c
               /\ Pending(c)' => Unread(c)
               /\ \A i, j \in 1 .. Len(pipe') : pipe'[i] = c /\ pipe'[j] = c => i = j
    <3>1. Wanted(c)' <=> Wanted(c)
      BY <1>1 DEF Wanted, Past
    <3>2. \A i, j \in 1 .. Len(pipe) : pipe[i] = c /\ pipe[j] = c => i = j
      BY DEF Orders
    <3>3. Unread(c)' => Unread(c) /\ pipe[1] # c
      BY <1>2, <1>3, <1>4, <3>2 DEF Unread
    <3>4. Pending(c)' => Unread(c)
      BY <1>4, <1>5 DEF Pending, Unread
    <3>5. ASSUME NEW i \in 1 .. Len(pipe'), NEW j \in 1 .. Len(pipe'), pipe'[i] = c, pipe'[j] = c
          PROVE  i = j
      <4>1. i + 1 = j + 1
        BY <1>2, <1>3, <3>2, <3>5
      <4> QED BY <4>1
    <3> QED BY <3>1, <3>3, <3>4, <3>5
  <2>2. \A c \in Tracked : Pending(c)' => pipe[1] = c
    BY <1>5 DEF Pending
  <2>3. \A i \in 1 .. Len(pipe') : pipe'[i] = "DESTROY" => i = Len(pipe') /\ ui.out = <<>>
    BY <1>2, <1>3 DEF Orders
  <2>4. Pending("DESTROY")' => pipe' = <<>> /\ ui.out = <<>>
    <3>1. Pending("DESTROY")' => 1 = Len(pipe) /\ ui.out = <<>>
      BY <1>4, <2>2 DEF Orders, Tracked
    <3>2. Len(pipe) = 1 => pipe' = <<>>
      BY <1>2
    <3> QED BY <3>1, <3>2
  <2> QED BY <1>1, <2>1, <2>2, <2>3, <2>4 DEF Orders
<1>9. Ends'
  <2>1. ~glue.destroyRequested
    BY <1>1 DEF Ends
  <2> QED BY <1>1, <1>5, <2>1 DEF Ends, Past
<1> QED BY <1>6, <1>7, <1>8, <1>9

(* The steps that leave the structure alone, but for the saved state.      *)
LEMMA StayKeeps ==
  ASSUME IInv, UNCHANGED <<ui, pipe, mutex, sys>>, proc' \in {"alive", "exited", "crashed"},
         app.pc # "unborn", ~glue.destroyed, app' \in AppType,
         NEW v \in {NULL, "old", "new"}, glue' = [glue EXCEPT !.saved = v],
         v \in {NULL, glue.saved} \/ (v = "new" /\ app'.pc \notin {"destroy", "done"}),
         app'.cmd = app.cmd, app'.pc \notin {"readSave", "done"},
         \A c \in Tracked : Pending(c)' <=> Pending(c),
         es' = es \/ (es' \in ESType /\ app.pc = "handle"),
         app'.pc = "handle" /\ app.cmd = "INIT" => glue.window # NULL,
         app'.pc = "post" /\ app.cmd = "TERM" => es'.window = NULL,
         es'.window # NULL => es'.window = glue.window,
         app'.pc = "draw" => es'.window # NULL,
         app.cmd = "SAVE" /\ app'.pc \in {"pre", "handle", "post"} => v # "old",
         app'.pc \in {"leave", "destroy"} => glue.destroyRequested,
         app'.pc = "destroy" => v = NULL
  PROVE  IInv'
<1> USE GlueAssumption DEF IInv
<1>1. glue \in GlueType /\ es \in ESType
  BY Types
<1>2. /\ glue' \in GlueType /\ glue'.saved = v /\ glue'.window = glue.window
      /\ glue'.pendingWindow = glue.pendingWindow /\ glue'.stateSaved = glue.stateSaved
      /\ glue'.inputQueue = glue.inputQueue /\ glue'.pendingInputQueue = glue.pendingInputQueue
      /\ glue'.destroyed = glue.destroyed /\ glue'.destroyRequested = glue.destroyRequested
  BY <1>1 DEF GlueType
<1>3. \A c \in Tracked : Wanted(c)' <=> Wanted(c)
  BY <1>2 DEF Wanted, Past
<1>4. Uses'
  BY <1>2 DEF Uses
<1>5. glue.inputQueue \in {NULL, sys.queue} /\ es' \in ESType
  BY <1>1 DEF Loans
<1>6. glue.destroyRequested \in BOOLEAN /\ (Pending("DESTROY") => ~glue.destroyRequested)
  BY <1>1 DEF GlueType, Orders, Tracked, Wanted
<1> QED BY <1>1, <1>2, <1>3, <1>4, <1>5, <1>6, AppKeeps

LEMMA SameGlue == glue \in GlueType => glue = [glue EXCEPT !.saved = glue.saved]
  BY DEF GlueType

LEMMA StaySteps ==
  ASSUME IInv, ReadSave \/ Handle \/ EsMainFails \/ PostResume \/ PostOther \/ Draw \/ Drawn \/ Leave
  PROVE  IInv'
<1> USE GlueAssumption
<1>1. /\ glue \in GlueType /\ app \in AppType /\ es \in ESType /\ proc = "alive"
      /\ glue.saved \in {NULL, "old", "new"} /\ glue = [glue EXCEPT !.saved = glue.saved]
  <2>1. glue \in GlueType /\ app \in AppType /\ es \in ESType
    BY Types DEF IInv
  <2>2. proc = "alive"
    BY DEF ReadSave, Handle, EsMainFails, PostResume, PostOther, PostUnder, Draw, Drawn, Leave, AppAt
  <2> QED BY <2>1, <2>2, SameGlue DEF GlueType
<1>2. /\ \A p : app.pc = p /\ p \notin {"unborn", "done"} => ~glue.destroyed
      /\ app.pc = "readSave" => app.cmd = "SAVE"
      /\ app.pc = "handle" /\ app.cmd \in {"INIT", "TERM"} => glue.window # NULL
      /\ app.pc = "post" /\ app.cmd = "TERM" => es.window = NULL
      /\ es.window # NULL => es.window = glue.window
      /\ app.cmd = "SAVE" /\ app.pc \in {"pre", "handle", "post"} => glue.saved # "old"
      /\ app.pc = "leave" => glue.destroyRequested
  BY DEF IInv, Uses, Ends, Orders, Pending, Wanted, Tracked
<1>3. CASE ReadSave
  <2>1. app.pc = "readSave" /\ app' = [app EXCEPT !.pc = "pre"] /\ glue' = [glue EXCEPT !.saved = NULL]
        /\ UNCHANGED <<es, pipe, mutex, ui, sys, proc>>
    BY <1>3 DEF ReadSave, AppAt, Goto, FreeSavedState
  <2>2. app' \in AppType /\ app'.pc = "pre" /\ app'.cmd = app.cmd
    BY <1>1, <2>1, AppField
  <2>3. \A c \in Tracked : Pending(c)' <=> Pending(c)
    BY <1>2, <2>1, <2>2 DEF Pending, Tracked
  <2> QED BY <1>1, <1>2, <2>1, <2>2, <2>3, StayKeeps
<1>4. CASE Handle
  <2>1. app.pc = "handle" /\ app' = [app EXCEPT !.pc = "post"] /\ UNCHANGED <<pipe, mutex, ui, sys, proc>>
    BY <1>4 DEF Handle, AppAt, Goto
  <2>2. app' \in AppType /\ app'.pc = "post" /\ app'.cmd = app.cmd
    BY <1>1, <2>1, AppField
  <2>3. \A c \in Tracked : Pending(c)' <=> Pending(c)
    BY <2>1, <2>2 DEF Pending, Tracked
  <2>4. /\ es' \in ESType
        /\ app.cmd = "TERM" => es'.window = NULL
        /\ es'.window # NULL => es'.window = glue.window
    <3>1. CASE app.cmd = "INIT"
      BY <1>1, <1>4, <3>1 DEF Handle, ESType, GlueType
    <3>2. CASE app.cmd = "TERM"
      BY <1>4, <3>2 DEF Handle, ESType, NoContext
    <3>3. CASE app.cmd \notin {"INIT", "TERM"}
      <4>1. es' = es
        BY <1>4, <3>3 DEF Handle
      <4> QED BY <1>1, <1>2, <3>3, <4>1
    <3> QED BY <3>1, <3>2, <3>3
  <2>5. PICK v \in {glue.saved, "new"} : glue' = [glue EXCEPT !.saved = v]
    BY <1>1, <1>4 DEF Handle
  <2>6. v \in {NULL, "old", "new"}
    BY <1>1, <2>5
  <2>7. app.cmd = "SAVE" => v # "old"
    BY <1>2, <2>1, <2>5
  <2> QED BY <1>1, <1>2, <2>1, <2>2, <2>3, <2>4, <2>5, <2>6, <2>7, StayKeeps
<1>5. CASE EsMainFails
  <2>1. app.pc = "handle" /\ proc' = "exited" /\ UNCHANGED <<glue, es, pipe, mutex, ui, app, sys>>
    BY <1>5 DEF EsMainFails, AppAt
  <2>2. \A c \in Tracked : Pending(c)' <=> Pending(c)
    BY <2>1 DEF Pending
  <2>3. glue' = [glue EXCEPT !.saved = glue.saved]
    BY <1>1, <2>1
  <2> QED BY <1>1, <1>2, <2>1, <2>2, <2>3, StayKeeps
<1>6. CASE PostResume \/ PostOther
  <2>1. PICK x \in {"poll", "leave"} : app' = [app EXCEPT !.pc = x] /\ (x = "leave" => glue.destroyRequested)
    BY <1>6 DEF PostResume, PostOther, PostUnder, Processed, Goto
  <2>2. /\ app.pc = "post" /\ app.cmd # "TERM" /\ UNCHANGED <<es, pipe, mutex, ui, sys, proc>>
        /\ glue' = [glue EXCEPT !.saved = NULL] \/ glue' = glue
    BY <1>6 DEF PostResume, PostOther, PostUnder, FreeSavedState, AppAt
  <2>3. app' \in AppType /\ app'.pc = x /\ app'.cmd = app.cmd
    BY <1>1, <2>1, AppField
  <2>4. \A c \in Tracked : Pending(c)' <=> Pending(c)
    BY <2>2, <2>3 DEF Pending
  <2>5. PICK v \in {NULL, glue.saved} : glue' = [glue EXCEPT !.saved = v]
    BY <1>1, <2>2
  <2>6. v \in {NULL, "old", "new"}
    BY <1>1, <2>5
  <2> QED BY <1>1, <1>2, <2>1, <2>2, <2>3, <2>4, <2>5, <2>6, StayKeeps
<1>7. CASE Draw \/ Drawn
  <2>1. PICK x \in {"poll", "draw"} : app' = [app EXCEPT !.pc = x] /\ (x = "draw" => es.window # NULL)
    BY <1>7 DEF Draw, Drawn, Goto
  <2>2. app.pc \in {"poll", "draw"} /\ UNCHANGED <<glue, es, pipe, mutex, ui, sys, proc>>
    BY <1>7 DEF Draw, Drawn, AppAt
  <2>3. app' \in AppType /\ app'.pc = x /\ app'.cmd = app.cmd
    BY <1>1, <2>1, AppField
  <2>4. \A c \in Tracked : Pending(c)' <=> Pending(c)
    BY <2>2, <2>3 DEF Pending
  <2>5. glue' = [glue EXCEPT !.saved = glue.saved]
    BY <1>1, <2>2
  <2> QED BY <1>1, <1>2, <2>1, <2>2, <2>3, <2>4, <2>5, StayKeeps
<1>8. CASE Leave
  <2>1. app.pc = "leave" /\ app' = [app EXCEPT !.pc = "destroy"] /\ glue' = [glue EXCEPT !.saved = NULL]
        /\ UNCHANGED <<es, pipe, mutex, ui, sys, proc>>
    BY <1>8 DEF Leave, AppAt, Goto, FreeSavedState
  <2>2. app' \in AppType /\ app'.pc = "destroy" /\ app'.cmd = app.cmd
    BY <1>1, <2>1, AppField
  <2>3. \A c \in Tracked : Pending(c)' <=> Pending(c)
    BY <2>1, <2>2 DEF Pending
  <2> QED BY <1>1, <1>2, <2>1, <2>2, <2>3, StayKeeps
<1> QED BY <1>3, <1>4, <1>5, <1>6, <1>7, <1>8

LEMMA EntryKeeps == ASSUME IInv, AppEntry PROVE IInv'
<1> USE GlueAssumption DEF IInv
<1>1. /\ app.pc = "entry" /\ app' = [app EXCEPT !.pc = "poll"] /\ glue' = [glue EXCEPT !.running = TRUE]
      /\ Broadcast /\ UNCHANGED <<es, pipe, mutex, sys, proc>>
  BY DEF AppEntry, AppAt, Goto
<1>2. glue \in GlueType /\ app \in AppType /\ es \in ESType /\ proc \in {"alive", "exited", "crashed"}
  BY Types
<1>3. app' \in AppType /\ app'.pc = "poll" /\ app'.cmd = app.cmd
  BY <1>1, <1>2, AppField
<1>4. /\ glue' \in GlueType /\ glue'.saved = glue.saved /\ glue'.window = glue.window
      /\ glue'.pendingWindow = glue.pendingWindow /\ glue'.stateSaved = glue.stateSaved
      /\ glue'.inputQueue = glue.inputQueue /\ glue'.pendingInputQueue = glue.pendingInputQueue
      /\ glue'.destroyed = glue.destroyed /\ glue'.destroyRequested = glue.destroyRequested
  BY <1>1, <1>2 DEF GlueType
<1>5. \A c \in Tracked : ~Pending(c)' /\ (Wanted(c)' <=> Wanted(c))
  <2>1. ui'.cb = ui.cb /\ ui'.arg = ui.arg /\ (Past' <=> Past)
    BY <1>1, Awakened
  <2> QED BY <1>3, <1>4, <2>1 DEF Wanted, Pending
<1>6. Uses' /\ ~glue.destroyed /\ glue.inputQueue \in {NULL, sys.queue}
  BY <1>1, <1>3, <1>4 DEF Uses, Ends, Loans
<1> QED BY <1>1, <1>2, <1>3, <1>4, <1>5, <1>6, AppKeeps

(* android_app_pre_exec_cmd                                                *)
LEMMA PreKeeps == ASSUME IInv, PreLocked \/ PreTerm \/ PreOther PROVE IInv'
<1> USE GlueAssumption DEF IInv
<1>1. /\ app.pc = "pre" /\ app' = [app EXCEPT !.pc = "handle"] /\ (Broadcast \/ UNCHANGED ui)
      /\ UNCHANGED <<es, pipe, mutex, sys, proc>>
  BY DEF PreLocked, PreTerm, PreOther, PreUnder, PreRest, AppAt, Goto
<1>2. glue \in GlueType /\ app \in AppType /\ es \in ESType /\ proc \in {"alive", "exited", "crashed"}
  BY Types
<1>3. app' \in AppType /\ app'.pc = "handle" /\ app'.cmd = app.cmd
  BY <1>1, <1>2, AppField
<1>4. ui'.cb = ui.cb /\ ui'.arg = ui.arg /\ (Past' <=> Past)
  BY <1>1, Awakened
<1>5. \A c \in Tracked : (Pending(c)' => Pending(c) /\ c = "TERM") /\ (Pending(c) => Wanted(c) /\ app.cmd = c)
  BY <1>1, <1>3 DEF Pending, Orders
<1>6. /\ app.cmd = "INIT" => /\ Pending("INIT") /\ ui.cb = "window" /\ Past /\ ui.arg # NULL
                             /\ glue.window = NULL /\ glue.pendingWindow = sys.window
                             /\ ui.arg = sys.window
      /\ app.cmd = "TERM" => /\ Pending("TERM") /\ glue.window # NULL
      /\ app.cmd = "DESTROY" => Pending("DESTROY")
  <2>1. \A c \in Tracked : app.cmd = c => Pending(c) /\ Wanted(c)
    BY <1>1 DEF Pending, Orders
  <2> QED BY <2>1 DEF Tracked, Wanted, Loans
<1>7. /\ glue' \in GlueType /\ glue'.saved = glue.saved /\ glue'.stateSaved = glue.stateSaved
      /\ glue'.window = IF app.cmd = "INIT" THEN glue.pendingWindow ELSE glue.window
      /\ glue'.inputQueue = IF app.cmd = "INPUT" THEN glue.pendingInputQueue ELSE glue.inputQueue
      /\ glue'.pendingWindow = glue.pendingWindow /\ glue'.pendingInputQueue = glue.pendingInputQueue
      /\ glue'.destroyRequested = (glue.destroyRequested \/ app.cmd = "DESTROY")
      /\ glue'.destroyed = glue.destroyed
  <2>1. CASE PreLocked
    <3>1. CASE app.cmd = "INPUT"
      BY <1>2, <2>1, <3>1 DEF PreLocked, GlueType
    <3>2. CASE app.cmd = "INIT"
      BY <1>2, <2>1, <3>2 DEF PreLocked, GlueType
    <3>3. CASE app.cmd \in States
      <4>1. glue' = [glue EXCEPT !.activityState = app.cmd]
        BY <2>1, <3>3 DEF PreLocked, States
      <4>2. app.cmd \notin {"INPUT", "INIT", "DESTROY"}
        BY <3>3 DEF States
      <4> QED BY <1>2, <3>3, <4>1, <4>2 DEF GlueType
    <3> QED BY <2>1, <3>1, <3>2, <3>3 DEF PreLocked, PreUnder
  <2>2. CASE PreTerm
    <3>1. glue' = glue /\ app.cmd = "TERM"
      BY <2>2 DEF PreTerm, PreUnder
    <3> QED BY <1>2, <3>1 DEF GlueType
  <2>3. CASE PreOther
    BY <1>2, <2>3 DEF PreOther, PreUnder, GlueType
  <2> QED BY <2>1, <2>2, <2>3
<1>8. Uses'
  <2>1. es'.window # NULL => es'.window = glue'.window
    BY <1>1, <1>6, <1>7 DEF Uses
  <2>2. app.cmd = "INIT" => glue'.window # NULL
    BY <1>6, <1>7
  <2> QED BY <1>1, <1>3, <1>7, <2>1, <2>2 DEF Uses
<1>9. \A c \in Tracked : Wanted(c) => Wanted(c)' \/ (Pending(c) /\ ~Pending(c)')
  <2>1. CASE app.cmd = "INIT"
    BY <1>4, <1>5, <1>6, <1>7, <2>1 DEF Wanted, Tracked
  <2>2. CASE app.cmd = "DESTROY"
    <3>1. Pending("DESTROY") /\ ~Pending("DESTROY")'
      BY <1>5, <1>6, <2>2 DEF Tracked
    <3>2. glue'.window = glue.window
      BY <1>7, <2>2
    <3> QED BY <1>4, <3>1, <3>2 DEF Wanted, Tracked
  <2>3. CASE app.cmd \notin {"INIT", "DESTROY"}
    BY <1>2, <1>4, <1>7, <2>3 DEF Wanted, Tracked, GlueType
  <2> QED BY <2>1, <2>2, <2>3
<1>10. ~glue.destroyed /\ glue'.inputQueue \in {NULL, sys.queue}
  BY <1>1, <1>7 DEF Ends, Loans
<1>11. /\ glue'.window = glue.window
           \/ (glue'.window \in {NULL, sys.window} /\ ui.cb = "window" /\ Past)
       /\ glue'.destroyRequested = glue.destroyRequested \/ Pending("DESTROY")
  BY <1>2, <1>6, <1>7 DEF GlueType
<1> QED BY <1>1, <1>2, <1>3, <1>5, <1>7, <1>8, <1>9, <1>10, <1>11, AppKeeps

(* android_app_post_exec_cmd with the mutex                                *)
LEMMA PostKeeps == ASSUME IInv, PostLocked PROVE IInv'
<1> USE GlueAssumption DEF IInv
<1>1. /\ app.pc = "post" /\ app.cmd \in {"TERM", "SAVE"} /\ Broadcast
      /\ UNCHANGED <<es, pipe, mutex, sys, proc>>
      /\ glue' = IF app.cmd = "TERM" THEN [glue EXCEPT !.window = NULL]
                                     ELSE [glue EXCEPT !.stateSaved = TRUE]
  BY DEF PostLocked, PostUnder, AppAt
<1>2. PICK x \in {"poll", "leave"} : app' = [app EXCEPT !.pc = x] /\ (x = "leave" => glue.destroyRequested)
  BY DEF PostLocked, PostUnder, Processed, Goto
<1>3. glue \in GlueType /\ app \in AppType /\ es \in ESType /\ proc \in {"alive", "exited", "crashed"}
  BY Types
<1>4. app' \in AppType /\ app'.pc = x /\ app'.cmd = app.cmd
  BY <1>2, <1>3, AppField
<1>5. ui'.cb = ui.cb /\ ui'.arg = ui.arg /\ (Past' <=> Past)
  BY <1>1, Awakened
<1>6. /\ glue' \in GlueType /\ glue'.saved = glue.saved
      /\ glue'.stateSaved = (glue.stateSaved \/ app.cmd = "SAVE")
      /\ glue'.window = IF app.cmd = "TERM" THEN NULL ELSE glue.window
      /\ glue'.inputQueue = glue.inputQueue
      /\ glue'.pendingWindow = glue.pendingWindow /\ glue'.pendingInputQueue = glue.pendingInputQueue
      /\ glue'.destroyRequested = glue.destroyRequested /\ glue'.destroyed = glue.destroyed
  <2>1. CASE app.cmd = "TERM"
    BY <1>1, <1>3, <2>1 DEF GlueType
  <2>2. CASE app.cmd = "SAVE"
    BY <1>1, <1>3, <2>2 DEF GlueType
  <2> QED BY <1>1, <2>1, <2>2
<1>7. app.cmd = "TERM" => /\ Pending("TERM") /\ ui.cb = "window" /\ Past /\ ui.arg = NULL
                          /\ es.window = NULL
  <2>1. app.cmd = "TERM" => Pending("TERM") /\ Wanted("TERM")
    BY <1>1 DEF Pending, Orders, Tracked
  <2> QED BY <1>1, <2>1 DEF Wanted, Uses
<1>8. \A c \in Tracked : ~Pending(c)' /\ (Wanted(c) => Wanted(c)' \/ Pending(c))
  <2>1. \A c \in Tracked : ~Pending(c)'
    BY <1>4 DEF Pending
  <2>2. CASE app.cmd = "TERM"
    BY <1>5, <1>6, <1>7, <2>1, <2>2 DEF Wanted, Tracked
  <2>3. CASE app.cmd = "SAVE"
    BY <1>5, <1>6, <2>1, <2>3 DEF Wanted, Tracked
  <2> QED BY <1>1, <2>2, <2>3
<1>9. Uses'
  BY <1>1, <1>4, <1>6, <1>7 DEF Uses
<1>10. ~glue.destroyed /\ glue.inputQueue \in {NULL, sys.queue}
  BY <1>1 DEF Ends, Loans
<1> QED BY <1>1, <1>2, <1>3, <1>4, <1>6, <1>7, <1>8, <1>9, <1>10, AppKeeps

LEMMA DestroyKeeps == ASSUME IInv, Destroy PROVE IInv'
<1> USE GlueAssumption DEF IInv
<1>1. /\ app.pc = "destroy" /\ app' = [app EXCEPT !.pc = "done"] /\ glue' = [glue EXCEPT !.destroyed = TRUE]
      /\ Broadcast /\ UNCHANGED <<es, pipe, mutex, sys, proc>>
  BY DEF Destroy, AppAt, Goto
<1>2. glue \in GlueType /\ app \in AppType /\ es \in ESType /\ proc \in {"alive", "exited", "crashed"}
  BY Types
<1>3. app' \in AppType /\ app'.pc = "done" /\ app'.cmd = app.cmd
  BY <1>1, <1>2, AppField
<1>4. /\ glue' \in GlueType /\ glue'.saved = glue.saved /\ glue'.window = glue.window
      /\ glue'.pendingWindow = glue.pendingWindow /\ glue'.stateSaved = glue.stateSaved
      /\ glue'.inputQueue = glue.inputQueue /\ glue'.pendingInputQueue = glue.pendingInputQueue
      /\ glue'.destroyRequested = glue.destroyRequested
  BY <1>1, <1>2 DEF GlueType
<1>5. \A c \in Tracked : ~Pending(c)' /\ (Wanted(c)' <=> Wanted(c))
  <2>1. ui'.cb = ui.cb /\ ui'.arg = ui.arg /\ (Past' <=> Past)
    BY <1>1, Awakened
  <2> QED BY <1>3, <1>4, <2>1 DEF Wanted, Pending
<1>6. /\ Uses' /\ ~glue.destroyed /\ glue.inputQueue \in {NULL, sys.queue}
      /\ glue.destroyRequested /\ glue.saved = NULL
  BY <1>1, <1>3, <1>4 DEF Uses, Ends, Loans
<1> QED BY <1>1, <1>2, <1>3, <1>4, <1>5, <1>6, AppKeeps

LEMMA Inductive == IInv /\ [Next]_vars => IInv'
<1> SUFFICES ASSUME IInv, [Next]_vars PROVE IInv'
  OBVIOUS
<1>1. CASE UNCHANGED vars
  BY <1>1 DEF vars, IInv, TypeOK, Loans, Orders, Uses, Ends, Past, Wanted, Unread, Pending
<1>2. CASE UIStep
  BY <1>2, LockKeeps, WriteKeeps, ReturnKeeps, WaitKeeps DEF UIStep
<1>3. CASE AppStep
  BY <1>3, EntryKeeps, ReadKeeps, PreKeeps, StaySteps, PostKeeps, DestroyKeeps DEF AppStep
<1> QED BY <1>1, <1>2, <1>3, FrameworkKeeps DEF Next
-----------------------------------------------------------------------------
(* The structure, the client, the pipe and both threads keep their types,  *)
(* whatever the capacity of the pipe and the number of windows.            *)
THEOREM TypeCorrect == Spec => []TypeOK
<1>1. IInv => TypeOK
  BY DEF IInv
<1> QED BY <1>1, Initially, Inductive, PTL DEF Spec

(* Handlers of INIT_WINDOW and TERM_WINDOW, and the drawing that copies    *)
(* the pointer and takes no lock, see the window the framework has lent.   *)
THEOREM WindowIsLent == Spec => []UsesLentWindow
<1>1. IInv => UsesLentWindow
  <2> SUFFICES ASSUME IInv PROVE UsesLentWindow
    OBVIOUS
  <2>1. glue.window # NULL => glue.window = sys.window
    BY DEF IInv, Loans
  <2>2. app.pc = "handle" /\ app.cmd = "TERM" => glue.window # NULL
    BY DEF IInv, Orders, Tracked, Pending, Wanted
  <2> QED BY <2>1, <2>2 DEF UsesLentWindow, IInv, Uses
<1> QED BY <1>1, Initially, Inductive, PTL DEF Spec

(* android_app_free releases the structure behind the last use of the      *)
(* application thread, with nothing left in the pipe.                      *)
THEOREM FreedLastOfAll == Spec => []FreedLast
<1>1. IInv => FreedLast
  BY DEF IInv, FreedLast, Ends, TypeOK
<1> QED BY <1>1, Initially, Inductive, PTL DEF Spec

(* The steps that can change the saved state.                              *)
LEMMA SavedBy ==
  ASSUME IInv, Next, glue'.saved # glue.saved
  PROVE  \/ \E saved \in {NULL, "old"}, outcome \in {"ok", "noPipe", "noThread"} : Create(saved, outcome)
         \/ UIReturn /\ ui.cb = "save"
         \/ ReadSave \/ (Handle /\ app.cmd = "SAVE") \/ PostResume \/ Leave
<1>1. glue \in GlueType
  BY Types DEF IInv
<1>2. CASE Framework
  BY <1>2 DEF Framework, NullInstance, OnSaveInstanceState, OnDestroy, Nudge, Unchanged,
     OnNativeWindowDestroyed, OnInputQueueDestroyed, OnState, OnNativeWindowCreated, OnInputQueueCreated
<1>3. CASE UIStep
  <2>1. ~UILock
    BY <1>1 DEF UILock, GlueType
  <2> QED BY <1>3, <2>1 DEF UIStep, UIWrite, UIReturn, UITestFails, UISleep, UIWake
<1>4. CASE AppStep
  <2>1. ~AppEntry /\ ~Destroy /\ ~PostLocked
    BY <1>1 DEF AppEntry, Destroy, PostLocked, GlueType
  <2>2. ~PreOther /\ ~PreTerm
    BY <1>1 DEF PreOther, PreTerm, GlueType
  <2>3. ~PreLocked
    BY <1>1 DEF PreLocked, PreUnder, GlueType
  <2> QED BY <1>4, <2>1, <2>2, <2>3
          DEF AppStep, ReadCmd, Handle, EsMainFails, PostOther, Draw, Drawn
<1> QED BY <1>2, <1>3, <1>4 DEF Next

(* What onSaveInstanceState hands back was stored by a handler for this    *)
(* very request: the state of an earlier instance is freed first.          *)
THEOREM SavedIsFresh == Spec => SaveReturnsFresh
<1> DEFINE Fresh == ui.cb = "save" /\ ui'.pc = "idle" => glue.saved # "old"
<1>1. IInv /\ [Next]_vars => [Fresh]_vars
  <2> SUFFICES ASSUME IInv, Next, ui.cb = "save", ui'.pc = "idle" PROVE glue.saved # "old"
    OBVIOUS
  <2>1. ui.pc # "idle" /\ ui \in UIType
    BY Types DEF IInv, Ends
  <2>2. ~Framework
    BY <2>1 DEF Framework, Create, NullInstance, OnSaveInstanceState, OnDestroy, Nudge, Idle, Alive,
       OnNativeWindowDestroyed, OnInputQueueDestroyed, OnState, OnNativeWindowCreated, OnInputQueueCreated
  <2>3. ~(Broadcast \/ UNCHANGED ui)
    BY <2>1, Awakened DEF IInv
  <2>4. ~AppStep
    BY <2>3 DEF AppStep, AppEntry, ReadCmd, ReadSave, PreLocked, PreTerm, PreOther, Handle, EsMainFails,
       PostLocked, PostResume, PostOther, Draw, Drawn, Leave, Destroy
  <2>5. UIReturn
    BY <2>1, <2>2, <2>4 DEF Next, UIStep, UILock, UIWrite, UITestFails, UISleep, UIWake, UIAt, UIType
  <2> QED BY <2>5 DEF UIReturn, Done, IInv, Uses
<1> QED BY <1>1, Initially, Inductive, PTL DEF Spec, SaveReturnsFresh

(* The state of an earlier instance is dropped only behind RESUME, for a   *)
(* SAVE_STATE, or when the application leaves.                             *)
THEOREM OldStateKept == Spec => OldStateUntilResume
<1> DEFINE Kept == glue.saved = "old" /\ glue'.saved # "old" =>
              \/ app.pc = "post" /\ app.cmd = "RESUME"
              \/ app.pc = "readSave"
              \/ app.pc = "leave"
<1>1. IInv /\ [Next]_vars => [Kept]_vars
  <2> SUFFICES ASSUME IInv, Next, glue.saved = "old", glue'.saved # "old" PROVE Kept
    OBVIOUS
  <2>1. CASE \E saved \in {NULL, "old"}, outcome \in {"ok", "noPipe", "noThread"} : Create(saved, outcome)
    BY <2>1, GlueAssumption DEF Create, IInv, Ends
  <2>2. CASE UIReturn /\ ui.cb = "save"
    BY <2>2 DEF UIReturn, Done, IInv, Uses
  <2>3. CASE ReadSave \/ PostResume \/ Leave
    BY <2>3 DEF ReadSave, PostResume, PostUnder, Leave, AppAt
  <2>4. CASE Handle /\ app.cmd = "SAVE"
    BY <2>4 DEF Handle, AppAt, IInv, Uses
  <2> QED BY <2>1, <2>2, <2>3, <2>4, SavedBy
<1> QED BY <1>1, Initially, Inductive, PTL DEF Spec, OldStateUntilResume
-----------------------------------------------------------------------------
(* Window and queue are exchanged as Lease says: a loan is taken up when   *)
(* it has been made, and called back only when it was let go.              *)
LEMMA LeaseInitially == Init => WindowLoan!LeaseInit /\ QueueLoan!LeaseInit
  BY DEF Init, NewGlue, WindowLoan!LeaseInit, QueueLoan!LeaseInit

LEMMA LeaseFramework ==
  ASSUME IInv, Framework
  PROVE  /\ [WindowLoan!LeaseNext]_(WindowLoan!leaseVars)
         /\ [QueueLoan!LeaseNext]_(QueueLoan!leaseVars)
<1> USE GlueAssumption DEF WindowLoan!LeaseNext, WindowLoan!leaseVars, QueueLoan!LeaseNext, QueueLoan!leaseVars
<1>1. sys \in SysType /\ glue \in GlueType
  BY Types DEF IInv
<1>2. ASSUME NEW saved \in {NULL, "old"}, NEW outcome \in {"ok", "noPipe", "noThread"}, Create(saved, outcome)
      PROVE  UNCHANGED <<sys.window, sys.queue, glue.window, glue.inputQueue>>
  <2>1. /\ glue.window = NULL /\ glue.inputQueue = NULL
    BY <1>2 DEF Create, Idle, IInv, Ends, Loans
  <2>2. glue'.window = NULL /\ glue'.inputQueue = NULL
    BY <1>2 DEF Create, NewGlue
  <2>3. sys'.window = sys.window /\ sys'.queue = sys.queue
    BY <1>1, <1>2 DEF Create, SysType
  <2> QED BY <2>1, <2>2, <2>3
<1>3. CASE NullInstance \/ OnSaveInstanceState \/ OnDestroy \/ Nudge
           \/ OnNativeWindowDestroyed \/ OnInputQueueDestroyed
  BY <1>3 DEF NullInstance, OnSaveInstanceState, OnDestroy, Nudge, Unchanged,
     OnNativeWindowDestroyed, OnInputQueueDestroyed
<1>4. ASSUME NEW state \in States, OnState(state)
      PROVE  UNCHANGED <<sys.window, sys.queue, glue.window, glue.inputQueue>>
  BY <1>1, <1>4 DEF OnState, Unchanged, SysType
<1>5. ASSUME NEW w \in Windows, OnNativeWindowCreated(w)
      PROVE  WindowLoan!Lend /\ UNCHANGED <<sys.queue, glue.inputQueue>>
  BY <1>1, <1>5 DEF OnNativeWindowCreated, Unchanged, SysType, WindowLoan!Lend
<1>6. ASSUME NEW q \in Queues, OnInputQueueCreated(q)
      PROVE  QueueLoan!Lend /\ UNCHANGED <<sys.window, glue.window>>
  BY <1>1, <1>6 DEF OnInputQueueCreated, Unchanged, SysType, QueueLoan!Lend
<1> QED BY <1>2, <1>3, <1>4, <1>5, <1>6 DEF Framework

LEMMA LeaseUI ==
  ASSUME IInv, UIStep
  PROVE  /\ [WindowLoan!LeaseNext]_(WindowLoan!leaseVars)
         /\ [QueueLoan!LeaseNext]_(QueueLoan!leaseVars)
<1> USE GlueAssumption DEF WindowLoan!LeaseNext, WindowLoan!leaseVars, QueueLoan!LeaseNext, QueueLoan!leaseVars
<1>1. sys \in SysType /\ glue \in GlueType
  BY Types DEF IInv
<1>2. glue'.window = glue.window /\ glue'.inputQueue = glue.inputQueue
  <2>1. UILock \/ UIReturn \/ glue' = glue
    BY DEF UIStep, UIWrite, UITestFails, UISleep, UIWake
  <2>2. ASSUME UILock PROVE glue'.window = glue.window /\ glue'.inputQueue = glue.inputQueue
    BY <1>1, <2>2 DEF UILock, GlueType
  <2>3. ASSUME UIReturn PROVE glue'.window = glue.window /\ glue'.inputQueue = glue.inputQueue
    BY <1>1, <2>3 DEF UIReturn, GlueType
  <2> QED BY <2>1, <2>2, <2>3
<1>3. CASE UIReturn /\ ui.cb = "window"
  <2>1. sys'.window = ui.arg /\ sys'.queue = sys.queue
    BY <1>1, <1>3 DEF UIReturn, SysType
  <2>2. ui.arg = glue.window /\ ui.arg \in {NULL, sys.window}
    BY <1>3 DEF UIReturn, UIAt, Done, IInv, Loans, Past
  <2> QED BY <1>2, <2>1, <2>2 DEF WindowLoan!CallBack
<1>4. CASE UIReturn /\ ui.cb = "input"
  <2>1. sys'.queue = ui.arg /\ sys'.window = sys.window
    BY <1>1, <1>4 DEF UIReturn, SysType
  <2>2. ui.arg = glue.inputQueue /\ ui.arg \in {NULL, sys.queue}
    BY <1>4 DEF UIReturn, UIAt, Done, IInv, Loans, Past
  <2> QED BY <1>2, <2>1, <2>2 DEF QueueLoan!CallBack
<1>5. CASE UIReturn /\ ui.cb \notin {"window", "input"}
  <2>1. sys'.window = sys.window /\ sys'.queue = sys.queue
    <3>1. CASE ui.cb = "destroy"
      BY <1>1, <1>5, <3>1 DEF UIReturn, SysType
    <3>2. CASE ui.cb # "destroy"
      BY <1>5, <3>2 DEF UIReturn
    <3> QED BY <3>1, <3>2
  <2> QED BY <1>2, <2>1
<1>6. CASE ~UIReturn
  BY <1>2, <1>6 DEF UIStep, UILock, UIWrite, UITestFails, UISleep, UIWake
<1> QED BY <1>3, <1>4, <1>5, <1>6

LEMMA LeaseApp ==
  ASSUME IInv, AppStep
  PROVE  /\ [WindowLoan!LeaseNext]_(WindowLoan!leaseVars)
         /\ [QueueLoan!LeaseNext]_(QueueLoan!leaseVars)
<1> USE GlueAssumption DEF WindowLoan!LeaseNext, WindowLoan!leaseVars, QueueLoan!LeaseNext, QueueLoan!leaseVars
<1>1. sys \in SysType /\ glue \in GlueType /\ sys' = sys
  BY Types DEF IInv, AppStep, AppEntry, ReadCmd, ReadSave, PreLocked, PreTerm, PreOther, PreRest, Handle,
     EsMainFails, PostLocked, PostResume, PostOther, Draw, Drawn, Leave, Destroy
<1>2. CASE PreLocked /\ app.cmd = "INPUT"
  <2>1. glue'.inputQueue = glue.pendingInputQueue /\ glue'.window = glue.window
    BY <1>1, <1>2 DEF PreLocked, GlueType
  <2>2. glue.pendingInputQueue \in {NULL, sys.queue} /\ glue.inputQueue \in {NULL, sys.queue}
    BY DEF IInv, Loans
  <2> QED BY <1>1, <2>1, <2>2 DEF QueueLoan!TakeUp, QueueLoan!LetGo
<1>3. CASE PreLocked /\ app.cmd = "INIT"
  <2>1. glue'.window = glue.pendingWindow /\ glue'.inputQueue = glue.inputQueue
    BY <1>1, <1>3 DEF PreLocked, GlueType
  <2>2. Wanted("INIT")
    BY <1>3 DEF PreLocked, PreUnder, AppAt, IInv, Orders, Tracked, Pending
  <2>3. glue.window = NULL /\ glue.pendingWindow = sys.window /\ sys.window # NULL
    BY <2>2 DEF Wanted, IInv, Loans
  <2> QED BY <1>1, <2>1, <2>3 DEF WindowLoan!TakeUp
<1>4. CASE PostLocked /\ app.cmd = "TERM"
  <2>1. glue'.window = NULL /\ glue'.inputQueue = glue.inputQueue
    BY <1>1, <1>4 DEF PostLocked, GlueType
  <2> QED BY <1>1, <2>1 DEF WindowLoan!LetGo
<1>5. CASE ~(PreLocked /\ app.cmd \in {"INPUT", "INIT"}) /\ ~(PostLocked /\ app.cmd = "TERM")
  <2>1. glue'.window = glue.window /\ glue'.inputQueue = glue.inputQueue
    <3>1. CASE PreLocked
      BY <1>1, <1>5, <3>1 DEF PreLocked, GlueType
    <3>2. CASE PostLocked
      BY <1>1, <1>5, <3>2 DEF PostLocked, GlueType
    <3>3. CASE AppEntry \/ PreOther \/ PreTerm \/ Destroy
      BY <1>1, <3>3 DEF AppEntry, PreOther, PreTerm, Destroy, GlueType
    <3>4. CASE ReadSave \/ PostResume \/ Leave \/ Handle
      BY <1>1, <3>4 DEF ReadSave, PostResume, Leave, FreeSavedState, Handle, GlueType
    <3>5. CASE ReadCmd \/ EsMainFails \/ PostOther \/ Draw \/ Drawn
      BY <3>5 DEF ReadCmd, EsMainFails, PostOther, Draw, Drawn
    <3> QED BY <3>1, <3>2, <3>3, <3>4, <3>5 DEF AppStep
  <2> QED BY <1>1, <2>1
<1> QED BY <1>2, <1>3, <1>4, <1>5

(* The two refinements: the window and the input queue of the structure    *)
(* implement Lease.                                                        *)
THEOREM Refinement == Spec => ImplementsLease
<1>1. ASSUME IInv, [Next]_vars
      PROVE  /\ [WindowLoan!LeaseNext]_(WindowLoan!leaseVars)
             /\ [QueueLoan!LeaseNext]_(QueueLoan!leaseVars)
  <2>1. CASE UNCHANGED vars
    BY <2>1 DEF vars, WindowLoan!leaseVars, QueueLoan!leaseVars
  <2> QED BY <1>1, <2>1, LeaseFramework, LeaseUI, LeaseApp DEF Next
<1> QED BY <1>1, LeaseInitially, Initially, Inductive, PTL
        DEF Spec, ImplementsLease, WindowLoan!LeaseSpec, QueueLoan!LeaseSpec
===============================================================================
